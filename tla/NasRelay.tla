------------------------------ MODULE NasRelay ------------------------------
(***************************************************************************)
(* What the CU-CP promises to the UEs and to the AMF: it is a relay of NAS *)
(* PDUs.  It alters no PDU, and never shows one side a PDU before the PDU  *)
(* of the other side that it answers.  Once a UE has been sent the last    *)
(* request before its Registration Accept, the relay may send an empty PDU *)
(* instead of an Accept; otherwise it makes none up.  To which UE a        *)
(* downlink PDU is addressed is not part of the promise.  There are no     *)
(* contexts, no identifiers and no goroutines here: how many of these PDUs *)
(* are under way at once is the relay's own business.                      *)
(*                                                                         *)
(* A NAS PDU is <<a, n, c>>: the UE, the step of the registration and the  *)
(* number of the retransmission (see CuCp).                                *)
(***************************************************************************)
EXTENDS Integers

CONSTANTS Attach, Rounds, Retries, NoNas

VARIABLES
  up,   \* the NAS PDUs that were passed on to the AMF
  down  \* the NAS PDUs that were passed on to the UEs

vars == <<up, down>>

Last == Rounds + 1
Off == Rounds + 2
Nas == Attach \X (0 .. Off) \X (0 .. Retries)

TypeOK == up \subseteq Nas /\ down \subseteq Nas \cup {NoNas}

Init == up = {} /\ down = {}

\* A UE speaks first, or answers what it was sent, or is switched off.
Uplink(a, n, c) ==
  /\ \/ n = 0
     \/ n = Off
     \/ <<a, n, c>> \in down
  /\ up' = up \cup {<<a, n, c>>}
  /\ UNCHANGED down

\* The AMF takes the next step once it has the answer to the one before.
Downlink(a, n, c) ==
  /\ n \in 1 .. Last
  /\ \E d \in 0 .. Retries : <<a, n - 1, d>> \in up
  /\ down' = down \cup {<<a, n, c>>}
  /\ UNCHANGED up

\* An empty PDU, in place of an Accept that is not there yet.
Blank(a, c) ==
  /\ <<a, Rounds, c>> \in down
  /\ down' = down \cup {NoNas}
  /\ UNCHANGED up

Next ==
  \E a \in Attach, n \in 0 .. Off, c \in 0 .. Retries :
    Uplink(a, n, c) \/ Downlink(a, n, c) \/ Blank(a, c)

Spec == Init /\ [][Next]_vars

\* What is relayed is a prefix of the registration: no step of it is skipped,
\* in either direction.
InOrder ==
  \A a \in Attach, n \in 1 .. Last, c \in 0 .. Retries :
    /\ <<a, n, c>> \in up => <<a, n, c>> \in down
    /\ <<a, n, c>> \in down => \E d \in 0 .. Retries : <<a, n - 1, d>> \in up
=============================================================================
