------------------------------ MODULE F1Server ------------------------------
(***************************************************************************)
(* The F1AP server of the CU-CP: the SCTP accept loop, one reader          *)
(* goroutine per association, and the F1 Setup procedure, handled in a     *)
(* goroutine of its own that learns from the shared cu.TempDuConn which    *)
(* association to answer on.                                               *)
(*                                                                         *)
(* A DU sends one F1SetupRequest on an association, so the DU context that *)
(* the request creates is named after the association.                     *)
(***************************************************************************)
EXTENDS Plmn

CONSTANTS
  Conn,        \* SCTP associations that DUs open, one F1SetupRequest each
  NoConn,      \* nil, as an association or a DU context
  DuId,        \* gNB-DU ID in the request of an association
  Cells,       \* number of served cells in it
  ServedPLMNs, \* networks of its first cell
  CuNetwork,   \* mcc and mnc of cu.ControlInfo
  Overlap      \* whether the DUs connect while the CU-CP still serves another
               \* association

ASSUME ConnAssumption ==
  /\ NoConn \notin Conn
  /\ DuId \in [Conn -> Nat]
  /\ Cells \in [Conn -> Nat]
  /\ Overlap \in BOOLEAN
ASSUME NetworkAssumption ==
  /\ ServedPLMNs \in [Conn -> Seq(Network)]
  /\ CuNetwork \in Network

VARIABLES
  conn,        \* the association and its reader goroutine
  req,         \* the goroutine of the F1SetupRequest
  TempDuConn,  \* cu.TempDuConn
  DuPool,      \* cu.DuPool: DU id -> context
  DU,          \* cu.DU
  SctpConn,    \* the SctpConn field of each DU context
  out,         \* F1SetupResponses written: on an association, about a context
  ueSent,      \* associations whose DU has reported a UE
  panic        \* what ended the process

vars == <<conn, req, TempDuConn, DuPool, DU, SctpConn, out, ueSent, panic>>

DuIds == {DuId[c] : c \in Conn}

TypeOK ==
  /\ conn \in [Conn -> {"none", "accepted", "open", "closed"}]
  /\ req \in [Conn -> {"unsent", "start", "store", "respond", "send", "done"}]
  /\ TempDuConn \in Conn \cup {NoConn}
  /\ DuPool \in [DuIds -> Conn \cup {NoConn}]
  /\ DU \in Conn \cup {NoConn}
  /\ SctpConn \in [Conn -> Conn \cup {NoConn}]
  /\ out \subseteq [to : Conn, about : Conn]
  /\ ueSent \subseteq Conn
  /\ panic \in {"none", "cells", "cu.DU"}

Init ==
  /\ conn = [c \in Conn |-> "none"]
  /\ req = [c \in Conn |-> "unsent"]
  /\ TempDuConn = NoConn
  /\ DuPool = [i \in DuIds |-> NoConn]
  /\ DU = NoConn
  /\ SctpConn = [c \in Conn |-> NoConn]
  /\ out = {}
  /\ ueSent = {}
  /\ panic = "none"

-----------------------------------------------------------------------------
(***************************************************************************)
(* Associations.                                                           *)
(***************************************************************************)
Idle(c) == conn[c] \in {"none", "closed"} /\ req[c] \in {"unsent", "done"}

\* A DU connects; f1apAcceptLoop accepts and configures the association and
\* starts its reader, or closes it when the configuration fails.  Nothing in
\* the code keeps associations apart: ~Overlap is an assumption about the DUs.
F1apAcceptLoop(c) ==
  /\ panic = "none"
  /\ conn[c] = "none"
  /\ Overlap \/ \A d \in Conn \ {c} : Idle(d)
  /\ \E s \in {"accepted", "closed"} : conn' = [conn EXCEPT ![c] = s]
  /\ UNCHANGED <<req, TempDuConn, DuPool, DU, SctpConn, out, ueSent, panic>>

\* Mutant: the association is not recorded.
HandleF1APConnectionForgets(c) ==
  /\ panic = "none"
  /\ conn[c] = "accepted"
  /\ conn' = [conn EXCEPT ![c] = "open"]
  /\ TempDuConn' = IF TempDuConn = NoConn THEN c ELSE TempDuConn
  /\ UNCHANGED <<req, DuPool, DU, SctpConn, out, ueSent, panic>>

\* handleF1APConnection before its loop.
HandleF1APConnection(c) ==
  /\ panic = "none"
  /\ conn[c] = "accepted"
  /\ conn' = [conn EXCEPT ![c] = "open"]
  /\ TempDuConn' = c
  /\ UNCHANGED <<req, DuPool, DU, SctpConn, out, ueSent, panic>>

\* The loop reads the F1SetupRequest and starts its goroutine.
ReadF1SetupRequest(c) ==
  /\ panic = "none"
  /\ conn[c] = "open"
  /\ req[c] = "unsent"
  /\ req' = [req EXCEPT ![c] = "start"]
  /\ UNCHANGED <<conn, TempDuConn, DuPool, DU, SctpConn, out, ueSent, panic>>

\* The loop meets the end of the association or a read error and returns;
\* the contexts are left as they are.
ConnectionClosed(c) ==
  /\ panic = "none"
  /\ conn[c] = "open"
  /\ conn' = [conn EXCEPT ![c] = "closed"]
  /\ UNCHANGED <<req, TempDuConn, DuPool, DU, SctpConn, out, ueSent, panic>>

-----------------------------------------------------------------------------
(***************************************************************************)
(* F1 Setup.                                                               *)
(***************************************************************************)

\* The tests of the request; only the first network of the cell counts.
Acceptable(c) ==
  /\ Cells[c] = 1
  /\ ServedPLMNs[c] # <<>>
  /\ plmnMatches(PlmnIdentity(ServedPLMNs[c][1]),
                 GetMccAndMncInOctets(CuNetwork))

\* Mutant: the context is stored under the transaction id, which is 0.
HandleF1SetupRequestKey(c) ==
  /\ panic = "none"
  /\ req[c] = "start"
  /\ DuPool' = IF Acceptable(c)
                 THEN [i \in DuIds \cup {0} |-> IF i = 0 THEN c ELSE DuPool[i]]
                 ELSE DuPool
  /\ req' = [req EXCEPT ![c] = IF Acceptable(c) THEN "store" ELSE "done"]
  /\ UNCHANGED <<conn, TempDuConn, DU, SctpConn, out, ueSent, panic>>

\* handleF1SetupRequest up to the DuPool entry: it looks at the first cell
\* before it counts the cells, and refuses without an answer.
HandleF1SetupRequest(c) ==
  /\ panic = "none"
  /\ req[c] = "start"
  /\ IF Cells[c] = 0
       THEN panic' = "cells" /\ UNCHANGED <<req, DuPool>>
       ELSE /\ UNCHANGED panic
            /\ IF Acceptable(c)
                 THEN /\ DuPool' = [DuPool EXCEPT ![DuId[c]] = c]
                      /\ req' = [req EXCEPT ![c] = "store"]
                 ELSE /\ req' = [req EXCEPT ![c] = "done"]
                      /\ UNCHANGED DuPool
  /\ UNCHANGED <<conn, TempDuConn, DU, SctpConn, out, ueSent>>

\* Mutant: cu.DU is set only by the first DU.
StoreDUOnce(c) ==
  /\ panic = "none"
  /\ req[c] = "store"
  /\ DU' = IF DU = NoConn THEN c ELSE DU
  /\ req' = [req EXCEPT ![c] = "respond"]
  /\ UNCHANGED <<conn, TempDuConn, DuPool, SctpConn, out, ueSent, panic>>

\* Mutant: cu.DU is not set.
StoreDUNever(c) ==
  /\ panic = "none"
  /\ req[c] = "store"
  /\ req' = [req EXCEPT ![c] = "respond"]
  /\ UNCHANGED <<conn, TempDuConn, DuPool, DU, SctpConn, out, ueSent, panic>>

\* cu.DU = duCtx.
StoreDU(c) ==
  /\ panic = "none"
  /\ req[c] = "store"
  /\ DU' = c
  /\ req' = [req EXCEPT ![c] = "respond"]
  /\ UNCHANGED <<conn, TempDuConn, DuPool, SctpConn, out, ueSent, panic>>

\* SendF1SetupResponse up to SendF1ap: takes cu.TempDuConn.
SendF1SetupResponse(c) ==
  /\ panic = "none"
  /\ req[c] = "respond"
  /\ SctpConn' = [SctpConn EXCEPT ![c] = TempDuConn]
  /\ req' = [req EXCEPT ![c] = "send"]
  /\ UNCHANGED <<conn, TempDuConn, DuPool, DU, out, ueSent, panic>>

\* SendF1ap of the response; a failed write is only logged.
SendF1ap(c) ==
  /\ panic = "none"
  /\ req[c] = "send"
  /\ out' = IF conn[SctpConn[c]] = "open"
              THEN out \cup {[to |-> SctpConn[c], about |-> c]}
              ELSE out
  /\ req' = [req EXCEPT ![c] = "done"]
  /\ UNCHANGED <<conn, TempDuConn, DuPool, DU, SctpConn, ueSent, panic>>

\* A DU that has a response reports a UE; the handlers of the UE's messages
\* use cu.DU without a check.
DispatchUe(c) ==
  /\ panic = "none"
  /\ conn[c] = "open"
  /\ \E r \in out : r.to = c
  /\ c \notin ueSent
  /\ ueSent' = ueSent \cup {c}
  /\ panic' = IF DU = NoConn THEN "cu.DU" ELSE panic
  /\ UNCHANGED <<conn, req, TempDuConn, DuPool, DU, SctpConn, out>>

-----------------------------------------------------------------------------
Setup(c) ==
  \/ HandleF1SetupRequest(c)
  \/ StoreDU(c)
  \/ SendF1SetupResponse(c)
  \/ SendF1ap(c)

Next ==
  \E c \in Conn :
    \/ F1apAcceptLoop(c)
    \/ HandleF1APConnection(c)
    \/ ReadF1SetupRequest(c)
    \/ ConnectionClosed(c)
    \/ Setup(c)
    \/ DispatchUe(c)

Spec == Init /\ [][Next]_vars

\* Goroutines run; a connected DU sends its request.
Fairness ==
  \A c \in Conn : /\ WF_vars(Setup(c))
                  /\ WF_vars(HandleF1APConnection(c))
                  /\ WF_vars(ReadF1SetupRequest(c))

FairSpec == Spec /\ Fairness

-----------------------------------------------------------------------------
(***************************************************************************)
(* Properties.                                                             *)
(***************************************************************************)
\* A request that deserves an answer, told from the digits.
Valid(c) ==
  Cells[c] = 1 /\ ServedPLMNs[c] # <<>> /\ ServedPLMNs[c][1] = CuNetwork

\* Only DUs of the network of the CU-CP get into DuPool: two networks never
\* look the same in octets, with MNCs of two or of three digits.
OwnNetworkOnly ==
  \A i \in DuIds : DuPool[i] # NoConn => Valid(DuPool[i])

\* No UE message finds cu.DU nil: a DU that has its response comes after
\* cu.DU was set, in every interleaving of associations.
NoNilDu == panic # "cu.DU"

\* The F1SetupResponse to a request is written on the association that the
\* request came from.  The code takes the association from the shared
\* cu.TempDuConn: it is the right one while DUs connect one after the other,
\* and may be another one as soon as two associations overlap.
ResponseToRequester == \A r \in out : r.to = r.about

\* While DUs connect one after the other, the downlink messages of a DU that
\* has its response go to that DU: cu.DU and its association follow a DU
\* that reconnects.
DownlinkFollows ==
  ~Overlap => \A c \in ueSent : conn[c] = "open" =>
                DU # NoConn /\ SctpConn[DU] = c

\* While DUs connect one after the other, a valid F1SetupRequest is answered
\* unless the association or the process ends first.
ValidAnswered ==
  \A c \in Conn :
    ~Overlap /\ conn[c] = "open" /\ Valid(c) ~>
      \/ [to |-> c, about |-> c] \in out
      \/ conn[c] = "closed"
      \/ panic # "none"

\* A request whose DU id is in use by another DU that is connected does not
\* take its place.
NoDuplicateDu ==
  [][\A i \in DuIds :
       LET c == DuPool[i] IN
       c # NoConn /\ conn[c] = "open" => DuPool'[i] = c]_vars
-----------------------------------------------------------------------------
(***************************************************************************)
(* The inductive invariant.                                                *)
(***************************************************************************)
Active == {"start", "store", "respond", "send"}

\* A request comes after its association, its answer after the request, a
\* UE after the answer.
Ordered ==
  /\ \A c \in Conn : conn[c] \in {"none", "accepted"} => req[c] = "unsent"
  /\ \A r \in out : req[r.about] = "done"
  /\ \A c \in ueSent : \E r \in out : r.to = c

\* The pointers that are set whenever a step needs them.
Assigned ==
  /\ \A c \in Conn :
       /\ conn[c] = "open" \/ req[c] \in Active => TempDuConn # NoConn
       /\ req[c] \in {"respond", "send"} => DU # NoConn
       /\ req[c] = "send" => SctpConn[c] # NoConn
  /\ out # {} => DU # NoConn

\* While DUs connect one after the other, the shared pointers are those of
\* the one association that is being served.
Alone ==
  ~Overlap => \A c, d \in Conn : ~Idle(c) /\ ~Idle(d) => c = d

Current ==
  ~Overlap =>
    /\ \A c \in Conn :
         /\ conn[c] = "open" \/ req[c] \in Active => TempDuConn = c
         /\ req[c] \in {"respond", "send"} => DU = c
         /\ req[c] = "send" => SctpConn[c] = c
         /\ SctpConn[c] \in {NoConn, c}
    /\ \A r \in out :
         /\ r.to = r.about
         /\ conn[r.to] = "open" => DU = r.to /\ SctpConn[r.to] = r.to

IInv == Ordered /\ Assigned /\ Alone /\ Current /\ NoNilDu /\ OwnNetworkOnly
=============================================================================
