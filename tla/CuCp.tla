-------------------------------- MODULE CuCp --------------------------------
(***************************************************************************)
(* The UE registration logic of the CU-CP (internal/context): the F1AP,    *)
(* RRC and NGAP handlers and the UE context they share.                    *)
(*                                                                         *)
(* Every message read from an SCTP association is handled by a goroutine   *)
(* of its own (`go cu.dispatchF1(rawMsg)`, `go cu.dispatch(amf, rawMsg)`), *)
(* so handlers interleave freely and start in any order, whatever order    *)
(* the messages arrived in.  A goroutine that has not taken its first step *)
(* cannot be told from a message still in the network: a peer that sends m *)
(* starts the goroutine of m.  No lock is taken anywhere: a handler takes  *)
(* one atomic step between two accesses to shared state that another       *)
(* handler or a peer could tell apart.                                     *)
(*                                                                         *)
(* The specification starts once NG Setup and F1 Setup have succeeded, so  *)
(* cu.AMF and cu.DU are set.  The RRCSetupRequest of attach a creates one  *)
(* context, so that context is named a: cu.UE is an attach or NoUe.        *)
(***************************************************************************)
EXTENDS Integers

CONSTANTS
  Attach,      \* attach attempts: RRC connections that the DU reports
  NoUe,        \* nil, as a *GNBUe
  NoNas,       \* nil, as a NAS PDU
  Rounds,      \* NAS request/response pairs before the initial context setup
  Retries,     \* how often the AMF repeats an unanswered NAS request
  DuUeId,      \* GNB-DU UE F1AP ID that the DU gives to an attach
  AmfUeId,     \* AMF UE NGAP ID that the AMF gives to an attach
  DuId,        \* gNB-DU ID of the only DU
  AmfId,       \* CU-local id of the only AMF
  Malformed,   \* uplink messages that may arrive in a form which a handler
               \* refuses before it has an effect: undecodable, SRB 0, no C1
               \* choice, no body, bad 5G-S-TMSI
  Bodiless,    \* uplink messages that may decode to another choice than the
               \* one the handler dereferences, or lack an optional field
  Incomplete,  \* attaches whose RRCSetupRequest may be refused halfway: bad
               \* UE identity, cell group container missing or undecodable
  SwitchOff,   \* attaches whose UE may be switched off while it registers
  Unprompted,  \* attaches whose UE completes AS security without a command
  Tolerates    \* other deviations from the documented procedure the peers
               \* accept

ASSUME AttachAssumption ==
  /\ NoUe \notin Attach
  /\ Incomplete \subseteq Attach
  /\ SwitchOff \subseteq Attach
  /\ Unprompted \subseteq Attach
ASSUME RoundsAssumption == Rounds \in Nat \ {0} /\ Retries \in Nat
\* TS 38.473: a GNB-DU UE F1AP ID is unique within the DU.
ASSUME IdAssumption ==
  /\ DuUeId \in [Attach -> Nat]
  /\ \A a, b \in Attach : DuUeId[a] = DuUeId[b] => a = b
  /\ AmfUeId \in [Attach -> Nat]
  /\ DuId \in Nat
  /\ AmfId \in Nat
ASSUME NasAssumption ==
  NoNas \notin Attach \X (0 .. Rounds + 2) \X (0 .. Retries)
ASSUME ToleratesAssumption ==
  Tolerates \subseteq {"wrong_dl_ids", "raw_rrc"}

VARIABLES
  cuUE,             \* cu.UE
  IdRrcUeGenerator, \* cu.IdRrcUeGenerator
  ue,               \* the GNBUe contexts
  go,               \* the goroutine of each inbound message
  f1Out,            \* all that was written to the F1 association
  ngOut,            \* all that was written to the NG association
  panic             \* the nil pointer whose dereference ended the process

vars == <<cuUE, IdRrcUeGenerator, ue, go, f1Out, ngOut, panic>>

-----------------------------------------------------------------------------
(***************************************************************************)
(* Data.  A NAS PDU is <<a, k, c>>: c counts its retransmissions (each has *)
(* a NAS sequence number of its own).  Uplink, k = 0 is the Registration   *)
(* Request, Last the Registration Complete and Off the Deregistration      *)
(* Request of a switch-off; downlink, Last is the Registration Accept; in  *)
(* between, k answers k.                                                   *)
(***************************************************************************)
Last == Rounds + 1
Off == Rounds + 2
Nas == Attach \X (0 .. Off) \X (0 .. Retries)

\* Inbound messages.
Msg == [type : {"RRCSetupRequest", "RRCSetupComplete"},
        ue : Attach, k : {0}, try : {0}]
         \cup [type : {"ULInformationTransfer", "DownlinkNASTransport"},
               ue : Attach, k : 1 .. Rounds, try : 0 .. Retries]
         \cup [type : {"ULInformationTransfer"},
               ue : Attach, k : {Last, Off}, try : {0}]
         \cup [type : {"InitialContextSetupRequest", "SecurityModeComplete",
                       "UEContextSetupResponse",
                       "RRCReconfigurationComplete"},
               ue : Attach, k : {Last}, try : {0}]

\* Inbound RRC messages that handleULRRCMessageTransfer dispatches.
UlTypes == {"RRCSetupComplete", "ULInformationTransfer",
            "SecurityModeComplete", "RRCReconfigurationComplete"}

ASSUME MalformedAssumption ==
  /\ Malformed \subseteq
       {m \in Msg : m.type \in {"RRCSetupRequest"} \cup UlTypes}
  /\ Bodiless \subseteq
       {m \in Msg : m.type \in {"RRCSetupRequest", "RRCSetupComplete",
                                "ULInformationTransfer"}}

\* Outbound messages, with what a peer reads of them.
\* "RawRRCReconfiguration" is an RRC PDU that no F1AP message carries.
F1Msg == [type : {"RRCSetup", "DLInformationTransfer", "SecurityModeCommand",
                  "UEContextSetupRequest", "RRCReconfiguration",
                  "RawRRCReconfiguration"},
          cuId : Nat, duId : Nat, srb : 0 .. 2, nas : Nas \cup {NoNas}]
NgMsg == [type : {"InitialUEMessage", "UplinkNASTransport",
                  "InitialContextSetupResponse", "none"},
          amfUeId : Nat, nas : Nas \cup {NoNas}]

NoBuf == [type |-> "none", amfUeId |-> 0, nas |-> NoNas]

\* UE_DOWN is declared by the code and assigned nowhere.
UeState == {"UE_INITIALIZED", "UE_ONGOING", "UE_READY"}

\* type GNBUe; NrCellId and MasterCellGroup tell whether the pointer is set.
GNBUe == [State : UeState, AmfUeNgapId : Nat, RrcUeId : Nat,
          NrCellId : BOOLEAN, MasterCellGroup : BOOLEAN,
          Context : BOOLEAN, RegistrationAccept : Nas \cup {NoNas}]

Goroutine == [pc : {"unsent", "start", "create", "run", "nas", "initial",
                    "uplink", "respond", "accept", "send", "done"},
              ue : Attach \cup {NoUe}, buf : NgMsg]

TypeOK ==
  /\ cuUE \in Attach \cup {NoUe}
  /\ IdRrcUeGenerator \in Nat
  /\ ue \in [Attach -> GNBUe]
  /\ go \in [Msg -> Goroutine]
  /\ f1Out \subseteq F1Msg
  /\ ngOut \subseteq NgMsg
  /\ panic \in {"none", "message", "cu.UE", "NrCellId", "MasterCellGroup"}

Init ==
  /\ cuUE = NoUe
  /\ IdRrcUeGenerator = 0
  /\ ue = [a \in Attach |->
             [State |-> "UE_INITIALIZED", AmfUeNgapId |-> 1, RrcUeId |-> 0,
              NrCellId |-> FALSE, MasterCellGroup |-> FALSE,
              Context |-> FALSE, RegistrationAccept |-> NoNas]]
  /\ go = [m \in Msg |-> [pc |-> "unsent", ue |-> NoUe, buf |-> NoBuf]]
  /\ f1Out = {}
  /\ ngOut = {}
  /\ panic = "none"
-----------------------------------------------------------------------------
(***************************************************************************)
(* Goroutines.                                                             *)
(***************************************************************************)
In(t, a, n, c) == [type |-> t, ue |-> a, k |-> n, try |-> c]

\* The goroutine of m is about to execute step p.
At(m, p) == panic = "none" /\ go[m].pc = p

Goto(m, p) == go' = [go EXCEPT ![m].pc = p]

\* A nil dereference in any goroutine ends the process.
Panic(pointer) ==
  /\ panic' = pointer
  /\ UNCHANGED <<cuUE, IdRrcUeGenerator, ue, go, f1Out, ngOut>>

-----------------------------------------------------------------------------
(***************************************************************************)
(* Initial UL RRC Message Transfer (RRCSetupRequest).                      *)
(***************************************************************************)

\* handleInitialULRRCMessageTransfer up to the first line of createUE: one
\* load of the generator serves lines 16 and 17.  A CCCH message that is no
\* RRCSetupRequest is dereferenced as one.
HandleInitialULRRCMessageTransfer(a) ==
  LET m == In("RRCSetupRequest", a, 0, 0) IN
  /\ At(m, "start")
  /\ \/ /\ m \in Malformed
        /\ Goto(m, "done")
        /\ UNCHANGED <<cuUE, IdRrcUeGenerator, ue, f1Out, ngOut, panic>>
     \/ m \in Bodiless /\ Panic("message")
     \/ /\ Goto(m, "create")
        /\ ue' = [ue EXCEPT ![a].RrcUeId = IdRrcUeGenerator]
        /\ UNCHANGED <<cuUE, IdRrcUeGenerator, f1Out, ngOut, panic>>

\* Mutant: `--` for `++` on the generator.
CreateUEDown(a) ==
  LET m == In("RRCSetupRequest", a, 0, 0) IN
  /\ At(m, "create")
  /\ IdRrcUeGenerator' = ue[a].RrcUeId - 1
  /\ cuUE' = a
  /\ Goto(m, "run")
  /\ UNCHANGED <<ue, f1Out, ngOut, panic>>

\* Mutant: the new context is not stored in cu.UE.
CreateUEUnpublished(a) ==
  LET m == In("RRCSetupRequest", a, 0, 0) IN
  /\ At(m, "create")
  /\ IdRrcUeGenerator' = ue[a].RrcUeId + 1
  /\ Goto(m, "run")
  /\ UNCHANGED <<cuUE, ue, f1Out, ngOut, panic>>

\* The rest of createUE: store the generator, publish the context.
CreateUE(a) ==
  LET m == In("RRCSetupRequest", a, 0, 0) IN
  /\ At(m, "create")
  /\ IdRrcUeGenerator' = ue[a].RrcUeId + 1
  /\ cuUE' = a
  /\ Goto(m, "run")
  /\ UNCHANGED <<ue, f1Out, ngOut, panic>>

\* Mutant: the cell group of the UE is not kept.
HandleRRCSetupRequestNoCellGroup(a) ==
  LET m == In("RRCSetupRequest", a, 0, 0) IN
  /\ At(m, "run")
  /\ Goto(m, "done")
  /\ ue' = [ue EXCEPT ![a].NrCellId = TRUE]
  /\ f1Out' = f1Out \cup
       {[type |-> "RRCSetup", cuId |-> ue[a].RrcUeId,
         duId |-> DuUeId[a], srb |-> 0, nas |-> NoNas]}
  /\ UNCHANGED <<cuUE, IdRrcUeGenerator, ngOut, panic>>

\* handleRRCSetupRequest after createUE.  The refusals leave the context
\* published, without cell group and cell identity.
HandleRRCSetupRequest(a) ==
  LET m == In("RRCSetupRequest", a, 0, 0) IN
  /\ At(m, "run")
  /\ Goto(m, "done")
  /\ \/ a \in Incomplete /\ UNCHANGED <<ue, f1Out>>
     \/ /\ ue' = [ue EXCEPT ![a].MasterCellGroup = TRUE,
                            ![a].NrCellId = TRUE]
        /\ f1Out' = f1Out \cup
             {[type |-> "RRCSetup", cuId |-> ue[a].RrcUeId,
               duId |-> DuUeId[a], srb |-> 0, nas |-> NoNas]}
  /\ UNCHANGED <<cuUE, IdRrcUeGenerator, ngOut, panic>>

-----------------------------------------------------------------------------
(***************************************************************************)
(* UL RRC Message Transfer.                                                *)
(***************************************************************************)

\* Mutant: the DU UE id is not compared with the one of the context.
HandleULRRCMessageTransferUnchecked(m) ==
  /\ m.type \in UlTypes
  /\ At(m, "start")
  /\ IF cuUE = NoUe
       THEN Panic("cu.UE")
       ELSE /\ \/ m \in Malformed /\ Goto(m, "done")
               \/ go' = [go EXCEPT ![m].pc = "run", ![m].ue = cuUE]
            /\ UNCHANGED <<cuUE, IdRrcUeGenerator, ue, f1Out, ngOut, panic>>

\* handleULRRCMessageTransfer: takes cu.UE, whoever sent the message, and
\* drops the message when the DU UE id is not that context's.
HandleULRRCMessageTransfer(m) ==
  /\ m.type \in UlTypes
  /\ At(m, "start")
  /\ IF cuUE = NoUe
       THEN Panic("cu.UE")
       ELSE /\ \/ /\ DuUeId[m.ue] # DuUeId[cuUE] \/ m \in Malformed
                  /\ Goto(m, "done")
               \/ /\ DuUeId[m.ue] = DuUeId[cuUE]
                  /\ go' = [go EXCEPT ![m].pc = "run", ![m].ue = cuUE]
            /\ UNCHANGED <<cuUE, IdRrcUeGenerator, ue, f1Out, ngOut, panic>>

\* handleRrcSetupComplete before SendNasPdu; it reads the body first.
HandleRrcSetupComplete(m) ==
  /\ m.type = "RRCSetupComplete"
  /\ At(m, "run")
  /\ \/ m \in Bodiless /\ Panic("message")
     \/ /\ ue' = [ue EXCEPT ![go[m].ue].State = "UE_INITIALIZED"]
        /\ Goto(m, "nas")
        /\ UNCHANGED <<cuUE, IdRrcUeGenerator, f1Out, ngOut, panic>>

\* Mutant: the state is set as in handleRrcSetupComplete.
HandleULInformationTransferInitial(m) ==
  /\ m.type = "ULInformationTransfer"
  /\ At(m, "run")
  /\ ue' = [ue EXCEPT ![go[m].ue].State = "UE_INITIALIZED"]
  /\ Goto(m, "nas")
  /\ UNCHANGED <<cuUE, IdRrcUeGenerator, f1Out, ngOut, panic>>

\* handleULInformationTransfer before SendNasPdu.
HandleULInformationTransfer(m) ==
  /\ m.type = "ULInformationTransfer"
  /\ At(m, "run")
  /\ ue' = [ue EXCEPT ![go[m].ue].State = "UE_ONGOING"]
  /\ Goto(m, "nas")
  /\ UNCHANGED <<cuUE, IdRrcUeGenerator, f1Out, ngOut, panic>>

\* SendNasPdu: the state of the context decides which message carries the
\* NAS PDU.  The PDU of a ULInformationTransfer is looked up only now, after
\* the state was set.
SendNasPdu(m) ==
  /\ At(m, "nas")
  /\ \/ /\ m.type = "ULInformationTransfer"
        /\ m \in Bodiless
        /\ Panic("message")
     \/ /\ Goto(m, IF ue[go[m].ue].State = "UE_INITIALIZED"
                      THEN "initial" ELSE "uplink")
        /\ UNCHANGED <<cuUE, IdRrcUeGenerator, ue, f1Out, ngOut, panic>>

\* ngInitialUEMessage, which reads no shared field, and the new state.
NgInitialUEMessage(m) ==
  /\ At(m, "initial")
  /\ go' = [go EXCEPT
       ![m].pc = "send",
       ![m].buf = [type |-> "InitialUEMessage", amfUeId |-> 0,
                   nas |-> <<m.ue, m.k, m.try>>]]
  /\ ue' = [ue EXCEPT ![go[m].ue].State = "UE_ONGOING"]
  /\ UNCHANGED <<cuUE, IdRrcUeGenerator, f1Out, ngOut, panic>>

\* ngUplinkNasTransport: the ids are read from the context now.
NgUplinkNasTransport(m) ==
  /\ At(m, "uplink")
  /\ go' = [go EXCEPT
       ![m].pc = "send",
       ![m].buf = [type |-> "UplinkNASTransport",
                   amfUeId |-> ue[go[m].ue].AmfUeNgapId,
                   nas |-> <<m.ue, m.k, m.try>>]]
  /\ UNCHANGED <<cuUE, IdRrcUeGenerator, ue, f1Out, ngOut, panic>>

\* amf.SendNgap.
SendNgap(m) ==
  /\ m.type \in UlTypes
  /\ At(m, "send")
  /\ ngOut' = ngOut \cup {go[m].buf}
  /\ Goto(m, "done")
  /\ UNCHANGED <<cuUE, IdRrcUeGenerator, ue, f1Out, panic>>

\* handleRRCSecurityModeComplete: dereferences ue.NrCellId.
HandleRRCSecurityModeComplete(m) ==
  LET u == go[m].ue IN
  /\ m.type = "SecurityModeComplete"
  /\ At(m, "run")
  /\ IF ~ue[u].NrCellId
       THEN Panic("NrCellId")
       ELSE /\ f1Out' = f1Out \cup
                 {[type |-> "UEContextSetupRequest", cuId |-> ue[u].RrcUeId,
                   duId |-> DuUeId[u], srb |-> 0, nas |-> NoNas]}
            /\ Goto(m, "done")
            /\ UNCHANGED <<cuUE, IdRrcUeGenerator, ue, ngOut, panic>>

\* Mutant: no answer to the initial context setup.
HandleRRCReconfigurationCompleteSilent(m) ==
  /\ m.type = "RRCReconfigurationComplete"
  /\ At(m, "run")
  /\ ue' = [ue EXCEPT ![go[m].ue].State = "UE_READY"]
  /\ Goto(m, "done")
  /\ UNCHANGED <<cuUE, IdRrcUeGenerator, f1Out, ngOut, panic>>

\* handleRRCReconfigurationComplete, the new state.
HandleRRCReconfigurationComplete(m) ==
  /\ m.type = "RRCReconfigurationComplete"
  /\ At(m, "run")
  /\ ue' = [ue EXCEPT ![go[m].ue].State = "UE_READY"]
  /\ Goto(m, "respond")
  /\ UNCHANGED <<cuUE, IdRrcUeGenerator, f1Out, ngOut, panic>>

\* handleRRCReconfigurationComplete up to amf.SendNgap.
NgInitialContextSetupResponse(m) ==
  /\ At(m, "respond")
  /\ go' = [go EXCEPT
       ![m].pc = "send",
       ![m].buf = [type |-> "InitialContextSetupResponse",
                   amfUeId |-> ue[go[m].ue].AmfUeNgapId, nas |-> NoNas]]
  /\ UNCHANGED <<cuUE, IdRrcUeGenerator, ue, f1Out, ngOut, panic>>

-----------------------------------------------------------------------------
(***************************************************************************)
(* UE Context Setup Response, and the NGAP messages from the AMF.  None of *)
(* them is matched with a UE: all act on whatever cu.UE is.                *)
(***************************************************************************)

\* ue := cu.UE and its first use, the first thing the three handlers do.
LoadUE(m) ==
  /\ m.type \in {"DownlinkNASTransport", "InitialContextSetupRequest",
                 "UEContextSetupResponse"}
  /\ At(m, "start")
  /\ IF cuUE = NoUe
       THEN Panic("cu.UE")
       ELSE /\ go' = [go EXCEPT ![m].pc = "run", ![m].ue = cuUE]
            /\ UNCHANGED <<cuUE, IdRrcUeGenerator, ue, f1Out, ngOut, panic>>

\* Mutant: the AMF UE NGAP ID is not taken over.
HandleNgDownlinkNasTransportForgets(m) ==
  /\ m.type = "DownlinkNASTransport"
  /\ At(m, "run")
  /\ Goto(m, "send")
  /\ UNCHANGED <<cuUE, IdRrcUeGenerator, ue, f1Out, ngOut, panic>>

\* handleNgDownlinkNasTransport, the assignment.
HandleNgDownlinkNasTransport(m) ==
  /\ m.type = "DownlinkNASTransport"
  /\ At(m, "run")
  /\ ue' = [ue EXCEPT ![go[m].ue].AmfUeNgapId = AmfUeId[m.ue]]
  /\ Goto(m, "send")
  /\ UNCHANGED <<cuUE, IdRrcUeGenerator, f1Out, ngOut, panic>>

\* Mutant: the NAS PDU of a later message is sent.
SendDLInformationTransferLater(m) ==
  /\ m.type = "DownlinkNASTransport"
  /\ At(m, "send")
  /\ f1Out' = f1Out \cup
       {[type |-> "DLInformationTransfer", cuId |-> AmfId, duId |-> DuId,
         srb |-> 0, nas |-> <<m.ue, m.k + 1, m.try>>]}
  /\ Goto(m, "done")
  /\ UNCHANGED <<cuUE, IdRrcUeGenerator, ue, ngOut, panic>>

\* handleNgDownlinkNasTransport, the rest: the UE ids are the ids of the AMF
\* and of the DU, the bearer is SRB0.
SendDLInformationTransfer(m) ==
  /\ m.type = "DownlinkNASTransport"
  /\ At(m, "send")
  /\ f1Out' = f1Out \cup
       {[type |-> "DLInformationTransfer", cuId |-> AmfId, duId |-> DuId,
         srb |-> 0, nas |-> <<m.ue, m.k, m.try>>]}
  /\ Goto(m, "done")
  /\ UNCHANGED <<cuUE, IdRrcUeGenerator, ue, ngOut, panic>>

\* handlerInitialContextSetupRequest: CreateUeContext.
HandlerInitialContextSetupRequest(m) ==
  /\ m.type = "InitialContextSetupRequest"
  /\ At(m, "run")
  /\ ue' = [ue EXCEPT ![go[m].ue].Context = TRUE]
  /\ Goto(m, "accept")
  /\ UNCHANGED <<cuUE, IdRrcUeGenerator, f1Out, ngOut, panic>>

\* handlerInitialContextSetupRequest, the rest: keeps the Registration
\* Accept, sends nothing.
StoreRegistrationAccept(m) ==
  /\ At(m, "accept")
  /\ ue' = [ue EXCEPT ![go[m].ue].RegistrationAccept = <<m.ue, m.k, m.try>>]
  /\ Goto(m, "done")
  /\ UNCHANGED <<cuUE, IdRrcUeGenerator, f1Out, ngOut, panic>>

\* handleRRCUEContextSetupResponse.  The RRC library, given a nil cell group,
\* panics or returns an error; the PDU goes out without an F1AP header.
HandleRRCUEContextSetupResponse(m) ==
  LET u == go[m].ue IN
  /\ m.type = "UEContextSetupResponse"
  /\ At(m, "run")
  /\ \/ /\ ~ue[u].MasterCellGroup
        /\ Panic("MasterCellGroup")
     \/ /\ Goto(m, "done")
        /\ IF ue[u].MasterCellGroup
             THEN f1Out' = f1Out \cup
                    {[type |-> "RawRRCReconfiguration", cuId |-> 0,
                      duId |-> 0, srb |-> 0,
                      nas |-> ue[u].RegistrationAccept]}
             ELSE UNCHANGED f1Out
        /\ UNCHANGED <<cuUE, IdRrcUeGenerator, ue, ngOut, panic>>

-----------------------------------------------------------------------------
(***************************************************************************)
(* The peers: the DU, the UEs behind it, the AMF.  Each sends every        *)
(* message at most once, when the procedure lets it.  They are external:   *)
(* what they accept is what the handlers above rely on.                    *)
(***************************************************************************)

\* A peer sends m: SCTP delivers it and a goroutine is started for it.
Arrive(m) ==
  /\ panic = "none"
  /\ go[m].pc = "unsent"
  /\ Goto(m, "start")
  /\ UNCHANGED <<cuUE, IdRrcUeGenerator, ue, f1Out, ngOut, panic>>

\* A downlink NAS PDU that reaches UE a over the radio.
UeReceives(a, n, c) ==
  \E r \in f1Out :
    /\ r.type = "DLInformationTransfer"
    /\ r.nas = <<a, n, c>>
    /\ \/ "wrong_dl_ids" \in Tolerates
       \/ r.duId = DuUeId[a]

\* An uplink NAS PDU that the AMF accepts as from UE a.
AmfReceives(a, n) ==
  \E r \in ngOut, c \in 0 .. Retries :
    /\ r.nas = <<a, n, c>>
    /\ \/ r.type = "InitialUEMessage" /\ n = 0
       \/ r.type = "UplinkNASTransport" /\ n > 0 /\ r.amfUeId = AmfUeId[a]

UeAttach(a) == Arrive(In("RRCSetupRequest", a, 0, 0))

UeSetupComplete(a) ==
  /\ \E r \in f1Out : r.type = "RRCSetup" /\ r.duId = DuUeId[a]
  /\ Arrive(In("RRCSetupComplete", a, 0, 0))

\* The AMF repeats a request when its timer expires before the answer.
AmfDownlinkNas(a, n, c) ==
  /\ AmfReceives(a, n - 1)
  /\ c > 0 =>
       /\ ~AmfReceives(a, n)
       /\ go[In("DownlinkNASTransport", a, n, c - 1)].pc # "unsent"
  /\ Arrive(In("DownlinkNASTransport", a, n, c))

\* The UE answers every transmission.
UeUplinkNas(a, n, c) ==
  /\ UeReceives(a, n, c)
  /\ Arrive(In("ULInformationTransfer", a, n, c))

AmfContextSetup(a) ==
  /\ AmfReceives(a, Rounds)
  /\ Arrive(In("InitialContextSetupRequest", a, Last, 0))

\* An unprompted UE completes AS security without being told to, at any time
\* after its answer to the last NAS request: it cannot see whether the
\* CU-CP has been asked to set up its context.
UeSecurityComplete(a) ==
  /\ \/ \E r \in f1Out : r.type = "SecurityModeCommand" /\ r.duId = DuUeId[a]
     \/ /\ a \in Unprompted
        /\ \E c \in 0 .. Retries :
             go[In("ULInformationTransfer", a, Rounds, c)].pc # "unsent"
  /\ Arrive(In("SecurityModeComplete", a, Last, 0))

DuContextResponse(a) ==
  /\ \E r \in f1Out : r.type = "UEContextSetupRequest" /\ r.duId = DuUeId[a]
  /\ Arrive(In("UEContextSetupResponse", a, Last, 0))

\* A PDU without UE ids reaches every UE whose context the DU has set up.
Reconfiguration(a) ==
  {r \in f1Out :
     \/ r.type = "RRCReconfiguration" /\ r.duId = DuUeId[a]
     \/ /\ r.type = "RawRRCReconfiguration"
        /\ "raw_rrc" \in Tolerates
        /\ go[In("UEContextSetupResponse", a, Last, 0)].pc # "unsent"}

UeReconfigured(a) ==
  /\ Reconfiguration(a) # {}
  /\ Arrive(In("RRCReconfigurationComplete", a, Last, 0))

\* The UE answers the Registration Accept right after it has reported the
\* reconfiguration that carried it.
UeRegistrationComplete(a) ==
  /\ \E r \in Reconfiguration(a) : r.nas = <<a, Last, 0>>
  /\ go[In("RRCReconfigurationComplete", a, Last, 0)].pc # "unsent"
  /\ Arrive(In("ULInformationTransfer", a, Last, 0))

\* A UE that is switched off says so as soon as it has a connection, after
\* the message that completes the connection, whatever else is under way.
UeSwitchOff(a) ==
  /\ a \in SwitchOff
  /\ go[In("RRCSetupComplete", a, 0, 0)].pc # "unsent"
  /\ Arrive(In("ULInformationTransfer", a, Off, 0))

-----------------------------------------------------------------------------
\* One step of the goroutine that handles m.
Handler(m) ==
  \/ /\ m.type = "RRCSetupRequest"
     /\ \/ HandleInitialULRRCMessageTransfer(m.ue)
        \/ CreateUE(m.ue)
        \/ HandleRRCSetupRequest(m.ue)
  \/ HandleULRRCMessageTransfer(m)
  \/ HandleRrcSetupComplete(m)
  \/ HandleULInformationTransfer(m)
  \/ SendNasPdu(m)
  \/ NgInitialUEMessage(m)
  \/ NgUplinkNasTransport(m)
  \/ SendNgap(m)
  \/ HandleRRCSecurityModeComplete(m)
  \/ HandleRRCReconfigurationComplete(m)
  \/ NgInitialContextSetupResponse(m)
  \/ LoadUE(m)
  \/ HandleNgDownlinkNasTransport(m)
  \/ SendDLInformationTransfer(m)
  \/ HandlerInitialContextSetupRequest(m)
  \/ StoreRegistrationAccept(m)
  \/ HandleRRCUEContextSetupResponse(m)

\* An answer of a peer to what the CU-CP has sent for attach a.
Peer(a) ==
  \/ UeSetupComplete(a)
  \/ \E n \in 1 .. Rounds, c \in 0 .. Retries :
       AmfDownlinkNas(a, n, c) \/ UeUplinkNas(a, n, c)
  \/ AmfContextSetup(a)
  \/ UeSecurityComplete(a)
  \/ DuContextResponse(a)
  \/ UeReconfigured(a)
  \/ UeRegistrationComplete(a)

Next ==
  \/ \E m \in Msg : Handler(m)
  \/ \E a \in Attach : UeAttach(a) \/ UeSwitchOff(a) \/ Peer(a)

Spec == Init /\ [][Next]_vars

\* The Go scheduler runs every runnable goroutine; the peers answer.  No UE
\* has to attach or to be switched off.
Fairness ==
  /\ \A m \in Msg : WF_vars(Handler(m))
  /\ \A a \in Attach : WF_vars(Peer(a))

FairSpec == Spec /\ Fairness

-----------------------------------------------------------------------------
(***************************************************************************)
(* Properties.                                                             *)
(***************************************************************************)
\* Attaches of which the DU has reported the RRCSetupRequest.
Attached == {a \in Attach : go[In("RRCSetupRequest", a, 0, 0)].pc # "unsent"}

\* No second UE has attached so far.
OneAttach == \A a, b \in Attached : a = b

\* No handler dereferences a nil cu.UE or a nil NrCellId, however many
\* attaches overlap: a message that needs a context is caused by an RRCSetup,
\* and the DU UE id check of handleULRRCMessageTransfer keeps a half-built
\* context that has replaced cu.UE from being used for it.
NoNilUe == panic \notin {"cu.UE", "NrCellId"}

\* The UEContextSetupResponse for a UE never meets the context of that UE
\* without its cell group, however many attaches overlap: the process ends in
\* rrc.Encode only when the context of another attach, half-built or refused,
\* has taken the place of the UE's own in cu.UE.
OwnCellGroup ==
  panic = "MasterCellGroup" =>
    \E m \in Msg : /\ m.type = "UEContextSetupResponse"
                   /\ go[m].pc = "run"
                   /\ go[m].ue # m.ue
                   /\ ~ue[go[m].ue].MasterCellGroup

\* The AMF hears of UE a through one InitialUEMessage, which carries the
\* Registration Request and precedes every UplinkNASTransport of that UE:
\* the UE_INITIALIZED of handleRrcSetupComplete is consumed exactly once,
\* although any handler may overwrite State at any time.
InitialFirst(a) ==
  \A r \in ngOut : r.nas # NoNas /\ r.nas[1] = a =>
    /\ r.type = "InitialUEMessage" <=> r.nas[2] = 0
    /\ \E i \in ngOut : /\ i.type = "InitialUEMessage"
                       /\ i.nas = <<a, 0, 0>>

\* InitialFirst of every UE.
InitialUeFirst == \A a \in Attach : InitialFirst(a)

\* InitialFirst of every UE that speaks only when it is asked, whatever the
\* other UEs do.
InitialUeFirstUnlessOff == \A a \in Attach \ SwitchOff : InitialFirst(a)

\* The NAS PDUs that were passed on to the AMF and to the UEs; a downlink
\* message that should carry one and has none counts as NoNas.
NasUp == {r.nas : r \in ngOut} \ {NoNas}
NasCarriers == {"DLInformationTransfer", "RRCReconfiguration",
                "RawRRCReconfiguration"}
NasDown == {r.nas : r \in {s \in f1Out : s.type \in NasCarriers}}

Relay == INSTANCE NasRelay WITH up <- NasUp, down <- NasDown

\* The CU-CP implements NasRelay: each NAS PDU has a goroutine of its own, may
\* be repeated, is buffered in a context that the other UEs' handlers use too
\* (the Registration Accept), and is still relayed unaltered and after the PDU
\* it answers; an empty one is sent only once a UE was sent the last request.
RelaysNas == Relay!Spec

\* Until a second UE attaches, whatever is sent to the AMF after the
\* InitialUEMessage carries the AMF UE NGAP ID the AMF assigned, never the
\* placeholder 1 that createUE puts in the context.  (A UE that is switched
\* off may speak before the AMF has assigned one.)
AmfUeIdEchoed ==
  OneAttach => \A r \in ngOut, a \in Attached \ SwitchOff :
    r.type # "InitialUEMessage" => r.amfUeId = AmfUeId[a]

\* The AMF has given out AMF UE NGAP ID i, in a DownlinkNASTransport.
Given(i) ==
  \E m \in Msg : /\ m.type = "DownlinkNASTransport"
                 /\ go[m].pc # "unsent"
                 /\ i = AmfUeId[m.ue]

\* However many attaches overlap, what is sent to the AMF carries an id that
\* the AMF has given out, never the placeholder 1 of createUE: a downlink
\* message that was applied to the wrong context is answered only through
\* that context.  Excepted are the Registration Request and what a UE says of
\* its own accord, which need not have an id to carry.
AmfUeIdGiven ==
  \A r \in ngOut :
    /\ r.type # "InitialUEMessage"
    /\ r.nas # NoNas => r.nas[2] \notin {0, Off}
    => Given(r.amfUeId)

\* The state of a context is changed by uplink messages of its own UE only,
\* although the handlers take the context from the shared cu.UE.
StateOwned ==
  [][\A a \in Attach : ue'[a].State # ue[a].State =>
       \E m \in Msg : m.ue = a /\ m.type \in UlTypes /\ go'[m] # go[m]]_vars

\* The SecurityModeComplete of a UE comes after the Registration Accept has
\* been stored.  The code does not see to it: it sends no SecurityModeCommand
\* that the UE could wait for.
SecurityInTime ==
  \A a \in Attach :
    go[In("SecurityModeComplete", a, Last, 0)].pc # "unsent" =>
      go[In("InitialContextSetupRequest", a, Last, 0)].pc = "done"

\* A UE that attaches ends up registered, unless a SecurityModeComplete is
\* early: the AMF has the answer to its context setup and the Registration
\* Complete.
RegistrationCompletes ==
  []SecurityInTime =>
    \A a \in Attach :
      go[In("RRCSetupRequest", a, 0, 0)].pc # "unsent" ~>
        /\ AmfReceives(a, Last)
        /\ \E r \in ngOut : /\ r.type = "InitialContextSetupResponse"
                           /\ r.amfUeId = AmfUeId[a]

-----------------------------------------------------------------------------
(***************************************************************************)
(* The inductive invariant: what a step of a goroutine tells about the     *)
(* steps that must have come before it.                                    *)
(***************************************************************************)
Started == {m \in Msg : go[m].pc # "unsent"}

\* Attaches whose RRC setup was accepted: their context has a cell.
HasCell == {a \in Attach : ue[a].NrCellId}

\* Attaches whose InitialUEMessage the AMF has, and the goroutine that sent
\* it has returned.
Introduced ==
  {a \in Attach :
     /\ go[In("RRCSetupComplete", a, 0, 0)].pc = "done"
     /\ \E i \in ngOut : i.type = "InitialUEMessage" /\ i.nas = <<a, 0, 0>>}

Known == {a \in HasCell : a \notin SwitchOff => a \in Introduced}

\* Steps after the first one that uses the context.
Later == {"nas", "initial", "uplink", "respond", "accept", "send"}

\* A handler that has taken cu.UE holds a context, and an uplink handler the
\* context of the UE that sent the message.
OwnContext ==
  \A m \in Msg :
    /\ go[m].pc \in Later => m.type # "RRCSetupRequest"
    /\ go[m].pc \in {"run"} \cup Later /\ m.type # "RRCSetupRequest" =>
         /\ go[m].ue \in Attach
         /\ m.type \in UlTypes => go[m].ue = m.ue

\* Every message after the RRC setup is caused by the messages before it.
MsgCaused ==
  \A m \in Started :
    /\ m.type # "RRCSetupRequest" => m.ue \in HasCell
    /\ m.type \notin {"RRCSetupRequest", "RRCSetupComplete"} => m.ue \in Known

F1Cause ==
  {r \in F1Msg :
     /\ r.type \notin {"SecurityModeCommand", "RRCReconfiguration"}
     /\ r.nas # NoNas => r.nas[1] \in Known
     /\ r.type = "RRCSetup" => \E a \in HasCell : r.duId = DuUeId[a]
     /\ r.type = "UEContextSetupRequest" =>
          \E a \in Known : r.duId = DuUeId[a]}

F1Caused == f1Out \subseteq F1Cause

NgCause ==
  {r \in NgMsg : r.nas # NoNas =>
     /\ r.nas[1] \in Known
     /\ r.nas[1] \notin SwitchOff =>
          (r.type = "InitialUEMessage" <=> r.nas[2] = 0)}

NgCaused == ngOut \subseteq NgCause

AcceptCaused ==
  \A a \in Attach : ue[a].RegistrationAccept # NoNas =>
    ue[a].RegistrationAccept[1] \in Known

\* A published context: cu.UE is set from the first createUE on.
Published ==
  \A a \in Attach :
    a \in HasCell \/ go[In("RRCSetupRequest", a, 0, 0)].pc = "run" => cuUE # NoUe

\* What SendNasPdu is about to read, and what it has built.
NasStep ==
  {m \in Msg :
     /\ go[m].pc \in {"nas", "initial", "uplink"} =>
          m.type \in {"RRCSetupComplete", "ULInformationTransfer"}
     /\ m.ue \notin SwitchOff =>
          /\ go[m].pc = "nas" => (ue[m.ue].State = "UE_INITIALIZED"
                                   <=> m.type = "RRCSetupComplete")
          /\ go[m].pc = "initial" => m.type = "RRCSetupComplete"
          /\ go[m].pc = "uplink" => m.type = "ULInformationTransfer"
     /\ go[m].pc = "respond" => m.type = "RRCReconfigurationComplete"
     /\ go[m].pc = "accept" => m.type = "InitialContextSetupRequest"
     /\ go[m].pc = "send" /\ m.type \in UlTypes =>
          /\ go[m].buf.nas # NoNas =>
               /\ go[m].buf.nas = <<m.ue, m.k, m.try>>
               /\ m.type \in {"RRCSetupComplete", "ULInformationTransfer"}
               /\ m.ue \notin SwitchOff =>
                    (go[m].buf.type = "InitialUEMessage" <=> m.k = 0)
          /\ m.type = "RRCSetupComplete" => go[m].buf.nas # NoNas}

NasState == NasStep = Msg

IInv ==
  /\ OwnContext
  /\ MsgCaused
  /\ F1Caused
  /\ NgCaused
  /\ AcceptCaused
  /\ Published
  /\ NasState
  /\ NoNilUe

(***************************************************************************)
(* What the refinement of NasRelay needs besides: a NAS PDU that is under  *)
(* way, or kept in a context, answers one that was relayed.                *)
(***************************************************************************)

\* The AMF was passed what it needs to send step n.
Answered(a, n) == \E d \in 0 .. Retries : <<a, n - 1, d>> \in NasUp

\* The UE was passed the last NAS request before its context is set up.
Asked(a) == \E d \in 0 .. Retries : <<a, Rounds, d>> \in NasDown

\* m carries the answer to a NAS PDU that was relayed to its sender, or none.
AnswersNas(m) ==
  /\ m.type = "ULInformationTransfer" =>
       m.k = Off \/ <<m.ue, m.k, m.try>> \in NasDown
  /\ m.type \in {"DownlinkNASTransport", "InitialContextSetupRequest"} =>
       Answered(m.ue, m.k)
  /\ m.type \in {"SecurityModeComplete", "UEContextSetupResponse"} =>
       Asked(m.ue)

NasCaused == \A m \in Started : AnswersNas(m)

AcceptRelayed ==
  \A a \in Attach :
    LET accept == ue[a].RegistrationAccept IN
    accept # NoNas =>
      \E b \in Attach : accept = <<b, Last, 0>> /\ Answered(b, Last)

ContextAsked ==
  \A r \in f1Out : r.type = "UEContextSetupRequest" =>
    \A a \in Attach : r.duId = DuUeId[a] => Asked(a)

RelayInv == NasCaused /\ AcceptRelayed /\ ContextAsked

(***************************************************************************)
(* What the order of the procedure needs besides: how far it must have     *)
(* come for a message to be received, handled or sent.                     *)
(***************************************************************************)

\* The placeholder for the AMF UE NGAP ID has been replaced.
HasId(a) == Given(ue[a].AmfUeNgapId)

\* It has been replaced as long as messages of a can still be handled: once
\* another context is in cu.UE, that of a never comes back.
CurrentHasId(a) == cuUE = a => HasId(a)

\* Every context in use was created for an attach, and its setup is over
\* when the context has a cell.
ContextAttached ==
  /\ HasCell \subseteq Attached
  /\ cuUE \in Attached \cup {NoUe}
  /\ \A m \in Msg : go[m].ue \in Attached \cup {NoUe}

SetupDone ==
  \A a \in HasCell : go[In("RRCSetupRequest", a, 0, 0)].pc = "done"

\* A context with a cell has a cell group.
CellGroupSet == \A a \in Attach : ue[a].NrCellId => ue[a].MasterCellGroup

\* A message that was received.
MsgOrder(m) ==
  /\ m.type = "InitialContextSetupRequest" => HasId(m.ue)
  /\ m.type = "ULInformationTransfer" /\ m.k = Off => m.ue \in SwitchOff
  /\ /\ m.type \in {"ULInformationTransfer", "SecurityModeComplete",
                    "UEContextSetupResponse", "RRCReconfigurationComplete"}
     /\ m.k # Off
     => CurrentHasId(m.ue)

\* A handler that is under way.
StepOrder(m) ==
  /\ m.type = "DownlinkNASTransport" =>
       /\ go[m].pc = "run" /\ cuUE = m.ue => go[m].ue = m.ue
       /\ go[m].pc \in {"send", "done"} => CurrentHasId(m.ue)
  /\ /\ m.type \in {"ULInformationTransfer", "RRCReconfigurationComplete"}
     /\ m.k # Off
     /\ go[m].pc \in {"run"} \cup Later
     => HasId(m.ue)
  /\ /\ go[m].pc = "send" /\ m.type \in UlTypes
     /\ go[m].buf.type # "InitialUEMessage"
     /\ go[m].buf.nas # NoNas => m.k \notin {0, Off}
     => Given(go[m].buf.amfUeId)

\* A message that was sent.
F1Order(r) ==
  /\ r.type = "UEContextSetupRequest" =>
       \A a \in Attach : r.duId = DuUeId[a] => CurrentHasId(a)
  /\ r.type = "DLInformationTransfer" =>
       r.nas # NoNas /\ CurrentHasId(r.nas[1])

NgOrder(r) ==
  /\ /\ r.type # "InitialUEMessage"
     /\ r.nas # NoNas => r.nas[2] \notin {0, Off}
     => Given(r.amfUeId)
  /\ r.nas # NoNas /\ r.nas[2] \notin {0, Off} => HasId(r.nas[1])
  /\ r.nas # NoNas /\ r.nas[2] = Off => r.nas[1] \in SwitchOff

Ordered ==
  /\ \A m \in Started : MsgOrder(m) /\ StepOrder(m)
  /\ \A r \in f1Out : F1Order(r)
  /\ \A r \in ngOut : NgOrder(r)

OrderInv == ContextAttached /\ SetupDone /\ CellGroupSet /\ Ordered
=============================================================================
