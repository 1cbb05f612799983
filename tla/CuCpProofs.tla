----------------------------- MODULE CuCpProofs -----------------------------
(***************************************************************************)
(* Proofs about CuCp, for every set of attaches, every number of NAS       *)
(* rounds and retransmissions, and every choice of the other constants.    *)
(***************************************************************************)
EXTENDS CuCp, TLAPS

\* The fields of an inbound message.
LEMMA MsgFields ==
  ASSUME NEW m \in Msg
  PROVE  /\ m.ue \in Attach
         /\ m.k \in 0 .. Off
         /\ m.try \in 0 .. Retries
         /\ <<m.ue, m.k, m.try>> \in Nas
BY RoundsAssumption DEF Msg, Nas, Last, Off

\* A message built from a type and an attach is an inbound message.
LEMMA InMsg ==
  ASSUME NEW a \in Attach
  PROVE  /\ In("RRCSetupRequest", a, 0, 0) \in Msg
         /\ In("RRCSetupComplete", a, 0, 0) \in Msg
         /\ In("InitialContextSetupRequest", a, Last, 0) \in Msg
         /\ In("SecurityModeComplete", a, Last, 0) \in Msg
         /\ In("UEContextSetupResponse", a, Last, 0) \in Msg
         /\ In("RRCReconfigurationComplete", a, Last, 0) \in Msg
         /\ In("ULInformationTransfer", a, Last, 0) \in Msg
         /\ In("ULInformationTransfer", a, Off, 0) \in Msg
         /\ \A n \in 1 .. Rounds, c \in 0 .. Retries :
              /\ In("DownlinkNASTransport", a, n, c) \in Msg
              /\ In("ULInformationTransfer", a, n, c) \in Msg
BY DEF Msg, In

\* A setup request is the one of its attach.
LEMMA SetupMsg ==
  ASSUME NEW m \in Msg, m.type = "RRCSetupRequest"
  PROVE  m = In("RRCSetupRequest", m.ue, 0, 0)
BY DEF Msg, In
-----------------------------------------------------------------------------
(***************************************************************************)
(* Type correctness.                                                       *)
(***************************************************************************)

\* Whatever a peer does, one message arrives.
LEMMA PeerArrives ==
  ASSUME NEW a \in Attach, UeAttach(a) \/ UeSwitchOff(a) \/ Peer(a)
  PROVE  \E m \in Msg : Arrive(m)
BY InMsg DEF UeAttach, UeSwitchOff, Peer, UeSetupComplete, AmfDownlinkNas,
   UeUplinkNas, AmfContextSetup, UeSecurityComplete, DuContextResponse,
   UeReconfigured, UeRegistrationComplete

\* The initial state has its type.
LEMMA TypeInit == Init => TypeOK
BY AttachAssumption DEF Init, TypeOK, GNBUe, UeState, Goroutine, NoBuf, NgMsg

\* The assignments to two fields of a goroutine or of a context.
LEMMA GoUpdate ==
  ASSUME go \in [Msg -> Goroutine], NEW m \in Msg, NEW b \in NgMsg
  PROVE  [go EXCEPT ![m].pc = "send", ![m].buf = b] \in [Msg -> Goroutine]
BY DEF Goroutine

LEMMA UeUpdate ==
  ASSUME ue \in [Attach -> GNBUe], NEW u \in Attach
  PROVE  /\ [ue EXCEPT ![u].MasterCellGroup = TRUE, ![u].NrCellId = TRUE]
              \in [Attach -> GNBUe]
         /\ \A n \in Nas :
              [ue EXCEPT ![u].RegistrationAccept = n] \in [Attach -> GNBUe]
         /\ [ue EXCEPT ![u].Context = TRUE] \in [Attach -> GNBUe]
         /\ \A x \in UeState :
              [ue EXCEPT ![u].State = x] \in [Attach -> GNBUe]
         /\ \A n \in Nat :
              [ue EXCEPT ![u].AmfUeNgapId = n] \in [Attach -> GNBUe]
         /\ \A n \in Nat :
              [ue EXCEPT ![u].RrcUeId = n] \in [Attach -> GNBUe]
<1>1. [ue EXCEPT ![u].MasterCellGroup = TRUE, ![u].NrCellId = TRUE]
        \in [Attach -> GNBUe]
  BY DEF GNBUe
<1>2. \A n \in Nas :
        [ue EXCEPT ![u].RegistrationAccept = n] \in [Attach -> GNBUe]
  BY DEF GNBUe
<1>3. \A x \in UeState : [ue EXCEPT ![u].State = x] \in [Attach -> GNBUe]
  BY DEF GNBUe
<1>4. [ue EXCEPT ![u].Context = TRUE] \in [Attach -> GNBUe]
  BY DEF GNBUe
<1>5. \A n \in Nat : [ue EXCEPT ![u].AmfUeNgapId = n] \in [Attach -> GNBUe]
  BY DEF GNBUe
<1>6. \A n \in Nat : [ue EXCEPT ![u].RrcUeId = n] \in [Attach -> GNBUe]
  BY DEF GNBUe
<1> QED
  BY <1>1, <1>2, <1>3, <1>4, <1>5, <1>6

\* Every step of a handler keeps the types; the handler's context pointer is
\* where OwnContext says.
LEMMA TypeHandler ==
  ASSUME TypeOK, OwnContext, NEW m \in Msg, Handler(m)
  PROVE  TypeOK'
<1> /\ m.ue \in Attach
    /\ <<m.ue, m.k, m.try>> \in Nas
  BY MsgFields
<1> USE IdAssumption DEF At, Goto, Panic
<1>1. CASE m.type = "RRCSetupRequest" /\ HandleInitialULRRCMessageTransfer(m.ue)
  <2>1. ue' \in [Attach -> GNBUe]
    <3>1. \/ UNCHANGED ue
          \/ ue' = [ue EXCEPT ![m.ue].RrcUeId = IdRrcUeGenerator]
      BY <1>1 DEF HandleInitialULRRCMessageTransfer
    <3>2. \A n \in Nat :
            [ue EXCEPT ![m.ue].RrcUeId = n] \in [Attach -> GNBUe]
      BY UeUpdate, Zenon DEF TypeOK
    <3> QED
      BY <3>1, <3>2, Zenon DEF TypeOK
  <2>2. go' \in [Msg -> Goroutine]
    BY <1>1, SetupMsg DEF HandleInitialULRRCMessageTransfer, TypeOK, Goroutine
  <2> QED
    BY <1>1, <2>1, <2>2, SetupMsg DEF HandleInitialULRRCMessageTransfer, TypeOK
<1>2. CASE m.type = "RRCSetupRequest" /\ CreateUE(m.ue)
  <2>1. go' \in [Msg -> Goroutine]
    BY <1>2, SetupMsg DEF CreateUE, TypeOK, Goroutine
  <2>2. IdRrcUeGenerator' \in Nat
    BY <1>2, SetupMsg DEF CreateUE, TypeOK, GNBUe
  <2> QED
    BY <1>2, <2>1, <2>2, SetupMsg DEF CreateUE, TypeOK
<1>3. CASE m.type = "RRCSetupRequest" /\ HandleRRCSetupRequest(m.ue)
  <2>1. ue' \in [Attach -> GNBUe]
    <3>1. \/ UNCHANGED ue
          \/ ue' = [ue EXCEPT ![m.ue].MasterCellGroup = TRUE,
                              ![m.ue].NrCellId = TRUE]
      BY <1>3 DEF HandleRRCSetupRequest
    <3>2. [ue EXCEPT ![m.ue].MasterCellGroup = TRUE, ![m.ue].NrCellId = TRUE]
            \in [Attach -> GNBUe]
      BY UeUpdate, Zenon DEF TypeOK
    <3> QED
      BY <3>1, <3>2, Zenon DEF TypeOK
  <2>2. go' \in [Msg -> Goroutine]
    BY <1>3, SetupMsg DEF HandleRRCSetupRequest, TypeOK, Goroutine
  <2>3. f1Out' \subseteq F1Msg
    BY <1>3, SetupMsg DEF HandleRRCSetupRequest, TypeOK, F1Msg, GNBUe
  <2> QED
    BY <1>3, <2>1, <2>2, <2>3, SetupMsg DEF HandleRRCSetupRequest, TypeOK
<1>4. CASE HandleULRRCMessageTransfer(m)
  <2>1. go' \in [Msg -> Goroutine]
    BY <1>4 DEF HandleULRRCMessageTransfer, TypeOK, Goroutine
  <2> QED
    BY <1>4, <2>1 DEF HandleULRRCMessageTransfer, TypeOK
<1>5. CASE HandleRrcSetupComplete(m)
  <2>1. ue' \in [Attach -> GNBUe]
    <3>1. /\ go[m].ue \in Attach
          /\ \/ UNCHANGED ue
             \/ ue' = [ue EXCEPT ![go[m].ue].State = "UE_INITIALIZED"]
      BY <1>5 DEF HandleRrcSetupComplete, OwnContext
    <3>2. [ue EXCEPT ![go[m].ue].State = "UE_INITIALIZED"]
            \in [Attach -> GNBUe]
      BY <3>1, UeUpdate DEF TypeOK, UeState
    <3> QED
      BY <3>1, <3>2, Zenon DEF TypeOK
  <2>2. go' \in [Msg -> Goroutine]
    BY <1>5 DEF HandleRrcSetupComplete, TypeOK, Goroutine
  <2> QED
    BY <1>5, <2>1, <2>2 DEF HandleRrcSetupComplete, TypeOK
<1>6. CASE HandleULInformationTransfer(m)
  <2>1. ue' \in [Attach -> GNBUe]
    <3>1. /\ go[m].ue \in Attach
          /\ ue' = [ue EXCEPT ![go[m].ue].State = "UE_ONGOING"]
      BY <1>6 DEF HandleULInformationTransfer, OwnContext
    <3>2. "UE_ONGOING" \in UeState
      BY DEF UeState
    <3> QED
      BY <3>1, <3>2, UeUpdate DEF TypeOK
  <2>2. go' \in [Msg -> Goroutine]
    BY <1>6 DEF HandleULInformationTransfer, TypeOK, Goroutine
  <2> QED
    BY <1>6, <2>1, <2>2 DEF HandleULInformationTransfer, TypeOK
<1>7. CASE SendNasPdu(m)
  <2>1. go' \in [Msg -> Goroutine]
    BY <1>7 DEF SendNasPdu, TypeOK, Goroutine
  <2> QED
    BY <1>7, <2>1 DEF SendNasPdu, TypeOK
<1>8. CASE SendNgap(m)
  <2>1. go' \in [Msg -> Goroutine]
    BY <1>8 DEF SendNgap, TypeOK, Goroutine
  <2>2. ngOut' \subseteq NgMsg
    BY <1>8 DEF SendNgap, TypeOK, Goroutine
  <2> QED
    BY <1>8, <2>1, <2>2 DEF SendNgap, TypeOK
<1>9. CASE HandleRRCSecurityModeComplete(m)
  <2>1. go' \in [Msg -> Goroutine]
    BY <1>9 DEF HandleRRCSecurityModeComplete, TypeOK, Goroutine
  <2>2. f1Out' \subseteq F1Msg
    BY <1>9 DEF HandleRRCSecurityModeComplete, TypeOK, F1Msg, GNBUe,
                OwnContext, UlTypes
  <2> QED
    BY <1>9, <2>1, <2>2 DEF HandleRRCSecurityModeComplete, TypeOK
<1>10. CASE HandleRRCReconfigurationComplete(m)
  <2>1. ue' \in [Attach -> GNBUe]
    <3>1. /\ go[m].ue \in Attach
          /\ ue' = [ue EXCEPT ![go[m].ue].State = "UE_READY"]
      BY <1>10 DEF HandleRRCReconfigurationComplete, OwnContext
    <3>2. "UE_READY" \in UeState
      BY DEF UeState
    <3> QED
      BY <3>1, <3>2, UeUpdate DEF TypeOK
  <2>2. go' \in [Msg -> Goroutine]
    BY <1>10 DEF HandleRRCReconfigurationComplete, TypeOK, Goroutine
  <2> QED
    BY <1>10, <2>1, <2>2 DEF HandleRRCReconfigurationComplete, TypeOK
<1>11. CASE LoadUE(m)
  <2>1. go' \in [Msg -> Goroutine]
    BY <1>11 DEF LoadUE, TypeOK, Goroutine
  <2> QED
    BY <1>11, <2>1 DEF LoadUE, TypeOK
<1>12. CASE HandleNgDownlinkNasTransport(m)
  <2>1. ue' \in [Attach -> GNBUe]
    <3>1. /\ go[m].ue \in Attach
          /\ ue' = [ue EXCEPT ![go[m].ue].AmfUeNgapId = AmfUeId[m.ue]]
      BY <1>12 DEF HandleNgDownlinkNasTransport, OwnContext
    <3> QED
      BY <3>1, UeUpdate DEF TypeOK
  <2>2. go' \in [Msg -> Goroutine]
    BY <1>12 DEF HandleNgDownlinkNasTransport, TypeOK, Goroutine
  <2> QED
    BY <1>12, <2>1, <2>2 DEF HandleNgDownlinkNasTransport, TypeOK
<1>13. CASE SendDLInformationTransfer(m)
  <2>1. go' \in [Msg -> Goroutine]
    BY <1>13 DEF SendDLInformationTransfer, TypeOK, Goroutine
  <2>2. f1Out' \subseteq F1Msg
    <3> DEFINE r == [type |-> "DLInformationTransfer", cuId |-> AmfId,
                     duId |-> DuId, srb |-> 0, nas |-> <<m.ue, m.k, m.try>>]
    <3>1. f1Out' = f1Out \cup {r}
      BY <1>13 DEF SendDLInformationTransfer
    <3>2. r \in F1Msg
      BY DEF F1Msg
    <3> HIDE DEF r
    <3> QED
      BY <3>1, <3>2 DEF TypeOK
  <2> QED
    BY <1>13, <2>1, <2>2 DEF SendDLInformationTransfer, TypeOK
<1>14. CASE HandlerInitialContextSetupRequest(m)
  <2>1. ue' \in [Attach -> GNBUe]
    <3>1. go[m].ue \in Attach
      BY <1>14 DEF HandlerInitialContextSetupRequest, OwnContext
    <3> QED
      BY <1>14, <3>1, UeUpdate DEF HandlerInitialContextSetupRequest, TypeOK
  <2>2. go' \in [Msg -> Goroutine]
    BY <1>14 DEF HandlerInitialContextSetupRequest, TypeOK, Goroutine
  <2> QED
    BY <1>14, <2>1, <2>2 DEF HandlerInitialContextSetupRequest, TypeOK
<1>15. CASE HandleRRCUEContextSetupResponse(m)
  <2>1. go' \in [Msg -> Goroutine]
    <3>1. go' = go \/ go' = [go EXCEPT ![m].pc = "done"]
      BY <1>15 DEF HandleRRCUEContextSetupResponse
    <3> QED
      BY <3>1 DEF TypeOK, Goroutine
  <2>2. f1Out' \subseteq F1Msg
    BY <1>15 DEF HandleRRCUEContextSetupResponse, TypeOK, F1Msg, GNBUe,
                 OwnContext, UlTypes
  <2> QED
    BY <1>15, <2>1, <2>2 DEF HandleRRCUEContextSetupResponse, TypeOK
<1>16. CASE NgInitialUEMessage(m)
  <2>1. ue' \in [Attach -> GNBUe]
    <3>1. /\ go[m].ue \in Attach
          /\ ue' = [ue EXCEPT ![go[m].ue].State = "UE_ONGOING"]
      BY <1>16 DEF NgInitialUEMessage, OwnContext, Later
    <3>2. "UE_ONGOING" \in UeState
      BY DEF UeState
    <3> QED
      BY <3>1, <3>2, UeUpdate DEF TypeOK
  <2>2. go' \in [Msg -> Goroutine]
    <3>1. PICK b \in NgMsg :
            go' = [go EXCEPT ![m].pc = "send", ![m].buf = b]
      BY <1>16 DEF NgInitialUEMessage, NgMsg
    <3> QED
      BY <3>1, GoUpdate DEF TypeOK
  <2> QED
    BY <1>16, <2>1, <2>2 DEF NgInitialUEMessage, TypeOK
<1>17. CASE NgUplinkNasTransport(m) \/ NgInitialContextSetupResponse(m)
  <2>1. go' \in [Msg -> Goroutine]
    <3>1. go[m].ue \in Attach
      BY <1>17 DEF NgUplinkNasTransport, NgInitialContextSetupResponse,
                   OwnContext, Later
    <3>2. ue[go[m].ue].AmfUeNgapId \in Nat
      BY <3>1 DEF TypeOK, GNBUe
    <3>3. PICK b \in NgMsg :
            go' = [go EXCEPT ![m].pc = "send", ![m].buf = b]
      BY <1>17, <3>2 DEF NgUplinkNasTransport, NgInitialContextSetupResponse,
                         NgMsg
    <3> QED
      BY <3>3, GoUpdate DEF TypeOK
  <2> QED
    BY <1>17, <2>1 DEF NgUplinkNasTransport, NgInitialContextSetupResponse,
                       TypeOK
<1>18. CASE StoreRegistrationAccept(m)
  <2>1. ue' \in [Attach -> GNBUe]
    <3>1. go[m].ue \in Attach
      BY <1>18 DEF StoreRegistrationAccept, OwnContext, Later
    <3> QED
      BY <1>18, <3>1, UeUpdate DEF StoreRegistrationAccept, TypeOK
  <2>2. go' \in [Msg -> Goroutine]
    BY <1>18 DEF StoreRegistrationAccept, TypeOK, Goroutine
  <2> QED
    BY <1>18, <2>1, <2>2 DEF StoreRegistrationAccept, TypeOK
<1> QED
  BY <1>1, <1>2, <1>3, <1>4, <1>5, <1>6, <1>7, <1>8, <1>9, <1>10, <1>11,
     <1>12, <1>13, <1>14, <1>15, <1>16, <1>17, <1>18 DEF Handler

\* The arrival of a message keeps the types.
LEMMA TypeArrive ==
  ASSUME TypeOK, NEW m \in Msg, Arrive(m)
  PROVE  TypeOK'
<1>1. go' \in [Msg -> Goroutine]
  BY DEF Arrive, Goto, TypeOK, Goroutine
<1> QED
  BY <1>1 DEF Arrive, TypeOK

-----------------------------------------------------------------------------
(***************************************************************************)
(* What is never undone.                                                   *)
(***************************************************************************)

\* A step moves one goroutine, which had not returned.
LEMMA OneGoroutine ==
  ASSUME TypeOK, NEW m \in Msg, Handler(m) \/ Arrive(m)
  PROVE  /\ \A x \in Msg : x # m => go'[x] = go[x]
         /\ go' # go => go[m].pc # "done" /\ go'[m].pc # "unsent"
<1> USE SetupMsg DEF At, Goto, Panic, TypeOK, Goroutine
<1>1. CASE Arrive(m)
  BY <1>1 DEF Arrive
<1>2. CASE /\ m.type = "RRCSetupRequest"
           /\ \/ HandleInitialULRRCMessageTransfer(m.ue)
              \/ CreateUE(m.ue)
              \/ HandleRRCSetupRequest(m.ue)
  BY <1>2 DEF HandleInitialULRRCMessageTransfer, CreateUE,
              HandleRRCSetupRequest
<1>3. CASE HandleULRRCMessageTransfer(m) \/ LoadUE(m)
  BY <1>3 DEF HandleULRRCMessageTransfer, LoadUE
<1>4. CASE \/ NgInitialUEMessage(m)
           \/ NgUplinkNasTransport(m)
           \/ NgInitialContextSetupResponse(m)
  BY <1>4 DEF NgInitialUEMessage, NgUplinkNasTransport,
              NgInitialContextSetupResponse
<1>5. CASE \/ HandleRRCSecurityModeComplete(m)
           \/ HandleRRCUEContextSetupResponse(m)
           \/ SendNasPdu(m)
           \/ HandleRrcSetupComplete(m)
  BY <1>5 DEF HandleRRCSecurityModeComplete, HandleRRCUEContextSetupResponse,
              SendNasPdu, HandleRrcSetupComplete
<1>6. CASE \/ HandleULInformationTransfer(m)
           \/ HandleRRCReconfigurationComplete(m)
           \/ SendNgap(m)
           \/ HandleNgDownlinkNasTransport(m)
           \/ SendDLInformationTransfer(m)
           \/ HandlerInitialContextSetupRequest(m)
           \/ StoreRegistrationAccept(m)
  BY <1>6 DEF HandleULInformationTransfer, HandleRRCReconfigurationComplete,
              SendNgap, HandleNgDownlinkNasTransport,
              SendDLInformationTransfer, HandlerInitialContextSetupRequest,
              StoreRegistrationAccept
<1> QED
  BY <1>1, <1>2, <1>3, <1>4, <1>5, <1>6 DEF Handler

\* Messages that were sent stay sent, a context keeps its cell, and cu.UE is
\* never nil again.
LEMMA Monotone ==
  ASSUME TypeOK, NEW m \in Msg, Handler(m) \/ Arrive(m)
  PROVE  /\ f1Out \subseteq f1Out'
         /\ ngOut \subseteq ngOut'
         /\ HasCell \subseteq HasCell'
         /\ cuUE # NoUe => cuUE' # NoUe
<1> m.ue \in Attach
  BY MsgFields
<1> USE AttachAssumption DEF Panic, TypeOK, HasCell, GNBUe
<1>1. CASE Arrive(m)
  BY <1>1 DEF Arrive
<1>2. CASE /\ m.type = "RRCSetupRequest"
           /\ \/ HandleInitialULRRCMessageTransfer(m.ue)
              \/ CreateUE(m.ue)
              \/ HandleRRCSetupRequest(m.ue)
  BY <1>2 DEF HandleInitialULRRCMessageTransfer, CreateUE,
              HandleRRCSetupRequest
<1>3. CASE HandleULRRCMessageTransfer(m) \/ LoadUE(m)
  BY <1>3 DEF HandleULRRCMessageTransfer, LoadUE
<1>4. CASE \/ NgInitialUEMessage(m)
           \/ NgUplinkNasTransport(m)
           \/ NgInitialContextSetupResponse(m)
  BY <1>4 DEF NgInitialUEMessage, NgUplinkNasTransport,
              NgInitialContextSetupResponse
<1>5. CASE \/ HandleRRCSecurityModeComplete(m)
           \/ HandleRRCUEContextSetupResponse(m)
           \/ SendNasPdu(m)
           \/ HandleRrcSetupComplete(m)
  BY <1>5 DEF HandleRRCSecurityModeComplete, HandleRRCUEContextSetupResponse,
              SendNasPdu, HandleRrcSetupComplete
<1>6. CASE \/ HandleULInformationTransfer(m)
           \/ HandleRRCReconfigurationComplete(m)
           \/ SendNgap(m)
           \/ HandleNgDownlinkNasTransport(m)
           \/ SendDLInformationTransfer(m)
           \/ HandlerInitialContextSetupRequest(m)
           \/ StoreRegistrationAccept(m)
  BY <1>6 DEF HandleULInformationTransfer, HandleRRCReconfigurationComplete,
              SendNgap, HandleNgDownlinkNasTransport,
              SendDLInformationTransfer, HandlerInitialContextSetupRequest,
              StoreRegistrationAccept
<1> QED
  BY <1>1, <1>2, <1>3, <1>4, <1>5, <1>6 DEF Handler

\* What is known of an attach stays known.
LEMMA KnownStable ==
  ASSUME TypeOK, NEW m \in Msg, Handler(m) \/ Arrive(m)
  PROVE  /\ Known \subseteq Known'
         /\ Started \subseteq Started'
<1>1. \A x \in Msg : go[x].pc = "done" => go'[x].pc = "done"
  BY OneGoroutine
<1>2. Started \subseteq Started'
  BY OneGoroutine DEF Started
<1>3. Introduced \subseteq Introduced'
  BY <1>1, Monotone, InMsg DEF Introduced
<1> QED
  BY <1>2, <1>3, Monotone DEF Known

-----------------------------------------------------------------------------
(***************************************************************************)
(* The arrivals keep the inductive invariant.                              *)
(***************************************************************************)

\* A NAS PDU is not nil.
LEMMA NasNotNil == NoNas \notin Nas
BY NasAssumption DEF Nas, Off

\* A started handler tells what was handled before.
LEMMA StartedKnown ==
  ASSUME MsgCaused, NEW m \in Msg, go[m].pc # "unsent"
  PROVE  /\ m.type # "RRCSetupRequest" => m.ue \in HasCell
         /\ m.type \notin {"RRCSetupRequest", "RRCSetupComplete"} =>
              m.ue \in Known
<1>1. m \in Started
  BY DEF Started
<1> QED
  BY <1>1 DEF MsgCaused

\* A peer sends a message only when the messages before it were handled.
LEMMA PeerCaused ==
  ASSUME TypeOK, IInv, NEW a \in Attach,
         UeAttach(a) \/ UeSwitchOff(a) \/ Peer(a)
  PROVE  \E m \in Msg :
           /\ Arrive(m)
           /\ m.type # "RRCSetupRequest" => m.ue \in HasCell
           /\ m.type \notin {"RRCSetupRequest", "RRCSetupComplete"} =>
                m.ue \in Known
<1> USE InMsg, RoundsAssumption
<1>1. CASE UeAttach(a)
  BY <1>1 DEF UeAttach, In
<1>2. CASE UeSwitchOff(a)
  <2>1. a \in HasCell
    BY <1>2, StartedKnown DEF UeSwitchOff, IInv, In
  <2>2. a \in SwitchOff
    BY <1>2 DEF UeSwitchOff
  <2> QED
    BY <1>2, <2>1, <2>2 DEF UeSwitchOff, Known, In
<1>3. CASE UeSetupComplete(a)
  <2>1. a \in HasCell
    <3>1. PICK r \in f1Out : r.type = "RRCSetup" /\ r.duId = DuUeId[a]
      BY <1>3 DEF UeSetupComplete
    <3>2. \E b \in HasCell : DuUeId[a] = DuUeId[b]
      BY <3>1 DEF IInv, F1Caused, F1Cause
    <3> QED
      BY <3>2, IdAssumption DEF HasCell
  <2> QED
    BY <1>3, <2>1 DEF UeSetupComplete, In
<1>4. ASSUME NEW n \in 0 .. Rounds, AmfReceives(a, n)
      PROVE  a \in Known
  <2>1. PICK r \in ngOut, c \in 0 .. Retries : r.nas = <<a, n, c>>
    BY <1>4 DEF AmfReceives
  <2>2. r.nas # NoNas
    BY <2>1, NasNotNil DEF Nas, Off
  <2>3. r.nas[1] \in Known
    BY <2>2 DEF IInv, NgCaused, NgCause
  <2>4. r.nas[1] = a
    BY <2>1
  <2> QED
    BY <2>3, <2>4
<1>5. ASSUME NEW n \in 1 .. Rounds, NEW c \in 0 .. Retries,
             AmfDownlinkNas(a, n, c) \/ UeUplinkNas(a, n, c)
      PROVE  \E m \in Msg :
               /\ Arrive(m) /\ m.ue = a
               /\ a \in Known
  <2>1. CASE AmfDownlinkNas(a, n, c)
    <3>1. a \in Known
      BY <1>4, <2>1 DEF AmfDownlinkNas
    <3> QED
      BY <2>1, <3>1 DEF AmfDownlinkNas, In
  <2>2. CASE UeUplinkNas(a, n, c)
    <3>1. PICK r \in f1Out : r.nas = <<a, n, c>>
      BY <2>2 DEF UeUplinkNas, UeReceives
    <3>2. r.nas # NoNas
      BY <3>1, NasNotNil DEF Nas, Off
    <3>3. r.nas[1] \in Known
      BY <3>2 DEF IInv, F1Caused, F1Cause
    <3>4. r.nas[1] = a
      BY <3>1
    <3> QED
      BY <2>2, <3>3, <3>4 DEF UeUplinkNas, In
  <2> QED
    BY <1>5, <2>1, <2>2
<1>6. CASE AmfContextSetup(a)
  <2>1. a \in Known
    BY <1>4, <1>6 DEF AmfContextSetup
  <2> QED
    BY <1>6, <2>1 DEF AmfContextSetup, In, Known
<1>7. CASE UeSecurityComplete(a)
  <2>1. PICK c \in 0 .. Retries :
          go[In("ULInformationTransfer", a, Rounds, c)].pc # "unsent"
    BY <1>7 DEF UeSecurityComplete, IInv, F1Caused, F1Cause
  <2>2. a \in Known
    <3>1. In("ULInformationTransfer", a, Rounds, c) \in Msg
      OBVIOUS
    <3> QED
      BY <2>1, <3>1, StartedKnown DEF IInv, In
  <2> QED
    BY <1>7, <2>2 DEF UeSecurityComplete, In, Known
<1>8. CASE DuContextResponse(a)
  <2>1. a \in Known
    <3>1. PICK r \in f1Out : /\ r.type = "UEContextSetupRequest"
                              /\ r.duId = DuUeId[a]
      BY <1>8 DEF DuContextResponse
    <3>2. \E b \in Known : DuUeId[a] = DuUeId[b]
      BY <3>1 DEF IInv, F1Caused, F1Cause
    <3> QED
      BY <3>2, IdAssumption DEF HasCell, Known
  <2> QED
    BY <1>8, <2>1 DEF DuContextResponse, In, Known
<1>9. CASE UeReconfigured(a)
  <2>1. go[In("UEContextSetupResponse", a, Last, 0)].pc # "unsent"
    BY <1>9 DEF UeReconfigured, Reconfiguration, IInv, F1Caused, F1Cause
  <2>2. a \in Known
    BY <2>1, StartedKnown DEF IInv, In
  <2> QED
    BY <1>9, <2>2 DEF UeReconfigured, In, Known
<1>10. CASE UeRegistrationComplete(a)
  <2>1. a \in Known
    BY <1>10, StartedKnown DEF UeRegistrationComplete, IInv, In
  <2> QED
    BY <1>10, <2>1 DEF UeRegistrationComplete, In, Known
<1> QED
  BY <1>1, <1>2, <1>3, <1>5, <1>6, <1>7, <1>8, <1>9, <1>10 DEF Peer, Known

\* The parts of the invariant that only speak of what is kept.
LEMMA InvFrame ==
  ASSUME TypeOK, IInv, NEW m \in Msg, Handler(m) \/ Arrive(m)
  PROVE  /\ f1Out \subseteq F1Cause'
         /\ ngOut \subseteq NgCause'
         /\ (\A a \in Attach : ue'[a].RegistrationAccept =
                               ue[a].RegistrationAccept) => AcceptCaused'
<1>1. Known \subseteq Known' /\ HasCell \subseteq HasCell'
  BY KnownStable, Monotone
<1>2. f1Out \subseteq F1Cause'
  BY <1>1 DEF IInv, F1Caused, F1Cause
<1>3. ngOut \subseteq NgCause'
  BY <1>1 DEF IInv, NgCaused, NgCause
<1>4. (\A a \in Attach : ue'[a].RegistrationAccept =
                         ue[a].RegistrationAccept) => AcceptCaused'
  BY <1>1 DEF IInv, AcceptCaused
<1> QED
  BY <1>2, <1>3, <1>4

\* The arrival of such a message keeps the invariant.
LEMMA InvArrive ==
  ASSUME TypeOK, IInv, NEW m \in Msg, Arrive(m),
         m.type # "RRCSetupRequest" => m.ue \in HasCell,
         m.type \notin {"RRCSetupRequest", "RRCSetupComplete"} =>
           m.ue \in Known
  PROVE  IInv'
<1>1. /\ UNCHANGED <<cuUE, IdRrcUeGenerator, ue, f1Out, ngOut, panic>>
      /\ go' = [go EXCEPT ![m].pc = "start"]
  BY DEF Arrive, Goto
<1>2. Known \subseteq Known' /\ HasCell' = HasCell
  BY <1>1, KnownStable DEF HasCell
<1>3. OwnContext'
  BY <1>1 DEF IInv, OwnContext, Later, TypeOK, Goroutine
<1>4. MsgCaused'
  <2>1. Started' = Started \cup {m}
    BY <1>1 DEF Started, TypeOK, Goroutine
  <2> QED
    BY <1>2, <2>1 DEF IInv, MsgCaused
<1>5. F1Caused' /\ NgCaused' /\ AcceptCaused'
  BY <1>1, InvFrame DEF F1Caused, NgCaused
<1>6. Published'
  BY <1>1, <1>2, InMsg DEF IInv, Published, TypeOK, Goroutine
<1>7. NasState'
  BY <1>1 DEF IInv, NasState, NasStep, TypeOK, Goroutine
<1>8. NoNilUe'
  BY <1>1 DEF IInv, NoNilUe
<1> QED
  BY <1>3, <1>4, <1>5, <1>6, <1>7, <1>8 DEF IInv

-----------------------------------------------------------------------------
(***************************************************************************)
(* The handlers keep the inductive invariant.                              *)
(***************************************************************************)

\* A handler's message has arrived.
LEMMA HandlerStarted ==
  ASSUME NEW m \in Msg, Handler(m)
  PROVE  m \in Started
BY SetupMsg DEF Handler, Started, At, HandleInitialULRRCMessageTransfer,
   CreateUE, HandleRRCSetupRequest, HandleULRRCMessageTransfer,
   HandleRrcSetupComplete, HandleULInformationTransfer, SendNasPdu,
   NgInitialUEMessage, NgUplinkNasTransport, SendNgap,
   HandleRRCSecurityModeComplete, HandleRRCReconfigurationComplete,
   NgInitialContextSetupResponse, LoadUE, HandleNgDownlinkNasTransport,
   SendDLInformationTransfer, HandlerInitialContextSetupRequest,
   StoreRegistrationAccept, HandleRRCUEContextSetupResponse

\* A handler's step starts no other handler.
LEMMA InvMsgCaused ==
  ASSUME TypeOK, IInv, NEW m \in Msg, Handler(m)
  PROVE  MsgCaused'
<1>1. Known \subseteq Known' /\ HasCell \subseteq HasCell'
  BY KnownStable, Monotone
<1>2. Started' \subseteq Started
  BY OneGoroutine, HandlerStarted DEF Started
<1> QED
  BY <1>1, <1>2 DEF IInv, MsgCaused

\* Unless a UE is switched off early, no other uplink message of that UE is
\* handled before its RRCSetupComplete has been.
LEMMA SetupAlone ==
  ASSUME TypeOK, IInv,
         NEW m \in Started, m.type \in UlTypes, m.ue \notin SwitchOff,
         NEW x \in Msg, x.type = "RRCSetupComplete", x.ue = m.ue, x # m
  PROVE  go[x].pc = "done"
<1>1. m \in Msg
  BY DEF Started
<1>2. x = In("RRCSetupComplete", m.ue, 0, 0)
  BY DEF Msg, In
<1>3. m.type # "RRCSetupComplete"
  BY <1>1, <1>2 DEF Msg, In
<1>4. m.ue \in Introduced
  BY <1>3 DEF IInv, MsgCaused, Known, UlTypes
<1> QED
  BY <1>2, <1>4 DEF Introduced

\* The invariant speaks of a panic only where it says that there is none for
\* want of a context.
LEMMA InvStill ==
  ASSUME IInv, NoNilUe',
         UNCHANGED <<cuUE, IdRrcUeGenerator, ue, go, f1Out, ngOut>>
  PROVE  IInv'
<1>1. /\ Started' = Started /\ HasCell' = HasCell /\ Known' = Known
      /\ F1Cause' = F1Cause /\ NgCause' = NgCause /\ NasStep' = NasStep
  BY DEF Started, HasCell, Known, Introduced, F1Cause, NgCause, NasStep
<1> QED
  BY <1>1 DEF IInv, OwnContext, MsgCaused, F1Caused, NgCaused, AcceptCaused,
              Published, NasState

\* A message that lacks what a handler dereferences ends the process.
LEMMA InvPanic ==
  ASSUME IInv, Panic("message")
  PROVE  IInv'
BY InvStill DEF Panic, NoNilUe

\* The handlers of RRCSetupRequest.
LEMMA InvSetup ==
  ASSUME TypeOK, IInv, NEW m \in Msg, m.type = "RRCSetupRequest", Handler(m),
         \/ HandleInitialULRRCMessageTransfer(m.ue)
         \/ CreateUE(m.ue)
         \/ HandleRRCSetupRequest(m.ue)
  PROVE  IInv'
<1> m.ue \in Attach /\ m = In("RRCSetupRequest", m.ue, 0, 0)
  BY MsgFields, SetupMsg
<1>0. CASE Panic("message")
  BY <1>0, InvPanic
<1>1. CASE HandleInitialULRRCMessageTransfer(m.ue) /\ ~Panic("message")
  <2>1. /\ UNCHANGED <<cuUE, f1Out, ngOut, panic>>
        /\ \/ go' = [go EXCEPT ![m].pc = "done"]
           \/ go' = [go EXCEPT ![m].pc = "create"]
        /\ \/ UNCHANGED ue
           \/ ue' = [ue EXCEPT ![m.ue].RrcUeId = IdRrcUeGenerator]
    BY <1>1 DEF HandleInitialULRRCMessageTransfer, Goto
  <2>2. \A a \in Attach :
          /\ ue'[a].RegistrationAccept = ue[a].RegistrationAccept
          /\ ue'[a].State = ue[a].State
          /\ ue'[a].NrCellId = ue[a].NrCellId
    BY <2>1 DEF TypeOK, GNBUe
  <2>3. OwnContext'
    BY <2>1 DEF IInv, OwnContext, Later, TypeOK, Goroutine
  <2>5. \A x \in Msg : \/ go'[x] = go[x]
                         \/ go'[x].pc \in {"done", "create"}
    BY <2>1 DEF TypeOK, Goroutine
  <2>4. Published'
    BY <2>1, <2>2, <2>5, InMsg DEF IInv, Published, HasCell
  <2>6. NasState'
    <3> SUFFICES ASSUME NEW x \in Msg
                 PROVE  x \in NasStep'
      BY DEF NasState, NasStep
    <3>1. CASE go'[x] = go[x]
      <4>1. x \in NasStep /\ ue'[x.ue].State = ue[x.ue].State
        BY <2>2, MsgFields DEF IInv, NasState
      <4> QED
        BY <3>1, <4>1 DEF NasStep
    <3>2. CASE go'[x].pc \in {"done", "create"}
      BY <3>2 DEF NasStep
    <3> QED
      BY <2>5, <3>1, <3>2
  <2> QED
    BY <2>1, <2>2, <2>3, <2>4, <2>6, InvFrame, InvMsgCaused
       DEF IInv, NoNilUe, F1Caused, NgCaused
<1>2. CASE CreateUE(m.ue)
  <2>1. /\ UNCHANGED <<ue, f1Out, ngOut, panic>>
        /\ go' = [go EXCEPT ![m].pc = "run"]
        /\ cuUE' # NoUe
    BY <1>2, AttachAssumption DEF CreateUE, Goto
  <2>2. OwnContext'
    BY <2>1 DEF IInv, OwnContext, Later, TypeOK, Goroutine
  <2>3. Published'
    BY <2>1 DEF Published
  <2>4. NasState'
    BY <2>1 DEF IInv, NasState, NasStep, TypeOK, Goroutine
  <2> QED
    BY <2>1, <2>2, <2>3, <2>4, InvFrame, InvMsgCaused
       DEF IInv, NoNilUe, F1Caused, NgCaused
<1>3. CASE HandleRRCSetupRequest(m.ue)
  <2>1. /\ UNCHANGED <<cuUE, ngOut, panic>>
        /\ go[m].pc = "run"
        /\ go' = [go EXCEPT ![m].pc = "done"]
    BY <1>3 DEF HandleRRCSetupRequest, Goto, At
  <2>2. /\ \A a \in Attach :
             /\ ue'[a].RegistrationAccept = ue[a].RegistrationAccept
             /\ ue'[a].State = ue[a].State
        /\ UNCHANGED f1Out \/ ue'[m.ue].NrCellId
    BY <1>3 DEF HandleRRCSetupRequest, TypeOK, GNBUe
  <2>3. OwnContext'
    BY <2>1 DEF IInv, OwnContext, Later, TypeOK, Goroutine
  <2>4. cuUE # NoUe
    BY <2>1 DEF IInv, Published
  <2>5. Published'
    BY <2>1, <2>4 DEF Published
  <2>6. NasState'
    <3> SUFFICES ASSUME NEW x \in Msg
                 PROVE  x \in NasStep'
      BY DEF NasState, NasStep
    <3>1. CASE go'[x] = go[x]
      <4>1. x \in NasStep /\ ue'[x.ue].State = ue[x.ue].State
        BY <2>2, MsgFields DEF IInv, NasState
      <4> QED
        BY <3>1, <4>1 DEF NasStep
    <3>2. CASE go'[x].pc = "done"
      BY <3>2 DEF NasStep
    <3> QED
      BY <2>1, <3>1, <3>2 DEF TypeOK, Goroutine
  <2>7. F1Caused'
    <3>1. CASE UNCHANGED f1Out
      BY <3>1, InvFrame DEF F1Caused
    <3>2. CASE ~UNCHANGED f1Out
      <4> DEFINE r0 == [type |-> "RRCSetup", cuId |-> ue[m.ue].RrcUeId,
                        duId |-> DuUeId[m.ue], srb |-> 0, nas |-> NoNas]
      <4>1. f1Out' = f1Out \cup {r0} /\ m.ue \in HasCell'
        BY <1>3, <2>2, <3>2 DEF HandleRRCSetupRequest, HasCell
      <4>2. r0 \in F1Msg
        BY <4>1, TypeHandler DEF IInv, TypeOK
      <4>3. r0 \in F1Cause'
        BY <4>1, <4>2 DEF F1Cause
      <4> HIDE DEF r0
      <4> QED
        BY <4>1, <4>3, InvFrame DEF F1Caused
    <3> QED
      BY <3>1, <3>2
  <2> QED
    BY <2>1, <2>2, <2>3, <2>5, <2>6, <2>7, InvFrame, InvMsgCaused
       DEF IInv, NoNilUe, F1Caused, NgCaused
<1> QED
  BY <1>0, <1>1, <1>2, <1>3

\* What a handler may do to the contexts.
LEMMA ContextFrame ==
  ASSUME TypeOK, IInv, NEW m \in Msg, Handler(m)
  PROVE  /\ m.type # "RRCSetupRequest" => HasCell' = HasCell
         /\ m.type # "InitialContextSetupRequest" =>
              \A a \in Attach : ue'[a].RegistrationAccept =
                                ue[a].RegistrationAccept
         /\ \A a \in Attach : ue'[a].State # ue[a].State =>
              /\ a = m.ue
              /\ m.type \in UlTypes
              /\ m.type # "RRCSetupComplete" =>
                   ue'[a].State # "UE_INITIALIZED"
<1> m.ue \in Attach
  BY MsgFields
<1> OwnContext
  BY DEF IInv
<1> USE DEF Panic, At, TypeOK, HasCell, GNBUe, OwnContext, UlTypes
<1>1. CASE /\ m.type = "RRCSetupRequest"
           /\ \/ HandleInitialULRRCMessageTransfer(m.ue)
              \/ CreateUE(m.ue)
              \/ HandleRRCSetupRequest(m.ue)
  BY <1>1 DEF HandleInitialULRRCMessageTransfer, CreateUE,
              HandleRRCSetupRequest
<1>2. CASE HandleULRRCMessageTransfer(m) \/ LoadUE(m)
  BY <1>2 DEF HandleULRRCMessageTransfer, LoadUE
<1>3. CASE NgInitialUEMessage(m)
  <2>1. ue' = [ue EXCEPT ![go[m].ue].State = "UE_ONGOING"]
    BY <1>3 DEF NgInitialUEMessage
  <2>2. m.type \in {"RRCSetupComplete", "ULInformationTransfer"}
    BY <1>3 DEF NgInitialUEMessage, IInv, NasState, NasStep
  <2>3. go[m].ue = m.ue
    BY <1>3, <2>2 DEF NgInitialUEMessage, Later
  <2> QED
    BY <2>1, <2>2, <2>3
<1>4. CASE \/ HandleRRCSecurityModeComplete(m)
           \/ HandleRRCUEContextSetupResponse(m)
           \/ SendNasPdu(m)
           \/ NgUplinkNasTransport(m)
           \/ NgInitialContextSetupResponse(m)
           \/ SendNgap(m)
           \/ SendDLInformationTransfer(m)
  BY <1>4 DEF HandleRRCSecurityModeComplete, HandleRRCUEContextSetupResponse,
              SendNasPdu, NgUplinkNasTransport, NgInitialContextSetupResponse,
              SendNgap, SendDLInformationTransfer
<1>5. CASE \/ HandleRrcSetupComplete(m)
           \/ HandleULInformationTransfer(m)
           \/ HandleRRCReconfigurationComplete(m)
  <2>1. \/ UNCHANGED ue
        \/ /\ m.type = "RRCSetupComplete"
           /\ ue' = [ue EXCEPT ![m.ue].State = "UE_INITIALIZED"]
        \/ ue' = [ue EXCEPT ![m.ue].State = "UE_ONGOING"]
        \/ ue' = [ue EXCEPT ![m.ue].State = "UE_READY"]
    BY <1>5 DEF HandleRrcSetupComplete, HandleULInformationTransfer,
                HandleRRCReconfigurationComplete
  <2>2. m.type \in UlTypes
    BY <1>5 DEF HandleRrcSetupComplete, HandleULInformationTransfer,
                HandleRRCReconfigurationComplete
  <2> QED
    BY <2>1, <2>2
<1>6. CASE HandleNgDownlinkNasTransport(m)
  BY <1>6 DEF HandleNgDownlinkNasTransport
<1>7. CASE HandlerInitialContextSetupRequest(m)
  BY <1>7 DEF HandlerInitialContextSetupRequest
<1>8. CASE StoreRegistrationAccept(m)
  <2>1. m.type = "InitialContextSetupRequest"
    BY <1>8 DEF StoreRegistrationAccept, IInv, NasState, NasStep
  <2> QED
    BY <1>8, <2>1 DEF StoreRegistrationAccept
<1> QED
  BY <1>1, <1>2, <1>3, <1>4, <1>5, <1>6, <1>7, <1>8 DEF Handler

\* A step of one handler keeps what the others are about to send.
LEMMA NasOthers ==
  ASSUME TypeOK, IInv, NEW m \in Msg, Handler(m), go[m].pc # "done",
         NEW x \in Msg, x # m
  PROVE  x \in NasStep'
<1> x.ue \in Attach /\ m.ue \in Attach
  BY MsgFields
<1>1. go'[x] = go[x]
  BY OneGoroutine
<1>2. x \in NasStep
  BY DEF IInv, NasState
<1>3. CASE ue'[x.ue].State = ue[x.ue].State
  BY <1>1, <1>2, <1>3 DEF NasStep
<1>4. CASE /\ ue'[x.ue].State # ue[x.ue].State
           /\ x.ue \notin SwitchOff
           /\ go[x].pc = "nas"
  <2>1. /\ m.ue = x.ue
        /\ m.type \in UlTypes
        /\ m.type # "RRCSetupComplete" => ue'[x.ue].State # "UE_INITIALIZED"
    BY <1>4, ContextFrame
  <2>2. m \in Started /\ x \in Started
    BY <1>4, HandlerStarted DEF Started
  <2>3. x.type \in {"RRCSetupComplete", "ULInformationTransfer"}
    BY <1>2, <1>4 DEF NasStep
  <2>4. x.type # "RRCSetupComplete"
    BY <1>4, <2>1, <2>2, SetupAlone
  <2>5. m.type # "RRCSetupComplete"
    BY <1>4, <2>1, <2>2, <2>3, SetupAlone DEF UlTypes
  <2> QED
    BY <1>1, <1>4, <2>1, <2>3, <2>4, <2>5 DEF NasStep
<1>5. CASE x.ue \in SwitchOff \/ go[x].pc # "nas"
  BY <1>1, <1>2, <1>5 DEF NasStep
<1> QED
  BY <1>3, <1>4, <1>5

\* What remains to be shown of a step of a handler, except the ones of
\* RRCSetupRequest.
LEMMA InvHandler ==
  ASSUME TypeOK, IInv, NEW m \in Msg, Handler(m),
         m.type # "RRCSetupRequest", go[m].pc # "done",
         go'[m].pc \in {"run"} \cup Later =>
           /\ go'[m].ue \in Attach
           /\ m.type \in UlTypes => go'[m].ue = m.ue,
         f1Out' \ f1Out \subseteq F1Cause',
         ngOut' \ ngOut \subseteq NgCause',
         m.type = "InitialContextSetupRequest" => AcceptCaused',
         m \in NasStep',
         NoNilUe'
  PROVE  IInv'
<1>1. \A x \in Msg : x # m => go'[x] = go[x]
  BY OneGoroutine
<1>2. OwnContext'
  BY <1>1 DEF IInv, OwnContext
<1>3. MsgCaused'
  BY InvMsgCaused
<1>4. F1Caused' /\ NgCaused'
  BY InvFrame DEF F1Caused, NgCaused
<1>5. AcceptCaused'
  BY InvFrame, ContextFrame
<1>6. Published'
  <2>1. HasCell' = HasCell /\ (cuUE # NoUe => cuUE' # NoUe)
    BY ContextFrame, Monotone
  <2>2. \A a \in Attach : go'[In("RRCSetupRequest", a, 0, 0)] =
                          go[In("RRCSetupRequest", a, 0, 0)]
    <3> TAKE a \in Attach
    <3>1. In("RRCSetupRequest", a, 0, 0) # m
      BY DEF In
    <3> QED
      BY <1>1, <3>1, InMsg
  <2> QED
    BY <2>1, <2>2 DEF IInv, Published
<1>7. NasState'
  BY NasOthers DEF NasState, NasStep
<1> QED
  BY <1>2, <1>3, <1>4, <1>5, <1>6, <1>7 DEF IInv

\* The uplink handlers.
LEMMA InvUplink ==
  ASSUME TypeOK, IInv, NEW m \in Msg, Handler(m),
         m.type # "RRCSetupRequest",
         \/ HandleULRRCMessageTransfer(m)
         \/ HandleRrcSetupComplete(m)
         \/ HandleULInformationTransfer(m)
         \/ SendNasPdu(m)
         \/ NgInitialUEMessage(m)
         \/ NgUplinkNasTransport(m)
         \/ SendNgap(m)
         \/ HandleRRCSecurityModeComplete(m)
         \/ HandleRRCReconfigurationComplete(m)
         \/ NgInitialContextSetupResponse(m)
  PROVE  IInv'
<1> m.ue \in Attach /\ <<m.ue, m.k, m.try>> \in Nas
  BY MsgFields
<1>a. m \in Started /\ m.ue \in HasCell
  BY HandlerStarted DEF IInv, MsgCaused
<1>b. TypeOK'
  BY TypeHandler DEF IInv
<1>c. cuUE \in Attach
  BY <1>a DEF IInv, Published, TypeOK
<1>1. CASE HandleULRRCMessageTransfer(m)
  <2>1. /\ go[m].pc = "start"
        /\ UNCHANGED <<ue, f1Out, ngOut, panic>>
        /\ \/ go' = [go EXCEPT ![m].pc = "done"]
           \/ /\ go' = [go EXCEPT ![m].pc = "run", ![m].ue = cuUE]
              /\ DuUeId[m.ue] = DuUeId[cuUE]
    BY <1>1, <1>c, AttachAssumption DEF HandleULRRCMessageTransfer, At, Goto
  <2>2. \/ go'[m].pc = "done"
        \/ go'[m].pc = "run" /\ go'[m].ue = m.ue
    BY <1>c, <2>1, IdAssumption DEF TypeOK, Goroutine
  <2>3. m \in NasStep'
    BY <2>2 DEF NasStep
  <2>4. m.type # "InitialContextSetupRequest"
    BY <1>1 DEF HandleULRRCMessageTransfer, UlTypes
  <2> QED
    BY <2>1, <2>2, <2>3, <2>4, InvHandler DEF IInv, NoNilUe, Later
<1>p. CASE Panic("message")
  BY <1>p, InvPanic
<1>2. CASE /\ HandleRrcSetupComplete(m) \/ HandleULInformationTransfer(m)
           /\ ~Panic("message")
  <2>1. /\ go[m].pc = "run" /\ go[m].ue = m.ue
        /\ m.type \in {"RRCSetupComplete", "ULInformationTransfer"}
        /\ UNCHANGED <<f1Out, ngOut, panic>>
        /\ go' = [go EXCEPT ![m].pc = "nas"]
    BY <1>2 DEF HandleRrcSetupComplete, HandleULInformationTransfer, At, Goto,
                IInv, OwnContext, UlTypes
  <2>2. /\ go'[m].pc = "nas" /\ go'[m].ue = m.ue
        /\ ue'[m.ue].State = "UE_INITIALIZED" <=> m.type = "RRCSetupComplete"
    BY <1>2, <2>1 DEF HandleRrcSetupComplete, HandleULInformationTransfer,
                      TypeOK, Goroutine, GNBUe
  <2>3. m \in NasStep'
    BY <2>1, <2>2 DEF NasStep
  <2> QED
    BY <2>1, <2>2, <2>3, InvHandler DEF IInv, NoNilUe
<1>3. CASE SendNasPdu(m) /\ ~Panic("message")
  <2>1. /\ go[m].pc = "nas"
        /\ UNCHANGED <<f1Out, ngOut, panic>>
        /\ m.type \in {"RRCSetupComplete", "ULInformationTransfer"}
        /\ m.ue \notin SwitchOff => (ue[m.ue].State = "UE_INITIALIZED"
                               <=> m.type = "RRCSetupComplete")
    BY <1>3 DEF SendNasPdu, At, IInv, NasState, NasStep
  <2>2. go[m].ue = m.ue
    BY <2>1 DEF IInv, OwnContext, UlTypes, Later
  <2>3. /\ go'[m].pc = IF ue[m.ue].State = "UE_INITIALIZED"
                         THEN "initial" ELSE "uplink"
        /\ go'[m].ue = m.ue
    BY <1>3, <2>2 DEF SendNasPdu, Goto, TypeOK, Goroutine
  <2>4. m \in NasStep'
    BY <2>1, <2>3 DEF NasStep
  <2> QED
    BY <2>1, <2>3, <2>4, InvHandler DEF IInv, NoNilUe
<1>7. CASE NgInitialUEMessage(m) \/ NgUplinkNasTransport(m)
  <2>1. /\ go[m].pc \in {"initial", "uplink"}
        /\ UNCHANGED <<f1Out, ngOut, panic>>
        /\ m.type \in {"RRCSetupComplete", "ULInformationTransfer"}
        /\ m.ue \notin SwitchOff => (go[m].pc = "initial"
                               <=> m.type = "RRCSetupComplete")
    BY <1>7 DEF NgInitialUEMessage, NgUplinkNasTransport, At, IInv, NasState,
                NasStep
  <2>2. go[m].ue = m.ue
    BY <2>1 DEF IInv, OwnContext, UlTypes, Later
  <2>3. /\ go'[m].pc = "send"
        /\ go'[m].ue = m.ue
        /\ go'[m].buf.nas = <<m.ue, m.k, m.try>>
        /\ go'[m].buf.type = "InitialUEMessage" <=> go[m].pc = "initial"
    BY <1>7, <2>2 DEF NgInitialUEMessage, NgUplinkNasTransport, At, TypeOK,
                      Goroutine
  <2>4. m.type = "RRCSetupComplete" <=> m.k = 0
    BY <2>1, RoundsAssumption DEF Msg, Last, Off
  <2>5. m \in NasStep'
    BY <2>1, <2>3, <2>4, NasNotNil DEF NasStep
  <2> QED
    BY <2>1, <2>3, <2>5, InvHandler DEF IInv, NoNilUe
<1>4. CASE SendNgap(m)
  <2>1. /\ go[m].pc = "send" /\ m.type \in UlTypes
        /\ UNCHANGED <<f1Out, panic>>
        /\ go' = [go EXCEPT ![m].pc = "done"]
        /\ ngOut' = ngOut \cup {go[m].buf}
    BY <1>4 DEF SendNgap, At, Goto
  <2>2. go'[m].pc = "done"
    BY <2>1 DEF TypeOK, Goroutine
  <2>3. go[m].buf \in NgCause'
    <3>1. go[m].buf \in NgMsg
      BY DEF TypeOK, Goroutine
    <3> SUFFICES ASSUME go[m].buf.nas # NoNas
                 PROVE  /\ m.ue \in Known'
                        /\ m.ue \notin SwitchOff =>
                             (go[m].buf.type = "InitialUEMessage" <=> m.k = 0)
                        /\ go[m].buf.nas = <<m.ue, m.k, m.try>>
      BY <3>1 DEF NgCause
    <3>2. /\ go[m].buf.nas = <<m.ue, m.k, m.try>>
          /\ m.type \in {"RRCSetupComplete", "ULInformationTransfer"}
          /\ m.ue \notin SwitchOff =>
               (go[m].buf.type = "InitialUEMessage" <=> m.k = 0)
      BY <2>1 DEF IInv, NasState, NasStep
    <3>3. m.ue \in Known'
      <4>1. CASE m.type = "ULInformationTransfer"
        BY <1>a, <4>1, KnownStable DEF IInv, MsgCaused
      <4>2. CASE m.type = "RRCSetupComplete"
        <5>1. m = In("RRCSetupComplete", m.ue, 0, 0) /\ m.k = 0 /\ m.try = 0
          BY <4>2 DEF Msg, In
        <5>2. m.ue \notin SwitchOff => m.ue \in Introduced'
          BY <2>1, <2>2, <3>2, <5>1 DEF Introduced
        <5>3. m.ue \in HasCell'
          BY <1>a, Monotone
        <5> QED
          BY <5>2, <5>3 DEF Known
      <4> QED
        BY <3>2, <4>1, <4>2
    <3> QED
      BY <3>2, <3>3
  <2>4. m \in NasStep'
    BY <2>2 DEF NasStep
  <2> QED
    BY <2>1, <2>2, <2>3, <2>4, InvHandler DEF IInv, NoNilUe, UlTypes, Later
<1>5. CASE HandleRRCSecurityModeComplete(m)
  <2>1. /\ go[m].pc = "run" /\ m.type = "SecurityModeComplete"
        /\ go[m].ue = m.ue
    BY <1>5 DEF HandleRRCSecurityModeComplete, At, IInv, OwnContext, UlTypes
  <2>2. ue[m.ue].NrCellId
    BY <1>a DEF HasCell
  <2> DEFINE r0 == [type |-> "UEContextSetupRequest",
                    cuId |-> ue[m.ue].RrcUeId, duId |-> DuUeId[m.ue],
                    srb |-> 0, nas |-> NoNas]
  <2>3. /\ UNCHANGED <<ngOut, panic>>
        /\ f1Out' = f1Out \cup {r0}
        /\ go' = [go EXCEPT ![m].pc = "done"]
    BY <1>5, <2>1, <2>2 DEF HandleRRCSecurityModeComplete, Goto
  <2>4. go'[m].pc = "done"
    BY <2>3 DEF TypeOK, Goroutine
  <2>5. m.ue \in Known'
    BY <1>a, <2>1, KnownStable DEF IInv, MsgCaused
  <2>6. r0 \in F1Cause'
    <3>1. r0 \in F1Msg
      BY <1>b, <2>3 DEF TypeOK
    <3> QED
      BY <2>5, <3>1 DEF F1Cause
  <2>7. m \in NasStep'
    BY <2>4 DEF NasStep
  <2> HIDE DEF r0
  <2> QED
    BY <2>1, <2>3, <2>4, <2>6, <2>7, InvHandler DEF IInv, NoNilUe, Later
<1>6. CASE HandleRRCReconfigurationComplete(m)
  <2>1. /\ go[m].pc = "run" /\ m.type = "RRCReconfigurationComplete"
        /\ go[m].ue = m.ue
        /\ UNCHANGED <<f1Out, ngOut, panic>>
    BY <1>6 DEF HandleRRCReconfigurationComplete, At, IInv, OwnContext, UlTypes
  <2>2. go'[m].pc = "respond" /\ go'[m].ue = m.ue
    BY <1>6, <2>1 DEF HandleRRCReconfigurationComplete, Goto, TypeOK, Goroutine
  <2>3. m \in NasStep'
    BY <2>1, <2>2 DEF NasStep
  <2> QED
    BY <2>1, <2>2, <2>3, InvHandler DEF IInv, NoNilUe
<1>8. CASE NgInitialContextSetupResponse(m)
  <2>1. /\ go[m].pc = "respond" /\ m.type = "RRCReconfigurationComplete"
        /\ UNCHANGED <<f1Out, ngOut, panic>>
    BY <1>8 DEF NgInitialContextSetupResponse, At, IInv, NasState, NasStep
  <2>2. go[m].ue = m.ue
    BY <2>1 DEF IInv, OwnContext, UlTypes, Later
  <2>3. go'[m].pc = "send" /\ go'[m].ue = m.ue /\ go'[m].buf.nas = NoNas
    BY <1>8, <2>2 DEF NgInitialContextSetupResponse, TypeOK, Goroutine
  <2>4. m \in NasStep'
    BY <2>1, <2>3 DEF NasStep
  <2> QED
    BY <2>1, <2>3, <2>4, InvHandler DEF IInv, NoNilUe
<1> QED
  BY <1>1, <1>p, <1>2, <1>3, <1>4, <1>5, <1>6, <1>7, <1>8

\* The handlers that are not matched with a UE.
LEMMA InvDownlink ==
  ASSUME TypeOK, IInv, NEW m \in Msg, Handler(m),
         m.type # "RRCSetupRequest",
         \/ LoadUE(m)
         \/ HandleNgDownlinkNasTransport(m)
         \/ SendDLInformationTransfer(m)
         \/ HandlerInitialContextSetupRequest(m)
         \/ StoreRegistrationAccept(m)
         \/ HandleRRCUEContextSetupResponse(m)
  PROVE  IInv'
<1> m.ue \in Attach /\ <<m.ue, m.k, m.try>> \in Nas
  BY MsgFields
<1>a. /\ m \in Started
      /\ m.type \in {"DownlinkNASTransport", "InitialContextSetupRequest",
                     "UEContextSetupResponse"}
      /\ m.type \notin UlTypes
  BY HandlerStarted DEF LoadUE, HandleNgDownlinkNasTransport,
     SendDLInformationTransfer, HandlerInitialContextSetupRequest,
     StoreRegistrationAccept, HandleRRCUEContextSetupResponse, UlTypes, At,
     IInv, NasState, NasStep
<1>b. m.ue \in HasCell /\ m.ue \in Known /\ m.ue \in Known'
  BY <1>a, KnownStable DEF IInv, MsgCaused
<1>c. cuUE \in Attach
  BY <1>b DEF IInv, Published, TypeOK
<1>d. go'[m].pc \in {"run", "send", "done"} => m \in NasStep'
  BY <1>a DEF NasStep
<1>e. TypeOK'
  BY TypeHandler DEF IInv
<1>1. CASE LoadUE(m)
  <2>1. /\ go[m].pc = "start"
        /\ UNCHANGED <<ue, f1Out, ngOut, panic>>
        /\ go' = [go EXCEPT ![m].pc = "run", ![m].ue = cuUE]
    BY <1>1, <1>c, AttachAssumption DEF LoadUE, At
  <2>2. go'[m].pc = "run" /\ go'[m].ue = cuUE
    BY <2>1 DEF TypeOK, Goroutine
  <2>3. AcceptCaused'
    BY <2>1, InvFrame
  <2> QED
    BY <1>a, <1>c, <1>d, <2>1, <2>2, <2>3, InvHandler DEF IInv, NoNilUe
<1>2. CASE HandleNgDownlinkNasTransport(m)
  <2>1. /\ go[m].pc = "run" /\ go[m].ue \in Attach
        /\ m.type = "DownlinkNASTransport"
        /\ UNCHANGED <<f1Out, ngOut, panic>>
        /\ go' = [go EXCEPT ![m].pc = "send"]
    BY <1>2 DEF HandleNgDownlinkNasTransport, At, Goto, IInv, OwnContext
  <2>2. go'[m].pc = "send" /\ go'[m].ue = go[m].ue
    BY <2>1 DEF TypeOK, Goroutine
  <2> QED
    BY <1>a, <1>d, <2>1, <2>2, InvHandler DEF IInv, NoNilUe
<1>3. CASE SendDLInformationTransfer(m)
  <2> DEFINE r0 == [type |-> "DLInformationTransfer", cuId |-> AmfId,
                    duId |-> DuId, srb |-> 0, nas |-> <<m.ue, m.k, m.try>>]
  <2>1. /\ go[m].pc = "send"
        /\ m.type = "DownlinkNASTransport"
        /\ UNCHANGED <<ngOut, panic>>
        /\ f1Out' = f1Out \cup {r0}
        /\ go' = [go EXCEPT ![m].pc = "done"]
    BY <1>3 DEF SendDLInformationTransfer, At, Goto
  <2>2. go'[m].pc = "done"
    BY <2>1 DEF TypeOK, Goroutine
  <2>3. r0 \in F1Cause'
    <3>1. r0 \in F1Msg
      BY <1>e, <2>1 DEF TypeOK
    <3> QED
      BY <1>b, <3>1 DEF F1Cause
  <2> HIDE DEF r0
  <2> QED
    BY <1>a, <1>d, <2>1, <2>2, <2>3, InvHandler DEF IInv, NoNilUe, Later
<1>4. CASE HandlerInitialContextSetupRequest(m)
  <2>1. /\ go[m].pc = "run" /\ go[m].ue \in Attach
        /\ m.type = "InitialContextSetupRequest"
        /\ UNCHANGED <<f1Out, ngOut, panic>>
        /\ go' = [go EXCEPT ![m].pc = "accept"]
    BY <1>4 DEF HandlerInitialContextSetupRequest, At, Goto, IInv, OwnContext
  <2>2. go'[m].pc = "accept" /\ go'[m].ue = go[m].ue
    BY <2>1 DEF TypeOK, Goroutine
  <2>3. \A a \in Attach :
          ue'[a].RegistrationAccept = ue[a].RegistrationAccept
    BY <1>4 DEF HandlerInitialContextSetupRequest, TypeOK, GNBUe
  <2>4. AcceptCaused'
    BY <2>3, InvFrame
  <2>5. m \in NasStep'
    BY <2>1, <2>2 DEF NasStep
  <2> QED
    BY <1>a, <2>1, <2>2, <2>4, <2>5, InvHandler DEF IInv, NoNilUe
<1>6. CASE StoreRegistrationAccept(m)
  <2>1. /\ go[m].pc = "accept" /\ go[m].ue \in Attach
        /\ UNCHANGED <<f1Out, ngOut, panic>>
        /\ go' = [go EXCEPT ![m].pc = "done"]
    BY <1>a, <1>6 DEF StoreRegistrationAccept, At, Goto, IInv, OwnContext,
                      Later
  <2>2. go'[m].pc = "done"
    BY <2>1 DEF TypeOK, Goroutine
  <2>3. \A a \in Attach :
          \/ ue'[a].RegistrationAccept = ue[a].RegistrationAccept
          \/ ue'[a].RegistrationAccept = <<m.ue, m.k, m.try>>
    BY <1>6, <2>1 DEF StoreRegistrationAccept, TypeOK, GNBUe
  <2>4. AcceptCaused'
    <3> SUFFICES ASSUME NEW a \in Attach, ue'[a].RegistrationAccept # NoNas
                 PROVE  ue'[a].RegistrationAccept[1] \in Known'
      BY DEF AcceptCaused
    <3>1. CASE ue'[a].RegistrationAccept = ue[a].RegistrationAccept
      BY <3>1, KnownStable DEF IInv, AcceptCaused
    <3>2. CASE ue'[a].RegistrationAccept = <<m.ue, m.k, m.try>>
      BY <1>b, <3>2
    <3> QED
      BY <2>3, <3>1, <3>2
  <2> QED
    BY <1>a, <1>d, <2>1, <2>2, <2>4, InvHandler DEF IInv, NoNilUe, Later
<1>5. CASE HandleRRCUEContextSetupResponse(m)
  <2>1. /\ go[m].pc = "run" /\ go[m].ue \in Attach
        /\ m.type = "UEContextSetupResponse"
        /\ UNCHANGED ngOut
        /\ panic' \in {panic, "MasterCellGroup"}
        /\ go' = go \/ go' = [go EXCEPT ![m].pc = "done"]
    BY <1>5 DEF HandleRRCUEContextSetupResponse, At, Goto, Panic, IInv,
                OwnContext
  <2>2. go'[m].pc \in {"run", "done"} /\ go'[m].ue = go[m].ue
    BY <2>1 DEF TypeOK, Goroutine
  <2> DEFINE r0 == [type |-> "RawRRCReconfiguration", cuId |-> 0,
                    duId |-> 0, srb |-> 0,
                    nas |-> ue[go[m].ue].RegistrationAccept]
  <2>3. f1Out' = f1Out \/ f1Out' = f1Out \cup {r0}
    BY <1>5 DEF HandleRRCUEContextSetupResponse, Panic
  <2>4. f1Out' \ f1Out \subseteq F1Cause'
    <3>1. CASE f1Out' = f1Out
      BY <3>1
    <3>2. CASE f1Out' = f1Out \cup {r0}
      <4>1. r0 \in F1Msg
        BY <1>e, <3>2 DEF TypeOK
      <4>2. r0.nas # NoNas => r0.nas[1] \in Known'
        BY <2>1, KnownStable DEF IInv, AcceptCaused
      <4>3. r0 \in F1Cause'
        BY <4>1, <4>2 DEF F1Cause
      <4> HIDE DEF r0
      <4> QED
        BY <3>2, <4>3
    <3> QED
      BY <2>3, <3>1, <3>2
  <2> QED
    BY <1>a, <1>d, <2>1, <2>2, <2>4, InvHandler DEF IInv, NoNilUe, Later
<1> QED
  BY <1>1, <1>2, <1>3, <1>4, <1>5, <1>6

-----------------------------------------------------------------------------
(***************************************************************************)
(* The theorems.                                                           *)
(***************************************************************************)

\* The invariant holds initially.
LEMMA InvInit == Init => IInv
<1> SUFFICES ASSUME Init PROVE IInv
  OBVIOUS
<1>1. /\ Started = {} /\ HasCell = {}
      /\ \A m \in Msg : go[m].pc = "unsent"
      /\ \A a \in Attach : ue[a].RegistrationAccept = NoNas
  BY DEF Init, Started, HasCell
<1>2. OwnContext /\ NasState
  BY <1>1 DEF OwnContext, Later, NasState, NasStep
<1>3. MsgCaused /\ AcceptCaused
  BY <1>1 DEF MsgCaused, AcceptCaused
<1>4. Published
  BY <1>1, InMsg DEF Published
<1>5. F1Caused /\ NgCaused /\ NoNilUe
  BY DEF Init, F1Caused, NgCaused, NoNilUe
<1> QED
  BY <1>2, <1>3, <1>4, <1>5 DEF IInv

\* Every step keeps the types and the invariant.
LEMMA InvNext == TypeOK /\ IInv /\ [Next]_vars => TypeOK' /\ IInv'
<1> SUFFICES ASSUME TypeOK, IInv, [Next]_vars
             PROVE  TypeOK' /\ IInv'
  OBVIOUS
<1>1. ASSUME NEW m \in Msg, Handler(m)
      PROVE  TypeOK' /\ IInv'
  <2>1. TypeOK'
    BY <1>1, TypeHandler DEF IInv
  <2>2. CASE m.type = "RRCSetupRequest"
    <3>1. \/ HandleInitialULRRCMessageTransfer(m.ue)
          \/ CreateUE(m.ue)
          \/ HandleRRCSetupRequest(m.ue)
      <4>1. ~(\/ SendNasPdu(m)
              \/ NgInitialUEMessage(m)
              \/ NgUplinkNasTransport(m)
              \/ NgInitialContextSetupResponse(m)
              \/ StoreRegistrationAccept(m))
        BY <2>2 DEF SendNasPdu, NgInitialUEMessage, NgUplinkNasTransport,
           NgInitialContextSetupResponse, StoreRegistrationAccept, At, IInv,
           OwnContext, Later
      <4> QED
        BY <1>1, <2>2, <4>1 DEF Handler, HandleULRRCMessageTransfer,
           HandleRrcSetupComplete, HandleULInformationTransfer, SendNgap,
           HandleRRCSecurityModeComplete, HandleRRCReconfigurationComplete,
           LoadUE, HandleNgDownlinkNasTransport, SendDLInformationTransfer,
           HandlerInitialContextSetupRequest, HandleRRCUEContextSetupResponse,
           UlTypes
    <3> QED
      BY <1>1, <2>1, <2>2, <3>1, InvSetup
  <2>3. CASE m.type # "RRCSetupRequest"
    BY <1>1, <2>1, <2>3, InvUplink, InvDownlink DEF Handler
  <2> QED
    BY <2>2, <2>3
<1>2. ASSUME NEW a \in Attach, UeAttach(a) \/ UeSwitchOff(a) \/ Peer(a)
      PROVE  TypeOK' /\ IInv'
  BY <1>2, PeerCaused, InvArrive, TypeArrive
<1>3. CASE UNCHANGED vars
  <2>1. TypeOK'
    BY <1>3 DEF vars, TypeOK
  <2> QED
    BY <1>3, <2>1, InvStill DEF vars, IInv, NoNilUe
<1> QED
  BY <1>1, <1>2, <1>3 DEF Next

\* The inductive invariant of the registration handlers: every handler that
\* runs was caused by the handlers the procedure puts before it, and every
\* uplink handler works on the context of its own UE.
THEOREM Inductive == Spec => [](TypeOK /\ IInv)
BY TypeInit, InvInit, InvNext, PTL DEF Spec

\* The fields of the contexts, the goroutines and the messages always have
\* values of their types, whatever the handlers overwrite.
THEOREM TypeCorrect == Spec => []TypeOK
BY Inductive, PTL

\* No interleaving of any number of attaches makes a handler dereference a
\* nil cu.UE or a nil NrCellId.
THEOREM NeverNilUe == Spec => []NoNilUe
<1>1. IInv => NoNilUe
  BY DEF IInv
<1> QED
  BY <1>1, Inductive, PTL

\* A handler that changes a context moves on.
LEMMA HandlerMoves ==
  ASSUME TypeOK, NEW m \in Msg, Handler(m)
  PROVE  go'[m].pc # go[m].pc \/ UNCHANGED ue
<1> USE SetupMsg DEF At, Goto, Panic, TypeOK, Goroutine
<1>1. CASE /\ m.type = "RRCSetupRequest"
           /\ \/ HandleInitialULRRCMessageTransfer(m.ue)
              \/ CreateUE(m.ue)
              \/ HandleRRCSetupRequest(m.ue)
  BY <1>1 DEF HandleInitialULRRCMessageTransfer, CreateUE,
              HandleRRCSetupRequest
<1>2. CASE \/ HandleULRRCMessageTransfer(m)
           \/ LoadUE(m)
           \/ SendNasPdu(m)
           \/ NgUplinkNasTransport(m)
           \/ NgInitialContextSetupResponse(m)
           \/ SendNgap(m)
           \/ SendDLInformationTransfer(m)
           \/ HandleRRCSecurityModeComplete(m)
           \/ HandleRRCUEContextSetupResponse(m)
  BY <1>2 DEF HandleULRRCMessageTransfer, LoadUE, SendNasPdu,
     NgUplinkNasTransport, NgInitialContextSetupResponse, SendNgap,
     SendDLInformationTransfer, HandleRRCSecurityModeComplete,
     HandleRRCUEContextSetupResponse
<1>3. CASE NgInitialUEMessage(m) \/ HandleRRCReconfigurationComplete(m)
  BY <1>3 DEF NgInitialUEMessage, HandleRRCReconfigurationComplete
<1>4. CASE \/ HandleRrcSetupComplete(m)
           \/ HandleULInformationTransfer(m)
           \/ HandleNgDownlinkNasTransport(m)
           \/ HandlerInitialContextSetupRequest(m)
           \/ StoreRegistrationAccept(m)
  BY <1>4 DEF HandleRrcSetupComplete, HandleULInformationTransfer,
     HandleNgDownlinkNasTransport, HandlerInitialContextSetupRequest,
     StoreRegistrationAccept
<1> QED
  BY <1>1, <1>2, <1>3, <1>4 DEF Handler

\* A handler of one UE never changes the state of the context of another,
\* although it takes the context from the shared cu.UE.
THEOREM ContextOwned == Spec => StateOwned
<1>1. TypeOK /\ IInv /\ [Next]_vars =>
        [\A a \in Attach : ue'[a].State # ue[a].State =>
           \E m \in Msg : m.ue = a /\ m.type \in UlTypes
                          /\ go'[m] # go[m]]_vars
  <2> SUFFICES ASSUME TypeOK, IInv, Next,
                      NEW a \in Attach, ue'[a].State # ue[a].State
               PROVE  \E m \in Msg : m.ue = a /\ m.type \in UlTypes
                                     /\ go'[m] # go[m]
    OBVIOUS
  <2>1. ASSUME NEW m \in Msg, Handler(m)
        PROVE  m.ue = a /\ m.type \in UlTypes /\ go'[m] # go[m]
    BY <2>1, ContextFrame, HandlerMoves
  <2>2. ASSUME NEW b \in Attach, UeAttach(b) \/ UeSwitchOff(b) \/ Peer(b)
        PROVE  FALSE
    BY <2>2, PeerArrives DEF Arrive
  <2> QED
    BY <2>1, <2>2 DEF Next
<1> QED
  BY <1>1, Inductive, PTL DEF Spec, StateOwned

\* The AMF gets one InitialUEMessage for a UE, with its Registration Request,
\* before any other message of that UE, unless this UE is switched off while
\* it registers; what the other UEs do does not matter.
THEOREM InitialOnceFirst == Spec => []InitialUeFirstUnlessOff
<1>1. TypeOK /\ IInv => InitialUeFirstUnlessOff
  <2> SUFFICES ASSUME TypeOK, IInv, NEW a \in Attach \ SwitchOff,
                      NEW r \in ngOut, r.nas # NoNas, r.nas[1] = a
               PROVE  /\ r.type = "InitialUEMessage" <=> r.nas[2] = 0
                      /\ \E i \in ngOut : /\ i.type = "InitialUEMessage"
                                         /\ i.nas = <<a, 0, 0>>
    BY DEF InitialUeFirstUnlessOff, InitialFirst
  <2>1. /\ r.type = "InitialUEMessage" <=> r.nas[2] = 0
        /\ a \in Known
    BY DEF IInv, NgCaused, NgCause
  <2>2. a \in Introduced
    BY <2>1 DEF Known
  <2> QED
    BY <2>1, <2>2 DEF Introduced
<1> QED
  BY <1>1, Inductive, PTL

-----------------------------------------------------------------------------
(***************************************************************************)
(* The order of the procedure, however many attaches overlap.  The         *)
(* handlers of downlink messages act on whatever context is in cu.UE, so   *)
(* what a message left behind is known of the context of its own UE only   *)
(* while that context is the one in cu.UE.                                 *)
(***************************************************************************)

\* What a handler may change in a context, besides its state.
LEMMA ContextChange ==
  ASSUME TypeOK, IInv, NEW m \in Msg, Handler(m), NEW a \in Attach
  PROVE  /\ ue[a].MasterCellGroup => ue'[a].MasterCellGroup
         /\ ue'[a].NrCellId =>
              \/ ue[a].NrCellId
              \/ /\ m = In("RRCSetupRequest", a, 0, 0)
                 /\ ue'[a].MasterCellGroup
                 /\ go'[m].pc = "done"
         /\ \/ ue'[a].AmfUeNgapId = ue[a].AmfUeNgapId
            \/ /\ m.type = "DownlinkNASTransport"
               /\ ue'[a].AmfUeNgapId = AmfUeId[m.ue]
         /\ \/ ue'[a].RegistrationAccept = ue[a].RegistrationAccept
            \/ /\ m.type = "InitialContextSetupRequest"
               /\ ue'[a].RegistrationAccept = <<m.ue, m.k, m.try>>
<1> m.ue \in Attach
  BY MsgFields
<1> USE DEF Panic, TypeOK, GNBUe
<1>0. CASE /\ m.type = "RRCSetupRequest"
           /\ HandleInitialULRRCMessageTransfer(m.ue) \/ CreateUE(m.ue)
  BY <1>0 DEF HandleInitialULRRCMessageTransfer, CreateUE
<1>1. CASE m.type = "RRCSetupRequest" /\ HandleRRCSetupRequest(m.ue)
  <2>1. m = In("RRCSetupRequest", m.ue, 0, 0)
    BY <1>1, SetupMsg
  <2>2. go'[m].pc = "done"
    BY <1>1, <2>1 DEF HandleRRCSetupRequest, Goto, Goroutine
  <2>3. \/ UNCHANGED ue
        \/ ue' = [ue EXCEPT ![m.ue].MasterCellGroup = TRUE,
                            ![m.ue].NrCellId = TRUE]
    BY <1>1 DEF HandleRRCSetupRequest
  <2> QED
    BY <2>1, <2>2, <2>3
<1>2. CASE \/ HandleULRRCMessageTransfer(m)
           \/ LoadUE(m)
           \/ SendNasPdu(m)
           \/ NgUplinkNasTransport(m)
           \/ NgInitialContextSetupResponse(m)
           \/ SendNgap(m)
           \/ SendDLInformationTransfer(m)
           \/ HandleRRCSecurityModeComplete(m)
           \/ HandleRRCUEContextSetupResponse(m)
  BY <1>2 DEF HandleULRRCMessageTransfer, LoadUE, SendNasPdu,
     NgUplinkNasTransport, NgInitialContextSetupResponse, SendNgap,
     SendDLInformationTransfer, HandleRRCSecurityModeComplete,
     HandleRRCUEContextSetupResponse
<1>3. CASE NgInitialUEMessage(m) \/ HandleRRCReconfigurationComplete(m)
  BY <1>3 DEF NgInitialUEMessage, HandleRRCReconfigurationComplete
<1>4. CASE \/ HandleRrcSetupComplete(m)
           \/ HandleULInformationTransfer(m)
           \/ HandleNgDownlinkNasTransport(m)
           \/ HandlerInitialContextSetupRequest(m)
  BY <1>4 DEF HandleRrcSetupComplete, HandleULInformationTransfer,
     HandleNgDownlinkNasTransport, HandlerInitialContextSetupRequest
<1>5. CASE StoreRegistrationAccept(m)
  <2>1. m.type = "InitialContextSetupRequest"
    BY <1>5 DEF StoreRegistrationAccept, At, IInv, NasState, NasStep
  <2> QED
    BY <1>5, <2>1 DEF StoreRegistrationAccept
<1> QED
  BY <1>0, <1>1, <1>2, <1>3, <1>4, <1>5 DEF Handler

\* A message that was received is of an attach.
LEMMA StartedAttached ==
  ASSUME IInv, ContextAttached, NEW m \in Started
  PROVE  m.ue \in Attached
<1>1. m \in Msg /\ m.ue \in Attach /\ go[m].pc # "unsent"
  BY MsgFields DEF Started
<1>2. CASE m.type = "RRCSetupRequest"
  BY <1>1, <1>2, SetupMsg DEF Attached
<1>3. CASE m.type # "RRCSetupRequest"
  BY <1>3 DEF IInv, MsgCaused, ContextAttached
<1> QED
  BY <1>2, <1>3

\* An attach stays.
LEMMA AttachedStable ==
  ASSUME TypeOK, NEW m \in Msg, Handler(m) \/ Arrive(m)
  PROVE  Attached \subseteq Attached'
BY OneGoroutine, InMsg DEF Attached

\* The contexts in use stay those of attaches.
LEMMA ContextAttachedStep ==
  ASSUME TypeOK, IInv, ContextAttached, NEW m \in Msg,
         Handler(m) \/ Arrive(m)
  PROVE  ContextAttached'
<1> m.ue \in Attach
  BY MsgFields
<1>0. Attached \subseteq Attached'
  BY AttachedStable
<1>1. CASE Arrive(m)
  <2>1. \A x \in Msg : go'[x].ue = go[x].ue
    BY <1>1 DEF Arrive, Goto, TypeOK, Goroutine
  <2> QED
    BY <1>0, <1>1, <2>1 DEF Arrive, ContextAttached, HasCell
<1>2. CASE Handler(m)
  <2>1. m.ue \in Attached
    BY <1>2, HandlerStarted, StartedAttached
  <2>2. cuUE' \in {cuUE, m.ue} /\ go'[m].ue \in {cuUE, go[m].ue}
    <3> USE SetupMsg DEF Goto, Panic, TypeOK, Goroutine
    <3>1. CASE /\ m.type = "RRCSetupRequest"
               /\ \/ HandleInitialULRRCMessageTransfer(m.ue)
                  \/ CreateUE(m.ue)
                  \/ HandleRRCSetupRequest(m.ue)
      BY <3>1 DEF HandleInitialULRRCMessageTransfer, CreateUE,
                  HandleRRCSetupRequest
    <3>2. CASE HandleULRRCMessageTransfer(m) \/ LoadUE(m)
      BY <3>2 DEF HandleULRRCMessageTransfer, LoadUE
    <3>3. CASE \/ NgInitialUEMessage(m)
               \/ NgUplinkNasTransport(m)
               \/ NgInitialContextSetupResponse(m)
      BY <3>3 DEF NgInitialUEMessage, NgUplinkNasTransport,
                  NgInitialContextSetupResponse
    <3>4. CASE \/ HandleRRCSecurityModeComplete(m)
               \/ HandleRRCUEContextSetupResponse(m)
               \/ SendNasPdu(m)
               \/ HandleRrcSetupComplete(m)
      BY <3>4 DEF HandleRRCSecurityModeComplete,
         HandleRRCUEContextSetupResponse, SendNasPdu, HandleRrcSetupComplete
    <3>5. CASE \/ HandleULInformationTransfer(m)
               \/ HandleRRCReconfigurationComplete(m)
               \/ SendNgap(m)
               \/ HandleNgDownlinkNasTransport(m)
               \/ SendDLInformationTransfer(m)
               \/ HandlerInitialContextSetupRequest(m)
               \/ StoreRegistrationAccept(m)
      BY <3>5 DEF HandleULInformationTransfer,
         HandleRRCReconfigurationComplete, SendNgap,
         HandleNgDownlinkNasTransport, SendDLInformationTransfer,
         HandlerInitialContextSetupRequest, StoreRegistrationAccept
    <3> QED
      BY <1>2, <3>1, <3>2, <3>3, <3>4, <3>5 DEF Handler
  <2>3. HasCell' \subseteq HasCell \cup {m.ue}
    BY <1>2, ContextChange DEF HasCell, In
  <2>4. \A x \in Msg : x # m => go'[x] = go[x]
    BY <1>2, OneGoroutine
  <2> QED
    BY <1>0, <2>1, <2>2, <2>3, <2>4 DEF ContextAttached
<1> QED
  BY <1>1, <1>2


\* A handler's step keeps the setup of a context with a cell finished.
LEMMA SetupDoneStep ==
  ASSUME TypeOK, IInv, SetupDone, NEW m \in Msg, Handler(m) \/ Arrive(m)
  PROVE  SetupDone'
<1> SUFFICES ASSUME NEW a \in HasCell'
             PROVE  go'[In("RRCSetupRequest", a, 0, 0)].pc = "done"
  BY DEF SetupDone
<1>0. a \in Attach
  BY DEF HasCell
<1>1. CASE a \in HasCell
  <2>1. go[In("RRCSetupRequest", a, 0, 0)].pc = "done"
    BY <1>1 DEF SetupDone
  <2> QED
    BY <1>0, <2>1, OneGoroutine, InMsg
<1>2. CASE a \notin HasCell
  <2>1. Handler(m)
    BY <1>2 DEF Arrive, HasCell
  <2>2. m = In("RRCSetupRequest", a, 0, 0) /\ go'[m].pc = "done"
    BY <1>0, <1>2, <2>1, ContextChange DEF HasCell
  <2> QED
    BY <2>2
<1> QED
  BY <1>1, <1>2

\* createUE is the only place where cu.UE is assigned.
LEMMA CuUeAssigned ==
  ASSUME NEW m \in Msg, Handler(m) \/ Arrive(m), cuUE' # cuUE
  PROVE  m.type = "RRCSetupRequest" /\ CreateUE(m.ue)
<1>1. Handler(m)
  BY DEF Arrive
<1>2. CASE /\ m.type = "RRCSetupRequest"
           /\ \/ HandleInitialULRRCMessageTransfer(m.ue)
              \/ CreateUE(m.ue)
              \/ HandleRRCSetupRequest(m.ue)
  BY <1>2 DEF HandleInitialULRRCMessageTransfer, HandleRRCSetupRequest, Panic
<1>3. CASE \/ HandleULRRCMessageTransfer(m)
           \/ LoadUE(m)
           \/ HandleRrcSetupComplete(m)
           \/ SendNasPdu(m)
           \/ HandleRRCSecurityModeComplete(m)
           \/ HandleRRCUEContextSetupResponse(m)
  BY <1>3 DEF HandleULRRCMessageTransfer, LoadUE, Panic,
     HandleRrcSetupComplete, SendNasPdu, HandleRRCSecurityModeComplete,
     HandleRRCUEContextSetupResponse
<1>4. CASE \/ HandleULInformationTransfer(m)
           \/ NgInitialUEMessage(m)
           \/ NgUplinkNasTransport(m)
           \/ SendNgap(m)
           \/ HandleRRCReconfigurationComplete(m)
           \/ NgInitialContextSetupResponse(m)
           \/ HandleNgDownlinkNasTransport(m)
           \/ SendDLInformationTransfer(m)
           \/ HandlerInitialContextSetupRequest(m)
           \/ StoreRegistrationAccept(m)
  BY <1>4 DEF HandleULInformationTransfer, NgInitialUEMessage,
     NgUplinkNasTransport, SendNgap, HandleRRCReconfigurationComplete,
     NgInitialContextSetupResponse, HandleNgDownlinkNasTransport,
     SendDLInformationTransfer, HandlerInitialContextSetupRequest,
     StoreRegistrationAccept
<1> QED
  BY <1>1, <1>2, <1>3, <1>4 DEF Handler

\* A context with a cell that has left cu.UE does not come back.
LEMMA NeverBack ==
  ASSUME SetupDone, NEW m \in Msg, Handler(m) \/ Arrive(m),
         NEW a \in HasCell, cuUE' = a
  PROVE  cuUE = a
<1> SUFFICES ASSUME cuUE' # cuUE
             PROVE  FALSE
  OBVIOUS
<1>1. CreateUE(m.ue)
  BY CuUeAssigned
<1>2. cuUE' = m.ue /\ go[In("RRCSetupRequest", m.ue, 0, 0)].pc = "create"
  BY <1>1 DEF CreateUE, At
<1> QED
  BY <1>2 DEF SetupDone

\* How far the procedure has come is never undone.
LEMMA OrderStable ==
  ASSUME TypeOK, IInv, SetupDone, NEW m \in Msg, Handler(m) \/ Arrive(m)
  PROVE  /\ \A i : Given(i) => Given(i)'
         /\ \A a \in Attach : HasId(a) => HasId(a)'
         /\ \A a \in HasCell : CurrentHasId(a) => CurrentHasId(a)'
<1>4. \A i : Given(i) => Given(i)'
  BY OneGoroutine DEF Given
<1>5. \A a \in Attach : HasId(a) => HasId(a)'
  <2> SUFFICES ASSUME NEW a \in Attach, HasId(a)
               PROVE  HasId(a)'
    OBVIOUS
  <2>1. CASE ue'[a].AmfUeNgapId = ue[a].AmfUeNgapId
    BY <1>4, <2>1 DEF HasId
  <2>2. CASE ue'[a].AmfUeNgapId # ue[a].AmfUeNgapId
    <3>1. Handler(m)
      BY <2>2 DEF Arrive
    <3>2. /\ m.type = "DownlinkNASTransport"
          /\ ue'[a].AmfUeNgapId = AmfUeId[m.ue]
      BY <2>2, <3>1, ContextChange
    <3>3. go'[m].pc # "unsent"
      BY <3>1, HandlerStarted, OneGoroutine DEF Started
    <3> QED
      BY <3>2, <3>3 DEF HasId, Given
  <2> QED
    BY <2>1, <2>2
<1>6. \A a \in HasCell : CurrentHasId(a) => CurrentHasId(a)'
  BY <1>5, NeverBack DEF CurrentHasId, HasCell
<1> QED
  BY <1>4, <1>5, <1>6

\* What was received, handled and sent keeps its place in the procedure.
LEMMA OrderKept ==
  ASSUME TypeOK, IInv, SetupDone, Ordered,
         NEW m \in Msg, Handler(m) \/ Arrive(m)
  PROVE  /\ \A x \in Started : MsgOrder(x)'
         /\ \A x \in Started : x # m => StepOrder(x)'
         /\ \A r \in f1Out : F1Order(r)'
         /\ \A r \in ngOut : NgOrder(r)'
<1>0. Known \subseteq HasCell /\ HasCell \subseteq Attach
  BY DEF Known, HasCell
<1>1. ASSUME NEW x \in Started
      PROVE  /\ x \in Msg /\ x.ue \in Attach
             /\ x.type # "RRCSetupRequest" => x.ue \in HasCell
  BY <1>0, MsgFields DEF Started, IInv, MsgCaused
<1>2. ASSUME NEW x \in Started
      PROVE  MsgOrder(x)'
  <2>1. MsgOrder(x)
    BY DEF Ordered
  <2> QED
    BY <1>1, <2>1, OrderStable DEF MsgOrder
<1>3. ASSUME NEW x \in Started, x # m
      PROVE  StepOrder(x)'
  <2>1. StepOrder(x) /\ go'[x] = go[x]
    BY <1>1, <1>3, OneGoroutine DEF Ordered
  <2>2. x.type = "DownlinkNASTransport" =>
          /\ go'[x].pc = "run" /\ cuUE' = x.ue => go'[x].ue = x.ue
          /\ go'[x].pc \in {"send", "done"} => CurrentHasId(x.ue)'
    BY <1>1, <2>1, OrderStable, NeverBack DEF StepOrder
  <2>3. /\ x.type \in {"ULInformationTransfer", "RRCReconfigurationComplete"}
        /\ x.k # Off
        /\ go'[x].pc \in {"run"} \cup Later
        => HasId(x.ue)'
    BY <1>1, <2>1, OrderStable DEF StepOrder
  <2>4. /\ go'[x].pc = "send" /\ x.type \in UlTypes
        /\ go'[x].buf.type # "InitialUEMessage"
        /\ go'[x].buf.nas # NoNas => x.k \notin {0, Off}
        => Given(go[x].buf.amfUeId)'
    <3>1. Given(go[x].buf.amfUeId) => \E y \in Msg :
            /\ y.type = "DownlinkNASTransport"
            /\ go'[y].pc # "unsent"
            /\ go'[x].buf.amfUeId = AmfUeId[y.ue]
      BY <2>1, OneGoroutine DEF Given
    <3> QED
      BY <2>1, <3>1 DEF StepOrder, Given
  <2> QED
    BY <2>2, <2>3, <2>4 DEF StepOrder
<1>4. ASSUME NEW r \in f1Out
      PROVE  F1Order(r)'
  <2>1. F1Order(r)
    BY DEF Ordered
  <2>2. r.nas # NoNas => r.nas[1] \in HasCell
    BY <1>0 DEF IInv, F1Caused, F1Cause
  <2>3. r.type = "UEContextSetupRequest" =>
          \A a \in Attach : r.duId = DuUeId[a] => a \in HasCell
    BY <1>0, IdAssumption DEF IInv, F1Caused, F1Cause
  <2> QED
    BY <2>1, <2>2, <2>3, OrderStable DEF F1Order
<1>5. ASSUME NEW r \in ngOut
      PROVE  NgOrder(r)'
  <2>1. NgOrder(r)
    BY DEF Ordered
  <2>2. r.nas # NoNas => r.nas[1] \in Attach
    BY <1>0 DEF IInv, NgCaused, NgCause
  <2> QED
    BY <2>1, <2>2, OrderStable DEF NgOrder
<1> QED
  BY <1>2, <1>3, <1>4, <1>5

\* A message that a peer sends comes at its place in the procedure.
LEMMA PeerOrdered ==
  ASSUME TypeOK, IInv, Ordered, NEW a \in Attach,
         UeAttach(a) \/ UeSwitchOff(a) \/ Peer(a)
  PROVE  \E m \in Msg : Arrive(m) /\ MsgOrder(m)
<1> USE InMsg, RoundsAssumption
<1>1. CASE UeAttach(a) \/ UeSetupComplete(a) \/ UeSwitchOff(a)
  BY <1>1 DEF UeAttach, UeSetupComplete, UeSwitchOff, In, MsgOrder
<1>2. ASSUME NEW n \in 1 .. Rounds, NEW c \in 0 .. Retries,
             AmfDownlinkNas(a, n, c)
      PROVE  \E m \in Msg : Arrive(m) /\ MsgOrder(m)
  BY <1>2 DEF AmfDownlinkNas, In, MsgOrder
<1>3. ASSUME NEW n \in 1 .. Rounds, NEW c \in 0 .. Retries,
             UeUplinkNas(a, n, c)
      PROVE  \E m \in Msg : Arrive(m) /\ MsgOrder(m)
  <2>1. CurrentHasId(a)
    <3>1. PICK r \in f1Out :
            r.type = "DLInformationTransfer" /\ r.nas = <<a, n, c>>
      BY <1>3 DEF UeUplinkNas, UeReceives
    <3> QED
      BY <3>1 DEF Ordered, F1Order
  <2>2. n # Off
    BY DEF Off
  <2> QED
    BY <1>3, <2>1, <2>2 DEF UeUplinkNas, In, MsgOrder
<1>4. CASE AmfContextSetup(a)
  <2>1. PICK r \in ngOut, c \in 0 .. Retries : r.nas = <<a, Rounds, c>>
    BY <1>4 DEF AmfContextSetup, AmfReceives
  <2>2. r.nas # NoNas /\ r.nas[1] = a /\ r.nas[2] \notin {0, Off}
    BY <2>1, NasNotNil DEF Nas, Off
  <2>3. HasId(a)
    BY <2>2 DEF Ordered, NgOrder
  <2> QED
    BY <1>4, <2>3 DEF AmfContextSetup, In, MsgOrder
<1>0. Last # Off
  BY DEF Last, Off
<1>5. CASE UeSecurityComplete(a)
  <2>1. PICK c \in 0 .. Retries :
          go[In("ULInformationTransfer", a, Rounds, c)].pc # "unsent"
    BY <1>5 DEF UeSecurityComplete, IInv, F1Caused, F1Cause
  <2>2. In("ULInformationTransfer", a, Rounds, c) \in Started
    BY <2>1 DEF Started
  <2>3. Rounds # Off
    BY DEF Off
  <2>4. CurrentHasId(a)
    BY <2>2, <2>3 DEF Ordered, MsgOrder, In
  <2> QED
    BY <1>0, <1>5, <2>4 DEF UeSecurityComplete, In, MsgOrder
<1>6. CASE DuContextResponse(a)
  <2>1. CurrentHasId(a)
    BY <1>6 DEF DuContextResponse, Ordered, F1Order
  <2> QED
    BY <1>0, <1>6, <2>1 DEF DuContextResponse, In, MsgOrder
<1>7. CASE UeReconfigured(a)
  <2>1. In("UEContextSetupResponse", a, Last, 0) \in Started
    BY <1>7 DEF UeReconfigured, Reconfiguration, IInv, F1Caused, F1Cause,
                Started
  <2>2. CurrentHasId(a)
    BY <1>0, <2>1 DEF Ordered, MsgOrder, In
  <2> QED
    BY <1>0, <1>7, <2>2 DEF UeReconfigured, In, MsgOrder
<1>8. CASE UeRegistrationComplete(a)
  <2>1. In("RRCReconfigurationComplete", a, Last, 0) \in Started
    BY <1>8 DEF UeRegistrationComplete, Started
  <2>2. CurrentHasId(a)
    BY <1>0, <2>1 DEF Ordered, MsgOrder, In
  <2> QED
    BY <1>0, <1>8, <2>2 DEF UeRegistrationComplete, In, MsgOrder
<1> QED
  BY <1>1, <1>2, <1>3, <1>4, <1>5, <1>6, <1>7, <1>8 DEF Peer

\* The arrival of such a message keeps the order.
LEMMA OrderArrive ==
  ASSUME TypeOK, IInv, SetupDone, Ordered,
         NEW m \in Msg, Arrive(m), MsgOrder(m)
  PROVE  Ordered'
<1>1. /\ UNCHANGED <<cuUE, ue, f1Out, ngOut>>
      /\ go'[m].pc = "start"
      /\ Started' \subseteq Started \cup {m}
  BY DEF Arrive, Goto, Started, TypeOK, Goroutine
<1>3. StepOrder(m)'
  BY <1>1 DEF StepOrder, Later
<1>4. MsgOrder(m)'
  <2>1. CurrentHasId(m.ue) => CurrentHasId(m.ue)'
    BY <1>1, OrderStable, MsgFields DEF CurrentHasId
  <2> QED
    BY <2>1, OrderStable, MsgFields DEF MsgOrder
<1>5. \A x \in Started' : MsgOrder(x)' /\ StepOrder(x)'
  BY <1>1, <1>3, <1>4, OrderKept
<1> QED
  BY <1>1, <1>5, OrderKept DEF Ordered

\* The order is kept by a handler's step that is at its place itself, and
\* sends what is at its place.
LEMMA OrderStep ==
  ASSUME TypeOK, IInv, SetupDone, Ordered, NEW m \in Msg, Handler(m),
         StepOrder(m)',
         \A r \in f1Out' \ f1Out : F1Order(r)',
         \A r \in ngOut' \ ngOut : NgOrder(r)'
  PROVE  Ordered'
<1>2. Started' \subseteq Started
  BY OneGoroutine, HandlerStarted DEF Started
<1>3. \A x \in Started' : MsgOrder(x)' /\ StepOrder(x)'
  BY <1>2, OrderKept
<1>4. \A r \in f1Out' : F1Order(r)'
  BY OrderKept
<1>5. \A r \in ngOut' : NgOrder(r)'
  BY OrderKept
<1> QED
  BY <1>3, <1>4, <1>5 DEF Ordered

\* The handlers of uplink messages keep the order.
LEMMA OrderUplink ==
  ASSUME TypeOK, IInv, SetupDone, Ordered, NEW m \in Msg, Handler(m),
         m.type \in UlTypes
  PROVE  Ordered'
<1>0. /\ m.ue \in Attach /\ m \in Started
      /\ MsgOrder(m) /\ StepOrder(m)
      /\ m.type # "DownlinkNASTransport"
      /\ m.type # "InitialContextSetupRequest"
  BY MsgFields, HandlerStarted DEF Ordered, UlTypes
<1>1. CASE HandleULRRCMessageTransfer(m)
  <2>1. UNCHANGED <<f1Out, ngOut>>
    BY <1>1 DEF HandleULRRCMessageTransfer, Panic
  <2>2. /\ go'[m].pc \in {"start", "done", "run"}
        /\ go'[m].pc = "run" => cuUE = m.ue
    BY <1>0, <1>1, IdAssumption DEF HandleULRRCMessageTransfer, Panic, At,
       Goto, TypeOK, Goroutine
  <2>3. /\ m.type \in {"ULInformationTransfer", "RRCReconfigurationComplete"}
        /\ m.k # Off
        /\ go'[m].pc = "run"
        => HasId(m.ue)'
    BY <1>0, <2>2, OrderStable DEF MsgOrder, CurrentHasId
  <2>4. StepOrder(m)'
    BY <1>0, <2>2, <2>3 DEF StepOrder, Later
  <2> QED
    BY <1>0, <2>1, <2>4, OrderStep
<1>2. CASE \/ HandleRrcSetupComplete(m)
           \/ HandleULInformationTransfer(m)
           \/ SendNasPdu(m)
           \/ HandleRRCReconfigurationComplete(m)
  <2>1. /\ UNCHANGED <<f1Out, ngOut>>
        /\ go[m].pc \in {"run", "nas"}
        /\ go'[m].pc \in {"run", "nas", "initial", "uplink", "respond"}
    BY <1>2 DEF HandleRrcSetupComplete, HandleULInformationTransfer,
                SendNasPdu, HandleRRCReconfigurationComplete, Panic, At, Goto,
                TypeOK, Goroutine
  <2>2. /\ m.type \in {"ULInformationTransfer", "RRCReconfigurationComplete"}
        /\ m.k # Off
        => HasId(m.ue)'
    BY <1>0, <2>1, OrderStable DEF StepOrder, Later
  <2>3. StepOrder(m)'
    BY <1>0, <2>1, <2>2 DEF StepOrder
  <2> QED
    BY <1>0, <2>1, <2>3, OrderStep
<1>3. CASE \/ NgInitialUEMessage(m)
           \/ NgUplinkNasTransport(m)
           \/ NgInitialContextSetupResponse(m)
  <2>1. /\ go[m].pc \in {"initial", "uplink", "respond"}
        /\ go'[m].pc = "send"
        /\ UNCHANGED <<f1Out, ngOut>>
        /\ m.type \in {"RRCSetupComplete", "ULInformationTransfer",
                       "RRCReconfigurationComplete"}
    BY <1>3 DEF NgInitialUEMessage, NgUplinkNasTransport,
       NgInitialContextSetupResponse, At, IInv, NasState, NasStep, TypeOK,
       Goroutine
  <2>2. go[m].ue = m.ue
    BY <2>1 DEF IInv, OwnContext, UlTypes, Later
  <2>3. \/ go'[m].buf.type = "InitialUEMessage"
        \/ go'[m].buf.amfUeId = ue[m.ue].AmfUeNgapId
    BY <1>3, <2>2 DEF NgInitialUEMessage, NgUplinkNasTransport,
       NgInitialContextSetupResponse, TypeOK, Goroutine
  <2>4. m.type # "RRCSetupComplete" /\ m.k # Off =>
          HasId(m.ue) /\ HasId(m.ue)'
    BY <1>0, <2>1, OrderStable DEF StepOrder, Later
  <2>5. m.type = "RRCSetupComplete" =>
          m.k = 0 /\ go'[m].buf.nas # NoNas
    <3>1. m.type = "RRCSetupComplete" => ~NgInitialContextSetupResponse(m)
      BY DEF NgInitialContextSetupResponse, At, IInv, NasState, NasStep
    <3>2. m.type = "RRCSetupComplete" => m.k = 0
      BY DEF Msg
    <3>3. <<m.ue, m.k, m.try>> # NoNas
      BY MsgFields, NasNotNil
    <3>4. m.type = "RRCSetupComplete" =>
            go'[m].buf.nas = <<m.ue, m.k, m.try>>
      BY <1>3, <3>1 DEF NgInitialUEMessage, NgUplinkNasTransport, TypeOK,
                        Goroutine
    <3> QED
      BY <3>2, <3>3, <3>4
  <2>6. m.k = Off => go'[m].buf.nas # NoNas
    <3>1. Last # Off
      BY RoundsAssumption DEF Last, Off
    <3>2. m.k = Off => m.type # "RRCReconfigurationComplete"
      BY <3>1 DEF Msg
    <3>3. m.type # "RRCReconfigurationComplete" =>
            go'[m].buf.nas = <<m.ue, m.k, m.try>>
      <4>1. m.type # "RRCReconfigurationComplete" =>
              ~NgInitialContextSetupResponse(m)
        BY DEF NgInitialContextSetupResponse, At, IInv, NasState, NasStep
      <4> QED
        BY <1>3, <4>1 DEF NgInitialUEMessage, NgUplinkNasTransport, TypeOK,
                          Goroutine
    <3>4. <<m.ue, m.k, m.try>> # NoNas
      BY MsgFields, NasNotNil
    <3> QED
      BY <3>2, <3>3, <3>4
  <2>7. /\ go'[m].buf.type # "InitialUEMessage"
        /\ go'[m].buf.nas # NoNas => m.k \notin {0, Off}
        => Given(go[m].buf.amfUeId)'
    <3> SUFFICES ASSUME go'[m].buf.type # "InitialUEMessage",
                        go'[m].buf.nas # NoNas => m.k \notin {0, Off}
                 PROVE  Given(go[m].buf.amfUeId)'
      OBVIOUS
    <3>1. Given(ue[m.ue].AmfUeNgapId)
      BY <2>4, <2>5, <2>6 DEF HasId
    <3>2. go'[m].buf.amfUeId = ue[m.ue].AmfUeNgapId
      BY <2>3
    <3> QED
      BY <3>1, <3>2, OneGoroutine DEF Given
  <2>8. StepOrder(m)'
    BY <1>0, <2>1, <2>4, <2>7 DEF StepOrder
  <2> QED
    BY <1>0, <2>1, <2>8, OrderStep
<1>4. CASE SendNgap(m)
  <2>1. /\ go[m].pc = "send"
        /\ UNCHANGED f1Out
        /\ ngOut' = ngOut \cup {go[m].buf}
        /\ go'[m].pc = "done"
    BY <1>4 DEF SendNgap, At, Goto, TypeOK, Goroutine
  <2>2. StepOrder(m)'
    BY <1>0, <2>1 DEF StepOrder, Later
  <2> DEFINE r == go[m].buf
  <2>3. r.nas # NoNas =>
          /\ r.nas[1] = m.ue /\ r.nas[2] = m.k
          /\ m.type \in {"RRCSetupComplete", "ULInformationTransfer"}
    BY <2>1 DEF IInv, NasState, NasStep
  <2>4. /\ r.type # "InitialUEMessage"
        /\ r.nas # NoNas => m.k \notin {0, Off}
        => Given(r.amfUeId)
    BY <1>0, <2>1 DEF StepOrder
  <2>5. r.nas # NoNas /\ m.k # 0 => m.type = "ULInformationTransfer"
    BY <2>3 DEF Msg
  <2>6. r.nas # NoNas /\ m.k \notin {0, Off} => HasId(m.ue)'
    BY <1>0, <2>1, <2>5, OrderStable DEF StepOrder, Later
  <2>7. r.nas # NoNas /\ m.k = Off => m.ue \in SwitchOff
    <3>1. Off # 0
      BY RoundsAssumption DEF Off
    <3> QED
      BY <1>0, <2>5, <3>1 DEF MsgOrder
  <2>8. ASSUME NEW s, s = r
        PROVE  NgOrder(s)'
    <3>1. Given(s.amfUeId) => Given(s.amfUeId)'
      BY OrderStable
    <3> HIDE DEF r
    <3> QED
      BY <2>3, <2>4, <2>6, <2>7, <2>8, <3>1 DEF NgOrder
  <2> QED
    BY <1>0, <2>1, <2>2, <2>8, OrderStep
<1>5. CASE HandleRRCSecurityModeComplete(m)
  <2>1. /\ m.type = "SecurityModeComplete"
        /\ UNCHANGED ngOut
        /\ go'[m].pc # "send"
        /\ go[m].ue = m.ue
    BY <1>5 DEF HandleRRCSecurityModeComplete, At, Goto, Panic, TypeOK,
                Goroutine, IInv, OwnContext, UlTypes
  <2>2. \A s \in f1Out' \ f1Out : /\ s.type = "UEContextSetupRequest"
                                  /\ s.duId = DuUeId[m.ue]
    BY <1>5, <2>1 DEF HandleRRCSecurityModeComplete, Panic
  <2>3. CurrentHasId(m.ue)'
    <3>1. m.ue \in HasCell /\ m.k # Off
      BY <1>0, <2>1, RoundsAssumption DEF IInv, MsgCaused, Msg, Last, Off
    <3> QED
      BY <1>0, <2>1, <3>1, OrderStable DEF MsgOrder
  <2>4. StepOrder(m)'
    BY <1>0, <2>1 DEF StepOrder
  <2>5. \A s \in f1Out' \ f1Out : F1Order(s)'
    BY <1>0, <2>2, <2>3, IdAssumption DEF F1Order
  <2> QED
    BY <1>0, <2>1, <2>4, <2>5, OrderStep
<1> QED
  BY <1>1, <1>2, <1>3, <1>4, <1>5 DEF Handler, UlTypes, LoadUE,
     HandleNgDownlinkNasTransport, SendDLInformationTransfer,
     HandlerInitialContextSetupRequest, StoreRegistrationAccept,
     HandleRRCUEContextSetupResponse, At, IInv, NasState, NasStep

\* The other handlers keep the order.
LEMMA OrderDownlink ==
  ASSUME TypeOK, IInv, ContextAttached, SetupDone, Ordered,
         NEW m \in Msg, Handler(m), m.type \notin UlTypes
  PROVE  Ordered'
<1>0. /\ m.ue \in Attach /\ m \in Started
      /\ MsgOrder(m) /\ StepOrder(m)
      /\ m.type \notin {"ULInformationTransfer", "RRCReconfigurationComplete"}
  BY MsgFields, HandlerStarted DEF Ordered, UlTypes
<1>1. m.type = "DownlinkNASTransport" => m.ue \in HasCell
  BY <1>0 DEF IInv, MsgCaused
<1>2. CASE /\ m.type = "RRCSetupRequest"
           /\ \/ HandleInitialULRRCMessageTransfer(m.ue)
              \/ CreateUE(m.ue)
              \/ HandleRRCSetupRequest(m.ue)
  <2>1. StepOrder(m)'
    BY <1>2 DEF StepOrder, UlTypes
  <2>2. UNCHANGED ngOut /\ \A r \in f1Out' \ f1Out : r.type = "RRCSetup"
    BY <1>2 DEF HandleInitialULRRCMessageTransfer, CreateUE,
                HandleRRCSetupRequest, Panic
  <2>3. \A r \in f1Out' \ f1Out : F1Order(r)'
    BY <2>2 DEF F1Order
  <2> QED
    BY <1>2, <2>1, <2>2, <2>3, OrderStep
<1>3. CASE LoadUE(m)
  <2>1. /\ UNCHANGED <<cuUE, f1Out, ngOut>>
        /\ \/ go'[m].pc = "start"
           \/ go'[m].pc = "run" /\ go'[m].ue = cuUE
    BY <1>3 DEF LoadUE, Panic, At, TypeOK, Goroutine
  <2>2. StepOrder(m)'
    BY <1>0, <2>1 DEF StepOrder
  <2> QED
    BY <2>1, <2>2, OrderStep
<1>4. CASE HandleNgDownlinkNasTransport(m)
  <2>1. /\ m.type = "DownlinkNASTransport"
        /\ go[m].pc = "run" /\ go'[m].pc = "send"
        /\ go[m].ue \in Attach
        /\ UNCHANGED <<cuUE, f1Out, ngOut>>
    BY <1>4 DEF HandleNgDownlinkNasTransport, At, Goto, IInv, OwnContext,
                TypeOK, Goroutine
  <2>2. ue'[go[m].ue].AmfUeNgapId = AmfUeId[m.ue]
    BY <1>4, <2>1 DEF HandleNgDownlinkNasTransport, TypeOK, GNBUe
  <2>3. cuUE = m.ue => go[m].ue = m.ue
    BY <1>0, <2>1 DEF StepOrder
  <2>4. CurrentHasId(m.ue)'
    BY <2>1, <2>2, <2>3 DEF CurrentHasId, HasId, Given
  <2>5. StepOrder(m)'
    BY <2>1, <2>4 DEF StepOrder, UlTypes
  <2> QED
    BY <2>1, <2>5, OrderStep
<1>5. CASE SendDLInformationTransfer(m)
  <2>1. /\ m.type = "DownlinkNASTransport" /\ go[m].pc = "send"
        /\ UNCHANGED ngOut
        /\ go'[m].pc = "done"
    BY <1>5 DEF SendDLInformationTransfer, At, Goto, TypeOK, Goroutine
  <2>2. CurrentHasId(m.ue)'
    BY <1>0, <1>1, <2>1, OrderStable DEF StepOrder
  <2>3. StepOrder(m)'
    BY <2>1, <2>2 DEF StepOrder, UlTypes
  <2>4. <<m.ue, m.k, m.try>> # NoNas
    BY MsgFields, NasNotNil
  <2>5. \A r \in f1Out' \ f1Out : /\ r.type = "DLInformationTransfer"
                                  /\ r.nas = <<m.ue, m.k, m.try>>
    BY <1>5 DEF SendDLInformationTransfer
  <2>6. \A r \in f1Out' \ f1Out : F1Order(r)'
    BY <2>2, <2>4, <2>5 DEF F1Order
  <2> QED
    BY <2>1, <2>3, <2>6, OrderStep
<1>6. CASE HandlerInitialContextSetupRequest(m) \/ StoreRegistrationAccept(m)
  <2>1. /\ m.type = "InitialContextSetupRequest"
        /\ UNCHANGED <<f1Out, ngOut>>
    BY <1>6 DEF HandlerInitialContextSetupRequest, StoreRegistrationAccept,
                At, IInv, NasState, NasStep
  <2>2. StepOrder(m)'
    BY <2>1 DEF StepOrder, UlTypes
  <2> QED
    BY <2>1, <2>2, OrderStep
<1>7. CASE HandleRRCUEContextSetupResponse(m)
  <2>1. /\ m.type = "UEContextSetupResponse"
        /\ UNCHANGED ngOut
        /\ \A r \in f1Out' \ f1Out : r.type = "RawRRCReconfiguration"
    BY <1>7 DEF HandleRRCUEContextSetupResponse, Panic
  <2>2. \A r \in f1Out' \ f1Out : F1Order(r)'
    BY <2>1 DEF F1Order
  <2>3. StepOrder(m)'
    BY <2>1 DEF StepOrder, UlTypes
  <2> QED
    BY <2>1, <2>2, <2>3, OrderStep
<1> QED
  BY <1>2, <1>3, <1>4, <1>5, <1>6, <1>7 DEF Handler, UlTypes,
     HandleULRRCMessageTransfer, HandleRrcSetupComplete,
     HandleULInformationTransfer, SendNasPdu, NgInitialUEMessage,
     NgUplinkNasTransport, SendNgap, HandleRRCSecurityModeComplete,
     HandleRRCReconfigurationComplete, NgInitialContextSetupResponse, At,
     IInv, NasState, NasStep

\* The inductive invariant of the order: however many attaches overlap, what
\* the peers and the handlers send comes at its place in the procedure.
THEOREM OrderInductive == Spec => []OrderInv
<1>1. Init => OrderInv
  <2> SUFFICES ASSUME Init PROVE OrderInv
    OBVIOUS
  <2>1. ContextAttached /\ SetupDone /\ CellGroupSet
    BY DEF Init, ContextAttached, SetupDone, CellGroupSet, HasCell
  <2>2. Started = {} /\ f1Out = {} /\ ngOut = {}
    BY DEF Init, Started
  <2> QED
    BY <2>1, <2>2 DEF Ordered, OrderInv
<1>2. TypeOK /\ IInv /\ OrderInv /\ [Next]_vars => OrderInv'
  <2> SUFFICES ASSUME TypeOK, IInv, OrderInv, [Next]_vars
               PROVE  OrderInv'
    OBVIOUS
  <2> USE DEF OrderInv
  <2>1. ASSUME NEW m \in Msg, Handler(m)
        PROVE  OrderInv'
    <3>1. ContextAttached' /\ SetupDone'
      BY <2>1, ContextAttachedStep, SetupDoneStep
    <3>2. CellGroupSet'
      BY <2>1, ContextChange DEF CellGroupSet
    <3>3. Ordered'
      BY <2>1, OrderUplink, OrderDownlink
    <3> QED
      BY <3>1, <3>2, <3>3
  <2>2. ASSUME NEW a \in Attach, UeAttach(a) \/ UeSwitchOff(a) \/ Peer(a)
        PROVE  OrderInv'
    <3>1. PICK m \in Msg : Arrive(m) /\ MsgOrder(m)
      BY <2>2, PeerOrdered
    <3>2. ContextAttached' /\ SetupDone'
      BY <3>1, ContextAttachedStep, SetupDoneStep
    <3>3. CellGroupSet'
      BY <3>1 DEF Arrive, CellGroupSet
    <3>4. Ordered'
      BY <3>1, OrderArrive
    <3> QED
      BY <3>2, <3>3, <3>4
  <2>3. CASE UNCHANGED vars
    <3>1. Started' = Started /\ Attached' = Attached /\ HasCell' = HasCell
      BY <2>3 DEF vars, Started, Attached, HasCell
    <3>2. ContextAttached' /\ SetupDone' /\ CellGroupSet'
      BY <2>3, <3>1 DEF vars, ContextAttached, SetupDone, CellGroupSet
    <3>3. Ordered'
      BY <2>3, <3>1 DEF vars, Ordered, MsgOrder, StepOrder, F1Order, NgOrder,
         Given, HasId, CurrentHasId
    <3> QED
      BY <3>2, <3>3
  <2> QED
    BY <2>1, <2>2, <2>3 DEF Next
<1> QED
  BY <1>1, <1>2, Inductive, PTL DEF Spec

\* However many attaches overlap, what SendNasPdu and
\* handleRRCReconfigurationComplete send to the AMF carries an AMF UE NGAP ID
\* that the AMF has given out, never the placeholder of createUE; only the
\* Registration Request and a switch-off need not.
THEOREM IdGiven == Spec => []AmfUeIdGiven
<1>1. OrderInv => AmfUeIdGiven
  BY DEF OrderInv, Ordered, NgOrder, AmfUeIdGiven
<1> QED
  BY <1>1, OrderInductive, PTL

\* Until a second UE attaches, and unless the UE is switched off, every message
\* to the AMF after the InitialUEMessage carries the AMF UE NGAP ID of that UE,
\* which handleNgDownlinkNasTransport has stored.
THEOREM IdEchoed == Spec => []AmfUeIdEchoed
<1>1. IInv /\ OrderInv => AmfUeIdEchoed
  <2> SUFFICES ASSUME IInv, OrderInv, OneAttach, NEW r \in ngOut,
                      NEW a \in Attached \ SwitchOff,
                      r.type # "InitialUEMessage"
               PROVE  r.amfUeId = AmfUeId[a]
    BY DEF AmfUeIdEchoed
  <2>1. r.nas # NoNas => r.nas[1] = a
    <3>1. r.nas # NoNas => r.nas[1] \in Attached
      BY DEF IInv, NgCaused, NgCause, Known, OrderInv, ContextAttached
    <3> QED
      BY <3>1 DEF OneAttach
  <2>2. r.nas # NoNas => r.nas[2] # 0
    BY <2>1 DEF IInv, NgCaused, NgCause
  <2>3. r.nas # NoNas => r.nas[2] # Off
    BY <2>1 DEF OrderInv, Ordered, NgOrder
  <2>4. Given(r.amfUeId)
    BY <2>2, <2>3 DEF OrderInv, Ordered, NgOrder
  <2>5. PICK m \in Started : r.amfUeId = AmfUeId[m.ue]
    BY <2>4 DEF Given, Started
  <2>6. m.ue = a
    BY StartedAttached DEF OrderInv, OneAttach
  <2> QED
    BY <2>5, <2>6
<1> QED
  BY <1>1, Inductive, OrderInductive, PTL

\* handleRRCUEContextSetupResponse is the only place that uses a cell group.
LEMMA CellGroupPanic ==
  ASSUME NEW m \in Msg, Handler(m), panic' = "MasterCellGroup"
  PROVE  /\ HandleRRCUEContextSetupResponse(m)
         /\ ~ue[go[m].ue].MasterCellGroup
         /\ UNCHANGED <<ue, go>>
<1> USE DEF At, Panic
<1>1. CASE /\ m.type = "RRCSetupRequest"
           /\ \/ HandleInitialULRRCMessageTransfer(m.ue)
              \/ CreateUE(m.ue)
              \/ HandleRRCSetupRequest(m.ue)
  BY <1>1 DEF HandleInitialULRRCMessageTransfer, CreateUE,
              HandleRRCSetupRequest
<1>2. CASE \/ HandleULRRCMessageTransfer(m)
           \/ LoadUE(m)
           \/ HandleRrcSetupComplete(m)
           \/ SendNasPdu(m)
           \/ HandleRRCSecurityModeComplete(m)
  BY <1>2 DEF HandleULRRCMessageTransfer, LoadUE, HandleRrcSetupComplete,
              SendNasPdu, HandleRRCSecurityModeComplete
<1>3. CASE \/ HandleULInformationTransfer(m)
           \/ NgInitialUEMessage(m)
           \/ NgUplinkNasTransport(m)
           \/ SendNgap(m)
           \/ HandleRRCReconfigurationComplete(m)
           \/ NgInitialContextSetupResponse(m)
           \/ HandleNgDownlinkNasTransport(m)
           \/ SendDLInformationTransfer(m)
           \/ HandlerInitialContextSetupRequest(m)
           \/ StoreRegistrationAccept(m)
  BY <1>3 DEF HandleULInformationTransfer, NgInitialUEMessage,
     NgUplinkNasTransport, SendNgap, HandleRRCReconfigurationComplete,
     NgInitialContextSetupResponse, HandleNgDownlinkNasTransport,
     SendDLInformationTransfer, HandlerInitialContextSetupRequest,
     StoreRegistrationAccept
<1>4. CASE HandleRRCUEContextSetupResponse(m)
  BY <1>4 DEF HandleRRCUEContextSetupResponse
<1> QED
  BY <1>1, <1>2, <1>3, <1>4 DEF Handler

\* However many attaches overlap, handleRRCUEContextSetupResponse never meets
\* the context of the UE that the response is for without a cell group: it
\* crashes only on the context of another attach that has replaced it.
THEOREM CellGroupOwn == Spec => []OwnCellGroup
<1>1. Init => OwnCellGroup
  BY DEF Init, OwnCellGroup
<1>2. TypeOK /\ IInv /\ OrderInv /\ OwnCellGroup /\ [Next]_vars
        => OwnCellGroup'
  <2> SUFFICES ASSUME TypeOK, IInv, OrderInv, OwnCellGroup, [Next]_vars,
                      panic' = "MasterCellGroup"
               PROVE  \E m \in Msg : /\ m.type = "UEContextSetupResponse"
                                     /\ go'[m].pc = "run"
                                     /\ go'[m].ue # m.ue
                                     /\ ~ue'[go'[m].ue].MasterCellGroup
    BY DEF OwnCellGroup
  <2>1. CASE UNCHANGED vars
    BY <2>1 DEF vars, OwnCellGroup
  <2>2. ASSUME NEW a \in Attach, UeAttach(a) \/ UeSwitchOff(a) \/ Peer(a)
        PROVE  FALSE
    BY <2>2, PeerArrives DEF Arrive
  <2>3. ASSUME NEW m \in Msg, Handler(m)
        PROVE  /\ m.type = "UEContextSetupResponse"
               /\ go'[m].pc = "run"
               /\ go'[m].ue # m.ue
               /\ ~ue'[go'[m].ue].MasterCellGroup
    <3>1. /\ HandleRRCUEContextSetupResponse(m)
          /\ ~ue[go[m].ue].MasterCellGroup
          /\ UNCHANGED <<ue, go>>
      BY <2>3, CellGroupPanic
    <3>2. m.type = "UEContextSetupResponse" /\ go[m].pc = "run"
      BY <3>1 DEF HandleRRCUEContextSetupResponse, At
    <3>3. m.ue \in HasCell
      BY <2>3, <3>2, HandlerStarted DEF IInv, MsgCaused
    <3>4. ue[m.ue].MasterCellGroup
      BY <3>3 DEF HasCell, OrderInv, CellGroupSet
    <3> QED
      BY <3>1, <3>2, <3>4
  <2> QED
    BY <2>1, <2>2, <2>3 DEF Next
<1> QED
  BY <1>1, <1>2, Inductive, OrderInductive, PTL DEF Spec
=============================================================================
