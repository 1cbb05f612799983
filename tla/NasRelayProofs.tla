--------------------------- MODULE NasRelayProofs ---------------------------
(***************************************************************************)
(* CuCp implements NasRelay, for every set of attaches, every number of    *)
(* NAS rounds and retransmissions, and every choice of the other constants.*)
(***************************************************************************)
EXTENDS CuCpProofs

\* A relayed NAS PDU stays relayed.
LEMMA RelayedStable ==
  ASSUME TypeOK, NEW m \in Msg, Handler(m) \/ Arrive(m)
  PROVE  /\ NasUp \subseteq NasUp'
         /\ NasDown \subseteq NasDown'
         /\ \A a, n : Answered(a, n) => Answered(a, n)'
         /\ \A a : Asked(a) => Asked(a)'
         /\ \A x \in Msg : AnswersNas(x) => AnswersNas(x)'
<1>1. f1Out \subseteq f1Out' /\ ngOut \subseteq ngOut'
  BY Monotone
<1>2. NasUp \subseteq NasUp' /\ NasDown \subseteq NasDown'
  BY <1>1 DEF NasUp, NasDown, NasCarriers
<1>3. \A a, n : Answered(a, n) => Answered(a, n)'
  BY <1>2 DEF Answered
<1>4. \A a : Asked(a) => Asked(a)'
  BY <1>2 DEF Asked
<1> QED
  BY <1>2, <1>3, <1>4 DEF AnswersNas

\* What an uplink NAS PDU relayed to the AMF lets the AMF send.
LEMMA ReceivedAnswered ==
  ASSUME NEW a \in Attach, NEW n \in 0 .. Rounds, AmfReceives(a, n)
  PROVE  Answered(a, n + 1)
<1>1. PICK r \in ngOut, c \in 0 .. Retries : r.nas = <<a, n, c>>
  BY DEF AmfReceives
<1>2. <<a, n, c>> \in Nas
  BY RoundsAssumption DEF Nas, Off
<1>3. <<a, n, c>> \in NasUp
  BY <1>1, <1>2, NasNotNil DEF NasUp
<1>4. (n + 1) - 1 = n
  OBVIOUS
<1> QED
  BY <1>3, <1>4 DEF Answered

\* A message that a peer sends answers a NAS PDU that was relayed to it.
LEMMA PeerAnswers ==
  ASSUME IInv, RelayInv, NEW a \in Attach,
         UeAttach(a) \/ UeSwitchOff(a) \/ Peer(a)
  PROVE  \E m \in Msg : Arrive(m) /\ AnswersNas(m)
<1>1. CASE \/ UeAttach(a) \/ UeSetupComplete(a) \/ UeReconfigured(a)
           \/ UeSwitchOff(a)
  BY <1>1, InMsg DEF UeAttach, UeSetupComplete, UeReconfigured, UeSwitchOff,
     In, AnswersNas
<1>2. ASSUME NEW n \in 1 .. Rounds, NEW c \in 0 .. Retries,
             AmfDownlinkNas(a, n, c)
      PROVE  \E m \in Msg : Arrive(m) /\ AnswersNas(m)
  <2>1. n - 1 \in 0 .. Rounds /\ (n - 1) + 1 = n
    BY RoundsAssumption
  <2>2. Answered(a, n)
    BY <1>2, <2>1, ReceivedAnswered DEF AmfDownlinkNas
  <2> QED
    BY <1>2, <2>2, InMsg DEF AmfDownlinkNas, In, AnswersNas
<1>3. ASSUME NEW n \in 1 .. Rounds, NEW c \in 0 .. Retries,
             UeUplinkNas(a, n, c)
      PROVE  \E m \in Msg : Arrive(m) /\ AnswersNas(m)
  <2>2. <<a, n, c>> \in NasDown
    BY <1>3 DEF UeUplinkNas, UeReceives, NasDown, NasCarriers
  <2> QED
    BY <1>3, <2>2, InMsg DEF UeUplinkNas, In, AnswersNas
<1>4. CASE AmfContextSetup(a)
  <2>1. Answered(a, Last)
    BY <1>4, ReceivedAnswered, RoundsAssumption DEF AmfContextSetup, Last
  <2> QED
    BY <1>4, <2>1, InMsg DEF AmfContextSetup, In, AnswersNas
<1>5. CASE UeRegistrationComplete(a)
  <2>2. <<a, Last, 0>> \in NasDown
    BY <1>5 DEF UeRegistrationComplete, Reconfiguration, NasDown, NasCarriers
  <2> QED
    BY <1>5, <2>2, InMsg DEF UeRegistrationComplete, In, AnswersNas
<1>6. CASE UeSecurityComplete(a)
  <2>1. PICK c \in 0 .. Retries :
          go[In("ULInformationTransfer", a, Rounds, c)].pc # "unsent"
    BY <1>6 DEF UeSecurityComplete, IInv, F1Caused, F1Cause
  <2>2. In("ULInformationTransfer", a, Rounds, c) \in Started
    BY <2>1, InMsg, RoundsAssumption DEF Started
  <2>3. <<a, Rounds, c>> \in NasDown
    BY <2>2, RoundsAssumption DEF RelayInv, NasCaused, AnswersNas, In, Off
  <2>4. Asked(a)
    BY <2>3 DEF Asked
  <2> QED
    BY <1>6, <2>4, InMsg DEF UeSecurityComplete, In, AnswersNas
<1>7. CASE DuContextResponse(a)
  <2>1. Asked(a)
    BY <1>7 DEF DuContextResponse, RelayInv, ContextAsked
  <2> QED
    BY <1>7, <2>1, InMsg DEF DuContextResponse, In, AnswersNas
<1> QED
  BY <1>1, <1>2, <1>3, <1>4, <1>5, <1>6, <1>7 DEF Peer

\* A handler that asks the DU for a context was asked by the UE of it.
LEMMA ContextAskedStep ==
  ASSUME TypeOK, IInv, RelayInv, NEW m \in Msg, Handler(m)
  PROVE  ContextAsked'
<1>0. \A a : Asked(a) => Asked(a)'
  BY RelayedStable
<1> SUFFICES ASSUME NEW r \in f1Out', r.type = "UEContextSetupRequest",
                    NEW a \in Attach, r.duId = DuUeId[a]
             PROVE  Asked(a)
  BY <1>0 DEF ContextAsked
<1>1. CASE r \in f1Out
  BY <1>1 DEF RelayInv, ContextAsked
<1>2. CASE r \notin f1Out
  <2>1. HandleRRCSecurityModeComplete(m)
    <3>1. ~(\/ HandleInitialULRRCMessageTransfer(m.ue)
            \/ CreateUE(m.ue)
            \/ HandleRRCSetupRequest(m.ue))
      BY <1>2 DEF HandleInitialULRRCMessageTransfer, CreateUE,
                  HandleRRCSetupRequest, Panic
    <3>2. ~(\/ HandleULRRCMessageTransfer(m)
            \/ LoadUE(m)
            \/ HandleRrcSetupComplete(m)
            \/ SendNasPdu(m)
            \/ HandleRRCUEContextSetupResponse(m)
            \/ SendDLInformationTransfer(m))
      BY <1>2 DEF HandleULRRCMessageTransfer, LoadUE, Panic,
         HandleRrcSetupComplete, SendNasPdu, HandleRRCUEContextSetupResponse,
         SendDLInformationTransfer
    <3>3. ~(\/ HandleULInformationTransfer(m)
            \/ NgInitialUEMessage(m)
            \/ NgUplinkNasTransport(m)
            \/ SendNgap(m)
            \/ HandleRRCReconfigurationComplete(m)
            \/ NgInitialContextSetupResponse(m)
            \/ HandleNgDownlinkNasTransport(m)
            \/ HandlerInitialContextSetupRequest(m)
            \/ StoreRegistrationAccept(m))
      BY <1>2 DEF HandleULInformationTransfer, NgInitialUEMessage,
         NgUplinkNasTransport, SendNgap, HandleRRCReconfigurationComplete,
         NgInitialContextSetupResponse, HandleNgDownlinkNasTransport,
         HandlerInitialContextSetupRequest, StoreRegistrationAccept
    <3> QED
      BY <3>1, <3>2, <3>3 DEF Handler
  <2>2. m.type = "SecurityModeComplete" /\ go[m].ue = m.ue
    BY <2>1 DEF HandleRRCSecurityModeComplete, At, IInv, OwnContext, UlTypes
  <2>3. r.duId = DuUeId[m.ue]
    BY <1>2, <2>1, <2>2 DEF HandleRRCSecurityModeComplete, Panic
  <2>4. m.ue = a
    BY <2>3, MsgFields, IdAssumption
  <2> QED
    BY <2>2, <2>4, HandlerStarted DEF RelayInv, NasCaused, AnswersNas
<1> QED
  BY <1>1, <1>2

\* A step of a handler keeps the invariant of the relay.
LEMMA RelayHandler ==
  ASSUME TypeOK, IInv, RelayInv, NEW m \in Msg, Handler(m)
  PROVE  RelayInv'
<1>1. m \in Started /\ Started' \subseteq Started /\ Started \subseteq Msg
  BY HandlerStarted, OneGoroutine DEF Started
<1>2. NasCaused'
  <2> SUFFICES ASSUME NEW x \in Started'
               PROVE  AnswersNas(x)'
    BY DEF NasCaused
  <2> QED
    BY <1>1, RelayedStable DEF RelayInv, NasCaused
<1>3. AcceptRelayed'
  <2> SUFFICES ASSUME NEW a \in Attach, ue'[a].RegistrationAccept # NoNas
               PROVE  \E b \in Attach :
                        /\ ue'[a].RegistrationAccept = <<b, Last, 0>>
                        /\ Answered(b, Last)'
    BY DEF AcceptRelayed
  <2>1. CASE ue'[a].RegistrationAccept = ue[a].RegistrationAccept
    BY <2>1, RelayedStable DEF RelayInv, AcceptRelayed
  <2>2. CASE /\ m.type = "InitialContextSetupRequest"
             /\ ue'[a].RegistrationAccept = <<m.ue, m.k, m.try>>
    <3>1. m.ue \in Attach /\ m.k = Last /\ m.try = 0
      BY <2>2 DEF Msg
    <3>2. Answered(m.ue, m.k)
      BY <1>1, <2>2 DEF RelayInv, NasCaused, AnswersNas
    <3> QED
      BY <2>2, <3>1, <3>2, RelayedStable
  <2> QED
    BY <2>1, <2>2, ContextChange
<1> QED
  BY <1>2, <1>3, ContextAskedStep DEF RelayInv

\* The arrival of a message keeps the invariant of the relay.
LEMMA RelayArrive ==
  ASSUME TypeOK, RelayInv, NEW m \in Msg, Arrive(m), AnswersNas(m)
  PROVE  RelayInv'
<1>1. Started' \subseteq Started \cup {m} /\ Started \subseteq Msg
  BY DEF Arrive, Goto, Started, TypeOK, Goroutine
<1>2. NasCaused'
  <2> SUFFICES ASSUME NEW x \in Started'
               PROVE  AnswersNas(x)'
    BY DEF NasCaused
  <2> QED
    BY <1>1, RelayedStable DEF RelayInv, NasCaused
<1>3. AcceptRelayed'
  BY RelayedStable DEF RelayInv, AcceptRelayed, Arrive
<1>4. ContextAsked'
  BY RelayedStable DEF RelayInv, ContextAsked, Arrive
<1> QED
  BY <1>2, <1>3, <1>4 DEF RelayInv

\* A step of a handler is a step of the relay or leaves it unchanged.
LEMMA HandlerRelays ==
  ASSUME TypeOK, IInv, RelayInv, NEW m \in Msg, Handler(m)
  PROVE  Relay!Next \/ UNCHANGED <<NasUp, NasDown>>
<1> m.ue \in Attach /\ <<m.ue, m.k, m.try>> \in Nas
  BY MsgFields
<1>0. m \in Started
  BY HandlerStarted
<1>1. CASE \/ /\ m.type = "RRCSetupRequest"
              /\ \/ HandleInitialULRRCMessageTransfer(m.ue)
                 \/ CreateUE(m.ue)
           \/ HandleULRRCMessageTransfer(m)
           \/ HandleRrcSetupComplete(m)
           \/ HandleULInformationTransfer(m)
           \/ SendNasPdu(m)
           \/ NgInitialUEMessage(m)
           \/ NgUplinkNasTransport(m)
           \/ HandleRRCReconfigurationComplete(m)
           \/ NgInitialContextSetupResponse(m)
           \/ LoadUE(m)
           \/ HandleNgDownlinkNasTransport(m)
           \/ HandlerInitialContextSetupRequest(m)
           \/ StoreRegistrationAccept(m)
  <2>1. UNCHANGED <<f1Out, ngOut>>
    BY <1>1 DEF HandleInitialULRRCMessageTransfer, CreateUE,
       HandleULRRCMessageTransfer, HandleRrcSetupComplete,
       HandleULInformationTransfer, SendNasPdu, NgInitialUEMessage,
       NgUplinkNasTransport, HandleRRCReconfigurationComplete,
       NgInitialContextSetupResponse, LoadUE, HandleNgDownlinkNasTransport,
       HandlerInitialContextSetupRequest, StoreRegistrationAccept, Panic
  <2> QED
    BY <2>1 DEF NasUp, NasDown
<1>2. CASE m.type = "RRCSetupRequest" /\ HandleRRCSetupRequest(m.ue)
  BY <1>2 DEF HandleRRCSetupRequest, NasUp, NasDown, NasCarriers
<1>3. CASE HandleRRCSecurityModeComplete(m)
  BY <1>3 DEF HandleRRCSecurityModeComplete, Panic, NasUp, NasDown,
              NasCarriers
<1>4. CASE SendNgap(m)
  <2>1. /\ ngOut' = ngOut \cup {go[m].buf}
        /\ UNCHANGED f1Out
        /\ go[m].pc = "send"
        /\ m.type \in UlTypes
    BY <1>4 DEF SendNgap, At
  <2>2. UNCHANGED NasDown
    BY <2>1 DEF NasDown
  <2>3. CASE go[m].buf.nas = NoNas
    BY <2>1, <2>2, <2>3 DEF NasUp
  <2>4. CASE go[m].buf.nas # NoNas
    <3>1. /\ go[m].buf.nas = <<m.ue, m.k, m.try>>
          /\ m.type \in {"RRCSetupComplete", "ULInformationTransfer"}
      BY <2>1, <2>4 DEF IInv, NasState, NasStep
    <3>2. NasUp' = NasUp \cup {<<m.ue, m.k, m.try>>}
      BY <2>1, <2>4, <3>1 DEF NasUp
    <3>3. m.k = 0 \/ m.k = Off \/ <<m.ue, m.k, m.try>> \in NasDown
      <4>1. m.type = "RRCSetupComplete" => m.k = 0
        BY DEF Msg
      <4> QED
        BY <1>0, <3>1, <4>1 DEF RelayInv, NasCaused, AnswersNas
    <3>4. Relay!Uplink(m.ue, m.k, m.try)
      BY <2>2, <3>2, <3>3 DEF Relay!Uplink, Relay!Off, Off
    <3> QED
      BY <3>4, MsgFields DEF Relay!Next, Relay!Off, Off
  <2> QED
    BY <2>3, <2>4
<1>5. CASE SendDLInformationTransfer(m)
  <2>1. /\ UNCHANGED ngOut
        /\ m.type = "DownlinkNASTransport"
    BY <1>5 DEF SendDLInformationTransfer
  <2>2. NasDown' = NasDown \cup {<<m.ue, m.k, m.try>>}
    <3>1. PICK r : /\ r.nas = <<m.ue, m.k, m.try>>
                   /\ r.type \in NasCarriers
                   /\ f1Out' = f1Out \cup {r}
      BY <1>5 DEF SendDLInformationTransfer, NasCarriers
    <3> QED
      BY <3>1 DEF NasDown
  <2>3. Answered(m.ue, m.k)
    BY <1>0, <2>1 DEF RelayInv, NasCaused, AnswersNas
  <2>4. m.k \in 1 .. Last
    BY <2>1, RoundsAssumption DEF Msg, Last
  <2>5. Relay!Downlink(m.ue, m.k, m.try)
    BY <2>1, <2>2, <2>3, <2>4
       DEF Relay!Downlink, Relay!Last, Last, Answered, NasUp
  <2> QED
    BY <2>5, MsgFields DEF Relay!Next, Relay!Off, Off
<1>6. CASE HandleRRCUEContextSetupResponse(m)
  <2>0. go[m].ue \in Attach
    BY <1>6 DEF HandleRRCUEContextSetupResponse, At, IInv, OwnContext
  <2> DEFINE accept == ue[go[m].ue].RegistrationAccept
  <2>1. /\ UNCHANGED ngOut
        /\ \/ UNCHANGED f1Out
           \/ \E r : /\ r.nas = accept
                     /\ r.type \in NasCarriers
                     /\ f1Out' = f1Out \cup {r}
    BY <1>6 DEF HandleRRCUEContextSetupResponse, Panic, NasCarriers
  <2>2. UNCHANGED NasUp
    BY <2>1 DEF NasUp
  <2>3. UNCHANGED NasDown \/ NasDown' = NasDown \cup {accept}
    BY <2>1 DEF NasDown
  <2>4. CASE UNCHANGED NasDown
    BY <2>2, <2>4
  <2>5. CASE accept = NoNas /\ NasDown' = NasDown \cup {accept}
    <3>1. Asked(m.ue)
      BY <1>0, <1>6 DEF HandleRRCUEContextSetupResponse, RelayInv, NasCaused,
                        AnswersNas
    <3>2. PICK c \in 0 .. Retries : <<m.ue, Rounds, c>> \in NasDown
      BY <3>1 DEF Asked
    <3>3. Relay!Blank(m.ue, c)
      BY <2>2, <2>5, <3>2 DEF Relay!Blank
    <3>4. 0 \in 0 .. Relay!Off
      BY RoundsAssumption DEF Relay!Off
    <3> QED
      BY <3>3, <3>4 DEF Relay!Next
  <2>6. CASE accept # NoNas /\ NasDown' = NasDown \cup {accept}
    <3>1. PICK b \in Attach : accept = <<b, Last, 0>> /\ Answered(b, Last)
      BY <2>0, <2>6 DEF RelayInv, AcceptRelayed
    <3>2. Last \in 1 .. Last /\ Last \in 0 .. Off /\ 0 \in 0 .. Retries
      BY RoundsAssumption DEF Last, Off
    <3>3. Relay!Downlink(b, Last, 0)
      BY <2>2, <2>6, <3>1, <3>2
         DEF Relay!Downlink, Relay!Last, Last, Answered
    <3> QED
      BY <3>2, <3>3 DEF Relay!Next, Relay!Off, Off
  <2> QED
    BY <2>3, <2>4, <2>5, <2>6
<1> QED
  BY <1>1, <1>2, <1>3, <1>4, <1>5, <1>6 DEF Handler

\* The relay refined by the CU-CP: whatever the attaches, the interleaving of
\* the handlers and the retransmissions, a NAS PDU reaches the other side
\* unaltered and only after the NAS PDU that it answers; an empty one is sent
\* only in place of a Registration Accept, after the last request to a UE.
THEOREM Refinement == Spec => RelaysNas
<1>1. Init => Relay!Init /\ RelayInv
  BY DEF Init, Relay!Init, NasUp, NasDown, RelayInv, NasCaused, AcceptRelayed,
         ContextAsked, Started
<1>2. TypeOK /\ IInv /\ RelayInv /\ [Next]_vars =>
        RelayInv' /\ [Relay!Next]_<<NasUp, NasDown>>
  <2> SUFFICES ASSUME TypeOK, IInv, RelayInv, [Next]_vars
               PROVE  RelayInv' /\ [Relay!Next]_<<NasUp, NasDown>>
    OBVIOUS
  <2>1. ASSUME NEW m \in Msg, Handler(m)
        PROVE  RelayInv' /\ [Relay!Next]_<<NasUp, NasDown>>
    BY <2>1, RelayHandler, HandlerRelays
  <2>2. ASSUME NEW a \in Attach, UeAttach(a) \/ UeSwitchOff(a) \/ Peer(a)
        PROVE  RelayInv' /\ [Relay!Next]_<<NasUp, NasDown>>
    <3>1. PICK m \in Msg : Arrive(m) /\ AnswersNas(m)
      BY <2>2, PeerAnswers
    <3>2. UNCHANGED <<NasUp, NasDown>>
      BY <3>1 DEF Arrive, NasUp, NasDown
    <3> QED
      BY <3>1, <3>2, RelayArrive
  <2>3. CASE UNCHANGED vars
    <3>1. UNCHANGED <<NasUp, NasDown, Started>>
      BY <2>3 DEF vars, NasUp, NasDown, Started
    <3> QED
      BY <2>3, <3>1 DEF vars, RelayInv, NasCaused, AcceptRelayed, AnswersNas,
                        Answered, ContextAsked, Asked
  <2> QED
    BY <2>1, <2>2, <2>3 DEF Next
<1> QED
  BY <1>1, <1>2, Inductive, PTL DEF Spec, RelaysNas, Relay!Spec, Relay!vars

\* Hence no step of a registration is skipped in either direction: what was
\* relayed to the AMF answers what was relayed to the UE, and the other way
\* round, back to the Registration Request.
THEOREM RelayInOrder == Spec => []Relay!InOrder
<1> DEFINE Relayed == Relay!InOrder
<1>0. Rounds \in Nat /\ Retries \in Nat
  BY RoundsAssumption
<1>1. Relay!Init => Relayed
  BY DEF Relay!Init, Relay!InOrder
<1>2. Relayed /\ [Relay!Next]_<<NasUp, NasDown>> => Relayed'
  <2> SUFFICES ASSUME Relayed, [Relay!Next]_<<NasUp, NasDown>>,
                      NEW a \in Attach, NEW n \in 1 .. Relay!Last,
                      NEW c \in 0 .. Retries
               PROVE  /\ <<a, n, c>> \in NasUp' => <<a, n, c>> \in NasDown'
                      /\ <<a, n, c>> \in NasDown' =>
                           \E d \in 0 .. Retries : <<a, n - 1, d>> \in NasUp'
    BY DEF Relay!InOrder, Relay!Last
  <2>1. /\ <<a, n, c>> \in NasUp => <<a, n, c>> \in NasDown
        /\ <<a, n, c>> \in NasDown =>
             \E d \in 0 .. Retries : <<a, n - 1, d>> \in NasUp
    BY DEF Relay!InOrder
  <2>2. CASE UNCHANGED <<NasUp, NasDown>>
    BY <2>1, <2>2
  <2>3. ASSUME NEW b \in Attach, NEW k \in 0 .. Relay!Off,
               NEW d \in 0 .. Retries, Relay!Uplink(b, k, d)
        PROVE  /\ <<a, n, c>> \in NasUp' => <<a, n, c>> \in NasDown'
               /\ <<a, n, c>> \in NasDown' =>
                    \E e \in 0 .. Retries : <<a, n - 1, e>> \in NasUp'
    BY <1>0, <2>1, <2>3 DEF Relay!Uplink, Relay!Off, Relay!Last
  <2>4. ASSUME NEW b \in Attach, NEW k \in 0 .. Relay!Off,
               NEW d \in 0 .. Retries, Relay!Downlink(b, k, d)
        PROVE  /\ <<a, n, c>> \in NasUp' => <<a, n, c>> \in NasDown'
               /\ <<a, n, c>> \in NasDown' =>
                    \E e \in 0 .. Retries : <<a, n - 1, e>> \in NasUp'
    BY <1>0, <2>1, <2>4 DEF Relay!Downlink, Relay!Last
  <2>5. ASSUME NEW b \in Attach, NEW d \in 0 .. Retries, Relay!Blank(b, d)
        PROVE  /\ <<a, n, c>> \in NasUp' => <<a, n, c>> \in NasDown'
               /\ <<a, n, c>> \in NasDown' =>
                    \E e \in 0 .. Retries : <<a, n - 1, e>> \in NasUp'
    <3>1. <<a, n, c>> # NoNas
      BY <1>0, NasNotNil DEF Nas, Off, Relay!Last
    <3> QED
      BY <2>1, <2>5, <3>1 DEF Relay!Blank
  <2> QED
    BY <2>2, <2>3, <2>4, <2>5 DEF Relay!Next
<1> QED
  BY <1>1, <1>2, Refinement, PTL DEF RelaysNas, Relay!Spec, Relay!vars
=============================================================================
