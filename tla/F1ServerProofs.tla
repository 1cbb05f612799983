--------------------------- MODULE F1ServerProofs ---------------------------
(***************************************************************************)
(* Proofs about F1Server, for every set of associations and requests.      *)
(***************************************************************************)
EXTENDS F1Server, PlmnProofs

\* The DU id of an association is one of the ids.
LEMMA DuIdKnown == \A c \in Conn : DuId[c] \in DuIds
BY DEF DuIds

\* The tests of the request accept the valid ones.
LEMMA AcceptableValid == \A c \in Conn : Acceptable(c) <=> Valid(c)
<1> SUFFICES ASSUME NEW c \in Conn, ServedPLMNs[c] # <<>>
             PROVE  Acceptable(c) <=> Valid(c)
  BY DEF Acceptable, Valid
<1>1. ServedPLMNs[c][1] \in Network /\ CuNetwork \in Network
  BY NetworkAssumption
<1> QED
  BY <1>1, Matches DEF Acceptable, Valid

\* Every step keeps the types; the pointers that are used are set.
LEMMA TypeNext == TypeOK /\ IInv /\ [Next]_vars => TypeOK'
<1> SUFFICES ASSUME TypeOK, IInv, [Next]_vars
             PROVE  TypeOK'
  OBVIOUS
<1> USE ConnAssumption DEF TypeOK
<1>1. ASSUME NEW c \in Conn,
             \/ F1apAcceptLoop(c) \/ HandleF1APConnection(c)
             \/ ReadF1SetupRequest(c) \/ ConnectionClosed(c)
      PROVE  TypeOK'
  BY <1>1 DEF F1apAcceptLoop, HandleF1APConnection, ReadF1SetupRequest,
              ConnectionClosed
<1>2. ASSUME NEW c \in Conn, HandleF1SetupRequest(c)
      PROVE  TypeOK'
  BY <1>2, DuIdKnown DEF HandleF1SetupRequest
<1>3. ASSUME NEW c \in Conn, StoreDU(c) \/ SendF1SetupResponse(c)
      PROVE  TypeOK'
  BY <1>3 DEF StoreDU, SendF1SetupResponse
<1>4. ASSUME NEW c \in Conn, SendF1ap(c)
      PROVE  TypeOK'
  <2>1. SctpConn[c] \in Conn
    BY <1>4 DEF SendF1ap, IInv, Assigned
  <2> QED
    BY <1>4, <2>1 DEF SendF1ap
<1>5. ASSUME NEW c \in Conn, DispatchUe(c)
      PROVE  TypeOK'
  BY <1>5 DEF DispatchUe
<1>6. CASE UNCHANGED vars
  BY <1>6 DEF vars
<1> QED
  BY <1>1, <1>2, <1>3, <1>4, <1>5, <1>6 DEF Next, Setup

\* Every step keeps the invariant.
LEMMA InvNext == TypeOK /\ IInv /\ [Next]_vars => IInv'
<1> SUFFICES ASSUME TypeOK, IInv, [Next]_vars
             PROVE  IInv'
  OBVIOUS
<1> USE ConnAssumption DEF TypeOK, IInv, Active, Idle
<1>1. ASSUME NEW c \in Conn, F1apAcceptLoop(c)
      PROVE  IInv'
  <2> USE <1>1 DEF F1apAcceptLoop
  <2>1. Ordered' /\ NoNilDu' /\ OwnNetworkOnly'
    BY DEF Ordered, NoNilDu, OwnNetworkOnly, Valid
  <2>2. Assigned'
    BY DEF Assigned
  <2>3. Alone'
    BY DEF Alone
  <2>4. Current'
    BY DEF Current
  <2> QED
    BY <2>1, <2>2, <2>3, <2>4
<1>2. ASSUME NEW c \in Conn, HandleF1APConnection(c)
      PROVE  IInv'
  <2> USE <1>2 DEF HandleF1APConnection
  <2>1. Ordered' /\ NoNilDu' /\ OwnNetworkOnly'
    BY DEF Ordered, NoNilDu, OwnNetworkOnly, Valid
  <2>2. Assigned'
    BY DEF Assigned
  <2>3. Alone'
    BY DEF Alone
  <2>4. Current'
    <3>1. ~Overlap => \A r \in out : r.to # c
      BY DEF Current, Ordered
    <3> QED
      BY <3>1 DEF Current, Alone
  <2> QED
    BY <2>1, <2>2, <2>3, <2>4
<1>3. ASSUME NEW c \in Conn, ReadF1SetupRequest(c)
      PROVE  IInv'
  <2> USE <1>3 DEF ReadF1SetupRequest
  <2>1. Ordered' /\ NoNilDu' /\ OwnNetworkOnly'
    BY DEF Ordered, NoNilDu, OwnNetworkOnly, Valid
  <2>2. Assigned'
    BY DEF Assigned
  <2>3. Alone'
    BY DEF Alone
  <2>4. Current'
    BY DEF Current
  <2> QED
    BY <2>1, <2>2, <2>3, <2>4
<1>4. ASSUME NEW c \in Conn, ConnectionClosed(c)
      PROVE  IInv'
  <2> USE <1>4 DEF ConnectionClosed
  <2>1. Ordered' /\ NoNilDu' /\ OwnNetworkOnly'
    BY DEF Ordered, NoNilDu, OwnNetworkOnly, Valid
  <2>2. Assigned'
    BY DEF Assigned
  <2>3. Alone'
    BY DEF Alone
  <2>4. Current'
    BY DEF Current
  <2> QED
    BY <2>1, <2>2, <2>3, <2>4
<1>5. ASSUME NEW c \in Conn, HandleF1SetupRequest(c)
      PROVE  IInv'
  <2> USE <1>5 DEF HandleF1SetupRequest
  <2>0. OwnNetworkOnly'
    BY AcceptableValid DEF OwnNetworkOnly, Valid
  <2>1. Ordered' /\ NoNilDu'
    BY DEF Ordered, NoNilDu
  <2>2. Assigned'
    BY DEF Assigned
  <2>3. Alone'
    BY DEF Alone
  <2>4. Current'
    BY DEF Current
  <2> QED
    BY <2>0, <2>1, <2>2, <2>3, <2>4
<1>6. ASSUME NEW c \in Conn, StoreDU(c)
      PROVE  IInv'
  <2> USE <1>6 DEF StoreDU
  <2>1. Ordered' /\ NoNilDu' /\ OwnNetworkOnly'
    BY DEF Ordered, NoNilDu, OwnNetworkOnly, Valid
  <2>2. Assigned'
    BY DEF Assigned
  <2>3. Alone'
    BY DEF Alone
  <2>4. Current'
    <3>1. ~Overlap => \A r \in out : conn[r.to] # "open"
      BY DEF Current, Ordered, Alone
    <3> QED
      BY <3>1 DEF Current, Alone
  <2> QED
    BY <2>1, <2>2, <2>3, <2>4
<1>7. ASSUME NEW c \in Conn, SendF1SetupResponse(c)
      PROVE  IInv'
  <2> USE <1>7 DEF SendF1SetupResponse
  <2>1. Ordered' /\ NoNilDu' /\ OwnNetworkOnly'
    BY DEF Ordered, NoNilDu, OwnNetworkOnly, Valid
  <2>2. Assigned'
    BY DEF Assigned
  <2>3. Alone'
    BY DEF Alone
  <2>4. Current'
    BY DEF Current
  <2> QED
    BY <2>1, <2>2, <2>3, <2>4
<1>8. ASSUME NEW c \in Conn, SendF1ap(c)
      PROVE  IInv'
  <2> USE <1>8 DEF SendF1ap
  <2>1. Ordered' /\ NoNilDu' /\ OwnNetworkOnly'
    BY DEF Ordered, NoNilDu, OwnNetworkOnly, Valid
  <2>2. Assigned'
    BY DEF Assigned
  <2>3. Alone'
    BY DEF Alone
  <2>4. Current'
    BY DEF Current
  <2> QED
    BY <2>1, <2>2, <2>3, <2>4
<1>9. ASSUME NEW c \in Conn, DispatchUe(c)
      PROVE  IInv'
  <2> USE <1>9 DEF DispatchUe
  <2>1. NoNilDu'
    BY DEF NoNilDu, Assigned
  <2>2. Ordered'
    BY DEF Ordered
  <2>3. Assigned' /\ Alone' /\ Current' /\ OwnNetworkOnly'
    BY DEF Assigned, Alone, Current, OwnNetworkOnly, Valid
  <2> QED
    BY <2>1, <2>2, <2>3
<1>10. CASE UNCHANGED vars
  BY <1>10 DEF vars, Ordered, Assigned, Alone, Current, NoNilDu,
              OwnNetworkOnly, Valid
<1> QED
  BY <1>1, <1>2, <1>3, <1>4, <1>5, <1>6, <1>7, <1>8, <1>9, <1>10
     DEF Next, Setup

\* The types and the invariant hold always.
THEOREM Inductive == Spec => [](TypeOK /\ IInv)
<1>1. Init => TypeOK /\ IInv
  BY ConnAssumption DEF Init, TypeOK, IInv, Ordered, Assigned, Alone, Current,
     NoNilDu, OwnNetworkOnly, Idle, Active
<1> QED
  BY <1>1, TypeNext, InvNext, PTL DEF Spec

\* The contexts, pointers and answers of the F1AP server have their types.
THEOREM TypeCorrect == Spec => []TypeOK
BY Inductive, PTL

\* In every interleaving of any number of associations, no UE message finds
\* cu.DU nil.
THEOREM NeverNilDu == Spec => []NoNilDu
<1>1. IInv => NoNilDu
  BY DEF IInv
<1> QED
  BY <1>1, Inductive, PTL

\* While DUs connect one after the other, the downlink messages of a DU that
\* has its response go to that DU, however often it reconnects.
THEOREM Followed == Spec => []DownlinkFollows
<1>1. TypeOK /\ IInv => DownlinkFollows
  BY ConnAssumption DEF IInv, TypeOK, Current, Ordered, DownlinkFollows
<1> QED
  BY <1>1, Inductive, PTL

\* Whatever DUs connect, in every interleaving, only those of the CU-CP's own
\* network are kept.
THEOREM OwnNetwork == Spec => []OwnNetworkOnly
<1>1. IInv => OwnNetworkOnly
  BY DEF IInv
<1> QED
  BY <1>1, Inductive, PTL
=============================================================================
