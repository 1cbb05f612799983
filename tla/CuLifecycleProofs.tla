-------------------------- MODULE CuLifecycleProofs --------------------------
(***************************************************************************)
(* Proofs about CuLifecycle: types, and no F1AP listener before NG Setup.  *)
(***************************************************************************)
EXTENDS CuLifecycle, TLAPS

\* The head and the tail of a queue of messages.
LEMMA Queue ==
  ASSUME NEW q \in Seq(AmfMsg), q # <<>>
  PROVE  /\ Head(q) \in AmfMsg
         /\ Tail(q) \in Seq(AmfMsg)
         /\ Len(Tail(q)) < Len(q)
  OBVIOUS

\* Every step keeps the types and the invariant.
LEMMA StepInv == TypeOK /\ IInv /\ [Next]_vars => TypeOK' /\ IInv'
<1> SUFFICES ASSUME TypeOK, IInv, [Next]_vars
             PROVE  TypeOK' /\ IInv'
  OBVIOUS
<1> USE BoundAssumption DEF TypeOK, IInv, F1AfterNg, ngVars, sigVars
<1>1. CASE InitAmfConn
  BY <1>1 DEF InitAmfConn
<1>2. CASE SendNgSetupRequest
  BY <1>2 DEF SendNgSetupRequest
<1>3. CASE InitF1APServer
  BY <1>3 DEF InitF1APServer
<1>4. CASE Start
  BY <1>4 DEF Start
<1>5. CASE Watch
  BY <1>5 DEF Watch
<1>6. CASE AmfSends
  <2>1. \A s \in BOOLEAN : [id |-> nsent + 1, setup |-> s] \in AmfMsg
    BY <1>6 DEF AmfSends, AmfMsg
  <2> QED
    BY <1>6, <2>1 DEF AmfSends
<1>7. CASE AmfLost
  BY <1>7 DEF AmfLost
<1>8. CASE ReadLoop
  <2>1. net # <<>> => /\ Head(net) \in AmfMsg
                     /\ Tail(net) \in Seq(AmfMsg)
                     /\ Len(Tail(net)) < Len(net)
    BY Queue
  <2>2. CASE /\ net # <<>>
             /\ net' = Tail(net)
             /\ ReadCh' = Append(ReadCh, Head(net)) /\ Len(ReadCh) < Cap
             /\ UNCHANGED <<lost, closed>>
    <3>1. ReadCh' \in Seq(AmfMsg) /\ Len(ReadCh') = Len(ReadCh) + 1
      BY <2>1, <2>2
    <3> QED
      BY <1>8, <2>1, <2>2, <3>1 DEF ReadLoop
  <2>3. CASE /\ net # <<>>
             /\ net' = Tail(net)
             /\ lost' = lost \cup {Head(net)}
             /\ UNCHANGED <<ReadCh, closed>>
    BY <1>8, <2>1, <2>3 DEF ReadLoop
  <2>4. CASE closed' = TRUE /\ UNCHANGED <<net, ReadCh, lost>>
    BY <1>8, <2>4 DEF ReadLoop
  <2> QED
    BY <1>8, <2>2, <2>3, <2>4 DEF ReadLoop
<1>9. CASE Dispatch
  <2>1. ReadCh # <<>> => /\ Head(ReadCh) \in AmfMsg
                     /\ Tail(ReadCh) \in Seq(AmfMsg)
                     /\ Len(Tail(ReadCh)) < Len(ReadCh)
    BY Queue
  <2>2. Head(ReadCh).id \in 1 .. MaxMsg
    BY <1>9, <2>1 DEF Dispatch, AmfMsg
  <2> QED
    BY <1>9, <2>1, <2>2 DEF Dispatch
<1>10. CASE ExiterNotify
  BY <1>10 DEF ExiterNotify
<1>11. CASE WaitForShutdown
  BY <1>11 DEF WaitForShutdown
<1>12. CASE Signal
  <2>1. alive' \in BOOLEAN
    BY <1>12, Zenon DEF Signal
  <2>2. pending' \subseteq {"main", "exiter"}
    BY <1>12 DEF Signal
  <2>3. nsig' \in 0 .. MaxSig
    BY <1>12 DEF Signal
  <2> QED
    BY <1>12, <2>1, <2>2, <2>3 DEF Signal
<1>13. CASE Exit
  BY <1>13 DEF Exit
<1>14. CASE Stop
  BY <1>14 DEF Stop
<1>15. CASE Terminate
  BY <1>15 DEF Terminate
<1>16. CASE WatcherTerminate
  BY <1>16 DEF WatcherTerminate
<1>17. ASSUME NEW i \in 1 .. MaxMsg, Ready(i)
      PROVE  TypeOK' /\ IInv'
  BY <1>17 DEF Ready
<1>18. ASSUME NEW i \in 1 .. MaxMsg, HandlerNgSetupResponse(i)
      PROVE  TypeOK' /\ IInv'
  BY <1>18 DEF HandlerNgSetupResponse
<1>19. ASSUME NEW i \in 1 .. MaxMsg, DispatchOther(i)
      PROVE  TypeOK' /\ IInv'
  BY <1>19 DEF DispatchOther
<1>20. CASE UNCHANGED vars
  BY <1>20 DEF vars
<1> QED
  BY <1>1, <1>2, <1>3, <1>4, <1>5, <1>6, <1>7, <1>8, <1>9, <1>10,
     <1>11, <1>12, <1>13, <1>14, <1>15, <1>16, <1>17, <1>18, <1>19, <1>20
     DEF Next, Process

\* The types and the invariant hold always.
THEOREM Inductive == Spec => [](TypeOK /\ IInv)
<1>1. Init => TypeOK /\ IInv
  <2> SUFFICES ASSUME Init
               PROVE  TypeOK /\ IInv
    OBVIOUS
  <2>1. net \in Seq(AmfMsg) /\ ReadCh \in Seq(AmfMsg) /\ Len(ReadCh) = 0
    BY DEF Init
  <2>2. closed \in BOOLEAN /\ alive \in BOOLEAN
    BY DEF Init
  <2> QED
    BY <2>1, <2>2, BoundAssumption DEF Init, TypeOK, IInv, F1AfterNg
<1> QED
  BY <1>1, StepInv, PTL DEF Spec

\* The goroutines, queues and channels of start-up have their types; in
\* particular ReadCh never holds more than its capacity.
THEOREM TypeCorrect == Spec => []TypeOK
BY Inductive, PTL

\* However many messages the AMF sends and in whatever order their goroutines
\* run, the F1AP listener is open only after the AMF has accepted NG Setup.
THEOREM NgBeforeF1 == Spec => []F1AfterNg
<1>1. IInv => F1AfterNg
  BY DEF IInv
<1> QED
  BY <1>1, Inductive, PTL
=============================================================================
