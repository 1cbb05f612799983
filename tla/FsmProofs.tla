------------------------------ MODULE FsmProofs ------------------------------
(***************************************************************************)
(* Fsm implements SerialFsm, for every set of events, every transition     *)
(* table, every number of workers and whatever the callbacks do.           *)
(***************************************************************************)
EXTENDS Fsm, TLAPS

\* The initial state has its type.
LEMMA TypeInit == Init => TypeOK
BY TableAssumption, BoundAssumption DEF Init, TypeOK, Run

\* Whatever is called first, the record of the holder has its type.
LEMMA BeginType ==
  ASSUME TypeOK, NEW e \in Event, Begin(e)
  PROVE  /\ run' \in Run
         /\ run'.pc \in {"handler", "event", "next"}
         /\ run'.ev = e
BY TableAssumption DEF Begin, TypeOK, Run

\* What a callback does keeps the types.
LEMMA CallbackType ==
  ASSUME TypeOK, Callback
  PROVE  /\ next' \in Event \cup {NoEvent}
         /\ job' \in [Event -> {"new", "queued", "lock", "chained", "handled",
                               "done"}]
         /\ queue' \in Seq(Event)
         /\ errCh' \in [Event -> {"empty", "nil", "error"}]
BY DEF Callback, SetNextEvent, Submit, Answer, TypeOK

\* Every step keeps the types.
LEMMA TypeNext == TypeOK /\ IInv /\ [Next]_vars => TypeOK'
<1> SUFFICES ASSUME TypeOK, IInv, [Next]_vars
             PROVE  TypeOK'
  OBVIOUS
<1> USE BoundAssumption
<1>1. ASSUME NEW e \in Event, SendEvent(e) \/ SyncSendEvent(e)
      PROVE  TypeOK'
  <2>1. CASE SendEvent(e)
    <3>1. queue' \in Seq(Event)
      BY <2>1 DEF SendEvent, Submit, TypeOK
    <3> QED
      BY <2>1, <3>1 DEF SendEvent, Submit, Answer, TypeOK
  <2>2. CASE SyncSendEvent(e)
    BY <2>2 DEF SyncSendEvent, TypeOK
  <2> QED
    BY <1>1, <2>1, <2>2
<1>2. ASSUME NEW e \in Event, HandleEvent(e)
      PROVE  TypeOK'
  <2>1. run' \in Run
    BY <1>2, BeginType DEF HandleEvent
  <2> QED
    BY <1>2, <2>1 DEF HandleEvent, Answer, TypeOK
<1>3. ASSUME NEW s \in States, ForceSetState(s)
      PROVE  TypeOK'
  BY <1>3 DEF ForceSetState, TypeOK
<1>4. CASE Work
  <2>1. Head(queue) \in Event /\ Tail(queue) \in Seq(Event)
    BY <1>4 DEF Work, TypeOK
  <2> QED
    BY <1>4, <2>1 DEF Work, TypeOK
<1>5. CASE CallBack
  <2>1. run' \in Run
    BY <1>5 DEF CallBack, TypeOK, Run
  <2> QED
    BY <1>5, <2>1, CallbackType DEF CallBack, TypeOK
<1>6. CASE SetState
  <2>1. run.to \in States /\ run' \in Run
    BY <1>6 DEF SetState, TypeOK, Run
  <2> QED
    BY <1>6, <2>1 DEF SetState, TypeOK
<1>7. CASE ProcessNextEvent
  <2>1. run' \in Run
    BY <1>7, BeginType DEF ProcessNextEvent, TypeOK
  <2> QED
    BY <1>7, <2>1 DEF ProcessNextEvent, TypeOK
<1>8. CASE Unlock
  <2>1. run' \in Run
    BY <1>8 DEF Unlock, TypeOK, Run
  <2> QED
    BY <1>8, <2>1 DEF Unlock, Answer, TypeOK
<1>9. CASE UNCHANGED vars
  BY <1>9 DEF vars, TypeOK
<1> QED
  BY <1>1, <1>2, <1>3, <1>4, <1>5, <1>6, <1>7, <1>8, <1>9 DEF Next, Holder

\* An event that is sent was nowhere before: it is put at the end of the
\* queue, which holds each event once.
LEMMA QueueAppend ==
  ASSUME TypeOK, IInv, NEW e \in Event, Submit(e)
  PROVE  /\ \A i \in 1 .. Len(queue') : job'[queue'[i]] = "queued"
         /\ \A i, j \in 1 .. Len(queue') : queue'[i] = queue'[j] => i = j
<1>1. /\ job[e] = "new"
      /\ job' = [job EXCEPT ![e] = "queued"]
      /\ queue' = Append(queue, e)
      /\ queue \in Seq(Event)
  BY DEF Submit, TypeOK
<1>2. Len(queue') = Len(queue) + 1 /\ Len(queue) \in Nat
  BY <1>1
<1>3. \A i \in 1 .. Len(queue) :
        queue'[i] = queue[i] /\ queue[i] \in Event /\ queue[i] # e
  BY <1>1 DEF IInv
<1>4. queue'[Len(queue) + 1] = e
  BY <1>1
<1>5. \A i \in 1 .. Len(queue') : i \in 1 .. Len(queue) \/ i = Len(queue) + 1
  BY <1>2
<1>6. \A i \in 1 .. Len(queue') : job'[queue'[i]] = "queued"
  BY <1>1, <1>3, <1>4, <1>5 DEF IInv, TypeOK
<1>7. \A i, j \in 1 .. Len(queue') : queue'[i] = queue'[j] => i = j
  BY <1>3, <1>4, <1>5 DEF IInv
<1> QED
  BY <1>6, <1>7

\* Every step keeps the invariant.
LEMMA InvNext == TypeOK /\ IInv /\ [Next]_vars => IInv'
<1> SUFFICES ASSUME TypeOK, IInv, [Next]_vars
             PROVE  IInv'
  OBVIOUS
<1> USE EventAssumption
<1>q. queue \in Seq(Event) /\ \A i \in 1 .. Len(queue) : queue[i] \in Event
  BY DEF TypeOK
<1>1. ASSUME NEW e \in Event, SendEvent(e)
      PROVE  IInv'
  BY <1>1, QueueAppend DEF SendEvent, Submit, TypeOK, IInv, RunToCompletion
<1>2. ASSUME NEW e \in Event, SyncSendEvent(e)
      PROVE  IInv'
  BY <1>2, <1>q DEF SyncSendEvent, TypeOK, IInv, RunToCompletion
<1>3. ASSUME NEW e \in Event, HandleEvent(e)
      PROVE  IInv'
  <2>1. run'.pc \notin {"idle", "exit", "set"}
    BY <1>3, BeginType DEF HandleEvent
  <2>2. next = NoEvent
    BY <1>3 DEF HandleEvent, IInv, RunToCompletion
  <2> QED
    BY <1>3, <1>q, <2>1, <2>2 DEF HandleEvent, TypeOK, IInv, RunToCompletion
<1>4. ASSUME NEW s \in States, ForceSetState(s)
      PROVE  IInv'
  BY <1>4 DEF ForceSetState, IInv, RunToCompletion
<1>5. CASE Work
  <2>1. /\ queue # <<>>
        /\ queue' = Tail(queue)
        /\ job' = [job EXCEPT ![Head(queue)] = "lock"]
        /\ UNCHANGED <<next, slock, run>>
    BY <1>5 DEF Work
  <2>2. /\ Len(queue) \in Nat /\ Len(queue) > 0
        /\ Head(queue) = queue[1]
        /\ Len(queue') = Len(queue) - 1
        /\ \A i \in 1 .. Len(queue') : queue'[i] = queue[i + 1]
    BY <1>q, <2>1
  <2>3. job[Head(queue)] = "queued" /\ Head(queue) \in Event
    BY <1>q, <2>2 DEF IInv
  <2>4. \A i \in 1 .. Len(queue') :
          /\ i + 1 \in 1 .. Len(queue) /\ 1 \in 1 .. Len(queue)
          /\ i + 1 # 1
    BY <2>2
  <2>5. \A i \in 1 .. Len(queue') :
          queue'[i] # Head(queue) /\ queue'[i] \in Event
    BY <1>q, <2>2, <2>4 DEF IInv
  <2>6. \A i \in 1 .. Len(queue') : job'[queue'[i]] = "queued"
    BY <2>1, <2>2, <2>4, <2>5 DEF IInv, TypeOK
  <2>7. \A i, j \in 1 .. Len(queue') : queue'[i] = queue'[j] => i = j
    <3> TAKE i, j \in 1 .. Len(queue')
    <3>1. queue'[i] = queue'[j] => i + 1 = j + 1
      BY <2>2, <2>4 DEF IInv
    <3> QED
      BY <3>1
  <2>8. /\ slock # NoEvent => job'[slock] = "handled"
        /\ next # NoEvent => job'[next] = "chained"
    BY <2>1, <2>3 DEF IInv, TypeOK
  <2> QED
    BY <2>1, <2>6, <2>7, <2>8 DEF IInv, RunToCompletion
<1>6. CASE CallBack
  <2>1. /\ slock # NoEvent /\ UNCHANGED slock
        /\ run'.pc # "idle"
        /\ run'.pc \in {"exit", "set"} => run'.from # run'.to
    BY <1>6 DEF CallBack, IInv, TypeOK, Run
  <2>2. CASE UNCHANGED <<next, job, queue, errCh>>
    BY <2>1, <2>2 DEF IInv, RunToCompletion
  <2>3. ASSUME NEW e \in Event, SetNextEvent(e)
        PROVE  IInv'
    BY <1>q, <2>1, <2>3 DEF SetNextEvent, TypeOK, IInv, RunToCompletion
  <2>4. ASSUME NEW e \in Event, Submit(e), UNCHANGED next
        PROVE  IInv'
    <3>1. /\ slock' # NoEvent => job'[slock'] = "handled"
          /\ next' # NoEvent => job'[next'] = "chained"
      BY <2>1, <2>4 DEF Submit, TypeOK, IInv
    <3> QED
      BY <2>1, <2>4, <3>1, QueueAppend DEF IInv, RunToCompletion
  <2> QED
    BY <1>6, <2>2, <2>3, <2>4 DEF CallBack, Callback
<1>7. CASE SetState
  BY <1>7 DEF SetState, IInv, RunToCompletion, TypeOK, Run
<1>8. CASE ProcessNextEvent
  <2>1. next \in Event /\ slock # NoEvent
    BY <1>8 DEF ProcessNextEvent, IInv, TypeOK
  <2>2. run'.pc \notin {"idle", "exit", "set"}
    BY <1>8, <2>1, BeginType DEF ProcessNextEvent
  <2> QED
    BY <1>8, <1>q, <2>1, <2>2
       DEF ProcessNextEvent, TypeOK, IInv, RunToCompletion
<1>9. CASE Unlock
  <2>1. slock \in Event /\ job[slock] = "handled"
    BY <1>9 DEF Unlock, IInv, TypeOK
  <2>2. run'.pc = "idle" /\ slock' = NoEvent /\ next' = NoEvent
    BY <1>9 DEF Unlock, TypeOK, Run
  <2>3. \A i \in 1 .. Len(queue) : queue[i] # slock
    BY <2>1 DEF IInv
  <2> QED
    BY <1>9, <1>q, <2>1, <2>2, <2>3 DEF Unlock, TypeOK, IInv, RunToCompletion
<1>10. CASE UNCHANGED vars
  BY <1>10 DEF vars, IInv, RunToCompletion
<1> QED
  BY <1>1, <1>2, <1>3, <1>4, <1>5, <1>6, <1>7, <1>8, <1>9, <1>10
     DEF Next, Holder

\* The inductive invariant: slock is held by the goroutine that handles an
\* event, and an event is in one place at a time.
THEOREM Inductive == Spec => [](TypeOK /\ IInv)
<1>1. Init => IInv
  BY DEF Init, IInv, RunToCompletion
<1> QED
  BY <1>1, TypeInit, TypeNext, InvNext, PTL DEF Spec

\* The fields of the State, the queue and the channels keep their types.
THEOREM TypeCorrect == Spec => []TypeOK
BY Inductive, PTL

\* Nobody's event is handled between an event and those chained to it.
THEOREM ChainedFirst == Spec => []RunToCompletion
<1>1. IInv => RunToCompletion
  BY DEF IInv
<1> QED
  BY <1>1, Inductive, PTL

-----------------------------------------------------------------------------
(***************************************************************************)
(* The refinement.                                                         *)
(***************************************************************************)
Handled == {e \in Event : job[e] \in {"handled", "done"}}
Answers == [e \in Event \ Plain |-> errCh[e]]
serialVars == <<Committed, Handled, Answers, forced>>

\* The event that is looked up takes effect at once in the serial machine.
LEMMA BeginHandles ==
  ASSUME TypeOK, NEW e \in Event, Begin(e), UNCHANGED current, ~Changing
  PROVE  Committed' = IF e \notin Plain /\ <<Committed, Type[e]>> \in
                                             DOMAIN Transitions
                        THEN Transitions[<<Committed, Type[e]>>]
                        ELSE Committed
<1> DEFINE tuple == <<current, Type[e]>>
<1>0. Committed = current
  BY DEF Committed
<1>1. CASE e \in Plain
  <2>0. tuple \notin DOMAIN Transitions
    BY <1>1, TableAssumption DEF Plain
  <2>1. run' = [ev |-> e, from |-> current, to |-> current, pc |-> "handler"]
    BY <1>1, <2>0 DEF Begin
  <2> QED
    BY <1>0, <1>1, <2>1 DEF Committed, Changing
<1>2. CASE e \notin Plain /\ tuple \in DOMAIN Transitions
  <2>1. run' = [ev |-> e, from |-> current, to |-> Transitions[tuple],
                pc |-> "event"]
    BY <1>2 DEF Begin
  <2> QED
    BY <1>0, <1>2, <2>1 DEF Committed, Changing
<1>3. CASE e \notin Plain /\ tuple \notin DOMAIN Transitions
  <2>1. run'.pc = "next"
    BY <1>3 DEF Begin
  <2> QED
    BY <1>0, <1>3, <2>1 DEF Committed, Changing
<1> QED
  BY <1>1, <1>2, <1>3

\* Every step of the library is a step of the serial machine or changes
\* nothing of it.
LEMMA StepSerial ==
  TypeOK /\ IInv /\ [Next]_vars => [Serial!Next]_serialVars
<1> SUFFICES ASSUME TypeOK, IInv, [Next]_vars
             PROVE  Serial!Next \/ UNCHANGED serialVars
  BY DEF serialVars
<1> USE EventAssumption
<1>1. ASSUME NEW e \in Event, SendEvent(e) \/ SyncSendEvent(e)
      PROVE  UNCHANGED serialVars
  BY <1>1 DEF SendEvent, SyncSendEvent, Submit, Answer, TypeOK, serialVars,
              Handled, Answers, Committed, Changing
<1>2. ASSUME NEW e \in Event, HandleEvent(e)
      PROVE  Serial!Next
  <2>1. ~Changing /\ Committed = current
    BY <1>2 DEF HandleEvent, IInv, Changing, Committed
  <2>2. e \notin Handled /\ Handled' = Handled \cup {e}
    BY <1>2 DEF HandleEvent, Handled, TypeOK
  <2>3. CASE e \in Plain
    BY <1>2, <2>1, <2>2, <2>3, BeginHandles
       DEF HandleEvent, Serial!Next, Serial!Handle, Handled, Answers
  <2>4. CASE e \notin Plain
    <3>1. /\ errCh[e] = "empty"
          /\ errCh' = [errCh EXCEPT ![e] =
               IF <<Committed, Type[e]>> \in DOMAIN Transitions
                 THEN "nil" ELSE "error"]
      BY <1>2, <2>1, <2>4 DEF HandleEvent, Answer
    <3>2. /\ Answers[e] = "empty"
          /\ Answers' = [Answers EXCEPT ![e] =
               IF <<Committed, Type[e]>> \in DOMAIN Transitions
                 THEN "nil" ELSE "error"]
      BY <2>4, <3>1 DEF Answers, TypeOK
    <3>3. Committed' = IF <<Committed, Type[e]>> \in DOMAIN Transitions
                         THEN Transitions[<<Committed, Type[e]>>]
                         ELSE Committed
      BY <1>2, <2>1, <2>4, BeginHandles DEF HandleEvent
    <3>4. Serial!Handle(e)
      BY <1>2, <2>2, <2>4, <3>2, <3>3
         DEF HandleEvent, Serial!Handle, Serial!Known, Handled, Answers
    <3> QED
      BY <3>4 DEF Serial!Next
  <2> QED
    BY <2>3, <2>4
<1>3. ASSUME NEW s \in States, ForceSetState(s)
      PROVE  Serial!Next
  BY <1>3 DEF ForceSetState, Serial!Next, Serial!Force, Committed, Changing
<1>4. CASE Work
  <2>1. Head(queue) \in Event /\ job[Head(queue)] = "queued"
    <3>1. 1 \in 1 .. Len(queue) /\ Head(queue) = queue[1]
      BY <1>4 DEF Work, TypeOK
    <3> QED
      BY <3>1 DEF IInv, TypeOK
  <2> QED
    BY <1>4, <2>1 DEF Work, TypeOK, serialVars, Handled, Answers, Committed,
                      Changing
<1>5. CASE CallBack
  <2>1. UNCHANGED <<Handled, Answers, forced>>
    BY <1>5 DEF CallBack, Callback, SetNextEvent, Submit, Answer, Handled,
                Answers, TypeOK
  <2>2. UNCHANGED Committed
    <3>1. /\ run'.from = run.from /\ run'.to = run.to /\ UNCHANGED current
          /\ run'.pc = CASE run.pc = "event" /\ run.from # run.to -> "exit"
                         [] run.pc = "exit" -> "set"
                         [] OTHER -> "next"
          /\ run.pc \in {"handler", "event", "exit", "entry"}
      BY <1>5 DEF CallBack, TypeOK, Run
    <3>2. Changing' <=> Changing
      BY <3>1 DEF Changing, IInv
    <3> QED
      BY <3>1, <3>2 DEF Committed
  <2> QED
    BY <2>1, <2>2 DEF serialVars
<1>6. CASE SetState
  <2>1. Committed' = run.to
    BY <1>6 DEF SetState, Committed, Changing, TypeOK, Run
  <2>2. Committed = run.to
    BY <1>6 DEF SetState, Committed, Changing, IInv
  <2> QED
    BY <1>6, <2>1, <2>2 DEF SetState, serialVars, Handled, Answers
<1>7. CASE ProcessNextEvent
  <2>1. /\ next \in Event /\ ~Changing
        /\ job[next] = "chained"
    BY <1>7 DEF ProcessNextEvent, IInv, TypeOK, Changing
  <2>2. next \notin Handled /\ Handled' = Handled \cup {next}
    BY <1>7, <2>1 DEF ProcessNextEvent, Handled, TypeOK
  <2>3. PICK e \in Event : e = next
    BY <2>1
  <2>4. Begin(e)
    BY <1>7, <2>3 DEF ProcessNextEvent, Begin
  <2>5. Serial!Handle(e)
    BY <1>7, <2>1, <2>2, <2>3, <2>4, BeginHandles
       DEF ProcessNextEvent, Serial!Handle, Serial!Known, Handled, Answers
  <2> QED
    BY <2>5 DEF Serial!Next
<1>8. CASE Unlock
  <2>1. slock \in Event /\ job[slock] = "handled"
    BY <1>8 DEF Unlock, IInv, TypeOK
  <2> QED
    BY <1>8, <2>1 DEF Unlock, Answer, serialVars, Handled, Answers, Committed,
                      Changing, TypeOK, Run
<1>9. CASE UNCHANGED vars
  BY <1>9 DEF vars, serialVars, Handled, Answers, Committed, Changing
<1> QED
  BY <1>1, <1>2, <1>3, <1>4, <1>5, <1>6, <1>7, <1>8, <1>9 DEF Next, Holder

\* The library is a serial state machine: whatever is sent from wherever,
\* each event takes effect at once on the state that the previous one left.
THEOREM Serialised == Spec => SerialEvents
<1>1. Init => Serial!Init
  BY DEF Init, Serial!Init, Committed, Changing
<1>2. TypeOK /\ IInv /\ [Next]_vars => [Serial!Next]_(Serial!vars)
  BY StepSerial DEF serialVars, Handled, Answers, Serial!vars
<1> QED
  BY <1>1, <1>2, Inductive, PTL DEF Spec, SerialEvents, Serial!Spec
=============================================================================
