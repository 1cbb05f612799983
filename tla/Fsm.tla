--------------------------------- MODULE Fsm ---------------------------------
(***************************************************************************)
(* The state machine library (internal/common/fsm): one State, the events  *)
(* sent to it, the worker pool that runs their handlers, and the callbacks *)
(* of the user, which may chain a further event (SetNextEvent) or send one *)
(* (SendEvent).                                                            *)
(*                                                                         *)
(* Events come from any goroutine.  SendEvent submits a closure to the     *)
(* pool; SyncSendEvent runs the same closure in the caller.  The closure   *)
(* holds slock from its first statement to its last, and while it does so  *)
(* it calls back up to three times for each event.  A callback must not    *)
(* wait for an answer (the comment on SendEvent forbids it), so it never   *)
(* does here: it would wait for the lock that its own goroutine holds.     *)
(*                                                                         *)
(* What a callback does and when a caller sends is the user's choice; each *)
(* event is sent at most once.                                             *)
(***************************************************************************)
EXTENDS Integers, Sequences, FiniteSets

CONSTANTS
  Event,        \* the events that are ever sent
  Type,         \* event.Type() of each
  NoEvent,      \* nil, as an *EventData
  States,
  InitState,    \* the state given to NewState
  Transitions,  \* fsm.transitions: from <<state, type>> to states
  PlainTypes,   \* fsm.events: the types of the non-transitional events
  Workers,      \* size of the worker pool
  MaxForce      \* bound: calls of ForceSetState

\* NewFsm panics when a non-transitional event is in the table.  It does not
\* notice a nil callback of a state that has transitions: transit calls it
\* without a check at line 158, so every such state must have one.
ASSUME TableAssumption ==
  /\ InitState \in States
  /\ DOMAIN Transitions \subseteq States \X {Type[e] : e \in Event}
  /\ \A t \in DOMAIN Transitions : Transitions[t] \in States
  /\ \A t \in DOMAIN Transitions : t[2] \notin PlainTypes
ASSUME EventAssumption == NoEvent \notin Event
ASSUME BoundAssumption == Workers \in Nat \ {0} /\ MaxForce \in Nat

VARIABLES
  current,  \* state.current
  next,     \* state.next
  slock,    \* state.slock: the event whose closure holds it
  job,      \* where each event is
  queue,    \* closures that the pool has not started
  busy,     \* events whose closure a worker of the pool runs
  errCh,    \* the answer channel of each event, of capacity 1
  run,      \* what the holder of slock is doing
  forced    \* how often ForceSetState was called

vars == <<current, next, slock, job, queue, busy, errCh, run, forced>>

Plain == {e \in Event : Type[e] \in PlainTypes}

\* ev is the event being handled, from and to the transition, pc the step.
Run == [ev : Event \cup {NoEvent}, from : States, to : States,
        pc : {"idle", "handler", "event", "exit", "set", "entry", "next"}]

TypeOK ==
  /\ current \in States
  /\ next \in Event \cup {NoEvent}
  /\ slock \in Event \cup {NoEvent}
  /\ job \in [Event -> {"new", "queued", "lock", "chained", "handled", "done"}]
  /\ queue \in Seq(Event)
  /\ busy \subseteq Event
  /\ errCh \in [Event -> {"empty", "nil", "error"}]
  /\ run \in Run
  /\ forced \in 0 .. MaxForce

Init ==
  /\ current = InitState
  /\ next = NoEvent
  /\ slock = NoEvent
  /\ job = [e \in Event |-> "new"]
  /\ queue = <<>>
  /\ busy = {}
  /\ errCh = [e \in Event |-> "empty"]
  /\ run = [ev |-> NoEvent, from |-> InitState, to |-> InitState, pc |-> "idle"]
  /\ forced = 0

-----------------------------------------------------------------------------
(***************************************************************************)
(* Sending.                                                                *)
(***************************************************************************)

\* errCh <- v: blocks when the channel holds an answer already.
Answer(e, v) == errCh[e] = "empty" /\ errCh' = [errCh EXCEPT ![e] = v]

\* handleEvent, not synchronous: Submit, and the answer to a
\* non-transitional event, which does not wait for its handler.
Submit(e) ==
  /\ job[e] = "new"
  /\ job' = [job EXCEPT ![e] = "queued"]
  /\ queue' = Append(queue, e)
  /\ IF e \in Plain THEN Answer(e, "nil") ELSE UNCHANGED errCh

SendEvent(e) ==
  /\ Submit(e)
  /\ UNCHANGED <<current, next, slock, busy, run, forced>>

\* handleEvent, synchronous: the caller runs the closure.
SyncSendEvent(e) ==
  /\ job[e] = "new"
  /\ job' = [job EXCEPT ![e] = "lock"]
  /\ UNCHANGED <<current, next, slock, queue, busy, errCh, run, forced>>

\* A worker of the pool (external) starts the oldest closure.
Work ==
  /\ queue # <<>>
  /\ Cardinality(busy) < Workers
  /\ busy' = busy \cup {Head(queue)}
  /\ job' = [job EXCEPT ![Head(queue)] = "lock"]
  /\ queue' = Tail(queue)
  /\ UNCHANGED <<current, next, slock, errCh, run, forced>>

ForceSetState(s) ==
  /\ forced < MaxForce
  /\ forced' = forced + 1
  /\ current' = s
  /\ UNCHANGED <<next, slock, job, queue, busy, errCh, run>>

-----------------------------------------------------------------------------
(***************************************************************************)
(* Handling, with slock held.                                              *)
(***************************************************************************)

\* Mutant: the result of the lookup is not tested.
BeginUnchecked(e) ==
  LET tuple == <<current, Type[e]>> IN
  run' = CASE e \in Plain ->
                [ev |-> e, from |-> current, to |-> current, pc |-> "handler"]
           [] tuple \in DOMAIN Transitions ->
                [ev |-> e, from |-> current, to |-> Transitions[tuple],
                 pc |-> "event"]
           [] OTHER ->
                [ev |-> e, from |-> current, to |-> "", pc |-> "event"]

\* What is called first for event e: the generic handler, the callback of
\* the current state, or nothing.
Begin(e) ==
  LET tuple == <<current, Type[e]>> IN
  run' = CASE e \in Plain ->
                [ev |-> e, from |-> current, to |-> current, pc |-> "handler"]
           [] tuple \in DOMAIN Transitions ->
                [ev |-> e, from |-> current, to |-> Transitions[tuple],
                 pc |-> "event"]
           [] OTHER ->
                [ev |-> e, from |-> current, to |-> current, pc |-> "next"]

\* Mutant: the closure does not take slock.
HandleEventUnlocked(e) ==
  /\ job[e] = "lock"
  /\ slock' = e
  /\ job' = [job EXCEPT ![e] = "handled"]
  /\ Begin(e)
  /\ IF e \in Plain
       THEN UNCHANGED errCh
       ELSE Answer(e, IF <<current, Type[e]>> \in DOMAIN Transitions
                        THEN "nil" ELSE "error")
  /\ UNCHANGED <<current, next, queue, busy, forced>>

\* The closure of handleEvent takes slock; transit reads the state, looks the
\* transition up and answers, before any callback.
HandleEvent(e) ==
  /\ job[e] = "lock"
  /\ slock = NoEvent
  /\ slock' = e
  /\ job' = [job EXCEPT ![e] = "handled"]
  /\ Begin(e)
  /\ IF e \in Plain
       THEN UNCHANGED errCh
       ELSE Answer(e, IF <<current, Type[e]>> \in DOMAIN Transitions
                        THEN "nil" ELSE "error")
  /\ UNCHANGED <<current, next, queue, busy, forced>>

\* SetNextEvent: a second call replaces the event of the first.
SetNextEvent(e) ==
  /\ job[e] = "new"
  /\ job' = [job EXCEPT ![e] = "chained"]
  /\ next' = e
  /\ UNCHANGED <<queue, errCh>>

\* A callback of the user: it may do nothing, chain an event or send one.
Callback ==
  \/ UNCHANGED <<next, job, queue, errCh>>
  \/ \E e \in Event : SetNextEvent(e)
  \/ \E e \in Event : Submit(e) /\ UNCHANGED next

\* transit and processNextEvent call back: for the event, on exit from the
\* old state, on entry into the new one, or the generic handler.
CallBack ==
  /\ run.pc \in {"handler", "event", "exit", "entry"}
  /\ Callback
  /\ run' = [run EXCEPT !.pc =
       CASE run.pc = "event" /\ run.from # run.to -> "exit"
         [] run.pc = "exit" -> "set"
         [] OTHER -> "next"]
  /\ UNCHANGED <<current, slock, busy, forced>>

\* transit, state.setState(nextState).
SetState ==
  /\ run.pc = "set"
  /\ current' = run.to
  /\ run' = [run EXCEPT !.pc = "entry"]
  /\ UNCHANGED <<next, slock, job, queue, busy, errCh, forced>>

\* processNextEvent: the chained event, under the same lock, without answer.
ProcessNextEvent ==
  /\ run.pc = "next" /\ next # NoEvent
  /\ next' = NoEvent
  /\ job' = [job EXCEPT ![next] = "handled"]
  /\ Begin(next)
  /\ UNCHANGED <<current, slock, queue, busy, errCh, forced>>

\* Mutant: `if` for `for` in processNextEvent.
UnlockEarly ==
  /\ run.pc = "next"
  /\ next = NoEvent \/ run.ev # slock
  /\ job' = [job EXCEPT ![slock] = "done"]
  /\ slock' = NoEvent
  /\ busy' = busy \ {slock}
  /\ run' = [run EXCEPT !.ev = NoEvent, !.pc = "idle"]
  /\ IF slock \in Plain \ busy
       THEN Answer(slock, "nil") ELSE UNCHANGED errCh
  /\ UNCHANGED <<current, next, queue, forced>>

\* Mutant: slock is not released.
UnlockNever ==
  /\ run.pc = "next" /\ next = NoEvent
  /\ job' = [job EXCEPT ![slock] = "done"]
  /\ busy' = busy \ {slock}
  /\ run' = [run EXCEPT !.ev = NoEvent, !.pc = "idle"]
  /\ IF slock \in Plain \ busy
       THEN Answer(slock, "nil") ELSE UNCHANGED errCh
  /\ UNCHANGED <<current, next, slock, queue, forced>>

\* The end of the closure: the worker is free, or SyncSendEvent goes on and
\* answers a non-transitional event.
Unlock ==
  /\ run.pc = "next" /\ next = NoEvent
  /\ job' = [job EXCEPT ![slock] = "done"]
  /\ slock' = NoEvent
  /\ busy' = busy \ {slock}
  /\ run' = [run EXCEPT !.ev = NoEvent, !.pc = "idle"]
  /\ IF slock \in Plain \ busy
       THEN Answer(slock, "nil") ELSE UNCHANGED errCh
  /\ UNCHANGED <<current, next, queue, forced>>

-----------------------------------------------------------------------------
\* A step of the goroutine that holds slock.
Holder == CallBack \/ SetState \/ ProcessNextEvent \/ Unlock

Next ==
  \/ \E e \in Event : SendEvent(e) \/ SyncSendEvent(e) \/ HandleEvent(e)
  \/ \E s \in States : ForceSetState(s)
  \/ Work
  \/ Holder

Spec == Init /\ [][Next]_vars

\* Goroutines that can run do.  Nobody has to send an event.
Fairness ==
  /\ WF_vars(Work)
  /\ WF_vars(Holder)
  /\ \A e \in Event : WF_vars(HandleEvent(e))

FairSpec == Spec /\ Fairness

-----------------------------------------------------------------------------
(***************************************************************************)
(* Properties.                                                             *)
(***************************************************************************)

\* The state that the next event will find: from the moment transit has
\* looked a change of state up, the target of that change.
Changing == run.pc \in {"event", "exit", "set"} /\ run.from # run.to

Committed == IF Changing THEN run.to ELSE current

Serial ==
  INSTANCE SerialFsm WITH
    state <- Committed,
    handled <- {e \in Event : job[e] \in {"handled", "done"}},
    answer <- [e \in Event \ Plain |-> errCh[e]]

\* Events of concurrent senders, workers and callbacks take effect one at a
\* time and atomically, although transit reads the state at its start,
\* answers, and writes the state only after two callbacks: slock, held over
\* chained events too, makes the library a serial state machine.
SerialEvents == Serial!Spec

\* When slock is free no chained event is waiting: processNextEvent goes on
\* until no callback has chained another one, and nobody's event comes in
\* between.
RunToCompletion == slock = NoEvent => next = NoEvent

\* Every event that is sent is handled and answered: no answer blocks on a
\* full channel, and every closure gets slock and releases it.
EventHandled ==
  \A e \in Event :
    job[e] \in {"queued", "lock"} ~> job[e] = "done" /\ errCh[e] # "empty"

-----------------------------------------------------------------------------
(***************************************************************************)
(* The inductive invariant: who holds slock, and where the events are.     *)
(***************************************************************************)
IInv ==
  /\ run.pc = "idle" <=> slock = NoEvent
  /\ run.pc \in {"exit", "set"} => run.from # run.to
  /\ slock # NoEvent => job[slock] = "handled"
  /\ next # NoEvent => job[next] = "chained"
  /\ \A i \in 1 .. Len(queue) : job[queue[i]] = "queued"
  /\ \A i, j \in 1 .. Len(queue) : queue[i] = queue[j] => i = j
  /\ RunToCompletion
=============================================================================
