------------------------------ MODULE SerialFsm ------------------------------
(***************************************************************************)
(* What the state machine library promises to its callers: the events of a *)
(* State take effect one at a time, each in a single step, and each on the *)
(* state that the previous one left.  Callbacks, goroutines, locks and     *)
(* queues do not show.                                                     *)
(***************************************************************************)
EXTENDS Naturals

CONSTANTS
  Event,        \* the events that are ever sent
  Type,         \* the type of each
  States,
  InitState,
  Transitions,  \* from pairs <<state, event type>> to states
  Plain         \* the non-transitional events

VARIABLES
  state,        \* the state the next event finds
  handled,      \* the events that have taken effect
  answer,       \* what the sender of a transitional event was told
  forced        \* how often the state was forced

vars == <<state, handled, answer, forced>>

Known(s, e) == <<s, Type[e]>> \in DOMAIN Transitions

Init ==
  /\ state = InitState
  /\ handled = {}
  /\ answer = [e \in Event \ Plain |-> "empty"]
  /\ forced = 0

\* Event e takes effect.  The sender learns whether the table has it; nobody
\* is told of an event that a callback chains to the one being handled.
Handle(e) ==
  /\ e \notin handled
  /\ handled' = handled \cup {e}
  /\ IF e \in Plain
       THEN UNCHANGED <<state, answer>>
       ELSE /\ state' = IF Known(state, e)
                          THEN Transitions[<<state, Type[e]>>] ELSE state
            /\ \/ UNCHANGED answer
               \/ /\ answer[e] = "empty"
                  /\ answer' = [answer EXCEPT ![e] =
                       IF Known(state, e) THEN "nil" ELSE "error"]
  /\ UNCHANGED forced

\* ForceSetState, by anybody at any time; without effect when an event that
\* changes the state is being handled.
Force(s) ==
  /\ forced' = forced + 1
  /\ state' = s \/ UNCHANGED state
  /\ UNCHANGED <<handled, answer>>

Next == (\E e \in Event : Handle(e)) \/ (\E s \in States : Force(s))

Spec == Init /\ [][Next]_vars
=============================================================================
