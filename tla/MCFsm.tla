-------------------------------- MODULE MCFsm --------------------------------
(***************************************************************************)
(* Instance of Fsm for TLC: two states, a transition each way, a loop, an  *)
(* event type that only one state knows and a non-transitional one.        *)
(***************************************************************************)
EXTENDS Fsm, TLC

CONSTANTS e1, e2, e3, e4

MCType == e1 :> "go" @@ e2 :> "back" @@ e3 :> "loop" @@ e4 :> "info"

MCTransitions ==
  <<"s0", "go">> :> "s1" @@ <<"s1", "back">> :> "s0" @@ <<"s0", "loop">> :> "s0"
=============================================================================
