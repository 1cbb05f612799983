---------------------------- MODULE MCCuLifecycle ----------------------------
(***************************************************************************)
(* Instances of CuLifecycle for TLC.                                       *)
(***************************************************************************)
EXTENDS CuLifecycle, TLC
=============================================================================
