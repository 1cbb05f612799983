------------------------------ MODULE MCUeAuth ------------------------------
(***************************************************************************)
(* Instance of UeAuth for TLC.                                             *)
(***************************************************************************)
EXTENDS UeAuth, TLC

\* Both counters at either end of their range, and the network behind, level
\* with or ahead of the UE.
MCUeSqns == {0, 9, SqnMax - 1, SqnMax}
MCNetSqns == {0, 8, 9, SqnMax - 2, SqnMax}
=============================================================================
