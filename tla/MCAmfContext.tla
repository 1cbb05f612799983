---------------------------- MODULE MCAmfContext ----------------------------
(***************************************************************************)
(* Instance of AmfContext for TLC.                                         *)
(***************************************************************************)
EXTENDS AmfContext, TLC

\* MNCs of two and of three digits.
MCNetworks == {[mcc |-> <<2, 0, 8>>, mnc |-> <<9, 3>>],
               [mcc |-> <<3, 1, 0>>, mnc |-> <<4, 1, 5>>]}
=============================================================================
