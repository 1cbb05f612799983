----------------------------- MODULE MCF1Server -----------------------------
(***************************************************************************)
(* Instances of F1Server for TLC.                                          *)
(***************************************************************************)
EXTENDS F1Server, TLC

CONSTANTS c1, c2, c3, c4, c5, c6, c7, c8

\* c1 and c2 are the same DU, before and after it reconnects; c3 is another
\* one, with two cells; c4 is another one, of another network first; c5 is
\* another one, without a cell; c6 is another one, of no network; c7 is another
\* one, whose MNC has the digits in another order; c8 is another one that is
\* accepted.
MCDuId == [c \in Conn |-> IF c \in {c1, c2} THEN 7 ELSE IF c = c3 THEN 8 ELSE 9]
MCCells == [c \in Conn |-> IF c = c3 THEN 2 ELSE IF c = c5 THEN 0 ELSE 1]
MCCuNetwork == [mcc |-> <<2, 0, 8>>, mnc |-> <<9, 3, 5>>]
MCServedPLMNs ==
  [c \in Conn |->
     CASE c = c4 -> <<[mcc |-> <<2, 0, 8>>, mnc |-> <<9, 3>>], MCCuNetwork>>
       [] c = c6 -> <<>>
       [] c = c7 -> <<[mcc |-> <<2, 0, 8>>, mnc |-> <<9, 5, 3>>]>>
       [] OTHER -> <<MCCuNetwork>>]
=============================================================================
