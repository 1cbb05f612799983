----------------------------- MODULE AmfContext -----------------------------
(***************************************************************************)
(* The AMF context (amfcontext): the networks and slices that the AMF      *)
(* supports, in two linked lists with a separate counter each.             *)
(* handlerNgSetupResponse appends to them one element after the other and  *)
(* then reads each list back by index.  Nothing empties them: a further    *)
(* NGSetupResponse appends to what is there.                               *)
(*                                                                         *)
(* NGSetupResponses are handled one at a time here.  Each is a sequence of *)
(* networks, each with the slices it supports.                             *)
(***************************************************************************)
EXTENDS Plmn

CONSTANTS
  Networks,      \* networks that the AMF may support
  Slices,        \* S-NSSAIs
  MaxItems,      \* bound: networks, and slices of one, in an NGSetupResponse
  MaxResponses   \* bound: NGSetupResponses

ASSUME AmfAssumption ==
  /\ Networks \subseteq Network
  /\ MaxItems \in Nat /\ MaxResponses \in Nat

VARIABLES
  plmns,      \* Plmns and LenPlmn
  slices,     \* Slices and LenSlice
  todo,       \* what the handler has not appended yet
  pc,         \* the handler
  nresp,      \* how many NGSetupResponses were handled
  told        \* history: the networks and slices received so far

vars == <<plmns, slices, todo, pc, nresp, told>>

-----------------------------------------------------------------------------
(***************************************************************************)
(* Linked lists: node[i] is an element, next its successor, 0 is nil.      *)
(***************************************************************************)
Nil == 0
Empty == [node |-> <<>>, head |-> Nil, len |-> 0]

\* One turn of the loop: mov goes on or, at an element without successor,
\* gets a new one.
Turn(w, e) ==
  IF w.node[w.mov].next = Nil
    THEN [w EXCEPT !.node = Append([@ EXCEPT ![w.mov].next = Len(w.node) + 1],
                                   [elem |-> e, next |-> Nil])]
    ELSE [w EXCEPT !.mov = w.node[@].next]

\* The state of the loop after each of its turns: as many turns as the
\* counter says.
Walk(list, e) ==
  LET walk[k \in 0 .. list.len] ==
        IF k = 0 THEN [mov |-> list.head, node |-> list.node]
                 ELSE Turn(walk[k - 1], e)
  IN  walk

\* The first element.
Single(e) == [node |-> <<[elem |-> e, next |-> Nil]>>, head |-> 1, len |-> 1]

\* Mutant: one turn too few.
AddedShort(list, e) ==
  IF list.len = 0
    THEN Single(e)
    ELSE [list EXCEPT !.node = Walk(list, e)[list.len - 1].node, !.len = @ + 1]

\* Mutant: a new element goes to the front.
AddedFront(list, e) ==
  [node |-> Append(list.node, [elem |-> e, next |-> list.head]),
   head |-> Len(list.node) + 1, len |-> list.len + 1]

\* AddedPlmn and AddedSlice.
Added(list, e) ==
  IF list.len = 0
    THEN Single(e)
    ELSE [list EXCEPT !.node = Walk(list, e)[list.len].node, !.len = @ + 1]

\* GetPlmnSupport and GetSliceSupport: the element at an index from 0, or
\* nothing: there the program dereferences nil.
Nothing == <<>>

\* One turn of their loop, and the element that each turn reaches.
After(list, mov) == IF mov = Nil THEN Nil ELSE list.node[mov].next

Reached(list, index) ==
  LET mov[k \in 0 .. index] ==
        IF k = 0 THEN list.head ELSE After(list, mov[k - 1])
  IN  mov

GetSupport(list, index) ==
  LET mov == Reached(list, index)[index]
  IN  IF mov = Nil THEN Nothing ELSE <<list.node[mov].elem>>

-----------------------------------------------------------------------------
(***************************************************************************)
(* The handler.                                                            *)
(***************************************************************************)
Upto(S, n) == UNION {[1 .. k -> S] : k \in 0 .. n}

Item == [net : Networks, slices : Upto(Slices, MaxItems)]

List(S) == [node : Seq([elem : S, next : Nat]), head : Nat, len : Nat]

TypeOK ==
  /\ plmns \in List(Network)
  /\ slices \in List(Slices)
  /\ todo \in Seq(Item)
  /\ pc \in {"idle", "plmn", "slice", "panic"}
  /\ nresp \in 0 .. MaxResponses
  /\ told \in [plmns : Seq(Network), slices : Seq(Slices)]

Init ==
  /\ plmns = Empty
  /\ slices = Empty
  /\ todo = <<>>
  /\ pc = "idle"
  /\ nresp = 0
  /\ told = [plmns |-> <<>>, slices |-> <<>>]

\* The AMF (external) answers, and the handler starts.
Receive ==
  /\ pc = "idle" /\ nresp < MaxResponses
  /\ nresp' = nresp + 1
  /\ todo' \in Upto(Item, MaxItems)
  /\ pc' = "plmn"
  /\ UNCHANGED <<plmns, slices, told>>

\* The outer loop: the PLMN Identity of the item, as digits.
AddedPlmn ==
  /\ pc = "plmn" /\ todo # <<>>
  /\ plmns' = Added(plmns, ConvertMccMnc(PlmnIdentity(Head(todo).net)))
  /\ told' = [told EXCEPT !.plmns = Append(@, Head(todo).net)]
  /\ pc' = "slice"
  /\ UNCHANGED <<slices, todo, nresp>>

\* The inner loop, and the next item after it.
AddedSlice ==
  /\ pc = "slice"
  /\ LET s == Head(todo).slices IN
     IF s # <<>>
       THEN /\ slices' = Added(slices, Head(s))
            /\ told' = [told EXCEPT !.slices = Append(@, Head(s))]
            /\ todo' = [todo EXCEPT ![1].slices = Tail(s)]
            /\ UNCHANGED pc
       ELSE /\ todo' = Tail(todo)
            /\ pc' = "plmn"
            /\ UNCHANGED <<slices, told>>
  /\ UNCHANGED <<plmns, nresp>>

\* The rest of the handler reads both lists up to their counters.
Report ==
  /\ pc = "plmn" /\ todo = <<>>
  /\ pc' = IF \/ \E i \in 0 .. plmns.len - 1 : GetSupport(plmns, i) = Nothing
              \/ \E i \in 0 .. slices.len - 1 : GetSupport(slices, i) = Nothing
             THEN "panic" ELSE "idle"
  /\ UNCHANGED <<plmns, slices, todo, nresp, told>>

Next == Receive \/ AddedPlmn \/ AddedSlice \/ Report

Spec == Init /\ [][Next]_vars

-----------------------------------------------------------------------------
(***************************************************************************)
(* Properties.                                                             *)
(***************************************************************************)

\* The counters never go past the end of the lists: reading by index meets
\* no nil, after however many responses.
NoNilSupport == pc # "panic"

\* GetPlmnSupport and GetSliceSupport give, index by index, what the AMF has
\* told, in order and with its digits: no element is lost, doubled or out of
\* place, although each append walks by the counter and not to the end.
SupportKept ==
  /\ [i \in 1 .. plmns.len |-> GetSupport(plmns, i - 1)] =
       [i \in 1 .. Len(told.plmns) |-> <<told.plmns[i]>>]
  /\ [i \in 1 .. slices.len |-> GetSupport(slices, i - 1)] =
       [i \in 1 .. Len(told.slices) |-> <<told.slices[i]>>]

-----------------------------------------------------------------------------
(***************************************************************************)
(* The inductive invariant: each list holds what was told, its nodes in    *)
(* the order of their creation, and its counter is their number.           *)
(***************************************************************************)
Linked(s) ==
  [node |-> [i \in 1 .. Len(s) |->
               [elem |-> s[i], next |-> IF i = Len(s) THEN Nil ELSE i + 1]],
   head |-> IF Len(s) = 0 THEN Nil ELSE 1,
   len |-> Len(s)]

IInv ==
  /\ plmns = Linked(told.plmns)
  /\ slices = Linked(told.slices)
  /\ pc = "slice" => todo # <<>>
  /\ NoNilSupport
=============================================================================
