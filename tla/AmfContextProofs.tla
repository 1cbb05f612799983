-------------------------- MODULE AmfContextProofs --------------------------
(***************************************************************************)
(* Proofs about AmfContext, for every set of networks and slices and every *)
(* number and length of NGSetupResponses.                                  *)
(*                                                                         *)
(* The loops of the program are recursive functions of the number of       *)
(* turns.  What they compute is shown without an induction rule: a first   *)
(* turn that differs from the expected one would follow an equal one.      *)
(***************************************************************************)
EXTENDS AmfContext, PlmnProofs, SequenceTheorems, WellFoundedInduction

\* A set of turns has a first one.
LEMMA FirstTurn ==
  ASSUME NEW T, T \subseteq Nat, T # {}
  PROVE  \E k \in T : \A j \in T : k <= j
<1>1. \E k \in T : \A j \in T : ~(<<j, k>> \in OpToRel(<, Nat))
  BY WFMin, NatLessThanWellFounded, Zenon
<1>2. PICK k \in T : \A j \in T : ~(<<j, k>> \in OpToRel(<, Nat))
  BY <1>1, Zenon
<1>3. \A j \in T : ~(j < k)
  BY <1>2 DEF OpToRel
<1> QED
  BY <1>3

\* What holds at the start and goes on from turn to turn holds at every turn.
LEMMA EveryTurn ==
  ASSUME NEW n \in Nat, NEW E, 0 \in E,
         \A k \in 1 .. n : k - 1 \in E => k \in E
  PROVE  \A k \in 0 .. n : k \in E
<1> DEFINE T == {k \in 0 .. n : k \notin E}
<1> SUFFICES ASSUME T # {} PROVE FALSE
  OBVIOUS
<1>0. T \subseteq Nat
  OBVIOUS
<1>1. PICK k \in T : \A j \in T : k <= j
  <2> HIDE DEF T
  <2> QED
    BY <1>0, FirstTurn
<1>2. k \in 1 .. n
  OBVIOUS
<1>3. k - 1 \notin T /\ k - 1 \in 0 .. n
  BY <1>1, <1>2
<1> QED
  BY <1>2, <1>3

\* What the loop of AddedPlmn and AddedSlice has after k turns on a list that
\* holds s: it has gone on one element per turn, and the last turn appends.
Expected(s, e) ==
  [k \in 0 .. Len(s) |->
     IF k < Len(s)
       THEN [mov |-> k + 1, node |-> Linked(s).node]
       ELSE [mov |-> Len(s), node |-> Linked(Append(s, e)).node]]

\* A turn at an element with a successor.
LEMMA TurnOn ==
  ASSUME NEW N, NEW k, NEW e, N[k].next # Nil
  PROVE  Turn([mov |-> k, node |-> N], e) = [mov |-> N[k].next, node |-> N]
BY DEF Turn

\* A turn before the last goes on to the next element.
LEMMA TurnMoves ==
  ASSUME NEW S, NEW s \in Seq(S), NEW e \in S, NEW k \in 1 .. Len(s) - 1
  PROVE  Turn([mov |-> k, node |-> Linked(s).node], e) =
           [mov |-> k + 1, node |-> Linked(s).node]
<1> DEFINE N == Linked(s).node
<1>1. N[k].next = k + 1 /\ k + 1 # Nil
  BY DEF Linked, Nil
<1> QED
  BY <1>1, TurnOn, Zenon

\* A function on an initial segment is a sequence, and the other way round.
LEMMA FcnSeq ==
  ASSUME NEW S, NEW n \in Nat, NEW f \in [1 .. n -> S]
  PROVE  f \in Seq(S) /\ Len(f) = n
<1>1. f \in Seq(S)
  BY SeqDef, Zenon
<1> QED
  BY <1>1, LenProperties

LEMMA SeqFcn ==
  ASSUME NEW S, NEW f \in Seq(S)
  PROVE  f = [i \in 1 .. Len(f) |-> f[i]]
<1>1. f \in [1 .. Len(f) -> S]
  BY LenProperties
<1> QED
  BY <1>1

\* The nodes of the list that holds s.
LEMMA LinkedNodes ==
  ASSUME NEW s, NEW n, Len(s) = n
  PROVE  Linked(s).node =
           [i \in 1 .. n |-> [elem |-> s[i],
                              next |-> IF i = n THEN Nil ELSE i + 1]]
BY DEF Linked

\* The last turn appends.
LEMMA TurnAppends ==
  ASSUME NEW S, NEW s \in Seq(S), NEW e \in S, Len(s) # 0
  PROVE  Turn([mov |-> Len(s), node |-> Linked(s).node], e) =
           [mov |-> Len(s), node |-> Linked(Append(s, e)).node]
<1> DEFINE N == Linked(s).node
           n == Len(s)
           R == [elem |-> e, next |-> Nil]
           M == [N EXCEPT ![n].next = n + 1]
<1>0. n \in Nat \ {0}
  OBVIOUS
<1>1. /\ N = [i \in 1 .. n |-> [elem |-> s[i],
                                next |-> IF i = n THEN Nil ELSE i + 1]]
      /\ N[n].next = Nil
  BY <1>0 DEF Linked
<1>2. /\ N \in Seq([elem : S, next : Nat])
      /\ Len(N) = n
  BY <1>1 DEF Nil
<1>3. Turn([mov |-> n, node |-> N], e) = [mov |-> n, node |-> Append(M, R)]
  <2>1. N[n].next = Nil /\ Len(N) = n /\ M = [N EXCEPT ![n].next = n + 1]
    BY <1>1, <1>2
  <2> HIDE DEF N, n, M
  <2> QED
    BY <2>1 DEF Turn
<1>4. M = [i \in 1 .. n |-> [elem |-> s[i], next |-> i + 1]]
  <2> HIDE DEF N
  <2>1. \A i \in 1 .. n : M[i] = [elem |-> s[i], next |-> i + 1]
    BY <1>0, <1>1
  <2>2. M = [i \in 1 .. n |-> M[i]]
    BY <1>1
  <2> HIDE DEF M
  <2> QED
    BY <2>1, <2>2
<1>5. Append(M, R) = [i \in 1 .. n + 1 |->
                       [elem |-> Append(s, e)[i],
                        next |-> IF i = n + 1 THEN Nil ELSE i + 1]]
  <2> HIDE DEF M
  <2>1. \A i \in 1 .. n : M[i] = [elem |-> s[i], next |-> i + 1]
    BY <1>4
  <2>2. M \in Seq([elem : S, next : Nat]) /\ Len(M) = n
    <3>1. M = [i \in 1 .. n |-> M[i]]
      BY <1>4
    <3>2. ASSUME NEW i \in 1 .. n
          PROVE  M[i] \in [elem : S, next : Nat]
      <4>1. s[i] \in S /\ i + 1 \in Nat
        BY <1>0
      <4>2. [elem |-> s[i], next |-> i + 1] \in [elem : S, next : Nat]
        BY <4>1
      <4> QED
        BY <2>1, <4>2, Zenon
    <3>3. M \in [1 .. n -> [elem : S, next : Nat]]
      BY <3>1, <3>2
    <3> QED
      BY <1>0, <3>3, FcnSeq
  <2>3. Append(M, R) = [i \in 1 .. n + 1 |-> IF i = n + 1 THEN R ELSE M[i]]
    <3>1. R \in [elem : S, next : Nat]
      BY DEF Nil
    <3> HIDE DEF R, n
    <3>2. /\ Append(M, R) \in Seq([elem : S, next : Nat])
          /\ Len(Append(M, R)) = n + 1
      BY <2>2, <3>1
    <3>3. \A i \in 1 .. n + 1 :
            Append(M, R)[i] = IF i = n + 1 THEN R ELSE M[i]
      BY <2>2, <3>1
    <3>4. Append(M, R) = [i \in 1 .. n + 1 |-> Append(M, R)[i]]
      BY <3>2, SeqFcn
    <3> QED
      BY <3>3, <3>4
  <2>4. \A i \in 1 .. n + 1 :
          Append(s, e)[i] = IF i = n + 1 THEN e ELSE s[i]
    OBVIOUS
  <2>5. \A i \in 1 .. n + 1 :
          (IF i = n + 1 THEN R ELSE M[i]) =
            [elem |-> Append(s, e)[i],
             next |-> IF i = n + 1 THEN Nil ELSE i + 1]
    <3> TAKE i \in 1 .. n + 1
    <3>1. CASE i = n + 1
      BY <2>4, <3>1
    <3>2. CASE i # n + 1
      <4>1. i \in 1 .. n
        BY <1>0, <3>2
      <4> QED
        BY <2>1, <2>4, <3>2, <4>1
    <3> QED
      BY <3>1, <3>2
  <2> HIDE DEF R, n
  <2> QED
    BY <2>3, <2>5
<1>6. Linked(Append(s, e)).node = Append(M, R)
  <2>1. Len(Append(s, e)) = n + 1
    OBVIOUS
  <2>2. Linked(Append(s, e)).node =
          [i \in 1 .. n + 1 |->
             [elem |-> Append(s, e)[i],
              next |-> IF i = n + 1 THEN Nil ELSE i + 1]]
    <3> DEFINE t == Append(s, e)
               k == n + 1
    <3>1. Len(t) = k
      BY <2>1
    <3> HIDE DEF t, k
    <3>2. Linked(t).node = [i \in 1 .. k |->
                              [elem |-> t[i],
                               next |-> IF i = k THEN Nil ELSE i + 1]]
      BY <3>1, LinkedNodes
    <3> QED
      BY <3>2 DEF t, k
  <2> HIDE DEF M, R
  <2> QED
    BY <1>5, <2>2
<1> QED
  BY <1>3, <1>6

\* The walk has the expected value after every turn.
LEMMA WalkExpected ==
  ASSUME NEW S, NEW s \in Seq(S), NEW e \in S, Len(s) # 0
  PROVE  \A k \in 0 .. Len(s) : Walk(Linked(s), e)[k] = Expected(s, e)[k]
<1> DEFINE n == Len(s)
           start == [mov |-> 1, node |-> Linked(s).node]
           Loop(f) == [k \in 0 .. n |-> IF k = 0 THEN start
                                                 ELSE Turn(f[k - 1], e)]
           g == Expected(s, e)
<1>0. n \in Nat \ {0}
  OBVIOUS
<1>1. g[0] = start
  BY <1>0 DEF Expected
<1>2. \A k \in 1 .. n : g[k] = Turn(g[k - 1], e)
  <2> TAKE k \in 1 .. n
  <2>1. CASE k < n
    <3>1. g[k - 1] = [mov |-> k, node |-> Linked(s).node]
      BY <2>1 DEF Expected
    <3>2. g[k] = [mov |-> k + 1, node |-> Linked(s).node]
      BY <2>1 DEF Expected
    <3> QED
      BY <2>1, <3>1, <3>2, TurnMoves
  <2>2. CASE k = n
    <3>1. g[k - 1] = [mov |-> n, node |-> Linked(s).node]
      BY <2>2 DEF Expected
    <3>2. g[k] = [mov |-> n, node |-> Linked(Append(s, e)).node]
      BY <2>2 DEF Expected
    <3> QED
      BY <3>1, <3>2, TurnAppends
  <2> QED
    BY <2>1, <2>2
<1>3. g = Loop(g)
  <2>1. g = [k \in 0 .. n |-> g[k]]
    BY DEF Expected
  <2>2. \A k \in 0 .. n : g[k] = IF k = 0 THEN start ELSE Turn(g[k - 1], e)
    BY <1>0, <1>1, <1>2
  <2> HIDE DEF g, n, start
  <2> QED
    BY <2>1, <2>2
<1>4. Walk(Linked(s), e) = CHOOSE f : f = Loop(f)
  BY DEF Walk, Linked
<1> DEFINE f == Walk(Linked(s), e)
<1>5. f = Loop(f)
  BY <1>3, <1>4
<1>6. f[0] = start /\ \A k \in 1 .. n : f[k] = Turn(f[k - 1], e)
  <2> HIDE DEF f, start
  <2> QED
    BY <1>0, <1>5
<1>7. \A k \in 0 .. n : f[k] = g[k]
  <2> HIDE DEF f, g, n, start
  <2> DEFINE E == {k \in 0 .. n : f[k] = g[k]}
  <2>1. n \in Nat /\ 0 \in E
    BY <1>0, <1>1, <1>6
  <2>2. \A k \in 1 .. n : k - 1 \in E => k \in E
    BY <1>0, <1>2, <1>6
  <2>3. \A k \in 0 .. n : k \in E
    <3> HIDE DEF E
    <3> QED
      BY <2>1, <2>2, EveryTurn
  <2> QED
    BY <2>3
<1> QED
  BY <1>7

\* An append to a list that holds s gives the list that holds s and e.
LEMMA AddedLinked ==
  ASSUME NEW S, NEW s \in Seq(S), NEW e \in S
  PROVE  Added(Linked(s), e) = Linked(Append(s, e))
<1> DEFINE L == Linked(s)
           A == Linked(Append(s, e))
<1>1. CASE Len(s) = 0
  <2>1. L.len = 0
    BY <1>1 DEF Linked
  <2>2. Added(L, e) = Single(e)
    BY <2>1 DEF Added
  <2>3. Append(s, e) = <<e>>
    BY <1>1
  <2>4. A.node = <<[elem |-> e, next |-> Nil]>>
    BY <2>3 DEF Linked
  <2>5. A = [node |-> A.node, head |-> 1, len |-> 1]
    BY <2>3 DEF Linked
  <2> QED
    BY <2>2, <2>4, <2>5, Zenon DEF Single
<1>2. CASE Len(s) # 0
  <2>1. /\ L = [node |-> L.node, head |-> 1, len |-> Len(s)]
        /\ Len(s) \in Nat \ {0}
    BY <1>2 DEF Linked
  <2>2. Walk(L, e)[Len(s)] = [mov |-> Len(s), node |-> A.node]
    <3>1. Walk(L, e)[Len(s)] = Expected(s, e)[Len(s)]
      BY <1>2, <2>1, WalkExpected
    <3>2. Expected(s, e)[Len(s)] = [mov |-> Len(s), node |-> A.node]
      BY <2>1 DEF Expected
    <3> QED
      BY <3>1, <3>2
  <2>3. A = [node |-> A.node, head |-> 1, len |-> Len(s) + 1]
    <3>0. Len(Append(s, e)) = Len(s) + 1
      OBVIOUS
    <3>1. Len(Append(s, e)) = Len(s) + 1 /\ Len(Append(s, e)) # 0
      BY <3>0
    <3> QED
      BY <3>1, Zenon DEF Linked
  <2> HIDE DEF L, A
  <2>4. Added(L, e) =
          [node |-> Walk(L, e)[Len(s)].node, head |-> 1, len |-> Len(s) + 1]
    <3> DEFINE W == Walk(L, e)[Len(s)].node
    <3>1. L.len = Len(s) /\ L.len # 0
      BY <2>1
    <3>2. Added(L, e) = [L EXCEPT !.node = Walk(L, e)[L.len].node,
                                  !.len = @ + 1]
      BY <3>1, Zenon DEF Added
    <3>3. Added(L, e) = [L EXCEPT !.node = W, !.len = @ + 1]
      BY <3>1, <3>2
    <3> HIDE DEF W
    <3>4. PICK N : L = [node |-> N, head |-> 1, len |-> Len(s)]
      BY <2>1, Zenon
    <3>5. Added(L, e) = [node |-> W, head |-> 1, len |-> Len(s) + 1]
      BY <3>3, <3>4
    <3> QED
      BY <3>5 DEF W
  <2>5. Walk(L, e)[Len(s)].node = A.node
    BY <2>2
  <2> QED
    BY <2>3, <2>4, <2>5, Zenon DEF L, A
<1> QED
  BY <1>1, <1>2

\* The loop of GetPlmnSupport and GetSliceSupport goes on one element per
\* turn.
LEMMA ReachedLinked ==
  ASSUME NEW S, NEW s \in Seq(S), NEW i \in 0 .. Len(s) - 1
  PROVE  Reached(Linked(s), i)[i] = i + 1
<1> DEFINE L == Linked(s)
           Loop(f) == [k \in 0 .. i |-> IF k = 0 THEN L.head
                                                 ELSE After(L, f[k - 1])]
           g == [k \in 0 .. i |-> k + 1]
<1>0. i \in Nat
  OBVIOUS
<1>1. g[0] = L.head
  BY DEF Linked
<1>2. \A k \in 1 .. i : After(L, k) = k + 1
  BY DEF After, Linked, Nil
<1> HIDE DEF L
<1>3. \A k \in 1 .. i : g[k] = After(L, g[k - 1])
  BY <1>2
<1>4. g = Loop(g)
  <2>1. g = [k \in 0 .. i |-> g[k]]
    OBVIOUS
  <2>2. \A k \in 0 .. i : g[k] = IF k = 0 THEN L.head ELSE After(L, g[k - 1])
    <3> HIDE DEF g
    <3> QED
      BY <1>0, <1>1, <1>3
  <2> HIDE DEF g
  <2> QED
    BY <2>1, <2>2
<1>5. Reached(L, i) = CHOOSE f : f = Loop(f)
  BY DEF Reached
<1> DEFINE f == Reached(L, i)
<1>6. f = Loop(f)
  BY <1>4, <1>5
<1>7. f[0] = L.head /\ \A k \in 1 .. i : f[k] = After(L, f[k - 1])
  <2> HIDE DEF f
  <2> QED
    BY <1>6
<1> HIDE DEF f
<1>8. \A k \in 0 .. i : f[k] = g[k]
  <2> HIDE DEF g
  <2> DEFINE E == {k \in 0 .. i : f[k] = g[k]}
  <2>1. 0 \in E
    BY <1>0, <1>1, <1>7
  <2>2. \A k \in 1 .. i : k - 1 \in E => k \in E
    BY <1>0, <1>3, <1>7
  <2>3. \A k \in 0 .. i : k \in E
    <3> HIDE DEF E
    <3> QED
      BY <1>0, <2>1, <2>2, EveryTurn
  <2> QED
    BY <2>3
<1> QED
  BY <1>8 DEF f, L

\* Reading a list that holds s by index gives s.
LEMMA SupportLinked ==
  ASSUME NEW S, NEW s \in Seq(S), NEW i \in 0 .. Len(s) - 1
  PROVE  GetSupport(Linked(s), i) = <<s[i + 1]>>
<1>1. Reached(Linked(s), i)[i] = i + 1 /\ i + 1 # Nil
  BY ReachedLinked DEF Nil
<1>2. Linked(s).node[i + 1].elem = s[i + 1]
  BY DEF Linked
<1> QED
  BY <1>1, <1>2, Zenon DEF GetSupport

-----------------------------------------------------------------------------
(***************************************************************************)
(* The theorems.                                                           *)
(***************************************************************************)

\* A list that holds a sequence is a list.
LEMMA LinkedType ==
  ASSUME NEW S, NEW s \in Seq(S)
  PROVE  Linked(s) \in List(S)
<1>1. Linked(s).node \in Seq([elem : S, next : Nat])
  BY DEF Linked, Nil
<1>2. Linked(s) = [node |-> Linked(s).node,
                   head |-> IF Len(s) = 0 THEN Nil ELSE 1,
                   len |-> Len(s)]
  BY DEF Linked
<1> QED
  BY <1>1, <1>2 DEF List, Nil

\* A bounded sequence is a sequence.
LEMMA UptoSeq ==
  ASSUME NEW S, NEW n \in Nat
  PROVE  Upto(S, n) \subseteq Seq(S)
BY DEF Upto

\* The rest of a bounded sequence is one.
LEMMA UptoTail ==
  ASSUME NEW S, NEW n \in Nat, NEW s \in Upto(S, n), s # <<>>
  PROVE  /\ Head(s) \in S
         /\ Tail(s) \in Upto(S, n)
<1>1. PICK k \in 0 .. n : s \in [1 .. k -> S]
  BY DEF Upto
<1>2. s \in Seq(S) /\ Len(s) = k /\ k # 0
  BY <1>1
<1>3. k - 1 \in 0 .. n
  BY <1>2
<1>4. Tail(s) \in Seq(S) /\ Len(Tail(s)) = k - 1
  BY <1>2
<1>5. Tail(s) \in [1 .. k - 1 -> S]
  <2> DEFINE t == Tail(s)
  <2>1. t \in Seq(S) /\ Len(t) = k - 1
    BY <1>4
  <2> HIDE DEF t
  <2>2. t \in [1 .. k - 1 -> S]
    BY <2>1
  <2> QED
    BY <2>2 DEF t
<1> QED
  BY <1>2, <1>3, <1>5 DEF Upto

\* Both lists start empty.
LEMMA InvInit == Init => TypeOK /\ IInv
<1> SUFFICES ASSUME Init PROVE TypeOK /\ IInv
  OBVIOUS
<1>1. told.plmns = <<>> /\ told.slices = <<>>
  BY DEF Init
<1>2. Linked(<<>>) = Empty
  BY DEF Linked, Empty
<1>3. Linked(<<>>) \in List(Network) /\ Linked(<<>>) \in List(Slices)
  <2>1. <<>> \in Seq(Network) /\ <<>> \in Seq(Slices)
    OBVIOUS
  <2> QED
    BY <2>1, LinkedType, Zenon
<1>4. TypeOK
  BY <1>2, <1>3, AmfAssumption DEF Init, TypeOK
<1> QED
  BY <1>1, <1>2, <1>4 DEF Init, IInv, NoNilSupport

\* A list that holds a sequence gives an element at every index.
LEMMA NothingMissing ==
  ASSUME NEW S, NEW s \in Seq(S), NEW i \in 0 .. Linked(s).len - 1
  PROVE  GetSupport(Linked(s), i) # Nothing
<1>1. Linked(s).len = Len(s)
  BY DEF Linked
<1>2. GetSupport(Linked(s), i) = <<s[i + 1]>>
  BY <1>1, SupportLinked
<1> QED
  BY <1>2 DEF Nothing

\* Every step keeps the types and the invariant.
LEMMA InvNext == TypeOK /\ IInv /\ [Next]_vars => TypeOK' /\ IInv'
<1> SUFFICES ASSUME TypeOK, IInv, [Next]_vars
             PROVE  TypeOK' /\ IInv'
  OBVIOUS
<1>0. /\ told \in [plmns : Seq(Network), slices : Seq(Slices)]
      /\ told.plmns \in Seq(Network) /\ told.slices \in Seq(Slices)
      /\ MaxItems \in Nat /\ MaxResponses \in Nat
      /\ todo \in Seq(Item)
  BY AmfAssumption DEF TypeOK
<1>1. CASE Receive
  <2>1. todo' \in Seq(Item)
    BY <1>0, <1>1, UptoSeq DEF Receive
  <2>2. nresp' \in 0 .. MaxResponses
    BY <1>0, <1>1 DEF Receive, TypeOK
  <2> QED
    BY <1>1, <2>1, <2>2 DEF Receive, TypeOK, IInv, NoNilSupport
<1>2. CASE AddedPlmn
  <2> DEFINE n == Head(todo).net
  <2>1. n \in Network /\ ConvertMccMnc(PlmnIdentity(n)) = n
    <3>1. Head(todo) \in Item
      BY <1>0, <1>2 DEF AddedPlmn
    <3>2. n \in Network
      BY <3>1, AmfAssumption DEF Item
    <3> QED
      BY <3>2, PlmnRoundTrip
  <2> DEFINE t == Append(told.plmns, n)
  <2>2. /\ plmns' = Added(plmns, n)
        /\ told' = [told EXCEPT !.plmns = t]
        /\ pc' = "slice" /\ todo # <<>>
        /\ UNCHANGED <<slices, todo, nresp>>
    BY <1>2, <2>1 DEF AddedPlmn
  <2>3. t \in Seq(Network) /\ plmns' = Linked(t)
    BY <1>0, <2>1, <2>2, AddedLinked DEF IInv
  <2> HIDE DEF t
  <2>4. told'.plmns = t /\ told'.slices = told.slices
    BY <1>0, <2>2
  <2>5. told' \in [plmns : Seq(Network), slices : Seq(Slices)]
    BY <1>0, <2>2, <2>3
  <2>6. plmns' \in List(Network)
    BY <2>3, LinkedType
  <2>7. TypeOK'
    BY <2>2, <2>5, <2>6 DEF TypeOK
  <2> QED
    BY <2>2, <2>3, <2>4, <2>7 DEF IInv, NoNilSupport
<1>3. CASE AddedSlice
  <2> DEFINE s == Head(todo).slices
  <2>1. /\ pc = "slice" /\ todo # <<>>
        /\ UNCHANGED <<plmns, nresp>>
    BY <1>3 DEF AddedSlice, IInv
  <2>2. Head(todo) \in Item /\ s \in Upto(Slices, MaxItems)
    <3>1. Head(todo) \in Item
      BY <1>0, <2>1
    <3> QED
      BY <3>1 DEF Item
  <2>3. CASE s # <<>>
    <3> DEFINE t == Append(told.slices, Head(s))
    <3>1. Head(s) \in Slices /\ Tail(s) \in Upto(Slices, MaxItems)
      BY <1>0, <2>2, <2>3, UptoTail
    <3>2. /\ slices' = Added(slices, Head(s))
          /\ told' = [told EXCEPT !.slices = t]
          /\ todo' = [todo EXCEPT ![1].slices = Tail(s)]
          /\ UNCHANGED pc
      BY <1>3, <2>3 DEF AddedSlice
    <3>3. t \in Seq(Slices) /\ slices' = Linked(t)
      BY <1>0, <3>1, <3>2, AddedLinked DEF IInv
    <3>4. todo' \in Seq(Item) /\ todo' # <<>>
      <4> DEFINE r == Tail(s)
      <4>1. r \in Upto(Slices, MaxItems) /\ Len(todo) # 0
        BY <1>0, <2>1, <3>1
      <4>2. todo' = [todo EXCEPT ![1].slices = r]
        BY <3>2
      <4> HIDE DEF r
      <4>3. todo' \in Seq(Item) /\ Len(todo') = Len(todo)
        <5>1. [todo[1] EXCEPT !.slices = r] \in Item
          <6>1. todo[1] \in Item
            BY <1>0, <4>1
          <6> QED
            BY <4>1, <6>1 DEF Item
        <5>2. todo' = [todo EXCEPT ![1] = [todo[1] EXCEPT !.slices = r]]
          BY <4>2
        <5> QED
          BY <1>0, <4>1, <5>1, <5>2
      <4> QED
        BY <4>1, <4>3
    <3> HIDE DEF t
    <3>5. told'.slices = t /\ told'.plmns = told.plmns
      BY <1>0, <3>2
    <3>6. told' \in [plmns : Seq(Network), slices : Seq(Slices)]
      BY <1>0, <3>2, <3>3
    <3>7. slices' \in List(Slices)
      BY <3>3, LinkedType
    <3>8. TypeOK'
      BY <2>1, <3>2, <3>4, <3>6, <3>7 DEF TypeOK
    <3> QED
      BY <2>1, <3>2, <3>3, <3>4, <3>5, <3>8 DEF IInv, NoNilSupport
  <2>4. CASE s = <<>>
    <3>1. todo' = Tail(todo) /\ pc' = "plmn" /\ UNCHANGED <<slices, told>>
      BY <1>3, <2>4 DEF AddedSlice
    <3>2. todo' \in Seq(Item)
      BY <1>0, <2>1, <3>1
    <3> QED
      BY <2>1, <3>1, <3>2 DEF TypeOK, IInv, NoNilSupport
  <2> QED
    BY <2>3, <2>4
<1>4. CASE Report
  <2>1. /\ \A i \in 0 .. plmns.len - 1 : GetSupport(plmns, i) # Nothing
        /\ \A i \in 0 .. slices.len - 1 : GetSupport(slices, i) # Nothing
    BY <1>0, NothingMissing DEF IInv
  <2>2. pc' = "idle" /\ UNCHANGED <<plmns, slices, todo, nresp, told>>
    BY <1>4, <2>1 DEF Report
  <2> QED
    BY <2>2 DEF TypeOK, IInv, NoNilSupport
<1>5. CASE UNCHANGED vars
  BY <1>5 DEF vars, TypeOK, IInv, NoNilSupport
<1> QED
  BY <1>1, <1>2, <1>3, <1>4, <1>5 DEF Next

\* The two linked lists hold what the AMF has told, element after element,
\* and their counters count them, however many NGSetupResponses append.
THEOREM Inductive == Spec => [](TypeOK /\ IInv)
BY InvInit, InvNext, PTL DEF Spec

\* The lists, what is left of a response and what was told have their types.
THEOREM TypeCorrect == Spec => []TypeOK
BY Inductive, PTL

\* Reading the lists by index up to their counters never dereferences nil.
THEOREM NeverNilSupport == Spec => []NoNilSupport
<1>1. IInv => NoNilSupport
  BY DEF IInv
<1> QED
  BY <1>1, Inductive, PTL

\* GetPlmnSupport and GetSliceSupport give back what the AMF has told, in
\* order and with its digits, for responses of any number and length.
THEOREM NothingLost == Spec => []SupportKept
<1>1. TypeOK /\ IInv => SupportKept
  <2> SUFFICES ASSUME TypeOK, IInv PROVE SupportKept
    OBVIOUS
  <2>1. ASSUME NEW S, NEW s \in Seq(S)
        PROVE  [i \in 1 .. Linked(s).len |-> GetSupport(Linked(s), i - 1)] =
                 [i \in 1 .. Len(s) |-> <<s[i]>>]
    <3>1. Linked(s).len = Len(s)
      BY DEF Linked
    <3>2. \A i \in 1 .. Len(s) : GetSupport(Linked(s), i - 1) = <<s[i]>>
      <4> TAKE i \in 1 .. Len(s)
      <4>1. i - 1 \in 0 .. Len(s) - 1 /\ (i - 1) + 1 = i
        OBVIOUS
      <4> QED
        BY <4>1, SupportLinked
    <3> QED
      BY <3>1, <3>2
  <2>2. told.plmns \in Seq(Network) /\ told.slices \in Seq(Slices)
    BY DEF TypeOK
  <2> QED
    BY <2>1, <2>2 DEF IInv, SupportKept
<1> QED
  BY <1>1, Inductive, PTL
=============================================================================
