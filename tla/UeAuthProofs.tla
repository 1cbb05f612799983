---------------------------- MODULE UeAuthProofs ----------------------------
(***************************************************************************)
(* Proofs about UeAuth: types, agreement on the key, no return to an older *)
(* key, and the effect of a resynchronisation.                             *)
(***************************************************************************)
EXTENDS UeAuth, TLAPS

\* Terms of the symbolic ciphers are equal only when their arguments are.
LEMMA Terms ==
  /\ \A r, s, x, y : Kamf(r, x) = Kamf(s, y) => r = s
  /\ \A r, x : Kamf(r, x) # NoKey
  /\ \A r, s : Success(r) = Success(s) => r = s
  /\ \A r, s, m, n : SyncFailure(r, m) = SyncFailure(s, n) => r = s /\ m = n
  /\ \A r, s, n : Success(r) # SyncFailure(s, n)
<1>1. \A r, s : CkIk(r) = CkIk(s) => r = s
  BY DEF CkIk, Operation
<1>2. \A r, s, x, y : Kamf(r, x) = Kamf(s, y) => r = s
  BY <1>1 DEF Kamf, KDF
<1>3. \A r, x : Kamf(r, x) # NoKey
  BY DEF Kamf, KDF, NoKey
<1>4. \A r, s : Success(r) = Success(s) => r = s
  BY <1>1 DEF Success, ResStar, KDF
<1>5. \A r, s, m, n : SyncFailure(r, m) = SyncFailure(s, n) => r = s /\ m = n
  BY DEF SyncFailure, Auts, F1
<1>6. \A r, s, n : Success(r) # SyncFailure(s, n)
  BY DEF Success, SyncFailure
<1> QED
  BY <1>2, <1>3, <1>4, <1>5, <1>6

\* A counter stays in its range; it grows unless it passes SQN_MAX.
LEMMA Counter ==
  ASSUME NEW n \in Sqns
  PROVE  /\ Inc(n) \in Sqns
         /\ n # SqnMax => Inc(n) = n + 1
         /\ \A m : Reset(m, n) \in Sqns
         /\ \A m : n + SqnInd <= SqnMax => Reset(m, n) = n + SqnInd
BY SqnAssumption DEF Inc, Reset, Sqns

\* The three outcomes of processAuthenticationInfo.
LEMMA Outcome ==
  ASSUME TypeOK, NEW rand \in 1 .. Len(vectors), UeChallenged(rand)
  PROVE  \/ UNCHANGED <<auth, answers, accepted>>
         \/ /\ auth.sqn > vectors[rand]
            /\ answers' = answers \cup {SyncFailure(rand, auth.sqn)}
            /\ UNCHANGED <<auth, accepted>>
         \/ /\ auth.sqn <= vectors[rand]
            /\ auth' = [sqn |-> vectors[rand], kamf |-> VectorKamf(rand)]
            /\ answers' = answers \cup {Success(rand)}
            /\ accepted' = rand
<1> DEFINE c(sqn) == [Challenge(rand, vectors[rand]) EXCEPT
                        !.sqnXorAk = <<sqn, Ak(rand)>>]
<1> PICK sqn \in Sqns :
      LET r == ProcessAuthenticationInfo(auth, c(sqn)) IN
      /\ auth' = r.auth
      /\ answers' = IF r.code = "MAC_FAILURE" THEN answers ELSE
                      answers \cup {[code |-> r.code, output |-> r.output]}
      /\ accepted' = IF r.code = "SUCCESS" THEN rand ELSE accepted
  BY DEF UeChallenged
<1> DEFINE r == ProcessAuthenticationInfo(auth, c(sqn))
<1>1. /\ c(sqn).rand = rand
      /\ c(sqn).sqnXorAk = <<sqn, Ak(rand)>>
      /\ c(sqn).mac = F1(rand, vectors[rand], Amf)
  BY DEF Challenge
<1>2. c(sqn).mac = F1(rand, sqn, Amf) <=> sqn = vectors[rand]
  BY <1>1 DEF F1
<1>3. auth.sqn \in Int /\ vectors[rand] \in Int
  BY SqnAssumption DEF TypeOK, Sqns
<1> HIDE DEF c
<1>4. CASE sqn # vectors[rand]
  <2>1. r = [code |-> "MAC_FAILURE", output |-> <<>>, auth |-> auth]
    BY <1>1, <1>2, <1>4 DEF ProcessAuthenticationInfo
  <2> QED
    BY <2>1
<1>5. CASE sqn = vectors[rand] /\ auth.sqn > sqn
  <2>1. r = [code |-> "SYNC_FAILURE", output |-> Auts(rand, auth.sqn),
             auth |-> auth]
    BY <1>1, <1>2, <1>3, <1>5 DEF ProcessAuthenticationInfo
  <2> QED
    BY <1>5, <2>1 DEF SyncFailure
<1>6. CASE sqn = vectors[rand] /\ auth.sqn <= sqn
  <2>1. r = [code |-> "SUCCESS", output |-> ResStar(rand),
             auth |-> [sqn |-> sqn, kamf |-> VectorKamf(rand)]]
    BY <1>1, <1>2, <1>3, <1>6 DEF ProcessAuthenticationInfo, VectorKamf
  <2> QED
    BY <1>6, <2>1 DEF Success
<1> QED
  BY <1>3, <1>4, <1>5, <1>6

-----------------------------------------------------------------------------
(***************************************************************************)
(* Types.                                                                  *)
(***************************************************************************)

\* A new vector leaves the earlier ones and their keys as they are.
LEMMA Drawn ==
  ASSUME TypeOK, Draw
  PROVE  /\ netSqn' \in Sqns
         /\ vectors' \in Seq(Sqns)
         /\ Len(vectors') = Len(vectors) + 1
         /\ vectors'[Len(vectors) + 1] = netSqn'
         /\ \A i \in 1 .. Len(vectors) :
              vectors'[i] = vectors[i] /\ VectorKamf(i)' = VectorKamf(i)
         /\ Keys \subseteq Keys'
<1>1. /\ netSqn' \in Sqns
      /\ vectors \in Seq(Sqns) /\ vectors' = Append(vectors, netSqn')
  BY Counter DEF TypeOK, Draw
<1>2. /\ vectors' \in Seq(Sqns)
      /\ Len(vectors') = Len(vectors) + 1
      /\ vectors'[Len(vectors) + 1] = netSqn'
      /\ \A i \in 1 .. Len(vectors) : vectors'[i] = vectors[i]
  BY <1>1
<1>3. \A i \in 1 .. Len(vectors) : VectorKamf(i)' = VectorKamf(i)
  BY <1>2 DEF VectorKamf
<1>4. Keys \subseteq Keys'
  BY <1>1, <1>2, <1>3 DEF Keys
<1> QED
  BY <1>1, <1>2, <1>3, <1>4

LEMMA StepType == TypeOK /\ [Next]_vars => TypeOK'
<1> SUFFICES ASSUME TypeOK, [Next]_vars
             PROVE  TypeOK'
  OBVIOUS
<1> USE SqnAssumption, BoundAssumption
<1>0. Len(vectors) \in Nat
  BY DEF TypeOK
<1>1. ASSUME Draw, lost' \in 0 .. MaxLost
      PROVE  TypeOK'
  <2>1. /\ Len(vectors) < MaxVectors
        /\ pending' = Len(vectors) + 1
        /\ UNCHANGED <<auth, answers, netKamf, accepted, resynced>>
    BY <1>1 DEF Draw
  <2>2. wrapped' \in BOOLEAN /\ resynced' \in BOOLEAN
    BY <1>1, Zenon DEF Draw, TypeOK
  <2>3. auth' \in [sqn : Sqns, kamf : Keys'] /\ netKamf' \in Keys'
    BY <1>1, <2>1, Drawn DEF TypeOK
  <2>4. accepted' \in 0 .. Len(vectors') /\ pending' \in 0 .. Len(vectors')
    BY <1>0, <1>1, <2>1, Drawn DEF TypeOK
  <2> QED
    BY <1>0, <1>1, <2>1, <2>2, <2>3, <2>4, Drawn DEF TypeOK, Answers
<1>2. ASSUME NEW rand \in 1 .. Len(vectors), UeChallenged(rand)
      PROVE  TypeOK'
  <2>1. UNCHANGED <<netSqn, vectors, pending, netKamf, lost, resynced, wrapped>>
    BY <1>2 DEF UeChallenged
  <2>2. VectorKamf(rand) \in Keys /\ Keys' = Keys /\ vectors[rand] \in Sqns
    <3>1. VectorKamf(rand) \in Keys
      BY DEF Keys
    <3>2. Keys' = Keys
      BY <2>1 DEF Keys, VectorKamf
    <3>3. vectors[rand] \in Sqns
      BY DEF TypeOK
    <3> QED
      BY <3>1, <3>2, <3>3
  <2>3. /\ Success(rand) \in Answers
        /\ SyncFailure(rand, auth.sqn) \in Answers
    BY <1>0 DEF Answers, TypeOK
  <2>4. Answers' = Answers
    BY DEF Answers
  <2> QED
    BY <1>0, <1>2, <2>1, <2>2, <2>3, <2>4, Outcome DEF TypeOK
<1>3. ASSUME NEW a \in answers, NetConfirms(a)
      PROVE  TypeOK'
  <2>1. pending \in 1 .. Len(vectors)
    BY <1>0, <1>3 DEF NetConfirms, TypeOK
  <2>2. VectorKamf(pending) \in Keys
    BY <2>1 DEF Keys
  <2>3. Keys' = Keys
    BY <1>3 DEF NetConfirms, Keys, VectorKamf
  <2> QED
    BY <1>0, <1>3, <2>2, <2>3 DEF NetConfirms, TypeOK, Answers
<1>4. ASSUME NEW a \in answers, NetResyncs(a)
      PROVE  TypeOK'
  <2>1. PICK r \in 1 .. MaxVectors, s \in Sqns : a = SyncFailure(r, s)
    BY <1>4 DEF NetResyncs, TypeOK, Answers, Success
  <2>2. netSqn' \in Sqns
    BY <1>4, <2>1, Counter DEF NetResyncs, SyncFailure, Auts
  <2>3. Keys' = Keys
    BY <1>4 DEF NetResyncs, Keys, VectorKamf
  <2>4. wrapped' \in BOOLEAN
    BY <1>4, Zenon DEF NetResyncs, TypeOK
  <2> QED
    BY <1>0, <1>4, <2>2, <2>3, <2>4 DEF NetResyncs, TypeOK, Answers
<1>5. CASE UNCHANGED vars
  <2>1. Keys' = Keys
    BY <1>5 DEF vars, Keys, VectorKamf
  <2> QED
    BY <1>5, <2>1 DEF vars, TypeOK, Answers
<1>6. CASE NetChallenge
  BY <1>1, <1>6 DEF NetChallenge, TypeOK
<1>7. CASE NetGivesUp
  BY <1>1, <1>7 DEF NetGivesUp, TypeOK
<1> QED
  BY <1>2, <1>3, <1>4, <1>5, <1>6, <1>7 DEF Next

-----------------------------------------------------------------------------
(***************************************************************************)
(* The invariant.                                                          *)
(***************************************************************************)

\* What a new vector does to the invariant.
LEMMA DrawInv ==
  ASSUME TypeOK, IInv, Draw
  PROVE  IInv'
<1> USE SqnAssumption, BoundAssumption
<1>0. /\ Len(vectors) \in Nat /\ accepted \in 0 .. Len(vectors)
      /\ \A i \in 1 .. Len(vectors) : vectors[i] \in Int
      /\ auth.sqn \in Int /\ netSqn \in Int
  BY DEF TypeOK, Sqns
<1>1. /\ pending' = Len(vectors')
      /\ UNCHANGED <<auth, answers, netKamf, accepted, resynced>>
  BY <1>0, Drawn DEF Draw
<1>2. Accepted'
  BY <1>0, <1>1, Drawn DEF IInv, Accepted
<1>3. ASSUME ~wrapped'
      PROVE  /\ Ordered' /\ Answered' /\ InSync'
             /\ \/ netKamf' = NoKey
                \/ \E r \in 1 .. accepted' : netKamf' = VectorKamf(r)'
  <2>1. ~wrapped /\ netSqn' = netSqn + 1
    BY <1>3, Counter DEF Draw, TypeOK
  <2>2. Ordered'
    <3>1. \A i \in 1 .. Len(vectors) :
            /\ vectors'[i] = vectors[i] /\ vectors[i] <= netSqn
            /\ \A j \in i + 1 .. Len(vectors) : vectors[i] < vectors[j]
      BY <2>1, Drawn DEF IInv, Ordered
    <3>2. /\ Len(vectors') = Len(vectors) + 1
          /\ vectors'[Len(vectors) + 1] = netSqn + 1
      BY <2>1, Drawn
    <3>3. ASSUME NEW i \in 1 .. Len(vectors')
          PROVE  vectors'[i] <= netSqn'
      BY <1>0, <2>1, <3>1, <3>2
    <3>4. ASSUME NEW i \in 1 .. Len(vectors'), NEW j \in i + 1 .. Len(vectors')
          PROVE  vectors'[i] < vectors'[j]
      <4>1. i \in 1 .. Len(vectors)
        BY <1>0, <3>2
      <4>2. CASE j = Len(vectors) + 1
        BY <1>0, <3>1, <3>2, <4>1, <4>2
      <4>3. CASE j \in i + 1 .. Len(vectors)
        BY <1>0, <3>1, <4>1, <4>3
      <4> QED
        BY <1>0, <3>2, <4>2, <4>3
    <3> QED
      BY <3>3, <3>4 DEF Ordered
  <2>3. Answered'
    BY <1>0, <1>1, <2>1, Drawn DEF IInv, Answered
  <2>4. InSync'
    BY <1>0, <1>1, <2>1 DEF IInv, InSync
  <2>5. \/ netKamf' = NoKey
        \/ \E r \in 1 .. accepted' : netKamf' = VectorKamf(r)'
    <3>1. CASE netKamf = NoKey
      BY <1>1, <3>1
    <3>2. CASE netKamf # NoKey
      <4> PICK r \in 1 .. accepted : netKamf = VectorKamf(r)
        BY <2>1, <3>2 DEF IInv
      <4> QED
        BY <1>0, <1>1, Drawn
    <3> QED
      BY <3>1, <3>2
  <2> QED
    BY <2>2, <2>3, <2>4, <2>5
<1> QED
  BY <1>1, <1>2, <1>3 DEF IInv

\* What an answer of the UE does to the invariant: an older challenge is not
\* accepted, and on the latest one the counters tell what was answered.
LEMMA UeInv ==
  ASSUME TypeOK, IInv, NEW rand \in 1 .. Len(vectors), UeChallenged(rand)
  PROVE  IInv' /\ (~wrapped => accepted' >= accepted)
<1> USE SqnAssumption, BoundAssumption
<1>0. /\ Len(vectors) \in Nat /\ accepted \in 0 .. Len(vectors)
      /\ \A i \in 1 .. Len(vectors) : vectors[i] \in Int
      /\ auth.sqn \in Int /\ netSqn \in Int
  BY DEF TypeOK, Sqns
<1>1. UNCHANGED <<netSqn, vectors, pending, netKamf, lost, resynced, wrapped>>
  BY DEF UeChallenged
<1>2. \A r : VectorKamf(r)' = VectorKamf(r)
  BY <1>1 DEF VectorKamf
<1>3. CASE UNCHANGED <<auth, answers, accepted>>
  BY <1>0, <1>1, <1>2, <1>3
     DEF IInv, Accepted, Ordered, Answered, InSync
<1>4. CASE /\ auth.sqn > vectors[rand]
           /\ answers' = answers \cup {SyncFailure(rand, auth.sqn)}
           /\ UNCHANGED <<auth, accepted>>
  <2>1. ~wrapped => Answered'
    BY <1>0, <1>1, <1>4, Terms DEF IInv, Answered
  <2> QED
    BY <1>0, <1>1, <1>2, <1>4, <2>1 DEF IInv, Accepted, Ordered, InSync
<1>5. CASE /\ auth.sqn <= vectors[rand]
           /\ auth' = [sqn |-> vectors[rand], kamf |-> VectorKamf(rand)]
           /\ answers' = answers \cup {Success(rand)}
           /\ accepted' = rand
  <2>1. auth'.sqn = vectors[rand] /\ auth'.kamf = VectorKamf(rand)
    BY <1>5
  <2>2. Accepted'
    BY <1>0, <1>1, <1>2, <1>5, <2>1 DEF Accepted
  <2>3. ASSUME ~wrapped
        PROVE  /\ accepted' >= accepted
               /\ Answered' /\ InSync'
               /\ \/ netKamf' = NoKey
                  \/ \E r \in 1 .. accepted' : netKamf' = VectorKamf(r)'
    <3>1. accepted' >= accepted
      BY <1>0, <1>5, <2>3 DEF IInv, Ordered, Accepted
    <3>2. InSync'
      BY <1>0, <1>1, <2>1, <2>3 DEF IInv, Ordered, InSync
    <3>3. ASSUME NEW r \in 1 .. MaxVectors
          PROVE  /\ Success(r) \in answers' => r <= accepted'
                 /\ \A s \in Sqns :
                      SyncFailure(r, s) \in answers' =>
                        /\ r <= Len(vectors) /\ vectors[r] < s
                        /\ r = Len(vectors) => s = auth'.sqn
      <4>1. Success(r) \in answers' => r <= accepted'
        BY <1>0, <1>5, <2>3, <3>1, Terms DEF IInv, Answered
      <4>2. ASSUME NEW s \in Sqns, SyncFailure(r, s) \in answers'
            PROVE  /\ r <= Len(vectors) /\ vectors[r] < s
                   /\ r = Len(vectors) => s = auth'.sqn
        <5>1. SyncFailure(r, s) \in answers
          BY <1>5, <4>2, Terms
        <5>2. /\ r <= Len(vectors) /\ vectors[r] < s
              /\ r = Len(vectors) => s = auth.sqn
          BY <2>3, <5>1 DEF IInv, Answered
        <5>3. r # Len(vectors)
          BY <1>0, <1>5, <2>3, <5>2 DEF IInv, Ordered, Sqns
        <5> QED
          BY <5>2, <5>3
      <4> QED
        BY <4>1, <4>2
    <3>4. Answered'
      BY <1>1, <3>3 DEF Answered
    <3>5. \/ netKamf' = NoKey
          \/ \E r \in 1 .. accepted' : netKamf' = VectorKamf(r)'
      BY <1>0, <1>1, <1>2, <1>5, <2>3, <3>1 DEF IInv
    <3> QED
      BY <3>1, <3>2, <3>4, <3>5
  <2>4. Ordered => Ordered'
    BY <1>1 DEF Ordered
  <2> QED
    BY <1>1, <2>2, <2>3, <2>4 DEF IInv
<1> QED
  BY <1>3, <1>4, <1>5, Outcome

LEMMA StepInv == TypeOK /\ IInv /\ [Next]_vars => IInv'
<1> SUFFICES ASSUME TypeOK, IInv, [Next]_vars
             PROVE  IInv'
  OBVIOUS
<1> USE SqnAssumption, BoundAssumption
<1>0. /\ Len(vectors) \in Nat /\ accepted \in 0 .. Len(vectors)
      /\ \A i \in 1 .. Len(vectors) : vectors[i] \in Int
      /\ auth.sqn \in Int /\ netSqn \in Int
  BY DEF TypeOK, Sqns
<1>1. CASE NetChallenge \/ NetGivesUp
  BY <1>1, DrawInv DEF NetChallenge, NetGivesUp
<1>2. ASSUME NEW rand \in 1 .. Len(vectors), UeChallenged(rand)
      PROVE  IInv'
  BY <1>2, UeInv
<1>3. ASSUME NEW a \in answers, NetConfirms(a)
      PROVE  IInv'
  <2>1. /\ pending' = 0 /\ netKamf' = VectorKamf(pending)
        /\ UNCHANGED <<auth, netSqn, vectors, answers, accepted, resynced,
                       wrapped>>
    BY <1>3 DEF NetConfirms
  <2>2. \A r : VectorKamf(r)' = VectorKamf(r)
    BY <2>1 DEF VectorKamf
  <2>3. pending \in 1 .. MaxVectors
    BY <1>0, <1>3 DEF NetConfirms, TypeOK
  <2>4. a = Success(pending)
    BY <1>3 DEF NetConfirms, TypeOK, Answers, Success, SyncFailure
  <2>5. ~wrapped => pending \in 1 .. accepted
    BY <1>0, <2>3, <2>4 DEF IInv, Answered
  <2> QED
    BY <2>1, <2>2, <2>5 DEF IInv, Accepted, Ordered, Answered, InSync
<1>4. ASSUME NEW a \in answers, NetResyncs(a)
      PROVE  IInv'
  <2>1. PICK r \in 1 .. MaxVectors, s \in Sqns : a = SyncFailure(r, s)
    BY <1>4 DEF NetResyncs, TypeOK, Answers, Success
  <2>2. /\ a.output = Auts(r, s) /\ a.output[1][1] = s
        /\ a.output[2] = F1(r, s, AmfSync)
    BY <2>1 DEF SyncFailure, Auts
  <2>3. r = pending
    BY <1>4, <2>2 DEF NetResyncs, ValidateAuts, F1
  <2>4. /\ pending' = 0
        /\ netSqn' = Reset(netSqn, s)
        /\ wrapped' = (wrapped \/ s + SqnInd > SqnMax)
        /\ UNCHANGED <<auth, vectors, answers, netKamf, accepted>>
    BY <1>4, <2>2 DEF NetResyncs
  <2>5. \A i : VectorKamf(i)' = VectorKamf(i)
    BY <2>4 DEF VectorKamf
  <2>6. ASSUME ~wrapped'
        PROVE  Ordered' /\ InSync'
    <3>1. ~wrapped /\ netSqn' = s + SqnInd
      <4>1. ~wrapped /\ ~(s + SqnInd > SqnMax)
        BY <2>4, <2>6, Zenon
      <4>2. s + SqnInd <= SqnMax
        BY <4>1 DEF Sqns
      <4> QED
        BY <2>4, <4>1, <4>2, Counter
    <3>2. r = Len(vectors) /\ s = auth.sqn /\ vectors[r] < s
      BY <1>4, <2>1, <2>3, <3>1 DEF IInv, Answered, NetResyncs
    <3>3. \A i \in 1 .. Len(vectors) : vectors[i] <= vectors[r]
      BY <1>0, <3>1, <3>2 DEF IInv, Ordered
    <3>4. Ordered'
      BY <1>0, <2>4, <3>1, <3>2, <3>3 DEF IInv, Ordered
    <3>5. InSync'
      BY <1>0, <2>4, <3>1, <3>2 DEF InSync
    <3> QED
      BY <3>4, <3>5
  <2> QED
    BY <2>4, <2>5, <2>6 DEF IInv, Accepted, Answered
<1>5. CASE UNCHANGED vars
  BY <1>5 DEF vars, IInv, Accepted, Ordered, Answered, InSync, VectorKamf
<1> QED
  BY <1>1, <1>2, <1>3, <1>4, <1>5 DEF Next

-----------------------------------------------------------------------------
\* The types and the invariant hold always.
THEOREM Inductive == Spec => [](TypeOK /\ IInv)
<1>1. Init => TypeOK
  <2> SUFFICES ASSUME Init
               PROVE  TypeOK
    OBVIOUS
  <2>1. vectors \in Seq(Sqns) /\ Len(vectors) = 0
    BY DEF Init
  <2>2. resynced \in BOOLEAN /\ wrapped \in BOOLEAN
    BY Zenon DEF Init
  <2>3. auth \in [sqn : Sqns, kamf : Keys]
    BY SqnAssumption DEF Init, Sqns, Keys
  <2> QED
    BY <2>1, <2>2, <2>3, SqnAssumption, BoundAssumption
       DEF Init, TypeOK, Sqns, Keys
<1>2. Init => IInv
  BY DEF Init, IInv, Accepted, Ordered, Answered, InSync
<1> QED
  BY <1>1, <1>2, StepType, StepInv, PTL DEF Spec

\* The counters, vectors and answers have their types; in particular no
\* counter leaves 0 .. SQN_MAX, near the limit or by reset.
THEOREM TypeCorrect == Spec => []TypeOK
BY Inductive, PTL

\* However challenges and answers are lost, repeated, reordered or altered,
\* the network and the UE agree on the key of the latest challenge once it is
\* confirmed.
THEOREM Agreement == Spec => []KeysAgree
<1>1. TypeOK /\ IInv => KeysAgree
  <2> SUFFICES ASSUME TypeOK, IInv, ~wrapped, netKamf # NoKey,
                      netKamf = VectorKamf(Len(vectors))
               PROVE  auth.kamf = netKamf
    BY DEF KeysAgree
  <2>1. PICK r \in 1 .. accepted : netKamf = VectorKamf(r)
    BY DEF IInv
  <2>2. r = Len(vectors)
    <3> DEFINE l == Len(vectors)
    <3>1. Kamf(r, <<vectors[r], Ak(r)>>) = Kamf(l, <<vectors[l], Ak(l)>>)
      BY <2>1 DEF VectorKamf
    <3> QED
      BY <3>1, Terms
  <2>3. accepted = Len(vectors) /\ accepted # 0
    BY <2>2 DEF TypeOK
  <2> QED
    BY <2>3 DEF IInv, Accepted
<1> QED
  BY <1>1, Inductive, PTL

\* The UE never returns to an earlier key.
THEOREM NoOlderKey == Spec => KeyNeverOlder
<1>1. TypeOK /\ IInv /\ [Next]_vars => [~wrapped => accepted' >= accepted]_vars
  <2> SUFFICES ASSUME TypeOK, IInv, Next, ~wrapped
               PROVE  accepted' >= accepted
    OBVIOUS
  <2>1. accepted \in Nat
    BY DEF TypeOK
  <2>2. CASE UNCHANGED accepted
    BY <2>1, <2>2
  <2>3. CASE \E r \in 1 .. Len(vectors) : UeChallenged(r)
    BY <2>3, UeInv
  <2> QED
    BY <2>2, <2>3 DEF Next, NetChallenge, NetGivesUp, Draw, NetConfirms,
                      NetResyncs
<1> QED
  BY <1>1, Inductive, PTL DEF Spec, KeyNeverOlder

\* After one reset the network is never behind the UE again.
THEOREM OneResync == Spec => []InSync
<1>1. IInv => InSync
  BY DEF IInv, InSync
<1> QED
  BY <1>1, Inductive, PTL
=============================================================================
