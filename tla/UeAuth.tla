------------------------------- MODULE UeAuth -------------------------------
(***************************************************************************)
(* Authentication and key agreement of a UE context (uecontext: sqn.go,    *)
(* milenage.go, auth.go, ueauth.go): AuthContext.processAuthenticationInfo *)
(* on the side of the UE, and the two operations of the same package that  *)
(* its peer needs, Sqn (the file says that it is taken from the UDM) and   *)
(* Milenage.ValidateAuts.                                                  *)
(*                                                                         *)
(* The network that calls them is external: it draws a vector, waits for   *)
(* the answer or gives the challenge up, and resets its counter on a valid *)
(* AUTS.  Challenges and answers may be lost, repeated, reordered and      *)
(* altered on the way.                                                     *)
(*                                                                         *)
(* The ciphers are symbolic: a function of the subscriber key is a tuple   *)
(* of its arguments, and x XOR k is the pair <<x, k>>.  The i-th vector of *)
(* the network has RAND i.                                                 *)
(***************************************************************************)
EXTENDS Integers, Sequences

CONSTANTS
  SqnMax,      \* SQN_MAX
  SqnInd,      \* SQN_IND
  UeSqns,      \* what the counter of the UE may be at the start
  NetSqns,     \* what the counter of the network may be at the start
  MaxVectors,  \* bound: vectors that the network draws
  MaxLost      \* bound: challenges that it gives up

ASSUME SqnAssumption ==
  /\ SqnMax \in Nat /\ SqnInd \in Nat \ {0}
  /\ UeSqns \subseteq 0 .. SqnMax
  /\ NetSqns \subseteq 0 .. SqnMax
ASSUME BoundAssumption == MaxVectors \in Nat /\ MaxLost \in Nat

VARIABLES
  auth,      \* AuthContext of the UE: sqn and kamf
  netSqn,    \* the Sqn of the network
  vectors,   \* the SQN of each vector drawn so far, by RAND
  pending,   \* RAND of the challenge that waits for an answer, or 0
  answers,   \* what the UE has answered
  netKamf,   \* the key that the network uses
  lost,      \* how many challenges the network has given up
  accepted,  \* history: RAND of the last challenge that the UE accepted
  resynced,  \* history: the network has reset its counter
  wrapped    \* history: its counter has passed SQN_MAX

vars == <<auth, netSqn, vectors, pending, answers, netKamf, lost, accepted,
          resynced, wrapped>>

Sqns == 0 .. SqnMax

-----------------------------------------------------------------------------
(***************************************************************************)
(* Sqn.                                                                    *)
(***************************************************************************)

\* Mutant: no wrap-around.
IncUnbounded(n) == n + 1

Inc(n) == IF n + 1 > SqnMax THEN 0 ELSE n + 1

\* Mutant: the counter of the UE is not taken over.
ResetForgets(n, sqn) == Inc(n + SqnInd - 1)

\* reset of a counter n.
Reset(n, sqn) == Inc(sqn + SqnInd - 1)

-----------------------------------------------------------------------------
(***************************************************************************)
(* Milenage, for a RAND, and the key derivation functions.                 *)
(***************************************************************************)
F1(rand, sqn, amf) == <<"f1", rand, sqn, amf>>

\* operation: F2F5, F3, F4 and F5star differ in rotation and constant.
Operation(rand, rot, v) == <<"f", rand, rot, v>>

Res(rand) == <<"res", Operation(rand, 0, 1)>>
Ak(rand) == <<"ak", Operation(rand, 0, 1)>>
CkIk(rand) == <<Operation(rand, 12, 2), Operation(rand, 8, 4)>>
AkStar(rand) == <<"ak", Operation(rand, 4, 8)>>

KDF(key, fc, params) == <<fc, key, params>>

NoKey == <<>>

\* KAUSF, KSEAF and KAMF of a challenge, one from the other.
Kamf(rand, sqnXorAk) ==
  LET kAusf == KDF(CkIk(rand), "6A", <<"snn", sqnXorAk>>)
      kSeaf == KDF(kAusf, "6C", <<"snn">>)
  IN  KDF(kSeaf, "6D", <<"supi", "abba">>)

\* ResstarXresstar: the UE and the network compute the same.
ResStar(rand) == KDF(CkIk(rand), "6B", <<"snn", rand, Res(rand)>>)

Amf == 32768     \* the AMF of the subscription
AmfSync == 0     \* the AMF of a resynchronisation

\* A challenge as the network sends it.
Challenge(rand, sqn) ==
  [rand |-> rand, sqnXorAk |-> <<sqn, Ak(rand)>>, mac |-> F1(rand, sqn, Amf)]

Auts(rand, sqn) == <<<<sqn, AkStar(rand)>>, F1(rand, sqn, AmfSync)>>

\* ValidateAuts: does the AUTS belong to this RAND?  The SQN that is XORed
\* out under another key has another MAC.
ValidateAuts(auts, rand) ==
  /\ auts[1][2] = AkStar(rand)
  /\ auts[2] = F1(rand, auts[1][1], AmfSync)

-----------------------------------------------------------------------------
(***************************************************************************)
(* processAuthenticationInfo: what it returns, and the AuthContext after.  *)
(***************************************************************************)

\* Mutant: any SQN is good.
ProcessAuthenticationInfoReplay(a, c) ==
  LET sqn == c.sqnXorAk[1] IN
  IF c.mac # F1(c.rand, sqn, Amf)
    THEN [code |-> "MAC_FAILURE", output |-> <<>>, auth |-> a]
    ELSE [code |-> "SUCCESS", output |-> ResStar(c.rand),
          auth |-> [sqn |-> sqn, kamf |-> Kamf(c.rand, c.sqnXorAk)]]

\* Mutant: the AUTS carries the counter of the network.
ProcessAuthenticationInfoNetSqn(a, c) ==
  LET sqn == c.sqnXorAk[1] IN
  CASE c.mac # F1(c.rand, sqn, Amf) ->
         [code |-> "MAC_FAILURE", output |-> <<>>, auth |-> a]
    [] a.sqn > sqn ->
         [code |-> "SYNC_FAILURE", output |-> Auts(c.rand, sqn), auth |-> a]
    [] OTHER ->
         [code |-> "SUCCESS", output |-> ResStar(c.rand),
          auth |-> [sqn |-> sqn, kamf |-> Kamf(c.rand, c.sqnXorAk)]]

\* The MAC first, under the AMF of the UE and not the one received; then the
\* SQN, where an equal one is accepted.
ProcessAuthenticationInfo(a, c) ==
  LET sqn == c.sqnXorAk[1] IN
  CASE c.mac # F1(c.rand, sqn, Amf) ->
         [code |-> "MAC_FAILURE", output |-> <<>>, auth |-> a]
    [] c.mac = F1(c.rand, sqn, Amf) /\ a.sqn > sqn ->
         [code |-> "SYNC_FAILURE", output |-> Auts(c.rand, a.sqn), auth |-> a]
    [] c.mac = F1(c.rand, sqn, Amf) /\ a.sqn <= sqn ->
         [code |-> "SUCCESS", output |-> ResStar(c.rand),
          auth |-> [sqn |-> sqn, kamf |-> Kamf(c.rand, c.sqnXorAk)]]

-----------------------------------------------------------------------------
\* The key of a vector that the network has drawn.
VectorKamf(rand) == Kamf(rand, <<vectors[rand], Ak(rand)>>)

Keys == {NoKey} \cup {VectorKamf(r) : r \in 1 .. Len(vectors)}

Success(rand) == [code |-> "SUCCESS", output |-> ResStar(rand)]
SyncFailure(rand, sqn) == [code |-> "SYNC_FAILURE", output |-> Auts(rand, sqn)]

Answers ==
  {Success(r) : r \in 1 .. MaxVectors} \cup
  {SyncFailure(r, s) : r \in 1 .. MaxVectors, s \in Sqns}

TypeOK ==
  /\ auth \in [sqn : Sqns, kamf : Keys]
  /\ netSqn \in Sqns
  /\ vectors \in Seq(Sqns) /\ Len(vectors) <= MaxVectors
  /\ pending \in 0 .. Len(vectors)
  /\ answers \subseteq Answers
  /\ netKamf \in Keys
  /\ lost \in 0 .. MaxLost
  /\ accepted \in 0 .. Len(vectors)
  /\ resynced \in BOOLEAN
  /\ wrapped \in BOOLEAN

Init ==
  /\ auth \in [sqn : UeSqns, kamf : {NoKey}]
  /\ netSqn \in NetSqns
  /\ vectors = <<>>
  /\ pending = 0
  /\ answers = {}
  /\ netKamf = NoKey
  /\ lost = 0
  /\ accepted = 0
  /\ resynced = FALSE
  /\ wrapped = FALSE

\* The network (external) draws a vector: Refresh, Inc, F1, ...
Draw ==
  /\ Len(vectors) < MaxVectors
  /\ netSqn' = Inc(netSqn)
  /\ vectors' = Append(vectors, netSqn')
  /\ pending' = Len(vectors) + 1
  /\ wrapped' = (wrapped \/ netSqn = SqnMax)
  /\ UNCHANGED <<auth, answers, netKamf, accepted, resynced>>

\* ... when no challenge waits for an answer, or for want of an answer.
NetChallenge == pending = 0 /\ Draw /\ UNCHANGED lost

NetGivesUp == pending # 0 /\ lost < MaxLost /\ lost' = lost + 1 /\ Draw

\* A challenge reaches the UE, the latest one or an earlier one, as it was
\* sent or with another SQN in it.  The UE sets RAND, processes the
\* challenge and answers; a MAC failure changes nothing for the network.
UeChallenged(rand) ==
  \E sqn \in Sqns :
    LET c == [Challenge(rand, vectors[rand]) EXCEPT
                !.sqnXorAk = <<sqn, Ak(rand)>>]
        r == ProcessAuthenticationInfo(auth, c)
    IN  /\ auth' = r.auth
        /\ answers' = IF r.code = "MAC_FAILURE" THEN answers ELSE
                        answers \cup {[code |-> r.code, output |-> r.output]}
        /\ accepted' = IF r.code = "SUCCESS" THEN rand ELSE accepted
        /\ UNCHANGED <<netSqn, vectors, pending, netKamf, lost, resynced,
                       wrapped>>

\* The network gets RES*: the UE is authenticated.
NetConfirms(a) ==
  /\ pending # 0
  /\ a.code = "SUCCESS" /\ a.output = ResStar(pending)
  /\ netKamf' = VectorKamf(pending)
  /\ pending' = 0
  /\ UNCHANGED <<auth, netSqn, vectors, answers, lost, accepted, resynced,
                 wrapped>>

\* The network gets AUTS.
NetResyncs(a) ==
  /\ pending # 0
  /\ a.code = "SYNC_FAILURE" /\ ValidateAuts(a.output, pending)
  /\ netSqn' = Reset(netSqn, a.output[1][1])
  /\ pending' = 0
  /\ resynced' = TRUE
  /\ wrapped' = (wrapped \/ a.output[1][1] + SqnInd > SqnMax)
  /\ UNCHANGED <<auth, vectors, answers, netKamf, lost, accepted>>

Next ==
  \/ NetChallenge
  \/ NetGivesUp
  \/ \E r \in 1 .. Len(vectors) : UeChallenged(r)
  \/ \E a \in answers : NetConfirms(a) \/ NetResyncs(a)

Spec == Init /\ [][Next]_vars

\* The network goes on until a challenge is confirmed; the latest challenge
\* and the answer to it get through unless the network gives the challenge
\* up first.
Fairness ==
  /\ WF_vars(NetChallenge /\ netKamf = NoKey)
  /\ WF_vars(pending # 0 /\ UeChallenged(pending) /\ answers' # answers)
  /\ WF_vars(\E a \in answers : NetConfirms(a) \/ NetResyncs(a))

FairSpec == Spec /\ Fairness

-----------------------------------------------------------------------------
(***************************************************************************)
(* Properties.                                                             *)
(***************************************************************************)

\* The network and the UE use the same key when no challenge is under way:
\* no late or repeated challenge makes the UE derive another one.
KeysAgree ==
  ~wrapped /\ netKamf # NoKey /\ netKamf = VectorKamf(Len(vectors)) =>
    auth.kamf = netKamf

\* The UE never goes back to the key of an earlier challenge, although an
\* equal SQN is accepted and the counter of the network moves by reset.
KeyNeverOlder == [][~wrapped => accepted' >= accepted]_vars

\* One resynchronisation is enough: from then on the counter of the network
\* is not behind that of the UE, even if an earlier challenge is accepted
\* after the AUTS.  Past SQN_MAX this is lost: reset goes to 0.
InSync == resynced /\ ~wrapped => netSqn >= auth.sqn

\* Whatever the counters were, the UE is authenticated after at most one
\* resynchronisation: two vectors are enough, and one more for each that is
\* given up.  A counter that has passed SQN_MAX is the exception: each reset
\* then goes to 0, behind the UE.
Authenticates == <>(netKamf # NoKey \/ wrapped)
-----------------------------------------------------------------------------
(***************************************************************************)
(* The inductive invariant: what the UE has accepted and answered, and, as *)
(* long as the counter has not wrapped around, the order of the vectors.   *)
(***************************************************************************)
Accepted ==
  IF accepted = 0
    THEN auth.kamf = NoKey
    ELSE auth.kamf = VectorKamf(accepted) /\ auth.sqn = vectors[accepted]

Ordered ==
  \A i \in 1 .. Len(vectors) :
    /\ vectors[i] <= netSqn
    /\ \A j \in i + 1 .. Len(vectors) : vectors[i] < vectors[j]

\* A UE that has asked for a resynchronisation on the latest challenge has
\* kept its counter since.
Answered ==
  \A r \in 1 .. MaxVectors :
    /\ Success(r) \in answers => r <= accepted
    /\ \A s \in Sqns :
         SyncFailure(r, s) \in answers =>
           /\ r <= Len(vectors) /\ vectors[r] < s
           /\ r = Len(vectors) => s = auth.sqn

IInv ==
  /\ pending # 0 => pending = Len(vectors)
  /\ Accepted
  /\ ~wrapped => /\ Ordered
                 /\ Answered
                 /\ \/ netKamf = NoKey
                    \/ \E r \in 1 .. accepted : netKamf = VectorKamf(r)
                 /\ InSync
=============================================================================
