----------------------------- MODULE PlmnProofs -----------------------------
(***************************************************************************)
(* Proofs about the conversions and the comparison of PLMN identities, for *)
(* all digits.                                                             *)
(***************************************************************************)
EXTENDS Plmn, TLAPS

\* A network is a record of digits: an MCC of three, an MNC of two or three.
Short(n, c1, c2, c3, n1, n2) ==
  /\ {c1, c2, c3, n1, n2} \subseteq Digit
  /\ n = [mcc |-> <<c1, c2, c3>>, mnc |-> <<n1, n2>>]

Long(n, c1, c2, c3, n1, n2, n3) ==
  /\ {c1, c2, c3, n1, n2, n3} \subseteq Digit
  /\ n = [mcc |-> <<c1, c2, c3>>, mnc |-> <<n1, n2, n3>>]

LEMMA Digits ==
  ASSUME NEW n \in Network
  PROVE  \/ \E c1, c2, c3, n1, n2 : Short(n, c1, c2, c3, n1, n2)
         \/ \E c1, c2, c3, n1, n2, n3 : Long(n, c1, c2, c3, n1, n2, n3)
<1> DEFINE c == n.mcc
           m == n.mnc
<1>1. /\ n = [mcc |-> c, mnc |-> m]
      /\ c = <<c[1], c[2], c[3]>>
      /\ {c[1], c[2], c[3]} \subseteq Digit
      /\ m \in [1 .. 2 -> Digit] \/ m \in [1 .. 3 -> Digit]
  BY DEF Network
<1>2. CASE m \in [1 .. 2 -> Digit]
  <2>1. m = <<m[1], m[2]>> /\ {m[1], m[2]} \subseteq Digit
    BY <1>2
  <2>2. Short(n, c[1], c[2], c[3], m[1], m[2])
    BY <1>1, <2>1, Zenon DEF Short
  <2> QED
    BY <2>2
<1>3. CASE m \in [1 .. 3 -> Digit]
  <2>1. m = <<m[1], m[2], m[3]>> /\ {m[1], m[2], m[3]} \subseteq Digit
    BY <1>3
  <2>2. Long(n, c[1], c[2], c[3], m[1], m[2], m[3])
    BY <1>1, <2>1, Zenon DEF Long
  <2> QED
    BY <2>2
<1> QED
  BY <1>1, <1>2, <1>3

\* Reversed sequences of two and of three digits.
LEMMA Reversed ==
  /\ \A a, b :
       /\ Len(reverse(<<a, b>>)) = 2
       /\ reverse(<<a, b>>)[1] = b /\ reverse(<<a, b>>)[2] = a
  /\ \A a, b, c :
       /\ Len(reverse(<<a, b, c>>)) = 3
       /\ reverse(<<a, b, c>>)[1] = c
       /\ reverse(<<a, b, c>>)[2] = b
       /\ reverse(<<a, b, c>>)[3] = a
<1>1. ASSUME NEW a, NEW b
      PROVE  /\ Len(reverse(<<a, b>>)) = 2
             /\ reverse(<<a, b>>)[1] = b /\ reverse(<<a, b>>)[2] = a
  <2>1. reverse(<<a, b>>) = [i \in 1 .. 2 |-> <<a, b>>[3 - i]]
    BY DEF reverse
  <2> QED
    BY <2>1
<1>2. ASSUME NEW a, NEW b, NEW c
      PROVE  /\ Len(reverse(<<a, b, c>>)) = 3
             /\ reverse(<<a, b, c>>)[1] = c
             /\ reverse(<<a, b, c>>)[2] = b
             /\ reverse(<<a, b, c>>)[3] = a
  <2>1. reverse(<<a, b, c>>) = [i \in 1 .. 3 |-> <<a, b, c>>[4 - i]]
    BY DEF reverse
  <2> QED
    BY <2>1
<1> QED
  BY <1>1, <1>2

\* The octets that the CU-CP computes are those that its peers send.
LEMMA ShortOctets ==
  ASSUME NEW n, NEW c1, NEW c2, NEW c3, NEW n1, NEW n2,
         Short(n, c1, c2, c3, n1, n2)
  PROVE  /\ GetMccAndMncInOctets(n) = <<c2, c1, Filler, c3, n2, n1>>
         /\ PlmnIdentity(n) = <<c2, c1, Filler, c3, n2, n1>>
         /\ ConvertMccMnc(PlmnIdentity(n)) = n
<1>1. n.mcc = <<c1, c2, c3>> /\ n.mnc = <<n1, n2>> /\ Len(n.mnc) = 2
  BY DEF Short
<1>2. PlmnIdentity(n) = <<c2, c1, Filler, c3, n2, n1>>
  BY <1>1 DEF PlmnIdentity
<1>3. GetMccAndMncInOctets(n) = <<c2, c1, Filler, c3, n2, n1>>
  <2> DEFINE c == reverse(n.mcc)
             d == reverse(n.mnc)
  <2>1. c[1] = c3 /\ c[2] = c2 /\ c[3] = c1
    BY <1>1, Reversed
  <2>2. Len(d) = 2 /\ d[1] = n2 /\ d[2] = n1
    BY <1>1, Reversed
  <2> HIDE DEF c, d
  <2>3. GetMccAndMncInOctets(n) = <<c[2], c[3], Filler, c[1], d[1], d[2]>>
    BY <2>2 DEF GetMccAndMncInOctets, c, d
  <2> QED
    BY <2>1, <2>2, <2>3
<1>4. ConvertMccMnc(PlmnIdentity(n)) = n
  BY <1>2 DEF ConvertMccMnc, Short
<1> QED
  BY <1>2, <1>3, <1>4

LEMMA LongOctets ==
  ASSUME NEW n, NEW c1, NEW c2, NEW c3, NEW n1, NEW n2, NEW n3,
         Long(n, c1, c2, c3, n1, n2, n3)
  PROVE  /\ GetMccAndMncInOctets(n) = <<c2, c1, n1, c3, n3, n2>>
         /\ PlmnIdentity(n) = <<c2, c1, n1, c3, n3, n2>>
         /\ ConvertMccMnc(PlmnIdentity(n)) = n
<1>1. n.mcc = <<c1, c2, c3>> /\ n.mnc = <<n1, n2, n3>> /\ Len(n.mnc) = 3
  BY DEF Long
<1>2. PlmnIdentity(n) = <<c2, c1, n1, c3, n3, n2>>
  BY <1>1 DEF PlmnIdentity
<1>3. GetMccAndMncInOctets(n) = <<c2, c1, n1, c3, n3, n2>>
  <2> DEFINE c == reverse(n.mcc)
             d == reverse(n.mnc)
  <2>1. c[1] = c3 /\ c[2] = c2 /\ c[3] = c1
    BY <1>1, Reversed
  <2>2. Len(d) = 3 /\ d[1] = n3 /\ d[2] = n2 /\ d[3] = n1
    BY <1>1, Reversed
  <2> HIDE DEF c, d
  <2>3. GetMccAndMncInOctets(n) = <<c[2], c[3], d[3], c[1], d[1], d[2]>>
    BY <2>2 DEF GetMccAndMncInOctets, c, d
  <2> QED
    BY <2>1, <2>2, <2>3
<1>4. n1 # Filler
  BY DEF Long, Digit, Filler
<1>5. ConvertMccMnc(PlmnIdentity(n)) = n
  BY <1>2, <1>4 DEF ConvertMccMnc, Long
<1> QED
  BY <1>2, <1>3, <1>5

\* Six half octets, the same for the CU-CP and for its peers, that stand for
\* one network only.
LEMMA Octets ==
  ASSUME NEW n \in Network
  PROVE  /\ GetMccAndMncInOctets(n) = PlmnIdentity(n)
         /\ ConvertMccMnc(PlmnIdentity(n)) = n
         /\ \E a, b, c, d, e, f : PlmnIdentity(n) = <<a, b, c, d, e, f>>
<1>1. CASE \E c1, c2, c3, n1, n2 : Short(n, c1, c2, c3, n1, n2)
  <2>1. PICK c1, c2, c3, n1, n2 : Short(n, c1, c2, c3, n1, n2)
    BY <1>1
  <2> QED
    BY <2>1, ShortOctets
<1>2. CASE \E c1, c2, c3, n1, n2, n3 : Long(n, c1, c2, c3, n1, n2, n3)
  <2>1. PICK c1, c2, c3, n1, n2, n3 : Long(n, c1, c2, c3, n1, n2, n3)
    BY <1>2
  <2> QED
    BY <2>1, LongOctets
<1> QED
  BY <1>1, <1>2, Digits

\* What the contexts of the AMF and of a UE keep of a PLMN Identity is the
\* network that was meant, whatever its digits.
THEOREM PlmnRoundTrip ==
  \A n \in Network : /\ ConvertMccMnc(PlmnIdentity(n)) = n
                      /\ ConvertMccMnc(GetMccAndMncInOctets(n)) = n
BY Octets

\* plmnMatches on octets compares networks.
LEMMA Matches ==
  ASSUME NEW n \in Network, NEW k \in Network
  PROVE  plmnMatches(PlmnIdentity(n), GetMccAndMncInOctets(k)) <=> n = k
<1> DEFINE p == PlmnIdentity(n)
           q == PlmnIdentity(k)
<1>1. PICK a, b, c, d, e, f : p = <<a, b, c, d, e, f>>
  BY Octets
<1>2. PICK u, v, w, x, y, z : q = <<u, v, w, x, y, z>>
  BY Octets
<1>3. plmnMatches(<<a, b, c, d, e, f>>, <<u, v, w, x, y, z>>) <=>
        a = u /\ b = v /\ c = w /\ d = x /\ e = y /\ f = z
  BY DEF plmnMatches
<1>4. plmnMatches(p, q) <=> p = q
  BY <1>1, <1>2, <1>3
<1>5. p = q <=> n = k
  BY PlmnRoundTrip
<1> QED
  BY <1>4, <1>5, Octets
=============================================================================
