-------------------------------- MODULE Plmn --------------------------------
(***************************************************************************)
(* The identity of a network: MCC and MNC as digits in the configuration   *)
(* (ControlInfo) and in the contexts, three octets on F1 and NG.  An octet *)
(* string is the sequence of its half octets in the order of its           *)
(* hexadecimal form, the one the code builds and takes apart.              *)
(***************************************************************************)
EXTENDS Integers, Sequences

Digit == 0 .. 9
Filler == 15

Network == [mcc : [1 .. 3 -> Digit], mnc : [1 .. 2 -> Digit] \cup
                                           [1 .. 3 -> Digit]]

\* PLMN Identity as the peers (external) send it: the digits of the MCC, a
\* filler before an MNC of two digits, the MNC; the first digit of each
\* octet in its lower half.
PlmnIdentity(net) ==
  LET mcc == net.mcc
      mnc == net.mnc
      digit == IF Len(mnc) = 2
                 THEN <<mcc[1], mcc[2], mcc[3], Filler, mnc[1], mnc[2]>>
                 ELSE <<mcc[1], mcc[2], mcc[3], mnc[1], mnc[2], mnc[3]>>
  IN  <<digit[2], digit[1], digit[4], digit[3], digit[6], digit[5]>>

reverse(s) == [i \in 1 .. Len(s) |-> s[Len(s) + 1 - i]]

GetMccAndMncInOctets(net) ==
  LET mcc == reverse(net.mcc)
      mnc == reverse(net.mnc)
  IN  IF Len(mnc) = 2
        THEN <<mcc[2], mcc[3], Filler, mcc[1], mnc[1], mnc[2]>>
        ELSE <<mcc[2], mcc[3], mnc[3], mcc[1], mnc[1], mnc[2]>>

\* Mutant: the filler is taken for a digit.
ConvertMccMncFiller(plmn) ==
  [mcc |-> <<plmn[2], plmn[1], plmn[4]>>,
   mnc |-> <<plmn[3], plmn[6], plmn[5]>>]

\* ConvertMccMnc of amfcontext and convertMccMnc of uecontext.
ConvertMccMnc(plmn) ==
  [mcc |-> <<plmn[2], plmn[1], plmn[4]>>,
   mnc |-> IF plmn[3] = Filler THEN <<plmn[6], plmn[5]>>
                               ELSE <<plmn[3], plmn[6], plmn[5]>>]

\* Mutant: one octet too few is compared.
plmnMatchesShort(plmn1, plmn2) ==
  Len(plmn1) = 6 /\ Len(plmn2) = 6 /\ \A i \in 1 .. 4 : plmn1[i] = plmn2[i]

plmnMatches(plmn1, plmn2) ==
  Len(plmn1) = 6 /\ Len(plmn2) = 6 /\ \A i \in 1 .. 6 : plmn1[i] = plmn2[i]
=============================================================================
