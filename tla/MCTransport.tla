----------------------------- MODULE MCTransport -----------------------------
(* Instances of Transport for TLC, with the sizes of the program: reports of  *)
(* 64 bytes hold 57 and then 59 bytes of data, an APDU holds 255.             *)
EXTENDS Transport, Derivation

(* The path for a digest in which each byte is another, below and above 128.   *)
BIP32Path == GetPathBIP32([i \in 1..32 |-> (40 * i) % 256])

ChallengeOf(n) == [i \in 1..n |-> (7 * i) % 256]

(* A client's challenge that fits in one APDU exactly, one byte more, one     *)
(* that fills a second APDU exactly, one byte more.                         *)
AllChallenges == {ChallengeOf(n) : n \in {0, 1, 32, 233, 234, 235, 489, 490}}
TwoChallenges == {ChallengeOf(n) : n \in {1, 235}}

(* Data of n bytes, each of them another.                                    *)
Filled(n, f) == [i \in 1..n |-> (f + i) % 256]

TwoKeys == {Filled(66, 70), Filled(66, 100)}

(* A signature that comes to n bytes.                                        *)
SignatureOf(n) == <<Filled((n - 6) \div 2, 100), Filled(n - 6 - (n - 6) \div 2, 120)>>

(* With the status word these are one byte around every limit: a full first   *)
(* report (57), a full second one (116), and the 121 bytes up to which the    *)
(* size check of UnwrapApdu takes two reports to be enough; 70 to 72 are the  *)
(* usual lengths of a signature.                                            *)
AllSignatures ==
  {SignatureOf(n) : n \in {6, 54, 55, 56, 70, 71, 72, 113, 114, 115, 118, 119, 120}}
OneSignature == {SignatureOf(70)}

(* As a key these are too short, too long, or by chance as long as one.  As a    *)
(* signature they are too short for the length of r, for r, or for s, or one    *)
(* with a byte behind it.                                                   *)
AllGarbage ==
  {Filled(1, 70), Filled(66, 200), SubSeq(DER(SignatureOf(70)), 1, 40), SubSeq(DER(SignatureOf(70)), 1, 69),
   DER(SignatureOf(119)) \o <<1>>}

(* 0x6985, the user refuses; 0x6110 and 0x6C08, which are no errors of a key.    *)
AllErrors == {27013, 24848, 27656}
=============================================================================
