----------------------------- MODULE MCRequests -----------------------------
(* Instances of Requests for TLC.  A coordinate has two bytes and a name one,   *)
(* so that a key blob has 19 bytes for nistp256 and 11 for ed25519.           *)
EXTENDS Requests

CONSTANTS c1, c2

(* The second point has a zero in front of x, the third one behind it.        *)
P1 == [x |-> <<17, 34>>, y |-> <<51, 69>>]
P2 == [x |-> <<0, 35>>,  y |-> <<52, 68>>]
P3 == [x |-> <<5, 0>>,   y |-> <<53, 66>>]
AllPoints == {P1, P2, P3}

IdentA == [ktype |-> "nistp256", point |-> P3, comment |-> <<99, 100, 101>>]
IdentB == [ktype |-> "ed25519", point |-> P1, comment |-> <<102>>]
OneIdent == <<[IdentA EXCEPT !.point = P1]>>

(* The first may be saved as the second, its key staying.  A list of both keys   *)
(* comes to 59 bytes before and 57 then, and to 49 once its key is fetched.    *)
TwoIdents == <<IdentA, IdentB>>
OneEdit == {IdentB}

(* One is empty.                                                            *)
TwoChallenges == {<<7>>, <<>>}
OneChallenge == {<<7>>}

(* The highest bit of r is set: DER puts a zero in front of it.               *)
OneSignature == {<<<<200, 1>>, <<0, 3>>>>}

(* The highest bit of both integers is set.                                 *)
HighSignature == {<<<<200, 1>>, <<201, 6>>>>}
=============================================================================
