-------------------------------- MODULE Wire --------------------------------
(***************************************************************************)
(* The bytes that the program exchanges with SSH clients: the requests and    *)
(* answers of the agent protocol, the key blob that GetPubKeyFor makes of the  *)
(* Ledger's answer and the signature blob that SignMap makes of a DER one.    *)
(* A name (of a key type, of a curve, an identity's comment) is a short        *)
(* sequence of bytes that stands for its text.                               *)
(***************************************************************************)
EXTENDS ByteArray

CONSTANTS
  W,        (* bytes of a coordinate: 32 in the program                     *)
  Points    (* the points that are public keys, as [x, y] of W bytes each     *)

Coordinate == [1..W -> 0..255]

Odd(d) == d[Len(d)] % 2 = 1

(* Points and signatures are sent with lengths of one byte, and                *)
(* ECP::DecodePoint must tell the points by what is left after compression.  *)
ASSUME WireAssumption ==
  /\ W \in Nat \ {0} /\ 2 * W + 6 <= 255
  /\ \A p \in Points : p.x \in Coordinate /\ p.y \in Coordinate
  /\ \A p, q \in Points : p.x = q.x /\ Odd(p.y) = Odd(q.y) => p = q

SSH_AGENT_FAILURE              == 5
SSH2_AGENTC_REQUEST_IDENTITIES == 11
SSH2_AGENT_IDENTITIES_ANSWER   == 12
SSH2_AGENTC_SIGN_REQUEST       == 13
SSH2_AGENT_SIGN_RESPONSE       == 14

(* KeyType::GetKeyType, and the name of the curve.                          *)
TypeName == [nistp256 |-> <<1>>, ed25519 |-> <<2>>]
CurveName == <<3>>
Octet == 4

-----------------------------------------------------------------------------
(* Keys.                                                                    *)

(* The Ledger's answer: the length of the point, the point uncompressed.     *)
DeviceKey(p) == <<2 * W + 1, 4>> \o p.x \o p.y

(* ConvertPubKey: the parity of y and all of x; or y from the last byte to     *)
(* the first, the parity of x in its highest bit.                           *)
ConvertPubKey(name, response) ==
  LET last == 2 * W + 2
      y == Reverse(SubSeq(response, W + 3, last))
  IN  IF name = "nistp256"
      THEN <<IF response[last] % 2 = 1 THEN 3 ELSE 2>> \o SubSeq(response, 3, W + 2)
      ELSE IF response[W + 2] % 2 = 1 /\ y[W] < 128 THEN [y EXCEPT ![W] = @ + 128] ELSE y

(* Integer::ByteCount counts from the highest byte that is not zero.         *)
(* Seeded fault: every zero byte is dropped.                                *)
WithoutZeros(d) == SelectSeq(d, LAMBDA b : b # 0)
Significant(d) ==
  LET nonZero == {i \in DOMAIN d : d[i] # 0}
  IN  IF nonZero = {} THEN <<>> ELSE SubSeq(d, Min(nonZero), Len(d))

DecodePoint(key) == CHOOSE p \in Points : p.x = Tail(key) /\ Odd(p.y) = (key[1] = 3)

decompressPubKey(key) ==
  LET point == DecodePoint(key) IN Significant(point.x) \o Significant(point.y)

(* What GetPubKeyFor makes of a good answer: keyinfo.                        *)
KeyInfo(name, response) ==
  LET key == ConvertPubKey(name, response)
  IN  String(TypeName[name]) \o
        IF name = "nistp256"
        THEN String(CurveName) \o String(<<Octet>> \o decompressPubKey(key))
        ELSE String(key)

-----------------------------------------------------------------------------
(* Signatures.  offset counts from 0, like the code's.                       *)

(* SignMap drops a zero byte in front of s, and keeps one in front of r.     *)
(* Seeded fault: the second integer is looked for one byte early.           *)
IntegerAt(signature, offset) ==
  SubSeq(signature, offset + 2, offset + 1 + signature[offset + 1])
SecondOffsetEarly(signature) == 3 + 1 + signature[4]
SecondOffset(signature) == 3 + 1 + signature[4] + 1

R(signature) == IntegerAt(signature, 3)
S(signature) ==
  LET s == IntegerAt(signature, SecondOffset(signature))
  IN  IF s # <<>> /\ s[1] = 0 THEN Tail(s) ELSE s

(* The signature as SignMap encodes it for a key type.                       *)
EncodedSignature(name, signature) ==
  String(TypeName[name]) \o String(String(R(signature)) \o String(S(signature)))

-----------------------------------------------------------------------------
(* Answers, and the requests of a client.                                    *)
Failure == String(<<SSH_AGENT_FAILURE>>)

SignResponse(name, signature) ==
  String(<<SSH2_AGENT_SIGN_RESPONSE>> \o String(EncodedSignature(name, signature)))

RequestBytes(q) ==
  CASE q.kind = "list"  -> String(<<SSH2_AGENTC_REQUEST_IDENTITIES>>)
    [] q.kind = "sign"  -> String(<<SSH2_AGENTC_SIGN_REQUEST>> \o String(q.key)
                                    \o String(q.challenge) \o Int32(0))
    [] q.kind = "other" -> String(<<1>>)

-----------------------------------------------------------------------------
(* The other side, by the protocols and not by the code: what DER says of two  *)
(* integers, how an mpint is read, what a key blob holds, how a client takes a  *)
(* message apart.                                                           *)
DERInteger(d) ==
  LET v == Significant(d)
      w == IF v = <<>> \/ v[1] >= 128 THEN <<0>> \o v ELSE v
  IN  <<2, Len(w)>> \o w

DER(r, s) == LET both == DERInteger(r) \o DERInteger(s) IN <<48, Len(both)>> \o both

Negative(d) == d # <<>> /\ d[1] >= 128

PublicKey(name, p) ==
  String(TypeName[name]) \o
    IF name = "nistp256" THEN String(CurveName) \o String(<<4>> \o p.x \o p.y)
    ELSE String([i \in 1..W |-> p.y[W + 1 - i] + IF i = W /\ Odd(p.x) THEN 128 ELSE 0])

(* The strings that fill d from offset at on, as far as they are whole.      *)
StringsFrom(d, at) ==
  LET end(n) == IF n + 4 > Len(d) THEN Len(d) + 1 ELSE n + 4 + AsInt(d, n)
      strings[n \in 0..Len(d)] ==
        LET e == end(n) IN IF e > Len(d) THEN <<>> ELSE <<SubSeq(d, n + 5, e)>> \o strings[e]
  IN  strings[at]

Message(map) == ReadString(map, 0)

KeysListed(m) ==
  LET strings == StringsFrom(m, 5)
  IN  {strings[i] : i \in {j \in DOMAIN strings : j % 2 = 1}}

(* The two integers in a signature message: behind the type's name the blob     *)
(* has a string with both.                                                  *)
IntegersOf(m) ==
  LET behind(d, offset) == offset + 4 + AsInt(d, offset)
      blob == ReadString(m, 1)
      both == ReadString(blob, behind(blob, 0))
  IN  <<ReadString(both, 0), ReadString(both, behind(both, 0))>>
=============================================================================
