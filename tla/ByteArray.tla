------------------------------ MODULE ByteArray ------------------------------
(***************************************************************************)
(* Bytes, and the numbers that are kept in two or four of them, the highest   *)
(* first.  The program counts offsets from 0, TLA+ sequences from 1.          *)
(***************************************************************************)
EXTENDS Integers, SequencesExt

Bytes == Seq(0..255)

(* What two bytes cannot hold.                                              *)
Sizes == 65536

(* PushBack(uint16_t) and AsShort, PushBack(uint32_t) and AsInt.             *)
Short(n) == <<(n \div 256) % 256, n % 256>>
AsShort(d, offset) == 256 * d[offset + 1] + d[offset + 2]

Int32(n) == Short(n \div Sizes) \o Short(n)
AsInt(d, offset) == Sizes * AsShort(d, offset) + AsShort(d, offset + 2)

(* A length, and so many bytes.                                             *)
String(d) == Int32(Len(d)) \o d
ReadString(d, offset) == SubSeq(d, offset + 5, offset + 4 + AsInt(d, offset))
=============================================================================
