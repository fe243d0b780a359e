------------------------------- MODULE Framing -------------------------------
(***************************************************************************)
(* How an APDU travels over HID: cut into blocks, a header before each, in   *)
(* reports of PacketSize bytes (64 in the program).  Block 0 follows a        *)
(* header with the length of the whole, the others a header without.         *)
(***************************************************************************)
EXTENDS ByteArray

CONSTANT PacketSize

(* UnwrapApdu wants 12 bytes before it looks at what a report says.         *)
ASSUME PacketAssumption == PacketSize \in Nat /\ PacketSize >= 12

FirstRoom == PacketSize - 7
NextRoom  == PacketSize - 5

APDU_CHANNEL == <<1, 1>>
APDU_TAG     == <<5>>

Pad(d) == d \o [i \in 1..((-Len(d)) % PacketSize) |-> 0]

FrameHead(sequenceIdx) == APDU_CHANNEL \o APDU_TAG \o Short(sequenceIdx)

(* The blocks that n bytes are cut into: where block i begins, how many come *)
(* after block 0, how long block i is.                                      *)
(* Seeded fault: later blocks are counted as short as the first.            *)
OffsetOfFirst(i) == i * FirstRoom
Offset(i) == IF i = 0 THEN 0 ELSE FirstRoom + (i - 1) * NextRoom
Continuations(n) == Cardinality({i \in 1..n : Offset(i) < n})
BlockLen(n, i) == Min({n, Offset(i + 1)}) - Offset(i)
Block(d, i) == SubSeq(d, Offset(i) + 1, Offset(i) + BlockLen(Len(d), i))

(* WrapApdu pads after every block but the first; Exchange pads the rest and *)
(* writes the bytes in reports.                                             *)
Wrapped(d) ==
  LET result[i \in 0..Continuations(Len(d))] ==
        IF i = 0 THEN FrameHead(0) \o Short(Len(d)) \o Block(d, 0)
        ELSE Pad(result[i - 1] \o FrameHead(i) \o Block(d, i))
  IN  result

WrapApdu(d) == Wrapped(d)[Continuations(Len(d))]

Reports(d) ==
  LET bytes == Pad(WrapApdu(d))
  IN  [i \in 1..(Len(bytes) \div PacketSize) |->
         SubSeq(bytes, (i - 1) * PacketSize + 1, i * PacketSize)]

-----------------------------------------------------------------------------
(* UnwrapApdu.                                                              *)

HasHead(d, offset, i) ==
  offset + 5 <= Len(d) /\ SubSeq(d, offset + 1, offset + 5) = FrameHead(i)

ResponseLength(d) == AsShort(d, 5)

(* The checks before any block is taken.  The last one does not count the    *)
(* headers of later reports, nor the rest of the first.                     *)
TooShort(d) ==
  \/ Len(d) < 5 + 2 + 5
  \/ ~HasHead(d, 0, 0)
  \/ Len(d) < 5 + 2 + ResponseLength(d)

(* "Invalid data size": the next report is not there.                       *)
(* Seeded fault: the check is left out.                                     *)
NotChecked(d, offset) == FALSE
AtEnd(d, offset) == offset = Len(d)

Unwrapped(d) ==
  LET n == ResponseLength(d)
      result[i \in 0..Continuations(n)] ==
        IF i = 0 THEN SubSeq(d, 8, 7 + BlockLen(n, 0))
        ELSE result[i - 1] \o SubSeq(d, i * PacketSize + 6, i * PacketSize + 5 + BlockLen(n, i))
  IN  result

(* Nothing both for an answer that is not complete and for one that is wrong. *)
UnwrapApdu(d) ==
  LET last == Continuations(ResponseLength(d))
  IN  IF TooShort(d) \/ \E i \in 1..last : AtEnd(d, i * PacketSize) \/ ~HasHead(d, i * PacketSize, i)
      THEN <<>> ELSE Unwrapped(d)[last]

(* UnwrapApdu reads bytes behind the end of d: block i is reached, no check   *)
(* returns, and it is not all there.                                        *)
ReadsPastEnd(d) ==
  /\ ~TooShort(d)
  /\ \E i \in 1..Continuations(ResponseLength(d)) :
       /\ \A j \in 1..i : ~AtEnd(d, j * PacketSize)
       /\ \A j \in 1..(i - 1) : HasHead(d, j * PacketSize, j)
       /\ i * PacketSize + 5 + BlockLen(ResponseLength(d), i) > Len(d)

-----------------------------------------------------------------------------
(* The other end of the cable, by the layout of the protocol and not by the  *)
(* code: byte k of the data sits at Position(k) of the reports.             *)

Position(k) ==
  IF k <= FirstRoom THEN 7 + k
  ELSE PacketSize * (1 + (k - FirstRoom - 1) \div NextRoom) + 6 + ((k - FirstRoom - 1) % NextRoom)

Arrived(d) == d # <<>> /\ (AsShort(d, 5) > 0 => Position(AsShort(d, 5)) <= Len(d))

Data(d) == [k \in 1..AsShort(d, 5) |-> d[Position(k)]]
=============================================================================
