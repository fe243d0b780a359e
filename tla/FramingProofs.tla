----------------------------- MODULE FramingProofs -----------------------------
(***************************************************************************)
(* That what Exchange writes is, for the other end, the APDU it was called     *)
(* with, and that UnwrapApdu makes the answer of the reports it came in, for    *)
(* every report size and every message whose length fits in two bytes.        *)
(***************************************************************************)
EXTENDS Framing, ByteArrayProofs, FiniteSetTheorems

(* The room in reports.                                                     *)
LEMMA Rooms ==
  /\ PacketSize \in Nat /\ PacketSize >= 12
  /\ FirstRoom = PacketSize - 7 /\ NextRoom = PacketSize - 5
  /\ FirstRoom \in Nat /\ NextRoom \in Nat
BY PacketAssumption DEF FirstRoom, NextRoom

(* Where blocks begin.                                                      *)
LEMMA Offsets ==
  /\ Offset(0) = 0 /\ Offset(1) = FirstRoom
  /\ \A i \in Nat : Offset(i) \in Nat /\ (i # 0 => Offset(i + 1) = Offset(i) + NextRoom)
<1>1. Offset(0) = 0 /\ Offset(1) = FirstRoom
  BY Rooms DEF Offset
<1>2. ASSUME NEW i \in Nat, i # 0
      PROVE  Offset(i) \in Nat /\ Offset(i + 1) = Offset(i) + NextRoom
  <2>1. i - 1 \in Nat
    BY <1>2
  <2>2. (i - 1) * NextRoom \in Nat /\ ((i + 1) - 1) * NextRoom = (i - 1) * NextRoom + NextRoom
    BY <2>1, Rooms
  <2>3. Offset(i) = FirstRoom + (i - 1) * NextRoom /\ Offset(i + 1) = FirstRoom + ((i + 1) - 1) * NextRoom
    BY <1>2 DEF Offset
  <2> QED BY <2>2, <2>3, Rooms
<1> QED BY <1>1, <1>2

(* A later block begins later, and each has some bytes.                      *)
LEMMA OffsetsGrow ==
  ASSUME NEW i \in Nat, NEW j \in Nat, i < j
  PROVE  Offset(i) < Offset(j) /\ Offset(j) >= j
<1>1. ASSUME NEW k \in Nat PROVE Offset(k + 1) > Offset(k)
  <2>1. CASE k = 0
    BY <2>1, Offsets, Rooms
  <2>2. CASE k # 0
    BY <2>2, Offsets, Rooms
  <2> QED BY <2>1, <2>2
<1> DEFINE S == {n \in Nat : Offset(i + n + 1) > Offset(i)}
           T == {n \in Nat : Offset(n) >= n}
<1>2. \A n \in Nat : n \in S
  <2>1. 0 \in S
    BY <1>1
  <2>2. ASSUME NEW n \in Nat, n \in S PROVE n + 1 \in S
    <3>1. i + n + 1 \in Nat /\ i + (n + 1) + 1 = (i + n + 1) + 1
      OBVIOUS
    <3>2. Offset((i + n + 1) + 1) > Offset(i + n + 1)
      BY <1>1, <3>1
    <3>3. Offset(i) \in Nat /\ Offset(i + n + 1) \in Nat /\ Offset((i + n + 1) + 1) \in Nat
      BY <3>1, Offsets
    <3>4. Offset(i + n + 1) > Offset(i)
      BY <2>2
    <3>5. Offset(i + (n + 1) + 1) > Offset(i)
      BY <3>1, <3>2, <3>3, <3>4
    <3> QED BY <3>5
  <2> HIDE DEF S
  <2> QED BY <2>1, <2>2, SetInduction
<1>3. \A n \in Nat : n \in T
  <2>1. 0 \in T
    BY Offsets
  <2>2. ASSUME NEW n \in Nat, n \in T PROVE n + 1 \in T
    <3>1. Offset(n + 1) > Offset(n) /\ Offset(n) >= n /\ Offset(n) \in Nat /\ Offset(n + 1) \in Nat
      BY <1>1, <2>2, Offsets
    <3> QED BY <3>1
  <2> HIDE DEF T
  <2> QED BY <2>1, <2>2, SetInduction
<1>4. j - i - 1 \in Nat /\ i + (j - i - 1) + 1 = j
  OBVIOUS
<1>5. j - i - 1 \in S /\ j \in T
  BY <1>2, <1>3, <1>4
<1> QED BY <1>4, <1>5

(* Continuations counts the blocks after the first that have something left.  *)
LEMMA CountOfBlocks ==
  ASSUME NEW n \in Nat
  PROVE  /\ Continuations(n) \in Nat
         /\ \A i \in Nat \ {0} : i <= Continuations(n) <=> Offset(i) < n
<1> DEFINE T == {m \in Nat : Offset(m + 1) >= n}
<1>1. n \in T
  BY OffsetsGrow, Offsets
<1>2. T \subseteq Nat
  OBVIOUS
<1>3. PICK m \in T : \A y \in T : m <= y
  <2> HIDE DEF T
  <2> QED BY <1>1, <1>2, LeastElement
<1>4. ASSUME NEW i \in Nat \ {0} PROVE i <= m <=> Offset(i) < n
  <2>1. CASE i <= m
    <3>1. i - 1 \in Nat /\ i - 1 < m /\ (i - 1) + 1 = i
      BY <1>2, <1>3, <2>1
    <3>2. i - 1 \notin T
      BY <1>2, <1>3, <3>1
    <3> QED BY <2>1, <3>1, <3>2, Offsets
  <2>2. CASE ~(i <= m)
    <3>1. m + 1 \in Nat /\ (m + 1 = i \/ m + 1 < i) /\ Offset(m + 1) >= n
      BY <1>2, <1>3, <2>2
    <3>2. Offset(i) >= Offset(m + 1) /\ Offset(i) \in Nat /\ Offset(m + 1) \in Nat
      BY <3>1, OffsetsGrow, Offsets
    <3> QED BY <2>2, <3>1, <3>2
  <2> QED BY <2>1, <2>2
<1>5. \A i \in Nat \ {0} : Offset(i) < n => i <= n
  BY OffsetsGrow, Offsets
<1>6. {i \in 1..n : Offset(i) < n} = 1..m
  BY <1>2, <1>3, <1>4, <1>5
<1>7. Cardinality(1..m) = m
  BY <1>2, <1>3, FS_Interval
<1> QED BY <1>2, <1>3, <1>4, <1>6, <1>7 DEF Continuations

-----------------------------------------------------------------------------
(* A frame header has five bytes.                                           *)
LEMMA HeadBytes ==
  ASSUME NEW i \in Nat
  PROVE  FrameHead(i) \in Bytes /\ Len(FrameHead(i)) = 5
<1>1. (i \div 256) % 256 \in 0..255 /\ i % 256 \in 0..255
  OBVIOUS
<1>2. Short(i) \in Seq(0..255) /\ Len(Short(i)) = 2
  BY <1>1 DEF Short
<1>3. /\ APDU_CHANNEL \in Bytes /\ Len(APDU_CHANNEL) = 2
      /\ APDU_TAG \in Bytes /\ Len(APDU_TAG) = 1
  BY DEF APDU_CHANNEL, APDU_TAG, Bytes
<1>4. Short(i) \in Bytes
  BY <1>2 DEF Bytes
<1>5. /\ FrameHead(i) \in Bytes
      /\ Len(FrameHead(i)) = Len(APDU_CHANNEL) + Len(APDU_TAG) + Len(Short(i))
  BY <1>3, <1>4, ConcatThree DEF FrameHead
<1> QED BY <1>2, <1>3, <1>5

(* Block i goes from its offset to the next one, the last to the end; all of   *)
(* it fits in its report.                                                   *)
LEMMA BlockLens ==
  ASSUME NEW n \in Nat, NEW i \in 0..Continuations(n)
  PROVE  /\ BlockLen(n, i) \in Nat
         /\ BlockLen(n, i) <= IF i = 0 THEN FirstRoom ELSE NextRoom
         /\ i # 0 => BlockLen(n, i) >= 1
         /\ Offset(i) + BlockLen(n, i) = IF i < Continuations(n) THEN Offset(i + 1) ELSE n
         /\ Offset(i) + BlockLen(n, i) <= n
<1>1. /\ Continuations(n) \in Nat /\ i \in Nat
      /\ i # 0 => Offset(i) < n
      /\ IF i < Continuations(n) THEN Offset(i + 1) < n ELSE ~(Offset(i + 1) < n)
  BY CountOfBlocks
<1>2. /\ Offset(i) \in Nat /\ Offset(i + 1) \in Nat
      /\ Offset(i + 1) = IF i = 0 THEN FirstRoom ELSE Offset(i) + NextRoom
      /\ i = 0 => Offset(i) = 0
  BY <1>1, Offsets
<1>3. BlockLen(n, i) = (IF n <= Offset(i + 1) THEN n ELSE Offset(i + 1)) - Offset(i)
  BY <1>2, MinOfTwo DEF BlockLen
<1> QED BY <1>1, <1>2, <1>3, Rooms

(* Where the data of block i begins in the reports.                          *)
Place(i) == IF i = 0 THEN 7 ELSE i * PacketSize + 5

(* A block and what is before it in its report stay in the report.            *)
LEMMA Places ==
  ASSUME NEW n \in Nat, NEW i \in 0..Continuations(n)
  PROVE  /\ i * PacketSize \in Nat /\ (i + 1) * PacketSize = i * PacketSize + PacketSize
         /\ Place(i) \in Nat /\ Place(i) >= i * PacketSize + 5
         /\ Place(i) + BlockLen(n, i) <= (i + 1) * PacketSize
         /\ i < Continuations(n) => Place(i) + BlockLen(n, i) = (i + 1) * PacketSize
<1>1. i \in Nat /\ Continuations(n) \in Nat
  BY CountOfBlocks
<1>2. i * PacketSize \in Nat /\ (i + 1) * PacketSize = i * PacketSize + PacketSize
  BY <1>1, Rooms
<1>3. /\ BlockLen(n, i) \in Nat
      /\ BlockLen(n, i) <= IF i = 0 THEN FirstRoom ELSE NextRoom
      /\ i < Continuations(n) => Offset(i) + BlockLen(n, i) = Offset(i + 1)
  BY BlockLens
<1>6. /\ Offset(i) \in Nat
      /\ Offset(i + 1) = IF i = 0 THEN FirstRoom ELSE Offset(i) + NextRoom
      /\ i = 0 => Offset(i) = 0
  BY <1>1, Offsets
<1>4. CASE i = 0
  BY <1>1, <1>2, <1>3, <1>4, <1>6, Rooms DEF Place
<1>5. CASE i # 0
  BY <1>1, <1>2, <1>3, <1>5, <1>6, Rooms DEF Place
<1> QED BY <1>4, <1>5

(* Padding fills the last report.                                           *)
LEMMA Padding ==
  ASSUME NEW d \in Bytes, NEW i \in Nat, NEW t \in 1..PacketSize, Len(d) = i * PacketSize + t
  PROVE  /\ Pad(d) \in Bytes /\ Len(Pad(d)) = (i + 1) * PacketSize
         /\ \A k \in 1..Len(d) : Pad(d)[k] = d[k]
<1>1. PacketSize - t \in 0..(PacketSize - 1) /\ -(i + 1) \in Int /\ PacketSize \in Nat \ {0}
  BY Rooms
<1>2. -Len(d) = PacketSize * (-(i + 1)) + (PacketSize - t)
  BY Rooms
<1>3. (-Len(d)) % PacketSize = PacketSize - t
  BY <1>1, <1>2, Quotient
<1> DEFINE zeros == [k \in 1..(PacketSize - t) |-> 0]
<1>4. zeros \in Bytes /\ Len(zeros) = PacketSize - t
  BY <1>1 DEF Bytes
<1>5. Pad(d) = d \o zeros
  BY <1>3 DEF Pad
<1>6. (i + 1) * PacketSize = i * PacketSize + PacketSize /\ i * PacketSize \in Nat
  BY Rooms
<1> HIDE DEF zeros
<1>7. /\ d \o zeros \in Bytes /\ Len(d \o zeros) = Len(d) + Len(zeros)
      /\ \A k \in 1..Len(d) : (d \o zeros)[k] = d[k]
  BY <1>4, ConcatBytes
<1>8. Len(d) + Len(zeros) = (i + 1) * PacketSize
  BY <1>1, <1>4, <1>6
<1> QED BY <1>5, <1>7, <1>8

-----------------------------------------------------------------------------
(* The recursion of WrapApdu.                                               *)
LEMMA WrappedDef ==
  ASSUME NEW d, Continuations(Len(d)) \in Nat
  PROVE  Wrapped(d) = [i \in 0..Continuations(Len(d)) |->
           IF i = 0 THEN FrameHead(0) \o Short(Len(d)) \o Block(d, 0)
           ELSE Pad(Wrapped(d)[i - 1] \o FrameHead(i) \o Block(d, i))]
<1> DEFINE first == FrameHead(0) \o Short(Len(d)) \o Block(d, 0)
           next(r, i) == Pad(r \o FrameHead(i) \o Block(d, i))
           G(f, m) == f = [i \in 0..m |-> IF i = 0 THEN first ELSE next(f[i - 1], i)]
           S == {m \in Nat : \E f : G(f, m)}
<1> HIDE DEF first, next
<1>1. 0 \in S
  <2>1. G([i \in 0..0 |-> first], 0)
    OBVIOUS
  <2> QED BY <2>1
<1>2. ASSUME NEW m \in Nat, m \in S
      PROVE  m + 1 \in S
  <2>1. PICK f : G(f, m)
    BY <1>2
  <2> DEFINE g == [i \in 0..(m + 1) |-> IF i = m + 1 THEN next(f[m], m + 1) ELSE f[i]]
  <2>2. \A i \in 0..(m + 1) : g[i] = IF i = 0 THEN first ELSE next(g[i - 1], i)
    <3> TAKE i \in 0..(m + 1)
    <3>1. CASE i = m + 1
      BY <3>1
    <3>2. CASE i # m + 1
      <4>1. i \in 0..m /\ g[i] = f[i] /\ (i # 0 => i - 1 \in 0..m /\ g[i - 1] = f[i - 1])
        BY <3>2
      <4>2. f[i] = IF i = 0 THEN first ELSE next(f[i - 1], i)
        BY <2>1, <4>1
      <4> QED BY <4>1, <4>2
    <3> QED BY <3>1, <3>2
  <2>3. G(g, m + 1)
    BY <2>2
  <2> HIDE DEF g, G
  <2> QED BY <2>3
<1>3. \E f : G(f, Continuations(Len(d)))
  <2>1. \A m \in Nat : m \in S
    <3> HIDE DEF S
    <3> QED BY <1>1, <1>2, SetInduction
  <2> HIDE DEF G
  <2> QED BY <2>1
<1>4. Wrapped(d) = CHOOSE f : G(f, Continuations(Len(d)))
  BY DEF Wrapped, first, next
<1>5. G(Wrapped(d), Continuations(Len(d)))
  <2> HIDE DEF G
  <2> QED BY <1>3, <1>4
<1> QED BY <1>5 DEF first, next

(* Its steps.                                                               *)
LEMMA WrappedSteps ==
  ASSUME NEW d, Continuations(Len(d)) \in Nat
  PROVE  /\ Wrapped(d)[0] = FrameHead(0) \o Short(Len(d)) \o Block(d, 0)
         /\ \A i \in 0..Continuations(Len(d)) :
              i # 0 => Wrapped(d)[i] = Pad(Wrapped(d)[i - 1] \o FrameHead(i) \o Block(d, i))
<1> DEFINE w == Wrapped(d)
<1>1. w = [i \in 0..Continuations(Len(d)) |->
             IF i = 0 THEN FrameHead(0) \o Short(Len(d)) \o Block(d, 0)
             ELSE Pad(w[i - 1] \o FrameHead(i) \o Block(d, i))]
  BY WrappedDef
<1> HIDE DEF w
<1>2. 0 \in 0..Continuations(Len(d))
  OBVIOUS
<1>3. w[0] = FrameHead(0) \o Short(Len(d)) \o Block(d, 0)
  BY <1>1, <1>2
<1>4. ASSUME NEW i \in 0..Continuations(Len(d)), i # 0
      PROVE  w[i] = Pad(w[i - 1] \o FrameHead(i) \o Block(d, i))
  BY <1>1, <1>4
<1> QED BY <1>3, <1>4 DEF w

(* Block i of d in reports s, and the header before it.                      *)
InPlace(d, s, i) ==
  /\ \A k \in 1..5 : s[i * PacketSize + k] = FrameHead(i)[k]
  /\ \A k \in 1..BlockLen(Len(d), i) : s[Place(i) + k] = d[Offset(i) + k]

(* The length of d and its first blocks, up to i, in reports s.               *)
Laid(d, s, i) ==
  /\ s \in Bytes
  /\ s[6] = Short(Len(d))[1] /\ s[7] = Short(Len(d))[2]
  /\ \A j \in 0..i : InPlace(d, s, j)

(* Blocks in a message.                                                     *)
LEMMA Blocks ==
  ASSUME NEW d \in Bytes, NEW i \in 0..Continuations(Len(d))
  PROVE  /\ Block(d, i) \in Bytes /\ Len(Block(d, i)) = BlockLen(Len(d), i)
         /\ \A k \in 1..BlockLen(Len(d), i) : Block(d, i)[k] = d[Offset(i) + k]
<1> DEFINE a == Offset(i)
           b == BlockLen(Len(d), i)
<1>1. a \in Nat /\ b \in Nat /\ a + b <= Len(d)
  <2>1. Len(d) \in Nat
    BY LenProperties DEF Bytes
  <2>2. Continuations(Len(d)) \in Nat
    BY <2>1, CountOfBlocks
  <2> QED BY <2>1, <2>2, BlockLens, Offsets
<1>2. Block(d, i) = SubSeq(d, a + 1, a + b)
  BY DEF Block
<1> HIDE DEF a, b
<1> DEFINE e == a + b
<1>3. e \in Nat /\ a <= e /\ e <= Len(d) /\ e - a = b
  BY <1>1
<1> HIDE DEF e
<1>4. /\ SubSeq(d, a + 1, e) \in Bytes /\ Len(SubSeq(d, a + 1, e)) = e - a
      /\ \A k \in 1..(e - a) : SubSeq(d, a + 1, e)[k] = d[a + k]
  BY <1>1, <1>3, SubBytes
<1> QED BY <1>2, <1>3, <1>4 DEF a, b, e

(* What is in place stays there when more bytes follow.                      *)
LEMMA StaysInPlace ==
  ASSUME NEW d \in Bytes, NEW i \in 0..Continuations(Len(d)), NEW s \in Bytes, Laid(d, s, i),
         Len(s) >= Place(i) + BlockLen(Len(d), i), NEW t \in Bytes, \A k \in 1..Len(s) : t[k] = s[k]
  PROVE  Laid(d, t, i)
<1>1. Len(d) \in Nat /\ Len(s) \in Nat /\ i \in Nat /\ Continuations(Len(d)) \in Nat
  BY LenProperties, CountOfBlocks DEF Bytes
<1>2. ASSUME NEW j \in 0..i
      PROVE  /\ j * PacketSize \in Nat /\ Place(j) \in Nat /\ BlockLen(Len(d), j) \in Nat
             /\ j * PacketSize + 5 <= Len(s) /\ Place(j) + BlockLen(Len(d), j) <= Len(s)
  <2>1. j \in 0..Continuations(Len(d))
    BY <1>1
  <2>2. /\ j * PacketSize \in Nat /\ Place(j) \in Nat /\ BlockLen(Len(d), j) \in Nat
        /\ Place(j) >= j * PacketSize + 5
        /\ Place(j) + BlockLen(Len(d), j) <= (j + 1) * PacketSize
    BY <1>1, <2>1, Places, BlockLens
  <2>3. CASE j = i
    BY <1>1, <2>2, <2>3
  <2>4. CASE j # i
    <3>1. j + 1 \in Nat /\ j + 1 <= i
      BY <1>1, <2>4
    <3>2. (j + 1) * PacketSize <= i * PacketSize /\ (j + 1) * PacketSize \in Nat
      BY <1>1, <3>1, TimesGrows, Rooms
    <3>3. i * PacketSize \in Nat /\ Place(i) >= i * PacketSize + 5 /\ Place(i) \in Nat /\ BlockLen(Len(d), i) \in Nat
      BY <1>1, Places, BlockLens
    <3> DEFINE x == (j + 1) * PacketSize
               y == i * PacketSize
               w == j * PacketSize
    <3>4. w \in Nat /\ x \in Nat /\ y \in Nat /\ x <= y
      BY <2>2, <3>2, <3>3
    <3>5. w + 5 <= Place(j) /\ Place(j) + BlockLen(Len(d), j) <= x /\ y + 5 <= Place(i)
      BY <2>2, <3>3
    <3> HIDE DEF x, y, w
    <3>6. Len(s) >= x
      BY <1>1, <3>3, <3>4, <3>5
    <3>7. w + 5 <= Len(s) /\ Place(j) + BlockLen(Len(d), j) <= Len(s)
      BY <1>1, <2>2, <3>4, <3>5, <3>6
    <3> QED BY <2>2, <3>7 DEF w
  <2> QED BY <2>3, <2>4
<1>3. ASSUME NEW j \in 0..i PROVE InPlace(d, t, j)
  <2>1. InPlace(d, s, j)
    BY DEF Laid
  <2>2. /\ j * PacketSize \in Nat /\ Place(j) \in Nat /\ BlockLen(Len(d), j) \in Nat
        /\ j * PacketSize + 5 <= Len(s) /\ Place(j) + BlockLen(Len(d), j) <= Len(s)
    BY <1>2
  <2>3. \A k \in 1..5 : j * PacketSize + k \in 1..Len(s)
    BY <1>1, <2>2
  <2>4. \A k \in 1..BlockLen(Len(d), j) : Place(j) + k \in 1..Len(s)
    BY <1>1, <2>2
  <2> QED BY <2>1, <2>3, <2>4 DEF InPlace
<1>4. 6 \in 1..Len(s) /\ 7 \in 1..Len(s)
  <2>1. 0 \in 0..i /\ Place(0) = 7
    BY <1>1 DEF Place
  <2>2. 7 + BlockLen(Len(d), 0) <= Len(s) /\ BlockLen(Len(d), 0) \in Nat
    BY <1>2, <2>1
  <2> QED BY <1>1, <2>2
<1> QED BY <1>3, <1>4 DEF Laid

(* The first report before it is padded.                                    *)
LEMMA FirstBlock ==
  ASSUME NEW d \in Bytes, Len(d) < Sizes
  PROVE  /\ Laid(d, FrameHead(0) \o Short(Len(d)) \o Block(d, 0), 0)
         /\ Len(FrameHead(0) \o Short(Len(d)) \o Block(d, 0)) = 7 + BlockLen(Len(d), 0)
<1> DEFINE h == FrameHead(0)
           l == Short(Len(d))
           b == Block(d, 0)
<1>1. Len(d) \in Nat /\ Continuations(Len(d)) \in Nat /\ 0 \in 0..Continuations(Len(d))
  <2>1. Len(d) \in Nat
    BY LenProperties DEF Bytes
  <2> QED BY <2>1, CountOfBlocks
<1>2. h \in Bytes /\ Len(h) = 5 /\ l \in Bytes /\ Len(l) = 2
  BY <1>1, HeadBytes, ShortBytes
<1>3. /\ b \in Bytes /\ Len(b) = BlockLen(Len(d), 0) /\ Len(b) \in Nat
      /\ \A k \in 1..Len(b) : b[k] = d[Offset(0) + k]
  BY <1>1, Blocks, BlockLens
<1> HIDE DEF h, l, b
<1>4. /\ h \o l \in Bytes /\ Len(h \o l) = Len(h) + Len(l)
      /\ \A k \in 1..Len(h) : (h \o l)[k] = h[k]
      /\ \A k \in 1..Len(l) : (h \o l)[Len(h) + k] = l[k]
  <2>1. h \in Bytes /\ l \in Bytes
    BY <1>2
  <2> QED BY <2>1, ConcatBytes
<1> DEFINE hl == h \o l
<1> HIDE DEF hl
<1>5. /\ hl \in Bytes /\ Len(hl) = 7
      /\ \A k \in 1..5 : hl[k] = h[k]
      /\ hl[6] = l[1] /\ hl[7] = l[2]
  <2>1. hl \in Bytes /\ Len(hl) = 7
    BY <1>2, <1>4 DEF hl
  <2>2. \A k \in 1..5 : hl[k] = h[k]
    BY <1>2, <1>4 DEF hl
  <2>3. 1 \in 1..Len(l) /\ 2 \in 1..Len(l) /\ Len(h) + 1 = 6 /\ Len(h) + 2 = 7
    BY <1>2
  <2>4. hl[Len(h) + 1] = l[1] /\ hl[Len(h) + 2] = l[2]
    BY <1>4, <2>3 DEF hl
  <2> QED BY <2>1, <2>2, <2>3, <2>4
<1>6. /\ hl \o b \in Bytes /\ Len(hl \o b) = Len(hl) + Len(b)
      /\ \A k \in 1..Len(hl) : (hl \o b)[k] = hl[k]
      /\ \A k \in 1..Len(b) : (hl \o b)[Len(hl) + k] = b[k]
  <2>1. hl \in Bytes /\ b \in Bytes
    BY <1>3, <1>5
  <2> QED BY <2>1, ConcatBytes
<1> DEFINE s == hl \o b
<1> HIDE DEF s
<1>7. /\ s \in Bytes /\ Len(s) = 7 + Len(b)
      /\ \A k \in 1..7 : s[k] = hl[k]
      /\ \A k \in 1..Len(b) : s[7 + k] = b[k]
  BY <1>5, <1>6 DEF s
<1>8. InPlace(d, s, 0)
  <2>1. \A k \in 1..5 : s[0 * PacketSize + k] = h[k]
    <3>1. 0 * PacketSize = 0
      BY Rooms
    <3>2. \A k \in 1..5 : 0 + k = k /\ k \in 1..7
      OBVIOUS
    <3> QED BY <1>5, <1>7, <3>1, <3>2
  <2>2. \A k \in 1..BlockLen(Len(d), 0) : s[Place(0) + k] = d[Offset(0) + k]
    BY <1>3, <1>7 DEF Place
  <2> QED BY <2>1, <2>2 DEF InPlace, h
<1>9. s[6] = l[1] /\ s[7] = l[2]
  BY <1>5, <1>7
<1>10. \A j \in 0..0 : j = 0
  OBVIOUS
<1>11. s = FrameHead(0) \o Short(Len(d)) \o Block(d, 0)
  BY DEF s, hl, h, l, b
<1>12. Laid(d, s, 0) /\ Len(s) = 7 + BlockLen(Len(d), 0)
  BY <1>3, <1>7, <1>8, <1>9, <1>10 DEF Laid, l
<1> QED BY <1>11, <1>12

(* A later block, in a report of its own, is in place and the rest stays.     *)
LEMMA NextBlock ==
  ASSUME NEW d \in Bytes, NEW i \in 0..Continuations(Len(d)), i # 0,
         NEW s \in Bytes, Laid(d, s, i - 1), Len(s) = i * PacketSize
  PROVE  /\ Laid(d, Pad(s \o FrameHead(i) \o Block(d, i)), i)
         /\ Len(Pad(s \o FrameHead(i) \o Block(d, i))) = (i + 1) * PacketSize
<1> DEFINE h == FrameHead(i)
           b == Block(d, i)
           n == Len(d)
<1>1. n \in Nat /\ Continuations(n) \in Nat /\ i \in Nat /\ i - 1 \in 0..Continuations(n) /\ (i - 1) + 1 = i
  <2>1. n \in Nat
    BY LenProperties DEF Bytes
  <2>2. Continuations(n) \in Nat
    BY <2>1, CountOfBlocks
  <2> QED BY <2>1, <2>2
<1>2. h \in Bytes /\ Len(h) = 5
  BY <1>1, HeadBytes
<1>3. /\ b \in Bytes /\ Len(b) = BlockLen(n, i)
      /\ \A k \in 1..BlockLen(n, i) : b[k] = d[Offset(i) + k]
  BY Blocks
<1>4. BlockLen(n, i) \in Nat /\ BlockLen(n, i) <= NextRoom
  BY <1>1, BlockLens
<1> HIDE DEF h, b
<1>5. /\ s \o h \in Bytes /\ Len(s \o h) = Len(s) + Len(h) /\ Len(s) \in Nat
      /\ \A k \in 1..Len(s) : (s \o h)[k] = s[k]
      /\ \A k \in 1..Len(h) : (s \o h)[Len(s) + k] = h[k]
  BY <1>2, ConcatBytes
<1> DEFINE sh == s \o h
           u == sh \o b
           p == Pad(u)
<1> HIDE DEF sh
<1>6. /\ sh \in Bytes /\ Len(sh) = Len(s) + 5
      /\ \A k \in 1..Len(s) : sh[k] = s[k]
      /\ \A k \in 1..5 : sh[Len(s) + k] = h[k]
  BY <1>2, <1>5 DEF sh
<1>7. /\ sh \o b \in Bytes /\ Len(sh \o b) = Len(sh) + Len(b)
      /\ \A k \in 1..Len(sh) : (sh \o b)[k] = sh[k]
      /\ \A k \in 1..Len(b) : (sh \o b)[Len(sh) + k] = b[k]
  BY <1>3, <1>6, ConcatBytes
<1> HIDE DEF u
<1>8. /\ u \in Bytes /\ Len(u) = Len(s) + (5 + BlockLen(n, i))
      /\ \A k \in 1..Len(s) : u[k] = s[k]
      /\ \A k \in 1..5 : u[Len(s) + k] = h[k]
      /\ \A k \in 1..BlockLen(n, i) : u[(Len(s) + 5) + k] = b[k]
  <2>1. u \in Bytes /\ Len(u) = (Len(s) + 5) + BlockLen(n, i)
    BY <1>3, <1>6, <1>7 DEF u
  <2>2. \A k \in 1..(Len(s) + 5) : u[k] = sh[k]
    BY <1>6, <1>7 DEF u
  <2>3. \A k \in 1..BlockLen(n, i) : u[(Len(s) + 5) + k] = b[k]
    BY <1>3, <1>6, <1>7 DEF u
  <2>4. \A k \in 1..Len(s) : u[k] = s[k]
    <3>1. \A k \in 1..Len(s) : k \in 1..(Len(s) + 5)
      BY <1>5
    <3> QED BY <1>6, <2>2, <3>1
  <2>5. \A k \in 1..5 : u[Len(s) + k] = h[k]
    <3>1. \A k \in 1..5 : Len(s) + k \in 1..(Len(s) + 5)
      BY <1>5
    <3> QED BY <1>6, <2>2, <3>1
  <2>6. (Len(s) + 5) + BlockLen(n, i) = Len(s) + (5 + BlockLen(n, i))
    BY <1>4, <1>5
  <2> QED BY <2>1, <2>3, <2>4, <2>5, <2>6
<1>9. /\ p \in Bytes /\ Len(p) = (i + 1) * PacketSize
      /\ \A k \in 1..Len(u) : p[k] = u[k]
  <2>1. 5 + BlockLen(n, i) \in 1..PacketSize
    BY <1>4, Rooms
  <2> QED BY <1>1, <1>8, <2>1, Padding
<1> HIDE DEF p
<1>10. /\ \A k \in 1..Len(s) : p[k] = s[k]
       /\ \A k \in 1..5 : p[i * PacketSize + k] = h[k]
       /\ \A k \in 1..BlockLen(n, i) : p[(i * PacketSize + 5) + k] = d[Offset(i) + k]
  <2>7. Len(s) \in Nat /\ BlockLen(n, i) \in Nat /\ Len(u) = Len(s) + (5 + BlockLen(n, i))
    BY <1>4, <1>5, <1>8
  <2>1. \A k \in 1..Len(s) : k \in 1..Len(u)
    BY <2>7
  <2>2. \A k \in 1..5 : Len(s) + k \in 1..Len(u)
    BY <2>7
  <2>3. \A k \in 1..BlockLen(n, i) : (Len(s) + 5) + k \in 1..Len(u)
    BY <2>7
  <2>4. \A k \in 1..Len(s) : p[k] = s[k]
    BY <1>8, <1>9, <2>1
  <2>5. \A k \in 1..5 : p[Len(s) + k] = h[k]
    BY <1>8, <1>9, <2>2
  <2>6. \A k \in 1..BlockLen(n, i) : p[(Len(s) + 5) + k] = d[Offset(i) + k]
    BY <1>3, <1>8, <1>9, <2>3
  <2> QED BY <2>4, <2>5, <2>6
<1>11. InPlace(d, p, i)
  <2>1. Place(i) = i * PacketSize + 5
    BY DEF Place
  <2> QED BY <1>10, <2>1 DEF InPlace, h
<1>12. Laid(d, p, i - 1)
  <2>1. Place(i - 1) + BlockLen(n, i - 1) <= Len(s)
    BY <1>1, Places
  <2>2. Place(i - 1) \in Nat /\ BlockLen(n, i - 1) \in Nat
    BY <1>1, Places, BlockLens
  <2>3. Len(s) >= Place(i - 1) + BlockLen(n, i - 1)
    BY <1>5, <2>1, <2>2
  <2> QED BY <1>1, <1>9, <1>10, <2>3, StaysInPlace
<1>13. \A j \in 0..i : j \in 0..(i - 1) \/ j = i
  BY <1>1
<1>14. Laid(d, p, i)
  BY <1>11, <1>12, <1>13 DEF Laid
<1>15. p = Pad(s \o FrameHead(i) \o Block(d, i))
  BY DEF p, u, sh, h, b
<1> QED BY <1>9, <1>14, <1>15

(* The reports hold every block of the message, in its place.                *)
LEMMA Layout ==
  ASSUME NEW d \in Bytes, Len(d) < Sizes
  PROVE  /\ Laid(d, Pad(WrapApdu(d)), Continuations(Len(d)))
         /\ Len(Pad(WrapApdu(d))) = (Continuations(Len(d)) + 1) * PacketSize
<1> DEFINE n == Len(d)
           m == Continuations(n)
           w == Wrapped(d)
           S == {i \in Nat : i <= m =>
                   /\ Laid(d, w[i], i)
                   /\ Len(w[i]) = IF i = 0 THEN 7 + BlockLen(n, 0) ELSE (i + 1) * PacketSize}
<1>1. n \in Nat /\ m \in Nat
  <2>1. n \in Nat
    BY LenProperties DEF Bytes
  <2> QED BY <2>1, CountOfBlocks
<1>2. /\ w[0] = FrameHead(0) \o Short(n) \o Block(d, 0)
      /\ \A i \in 0..m : i # 0 => w[i] = Pad(w[i - 1] \o FrameHead(i) \o Block(d, i))
  BY <1>1, WrappedSteps
<1>3. 0 \in S
  <2>1. w[0] = FrameHead(0) \o Short(n) \o Block(d, 0)
    BY <1>1, <1>2
  <2>2. Laid(d, w[0], 0) /\ Len(w[0]) = 7 + BlockLen(n, 0)
    BY <2>1, FirstBlock
  <2> QED BY <2>2
<1>4. ASSUME NEW i \in Nat, i \in S, i + 1 <= m
      PROVE  Laid(d, w[i + 1], i + 1) /\ Len(w[i + 1]) = ((i + 1) + 1) * PacketSize
  <2>1. i + 1 \in 0..m /\ i + 1 # 0 /\ (i + 1) - 1 = i /\ i \in 0..m /\ i < m
    BY <1>1, <1>4
  <2>2. /\ Laid(d, w[i], i)
        /\ Len(w[i]) = IF i = 0 THEN 7 + BlockLen(n, 0) ELSE (i + 1) * PacketSize
    BY <1>4, <2>1
  <2>3. Len(w[i]) = (i + 1) * PacketSize
    <3>1. CASE i = 0
      <4>1. Place(i) + BlockLen(n, i) = (i + 1) * PacketSize
        BY <1>1, <2>1, Places
      <4> QED BY <2>2, <3>1, <4>1 DEF Place
    <3>2. CASE i # 0
      BY <2>2, <3>2
    <3> QED BY <3>1, <3>2
  <2>4. w[i] \in Bytes
    BY <2>2 DEF Laid
  <2> HIDE DEF w
  <2> DEFINE x == w[i]
             j == i + 1
  <2>5. j \in 0..m /\ j # 0 /\ x \in Bytes /\ Laid(d, x, j - 1) /\ Len(x) = j * PacketSize /\ w[j - 1] = x
    BY <2>1, <2>2, <2>3, <2>4
  <2> HIDE DEF x, j
  <2>6. w[j] = Pad(x \o FrameHead(j) \o Block(d, j))
    BY <1>2, <2>5
  <2>7. /\ Laid(d, Pad(x \o FrameHead(j) \o Block(d, j)), j)
        /\ Len(Pad(x \o FrameHead(j) \o Block(d, j))) = (j + 1) * PacketSize
    BY <2>5, NextBlock
  <2>8. Laid(d, w[j], j) /\ Len(w[j]) = (j + 1) * PacketSize
    BY <2>6, <2>7
  <2> QED BY <2>8 DEF j
<1>5. ASSUME NEW i \in Nat, i \in S PROVE i + 1 \in S
  <2>1. i + 1 \in Nat /\ i + 1 # 0
    OBVIOUS
  <2> QED BY <1>4, <1>5, <2>1
<1>6. \A i \in Nat : i \in S
  <2> HIDE DEF S
  <2> QED BY <1>3, <1>5, SetInduction
<1>7. /\ Laid(d, w[m], m)
      /\ Len(w[m]) = IF m = 0 THEN 7 + BlockLen(n, 0) ELSE (m + 1) * PacketSize
  <2>1. m \in S /\ m <= m
    BY <1>1, <1>6
  <2> QED BY <2>1
<1>8. /\ m \in 0..m /\ m * PacketSize \in Nat /\ (m + 1) * PacketSize = m * PacketSize + PacketSize
      /\ Place(m) + BlockLen(n, m) <= (m + 1) * PacketSize
      /\ Place(m) \in Nat /\ BlockLen(n, m) \in Nat /\ Place(m) >= m * PacketSize + 5
  BY <1>1, Places, BlockLens
<1>9. Len(w[m]) >= Place(m) + BlockLen(n, m) /\ Len(w[m]) \in Nat
  <2>1. CASE m = 0
    BY <1>7, <1>8, <2>1 DEF Place
  <2>2. CASE m # 0
    BY <1>7, <1>8, <2>2, Rooms
  <2> QED BY <2>1, <2>2
<1>10. Len(w[m]) <= (m + 1) * PacketSize
  <2>1. CASE m = 0
    BY <1>7, <1>8, <2>1 DEF Place
  <2>2. CASE m # 0
    BY <1>7, <1>8, <2>2, Rooms
  <2> QED BY <2>1, <2>2
<1> DEFINE t == Len(w[m]) - m * PacketSize
<1>11. t \in 1..PacketSize /\ Len(w[m]) = m * PacketSize + t
  <2> DEFINE l == Len(w[m])
             p == m * PacketSize
             q == (m + 1) * PacketSize
  <2>1. p \in Nat /\ q = p + PacketSize /\ l \in Nat /\ l <= q /\ l >= p + 1
    <3>1. l >= p + 1
      <4>1. CASE m = 0
        BY <1>7, <1>8, <4>1, Rooms
      <4>2. CASE m # 0
        BY <1>7, <1>8, <4>2, Rooms
      <4> QED BY <4>1, <4>2
    <3> QED BY <1>8, <1>9, <1>10, <3>1
  <2>2. t = l - p
    OBVIOUS
  <2> HIDE DEF t, l, p, q
  <2>3. t \in 1..PacketSize /\ l = p + t
    BY <2>1, <2>2, Rooms
  <2> QED BY <2>3 DEF l, p
<1> HIDE DEF t, w
<1> DEFINE s == w[m]
<1>12. s \in Bytes /\ Len(s) = m * PacketSize + t /\ m \in 0..Continuations(Len(d)) /\ Laid(d, s, m)
       /\ Len(s) >= Place(m) + BlockLen(Len(d), m)
  <2>1. s \in Bytes
    BY <1>7 DEF Laid
  <2> QED BY <1>7, <1>8, <1>9, <1>11, <2>1
<1> HIDE DEF s, m
<1>13. Pad(s) \in Bytes /\ Len(Pad(s)) = (m + 1) * PacketSize /\ \A k \in 1..Len(s) : Pad(s)[k] = s[k]
  BY <1>1, <1>11, <1>12, Padding
<1>14. Laid(d, Pad(s), m)
  BY <1>12, <1>13, StaysInPlace
<1>15. WrapApdu(d) = s
  BY DEF WrapApdu, s, w, m
<1> QED BY <1>13, <1>14, <1>15 DEF m

-----------------------------------------------------------------------------
(* The first k reports of a message.                                        *)
Flat(d, k) == SubSeq(Pad(WrapApdu(d)), 1, k * PacketSize)

(* A message makes a report for every block.                                 *)
LEMMA ReportsOf ==
  ASSUME NEW d \in Bytes, Len(d) < Sizes
  PROVE  /\ Reports(d) \in Seq(Bytes) /\ Len(Reports(d)) = Continuations(Len(d)) + 1
         /\ Continuations(Len(d)) \in Nat
         /\ \A i \in 1..Len(Reports(d)) :
              Reports(d)[i] = SubSeq(Pad(WrapApdu(d)), (i - 1) * PacketSize + 1, i * PacketSize)
<1> DEFINE w == Pad(WrapApdu(d))
           r == Continuations(Len(d)) + 1
<1>1. r \in Nat /\ Continuations(Len(d)) \in Nat
  <2>1. Len(d) \in Nat
    BY LenProperties DEF Bytes
  <2> QED BY <2>1, CountOfBlocks
<1>2. w \in Bytes /\ Len(w) = r * PacketSize
  BY Layout DEF Laid
<1> HIDE DEF w, r
<1>3. (r * PacketSize) \div PacketSize = r
  BY <1>1, Multiple, Rooms
<1> DEFINE part(i) == SubSeq(w, (i - 1) * PacketSize + 1, i * PacketSize)
           f == [i \in 1..r |-> part(i)]
<1>4. Reports(d) = f
  BY <1>2, <1>3 DEF Reports, w
<1>5. ASSUME NEW i \in 1..r
      PROVE  part(i) \in Bytes
  <2> DEFINE a == (i - 1) * PacketSize
             b == i * PacketSize
  <2>1. i \in Nat /\ i - 1 \in Nat /\ i <= r /\ i - 1 <= i
    BY <1>1
  <2>2. a \in Nat /\ b \in Nat /\ a <= b /\ b <= r * PacketSize
    BY <1>1, <2>1, TimesGrows, Rooms
  <2> HIDE DEF a, b
  <2>3. b <= Len(w)
    BY <1>2, <2>2
  <2>4. SubSeq(w, a + 1, b) \in Bytes
    <3>1. w \in Bytes
      BY <1>2
    <3> QED BY <2>2, <2>3, <3>1, SubBytes
  <2> QED BY <2>4 DEF a, b
<1> HIDE DEF part
<1>6. f \in Seq(Bytes) /\ Len(f) = r
  <2>1. f \in [1..r -> Bytes] /\ DOMAIN f = 1..r
    BY <1>5
  <2> HIDE DEF f
  <2> QED BY <1>1, <2>1
<1>7. \A i \in 1..r : f[i] = part(i)
  OBVIOUS
<1> HIDE DEF f
<1>8. Reports(d) \in Seq(Bytes) /\ Len(Reports(d)) = r /\ \A i \in 1..r : Reports(d)[i] = part(i)
  BY <1>4, <1>6, <1>7
<1> QED BY <1>1, <1>8 DEF r, w, part

(* The bytes of the first reports.                                          *)
LEMMA FlatBytes ==
  ASSUME NEW d \in Bytes, Len(d) < Sizes, NEW k \in 0..Len(Reports(d))
  PROVE  /\ Flat(d, k) \in Bytes /\ Len(Flat(d, k)) = k * PacketSize /\ k * PacketSize \in Nat
         /\ \A x \in 1..(k * PacketSize) : Flat(d, k)[x] = Pad(WrapApdu(d))[x]
<1> DEFINE w == Pad(WrapApdu(d))
           b == k * PacketSize
           r == Continuations(Len(d)) + 1
<1>1. r \in Nat /\ k \in Nat /\ k <= r
  BY ReportsOf
<1>2. w \in Bytes /\ Len(w) = r * PacketSize
  BY Layout DEF Laid
<1>3. b \in Nat /\ b <= Len(w)
  BY <1>1, <1>2, TimesGrows, Rooms
<1>4. Flat(d, k) = SubSeq(w, 1, b)
  BY DEF Flat
<1> HIDE DEF w, b
<1>5. w \in Bytes
  BY <1>2
<1>6. SubSeq(w, 1, b) \in Bytes /\ Len(SubSeq(w, 1, b)) = b /\ \A x \in 1..b : SubSeq(w, 1, b)[x] = w[x]
  BY <1>3, <1>5, PrefixBytes
<1> QED BY <1>3, <1>4, <1>6 DEF w, b

(* Report after report they add up.                                         *)
LEMMA FlatGrows ==
  ASSUME NEW d \in Bytes, Len(d) < Sizes
  PROVE  /\ Flat(d, 0) = <<>>
         /\ \A k \in 0..(Len(Reports(d)) - 1) : Flat(d, k) \o Reports(d)[k + 1] = Flat(d, k + 1)
<1> DEFINE w == Pad(WrapApdu(d))
           r == Len(Reports(d))
<1>1. w \in Bytes /\ Len(w) = r * PacketSize /\ r \in Nat
  BY ReportsOf, Layout DEF Laid
<1>2. Flat(d, 0) = <<>>
  <2>1. 0 * PacketSize = 0
    BY Rooms
  <2>2. SubSeq(w, 1, 0) = <<>>
    BY SubSeqEmpty
  <2> QED BY <2>1, <2>2 DEF Flat
<1>3. ASSUME NEW k \in 0..(r - 1) PROVE Flat(d, k) \o Reports(d)[k + 1] = Flat(d, k + 1)
  <2>1. k \in Nat /\ k + 1 \in Nat /\ k + 1 <= r /\ k + 1 \in 1..r /\ (k + 1) - 1 = k /\ k <= k + 1
    BY <1>1
  <2> DEFINE a == k * PacketSize
             b == (k + 1) * PacketSize
             q == Reports(d)[k + 1]
             f == Flat(d, k)
             g == Flat(d, k + 1)
  <2>2. a \in Nat /\ b \in Nat /\ a <= b /\ b <= r * PacketSize
    BY <1>1, <2>1, TimesGrows, Rooms
  <2>3. q = SubSeq(w, a + 1, b)
    BY <2>1, ReportsOf
  <2>4. f = SubSeq(w, 1, a) /\ g = SubSeq(w, 1, b)
    BY DEF Flat
  <2> HIDE DEF a, b, w, q, f, g
  <2>5. SubSeq(w, 1, a) \o SubSeq(w, a + 1, b) = SubSeq(w, 1, b)
    <3>1. w \in Seq(0..255)
      BY <1>1 DEF Bytes
    <3>2. Len(w) \in Nat /\ b <= Len(w)
      BY <1>1, <2>2, <3>1, LenProperties
    <3>3. 1 \in 1..(Len(w) + 1) /\ a \in (1 - 1)..Len(w) /\ b \in a..Len(w)
      BY <2>2, <3>2
    <3> QED BY <3>1, <3>3, ConcatAdjacentSubSeq
  <2>6. f \o q = g
    BY <2>3, <2>4, <2>5, Zenon
  <2> QED BY <2>6 DEF f, g, q
<1> QED BY <1>2, <1>3

-----------------------------------------------------------------------------
(* The protocol's position of a byte of block i is the place it is laid in.   *)
LEMMA PositionInBlock ==
  ASSUME NEW n \in Nat, NEW i \in 0..Continuations(n), NEW j \in 1..BlockLen(n, i)
  PROVE  Position(Offset(i) + j) = Place(i) + j
<1>1. i \in Nat /\ j \in Nat /\ j >= 1 /\ j <= IF i = 0 THEN FirstRoom ELSE NextRoom
  <2>1. Continuations(n) \in Nat
    BY CountOfBlocks
  <2>2. BlockLen(n, i) \in Nat /\ BlockLen(n, i) <= IF i = 0 THEN FirstRoom ELSE NextRoom
    BY BlockLens
  <2> QED BY <2>1, <2>2, Rooms
<1>2. CASE i = 0
  <2>1. Offset(i) + j = j /\ j <= FirstRoom
    BY <1>1, <1>2, Offsets
  <2> QED BY <1>2, <2>1 DEF Position, Place
<1>3. CASE i # 0
  <2> DEFINE q == i - 1
             t == j - 1
             k == Offset(i) + j
  <2>1. q \in Nat /\ t \in 0..(NextRoom - 1) /\ NextRoom \in Nat \ {0}
    BY <1>1, <1>3, Rooms
  <2>2. q * NextRoom \in Nat /\ NextRoom * q = q * NextRoom
    BY <2>1
  <2>3. k = FirstRoom + q * NextRoom + j
    BY <1>3 DEF Offset
  <2>4. k - FirstRoom - 1 = NextRoom * q + t /\ ~(k <= FirstRoom)
    BY <1>1, <2>1, <2>2, <2>3, Rooms
  <2>5. (NextRoom * q + t) \div NextRoom = q /\ (NextRoom * q + t) % NextRoom = t
    <3> HIDE DEF q, t
    <3> QED BY <2>1, Quotient
  <2>6. Position(k) = PacketSize * (1 + q) + 6 + t
    <3> HIDE DEF q, t, k
    <3> QED BY <2>4, <2>5 DEF Position
  <2>7. PacketSize * (1 + q) = i * PacketSize /\ 6 + t = 5 + j /\ i * PacketSize \in Nat
    BY <1>1, Rooms
  <2>8. PacketSize * (1 + q) + 6 + t = Place(i) + j
    BY <1>1, <1>3, <2>7 DEF Place
  <2> QED BY <2>6, <2>8
<1> QED BY <1>2, <1>3

(* Every byte of a message is in a block.                                    *)
LEMMA InSomeBlock ==
  ASSUME NEW n \in Nat, NEW k \in 1..n
  PROVE  \E i \in 0..Continuations(n) : \E j \in 1..BlockLen(n, i) : k = Offset(i) + j
<1>1. Continuations(n) \in Nat /\ k \in Nat /\ k >= 1 /\ k <= n
  BY CountOfBlocks
<1>2. CASE k <= FirstRoom
  <2>1. 0 \in 0..Continuations(n) /\ Offset(0) = 0
    BY <1>1, Offsets
  <2>2. BlockLen(n, 0) \in Nat /\ Offset(0) + BlockLen(n, 0) = IF 0 < Continuations(n) THEN Offset(0 + 1) ELSE n
    BY <2>1, BlockLens
  <2>3. Offset(0 + 1) = FirstRoom
    BY Offsets
  <2>4. k \in 1..BlockLen(n, 0) /\ k = Offset(0) + k
    BY <1>1, <1>2, <2>1, <2>2, <2>3, Rooms
  <2> QED BY <2>1, <2>4
<1>3. CASE ~(k <= FirstRoom)
  <2> DEFINE a == k - FirstRoom - 1
             q == a \div NextRoom
             t == a % NextRoom
             i == q + 1
             j == t + 1
  <2>1. a \in Nat /\ NextRoom \in Nat \ {0} /\ k = FirstRoom + a + 1
    BY <1>1, <1>3, Rooms
  <2>2. q \in Nat /\ t \in 0..(NextRoom - 1) /\ NextRoom * q + t = a
    <3> HIDE DEF a
    <3> QED BY <2>1, Division
  <2> HIDE DEF a, q, t
  <2>3. i \in Nat /\ i # 0 /\ i - 1 = q /\ q * NextRoom = NextRoom * q /\ NextRoom * q \in Nat
    BY <2>1, <2>2
  <2>4. Offset(i) = FirstRoom + NextRoom * q
    BY <2>3 DEF Offset
  <2>5. k = Offset(i) + j /\ j \in Nat /\ j >= 1 /\ j <= NextRoom
    BY <2>1, <2>2, <2>3, <2>4, Rooms
  <2> HIDE DEF i, j
  <2>6. Offset(i) \in Nat /\ Offset(i) < n /\ Offset(i + 1) = Offset(i) + NextRoom
    BY <1>1, <2>3, <2>5, Offsets
  <2>7. i \in 0..Continuations(n)
    <3>1. i <= Continuations(n)
      BY <2>3, <2>6, CountOfBlocks
    <3> QED BY <1>1, <2>3, <3>1
  <2>8. BlockLen(n, i) \in Nat /\ Offset(i) + BlockLen(n, i) = IF i < Continuations(n) THEN Offset(i + 1) ELSE n
    BY <2>7, BlockLens
  <2>9. j \in 1..BlockLen(n, i)
    BY <1>1, <2>5, <2>6, <2>8, Rooms
  <2> QED BY <2>5, <2>7, <2>9
<1> QED BY <1>2, <1>3

(* Any report tells the length of the message, and each its number.           *)
LEMMA FlatLaid ==
  ASSUME NEW d \in Bytes, Len(d) < Sizes, NEW k \in 1..Len(Reports(d))
  PROVE  /\ Flat(d, k) # <<>> /\ AsShort(Flat(d, k), 5) = Len(d) /\ Len(Flat(d, k)) >= PacketSize
         /\ \A i \in 0..(k - 1) : InPlace(d, Flat(d, k), i)
<1> DEFINE w == Pad(WrapApdu(d))
           p == Flat(d, k)
           n == Len(d)
           m == Continuations(n)
<1>1. n \in Nat /\ m \in Nat /\ k \in Nat /\ k >= 1 /\ k <= m + 1 /\ k \in 0..Len(Reports(d))
  <2>1. n \in Nat
    BY LenProperties DEF Bytes
  <2>2. Len(Reports(d)) = m + 1 /\ m \in Nat
    BY ReportsOf
  <2> QED BY <2>1, <2>2
<1>2. p \in Bytes /\ Len(p) = k * PacketSize /\ k * PacketSize \in Nat /\ \A x \in 1..(k * PacketSize) : p[x] = w[x]
  BY <1>1, FlatBytes
<1>3. w \in Bytes /\ w[6] = Short(n)[1] /\ w[7] = Short(n)[2] /\ \A i \in 0..m : InPlace(d, w, i)
  BY Layout DEF Laid
<1> HIDE DEF w, p
<1>4. 1 * PacketSize <= k * PacketSize /\ 1 * PacketSize = PacketSize
  BY <1>1, TimesGrows, Rooms
<1>5. 6 \in 1..(k * PacketSize) /\ 7 \in 1..(k * PacketSize) /\ k * PacketSize >= 12
  BY <1>2, <1>4, Rooms
<1>6. p[6] = Short(n)[1] /\ p[7] = Short(n)[2]
  BY <1>2, <1>3, <1>5
<1>7. AsShort(p, 5) = n
  <2>1. 256 * Short(n)[1] + Short(n)[2] = n
    BY <1>1, ShortBytes
  <2>2. AsShort(p, 5) = 256 * p[6] + p[7]
    BY DEF AsShort
  <2> QED BY <1>6, <2>1, <2>2
<1>8. ASSUME NEW i \in 0..(k - 1) PROVE InPlace(d, p, i)
  <2>1. i \in 0..m /\ i + 1 \in Nat /\ i + 1 <= k /\ i \in Nat
    BY <1>1
  <2>2. /\ i * PacketSize \in Nat /\ Place(i) \in Nat /\ Place(i) >= i * PacketSize + 5
        /\ Place(i) + BlockLen(n, i) <= (i + 1) * PacketSize /\ BlockLen(n, i) \in Nat
    BY <1>1, <2>1, Places, BlockLens
  <2>3. (i + 1) * PacketSize <= k * PacketSize /\ (i + 1) * PacketSize \in Nat
    BY <1>1, <2>1, TimesGrows, Rooms
  <2>4. \A x \in 1..5 : i * PacketSize + x \in 1..(k * PacketSize)
    BY <1>2, <2>2, <2>3
  <2>5. \A x \in 1..BlockLen(n, i) : Place(i) + x \in 1..(k * PacketSize)
    BY <1>2, <2>2, <2>3
  <2>6. InPlace(d, w, i)
    BY <1>3, <2>1
  <2> QED BY <1>2, <2>4, <2>5, <2>6 DEF InPlace
<1>9. p # <<>> /\ Len(p) >= PacketSize
  BY <1>2, <1>4, <1>5
<1> QED BY <1>7, <1>8, <1>9 DEF p

(* The other end has the whole message when it has its last report and not    *)
(* before.                                                                  *)
THEOREM ArrivesLast ==
  ASSUME NEW d \in Bytes, d # <<>>, Len(d) < Sizes, NEW k \in 0..Len(Reports(d))
  PROVE  Arrived(Flat(d, k)) <=> k = Len(Reports(d))
<1> DEFINE n == Len(d)
           m == Continuations(n)
           j == n - Offset(m)
<1>1. n \in Nat /\ n >= 1 /\ m \in Nat /\ k \in Nat /\ Len(Reports(d)) = m + 1 /\ k <= m + 1
  <2>1. n \in Nat /\ n # 0
    BY EmptySeq, LenProperties DEF Bytes
  <2>2. Len(Reports(d)) = m + 1 /\ m \in Nat
    BY ReportsOf
  <2> QED BY <2>1, <2>2
<1>2. CASE k = 0
  <2>1. Flat(d, k) = <<>>
    BY <1>2, FlatGrows
  <2> QED BY <1>1, <1>2, <2>1 DEF Arrived
<1>3. CASE k # 0
  <2>1. k \in 1..Len(Reports(d))
    BY <1>1, <1>3
  <2>2. Flat(d, k) # <<>> /\ AsShort(Flat(d, k), 5) = n /\ Len(Flat(d, k)) = k * PacketSize /\ k * PacketSize \in Nat
    BY <2>1, FlatLaid, FlatBytes
  <2>3. /\ m \in 0..m /\ BlockLen(n, m) \in Nat /\ Offset(m) + BlockLen(n, m) = n /\ Offset(m) \in Nat
        /\ (m # 0 => BlockLen(n, m) >= 1) /\ (m = 0 => Offset(m) = 0)
    <3>1. m \in 0..m
      BY <1>1
    <3>2. /\ BlockLen(n, m) \in Nat /\ Offset(m) + BlockLen(n, m) = n /\ (m # 0 => BlockLen(n, m) >= 1)
      BY <1>1, <3>1, BlockLens
    <3> QED BY <1>1, <3>1, <3>2, Offsets
  <2>4. j \in 1..BlockLen(n, m) /\ j = BlockLen(n, m) /\ Offset(m) + j = n
    BY <1>1, <2>3
  <2> HIDE DEF j
  <2>5. Position(n) = Place(m) + j
    <3>1. Position(Offset(m) + j) = Place(m) + j
      BY <1>1, <2>3, <2>4, PositionInBlock
    <3> QED BY <2>4, <3>1
  <2>6. /\ m * PacketSize \in Nat /\ (m + 1) * PacketSize = m * PacketSize + PacketSize
        /\ Place(m) \in Nat /\ Place(m) >= m * PacketSize + 5 /\ Place(m) + BlockLen(n, m) <= (m + 1) * PacketSize
    BY <1>1, <2>3, Places
  <2>7. k <= m => k * PacketSize <= m * PacketSize
    BY <1>1, TimesGrows, Rooms
  <2> DEFINE x == k * PacketSize
             y == m * PacketSize
             z == (m + 1) * PacketSize
  <2>8. x \in Nat /\ y \in Nat /\ (k <= m => x <= y) /\ (k = m + 1 => x = z) /\ z = y + PacketSize
        /\ Position(n) <= z /\ Position(n) > y /\ Position(n) \in Nat
    BY <2>2, <2>3, <2>4, <2>5, <2>6, <2>7
  <2> HIDE DEF x, y, z
  <2>9. Position(n) <= x <=> k = m + 1
    BY <1>1, <2>8, Rooms
  <2>10. Arrived(Flat(d, k)) <=> Position(n) <= x
    BY <1>1, <2>2 DEF Arrived, x
  <2> QED BY <1>1, <2>9, <2>10
<1> QED BY <1>2, <1>3

(* What arrives is the message.                                             *)
THEOREM ArrivesWhole ==
  ASSUME NEW d \in Bytes, Len(d) < Sizes
  PROVE  Data(Flat(d, Len(Reports(d)))) = d
<1> DEFINE n == Len(d)
           m == Continuations(n)
           r == Len(Reports(d))
           p == Flat(d, r)
<1>1. n \in Nat /\ m \in Nat /\ r = m + 1 /\ r \in 1..r
  <2>1. n \in Nat
    BY LenProperties DEF Bytes
  <2>2. r = m + 1 /\ m \in Nat
    BY ReportsOf
  <2> QED BY <2>1, <2>2
<1>2. AsShort(p, 5) = n /\ \A i \in 0..m : InPlace(d, p, i)
  BY <1>1, FlatLaid
<1> HIDE DEF p
<1>3. ASSUME NEW k \in 1..n PROVE p[Position(k)] = d[k]
  <2>1. PICK i \in 0..m : \E j \in 1..BlockLen(n, i) : k = Offset(i) + j
    BY <1>1, InSomeBlock
  <2>2. PICK j \in 1..BlockLen(n, i) : k = Offset(i) + j
    BY <2>1
  <2>3. Position(Offset(i) + j) = Place(i) + j
    BY <1>1, PositionInBlock
  <2>4. p[Place(i) + j] = d[Offset(i) + j]
    BY <1>2 DEF InPlace
  <2> QED BY <2>2, <2>3, <2>4
<1>4. Data(p) = [k \in 1..n |-> p[Position(k)]]
  BY <1>2 DEF Data
<1>5. [k \in 1..n |-> p[Position(k)]] = [k \in 1..n |-> d[k]]
  BY <1>3
<1>6. [k \in 1..n |-> d[k]] = d
  <2>1. d \in [1..n -> 0..255]
    BY LenProperties DEF Bytes
  <2> HIDE DEF n
  <2> QED BY <2>1
<1> QED BY <1>4, <1>5, <1>6 DEF p

-----------------------------------------------------------------------------
(* The recursion of UnwrapApdu.                                             *)
LEMMA UnwrappedSteps ==
  ASSUME NEW d, NEW n, n = ResponseLength(d), Continuations(n) \in Nat
  PROVE  /\ Unwrapped(d)[0] = SubSeq(d, 8, 7 + BlockLen(n, 0))
         /\ \A i \in 0..Continuations(n) :
              i # 0 => Unwrapped(d)[i] = Unwrapped(d)[i - 1] \o
                         SubSeq(d, i * PacketSize + 6, i * PacketSize + 5 + BlockLen(n, i))
<1> DEFINE first == SubSeq(d, 8, 7 + BlockLen(n, 0))
           part(i) == SubSeq(d, i * PacketSize + 6, i * PacketSize + 5 + BlockLen(n, i))
           G(f, m) == f = [i \in 0..m |-> IF i = 0 THEN first ELSE f[i - 1] \o part(i)]
           S == {m \in Nat : \E f : G(f, m)}
           u == Unwrapped(d)
<1>4. u = CHOOSE f : G(f, Continuations(n))
  BY DEF Unwrapped
<1> HIDE DEF first, part, u
<1>1. 0 \in S
  <2>1. G([i \in 0..0 |-> first], 0)
    OBVIOUS
  <2> QED BY <2>1
<1>2. ASSUME NEW m \in Nat, m \in S
      PROVE  m + 1 \in S
  <2>1. PICK f : G(f, m)
    BY <1>2
  <2> DEFINE g == [i \in 0..(m + 1) |-> IF i = m + 1 THEN f[m] \o part(m + 1) ELSE f[i]]
  <2>2. \A i \in 0..(m + 1) : g[i] = IF i = 0 THEN first ELSE g[i - 1] \o part(i)
    <3> TAKE i \in 0..(m + 1)
    <3>1. CASE i = m + 1
      BY <3>1
    <3>2. CASE i # m + 1
      <4>1. i \in 0..m /\ g[i] = f[i] /\ (i # 0 => i - 1 \in 0..m /\ g[i - 1] = f[i - 1])
        BY <3>2
      <4>2. f[i] = IF i = 0 THEN first ELSE f[i - 1] \o part(i)
        BY <2>1, <4>1
      <4> QED BY <4>1, <4>2
    <3> QED BY <3>1, <3>2
  <2>3. G(g, m + 1)
    BY <2>2
  <2> HIDE DEF g, G
  <2> QED BY <2>3
<1>3. \E f : G(f, Continuations(n))
  <2>1. \A m \in Nat : m \in S
    <3> HIDE DEF S
    <3> QED BY <1>1, <1>2, SetInduction
  <2> HIDE DEF G
  <2> QED BY <2>1
<1>5. G(u, Continuations(n))
  <2> HIDE DEF G
  <2> QED BY <1>3, <1>4
<1>6. u[0] = first
  BY <1>5
<1>7. ASSUME NEW i \in 0..Continuations(n), i # 0 PROVE u[i] = u[i - 1] \o part(i)
  BY <1>5, <1>7
<1> QED BY <1>6, <1>7 DEF u, first, part

(* In the reports of a message each header is found ...                       *)
LEMMA HeadsFound ==
  ASSUME NEW d \in Bytes, NEW p \in Bytes, NEW i \in Nat, InPlace(d, p, i), i * PacketSize + 5 <= Len(p)
  PROVE  HasHead(p, i * PacketSize, i)
<1> DEFINE a == i * PacketSize
           h == FrameHead(i)
           b == a + 5
           q == SubSeq(p, a + 1, b)
<1>1. a \in Nat
  BY Rooms
<1>2. h \in Bytes /\ Len(h) = 5
  BY HeadBytes
<1>3. \A k \in 1..5 : p[a + k] = h[k]
  BY DEF InPlace
<1> HIDE DEF a, h
<1>4. b \in Nat /\ a <= b /\ b <= Len(p) /\ b - a = 5
  BY <1>1 DEF a
<1> HIDE DEF b
<1>5. SubSeq(p, a + 1, b) \in Bytes /\ Len(SubSeq(p, a + 1, b)) = b - a
      /\ \A k \in 1..(b - a) : SubSeq(p, a + 1, b)[k] = p[a + k]
  BY <1>1, <1>4, SubBytes
<1>6. q \in Bytes /\ Len(q) = 5 /\ \A k \in 1..5 : q[k] = h[k]
  BY <1>3, <1>4, <1>5
<1> HIDE DEF q
<1>7. q = h
  <2>1. q \in Seq(0..255) /\ h \in Seq(0..255) /\ Len(q) = Len(h) /\ \A k \in 1..Len(q) : q[k] = h[k]
    BY <1>2, <1>6 DEF Bytes
  <2> QED BY <2>1, SeqEqual
<1> QED BY <1>4, <1>7 DEF HasHead, q, b, a, h

(* ... and each block.                                                      *)
LEMMA BlocksFound ==
  ASSUME NEW d \in Bytes, NEW p \in Bytes, NEW i \in 0..Continuations(Len(d)), InPlace(d, p, i),
         Place(i) + BlockLen(Len(d), i) <= Len(p)
  PROVE  SubSeq(p, Place(i) + 1, Place(i) + BlockLen(Len(d), i))
           = SubSeq(d, Offset(i) + 1, Offset(i) + BlockLen(Len(d), i))
<1> DEFINE b == BlockLen(Len(d), i)
           x == Place(i)
           y == Offset(i)
           u == x + b
           v == y + b
           s == SubSeq(p, x + 1, u)
           t == SubSeq(d, y + 1, v)
<1>1. b \in Nat /\ x \in Nat /\ y \in Nat /\ y + b <= Len(d)
  <2>1. Len(d) \in Nat
    BY LenProperties DEF Bytes
  <2>2. i \in Nat
    BY <2>1, CountOfBlocks
  <2> QED BY <2>1, <2>2, BlockLens, Places, Offsets
<1>2. \A k \in 1..b : p[x + k] = d[y + k]
  BY DEF InPlace
<1>3. u \in Nat /\ x <= u /\ u <= Len(p) /\ u - x = b /\ v \in Nat /\ y <= v /\ v <= Len(d) /\ v - y = b
  BY <1>1
<1> HIDE DEF b, x, y, u, v
<1>4. SubSeq(p, x + 1, u) \in Bytes /\ Len(SubSeq(p, x + 1, u)) = u - x
      /\ \A k \in 1..(u - x) : SubSeq(p, x + 1, u)[k] = p[x + k]
  BY <1>1, <1>3, SubBytes
<1>5. SubSeq(d, y + 1, v) \in Bytes /\ Len(SubSeq(d, y + 1, v)) = v - y
      /\ \A k \in 1..(v - y) : SubSeq(d, y + 1, v)[k] = d[y + k]
  BY <1>1, <1>3, SubBytes
<1>6. s \in Bytes /\ t \in Bytes /\ Len(s) = b /\ Len(t) = b /\ \A k \in 1..b : s[k] = t[k]
  BY <1>2, <1>3, <1>4, <1>5
<1> HIDE DEF s, t
<1>7. s = t
  <2>1. s \in Seq(0..255) /\ t \in Seq(0..255) /\ Len(s) = Len(t) /\ \A k \in 1..Len(s) : s[k] = t[k]
    BY <1>6 DEF Bytes
  <2> QED BY <2>1, SeqEqual
<1> QED BY <1>7 DEF s, t, u, v, b, x, y

(* The blocks of all the reports, one after the other, are the message.       *)
LEMMA UnwrapsBlocks ==
  ASSUME NEW d \in Bytes, Len(d) < Sizes, NEW p \in Bytes, ResponseLength(p) = Len(d),
         \A i \in 0..Continuations(Len(d)) : InPlace(d, p, i),
         Len(p) = (Continuations(Len(d)) + 1) * PacketSize
  PROVE  Unwrapped(p)[Continuations(Len(d))] = d
<1> DEFINE n == Len(d)
           m == Continuations(n)
           u == Unwrapped(p)
           e(i) == Offset(i) + BlockLen(n, i)
           S == {i \in Nat : i <= m => u[i] = SubSeq(d, 1, e(i))}
<1>1. n \in Nat /\ m \in Nat
  <2>1. n \in Nat
    BY LenProperties DEF Bytes
  <2> QED BY <2>1, CountOfBlocks
<1>2. /\ u[0] = SubSeq(p, 8, 7 + BlockLen(n, 0))
      /\ \A i \in 0..m : i # 0 => u[i] = u[i - 1] \o SubSeq(p, i * PacketSize + 6, i * PacketSize + 5 + BlockLen(n, i))
  BY <1>1, UnwrappedSteps
<1> HIDE DEF u
<1>3. ASSUME NEW i \in 0..m
      PROVE  SubSeq(p, Place(i) + 1, Place(i) + BlockLen(n, i)) = SubSeq(d, Offset(i) + 1, e(i))
  <2>1. i \in Nat /\ i + 1 \in Nat /\ i + 1 <= m + 1
    BY <1>1
  <2>2. Place(i) + BlockLen(n, i) <= (i + 1) * PacketSize /\ Place(i) \in Nat /\ BlockLen(n, i) \in Nat
    BY <1>1, Places, BlockLens
  <2>3. (i + 1) * PacketSize <= (m + 1) * PacketSize /\ (i + 1) * PacketSize \in Nat /\ (m + 1) * PacketSize \in Nat
    BY <1>1, <2>1, TimesGrows, Rooms
  <2>4. Place(i) + BlockLen(n, i) <= Len(p)
    BY <2>2, <2>3
  <2> QED BY <2>4, BlocksFound
<1>4. 0 \in S
  <2>1. 0 \in 0..m /\ Place(0) = 7 /\ Offset(0) = 0
    BY <1>1, Offsets DEF Place
  <2>2. SubSeq(p, 7 + 1, 7 + BlockLen(n, 0)) = SubSeq(d, 0 + 1, e(0))
    BY <1>3, <2>1
  <2>3. 7 + 1 = 8 /\ 0 + 1 = 1
    OBVIOUS
  <2>4. SubSeq(p, 8, 7 + BlockLen(n, 0)) = SubSeq(d, 1, e(0))
    BY <2>2, <2>3
  <2> HIDE DEF e
  <2>5. u[0] = SubSeq(d, 1, e(0))
    BY <1>2, <2>4
  <2> QED BY <2>5
<1>5. ASSUME NEW i \in Nat, i \in S PROVE i + 1 \in S
  <2>1. SUFFICES ASSUME i + 1 <= m PROVE u[i + 1] = SubSeq(d, 1, e(i + 1))
    OBVIOUS
  <2> DEFINE j == i + 1
  <2>2. j \in 0..m /\ j # 0 /\ j - 1 = i /\ i <= m /\ i \in 0..m /\ i < m
    BY <1>1, <2>1
  <2>3. u[i] = SubSeq(d, 1, e(i))
    BY <1>5, <2>2
  <2>4. e(i) = Offset(j) /\ e(i) \in Nat /\ e(j) \in Nat /\ e(i) <= e(j) /\ e(j) <= n
    <3>1. e(i) = Offset(i + 1)
      BY <1>1, <2>2, BlockLens
    <3>2. Offset(j) \in Nat /\ BlockLen(n, j) \in Nat /\ Offset(j) + BlockLen(n, j) <= n
      BY <1>1, <2>2, BlockLens, Offsets
    <3> QED BY <3>1, <3>2
  <2>5. SubSeq(p, Place(j) + 1, Place(j) + BlockLen(n, j)) = SubSeq(d, Offset(j) + 1, e(j))
    BY <1>3, <2>2
  <2>6. Place(j) + 1 = j * PacketSize + 6 /\ Place(j) = j * PacketSize + 5
    <3>1. j * PacketSize \in Nat
      BY <1>1, <2>2, Rooms
    <3> HIDE DEF j
    <3> QED BY <2>2, <3>1 DEF Place
  <2> HIDE DEF j, e
  <2>7. u[j] = u[j - 1] \o SubSeq(p, j * PacketSize + 6, j * PacketSize + 5 + BlockLen(n, j))
    BY <1>2, <2>2
  <2>8. u[j] = SubSeq(d, 1, e(i)) \o SubSeq(d, e(i) + 1, e(j))
    BY <2>2, <2>3, <2>4, <2>5, <2>6, <2>7
  <2>9. SubSeq(d, 1, e(i)) \o SubSeq(d, e(i) + 1, e(j)) = SubSeq(d, 1, e(j))
    <3> DEFINE x == e(i)
               y == e(j)
    <3>1. d \in Seq(0..255)
      BY DEF Bytes
    <3>2. x \in Nat /\ y \in Nat /\ x <= y /\ y <= n
      BY <2>4
    <3> HIDE DEF x, y
    <3>3. 1 \in 1..(Len(d) + 1) /\ x \in (1 - 1)..Len(d) /\ y \in x..Len(d)
      BY <1>1, <3>2
    <3>4. SubSeq(d, 1, x) \o SubSeq(d, x + 1, y) = SubSeq(d, 1, y)
      BY <3>1, <3>3, ConcatAdjacentSubSeq
    <3> QED BY <3>4 DEF x, y
  <2>10. u[j] = SubSeq(d, 1, e(j))
    BY <2>8, <2>9
  <2> QED BY <2>10 DEF j
<1>6. \A i \in Nat : i \in S
  <2> HIDE DEF S
  <2> QED BY <1>4, <1>5, SetInduction
<1>7. u[m] = SubSeq(d, 1, e(m))
  <2>1. m \in S /\ m <= m
    BY <1>1, <1>6
  <2> QED BY <2>1
<1>8. e(m) = n
  <2>1. m \in 0..m /\ ~(m < m)
    BY <1>1
  <2> QED BY <1>1, <2>1, BlockLens
<1>9. SubSeq(d, 1, n) = d
  <2>1. d \in Seq(0..255)
    BY DEF Bytes
  <2> QED BY <2>1, SubSeqFull
<1> HIDE DEF e, m, n
<1>10. u[m] = d
  BY <1>7, <1>8, <1>9
<1> QED BY <1>10 DEF u, m, n

(* UnwrapApdu, called on the first reports of a message, makes nothing of them *)
(* until they are all there, and then the message; it never reads behind them. *)
THEOREM Unwraps ==
  ASSUME NEW d \in Bytes, Len(d) < Sizes, NEW k \in 1..Len(Reports(d))
  PROVE  /\ UnwrapApdu(Flat(d, k)) = IF k = Len(Reports(d)) THEN d ELSE <<>>
         /\ ~ReadsPastEnd(Flat(d, k))
<1> DEFINE p == Flat(d, k)
           n == Len(d)
           m == Continuations(n)
<1>1. n \in Nat /\ m \in Nat /\ k \in Nat /\ Len(Reports(d)) = m + 1 /\ k <= m + 1 /\ k >= 1
  <2>1. n \in Nat
    BY LenProperties DEF Bytes
  <2>2. Len(Reports(d)) = m + 1 /\ m \in Nat
    BY ReportsOf
  <2> QED BY <2>1, <2>2
<1>2. p \in Bytes /\ Len(p) = k * PacketSize /\ k * PacketSize \in Nat
  <2>1. k \in 0..Len(Reports(d))
    BY <1>1
  <2> QED BY <2>1, FlatBytes
<1>3. ResponseLength(p) = n /\ Len(p) >= PacketSize /\ \A i \in 0..(k - 1) : InPlace(d, p, i)
  BY FlatLaid DEF ResponseLength
<1> HIDE DEF p
<1>4. ASSUME NEW i \in 0..(k - 1)
      PROVE  /\ HasHead(p, i * PacketSize, i) /\ i * PacketSize < Len(p) /\ i * PacketSize \in Nat
             /\ i * PacketSize + 5 + (IF i = 0 THEN 2 ELSE 0) + BlockLen(n, i) <= Len(p)
             /\ BlockLen(n, i) \in Nat
  <2>1. i \in 0..m /\ i + 1 \in Nat /\ i + 1 <= k /\ i \in Nat
    BY <1>1
  <2>2. /\ i * PacketSize \in Nat /\ (i + 1) * PacketSize = i * PacketSize + PacketSize
        /\ Place(i) \in Nat /\ Place(i) + BlockLen(n, i) <= (i + 1) * PacketSize
        /\ BlockLen(n, i) \in Nat
    BY <1>1, <2>1, Places, BlockLens
  <2>3. (i + 1) * PacketSize <= k * PacketSize
    BY <1>1, <2>1, TimesGrows, Rooms
  <2> DEFINE x == i * PacketSize
             y == (i + 1) * PacketSize
             z == k * PacketSize
  <2>4. Place(i) = x + 5 + (IF i = 0 THEN 2 ELSE 0)
    <3>1. CASE i = 0
      <4>1. x = 0
        BY <3>1, Rooms
      <4> QED BY <3>1, <4>1 DEF Place
    <3>2. CASE i # 0
      BY <2>2, <3>2 DEF Place
    <3> QED BY <3>1, <3>2
  <2>5. x \in Nat /\ y = x + PacketSize /\ y <= z /\ z \in Nat /\ Place(i) + BlockLen(n, i) <= y
    BY <1>2, <2>2, <2>3
  <2>6. Len(p) = z
    BY <1>2
  <2> HIDE DEF x, y, z
  <2>7. x + 5 <= Len(p) /\ x < Len(p) /\ x + 5 + (IF i = 0 THEN 2 ELSE 0) + BlockLen(n, i) <= Len(p)
    BY <2>2, <2>4, <2>5, <2>6, Rooms
  <2>8. HasHead(p, x, i)
    <3>1. InPlace(d, p, i) /\ p \in Bytes
      BY <1>2, <1>3
    <3> QED BY <2>1, <2>7, <3>1, HeadsFound DEF x
  <2> QED BY <2>2, <2>5, <2>7, <2>8 DEF x
<1>5. AtEnd(p, k * PacketSize)
  BY <1>2 DEF AtEnd
<1>6. ASSUME k = m + 1
      PROVE  /\ ~TooShort(p) /\ \A i \in 1..m : ~AtEnd(p, i * PacketSize) /\ HasHead(p, i * PacketSize, i)
             /\ Unwrapped(p)[m] = d
  <2>1. HasHead(p, 0, 0)
    <3>1. 0 \in 0..(k - 1) /\ 0 * PacketSize = 0
      BY <1>1, Rooms
    <3>2. HasHead(p, 0 * PacketSize, 0)
      BY <1>4, <3>1
    <3> QED BY <3>1, <3>2
  <2>2. 7 + n <= Len(p)
    <3>1. m \in 0..(k - 1) /\ m \in 0..m
      BY <1>1, <1>6
    <3>2. m * PacketSize + 5 + (IF m = 0 THEN 2 ELSE 0) + BlockLen(n, m) <= Len(p) /\ m * PacketSize \in Nat
      BY <1>4, <3>1
    <3>3. Offset(m) + BlockLen(n, m) = n /\ BlockLen(n, m) \in Nat
      BY <1>1, <3>1, BlockLens
    <3>4. CASE m = 0
      <4>1. Offset(m) = 0 /\ m * PacketSize = 0
        BY <3>4, Offsets, Rooms
      <4>2. 0 + 5 + 2 + BlockLen(n, m) <= Len(p) /\ BlockLen(n, m) = n
        BY <1>1, <3>2, <3>3, <3>4, <4>1
      <4> QED BY <1>1, <1>2, <4>2
    <3>5. CASE m # 0
      <4>1. m - 1 \in Nat /\ NextRoom <= PacketSize /\ m - 1 <= m - 1
        BY <1>1, <3>5, Rooms
      <4>2. Offset(m) = FirstRoom + (m - 1) * NextRoom
        BY <3>5 DEF Offset
      <4>3. NextRoom * (m - 1) <= PacketSize * (m - 1) /\ NextRoom * (m - 1) \in Nat
        BY <4>1, TimesGrows, Rooms
      <4>4. NextRoom * (m - 1) = (m - 1) * NextRoom /\ PacketSize * (m - 1) = m * PacketSize - PacketSize
        BY <1>1, Rooms
      <4> DEFINE x == m * PacketSize
                 y == (m - 1) * NextRoom
      <4>5. Offset(m) = FirstRoom + y /\ y <= x - PacketSize /\ x \in Nat /\ y \in Nat
            /\ x + 5 + BlockLen(n, m) <= Len(p)
        BY <3>2, <3>3, <3>5, <4>2, <4>3, <4>4
      <4> HIDE DEF x, y
      <4> QED BY <1>1, <1>2, <3>3, <4>5, Rooms
    <3> QED BY <3>4, <3>5
  <2>3. ~TooShort(p)
    <3>1. Len(p) >= 12 /\ Len(p) \in Nat
      BY <1>2, <1>3, Rooms
    <3> QED BY <1>1, <1>3, <2>1, <2>2, <3>1 DEF TooShort
  <2>4. \A i \in 1..m : ~AtEnd(p, i * PacketSize) /\ HasHead(p, i * PacketSize, i)
    <3> TAKE i \in 1..m
    <3>1. i \in 0..(k - 1)
      BY <1>1, <1>6
    <3>2. HasHead(p, i * PacketSize, i) /\ i * PacketSize < Len(p) /\ i * PacketSize \in Nat
      BY <1>4, <3>1
    <3>3. i * PacketSize # Len(p)
      BY <1>2, <3>2
    <3> QED BY <3>2, <3>3 DEF AtEnd
  <2>5. Unwrapped(p)[m] = d
    <3>1. \A i \in 0..m : InPlace(d, p, i)
      BY <1>1, <1>3, <1>6
    <3>2. Len(p) = (m + 1) * PacketSize
      BY <1>2, <1>6
    <3> QED BY <1>2, <1>3, <3>1, <3>2, UnwrapsBlocks
  <2> QED BY <2>3, <2>4, <2>5
<1>7. UnwrapApdu(p) = IF k = m + 1 THEN d ELSE <<>>
  <2>1. CASE k = m + 1
    BY <1>3, <1>6, <2>1 DEF UnwrapApdu
  <2>2. CASE k # m + 1
    <3>1. k \in 1..m
      BY <1>1, <2>2
    <3> QED BY <1>3, <1>5, <2>2, <3>1 DEF UnwrapApdu
  <2> QED BY <2>1, <2>2
<1>8. ~ReadsPastEnd(p)
  <2>1. SUFFICES ASSUME NEW i \in 1..m, \A j \in 1..i : ~AtEnd(p, j * PacketSize),
                        i * PacketSize + 5 + BlockLen(n, i) > Len(p)
                 PROVE  FALSE
    BY <1>3 DEF ReadsPastEnd
  <2>2. ~(k <= i)
    <3>1. k <= i => k \in 1..i
      BY <1>1
    <3> QED BY <1>5, <2>1, <3>1
  <2>3. i \in 0..(k - 1) /\ i # 0
    BY <1>1, <2>2
  <2>4. i * PacketSize + 5 + (IF i = 0 THEN 2 ELSE 0) + BlockLen(n, i) <= Len(p) /\ i * PacketSize \in Nat /\ BlockLen(n, i) \in Nat
    BY <1>4, <2>3
  <2> DEFINE x == i * PacketSize
  <2> HIDE DEF x
  <2>5. x + 5 + 0 + BlockLen(n, i) <= Len(p) /\ x + 5 + BlockLen(n, i) > Len(p) /\ x \in Nat /\ BlockLen(n, i) \in Nat
    BY <2>1, <2>3, <2>4 DEF x
  <2> QED BY <1>2, <2>5
<1> QED BY <1>1, <1>7, <1>8 DEF p
=============================================================================
