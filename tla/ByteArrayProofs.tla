---------------------------- MODULE ByteArrayProofs ----------------------------
(***************************************************************************)
(* What the proofs about the program's conversions need: induction on the      *)
(* numbers, stated with sets so that nothing has to be instantiated,           *)
(* division, and how bytes are put together and cut.                          *)
(***************************************************************************)
EXTENDS ByteArray, SequenceTheorems, WellFoundedInduction, TLAPS

(* There is no number below every one of a set of numbers that has any.       *)
LEMMA LeastElement ==
  ASSUME NEW T, T \subseteq Nat, T # {}
  PROVE  \E x \in T : \A y \in T : x <= y
<1> DEFINE R == {p \in Nat \X Nat : p[1] < p[2]}
<1>1. IsWellFoundedOn(R, Nat)
  <2>1. OpToRel(<, Nat) = R
    BY DEF OpToRel
  <2> HIDE DEF R
  <2> QED BY <2>1, NatLessThanWellFounded
<1>2. \A x, y \in Nat : <<y, x>> \in R <=> y < x
  OBVIOUS
<1> HIDE DEF R
<1>3. PICK x \in T : \A y \in T : <<y, x>> \notin R
  BY <1>1, WFMin
<1>4. \A y \in T : x <= y
  <2> TAKE y \in T
  <2>1. x \in Nat /\ y \in Nat /\ ~(y < x)
    BY <1>2, <1>3
  <2> QED BY <2>1
<1> QED BY <1>4

(* Induction over the numbers.                                              *)
LEMMA SetInduction ==
  ASSUME NEW S, 0 \in S, \A n \in Nat : n \in S => n + 1 \in S
  PROVE  \A n \in Nat : n \in S
<1> DEFINE T == {n \in Nat : n \notin S}
<1>1. SUFFICES ASSUME T # {} PROVE FALSE
  OBVIOUS
<1>2. T \subseteq Nat
  OBVIOUS
<1> HIDE DEF T
<1>3. PICK x \in T : \A y \in T : x <= y
  BY <1>1, <1>2, LeastElement
<1>4. x \in Nat /\ x \notin S /\ x # 0
  BY DEF T
<1>5. x - 1 \in Nat /\ (x - 1) + 1 = x
  BY <1>4
<1>6. x - 1 \in S
  BY <1>3, <1>5 DEF T
<1> QED BY <1>4, <1>5, <1>6

-----------------------------------------------------------------------------
(* A product grows with its factors.                                        *)
LEMMA TimesGrows ==
  ASSUME NEW a \in Nat, NEW b \in Nat, a <= b, NEW c \in Nat
  PROVE  a * c <= b * c /\ a * c \in Nat
<1>1. b - a \in Nat /\ a + (b - a) = b
  OBVIOUS
<1>2. (b - a) * c \in Nat /\ a * c \in Nat
  BY <1>1
<1>3. b * c = a * c + (b - a) * c
  OBVIOUS
<1> QED BY <1>2, <1>3

(* Quotient and remainder of what is written with them.                      *)
LEMMA Quotient ==
  ASSUME NEW b \in Nat \ {0}, NEW q \in Int, NEW r \in 0..(b - 1)
  PROVE  (b * q + r) \div b = q /\ (b * q + r) % b = r
OBVIOUS

(* The quotient of a multiple.                                              *)
LEMMA Multiple ==
  ASSUME NEW b \in Nat \ {0}, NEW q \in Int
  PROVE  (q * b) \div b = q
OBVIOUS

(* A number is made of its quotient and remainder.                           *)
LEMMA Division ==
  ASSUME NEW a \in Nat, NEW b \in Nat \ {0}
  PROVE  a \div b \in Nat /\ a % b \in 0..(b - 1) /\ b * (a \div b) + (a % b) = a
<1>1. a \div b \in Int /\ a % b \in Int
  OBVIOUS
<1>2. a % b >= 0 /\ a % b < b /\ b * (a \div b) + (a % b) = a
  OBVIOUS
<1>3. a \div b >= 0
  OBVIOUS
<1> QED BY <1>1, <1>2, <1>3

(* A number below the divisor is its own remainder.                          *)
LEMMA SmallRemainder ==
  ASSUME NEW b \in Nat, NEW a \in Nat, a < b
  PROVE  a % b = a
OBVIOUS

-----------------------------------------------------------------------------
(* The smaller of two numbers.                                              *)
LEMMA MinOfTwo ==
  ASSUME NEW a \in Int, NEW b \in Int
  PROVE  Min({a, b}) = IF a <= b THEN a ELSE b
<1>1. \E x \in {a, b} : \A y \in {a, b} : x <= y
  OBVIOUS
<1>2. Min({a, b}) \in {a, b} /\ \A y \in {a, b} : Min({a, b}) <= y
  BY <1>1 DEF Min
<1> QED BY <1>2

(* Bytes after bytes.                                                       *)
LEMMA ConcatBytes ==
  ASSUME NEW s \in Bytes, NEW t \in Bytes
  PROVE  /\ Len(s) \in Nat /\ Len(t) \in Nat
         /\ s \o t \in Bytes /\ Len(s \o t) = Len(s) + Len(t)
         /\ \A k \in 1..Len(s) : (s \o t)[k] = s[k]
         /\ \A k \in 1..Len(t) : (s \o t)[Len(s) + k] = t[k]
<1>1. Len(s) \in Nat /\ Len(t) \in Nat
  BY LenProperties DEF Bytes
<1>2. /\ s \o t \in Bytes /\ Len(s \o t) = Len(s) + Len(t)
      /\ \A k \in 1..(Len(s) + Len(t)) : (s \o t)[k] = IF k <= Len(s) THEN s[k] ELSE t[k - Len(s)]
  BY ConcatProperties DEF Bytes
<1>3. \A k \in 1..Len(t) : Len(s) + k \in 1..(Len(s) + Len(t)) /\ ~(Len(s) + k <= Len(s)) /\ (Len(s) + k) - Len(s) = k
  BY <1>1
<1>4. \A k \in 1..Len(s) : k \in 1..(Len(s) + Len(t)) /\ k <= Len(s)
  BY <1>1
<1> QED BY <1>1, <1>2, <1>3, <1>4

(* Bytes after bytes after bytes.                                            *)
LEMMA ConcatThree ==
  ASSUME NEW a \in Bytes, NEW b \in Bytes, NEW c \in Bytes
  PROVE  a \o b \o c \in Bytes /\ Len(a \o b \o c) = Len(a) + Len(b) + Len(c)
<1>1. a \o b \in Bytes /\ Len(a \o b) = Len(a) + Len(b)
  BY ConcatBytes
<1>2. (a \o b) \o c \in Bytes /\ Len((a \o b) \o c) = Len(a \o b) + Len(c)
  BY <1>1, ConcatBytes
<1> QED BY <1>1, <1>2

(* Bytes of bytes, from behind a up to b.                                    *)
LEMMA SubBytes ==
  ASSUME NEW w \in Bytes, NEW a \in Nat, NEW b \in Nat, a <= b, b <= Len(w)
  PROVE  /\ SubSeq(w, a + 1, b) \in Bytes /\ Len(SubSeq(w, a + 1, b)) = b - a
         /\ \A k \in 1..(b - a) : SubSeq(w, a + 1, b)[k] = w[a + k]
<1>1. Len(w) \in Nat /\ w \in [1..Len(w) -> 0..255]
  BY LenProperties DEF Bytes
<1>2. ASSUME NEW k \in (a + 1)..b PROVE w[k] \in 0..255
  <2>1. k \in 1..Len(w)
    BY <1>1
  <2> QED BY <1>1, <2>1
<1>3. a + 1 \in Int /\ b \in Int
  OBVIOUS
<1>4. /\ SubSeq(w, a + 1, b) \in Seq(0..255)
      /\ Len(SubSeq(w, a + 1, b)) = IF a + 1 <= b THEN b - (a + 1) + 1 ELSE 0
      /\ \A k \in 1..(b - (a + 1) + 1) : SubSeq(w, a + 1, b)[k] = w[(a + 1) + k - 1]
  BY <1>2, <1>3, SubSeqProperties
<1>5. /\ b - (a + 1) + 1 = b - a /\ (IF a + 1 <= b THEN b - (a + 1) + 1 ELSE 0) = b - a
      /\ \A k \in 1..(b - a) : (a + 1) + k - 1 = a + k
  OBVIOUS
<1> QED BY <1>4, <1>5 DEF Bytes

(* The first b bytes of bytes.                                              *)
LEMMA PrefixBytes ==
  ASSUME NEW w \in Bytes, NEW b \in Nat, b <= Len(w)
  PROVE  /\ SubSeq(w, 1, b) \in Bytes /\ Len(SubSeq(w, 1, b)) = b
         /\ \A k \in 1..b : SubSeq(w, 1, b)[k] = w[k]
<1>1. Len(w) \in Nat /\ w \in [1..Len(w) -> 0..255]
  BY LenProperties DEF Bytes
<1>2. ASSUME NEW k \in 1..b PROVE w[k] \in 0..255
  <2>1. k \in 1..Len(w)
    BY <1>1
  <2> QED BY <1>1, <2>1
<1>3. 1 \in Int /\ b \in Int
  OBVIOUS
<1>4. /\ SubSeq(w, 1, b) \in Seq(0..255)
      /\ Len(SubSeq(w, 1, b)) = IF 1 <= b THEN b - 1 + 1 ELSE 0
      /\ \A k \in 1..(b - 1 + 1) : SubSeq(w, 1, b)[k] = w[1 + k - 1]
  BY <1>2, <1>3, SubSeqProperties
<1>5. /\ b - 1 + 1 = b /\ (IF 1 <= b THEN b - 1 + 1 ELSE 0) = b
      /\ \A k \in 1..b : 1 + k - 1 = k
  OBVIOUS
<1> QED BY <1>4, <1>5 DEF Bytes

(* A number of two bytes is read as it was written.                          *)
LEMMA ShortBytes ==
  ASSUME NEW n \in Nat, n < Sizes
  PROVE  /\ Short(n) \in Bytes /\ Len(Short(n)) = 2
         /\ 256 * Short(n)[1] + Short(n)[2] = n
<1>1. /\ (n \div 256) \in 0..255 /\ (n \div 256) % 256 = n \div 256
      /\ n % 256 \in 0..255 /\ 256 * (n \div 256) + (n % 256) = n
  BY DEF Sizes
<1>2. Short(n) = <<n \div 256, n % 256>>
  BY <1>1 DEF Short
<1> QED BY <1>1, <1>2 DEF Bytes

(* A piece of a sequence, as it is queued and taken.                         *)
LEMMA Pieces ==
  ASSUME NEW X, NEW s \in Seq(X), NEW i \in Nat, NEW j \in Nat, i <= j, j <= Len(s)
  PROVE  /\ SubSeq(s, i + 1, j) \in Seq(X) /\ Len(SubSeq(s, i + 1, j)) = j - i
         /\ i = j => SubSeq(s, i + 1, j) = <<>>
         /\ i # j => /\ SubSeq(s, i + 1, j) # <<>>
                     /\ Head(SubSeq(s, i + 1, j)) = s[i + 1]
                     /\ Tail(SubSeq(s, i + 1, j)) = SubSeq(s, (i + 1) + 1, j)
         /\ j # Len(s) => Append(SubSeq(s, i + 1, j), s[j + 1]) = SubSeq(s, i + 1, j + 1)
<1> DEFINE q == SubSeq(s, i + 1, j)
<1>1. Len(s) \in Nat /\ s \in [1..Len(s) -> X]
  BY LenProperties
<1>2. q \in Seq(X) /\ Len(q) = j - i
  <2>1. \A k \in (i + 1)..j : s[k] \in X
    <3>1. \A k \in (i + 1)..j : k \in 1..Len(s)
      BY <1>1
    <3> QED BY <1>1, <3>1
  <2>2. i + 1 \in Int /\ j \in Int /\ (IF i + 1 <= j THEN j - (i + 1) + 1 ELSE 0) = j - i
    OBVIOUS
  <2>3. SubSeq(s, i + 1, j) \in Seq(X)
        /\ Len(SubSeq(s, i + 1, j)) = IF i + 1 <= j THEN j - (i + 1) + 1 ELSE 0
    BY <2>1, <2>2, SubSeqProperties
  <2> QED BY <2>2, <2>3
<1>3. i = j => q = <<>>
  <2>1. i = j => i + 1 \in Int /\ j \in Int /\ j < i + 1
    OBVIOUS
  <2> QED BY <2>1, SubSeqEmpty
<1>4. ASSUME i # j
      PROVE  q # <<>> /\ Head(q) = s[i + 1] /\ Tail(q) = SubSeq(s, (i + 1) + 1, j)
  <2>1. i + 1 \in 1..Len(s) /\ j \in (i + 1)..Len(s) /\ j - i # 0
    BY <1>1, <1>4
  <2>2. Head(q) = s[i + 1] /\ Tail(q) = SubSeq(s, (i + 1) + 1, j)
    BY <2>1, HeadTailOfSubSeq
  <2> HIDE DEF q
  <2>3. q # <<>>
    BY <1>2, <2>1, EmptySeq
  <2> QED BY <2>2, <2>3
<1>5. ASSUME j # Len(s) PROVE Append(q, s[j + 1]) = SubSeq(s, i + 1, j + 1)
  <2>1. i + 1 \in 1..Len(s) /\ j + 1 \in (i + 1)..Len(s) /\ (j + 1) - 1 = j /\ j + 1 \in 1..Len(s)
    <3>1. Len(s) \in Nat
      BY <1>1
    <3> QED BY <1>5, <3>1
  <2>2. SubSeq(s, i + 1, j + 1) = SubSeq(s, i + 1, (j + 1) - 1) \o << s[j + 1] >>
    BY <2>1, SubSeqRecursiveSecond
  <2>3. SubSeq(s, i + 1, j + 1) = q \o << s[j + 1] >>
    BY <2>1, <2>2
  <2>4. s[j + 1] \in X
    BY <1>1, <2>1
  <2> HIDE DEF q
  <2> QED BY <1>2, <2>3, <2>4, AppendIsConcat
<1> QED BY <1>2, <1>3, <1>4, <1>5

-----------------------------------------------------------------------------
(* Bytes that are written in others at an offset.                            *)
Placed(w, offset, d) ==
  /\ offset + Len(d) <= Len(w)
  /\ \A k \in 1..Len(d) : w[offset + k] = d[k]

(* All bytes are in themselves.                                             *)
LEMMA PlacedWhole ==
  ASSUME NEW d \in Bytes
  PROVE  Placed(d, 0, d)
<1>1. Len(d) \in Nat /\ \A k \in 1..Len(d) : 0 + k = k
  BY LenProperties DEF Bytes
<1> QED BY <1>1 DEF Placed

(* The parts of what is in place are in place.                               *)
LEMMA PlacedParts ==
  ASSUME NEW w, Len(w) \in Nat, NEW offset \in Nat, NEW a \in Bytes, NEW b \in Bytes,
         Placed(w, offset, a \o b)
  PROVE  Placed(w, offset, a) /\ Placed(w, offset + Len(a), b)
<1>1. /\ Len(a) \in Nat /\ Len(b) \in Nat /\ Len(a \o b) = Len(a) + Len(b)
      /\ \A k \in 1..Len(a) : (a \o b)[k] = a[k]
      /\ \A k \in 1..Len(b) : (a \o b)[Len(a) + k] = b[k]
  BY ConcatBytes
<1>2. offset + (Len(a) + Len(b)) <= Len(w) /\ \A k \in 1..(Len(a) + Len(b)) : w[offset + k] = (a \o b)[k]
  BY <1>1 DEF Placed
<1>3. \A k \in 1..Len(a) : k \in 1..(Len(a) + Len(b))
  BY <1>1
<1>4. \A k \in 1..Len(b) : Len(a) + k \in 1..(Len(a) + Len(b)) /\ offset + (Len(a) + k) = (offset + Len(a)) + k
  BY <1>1
<1>5. offset + Len(a) <= Len(w) /\ (offset + Len(a)) + Len(b) <= Len(w)
  BY <1>1, <1>2
<1> QED BY <1>1, <1>2, <1>3, <1>4, <1>5 DEF Placed

(* Four bytes of a number, and what is read of them.                         *)
LEMMA Int32Bytes ==
  ASSUME NEW n \in Nat
  PROVE  Int32(n) \in Bytes /\ Len(Int32(n)) = 4
<1>1. \A m \in Nat : Short(m) \in Bytes /\ Len(Short(m)) = 2
  <2> TAKE m \in Nat
  <2>1. (m \div 256) % 256 \in 0..255 /\ m % 256 \in 0..255
    OBVIOUS
  <2> QED BY <2>1 DEF Short, Bytes
<1>2. Sizes \in Nat \ {0}
  BY DEF Sizes
<1>3. n \div Sizes \in Nat
  BY <1>2, Division
<1> DEFINE a == Short(n \div Sizes)
           b == Short(n)
<1>4. a \in Bytes /\ Len(a) = 2 /\ b \in Bytes /\ Len(b) = 2 /\ Int32(n) = a \o b
  BY <1>1, <1>3 DEF Int32
<1> HIDE DEF a, b
<1>5. a \o b \in Bytes /\ Len(a \o b) = Len(a) + Len(b)
  BY <1>4, ConcatBytes
<1> QED BY <1>4, <1>5

(* The number is read again, if two bytes would do for it.                    *)
LEMMA Int32Read ==
  ASSUME NEW w, Len(w) \in Nat, NEW offset \in Nat, NEW n \in Nat, n < Sizes, Placed(w, offset, Int32(n))
  PROVE  AsInt(w, offset) = n
<1>1. Sizes \in Nat \ {0} /\ 0 < Sizes
  BY DEF Sizes
<1>2. n \div Sizes = 0
  BY <1>1
<1> DEFINE z == 0
           a == Short(z)
           b == Short(n)
<1>3. z \in Nat /\ z < Sizes /\ Int32(n) = a \o b
  BY <1>1, <1>2 DEF Int32
<1> HIDE DEF z
<1>4. /\ a \in Bytes /\ Len(a) = 2 /\ 256 * a[1] + a[2] = z
      /\ b \in Bytes /\ Len(b) = 2 /\ 256 * b[1] + b[2] = n
  BY <1>3, ShortBytes
<1> HIDE DEF a, b
<1>5. Placed(w, offset, a) /\ Placed(w, offset + Len(a), b)
  <2>1. Placed(w, offset, a \o b)
    BY <1>3
  <2>2. a \in Bytes /\ b \in Bytes
    BY <1>4
  <2> QED BY <2>1, <2>2, PlacedParts
<1>6. w[offset + 1] = a[1] /\ w[offset + 2] = a[2]
  <2>1. 1 \in 1..Len(a) /\ 2 \in 1..Len(a)
    BY <1>4
  <2> QED BY <1>5, <2>1 DEF Placed
<1>7. w[(offset + 2) + 1] = b[1] /\ w[(offset + 2) + 2] = b[2]
  <2>1. 1 \in 1..Len(b) /\ 2 \in 1..Len(b)
    BY <1>4
  <2> QED BY <1>4, <1>5, <2>1 DEF Placed
<1>8. AsShort(w, offset) = 0 /\ AsShort(w, offset + 2) = n
  BY <1>4, <1>6, <1>7 DEF AsShort, z
<1>9. Sizes * 0 + n = n
  BY <1>1
<1> QED BY <1>8, <1>9 DEF AsInt

(* They are read where they are.                                            *)
LEMMA PlacedRead ==
  ASSUME NEW w \in Bytes, NEW offset \in Nat, NEW d \in Bytes, Placed(w, offset, d)
  PROVE  SubSeq(w, offset + 1, offset + Len(d)) = d
<1> DEFINE n == Len(d)
           b == offset + n
<1>1. n \in Nat
  BY LenProperties DEF Bytes
<1>2. b \in Nat /\ offset <= b /\ b <= Len(w) /\ b - offset = n
  BY <1>1 DEF Placed
<1>3. \A k \in 1..n : w[offset + k] = d[k]
  BY DEF Placed
<1> HIDE DEF n, b
<1> DEFINE s == SubSeq(w, offset + 1, b)
<1>4. s \in Bytes /\ Len(s) = b - offset /\ \A k \in 1..(b - offset) : s[k] = w[offset + k]
  BY <1>2, SubBytes
<1>5. s \in Seq(0..255) /\ d \in Seq(0..255) /\ Len(s) = Len(d) /\ \A k \in 1..Len(s) : s[k] = d[k]
  BY <1>2, <1>3, <1>4 DEF Bytes, n
<1> HIDE DEF s
<1>6. s = d
  BY <1>5, SeqEqual
<1> QED BY <1>6 DEF s, b, n

(* A string is bytes.                                                       *)
LEMMA StringBytes ==
  ASSUME NEW d \in Bytes
  PROVE  String(d) \in Bytes /\ Len(String(d)) = 4 + Len(d) /\ Len(d) \in Nat
<1>1. Len(d) \in Nat
  BY LenProperties DEF Bytes
<1>2. Int32(Len(d)) \in Bytes /\ Len(Int32(Len(d))) = 4
  BY <1>1, Int32Bytes
<1> DEFINE h == Int32(Len(d))
<1> HIDE DEF h
<1>3. h \o d \in Bytes /\ Len(h \o d) = Len(h) + Len(d)
  BY <1>2, ConcatBytes DEF h
<1> QED BY <1>1, <1>2, <1>3 DEF String, h

(* A string is read as it was written.                                       *)
LEMMA StringRead ==
  ASSUME NEW w \in Bytes, NEW offset \in Nat, NEW d \in Bytes, Len(d) < Sizes,
         Placed(w, offset, String(d))
  PROVE  /\ AsInt(w, offset) = Len(d) /\ ReadString(w, offset) = d
         /\ Placed(w, offset + 4, d) /\ offset + 4 + Len(d) <= Len(w)
<1>1. Len(d) \in Nat /\ Len(w) \in Nat
  BY LenProperties DEF Bytes
<1> DEFINE h == Int32(Len(d))
           n == Len(d)
<1>2. h \in Bytes /\ Len(h) = 4
  BY <1>1, Int32Bytes
<1>3. Placed(w, offset, h \o d)
  BY DEF String
<1>4. Placed(w, offset, h) /\ Placed(w, offset + Len(h), d)
  <2> HIDE DEF h
  <2> QED BY <1>1, <1>2, <1>3, PlacedParts
<1>5. AsInt(w, offset) = n
  BY <1>1, <1>4, Int32Read
<1>6. Placed(w, offset + 4, d)
  BY <1>2, <1>4
<1>7. SubSeq(w, (offset + 4) + 1, (offset + 4) + n) = d
  <2>1. offset + 4 \in Nat
    OBVIOUS
  <2> QED BY <1>6, <2>1, PlacedRead
<1>8. (offset + 4) + 1 = offset + 5 /\ (offset + 4) + n = offset + 4 + n
  BY <1>1
<1>9. ReadString(w, offset) = d
  BY <1>5, <1>7, <1>8 DEF ReadString
<1>10. offset + 4 + n <= Len(w)
  BY <1>1, <1>6 DEF Placed
<1> QED BY <1>5, <1>6, <1>9, <1>10
=============================================================================
