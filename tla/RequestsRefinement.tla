-------------------------- MODULE RequestsRefinement --------------------------
(***************************************************************************)
(* That the requests of clients, byte for byte, are served like those of a     *)
(* key agent: what a client reads from its mapping, taken apart by the         *)
(* protocol, is an answer that module KeyAgent allows, and a list says how      *)
(* many keys it has.  Clients that die leave handlers that serve nobody; they   *)
(* write in the mappings of clients with the same names, and never in those     *)
(* of the others.                                                           *)
(***************************************************************************)
EXTENDS RequestsProofs

-----------------------------------------------------------------------------
(* A recursion from each number up to N to a greater one.                     *)
Follows(f, N, e, h) ==
  /\ f = [n \in 0..N |-> f[n]]
  /\ \A n \in 0..N : f[n] = IF e[n] > N THEN <<>> ELSE <<h[n]>> \o f[e[n]]

(* There is one (StringsFrom is a recursion of this kind).                    *)
LEMMA Chain ==
  ASSUME NEW N \in Nat, NEW e, NEW h, \A n \in 0..N : e[n] \in Nat /\ e[n] > n
  PROVE  \E f : Follows(f, N, e, h)
<1> DEFINE next(f, n) == IF e[n] > N THEN <<>> ELSE <<h[n]>> \o f[e[n]]
           G(f, k) == f = [n \in (N - k)..N |-> next(f, n)]
           T == {k \in Nat : k <= N => \E f : G(f, k)}
<1>1. 0 \in T
  <2>1. (N - 0)..N = {N} /\ e[N] > N
    OBVIOUS
  <2>2. G([n \in (N - 0)..N |-> <<>>], 0)
    BY <2>1
  <2> QED BY <2>2
<1>2. ASSUME NEW k \in Nat, k \in T
      PROVE  k + 1 \in T
  <2>1. SUFFICES ASSUME k + 1 <= N PROVE \E g : G(g, k + 1)
    <3> HIDE DEF G
    <3> QED OBVIOUS
  <2>2. PICK f : G(f, k)
    <3>1. k <= N
      BY <2>1
    <3> HIDE DEF G
    <3> QED BY <1>2, <3>1
  <2> DEFINE a == N - (k + 1)
             g == [n \in a..N |-> IF n = a THEN next(f, a) ELSE f[n]]
  <2>3. a \in 0..N /\ \A n \in a..N : n \in 0..N /\ e[n] \in Nat /\ e[n] > n
        /\ (n # a => n \in (N - k)..N) /\ (e[n] <= N => e[n] \in (N - k)..N /\ e[n] \in a..N /\ e[n] # a)
    BY <2>1
  <2>4. \A n \in a..N : g[n] = next(g, n)
    <3> TAKE n \in a..N
    <3>1. e[n] <= N => g[e[n]] = f[e[n]]
      BY <2>3
    <3>2. e[n] \in Nat
      BY <2>3
    <3>3. next(g, n) = next(f, n)
      BY <3>1, <3>2
    <3>4. CASE n = a
      BY <3>3, <3>4
    <3>5. CASE n # a
      <4>1. g[n] = f[n] /\ n \in (N - k)..N
        BY <2>3, <3>5
      <4>2. f[n] = next(f, n)
        BY <2>2, <4>1
      <4> QED BY <3>3, <4>1, <4>2
    <3> QED BY <3>4, <3>5
  <2>5. G(g, k + 1)
    BY <2>4
  <2> HIDE DEF g, G
  <2> QED BY <2>5
<1>3. N \in T
  <2>1. \A k \in Nat : k \in T
    <3> HIDE DEF T
    <3> QED BY <1>1, <1>2, SetInduction
  <2> QED BY <2>1
<1>4. PICK f : G(f, N)
  BY <1>3
<1>5. N - N = 0
  OBVIOUS
<1>6. f = [n \in 0..N |-> next(f, n)]
  BY <1>4, <1>5
<1> QED BY <1>6 DEF Follows

(* The strings in some bytes: none from offset n on if there is no whole one,   *)
(* else the first one and those behind it.                                  *)
LEMMA Strings ==
  ASSUME NEW d \in Bytes, NEW n \in Nat, n <= Len(d), NEW e, e = n + 4 + AsInt(d, n)
  PROVE  /\ n + 4 > Len(d) => StringsFrom(d, n) = <<>>
         /\ n + 4 <= Len(d) /\ e > Len(d) => StringsFrom(d, n) = <<>>
         /\ n + 4 <= Len(d) /\ e <= Len(d) => StringsFrom(d, n) = <<ReadString(d, n)>> \o StringsFrom(d, e)
<1> DEFINE N == Len(d)
           end(i) == IF i + 4 > N THEN N + 1 ELSE i + 4 + AsInt(d, i)
           G(f) == f = [i \in 0..N |-> LET l == end(i) IN IF l > N THEN <<>> ELSE <<SubSeq(d, i + 5, l)>> \o f[l]]
           s == CHOOSE f : G(f)
<1>1. N \in Nat /\ DOMAIN d = 1..N /\ \A i \in 1..N : d[i] \in 0..255
  BY LenProperties, ElementOfSeq DEF Bytes
<1>2. ASSUME NEW i \in 0..N
      PROVE  end(i) \in Nat /\ end(i) > i
  <2>1. CASE i + 4 > N
    BY <1>1, <2>1
  <2>2. CASE i + 4 <= N
    <3>1. i \in Nat /\ i + 1 \in 1..N /\ i + 2 \in 1..N /\ (i + 2) + 1 \in 1..N /\ (i + 2) + 2 \in 1..N
      BY <1>1, <2>2
    <3>2. d[i + 1] \in Nat /\ d[i + 2] \in Nat /\ d[(i + 2) + 1] \in Nat /\ d[(i + 2) + 2] \in Nat
      <4>1. 0..255 \subseteq Nat
        OBVIOUS
      <4> HIDE DEF N
      <4> QED BY <1>1, <3>1, <4>1
    <3>3. ASSUME NEW o, d[o + 1] \in Nat, d[o + 2] \in Nat
          PROVE  AsShort(d, o) \in Nat
      <4> DEFINE x == d[o + 1]
                 y == d[o + 2]
      <4>1. AsShort(d, o) = 256 * x + y /\ x \in Nat /\ y \in Nat
        BY <3>3 DEF AsShort
      <4> HIDE DEF x, y
      <4> QED BY <4>1
    <3>4. AsShort(d, i) \in Nat /\ AsShort(d, i + 2) \in Nat
      BY <3>2, <3>3
    <3>5. AsInt(d, i) \in Nat
      <4> DEFINE x == AsShort(d, i)
                 y == AsShort(d, i + 2)
      <4>1. AsInt(d, i) = 65536 * x + y /\ x \in Nat /\ y \in Nat
        BY <3>4 DEF AsInt, Sizes
      <4> HIDE DEF x, y
      <4> QED BY <4>1
    <3> QED BY <2>2, <3>5
  <2> QED BY <1>1, <2>1, <2>2
<1>3. StringsFrom(d, n) = s[n] /\ \A i : StringsFrom(d, i) = s[i]
  BY DEF StringsFrom
<1> HIDE DEF end
<1>4. \E f : G(f)
  <2> DEFINE l == [i \in 0..N |-> end(i)]
             h == [i \in 0..N |-> SubSeq(d, i + 5, end(i))]
  <2>1. \A i \in 0..N : l[i] \in Nat /\ l[i] > i /\ l[i] = end(i) /\ h[i] = SubSeq(d, i + 5, end(i))
    BY <1>2
  <2> HIDE DEF l, h
  <2>2. PICK f : Follows(f, N, l, h)
    <3>1. N \in Nat /\ \A i \in 0..N : l[i] \in Nat /\ l[i] > i
      BY <1>1, <2>1
    <3> HIDE DEF N, s, G
    <3> QED BY <3>1, Chain
  <2>3. G(f)
    BY <2>1, <2>2 DEF Follows
  <2> QED BY <2>3
<1>5. G(s)
  <2> HIDE DEF G
  <2> QED BY <1>4
<1>6. n \in 0..N
  BY <1>1
<1>7. s[n] = IF end(n) > N THEN <<>> ELSE <<SubSeq(d, n + 5, end(n))>> \o s[end(n)]
  BY <1>5, <1>6
<1> HIDE DEF s
<1>8. CASE n + 4 > N
  BY <1>1, <1>3, <1>7, <1>8 DEF end
<1>9. CASE n + 4 <= N
  <2>1. end(n) = e
    BY <1>1, <1>9 DEF end
  <2>2. e \in Nat /\ e > n
    BY <1>2, <1>6, <2>1
  <2>3. SubSeq(d, n + 5, e) = ReadString(d, n)
    BY DEF ReadString
  <2>4. e > N => StringsFrom(d, n) = <<>>
    BY <1>3, <1>7, <2>1
  <2>5. ASSUME e <= N PROVE StringsFrom(d, n) = <<ReadString(d, n)>> \o StringsFrom(d, e)
    <3>1. ~(e > N)
      BY <1>1, <2>2, <2>5
    <3>2. s[n] = <<SubSeq(d, n + 5, e)>> \o s[e]
      BY <1>7, <2>1, <3>1
    <3> QED BY <1>3, <2>3, <3>2
  <2> QED BY <1>1, <1>9, <2>4, <2>5
<1> QED BY <1>1, <1>8, <1>9

(* Every second string, from the first one on.                               *)
Odds(s) == {s[i] : i \in {j \in DOMAIN s : j % 2 = 1}}

(* Two strings in front of others.                                          *)
InFront(a, b, s) == <<a>> \o (<<b>> \o s)

(* The first of the two is one more of the keys.                             *)
LEMMA TwoMore ==
  ASSUME NEW a \in Bytes, NEW b \in Bytes, NEW s \in Seq(Bytes)
  PROVE  /\ InFront(a, b, s) \in Seq(Bytes) /\ Len(InFront(a, b, s)) = Len(s) + 2 /\ Len(s) \in Nat
         /\ Odds(InFront(a, b, s)) = {a} \cup Odds(s)
<1> DEFINE u == <<b>> \o s
           n == Len(s)
           t == InFront(a, b, s)
<1>1. n \in Nat /\ DOMAIN s = 1..n
  BY LenProperties
<1>2. /\ <<b>> \in Seq(Bytes) /\ Len(<<b>>) = 1 /\ <<b>>[1] = b
      /\ <<a>> \in Seq(Bytes) /\ Len(<<a>>) = 1 /\ <<a>>[1] = a
  OBVIOUS
<1>3. u \in Seq(Bytes) /\ Len(u) = 1 + n /\ u[1] = b /\ \A k \in 1..n : u[1 + k] = s[k]
  <2> DEFINE h == <<b>>
  <2>1. h \in Seq(Bytes) /\ Len(h) = 1 /\ h[1] = b
    BY <1>2
  <2> HIDE DEF h
  <2>2. /\ h \o s \in Seq(Bytes) /\ Len(h \o s) = Len(h) + Len(s)
        /\ \A i \in 1..(Len(h) + Len(s)) : (h \o s)[i] = IF i <= Len(h) THEN h[i] ELSE s[i - Len(h)]
    BY <2>1, ConcatProperties
  <2>3. u = h \o s
    BY DEF h
  <2> HIDE DEF u
  <2>4. 1 \in 1..(1 + n) /\ \A k \in 1..n : 1 + k \in 1..(1 + n) /\ ~(1 + k <= 1) /\ (1 + k) - 1 = k
    BY <1>1
  <2> QED BY <1>1, <2>1, <2>2, <2>3, <2>4
<1> HIDE DEF u
<1> HIDE DEF t
<1>4. t \in Seq(Bytes) /\ Len(t) = 2 + n /\ t[1] = a /\ \A k \in 1..(1 + n) : t[1 + k] = u[k]
  <2> DEFINE h == <<a>>
  <2>1. h \in Seq(Bytes) /\ Len(h) = 1 /\ h[1] = a
    BY <1>2
  <2> HIDE DEF h
  <2>2. /\ h \o u \in Seq(Bytes) /\ Len(h \o u) = Len(h) + Len(u)
        /\ \A i \in 1..(Len(h) + Len(u)) : (h \o u)[i] = IF i <= Len(h) THEN h[i] ELSE u[i - Len(h)]
    <3>1. h \in Seq(Bytes) /\ u \in Seq(Bytes)
      BY <1>3, <2>1
    <3> QED BY <3>1, ConcatProperties
  <2>3. t = h \o u
    BY DEF h, t, u, InFront
  <2>4. 1 \in 1..(2 + n) /\ 1 + (1 + n) = 2 + n
        /\ \A k \in 1..(1 + n) : 1 + k \in 1..(2 + n) /\ ~(1 + k <= 1) /\ (1 + k) - 1 = k
    BY <1>1
  <2> QED BY <1>1, <1>3, <2>1, <2>2, <2>3, <2>4
<1>5. DOMAIN t = 1..(2 + n) /\ \A k \in 1..n : t[k + 2] = s[k]
  <2>1. DOMAIN t = 1..(2 + n)
    BY <1>4, LenProperties
  <2>2. \A k \in 1..n : 1 + k \in 1..(1 + n) /\ 1 + (1 + k) = k + 2
    BY <1>1
  <2>3. \A k \in 1..n : t[1 + (1 + k)] = s[k]
    BY <1>3, <1>4, <2>2
  <2> QED BY <2>1, <2>2, <2>3
<1>6. Odds(t) = {a} \cup Odds(s)
  <2>1. ASSUME NEW x \in Odds(t) PROVE x \in {a} \cup Odds(s)
    <3>1. PICK j \in 1..(2 + n) : j % 2 = 1 /\ x = t[j]
      BY <1>5, <2>1 DEF Odds
    <3>2. CASE j = 1
      BY <1>4, <3>1, <3>2
    <3>3. CASE j # 1
      <4>1. j - 2 \in 1..n /\ (j - 2) % 2 = 1 /\ (j - 2) + 2 = j
        BY <1>1, <3>1, <3>3
      <4>2. x = s[j - 2]
        BY <1>5, <3>1, <4>1
      <4> QED BY <1>1, <4>1, <4>2 DEF Odds
    <3> QED BY <3>2, <3>3
  <2>2. a \in Odds(t)
    <3>1. 1 \in 1..(2 + n) /\ 1 % 2 = 1
      BY <1>1
    <3> QED BY <1>4, <1>5, <3>1 DEF Odds
  <2>3. ASSUME NEW x \in Odds(s) PROVE x \in Odds(t)
    <3>1. PICK j \in 1..n : j % 2 = 1 /\ x = s[j]
      BY <1>1, <2>3 DEF Odds
    <3>2. j + 2 \in 1..(2 + n) /\ (j + 2) % 2 = 1
      BY <1>1, <3>1
    <3> QED BY <1>5, <3>1, <3>2 DEF Odds
  <2> QED BY <2>1, <2>2, <2>3
<1>7. Len(t) = Len(s) + 2
  BY <1>1, <1>4
<1> QED BY <1>1, <1>4, <1>6, <1>7 DEF t

(* What an identity may have been saved as.                                   *)
LEMMA SavedFields ==
  ASSUME BInv, NEW i \in Slots
  PROVE  idents[i].ktype \in {"nistp256", "ed25519"}
<1>1. idents[i] \in Contents
  BY DEF BInv, Around, Cached
<1> QED BY <1>1, IdentityFields

(* The identities behind one that are loaded.                                *)
Behind(i) == {j \in Loaded : j > i}

(* Behind one that is loaded are fewer, by that one.                          *)
LEMMA OneFewer ==
  ASSUME NEW i \in Slots
  PROVE  /\ i \in Loaded => /\ Behind(i - 1) = Behind(i) \cup {i} /\ i \notin Behind(i)
                           /\ Cardinality(Behind(i - 1)) = Cardinality(Behind(i)) + 1
         /\ i \notin Loaded => Behind(i - 1) = Behind(i)
         /\ Cardinality(Behind(i)) \in Nat
<1>1. i \in Int /\ Loaded \subseteq Slots /\ \A j \in Loaded : j \in Int
  BY IdentityKeys DEF Loaded
<1>2. \A j \in Loaded : j > i - 1 <=> j > i \/ j = i
  BY <1>1
<1>3. ~(i > i)
  BY <1>1
<1>4. /\ i \in Loaded => Behind(i - 1) = Behind(i) \cup {i} /\ i \notin Behind(i)
      /\ i \notin Loaded => Behind(i - 1) = Behind(i)
  BY <1>2, <1>3 DEF Behind
<1>5. IsFiniteSet(Behind(i)) /\ Cardinality(Behind(i)) \in Nat
  <2>1. Behind(i) \in SUBSET Slots
    BY <1>1 DEF Behind
  <2> QED BY <2>1, FiniteSlots, FS_CardinalityType
<1>6. i \in Loaded => Cardinality(Behind(i) \cup {i}) = Cardinality(Behind(i)) + 1
  BY <1>4, <1>5, FS_AddElement
<1> QED BY <1>4, <1>5, <1>6

(* The string at an offset is a whole one, and ends at another.               *)
StringAt(d, n, a, e) ==
  /\ n + 4 <= Len(d) /\ e <= Len(d) /\ e = n + 4 + Len(a)
  /\ AsInt(d, n) = Len(a) /\ ReadString(d, n) = a

(* It is the first of the strings from there on.                             *)
LEMMA FirstString ==
  ASSUME NEW d \in Bytes, NEW n \in Nat, NEW a, NEW e, StringAt(d, n, a, e)
  PROVE  StringsFrom(d, n) = <<a>> \o StringsFrom(d, e)
<1>1. /\ n + 4 <= Len(d) /\ e <= Len(d) /\ e = n + 4 + AsInt(d, n) /\ ReadString(d, n) = a
  BY DEF StringAt
<1>2. n <= Len(d) /\ Len(d) \in Nat
  <2>1. Len(d) \in Nat
    BY LenProperties DEF Bytes
  <2> QED BY <1>1, <2>1
<1>3. StringsFrom(d, n) = <<ReadString(d, n)>> \o StringsFrom(d, e)
  BY <1>1, <1>2, Strings
<1> QED BY <1>1, <1>3

(* Some bytes, and two strings behind them.                                  *)
WithPair(p, a, b) == p \o String(a) \o String(b)

(* Both strings are read as they were written.                               *)
LEMMA PairPlaced ==
  ASSUME NEW m \in Bytes, Len(m) < Sizes, NEW p \in Bytes, NEW a \in Bytes, NEW b \in Bytes,
         Placed(m, 0, WithPair(p, a, b))
  PROVE  /\ Placed(m, 0, p) /\ WithPair(p, a, b) \in Bytes
         /\ Len(p) + 8 <= Len(WithPair(p, a, b))
         /\ \E q \in Nat : StringAt(m, Len(p), a, q) /\ StringAt(m, q, b, Len(WithPair(p, a, b)))
<1> DEFINE o == Len(p)
           q == o + 4 + Len(a)
           z == 0
           sa == String(a)
           sb == String(b)
           pa == p \o sa
           f == WithPair(p, a, b)
<1>1. sa \in Bytes /\ Len(sa) = 4 + Len(a) /\ Len(a) \in Nat
      /\ sb \in Bytes /\ Len(sb) = 4 + Len(b) /\ Len(b) \in Nat
  BY StringBytes
<1>2. Len(m) \in Nat /\ o \in Nat /\ q \in Nat /\ z \in Nat /\ z = 0
  BY <1>1, LenProperties DEF Bytes
<1>3. f = pa \o sb /\ Placed(m, z, f)
  BY DEF WithPair
<1> HIDE DEF z, sa, sb, f
<1>4. pa \in Bytes /\ Len(pa) = o + Len(sa)
  BY <1>1, ConcatBytes
<1>5. Len(pa) = q
  BY <1>1, <1>2, <1>4
<1> HIDE DEF pa
<1>6. f \in Bytes /\ Len(f) = Len(pa) + Len(sb)
  BY <1>1, <1>3, <1>4, ConcatBytes
<1>7. Placed(m, z, pa) /\ Placed(m, z + Len(pa), sb)
  BY <1>1, <1>2, <1>3, <1>4, PlacedParts
<1>8. Placed(m, z, p) /\ Placed(m, z + Len(p), sa)
  BY <1>1, <1>2, <1>7, PlacedParts DEF pa
<1>9. Placed(m, o, sa) /\ Placed(m, q, sb)
  BY <1>2, <1>5, <1>7, <1>8
<1>10. AsInt(m, o) = Len(a) /\ ReadString(m, o) = a /\ o + 4 + Len(a) <= Len(m)
  <2> HIDE DEF o
  <2> QED BY <1>2, <1>9, StringIn DEF sa
<1>11. AsInt(m, q) = Len(b) /\ ReadString(m, q) = b /\ q + 4 + Len(b) <= Len(m)
  <2> HIDE DEF q
  <2> QED BY <1>2, <1>9, StringIn DEF sb
<1>12. o + 4 <= Len(m) /\ q <= Len(m) /\ q + 4 <= Len(m) /\ Len(f) = q + 4 + Len(b) /\ Len(f) <= Len(m)
       /\ o + 8 <= Len(f)
  BY <1>1, <1>2, <1>5, <1>6, <1>10, <1>11
<1>13. StringAt(m, o, a, q)
  BY <1>10, <1>12 DEF StringAt
<1>14. StringAt(m, q, b, Len(f))
  <2> HIDE DEF q
  <2> QED BY <1>11, <1>12 DEF StringAt
<1>15. Placed(m, 0, p)
  BY <1>8 DEF z
<1> QED BY <1>2, <1>6, <1>12, <1>13, <1>14, <1>15 DEF f

(* And are the first two of the strings from there on.                        *)
LEMMA PairListed ==
  ASSUME NEW m \in Bytes, Len(m) < Sizes, NEW p \in Bytes, NEW a \in Bytes, NEW b \in Bytes,
         Placed(m, 0, WithPair(p, a, b)), StringsFrom(m, Len(WithPair(p, a, b))) \in Seq(Bytes)
  PROVE  /\ StringsFrom(m, Len(p)) \in Seq(Bytes)
         /\ Len(StringsFrom(m, Len(p))) = Len(StringsFrom(m, Len(WithPair(p, a, b)))) + 2
         /\ Len(StringsFrom(m, Len(WithPair(p, a, b)))) \in Nat
         /\ Odds(StringsFrom(m, Len(p))) = {a} \cup Odds(StringsFrom(m, Len(WithPair(p, a, b))))
<1> DEFINE o == Len(p)
           l == Len(WithPair(p, a, b))
           t == StringsFrom(m, o)
           u == StringsFrom(m, l)
<1>1. PICK q \in Nat : StringAt(m, o, a, q) /\ StringAt(m, q, b, l)
  BY PairPlaced
<1>2. o \in Nat
  BY LenProperties DEF Bytes
<1>3. StringsFrom(m, o) = <<a>> \o StringsFrom(m, q)
  <2>1. StringAt(m, o, a, q)
    BY <1>1
  <2> HIDE DEF o
  <2> QED BY <1>2, <2>1, FirstString
<1>4. StringsFrom(m, q) = <<b>> \o StringsFrom(m, l)
  <2>1. StringAt(m, q, b, l)
    BY <1>1
  <2> HIDE DEF l
  <2> QED BY <2>1, FirstString
<1>5. t = InFront(a, b, u) /\ u \in Seq(Bytes)
  BY <1>3, <1>4 DEF InFront
<1> HIDE DEF t, u
<1>6. t \in Seq(Bytes) /\ Len(t) = Len(u) + 2 /\ Len(u) \in Nat /\ Odds(t) = {a} \cup Odds(u)
  BY <1>5, TwoMore
<1> QED BY <1>6 DEF t, u

(* A list's strings from an identity on are the keys behind it and their        *)
(* comments.                                                                *)
LEMMA ListedBehind ==
  ASSUME Cached, NEW counted \in SUBSET Slots, NEW m, m = Response(counted)[Len(Idents)],
         Len(m) < Sizes, NEW k \in 0..Len(Idents)
  PROVE  LET r == Response(counted)[k]
             s == StringsFrom(m, Len(r))
         IN  /\ Placed(m, 0, r) /\ s \in Seq(Bytes)
             /\ Odds(s) = {cached[j] : j \in Behind(k)} /\ Len(s) = 2 * Cardinality(Behind(k))
             /\ Cardinality(Behind(k)) \in Nat /\ Len(r) + Cardinality(Behind(k)) <= Len(m)
<1> DEFINE N == Len(Idents)
           r(i) == Response(counted)[i]
           s(i) == StringsFrom(m, Len(r(i)))
           Q(i) == /\ Placed(m, 0, r(i)) /\ s(i) \in Seq(Bytes)
                   /\ Odds(s(i)) = {cached[j] : j \in Behind(i)} /\ Len(s(i)) = 2 * Cardinality(Behind(i))
                   /\ Cardinality(Behind(i)) \in Nat /\ Len(r(i)) + Cardinality(Behind(i)) <= Len(m)
           T == {n \in Nat : n <= N => Q(N - n)}
<1>1. N \in Nat /\ Slots = 1..N
  BY IdentityKeys
<1>2. ASSUME NEW i \in 0..N PROVE r(i) \in Bytes /\ Len(r(i)) \in Nat
  <2>1. r(i) \in Bytes
    BY <1>2, Responses
  <2> QED BY <2>1, LenProperties DEF Bytes
<1>3. m = r(N) /\ m \in Bytes /\ Len(m) \in Nat
  <2>1. N \in 0..N
    BY <1>1
  <2> QED BY <1>2, <2>1
<1>4. 0 \in T
  <2>1. Placed(m, 0, r(N))
    BY <1>3, PlacedWhole
  <2>2. Behind(N) = {}
    <3>1. \A j \in Loaded : j \in 1..N /\ ~(j > N)
      BY <1>1 DEF Loaded
    <3> QED BY <3>1 DEF Behind
  <2>3. s(N) = <<>>
    <3> DEFINE n == Len(m)
    <3>1. n \in Nat /\ n <= Len(m) /\ n + 4 > Len(m)
      BY <1>3
    <3> HIDE DEF n
    <3>2. StringsFrom(m, n) = <<>>
      BY <1>3, <3>1, Strings
    <3> QED BY <1>3, <3>2 DEF n
  <2>4. Cardinality({}) = 0 /\ <<>> \in Seq(Bytes) /\ Len(<<>>) = 0 /\ Odds(<<>>) = {}
    BY FS_EmptySet, EmptySeq DEF Odds
  <2>5. Odds(s(N)) = {cached[j] : j \in Behind(N)}
    BY <2>2, <2>3, <2>4
  <2>6. Len(r(N)) + 0 <= Len(m) /\ 0 = 2 * 0 /\ 0 \in Nat
    BY <1>3
  <2>7. Q(N)
    BY <2>1, <2>2, <2>3, <2>4, <2>5, <2>6
  <2>8. N - 0 = N
    BY <1>1
  <2> HIDE DEF Q
  <2> QED BY <2>7, <2>8
<1>5. ASSUME NEW n \in Nat, n \in T
      PROVE  n + 1 \in T
  <2> DEFINE i == N - n
  <2>1. SUFFICES ASSUME n + 1 <= N PROVE Q(N - (n + 1))
    <3> HIDE DEF Q
    <3> QED OBVIOUS
  <2>2. i \in Slots /\ i \in 0..N /\ i - 1 \in 0..N /\ N - (n + 1) = i - 1 /\ i # 0 /\ n <= N
    BY <1>1, <2>1
  <2>3. Q(i)
    <3> HIDE DEF Q
    <3> QED BY <1>5, <2>2
  <2> HIDE DEF i
  <2> SUFFICES Q(i - 1)
    <3> HIDE DEF Q
    <3> QED BY <2>2
  <2>4. r(i) = IF i \in Loaded THEN r(i - 1) \o String(cached[i]) \o String(idents[i].comment) ELSE r(i - 1)
    BY <2>2, ResponseDef
  <2>5. CASE i \notin Loaded
    <3>1. r(i) = r(i - 1) /\ Behind(i - 1) = Behind(i)
      BY <2>2, <2>4, <2>5, OneFewer
    <3> HIDE DEF r
    <3> QED BY <2>3, <3>1
  <2>6. CASE i \in Loaded
    <3> DEFINE p == r(i - 1)
               a == cached[i]
               b == idents[i].comment
    <3>1. m \in Bytes /\ Len(m) < Sizes /\ a \in Bytes /\ b \in Bytes /\ p \in Bytes /\ Len(p) \in Nat
      <4>1. cached[i] = KeyOf(fetched[i]) /\ fetched[i] \in Contents /\ idents[i] \in Contents
        BY <2>2, <2>6 DEF Cached, Loaded
      <4>2. a \in Bytes /\ b \in Bytes
        BY <4>1, IdentityFields
      <4> QED BY <1>2, <1>3, <2>2, <4>2
    <3>2. r(i) = WithPair(p, a, b)
      BY <2>4, <2>6 DEF WithPair
    <3>3. Placed(m, 0, WithPair(p, a, b)) /\ StringsFrom(m, Len(WithPair(p, a, b))) \in Seq(Bytes)
      BY <2>3, <3>2
    <3> DEFINE t == StringsFrom(m, Len(p))
               u == StringsFrom(m, Len(WithPair(p, a, b)))
               g == Len(WithPair(p, a, b))
               c == Cardinality(Behind(i))
               h == Cardinality(Behind(i - 1))
    <3>4. t \in Seq(Bytes) /\ Len(t) = Len(u) + 2 /\ Len(u) \in Nat /\ Odds(t) = {a} \cup Odds(u)
      <4> HIDE DEF p, a, b
      <4> QED BY <3>1, <3>3, PairListed
    <3>5. Placed(m, 0, p) /\ Len(p) + 8 <= g /\ g \in Nat
      <4> HIDE DEF p, a, b
      <4>1. Placed(m, 0, p) /\ Len(p) + 8 <= g /\ WithPair(p, a, b) \in Bytes
        BY <3>1, <3>3, PairPlaced
      <4> QED BY <4>1, LenProperties DEF Bytes
    <3>6. /\ Odds(u) = {cached[j] : j \in Behind(i)} /\ Len(u) = 2 * c /\ c \in Nat /\ g + c <= Len(m)
      BY <2>3, <3>2
    <3>7. Behind(i - 1) = Behind(i) \cup {i} /\ h = c + 1
      BY <2>2, <2>6, OneFewer
    <3>8. Odds(t) = {cached[j] : j \in Behind(i - 1)}
      <4> HIDE DEF t, u
      <4> QED BY <3>4, <3>6, <3>7 DEF a
    <3>9. Len(t) = 2 * h /\ h \in Nat /\ Len(p) + h <= Len(m)
      <4> HIDE DEF t, u, g, c, h, p
      <4> QED BY <1>3, <3>1, <3>4, <3>5, <3>6, <3>7
    <3> QED BY <3>4, <3>5, <3>8, <3>9
  <2> QED BY <2>5, <2>6
<1>6. N - k \in Nat /\ N - k <= N /\ N - (N - k) = k
  BY <1>1
<1>7. N - k \in T
  <2>1. \A n \in Nat : n \in T
    <3> HIDE DEF T
    <3> QED BY <1>4, <1>5, SetInduction
  <2> QED BY <1>6, <2>1
<1>8. Q(k)
  <2> HIDE DEF Q
  <2> QED BY <1>6, <1>7
<1> QED BY <1>8

(* A list that is read: it has the keys that are loaded, two strings for each,  *)
(* and the number in front of them is theirs if it was of the same ones.       *)
LEMMA Listed ==
  ASSUME Cached, NEW counted \in SUBSET Slots, NEW w \in Space, Placed(w, 0, Answer(counted))
  PROVE  /\ KeysListed(Message(w)) = {cached[i] : i \in Loaded}
         /\ Len(StringsFrom(Message(w), 5)) = 2 * Cardinality(Loaded) /\ Cardinality(Loaded) \in Nat
         /\ counted = Loaded => AsInt(Message(w), 1) = Cardinality(Loaded)
<1> DEFINE z == 0
           N == Len(Idents)
           m == Response(counted)[N]
           r == Response(counted)[z]
           n == NumLoadedKeys(counted)
           b == SSH2_AGENT_IDENTITIES_ANSWER
           h == Int32(n)
           f == <<b>>
           c == Cardinality(Loaded)
<1>1. N \in 0..N /\ z \in 0..N /\ z \in Nat
  BY IdentityKeys
<1>2. m \in Bytes /\ Len(m) \in Nat /\ n \in Nat
  <2>1. m \in Bytes /\ n \in Nat
    BY <1>1, Responses
  <2> QED BY <2>1, LenProperties DEF Bytes
<1>3. ReadString(w, z) = m /\ Len(m) < Sizes
  <2>1. w \in Bytes /\ Len(w) < Sizes /\ Placed(w, z, String(m))
    BY Spaces DEF Answer
  <2> HIDE DEF z, m
  <2> QED BY <1>1, <1>2, <2>1, StringIn
<1>4. Message(w) = m
  BY <1>3 DEF Message
<1>5. Behind(z) = Loaded
  <2>1. \A j \in Loaded : j > z
    BY IdentityKeys DEF Loaded
  <2> QED BY <2>1 DEF Behind
<1>6. /\ Placed(m, 0, r) /\ Odds(StringsFrom(m, Len(r))) = {cached[j] : j \in Behind(z)}
      /\ Len(StringsFrom(m, Len(r))) = 2 * Cardinality(Behind(z))
      /\ Cardinality(Behind(z)) \in Nat /\ Len(r) + Cardinality(Behind(z)) <= Len(m)
  <2> HIDE DEF z
  <2> QED BY <1>1, <1>3, ListedBehind
<1>7. r = f \o h
  <2>1. Response(counted)[z] = IF z = 0 THEN <<b>> \o Int32(n) ELSE Response(counted)[z]
    <3> HIDE DEF z
    <3> QED BY <1>1, ResponseDef DEF z
  <2> QED BY <2>1
<1>8. f \in Bytes /\ Len(f) = 1
  <2>1. b \in 0..255
    BY DEF SSH2_AGENT_IDENTITIES_ANSWER
  <2> HIDE DEF b
  <2> QED BY <2>1, OneByte
<1>9. h \in Bytes /\ Len(h) = 4
  BY <1>2, Int32Bytes
<1>10. Len(r) = 5
  <2> HIDE DEF f, h, r
  <2>1. Len(f \o h) = Len(f) + Len(h)
    BY <1>8, <1>9, ConcatBytes
  <2> QED BY <1>7, <1>8, <1>9, <2>1
<1>11. KeysListed(m) = Odds(StringsFrom(m, 5))
  BY DEF KeysListed, Odds
<1>12. KeysListed(m) = {cached[i] : i \in Loaded} /\ Len(StringsFrom(m, 5)) = 2 * c
       /\ c \in Nat /\ 5 + c <= Len(m)
  <2> HIDE DEF m, r, z
  <2> QED BY <1>5, <1>6, <1>10, <1>11
<1>13. ASSUME counted = Loaded PROVE AsInt(m, 1) = c
  <2>1. n = c
    BY <1>13 DEF NumLoadedKeys
  <2>2. n < Sizes
    <3> HIDE DEF n, c
    <3>1. Sizes \in Nat
      BY DEF Sizes
    <3> QED BY <1>2, <1>3, <1>12, <2>1, <3>1
  <2> DEFINE o == 1
             z0 == 0
  <2>3. z0 \in Nat /\ o \in Nat /\ z0 + Len(f) = o /\ Placed(m, z0, f \o h)
    BY <1>6, <1>7, <1>8
  <2> HIDE DEF z0, f, h, m
  <2>4. Placed(m, z0 + Len(f), h)
    BY <1>2, <1>8, <1>9, <2>3, PlacedParts
  <2>5. o \in Nat /\ Placed(m, o, Int32(n))
    BY <2>3, <2>4 DEF h
  <2> HIDE DEF o
  <2>6. AsInt(m, o) = n
    BY <1>2, <2>2, <2>5, Int32Read
  <2> QED BY <2>1, <2>6 DEF o
<1> QED BY <1>4, <1>12, <1>13

-----------------------------------------------------------------------------
(* A request is in its mapping, unless a handler of a dead client with the same  *)
(* name wrote over it before the call was made.                              *)
Own(c, x, w) ==
  x.st = "waiting" \/ (x.st = "asked" /\ c \notin Mortal) => Placed(w, 0, RequestBytes(x.req))

(* Who waits has a handler.                                                  *)
Served(s, cl) ==
  \A c \in Clients :
    cl[c].st = "waiting" => \E j \in DOMAIN s : ~s[j].orphan /\ s[j].client = c

(* Only handlers of clients that may die are without one.  The others serve     *)
(* requests for a list, and none above them has their client's name.           *)
Listing(s, cl) ==
  \A j \in DOMAIN s :
    /\ s[j].orphan => s[j].client \in Mortal
    /\ ~s[j].orphan => /\ cl[s[j].client].req.kind = "list"
                       /\ \A k \in DOMAIN s : k > j => s[k].client # s[j].client

(* The inductive invariant, next to VInv and BInv.                           *)
LInv ==
  /\ \A c \in Clients : Own(c, clients[c], maps[c].bytes)
  /\ Running => Served(stack, clients)
  /\ Listing(stack, clients)

(* The frames of suspended handlers.                                        *)
LEMMA Frames ==
  ASSUME VInv
  PROVE  /\ Len(stack) \in Nat /\ DOMAIN stack = 1..Len(stack)
         /\ \A j \in DOMAIN stack : stack[j] \in Frame /\ stack[j].client \in Clients
<1>1. stack \in Seq(Frame) /\ Len(stack) \in Nat /\ DOMAIN stack = 1..Len(stack)
      /\ \A j \in DOMAIN stack : stack[j] \in Frame
  BY LenProperties, ElementOfSeq DEF VInv
<1>2. \A f \in Frame : f.client \in Clients
  BY DEF Frame
<1> QED BY <1>1, <1>2

(* A client that does not wait does something; entries may move.                *)
LEMMA NotWaiting ==
  ASSUME VInv, LInv, NEW c \in Clients, clients[c].st # "waiting",
         NEW s \in {stack} \cup GetOrCreateMap(c), NEW x
  PROVE  /\ Running /\ x.st # "waiting" => Served(s, [clients EXCEPT ![c] = x])
         /\ Listing(s, [clients EXCEPT ![c] = x])
<1> DEFINE cl == [clients EXCEPT ![c] = x]
<1>1. /\ DOMAIN s = DOMAIN stack
      /\ \A j \in DOMAIN s : s[j].orphan = stack[j].orphan /\ s[j].client = stack[j].client
  BY MapLookup
<1>2. /\ \A j \in DOMAIN stack : ~stack[j].orphan => stack[j].client # c
      /\ DOMAIN clients = Clients
  BY DEF VInv, Alive
<1>3. cl[c] = x /\ \A d \in Clients : d # c => cl[d] = clients[d]
  BY <1>2
<1>4. \A j \in DOMAIN stack : stack[j].client \in Clients
  BY Frames
<1> HIDE DEF cl
<1>5. Running /\ x.st # "waiting" => Served(s, cl)
  BY <1>1, <1>2, <1>3 DEF LInv, Served
<1>6. Listing(s, cl)
  BY <1>1, <1>2, <1>3, <1>4 DEF LInv, Listing
<1> QED BY <1>5, <1>6 DEF cl

(* What one client does, with its mapping and no other.                        *)
LEMMA OneOwns ==
  ASSUME VInv, BInv, LInv, NEW c \in Clients, NEW x, NEW m, Own(c, x, m.bytes),
         clients' = [clients EXCEPT ![c] = x], maps' = [maps EXCEPT ![c] = m]
  PROVE  \A d \in Clients : Own(d, clients'[d], maps'[d].bytes)
<1>1. DOMAIN clients = Clients /\ DOMAIN maps = Clients
  BY DEF BInv, VInv
<1>2. clients'[c] = x /\ maps'[c] = m
      /\ \A d \in Clients : d # c => clients'[d] = clients[d] /\ maps'[d] = maps[d]
  BY <1>1
<1> QED BY <1>2 DEF LInv

(* A client that does not wait does something.                               *)
LEMMA OneStays ==
  ASSUME VInv, BInv, LInv, NEW c \in Clients, clients[c].st # "waiting",
         NEW x, x.st # "waiting", NEW m, Own(c, x, m.bytes),
         clients' = [clients EXCEPT ![c] = x], maps' = [maps EXCEPT ![c] = m],
         stack' \in {stack} \cup GetOrCreateMap(c), status' = status
  PROVE  LInv'
<1>1. \A d \in Clients : Own(d, clients'[d], maps'[d].bytes)
  BY OneOwns
<1>2. (Running => Served(stack', clients')) /\ Listing(stack', clients')
  BY NotWaiting
<1> QED BY <1>1, <1>2 DEF LInv, Running

(* A request is written.                                                    *)
LEMMA AskOwns ==
  ASSUME VInv, BInv, LInv, NEW c \in Clients, NEW q \in Requests, Ask(c, q)
  PROVE  LInv'
<1> DEFINE b == Overwrite(maps[c].bytes, RequestBytes(q))
           x == [st |-> "asked", req |-> q]
           m == [maps[c] EXCEPT !.held = TRUE, !.bytes = b]
<1>1. maps \in [Clients -> Mapping] /\ maps[c] \in Mapping /\ maps[c].bytes \in Space
  BY DEF BInv, Mapping, Space
<1>2. Placed(b, 0, RequestBytes(q))
  <2>1. Len(RequestBytes(q)) <= MapLength
    BY DEF Ask
  <2>2. RequestBytes(q) \in Bytes
    BY RequestsTold
  <2> QED BY <1>1, <2>1, <2>2, Overwritten
<1>3. clients[c].st # "waiting" /\ clients' = [clients EXCEPT ![c] = x]
      /\ stack' \in {stack} \cup GetOrCreateMap(c) /\ status' = status
  BY DEF Ask
<1>4. maps' = [maps EXCEPT ![c] = m]
  BY <1>1 DEF Ask
<1> HIDE DEF b
<1>5. m.bytes = b
  BY <1>1 DEF Mapping
<1> HIDE DEF m
<1>6. x.st # "waiting" /\ Own(c, x, m.bytes)
  BY <1>2, <1>5 DEF Own
<1> HIDE DEF x
<1> QED BY <1>3, <1>4, <1>6, OneStays

(* A client takes its answer.                                              *)
LEMMA LeaveOwns ==
  ASSUME VInv, BInv, LInv, NEW c \in Clients, Leave(c)
  PROVE  LInv'
<1> DEFINE m == Released([maps[c] EXCEPT !.held = FALSE])
           x == [st |-> "idle"]
<1>1. maps' = [maps EXCEPT ![c] = m]
  BY DEF BInv, Leave, CloseMapping
<1>2. clients[c].st # "waiting" /\ clients' = [clients EXCEPT ![c] = x]
      /\ stack' \in {stack} \cup GetOrCreateMap(c) /\ status' = status
  BY DEF Leave
<1>3. x.st # "waiting" /\ Own(c, x, m.bytes)
  BY DEF Own
<1> HIDE DEF m, x
<1> QED BY <1>1, <1>2, <1>3, OneStays

(* A client dies; the frames of its handlers say so.                       *)
LEMMA DieOwns ==
  ASSUME VInv, BInv, LInv, NEW c \in Clients, Die(c)
  PROVE  LInv'
<1> DEFINE m == Released([maps[c] EXCEPT !.held = FALSE])
           x == [st |-> "idle"]
<1>1. maps' = [maps EXCEPT ![c] = m] /\ clients' = [clients EXCEPT ![c] = x]
  BY DEF BInv, Die, CloseMapping
<1>2. x.st # "waiting" /\ x.st # "asked" /\ Own(c, x, m.bytes)
  BY DEF Own
<1> HIDE DEF m
<1>3. \A d \in Clients : Own(d, clients'[d], maps'[d].bytes)
  <2> HIDE DEF x
  <2> QED BY <1>1, <1>2, OneOwns
<1>4. \A j \in DOMAIN stack : stack[j] \in Frame /\ stack[j].client \in Clients
  BY Frames
<1>5. DOMAIN stack' = DOMAIN stack
      /\ \A j \in DOMAIN stack : /\ stack'[j].client = stack[j].client
                                 /\ ~stack'[j].orphan <=> ~stack[j].orphan /\ stack[j].client # c
  <2>1. \A f \in Frame : /\ [f EXCEPT !.orphan = TRUE].client = f.client
                         /\ [f EXCEPT !.orphan = TRUE].orphan
    BY DEF Frame
  <2>2. DOMAIN stack' = DOMAIN stack
        /\ \A j \in DOMAIN stack :
             stack'[j] = IF stack[j].client = c THEN [stack[j] EXCEPT !.orphan = TRUE] ELSE stack[j]
    BY DEF Die
  <2> QED BY <1>4, <2>1, <2>2
<1>6. clients'[c] = x /\ \A d \in Clients : d # c => clients'[d] = clients[d]
  BY <1>1 DEF VInv
<1>7. ASSUME Running PROVE Served(stack', clients')
  <2>1. SUFFICES ASSUME NEW d \in Clients, clients'[d].st = "waiting"
                 PROVE  \E j \in DOMAIN stack' : ~stack'[j].orphan /\ stack'[j].client = d
    BY DEF Served
  <2>2. d # c /\ clients[d].st = "waiting"
    BY <1>2, <1>6, <2>1
  <2>3. PICK j \in DOMAIN stack : ~stack[j].orphan /\ stack[j].client = d
    BY <1>7, <2>2 DEF LInv, Served
  <2> QED BY <1>5, <2>2, <2>3
<1>8. Listing(stack', clients')
  <2>1. c \in Mortal
    BY DEF Die
  <2>2. SUFFICES ASSUME NEW j \in DOMAIN stack
                 PROVE  /\ stack'[j].orphan => stack'[j].client \in Mortal
                        /\ ~stack'[j].orphan =>
                              /\ clients'[stack'[j].client].req.kind = "list"
                              /\ \A k \in DOMAIN stack' : k > j => stack'[k].client # stack'[j].client
    BY <1>5 DEF Listing
  <2>3. /\ stack[j].orphan => stack[j].client \in Mortal
        /\ ~stack[j].orphan => /\ clients[stack[j].client].req.kind = "list"
                              /\ \A k \in DOMAIN stack : k > j => stack[k].client # stack[j].client
    BY DEF LInv, Listing
  <2>4. stack'[j].orphan => stack'[j].client \in Mortal
    BY <1>5, <2>1, <2>3
  <2>5. ASSUME ~stack'[j].orphan
        PROVE  /\ clients'[stack'[j].client].req.kind = "list"
               /\ \A k \in DOMAIN stack' : k > j => stack'[k].client # stack'[j].client
    <3>1. ~stack[j].orphan /\ stack[j].client # c
      BY <1>5, <2>5
    <3> QED BY <1>4, <1>5, <1>6, <2>3, <3>1
  <2> QED BY <2>4, <2>5
<1>9. status' = status
  BY DEF Die
<1> QED BY <1>3, <1>7, <1>8, <1>9 DEF LInv, Running

(* What a handler finds in the mapping, if it is of a kind it knows, is the       *)
(* request of its client.                                                   *)
LEMMA OwnRequest ==
  ASSUME BInv, LInv, NEW c \in Clients, Calling(c),
         \/ c \notin Mortal
         \/ Operation(maps[c].bytes) \in {SSH2_AGENTC_REQUEST_IDENTITIES, SSH2_AGENTC_SIGN_REQUEST}
  PROVE  /\ clients[c].req \in Requests /\ Placed(maps[c].bytes, 0, RequestBytes(clients[c].req))
         /\ Operation(maps[c].bytes) = Code(clients[c].req)
         /\ Message(maps[c].bytes)[1] = Operation(maps[c].bytes)
<1> DEFINE w == maps[c].bytes
           q == clients[c].req
<1>1. /\ clients[c].st = "asked" /\ q \in Requests /\ w \in Bytes /\ Len(w) < Sizes
      /\ Asks(clients[c], w)
  BY Serving
<1>2. Placed(w, 0, RequestBytes(q))
  <2>1. CASE c \notin Mortal
    BY <1>1, <2>1 DEF LInv, Own
  <2>2. CASE Operation(w) \in {SSH2_AGENTC_REQUEST_IDENTITIES, SSH2_AGENTC_SIGN_REQUEST}
    <3>1. ~Told(w, {SSH2_AGENT_IDENTITIES_ANSWER})
      BY <1>1, <2>2, Operations
         DEF SSH2_AGENT_IDENTITIES_ANSWER, SSH2_AGENTC_SIGN_REQUEST, SSH2_AGENTC_REQUEST_IDENTITIES
    <3> QED BY <1>1, <3>1 DEF Asks
  <2> QED BY <2>1, <2>2
<1>3. Told(w, {Code(q)})
  BY <1>1, <1>2, RequestsTold
<1>4. Operation(w) = Code(q) /\ Message(w)[1] = Operation(w)
  BY <1>1, <1>3, Operations
<1> QED BY <1>1, <1>2, <1>4

(* The kinds of requests, by their codes.                                    *)
LEMMA Kinds ==
  ASSUME NEW q \in Requests
  PROVE  /\ Code(q) = SSH2_AGENTC_REQUEST_IDENTITIES <=> q.kind = "list"
         /\ Code(q) = SSH2_AGENTC_SIGN_REQUEST <=> q.kind = "sign"
         /\ Code(q) \notin {SSH2_AGENTC_REQUEST_IDENTITIES, SSH2_AGENTC_SIGN_REQUEST} <=> q.kind = "other"
         /\ q.kind \in {"list", "sign", "other"}
BY DEF Requests, Code, SSH2_AGENTC_REQUEST_IDENTITIES, SSH2_AGENTC_SIGN_REQUEST

(* The end of the process leaves the mappings that clients have open.           *)
LEMMA EndsKeep ==
  ASSUME maps \in [Clients -> Mapping], NEW s, NEW cl, Ends(s, cl)
  PROVE  \A c \in Clients : maps[c].held => maps'[c].bytes = maps[c].bytes
<1> DEFINE left(m) == [m EXCEPT !.kept = FALSE, !.view = "none"]
<1>1. \A m \in Mapping : m.held => Released(left(m)).bytes = m.bytes
  BY NewSpace DEF Mapping, Released, Space
<1>2. \A c \in Clients : maps'[c] = Released(left(maps[c]))
  BY DEF Ends
<1> HIDE DEF left
<1> QED BY <1>1, <1>2

(* The process ends over the calls in cl.                                    *)
LEMMA EndsOwn ==
  ASSUME NEW cl, Match(cl), \A c \in Clients : Own(c, cl[c], maps[c].bytes),
         NEW s \in {"exited", "crashed", "undefined"}, Ends(s, cl)
  PROVE  LInv'
<1>1. \A c \in Clients : Own(c, clients'[c], maps'[c].bytes)
  <2> TAKE c \in Clients
  <2>1. maps[c].held => maps'[c].bytes = maps[c].bytes
    BY EndsKeep DEF Match
  <2>2. cl[c].st # "idle" => maps[c].held
    BY DEF Match, CallOK
  <2>3. CASE cl[c].st = "waiting"
    <3>1. clients'[c].st = "done"
      BY <2>3 DEF Ends
    <3> QED BY <3>1 DEF Own
  <2>4. CASE cl[c].st # "waiting"
    <3>1. clients'[c] = cl[c]
      BY <2>4 DEF Ends
    <3> QED BY <2>1, <2>2, <2>4, <3>1 DEF Own
  <2> QED BY <2>3, <2>4
<1>2. status' # "running" /\ stack' = <<>>
  BY DEF Ends
<1>3. DOMAIN stack' = {}
  BY <1>2, EmptySeq
<1> QED BY <1>1, <1>2, <1>3 DEF LInv, Running, Listing

(* The Ledger is lost in a handler.                                          *)
LEMMA LostOwn ==
  ASSUME NEW cl, Match(cl), \A c \in Clients : Own(c, cl[c], maps[c].bytes), Listing(stack, cl),
         Lost(cl)
  PROVE  LInv'
<1>1. CASE Ends("crashed", cl)
  BY <1>1, EndsOwn
<1>2. CASE /\ status' = "hung" /\ clients' = cl /\ UNCHANGED <<maps, stack>>
  BY <1>2 DEF LInv, Running
<1> QED BY <1>1, <1>2 DEF Lost

(* An operation that is not known.                                           *)
LEMMA OtherOwns ==
  ASSUME VInv, BInv, LInv, NEW c \in Clients, CopyDataOther(c)
  PROVE  LInv'
<1> DEFINE b == maps[c].bytes
           x == [st |-> "done", req |-> clients[c].req, ret |-> FALSE, signed |-> NotSigned]
<1>1. clients[c].st # "waiting" /\ b \in Space /\ maps \in [Clients -> Mapping]
  BY Serving DEF CopyDataOther, Match
<1>2. maps' = Opened(c, b) /\ clients' = [clients EXCEPT ![c] = x]
      /\ stack' \in {stack} \cup GetOrCreateMap(c) /\ status' = status
  BY DEF CopyDataOther, Returned
<1> HIDE DEF b
<1>3. PICK m \in Mapping : Opened(c, b) = [maps EXCEPT ![c] = m]
  BY <1>1, OpenedMapping
<1>4. x.st # "waiting" /\ Own(c, x, m.bytes)
  BY DEF Own
<1> HIDE DEF x
<1> QED BY <1>1, <1>2, <1>3, <1>4, OneStays

(* A list, or a box in front of it.                                          *)
LEMMA ListOwns ==
  ASSUME VInv, BInv, LInv, NEW c \in Clients, CopyDataList(c)
  PROVE  LInv'
<1> DEFINE w == maps[c].bytes
           d == Write(w, Answer(Loaded))
<1>1. /\ clients[c].st = "asked" /\ w \in Space /\ maps \in [Clients -> Mapping]
  BY Serving DEF CopyDataList, Match
<1>2. clients[c].req.kind = "list" /\ Placed(w, 0, RequestBytes(clients[c].req))
  <2>1. Calling(c) /\ Operation(w) = SSH2_AGENTC_REQUEST_IDENTITIES
    BY DEF CopyDataList
  <2> QED BY <2>1, OwnRequest, Kinds
<1>3. PICK s \in GetOrCreateMap(c) :
       \/ /\ \E box \in {"NoKeys", "Present"} : Suspend(s, box, c)
          /\ maps' = Opened(c, w)
          /\ clients' = Waits(c)
       \/ /\ stack' = s
          /\ maps' = Opened(c, d)
          /\ clients' = Returned(c, TRUE, NotSigned)
  BY DEF CopyDataList
<1>4. status' = status
  BY DEF CopyDataList
<1>5. CASE /\ stack' = s /\ maps' = Opened(c, d) /\ clients' = Returned(c, TRUE, NotSigned)
  <2> DEFINE x == [st |-> "done", req |-> clients[c].req, ret |-> TRUE, signed |-> NotSigned]
  <2>1. d \in Space
    <3>1. Answer(Loaded) \in Bytes
      <4>1. Cached /\ Loaded \in SUBSET Slots
        BY DEF BInv, Around, Loaded
      <4> QED BY <4>1, AnswersTold
    <3> QED BY <1>1, <3>1, Writes
  <2> HIDE DEF d
  <2>2. PICK m \in Mapping : Opened(c, d) = [maps EXCEPT ![c] = m]
    BY <1>1, <2>1, OpenedMapping
  <2>3. clients[c].st # "waiting" /\ x.st # "waiting" /\ Own(c, x, m.bytes)
        /\ clients' = [clients EXCEPT ![c] = x]
    BY <1>1, <1>5 DEF Own, Returned
  <2> HIDE DEF x
  <2>4. maps' = [maps EXCEPT ![c] = m] /\ stack' \in {stack} \cup GetOrCreateMap(c)
    BY <1>5, <2>2
  <2> QED BY <1>4, <2>3, <2>4, OneStays
<1>6. CASE /\ \E box \in {"NoKeys", "Present"} : Suspend(s, box, c)
           /\ maps' = Opened(c, w) /\ clients' = Waits(c)
  <2> DEFINE x == [st |-> "waiting", req |-> clients[c].req]
             b == w
  <2>1. PICK box \in {"NoKeys", "Present"} : Suspend(s, box, c)
    BY <1>6
  <2> DEFINE f == [box |-> box, client |-> c, counted |-> Loaded, orphan |-> FALSE, moved |-> FALSE]
  <2>2. stack' = Append(s, f) /\ f.client = c /\ ~f.orphan
    BY <2>1 DEF Suspend
  <2>3. f \in Frame
    BY DEF Frame, Loaded
  <2> HIDE DEF f
  <2>4. /\ s \in Seq(Frame) /\ DOMAIN s = DOMAIN stack
        /\ \A j \in DOMAIN s : s[j].orphan = stack[j].orphan /\ s[j].client = stack[j].client
    BY MapLookup
  <2>5. /\ Len(s) \in Nat /\ DOMAIN s = 1..Len(s) /\ DOMAIN stack' = 1..(Len(s) + 1)
        /\ \A j \in 1..Len(s) : stack'[j] = s[j]
        /\ stack'[Len(s) + 1] = f
    BY <2>2, <2>3, <2>4, AppendProperties, LenProperties
  <2>6. PICK m \in Mapping : m.bytes = w /\ maps' = [maps EXCEPT ![c] = m]
    <3>1. b \in Space /\ maps' = Opened(c, b)
      BY <1>1, <1>6
    <3> HIDE DEF b
    <3>2. PICK m \in Mapping : m.bytes = b /\ Opened(c, b) = [maps EXCEPT ![c] = m]
      BY <1>1, <3>1, OpenedMapping
    <3> QED BY <3>1, <3>2 DEF b
  <2>7. clients' = [clients EXCEPT ![c] = x] /\ Own(c, x, m.bytes)
    BY <1>2, <1>6, <2>6 DEF Waits, Own
  <2>8. \A e \in Clients : Own(e, clients'[e], maps'[e].bytes)
    <3> HIDE DEF x
    <3> QED BY <2>6, <2>7, OneOwns
  <2>9. clients'[c] = x /\ \A e \in Clients : e # c => clients'[e] = clients[e]
    BY <2>7 DEF VInv
  <2>10. \A j \in DOMAIN stack : /\ ~stack[j].orphan => stack[j].client # c
                                /\ stack[j].client \in Clients
    BY <1>1, Frames DEF VInv, Alive
  <2>11. Served(stack', clients')
    <3>1. SUFFICES ASSUME NEW e \in Clients, clients'[e].st = "waiting"
                   PROVE  \E j \in DOMAIN stack' : ~stack'[j].orphan /\ stack'[j].client = e
      BY DEF Served
    <3>2. CASE e = c
      <4>1. Len(s) + 1 \in DOMAIN stack'
        BY <2>5
      <4> QED BY <2>2, <2>5, <3>2, <4>1
    <3>3. CASE e # c
      <4>1. clients[e].st = "waiting" /\ Running
        BY <2>9, <3>1, <3>3 DEF CopyDataList, Calling
      <4>2. PICK j \in DOMAIN stack : ~stack[j].orphan /\ stack[j].client = e
        BY <4>1 DEF LInv, Served
      <4>3. j \in DOMAIN stack' /\ stack'[j] = s[j] /\ ~s[j].orphan /\ s[j].client = e
        BY <2>4, <2>5, <4>2
      <4> QED BY <4>3
    <3> QED BY <3>2, <3>3
  <2>12. Listing(stack', clients')
    <3>1. SUFFICES ASSUME NEW j \in DOMAIN stack'
                   PROVE  /\ stack'[j].orphan => stack'[j].client \in Mortal
                          /\ ~stack'[j].orphan =>
                                /\ clients'[stack'[j].client].req.kind = "list"
                                /\ \A k \in DOMAIN stack' : k > j => stack'[k].client # stack'[j].client
      BY DEF Listing
    <3>2. CASE j = Len(s) + 1
      <4>1. \A k \in DOMAIN stack' : ~(k > j)
        BY <2>5, <3>2
      <4>2. clients'[c].req.kind = "list"
        BY <1>2, <2>9
      <4> QED BY <2>2, <2>5, <3>2, <4>1, <4>2
    <3>3. CASE j # Len(s) + 1
      <4>1. j \in DOMAIN stack /\ stack'[j] = s[j] /\ j \in DOMAIN s
        BY <2>4, <2>5, <3>3
      <4>2. /\ stack[j].orphan => stack[j].client \in Mortal
            /\ ~stack[j].orphan => /\ clients[stack[j].client].req.kind = "list"
                                  /\ \A k \in DOMAIN stack : k > j => stack[k].client # stack[j].client
        BY <4>1 DEF LInv, Listing
      <4>3. stack'[j].client = stack[j].client /\ stack'[j].orphan = stack[j].orphan
        BY <2>4, <4>1
      <4>4. ASSUME ~stack[j].orphan
            PROVE  /\ clients'[stack[j].client].req.kind = "list"
                   /\ \A k \in DOMAIN stack' : k > j => stack'[k].client # stack[j].client
        <5>1. stack[j].client # c /\ stack[j].client \in Clients
          BY <2>10, <4>1, <4>4
        <5>2. ASSUME NEW k \in DOMAIN stack', k > j PROVE stack'[k].client # stack[j].client
          <6>1. CASE k = Len(s) + 1
            BY <2>2, <2>5, <5>1, <6>1
          <6>2. CASE k # Len(s) + 1
            <7>1. k \in DOMAIN s /\ k \in DOMAIN stack /\ stack'[k] = s[k]
              BY <2>4, <2>5, <6>2
            <7> QED BY <2>4, <4>2, <4>4, <5>2, <7>1
          <6> QED BY <6>1, <6>2
        <5> QED BY <2>9, <4>2, <4>4, <5>1, <5>2
      <4> QED BY <4>2, <4>3, <4>4
    <3> QED BY <3>2, <3>3
  <2> QED BY <2>8, <2>11, <2>12 DEF LInv
<1> QED BY <1>3, <1>5, <1>6

-----------------------------------------------------------------------------

(* The call that SignMap serves, should the Ledger be lost in it.              *)
LEMMA WaitingOwns ==
  ASSUME VInv, BInv, LInv, NEW c \in Clients, Calling(c),
         Operation(maps[c].bytes) = SSH2_AGENTC_SIGN_REQUEST
  PROVE  /\ \A d \in Clients : Own(d, Waits(c)[d], maps[d].bytes)
         /\ Listing(stack, Waits(c)) /\ Match(Waits(c))
<1> DEFINE x == [st |-> "waiting", req |-> clients[c].req]
           cl == Waits(c)
<1>1. Placed(maps[c].bytes, 0, RequestBytes(clients[c].req))
  BY OwnRequest
<1>2. cl = [clients EXCEPT ![c] = x] /\ clients[c].st = "asked"
  BY DEF Waits, Calling
<1>3. cl[c] = x /\ \A d \in Clients : d # c => cl[d] = clients[d]
  BY <1>2 DEF VInv
<1>4. \A d \in Clients : Own(d, cl[d], maps[d].bytes)
  BY <1>1, <1>3 DEF LInv, Own
<1>5. Listing(stack, cl)
  <2> HIDE DEF x
  <2>1. clients[c].st # "waiting" /\ stack \in {stack} \cup GetOrCreateMap(c)
    BY <1>2
  <2>2. Listing(stack, [clients EXCEPT ![c] = x])
    BY <2>1, NotWaiting
  <2> QED BY <1>2, <2>2
<1>6. Match(cl)
  BY <1>2, WaitingMatches DEF BInv, Match
<1> QED BY <1>4, <1>5, <1>6

(* A signature, a refusal, a key that is not known; or the Ledger is lost.       *)
LEMMA SignOwns ==
  ASSUME VInv, BInv, LInv, NEW c \in Clients, CopyDataSign(c)
  PROVE  LInv'
<1> DEFINE w == maps[c].bytes
<1>1. /\ clients[c].st = "asked" /\ w \in Space /\ maps \in [Clients -> Mapping]
      /\ Calling(c) /\ Operation(w) = SSH2_AGENTC_SIGN_REQUEST
  BY Serving DEF CopyDataSign, Match
<1>2. \/ /\ \E b \in Space : maps' = Opened(c, b) \/ maps' = OpenedAndClosed(c, b)
         /\ \E r, g : clients' = Returned(c, r, g)
         /\ stack' \in GetOrCreateMap(c) /\ status' = status
      \/ Lost(Waits(c))
      \/ Ends("crashed", Waits(c))
  <2> DEFINE i == Min(Matching(w))
             answer(sig) == SignResponse(idents[i].ktype, DER(sig[1], sig[2]))
             done == (\E r, g : clients' = Returned(c, r, g)) /\ stack' \in GetOrCreateMap(c) /\ status' = status
  <2>1. \/ done /\ maps' = Opened(c, Write(w, Failure))
        \/ done /\ maps' = OpenedAndClosed(c, w)
        \/ done /\ Matching(w) # {} /\ \E sig \in Signatures : maps' = OpenedAndClosed(c, Write(w, answer(sig)))
        \/ Lost(Waits(c))
        \/ Ends("crashed", Waits(c))
    BY DEF CopyDataSign
  <2>2. Write(w, Failure) \in Space
    BY <1>1, FailuresTold, Writes
  <2>3. ASSUME Matching(w) # {}, NEW sig \in Signatures PROVE Write(w, answer(sig)) \in Space
    <3>1. i \in Slots
      <4> DEFINE T == Matching(w)
      <4>1. T \subseteq Nat /\ T # {} /\ i = Min(T) /\ T \subseteq Slots
        BY <2>3, IdentityKeys DEF Matching, Loaded
      <4> HIDE DEF T, i
      <4>2. i \in T
        BY <4>1, LeastElement DEF Min
      <4> QED BY <4>1, <4>2
    <3>2. idents[i].ktype \in {"nistp256", "ed25519"} /\ sig[1] \in Coordinate /\ sig[2] \in Coordinate
      BY <3>1, SavedFields, RequestsAssumption
    <3> HIDE DEF i
    <3>3. answer(sig) \in Bytes
      BY <3>2, SignReplies
    <3> HIDE DEF answer
    <3> QED BY <1>1, <3>3, Writes
  <2> HIDE DEF answer, done
  <2> QED BY <1>1, <2>1, <2>2, <2>3 DEF done
<1>3. CASE Lost(Waits(c))
  BY <1>1, <1>3, WaitingOwns, LostOwn
<1>4. CASE Ends("crashed", Waits(c))
  BY <1>1, <1>4, WaitingOwns, EndsOwn
<1>5. CASE /\ \E b \in Space : maps' = Opened(c, b) \/ maps' = OpenedAndClosed(c, b)
           /\ \E r, g : clients' = Returned(c, r, g)
           /\ stack' \in GetOrCreateMap(c) /\ status' = status
  <2>1. PICK m : maps' = [maps EXCEPT ![c] = m]
    <3>1. PICK b \in Space : maps' = Opened(c, b) \/ maps' = OpenedAndClosed(c, b)
      BY <1>5
    <3> QED BY <1>1, <3>1, OpenedMapping, ClosedMapping
  <2>2. PICK x : x.st = "done" /\ clients' = [clients EXCEPT ![c] = x]
    BY <1>5 DEF Returned
  <2>3. clients[c].st # "waiting" /\ x.st # "waiting" /\ Own(c, x, m.bytes)
    BY <1>1, <2>2 DEF Own
  <2>4. stack' \in {stack} \cup GetOrCreateMap(c) /\ status' = status
    BY <1>5
  <2> QED BY <2>1, <2>2, <2>3, <2>4, OneStays
<1> QED BY <1>2, <1>3, <1>4, <1>5

(* A box is answered.  The handler's own client waited for no other.           *)
LEMMA ReturnOwns ==
  ASSUME VInv, BInv, LInv, stack # <<>>, Return
  PROVE  /\ Running => Served(stack', clients')
         /\ Listing(stack', clients')
         /\ Inner.orphan => Inner.client \in Mortal /\ clients' = clients
         /\ ~Inner.orphan => /\ clients[Inner.client].st = "waiting" /\ clients[Inner.client].req.kind = "list"
                             /\ clients' = Returned(Inner.client, TRUE, NotSigned)
         /\ Running /\ Inner.orphan => clients[Inner.client].st # "waiting"
         /\ Inner.client \in Clients /\ Inner.counted \in SUBSET Slots
<1> DEFINE c == Inner.client
           n == Len(stack)
<1>1. /\ n \in Nat /\ DOMAIN stack = 1..n /\ n \in DOMAIN stack /\ Inner = stack[n]
      /\ \A j \in DOMAIN stack' : j \in DOMAIN stack /\ j # n /\ stack'[j] = stack[j]
      /\ c \in Clients /\ Inner.counted \in SUBSET Slots
  BY Frames, Pop, Innermost DEF VInv, Inner, Return
<1>2. \A j \in DOMAIN stack : stack[j].client \in Clients /\ (j # n => j < n)
  BY <1>1, Frames
<1>3. DOMAIN stack' = 1..(n - 1)
  <2>1. Front(stack) = SubSeq(stack, 1, n - 1) /\ stack \in Seq(Frame) /\ \A i \in 1..(n - 1) : stack[i] \in Frame
    BY <1>1, Frames DEF Front, VInv
  <2>2. /\ SubSeq(stack, 1, n - 1) \in Seq(Frame)
        /\ Len(SubSeq(stack, 1, n - 1)) = n - 1
    <3> DEFINE a == 1
               b == n - 1
    <3>1. a \in Int /\ b \in Int /\ a <= b + 1 /\ \A i \in a..b : stack[i] \in Frame
      BY <1>1, <2>1
    <3>2. (IF a <= b THEN b - a + 1 ELSE 0) = n - 1
      BY <1>1
    <3> HIDE DEF a, b
    <3>3. /\ SubSeq(stack, a, b) \in Seq(Frame)
          /\ Len(SubSeq(stack, a, b)) = IF a <= b THEN b - a + 1 ELSE 0
      BY <3>1, SubSeqProperties
    <3> QED BY <3>2, <3>3 DEF a, b
  <2> QED BY <2>1, <2>2, LenProperties DEF Return
<1>4. /\ \A j \in DOMAIN stack : ~stack[j].orphan => clients[stack[j].client].st = "waiting"
      /\ \A j, k \in DOMAIN stack :
           ~stack[j].orphan /\ ~stack[k].orphan /\ stack[j].client = stack[k].client => j = k
      /\ DOMAIN clients = Clients
  BY DEF VInv, Alive
<1>5. \A j \in DOMAIN stack :
        /\ stack[j].orphan => stack[j].client \in Mortal
        /\ ~stack[j].orphan => /\ clients[stack[j].client].req.kind = "list"
                              /\ \A k \in DOMAIN stack : k > j => stack[k].client # stack[j].client
  BY DEF LInv, Listing
<1>6. /\ Inner.orphan => clients' = clients
      /\ ~Inner.orphan => clients' = Returned(c, TRUE, NotSigned) /\ clients'[c].st = "done"
      /\ \A d \in Clients : d # c => clients'[d] = clients[d]
  BY <1>1, <1>4 DEF Return, Returned
<1> HIDE DEF n
<1>7. Running /\ Inner.orphan => clients[c].st # "waiting"
  <2>1. SUFFICES ASSUME Running, Inner.orphan, clients[c].st = "waiting" PROVE FALSE
    OBVIOUS
  <2>2. PICK j \in DOMAIN stack : ~stack[j].orphan /\ stack[j].client = c
    BY <1>1, <2>1 DEF LInv, Served
  <2>3. j # n /\ j < n /\ n > j
    BY <1>1, <1>2, <2>1, <2>2
  <2> QED BY <1>1, <1>5, <2>2, <2>3
<1>8. ASSUME Running PROVE Served(stack', clients')
  <2>1. SUFFICES ASSUME NEW d \in Clients, clients'[d].st = "waiting"
                 PROVE  \E j \in DOMAIN stack' : ~stack'[j].orphan /\ stack'[j].client = d
    BY DEF Served
  <2>2. clients[d].st = "waiting" /\ d # c
    BY <1>6, <1>7, <1>8, <2>1
  <2>3. PICK j \in DOMAIN stack : ~stack[j].orphan /\ stack[j].client = d
    BY <1>8, <2>2 DEF LInv, Served
  <2>4. j \in DOMAIN stack'
    BY <1>1, <1>3, <2>2, <2>3
  <2> QED BY <1>1, <2>3, <2>4
<1>9. Listing(stack', clients')
  <2>1. SUFFICES ASSUME NEW j \in DOMAIN stack', ~stack'[j].orphan
                 PROVE  /\ clients'[stack'[j].client].req.kind = "list"
                        /\ \A k \in DOMAIN stack' : k > j => stack'[k].client # stack'[j].client
    BY <1>1, <1>5 DEF Listing
  <2>2. j \in DOMAIN stack /\ stack'[j] = stack[j] /\ ~stack[j].orphan /\ j < n /\ n > j
    BY <1>1, <1>2, <2>1
  <2>3. stack[j].client # c
    BY <1>1, <1>5, <2>2
  <2> QED BY <1>1, <1>2, <1>5, <1>6, <2>2, <2>3
<1>10. ~Inner.orphan => clients[c].st = "waiting" /\ clients[c].req.kind = "list"
  BY <1>1, <1>4, <1>5
<1>11. Inner.orphan => c \in Mortal
  BY <1>1, <1>5
<1> QED BY <1>1, <1>6, <1>7, <1>8, <1>9, <1>10, <1>11

(* A box is given up.                                                        *)
LEMMA GiveUpOwns ==
  ASSUME VInv, BInv, LInv, GiveUp
  PROVE  LInv'
<1> DEFINE c == Inner.client
<1>1. Running /\ stack # <<>> /\ Return /\ UNCHANGED <<maps, status>>
  BY DEF GiveUp
<1>2. /\ Served(stack', clients') /\ Listing(stack', clients')
      /\ Inner.orphan => clients' = clients
      /\ ~Inner.orphan => clients' = Returned(c, TRUE, NotSigned)
  BY <1>1, ReturnOwns
<1>3. \A d \in Clients : clients'[d] = clients[d] \/ clients'[d].st = "done"
  BY <1>2 DEF Returned, VInv
<1>4. \A d \in Clients : Own(d, clients'[d], maps'[d].bytes)
  BY <1>1, <1>3 DEF LInv, Own
<1> QED BY <1>2, <1>4 DEF LInv

(* A list after a box, for a client that may have died and whose name may have  *)
(* been used again.                                                         *)
LEMMA PresentOwns ==
  ASSUME VInv, BInv, LInv, Present
  PROVE  LInv'
<1> DEFINE c == Inner.client
<1>1. CASE Ends("undefined", clients)
  <2>1. Match(clients) /\ \A d \in Clients : Own(d, clients[d], maps[d].bytes)
    BY DEF BInv, Match, LInv
  <2> QED BY <1>1, <2>1, EndsOwn
<1>2. CASE /\ maps' = [maps EXCEPT ![c].bytes = Write(@, Answer(Inner.counted))] /\ Return
           /\ status' = status
  <2>1. Running /\ stack # <<>>
    BY DEF Present
  <2>2. /\ Served(stack', clients') /\ Listing(stack', clients') /\ c \in Clients
        /\ Inner.orphan => c \in Mortal /\ clients' = clients /\ clients[c].st # "waiting"
        /\ ~Inner.orphan => clients' = Returned(c, TRUE, NotSigned)
    BY <1>2, <2>1, ReturnOwns
  <2>3. \A d \in Clients : d # c => clients'[d] = clients[d] /\ maps'[d] = maps[d]
    BY <1>2, <2>2 DEF Returned, VInv, BInv
  <2>4. Own(c, clients'[c], maps'[c].bytes)
    <3>1. CASE Inner.orphan
      BY <2>2, <3>1 DEF Own
    <3>2. CASE ~Inner.orphan
      <4>1. clients'[c].st = "done"
        BY <2>2, <3>2 DEF Returned, VInv
      <4> QED BY <4>1 DEF Own
    <3> QED BY <3>1, <3>2
  <2>5. \A d \in Clients : Own(d, clients'[d], maps'[d].bytes)
    BY <2>3, <2>4 DEF LInv
  <2> QED BY <2>2, <2>5 DEF LInv
<1> QED BY <1>1, <1>2 DEF Present

(* At the start.                                                            *)
LEMMA OwnsInit == Init => LInv
<1> SUFFICES ASSUME Init PROVE LInv
  OBVIOUS
<1>1. DOMAIN stack = {}
  BY EmptySeq DEF Init
<1>2. \A c \in Clients : clients[c].st = "idle"
  BY DEF Init
<1> QED BY <1>1, <1>2 DEF LInv, Own, Served, Listing

(* Every step keeps requests in their mappings, and handlers to those who wait. *)
LEMMA OwnsStep == VInv /\ BInv /\ LInv /\ [Next]_vars => LInv'
<1> SUFFICES ASSUME VInv, BInv, LInv, [Next]_vars PROVE LInv'
  OBVIOUS
<1>1. Match(clients) /\ (\A d \in Clients : Own(d, clients[d], maps[d].bytes)) /\ Listing(stack, clients)
  BY DEF BInv, Match, LInv
<1>2. CASE \E c \in Clients :
             \/ \E q \in Requests : Ask(c, q)
             \/ Leave(c) \/ Die(c)
             \/ CopyDataList(c) \/ CopyDataSign(c) \/ CopyDataOther(c)
  BY <1>2, AskOwns, LeaveOwns, DieOwns, ListOwns, SignOwns, OtherOwns
<1>3. CASE Present \/ GiveUp
  BY <1>3, PresentOwns, GiveUpOwns
<1>4. CASE Lost(clients)
  BY <1>1, <1>4, LostOwn
<1>5. CASE Exit
  BY <1>1, <1>5, EndsOwn DEF Exit
<1>6. CASE UNCHANGED <<maps, clients, stack, status>>
  BY <1>6 DEF LInv, Running
<1>7. (\E i \in Slots : FetchKey(i) \/ ClearKey(i) \/ \E d \in Edits : Save(i, d)) \/ Plug \/ Unplug \/ Stopped \/ UNCHANGED vars
      => Lost(clients) \/ UNCHANGED <<maps, clients, stack, status>>
  BY DEF FetchKey, ClearKey, Save, Plug, Unplug, Stopped, vars
<1> QED BY <1>2, <1>3, <1>4, <1>5, <1>6, <1>7 DEF Next

(* In every state.                                                          *)
THEOREM OwnsAlways == Spec => [](VInv /\ BInv /\ LInv)
<1>1. Init => VInv /\ BInv /\ LInv
  BY ViewsInit, CallsInit, OwnsInit
<1>2. VInv /\ BInv /\ LInv /\ [Next]_vars => (VInv /\ BInv /\ LInv)'
  BY ViewsStep, CallsStep, OwnsStep
<1> QED BY <1>1, <1>2, PTL DEF Spec

-----------------------------------------------------------------------------
(* What clients find in their mappings.                                      *)
ReplyIn(q, w) ==
  CASE Message(w)[1] = SSH2_AGENT_IDENTITIES_ANSWER -> [kind |-> "list", keys |-> KeysListed(Message(w))]
    [] Message(w)[1] = SSH2_AGENT_SIGN_RESPONSE     -> [kind |-> "sig", key |-> q.key]
    [] Message(w)[1] = SSH_AGENT_FAILURE            -> [kind |-> "failure"]
    [] OTHER                                        -> [kind |-> "none"]

(* A call, and what its mapping holds, to the key agent.                      *)
Abstraction(x, w) ==
  CASE x.st \in {"idle", "asked"} -> [st |-> "idle"]
    [] x.st = "waiting" -> [st |-> "waiting", req |-> AbstractRequest(x.req)]
    [] x.st = "done"    -> [st |-> "done", req |-> AbstractRequest(x.req), answer |-> ReplyIn(x.req, w)]

Living == Clients \ Mortal
AbstractCalls == [c \in Living |-> AbstractCall(c)]
Held == {cached[i] : i \in Loaded}

(* Answers that are no message of the agent.                                 *)
Silent == {1, SSH2_AGENTC_REQUEST_IDENTITIES, SSH2_AGENTC_SIGN_REQUEST}

(* An abstract call is that of its client and its mapping.                    *)
LEMMA Abstracted ==
  /\ \A c : AbstractCall(c) = Abstraction(clients[c], maps[c].bytes)
  /\ \A c : AbstractCall(c)' = Abstraction(clients'[c], maps'[c].bytes)
BY DEF AbstractCall, Abstraction, AbstractReply, ReplyIn, Reply

(* Its three forms.                                                         *)
LEMMA Forms ==
  ASSUME NEW x, NEW w
  PROVE  /\ x.st \in {"idle", "asked"} => Abstraction(x, w) = KA!Idle
         /\ x.st = "waiting" => Abstraction(x, w) = KA!Waiting(AbstractRequest(x.req))
         /\ x.st = "done" => Abstraction(x, w) = KA!Done(AbstractRequest(x.req), ReplyIn(x.req, w))
BY DEF Abstraction, KA!Idle, KA!Waiting, KA!Done

(* Requests are requests of the key agent.                                   *)
LEMMA RequestsKnown ==
  ASSUME NEW q \in Requests
  PROVE  /\ AbstractRequest(q) \in KA!Requests
         /\ AbstractRequest(q).kind = q.kind
         /\ q.kind = "sign" => AbstractRequest(q).key = q.key
BY DEF Requests, KA!Requests, AbstractRequest

(* A signature's message is known by its first byte.                          *)
LEMMA SignaturesTold ==
  ASSUME NEW name \in {"nistp256", "ed25519"}, NEW r \in Coordinate, NEW s \in Coordinate
  PROVE  \A w : Placed(w, 0, SignResponse(name, DER(r, s))) => Told(w, {SSH2_AGENT_SIGN_RESPONSE})
<1> DEFINE b == SSH2_AGENT_SIGN_RESPONSE
<1>1. PICK d \in Bytes : SignResponse(name, DER(r, s)) = String(<<b>> \o d)
  BY SignReplies
<1>2. b \in 0..255
  BY DEF SSH2_AGENT_SIGN_RESPONSE
<1> DEFINE m == <<b>> \o d
<1> HIDE DEF b
<1>3. m \in Bytes /\ Len(m) = 1 + Len(d) /\ Len(d) \in Nat /\ m[1] = b
  BY <1>2, ByteBefore
<1>4. m # <<>>
  <2>1. Len(<<>>) = 0
    BY EmptySeq
  <2>2. Len(m) # 0
    BY <1>3
  <2> QED BY <2>1, <2>2
<1>5. \A w : Placed(w, 0, String(m)) => Told(w, {b})
  BY <1>3, <1>4 DEF Told
<1> QED BY <1>1, <1>5 DEF b

(* The first byte tells what an answer is.                                   *)
LEMMA RepliesTold ==
  ASSUME NEW w \in Space, NEW q
  PROVE  /\ Told(w, {SSH_AGENT_FAILURE}) => ReplyIn(q, w) = [kind |-> "failure"]
         /\ Told(w, Silent) => ReplyIn(q, w) = KA!Nothing
         /\ Told(w, {SSH2_AGENT_SIGN_RESPONSE}) => ReplyIn(q, w) = [kind |-> "sig", key |-> q.key]
         /\ Told(w, {SSH2_AGENT_IDENTITIES_ANSWER}) =>
              ReplyIn(q, w) = [kind |-> "list", keys |-> KeysListed(Message(w))]
<1>1. w \in Bytes /\ Len(w) < Sizes
  BY Spaces
<1>2. \A codes : Told(w, codes) => Message(w)[1] \in codes
  BY <1>1, Operations
<1> QED BY <1>2 DEF ReplyIn, Silent, KA!Nothing, SSH_AGENT_FAILURE, SSH2_AGENTC_REQUEST_IDENTITIES,
           SSH2_AGENT_IDENTITIES_ANSWER, SSH2_AGENTC_SIGN_REQUEST, SSH2_AGENT_SIGN_RESPONSE

(* A request that is left in its mapping is no answer.                        *)
LEMMA RequestsSilent ==
  ASSUME NEW w \in Space, NEW q \in Requests, Placed(w, 0, RequestBytes(q)), NEW r
  PROVE  ReplyIn(r, w) = KA!Nothing
<1>1. Told(w, {Code(q)})
  BY RequestsTold
<1>2. {Code(q)} \subseteq Silent
  BY DEF Requests, Code, Silent
<1>3. Told(w, Silent)
  BY <1>1, <1>2, ToldMore
<1> QED BY <1>3, RepliesTold

(* A list has the keys that are held.                                        *)
LEMMA ListsHeld ==
  ASSUME BInv, NEW counted \in SUBSET Slots, NEW w \in Space, Placed(w, 0, Answer(counted)), NEW r
  PROVE  ReplyIn(r, w) = [kind |-> "list", keys |-> Held]
<1>1. Cached
  BY DEF BInv, Around
<1>2. Told(w, {SSH2_AGENT_IDENTITIES_ANSWER})
  BY <1>1, AnswersTold
<1>3. KeysListed(Message(w)) = Held
  BY <1>1, Listed DEF Held
<1> QED BY <1>2, <1>3, RepliesTold

-----------------------------------------------------------------------------
(* What steps look like to the key agent.                                    *)

(* The keys that are held.                                                  *)
LEMMA SameHeld ==
  cached' = cached => Held' = Held
BY DEF Held, Loaded

(* A client does something, in its call and its mapping.                      *)
Does(c, x, m) == clients' = [clients EXCEPT ![c] = x] /\ maps' = [maps EXCEPT ![c] = m]

(* Then only its own abstract call changes.                                  *)
LEMMA OneSeen ==
  ASSUME BInv, VInv, NEW c \in Clients, NEW x, NEW m, Does(c, x, m)
  PROVE  /\ c \in Mortal => AbstractCalls' = AbstractCalls
         /\ c \notin Mortal => AbstractCalls' = [AbstractCalls EXCEPT ![c] = Abstraction(x, m.bytes)]
         /\ Abstraction(x, m.bytes) = Abstraction(clients[c], maps[c].bytes) => AbstractCalls' = AbstractCalls
<1>1. DOMAIN clients = Clients /\ DOMAIN maps = Clients
  BY DEF BInv, VInv
<1>2. clients'[c] = x /\ maps'[c] = m
      /\ \A d \in Clients : d # c => clients'[d] = clients[d] /\ maps'[d] = maps[d]
  BY <1>1 DEF Does
<1>3. \A d \in Living : AbstractCall(d)' = IF d = c THEN Abstraction(x, m.bytes) ELSE AbstractCall(d)
  BY <1>2, Abstracted DEF Living
<1>4. AbstractCalls = [d \in Living |-> AbstractCall(d)]
      /\ AbstractCalls' = [d \in Living |-> AbstractCall(d)']
  BY DEF AbstractCalls, Living
<1>5. AbstractCall(c) = Abstraction(clients[c], maps[c].bytes)
  BY Abstracted
<1>6. c \in Mortal => AbstractCalls' = AbstractCalls
  BY <1>3, <1>4 DEF Living
<1>7. c \notin Mortal => AbstractCalls' = [AbstractCalls EXCEPT ![c] = Abstraction(x, m.bytes)]
  BY <1>3, <1>4 DEF Living
<1>8. Abstraction(x, m.bytes) = Abstraction(clients[c], maps[c].bytes) => AbstractCalls' = AbstractCalls
  BY <1>3, <1>4, <1>5
<1> QED BY <1>6, <1>7, <1>8

(* What the key agent's steps are here.                                      *)
Shown == <<Held, AbstractCalls>>

Showing ==
  \/ Shown' = Shown
  \/ KA!Next

(* A call is answered, by what the key agent may say.                         *)
LEMMA AnswerShown ==
  ASSUME BInv, VInv, NEW c \in Clients, clients[c].st \in {"asked", "waiting"}, clients[c].req \in Requests,
         NEW x, x.st = "done", x.req = clients[c].req, NEW m,
         c \notin Mortal =>
           ReplyIn(clients[c].req, m.bytes) \in KA!Permitted(AbstractRequest(clients[c].req), Held),
         Does(c, x, m), cached' = cached
  PROVE  Showing
<1> DEFINE r == AbstractRequest(clients[c].req)
           a == ReplyIn(clients[c].req, m.bytes)
<1>1. Held' = Held
  BY SameHeld
<1>2. CASE c \in Mortal
  BY <1>1, <1>2, OneSeen DEF Showing, Shown
<1>3. CASE c \notin Mortal
  <2>1. AbstractCalls' = [AbstractCalls EXCEPT ![c] = KA!Done(r, a)]
    <3>1. Abstraction(x, m.bytes) = KA!Done(r, a)
      BY Forms
    <3>2. AbstractCalls' = [AbstractCalls EXCEPT ![c] = Abstraction(x, m.bytes)]
      BY <1>3, OneSeen
    <3> QED BY <3>1, <3>2
  <2>2. AbstractCalls[c] \in {KA!Idle, KA!Waiting(r)} /\ c \in Living
    <3>1. AbstractCalls[c] = Abstraction(clients[c], maps[c].bytes) /\ c \in Living
      BY <1>3, Abstracted DEF AbstractCalls, Living
    <3> QED BY <3>1, Forms
  <2>3. r \in KA!Requests /\ a \in KA!Permitted(r, Held)
    BY <1>3, RequestsKnown
  <2> HIDE DEF r, a
  <2>4. KA!Answer(c, r)
    BY <1>1, <2>1, <2>2, <2>3 DEF KA!Answer, AbstractCalls, Held, Living
  <2>5. KA!Next
    BY <2>2, <2>3, <2>4 DEF KA!Next, Living
  <2> QED BY <2>5 DEF Showing
<1> QED BY <1>2, <1>3

(* A call waits for a box, or for a Ledger that will not answer.               *)
LEMMA CallShown ==
  ASSUME BInv, VInv, NEW c \in Clients, clients[c].st = "asked", clients[c].req \in Requests,
         NEW x, x.st = "waiting", x.req = clients[c].req, NEW m,
         Does(c, x, m), cached' = cached
  PROVE  Showing
<1> DEFINE r == AbstractRequest(clients[c].req)
<1>1. Held' = Held
  BY SameHeld
<1>2. CASE c \in Mortal
  BY <1>1, <1>2, OneSeen DEF Showing, Shown
<1>3. CASE c \notin Mortal
  <2>1. AbstractCalls' = [AbstractCalls EXCEPT ![c] = KA!Waiting(r)]
    <3>1. Abstraction(x, m.bytes) = KA!Waiting(r)
      BY Forms
    <3>2. AbstractCalls' = [AbstractCalls EXCEPT ![c] = Abstraction(x, m.bytes)]
      BY <1>3, OneSeen
    <3> QED BY <3>1, <3>2
  <2>2. AbstractCalls[c] = KA!Idle /\ c \in Living
    <3>1. AbstractCalls[c] = Abstraction(clients[c], maps[c].bytes) /\ c \in Living
      BY <1>3, Abstracted DEF AbstractCalls, Living
    <3> QED BY <3>1, Forms
  <2>3. r \in KA!Requests
    BY RequestsKnown
  <2> HIDE DEF r
  <2>4. KA!Call(c, r)
    BY <1>1, <2>1, <2>2 DEF KA!Call, AbstractCalls, Held, Living
  <2>5. KA!Next
    BY <2>2, <2>3, <2>4 DEF KA!Next, Living
  <2> QED BY <2>5 DEF Showing
<1> QED BY <1>2, <1>3

-----------------------------------------------------------------------------
(* The calls cl, as they are when the process ends over them.                  *)
Dropping(cl) == [c \in Living |-> Abstraction(cl[c], maps[c].bytes)]

(* Those that wait return without an answer, and nobody loses one.              *)
LEMMA GoneShown ==
  ASSUME NEW cl, Match(cl), \A c \in Clients : Own(c, cl[c], maps[c].bytes),
         NEW s, Ends(s, cl)
  PROVE  Held' = {} /\ KA!Dropped(Dropping(cl))
<1>1. Held' = {}
  <2>1. \A i \in Slots : cached'[i] = <<>>
    BY DEF Ends
  <2> QED BY <2>1 DEF Held, Loaded
<1>2. ASSUME NEW c \in Living
      PROVE  AbstractCall(c)' = IF Dropping(cl)[c].st = "waiting"
                                THEN KA!Done(Dropping(cl)[c].req, KA!Nothing) ELSE Dropping(cl)[c]
  <2>0. c \in Clients /\ Dropping(cl)[c] = Abstraction(cl[c], maps[c].bytes)
        /\ AbstractCall(c)' = Abstraction(clients'[c], maps'[c].bytes)
    BY Abstracted DEF Living, Dropping
  <2>1. cl[c] \in Call /\ maps[c] \in Mapping /\ maps[c].bytes \in Space /\ CallOK(cl[c], maps[c])
    BY <2>0 DEF Match, Mapping, Space
  <2>2. cl[c].st \in {"idle", "asked", "waiting", "done"} /\ (cl[c].st # "idle" => cl[c].req \in Requests)
    BY <2>1, Calls
  <2>3. cl[c].st # "idle" => maps'[c].bytes = maps[c].bytes
    BY <2>0, <2>1, EndsKeep DEF CallOK, Match
  <2>4. CASE cl[c].st = "waiting"
    <3> DEFINE r == AbstractRequest(cl[c].req)
               x == [st |-> "done", req |-> cl[c].req, ret |-> FALSE, signed |-> NotSigned]
    <3>1. clients'[c] = x
      BY <2>0, <2>4 DEF Ends
    <3>2. Dropping(cl)[c] = KA!Waiting(r)
      BY <2>0, <2>4, Forms
    <3>3. ReplyIn(cl[c].req, maps'[c].bytes) = KA!Nothing
      <4>1. Placed(maps[c].bytes, 0, RequestBytes(cl[c].req))
        BY <2>0, <2>4 DEF Own
      <4>2. ReplyIn(cl[c].req, maps[c].bytes) = KA!Nothing
        BY <2>1, <2>2, <2>4, <4>1, RequestsSilent
      <4> QED BY <2>3, <2>4, <4>2
    <3>4. AbstractCall(c)' = KA!Done(r, KA!Nothing)
      <4>1. x.st = "done" /\ x.req = cl[c].req
        OBVIOUS
      <4> HIDE DEF x
      <4>2. Abstraction(x, maps'[c].bytes) = KA!Done(AbstractRequest(x.req), ReplyIn(x.req, maps'[c].bytes))
        BY <4>1, Forms
      <4> QED BY <2>0, <3>1, <3>3, <4>1, <4>2
    <3> HIDE DEF r
    <3> QED BY <3>2, <3>4 DEF KA!Waiting
  <2>5. CASE cl[c].st # "waiting"
    <3>1. clients'[c] = cl[c]
      BY <2>0, <2>5 DEF Ends
    <3>2. Dropping(cl)[c].st # "waiting"
      BY <2>0, <2>2, <2>5, Forms DEF KA!Idle, KA!Done
    <3>3. Abstraction(cl[c], maps'[c].bytes) = Abstraction(cl[c], maps[c].bytes)
      <4>1. CASE cl[c].st = "idle"
        BY <4>1, Forms
      <4>2. CASE cl[c].st # "idle"
        BY <2>3, <4>2
      <4> QED BY <4>1, <4>2
    <3> QED BY <2>0, <3>1, <3>2, <3>3
  <2> QED BY <2>4, <2>5
<1>3. [c \in Clients \ Mortal |-> AbstractCall(c)]' = [c \in Living |-> AbstractCall(c)']
  BY DEF Living
<1>4. KA!Dropped(Dropping(cl))
  BY <1>2, <1>3 DEF KA!Dropped, Living
<1> QED BY <1>1, <1>4

(* The process ends between calls.                                           *)
LEMMA EndsShown ==
  ASSUME BInv, LInv, NEW s, Ends(s, clients)
  PROVE  Showing
<1>1. Held' = {} /\ KA!Dropped(Dropping(clients))
  BY GoneShown DEF BInv, Match, LInv
<1>2. Dropping(clients) = AbstractCalls
  BY Abstracted DEF Dropping, AbstractCalls
<1>3. KA!Stop
  BY <1>1, <1>2 DEF KA!Stop, Held, AbstractCalls, Living
<1> QED BY <1>3 DEF KA!Next, Showing

(* The process ends in a call, or hangs in it.                               *)
LEMMA OverShown ==
  ASSUME VInv, BInv, LInv, NEW c \in Clients, Calling(c),
         Operation(maps[c].bytes) = SSH2_AGENTC_SIGN_REQUEST,
         (\E s : Ends(s, Waits(c))) \/ Lost(Waits(c))
  PROVE  Showing
<1> DEFINE x == [st |-> "waiting", req |-> clients[c].req]
           cl == Waits(c)
           r == AbstractRequest(clients[c].req)
<1>1. /\ \A d \in Clients : Own(d, cl[d], maps[d].bytes)
      /\ Match(cl) /\ cl = [clients EXCEPT ![c] = x]
  BY WaitingOwns DEF Waits
<1>2. clients[c].st = "asked" /\ clients[c].req \in Requests /\ DOMAIN clients = Clients
  BY Serving DEF VInv
<1>3. cl[c] = x /\ \A d \in Clients : d # c => cl[d] = clients[d]
  BY <1>1, <1>2
<1>4. ASSUME NEW s, Ends(s, cl)
      PROVE  Showing
  <2>1. Held' = {} /\ KA!Dropped(Dropping(cl))
    BY <1>1, <1>4, GoneShown
  <2>2. CASE c \in Mortal
    <3>1. Dropping(cl) = AbstractCalls
      BY <1>3, <2>2, Abstracted DEF Dropping, AbstractCalls, Living
    <3>2. KA!Stop
      BY <2>1, <3>1 DEF KA!Stop, Held, AbstractCalls, Living
    <3> QED BY <3>2 DEF KA!Next, Showing
  <2>3. CASE c \notin Mortal
    <3>1. c \in Living /\ r \in KA!Requests
      BY <1>2, <2>3, RequestsKnown DEF Living
    <3>2. AbstractCalls[c] = KA!Idle
      <4>1. AbstractCalls[c] = Abstraction(clients[c], maps[c].bytes)
        BY <3>1, Abstracted DEF AbstractCalls
      <4> QED BY <1>2, <4>1, Forms
    <3>3. Dropping(cl) = [AbstractCalls EXCEPT ![c] = KA!Waiting(r)]
      <4>1. Abstraction(x, maps[c].bytes) = KA!Waiting(r)
        BY Forms
      <4>2. \A d \in Living : Abstraction(cl[d], maps[d].bytes) = IF d = c THEN KA!Waiting(r) ELSE AbstractCall(d)
        BY <1>3, <4>1, Abstracted DEF Living
      <4> QED BY <4>2 DEF Dropping, AbstractCalls
    <3> HIDE DEF r
    <3>4. KA!Dropped([AbstractCalls EXCEPT ![c] = KA!Waiting(r)])
      BY <2>1, <3>3
    <3>5. KA!Stop
      BY <2>1, <3>1, <3>2, <3>4 DEF KA!Stop, Held, AbstractCalls, Living
    <3> QED BY <3>5 DEF KA!Next, Showing
  <2> QED BY <2>2, <2>3
<1>5. CASE clients' = cl /\ UNCHANGED <<cached, maps>>
  <2> DEFINE m == maps[c]
  <2>1. Does(c, x, m)
    BY <1>1, <1>5 DEF Does, BInv
  <2>2. x.st = "waiting" /\ x.req = clients[c].req
    OBVIOUS
  <2> HIDE DEF x, m
  <2> QED BY <1>2, <1>5, <2>1, <2>2, CallShown
<1> QED BY <1>4, <1>5 DEF Lost

(* The Ledger is lost while a key is fetched.                                *)
LEMMA LostShown ==
  ASSUME BInv, LInv, Lost(clients)
  PROVE  Showing
<1>1. CASE Ends("crashed", clients)
  BY <1>1, EndsShown
<1>2. CASE clients' = clients /\ UNCHANGED <<cached, maps>>
  <2>1. Shown' = Shown
    BY <1>2 DEF Shown, Held, Loaded, AbstractCalls, AbstractCall, AbstractReply, Reply, Living
  <2> QED BY <2>1 DEF Showing
<1> QED BY <1>1, <1>2 DEF Lost

(* The user loads and clears keys, and saves identities.                      *)
LEMMA KeysShown ==
  ASSUME BInv, LInv, NEW i \in Slots, FetchKey(i) \/ ClearKey(i) \/ \E d \in Edits : Save(i, d)
  PROVE  Showing
<1>1. CASE Lost(clients)
  BY <1>1, LostShown
<1>2. CASE /\ \E blob \in {KeyOf(idents[i]), <<>>} : cached' = [cached EXCEPT ![i] = blob]
           /\ UNCHANGED <<maps, clients>>
  <2> DEFINE k == KeyOf(idents[i])
  <2>1. PICK blob \in {k, <<>>} : cached' = [cached EXCEPT ![i] = blob]
    BY <1>2
  <2>2. DOMAIN cached = Slots /\ k \in Key
    BY DEF BInv, Around, Cached, Key
  <2> HIDE DEF k
  <2>3. Held' \subseteq Held \cup {k}
    BY <2>1, <2>2 DEF Held, Loaded
  <2>4. AbstractCalls' = AbstractCalls
    BY <1>2 DEF AbstractCalls, AbstractCall, AbstractReply, Reply, Living
  <2>5. \E x \in Key : KA!Hold(x)
    BY <2>2, <2>3, <2>4 DEF KA!Hold, Held, AbstractCalls, Living
  <2>6. KA!Next
    BY <2>5 DEF KA!Next
  <2> QED BY <2>6 DEF Showing
<1>3. CASE UNCHANGED <<cached, maps, clients>>
  <2>1. Shown' = Shown
    BY <1>3 DEF Shown, Held, Loaded, AbstractCalls, AbstractCall, AbstractReply, Reply, Living
  <2> QED BY <2>1 DEF Showing
<1> QED BY <1>1, <1>2, <1>3 DEF FetchKey, ClearKey, Save

-----------------------------------------------------------------------------
(* What a key agent may answer to each kind of request.                       *)
LEMMA MayAnswer ==
  ASSUME NEW q \in Requests, NEW H
  PROVE  /\ q.kind = "list" => KA!Permitted(AbstractRequest(q), H) = {KA!Nothing, [kind |-> "list", keys |-> H]}
         /\ q.kind = "other" => KA!Permitted(AbstractRequest(q), H) = {KA!Nothing}
         /\ q.kind = "sign" /\ q.key \in H =>
              KA!Permitted(AbstractRequest(q), H) = {KA!Nothing, [kind |-> "sig", key |-> q.key]}
         /\ q.kind = "sign" /\ q.key \notin H => KA!Permitted(AbstractRequest(q), H) = {[kind |-> "failure"]}
BY RequestsKnown DEF KA!Permitted

(* A request is written.                                                    *)
LEMMA AskShown ==
  ASSUME VInv, BInv, NEW c \in Clients, NEW q \in Requests, Ask(c, q)
  PROVE  Showing
<1> DEFINE b == Overwrite(maps[c].bytes, RequestBytes(q))
           x == [st |-> "asked", req |-> q]
           m == [maps[c] EXCEPT !.held = TRUE, !.bytes = b]
<1>1. Does(c, x, m)
  BY DEF Ask, BInv, Does
<1>2. x.st = "asked" /\ clients[c].st = "idle" /\ cached' = cached
  BY DEF Ask
<1> HIDE DEF x, m, b
<1>3. Abstraction(x, m.bytes) = Abstraction(clients[c], maps[c].bytes)
  BY <1>2, Forms
<1>4. AbstractCalls' = AbstractCalls
  BY <1>1, <1>3, OneSeen
<1> QED BY <1>2, <1>4, SameHeld DEF Showing, Shown

(* A client takes its answer, finds no agent, or dies.                        *)
LEMMA GoneClientShown ==
  ASSUME VInv, BInv, NEW c \in Clients, Leave(c) \/ Die(c)
  PROVE  Showing
<1> DEFINE m == Released([maps[c] EXCEPT !.held = FALSE])
           x == [st |-> "idle"]
<1>1. Does(c, x, m) /\ cached' = cached
  BY DEF Leave, Die, CloseMapping, BInv, Does
<1>2. Abstraction(x, m.bytes) = KA!Idle
  BY Forms
<1> HIDE DEF x, m
<1>3. Held' = Held
  BY <1>1, SameHeld
<1>4. CASE c \in Mortal
  BY <1>1, <1>3, <1>4, OneSeen DEF Showing, Shown
<1>5. CASE c \notin Mortal
  <2>1. AbstractCalls' = [AbstractCalls EXCEPT ![c] = KA!Idle] /\ c \in Living
    <3>1. AbstractCalls' = [AbstractCalls EXCEPT ![c] = Abstraction(x, m.bytes)]
      BY <1>1, <1>5, OneSeen
    <3> QED BY <1>2, <1>5, <3>1 DEF Living
  <2>2. clients[c].st = "done" \/ clients[c].st = "asked"
    BY <1>5 DEF Leave, Die
  <2>3. AbstractCalls[c] = Abstraction(clients[c], maps[c].bytes)
    BY <2>1, Abstracted DEF AbstractCalls
  <2>4. CASE clients[c].st = "done"
    <3>1. AbstractCalls[c].st = "done"
      BY <2>3, <2>4, Forms DEF KA!Done
    <3>2. KA!Read(c)
      BY <1>3, <2>1, <3>1 DEF KA!Read, AbstractCalls, Held, Living
    <3> QED BY <2>1, <3>2 DEF KA!Next, Showing, Living
  <2>5. CASE clients[c].st = "asked"
    <3>1. Abstraction(x, m.bytes) = Abstraction(clients[c], maps[c].bytes)
      BY <1>2, <2>5, Forms
    <3>2. AbstractCalls' = AbstractCalls
      BY <1>1, <3>1, OneSeen
    <3> QED BY <1>3, <3>2 DEF Showing, Shown
  <2> QED BY <2>2, <2>4, <2>5
<1> QED BY <1>4, <1>5

(* An operation that is not known.                                           *)
LEMMA OtherShown ==
  ASSUME VInv, BInv, LInv, NEW c \in Clients, CopyDataOther(c)
  PROVE  Showing
<1> DEFINE w == maps[c].bytes
           q == clients[c].req
           x == [st |-> "done", req |-> q, ret |-> FALSE, signed |-> NotSigned]
<1>1. /\ clients[c].st = "asked" /\ q \in Requests /\ w \in Space /\ maps \in [Clients -> Mapping]
      /\ Calling(c) /\ Operation(w) \notin {SSH2_AGENTC_REQUEST_IDENTITIES, SSH2_AGENTC_SIGN_REQUEST}
  BY Serving DEF CopyDataOther, Match
<1>2. c \notin Mortal => ReplyIn(q, w) \in KA!Permitted(AbstractRequest(q), Held)
  <2>1. SUFFICES ASSUME c \notin Mortal PROVE ReplyIn(q, w) \in KA!Permitted(AbstractRequest(q), Held)
    OBVIOUS
  <2>2. Placed(w, 0, RequestBytes(q)) /\ Operation(w) = Code(q)
    BY <1>1, <2>1, OwnRequest
  <2>3. q.kind = "other"
    BY <1>1, <2>2, Kinds
  <2>4. ReplyIn(q, w) = KA!Nothing
    BY <1>1, <2>2, RequestsSilent
  <2>5. KA!Permitted(AbstractRequest(q), Held) = {KA!Nothing}
    BY <1>1, <2>3, MayAnswer
  <2> QED BY <2>4, <2>5
<1>3. PICK m \in Mapping : m.bytes = w /\ maps' = [maps EXCEPT ![c] = m]
  <2>1. w \in Space /\ maps' = Opened(c, w)
    BY <1>1 DEF CopyDataOther
  <2> HIDE DEF w
  <2>2. PICK m \in Mapping : m.bytes = w /\ Opened(c, w) = [maps EXCEPT ![c] = m]
    BY <1>1, <2>1, OpenedMapping
  <2> QED BY <2>1, <2>2
<1>4. Does(c, x, m) /\ cached' = cached
  BY <1>3 DEF CopyDataOther, Returned, Does
<1>5. x.st = "done" /\ x.req = clients[c].req
  OBVIOUS
<1> HIDE DEF x
<1>6. c \notin Mortal => ReplyIn(clients[c].req, m.bytes) \in KA!Permitted(AbstractRequest(clients[c].req), Held)
  BY <1>2, <1>3
<1>7. clients[c].st \in {"asked", "waiting"} /\ clients[c].req \in Requests
  BY <1>1
<1> QED BY <1>4, <1>5, <1>6, <1>7, AnswerShown

(* A list that is written, or is too long to be written over its request.        *)
LEMMA ListPermitted ==
  ASSUME BInv, NEW q \in Requests, q.kind = "list", NEW w \in Space, Placed(w, 0, RequestBytes(q)),
         NEW counted \in SUBSET Slots
  PROVE  /\ ReplyIn(q, w) \in KA!Permitted(AbstractRequest(q), Held)
         /\ ReplyIn(q, Write(w, Answer(counted))) \in KA!Permitted(AbstractRequest(q), Held)
         /\ Write(w, Answer(counted)) \in Space
<1> DEFINE b == Write(w, Answer(counted))
<1>1. b \in Space /\ (b = w \/ Placed(b, 0, Answer(counted)))
  <2>1. Answer(counted) \in Bytes
    BY AnswersTold DEF BInv, Around
  <2> QED BY <2>1, Writes
<1> HIDE DEF b
<1>2. ReplyIn(q, w) = KA!Nothing
  BY RequestsSilent
<1>3. ReplyIn(q, b) \in {KA!Nothing, [kind |-> "list", keys |-> Held]}
  BY <1>1, <1>2, ListsHeld
<1>4. KA!Permitted(AbstractRequest(q), Held) = {KA!Nothing, [kind |-> "list", keys |-> Held]}
  BY MayAnswer
<1> QED BY <1>1, <1>2, <1>3, <1>4 DEF b

(* A list, or a box in front of it.                                          *)
LEMMA ListShown ==
  ASSUME VInv, BInv, LInv, NEW c \in Clients, CopyDataList(c)
  PROVE  Showing
<1> DEFINE w == maps[c].bytes
           q == clients[c].req
           d == Write(w, Answer(Loaded))
<1>1. /\ clients[c].st = "asked" /\ w \in Space /\ maps \in [Clients -> Mapping] /\ q \in Requests
      /\ Loaded \in SUBSET Slots
  BY Serving DEF CopyDataList, Match, Loaded
<1>2. q.kind = "list" /\ Placed(w, 0, RequestBytes(q))
  <2>1. Calling(c) /\ Operation(w) = SSH2_AGENTC_REQUEST_IDENTITIES
    BY DEF CopyDataList
  <2> QED BY <2>1, OwnRequest, Kinds
<1>3. /\ \/ maps' = Opened(c, w) /\ clients' = Waits(c)
         \/ maps' = Opened(c, d) /\ clients' = Returned(c, TRUE, NotSigned)
      /\ cached' = cached
  BY DEF CopyDataList
<1>4. d \in Space /\ ReplyIn(q, d) \in KA!Permitted(AbstractRequest(q), Held)
  BY <1>1, <1>2, ListPermitted
<1>5. CASE maps' = Opened(c, d) /\ clients' = Returned(c, TRUE, NotSigned)
  <2> DEFINE x == [st |-> "done", req |-> q, ret |-> TRUE, signed |-> NotSigned]
  <2> HIDE DEF d
  <2>1. PICK m \in Mapping : m.bytes = d /\ Opened(c, d) = [maps EXCEPT ![c] = m]
    BY <1>1, <1>4, OpenedMapping
  <2>2. Does(c, x, m) /\ x.st = "done" /\ x.req = clients[c].req
    BY <1>5, <2>1 DEF Does, Returned
  <2> HIDE DEF x
  <2>3. ReplyIn(clients[c].req, m.bytes) \in KA!Permitted(AbstractRequest(clients[c].req), Held)
    BY <1>4, <2>1
  <2>4. clients[c].st \in {"asked", "waiting"} /\ clients[c].req \in Requests
    BY <1>1
  <2> QED BY <1>3, <2>2, <2>3, <2>4, AnswerShown
<1>6. CASE maps' = Opened(c, w) /\ clients' = Waits(c)
  <2> DEFINE x == [st |-> "waiting", req |-> q]
             b == w
  <2>1. b \in Space /\ maps' = Opened(c, b)
    BY <1>1, <1>6
  <2> HIDE DEF b
  <2>2. PICK m \in Mapping : Opened(c, b) = [maps EXCEPT ![c] = m]
    BY <1>1, <2>1, OpenedMapping
  <2>3. Does(c, x, m) /\ x.st = "waiting" /\ x.req = clients[c].req
    BY <1>6, <2>1, <2>2 DEF Does, Waits
  <2> HIDE DEF x
  <2>4. clients[c].st = "asked" /\ clients[c].req \in Requests
    BY <1>1
  <2> QED BY <1>3, <2>3, <2>4, CallShown
<1> QED BY <1>3, <1>5, <1>6

(* A failure fits in every mapping that a request for a signature fits in.       *)
LEMMA FailureWritten ==
  ASSUME NEW w \in Space, 9 <= Len(w), NEW r
  PROVE  Write(w, Failure) \in Space /\ ReplyIn(r, Write(w, Failure)) = [kind |-> "failure"]
<1> DEFINE b == SSH_AGENT_FAILURE
           f == <<b>>
<1>1. f \in Bytes /\ Len(f) = 1
  <2>1. b \in 0..255
    BY DEF SSH_AGENT_FAILURE
  <2> HIDE DEF b
  <2> QED BY <2>1, OneByte
<1>2. Failure = String(f)
  BY DEF Failure
<1> HIDE DEF f
<1>3. Failure \in Bytes /\ Len(Failure) = 5
  <2>1. String(f) \in Bytes /\ Len(String(f)) = 4 + Len(f)
    BY <1>1, StringBytes
  <2>2. Len(String(f)) = 5
    BY <1>1, <2>1
  <2> QED BY <1>2, <2>1, <2>2
<1>4. Len(w) = MapLength /\ MapLength \in Nat
  BY Spaces
<1>5. Len(Failure) <= MapLength /\ ~(Len(Failure) >= MapLength)
  BY <1>3, <1>4
<1>6. Write(w, Failure) = Overwrite(w, Failure)
  BY <1>5 DEF Write
<1>7. Overwrite(w, Failure) \in Space /\ Placed(Overwrite(w, Failure), 0, Failure)
  BY <1>3, <1>5, Overwritten
<1>8. Told(Overwrite(w, Failure), {SSH_AGENT_FAILURE})
  BY <1>7, FailuresTold
<1> QED BY <1>6, <1>7, <1>8, RepliesTold

(* A signature, a refusal, a key that is not known; or the Ledger is lost.       *)
LEMMA SignShown ==
  ASSUME VInv, BInv, LInv, NEW c \in Clients, CopyDataSign(c)
  PROVE  Showing
<1> DEFINE w == maps[c].bytes
           q == clients[c].req
           i == Min(Matching(w))
           answer(sig) == SignResponse(idents[i].ktype, DER(sig[1], sig[2]))
<1>1. /\ clients[c].st = "asked" /\ w \in Space /\ maps \in [Clients -> Mapping] /\ q \in Requests
      /\ Calling(c) /\ Operation(w) = SSH2_AGENTC_SIGN_REQUEST /\ w \in Bytes /\ Len(w) < Sizes
  BY Serving DEF CopyDataSign, Match
<1>2. q.kind = "sign" /\ Placed(w, 0, RequestBytes(q))
  BY <1>1, OwnRequest, Kinds
<1>3. KeyAsked(w) = q.key /\ 9 <= Len(w)
  BY <1>1, <1>2, RequestsTold
<1>4. Matching(w) # {} <=> q.key \in Held
  BY <1>3 DEF Matching, Held
<1>5. ReplyIn(q, w) = KA!Nothing
  BY <1>1, <1>2, RequestsSilent
<1>6. \/ /\ cached' = cached /\ \E r, g : clients' = Returned(c, r, g)
         /\ \/ Matching(w) = {} /\ maps' = Opened(c, Write(w, Failure))
            \/ Matching(w) # {} /\ maps' = OpenedAndClosed(c, w)
            \/ Matching(w) # {} /\ \E sig \in Signatures : maps' = OpenedAndClosed(c, Write(w, answer(sig)))
      \/ Lost(Waits(c))
      \/ Ends("crashed", Waits(c))
  BY DEF CopyDataSign
<1>7. CASE Lost(Waits(c)) \/ Ends("crashed", Waits(c))
  BY <1>1, <1>7, OverShown
<1>8. ASSUME NEW b \in Space, ReplyIn(q, b) \in KA!Permitted(AbstractRequest(q), Held),
             maps' = Opened(c, b) \/ maps' = OpenedAndClosed(c, b),
             cached' = cached, \E r, g : clients' = Returned(c, r, g)
      PROVE  Showing
  <2>1. PICK m \in Mapping : m.bytes = b /\ maps' = [maps EXCEPT ![c] = m]
    BY <1>1, <1>8, OpenedMapping, ClosedMapping
  <2>2. PICK x : Does(c, x, m) /\ x.st = "done" /\ x.req = clients[c].req
    <3>1. PICK r, g : clients' = Returned(c, r, g)
      BY <1>8
    <3> DEFINE x == [st |-> "done", req |-> clients[c].req, ret |-> r, signed |-> g]
    <3>2. Does(c, x, m) /\ x.st = "done" /\ x.req = clients[c].req
      BY <2>1, <3>1 DEF Does, Returned
    <3> HIDE DEF x
    <3> QED BY <3>2
  <2>3. ReplyIn(clients[c].req, m.bytes) \in KA!Permitted(AbstractRequest(clients[c].req), Held)
    BY <1>8, <2>1
  <2>4. clients[c].st \in {"asked", "waiting"} /\ clients[c].req \in Requests
    BY <1>1
  <2> QED BY <1>8, <2>2, <2>3, <2>4, AnswerShown
<1>9. CASE cached' = cached /\ (\E r, g : clients' = Returned(c, r, g))
           /\ Matching(w) = {} /\ maps' = Opened(c, Write(w, Failure))
  <2> DEFINE b == Write(w, Failure)
  <2>1. b \in Space /\ ReplyIn(q, b) = [kind |-> "failure"]
    BY <1>1, <1>3, FailureWritten
  <2>2. KA!Permitted(AbstractRequest(q), Held) = {[kind |-> "failure"]}
    BY <1>1, <1>2, <1>4, <1>9, MayAnswer
  <2>3. ReplyIn(q, b) \in KA!Permitted(AbstractRequest(q), Held) /\ maps' = Opened(c, b)
    BY <1>9, <2>1, <2>2
  <2> HIDE DEF b
  <2> QED BY <1>8, <1>9, <2>1, <2>3
<1>10. Matching(w) # {} =>
         KA!Permitted(AbstractRequest(q), Held) = {KA!Nothing, [kind |-> "sig", key |-> q.key]}
  BY <1>1, <1>2, <1>4, MayAnswer
<1>11. CASE cached' = cached /\ (\E r, g : clients' = Returned(c, r, g))
            /\ Matching(w) # {} /\ maps' = OpenedAndClosed(c, w)
  <2>1. ReplyIn(q, w) \in KA!Permitted(AbstractRequest(q), Held)
    BY <1>5, <1>10, <1>11
  <2> QED BY <1>1, <1>8, <1>11, <2>1
<1>12. ASSUME cached' = cached, \E r, g : clients' = Returned(c, r, g), Matching(w) # {},
              NEW sig \in Signatures, maps' = OpenedAndClosed(c, Write(w, answer(sig)))
       PROVE  Showing
  <2> DEFINE a == answer(sig)
             b == Write(w, a)
  <2>1. i \in Slots
    <3> DEFINE T == Matching(w)
    <3>1. T \subseteq Nat /\ T # {} /\ i = Min(T) /\ T \subseteq Slots
      BY <1>12, IdentityKeys DEF Matching, Loaded
    <3> HIDE DEF T, i
    <3>2. i \in T
      BY <3>1, LeastElement DEF Min
    <3> QED BY <3>1, <3>2
  <2>2. idents[i].ktype \in {"nistp256", "ed25519"} /\ sig[1] \in Coordinate /\ sig[2] \in Coordinate
    BY <2>1, SavedFields, RequestsAssumption
  <2> HIDE DEF i
  <2>3. a \in Bytes /\ \A v : Placed(v, 0, a) => Told(v, {SSH2_AGENT_SIGN_RESPONSE})
    BY <2>2, SignReplies, SignaturesTold
  <2> HIDE DEF a
  <2>4. b \in Space /\ (b = w \/ Placed(b, 0, a))
    BY <1>1, <2>3, Writes
  <2>5. maps' = OpenedAndClosed(c, b)
    BY <1>12 DEF a
  <2> HIDE DEF b
  <2>6. ReplyIn(q, b) \in {KA!Nothing, [kind |-> "sig", key |-> q.key]}
    BY <1>5, <2>3, <2>4, RepliesTold
  <2>7. ReplyIn(q, b) \in KA!Permitted(AbstractRequest(q), Held)
    BY <1>10, <1>12, <2>6
  <2> QED BY <1>8, <1>12, <2>4, <2>5, <2>7
<1> QED BY <1>6, <1>7, <1>9, <1>11, <1>12

(* A box is answered: with a list, or without.                               *)
LEMMA BoxShown ==
  ASSUME VInv, BInv, LInv, Present \/ GiveUp
  PROVE  Showing
<1> DEFINE c == Inner.client
           q == clients[c].req
           w == maps[c].bytes
           d == Write(w, Answer(Inner.counted))
<1>1. CASE Ends("undefined", clients)
  BY <1>1, EndsShown
<1>2. CASE /\ Return /\ stack # <<>> /\ cached' = cached
           /\ maps' = maps \/ maps' = [maps EXCEPT ![c].bytes = Write(@, Answer(Inner.counted))]
  <2>1. /\ Inner.orphan => c \in Mortal /\ clients' = clients
        /\ ~Inner.orphan => /\ clients[c].st = "waiting" /\ q.kind = "list"
                            /\ clients' = Returned(c, TRUE, NotSigned)
        /\ c \in Clients /\ Inner.counted \in SUBSET Slots
    BY <1>2, ReturnOwns
  <2>2. w \in Space /\ maps \in [Clients -> Mapping] /\ maps[c] \in Mapping
        /\ clients \in [Clients -> Call] /\ clients[c] \in Call
    BY <2>1 DEF BInv, Mapping, Space
  <2>3. PICK m : Does(c, clients'[c], m) /\ m.bytes \in {w, d}
    <3> DEFINE next == [maps[c] EXCEPT !.bytes = d]
    <3>1. clients' = [clients EXCEPT ![c] = clients'[c]]
      BY <2>1, <2>2 DEF Returned
    <3>2. CASE maps' = maps
      <4>1. maps' = [maps EXCEPT ![c] = maps[c]]
        BY <2>2, <3>2
      <4> QED BY <3>1, <4>1 DEF Does
    <3>3. CASE maps' = [maps EXCEPT ![c].bytes = Write(@, Answer(Inner.counted))]
      <4> HIDE DEF d
      <4>1. maps' = [maps EXCEPT ![c] = next]
        BY <2>1, <2>2, <3>3 DEF d
      <4>2. next.bytes = d
        BY <2>2 DEF Mapping
      <4> HIDE DEF next
      <4> QED BY <3>1, <4>1, <4>2 DEF Does
    <3> QED BY <1>2, <3>2, <3>3
  <2>4. CASE Inner.orphan
    BY <1>2, <2>1, <2>3, <2>4, OneSeen, SameHeld DEF Showing, Shown
  <2>5. CASE ~Inner.orphan
    <3>1. q \in Requests /\ Placed(w, 0, RequestBytes(q))
      BY <2>1, <2>2, <2>5, Calls DEF LInv, Own
    <3>2. ReplyIn(q, m.bytes) \in KA!Permitted(AbstractRequest(q), Held)
      BY <2>1, <2>2, <2>3, <2>5, <3>1, ListPermitted
    <3> DEFINE x == clients'[c]
    <3>3. x.st = "done" /\ x.req = clients[c].req /\ Does(c, x, m)
      BY <2>1, <2>2, <2>3, <2>5 DEF Returned
    <3>4. clients[c].st \in {"asked", "waiting"} /\ clients[c].req \in Requests
      BY <2>1, <2>5, <3>1
    <3> HIDE DEF x, c
    <3> QED BY <1>2, <2>1, <3>2, <3>3, <3>4, AnswerShown
  <2> QED BY <2>4, <2>5
<1> QED BY <1>1, <1>2 DEF Present, GiveUp

-----------------------------------------------------------------------------
(* The key agent's initial states, and its steps.                            *)
LEMMA ShownInit == Init => KA!Init
<1> SUFFICES ASSUME Init PROVE KA!Init
  OBVIOUS
<1>1. Held = {}
  BY DEF Init, Held, Loaded
<1>2. \A c \in Living : AbstractCall(c) = KA!Idle
  <2> TAKE c \in Living
  <2>1. clients[c].st \in {"idle", "asked"}
    BY DEF Init, Living
  <2> QED BY <2>1, Abstracted, Forms
<1> QED BY <1>1, <1>2 DEF KA!Init, Held, Living

(* Every step is a step of the key agent, or changes nothing there.             *)
LEMMA ShownStep == VInv /\ BInv /\ LInv /\ [Next]_vars => [KA!Next]_KA!vars
<1> SUFFICES ASSUME VInv, BInv, LInv, [Next]_vars PROVE Showing
  BY DEF Showing, Shown, Held, AbstractCalls, Living, KA!vars
<1>1. CASE \E c \in Clients :
             \/ \E q \in Requests : Ask(c, q)
             \/ Leave(c) \/ Die(c)
             \/ CopyDataList(c) \/ CopyDataSign(c) \/ CopyDataOther(c)
  BY <1>1, AskShown, GoneClientShown, ListShown, SignShown, OtherShown
<1>2. CASE Present \/ GiveUp
  BY <1>2, BoxShown
<1>3. CASE \E i \in Slots : FetchKey(i) \/ ClearKey(i) \/ \E d \in Edits : Save(i, d)
  BY <1>3, KeysShown
<1>4. CASE Exit
  BY <1>4, EndsShown DEF Exit
<1>5. CASE Plug \/ Unplug \/ Stopped \/ UNCHANGED vars
  <2>1. UNCHANGED <<cached, clients, maps>>
    BY <1>5 DEF Plug, Unplug, Stopped, vars
  <2>2. Shown' = Shown
    BY <2>1 DEF Shown, Held, Loaded, AbstractCalls, AbstractCall, AbstractReply, Reply, Living
  <2> QED BY <2>2 DEF Showing
<1> QED BY <1>1, <1>2, <1>3, <1>4, <1>5 DEF Next

(* What clients that live read from their mappings, taken apart by the          *)
(* protocol, is what a key agent answers, whatever dead clients left in their   *)
(* mappings and on the stack (HandleMemoryMap, PresentPubKeys, SignMap).      *)
THEOREM BytesServeKeys == Spec => ServesKeys
BY ShownInit, ShownStep, OwnsAlways, PTL DEF Spec, ServesKeys, KA!Spec

-----------------------------------------------------------------------------
(* A message that is a list says how many keys it has.                        *)
Counts(w) ==
  Message(w)[1] = SSH2_AGENT_IDENTITIES_ANSWER =>
    Len(StringsFrom(Message(w), 5)) = 2 * AsInt(Message(w), 1)

(* The box that c waited for, when the keys changed while it was open.          *)
Changed(c) == stack # <<>> /\ Inner.client = c /\ Inner.counted # Loaded

(* Calls that return with TRUE leave such a message, or such a box.             *)
Counting ==
  \A c \in Clients :
    clients'[c].st = "done" /\ clients[c].st # "done" /\ clients'[c].ret =>
      Counts(maps'[c].bytes) \/ Changed(c)

(* Messages of other kinds are no lists.                                     *)
LEMMA OthersCount ==
  ASSUME NEW w \in Space, NEW codes, Told(w, codes), SSH2_AGENT_IDENTITIES_ANSWER \notin codes
  PROVE  Counts(w)
<1>1. w \in Bytes /\ Len(w) < Sizes
  BY Spaces
<1>2. Message(w)[1] \in codes
  BY <1>1, Operations
<1> QED BY <1>2 DEF Counts

(* Nor are requests.                                                        *)
LEMMA RequestsCount ==
  ASSUME NEW w \in Space, NEW q \in Requests, Placed(w, 0, RequestBytes(q))
  PROVE  Counts(w)
<1>1. Told(w, {Code(q)})
  BY RequestsTold
<1>2. SSH2_AGENT_IDENTITIES_ANSWER \notin {Code(q)}
  BY DEF Requests, Code, SSH2_AGENT_IDENTITIES_ANSWER, SSH2_AGENTC_SIGN_REQUEST,
         SSH2_AGENTC_REQUEST_IDENTITIES
<1> QED BY <1>1, <1>2, OthersCount

(* The answer to a request for a list, if the keys are those that were counted. *)
LEMMA AnswersCount ==
  ASSUME BInv, NEW q \in Requests, NEW w \in Space, Placed(w, 0, RequestBytes(q)),
         NEW counted \in SUBSET Slots, counted = Loaded
  PROVE  Counts(Write(w, Answer(counted)))
<1> DEFINE a == Answer(counted)
           b == Write(w, a)
<1>1. Cached /\ a \in Bytes
  BY AnswersTold DEF BInv, Around
<1>2. b \in Space /\ (b = w \/ Placed(b, 0, a))
  <2> HIDE DEF a
  <2> QED BY <1>1, Writes
<1> HIDE DEF b
<1>3. CASE b = w
  BY <1>3, RequestsCount DEF b
<1>4. CASE Placed(b, 0, a)
  <2>1. /\ Len(StringsFrom(Message(b), 5)) = 2 * Cardinality(Loaded)
        /\ AsInt(Message(b), 1) = Cardinality(Loaded)
    BY <1>1, <1>2, <1>4, Listed
  <2> QED BY <2>1 DEF Counts, b
<1> QED BY <1>2, <1>3, <1>4

(* What one client does.                                                    *)
LEMMA OneCounts ==
  ASSUME BInv, VInv, NEW c \in Clients, NEW x, NEW m, Does(c, x, m),
         x.st = "done" /\ x.ret => Counts(m.bytes) \/ Changed(c)
  PROVE  Counting
<1>1. DOMAIN clients = Clients /\ DOMAIN maps = Clients
  BY DEF BInv, VInv
<1>2. clients'[c] = x /\ maps'[c] = m
      /\ \A d \in Clients : d # c => clients'[d] = clients[d]
  BY <1>1 DEF Does
<1> QED BY <1>2 DEF Counting

(* The end of the process answers nobody with TRUE.                           *)
LEMMA EndsCount ==
  ASSUME NEW cl, \A c \in Clients : cl[c].st = "done" => clients[c].st = "done",
         (\E s : Ends(s, cl)) \/ Lost(cl)
  PROVE  Counting
<1>1. ASSUME NEW s, Ends(s, cl) PROVE Counting
  <2>1. SUFFICES ASSUME NEW c \in Clients, clients'[c].st = "done", clients[c].st # "done", clients'[c].ret
                 PROVE  FALSE
    BY DEF Counting
  <2>2. CASE cl[c].st = "waiting"
    <3>1. clients'[c].ret = FALSE
      BY <1>1, <2>2 DEF Ends
    <3> QED BY <2>1, <3>1
  <2>3. CASE cl[c].st # "waiting"
    <3>1. clients'[c] = cl[c]
      BY <1>1, <2>3 DEF Ends
    <3> QED BY <2>1, <3>1
  <2> QED BY <2>2, <2>3
<1>2. CASE clients' = cl
  BY <1>2 DEF Counting
<1> QED BY <1>1, <1>2 DEF Lost

(* So does its end in a call.                                               *)
LEMMA OverCounts ==
  ASSUME VInv, NEW c \in Clients, (\E s : Ends(s, Waits(c))) \/ Lost(Waits(c))
  PROVE  Counting
<1> DEFINE cl == Waits(c)
<1>1. \A d \in Clients : cl[d].st = "done" => clients[d].st = "done"
  BY DEF Waits, VInv
<1> HIDE DEF cl
<1>2. (\E s : Ends(s, cl)) \/ Lost(cl)
  BY DEF cl
<1> QED BY <1>1, <1>2, EndsCount

(* A list, or a box in front of it.                                          *)
LEMMA ListCounts ==
  ASSUME VInv, BInv, LInv, NEW c \in Clients, CopyDataList(c)
  PROVE  Counting
<1> DEFINE w == maps[c].bytes
           q == clients[c].req
           b == Write(w, Answer(Loaded))
           x == [st |-> "done", req |-> q, ret |-> TRUE, signed |-> NotSigned]
<1>1. clients[c].st = "asked" /\ w \in Space /\ maps \in [Clients -> Mapping]
      /\ Calling(c) /\ Operation(w) = SSH2_AGENTC_REQUEST_IDENTITIES
  BY Serving DEF CopyDataList, Match
<1>2. \/ clients' = Waits(c)
      \/ maps' = Opened(c, b) /\ clients' = Returned(c, TRUE, NotSigned)
  BY DEF CopyDataList
<1>3. CASE clients' = Waits(c)
  <2>1. \A d \in Clients : clients'[d].st = "done" => clients[d].st = "done"
    BY <1>3 DEF Waits, VInv
  <2> QED BY <2>1 DEF Counting
<1>4. CASE maps' = Opened(c, b) /\ clients' = Returned(c, TRUE, NotSigned)
  <2>1. q \in Requests /\ Placed(w, 0, RequestBytes(q))
    BY <1>1, OwnRequest
  <2>2. Counts(b) /\ b \in Space
    <3>1. Loaded \in SUBSET Slots /\ Cached
      BY DEF Loaded, BInv, Around
    <3>2. Answer(Loaded) \in Bytes
      BY <3>1, AnswersTold
    <3> QED BY <1>1, <2>1, <3>1, <3>2, Writes, AnswersCount
  <2>3. maps' = Opened(c, b)
    BY <1>4
  <2> HIDE DEF b
  <2>4. PICK m \in Mapping : m.bytes = b /\ maps' = [maps EXCEPT ![c] = m]
    BY <1>1, <2>2, <2>3, OpenedMapping
  <2>5. Does(c, x, m)
    BY <1>4, <2>4 DEF Returned, Does
  <2> HIDE DEF x
  <2> QED BY <2>2, <2>4, <2>5, OneCounts
<1> QED BY <1>2, <1>3, <1>4

(* A signature, a refusal, a key that is not known; or the Ledger is lost.       *)
LEMMA SignCounts ==
  ASSUME VInv, BInv, LInv, NEW c \in Clients, CopyDataSign(c)
  PROVE  Counting
<1> DEFINE w == maps[c].bytes
           q == clients[c].req
           i == Min(Matching(w))
           answer(sig) == SignResponse(idents[i].ktype, DER(sig[1], sig[2]))
<1>1. /\ w \in Space /\ maps \in [Clients -> Mapping]
      /\ Calling(c) /\ Operation(w) = SSH2_AGENTC_SIGN_REQUEST
  BY Serving DEF CopyDataSign, Match
<1>2. Counts(w)
  BY <1>1, OwnRequest, RequestsCount
<1>3. \/ clients' = Returned(c, FALSE, NotSigned) /\ maps' = Opened(c, Write(w, Failure))
      \/ maps' = OpenedAndClosed(c, w) /\ \E g : clients' = Returned(c, TRUE, g)
      \/ /\ Matching(w) # {}
         /\ \E sig \in Signatures : maps' = OpenedAndClosed(c, Write(w, answer(sig)))
         /\ \E g : clients' = Returned(c, TRUE, g)
      \/ Lost(Waits(c))
      \/ Ends("crashed", Waits(c))
  BY DEF CopyDataSign
<1>4. CASE Lost(Waits(c)) \/ Ends("crashed", Waits(c))
  BY <1>4, OverCounts
<1>5. CASE clients' = Returned(c, FALSE, NotSigned)
  <2>1. \A d \in Clients : clients'[d].st = "done" /\ clients[d].st # "done" => ~clients'[d].ret
    BY <1>5 DEF Returned, VInv
  <2> QED BY <2>1 DEF Counting
<1>6. ASSUME NEW b \in Space, Counts(b), maps' = OpenedAndClosed(c, b), NEW g, clients' = Returned(c, TRUE, g)
      PROVE  Counting
  <2> DEFINE x == [st |-> "done", req |-> q, ret |-> TRUE, signed |-> g]
  <2>1. PICK m \in Mapping : m.bytes = b /\ maps' = [maps EXCEPT ![c] = m]
    BY <1>1, <1>6, ClosedMapping
  <2>2. Does(c, x, m)
    BY <1>6, <2>1 DEF Returned, Does
  <2> HIDE DEF x
  <2> QED BY <1>6, <2>1, <2>2, OneCounts
<1>7. CASE maps' = OpenedAndClosed(c, w) /\ \E g : clients' = Returned(c, TRUE, g)
  BY <1>1, <1>2, <1>6, <1>7
<1>8. ASSUME Matching(w) # {}, NEW sig \in Signatures, maps' = OpenedAndClosed(c, Write(w, answer(sig))),
             NEW g, clients' = Returned(c, TRUE, g)
      PROVE  Counting
  <2> DEFINE a == answer(sig)
             b == Write(w, a)
  <2>1. i \in Slots
    <3> DEFINE T == Matching(w)
    <3>1. T \subseteq Nat /\ T # {} /\ i = Min(T) /\ T \subseteq Slots
      BY <1>8, IdentityKeys DEF Matching, Loaded
    <3> HIDE DEF T, i
    <3>2. i \in T
      BY <3>1, LeastElement DEF Min
    <3> QED BY <3>1, <3>2
  <2>2. idents[i].ktype \in {"nistp256", "ed25519"} /\ sig[1] \in Coordinate /\ sig[2] \in Coordinate
    BY <2>1, SavedFields, RequestsAssumption
  <2> HIDE DEF i
  <2>3. a \in Bytes /\ \A v : Placed(v, 0, a) => Told(v, {SSH2_AGENT_SIGN_RESPONSE})
    BY <2>2, SignReplies, SignaturesTold
  <2> HIDE DEF a
  <2>4. b \in Space /\ (b = w \/ Placed(b, 0, a))
    BY <1>1, <2>3, Writes
  <2>5. maps' = OpenedAndClosed(c, b)
    BY <1>8 DEF a
  <2> HIDE DEF b
  <2>6. SSH2_AGENT_IDENTITIES_ANSWER \notin {SSH2_AGENT_SIGN_RESPONSE}
    BY DEF SSH2_AGENT_IDENTITIES_ANSWER, SSH2_AGENT_SIGN_RESPONSE
  <2>7. Counts(b)
    BY <1>2, <2>3, <2>4, <2>6, OthersCount
  <2> QED BY <1>6, <1>8, <2>4, <2>5, <2>7
<1> QED BY <1>3, <1>4, <1>5, <1>7, <1>8

(* A box is answered: with a list, or without.                               *)
LEMMA BoxCounts ==
  ASSUME VInv, BInv, LInv, Present \/ GiveUp
  PROVE  Counting
<1> DEFINE c == Inner.client
           q == clients[c].req
           w == maps[c].bytes
           d == Write(w, Answer(Inner.counted))
<1>1. CASE Ends("undefined", clients)
  BY <1>1, EndsCount
<1>2. CASE /\ Return /\ stack # <<>>
           /\ maps' = maps \/ maps' = [maps EXCEPT ![c].bytes = Write(@, Answer(Inner.counted))]
  <2>1. /\ Inner.orphan => clients' = clients
        /\ ~Inner.orphan => clients[c].st = "waiting" /\ clients' = Returned(c, TRUE, NotSigned)
        /\ c \in Clients /\ Inner.counted \in SUBSET Slots
    BY <1>2, ReturnOwns
  <2>2. CASE Inner.orphan
    BY <2>1, <2>2 DEF Counting
  <2>3. CASE ~Inner.orphan
    <3>1. maps \in [Clients -> Mapping] /\ maps[c] \in Mapping /\ w \in Space /\ clients[c] \in Call
      BY <2>1 DEF BInv, Mapping, Space
    <3>2. q \in Requests /\ Placed(w, 0, RequestBytes(q))
      BY <2>1, <2>3, <3>1, Calls DEF LInv, Own
    <3>3. Counts(w) /\ (Inner.counted = Loaded => Counts(d))
      BY <2>1, <3>1, <3>2, RequestsCount, AnswersCount
    <3>4. maps'[c].bytes \in {w, d}
      <4> HIDE DEF d
      <4>1. \A m \in Mapping : [m EXCEPT !.bytes = d].bytes = d
        BY DEF Mapping
      <4>2. CASE maps' = [maps EXCEPT ![c].bytes = Write(@, Answer(Inner.counted))]
        <5>1. maps'[c] = [maps[c] EXCEPT !.bytes = d]
          BY <2>1, <3>1, <4>2 DEF d
        <5> QED BY <3>1, <4>1, <5>1
      <4> QED BY <1>2, <4>2
    <3>5. \A e \in Clients : e # c => clients'[e] = clients[e]
      BY <2>1, <2>3 DEF Returned, VInv
    <3>6. Counts(maps'[c].bytes) \/ Changed(c)
      <4> HIDE DEF d, w
      <4> QED BY <1>2, <3>3, <3>4 DEF Changed
    <3> QED BY <3>5, <3>6 DEF Counting
  <2> QED BY <2>2, <2>3
<1> QED BY <1>1, <1>2 DEF Present, GiveUp

(* Every step counts.                                                       *)
LEMMA StepCounts ==
  ASSUME VInv, BInv, LInv, [Next]_vars
  PROVE  Counting
<1>1. ASSUME NEW c \in Clients,
             \/ \E q \in Requests : Ask(c, q)
             \/ Leave(c) \/ Die(c)
             \/ CopyDataList(c) \/ CopyDataSign(c) \/ CopyDataOther(c)
      PROVE  Counting
  <2>1. CASE (\E q \in Requests : Ask(c, q)) \/ Leave(c) \/ Die(c)
    <3>1. \A d \in Clients : clients'[d].st = "done" => clients[d].st = "done"
      BY <2>1 DEF Ask, Leave, Die, VInv
    <3> QED BY <3>1 DEF Counting
  <2>2. CASE CopyDataOther(c)
    <3>1. \A d \in Clients : clients'[d].st = "done" /\ clients[d].st # "done" => ~clients'[d].ret
      BY <2>2 DEF CopyDataOther, Returned, VInv
    <3> QED BY <3>1 DEF Counting
  <2> QED BY <1>1, <2>1, <2>2, ListCounts, SignCounts
<1>2. CASE Present \/ GiveUp
  BY <1>2, BoxCounts
<1>3. CASE Lost(clients) \/ Exit
  BY <1>3, EndsCount DEF Exit
<1>4. CASE UNCHANGED clients
  BY <1>4 DEF Counting
<1>5. (\E i \in Slots : FetchKey(i) \/ ClearKey(i) \/ \E d \in Edits : Save(i, d)) \/ Plug \/ Unplug \/ Stopped \/ UNCHANGED vars
      => Lost(clients) \/ UNCHANGED clients
  BY DEF FetchKey, ClearKey, Save, Plug, Unplug, Stopped, vars
<1> QED BY <1>1, <1>2, <1>3, <1>4, <1>5 DEF Next

(* A list that a client reads says how many keys it has, each with a comment,   *)
(* unless a key was loaded or cleared while the client's box was open          *)
(* (PresentPubKeys).                                                        *)
THEOREM ListsAreCounted == Spec => ListCountsKeys
<1>1. VInv /\ BInv /\ LInv /\ [Next]_vars =>
        \A c \in Clients :
          /\ clients'[c].st = "done" /\ clients[c].st # "done" /\ clients'[c].ret
          /\ Reply(c)'[1] = SSH2_AGENT_IDENTITIES_ANSWER
          => \/ Len(StringsFrom(Reply(c)', 5)) = 2 * AsInt(Reply(c)', 1)
             \/ stack # <<>> /\ Inner.client = c /\ Inner.counted # Loaded
  BY StepCounts DEF Counting, Counts, Changed, Reply
<1> QED BY <1>1, OwnsAlways, PTL DEF Spec, ListCountsKeys
==============================================================================
