---------------------------- MODULE TransportProofs ----------------------------
(***************************************************************************)
(* That a conversation with the Ledger brings it whole requests and its         *)
(* callers whole answers, for every size of the reports and of the data, and     *)
(* that all of it is one question and one answer (DeviceCall).                *)
(***************************************************************************)
EXTENDS Transport, FramingProofs

-----------------------------------------------------------------------------
(* What the framing does for a message, in terms of its reports.              *)
LEMMA Messages ==
  ASSUME NEW a \in Bytes, a # <<>>, Len(a) < Sizes
  PROVE  /\ Reports(a) \in Seq(Bytes) /\ Len(Reports(a)) \in Nat /\ Len(Reports(a)) >= 1
         /\ Flat(a, 0) = <<>>
         /\ \A k \in 0..Len(Reports(a)) :
              /\ Flat(a, k) \in Bytes
              /\ Arrived(Flat(a, k)) <=> k = Len(Reports(a))
              /\ k # Len(Reports(a)) => Flat(a, k) \o Reports(a)[k + 1] = Flat(a, k + 1)
              /\ k # 0 => /\ UnwrapApdu(Flat(a, k)) = IF k = Len(Reports(a)) THEN a ELSE <<>>
                          /\ ~ReadsPastEnd(Flat(a, k))
         /\ Data(Flat(a, Len(Reports(a)))) = a
<1> DEFINE r == Len(Reports(a))
<1>1. Reports(a) \in Seq(Bytes) /\ r \in Nat /\ r >= 1
  BY ReportsOf
<1>2. Flat(a, 0) = <<>> /\ Data(Flat(a, r)) = a
  BY FlatGrows, ArrivesWhole
<1>3. ASSUME NEW k \in 0..r
      PROVE  /\ Flat(a, k) \in Bytes
             /\ Arrived(Flat(a, k)) <=> k = r
             /\ k # r => Flat(a, k) \o Reports(a)[k + 1] = Flat(a, k + 1)
             /\ k # 0 => UnwrapApdu(Flat(a, k)) = (IF k = r THEN a ELSE <<>>) /\ ~ReadsPastEnd(Flat(a, k))
  <2>1. Flat(a, k) \in Bytes /\ (Arrived(Flat(a, k)) <=> k = r)
    BY FlatBytes, ArrivesLast
  <2>2. k # r => k \in 0..(r - 1)
    BY <1>1
  <2>3. k # 0 => k \in 1..r
    BY <1>1
  <2>4. k # r => Flat(a, k) \o Reports(a)[k + 1] = Flat(a, k + 1)
    BY <2>2, FlatGrows
  <2>5. k # 0 => UnwrapApdu(Flat(a, k)) = (IF k = r THEN a ELSE <<>>) /\ ~ReadsPastEnd(Flat(a, k))
    BY <2>3, Unwraps
  <2> QED BY <2>1, <2>4, <2>5
<1> QED BY <1>1, <1>2, <1>3

-----------------------------------------------------------------------------
(* An APDU has a head of five bytes and then all of its data.                 *)
LEMMA WholeAPDU ==
  ASSUME NEW ins \in Nat, ins <= 255, NEW p2 \in Nat, p2 <= 255, NEW data \in Bytes, Len(data) <= MaxChunk
  PROVE  /\ APDU(ins, p2, data) \in Bytes /\ APDU(ins, p2, data) # <<>>
         /\ Len(APDU(ins, p2, data)) < Sizes
         /\ SubSeq(APDU(ins, p2, data), 6, Len(APDU(ins, p2, data))) = data
<1> DEFINE size == Len(data)
           head == <<128, ins, 0, p2, size>>
           a == head \o data
<1>1. size \in Nat /\ MaxChunk \in Nat /\ size < MaxChunk + 1 /\ size <= 255
  <2>1. size \in Nat
    BY LenProperties DEF Bytes
  <2>2. MaxChunk \in Nat /\ MaxChunk <= 255
    BY TransportAssumption
  <2> QED BY <2>1, <2>2
<1>2. size % (MaxChunk + 1) = size
  <2>1. MaxChunk + 1 \in Nat
    BY <1>1
  <2> QED BY <1>1, <2>1, SmallRemainder
<1>3. SubSeq(data, 1, size) = data
  BY SubSeqFull DEF Bytes
<1>4. APDU(ins, p2, data) = a
  BY <1>2, <1>3 DEF APDU
<1> HIDE DEF size
<1>5. head \in Bytes /\ Len(head) = 5
  <2>1. \A x \in {128, ins, 0, p2, size} : x \in Nat /\ x <= 255
    BY <1>1
  <2>2. \A x \in {128, ins, 0, p2, size} : x \in 0..255
    BY <2>1
  <2> DEFINE T == {128, ins, 0, p2, size}
  <2>3. head \in Seq(T) /\ Len(head) = 5
    OBVIOUS
  <2>4. T \subseteq 0..255
    BY <2>2
  <2> DEFINE U == 0..255
  <2> HIDE DEF head, T, U
  <2>5. head \in Seq(T) /\ T \subseteq U
    BY <2>3, <2>4 DEF U
  <2>6. head \in Seq(U)
    BY <2>5, SeqMonotonic
  <2> QED BY <2>3, <2>6 DEF Bytes, U
<1> HIDE DEF head
<1>6. Len(head \o data) = Len(head) + Len(data) /\ head \o data \in Bytes
  <2>1. head \in Bytes
    BY <1>5
  <2> QED BY <2>1, ConcatBytes
<1>7. a \in Bytes /\ Len(a) = 5 + size
  BY <1>5, <1>6 DEF size
<1>8. SubSeq(a, 6, Len(a)) = data
  <2>1. \A k \in 1..size : (head \o data)[5 + k] = data[k]
    <3>1. head \in Bytes
      BY <1>5
    <3>2. \A k \in 1..Len(data) : (head \o data)[Len(head) + k] = data[k]
      BY <3>1, ConcatBytes
    <3> QED BY <1>5, <3>2 DEF size
  <2> HIDE DEF a
  <2> DEFINE x == 5
             y == Len(a)
             q == SubSeq(a, x + 1, y)
  <2>2. x \in Nat /\ y \in Nat /\ x <= y /\ y <= Len(a) /\ y - x = size
    BY <1>1, <1>7
  <2> HIDE DEF x, y
  <2>3. SubSeq(a, x + 1, y) \in Bytes /\ Len(SubSeq(a, x + 1, y)) = y - x
        /\ \A k \in 1..(y - x) : SubSeq(a, x + 1, y)[k] = a[x + k]
    BY <1>7, <2>2, SubBytes
  <2>4. \A k \in 1..size : a[x + k] = data[k]
    BY <2>1 DEF a, x
  <2>5. q \in Bytes /\ Len(q) = size /\ \A k \in 1..size : q[k] = data[k]
    BY <2>2, <2>3, <2>4
  <2> HIDE DEF q
  <2>6. q \in Seq(0..255) /\ data \in Seq(0..255) /\ Len(q) = Len(data) /\ \A k \in 1..Len(q) : q[k] = data[k]
    BY <2>5 DEF Bytes, size
  <2>7. q = data
    BY <2>6, SeqEqual
  <2>8. x + 1 = 6
    BY DEF x
  <2> QED BY <2>7, <2>8 DEF q, y
<1>9. a # <<>> /\ Len(a) < Sizes
  <2>1. Len(a) < Sizes /\ Len(a) # 0
    BY <1>1, <1>7 DEF Sizes
  <2> QED BY <2>1
<1> HIDE DEF a
<1> QED BY <1>4, <1>7, <1>8, <1>9

(* The request for a key asks for the whole path.                            *)
LEMMA KeyRequests ==
  /\ KeyRequest \in Bytes /\ KeyRequest # <<>> /\ Len(KeyRequest) < Sizes
  /\ SubSeq(KeyRequest, 6, Len(KeyRequest)) = Path
<1> DEFINE ins == 2
<1>1. ins \in Nat /\ ins <= 255 /\ KeyP2 \in Nat /\ KeyP2 <= 255 /\ Path \in Bytes
  BY TransportAssumption
<1>2. Len(Path) <= MaxChunk
  BY TransportAssumption, LenProperties DEF Bytes
<1>3. KeyRequest = APDU(ins, KeyP2, Path)
  BY DEF KeyRequest
<1> HIDE DEF ins
<1> QED BY <1>1, <1>2, <1>3, WholeAPDU

(* What the Ledger has of path and challenge, o of the challenge being sent.    *)
Covered(c, o) == IF o = 0 THEN <<>> ELSE Path \o SubSeq(c, 1, o)

(* A chunk has something, stays in the challenge, and goes on where the last     *)
(* one ended.                                                               *)
LEMMA SignRequests ==
  ASSUME NEW c \in Bytes, NEW o \in Nat, o < Len(c)
  PROVE  LET a == SignRequest(c, o)
             e == o + ChunkSize(c, o)
         IN  /\ e \in Nat /\ o < e /\ e <= Len(c)
             /\ a \in Bytes /\ a # <<>> /\ Len(a) < Sizes
             /\ Covered(c, o) \o SubSeq(a, 6, Len(a)) = Path \o SubSeq(c, 1, e)
             /\ Path \o SubSeq(c, 1, e) \in Bytes
<1> DEFINE n == Len(c)
           b == PathBefore(o)
           k == ChunkSize(c, o)
           e == o + k
           x == SubSeq(c, o + 1, e)
           y == SubSeq(c, 1, e)
           z == SubSeq(c, 1, o)
           a == SignRequest(c, o)
<1>1. n \in Nat /\ Path \in Bytes /\ Len(Path) \in Nat /\ Len(Path) < MaxChunk /\ MaxChunk \in Nat
  BY TransportAssumption, LenProperties DEF Bytes
<1>2. b \in Bytes /\ Len(b) \in Nat /\ Len(b) < MaxChunk
  <2>1. <<>> \in Bytes /\ Len(<<>>) = 0
    BY EmptySeq DEF Bytes
  <2> QED BY <1>1, <2>1 DEF PathBefore
<1> HIDE DEF b
<1>3. k = IF n - o <= MaxChunk - Len(b) THEN n - o ELSE MaxChunk - Len(b)
  <2>1. n - o \in Int /\ MaxChunk - Len(b) \in Int
    BY <1>1, <1>2
  <2> QED BY <2>1, MinOfTwo DEF ChunkSize, b
<1> HIDE DEF k
<1>4. k \in Nat /\ k >= 1 /\ e \in Nat /\ o < e /\ o <= e /\ e <= n /\ e - o = k /\ Len(b) + k <= MaxChunk
  BY <1>1, <1>2, <1>3
<1> HIDE DEF e
<1>5. x \in Bytes /\ Len(x) = k
  BY <1>4, SubBytes
<1>6. y \in Bytes /\ z \in Bytes
  BY <1>1, <1>4, PrefixBytes
<1>7. b \o x \in Bytes /\ Len(b \o x) = Len(b) + Len(x)
  BY <1>2, <1>5, ConcatBytes
<1> DEFINE data == b \o x
<1> HIDE DEF x
<1>8. data \in Bytes /\ Len(data) <= MaxChunk
  BY <1>4, <1>5, <1>7
<1>9. a = APDU(4, 129, data)
  BY DEF SignRequest, b, x, k, e
<1> HIDE DEF data, a
<1>10. a \in Bytes /\ a # <<>> /\ Len(a) < Sizes /\ SubSeq(a, 6, Len(a)) = data
  <2> DEFINE ins == 4
             p2 == 129
  <2>1. ins \in Nat /\ ins <= 255 /\ p2 \in Nat /\ p2 <= 255
    OBVIOUS
  <2>2. a = APDU(ins, p2, data)
    BY <1>9
  <2> HIDE DEF ins, p2
  <2> QED BY <1>8, <2>1, <2>2, WholeAPDU
<1>11. Path \o y \in Bytes
  BY <1>1, <1>6, ConcatBytes
<1> HIDE DEF y, z
<1>12. Covered(c, o) \o data = Path \o y
  <2>1. CASE o = 0
    <3>1. Covered(c, o) = <<>> /\ b = Path
      BY <2>1 DEF Covered, PathBefore, b
    <3>2. x = y
      BY <2>1 DEF x, y
    <3>3. <<>> \o data = data
      <4>1. data \in Seq(0..255)
        BY <1>8 DEF Bytes
      <4> QED BY <4>1, ConcatEmptySeq
    <3> QED BY <3>1, <3>2, <3>3 DEF data
  <2>2. CASE o # 0
    <3>1. Covered(c, o) = Path \o z
      BY <2>2 DEF Covered, z
    <3>2. b = <<>>
      BY <2>2 DEF PathBefore, b
    <3>3. x \in Seq(0..255) /\ z \in Seq(0..255) /\ Path \in Seq(0..255) /\ c \in Seq(0..255)
      BY <1>1, <1>5, <1>6 DEF Bytes
    <3>4. data = x
      BY <3>2, <3>3, ConcatEmptySeq DEF data
    <3>5. z \o x = y
      <4>1. 1 \in 1..(Len(c) + 1) /\ o \in (1 - 1)..Len(c) /\ e \in o..Len(c)
        BY <1>1, <1>4
      <4>2. SubSeq(c, 1, o) \o SubSeq(c, o + 1, e) = SubSeq(c, 1, e)
        BY <3>3, <4>1, ConcatAdjacentSubSeq
      <4> QED BY <4>2 DEF x, y, z
    <3>6. (Path \o z) \o x = Path \o (z \o x)
      BY <3>3, ConcatAssociative
    <3> QED BY <3>1, <3>4, <3>5, <3>6
  <2> QED BY <2>1, <2>2
<1>13. /\ e \in Nat /\ o < e /\ e <= n
       /\ a \in Bytes /\ a # <<>> /\ Len(a) < Sizes
       /\ Covered(c, o) \o SubSeq(a, 6, Len(a)) = Path \o y
       /\ Path \o y \in Bytes
  BY <1>4, <1>10, <1>11, <1>12
<1> QED BY <1>13 DEF e, k, a, y, n

(* Every status word fits in its two bytes, and an error is no success.        *)
LEMMA Codes ==
  /\ CODE_SUCCESS \notin Errors
  /\ \A code \in Errors \cup {CODE_SUCCESS} : code \in Nat /\ code < Sizes
<1>1. \A code \in Errors : code \in Nat /\ code < Sizes
  BY ErrorsAssumption
<1>2. CODE_SUCCESS \in Nat /\ CODE_SUCCESS < Sizes
  BY DEF CODE_SUCCESS, Sizes
<1> QED BY <1>1, <1>2, ErrorsAssumption

(* Data and status of an answer come apart as they were put together.         *)
LEMMA AnswerParts ==
  ASSUME NEW body \in Bytes, NEW code \in Errors \cup {CODE_SUCCESS}
  PROVE  LET a == body \o Short(code)
         IN  a \in Bytes /\ Len(a) = Len(body) + 2 /\ DataOf(a) = body /\ StatusOf(a) = code
<1> DEFINE s == Short(code)
           a == body \o s
           n == Len(body)
<1>1. code \in Nat /\ code < Sizes
  BY Codes
<1>2. s \in Bytes /\ Len(s) = 2 /\ 256 * s[1] + s[2] = code
  BY <1>1, ShortBytes
<1> HIDE DEF s
<1>3. /\ n \in Nat /\ a \in Bytes /\ Len(a) = n + Len(s)
      /\ \A k \in 1..n : a[k] = body[k]
      /\ \A k \in 1..Len(s) : a[n + k] = s[k]
  <2>1. s \in Bytes
    BY <1>2
  <2> QED BY <2>1, ConcatBytes
<1>4. Len(a) = n + 2 /\ a[n + 1] = s[1] /\ a[n + 2] = s[2]
  <2>1. 1 \in 1..Len(s) /\ 2 \in 1..Len(s)
    BY <1>2
  <2> QED BY <1>2, <1>3, <2>1
<1> HIDE DEF a
<1>5. Len(a) - 2 = n
  BY <1>3, <1>4
<1> HIDE DEF n
<1>6. StatusOf(a) = code
  BY <1>2, <1>4, <1>5 DEF StatusOf, AsShort
<1>7. DataOf(a) = body
  <2> DEFINE q == SubSeq(a, 1, n)
  <2>1. n \in Nat /\ n <= Len(a)
    BY <1>3, <1>4
  <2>2. SubSeq(a, 1, n) \in Bytes /\ Len(SubSeq(a, 1, n)) = n /\ \A k \in 1..n : SubSeq(a, 1, n)[k] = a[k]
    BY <1>3, <2>1, PrefixBytes
  <2>3. q \in Seq(0..255) /\ body \in Seq(0..255) /\ Len(q) = Len(body) /\ \A k \in 1..Len(q) : q[k] = body[k]
    BY <1>3, <2>2 DEF Bytes, n
  <2> HIDE DEF q
  <2>4. q = body
    BY <2>3, SeqEqual
  <2> QED BY <1>5, <2>4 DEF DataOf, q
<1> QED BY <1>3, <1>4, <1>6, <1>7 DEF a, s, n

-----------------------------------------------------------------------------
(* All of the path and the challenge that a signature or key is for.          *)
Whole == IF op = "key" THEN Path ELSE Path \o SubSeq(challenge, 1, offset)

(* The Ledger has not taken the request, or has.                             *)
Pending == seen \o SubSeq(request, 6, Len(request)) = Whole
Taken == seen = Whole

(* Data and status are of an answer to the question, if all of it is asked.     *)
Fits(body, code) == AllSent => body \o Short(code) \in AnswersTo[op]

IsAnswer(a) ==
  /\ a \in Bytes /\ Len(a) >= 2 /\ Len(a) < Sizes
  /\ \E code \in Errors \cup {CODE_SUCCESS} :
       a = DataOf(a) \o Short(code) /\ Fits(DataOf(a), code)

(* Exchange writes, and waits for the answer.                                *)
Writing ==
  /\ queue = <<>> /\ result = <<>> /\ answer = <<>>
  /\ sent < Len(Reports(request))
  /\ handle = "live" =>
       /\ Pending
       /\ card = [inbox |-> Flat(request, sent), asked |-> <<>>, out |-> <<>>]

Waiting ==
  /\ queue = <<>> /\ result = <<>> /\ answer = <<>>
  /\ handle = "live" =>
       \/ /\ Pending
          /\ card = [inbox |-> Flat(request, Len(Reports(request))), asked |-> <<>>, out |-> <<>>]
       \/ /\ Taken
          /\ card = [inbox |-> <<>>, asked |-> request, out |-> <<>>]

(* Of the reports of the answer r are read and q more in the queue.           *)
Answered(r, q) ==
  /\ IsAnswer(answer) /\ Taken
  /\ r + q <= Len(Reports(answer))
  /\ result = Flat(answer, r) /\ queue = SubSeq(Reports(answer), r + 1, r + q)
  /\ handle = "live" =>
       card = [inbox |-> <<>>,
               asked |-> IF r + q = Len(Reports(answer)) THEN <<>> ELSE request,
               out |-> SubSeq(Reports(answer), r + q + 1, Len(Reports(answer)))]

(* SignMap had nothing to ask.                                              *)
Unasked == handle # "null" /\ op = "sign" /\ challenge = <<>> /\ NothingCame

(* What Exchange leaves to its caller.                                      *)
Returned ==
  \/ answer # <<>> /\ response \o Short(status) = answer /\ Fits(response, status) /\ Taken
  \/ NothingCame /\ handle # "live"
  \/ Unasked

Quiet == queue = <<>> /\ card = FreshCard

InCall ==
  /\ handle # "null"
  /\ request # <<>> /\ Len(request) < Sizes
  /\ op = "sign" => offset # 0

(* The inductive invariant.                                                *)
IInv ==
  /\ TypeOK
  /\ pc # "undefined"
  /\ handle = "live" => attached
  /\ handle # "live" => card = FreshCard
  /\ pc \in {"idle", "return", "crashed"} => Quiet
  /\ pc = "idle" => op = "key" /\ seen = <<>>
  /\ pc \in {"write", "first", "more"} => InCall
  /\ pc = "return" => InCall \/ Unasked
  /\ pc \in {"idle", "write", "first"} => NothingCame
  /\ pc = "write" => Writing
  /\ pc = "first" => Waiting \/ \E q \in 0..Len(Reports(answer)) : Answered(0, q)
  /\ pc = "more" => \E r \in 1..Len(Reports(answer)), q \in 0..Len(Reports(answer)) : Answered(r, q)
  /\ pc = "return" => Returned

(* An Exchange begins.                                                      *)
LEMMA Begins ==
  ASSUME NEW r, r \in Bytes, r # <<>>, Len(r) < Sizes, Exchange(r),
         op' \in {"key", "sign"}, challenge' \in Challenges \cup {<<>>}, offset' \in 0..Len(challenge'),
         op' = "sign" => offset' # 0, attached' \in BOOLEAN, handle' \in {"live", "stale"},
         handle' = "live" => attached' /\ Pending', queue' = <<>>, card' = FreshCard, seen' \in Bytes
  PROVE  IInv'
<1>1. Flat(r, 0) = <<>> /\ Len(Reports(r)) \in Nat /\ 0 < Len(Reports(r))
  BY Messages
<1>2. <<>> \in Bytes /\ <<>> \in Seq(Bytes)
  BY EmptySeq DEF Bytes
<1>3. /\ pc' = "write" /\ request' = r /\ sent' = 0 /\ late' = FALSE /\ result' = <<>>
      /\ response' = <<>> /\ status' = CODE_SUCCESS /\ answer' = <<>>
  BY DEF Exchange
<1>4. TypeOK'
  <2>1. sent' \in 0..Len(Reports(request'))
    BY <1>1, <1>3
  <2>2. card' \in [inbox: Bytes, asked: Bytes, out: Seq(Bytes)] /\ queue' \in Seq(Bytes)
    BY <1>2 DEF FreshCard
  <2>3. /\ pc' \in {"idle", "write", "first", "more", "return", "crashed", "undefined"}
        /\ request' \in Bytes /\ late' \in BOOLEAN /\ result' \in Bytes /\ response' \in Bytes
        /\ status' \in Errors \cup {CODE_SUCCESS} /\ answer' \in Bytes
        /\ handle' \in {"null", "live", "stale"}
    BY <1>2, <1>3
  <2> QED BY <2>1, <2>2, <2>3 DEF TypeOK
<1>5. InCall' /\ Writing' /\ NothingCame'
  BY <1>1, <1>3 DEF InCall, Writing, FreshCard, NothingCame
<1> QED BY <1>3, <1>4, <1>5 DEF IInv

(* A conversation ends.                                                     *)
LEMMA Finishes ==
  ASSUME IInv, pc \in {"idle", "return"}, NEW where \in {"idle", "crashed"}, Finish(where),
         UNCHANGED <<wire, card>>
  PROVE  IInv'
<1>1. Quiet /\ TypeOK /\ (handle = "live" => attached) /\ (handle # "live" => card = FreshCard)
  BY DEF IInv
<1>2. <<>> \in Bytes
  BY EmptySeq DEF Bytes
<1>3. 0 \in 0..Len(<<>>) /\ 0 \in 0..Len(Reports(<<>>))
  <2>1. 0 < Sizes /\ Len(<<>>) = 0
    BY DEF Sizes
  <2>2. Len(Reports(<<>>)) \in Nat
    BY <1>2, <2>1, ReportsOf
  <2> QED BY <2>1, <2>2
<1>4. TypeOK'
  BY <1>1, <1>2, <1>3 DEF TypeOK, Finish, wire
<1>5. Quiet' /\ (handle' = "live" => attached') /\ (handle' # "live" => card' = FreshCard)
  BY <1>1 DEF Quiet, wire
<1>6. pc' \in {"idle", "crashed"} /\ op' = "key" /\ seen' = <<>> /\ NothingCame'
  BY DEF Finish, NothingCame
<1> QED BY <1>4, <1>5, <1>6 DEF IInv

(* Exchange returns.                                                        *)
LEMMA Returns ==
  ASSUME IInv, pc \in {"write", "first", "more"}, Quiet,
         NEW data \in Bytes, NEW code \in Errors \cup {CODE_SUCCESS}, Return(data, code),
         UNCHANGED <<call, request, sent, late, result, wire, card, seen, answer>>,
         \/ answer # <<>> /\ data \o Short(code) = answer /\ Fits(data, code) /\ Taken
         \/ data = <<>> /\ code = CODE_SUCCESS /\ handle # "live"
  PROVE  IInv'
<1>1. TypeOK /\ InCall /\ (handle = "live" => attached) /\ (handle # "live" => card = FreshCard)
  BY DEF IInv
<1>2. pc' = "return" /\ response' = data /\ status' = code
  BY DEF Return
<1>3. TypeOK'
  BY <1>1, <1>2 DEF TypeOK, call, wire
<1>4. InCall' /\ Quiet' /\ (handle' = "live" => attached') /\ (handle' # "live" => card' = FreshCard)
  BY <1>1 DEF InCall, Quiet, call, wire
<1>5. Returned'
  BY <1>2 DEF Returned, Taken, Whole, Fits, AllSent, NothingCame, call, wire
<1> QED BY <1>2, <1>3, <1>4, <1>5 DEF IInv

(* What the answer is, and that some reports are read or in the queue.         *)
LEMMA AnswerIs ==
  ASSUME IsAnswer(answer)
  PROVE  answer \in Bytes /\ answer # <<>> /\ Len(answer) < Sizes
<1>1. Len(answer) >= 2 /\ answer \in Bytes /\ Len(answer) < Sizes
  BY DEF IsAnswer
<1>2. answer # <<>>
  <2>1. Len(<<>>) = 0
    OBVIOUS
  <2> QED BY <1>1, <2>1
<1> QED BY <1>1, <1>2

(* One report more is read.                                                 *)
LEMMA Advances ==
  ASSUME TypeOK, NEW r \in Nat, NEW q \in Nat, Answered(r, q), queue # <<>>,
         result' = result \o Head(queue), queue' = Tail(queue),
         UNCHANGED <<call, request, handle, card, seen, answer>>
  PROVE  /\ q - 1 \in Nat /\ r + 1 <= Len(Reports(answer)) /\ Answered(r + 1, q - 1)'
         /\ result' \in Bytes /\ queue' \in Seq(Bytes)
<1> DEFINE R == Reports(answer)
           n == Len(R)
           b == r + q
<1>1. answer \in Bytes /\ answer # <<>> /\ Len(answer) < Sizes
  BY AnswerIs DEF Answered
<1>2. R \in Seq(Bytes) /\ n \in Nat
  BY <1>1, Messages
<1>3. /\ b <= n /\ result = Flat(answer, r) /\ queue = SubSeq(R, r + 1, b)
      /\ IsAnswer(answer) /\ Taken
  BY DEF Answered
<1>4. b \in Nat /\ r <= b
  OBVIOUS
<1> HIDE DEF R, n, b
<1>5. /\ r = b => queue = <<>>
      /\ r # b => Head(queue) = R[r + 1] /\ Tail(queue) = SubSeq(R, (r + 1) + 1, b)
  BY <1>2, <1>3, <1>4, Pieces DEF n
<1>6. r # b /\ q # 0
  BY <1>5 DEF b
<1>7. q - 1 \in Nat /\ r + 1 <= n /\ r # n /\ r \in 0..n /\ r + 1 \in 0..n /\ b = (r + 1) + (q - 1)
  BY <1>2, <1>3, <1>4, <1>6 DEF b
<1>8. Flat(answer, r) \o R[r + 1] = Flat(answer, r + 1) /\ Flat(answer, r + 1) \in Bytes
  BY <1>1, <1>7, Messages DEF R, n
<1>9. result' = Flat(answer, r + 1) /\ queue' = SubSeq(R, (r + 1) + 1, (r + 1) + (q - 1))
  BY <1>3, <1>5, <1>6, <1>7, <1>8
<1>10. queue' \in Seq(Bytes)
  <2>1. queue \in Seq(Bytes)
    BY DEF TypeOK
  <2> QED BY <2>1, HeadTailProperties
<1>11. Answered(r + 1, q - 1)'
  <2>1. IsAnswer(answer)' /\ Taken'
    BY <1>3 DEF IsAnswer, Fits, AllSent, Taken, Whole, call
  <2>2. (r + 1) + (q - 1) <= Len(Reports(answer'))
    BY <1>3, <1>7 DEF n, R
  <2>3. result' = Flat(answer', r + 1) /\ queue' = SubSeq(Reports(answer'), (r + 1) + 1, (r + 1) + (q - 1))
    BY <1>9 DEF R
  <2>4. handle' = "live" =>
          card' = [inbox |-> <<>>,
                   asked |-> IF (r + 1) + (q - 1) = Len(Reports(answer')) THEN <<>> ELSE request',
                   out |-> SubSeq(Reports(answer'), (r + 1) + (q - 1) + 1, Len(Reports(answer')))]
    <3>1. r + q = (r + 1) + (q - 1)
      BY <1>7 DEF b
    <3> QED BY <3>1 DEF Answered
  <2> QED BY <2>1, <2>2, <2>3, <2>4 DEF Answered
<1> QED BY <1>7, <1>8, <1>9, <1>10, <1>11 DEF n, R

(* With the last report read there is nothing left of the answer.             *)
LEMMA ReadOut ==
  ASSUME TypeOK, NEW r \in Nat, NEW q \in Nat, Answered(r, q), r = Len(Reports(answer)),
         handle # "live" => card = FreshCard
  PROVE  Quiet /\ result = Flat(answer, r)
<1> DEFINE R == Reports(answer)
           n == Len(R)
<1>1. answer \in Bytes /\ answer # <<>> /\ Len(answer) < Sizes
  BY AnswerIs DEF Answered
<1>2. R \in Seq(Bytes) /\ n \in Nat
  BY <1>1, Messages
<1>3. r + q <= n /\ result = Flat(answer, r) /\ queue = SubSeq(R, r + 1, r + q)
  BY DEF Answered
<1>4. q = 0 /\ r + q = n /\ r + q = r /\ r = n
  BY <1>2, <1>3
<1>5. SubSeq(R, r + 1, r) = <<>>
  <2>1. r + 1 \in Int /\ r \in Int /\ r < r + 1
    OBVIOUS
  <2> QED BY <2>1, SubSeqEmpty
<1>6. handle = "live" => card = FreshCard
  <2>1. handle = "live" => card = [inbox |-> <<>>,
                 asked |-> IF r + q = n THEN <<>> ELSE request, out |-> SubSeq(R, r + q + 1, n)]
    BY DEF Answered
  <2>2. SubSeq(R, r + q + 1, n) = <<>>
    BY <1>4, <1>5
  <2> HIDE DEF R, n
  <2> QED BY <1>4, <2>1, <2>2 DEF FreshCard
<1>7. queue = <<>>
  BY <1>3, <1>4, <1>5
<1> QED BY <1>3, <1>6, <1>7 DEF Quiet

-----------------------------------------------------------------------------
(* The steps of the Ledger and its cable.                                    *)

(* What SignMap sends in all, and what of it is left.                       *)
LEMMA WholeBytes ==
  ASSUME TypeOK
  PROVE  Whole \in Bytes
<1>1. Path \in Bytes /\ challenge \in Bytes /\ offset \in Nat /\ offset <= Len(challenge)
  <2>1. challenge \in Bytes
    <3>1. <<>> \in Bytes
      BY EmptySeq DEF Bytes
    <3> QED BY <3>1, TransportAssumption DEF TypeOK
  <2>2. Len(challenge) \in Nat
    BY <2>1, LenProperties DEF Bytes
  <2> QED BY <2>1, <2>2, TransportAssumption DEF TypeOK
<1>2. SubSeq(challenge, 1, offset) \in Bytes
  BY <1>1, PrefixBytes
<1>3. Path \o SubSeq(challenge, 1, offset) \in Bytes
  BY <1>1, <1>2, ConcatBytes
<1> QED BY <1>1, <1>3 DEF Whole

(* What the Ledger has to say is an answer.                                  *)
LEMMA Composes ==
  ASSUME NEW body \in Bytes, NEW code \in Errors \cup {CODE_SUCCESS},
         Len(body) + 2 < Sizes, Fits(body, code)
  PROVE  IsAnswer(body \o Short(code))
<1> DEFINE a == body \o Short(code)
<1>1. a \in Bytes /\ Len(a) = Len(body) + 2 /\ DataOf(a) = body
  BY AnswerParts
<1>2. Len(body) \in Nat
  BY LenProperties DEF Bytes
<1>3. a = DataOf(a) \o Short(code) /\ Fits(DataOf(a), code)
  BY <1>1
<1>4. Len(a) >= 2 /\ Len(a) < Sizes
  BY <1>1, <1>2
<1> HIDE DEF a
<1> QED BY <1>1, <1>3, <1>4 DEF IsAnswer, a

(* An answer without data.                                                  *)
LEMMA Bare ==
  ASSUME NEW code \in Errors \cup {CODE_SUCCESS}
  PROVE  /\ <<>> \in Bytes /\ <<>> \o Short(code) = Short(code)
         /\ Fits(<<>>, code) => IsAnswer(Short(code))
<1>1. <<>> \in Bytes /\ Len(<<>>) = 0
  BY EmptySeq DEF Bytes
<1>2. Short(code) \in Bytes
  BY Codes, ShortBytes
<1>3. <<>> \o Short(code) = Short(code)
  BY <1>2, ConcatEmptySeq DEF Bytes
<1>4. Len(<<>>) + 2 < Sizes
  BY <1>1 DEF Sizes
<1>5. ASSUME Fits(<<>>, code) PROVE IsAnswer(<<>> \o Short(code))
  BY <1>1, <1>4, <1>5, Composes
<1> QED BY <1>1, <1>3, <1>5

(* A signature is bytes, and its lengths are where SignMap looks for them.     *)
LEMMA SignatureBytes ==
  ASSUME NEW g \in Signatures
  PROVE  DER(g) \in Bytes /\ Parses(DER(g))
<1> DEFINE r == g[1]
           s == g[2]
           m == Len(r)
           n == Len(s)
           A == <<48, m + n + 4, 2, m>>
           B == <<2, n>>
<1>1. r \in Bytes /\ s \in Bytes /\ m + n < 124
  BY AnswersAssumption
<1>2. m \in Nat /\ n \in Nat
  BY <1>1, LenProperties DEF Bytes
<1> HIDE DEF m, n
<1>3. A \in Bytes /\ Len(A) = 4 /\ A[4] = m /\ B \in Bytes /\ Len(B) = 2 /\ B[2] = n
  <2>1. 48 \in 0..255 /\ m + n + 4 \in 0..255 /\ 2 \in 0..255 /\ m \in 0..255 /\ n \in 0..255
    <3>1. 48 \in 0..255 /\ 2 \in 0..255
      OBVIOUS
    <3>2. m + n < 124 /\ m \in Nat /\ n \in Nat
      BY <1>1, <1>2 DEF m, n
    <3> QED BY <3>1, <3>2
  <2> QED BY <2>1 DEF Bytes
<1> HIDE DEF A, B
<1> HIDE DEF r, s
<1> DEFINE C == A \o r
           D == C \o B
           E == D \o s
<1>4. C \in Bytes /\ Len(C) = 4 + m /\ C[4] = m
  <2>1. C \in Bytes /\ Len(C) = Len(A) + Len(r) /\ \A k \in 1..Len(A) : C[k] = A[k]
    BY <1>1, <1>3, ConcatBytes
  <2>2. 4 \in 1..Len(A)
    BY <1>3
  <2> QED BY <1>3, <2>1, <2>2 DEF m
<1> HIDE DEF C
<1>5. D \in Bytes /\ Len(D) = 6 + m /\ D[4] = m /\ D[6 + m] = n
  <2>1. D \in Bytes /\ Len(D) = Len(C) + Len(B) /\ (\A k \in 1..Len(C) : D[k] = C[k])
        /\ \A k \in 1..Len(B) : D[Len(C) + k] = B[k]
    BY <1>3, <1>4, ConcatBytes
  <2>2. 4 \in 1..Len(C) /\ 2 \in 1..Len(B) /\ Len(C) + 2 = 6 + m
    BY <1>2, <1>3, <1>4
  <2> QED BY <1>2, <1>3, <1>4, <2>1, <2>2
<1> HIDE DEF D
<1>6. E \in Bytes /\ Len(E) = 6 + m + n /\ E[4] = m /\ E[6 + m] = n
  <2>1. E \in Bytes /\ Len(E) = Len(D) + Len(s) /\ \A k \in 1..Len(D) : E[k] = D[k]
    BY <1>1, <1>5, ConcatBytes
  <2>2. 4 \in 1..Len(D) /\ 6 + m \in 1..Len(D)
    BY <1>2, <1>5
  <2> QED BY <1>5, <2>1, <2>2 DEF n
<1> HIDE DEF E
<1>7. Parses(E)
  BY <1>2, <1>6 DEF Parses
<1>8. DER(g) = E
  BY DEF DER, E, D, C, A, B, r, s, m, n
<1> QED BY <1>6, <1>7, <1>8

(* All that the Ledger may say to a question is an answer.                   *)
LEMMA Replies ==
  ASSUME op \in {"key", "sign"}, NEW a \in AnswersTo[op]
  PROVE  IsAnswer(a)
<1>1. ASSUME NEW d \in Bytes, Len(d) + 2 < Sizes, a = d \o Short(CODE_SUCCESS)
      PROVE  IsAnswer(a)
  <2>1. Fits(d, CODE_SUCCESS)
    BY <1>1 DEF Fits
  <2> QED BY <1>1, <2>1, Composes
<1>2. ASSUME NEW code \in Errors, a = Short(code)
      PROVE  IsAnswer(a)
  <2>1. code \in Errors \cup {CODE_SUCCESS}
    OBVIOUS
  <2>2. <<>> \o Short(code) = Short(code) /\ (Fits(<<>>, code) => IsAnswer(Short(code)))
    BY <2>1, Bare
  <2>3. Fits(<<>>, code)
    BY <1>2, <2>2 DEF Fits
  <2> QED BY <1>2, <2>2, <2>3
<1>3. \A d \in Keys \cup {DER(g) : g \in Signatures} \cup Garbage : d \in Bytes /\ Len(d) + 2 < Sizes
  BY AnswersAssumption, SignatureBytes
<1>4. CASE a \in Expected[op]
  <2>1. PICK d \in Keys \cup {DER(g) : g \in Signatures} : a = d \o Short(CODE_SUCCESS)
    BY <1>4 DEF Expected
  <2> QED BY <1>1, <1>3, <2>1
<1>5. CASE a \in Others
  BY <1>1, <1>2, <1>3, <1>5 DEF Others
<1> QED BY <1>4, <1>5 DEF AnswersTo

(* A Ledger that answers has taken the request, whole.                       *)
LEMMA Busy ==
  ASSUME TypeOK, handle = "live", NEW r \in Nat, NEW q \in Nat, Answered(r, q)
  PROVE  card.inbox = <<>> /\ (card.asked # <<>> => card.asked = request /\ card.out # <<>>)
<1> DEFINE R == Reports(answer)
           n == Len(R)
           b == r + q
<1>1. answer \in Bytes /\ answer # <<>> /\ Len(answer) < Sizes
  BY AnswerIs DEF Answered
<1>2. R \in Seq(Bytes) /\ n \in Nat
  BY <1>1, Messages
<1>3. b <= n /\ b \in Nat
      /\ card = [inbox |-> <<>>, asked |-> IF b = n THEN <<>> ELSE request, out |-> SubSeq(R, b + 1, n)]
  BY DEF Answered
<1> HIDE DEF R, n, b
<1>4. n <= Len(R) /\ (b # n => SubSeq(R, b + 1, n) # <<>>)
  <2>1. n <= Len(R)
    BY <1>2 DEF n
  <2> QED BY <1>2, <1>3, <2>1, Pieces
<1> QED BY <1>3, <1>4

(* One report more is sent.                                                 *)
LEMMA Sends ==
  ASSUME TypeOK, handle = "live", NEW r \in Nat, NEW q \in Nat, Answered(r, q), CardSends
  PROVE  /\ r + (q + 1) <= Len(Reports(answer)) /\ Answered(r, q + 1)'
         /\ queue' \in Seq(Bytes) /\ card' \in [inbox: Bytes, asked: Bytes, out: Seq(Bytes)]
<1> DEFINE R == Reports(answer)
           n == Len(R)
           b == r + q
<1>1. answer \in Bytes /\ answer # <<>> /\ Len(answer) < Sizes
  BY AnswerIs DEF Answered
<1>2. R \in Seq(Bytes) /\ n \in Nat
  BY <1>1, Messages
<1>3. /\ b \in Nat /\ r <= b /\ b <= n
      /\ result = Flat(answer, r) /\ queue = SubSeq(R, r + 1, b) /\ IsAnswer(answer) /\ Taken
      /\ card = [inbox |-> <<>>, asked |-> IF b = n THEN <<>> ELSE request, out |-> SubSeq(R, b + 1, n)]
  BY DEF Answered
<1>4. r + (q + 1) = b + 1
  OBVIOUS
<1> HIDE DEF b
<1> HIDE DEF n
<1>5. n = Len(R) /\ n <= Len(R)
  BY <1>2 DEF n
<1> HIDE DEF R
<1>6. /\ Len(SubSeq(R, b + 1, n)) = n - b
      /\ b = n => SubSeq(R, b + 1, n) = <<>>
      /\ b # n => /\ Head(SubSeq(R, b + 1, n)) = R[b + 1]
                  /\ Tail(SubSeq(R, b + 1, n)) = SubSeq(R, (b + 1) + 1, n)
  BY <1>2, <1>3, <1>5, Pieces
<1>7. card.out # <<>> /\ queue' = Append(queue, Head(card.out))
      /\ card' = IF Len(card.out) = 1 THEN FreshCard ELSE [card EXCEPT !.out = Tail(@)]
  BY DEF CardSends
<1>8. b # n /\ b + 1 <= n
  BY <1>2, <1>3, <1>6, <1>7
<1>9. queue' = SubSeq(R, r + 1, b + 1)
  <2>1. b <= Len(R) /\ b # Len(R)
    BY <1>3, <1>5, <1>8
  <2>2. Append(SubSeq(R, r + 1, b), R[b + 1]) = SubSeq(R, r + 1, b + 1)
    BY <1>2, <1>3, <2>1, Pieces
  <2> QED BY <1>3, <1>6, <1>7, <1>8, <2>2
<1>10. card' = [inbox |-> <<>>, asked |-> IF b + 1 = n THEN <<>> ELSE request,
                out |-> SubSeq(R, (b + 1) + 1, n)]
  <2>1. CASE b + 1 = n
    <3>1. Len(card.out) = 1
      BY <1>2, <1>3, <1>6, <2>1
    <3>2. SubSeq(R, (b + 1) + 1, n) = <<>>
      <4>1. b + 1 \in Nat /\ b + 1 <= n
        BY <1>3, <1>8
      <4> QED BY <1>2, <1>5, <2>1, <4>1, Pieces
    <3> QED BY <1>7, <2>1, <3>1, <3>2 DEF FreshCard
  <2>2. CASE b + 1 # n
    <3>1. Len(card.out) # 1
      BY <1>2, <1>3, <1>6, <2>2
    <3> QED BY <1>3, <1>6, <1>7, <1>8, <2>2, <3>1
  <2> QED BY <2>1, <2>2
<1>11. queue' \in Seq(Bytes) /\ card' \in [inbox: Bytes, asked: Bytes, out: Seq(Bytes)]
  <2>1. SubSeq(R, r + 1, b + 1) \in Seq(Bytes) /\ SubSeq(R, (b + 1) + 1, n) \in Seq(Bytes)
    <3>1. b + 1 \in Nat /\ r <= b + 1 /\ b + 1 <= Len(R)
      BY <1>3, <1>5, <1>8
    <3> QED BY <1>2, <1>5, <1>3, <1>8, <3>1, Pieces
  <2>2. <<>> \in Bytes /\ request \in Bytes
    BY EmptySeq DEF Bytes, TypeOK
  <2> QED BY <1>9, <1>10, <2>1, <2>2
<1>12. UNCHANGED <<call, request, result, handle, seen, answer>>
  BY DEF CardSends
<1>13. Answered(r, q + 1)'
  <2>1. IsAnswer(answer)' /\ Taken'
    BY <1>3, <1>12 DEF IsAnswer, Fits, AllSent, Taken, Whole, call
  <2>2. r + (q + 1) <= Len(Reports(answer'))
    BY <1>4, <1>8, <1>12 DEF n, R
  <2>3. result' = Flat(answer', r) /\ queue' = SubSeq(Reports(answer'), r + 1, r + (q + 1))
    BY <1>3, <1>4, <1>9, <1>12 DEF R
  <2>4. card' = [inbox |-> <<>>, asked |-> IF r + (q + 1) = Len(Reports(answer')) THEN <<>> ELSE request',
                 out |-> SubSeq(Reports(answer'), r + (q + 1) + 1, Len(Reports(answer')))]
    BY <1>4, <1>10, <1>12 DEF R, n
  <2> QED BY <2>1, <2>2, <2>3, <2>4 DEF Answered
<1> QED BY <1>4, <1>8, <1>11, <1>13 DEF n, R

(* Where the Ledger has something, a conversation waits for its answer.        *)
LEMMA LedgerAtWork ==
  ASSUME IInv
  PROVE  /\ card.asked # <<>> =>
              /\ handle = "live" /\ card.asked = request
              /\ card.out = <<>> => pc = "first" /\ Taken /\ queue = <<>> /\ result = <<>> /\ answer = <<>>
                                    /\ card = [inbox |-> <<>>, asked |-> request, out |-> <<>>]
         /\ card.out # <<>> => handle = "live" /\ pc \in {"first", "more"}
         /\ Arrived(card.inbox) => handle = "live" /\ pc \in {"write", "first"} /\ answer = <<>>
<1>1. TypeOK /\ (handle # "live" => card = FreshCard)
  BY DEF IInv
<1>2. FreshCard.asked = <<>> /\ FreshCard.out = <<>> /\ ~Arrived(FreshCard.inbox)
  BY DEF FreshCard, Arrived
<1>3. pc \in {"idle", "return", "crashed"} => card = FreshCard
  BY DEF IInv, Quiet
<1>4. ASSUME handle = "live", pc = "write" PROVE card.asked = <<>> /\ card.out = <<>> /\ answer = <<>>
  BY <1>4 DEF IInv, Writing
<1>5. ASSUME handle = "live", NEW r \in Nat, NEW q \in Nat, Answered(r, q)
      PROVE  ~Arrived(card.inbox) /\ (card.asked # <<>> => card.asked = request /\ card.out # <<>>)
  BY <1>1, <1>5, Busy DEF Arrived
<1>6. ASSUME handle = "live", pc = "first", Waiting
      PROVE  /\ card.asked # <<>> => /\ card.asked = request /\ Taken
                                     /\ queue = <<>> /\ result = <<>> /\ answer = <<>>
                                     /\ card = [inbox |-> <<>>, asked |-> request, out |-> <<>>]
             /\ card.out = <<>> /\ answer = <<>>
  BY <1>6 DEF Waiting
<1>7. Len(Reports(answer)) \in Nat => 0 \in Nat /\ 0..Len(Reports(answer)) \subseteq Nat
      /\ 1..Len(Reports(answer)) \subseteq Nat
  OBVIOUS
<1>8. pc = "first" => Waiting \/ \E q \in Nat : Answered(0, q)
  BY DEF IInv
<1>9. pc = "more" => \E r \in Nat, q \in Nat : Answered(r, q)
  BY DEF IInv
<1>10. pc \in {"idle", "write", "first", "more", "return", "crashed"}
  BY <1>1 DEF IInv, TypeOK
<1>11. CASE handle # "live"
  BY <1>1, <1>2, <1>11
<1>12. CASE handle = "live" /\ pc \in {"idle", "return", "crashed"}
  BY <1>2, <1>3, <1>12
<1>13. CASE handle = "live" /\ pc = "write"
  BY <1>4, <1>13
<1>14. CASE handle = "live" /\ pc = "first" /\ Waiting
  BY <1>6, <1>14
<1>15. CASE handle = "live" /\ pc = "first" /\ ~Waiting
  <2>1. PICK q \in Nat : Answered(0, q)
    BY <1>8, <1>15
  <2>2. 0 \in Nat
    OBVIOUS
  <2> QED BY <1>5, <1>15, <2>1, <2>2
<1>16. CASE handle = "live" /\ pc = "more"
  BY <1>5, <1>9, <1>16
<1> QED BY <1>10, <1>11, <1>12, <1>13, <1>14, <1>15, <1>16

(* The request is there, and the Ledger takes it.                            *)
LEMMA TakesStep ==
  ASSUME IInv, CardTakes
  PROVE  IInv'
<1> DEFINE n == Len(Reports(request))
<1>1. /\ TypeOK /\ handle = "live" /\ attached /\ pc \in {"write", "first"} /\ InCall
      /\ NothingCame /\ Arrived(card.inbox) /\ card.asked = <<>>
  BY LedgerAtWork DEF IInv, CardTakes
<1>2. request \in Bytes /\ request # <<>> /\ Len(request) < Sizes
  BY <1>1 DEF InCall, TypeOK
<1>3. n \in Nat /\ \A k \in 0..n : Arrived(Flat(request, k)) <=> k = n
  BY <1>2, Messages
<1>4. pc = "first"
  <2>1. ASSUME pc = "write" PROVE FALSE
    <3>1. Writing
      BY <2>1 DEF IInv
    <3>2. sent \in 0..n /\ sent < n /\ card.inbox = Flat(request, sent)
      BY <1>1, <3>1 DEF Writing, TypeOK
    <3> QED BY <1>1, <1>3, <3>2
  <2> QED BY <1>1, <2>1
<1>5. Waiting
  <2>1. ASSUME NEW q \in 0..Len(Reports(answer)), Answered(0, q) PROVE FALSE
    <3>1. 0 \in Nat /\ q \in Nat
      OBVIOUS
    <3>2. card.inbox = <<>>
      BY <1>1, <2>1, <3>1, Busy
    <3> QED BY <1>1, <3>2 DEF Arrived
  <2> QED BY <1>4, <2>1 DEF IInv
<1>6. Pending /\ card = [inbox |-> Flat(request, n), asked |-> <<>>, out |-> <<>>]
      /\ queue = <<>> /\ result = <<>> /\ answer = <<>>
  BY <1>1, <1>2, <1>5 DEF Waiting
<1>7. Data(card.inbox) = request
  BY <1>2, <1>6, Messages
<1>8. card' = [inbox |-> <<>>, asked |-> request, out |-> <<>>]
  BY <1>6, <1>7 DEF CardTakes
<1>9. UNCHANGED <<pc, call, request, sent, late, result, caller, wire, answer>>
      /\ seen' = seen \o SubSeq(request, 6, Len(request))
  <2>1. card'.asked = request
    BY <1>8
  <2>2. seen' = seen \o SubSeq(card'.asked, 6, Len(card'.asked))
    BY DEF CardTakes
  <2>3. UNCHANGED <<pc, call, request, sent, late, result, caller, wire, answer>>
    BY DEF CardTakes
  <2> QED BY <2>1, <2>2, <2>3
<1>10. seen' = Whole /\ Whole \in Bytes
  BY <1>1, <1>6, <1>9, WholeBytes DEF Pending
<1>11. TypeOK'
  <2>1. <<>> \in Bytes /\ <<>> \in Seq(Bytes)
    BY EmptySeq DEF Bytes
  <2>2. card' \in [inbox: Bytes, asked: Bytes, out: Seq(Bytes)]
    BY <1>2, <1>8, <2>1
  <2> QED BY <1>1, <1>9, <1>10, <2>2 DEF TypeOK, call, caller, wire
<1>12. Waiting'
  BY <1>6, <1>8, <1>9, <1>10 DEF Waiting, Taken, Whole, call, wire
<1>13. InCall' /\ pc' = "first" /\ NothingCame' /\ attached' /\ handle' = "live"
  BY <1>1, <1>4, <1>9 DEF InCall, NothingCame, call, caller, wire
<1> QED BY <1>11, <1>12, <1>13 DEF IInv

(* The Ledger answers what it has taken.                                     *)
LEMMA AnswersStep ==
  ASSUME IInv, NEW a, IsAnswer(a), CardAnswers(a)
  PROVE  IInv'
<1> DEFINE R == Reports(a)
           n == Len(R)
<1>1. /\ TypeOK /\ handle = "live" /\ attached /\ pc = "first" /\ InCall /\ NothingCame
      /\ Taken /\ queue = <<>> /\ result = <<>>
      /\ card = [inbox |-> <<>>, asked |-> request, out |-> <<>>]
  BY LedgerAtWork DEF IInv, CardAnswers
<1>2. a \in Bytes /\ a # <<>> /\ Len(a) < Sizes
  <2>1. Len(<<>>) = 0
    OBVIOUS
  <2> QED BY <2>1 DEF IsAnswer
<1>3. R \in Seq(Bytes) /\ n \in Nat /\ n >= 1 /\ Flat(a, 0) = <<>>
  BY <1>2, Messages
<1>4. answer' = a /\ card' = [inbox |-> <<>>, asked |-> request, out |-> R]
      /\ UNCHANGED <<pc, call, request, sent, late, result, caller, wire, seen>>
  BY <1>1 DEF CardAnswers
<1> HIDE DEF n
<1>5. SubSeq(R, 1, n) = R /\ SubSeq(R, 1, 0) = <<>>
  <2>1. SubSeq(R, 1, n) = R
    BY <1>3, SubSeqFull DEF n
  <2>2. 1 \in Int /\ 0 \in Int /\ 0 < 1
    OBVIOUS
  <2>3. SubSeq(R, 1, 0) = <<>>
    BY <2>2, SubSeqEmpty
  <2> QED BY <2>1, <2>3
<1>6. Answered(0, 0)'
  <2>1. IsAnswer(answer)' /\ Taken'
    BY <1>1, <1>4 DEF IsAnswer, Fits, AllSent, Taken, Whole, call
  <2>2. Len(Reports(answer')) = n /\ Reports(answer') = R /\ 0 # n /\ 0 <= n
    BY <1>3, <1>4 DEF n
  <2>3. result' = Flat(answer', 0) /\ queue' = SubSeq(R, 1, 0)
    BY <1>1, <1>3, <1>4, <1>5 DEF wire
  <2>4. card' = [inbox |-> <<>>, asked |-> IF 0 = n THEN <<>> ELSE request', out |-> SubSeq(R, 1, n)]
    BY <1>4, <1>5, <2>2
  <2> HIDE DEF R
  <2> QED BY <2>1, <2>2, <2>3, <2>4 DEF Answered
<1>7. 0 \in 0..Len(Reports(answer'))
  BY <1>3, <1>4 DEF n
<1>8. TypeOK'
  <2>1. <<>> \in Bytes /\ request \in Bytes
    BY <1>1, EmptySeq DEF Bytes, TypeOK
  <2>2. card' \in [inbox: Bytes, asked: Bytes, out: Seq(Bytes)]
    BY <1>3, <1>4, <2>1
  <2> QED BY <1>1, <1>2, <1>4, <2>2 DEF TypeOK, call, caller, wire
<1>9. InCall' /\ pc' = "first" /\ NothingCame' /\ attached' /\ handle' = "live"
  BY <1>1, <1>4 DEF InCall, NothingCame, call, caller, wire
<1> QED BY <1>6, <1>7, <1>8, <1>9 DEF IInv

(* The Ledger acknowledges a chunk.                                         *)
LEMMA AcknowledgeStep ==
  ASSUME IInv, Acknowledge
  PROVE  IInv'
<1>1. Fits(<<>>, CODE_SUCCESS)
  BY DEF Fits, AllSent, Acknowledge
<1>2. IsAnswer(Short(CODE_SUCCESS))
  BY <1>1, Bare
<1> QED BY <1>2, AnswersStep DEF Acknowledge

(* The user of the Ledger agrees or refuses.                                *)
LEMMA DecideStep ==
  ASSUME IInv, Decide
  PROVE  IInv'
<1>1. PICK a \in AnswersTo[op] : CardAnswers(a)
  BY DEF Decide, AnswersTo, IInv, TypeOK
<1>2. IsAnswer(a)
  BY Replies DEF IInv, TypeOK
<1> QED BY <1>1, <1>2, AnswersStep

(* The Ledger sends a report of its answer.                                  *)
LEMMA SendsStep ==
  ASSUME IInv, CardSends
  PROVE  IInv'
<1>1. /\ TypeOK /\ handle = "live" /\ attached /\ pc \in {"first", "more"} /\ InCall
      /\ pc = "first" => NothingCame
      /\ card.out # <<>>
  BY LedgerAtWork DEF IInv, CardSends
<1>2. UNCHANGED <<pc, call, request, sent, late, result, caller, attached, handle, seen, answer>>
  BY DEF CardSends
<1>3. InCall' /\ pc' = pc /\ (pc' = "first" => NothingCame') /\ attached' /\ handle' = "live"
  BY <1>1, <1>2 DEF InCall, NothingCame, call, caller
<1>4. PICK r \in Nat, q \in Nat :
        /\ Answered(r, q)
        /\ pc = "first" => r = 0
        /\ pc = "more" => r \in 1..Len(Reports(answer))
  <2>1. CASE pc = "first"
    <3>1. ~Waiting
      BY <1>1 DEF Waiting
    <3>2. PICK q \in 0..Len(Reports(answer)) : Answered(0, q)
      BY <2>1, <3>1 DEF IInv
    <3>3. 0 \in Nat /\ q \in Nat
      OBVIOUS
    <3> QED BY <2>1, <3>2, <3>3
  <2>2. CASE pc = "more"
    BY <2>2 DEF IInv
  <2> QED BY <1>1, <2>1, <2>2
<1>5. /\ r + (q + 1) <= Len(Reports(answer)) /\ Answered(r, q + 1)'
      /\ queue' \in Seq(Bytes) /\ card' \in [inbox: Bytes, asked: Bytes, out: Seq(Bytes)]
  BY <1>1, <1>4, Sends
<1>6. TypeOK'
  BY <1>1, <1>2, <1>5 DEF TypeOK, call, caller
<1>7. Len(Reports(answer)) \in Nat /\ answer' = answer
  <2>1. answer \in Bytes /\ answer # <<>> /\ Len(answer) < Sizes
    BY <1>4, AnswerIs DEF Answered
  <2> QED BY <1>2, <2>1, Messages
<1>8. q + 1 \in 0..Len(Reports(answer'))
  BY <1>5, <1>7
<1>9. pc' = "first" => \E k \in 0..Len(Reports(answer')) : Answered(0, k)'
  BY <1>3, <1>4, <1>5, <1>8
<1>10. pc' = "more" => \E i \in 1..Len(Reports(answer')), k \in 0..Len(Reports(answer')) : Answered(i, k)'
  BY <1>3, <1>4, <1>5, <1>7, <1>8
<1> QED BY <1>1, <1>3, <1>6, <1>9, <1>10 DEF IInv

(* With the Ledger unplugged, nothing more comes than is in the queue, if that. *)
LEMMA Loses ==
  ASSUME TypeOK, NEW r \in Nat, NEW q \in Nat, Answered(r, q), Unplug
  PROVE  Answered(r, q)' \/ (Answered(r, 0)' /\ r <= Len(Reports(answer)))
<1>1. UNCHANGED <<call, request, result, seen, answer>> /\ handle' # "live"
  BY DEF Unplug, TypeOK
<1>2. IsAnswer(answer)' /\ Taken' /\ result' = Flat(answer', r)
  BY <1>1 DEF Answered, IsAnswer, Fits, AllSent, Taken, Whole, call
<1>3. r + q <= Len(Reports(answer)) /\ queue = SubSeq(Reports(answer), r + 1, r + q)
  BY DEF Answered
<1>4. CASE queue' = queue
  BY <1>1, <1>2, <1>3, <1>4 DEF Answered
<1>5. CASE queue' = <<>>
  <2>1. answer \in Bytes /\ answer # <<>> /\ Len(answer) < Sizes
    BY AnswerIs DEF Answered
  <2>2. Len(Reports(answer)) \in Nat
    BY <2>1, Messages
  <2>3. r + 0 = r /\ r <= Len(Reports(answer))
    BY <1>3, <2>2
  <2>4. SubSeq(Reports(answer), r + 1, r) = <<>>
    <3>1. r + 1 \in Int /\ r \in Int /\ r < r + 1
      OBVIOUS
    <3> QED BY <3>1, SubSeqEmpty
  <2>5. queue' = SubSeq(Reports(answer'), r + 1, r + 0) /\ r + 0 <= Len(Reports(answer'))
    BY <1>1, <1>5, <2>3, <2>4
  <2> QED BY <1>1, <1>2, <2>3, <2>5 DEF Answered
<1> QED BY <1>4, <1>5 DEF Unplug

(* The Ledger goes, and with it the request and the answer it was at.       *)
LEMMA UnplugStep ==
  ASSUME IInv, Unplug
  PROVE  IInv'
<1>1. TypeOK /\ pc # "undefined"
  BY DEF IInv
<1>2. /\ UNCHANGED <<pc, call, request, sent, late, result, caller, seen, answer>>
      /\ attached' = FALSE /\ card' = FreshCard /\ queue' \in {queue, <<>>}
      /\ handle' = (IF handle = "live" THEN "stale" ELSE handle)
  BY DEF Unplug
<1>3. handle' # "live" /\ handle' \in {"null", "stale"} /\ (handle # "null" => handle' # "null")
  BY <1>1, <1>2 DEF TypeOK
<1>4. TypeOK'
  <2>1. <<>> \in Bytes /\ <<>> \in Seq(Bytes)
    BY EmptySeq DEF Bytes
  <2>2. card' \in [inbox: Bytes, asked: Bytes, out: Seq(Bytes)] /\ queue' \in Seq(Bytes)
    BY <1>1, <1>2, <2>1 DEF FreshCard, TypeOK
  <2> QED BY <1>1, <1>2, <1>3, <2>2 DEF TypeOK, call, caller
<1>5. pc' \in {"idle", "return", "crashed"} => Quiet'
  BY <1>2 DEF IInv, Quiet
<1>6. /\ pc' = "idle" => op' = "key" /\ seen' = <<>>
      /\ pc' \in {"idle", "write", "first"} => NothingCame'
  BY <1>2 DEF IInv, NothingCame, call, caller
<1>7. (pc' \in {"write", "first", "more"} => InCall') /\ (pc' = "return" => InCall' \/ Unasked')
  BY <1>2, <1>3 DEF IInv, InCall, Unasked, NothingCame, call, caller
<1>8. pc' = "write" => Writing'
  BY <1>2, <1>3 DEF IInv, Writing
<1>9. ASSUME pc = "first", Waiting PROVE Waiting'
  BY <1>2, <1>3, <1>9 DEF Waiting
<1>10. ASSUME NEW r \in Nat, NEW q \in Nat, Answered(r, q), q <= Len(Reports(answer))
       PROVE  \E k \in 0..Len(Reports(answer')) : Answered(r, k)'
  <2>1. answer \in Bytes /\ answer # <<>> /\ Len(answer) < Sizes
    BY <1>10, AnswerIs DEF Answered
  <2>2. Len(Reports(answer)) \in Nat /\ Len(Reports(answer)) >= 1
    BY <2>1, Messages
  <2>3. q \in 0..Len(Reports(answer')) /\ 0 \in 0..Len(Reports(answer'))
    BY <1>2, <1>10, <2>2
  <2> QED BY <1>1, <1>10, <2>3, Loses
<1>11. pc' = "first" => Waiting' \/ \E q \in 0..Len(Reports(answer')) : Answered(0, q)'
  <2>1. ASSUME pc = "first", ~Waiting PROVE \E q \in 0..Len(Reports(answer')) : Answered(0, q)'
    <3>1. PICK q \in 0..Len(Reports(answer)) : Answered(0, q)
      BY <2>1 DEF IInv
    <3>2. 0 \in Nat /\ q \in Nat /\ q <= Len(Reports(answer))
      OBVIOUS
    <3> QED BY <1>10, <3>1, <3>2
  <2> QED BY <1>2, <1>9, <2>1
<1>12. pc' = "more" => \E r \in 1..Len(Reports(answer')), q \in 0..Len(Reports(answer')) : Answered(r, q)'
  <2>1. ASSUME pc = "more"
        PROVE  \E r \in 1..Len(Reports(answer')), q \in 0..Len(Reports(answer')) : Answered(r, q)'
    <3>1. PICK r \in 1..Len(Reports(answer)), q \in 0..Len(Reports(answer)) : Answered(r, q)
      BY <2>1 DEF IInv
    <3>2. r \in Nat /\ q \in Nat /\ q <= Len(Reports(answer)) /\ r \in 1..Len(Reports(answer'))
      BY <1>2
    <3> QED BY <1>10, <3>1, <3>2
  <2> QED BY <1>2, <2>1
<1>13. pc' = "return" => Returned'
  BY <1>2, <1>3 DEF IInv, Returned, Fits, AllSent, NothingCame, Unasked, Taken, Whole, call, caller
<1> QED BY <1>1, <1>2, <1>3, <1>4, <1>5, <1>6, <1>7, <1>8, <1>11, <1>12, <1>13 DEF IInv

(* Steps that the conversation does not notice.                              *)
LEMMA UnnoticedStep ==
  ASSUME IInv,
         UNCHANGED <<pc, call, request, sent, result, caller, handle, queue, card, seen, answer>>,
         late' \in BOOLEAN, attached' \in BOOLEAN, attached => attached'
  PROVE  IInv'
<1>1. TypeOK'
  BY DEF IInv, TypeOK, call, caller
<1>2. (handle' = "live" => attached') /\ (handle' # "live" => card' = FreshCard)
      /\ (pc' \in {"idle", "return", "crashed"} => Quiet')
  BY DEF IInv, Quiet
<1>3. /\ pc' # "undefined"
      /\ pc' = "idle" => op' = "key" /\ seen' = <<>>
      /\ pc' \in {"idle", "write", "first"} => NothingCame'
  BY DEF IInv, NothingCame, call, caller
<1>4. /\ pc' \in {"write", "first", "more"} => InCall'
      /\ pc' = "write" => Writing'
  BY DEF IInv, InCall, Writing, Pending, Whole, call
<1>8. pc' = "return" => (InCall' \/ Unasked') /\ Returned'
  BY DEF IInv, InCall, Unasked, NothingCame, Returned, Taken, Fits, AllSent, Whole, call, caller
<1>5. Waiting => Waiting'
  BY DEF Waiting, Pending, Taken, Whole, call
<1>6. ASSUME NEW r, NEW q, Answered(r, q) PROVE Answered(r, q)'
  BY <1>6 DEF Answered, IsAnswer, Fits, AllSent, Taken, Whole, call
<1>7. /\ pc' = "first" => Waiting' \/ \E q \in 0..Len(Reports(answer')) : Answered(0, q)'
      /\ pc' = "more" => \E r \in 1..Len(Reports(answer')), q \in 0..Len(Reports(answer')) : Answered(r, q)'
  BY <1>5, <1>6 DEF IInv
<1> QED BY <1>1, <1>2, <1>3, <1>4, <1>7, <1>8 DEF IInv

-----------------------------------------------------------------------------
(* The steps of the program.                                                *)

(* GetPubKeyFor begins.                                                     *)
LEMMA GetPubKeyStep ==
  ASSUME IInv, GetPubKey
  PROVE  IInv'
<1>1. /\ TypeOK /\ pc = "idle" /\ op = "key" /\ seen = <<>> /\ Quiet
      /\ handle' = "live" /\ queue' = <<>> /\ Exchange(KeyRequest)
      /\ attached /\ UNCHANGED <<op, challenge, offset, attached, card, seen>>
  BY DEF IInv, GetPubKey, call
<1>2. Pending'
  <2>1. request' = KeyRequest
    BY <1>1 DEF Exchange
  <2>2. <<>> \o Path = Path
    BY TransportAssumption, ConcatEmptySeq DEF Bytes
  <2> QED BY <1>1, <2>1, <2>2, KeyRequests DEF Pending, Whole
<1>3. /\ op' \in {"key", "sign"} /\ challenge' \in Challenges \cup {<<>>} /\ offset' \in 0..Len(challenge')
      /\ op' = "sign" => offset' # 0
      /\ attached' \in BOOLEAN /\ attached' /\ handle' \in {"live", "stale"} /\ card' = FreshCard /\ seen' \in Bytes
  BY <1>1 DEF TypeOK, Quiet
<1> QED BY <1>1, <1>2, <1>3, KeyRequests, Begins

(* SignMap begins with its first chunk, or with nothing to sign.            *)
LEMMA SignStep ==
  ASSUME IInv, NEW c \in Challenges, Sign(c)
  PROVE  IInv'
<1>1. /\ TypeOK /\ pc = "idle" /\ op = "key" /\ seen = <<>> /\ Quiet /\ NothingCame
      /\ handle \in {"live", "stale"} /\ (handle = "live" => attached)
      /\ UNCHANGED <<attached, handle, queue, card>>
  BY DEF IInv, Sign, wire, TypeOK
<1>2. CASE c = <<>>
  <2>1. /\ op' = "sign" /\ challenge' = <<>> /\ offset' = ChunkSize(<<>>, 0) /\ pc' = "return"
        /\ UNCHANGED <<request, sent, late, result, response, status, answer, seen>>
    BY <1>2 DEF Sign, Exchange, caller
  <2>2. ChunkSize(<<>>, 0) = 0
    <3>1. Len(<<>>) = 0 /\ PathBefore(0) = Path
      BY DEF PathBefore
    <3>2. Len(Path) \in Nat /\ MaxChunk \in Nat /\ Len(Path) < MaxChunk
      BY TransportAssumption, LenProperties DEF Bytes
    <3> DEFINE m == Len(<<>>) - 0
               n == MaxChunk - Len(PathBefore(0))
    <3>3. m \in Int /\ n \in Int /\ m = 0 /\ m <= n
      BY <3>1, <3>2
    <3> HIDE DEF m, n
    <3>4. Min({m, n}) = m
      BY <3>3, MinOfTwo
    <3> QED BY <3>3, <3>4 DEF ChunkSize, m, n
  <2>3. TypeOK'
    <3>1. 0 \in 0..Len(<<>>)
      OBVIOUS
    <3> QED BY <1>1, <2>1, <2>2, <3>1 DEF TypeOK
  <2>4. NothingCame' /\ Unasked' /\ Returned' /\ Quiet'
    BY <1>1, <2>1 DEF NothingCame, Unasked, Returned, Quiet
  <2>5. (handle' = "live" => attached') /\ (handle' # "live" => card' = FreshCard)
    BY <1>1 DEF Quiet
  <2> QED BY <2>1, <2>3, <2>4, <2>5 DEF IInv
<1>3. CASE c # <<>>
  <2> DEFINE r == SignRequest(c, 0)
             e == ChunkSize(c, 0)
  <2>1. op' = "sign" /\ challenge' = c /\ offset' = e /\ Exchange(r) /\ UNCHANGED seen
    BY <1>3 DEF Sign
  <2>2. c \in Bytes /\ Len(c) \in Nat /\ 0 < Len(c)
    <3>1. c \in Bytes
      BY TransportAssumption
    <3>2. c \in Seq(0..255)
      BY <3>1 DEF Bytes
    <3>3. Len(c) \in Nat /\ Len(c) # 0
      BY <1>3, <3>2, EmptySeq, LenProperties
    <3> QED BY <3>1, <3>3
  <2> DEFINE z == 0
             k == ChunkSize(c, z)
  <2>3. z \in Nat /\ z < Len(c) /\ z = 0
    BY <2>2
  <2>4. e = k /\ r = SignRequest(c, z)
    OBVIOUS
  <2> HIDE DEF r, e, k, z
  <2>5. /\ z + k \in Nat /\ z < z + k /\ z + k <= Len(c)
        /\ r \in Bytes /\ r # <<>> /\ Len(r) < Sizes
        /\ Covered(c, z) \o SubSeq(r, 6, Len(r)) = Path \o SubSeq(c, 1, z + k)
        /\ z \in Nat
    BY <2>2, <2>3, <2>4, SignRequests DEF k
  <2>6. k \in Int
    <3>1. Len(c) - z \in Int /\ MaxChunk - Len(PathBefore(z)) \in Int
      <4>1. Len(Path) \in Nat /\ MaxChunk \in Nat /\ Len(<<>>) = 0
        BY TransportAssumption, LenProperties, EmptySeq DEF Bytes
      <4> QED BY <2>2, <2>3, <4>1 DEF PathBefore
    <3> QED BY <3>1, MinOfTwo DEF k, ChunkSize
  <2>7. e \in Nat /\ 0 < e /\ e <= Len(c) /\ z + k = e
    BY <2>3, <2>4, <2>5, <2>6
  <2>8. Covered(c, z) = <<>> /\ request' = r
    BY <2>1, <2>3 DEF Covered, Exchange
  <2>9. Pending'
    BY <1>1, <2>1, <2>5, <2>7, <2>8 DEF Pending, Whole
  <2>10. offset' \in 0..Len(challenge') /\ offset' # 0
    BY <2>1, <2>2, <2>7
  <2>11. queue' = <<>> /\ card' = FreshCard /\ seen' \in Bytes
    BY <1>1, <2>1 DEF Quiet, TypeOK
  <2>12. /\ op' \in {"key", "sign"} /\ challenge' \in Challenges \cup {<<>>}
         /\ attached' \in BOOLEAN /\ (handle' = "live" => attached') /\ handle' \in {"live", "stale"}
    BY <1>1, <2>1 DEF TypeOK
  <2> QED BY <2>1, <2>5, <2>9, <2>10, <2>11, <2>12, Begins
<1> QED BY <1>2, <1>3

(* A report is written, or Exchange gives up.                                *)
LEMMA WriteReportStep ==
  ASSUME IInv, WriteReport
  PROVE  IInv'
<1> DEFINE n == Len(Reports(request))
<1>1. /\ TypeOK /\ pc = "write" /\ Writing /\ InCall /\ NothingCame /\ status = CODE_SUCCESS
      /\ handle = "live" => attached
      /\ handle # "live" => card = FreshCard
      /\ UNCHANGED <<call, request, late, result, wire, seen, answer>>
  BY DEF IInv, WriteReport, NothingCame
<1>2. request \in Bytes /\ request # <<>> /\ Len(request) < Sizes
  BY <1>1 DEF InCall, TypeOK
<1>3. n \in Nat /\ sent \in 0..n /\ sent < n
  BY <1>1, <1>2, Messages DEF TypeOK, Writing
<1>4. CASE handle = "live"
  <2>1. /\ card' = [card EXCEPT !.inbox = @ \o Reports(request)[sent + 1]]
        /\ sent' = sent + 1 /\ pc' = (IF sent' = n THEN "first" ELSE "write") /\ UNCHANGED caller
    BY <1>4 DEF WriteReport
  <2>2. sent # n /\ sent + 1 \in 0..n
    BY <1>3
  <2>3. Flat(request, sent) \o Reports(request)[sent + 1] = Flat(request, sent + 1)
        /\ Flat(request, sent + 1) \in Bytes
    BY <1>2, <1>3, <2>2, Messages
  <2>4. card = [inbox |-> Flat(request, sent), asked |-> <<>>, out |-> <<>>] /\ Pending
    BY <1>1, <1>4 DEF Writing
  <2>5. card' = [inbox |-> Flat(request, sent + 1), asked |-> <<>>, out |-> <<>>]
    BY <2>1, <2>3, <2>4
  <2>6. TypeOK'
    <3>1. <<>> \in Bytes /\ <<>> \in Seq(Bytes)
      BY EmptySeq DEF Bytes
    <3>2. card' \in [inbox: Bytes, asked: Bytes, out: Seq(Bytes)]
      BY <2>3, <2>5, <3>1
    <3>3. sent' \in 0..Len(Reports(request')) /\ pc' \in {"write", "first"}
      BY <1>1, <2>1, <2>2
    <3> QED BY <1>1, <2>1, <3>2, <3>3 DEF TypeOK, call, caller, wire
  <2>7. /\ InCall' /\ NothingCame' /\ (handle' = "live" => attached') /\ handle' = "live"
        /\ queue' = <<>> /\ result' = <<>> /\ answer' = <<>> /\ Pending'
        /\ request' = request
    BY <1>1, <1>4, <2>1, <2>4 DEF InCall, NothingCame, Writing, Pending, Whole, call, caller, wire
  <2>8. CASE sent + 1 = n
    <3>1. pc' = "first" /\ card' = [inbox |-> Flat(request', Len(Reports(request'))), asked |-> <<>>, out |-> <<>>]
      BY <1>1, <2>1, <2>5, <2>8
    <3>2. Waiting'
      BY <2>7, <3>1 DEF Waiting
    <3> QED BY <2>6, <2>7, <3>1, <3>2 DEF IInv
  <2>9. CASE sent + 1 # n
    <3>1. pc' = "write" /\ sent' < Len(Reports(request'))
          /\ card' = [inbox |-> Flat(request', sent'), asked |-> <<>>, out |-> <<>>]
      <4>1. sent + 1 < n
        BY <1>3, <2>2, <2>9
      <4>2. pc' = "write" /\ sent' = sent + 1 /\ request' = request
        BY <2>1, <2>7, <2>9
      <4> QED BY <2>5, <4>1, <4>2
    <3>2. Writing'
      BY <2>7, <3>1 DEF Writing
    <3> QED BY <2>6, <2>7, <3>1, <3>2 DEF IInv
  <2> QED BY <2>8, <2>9
<1>5. CASE handle = "stale"
  <2>1. Return(<<>>, CODE_SUCCESS) /\ UNCHANGED <<card, sent>>
    BY <1>1, <1>5 DEF WriteReport
  <2>2. Quiet
    BY <1>1, <1>5 DEF Writing, Quiet
  <2>3. <<>> \in Bytes /\ handle # "live"
    BY <1>5, EmptySeq DEF Bytes
  <2> QED BY <1>1, <2>1, <2>2, <2>3, Returns
<1> QED BY <1>4, <1>5 DEF WriteReport

(* An answer of some reports begins, or Read gives up.                        *)
LEMMA ReadFirstStep ==
  ASSUME IInv, ReadFirst
  PROVE  IInv'
<1>1. /\ TypeOK /\ pc = "first" /\ InCall
      /\ handle = "live" => attached
      /\ handle # "live" => card = FreshCard
      /\ queue # <<>> /\ result' = Head(queue) /\ queue' = Tail(queue) /\ pc' = "more"
      /\ UNCHANGED <<call, request, sent, late, caller, attached, handle, card, seen, answer>>
  BY DEF IInv, ReadFirst
<1>2. PICK q \in 0..Len(Reports(answer)) : Answered(0, q)
  BY <1>1 DEF IInv, Waiting
<1>3. answer \in Bytes /\ answer # <<>> /\ Len(answer) < Sizes
  BY <1>2, AnswerIs DEF Answered
<1>4. result = <<>> /\ Len(Reports(answer)) \in Nat /\ Len(Reports(answer)) >= 1
  BY <1>2, <1>3, Messages DEF Answered
<1>5. result' = result \o Head(queue)
  <2>1. Head(queue) \in Seq(0..255)
    BY <1>1, HeadTailProperties DEF TypeOK, Bytes
  <2> QED BY <1>1, <1>4, <2>1, ConcatEmptySeq
<1> DEFINE z == 0
<1>6. z \in Nat /\ q \in Nat /\ Answered(z, q) /\ q <= Len(Reports(answer))
  BY <1>2
<1>7. z + 1 = 1
  OBVIOUS
<1> HIDE DEF z
<1>8. /\ q - 1 \in Nat /\ Answered(z + 1, q - 1)'
      /\ result' \in Bytes /\ queue' \in Seq(Bytes)
  BY <1>1, <1>5, <1>6, Advances
<1>9. 1 \in 1..Len(Reports(answer')) /\ q - 1 \in 0..Len(Reports(answer')) /\ Answered(1, q - 1)'
  BY <1>1, <1>4, <1>6, <1>7, <1>8
<1>10. TypeOK'
  BY <1>1, <1>8 DEF TypeOK, call, caller
<1>11. InCall' /\ (handle' = "live" => attached') /\ (handle' # "live" => card' = FreshCard)
  BY <1>1 DEF InCall, call
<1> QED BY <1>1, <1>9, <1>10, <1>11 DEF IInv

(* The timeout is reached, with nothing that could still come.              *)
LEMMA ReadTimesOutStep ==
  ASSUME IInv, ReadTimesOut
  PROVE  IInv'
<1>1. /\ TypeOK /\ pc = "first" /\ status = CODE_SUCCESS
      /\ handle = "stale" /\ queue = <<>> /\ Return(<<>>, CODE_SUCCESS)
      /\ UNCHANGED <<call, request, sent, late, result, wire, card, seen, answer>>
  BY DEF IInv, ReadTimesOut, ReadFails, NothingCame
<1>2. Quiet
  BY <1>1 DEF IInv, Quiet
<1>3. <<>> \in Bytes /\ handle # "live"
  BY <1>1, EmptySeq DEF Bytes
<1> QED BY <1>1, <1>2, <1>3, Returns

(* UnwrapApdu takes an answer when the last of its reports is there.            *)
LEMMA InAnswer ==
  ASSUME IInv, pc = "more"
  PROVE  \E r \in Nat, q \in Nat :
           /\ Answered(r, q) /\ r >= 1 /\ q <= Len(Reports(answer)) /\ Len(Reports(answer)) \in Nat
           /\ UnwrapApdu(result) = IF r = Len(Reports(answer)) THEN answer ELSE <<>>
           /\ ~ReadsPastEnd(result)
<1>1. PICK r \in 1..Len(Reports(answer)), q \in 0..Len(Reports(answer)) : Answered(r, q)
  BY DEF IInv
<1>2. answer \in Bytes /\ answer # <<>> /\ Len(answer) < Sizes
  BY <1>1, AnswerIs DEF Answered
<1>3. Len(Reports(answer)) \in Nat /\ result = Flat(answer, r)
  BY <1>1, <1>2, Messages DEF Answered
<1>4. r \in Nat /\ q \in Nat /\ r >= 1 /\ q <= Len(Reports(answer)) /\ r \in 0..Len(Reports(answer)) /\ r # 0
  BY <1>3
<1>5. UnwrapApdu(result) = (IF r = Len(Reports(answer)) THEN answer ELSE <<>>) /\ ~ReadsPastEnd(result)
  BY <1>2, <1>3, <1>4, Messages
<1> QED BY <1>1, <1>3, <1>4, <1>5

(* The bytes read are the whole answer, and it comes apart.                   *)
LEMMA AnswerIsWhole ==
  ASSUME IInv, Unwrap
  PROVE  LET body == DataOf(answer)
             code == StatusOf(answer)
         IN  /\ answer \in Bytes /\ answer # <<>> /\ Quiet /\ Taken
             /\ body \in Bytes /\ code \in Errors \cup {CODE_SUCCESS}
             /\ answer = body \o Short(code) /\ Fits(body, code) /\ Return(body, code)
<1>1. PICK r \in Nat, q \in Nat :
        /\ Answered(r, q)
        /\ UnwrapApdu(result) = IF r = Len(Reports(answer)) THEN answer ELSE <<>>
  BY InAnswer DEF Unwrap
<1>2. TypeOK /\ (handle # "live" => card = FreshCard) /\ UnwrapApdu(result) # <<>>
  BY DEF IInv, Unwrap
<1>3. r = Len(Reports(answer)) /\ UnwrapApdu(result) = answer /\ answer # <<>>
  BY <1>1, <1>2
<1>4. Quiet /\ Taken
  BY <1>1, <1>2, <1>3, ReadOut DEF Answered
<1>5. answer \in Bytes /\ Len(answer) >= 2
  BY <1>1 DEF Answered, IsAnswer
<1>6. PICK code \in Errors \cup {CODE_SUCCESS} :
        answer = DataOf(answer) \o Short(code) /\ Fits(DataOf(answer), code)
  BY <1>1 DEF Answered, IsAnswer
<1>7. DataOf(answer) \in Bytes
  <2>1. Len(answer) \in Nat
    BY <1>5, LenProperties DEF Bytes
  <2>2. Len(answer) - 2 \in Nat /\ Len(answer) - 2 <= Len(answer)
    BY <1>5, <2>1
  <2> QED BY <1>5, <2>2, PrefixBytes DEF DataOf
<1>8. StatusOf(answer) = code
  BY <1>6, <1>7, AnswerParts
<1>9. Return(DataOf(answer), StatusOf(answer))
  BY <1>3 DEF Unwrap
<1> QED BY <1>3, <1>4, <1>5, <1>6, <1>7, <1>8, <1>9

(* Exchange returns it.                                                     *)
LEMMA UnwrapStep ==
  ASSUME IInv, Unwrap
  PROVE  IInv'
<1> DEFINE body == DataOf(answer)
           code == StatusOf(answer)
<1>1. /\ Quiet /\ Taken /\ Fits(body, code) /\ Return(body, code) /\ answer = body \o Short(code)
      /\ body \in Bytes /\ code \in Errors \cup {CODE_SUCCESS} /\ answer # <<>>
  BY AnswerIsWhole
<1>2. pc = "more" /\ UNCHANGED <<call, request, sent, late, result, wire, card, seen, answer>>
  BY DEF Unwrap
<1> HIDE DEF body, code
<1> QED BY <1>1, <1>2, Returns

(* They are not yet, and another report is read.                            *)
LEMMA ReadMoreStep ==
  ASSUME IInv, ReadMore
  PROVE  IInv'
<1>1. PICK r \in Nat, q \in Nat :
        /\ Answered(r, q) /\ r >= 1 /\ q <= Len(Reports(answer)) /\ Len(Reports(answer)) \in Nat
        /\ ~ReadsPastEnd(result)
  BY InAnswer DEF ReadMore
<1>2. /\ TypeOK /\ pc = "more" /\ InCall
      /\ handle = "live" => attached
      /\ handle # "live" => card = FreshCard
      /\ queue # <<>> /\ result' = result \o Head(queue) /\ queue' = Tail(queue) /\ pc' = "more"
      /\ UNCHANGED <<call, request, sent, late, caller, attached, handle, card, seen, answer>>
  BY <1>1 DEF IInv, ReadMore
<1>3. /\ q - 1 \in Nat /\ r + 1 <= Len(Reports(answer)) /\ Answered(r + 1, q - 1)'
      /\ result' \in Bytes /\ queue' \in Seq(Bytes)
  BY <1>1, <1>2, Advances
<1>4. r + 1 \in 1..Len(Reports(answer')) /\ q - 1 \in 0..Len(Reports(answer'))
  BY <1>1, <1>2, <1>3
<1>5. TypeOK'
  BY <1>2, <1>3 DEF TypeOK, call, caller
<1>6. InCall' /\ (handle' = "live" => attached') /\ (handle' # "live" => card' = FreshCard)
  BY <1>2 DEF InCall, call
<1> QED BY <1>2, <1>3, <1>4, <1>5, <1>6 DEF IInv

(* The caller asks for more of the challenge to be taken, or is done.           *)
LEMMA NextChunkStep ==
  ASSUME IInv, NextChunk
  PROVE  IInv'
<1> DEFINE c == challenge
           z == offset
           k == ChunkSize(c, z)
           r == SignRequest(c, z)
<1>1. /\ TypeOK /\ pc = "return" /\ op = "sign" /\ z # 0 /\ z # Len(c) /\ Quiet /\ Returned
      /\ handle \in {"live", "stale"} /\ (handle = "live" => attached)
      /\ offset' = z + k /\ Exchange(r)
      /\ UNCHANGED <<op, challenge, attached, handle, queue, card, seen>>
  <2>1. challenge # <<>>
    <3>1. offset \in 0..Len(challenge) /\ offset # Len(challenge) /\ Len(<<>>) = 0
      BY DEF IInv, TypeOK, NextChunk
    <3> QED BY <3>1
  <2> QED BY <2>1 DEF IInv, InCall, Unasked, NextChunk, wire, TypeOK
<1>2. c \in Bytes /\ Len(c) \in Nat /\ z \in Nat /\ z < Len(c)
  <2>1. c \in Bytes
    <3>1. <<>> \in Bytes
      BY EmptySeq DEF Bytes
    <3> QED BY <1>1, <3>1, TransportAssumption DEF TypeOK
  <2>2. Len(c) \in Nat
    BY <2>1, LenProperties DEF Bytes
  <2> QED BY <1>1, <2>1, <2>2 DEF TypeOK
<1>3. /\ z + k \in Nat /\ z < z + k /\ z + k <= Len(c)
      /\ r \in Bytes /\ r # <<>> /\ Len(r) < Sizes
      /\ Covered(c, z) \o SubSeq(r, 6, Len(r)) = Path \o SubSeq(c, 1, z + k)
  BY <1>2, SignRequests
<1>4. ASSUME handle' = "live" PROVE Pending'
  <2>1. seen = Covered(c, z)
    <3>1. challenge # <<>>
      <4>1. Len(<<>>) = 0
        OBVIOUS
      <4> QED BY <1>2, <4>1
    <3>2. Taken
      BY <1>1, <1>4, <3>1 DEF Returned, Unasked
    <3> QED BY <1>1, <3>2 DEF Taken, Whole, Covered
  <2>2. seen' = seen /\ request' = r /\ op' = "sign" /\ challenge' = c /\ offset' = z + k
    BY <1>1 DEF Exchange
  <2> HIDE DEF r, k
  <2> QED BY <1>3, <2>1, <2>2 DEF Pending, Whole
<1>5. offset' \in 0..Len(challenge') /\ offset' # 0
  BY <1>1, <1>2, <1>3
<1>6. queue' = <<>> /\ card' = FreshCard /\ seen' \in Bytes
  BY <1>1 DEF Quiet, TypeOK
<1>7. /\ op' \in {"key", "sign"} /\ challenge' \in Challenges \cup {<<>>}
      /\ attached' \in BOOLEAN /\ (handle' = "live" => attached') /\ handle' \in {"live", "stale"}
  BY <1>1 DEF TypeOK
<1> HIDE DEF r
<1> QED BY <1>1, <1>3, <1>4, <1>5, <1>6, <1>7, Begins

(* The caller has what it wants.                                            *)
LEMMA CallerStep ==
  ASSUME IInv, KeyReturned \/ Signed
  PROVE  IInv'
<1>1. pc \in {"idle", "return"} /\ UNCHANGED <<wire, card>>
  BY DEF KeyReturned, Signed
<1>2. Finish("idle") \/ Finish("crashed")
  BY DEF KeyReturned, Signed
<1> QED BY <1>1, <1>2, Finishes

-----------------------------------------------------------------------------
(* Nothing is under way at the start.                                       *)
LEMMA InitIInv == Init => IInv
<1> SUFFICES ASSUME Init PROVE IInv
  OBVIOUS
<1>1. <<>> \in Bytes /\ <<>> \in Seq(Bytes) /\ Len(<<>>) = 0 /\ 0 < Sizes
  BY EmptySeq DEF Bytes, Sizes
<1>2. Len(Reports(<<>>)) \in Nat
  BY <1>1, ReportsOf
<1>3. 0 \in 0..Len(<<>>) /\ 0 \in 0..Len(Reports(<<>>))
  BY <1>1, <1>2
<1>4. TypeOK
  BY <1>1, <1>3 DEF Init, TypeOK, FreshCard
<1> QED BY <1>4 DEF Init, IInv, Quiet, NothingCame

(* Every step of the thread, the Ledger, its user and the cable.            *)
LEMMA NextIInv == IInv /\ [Next]_vars => IInv'
<1> SUFFICES ASSUME IInv, [Next]_vars PROVE IInv'
  OBVIOUS
<1>1. CASE UNCHANGED vars
  <2>1. UNCHANGED <<pc, call, request, sent, late, result, caller, attached, handle, queue, card, seen, answer>>
    BY <1>1 DEF vars, wire
  <2>2. late' \in BOOLEAN /\ attached' \in BOOLEAN
    BY <2>1 DEF IInv, TypeOK
  <2> QED BY <2>1, <2>2, UnnoticedStep
<1>2. CASE Elapse \/ Plug
  <2>1. UNCHANGED <<pc, call, request, sent, result, caller, handle, queue, card, seen, answer>>
    BY <1>2 DEF Elapse, Plug, wire
  <2>2. late' \in BOOLEAN /\ attached' \in BOOLEAN /\ (attached => attached')
    BY <1>2 DEF IInv, TypeOK, Elapse, Plug, wire
  <2> QED BY <2>1, <2>2, UnnoticedStep
<1>3. CASE Program /\ ~Elapse
  BY <1>3, WriteReportStep, ReadFirstStep, ReadTimesOutStep, UnwrapStep, ReadMoreStep, NextChunkStep, CallerStep
     DEF Program
<1>4. CASE GetPubKey \/ \E c \in Challenges : Sign(c)
  BY <1>4, GetPubKeyStep, SignStep
<1>5. CASE Card \/ Decide \/ Unplug
  BY <1>5, TakesStep, AcknowledgeStep, SendsStep, DecideStep, UnplugStep DEF Card
<1> QED BY <1>1, <1>2, <1>3, <1>4, <1>5 DEF Next, Stopped

(* The invariant the theorems below are read from.                           *)
LEMMA Inductive == Spec => []IInv
<1>1. Init => IInv
  BY InitIInv
<1>2. IInv /\ [Next]_vars => IInv'
  BY NextIInv
<1> QED BY <1>1, <1>2, PTL DEF Spec

-----------------------------------------------------------------------------
(* The variables keep their types; no report is written that is not there.      *)
THEOREM TypesKept == Spec => []TypeOK
<1>1. IInv => TypeOK
  BY DEF IInv
<1> QED BY <1>1, Inductive, PTL

(* The APDU the Ledger works on is the one Exchange was called with.            *)
THEOREM TheRequestArrives == Spec => []RequestArrives
<1>1. IInv => RequestArrives
  BY LedgerAtWork DEF RequestArrives
<1> QED BY <1>1, Inductive, PTL

(* Exchange returns the Ledger's answer, whole and split, or nothing.           *)
THEOREM TheResponseIsIntact == Spec => []ResponseIntact
<1>1. IInv => ResponseIntact
  BY Bare DEF IInv, Returned, Unasked, NothingCame, ResponseIntact
<1> QED BY <1>1, Inductive, PTL

(* An Exchange begins with an empty queue and a Ledger at rest.                *)
THEOREM ExchangesStartInSync == Spec => []InSync
<1>1. IInv => InSync
  <2> SUFFICES ASSUME IInv, pc = "idle" \/ (pc = "write" /\ sent = 0)
               PROVE  queue = <<>> /\ card = FreshCard
    BY DEF InSync
  <2>1. CASE pc = "idle"
    BY <2>1 DEF IInv, Quiet
  <2>2. CASE pc = "write" /\ sent = 0
    <3>1. TypeOK /\ InCall /\ Writing
      BY <2>2 DEF IInv
    <3>2. request \in Bytes /\ request # <<>> /\ Len(request) < Sizes
      BY <3>1 DEF InCall, TypeOK
    <3>3. Flat(request, 0) = <<>>
      BY <3>2, Messages
    <3>4. handle = "live" => card = FreshCard
      BY <2>2, <3>1, <3>3 DEF Writing, FreshCard
    <3> QED BY <3>1, <3>4 DEF IInv, Writing
  <2> QED BY <2>1, <2>2
<1> QED BY <1>1, Inductive, PTL

(* UnwrapApdu never reads behind the end of what came from the Ledger.          *)
THEOREM NothingReadPastEnd == Spec => []NoReadPastEnd
<1>1. IInv => NoReadPastEnd
  BY DEF IInv, NoReadPastEnd
<1> QED BY <1>1, Inductive, PTL

(* A signature is on the whole challenge, and a key is for the whole path.       *)
THEOREM TheWholeDataIsSeen == Spec => []WholeDataSeen
<1>1. IInv => WholeDataSeen
  BY DEF IInv, Returned, Unasked, NothingCame, Taken, Whole, WholeDataSeen
<1> QED BY <1>1, Inductive, PTL

(* What is taken for a key or a signature is one, or the Ledger's own.         *)
LEMMA Delivered ==
  ASSUME response \in Bytes, status \in Errors \cup {CODE_SUCCESS}, op \in {"key", "sign"},
         response \o Short(status) \in AnswersTo[op]
  PROVE  \/ Refused
         \/ response \o Short(status) \in Unchecked[op]
         \/ op = "key" /\ Len(response) = KeyLen
         \/ op = "sign" /\ Parses(response)
<1> DEFINE a == response \o Short(status)
<1>1. DataOf(a) = response /\ StatusOf(a) = status
  BY AnswerParts
<1>2. a \in Expected[op] \cup Others
  BY DEF AnswersTo
<1> HIDE DEF a
<1>3. ASSUME NEW d \in Bytes, a = d \o Short(CODE_SUCCESS)
      PROVE  response = d /\ status = CODE_SUCCESS
  <2>1. DataOf(d \o Short(CODE_SUCCESS)) = d /\ StatusOf(d \o Short(CODE_SUCCESS)) = CODE_SUCCESS
    BY AnswerParts
  <2> QED BY <1>1, <1>3, <2>1
<1>4. CASE a \in Expected[op] /\ op = "key"
  <2>1. PICK d \in Keys : a = d \o Short(CODE_SUCCESS)
    BY <1>4 DEF Expected
  <2>2. d \in Bytes /\ Len(d) = KeyLen
    BY AnswersAssumption
  <2> QED BY <1>3, <1>4, <2>1, <2>2
<1>5. CASE a \in Expected[op] /\ op = "sign"
  <2>1. PICK g \in Signatures : a = DER(g) \o Short(CODE_SUCCESS)
    BY <1>5 DEF Expected
  <2>2. DER(g) \in Bytes /\ Parses(DER(g))
    BY SignatureBytes
  <2> QED BY <1>3, <1>5, <2>1, <2>2
<1>6. ASSUME NEW d \in Garbage, a = d \o Short(CODE_SUCCESS)
      PROVE  a \in Unchecked[op]
  BY <1>6 DEF Unchecked
<1>7. ASSUME NEW code \in Errors, a = Short(code)
      PROVE  Refused \/ a \in Unchecked[op]
  <2>1. code \in Errors \cup {CODE_SUCCESS}
    OBVIOUS
  <2>2. <<>> \in Bytes /\ <<>> \o Short(code) = Short(code)
    BY <2>1, Bare
  <2>3. StatusOf(<<>> \o Short(code)) = code
    BY <2>1, <2>2, AnswerParts
  <2>4. status = code /\ code # CODE_SUCCESS /\ code \in Nat
    <3>1. status = code
      BY <1>1, <1>7, <2>2, <2>3
    <3> QED BY <3>1, ErrorsAssumption
  <2>5. CASE op = "key" /\ code \div 256 \in {97, 108}
    <3>1. code \in 24832..25087 \cup 27648..27903
      BY <2>4, <2>5
    <3> QED BY <1>7, <2>5, <3>1 DEF Unchecked
  <2>6. CASE ~(op = "key" /\ code \div 256 \in {97, 108})
    BY <2>4, <2>6 DEF Refused
  <2> QED BY <2>5, <2>6
<1>8. CASE a \in Others
  BY <1>6, <1>7, <1>8 DEF Others, a
<1> QED BY <1>2, <1>4, <1>5, <1>8 DEF a

(* What a caller breaks on.                                                 *)
LEMMA Breaks ==
  ASSUME IInv, KeyReturned \/ Signed, pc' = "crashed"
  PROVE  /\ pc = "return" /\ AllSent
         /\ \/ NothingCame /\ (handle = "stale" \/ (op = "sign" /\ challenge = <<>>))
            \/ answer \in Unchecked[op] /\ response \o Short(status) = answer
<1>1. TypeOK /\ Returned /\ handle # "null" /\ pc = "return"
  BY DEF IInv, InCall, Unasked, KeyReturned, Signed
<1>2. /\ AllSent /\ ~Refused
      /\ op = "key" => Len(response) # KeyLen
      /\ op = "sign" => ~Parses(response)
  BY DEF KeyReturned, Signed, Finish, AllSent
<1>3. CASE NothingCame /\ (handle # "live" \/ Unasked)
  BY <1>1, <1>2, <1>3 DEF TypeOK, Unasked
<1>4. CASE answer # <<>> /\ response \o Short(status) = answer /\ Fits(response, status)
  <2>1. response \o Short(status) \in AnswersTo[op]
    BY <1>2, <1>4 DEF Fits
  <2>2. response \in Bytes /\ status \in Errors \cup {CODE_SUCCESS} /\ op \in {"key", "sign"}
    BY <1>1 DEF TypeOK
  <2>3. answer \in Unchecked[op]
    BY <1>2, <1>4, <2>1, <2>2, Delivered
  <2> QED BY <1>1, <1>2, <1>4, <2>3
<1> QED BY <1>1, <1>3, <1>4 DEF Returned, Unasked

(* A conversation breaks the program only when it holds nothing, because the     *)
(* Ledger is lost or there was nothing to sign, or the Ledger's own answer that  *)
(* no caller checks, never a key, a signature or a refusal.                    *)
THEOREM BreaksOnlyOnUnchecked == Spec => BreaksOnlyUnchecked
<1>1. ASSUME IInv, [Next]_vars
      PROVE  [pc' = "crashed" =>
                /\ pc = "return" /\ AllSent
                /\ \/ NothingCame /\ (handle = "stale" \/ (op = "sign" /\ challenge = <<>>))
                   \/ answer \in Unchecked[op] /\ response \o Short(status) = answer]_vars
  <2> SUFFICES ASSUME Next, vars' # vars, pc' = "crashed"
               PROVE  KeyReturned \/ Signed
    BY <1>1, Breaks
  <2>1. pc # "crashed"
    <3> SUFFICES ASSUME pc = "crashed" PROVE FALSE
      OBVIOUS
    <3>1. card.asked = <<>> /\ card.out = <<>> /\ ~Arrived(card.inbox)
      BY <1>1 DEF IInv, Quiet, FreshCard, Arrived
    <3>2. ~Card /\ ~Decide
      BY <3>1 DEF Card, CardTakes, Acknowledge, CardAnswers, CardSends, Decide
    <3>3. ~Program /\ ~GetPubKey /\ ~\E c \in Challenges : Sign(c)
      BY DEF Program, WriteReport, Elapse, ReadFirst, ReadTimesOut, Unwrap, ReadMore, KeyReturned,
             NextChunk, Signed, GetPubKey, Sign
    <3>4. ~Unplug /\ ~Plug
      BY DEF Unplug, Plug, Alive
    <3> QED BY <3>2, <3>3, <3>4 DEF Next, Stopped
  <2> QED BY <2>1 DEF Next, Program, Card, GetPubKey, Sign, Exchange, WriteReport, Return, Elapse, ReadFirst,
             ReadTimesOut, Unwrap, ReadMore, NextChunk, CardTakes, Acknowledge, CardAnswers, CardSends,
             Decide, Unplug, Plug, Stopped
<1> QED BY <1>1, Inductive, PTL DEF Spec, BreaksOnlyUnchecked

-----------------------------------------------------------------------------
(* What an answer is to the caller.                                         *)
Permitted == IF AllSent THEN AnswersTo[op] ELSE {Short(CODE_SUCCESS)}

AInv ==
  /\ pc \in {"idle", "write", "crashed"} => answer = <<>>
  /\ answer # <<>> => answer \in Permitted

(* Steps after which the Ledger has not answered.                            *)
LEMMA Unanswered ==
  ASSUME answer' = <<>>
  PROVE  AInv'
BY DEF AInv

(* Steps that leave the answer.                                              *)
LEMMA SameAnswer ==
  ASSUME AInv, UNCHANGED <<call, answer>>, pc' \in {"idle", "write", "crashed"} => answer = <<>>
  PROVE  AInv'
<1>1. UNCHANGED <<op, challenge, offset, answer>>
  BY DEF call
<1> QED BY <1>1 DEF AInv, Permitted, AllSent

(* The Ledger answers once, when it has taken the request.                   *)
LEMMA AnswersOnce ==
  ASSUME IInv, NEW a, CardAnswers(a)
  PROVE  /\ pc = "first" /\ handle = "live" /\ Taken /\ answer = <<>> /\ answer' = a
         /\ UNCHANGED <<pc, call, caller, attached, handle, seen>>
<1>1. pc = "first" /\ handle = "live" /\ Taken /\ answer = <<>>
  BY LedgerAtWork DEF CardAnswers
<1> QED BY <1>1 DEF CardAnswers, wire

(* What its user decides is an answer to the question.                         *)
LEMMA Decisions ==
  ASSUME IInv, Decide
  PROVE  /\ AllSent /\ pc = "first" /\ handle = "live" /\ Taken /\ answer = <<>>
         /\ answer' \in AnswersTo[op] /\ answer' # <<>>
         /\ UNCHANGED <<pc, call, caller, attached, handle, seen>>
<1>1. TypeOK /\ op \in {"key", "sign"}
  BY DEF IInv, TypeOK
<1>2. AllSent
  BY <1>1 DEF Decide, AllSent
<1>3. PICK a \in AnswersTo[op] : CardAnswers(a) /\ IsAnswer(a)
  <2>1. PICK a \in AnswersTo[op] : CardAnswers(a)
    BY <1>1 DEF Decide, AnswersTo
  <2> QED BY <1>1, <2>1, Replies
<1>4. a # <<>>
  <2>1. Len(a) >= 2 /\ Len(<<>>) = 0
    BY <1>3 DEF IsAnswer
  <2> QED BY <2>1
<1> QED BY <1>2, <1>3, <1>4, AnswersOnce

(* What the callers do begins an Exchange or ends the conversation.           *)
LEMMA CallerActs ==
  ASSUME GetPubKey \/ (\E c \in Challenges : c # <<>> /\ Sign(c)) \/ KeyReturned \/ NextChunk \/ Signed
  PROVE  answer' = <<>> /\ pc' \in {"write", "idle", "crashed"}
BY DEF GetPubKey, Sign, KeyReturned, NextChunk, Signed, Exchange, Finish

(* With nothing to sign it has no answer, either.                            *)
LEMMA SignsNothing ==
  ASSUME Sign(<<>>)
  PROVE  /\ pc = "idle" /\ pc' = "return" /\ op' = "sign" /\ challenge' = <<>> /\ handle # "null"
         /\ UNCHANGED <<attached, handle, response, status, seen, answer>>
BY DEF Sign, Exchange, caller, wire

(* Each step keeps it.                                                      *)
LEMMA NextAInv == IInv /\ AInv /\ [Next]_vars => AInv'
<1> SUFFICES ASSUME IInv, AInv, [Next]_vars PROVE AInv'
  OBVIOUS
<1>1. CASE UNCHANGED vars
  BY <1>1, SameAnswer DEF vars, AInv, wire, caller
<1>2. CASE GetPubKey \/ (\E c \in Challenges : c # <<>> /\ Sign(c)) \/ KeyReturned \/ NextChunk \/ Signed
  BY <1>2, CallerActs, Unanswered
<1>11. CASE Sign(<<>>)
  BY <1>11, SignsNothing, Unanswered DEF AInv
<1>3. CASE WriteReport
  <2>1. UNCHANGED <<call, answer>> /\ answer = <<>>
    BY <1>3 DEF WriteReport, AInv
  <2> QED BY <2>1, SameAnswer
<1>4. CASE ReadTimesOut \/ Unwrap
  <2>1. UNCHANGED <<call, answer>> /\ pc' = "return"
    BY <1>4 DEF ReadTimesOut, Unwrap, Return
  <2> QED BY <2>1, SameAnswer
<1>6. CASE Elapse \/ ReadFirst \/ ReadMore
  <2>1. UNCHANGED <<call, answer>> /\ pc' \in {"first", "more", "undefined"}
    BY <1>6 DEF Elapse, ReadFirst, ReadMore
  <2> QED BY <2>1, SameAnswer
<1>7. CASE CardTakes \/ CardSends \/ Plug
  <2>1. UNCHANGED <<pc, call, caller, handle, answer>>
    BY <1>7 DEF CardTakes, CardSends, Plug, wire
  <2> QED BY <2>1, SameAnswer DEF AInv
<1>8. CASE Unplug
  <2>1. UNCHANGED <<pc, call, answer>>
    BY <1>8 DEF Unplug
  <2> QED BY <2>1, SameAnswer DEF AInv
<1>9. CASE Acknowledge
  <2>1. ~AllSent /\ CardAnswers(Short(CODE_SUCCESS))
    BY <1>9 DEF Acknowledge, AllSent
  <2>2. pc' = "first" /\ answer' = Short(CODE_SUCCESS) /\ UNCHANGED <<op, challenge, offset>>
    BY <2>1, AnswersOnce DEF call
  <2> QED BY <2>1, <2>2 DEF AInv, Permitted, AllSent
<1>10. CASE Decide
  <2>1. AllSent /\ answer' \in AnswersTo[op] /\ pc' = "first" /\ UNCHANGED <<op, challenge, offset>>
    BY <1>10, Decisions DEF call
  <2> QED BY <2>1 DEF AInv, Permitted, AllSent
<1> QED BY <1>1, <1>2, <1>3, <1>4, <1>6, <1>7, <1>8, <1>9, <1>10, <1>11 DEF Next, Program, Card, Stopped

-----------------------------------------------------------------------------
(* A signature on nothing.                                                  *)
NoQuestion == [op |-> "sign", data |-> Path]

(* Where a call is for its caller.                                           *)
LEMMA Where ==
  /\ pc = "idle" => CallShown = DC!Idle
  /\ pc = "crashed" => CallShown = DC!Broken
  /\ pc = "return" /\ AllSent => CallShown = DC!Back(Asked, response \o Short(status))
  /\ pc \in {"write", "first", "more"} \/ (pc = "return" /\ ~AllSent) => CallShown = DC!Busy(Asked)
BY DEF CallShown, Alive, DC!Idle, DC!Broken, DC!Back, DC!Busy

(* The same for the next state.                                             *)
LEMMA WhereNext ==
  /\ pc' = "idle" => CallShown' = DC!Idle
  /\ pc' = "crashed" => CallShown' = DC!Broken
  /\ (pc = "return" /\ AllSent)' => CallShown' = DC!Back(Asked', response' \o Short(status'))
  /\ pc' \in {"write", "first", "more"} \/ (pc = "return" /\ ~AllSent)' => CallShown' = DC!Busy(Asked')
BY DEF CallShown, Alive, DC!Idle, DC!Broken, DC!Back, DC!Busy

(* What is asked, within a conversation.                                     *)
LEMMA Questioned ==
  ASSUME IInv, InCall
  PROVE  Asked \in Askable /\ Asked.op = op /\ (AllSent => Asked.data = Whole)
<1>1. TypeOK
  BY DEF IInv
<1>2. CASE op = "key"
  BY <1>2 DEF Asked, Askable, Whole
<1>3. CASE op = "sign"
  <2>1. challenge # <<>>
    <3>1. offset # 0 /\ offset \in 0..Len(challenge) /\ Len(<<>>) = 0
      BY <1>1, <1>3 DEF TypeOK, InCall
    <3> QED BY <3>1
  <2>2. challenge \in Challenges \ {<<>>}
    BY <1>1, <2>1 DEF TypeOK
  <2>3. SubSeq(challenge, 1, Len(challenge)) = challenge
    BY <2>2, TransportAssumption, SubSeqFull DEF Bytes
  <2> QED BY <1>3, <2>2, <2>3 DEF Asked, Askable, Whole, AllSent
<1> QED BY <1>1, <1>2, <1>3 DEF TypeOK

(* A question that waits for its answer.                                     *)
Waits == pc \in {"write", "first", "more"} \/ (pc = "return" /\ ~AllSent)

(* Nothing is shown of a step between a question and its answer.              *)
LEMMA NotShown ==
  ASSUME Waits, Waits', UNCHANGED <<op, challenge, attached, handle>>, AnswerGiven' = AnswerGiven
  PROVE  UNCHANGED DC!vars
<1>1. Asked' = Asked
  BY DEF Asked
<1>2. CallShown = DC!Busy(Asked) /\ CallShown' = DC!Busy(Asked')
  BY Where, WhereNext DEF Waits
<1> QED BY <1>1, <1>2 DEF DC!vars

(* While it waits, there is no answer to more than a chunk of it.              *)
LEMMA NotGiven ==
  answer = <<>> \/ ~AllSent => AnswerGiven = {}
BY DEF AnswerGiven

(* The same for the next state.                                             *)
LEMMA NotGivenNext ==
  answer' = <<>> \/ ~AllSent' => AnswerGiven' = {}
BY DEF AnswerGiven

(* A caller is given nothing when it gets no data and no refusal.             *)
LEMMA NoData ==
  ASSUME IInv
  PROVE  response \o Short(status) = Short(CODE_SUCCESS) <=> NothingCame
<1>1. response \in Bytes /\ status \in Errors \cup {CODE_SUCCESS}
  BY DEF IInv, TypeOK
<1>2. DataOf(response \o Short(status)) = response /\ StatusOf(response \o Short(status)) = status
  BY <1>1, AnswerParts
<1>3. <<>> \in Bytes /\ <<>> \o Short(CODE_SUCCESS) = Short(CODE_SUCCESS)
  BY Bare
<1>4. DataOf(<<>> \o Short(CODE_SUCCESS)) = <<>> /\ StatusOf(<<>> \o Short(CODE_SUCCESS)) = CODE_SUCCESS
  BY <1>3, AnswerParts
<1> QED BY <1>2, <1>3, <1>4 DEF NothingCame

-----------------------------------------------------------------------------
(* A call begins.                                                           *)
LEMMA ShowsAsk ==
  ASSUME IInv, IInv', AInv, GetPubKey \/ \E c \in Challenges : Sign(c)
  PROVE  DC!Next
<1>1. /\ pc = "idle" /\ op = "key" /\ CallShown = DC!Idle
      /\ AnswerGiven = {} /\ AnswerGiven' = {} /\ UNCHANGED attached
  <2>1. pc = "idle" /\ UNCHANGED attached
    BY DEF GetPubKey, Sign, wire
  <2>2. answer = <<>> /\ answer' = <<>>
    BY <2>1, CallerActs, SignsNothing DEF AInv
  <2> QED BY <2>1, <2>2, Where, NotGiven, NotGivenNext DEF IInv
<1>2. CASE GetPubKey
  <2> DEFINE q == [op |-> "key", data |-> Path]
  <2>1. pc' = "write" /\ op' = "key" /\ attached /\ handle' = "live"
    BY <1>1, <1>2 DEF GetPubKey, Exchange, call
  <2>2. Asked' = q /\ q \in Askable /\ q.op = "key"
    BY <2>1 DEF Asked, Askable
  <2> HIDE DEF q
  <2>3. CallShown' = DC!Busy(q)
    BY <2>1, <2>2, WhereNext
  <2>4. DC!Ask(q)
    BY <1>1, <2>1, <2>2, <2>3 DEF DC!Ask
  <2> QED BY <2>2, <2>4 DEF DC!Next
<1>3. ASSUME NEW c \in Challenges, Sign(c), c = <<>>
      PROVE  DC!Next
  <2>1. /\ pc' = "return" /\ op' = "sign" /\ challenge' = <<>> /\ handle # "null" /\ UNCHANGED handle
        /\ response' = response /\ status' = status
    BY <1>3, SignsNothing
  <2>2. AllSent' /\ Asked' = NoQuestion
    <3>1. offset' = 0
      BY <1>3, <2>1 DEF IInv, TypeOK
    <3>2. Path \o <<>> = Path
      BY TransportAssumption, ConcatEmptySeq DEF Bytes
    <3> QED BY <2>1, <3>1, <3>2 DEF AllSent, Asked, NoQuestion
  <2>3. response \o Short(status) = Short(CODE_SUCCESS)
    BY <1>1, NoData DEF IInv
  <2>4. CallShown' = DC!Back(NoQuestion, Short(CODE_SUCCESS))
    BY <2>1, <2>2, <2>3, WhereNext
  <2>5. DC!AskNothing
    BY <1>1, <2>1, <2>4 DEF DC!AskNothing, NoQuestion
  <2> QED BY <2>5 DEF DC!Next
<1>4. ASSUME NEW c \in Challenges, Sign(c), c # <<>>
      PROVE  DC!Next
  <2> DEFINE q == [op |-> "sign", data |-> Path \o c]
  <2>1. pc' = "write" /\ op' = "sign" /\ challenge' = c /\ handle # "null" /\ UNCHANGED handle
    BY <1>4 DEF Sign, Exchange, wire
  <2>2. Asked' = q /\ q \in Askable /\ q.op # "key"
    BY <1>4, <2>1 DEF Asked, Askable
  <2> HIDE DEF q
  <2>3. CallShown' = DC!Busy(q)
    BY <2>1, <2>2, WhereNext
  <2>4. DC!Ask(q)
    BY <1>1, <2>1, <2>2, <2>3 DEF DC!Ask
  <2> QED BY <2>2, <2>4 DEF DC!Next
<1> QED BY <1>2, <1>3, <1>4

(* The last Exchange of a call returns.                                      *)
LEMMA ShowsReturn ==
  ASSUME IInv, AllSent, pc \in {"write", "first", "more"}, pc' = "return",
         UNCHANGED <<op, challenge, offset, attached, handle, seen, answer>>,
         \/ answer # <<>> /\ response' \o Short(status') = answer
         \/ response' \o Short(status') = Short(CODE_SUCCESS) /\ handle = "stale"
  PROVE  DC!Next
<1>1. Asked' = Asked /\ AllSent' /\ AnswerGiven' = AnswerGiven
  BY DEF Asked, AllSent, AnswerGiven
<1>2. CallShown = DC!Busy(Asked) /\ Asked \in Askable
  BY Where, Questioned DEF IInv
<1>3. CallShown' = DC!Back(Asked, response' \o Short(status'))
  BY <1>1, WhereNext
<1> DEFINE a == response' \o Short(status')
<1> HIDE DEF a
<1>4. \/ \E g \in AnswerGiven : g.answer = a
      \/ a = Short(CODE_SUCCESS) /\ handle = "stale"
  <2>1. CASE answer # <<>> /\ a = answer
    <3> DEFINE g == [on |-> seen, answer |-> answer]
    <3>1. g \in AnswerGiven /\ g.answer = a
      BY <2>1 DEF AnswerGiven
    <3> QED BY <3>1
  <2> QED BY <2>1 DEF a
<1>5. DC!Return(Asked)
  BY <1>1, <1>2, <1>3, <1>4 DEF DC!Return, a
<1> QED BY <1>2, <1>5 DEF DC!Next

(* The user of the Ledger decides.                                           *)
LEMMA ShowsGive ==
  ASSUME IInv, Decide
  PROVE  DC!Next
<1>1. /\ AllSent /\ pc = "first" /\ handle = "live" /\ Taken /\ answer = <<>>
      /\ answer' \in AnswersTo[op] /\ answer' # <<>>
      /\ UNCHANGED <<pc, op, challenge, offset, attached, handle, seen>>
  BY Decisions DEF call
<1>2. Asked' = Asked /\ AllSent'
  BY <1>1 DEF Asked, AllSent
<1>3. Asked \in Askable /\ Asked.op = op /\ Asked.data = Whole
  BY <1>1, Questioned DEF IInv
<1>4. CallShown = DC!Busy(Asked) /\ CallShown' = CallShown
  <2>1. CallShown = DC!Busy(Asked)
    BY <1>1, Where
  <2>2. CallShown' = DC!Busy(Asked')
    BY <1>1, WhereNext
  <2> QED BY <1>2, <2>1, <2>2
<1>5. AnswerGiven = {} /\ AnswerGiven' = {[on |-> Asked.data, answer |-> answer']}
  <2>1. AnswerGiven = {}
    BY <1>1, NotGiven
  <2>2. AnswerGiven' = {[on |-> seen', answer |-> answer']}
    BY <1>1, <1>2 DEF AnswerGiven
  <2>3. seen' = Asked.data
    BY <1>1, <1>3 DEF Taken
  <2> QED BY <2>1, <2>2, <2>3
<1>6. DC!Give(Asked)
  BY <1>1, <1>3, <1>4, <1>5 DEF DC!Give
<1> QED BY <1>3, <1>6 DEF DC!Next

(* The caller has what it gets.                                              *)
LEMMA ShowsFinish ==
  ASSUME IInv, AInv, KeyReturned \/ Signed
  PROVE  DC!Next
<1> DEFINE a == response \o Short(status)
<1>1. pc = "return" /\ Returned /\ UNCHANGED <<attached, handle>> /\ answer' = <<>>
  BY CallerActs DEF IInv, KeyReturned, Signed, wire
<1>2. a = Short(CODE_SUCCESS) <=> NothingCame
  BY NoData DEF a
<1> HIDE DEF a
<1>3. AllSent
  <2> SUFFICES ASSUME ~AllSent PROVE FALSE
    OBVIOUS
  <2>1. op = "sign" /\ offset # Len(challenge) /\ Refused
    BY DEF KeyReturned, Signed, AllSent, IInv, TypeOK
  <2>2. challenge # <<>>
    <3>1. offset \in 0..Len(challenge) /\ Len(<<>>) = 0
      BY DEF IInv, TypeOK
    <3> QED BY <2>1, <3>1
  <2>3. a = Short(CODE_SUCCESS)
    BY <1>1, <1>2, <2>2 DEF AInv, Returned, Unasked, Permitted, a
  <2> QED BY <1>2, <2>1, <2>3 DEF NothingCame, Refused
<1>4. CallShown = DC!Back(Asked, a) /\ Asked \in Askable \cup {NoQuestion} /\ Asked.op = op
  <2>1. CallShown = DC!Back(Asked, a)
    BY <1>1, <1>3, Where DEF a
  <2>2. CASE InCall
    BY <2>1, <2>2, Questioned
  <2>3. CASE Unasked
    <3>1. Path \o <<>> = Path
      BY TransportAssumption, ConcatEmptySeq DEF Bytes
    <3> QED BY <2>1, <2>3, <3>1 DEF Unasked, Asked, NoQuestion
  <2> QED BY <1>1, <2>2, <2>3 DEF IInv
<1>5. a \in AnswersTo[op] \cup {Short(CODE_SUCCESS)}
  BY <1>1, <1>2, <1>3 DEF AInv, Returned, Unasked, Permitted, a
<1>6. AnswerGiven' = {}
  BY <1>1, NotGivenNext
<1>7. \/ pc' = "idle" /\ (a # Short(CODE_SUCCESS) \/ op = "key")
      \/ pc' = "crashed" /\ a \in Unchecked[op] \cup {Short(CODE_SUCCESS)}
  <2>1. pc' \in {"idle", "crashed"}
    BY DEF KeyReturned, Signed, Finish
  <2>2. CASE pc' = "crashed"
    <3>1. NothingCame \/ a \in Unchecked[op]
      BY <2>2, Breaks DEF a
    <3> QED BY <1>2, <2>2, <3>1
  <2>3. CASE pc' = "idle"
    <3>1. op = "key" \/ Refused \/ Parses(response)
      BY <2>3 DEF KeyReturned, Signed, Finish
    <3>2. Refused => ~NothingCame
      BY DEF Refused, NothingCame
    <3>3. Parses(response) => ~NothingCame
      <4>1. Len(<<>>) = 0
        OBVIOUS
      <4> QED BY <4>1 DEF Parses, NothingCame
    <3> QED BY <1>2, <2>3, <3>1, <3>2, <3>3
  <2> QED BY <2>1, <2>2, <2>3
<1>8. DC!Finish(Asked)
  BY <1>1, <1>4, <1>5, <1>6, <1>7, WhereNext DEF DC!Finish
<1> QED BY <1>4, <1>8 DEF DC!Next, NoQuestion

(* The cable.                                                               *)
LEMMA ShowsCable ==
  ASSUME IInv, Unplug \/ Plug
  PROVE  DC!Next
<1>1. UNCHANGED <<pc, op, challenge, offset, response, status, seen, answer>> /\ Alive
  BY DEF Unplug, Plug, call, caller
<1>2. CallShown' = CallShown /\ AnswerGiven' = AnswerGiven
  BY <1>1 DEF CallShown, AnswerGiven, Alive, Asked, AllSent
<1>3. CallShown # DC!Broken
  <2>1. DC!Idle # DC!Broken
    BY DEF DC!Idle, DC!Broken
  <2>2. \A q, a : DC!Busy(q) # DC!Broken /\ DC!Back(q, a) # DC!Broken
    BY DEF DC!Busy, DC!Back, DC!Broken
  <2>3. pc \in {"idle", "write", "first", "more", "return"}
    BY <1>1 DEF Alive, IInv, TypeOK
  <2> QED BY <2>1, <2>2, <2>3, Where
<1>4. CASE Unplug
  <2>1. DC!Unplug
    BY <1>2, <1>3, <1>4 DEF Unplug, DC!Unplug
  <2> QED BY <2>1 DEF DC!Next
<1>5. CASE Plug
  <2>1. DC!Plug
    BY <1>2, <1>3, <1>5 DEF Plug, DC!Plug
  <2> QED BY <2>1 DEF DC!Next
<1> QED BY <1>4, <1>5

(* An Exchange at work, up to its return.                                    *)
LEMMA ShowsExchange ==
  ASSUME IInv, IInv', AInv, WriteReport \/ Elapse \/ ReadFirst \/ ReadTimesOut \/ Unwrap \/ ReadMore
  PROVE  DC!Next \/ UNCHANGED DC!vars
<1>1. /\ pc \in {"write", "first", "more"} /\ pc' \in {"write", "first", "more", "return"}
      /\ UNCHANGED <<op, challenge, offset, attached, handle, seen, answer>>
  <2>1. pc' # "undefined"
    BY DEF IInv
  <2> QED BY <2>1 DEF WriteReport, Elapse, ReadFirst, ReadTimesOut, Unwrap, ReadMore, Return, call, wire
<1>2. AllSent' = AllSent /\ AnswerGiven' = AnswerGiven
  BY <1>1 DEF AllSent, AnswerGiven
<1>3. CASE pc' # "return" \/ ~AllSent
  BY <1>1, <1>2, <1>3, NotShown DEF Waits
<1>4. CASE pc' = "return" /\ AllSent
  <2>1. \/ answer # <<>> /\ response' \o Short(status') = answer
        \/ response' \o Short(status') = Short(CODE_SUCCESS) /\ handle = "stale"
    <3>1. CASE Unwrap
      <4>1. answer # <<>> /\ answer = DataOf(answer) \o Short(StatusOf(answer))
            /\ response' = DataOf(answer) /\ status' = StatusOf(answer)
        BY <3>1, AnswerIsWhole DEF Return
      <4> QED BY <4>1
    <3>2. CASE WriteReport \/ ReadTimesOut
      <4>1. handle = "stale" /\ response' = <<>> /\ status' = status /\ pc \in {"write", "first"}
        BY <1>4, <3>2 DEF WriteReport, ReadTimesOut, ReadFails, Return
      <4>2. status = CODE_SUCCESS /\ <<>> \o Short(CODE_SUCCESS) = Short(CODE_SUCCESS)
        BY <4>1, Bare DEF IInv, NothingCame
      <4> QED BY <4>1, <4>2
    <3>3. ~Elapse /\ ~ReadFirst /\ ~ReadMore
      BY <1>1, <1>4 DEF Elapse, ReadFirst, ReadMore
    <3> QED BY <3>1, <3>2, <3>3
  <2> QED BY <1>1, <1>4, <2>1, ShowsReturn
<1> QED BY <1>3, <1>4

(* One chunk more.                                                          *)
LEMMA ShowsNextChunk ==
  ASSUME NextChunk
  PROVE  UNCHANGED DC!vars
<1>1. pc = "return" /\ pc' = "write" /\ ~AllSent /\ answer' = <<>>
      /\ UNCHANGED <<op, challenge, attached, handle>>
  BY DEF NextChunk, Exchange, AllSent, wire
<1> QED BY <1>1, NotGiven, NotGivenNext, NotShown DEF Waits

(* The Ledger at work, without its user.                                     *)
LEMMA ShowsCard ==
  ASSUME IInv, Card
  PROVE  UNCHANGED DC!vars
<1>1. pc \in {"write", "first", "more"} /\ UNCHANGED <<pc, op, challenge, offset, attached, handle>>
  BY LedgerAtWork, AnswersOnce DEF Card, CardTakes, Acknowledge, CardSends, call, wire
<1>2. AllSent' = AllSent
  BY <1>1 DEF AllSent
<1>3. AnswerGiven' = AnswerGiven
  <2>1. CASE CardTakes
    <3>1. answer = <<>> /\ answer' = <<>>
      BY <2>1, LedgerAtWork DEF CardTakes
    <3> QED BY <3>1, NotGiven, NotGivenNext
  <2>2. CASE Acknowledge
    <3>1. ~AllSent /\ ~AllSent'
      BY <1>2, <2>2 DEF Acknowledge, AllSent
    <3> QED BY <3>1, NotGiven, NotGivenNext
  <2>3. CASE CardSends
    BY <1>2, <2>3 DEF CardSends, AnswerGiven
  <2> QED BY <2>1, <2>2, <2>3 DEF Card
<1> QED BY <1>1, <1>3, NotShown DEF Waits

(* A conversation is one question and one answer, for all sizes of both: every    *)
(* step of the thread, the Ledger, its user and the cable is one of a call, or   *)
(* does not show.                                                           *)
THEOREM CallsAreOne == Spec => OneCall
<1>1. Init => DC!Init
  <2> SUFFICES ASSUME Init PROVE DC!Init
    OBVIOUS
  <2>1. CallShown = DC!Idle /\ AnswerGiven = {}
    BY Where, NotGiven DEF Init
  <2> QED BY <2>1 DEF Init, DC!Init
<1>2. Init => AInv
  BY DEF Init, AInv
<1>3. IInv /\ AInv /\ [Next]_vars => AInv'
  BY NextAInv
<1>4. IInv /\ IInv' /\ AInv /\ [Next]_vars => [DC!Next]_DC!vars
  <2> SUFFICES ASSUME IInv, IInv', AInv, [Next]_vars PROVE DC!Next \/ UNCHANGED DC!vars
    OBVIOUS
  <2>1. CASE UNCHANGED vars
    BY <2>1 DEF vars, call, caller, wire, DC!vars, CallShown, AnswerGiven, Asked, AllSent, Alive
  <2>2. CASE GetPubKey \/ \E c \in Challenges : Sign(c)
    BY <2>2, ShowsAsk
  <2>3. CASE Program
    BY <2>3, ShowsExchange, ShowsNextChunk, ShowsFinish DEF Program
  <2>4. CASE Card \/ Decide
    BY <2>4, ShowsCard, ShowsGive
  <2>5. CASE Unplug \/ Plug
    BY <2>5, ShowsCable
  <2> QED BY <2>1, <2>2, <2>3, <2>4, <2>5 DEF Next, Stopped
<1> QED BY <1>1, <1>2, <1>3, <1>4, Inductive, PTL DEF Spec, OneCall, DC!Spec
=============================================================================
