---------------------------- MODULE RequestsProofs ----------------------------
(***************************************************************************)
(* What clients get of PresentPubKeys and SignMap, for every number of clients, *)
(* identities and nested handlers.  That PresentPubKeys writes where its client  *)
(* reads: as long as its client lives, no request closes the view of a handler  *)
(* in its box.  That a request is read as it was written, whatever lies behind   *)
(* it, and that the key and the signature a client reads are the Ledger's.       *)
(***************************************************************************)
EXTENDS Requests, ByteArrayProofs, FiniteSetTheorems

(* The bytes of the mappings do not matter here.                             *)
Mapped(m, B) == m \in [Clients -> [bytes: B, held: BOOLEAN, kept: BOOLEAN,
                                   view: {"none", "live", "closed"}]]

(* A handler whose client lives: its view is open, its client waits for it     *)
(* and for no other.                                                        *)
Alive(s, cl, m) ==
  /\ \A j \in DOMAIN s : ~s[j].orphan =>
       cl[s[j].client].st = "waiting" /\ m[s[j].client].view = "live"
  /\ \A j, k \in DOMAIN s : ~s[j].orphan /\ ~s[k].orphan /\ s[j].client = s[k].client => j = k

VInv ==
  /\ stack \in Seq(Frame)
  /\ DOMAIN clients = Clients
  /\ \E B : Mapped(maps, B)
  /\ Alive(stack, clients, maps)

(* A handler is suspended.                                                  *)
LEMMA Push ==
  ASSUME NEW s \in Seq(Frame), NEW f \in Frame
  PROVE  /\ Append(s, f) \in Seq(Frame)
         /\ \A j \in DOMAIN Append(s, f) :
              \/ j \in DOMAIN s /\ Append(s, f)[j] = s[j]
              \/ j = Len(s) + 1 /\ Append(s, f)[j] = f
<1>1. /\ Len(s) \in Nat /\ DOMAIN s = 1..Len(s)
      /\ Append(s, f) \in Seq(Frame) /\ Len(Append(s, f)) = Len(s) + 1
      /\ \A i \in 1..Len(s) : Append(s, f)[i] = s[i]
      /\ Append(s, f)[Len(s) + 1] = f
  BY AppendProperties, LenProperties
<1>2. DOMAIN Append(s, f) = 1..(Len(s) + 1)
  BY <1>1, LenProperties
<1> QED BY <1>1, <1>2

(* A handler returns.                                                       *)
LEMMA Pop ==
  ASSUME NEW s \in Seq(Frame), s # <<>>
  PROVE  /\ Front(s) \in Seq(Frame)
         /\ \A j \in DOMAIN Front(s) : j \in DOMAIN s /\ j # Len(s) /\ Front(s)[j] = s[j]
         /\ Len(s) \in DOMAIN s /\ Last(s) = s[Len(s)] /\ Last(s) \in Frame
<1>1. Len(s) \in Nat \ {0} /\ DOMAIN s = 1..Len(s)
  BY EmptySeq, LenProperties
<1>2. \A j \in 1..Len(s) : s[j] \in Frame
  BY ElementOfSeq
<1>3. /\ SubSeq(s, 1, Len(s) - 1) \in Seq(Frame)
      /\ Len(SubSeq(s, 1, Len(s) - 1)) = IF 1 <= Len(s) - 1 THEN Len(s) - 1 - 1 + 1 ELSE 0
      /\ \A i \in 1..(Len(s) - 1 - 1 + 1) : SubSeq(s, 1, Len(s) - 1)[i] = s[1 + i - 1]
  BY <1>1, <1>2, SubSeqProperties
<1> QED BY <1>1, <1>2, <1>3, LenProperties DEF Front, Last

(* push_back in mMemoryMaps moves the entries, not the clients.              *)
LEMMA MapLookup ==
  ASSUME VInv, NEW c, NEW s \in GetOrCreateMap(c)
  PROVE  /\ s \in Seq(Frame) /\ DOMAIN s = DOMAIN stack
         /\ \A j \in DOMAIN s : s[j].orphan = stack[j].orphan /\ s[j].client = stack[j].client
<1>1. stack \in Seq(Frame) /\ Len(stack) \in Nat /\ DOMAIN stack = 1..Len(stack)
      /\ \A j \in DOMAIN stack : stack[j] \in Frame
  BY LenProperties, ElementOfSeq DEF VInv
<1>2. \A f \in Frame : /\ [f EXCEPT !.moved = TRUE] \in Frame
                       /\ [f EXCEPT !.moved = TRUE].orphan = f.orphan
                       /\ [f EXCEPT !.moved = TRUE].client = f.client
  BY DEF Frame
<1>3. Moved \in [1..Len(stack) -> Frame] /\ DOMAIN Moved = DOMAIN stack
      /\ \A j \in DOMAIN stack : Moved[j].orphan = stack[j].orphan /\ Moved[j].client = stack[j].client
  BY <1>1, <1>2 DEF Moved
<1>4. Moved \in Seq(Frame)
  BY <1>1, <1>3, SeqDef
<1> QED BY <1>1, <1>3, <1>4 DEF GetOrCreateMap

(* What happens to the view of a mapping.                                    *)
LEMMA OpenedViews ==
  ASSUME NEW B, Mapped(maps, B), NEW c \in Clients, NEW b
  PROVE  /\ \E D : Mapped(Opened(c, b), D)
         /\ Opened(c, b)[c].view = "live"
         /\ \A d \in Clients \ {c} : Opened(c, b)[d].view = maps[d].view
<1>1. Mapped(Opened(c, b), B \cup {b})
  BY DEF Mapped, Opened
<1>2. \E D : Mapped(Opened(c, b), D)
  BY <1>1
<1> QED BY <1>2 DEF Mapped, Opened

(* A request for a signature closes its view again.                          *)
LEMMA ClosedViews ==
  ASSUME NEW B, Mapped(maps, B), NEW c \in Clients, NEW b
  PROVE  /\ \E D : Mapped(OpenedAndClosed(c, b), D)
         /\ \A d \in Clients \ {c} : OpenedAndClosed(c, b)[d].view = maps[d].view
<1>1. Mapped(OpenedAndClosed(c, b), B \cup {b})
  BY DEF Mapped, OpenedAndClosed
<1>2. \E D : Mapped(OpenedAndClosed(c, b), D)
  BY <1>1
<1> QED BY <1>2 DEF Mapped, OpenedAndClosed

(* What a client does with its file is nothing to the views.                 *)
LEMMA FileViews ==
  ASSUME NEW B, Mapped(maps, B), NEW c \in Clients
  PROVE  /\ \E D : Mapped(CloseMapping(c), D)
         /\ \A d \in Clients : CloseMapping(c)[d].view = maps[d].view
<1>1. Mapped(CloseMapping(c), B \cup {Zeros})
  BY DEF Mapped, CloseMapping, Released
<1>2. \E D : Mapped(CloseMapping(c), D)
  BY <1>1
<1>3. \A d \in Clients : CloseMapping(c)[d].view = maps[d].view
  BY DEF Mapped, CloseMapping, Released
<1> QED BY <1>2, <1>3

(* Nor are the bytes that are written.                                      *)
LEMMA WrittenViews ==
  ASSUME NEW B, Mapped(maps, B), NEW c \in Clients, NEW b,
         \/ maps' = [maps EXCEPT ![c].bytes = b]
         \/ maps' = [maps EXCEPT ![c].held = TRUE, ![c].bytes = b]
  PROVE  (\E D : Mapped(maps', D)) /\ \A d \in Clients : maps'[d].view = maps[d].view
<1> DEFINE Entries == [bytes: B \cup {b}, held: BOOLEAN, kept: BOOLEAN, view: {"none", "live", "closed"}]
<1>1. /\ DOMAIN maps = Clients
      /\ \A d \in Clients : maps[d] \in Entries
  BY DEF Mapped
<1>2. \A r \in Entries :
        /\ [r EXCEPT !.bytes = b] \in Entries /\ [r EXCEPT !.bytes = b].view = r.view
        /\ [r EXCEPT !.held = TRUE, !.bytes = b] \in Entries
        /\ [r EXCEPT !.held = TRUE, !.bytes = b].view = r.view
  OBVIOUS
<1>3. \E f \in {[maps[c] EXCEPT !.bytes = b], [maps[c] EXCEPT !.held = TRUE, !.bytes = b]} :
        maps' = [maps EXCEPT ![c] = f]
  <2>1. CASE maps' = [maps EXCEPT ![c].bytes = b]
    BY <2>1
  <2>2. CASE maps' = [maps EXCEPT ![c].held = TRUE, ![c].bytes = b]
    BY <1>1, <2>2
  <2> QED BY <2>1, <2>2
<1> HIDE DEF Entries
<1>4. PICK f : maps' = [maps EXCEPT ![c] = f] /\ f \in Entries /\ f.view = maps[c].view
  BY <1>1, <1>2, <1>3
<1>5. maps' \in [Clients -> Entries] /\ \A d \in Clients : maps'[d].view = maps[d].view
  BY <1>1, <1>4
<1>6. Mapped(maps', B \cup {b})
  BY <1>5 DEF Mapped, Entries
<1> QED BY <1>5, <1>6

(* The process ends over the calls in cl: no handler is left.                *)
LEMMA EndsViews ==
  ASSUME NEW B, Mapped(maps, B), NEW s, NEW cl, Ends(s, cl)
  PROVE  VInv'
<1>1. stack' \in Seq(Frame) /\ DOMAIN stack' = {}
  <2>1. <<>> \in Seq(Frame) /\ DOMAIN (<<>>) = {}
    BY EmptySeq
  <2>2. stack' = <<>>
    BY DEF Ends
  <2> QED BY <2>1, <2>2
<1>2. \A c \in Clients :
        LET m == [maps[c] EXCEPT !.kept = FALSE, !.view = "none"]
        IN  Released(m) \in [bytes: B \cup {Zeros}, held: BOOLEAN, kept: BOOLEAN,
                             view: {"none", "live", "closed"}]
  BY DEF Mapped, Released
<1>3. Mapped(maps', B \cup {Zeros})
  BY <1>2 DEF Ends, Mapped
<1>4. DOMAIN clients' = Clients
  BY DEF Ends
<1> QED BY <1>1, <1>3, <1>4 DEF VInv, Alive

(* The Ledger is lost: the process ends, or hangs over the calls in cl.       *)
LEMMA LostViews ==
  ASSUME VInv, NEW cl, DOMAIN cl = Clients, Alive(stack, cl, maps), Lost(cl)
  PROVE  VInv'
<1>1. PICK B : Mapped(maps, B)
  BY DEF VInv
<1>2. CASE Ends("crashed", cl)
  BY <1>1, <1>2, EndsViews
<1>3. CASE clients' = cl /\ UNCHANGED <<maps, stack>>
  BY <1>3 DEF VInv
<1> QED BY <1>2, <1>3 DEF Lost

(* At the start no mapping is open.                                          *)
LEMMA ViewsInit == Init => VInv
<1> SUFFICES ASSUME Init PROVE VInv
  OBVIOUS
<1>1. stack \in Seq(Frame) /\ DOMAIN stack = {}
  BY EmptySeq DEF Init
<1>2. Mapped(maps, {Zeros})
  BY DEF Init, Mapped, NoMapping
<1>3. DOMAIN clients = Clients
  BY DEF Init
<1> QED BY <1>1, <1>2, <1>3 DEF VInv, Alive

(* Every step of the clients, the process, its user and the cable.            *)
LEMMA ViewsStep == VInv /\ [Next]_vars => VInv'
<1> SUFFICES ASSUME VInv, [Next]_vars PROVE VInv'
  OBVIOUS
<1>a. /\ stack \in Seq(Frame) /\ DOMAIN clients = Clients /\ Alive(stack, clients, maps)
      /\ \A j \in DOMAIN stack : stack[j] \in Frame /\ stack[j].client \in Clients
  <2>1. \A j \in DOMAIN stack : stack[j] \in Frame
    BY LenProperties, ElementOfSeq DEF VInv
  <2> QED BY <2>1 DEF VInv, Frame
<1>b. PICK B : Mapped(maps, B)
  BY DEF VInv
(* Of a client that does not wait, no handler is left in a box.              *)
<1>c. ASSUME NEW c, clients[c].st # "waiting"
      PROVE  \A j \in DOMAIN stack : ~stack[j].orphan => stack[j].client # c
  BY <1>a, <1>c DEF Alive
<1>d. ASSUME NEW c \in Clients, clients[c].st # "waiting", NEW x
      PROVE  Alive(stack, [clients EXCEPT ![c] = x], maps) /\ DOMAIN [clients EXCEPT ![c] = x] = Clients
  <2>1. \A d \in Clients : d # c => [clients EXCEPT ![c] = x][d] = clients[d]
    BY <1>a
  <2>2. Alive(stack, [clients EXCEPT ![c] = x], maps)
    BY <1>a, <1>c, <1>d, <2>1 DEF Alive
  <2> QED BY <1>a, <2>2
<1>1. ASSUME NEW c \in Clients, clients[c].st # "waiting", NEW x,
             clients' = [clients EXCEPT ![c] = x],
             \E D : Mapped(maps', D),
             \A d \in Clients \ {c} : maps'[d].view = maps[d].view,
             stack' \in Seq(Frame), DOMAIN stack' = DOMAIN stack,
             \A j \in DOMAIN stack : /\ stack'[j].orphan = stack[j].orphan
                                     /\ stack'[j].client = stack[j].client
      PROVE  VInv'
  <2>1. \A d \in Clients : d # c => clients'[d] = clients[d]
    BY <1>a, <1>1
  <2>2. Alive(stack', clients', maps')
    BY <1>a, <1>c, <1>1, <2>1 DEF Alive
  <2> QED BY <1>a, <1>1, <2>2 DEF VInv
<1>2. ASSUME NEW c \in Clients, NEW q \in Requests, Ask(c, q)
      PROVE  VInv'
  <2> DEFINE b == Overwrite(maps[c].bytes, RequestBytes(q))
             x == [st |-> "asked", req |-> q]
  <2>1. clients[c].st # "waiting" /\ stack' = stack /\ clients' = [clients EXCEPT ![c] = x]
    BY <1>2 DEF Ask
  <2>2. maps' = [maps EXCEPT ![c].held = TRUE, ![c].bytes = b]
    BY <1>b, <1>2 DEF Ask, Mapped
  <2> HIDE DEF b, x
  <2>3. (\E D : Mapped(maps', D)) /\ \A d \in Clients : maps'[d].view = maps[d].view
    BY <1>b, <2>2, WrittenViews
  <2> QED BY <1>a, <1>1, <2>1, <2>3
<1>3. ASSUME NEW c \in Clients, Leave(c)
      PROVE  VInv'
  <2> DEFINE x == [st |-> "idle"]
  <2>1. clients[c].st # "waiting" /\ stack' = stack /\ clients' = [clients EXCEPT ![c] = x]
        /\ maps' = CloseMapping(c)
    BY <1>3 DEF Leave
  <2> HIDE DEF x
  <2>2. (\E D : Mapped(maps', D)) /\ \A d \in Clients : maps'[d].view = maps[d].view
    BY <1>b, <2>1, FileViews
  <2> QED BY <1>a, <1>1, <2>1, <2>2
<1>4. ASSUME NEW c \in Clients, Die(c)
      PROVE  VInv'
  <2>1. \A f \in Frame : /\ [f EXCEPT !.orphan = TRUE] \in Frame
                         /\ [f EXCEPT !.orphan = TRUE].orphan
                         /\ [f EXCEPT !.orphan = TRUE].client = f.client
    BY DEF Frame
  <2>2. /\ stack' \in [DOMAIN stack -> Frame]
        /\ \A j \in DOMAIN stack : ~stack'[j].orphan =>
             stack[j].client # c /\ stack'[j] = stack[j]
    BY <1>a, <1>4, <2>1 DEF Die
  <2>3. stack' \in Seq(Frame)
    BY <1>a, <2>2, LenProperties, SeqDef
  <2>4. /\ \A d \in Clients : d # c => clients'[d] = clients[d]
        /\ DOMAIN clients' = Clients
    BY <1>a, <1>4 DEF Die
  <2>5. /\ \E D : Mapped(maps', D)
        /\ \A d \in Clients : maps'[d].view = maps[d].view
    <3>1. maps' = CloseMapping(c)
      BY <1>4 DEF Die
    <3> QED BY <1>b, <3>1, FileViews
  <2>6. Alive(stack', clients', maps')
    BY <1>a, <2>2, <2>4, <2>5 DEF Alive
  <2> QED BY <2>3, <2>4, <2>5, <2>6 DEF VInv
<1>5. ASSUME NEW c \in Clients, CopyDataList(c)
      PROVE  VInv'
  <2>1. PICK s \in GetOrCreateMap(c) :
          \/ /\ \E box \in {"NoKeys", "Present"} : Suspend(s, box, c)
             /\ maps' = Opened(c, maps[c].bytes) /\ clients' = Waits(c)
          \/ /\ stack' = s
             /\ maps' = Opened(c, Write(maps[c].bytes, Answer(Loaded)))
             /\ clients' = Returned(c, TRUE, NotSigned)
    BY <1>5 DEF CopyDataList
  <2>2. clients[c].st # "waiting"
    BY <1>5 DEF CopyDataList, Calling
  <2>3. /\ s \in Seq(Frame) /\ DOMAIN s = DOMAIN stack
        /\ \A j \in DOMAIN s : s[j].orphan = stack[j].orphan /\ s[j].client = stack[j].client
    BY MapLookup
  <2>4. CASE /\ stack' = s
             /\ maps' = Opened(c, Write(maps[c].bytes, Answer(Loaded)))
             /\ clients' = Returned(c, TRUE, NotSigned)
    <3> DEFINE b == Write(maps[c].bytes, Answer(Loaded))
               x == [st |-> "done", req |-> clients[c].req, ret |-> TRUE, signed |-> NotSigned]
    <3>1. maps' = Opened(c, b) /\ clients' = [clients EXCEPT ![c] = x]
      BY <2>4 DEF Returned
    <3> HIDE DEF b, x
    <3>2. (\E D : Mapped(maps', D)) /\ \A d \in Clients \ {c} : maps'[d].view = maps[d].view
      BY <1>b, <3>1, OpenedViews
    <3> QED BY <1>1, <2>2, <2>3, <2>4, <3>1, <3>2
  <2>5. CASE /\ \E box \in {"NoKeys", "Present"} : Suspend(s, box, c)
             /\ maps' = Opened(c, maps[c].bytes) /\ clients' = Waits(c)
    <3>1. PICK box \in {"NoKeys", "Present"} : Suspend(s, box, c)
      BY <2>5
    <3> DEFINE f == [box |-> box, client |-> c, counted |-> Loaded, orphan |-> FALSE, moved |-> FALSE]
    <3>2. f \in Frame /\ f.client = c
      BY DEF Frame, Loaded
    <3>3. stack' = Append(s, f)
      BY <3>1 DEF Suspend
    <3> HIDE DEF f
    <3>4. /\ stack' \in Seq(Frame)
          /\ \A j \in DOMAIN stack' : \/ j \in DOMAIN s /\ stack'[j] = s[j]
                                      \/ j = Len(s) + 1 /\ stack'[j] = f
      BY <2>3, <3>2, <3>3, Push
    <3>5. /\ clients'[c].st = "waiting" /\ DOMAIN clients' = Clients
          /\ \A d \in Clients : d # c => clients'[d] = clients[d]
      BY <1>a, <2>5 DEF Waits
    <3>6. /\ \E D : Mapped(maps', D)
          /\ maps'[c].view = "live" /\ \A d \in Clients \ {c} : maps'[d].view = maps[d].view
      <4> DEFINE b == maps[c].bytes
      <4>1. maps' = Opened(c, b)
        BY <2>5
      <4> HIDE DEF b
      <4> QED BY <1>b, <4>1, OpenedViews
    <3>7. \A j \in DOMAIN s : ~s[j].orphan =>
            /\ s[j].client \in Clients /\ s[j].client # c
            /\ clients[s[j].client].st = "waiting" /\ maps[s[j].client].view = "live"
      BY <1>a, <1>c, <2>2, <2>3 DEF Alive
    <3>8. \A j, k \in DOMAIN s : ~s[j].orphan /\ ~s[k].orphan /\ s[j].client = s[k].client => j = k
      BY <1>a, <2>3 DEF Alive
    <3>9. Alive(stack', clients', maps')
      <4>1. ASSUME NEW j \in DOMAIN stack', ~stack'[j].orphan
            PROVE  clients'[stack'[j].client].st = "waiting" /\ maps'[stack'[j].client].view = "live"
        BY <3>2, <3>4, <3>5, <3>6, <3>7, <4>1
      <4>2. ASSUME NEW j \in DOMAIN stack', NEW k \in DOMAIN stack', ~stack'[j].orphan,
                   ~stack'[k].orphan, stack'[j].client = stack'[k].client
            PROVE  j = k
        BY <3>2, <3>4, <3>7, <3>8, <4>2
      <4> QED BY <4>1, <4>2 DEF Alive
    <3> QED BY <3>4, <3>5, <3>6, <3>9 DEF VInv
  <2> QED BY <2>1, <2>4, <2>5
<1>6. ASSUME NEW c \in Clients, CopyDataOther(c)
      PROVE  VInv'
  <2>1. clients[c].st # "waiting"
    BY <1>6 DEF CopyDataOther, Calling
  <2> DEFINE b == maps[c].bytes
             x == [st |-> "done", req |-> clients[c].req, ret |-> FALSE, signed |-> NotSigned]
  <2>2. maps' = Opened(c, b) /\ clients' = [clients EXCEPT ![c] = x] /\ stack' \in GetOrCreateMap(c)
    BY <1>6 DEF CopyDataOther, Returned
  <2> HIDE DEF b, x
  <2>3. (\E D : Mapped(maps', D)) /\ \A d \in Clients \ {c} : maps'[d].view = maps[d].view
    BY <1>b, <2>2, OpenedViews
  <2>4. /\ stack' \in Seq(Frame) /\ DOMAIN stack' = DOMAIN stack
        /\ \A j \in DOMAIN stack' : stack'[j].orphan = stack[j].orphan /\ stack'[j].client = stack[j].client
    BY <2>2, MapLookup
  <2> QED BY <1>1, <2>1, <2>2, <2>3, <2>4
<1>7. ASSUME NEW c \in Clients, CopyDataSign(c)
      PROVE  VInv'
  <2>1. clients[c].st # "waiting"
    BY <1>7 DEF CopyDataSign, Calling
  <2>2. Alive(stack, Waits(c), maps) /\ DOMAIN Waits(c) = Clients
    BY <1>d, <2>1 DEF Waits
  <2>3. CASE Lost(Waits(c)) \/ Ends("crashed", Waits(c))
    BY <1>b, <2>2, <2>3, LostViews, EndsViews
  <2>4. CASE /\ \E b : maps' = Opened(c, b) \/ maps' = OpenedAndClosed(c, b)
             /\ \E r, g : clients' = Returned(c, r, g)
             /\ stack' \in GetOrCreateMap(c)
    <3>1. PICK b : maps' = Opened(c, b) \/ maps' = OpenedAndClosed(c, b)
      BY <2>4
    <3>2. /\ \E D : Mapped(maps', D)
          /\ \A d \in Clients \ {c} : maps'[d].view = maps[d].view
      BY <1>b, <3>1, OpenedViews, ClosedViews
    <3>3. PICK x : clients' = [clients EXCEPT ![c] = x]
      BY <2>4 DEF Returned
    <3>4. /\ stack' \in Seq(Frame) /\ DOMAIN stack' = DOMAIN stack
          /\ \A j \in DOMAIN stack' : stack'[j].orphan = stack[j].orphan /\ stack'[j].client = stack[j].client
      BY <2>4, MapLookup
    <3> QED BY <1>1, <2>1, <3>2, <3>3, <3>4
  <2> QED BY <1>7, <2>3, <2>4 DEF CopyDataSign
(* The innermost handler returns: its client waits no more, if it lives.      *)
<1>8. ASSUME Return, stack # <<>>, \E D : Mapped(maps', D),
             \A d \in Clients : maps'[d].view = maps[d].view
      PROVE  VInv'
  <2>1. /\ stack' \in Seq(Frame)
        /\ \A j \in DOMAIN stack' : j \in DOMAIN stack /\ j # Len(stack) /\ stack'[j] = stack[j]
        /\ Len(stack) \in DOMAIN stack /\ Inner = stack[Len(stack)]
    BY <1>a, <1>8, Pop DEF Return, Inner
  <2>2. CASE Inner.orphan
    <3>1. Alive(stack', clients, maps')
      BY <1>a, <1>8, <2>1 DEF Alive
    <3> QED BY <1>a, <1>8, <2>1, <2>2, <3>1 DEF Return, VInv
  <2>3. CASE ~Inner.orphan
    <3>1. \A j \in DOMAIN stack' : ~stack'[j].orphan => stack'[j].client # Inner.client
      BY <1>a, <2>1, <2>3 DEF Alive
    <3>2. DOMAIN clients' = Clients /\ \A d \in Clients : d # Inner.client => clients'[d] = clients[d]
      BY <1>a, <1>8, <2>3 DEF Return, Returned
    <3>3. Alive(stack', clients', maps')
      BY <1>a, <1>8, <2>1, <3>1, <3>2 DEF Alive
    <3> QED BY <1>8, <2>1, <3>2, <3>3 DEF VInv
  <2> QED BY <2>2, <2>3
<1>9. CASE GiveUp
  BY <1>b, <1>8, <1>9 DEF GiveUp
<1>10. CASE Present
  <2>1. CASE Ends("undefined", clients)
    BY <1>b, <2>1, EndsViews
  <2>2. CASE /\ Return
             /\ maps' = [maps EXCEPT ![Inner.client].bytes = Write(@, Answer(Inner.counted))]
    <3>1. Inner.client \in Clients
      BY <1>a, <1>10, Pop DEF Present, Inner
    <3> DEFINE b == Write(maps[Inner.client].bytes, Answer(Inner.counted))
    <3>2. maps' = [maps EXCEPT ![Inner.client].bytes = b]
      BY <1>b, <2>2, <3>1 DEF Mapped
    <3> HIDE DEF b
    <3>3. (\E D : Mapped(maps', D)) /\ \A d \in Clients : maps'[d].view = maps[d].view
      BY <1>b, <3>1, <3>2, WrittenViews
    <3> QED BY <1>8, <1>10, <2>2, <3>3 DEF Present
  <2> QED BY <1>10, <2>1, <2>2 DEF Present
<1>11. ASSUME NEW i \in Slots, FetchKey(i)
       PROVE  VInv'
  <2>1. CASE Lost(clients)
    BY <1>a, <2>1, LostViews
  <2>2. CASE UNCHANGED <<maps, stack, clients>>
    BY <2>2 DEF VInv
  <2> QED BY <1>11, <2>1, <2>2 DEF FetchKey
<1>12. CASE UNCHANGED <<maps, stack, clients>>
  BY <1>12 DEF VInv
<1>13. CASE Exit
  BY <1>b, <1>13, EndsViews DEF Exit
<1> QED
  BY <1>2, <1>3, <1>4, <1>5, <1>6, <1>7, <1>9, <1>10, <1>11, <1>12, <1>13
  DEF Next, Save, ClearKey, Plug, Unplug, Stopped, vars, dev

(* Handlers, clients and views match in every state.                        *)
THEOREM ViewsAlways == Spec => []VInv
BY ViewsInit, ViewsStep, PTL DEF Spec

(* Only the write of a handler whose box was answered can go astray.          *)
LEMMA StrayWrite ==
  ASSUME VInv, [Next]_vars, Running, status' = "undefined"
  PROVE  Inner.orphan \/ Inner.moved
<1>1. stack # <<>> /\ (Inner.moved \/ maps[Inner.client].view # "live")
  BY DEF Next, vars, Ask, Leave, Die, CopyDataList, CopyDataSign, CopyDataOther, Present, GiveUp,
     FetchKey, Save, ClearKey, Plug, Unplug, Exit, Stopped, Lost, Ends, Running
<1>2. Len(stack) \in DOMAIN stack /\ Inner = stack[Len(stack)]
  BY <1>1, Pop DEF VInv, Inner
<1> QED BY <1>1, <1>2 DEF VInv, Alive

(* The program only writes through a reference or a view that is gone if the    *)
(* client of a suspended handler has died, or if a client called for the first  *)
(* time meanwhile (GetOrCreateMap, MemoryMap::Close).                        *)
THEOREM WritesWhereRead == Spec => MappedWhileServed
BY ViewsAlways, StrayWrite, PTL DEF Spec, MappedWhileServed

-----------------------------------------------------------------------------
(* Coordinates have a length and bytes, and few enough of them.              *)
LEMMA Widths ==
  /\ W \in Nat /\ W >= 1 /\ 2 * W + 6 <= 255
  /\ \A x \in Coordinate : /\ x \in Bytes /\ Len(x) = W
                           /\ \A k \in 1..W : x[k] \in 0..255
<1>1. W \in Nat /\ W >= 1 /\ 2 * W + 6 <= 255
  BY WireAssumption
<1>2. ASSUME NEW x \in Coordinate
      PROVE  x \in Bytes /\ Len(x) = W /\ \A k \in 1..W : x[k] \in 0..255
  <2>1. x \in [1..W -> 0..255]
    BY DEF Coordinate
  <2>2. x \in Bytes
    BY <1>1, <2>1, SeqDef DEF Bytes
  <2>3. Len(x) = W
    BY <1>1, <2>1, <2>2, LenProperties DEF Bytes
  <2> QED BY <2>1, <2>2, <2>3
<1> QED BY <1>1, <1>2

(* A single byte.                                                           *)
LEMMA OneByte ==
  ASSUME NEW b \in 0..255
  PROVE  <<b>> \in Bytes /\ Len(<<b>>) = 1 /\ <<b>>[1] = b
BY DEF Bytes

(* A byte in front of others.                                               *)
LEMMA ByteBefore ==
  ASSUME NEW b \in 0..255, NEW d \in Bytes
  PROVE  /\ <<b>> \o d \in Bytes /\ Len(<<b>> \o d) = 1 + Len(d) /\ Len(d) \in Nat
         /\ (<<b>> \o d)[1] = b
         /\ \A k \in 1..Len(d) : (<<b>> \o d)[1 + k] = d[k]
<1> DEFINE h == <<b>>
<1>1. h \in Bytes /\ Len(h) = 1 /\ h[1] = b
  BY OneByte
<1> HIDE DEF h
<1>2. /\ Len(d) \in Nat /\ h \o d \in Bytes /\ Len(h \o d) = Len(h) + Len(d)
      /\ \A k \in 1..Len(h) : (h \o d)[k] = h[k]
      /\ \A k \in 1..Len(d) : (h \o d)[Len(h) + k] = d[k]
  BY <1>1, ConcatBytes
<1>3. 1 \in 1..Len(h)
  BY <1>1
<1> QED BY <1>1, <1>2, <1>3 DEF h

(* What is left behind the first byte.                                      *)
LEMMA ByteDropped ==
  ASSUME NEW d \in Bytes, d # <<>>
  PROVE  /\ Tail(d) \in Bytes /\ Len(Tail(d)) = Len(d) - 1 /\ Len(d) \in Nat /\ Len(d) # 0
         /\ \A k \in 1..(Len(d) - 1) : Tail(d)[k] = d[k + 1]
<1>1. Len(d) \in Nat /\ Len(d) # 0
  BY EmptySeq, LenProperties DEF Bytes
<1>2. Tail(d) \in Seq(0..255) /\ Len(Tail(d)) = Len(d) - 1 /\ \A k \in 1..Len(Tail(d)) : Tail(d)[k] = d[k + 1]
  BY HeadTailProperties DEF Bytes
<1> QED BY <1>1, <1>2 DEF Bytes

(* Leading zeros are dropped, and nothing of what begins with another byte.   *)
LEMMA SignificantBytes ==
  ASSUME NEW d \in Bytes
  PROVE  /\ Significant(d) \in Bytes /\ Len(Significant(d)) \in Nat /\ Len(Significant(d)) <= Len(d)
         /\ Significant(d) # <<>> => Significant(d)[1] # 0
         /\ d # <<>> /\ d[1] # 0 => Significant(d) = d
         /\ d = <<>> => Significant(d) = <<>>
<1> DEFINE n == Len(d)
           N == {i \in DOMAIN d : d[i] # 0}
<1>1. n \in Nat /\ DOMAIN d = 1..n
  BY LenProperties DEF Bytes
<1>2. CASE N = {}
  <2>1. Significant(d) = <<>>
    BY <1>2 DEF Significant
  <2>2. ~(d # <<>> /\ d[1] # 0)
    <3>1. d # <<>> => 1 \in DOMAIN d
      BY <1>1, EmptySeq DEF Bytes
    <3> QED BY <1>2, <3>1
  <2>3. <<>> \in Bytes /\ Len(<<>>) = 0
    BY EmptySeq DEF Bytes
  <2> QED BY <1>1, <2>1, <2>2, <2>3
<1>3. CASE N # {}
  <2>1. N \subseteq Nat
    BY <1>1
  <2>2. \E x \in N : \A y \in N : x <= y
    <3> HIDE DEF N
    <3> QED BY <1>3, <2>1, LeastElement
  <2>3. Min(N) \in N /\ \A y \in N : Min(N) <= y
    <3> HIDE DEF N
    <3> QED BY <2>2 DEF Min
  <2> DEFINE a == Min(N) - 1
  <2>4. a \in Nat /\ a <= n /\ a < n /\ n <= n /\ a + 1 = Min(N) /\ d[a + 1] # 0
    BY <1>1, <2>3
  <2>5. Significant(d) = SubSeq(d, a + 1, n)
    BY <1>3, <2>4 DEF Significant
  <2>6. d # <<>> /\ d[1] # 0 => a = 0
    <3>1. d # <<>> /\ d[1] # 0 => 1 \in N
      BY <1>1, EmptySeq DEF Bytes
    <3>2. d # <<>> /\ d[1] # 0 => Min(N) <= 1
      BY <2>3, <3>1
    <3>3. Min(N) <= 1 /\ Min(N) \in Nat => Min(N) - 1 <= 0
      OBVIOUS
    <3>4. d # <<>> /\ d[1] # 0 => a <= 0
      BY <2>1, <2>3, <3>2, <3>3
    <3> QED BY <2>4, <3>4
  <2> HIDE DEF a, N
  <2>7. /\ SubSeq(d, a + 1, n) \in Bytes /\ Len(SubSeq(d, a + 1, n)) = n - a
        /\ \A k \in 1..(n - a) : SubSeq(d, a + 1, n)[k] = d[a + k]
    BY <1>1, <2>4, SubBytes
  <2>8. Significant(d)[1] # 0
    <3>1. 1 \in 1..(n - a)
      BY <1>1, <2>4
    <3> QED BY <2>4, <2>5, <2>7, <3>1
  <2>9. a = 0 => SubSeq(d, a + 1, n) = d
    BY SubSeqFull DEF Bytes
  <2>10. d # <<>>
    BY <1>1, <2>4, EmptySeq
  <2>11. n - a \in Nat /\ n - a <= n
    BY <1>1, <2>4
  <2> QED BY <2>5, <2>6, <2>7, <2>8, <2>9, <2>10, <2>11
<1> QED BY <1>2, <1>3

-----------------------------------------------------------------------------
(* The parts of the Ledger's answer.                                        *)
LEMMA DeviceKeys ==
  ASSUME NEW p \in Points
  PROVE  /\ p.x \in Coordinate /\ p.y \in Coordinate
         /\ DeviceKey(p) \in Bytes /\ Len(DeviceKey(p)) = 2 * W + 2
         /\ SubSeq(DeviceKey(p), 3, W + 2) = p.x /\ SubSeq(DeviceKey(p), W + 3, 2 * W + 2) = p.y
         /\ DeviceKey(p)[W + 2] = p.x[W] /\ DeviceKey(p)[2 * W + 2] = p.y[W]
<1> DEFINE h == <<2 * W + 1, 4>>
           x == p.x
           y == p.y
           r == h \o x \o y
<1>1. x \in Coordinate /\ y \in Coordinate
  BY WireAssumption
<1>2. W \in Nat /\ W >= 1 /\ 2 * W + 6 <= 255
  BY Widths
<1>3. x \in Bytes /\ Len(x) = W /\ y \in Bytes /\ Len(y) = W
  BY <1>1, Widths
<1>4. h \in Bytes /\ Len(h) = 2
  <2>1. 2 * W + 1 \in 0..255
    BY <1>2
  <2> QED BY <2>1 DEF Bytes
<1>5. DeviceKey(p) = r
  BY DEF DeviceKey
<1> HIDE DEF h, x, y
<1> DEFINE hx == h \o x
<1>6. /\ hx \in Bytes /\ Len(hx) = 2 + W
      /\ \A k \in 1..W : hx[2 + k] = x[k]
  <2>1. h \in Bytes /\ x \in Bytes
    BY <1>3, <1>4
  <2>2. /\ h \o x \in Bytes /\ Len(h \o x) = Len(h) + Len(x)
        /\ \A k \in 1..Len(x) : (h \o x)[Len(h) + k] = x[k]
    BY <2>1, ConcatBytes
  <2> QED BY <1>3, <1>4, <2>2
<1>7. r = hx \o y
  OBVIOUS
<1> HIDE DEF r, hx
<1>8. /\ r \in Bytes /\ Len(r) = (2 + W) + W
      /\ \A k \in 1..(2 + W) : r[k] = hx[k]
      /\ \A k \in 1..W : r[(2 + W) + k] = y[k]
  <2>1. hx \in Bytes /\ y \in Bytes
    BY <1>3, <1>6
  <2>2. /\ hx \o y \in Bytes /\ Len(hx \o y) = Len(hx) + Len(y)
        /\ \A k \in 1..Len(hx) : (hx \o y)[k] = hx[k]
        /\ \A k \in 1..Len(y) : (hx \o y)[Len(hx) + k] = y[k]
    BY <2>1, ConcatBytes
  <2> QED BY <1>3, <1>6, <1>7, <2>2
<1>9. \A k \in 1..W : r[2 + k] = x[k]
  <2>1. \A k \in 1..W : 2 + k \in 1..(2 + W)
    BY <1>2
  <2> QED BY <1>6, <1>8, <2>1
<1>10. SubSeq(r, 3, W + 2) = x
  <2> DEFINE a == 2
             b == W + 2
  <2>1. a \in Nat /\ b \in Nat /\ a <= b /\ b <= Len(r) /\ b - a = W /\ a + 1 = 3
    BY <1>2, <1>8
  <2> HIDE DEF a, b
  <2>2. /\ SubSeq(r, a + 1, b) \in Bytes /\ Len(SubSeq(r, a + 1, b)) = b - a
        /\ \A k \in 1..(b - a) : SubSeq(r, a + 1, b)[k] = r[a + k]
    BY <1>8, <2>1, SubBytes
  <2>3. \A k \in 1..W : SubSeq(r, a + 1, b)[k] = x[k]
    BY <1>9, <2>1, <2>2 DEF a
  <2>4. SubSeq(r, a + 1, b) = x
    BY <1>3, <2>1, <2>2, <2>3, SeqEqual DEF Bytes
  <2> QED BY <2>1, <2>4 DEF b
<1>11. SubSeq(r, W + 3, 2 * W + 2) = y
  <2> DEFINE a == 2 + W
             b == 2 * W + 2
  <2>1. a \in Nat /\ b \in Nat /\ a <= b /\ b <= Len(r) /\ b - a = W /\ a + 1 = W + 3
    BY <1>2, <1>8
  <2>2. \A k \in 1..W : r[a + k] = y[k]
    BY <1>8
  <2> HIDE DEF a, b
  <2>3. /\ SubSeq(r, a + 1, b) \in Bytes /\ Len(SubSeq(r, a + 1, b)) = b - a
        /\ \A k \in 1..(b - a) : SubSeq(r, a + 1, b)[k] = r[a + k]
    BY <1>8, <2>1, SubBytes
  <2>4. \A k \in 1..W : SubSeq(r, a + 1, b)[k] = y[k]
    BY <2>1, <2>2, <2>3
  <2>5. SubSeq(r, a + 1, b) = y
    BY <1>3, <2>1, <2>3, <2>4, SeqEqual DEF Bytes
  <2> QED BY <2>1, <2>5 DEF b
<1>12. r[W + 2] = x[W] /\ r[2 * W + 2] = y[W]
  <2>1. W \in 1..W /\ 2 + W = W + 2 /\ (2 + W) + W = 2 * W + 2
    BY <1>2
  <2> QED BY <1>8, <1>9, <2>1
<1>13. Len(r) = 2 * W + 2
  BY <1>2, <1>8
<1> QED BY <1>1, <1>5, <1>8, <1>10, <1>11, <1>12, <1>13 DEF x, y, r

(* The byte before x says whether y is odd.                                  *)
Parity(p) == IF p.y[W] % 2 = 1 THEN 3 ELSE 2

(* The key of the first kind, and what Crypto++ finds of it.                  *)
LEMMA Compressed ==
  ASSUME NEW p \in Points
  PROVE  /\ Parity(p) \in 0..255
         /\ ConvertPubKey("nistp256", DeviceKey(p)) = <<Parity(p)>> \o p.x
         /\ decompressPubKey(<<Parity(p)>> \o p.x) = Significant(p.x) \o Significant(p.y)
<1>1. Parity(p) \in {2, 3} /\ Parity(p) \in 0..255
  BY DEF Parity
<1>2. ConvertPubKey("nistp256", DeviceKey(p)) = <<Parity(p)>> \o p.x
  BY DeviceKeys DEF ConvertPubKey, Parity
<1> DEFINE k == <<Parity(p)>> \o p.x
<1>3. p.x \in Bytes /\ Len(p.x) = W /\ Len(p.y) = W /\ W \in Nat /\ W >= 1
  BY DeviceKeys, Widths
<1>4. k \in Bytes /\ Len(k) = 1 + W /\ k[1] = Parity(p) /\ \A i \in 1..W : k[1 + i] = p.x[i]
  <2> DEFINE b == Parity(p)
             x == p.x
  <2>1. b \in 0..255 /\ x \in Bytes
    BY <1>1, <1>3
  <2> HIDE DEF b, x
  <2>2. /\ <<b>> \o x \in Bytes /\ Len(<<b>> \o x) = 1 + Len(x) /\ (<<b>> \o x)[1] = b
        /\ \A i \in 1..Len(x) : (<<b>> \o x)[1 + i] = x[i]
    BY <2>1, ByteBefore
  <2> QED BY <1>3, <2>2 DEF b, x
<1> HIDE DEF k
<1>5. Tail(k) = p.x
  <2>1. k # <<>>
    BY <1>3, <1>4, EmptySeq
  <2>2. Tail(k) \in Bytes /\ Len(Tail(k)) = W /\ \A i \in 1..W : Tail(k)[i] = k[i + 1]
    BY <1>3, <1>4, <2>1, ByteDropped
  <2>3. \A i \in 1..W : Tail(k)[i] = p.x[i]
    BY <1>3, <1>4, <2>2
  <2> QED BY <1>3, <2>2, <2>3, SeqEqual DEF Bytes
<1>6. Odd(p.y) <=> k[1] = 3
  BY <1>3, <1>4 DEF Odd, Parity
<1> DEFINE Fits(q) == q.x = Tail(k) /\ Odd(q.y) = (k[1] = 3)
<1>7. \A q \in Points : Fits(q) <=> q = p
  <2>1. Odd(p.y) \in BOOLEAN /\ \A q \in Points : Odd(q.y) \in BOOLEAN
    BY DEF Odd
  <2>2. Fits(p)
    BY <1>5, <1>6, <2>1
  <2>3. \A q \in Points : Fits(q) => q = p
    BY <1>5, <1>6, <2>1, WireAssumption
  <2> QED BY <2>2, <2>3
<1>8. DecodePoint(k) = p
  <2>1. DecodePoint(k) = CHOOSE q \in Points : Fits(q)
    BY DEF DecodePoint
  <2> HIDE DEF Fits
  <2> QED BY <1>7, <2>1
<1>9. decompressPubKey(k) = Significant(p.x) \o Significant(p.y)
  BY <1>8 DEF decompressPubKey
<1> QED BY <1>1, <1>2, <1>9 DEF k

(* The key of the second kind: y from its end, with the parity of x.          *)
Reversed(p) == [i \in 1..W |-> p.y[W + 1 - i] + IF i = W /\ Odd(p.x) /\ p.y[1] < 128 THEN 128 ELSE 0]

(* ConvertPubKey turns an ed25519 point around, x's parity in its last byte. *)
LEMMA Turned ==
  ASSUME NEW p \in Points
  PROVE  /\ ConvertPubKey("ed25519", DeviceKey(p)) = Reversed(p)
         /\ Reversed(p) \in Bytes /\ Len(Reversed(p)) = W
<1>1. W \in Nat /\ W >= 1 /\ Len(p.y) = W /\ Len(p.x) = W /\ \A k \in 1..W : p.y[k] \in 0..255
  BY DeviceKeys, Widths
<1> DEFINE y == Reverse(p.y)
<1>2. y = [i \in 1..W |-> p.y[W + 1 - i]]
  <2>1. \A i \in 1..W : (W - i) + 1 = W + 1 - i
    BY <1>1
  <2>2. y = [i \in 1..W |-> p.y[(W - i) + 1]]
    BY <1>1 DEF Reverse
  <2> QED BY <2>1, <2>2
<1>3. W \in 1..W /\ W + 1 - W = 1 /\ \A i \in 1..W : W + 1 - i \in 1..W
  BY <1>1
<1>4. y[W] = p.y[1] /\ \A i \in 1..W : y[i] = p.y[W + 1 - i] /\ y[i] \in 0..255
  BY <1>1, <1>2, <1>3
<1>5. Odd(p.x) <=> p.x[W] % 2 = 1
  BY <1>1 DEF Odd
<1>6. ConvertPubKey("ed25519", DeviceKey(p))
        = IF p.x[W] % 2 = 1 /\ y[W] < 128 THEN [y EXCEPT ![W] = @ + 128] ELSE y
  BY DeviceKeys DEF ConvertPubKey
<1>7. ConvertPubKey("ed25519", DeviceKey(p)) = Reversed(p)
  <2> HIDE DEF y
  <2>1. \A i \in 1..W : y[i] + 0 = y[i]
    BY <1>4
  <2>2. DOMAIN y = 1..W /\ y = [i \in 1..W |-> y[i]]
    BY <1>2
  <2>3. Reversed(p) = [i \in 1..W |-> y[i] + IF i = W /\ Odd(p.x) /\ y[W] < 128 THEN 128 ELSE 0]
    BY <1>4 DEF Reversed
  <2>4. CASE Odd(p.x) /\ y[W] < 128
    <3>1. [y EXCEPT ![W] = @ + 128] = [i \in 1..W |-> IF i = W THEN y[W] + 128 ELSE y[i]]
      BY <1>3, <2>2
    <3>2. Reversed(p) = [i \in 1..W |-> IF i = W THEN y[W] + 128 ELSE y[i]]
      BY <2>1, <2>3, <2>4
    <3> QED BY <1>5, <1>6, <2>4, <3>1, <3>2
  <2>5. CASE ~(Odd(p.x) /\ y[W] < 128)
    <3>1. Reversed(p) = [i \in 1..W |-> y[i]]
      BY <2>1, <2>3, <2>5
    <3> QED BY <1>5, <1>6, <2>2, <2>5, <3>1
  <2> QED BY <2>4, <2>5
<1>8. Reversed(p) \in [1..W -> 0..255]
  <2>1. ASSUME NEW i \in 1..W
        PROVE  (p.y[W + 1 - i] + IF i = W /\ Odd(p.x) /\ p.y[1] < 128 THEN 128 ELSE 0) \in 0..255
    <3>1. p.y[W + 1 - i] \in 0..255 /\ (i = W => W + 1 - i = 1)
      BY <1>1, <1>3
    <3> QED BY <3>1
  <2> QED BY <2>1 DEF Reversed
<1>9. Reversed(p) \in Bytes /\ Len(Reversed(p)) = W
  <2>1. Reversed(p) \in Seq(0..255)
    BY <1>1, <1>8, SeqDef
  <2>2. DOMAIN Reversed(p) = 1..W
    BY <1>8
  <2> QED BY <1>1, <2>1, <2>2, LenProperties DEF Bytes
<1> QED BY <1>7, <1>9

(* The names of kinds of keys and of the curve.                              *)
LEMMA Names ==
  /\ \A name \in {"nistp256", "ed25519"} : TypeName[name] \in Bytes /\ Len(TypeName[name]) = 1
  /\ CurveName \in Bytes
BY OneByte DEF TypeName, CurveName

(* The blob of a key is bytes.                                              *)
LEMMA KeyBytes ==
  ASSUME NEW name \in {"nistp256", "ed25519"}, NEW p \in Points
  PROVE  KeyInfo(name, DeviceKey(p)) \in Bytes /\ KeyInfo(name, DeviceKey(p)) # <<>>
<1> DEFINE t == String(TypeName[name])
           key == ConvertPubKey(name, DeviceKey(p))
           rest == IF name = "nistp256"
                   THEN String(CurveName) \o String(<<Octet>> \o decompressPubKey(key)) ELSE String(key)
<1>1. t \in Bytes /\ Len(t) = 5
  <2> DEFINE d == TypeName[name]
  <2>1. d \in Bytes /\ Len(d) = 1
    BY Names
  <2> HIDE DEF d
  <2>2. String(d) \in Bytes /\ Len(String(d)) = 4 + Len(d)
    BY <2>1, StringBytes
  <2> QED BY <2>1, <2>2 DEF d
<1>2. rest \in Bytes
  <2>1. CASE name = "nistp256"
    <3> DEFINE x == Significant(p.x)
               y == Significant(p.y)
               c == String(CurveName)
    <3>1. decompressPubKey(key) = x \o y
      BY <2>1, Compressed
    <3>2. x \in Bytes /\ y \in Bytes /\ c \in Bytes
      BY DeviceKeys, Widths, SignificantBytes, Names, StringBytes
    <3> HIDE DEF x, y, c
    <3> DEFINE d == x \o y
    <3>3. d \in Bytes
      BY <3>2, ConcatBytes
    <3> HIDE DEF d
    <3>4. 4 \in 0..255
      OBVIOUS
    <3>5. <<4>> \o d \in Bytes
      BY <3>3, <3>4, ByteBefore
    <3> DEFINE e == String(<<4>> \o d)
    <3>6. e \in Bytes
      BY <3>5, StringBytes
    <3> HIDE DEF e
    <3>7. c \o e \in Bytes
      BY <3>2, <3>6, ConcatBytes
    <3> QED BY <2>1, <3>1, <3>7 DEF Octet, c, d, e
  <2>2. CASE name = "ed25519"
    <3>1. key \in Bytes
      BY <2>2, Turned
    <3>2. rest = String(key)
      BY <2>2
    <3> HIDE DEF key, rest
    <3> QED BY <3>1, <3>2, StringBytes
  <2> QED BY <2>1, <2>2
<1>3. KeyInfo(name, DeviceKey(p)) = t \o rest
  BY DEF KeyInfo
<1> HIDE DEF t, rest
<1>4. t \o rest \in Bytes /\ Len(t \o rest) = Len(t) + Len(rest) /\ Len(rest) \in Nat
  BY <1>1, <1>2, ConcatBytes
<1>5. t \o rest # <<>>
  <2>1. Len(t \o rest) # 0
    BY <1>1, <1>4
  <2> QED BY <1>4, <2>1, EmptySeq
<1> QED BY <1>3, <1>4, <1>5

(* It is the public key, unless a coordinate is shortened or y has a bit more.  *)
LEMMA KeyIsPublic ==
  ASSUME NEW name \in {"nistp256", "ed25519"}, NEW p \in Points, p.x[1] # 0, p.y[1] # 0,
         name = "ed25519" => p.y[1] < 128
  PROVE  KeyInfo(name, DeviceKey(p)) = PublicKey(name, p)
<1>1. /\ p.x \in Bytes /\ p.y \in Bytes /\ p.x # <<>> /\ p.y # <<>>
  <2>1. p.x \in Coordinate /\ p.y \in Coordinate
    BY DeviceKeys
  <2>2. p.x \in Bytes /\ p.y \in Bytes /\ Len(p.x) = W /\ Len(p.y) = W /\ W >= 1
    BY <2>1, Widths
  <2> QED BY <2>2, EmptySeq
<1>2. CASE name = "nistp256"
  <2> DEFINE x == p.x
             y == p.y
             f == <<4>>
  <2>1. Significant(x) = x /\ Significant(y) = y
    BY <1>1, SignificantBytes
  <2>2. decompressPubKey(ConvertPubKey("nistp256", DeviceKey(p))) = x \o y
    BY <2>1, Compressed
  <2>3. f \o (x \o y) = f \o x \o y
    <3>1. f \in Bytes /\ x \in Bytes /\ y \in Bytes
      BY <1>1 DEF Bytes
    <3> HIDE DEF f, x, y
    <3> QED BY <3>1, ConcatAssociative DEF Bytes
  <2> QED BY <1>2, <2>2, <2>3 DEF KeyInfo, PublicKey, Octet
<1>3. CASE name = "ed25519"
  <2>1. Reversed(p) = [i \in 1..W |-> p.y[W + 1 - i] + IF i = W /\ Odd(p.x) THEN 128 ELSE 0]
    BY <1>3 DEF Reversed
  <2>2. ConvertPubKey("ed25519", DeviceKey(p)) = Reversed(p)
    BY Turned
  <2> QED BY <1>3, <2>1, <2>2 DEF KeyInfo, PublicKey
<1> QED BY <1>2, <1>3

-----------------------------------------------------------------------------
(* An integer as DER writes it: as short as it can be without being negative.  *)
Value(d) == LET v == Significant(d) IN IF v = <<>> \/ v[1] >= 128 THEN <<0>> \o v ELSE v

(* DER puts at most one zero byte before what is significant.              *)
LEMMA Values ==
  ASSUME NEW d \in Coordinate
  PROVE  /\ Value(d) \in Bytes /\ Len(Value(d)) \in 1..(W + 1)
         /\ Significant(Value(d)) = Significant(d)
         /\ Value(d)[1] = 0 => Significant(Tail(Value(d))) = Significant(d)
<1> DEFINE v == Significant(d)
<1>1. v \in Bytes /\ Len(v) \in Nat /\ Len(v) <= W /\ W \in Nat /\ (v # <<>> => v[1] # 0)
  BY Widths, SignificantBytes
<1> HIDE DEF v
<1>2. Significant(v) = v
  BY <1>1, SignificantBytes
<1>3. CASE v = <<>> \/ v[1] >= 128
  <2> DEFINE z == <<0>> \o v
  <2>1. z \in Bytes /\ Len(z) = 1 + Len(v) /\ z[1] = 0 /\ \A k \in 1..Len(v) : z[1 + k] = v[k]
    <3>1. 0 \in 0..255
      OBVIOUS
    <3> QED BY <1>1, <3>1, ByteBefore
  <2>2. Value(d) = z
    BY <1>3 DEF Value, v
  <2> HIDE DEF z
  <2>3. z # <<>>
    <3>1. Len(z) # 0
      BY <1>1, <2>1
    <3> QED BY <3>1, EmptySeq
  <2>4. Tail(z) = v
    <3>1. Tail(z) \in Bytes /\ Len(Tail(z)) = Len(z) - 1 /\ \A k \in 1..(Len(z) - 1) : Tail(z)[k] = z[k + 1]
      BY <2>1, <2>3, ByteDropped
    <3>2. Len(Tail(z)) = Len(v) /\ \A k \in 1..Len(v) : Tail(z)[k] = v[k]
      BY <1>1, <2>1, <3>1
    <3> QED BY <1>1, <3>1, <3>2, SeqEqual DEF Bytes
  <2>5. Significant(z) = v
    <3> DEFINE N == {i \in DOMAIN z : z[i] # 0}
    <3>1. DOMAIN z = 1..(1 + Len(v))
      BY <1>1, <2>1, LenProperties DEF Bytes
    <3>2. CASE v = <<>>
      <4>1. Len(v) = 0
        BY <3>2
      <4>2. N = {}
        BY <2>1, <3>1, <4>1
      <4> QED BY <3>2, <4>2 DEF Significant
    <3>3. CASE v # <<>>
      <4>1. Len(v) # 0 /\ z[2] # 0 /\ 2 \in DOMAIN z
        <5>1. Len(v) # 0
          BY <1>1, <3>3, EmptySeq DEF Bytes
        <5>2. 1 \in 1..Len(v) /\ 1 + 1 = 2
          BY <1>1, <5>1
        <5>3. z[2] = v[1]
          BY <2>1, <5>2
        <5> QED BY <1>1, <3>1, <3>3, <5>1, <5>3
      <4>2. 2 \in N /\ \A i \in N : 2 <= i
        BY <2>1, <3>1, <4>1
      <4>3. \A i \in N : i \in Nat
        BY <3>1
      <4> HIDE DEF N
      <4>4. Min(N) = 2
        <5>1. Min(N) \in N /\ \A i \in N : Min(N) <= i
          BY <4>2 DEF Min
        <5> QED BY <4>2, <4>3, <5>1
      <4>5. Significant(z) = SubSeq(z, 2, Len(z))
        BY <4>2, <4>4 DEF Significant, N
      <4>6. SubSeq(z, 2, Len(z)) = Tail(z)
        <5>1. 1 \in Nat /\ Len(z) \in Nat /\ 1 <= Len(z) /\ 1 + 1 = 2
          BY <1>1, <2>1
        <5>2. /\ SubSeq(z, 1 + 1, Len(z)) \in Bytes /\ Len(SubSeq(z, 1 + 1, Len(z))) = Len(z) - 1
              /\ \A k \in 1..(Len(z) - 1) : SubSeq(z, 1 + 1, Len(z))[k] = z[1 + k]
          <6> DEFINE a == 1
                     b == Len(z)
          <6>1. a \in Nat /\ b \in Nat /\ a <= b /\ b <= Len(z)
            BY <5>1
          <6> HIDE DEF a, b
          <6>2. /\ SubSeq(z, a + 1, b) \in Bytes /\ Len(SubSeq(z, a + 1, b)) = b - a
                /\ \A k \in 1..(b - a) : SubSeq(z, a + 1, b)[k] = z[a + k]
            BY <2>1, <6>1, SubBytes
          <6> QED BY <6>2 DEF a, b
        <5>3. Len(SubSeq(z, 2, Len(z))) = Len(v) /\ \A k \in 1..Len(v) : SubSeq(z, 2, Len(z))[k] = v[k]
          BY <1>1, <2>1, <5>1, <5>2
        <5>4. SubSeq(z, 2, Len(z)) \in Bytes
          BY <5>1, <5>2
        <5>5. SubSeq(z, 2, Len(z)) = v
          BY <1>1, <5>3, <5>4, SeqEqual DEF Bytes
        <5> QED BY <2>4, <5>5
      <4> QED BY <2>4, <4>5, <4>6
    <3> QED BY <3>2, <3>3
  <2>6. Len(z) \in 1..(W + 1)
    BY <1>1, <2>1
  <2> QED BY <1>2, <2>1, <2>2, <2>4, <2>5, <2>6 DEF v
<1>4. CASE ~(v = <<>> \/ v[1] >= 128)
  <2>1. Value(d) = v
    BY <1>4 DEF Value, v
  <2>2. Len(v) # 0
    BY <1>1, <1>4, EmptySeq DEF Bytes
  <2>3. Len(v) \in 1..(W + 1)
    BY <1>1, <2>2
  <2> QED BY <1>1, <1>2, <1>4, <2>1, <2>3 DEF v
<1> QED BY <1>3, <1>4

(* The lengths of integers fit in a byte.                                    *)
LEMMA ByteLengths ==
  ASSUME NEW l \in 1..(W + 1), NEW m \in 1..(W + 1)
  PROVE  l \in Nat /\ l \in 0..255 /\ m \in Nat /\ (2 + l) + (2 + m) \in 0..255
<1>1. W \in Nat /\ 2 * W + 6 <= 255
  BY Widths
<1>2. l \in Nat /\ m \in Nat /\ l <= W + 1 /\ m <= W + 1
  BY <1>1
<1>3. (2 + l) + (2 + m) <= 2 * W + 6 /\ l <= 2 * W + 6
  BY <1>1, <1>2
<1>4. (2 + l) + (2 + m) <= 255 /\ l <= 255
  BY <1>1, <1>2, <1>3
<1> QED BY <1>2, <1>4

(* Two bytes in front of others.                                            *)
LEMMA TwoBefore ==
  ASSUME NEW a \in 0..255, NEW b \in 0..255, NEW d \in Bytes
  PROVE  /\ <<a, b>> \in Bytes /\ Len(<<a, b>>) = 2 /\ <<a, b>>[2] = b
         /\ <<a, b>> \o d \in Bytes /\ Len(<<a, b>> \o d) = 2 + Len(d) /\ Len(d) \in Nat
<1> DEFINE h == <<a, b>>
<1>1. h \in Bytes /\ Len(h) = 2 /\ h[2] = b
  BY DEF Bytes
<1> HIDE DEF h
<1>2. h \o d \in Bytes /\ Len(h \o d) = Len(h) + Len(d) /\ Len(d) \in Nat
  BY <1>1, ConcatBytes
<1> QED BY <1>1, <1>2 DEF h

(* An integer in a signature, and where it is read.                          *)
LEMMA DERIntegers ==
  ASSUME NEW d \in Coordinate
  PROVE  /\ DERInteger(d) \in Bytes /\ Len(DERInteger(d)) = 2 + Len(Value(d))
         /\ \A g \in Bytes, n \in Nat : Placed(g, n, DERInteger(d)) =>
              g[n + 2] = Len(Value(d)) /\ SubSeq(g, n + 3, n + 2 + Len(Value(d))) = Value(d)
<1> DEFINE w == Value(d)
           l == Len(w)
           h == <<2, l>>
<1>1. w \in Bytes /\ l \in 1..(W + 1) /\ W \in Nat /\ 2 * W + 6 <= 255
  BY Values, Widths
<1>2. 2 \in 0..255 /\ l \in 0..255 /\ l \in Nat
  <2> HIDE DEF l
  <2>1. l \in 0..255 /\ l \in Nat
    BY <1>1, ByteLengths
  <2> QED BY <2>1
<1>3. DERInteger(d) = h \o w
  BY DEF DERInteger, Value
<1> HIDE DEF w, l
<1>4. /\ h \in Bytes /\ Len(h) = 2 /\ h[2] = l
      /\ h \o w \in Bytes /\ Len(h \o w) = 2 + Len(w)
  BY <1>1, <1>2, TwoBefore
<1> HIDE DEF h
<1>5. ASSUME NEW g \in Bytes, NEW n \in Nat, Placed(g, n, h \o w)
      PROVE  g[n + 2] = l /\ SubSeq(g, n + 3, n + 2 + l) = w
  <2>1. Len(g) \in Nat
    BY LenProperties DEF Bytes
  <2>2. Placed(g, n, h) /\ Placed(g, n + Len(h), w)
    BY <1>1, <1>4, <1>5, <2>1, PlacedParts
  <2>3. g[n + 2] = l
    <3>1. 2 \in 1..Len(h)
      BY <1>4
    <3> QED BY <1>4, <2>2, <3>1 DEF Placed
  <2>4. n + 2 \in Nat /\ Placed(g, n + 2, w)
    BY <1>4, <2>2
  <2>5. SubSeq(g, (n + 2) + 1, (n + 2) + Len(w)) = w
    BY <1>1, <2>4, PlacedRead
  <2>6. (n + 2) + 1 = n + 3 /\ (n + 2) + Len(w) = n + 2 + l
    BY <1>2 DEF l
  <2> QED BY <2>3, <2>5, <2>6
<1> QED BY <1>3, <1>4, <1>5 DEF w, l

(* What SignMap finds in a signature.                                        *)
LEMMA SignatureParts ==
  ASSUME NEW r \in Coordinate, NEW s \in Coordinate
  PROVE  /\ R(DER(r, s)) = Value(r)
         /\ S(DER(r, s)) = IF Value(s)[1] = 0 THEN Tail(Value(s)) ELSE Value(s)
<1> DEFINE a == DERInteger(r)
           b == DERInteger(s)
           v == Value(r)
           w == Value(s)
           both == a \o b
           h == <<48, Len(both)>>
           g == h \o both
<1>1. /\ Len(v) \in 1..(W + 1) /\ Len(w) \in 1..(W + 1) /\ w \in Bytes
      /\ W \in Nat /\ 2 * W + 6 <= 255
  BY Values, Widths
<1>2. /\ a \in Bytes /\ Len(a) = 2 + Len(v) /\ b \in Bytes /\ Len(b) = 2 + Len(w)
      /\ \A d \in Bytes, n \in Nat : Placed(d, n, a) => d[n + 2] = Len(v) /\ SubSeq(d, n + 3, n + 2 + Len(v)) = v
      /\ \A d \in Bytes, n \in Nat : Placed(d, n, b) => d[n + 2] = Len(w) /\ SubSeq(d, n + 3, n + 2 + Len(w)) = w
  BY DERIntegers
<1>3. DER(r, s) = g
  BY DEF DER
<1> HIDE DEF a, b, v, w
<1>4. both \in Bytes /\ Len(both) = Len(a) + Len(b)
  BY <1>2, ConcatBytes
<1>5. Len(both) \in 0..255 /\ 48 \in 0..255
  <2> DEFINE l == Len(v)
             m == Len(w)
  <2>1. l \in 1..(W + 1) /\ m \in 1..(W + 1) /\ Len(both) = (2 + l) + (2 + m)
    BY <1>1, <1>2, <1>4
  <2> HIDE DEF l, m, both
  <2>2. (2 + l) + (2 + m) \in 0..255
    BY <2>1, ByteLengths
  <2> QED BY <2>1, <2>2
<1> HIDE DEF both
<1>6. h \in Bytes /\ Len(h) = 2 /\ g \in Bytes
  BY <1>4, <1>5, TwoBefore
<1> HIDE DEF h
<1>7. Placed(g, 0, h \o both) /\ Len(g) \in Nat
  <2> HIDE DEF g
  <2>1. Placed(g, 0, g) /\ Len(g) \in Nat
    BY <1>6, PlacedWhole, LenProperties DEF Bytes
  <2> QED BY <2>1 DEF g
<1> HIDE DEF g
<1>8. Placed(g, 2, a) /\ Placed(g, 4 + Len(v), b)
  <2> DEFINE z == 0
             t == z + Len(h)
  <2>1. z \in Nat /\ t \in Nat /\ t = 2 /\ Placed(g, z, h \o both)
    BY <1>6, <1>7
  <2> HIDE DEF z
  <2>2. Placed(g, z + Len(h), both)
    BY <1>4, <1>6, <1>7, <2>1, PlacedParts
  <2>3. Placed(g, t, a \o b)
    BY <2>2 DEF both
  <2> HIDE DEF t
  <2>4. Placed(g, t, a) /\ Placed(g, t + Len(a), b)
    BY <1>2, <1>7, <2>1, <2>3, PlacedParts
  <2>5. t + Len(a) = 4 + Len(v)
    BY <1>1, <1>2, <2>1
  <2> QED BY <2>1, <2>4, <2>5
<1>9. R(g) = v
  <2>1. 2 \in Nat /\ 2 + 2 = 4 /\ 2 + 3 = 5 /\ 3 + 1 = 4 /\ 3 + 2 = 5
    OBVIOUS
  <2>2. g[4] = Len(v) /\ SubSeq(g, 5, 4 + Len(v)) = v
    BY <1>2, <1>6, <1>8, <2>1
  <2> QED BY <2>1, <2>2 DEF R, IntegerAt
<1>10. IntegerAt(g, SecondOffset(g)) = w
  <2>1. g[4] = Len(v)
    <3>1. 2 \in Nat /\ 2 + 2 = 4
      OBVIOUS
    <3> QED BY <1>2, <1>6, <1>8, <3>1
  <2> DEFINE n == 4 + Len(v)
             o == SecondOffset(g)
  <2>2. n \in Nat /\ o = n + 1 /\ o + 1 = n + 2 /\ o + 2 = n + 3
    BY <1>1, <2>1 DEF SecondOffset
  <2> HIDE DEF n, o
  <2>3. g[n + 2] = Len(w) /\ SubSeq(g, n + 3, n + 2 + Len(w)) = w
    BY <1>2, <1>6, <1>8, <2>2 DEF n
  <2> QED BY <2>2, <2>3 DEF IntegerAt, o
<1>11. w # <<>>
  BY <1>1, EmptySeq
<1>12. S(g) = IF w[1] = 0 THEN Tail(w) ELSE w
  BY <1>10, <1>11 DEF S
<1> QED BY <1>3, <1>9, <1>12 DEF v, w

(* A string in few bytes is read as it was written.                          *)
LEMMA StringIn ==
  ASSUME NEW w \in Bytes, Len(w) < Sizes, NEW offset \in Nat, NEW d \in Bytes,
         Placed(w, offset, String(d))
  PROVE  /\ AsInt(w, offset) = Len(d) /\ ReadString(w, offset) = d /\ Len(d) < Sizes
         /\ Placed(w, offset + 4, d) /\ offset + 4 + Len(d) <= Len(w) /\ Len(d) \in Nat /\ Len(w) \in Nat
<1>1. Len(String(d)) = 4 + Len(d) /\ Len(d) \in Nat /\ Len(w) \in Nat /\ Sizes \in Nat
  BY StringBytes, LenProperties DEF Bytes, Sizes
<1>2. offset + (4 + Len(d)) <= Len(w)
  BY <1>1 DEF Placed
<1>3. Len(d) < Sizes
  BY <1>1, <1>2
<1>4. /\ AsInt(w, offset) = Len(d) /\ ReadString(w, offset) = d
      /\ Placed(w, offset + 4, d) /\ offset + 4 + Len(d) <= Len(w)
  BY <1>3, StringRead
<1> QED BY <1>1, <1>3, <1>4

(* The bytes before a string and behind it.                                  *)
LEMMA TwoStrings ==
  ASSUME NEW a \in Bytes, NEW b \in Bytes
  PROVE  /\ String(a) \o String(b) \in Bytes
         /\ \A w \in Bytes : Len(w) < Sizes /\ w = String(a) \o String(b) =>
              /\ ReadString(w, 0) = a /\ AsInt(w, 0) = Len(a)
              /\ ReadString(w, 0 + 4 + AsInt(w, 0)) = b
              /\ Len(a) < Sizes /\ Len(b) < Sizes
<1> DEFINE x == String(a)
           y == String(b)
           z == 0
<1>1. x \in Bytes /\ y \in Bytes /\ Len(x) = 4 + Len(a) /\ Len(a) \in Nat
  BY StringBytes
<1>2. z \in Nat /\ z + (4 + Len(a)) = 4 + Len(a) /\ z + (4 + Len(a)) \in Nat /\ 4 + Len(a) = 0 + 4 + Len(a)
  BY <1>1
<1> HIDE DEF x, y, z
<1>3. x \o y \in Bytes
  BY <1>1, ConcatBytes
<1>4. ASSUME NEW w \in Bytes, Len(w) < Sizes, w = x \o y
      PROVE  /\ ReadString(w, 0) = a /\ AsInt(w, 0) = Len(a)
             /\ ReadString(w, 0 + 4 + AsInt(w, 0)) = b
             /\ Len(a) < Sizes /\ Len(b) < Sizes
  <2>1. Len(w) \in Nat /\ Placed(w, z, x \o y)
    BY <1>4, PlacedWhole, LenProperties DEF Bytes, z
  <2>2. Placed(w, z, x) /\ Placed(w, z + Len(x), y)
    BY <1>1, <1>2, <2>1, PlacedParts
  <2>3. AsInt(w, z) = Len(a) /\ ReadString(w, z) = a /\ Len(a) < Sizes
    BY <1>2, <1>4, <2>2, StringIn DEF x
  <2> DEFINE o == z + Len(x)
  <2>4. o \in Nat /\ o = 0 + 4 + AsInt(w, z)
    BY <1>1, <1>2, <2>3
  <2>5. ReadString(w, o) = b /\ Len(b) < Sizes
    <3>1. Placed(w, o, y)
      BY <2>2
    <3> HIDE DEF o
    <3> QED BY <1>4, <2>4, <3>1, StringIn DEF y
  <2> QED BY <2>3, <2>4, <2>5 DEF z
<1> QED BY <1>3, <1>4 DEF x, y

(* The answer to a request for a signature, and what is read of it.           *)
LEMMA SignReplies ==
  ASSUME NEW name \in {"nistp256", "ed25519"}, NEW r \in Coordinate, NEW s \in Coordinate
  PROVE  /\ SignResponse(name, DER(r, s)) \in Bytes
         /\ \E d \in Bytes : SignResponse(name, DER(r, s)) = String(<<SSH2_AGENT_SIGN_RESPONSE>> \o d)
         /\ \A w \in Bytes : Len(w) < Sizes /\ Placed(w, 0, SignResponse(name, DER(r, s))) =>
              /\ Significant(IntegersOf(Message(w))[1]) = Significant(r)
              /\ Significant(IntegersOf(Message(w))[2]) = Significant(s)
<1> DEFINE x == R(DER(r, s))
           y == S(DER(r, s))
           t == TypeName[name]
           both == String(x) \o String(y)
           blob == String(t) \o String(both)
           b == SSH2_AGENT_SIGN_RESPONSE
           m == <<b>> \o String(blob)
<1>1. /\ x \in Bytes /\ y \in Bytes
      /\ Significant(x) = Significant(r) /\ Significant(y) = Significant(s)
  <2>1. /\ Value(r) \in Bytes /\ Significant(Value(r)) = Significant(r)
        /\ Value(s) \in Bytes /\ Significant(Value(s)) = Significant(s) /\ Value(s) # <<>>
        /\ Value(s)[1] = 0 => Significant(Tail(Value(s))) = Significant(s)
    <3>1. Len(Value(s)) # 0
      BY Values, Widths
    <3> QED BY <3>1, Values, EmptySeq
  <2>2. Tail(Value(s)) \in Bytes
    BY <2>1, ByteDropped
  <2> QED BY <2>1, <2>2, SignatureParts
<1>2. t \in Bytes /\ b \in 0..255
  BY Names DEF SSH2_AGENT_SIGN_RESPONSE
<1>3. SignResponse(name, DER(r, s)) = String(m)
  BY DEF SignResponse, EncodedSignature
<1> HIDE DEF x, y, t, b
<1>4. both \in Bytes
  BY <1>1, TwoStrings
<1> HIDE DEF both
<1>5. blob \in Bytes
  BY <1>2, <1>4, TwoStrings
<1> HIDE DEF blob
<1> DEFINE sb == String(blob)
<1>6. sb \in Bytes
  BY <1>5, StringBytes
<1>7. m = <<b>> \o sb
  OBVIOUS
<1> HIDE DEF sb, m
<1>8. m \in Bytes
  BY <1>2, <1>6, <1>7, ByteBefore
<1>9. ASSUME NEW w \in Bytes, Len(w) < Sizes, Placed(w, 0, String(m))
      PROVE  IntegersOf(Message(w)) = <<x, y>>
  <2> DEFINE z == 0
             o == 1
  <2>1. z \in Nat /\ o \in Nat /\ Placed(w, z, String(m))
    BY <1>9
  <2> HIDE DEF z, o
  <2>2. ReadString(w, z) = m /\ Len(m) < Sizes
    BY <1>8, <1>9, <2>1, StringIn
  <2>3. Message(w) = m
    BY <2>2 DEF Message, z
  <2>4. Len(m) \in Nat /\ Placed(m, z, m)
    BY <1>8, PlacedWhole, LenProperties DEF Bytes, z
  <2> DEFINE h == <<b>>
  <2>5. h \in Bytes /\ Len(h) = 1 /\ Placed(m, z, h \o sb)
    BY <1>2, <1>7, <2>4, OneByte
  <2> HIDE DEF h
  <2>6. Placed(m, z + Len(h), sb)
    BY <1>6, <2>1, <2>4, <2>5, PlacedParts
  <2>7. Placed(m, o, String(blob))
    BY <2>5, <2>6 DEF z, o, sb
  <2>8. ReadString(m, o) = blob /\ Len(blob) < Sizes
    BY <1>5, <1>8, <2>1, <2>2, <2>7, StringIn
  <2>9. ReadString(blob, 0 + 4 + AsInt(blob, 0)) = both /\ Len(both) < Sizes
    BY <1>2, <1>4, <1>5, <2>8, TwoStrings DEF blob
  <2>10. ReadString(both, 0) = x /\ ReadString(both, 0 + 4 + AsInt(both, 0)) = y
    BY <1>1, <1>4, <2>9, TwoStrings DEF both
  <2> QED BY <2>3, <2>8, <2>9, <2>10 DEF IntegersOf, o
<1>10. String(m) \in Bytes
  BY <1>8, StringBytes
<1>11. \E d \in Bytes : SignResponse(name, DER(r, s)) = String(<<SSH2_AGENT_SIGN_RESPONSE>> \o d)
  <2>1. SignResponse(name, DER(r, s)) = String(<<SSH2_AGENT_SIGN_RESPONSE>> \o sb)
    BY <1>3, <1>7 DEF b
  <2> QED BY <1>6, <2>1
<1> QED BY <1>1, <1>3, <1>9, <1>10, <1>11

-----------------------------------------------------------------------------
(* There are so many identities, and each begins as given.                    *)
LEMMA IdentityKeys ==
  /\ Len(Idents) \in Nat /\ Slots = 1..Len(Idents)
  /\ \A i \in Slots : Idents[i] \in Identity
<1>1. Idents \in Seq(Identity)
  BY RequestsAssumption
<1> QED BY <1>1, LenProperties, ElementOfSeq DEF Slots

(* What an identity may be, and its key.                                     *)
LEMMA IdentityFields ==
  ASSUME NEW d, d \in Contents
  PROVE  /\ d.ktype \in {"nistp256", "ed25519"} /\ d.point \in Points
         /\ d.comment \in Bytes
         /\ d.ktype = "ed25519" => d.point.y[1] < 128
         /\ KeyOf(d) \in Bytes /\ KeyOf(d) # <<>>
<1>1. d \in Identity
  BY IdentityKeys, RequestsAssumption DEF Contents
<1>2. /\ d.ktype \in {"nistp256", "ed25519"} /\ d.point \in Points
      /\ d.comment \in Bytes
      /\ d.ktype = "ed25519" => d.point.y[1] < 128
  BY <1>1 DEF Identity
<1> QED BY <1>2, KeyBytes DEF KeyOf

(* The bytes of mappings begin with a message of some kind.                   *)
Told(w, codes) ==
  \E m \in Bytes : m # <<>> /\ m[1] \in codes /\ Placed(w, 0, String(m))

(* What HandleMemoryMap and clients find of its kind.                        *)
LEMMA Operations ==
  ASSUME NEW w \in Bytes, Len(w) < Sizes, NEW codes, Told(w, codes)
  PROVE  /\ Operation(w) \in codes /\ OperationLength(w) = 1
         /\ Message(w)[1] = Operation(w)
<1>1. PICK m \in Bytes : m # <<>> /\ m[1] \in codes /\ Placed(w, 0, String(m))
  BY DEF Told
<1> DEFINE z == 0
<1>2. z \in Nat /\ Placed(w, z, String(m))
  BY <1>1
<1> HIDE DEF z
<1>3. /\ AsInt(w, z) = Len(m) /\ ReadString(w, z) = m /\ Placed(w, z + 4, m) /\ Len(m) \in Nat
  BY <1>2, StringIn
<1>4. Len(m) # 0 /\ Len(m) >= 1
  BY <1>1, <1>3, EmptySeq DEF Bytes
<1>5. OperationLength(w) = 1
  <2> DEFINE n == AsInt(w, 0)
             o == 1
  <2>1. n \in Int /\ o \in Int /\ (~(n <= o) \/ n = 1)
    BY <1>3, <1>4 DEF z
  <2>2. OperationLength(w) = Min({n, o})
    BY DEF OperationLength
  <2>3. n \in Int /\ o \in Int
    BY <1>3 DEF z
  <2> HIDE DEF n, o
  <2>4. Min({n, o}) = IF n <= o THEN n ELSE o
    BY <2>3, MinOfTwo
  <2> QED BY <2>1, <2>2, <2>4 DEF o
<1>6. Operation(w) = w[5]
  BY <1>5 DEF Operation
<1>7. w[5] = m[1]
  <2>1. 1 \in 1..Len(m) /\ (z + 4) + 1 = 5
    BY <1>3, <1>4 DEF z
  <2>2. w[(z + 4) + 1] = m[1]
    BY <1>3, <2>1 DEF Placed
  <2> QED BY <2>1, <2>2
<1>8. Message(w) = m
  BY <1>3 DEF Message, z
<1> QED BY <1>1, <1>5, <1>6, <1>7, <1>8

(* The codes of requests.                                                   *)
Code(q) ==
  CASE q.kind = "list"  -> SSH2_AGENTC_REQUEST_IDENTITIES
    [] q.kind = "sign"  -> SSH2_AGENTC_SIGN_REQUEST
    [] q.kind = "other" -> 1

(* Requests are messages.                                                   *)
LEMMA RequestsTold ==
  ASSUME NEW q \in Requests
  PROVE  /\ RequestBytes(q) \in Bytes
         /\ \A w : Placed(w, 0, RequestBytes(q)) =>
              Told(w, {Code(q)})
         /\ \A w \in Bytes : Len(w) < Sizes /\ q.kind = "sign" /\ Placed(w, 0, RequestBytes(q)) =>
              /\ q.key \in Key /\ q.challenge \in Challenges /\ KeyAsked(w) = q.key /\ Challenge(w) = q.challenge
              /\ 9 <= Len(w)
<1>1. CASE q.kind = "sign"
  <2> DEFINE k == String(q.key)
             c == String(q.challenge)
             e == Int32(0)
             b == SSH2_AGENTC_SIGN_REQUEST
             h == <<b>>
             m == h \o k \o c \o e
             y == q.key
             x == q.challenge
  <2>1. y \in Key /\ x \in Challenges /\ y \in Bytes /\ x \in Bytes
    <3>1. y \in Key /\ x \in Challenges
      BY <1>1 DEF Requests
    <3>2. Challenges \subseteq Bytes
      BY RequestsAssumption
    <3>3. \A key \in Key : key \in Bytes
      BY IdentityFields DEF Key
    <3> QED BY <3>1, <3>2, <3>3
  <2>2. b \in 0..255
    BY DEF SSH2_AGENTC_SIGN_REQUEST
  <2>3. h \in Bytes /\ Len(h) = 1 /\ h[1] = b
    <3> HIDE DEF b
    <3> QED BY <2>2, OneByte
  <2>4. e \in Bytes
    <3> DEFINE z == 0
    <3>1. z \in Nat
      OBVIOUS
    <3> HIDE DEF z
    <3>2. Int32(z) \in Bytes
      BY <3>1, Int32Bytes
    <3> QED BY <3>2 DEF z
  <2>5. RequestBytes(q) = String(m)
    BY <1>1 DEF RequestBytes
  <2> HIDE DEF y, x, b
  <2>6. k \in Bytes /\ Len(k) = 4 + Len(y) /\ c \in Bytes
    BY <2>1, StringBytes DEF y, x
  <2> HIDE DEF k, c, e, h
  <2> DEFINE hk == h \o k
  <2>7. /\ hk \in Bytes /\ Len(hk) = Len(h) + Len(k)
        /\ \A i \in 1..Len(h) : hk[i] = h[i]
    BY <2>3, <2>6, ConcatBytes
  <2> HIDE DEF hk
  <2> DEFINE hkc == hk \o c
  <2>8. /\ hkc \in Bytes /\ Len(hkc) = Len(hk) + Len(c)
        /\ \A i \in 1..Len(hk) : hkc[i] = hk[i]
    BY <2>6, <2>7, ConcatBytes
  <2> HIDE DEF hkc
  <2>9. m = hkc \o e
    BY DEF hkc, hk
  <2> HIDE DEF m
  <2>10. m \in Bytes /\ Len(m) = Len(hkc) + Len(e) /\ \A i \in 1..Len(hkc) : m[i] = hkc[i]
    BY <2>4, <2>8, <2>9, ConcatBytes
  <2>11. m # <<>> /\ m[1] = b
    <3>1. Len(y) \in Nat /\ Len(c) \in Nat /\ Len(e) \in Nat
      BY <2>1, <2>4, <2>6, LenProperties DEF Bytes, y
    <3>2. 1 \in 1..Len(h) /\ 1 \in 1..Len(hk) /\ 1 \in 1..Len(hkc) /\ Len(m) # 0
      BY <2>3, <2>6, <2>7, <2>8, <2>10, <3>1
    <3> QED BY <2>3, <2>7, <2>8, <2>10, <3>2, EmptySeq
  <2>12. \A w : Placed(w, 0, String(m)) => Told(w, {b})
    BY <2>10, <2>11 DEF Told
  <2>13. ASSUME NEW w \in Bytes, Len(w) < Sizes, Placed(w, 0, String(m))
         PROVE  KeyAsked(w) = y /\ Challenge(w) = x /\ 9 <= Len(w)
    <3>1. Told(w, {b})
      BY <2>12, <2>13
    <3>2. KeyPosition(w) = 5
      <4>1. OperationLength(w) = 1
        BY <2>13, <3>1, Operations
      <4> QED BY <4>1 DEF KeyPosition
    <3> DEFINE z == 0
               f == z + 4
               o == f + Len(h)
    <3>3. z \in Nat /\ f \in Nat /\ o \in Nat /\ o = 5 /\ Len(w) \in Nat /\ Placed(w, z, String(m))
      BY <2>3, <2>13, LenProperties DEF Bytes
    <3> HIDE DEF z
    <3>4. Placed(w, f, m)
      BY <2>10, <2>13, <3>3, StringIn
    <3> HIDE DEF f
    <3>5. Placed(w, f, hkc) /\ Len(hk) \in Nat
      BY <2>4, <2>7, <2>8, <2>9, <3>3, <3>4, PlacedParts, LenProperties DEF Bytes
    <3>6. Placed(w, f, hk) /\ Placed(w, f + Len(hk), c)
      BY <2>6, <2>7, <3>3, <3>5, PlacedParts DEF hkc
    <3>7. Placed(w, o, k)
      BY <2>3, <2>6, <3>3, <3>6, PlacedParts DEF hk
    <3> HIDE DEF o
    <3>8. ReadString(w, o) = y /\ Len(y) \in Nat
      BY <2>1, <2>13, <3>3, <3>7, StringIn DEF k, y
    <3> DEFINE p == o + 4 + Len(y)
    <3>9. p \in Nat /\ p = f + Len(hk)
      BY <2>3, <2>6, <2>7, <3>3, <3>8 DEF o
    <3>10. ReadString(w, p) = x
      <4>1. Placed(w, p, c) /\ p \in Nat
        BY <3>6, <3>9
      <4> HIDE DEF p
      <4> QED BY <2>1, <2>13, <4>1, StringIn DEF c, x
    <3>11. KeyAsked(w) = y
      BY <3>2, <3>3, <3>8 DEF KeyAsked
    <3>12. Challenge(w) = x
      BY <3>2, <3>3, <3>10, <3>11 DEF Challenge
    <3>13. 9 <= Len(w)
      BY <2>6, <3>3, <3>7, <3>8 DEF Placed
    <3> QED BY <3>11, <3>12, <3>13
  <2>14. String(m) \in Bytes
    BY <2>10, StringBytes
  <2>15. Code(q) = b
    BY <1>1 DEF Code, b
  <2> QED BY <1>1, <2>1, <2>5, <2>12, <2>13, <2>14, <2>15 DEF y, x
<1>2. CASE q.kind # "sign"
  <2> DEFINE b == Code(q)
  <2>1. RequestBytes(q) = String(<<b>>) /\ b \in 0..255
    <3>1. q.kind \in {"list", "other"}
      BY <1>2 DEF Requests
    <3> QED BY <3>1 DEF RequestBytes, Code, SSH2_AGENTC_REQUEST_IDENTITIES
  <2> HIDE DEF b
  <2> DEFINE m == <<b>>
  <2>3. m \in Bytes /\ Len(m) = 1 /\ m[1] = b
    BY <2>1, OneByte
  <2> HIDE DEF m
  <2>4. m # <<>>
    <3>1. Len(m) # 0
      BY <2>3
    <3> QED BY <3>1, EmptySeq
  <2>5. \A w : Placed(w, 0, String(m)) => Told(w, {b})
    BY <2>3, <2>4 DEF Told
  <2>6. String(m) \in Bytes
    BY <2>3, StringBytes
  <2> QED BY <1>2, <2>1, <2>5, <2>6 DEF m, b
<1> QED BY <1>1, <1>2

-----------------------------------------------------------------------------
(* A key that is loaded is the one that was made for its identity as it was.    *)
Cached ==
  /\ idents \in [Slots -> Contents] /\ fetched \in [Slots -> Contents]
  /\ \A i \in Slots : cached[i] \in {KeyOf(fetched[i]), <<>>}

(* The recursion over the identities.                                        *)
LEMMA ResponseDef ==
  ASSUME NEW counted
  PROVE  \A i \in 0..Len(Idents) : Response(counted)[i] =
           IF i = 0 THEN <<SSH2_AGENT_IDENTITIES_ANSWER>> \o Int32(NumLoadedKeys(counted))
           ELSE IF i \in Loaded THEN Response(counted)[i - 1] \o String(cached[i]) \o String(idents[i].comment)
           ELSE Response(counted)[i - 1]
<1> DEFINE first == <<SSH2_AGENT_IDENTITIES_ANSWER>> \o Int32(NumLoadedKeys(counted))
           next(r, i) == IF i \in Loaded THEN r \o String(cached[i]) \o String(idents[i].comment) ELSE r
           G(f, m) == f = [i \in 0..m |-> IF i = 0 THEN first ELSE next(f[i - 1], i)]
           T == {m \in Nat : \E f : G(f, m)}
<1>1. Response(counted) = CHOOSE f : G(f, Len(Idents))
  BY DEF Response
<1> HIDE DEF first, next
<1>2. 0 \in T
  <2>1. G([i \in 0..0 |-> first], 0)
    OBVIOUS
  <2> QED BY <2>1
<1>3. ASSUME NEW m \in Nat, m \in T
      PROVE  m + 1 \in T
  <2>1. PICK f : G(f, m)
    BY <1>3
  <2> DEFINE g == [i \in 0..(m + 1) |-> IF i = m + 1 THEN next(f[m], m + 1) ELSE f[i]]
  <2>2. \A i \in 0..(m + 1) : g[i] = IF i = 0 THEN first ELSE next(g[i - 1], i)
    <3> TAKE i \in 0..(m + 1)
    <3>1. CASE i = m + 1
      BY <3>1
    <3>2. CASE i # m + 1
      <4>1. i \in 0..m /\ g[i] = f[i] /\ (i # 0 => i - 1 \in 0..m /\ g[i - 1] = f[i - 1])
        BY <3>2
      <4>2. f[i] = IF i = 0 THEN first ELSE next(f[i - 1], i)
        BY <2>1, <4>1
      <4> QED BY <4>1, <4>2
    <3> QED BY <3>1, <3>2
  <2>3. G(g, m + 1)
    BY <2>2
  <2> HIDE DEF g, G
  <2> QED BY <2>3
<1>4. \E f : G(f, Len(Idents))
  <2>1. \A m \in Nat : m \in T
    <3> HIDE DEF T
    <3> QED BY <1>2, <1>3, SetInduction
  <2>2. Len(Idents) \in Nat
    BY IdentityKeys
  <2> HIDE DEF G
  <2> QED BY <2>1, <2>2
<1>5. G(Response(counted), Len(Idents))
  <2> HIDE DEF G
  <2> QED BY <1>1, <1>4
<1> QED BY <1>5 DEF first, next

(* There are finitely many identities.                                       *)
LEMMA FiniteSlots ==
  ASSUME NEW U \in SUBSET Slots
  PROVE  IsFiniteSet(U)
<1> DEFINE n == Len(Idents)
<1>1. n \in Int /\ Slots = 1..n
  BY IdentityKeys
<1> HIDE DEF n
<1>2. IsFiniteSet(1..n)
  BY <1>1, FS_Interval
<1> QED BY <1>1, <1>2, FS_Subset

(* What becomes the answer to a request for a list, after each identity.       *)
LEMMA Responses ==
  ASSUME Cached, NEW counted \in SUBSET Slots, NEW k \in 0..Len(Idents)
  PROVE  /\ Response(counted)[k] \in Bytes /\ Len(Response(counted)[k]) >= 1
         /\ Response(counted)[k][1] = SSH2_AGENT_IDENTITIES_ANSWER
         /\ NumLoadedKeys(counted) \in Nat
<1> DEFINE b == SSH2_AGENT_IDENTITIES_ANSWER
           r == Response(counted)
           N == Len(Idents)
           T == {i \in Nat : i <= N => r[i] \in Bytes /\ Len(r[i]) >= 1 /\ r[i][1] = b}
<1>1. N \in Nat
  BY IdentityKeys
<1>2. 0 \in T
  <2> DEFINE c == NumLoadedKeys(counted)
  <2>1. c \in Nat
    BY FiniteSlots, FS_CardinalityType DEF NumLoadedKeys
  <2>2. b \in 0..255
    BY DEF SSH2_AGENT_IDENTITIES_ANSWER
  <2>3. r[0] = <<b>> \o Int32(c)
    <3> DEFINE z == 0
    <3>1. z \in 0..N /\ z = 0
      BY <1>1
    <3> HIDE DEF z
    <3>2. r[z] = <<b>> \o Int32(c)
      BY <3>1, ResponseDef
    <3> QED BY <3>1, <3>2
  <2> HIDE DEF b, c, r
  <2>4. Int32(c) \in Bytes
    BY <2>1, Int32Bytes
  <2> DEFINE d == Int32(c)
  <2> HIDE DEF d
  <2>5. /\ <<b>> \o d \in Bytes /\ Len(<<b>> \o d) = 1 + Len(d) /\ Len(d) \in Nat /\ (<<b>> \o d)[1] = b
    <3>1. d \in Bytes
      BY <2>4 DEF d
    <3>2. b \in 0..255
      BY <2>2
    <3> QED BY <3>1, <3>2, ByteBefore
  <2>6. r[0] \in Bytes /\ Len(r[0]) >= 1 /\ r[0][1] = b
    BY <2>3, <2>5 DEF d
  <2> QED BY <2>6
<1>3. ASSUME NEW j \in Nat, j \in T
      PROVE  j + 1 \in T
  <2>1. SUFFICES ASSUME j + 1 <= N PROVE r[j + 1] \in Bytes /\ Len(r[j + 1]) >= 1 /\ r[j + 1][1] = b
    OBVIOUS
  <2> DEFINE i == j + 1
             p == r[j]
  <2>2. i \in Slots /\ i \in 0..N /\ i # 0 /\ i - 1 = j
    BY <1>1, <2>1, IdentityKeys
  <2>3. p \in Bytes /\ Len(p) \in Nat /\ Len(p) >= 1 /\ p[1] = b
    <3>1. p \in Bytes /\ Len(p) >= 1 /\ p[1] = b
      BY <1>1, <1>3, <2>1
    <3> QED BY <3>1, LenProperties DEF Bytes
  <2>4. r[i] = IF i \in Loaded THEN p \o String(cached[i]) \o String(idents[i].comment) ELSE p
    BY <2>2, ResponseDef
  <2> HIDE DEF i, p, r, b
  <2>5. CASE i \notin Loaded
    BY <2>3, <2>4, <2>5 DEF i
  <2>6. CASE i \in Loaded
    <3> DEFINE s == String(cached[i])
               c == String(idents[i].comment)
               pk == p \o s
    <3>1. s \in Bytes /\ c \in Bytes
      <4>1. cached[i] = KeyOf(fetched[i]) /\ fetched[i] \in Contents /\ idents[i] \in Contents
        BY <2>2, <2>6 DEF Cached, Loaded
      <4>2. cached[i] \in Bytes /\ idents[i].comment \in Bytes
        BY <4>1, IdentityFields
      <4> QED BY <4>2, StringBytes
    <3> HIDE DEF s, c
    <3>2. pk \in Bytes /\ Len(pk) = Len(p) + Len(s) /\ Len(s) \in Nat /\ \A n \in 1..Len(p) : pk[n] = p[n]
      BY <2>3, <3>1, ConcatBytes
    <3>3. r[i] = pk \o c
      BY <2>4, <2>6 DEF s, c
    <3> HIDE DEF pk
    <3>4. pk \o c \in Bytes /\ Len(pk \o c) = Len(pk) + Len(c) /\ Len(c) \in Nat
          /\ \A n \in 1..Len(pk) : (pk \o c)[n] = pk[n]
      BY <3>1, <3>2, ConcatBytes
    <3>5. 1 \in 1..Len(p) /\ 1 \in 1..Len(pk) /\ Len(pk) + Len(c) >= 1
      BY <2>3, <3>2, <3>4
    <3> QED BY <2>3, <3>2, <3>3, <3>4, <3>5 DEF i
  <2> QED BY <2>5, <2>6
<1>4. k \in Nat /\ k <= N /\ k \in T
  <2>1. \A i \in Nat : i \in T
    <3> HIDE DEF T
    <3> QED BY <1>2, <1>3, SetInduction
  <2>2. k \in Nat /\ k <= N
    BY <1>1
  <2> QED BY <2>1, <2>2
<1> QED BY <1>4, FiniteSlots, FS_CardinalityType DEF NumLoadedKeys

(* The answer to a request for a list.                                       *)
LEMMA AnswersTold ==
  ASSUME Cached, NEW counted \in SUBSET Slots
  PROVE  /\ Answer(counted) \in Bytes
         /\ \A w : Placed(w, 0, Answer(counted)) => Told(w, {SSH2_AGENT_IDENTITIES_ANSWER})
<1> DEFINE b == SSH2_AGENT_IDENTITIES_ANSWER
           r == Response(counted)
           N == Len(Idents)
<1>1. N \in 0..N
  BY IdentityKeys
<1>4. r[N] \in Bytes /\ Len(r[N]) >= 1 /\ r[N][1] = b
  BY <1>1, Responses
<1> DEFINE m == r[N]
<1>5. Answer(counted) = String(m)
  BY DEF Answer
<1> HIDE DEF r, N, b
<1>6. m # <<>>
  <2>1. Len(<<>>) = 0 /\ ~(0 >= 1)
    BY EmptySeq
  <2> QED BY <1>4, <2>1
<1>7. \A w : Placed(w, 0, String(m)) => Told(w, {b})
  BY <1>4, <1>6 DEF Told
<1> QED BY <1>4, <1>5, <1>7, StringBytes DEF b

-----------------------------------------------------------------------------
(* The bytes of a mapping.                                                  *)
Space == [1..MapLength -> 0..255]

(* The bytes of a mapping are MapLength bytes.                             *)
LEMMA Spaces ==
  /\ MapLength \in Nat /\ MapLength < Sizes
  /\ \A w : w \in Space <=> w \in Bytes /\ Len(w) = MapLength
<1>1. MapLength \in Nat /\ MapLength < Sizes
  BY RequestsAssumption
<1>2. ASSUME NEW w \in Space PROVE w \in Bytes /\ Len(w) = MapLength
  <2>1. w \in Seq(0..255) /\ DOMAIN w = 1..MapLength
    BY <1>1, SeqDef DEF Space
  <2> QED BY <1>1, <2>1, LenProperties DEF Bytes
<1>3. ASSUME NEW w \in Bytes, Len(w) = MapLength PROVE w \in Space
  BY <1>3, LenProperties DEF Bytes, Space
<1> QED BY <1>1, <1>2, <1>3

(* What is written over the beginning of a mapping.                          *)
LEMMA Overwritten ==
  ASSUME NEW w \in Space, NEW d \in Bytes, Len(d) <= MapLength
  PROVE  Overwrite(w, d) \in Space /\ Placed(Overwrite(w, d), 0, d)
<1> DEFINE a == Len(d)
           b == Len(w)
           s == SubSeq(w, a + 1, b)
<1>1. w \in Bytes /\ Len(w) = MapLength /\ MapLength \in Nat /\ a \in Nat
  BY Spaces, LenProperties DEF Bytes
<1>2. a \in Nat /\ b \in Nat /\ a <= b /\ b <= Len(w) /\ b = MapLength
  BY <1>1
<1>3. Overwrite(w, d) = d \o s
  BY DEF Overwrite
<1> HIDE DEF a, b
<1>4. s \in Bytes /\ Len(s) = b - a
  BY <1>1, <1>2, SubBytes
<1> HIDE DEF s
<1>5. /\ d \o s \in Bytes /\ Len(d \o s) = Len(d) + Len(s)
      /\ \A k \in 1..Len(d) : (d \o s)[k] = d[k]
  BY <1>4, ConcatBytes
<1>6. Len(d \o s) = MapLength /\ 0 + Len(d) <= MapLength
  BY <1>2, <1>4, <1>5 DEF a
<1>7. d \o s \in Space
  BY <1>5, <1>6, Spaces
<1>8. Placed(d \o s, 0, d)
  <2>1. \A k \in 1..Len(d) : 0 + k = k
    BY <1>2 DEF a
  <2> QED BY <1>5, <1>6, <2>1 DEF Placed
<1> QED BY <1>3, <1>7, <1>8

(* What MemoryMap::Write makes of a mapping.                                 *)
LEMMA Writes ==
  ASSUME NEW w \in Space, NEW d \in Bytes
  PROVE  /\ Write(w, d) \in Space
         /\ Write(w, d) = w \/ Placed(Write(w, d), 0, d)
<1>1. CASE Len(d) >= MapLength
  BY <1>1 DEF Write
<1>2. CASE ~(Len(d) >= MapLength)
  <2>1. Len(d) <= MapLength
    BY <1>2, Spaces, LenProperties DEF Bytes
  <2>2. Overwrite(w, d) \in Space /\ Placed(Overwrite(w, d), 0, d)
    BY <2>1, Overwritten
  <2> QED BY <1>2, <2>2 DEF Write
<1> QED BY <1>1, <1>2

(* The answer to a request with a key that is not known.                     *)
LEMMA FailuresTold ==
  Failure \in Bytes /\ \A w : Placed(w, 0, Failure) => Told(w, {SSH_AGENT_FAILURE})
<1> DEFINE b == SSH_AGENT_FAILURE
           m == <<b>>
<1>1. b \in 0..255
  BY DEF SSH_AGENT_FAILURE
<1>2. Failure = String(m)
  BY DEF Failure
<1> HIDE DEF b
<1>3. m \in Bytes /\ Len(m) = 1 /\ m[1] = b
  BY <1>1, OneByte
<1> HIDE DEF m
<1>4. m # <<>>
  <2>1. Len(m) # 0
    BY <1>3
  <2> QED BY <2>1, EmptySeq
<1>5. \A w : Placed(w, 0, String(m)) => Told(w, {b})
  BY <1>3, <1>4 DEF Told
<1> QED BY <1>2, <1>3, <1>5, StringBytes DEF b

(* Zeros in a mapping that is new.                                          *)
LEMMA NewSpace == Zeros \in Space
BY Spaces DEF Zeros, Space

-----------------------------------------------------------------------------
(* The messages that a mapping may have, and the client not take for a         *)
(* signature.                                                               *)
Unsigned == {1, SSH_AGENT_FAILURE, SSH2_AGENTC_REQUEST_IDENTITIES,
             SSH2_AGENT_IDENTITIES_ANSWER, SSH2_AGENTC_SIGN_REQUEST}

(* The mapping has the client's request until it is answered, unless the        *)
(* handler of a dead client wrote a list over it; then it has an answer, and a   *)
(* signature only if the Ledger made one, on what was asked.                  *)
Asks(call, w) ==
  Placed(w, 0, RequestBytes(call.req)) \/ Told(w, {SSH2_AGENT_IDENTITIES_ANSWER})

Has(call, w) ==
  \/ Told(w, Unsigned)
  \/ /\ call.signed # NotSigned
     /\ Placed(w, 0, SignResponse(call.signed.ident.ktype,
                                  DER(call.signed.by[1], call.signed.by[2])))

AsAsked(call) ==
  call.signed # NotSigned =>
    /\ call.req.kind = "sign" /\ KeyOf(call.signed.was) = call.req.key
    /\ call.signed.challenge = call.req.challenge

CallOK(call, m) ==
  /\ call.st # "idle" => m.held
  /\ call.st \in {"asked", "waiting"} => Asks(call, m.bytes)
  /\ call.st = "done" => Has(call, m.bytes) /\ AsAsked(call)

(* All but the clients and their mappings.                                   *)
Around ==
  /\ Cached
  /\ cached \in [Slots -> Key \cup {<<>>}]
  /\ attached \in BOOLEAN /\ handle \in {"null", "live", "stale"}
  /\ names \subseteq Clients
  /\ stack \in Seq(Frame) /\ Len(stack) <= MaxDepth
  /\ asks \in 0..MaxAsks
  /\ status \in {"running", "exited", "crashed", "hung", "undefined"}

(* The inductive invariant, next to VInv.                                    *)
BInv ==
  /\ Around
  /\ maps \in [Clients -> Mapping] /\ clients \in [Clients -> Call]
  /\ \A c \in Clients : CallOK(clients[c], maps[c])

(* The kinds of calls.                                                      *)
LEMMA Calls ==
  /\ \A x \in Call : /\ x.st \in {"idle", "asked", "waiting", "done"}
                     /\ x.st # "idle" => x.req \in Requests
                     /\ x.st = "done" => x.ret \in BOOLEAN /\ x.signed \in Signings \cup {NotSigned}
  /\ [st |-> "idle"] \in Call
  /\ \A q \in Requests : /\ [st |-> "asked", req |-> q] \in Call
                         /\ [st |-> "waiting", req |-> q] \in Call
                         /\ \A r \in BOOLEAN, g \in Signings \cup {NotSigned} :
                              [st |-> "done", req |-> q, ret |-> r, signed |-> g] \in Call
BY DEF Call

(* A message of a kind is one of more kinds.                                 *)
LEMMA ToldMore ==
  ASSUME NEW w, NEW A, NEW B, A \subseteq B, Told(w, A)
  PROVE  Told(w, B)
BY DEF Told

(* A request, or a list that was written over it, is not a signature.          *)
LEMMA AsksTold ==
  ASSUME NEW x \in Call, x.st # "idle", NEW w, Asks(x, w)
  PROVE  Told(w, Unsigned)
<1>1. x.req \in Requests
  BY Calls
<1>2. CASE Placed(w, 0, RequestBytes(x.req))
  <2>1. Told(w, {Code(x.req)})
    BY <1>1, <1>2, RequestsTold
  <2>2. {Code(x.req)} \subseteq Unsigned
    BY <1>1 DEF Requests, Code, Unsigned
  <2> QED BY <2>1, <2>2, ToldMore
<1>3. CASE Told(w, {SSH2_AGENT_IDENTITIES_ANSWER})
  <2>1. {SSH2_AGENT_IDENTITIES_ANSWER} \subseteq Unsigned
    BY DEF Unsigned
  <2> QED BY <1>3, <2>1, ToldMore
<1> QED BY <1>2, <1>3 DEF Asks

(* A call that returns without a signature: its mapping is as it was, or has    *)
(* another message.                                                         *)
LEMMA ReturnsUnsigned ==
  ASSUME NEW x \in Call, x.st # "idle", NEW w \in Space, Asks(x, w), NEW d \in Bytes,
         NEW b \in Unsigned, \A v : Placed(v, 0, d) => Told(v, {b}),
         NEW v \in {w, Write(w, d)}, NEW y, y.st = "done", y.signed = NotSigned,
         NEW m, m.bytes = v, m.held
  PROVE  CallOK(y, m)
<1>1. Told(w, Unsigned)
  BY AsksTold
<1>2. {b} \subseteq Unsigned
  OBVIOUS
<1>3. Told(v, Unsigned)
  BY <1>1, <1>2, Writes, ToldMore
<1> QED BY <1>3 DEF CallOK, Has, AsAsked

(* One client does something, in its call and its mapping.                    *)
LEMMA OneClient ==
  ASSUME BInv, Around', NEW c \in Clients, NEW x \in Call, NEW m \in Mapping, CallOK(x, m),
         clients' = [clients EXCEPT ![c] = x], maps' = [maps EXCEPT ![c] = m]
  PROVE  BInv'
<1>1. maps \in [Clients -> Mapping] /\ clients \in [Clients -> Call]
      /\ \A d \in Clients : CallOK(clients[d], maps[d])
  BY DEF BInv
<1>2. maps' \in [Clients -> Mapping] /\ clients' \in [Clients -> Call]
  BY <1>1
<1>3. ASSUME NEW d \in Clients PROVE CallOK(clients[d]', maps[d]')
  <2>1. CASE d = c
    <3>1. clients'[c] = x /\ maps'[c] = m
      BY <1>1
    <3> QED BY <2>1, <3>1 DEF CallOK, Has, Asks, AsAsked
  <2>2. CASE d # c
    <3>1. clients'[d] = clients[d] /\ maps'[d] = maps[d]
      BY <1>1, <2>2
    <3> QED BY <1>1, <3>1
  <2> QED BY <2>1, <2>2
<1> QED BY <1>2, <1>3 DEF BInv

(* The calls cl match the mappings.                                          *)
Match(cl) ==
  /\ maps \in [Clients -> Mapping] /\ cl \in [Clients -> Call]
  /\ \A c \in Clients : CallOK(cl[c], maps[c])

(* A call that is made is a call that waits.                                 *)
LEMMA WaitingMatches ==
  ASSUME Match(clients), NEW c \in Clients, clients[c].st = "asked"
  PROVE  /\ Match(Waits(c))
         /\ Waits(c) = [clients EXCEPT ![c] = [st |-> "waiting", req |-> clients[c].req]]
         /\ [st |-> "waiting", req |-> clients[c].req] \in Call
         /\ CallOK([st |-> "waiting", req |-> clients[c].req], maps[c])
<1> DEFINE x == [st |-> "waiting", req |-> clients[c].req]
<1>1. clients \in [Clients -> Call] /\ clients[c] \in Call /\ CallOK(clients[c], maps[c])
  BY DEF Match
<1>2. x \in Call
  BY <1>1, Calls
<1>3. CallOK(x, maps[c])
  BY <1>1 DEF CallOK, Asks
<1>4. Waits(c) = [clients EXCEPT ![c] = x]
  BY DEF Waits
<1> HIDE DEF x
<1>5. Waits(c) \in [Clients -> Call] /\ \A d \in Clients : CallOK(Waits(c)[d], maps[d])
  BY <1>1, <1>2, <1>3, <1>4 DEF Match
<1>6. Match(Waits(c))
  BY <1>5 DEF Match
<1> QED BY <1>2, <1>3, <1>4, <1>6 DEF x

(* The process ends over the calls in cl.                                    *)
LEMMA EndsMatch ==
  ASSUME Around, NEW cl, Match(cl), NEW s \in {"exited", "crashed", "undefined"}, Ends(s, cl),
         asks \in 0..MaxAsks, attached' \in BOOLEAN
  PROVE  BInv'
<1> DEFINE left(m) == [m EXCEPT !.kept = FALSE, !.view = "none"]
<1>1. \A m \in Mapping :
        /\ Released(left(m)) \in Mapping
        /\ m.held => Released(left(m)).held /\ Released(left(m)).bytes = m.bytes
  BY NewSpace DEF Mapping, Released, Space
<1>2. \A c \in Clients : maps'[c] = Released(left(maps[c]))
  BY DEF Ends
<1>3. maps' \in [Clients -> Mapping]
      /\ \A c \in Clients : maps[c].held => maps'[c].held /\ maps'[c].bytes = maps[c].bytes
  <2>1. maps \in [Clients -> Mapping] /\ maps' = [c \in Clients |-> Released(left(maps[c]))]
    BY DEF Match, Ends
  <2> HIDE DEF left
  <2> QED BY <1>1, <1>2, <2>1
<1>4. ASSUME NEW c \in Clients
      PROVE  clients'[c] \in Call /\ CallOK(clients'[c], maps'[c])
  <2>1. cl[c] \in Call /\ CallOK(cl[c], maps[c])
    BY DEF Match
  <2>2. CASE cl[c].st = "waiting"
    <3> DEFINE x == [st |-> "done", req |-> cl[c].req, ret |-> FALSE, signed |-> NotSigned]
    <3>1. clients'[c] = x
      BY <2>2 DEF Ends
    <3>2. x \in Call
      BY <2>1, <2>2, Calls
    <3>3. maps[c].held /\ Asks(cl[c], maps[c].bytes)
      BY <2>1, <2>2 DEF CallOK
    <3>4. Told(maps[c].bytes, Unsigned)
      BY <2>1, <2>2, <3>3, AsksTold
    <3>5. maps'[c].held /\ maps'[c].bytes = maps[c].bytes
      BY <1>3, <3>3
    <3>6. CallOK(x, maps'[c])
      BY <3>4, <3>5 DEF CallOK, Has, AsAsked
    <3> QED BY <3>1, <3>2, <3>6
  <2>3. CASE cl[c].st # "waiting"
    <3>1. clients'[c] = cl[c]
      BY <2>3 DEF Ends
    <3>2. CASE cl[c].st = "idle"
      BY <2>1, <3>1, <3>2 DEF CallOK
    <3>3. CASE cl[c].st # "idle"
      <4>1. maps'[c].held /\ maps'[c].bytes = maps[c].bytes
        BY <1>3, <2>1, <3>3 DEF CallOK
      <4> QED BY <2>1, <3>1, <4>1 DEF CallOK
    <3> QED BY <3>2, <3>3
  <2> QED BY <2>2, <2>3
<1>5. clients' \in [Clients -> Call]
  BY <1>4 DEF Ends
<1>6. Around'
  <2>1. <<>> \in Seq(Frame) /\ Len(<<>>) <= MaxDepth
    BY EmptySeq, RequestsAssumption
  <2>2. stack' = <<>> /\ names' = {} /\ handle' = "null" /\ asks' = asks /\ status' = s
        /\ cached' = [i \in Slots |-> <<>>] /\ UNCHANGED ids
    BY DEF Ends
  <2> QED BY <2>1, <2>2 DEF Around, Cached, ids
<1> QED BY <1>3, <1>4, <1>5, <1>6 DEF BInv

(* The Ledger is lost in a handler.                                          *)
LEMMA LostMatch ==
  ASSUME Around, NEW cl, Match(cl), Lost(cl)
  PROVE  BInv'
<1>1. attached' \in BOOLEAN /\ asks \in 0..MaxAsks
  BY DEF Lost, Around
<1>2. CASE Ends("crashed", cl)
  BY <1>1, <1>2, EndsMatch
<1>3. CASE /\ status' = "hung" /\ clients' = cl /\ handle' = "stale"
           /\ UNCHANGED <<ids, cached, names, maps, stack, asks>>
  <2>1. Around'
    BY <1>1, <1>3 DEF Around, Cached, ids
  <2> QED BY <1>3, <2>1 DEF BInv, Match
<1> QED BY <1>2, <1>3 DEF Lost

(* At the start.                                                            *)
LEMMA CallsInit == Init => BInv
<1> SUFFICES ASSUME Init PROVE BInv
  OBVIOUS
<1>1. Around
  <2>1. <<>> \in Seq(Frame) /\ Len(<<>>) <= MaxDepth /\ 0 \in 0..MaxAsks
    BY EmptySeq, RequestsAssumption
  <2>2. idents \in [Slots -> Contents] /\ fetched = idents
    <3>1. Idents \in [Slots -> Contents]
      BY RequestsAssumption DEF Slots, Contents
    <3> QED BY <3>1 DEF Init
  <2> QED BY <2>1, <2>2 DEF Init, Around, Cached
<1>2. NoMapping \in Mapping
  BY NewSpace DEF NoMapping, Mapping, Space
<1>3. maps \in [Clients -> Mapping] /\ clients \in [Clients -> Call]
  BY <1>2, Calls DEF Init
<1>4. \A c \in Clients : CallOK(clients[c], maps[c])
  BY DEF Init, CallOK
<1> QED BY <1>1, <1>3, <1>4 DEF BInv

(* Handlers stay suspended when entries move.                                *)
LEMMA SameDepth ==
  ASSUME VInv, Around, NEW c, NEW s \in GetOrCreateMap(c)
  PROVE  s \in Seq(Frame) /\ Len(s) \in Nat /\ Len(s) <= MaxDepth
<1>1. s \in Seq(Frame) /\ DOMAIN s = DOMAIN stack
  BY MapLookup
<1>2. /\ Len(s) \in Nat /\ DOMAIN s = 1..Len(s)
      /\ Len(stack) \in Nat /\ DOMAIN stack = 1..Len(stack) /\ Len(stack) <= MaxDepth
  BY <1>1, LenProperties DEF Around
<1>3. CASE Len(s) = 0
  BY <1>1, <1>3, RequestsAssumption
<1>4. CASE Len(s) # 0
  <2>1. Len(s) \in 1..Len(s)
    BY <1>2, <1>4
  <2>2. Len(s) \in 1..Len(stack)
    BY <1>1, <1>2, <2>1
  <2> QED BY <1>1, <1>2, <2>2, RequestsAssumption
<1> QED BY <1>3, <1>4

(* A request is written.                                                    *)
LEMMA AskKeeps ==
  ASSUME BInv, NEW c \in Clients, NEW q \in Requests, Ask(c, q)
  PROVE  BInv'
<1> DEFINE b == Overwrite(maps[c].bytes, RequestBytes(q))
           x == [st |-> "asked", req |-> q]
           m == [maps[c] EXCEPT !.held = TRUE, !.bytes = b]
<1>1. Around'
  <2>1. asks' \in 0..MaxAsks
    BY RequestsAssumption DEF Ask, BInv, Around
  <2> QED BY <2>1 DEF Ask, BInv, Around, Cached, ids, dev
<1>2. maps \in [Clients -> Mapping] /\ maps[c] \in Mapping /\ maps[c].bytes \in Space
  BY DEF BInv, Mapping, Space
<1>3. b \in Space /\ Placed(b, 0, RequestBytes(q))
  <2>1. Len(RequestBytes(q)) <= MapLength
    BY DEF Ask
  <2>2. RequestBytes(q) \in Bytes
    BY RequestsTold
  <2> QED BY <1>2, <2>1, <2>2, Overwritten
<1>4. x \in Call
  BY Calls
<1>5. clients' = [clients EXCEPT ![c] = x]
  BY DEF Ask
<1>6. maps' = [maps EXCEPT ![c] = m]
  BY <1>2 DEF Ask
<1> HIDE DEF b
<1>7. m \in Mapping /\ m.held /\ m.bytes = b
  BY <1>2, <1>3 DEF Mapping, Space
<1> HIDE DEF m
<1>8. CallOK(x, m)
  BY <1>3, <1>7 DEF CallOK, Asks
<1> HIDE DEF x
<1> QED BY <1>1, <1>4, <1>5, <1>6, <1>7, <1>8, OneClient

(* A client is gone, and its file with it.                                   *)
LEMMA GoneKeeps ==
  ASSUME BInv, NEW c \in Clients, Around', maps' = CloseMapping(c),
         clients' = [clients EXCEPT ![c] = [st |-> "idle"]]
  PROVE  BInv'
<1> DEFINE m == Released([maps[c] EXCEPT !.held = FALSE])
           x == [st |-> "idle"]
<1>1. x \in Call
  BY Calls
<1>2. \A r \in Mapping : Released([r EXCEPT !.held = FALSE]) \in Mapping
  BY NewSpace DEF Released, Mapping, Space
<1>3. maps \in [Clients -> Mapping] /\ m \in Mapping
  BY <1>2 DEF BInv
<1>4. maps' = [maps EXCEPT ![c] = m]
  BY <1>3 DEF CloseMapping
<1>5. CallOK(x, m)
  BY DEF CallOK
<1> HIDE DEF m, x
<1> QED BY <1>1, <1>3, <1>4, <1>5, OneClient DEF x

(* A client takes its answer.                                              *)
LEMMA LeaveKeeps ==
  ASSUME BInv, NEW c \in Clients, Leave(c)
  PROVE  BInv'
<1>1. Around'
  BY DEF Leave, BInv, Around, Cached, ids, dev
<1> QED BY <1>1, GoneKeeps DEF Leave

(* A client dies; the frames of its handlers say so.                       *)
LEMMA DieKeeps ==
  ASSUME BInv, NEW c \in Clients, Die(c)
  PROVE  BInv'
<1>1. /\ stack \in Seq(Frame) /\ Len(stack) \in Nat /\ DOMAIN stack = 1..Len(stack)
      /\ Len(stack) <= MaxDepth /\ \A j \in DOMAIN stack : stack[j] \in Frame
  BY LenProperties, ElementOfSeq DEF BInv, Around
<1>2. \A f \in Frame : [f EXCEPT !.orphan = TRUE] \in Frame
  BY DEF Frame
<1>3. stack' \in [1..Len(stack) -> Frame]
  BY <1>1, <1>2 DEF Die
<1>4. stack' \in Seq(Frame)
  BY <1>1, <1>3, SeqDef
<1>5. Len(stack') = Len(stack)
  BY <1>1, <1>3, <1>4, LenProperties
<1>6. Around'
  BY <1>1, <1>4, <1>5 DEF Die, BInv, Around, Cached, ids, dev
<1> QED BY <1>6, GoneKeeps DEF Die

(* The mapping of a call that is served.                                     *)
LEMMA Serving ==
  ASSUME BInv, NEW c \in Clients, Calling(c)
  PROVE  /\ Match(clients) /\ clients[c] \in Call /\ clients[c].st = "asked"
         /\ clients[c].req \in Requests
         /\ maps[c] \in Mapping /\ maps[c].held /\ maps[c].bytes \in Space
         /\ maps[c].bytes \in Bytes /\ Len(maps[c].bytes) < Sizes
         /\ Asks(clients[c], maps[c].bytes)
<1>1. Match(clients) /\ clients[c] \in Call /\ clients[c].st = "asked" /\ CallOK(clients[c], maps[c])
      /\ maps[c] \in Mapping
  BY DEF BInv, Match, Calling
<1>2. maps[c].bytes \in Space
  BY <1>1 DEF Mapping, Space
<1>3. clients[c].req \in Requests
  BY <1>1, Calls
<1> QED BY <1>1, <1>2, <1>3, Spaces DEF CallOK

(* What becomes of the entry's mapping.                                      *)
LEMMA OpenedMapping ==
  ASSUME maps \in [Clients -> Mapping], NEW c \in Clients, NEW b \in Space
  PROVE  \E m \in Mapping : /\ m.bytes = b /\ m.held = maps[c].held
                            /\ Opened(c, b) = [maps EXCEPT ![c] = m]
<1> DEFINE next(r) == [r EXCEPT !.bytes = b, !.kept = TRUE, !.view = "live"]
           m == next(maps[c])
<1>0. \A r \in Mapping : next(r) \in Mapping /\ next(r).bytes = b /\ next(r).held = r.held
  BY DEF Mapping, Space
<1>1. m \in Mapping /\ m.bytes = b /\ m.held = maps[c].held
  <2> HIDE DEF next
  <2> QED BY <1>0
<1>2. Opened(c, b) = [maps EXCEPT ![c] = m]
  BY DEF Opened
<1> HIDE DEF m
<1> QED BY <1>1, <1>2

(* The same, with a Close.                                                 *)
LEMMA ClosedMapping ==
  ASSUME maps \in [Clients -> Mapping], NEW c \in Clients, NEW b \in Space
  PROVE  \E m \in Mapping : /\ m.bytes = b /\ m.held = maps[c].held
                            /\ OpenedAndClosed(c, b) = [maps EXCEPT ![c] = m]
<1> DEFINE next(r) == [r EXCEPT !.bytes = b, !.view = "closed"]
           m == next(maps[c])
<1>0. \A r \in Mapping : next(r) \in Mapping /\ next(r).bytes = b /\ next(r).held = r.held
  BY DEF Mapping, Space
<1>1. m \in Mapping /\ m.bytes = b /\ m.held = maps[c].held
  <2> HIDE DEF next
  <2> QED BY <1>0
<1>2. OpenedAndClosed(c, b) = [maps EXCEPT ![c] = m]
  BY DEF OpenedAndClosed
<1> HIDE DEF m
<1> QED BY <1>1, <1>2

(* A handler returns to its client: what it wrote, if anything, is a message    *)
(* of one kind, and no signature.                                           *)
LEMMA ReturnKeeps ==
  ASSUME BInv, Around', NEW c \in Clients, clients[c].st \in {"asked", "waiting"},
         NEW r \in BOOLEAN, clients' = Returned(c, r, NotSigned),
         NEW d \in Bytes, NEW k \in Unsigned, \A v : Placed(v, 0, d) => Told(v, {k}),
         NEW b \in {maps[c].bytes, Write(maps[c].bytes, d)},
         NEW m \in Mapping, m.bytes = b, m.held = maps[c].held, maps' = [maps EXCEPT ![c] = m]
  PROVE  BInv'
<1> DEFINE x == [st |-> "done", req |-> clients[c].req, ret |-> r, signed |-> NotSigned]
<1>1. /\ clients[c] \in Call /\ clients[c].st # "idle" /\ CallOK(clients[c], maps[c])
      /\ maps[c] \in Mapping
  BY DEF BInv
<1>2. maps[c].held /\ Asks(clients[c], maps[c].bytes) /\ maps[c].bytes \in Space
  BY <1>1 DEF CallOK, Mapping, Space
<1>3. x \in Call
  BY <1>1, Calls
<1>4. x.st = "done" /\ x.signed = NotSigned
  OBVIOUS
<1>5. clients' = [clients EXCEPT ![c] = x]
  BY DEF Returned
<1> HIDE DEF x
<1>6. CallOK(x, m)
  BY <1>1, <1>2, <1>4, ReturnsUnsigned
<1> QED BY <1>3, <1>5, <1>6, OneClient

(* An operation that is not known.                                           *)
LEMMA OtherKeeps ==
  ASSUME VInv, BInv, NEW c \in Clients, CopyDataOther(c)
  PROVE  BInv'
<1>1. clients[c].st = "asked" /\ maps[c].bytes \in Space /\ maps \in [Clients -> Mapping]
  BY Serving DEF CopyDataOther, Match
<1>2. Around'
  <2>1. stack' \in Seq(Frame) /\ Len(stack') <= MaxDepth
    BY SameDepth DEF BInv, CopyDataOther
  <2> QED BY <2>1 DEF CopyDataOther, BInv, Around, Cached, ids, dev
<1>3. PICK m \in Mapping : /\ m.bytes = maps[c].bytes /\ m.held = maps[c].held
                          /\ maps' = [maps EXCEPT ![c] = m]
  <2> DEFINE b == maps[c].bytes
  <2>1. b \in Space /\ maps' = Opened(c, b)
    BY <1>1 DEF CopyDataOther
  <2> HIDE DEF b
  <2>2. PICK m \in Mapping : m.bytes = b /\ m.held = maps[c].held /\ Opened(c, b) = [maps EXCEPT ![c] = m]
    BY <1>1, <2>1, OpenedMapping
  <2> QED BY <2>1, <2>2 DEF b
<1>4. Failure \in Bytes /\ SSH_AGENT_FAILURE \in Unsigned
      /\ \A v : Placed(v, 0, Failure) => Told(v, {SSH_AGENT_FAILURE})
  BY FailuresTold DEF Unsigned
<1>5. clients' = Returned(c, FALSE, NotSigned)
  BY DEF CopyDataOther
<1>6. clients[c].st \in {"asked", "waiting"} /\ FALSE \in BOOLEAN
  BY <1>1
<1> QED BY <1>2, <1>3, <1>4, <1>5, <1>6, ReturnKeeps

(* A list, or a box in front of it.                                          *)
LEMMA ListKeeps ==
  ASSUME VInv, BInv, NEW c \in Clients, CopyDataList(c)
  PROVE  BInv'
<1>1. /\ clients[c].st = "asked" /\ maps[c].bytes \in Space /\ maps \in [Clients -> Mapping]
      /\ Match(clients) /\ clients[c].req \in Requests /\ maps[c].held
      /\ Asks(clients[c], maps[c].bytes)
  BY Serving DEF CopyDataList, Match
<1>2. PICK s \in GetOrCreateMap(c) :
       \/ /\ \E box \in {"NoKeys", "Present"} : Suspend(s, box, c)
          /\ maps' = Opened(c, maps[c].bytes)
          /\ clients' = Waits(c)
          /\ UNCHANGED handle
       \/ /\ stack' = s
          /\ handle' = "live"
          /\ maps' = Opened(c, Write(maps[c].bytes, Answer(Loaded)))
          /\ clients' = Returned(c, TRUE, NotSigned)
  BY DEF CopyDataList
<1>3. s \in Seq(Frame) /\ Len(s) \in Nat /\ Len(s) <= MaxDepth
  BY SameDepth DEF BInv
<1>4. Loaded \in SUBSET Slots
  BY DEF Loaded
<1>5. CASE /\ \E box \in {"NoKeys", "Present"} : Suspend(s, box, c)
           /\ maps' = Opened(c, maps[c].bytes)
           /\ clients' = Waits(c)
           /\ UNCHANGED handle
  <2>1. PICK box \in {"NoKeys", "Present"} : Suspend(s, box, c)
    BY <1>5
  <2> DEFINE f == [box |-> box, client |-> c, counted |-> Loaded, orphan |-> FALSE, moved |-> FALSE]
  <2>2. f \in Frame
    BY <1>4 DEF Frame
  <2>3. stack' = Append(s, f) /\ Len(s) < MaxDepth
    BY <2>1 DEF Suspend
  <2> HIDE DEF f
  <2>4. stack' \in Seq(Frame) /\ Len(stack') = Len(s) + 1
    BY <1>3, <2>2, <2>3, AppendProperties
  <2>5. Len(stack') <= MaxDepth
    BY <1>3, <2>3, <2>4, RequestsAssumption
  <2>6. Around'
    BY <1>5, <2>4, <2>5 DEF CopyDataList, BInv, Around, Cached, ids
  <2> DEFINE x == [st |-> "waiting", req |-> clients[c].req]
             b == maps[c].bytes
  <2>7. x \in Call /\ CallOK(x, maps[c]) /\ clients' = [clients EXCEPT ![c] = x]
    BY <1>1, <1>5, WaitingMatches
  <2>8. x.st = "waiting" /\ b = maps[c].bytes
    OBVIOUS
  <2>9. maps' = Opened(c, b) /\ b \in Space
    BY <1>1, <1>5
  <2> HIDE DEF x, b
  <2>10. PICK m \in Mapping : /\ m.bytes = b /\ m.held = maps[c].held
                             /\ Opened(c, b) = [maps EXCEPT ![c] = m]
    BY <1>1, <2>9, OpenedMapping
  <2>11. CallOK(x, m)
    BY <2>7, <2>8, <2>10 DEF CallOK
  <2> QED BY <2>6, <2>7, <2>9, <2>10, <2>11, OneClient
<1>6. CASE /\ stack' = s
           /\ handle' = "live"
           /\ maps' = Opened(c, Write(maps[c].bytes, Answer(Loaded)))
           /\ clients' = Returned(c, TRUE, NotSigned)
  <2>1. Around'
    BY <1>3, <1>6 DEF CopyDataList, BInv, Around, Cached, ids
  <2> DEFINE d == Answer(Loaded)
             k == SSH2_AGENT_IDENTITIES_ANSWER
             b == Write(maps[c].bytes, d)
             r == TRUE
  <2>2. k \in Unsigned
    BY DEF Unsigned
  <2>3. Cached
    BY DEF BInv, Around
  <2>4. d \in Bytes /\ \A v : Placed(v, 0, d) => Told(v, {k})
    BY <1>4, <2>3, AnswersTold
  <2>5. r \in BOOLEAN /\ clients' = Returned(c, r, NotSigned)
    BY <1>6
  <2>6. maps' = Opened(c, b)
    BY <1>6
  <2> HIDE DEF d, k, r
  <2>7. b \in Space /\ b \in {maps[c].bytes, Write(maps[c].bytes, d)}
    BY <1>1, <2>4, Writes
  <2> HIDE DEF b
  <2>8. PICK m \in Mapping : /\ m.bytes = b /\ m.held = maps[c].held
                            /\ Opened(c, b) = [maps EXCEPT ![c] = m]
    BY <1>1, <2>7, OpenedMapping
  <2>9. maps' = [maps EXCEPT ![c] = m] /\ clients[c].st \in {"asked", "waiting"}
    BY <1>1, <2>6, <2>8
  <2> QED BY <2>1, <2>2, <2>4, <2>5, <2>7, <2>8, <2>9, ReturnKeeps
<1> QED BY <1>2, <1>5, <1>6

(* The Ledger's signature, the refusal of its user, or a key nobody has.        *)
LEMMA SignKeeps ==
  ASSUME VInv, BInv, NEW c \in Clients, CopyDataSign(c)
  PROVE  BInv'
<1> DEFINE w == maps[c].bytes
           i == Min(Matching(w))
           g(sig) == Signing(i, w, sig)
           answer(sig) == SignResponse(idents[i].ktype, DER(sig[1], sig[2]))
           signs(sig) == /\ maps' = OpenedAndClosed(c, Write(w, answer(sig)))
                         /\ clients' = Returned(c, TRUE, g(sig))
           refused == maps' = OpenedAndClosed(c, w) /\ clients' = Returned(c, TRUE, NotSigned)
           notFound == maps' = Opened(c, Write(w, Failure)) /\ clients' = Returned(c, FALSE, NotSigned)
           around == stack' \in GetOrCreateMap(c) /\ names' = names \cup {c}
                     /\ UNCHANGED <<ids, cached, dev, asks, status>>
<1>1. /\ clients[c] \in Call /\ clients[c].st = "asked" /\ Match(clients)
      /\ clients[c].req \in Requests
      /\ maps[c].held /\ w \in Space /\ maps \in [Clients -> Mapping]
      /\ w \in Bytes /\ Len(w) < Sizes /\ Asks(clients[c], w)
  BY Serving DEF CopyDataSign, Match
<1>2. Operation(w) = SSH2_AGENTC_SIGN_REQUEST
  BY DEF CopyDataSign
<1>3. \/ around /\ notFound
      \/ around /\ Matching(w) # {} /\ refused
      \/ around /\ Matching(w) # {} /\ \E sig \in Signatures : signs(sig)
      \/ Lost(Waits(c))
      \/ Ends("crashed", Waits(c)) /\ UNCHANGED attached
  BY DEF CopyDataSign
<1>4. SSH_AGENT_FAILURE \in Unsigned /\ Failure \in Bytes
      /\ \A v : Placed(v, 0, Failure) => Told(v, {SSH_AGENT_FAILURE})
  BY FailuresTold DEF Unsigned
<1>5. ASSUME around PROVE Around'
  <2>1. stack' \in Seq(Frame) /\ Len(stack') <= MaxDepth
    BY <1>5, SameDepth DEF BInv
  <2> QED BY <1>5, <2>1 DEF BInv, Around, Cached, ids, dev
<1>6. CASE around /\ notFound
  <2> DEFINE b == Write(w, Failure)
             r == FALSE
  <2>1. b \in Space /\ b \in {maps[c].bytes, Write(maps[c].bytes, Failure)}
    BY <1>1, <1>4, Writes
  <2>2. maps' = Opened(c, b) /\ r \in BOOLEAN /\ clients' = Returned(c, r, NotSigned)
    BY <1>6
  <2> HIDE DEF b, r
  <2>3. PICK m \in Mapping : /\ m.bytes = b /\ m.held = maps[c].held
                            /\ Opened(c, b) = [maps EXCEPT ![c] = m]
    BY <1>1, <2>1, OpenedMapping
  <2>4. maps' = [maps EXCEPT ![c] = m] /\ clients[c].st \in {"asked", "waiting"}
    BY <1>1, <2>2, <2>3
  <2>5. Around'
    BY <1>5, <1>6
  <2> QED BY <1>4, <2>1, <2>2, <2>3, <2>4, <2>5, ReturnKeeps
<1>7. CASE around /\ refused
  <2> DEFINE r == TRUE
             b == maps[c].bytes
  <2>1. maps' = OpenedAndClosed(c, b) /\ r \in BOOLEAN /\ clients' = Returned(c, r, NotSigned)
        /\ b \in Space /\ b \in {maps[c].bytes, Write(maps[c].bytes, Failure)}
    BY <1>1, <1>7
  <2> HIDE DEF b, r
  <2>2. PICK m \in Mapping : /\ m.bytes = b /\ m.held = maps[c].held
                            /\ OpenedAndClosed(c, b) = [maps EXCEPT ![c] = m]
    BY <1>1, <2>1, ClosedMapping
  <2>3. maps' = [maps EXCEPT ![c] = m] /\ clients[c].st \in {"asked", "waiting"}
    BY <1>1, <2>1, <2>2
  <2>4. Around'
    BY <1>5, <1>7
  <2> QED BY <1>4, <2>1, <2>2, <2>3, <2>4, ReturnKeeps
(* What is in the mapping is the client's own request for a signature.         *)
<1>8. /\ clients[c].req.kind = "sign"
      /\ KeyAsked(w) = clients[c].req.key /\ Challenge(w) = clients[c].req.challenge
      /\ Challenge(w) \in Bytes
  <2> DEFINE q == clients[c].req
  <2>1. ~Told(w, {SSH2_AGENT_IDENTITIES_ANSWER})
    BY <1>1, <1>2, Operations DEF SSH2_AGENT_IDENTITIES_ANSWER, SSH2_AGENTC_SIGN_REQUEST
  <2>2. Placed(w, 0, RequestBytes(q)) /\ q \in Requests
    BY <1>1, <2>1 DEF Asks
  <2>3. Code(q) = SSH2_AGENTC_SIGN_REQUEST
    <3>1. Told(w, {Code(q)})
      BY <2>2, RequestsTold
    <3> QED BY <1>1, <1>2, <3>1, Operations
  <2>4. q.kind = "sign"
    BY <2>2, <2>3 DEF Requests, Code, SSH2_AGENTC_SIGN_REQUEST, SSH2_AGENTC_REQUEST_IDENTITIES
  <2>5. q.challenge \in Challenges /\ KeyAsked(w) = q.key /\ Challenge(w) = q.challenge
    BY <1>1, <2>2, <2>4, RequestsTold
  <2> QED BY <2>4, <2>5, RequestsAssumption
(* The identity that signs has the key that was asked for.                    *)
<1>9. ASSUME Matching(w) # {} PROVE i \in Slots /\ KeyOf(fetched[i]) = KeyAsked(w)
  <2>1. Matching(w) \subseteq Slots /\ Slots \subseteq Int
    BY IdentityKeys DEF Matching, Loaded
  <2>2. i \in Matching(w)
    <3> DEFINE T == Matching(w)
    <3>1. T \subseteq Nat /\ T # {} /\ i = Min(T)
      BY <1>9, IdentityKeys DEF Matching, Loaded
    <3> HIDE DEF T, i
    <3>2. i \in T
      BY <3>1, LeastElement DEF Min
    <3> QED BY <3>2 DEF T
  <2>3. cached[i] # <<>> /\ cached[i] = KeyAsked(w)
    BY <2>2 DEF Matching, Loaded
  <2> QED BY <2>1, <2>2, <2>3 DEF BInv, Around, Cached, ids
<1>10. CASE around /\ Matching(w) # {} /\ \E sig \in Signatures : signs(sig)
  <2>1. PICK sig \in Signatures : signs(sig)
    BY <1>10
  <2> DEFINE a == answer(sig)
             b == Write(w, a)
             x == [st |-> "done", req |-> clients[c].req, ret |-> TRUE, signed |-> g(sig)]
  <2>2. i \in Slots /\ KeyOf(fetched[i]) = KeyAsked(w) /\ sig[1] \in Coordinate /\ sig[2] \in Coordinate
    BY <1>9, <1>10, RequestsAssumption
  <2>14. idents[i] \in Contents /\ fetched[i] \in Contents /\ idents[i].ktype \in {"nistp256", "ed25519"}
    <3>1. idents[i] \in Contents /\ fetched[i] \in Contents
      BY <2>2 DEF BInv, Around, Cached
    <3> QED BY <3>1, IdentityFields
  <2>3. g(sig) \in Signings /\ g(sig) # NotSigned
    <3>1. g(sig) \in Signings
      BY <1>8, <2>2, <2>14 DEF Signings, Signing
    <3>2. i # 0
      BY <2>2, IdentityKeys
    <3> QED BY <3>1, <3>2 DEF NotSigned, Signing
  <2>4. x \in Call
    BY <1>1, <2>3, Calls
  <2>5. a \in Bytes
    BY <2>2, <2>14, SignReplies
  <2>6. maps' = OpenedAndClosed(c, b) /\ clients' = [clients EXCEPT ![c] = x]
    BY <2>1 DEF Returned
  <2>7. /\ x.st = "done" /\ x.signed.by = sig /\ x.signed.challenge = Challenge(w)
        /\ x.signed.ident = idents[i] /\ x.signed.was = fetched[i]
        /\ x.req = clients[c].req /\ x.signed = g(sig)
    BY DEF Signing
  <2> HIDE DEF x
  <2>8. b \in Space /\ (b = w \/ Placed(b, 0, a))
    BY <1>1, <2>5, Writes
  <2> HIDE DEF b
  <2>9. PICK m \in Mapping : /\ m.bytes = b /\ m.held = maps[c].held
                            /\ OpenedAndClosed(c, b) = [maps EXCEPT ![c] = m]
    BY <1>1, <2>8, ClosedMapping
  <2>10. AsAsked(x)
    BY <1>8, <2>2, <2>7 DEF AsAsked
  <2>11. Has(x, b)
    <3>1. CASE b = w
      <4>1. clients[c].st # "idle"
        BY <1>1
      <4>2. Told(w, Unsigned)
        BY <1>1, <4>1, AsksTold
      <4> QED BY <3>1, <4>2 DEF Has
    <3>2. CASE Placed(b, 0, a)
      <4>1. a = SignResponse(x.signed.ident.ktype, DER(x.signed.by[1], x.signed.by[2]))
        BY <2>7
      <4>2. x.signed # NotSigned
        BY <2>3, <2>7
      <4> HIDE DEF a
      <4> QED BY <3>2, <4>1, <4>2 DEF Has
    <3> QED BY <2>8, <3>1, <3>2
  <2>12. CallOK(x, m)
    BY <1>1, <2>7, <2>9, <2>10, <2>11 DEF CallOK
  <2>13. Around' /\ maps' = [maps EXCEPT ![c] = m]
    BY <1>5, <1>10, <2>6, <2>9
  <2> QED BY <2>4, <2>6, <2>9, <2>12, <2>13, OneClient
<1>11. CASE Lost(Waits(c))
  BY <1>1, <1>11, WaitingMatches, LostMatch DEF BInv
<1>12. CASE Ends("crashed", Waits(c)) /\ UNCHANGED attached
  <2>1. attached' \in BOOLEAN /\ asks \in 0..MaxAsks
    BY <1>12 DEF BInv, Around
  <2>2. Match(Waits(c)) /\ Around
    BY <1>1, WaitingMatches DEF BInv
  <2> QED BY <1>12, <2>1, <2>2, EndsMatch
<1> QED BY <1>3, <1>6, <1>7, <1>10, <1>11, <1>12

(* The innermost handler.                                                    *)
LEMMA Innermost ==
  ASSUME VInv, BInv, stack # <<>>
  PROVE  /\ Inner \in Frame /\ Inner.client \in Clients /\ Inner.counted \in SUBSET Slots
         /\ ~Inner.orphan => clients[Inner.client].st = "waiting"
         /\ Front(stack) \in Seq(Frame) /\ Len(Front(stack)) <= MaxDepth
<1>1. stack \in Seq(Frame) /\ Len(stack) \in Nat /\ Len(stack) <= MaxDepth
      /\ DOMAIN stack = 1..Len(stack)
  BY LenProperties DEF BInv, Around
<1>2. /\ Front(stack) \in Seq(Frame)
      /\ \A j \in DOMAIN Front(stack) : j \in DOMAIN stack /\ j # Len(stack)
      /\ Len(stack) \in DOMAIN stack /\ Inner = stack[Len(stack)] /\ Inner \in Frame
  BY <1>1, Pop DEF Inner
<1>3. ~Inner.orphan => clients[Inner.client].st = "waiting"
  BY <1>2 DEF VInv, Alive
<1>4. Len(Front(stack)) \in Nat /\ DOMAIN Front(stack) = 1..Len(Front(stack))
  BY <1>2, LenProperties
<1>5. Len(Front(stack)) <= MaxDepth
  <2>1. CASE Len(Front(stack)) = 0
    BY <1>4, <2>1, RequestsAssumption
  <2>2. CASE Len(Front(stack)) # 0
    <3>1. Len(Front(stack)) \in DOMAIN Front(stack)
      BY <1>4, <2>2
    <3>2. Len(Front(stack)) \in 1..Len(stack)
      BY <1>1, <1>2, <3>1
    <3> QED BY <1>1, <1>4, <3>2, RequestsAssumption
  <2> QED BY <2>1, <2>2
<1>6. Inner.client \in Clients /\ Inner.counted \in SUBSET Slots
  BY <1>2 DEF Frame
<1> QED BY <1>2, <1>3, <1>5, <1>6

(* A box is given up.                                                        *)
LEMMA GiveUpKeeps ==
  ASSUME VInv, BInv, GiveUp
  PROVE  BInv'
<1> DEFINE c == Inner.client
<1>1. /\ stack # <<>> /\ stack' = Front(stack)
      /\ clients' = IF Inner.orphan THEN clients ELSE Returned(c, TRUE, NotSigned)
      /\ UNCHANGED <<ids, cached, attached, handle, names, maps, asks, status>>
  BY DEF GiveUp, Return, dev
<1>2. c \in Clients /\ (~Inner.orphan => clients[c].st = "waiting")
  BY <1>1, Innermost
<1>3. Around'
  BY <1>1, Innermost DEF BInv, Around, Cached, ids
<1>4. CASE Inner.orphan
  BY <1>1, <1>3, <1>4 DEF BInv
<1>5. CASE ~Inner.orphan
  <2> DEFINE r == TRUE
             m == maps[c]
             b == maps[c].bytes
  <2>1. r \in BOOLEAN /\ clients' = Returned(c, r, NotSigned)
    BY <1>1, <1>5
  <2>2. m \in Mapping /\ m.bytes = b /\ m.held = maps[c].held /\ maps' = [maps EXCEPT ![c] = m]
    BY <1>1, <1>2 DEF BInv
  <2>3. Failure \in Bytes /\ SSH_AGENT_FAILURE \in Unsigned
        /\ \A v : Placed(v, 0, Failure) => Told(v, {SSH_AGENT_FAILURE})
    BY FailuresTold DEF Unsigned
  <2>4. b \in {maps[c].bytes, Write(maps[c].bytes, Failure)} /\ clients[c].st \in {"asked", "waiting"}
    BY <1>2, <1>5
  <2> HIDE DEF r, m, b, c
  <2> QED BY <1>2, <1>3, <2>1, <2>2, <2>3, <2>4, ReturnKeeps
<1> QED BY <1>4, <1>5

(* A list after a box, for a client that may have died and whose name may have  *)
(* been used again.                                                         *)
LEMMA PresentKeeps ==
  ASSUME VInv, BInv, Present
  PROVE  BInv'
<1> DEFINE c == Inner.client
           d == Answer(Inner.counted)
           b == Write(maps[c].bytes, d)
           m == [maps[c] EXCEPT !.bytes = b]
           k == SSH2_AGENT_IDENTITIES_ANSWER
<1>1. /\ stack # <<>> /\ attached' = attached
      /\ \/ /\ handle' = "live"
            /\ maps' = [maps EXCEPT ![c].bytes = Write(@, d)]
            /\ Return
            /\ UNCHANGED <<ids, cached, names, asks, status>>
         \/ Ends("undefined", clients)
  BY DEF Present
<1>2. /\ c \in Clients /\ Inner.counted \in SUBSET Slots
      /\ ~Inner.orphan => clients[c].st = "waiting"
  BY <1>1, Innermost
<1>3. CASE Ends("undefined", clients)
  <2>1. attached' \in BOOLEAN /\ asks \in 0..MaxAsks
    BY <1>1 DEF BInv, Around
  <2>2. Match(clients) /\ Around
    BY DEF BInv, Match
  <2> QED BY <1>3, <2>1, <2>2, EndsMatch
<1>4. CASE /\ handle' = "live"
           /\ maps' = [maps EXCEPT ![c].bytes = Write(@, d)]
           /\ Return
           /\ UNCHANGED <<ids, cached, names, asks, status>>
  <2>1. Around'
    BY <1>1, <1>4, Innermost DEF BInv, Around, Cached, ids, Return
  <2>2. maps \in [Clients -> Mapping] /\ maps[c] \in Mapping /\ maps[c].bytes \in Space
        /\ clients \in [Clients -> Call] /\ clients[c] \in Call /\ CallOK(clients[c], maps[c])
    BY <1>2 DEF BInv, Mapping, Space
  <2>3. d \in Bytes /\ (\A v : Placed(v, 0, d) => Told(v, {k})) /\ k \in Unsigned
    BY <1>2, AnswersTold DEF BInv, Around, Unsigned
  <2>4. maps' = [maps EXCEPT ![c] = m]
    BY <1>2, <1>4, <2>2
  <2>5. b \in Space /\ b \in {maps[c].bytes, Write(maps[c].bytes, d)}
        /\ (b = maps[c].bytes \/ Placed(b, 0, d))
    <3> HIDE DEF d
    <3> QED BY <2>2, <2>3, Writes
  <2>6. m \in Mapping /\ m.bytes = b /\ m.held = maps[c].held
    <3> HIDE DEF b
    <3> QED BY <2>2, <2>5 DEF Mapping, Space
  <2>7. CASE ~Inner.orphan
    <3> DEFINE r == TRUE
    <3>1. r \in BOOLEAN /\ clients' = Returned(c, r, NotSigned)
      BY <1>4, <2>7 DEF Return
    <3>2. clients[c].st \in {"asked", "waiting"}
      BY <1>2, <2>7
    <3> HIDE DEF r, b, c, d, m, k
    <3> QED BY <1>2, <2>1, <2>3, <2>4, <2>5, <2>6, <3>1, <3>2, ReturnKeeps
  <2>8. CASE Inner.orphan
    <3> DEFINE x == clients[c]
    <3>1. clients' = [clients EXCEPT ![c] = x]
      BY <1>2, <1>4, <2>2, <2>8 DEF Return
    <3>2. b = maps[c].bytes \/ Told(b, {k})
      BY <2>3, <2>5
    <3> HIDE DEF b, d, m
    <3>3. x \in Call
      BY <2>2
    <3>4. CASE b = maps[c].bytes
      <4>1. CallOK(x, m)
        BY <2>2, <2>6, <3>4 DEF CallOK
      <4> HIDE DEF x
      <4> QED BY <1>2, <2>1, <2>4, <2>6, <3>1, <3>3, <4>1, OneClient
    <3>5. CASE Told(b, {k})
      <4>1. Told(b, Unsigned)
        <5>1. {k} \subseteq Unsigned
          BY <2>3
        <5> QED BY <3>5, <5>1, ToldMore
      <4>2. CallOK(x, m)
        BY <2>2, <2>6, <3>5, <4>1 DEF CallOK, Asks, Has
      <4> HIDE DEF x
      <4> QED BY <1>2, <2>1, <2>4, <2>6, <3>1, <3>3, <4>2, OneClient
    <3> QED BY <3>2, <3>4, <3>5
  <2> QED BY <2>7, <2>8
<1> QED BY <1>1, <1>3, <1>4

(* The user loads and clears keys, and saves identities.                      *)
LEMMA KeysKeep ==
  ASSUME BInv, NEW i \in Slots, FetchKey(i) \/ ClearKey(i) \/ \E d \in Edits : Save(i, d)
  PROVE  BInv'
<1>1. CASE Lost(clients)
  <2>1. Match(clients) /\ Around
    BY DEF BInv, Match
  <2> QED BY <1>1, <2>1, LostMatch
<1>2. CASE /\ Cached' /\ cached' \in [Slots -> Key \cup {<<>>}]
           /\ handle' \in {handle, "live"}
           /\ UNCHANGED <<attached, names, maps, stack, clients, asks, status>>
  <2>1. Around'
    BY <1>2 DEF BInv, Around
  <2> QED BY <1>2, <2>1 DEF BInv
<1>3. ASSUME \E blob \in {KeyOf(idents[i]), <<>>} : cached' = [cached EXCEPT ![i] = blob],
             fetched' = [fetched EXCEPT ![i] = idents[i]], idents' = idents
      PROVE  Cached' /\ cached' \in [Slots -> Key \cup {<<>>}]
  <2>1. PICK blob \in {KeyOf(idents[i]), <<>>} : cached' = [cached EXCEPT ![i] = blob]
    BY <1>3
  <2>2. idents[i] \in Contents /\ cached \in [Slots -> Key \cup {<<>>}]
    BY DEF BInv, Around, Cached
  <2>3. blob \in Key \cup {<<>>}
    BY <2>2 DEF Key
  <2> QED BY <1>3, <2>1, <2>2, <2>3 DEF BInv, Around, Cached
<1>4. ASSUME cached' = [cached EXCEPT ![i] = <<>>], UNCHANGED ids
      PROVE  Cached' /\ cached' \in [Slots -> Key \cup {<<>>}]
  BY <1>4 DEF BInv, Around, Cached, ids
<1>5. ASSUME \E d \in Edits : idents' = [idents EXCEPT ![i] = d], UNCHANGED <<fetched, cached>>
      PROVE  Cached' /\ cached' \in [Slots -> Key \cup {<<>>}]
  <2>1. Edits \subseteq Contents
    BY DEF Contents
  <2> QED BY <1>5, <2>1 DEF BInv, Around, Cached
<1> QED BY <1>1, <1>2, <1>3, <1>4, <1>5 DEF FetchKey, ClearKey, Save, dev

(* The cable, and the ends of the process that need no client.                *)
LEMMA DeviceKeeps ==
  ASSUME BInv, Plug \/ Unplug \/ Exit \/ UNCHANGED vars
  PROVE  BInv'
<1>1. CASE Exit
  <2>1. Match(clients) /\ Around /\ asks \in 0..MaxAsks /\ attached' \in BOOLEAN
    BY <1>1 DEF BInv, Match, Around, Exit
  <2> QED BY <1>1, <2>1, EndsMatch DEF Exit
<1>2. CASE Plug \/ Unplug \/ UNCHANGED vars
  <2>1. Around' /\ UNCHANGED <<maps, clients>>
    BY <1>2 DEF Plug, Unplug, vars, dev, BInv, Around, Cached, ids
  <2> QED BY <2>1 DEF BInv
<1> QED BY <1>1, <1>2

(* Every step keeps calls and mappings matched.                            *)
LEMMA CallsStep == VInv /\ BInv /\ [Next]_vars => BInv'
<1> SUFFICES ASSUME VInv, BInv, [Next]_vars PROVE BInv'
  OBVIOUS
<1>1. CASE \E c \in Clients :
             \/ \E q \in Requests : Ask(c, q)
             \/ Leave(c) \/ Die(c)
             \/ CopyDataList(c) \/ CopyDataSign(c) \/ CopyDataOther(c)
  BY <1>1, AskKeeps, LeaveKeeps, DieKeeps, ListKeeps, SignKeeps, OtherKeeps
<1>2. CASE Present \/ GiveUp
  BY <1>2, PresentKeeps, GiveUpKeeps
<1>3. CASE \E i \in Slots : FetchKey(i) \/ ClearKey(i) \/ \E d \in Edits : Save(i, d)
  BY <1>3, KeysKeep
<1>4. CASE Plug \/ Unplug \/ Exit \/ UNCHANGED vars
  BY <1>4, DeviceKeeps
<1> QED BY <1>1, <1>2, <1>3, <1>4 DEF Next, Stopped

(* What a client's mapping holds fits its call, in every state.                *)
THEOREM CallsAlways == Spec => []BInv
BY ViewsAlways, CallsInit, CallsStep, PTL DEF Spec

(* Handlers suspended are never more than MaxDepth, cached keys are only those  *)
(* of the identities, and calls and mappings are as declared.                *)
THEOREM CallsTyped == Spec => []TypeOK
<1>1. BInv => TypeOK
  BY DEF BInv, Around, Cached, TypeOK
<1> QED BY <1>1, CallsAlways, PTL

(* The Ledger is asked to sign exactly the challenge that the client asked to    *)
(* have signed, whatever an earlier request or answer left behind it in the     *)
(* mapping, for an identity that had the key it asked for when that key was     *)
(* fetched; and with this very key, unless the identity was saved as another     *)
(* since or is not of nistp256 (HandleMemoryMap, SignMap).                      *)
THEOREM SignsAsAsked == Spec => []SignsWhatWasAsked
<1>1. ASSUME BInv, NEW c \in Clients, clients[c].st = "done", clients[c].signed # NotSigned
      PROVE  LET call == clients[c]
             IN  /\ call.req.kind = "sign"
                 /\ call.signed.challenge = call.req.challenge
                 /\ KeyOf(call.signed.was) = call.req.key
                 /\ \/ LedgersKey(call.signed) = call.req.key
                    \/ call.signed.ident # call.signed.was
                    \/ call.signed.was.ktype # "nistp256"
  <2> DEFINE g == clients[c].signed
  <2>1. AsAsked(clients[c]) /\ clients[c] \in Call
    BY <1>1 DEF BInv, CallOK
  <2>2. clients[c].req.kind = "sign" /\ KeyOf(g.was) = clients[c].req.key
        /\ g.challenge = clients[c].req.challenge
    BY <1>1, <2>1 DEF AsAsked
  <2>3. g \in Signings
    BY <1>1, <2>1, Calls
  <2>4. g.curve = "nistp256"
    BY <2>3 DEF Signings
  <2>5. g.ident = g.was /\ g.was.ktype = "nistp256" => LedgersKey(g) = KeyOf(g.was)
    BY <2>4 DEF LedgersKey, KeyOf
  <2> QED BY <2>2, <2>5
<1>2. BInv => SignsWhatWasAsked
  BY <1>1 DEF SignsWhatWasAsked
<1> QED BY <1>2, CallsAlways, PTL

(* A signature that a client reads is the one that the Ledger made in this call, *)
(* its two integers unchanged up to zeros in front (SignMap).                *)
LEMMA SignatureRead ==
  ASSUME BInv
  PROVE  SignatureIsTheLedgers
<1> SUFFICES ASSUME NEW c \in Clients, Signed(c)
             PROVE  /\ clients[c].signed # NotSigned
                    /\ \A n \in {1, 2} : Significant(IntegersOf(Reply(c))[n])
                                           = Significant(clients[c].signed.by[n])
  BY DEF SignatureIsTheLedgers
<1> DEFINE w == maps[c].bytes
           g == clients[c].signed
           name == g.ident.ktype
           r == g.by[1]
           s == g.by[2]
<1>1. clients[c] \in Call /\ clients[c].st = "done" /\ Has(clients[c], w) /\ w \in Space
      /\ Message(w)[1] = SSH2_AGENT_SIGN_RESPONSE
  BY DEF BInv, CallOK, Signed, Reply, Mapping, Space
<1>2. w \in Bytes /\ Len(w) < Sizes
  BY <1>1, Spaces
<1>3. ~Told(w, Unsigned)
  <2>1. SSH2_AGENT_SIGN_RESPONSE \notin Unsigned
    BY DEF Unsigned, SSH2_AGENT_SIGN_RESPONSE, SSH_AGENT_FAILURE, SSH2_AGENTC_REQUEST_IDENTITIES,
           SSH2_AGENT_IDENTITIES_ANSWER, SSH2_AGENTC_SIGN_REQUEST
  <2> QED BY <1>1, <1>2, <2>1, Operations
<1>4. g # NotSigned /\ Placed(w, 0, SignResponse(name, DER(r, s)))
  BY <1>1, <1>3 DEF Has
<1>5. g \in Signings
  BY <1>1, <1>4, Calls
<1>6. name \in {"nistp256", "ed25519"} /\ r \in Coordinate /\ s \in Coordinate
  <2>1. g.ident \in Contents /\ g.by \in Signatures
    BY <1>5 DEF Signings
  <2>2. name \in {"nistp256", "ed25519"}
    BY <2>1, IdentityFields
  <2> QED BY <2>1, <2>2, RequestsAssumption
<1> HIDE DEF w, name, r, s
<1>7. /\ Significant(IntegersOf(Message(w))[1]) = Significant(r)
      /\ Significant(IntegersOf(Message(w))[2]) = Significant(s)
  BY <1>2, <1>4, <1>6, SignReplies
<1> QED BY <1>4, <1>7 DEF w, r, s, Reply

(* A signature that a client reads is the one that the Ledger made in this call, *)
(* its two integers unchanged up to zeros in front (SignMap).                *)
THEOREM SignaturesAreTheLedgers == Spec => []SignatureIsTheLedgers
BY SignatureRead, CallsAlways, PTL

(* The key of an identity is, for a client, the public key of the point that it   *)
(* had when the key was fetched, unless a coordinate begins with a zero byte    *)
(* (ConvertPubKey, decompressPubKey).                                        *)
THEOREM BlobsArePublicKeys == Spec => []BlobIsPublicKey
<1>1. BInv => BlobIsPublicKey
  <2> SUFFICES ASSUME BInv, NEW i \in Loaded,
                      fetched[i].point.x[1] # 0, fetched[i].point.y[1] # 0
               PROVE  cached[i] = PublicKey(fetched[i].ktype, fetched[i].point)
    BY DEF BlobIsPublicKey
  <2>1. fetched[i] \in Contents /\ cached[i] = KeyOf(fetched[i])
    BY DEF BInv, Around, Cached, Loaded
  <2>2. KeyOf(fetched[i]) = KeyInfo(fetched[i].ktype, DeviceKey(fetched[i].point))
    BY DEF KeyOf
  <2> DEFINE name == fetched[i].ktype
             p == fetched[i].point
  <2>3. /\ name \in {"nistp256", "ed25519"} /\ p \in Points
        /\ name = "ed25519" => p.y[1] < 128
    BY <2>1, IdentityFields
  <2>4. p.x[1] # 0 /\ p.y[1] # 0
    OBVIOUS
  <2>5. cached[i] = KeyInfo(name, DeviceKey(p))
    BY <2>1, <2>2
  <2> HIDE DEF name, p
  <2>6. KeyInfo(name, DeviceKey(p)) = PublicKey(name, p)
    BY <2>3, <2>4, KeyIsPublic
  <2> QED BY <2>5, <2>6 DEF name, p
<1> QED BY <1>1, CallsAlways, PTL
=============================================================================
