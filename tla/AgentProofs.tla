---------------------------- MODULE AgentProofs ----------------------------
(***************************************************************************)
(* What holds of Agent for every number of clients, identities and nested   *)
(* handlers.  None of the conjuncts below is inductive alone: that rows     *)
(* never falls below 0 needs the list view to match mIdentities, which      *)
(* needs a handler of a row to be suspended only above the DialogBox call   *)
(* of an open window, which needs that window to be unique.                 *)
(* Then what no step does: it caches no key that is another identity's, and  *)
(* runs into an element that is gone only if the element moved, or nothing  *)
(* was selected.                                                            *)
(***************************************************************************)
EXTENDS Agent, SequenceTheorems, FiniteSetTheorems, TLAPS

(* The frames in s are those of a window in state d: there is one DialogBox  *)
(* call if the window exists, none otherwise, and handlers that work on its  *)
(* rows are suspended above that call.                                      *)
IsDialog(s, j) == j \in DOMAIN s /\ s[j].op = "Dialog"

Nested(s, d) ==
  /\ s \in Seq(Frame) /\ Len(s) <= MaxDepth
  /\ d = "closed" <=> \A j \in DOMAIN s : ~IsDialog(s, j)
  /\ \A j, k \in DOMAIN s : IsDialog(s, j) /\ IsDialog(s, k) => j = k
  /\ \A j \in DOMAIN s : s[j].op \in RowOps => \E k \in DOMAIN s : k < j /\ IsDialog(s, k)

IInv ==
  /\ TypeOK
  /\ Nested(stack, dialog)
  /\ RowsMatch
  /\ LoadedNeedsHandle

-----------------------------------------------------------------------------
(* Suspended handlers: what pushing, popping and marking frames preserves.  *)

(* The frames that handlers push are frames, of the operation they name.    *)
LEMMA FrameTypes ==
  /\ \A o \in RowOps, i \in 0..MaxIdents : RowFrame(o, i) \in Frame /\ RowFrame(o, i).op = o
  /\ \A o \in CallOps, c \in Clients, n \in 0..MaxIdents :
       CallFrame(o, c, n) \in Frame /\ CallFrame(o, c, n).op = o
  /\ DialogFrame \in Frame /\ DialogFrame.op = "Dialog"
BY AgentAssumption DEF RowFrame, CallFrame, DialogFrame, Frame, RowOps, CallOps

(* Row handlers, call handlers and the DialogBox call are different.        *)
LEMMA OpsDistinct == "Dialog" \notin RowOps /\ "Dialog" \notin CallOps /\ RowOps \cap CallOps = {}
BY DEF RowOps, CallOps

(* A row's handler is suspended: there is a window.                         *)
LEMMA PushRow ==
  ASSUME NEW s, NEW d, Nested(s, d), d # "closed", Len(s) < MaxDepth,
         NEW f \in Frame, f.op \in RowOps
  PROVE  Nested(Append(s, f), d)
<1> DEFINE t == Append(s, f)
<1> s \in Seq(Frame) /\ Len(s) \in Nat /\ DOMAIN s = 1..Len(s)
  BY LenProperties DEF Nested
<1>1. /\ t \in Seq(Frame) /\ Len(t) = Len(s) + 1
      /\ \A i \in 1..Len(s) : t[i] = s[i]
      /\ t[Len(s) + 1] = f
  BY AppendProperties
<1>2. DOMAIN t = 1..(Len(s) + 1)
  BY <1>1, LenProperties
<1>3. \A j \in DOMAIN t : IsDialog(t, j) <=> IsDialog(s, j)
  BY <1>1, <1>2, OpsDistinct DEF IsDialog
<1> HIDE DEF t
<1>4. \A j \in DOMAIN s : j \in DOMAIN t
  BY <1>2
<1>5. PICK k \in DOMAIN s : IsDialog(s, k)
  BY DEF Nested
<1>6. Len(t) <= MaxDepth
  BY <1>1, AgentAssumption
<1>7. d = "closed" <=> \A j \in DOMAIN t : ~IsDialog(t, j)
  BY <1>3, <1>4, <1>5
<1>8. \A i, j \in DOMAIN t : IsDialog(t, i) /\ IsDialog(t, j) => i = j
  BY <1>3 DEF IsDialog, Nested
<1>9. ASSUME NEW j \in DOMAIN t, t[j].op \in RowOps
      PROVE  \E i \in DOMAIN t : i < j /\ IsDialog(t, i)
  <2>1. CASE j = Len(s) + 1
    BY <2>1, <1>3, <1>4, <1>5
  <2>2. CASE j \in 1..Len(s)
    <3>1. s[j].op \in RowOps
      BY <2>2, <1>1, <1>9
    <3>2. PICK i \in DOMAIN s : i < j /\ IsDialog(s, i)
      BY <2>2, <3>1 DEF Nested
    <3> QED BY <3>2, <1>3, <1>4
  <2> QED BY <2>1, <2>2, <1>2
<1> QED BY <1>1, <1>6, <1>7, <1>8, <1>9 DEF Nested, t

(* A caller's handler is suspended, with or without a window.               *)
LEMMA PushCall ==
  ASSUME NEW s, NEW d, Nested(s, d), Len(s) < MaxDepth,
         NEW f \in Frame, f.op \in CallOps
  PROVE  Nested(Append(s, f), d)
<1> DEFINE t == Append(s, f)
<1> s \in Seq(Frame) /\ Len(s) \in Nat /\ DOMAIN s = 1..Len(s)
  BY LenProperties DEF Nested
<1>1. /\ t \in Seq(Frame) /\ Len(t) = Len(s) + 1
      /\ \A i \in 1..Len(s) : t[i] = s[i]
      /\ t[Len(s) + 1] = f
  BY AppendProperties
<1>2. DOMAIN t = 1..(Len(s) + 1)
  BY <1>1, LenProperties
<1>3. \A j \in DOMAIN t : IsDialog(t, j) <=> IsDialog(s, j)
  BY <1>1, <1>2, OpsDistinct DEF IsDialog
<1>4. \A j \in DOMAIN t : t[j].op \in RowOps => j \in DOMAIN s /\ s[j].op \in RowOps
  BY <1>1, <1>2, OpsDistinct
<1>5. DOMAIN s \subseteq DOMAIN t
  BY <1>2
<1>6. Len(t) <= MaxDepth
  BY <1>1, AgentAssumption
<1> HIDE DEF t
<1>7. d = "closed" <=> \A j \in DOMAIN t : ~IsDialog(t, j)
  BY <1>3, <1>5 DEF Nested, IsDialog
<1>8. \A i, j \in DOMAIN t : IsDialog(t, i) /\ IsDialog(t, j) => i = j
  BY <1>3 DEF IsDialog, Nested
<1>9. ASSUME NEW j \in DOMAIN t, t[j].op \in RowOps
      PROVE  \E i \in DOMAIN t : i < j /\ IsDialog(t, i)
  <2>1. PICK i \in DOMAIN s : i < j /\ IsDialog(s, i)
    BY <1>4, <1>9 DEF Nested
  <2> QED BY <2>1, <1>3, <1>5
<1> QED BY <1>1, <1>6, <1>7, <1>8, <1>9 DEF Nested, t

(* DialogBox is called: there was no window.                                *)
LEMMA PushDialog ==
  ASSUME NEW s, Nested(s, "closed"), Len(s) < MaxDepth
  PROVE  Nested(Append(s, DialogFrame), "open")
<1> DEFINE t == Append(s, DialogFrame)
<1> s \in Seq(Frame) /\ Len(s) \in Nat /\ DOMAIN s = 1..Len(s)
  BY LenProperties DEF Nested
<1>1. /\ t \in Seq(Frame) /\ Len(t) = Len(s) + 1
      /\ \A i \in 1..Len(s) : t[i] = s[i]
      /\ t[Len(s) + 1] = DialogFrame
  BY AppendProperties, FrameTypes
<1>2. DOMAIN t = 1..(Len(s) + 1)
  BY <1>1, LenProperties
<1>3. \A j \in DOMAIN s : ~IsDialog(s, j) /\ s[j].op \notin RowOps
  BY DEF Nested
<1>4. \A j \in DOMAIN t : IsDialog(t, j) <=> j = Len(s) + 1
  BY <1>1, <1>2, <1>3, FrameTypes DEF IsDialog
<1>5. \A j \in DOMAIN t : t[j].op \notin RowOps
  BY <1>1, <1>2, <1>3, FrameTypes, OpsDistinct
<1>6. Len(t) <= MaxDepth
  BY <1>1, AgentAssumption
<1> HIDE DEF t
<1>7. Len(s) + 1 \in DOMAIN t
  BY <1>2
<1> QED BY <1>1, <1>4, <1>5, <1>6, <1>7 DEF Nested, t

(* A handler returns: the frames below it are those there were.             *)
LEMMA FrontOfStack ==
  ASSUME NEW s \in Seq(Frame), s # <<>>
  PROVE  /\ Front(s) \in Seq(Frame)
         /\ Len(s) \in Nat \ {0}
         /\ Len(Front(s)) = Len(s) - 1
         /\ DOMAIN Front(s) = 1..(Len(s) - 1)
         /\ \A j \in 1..(Len(s) - 1) : Front(s)[j] = s[j]
         /\ Last(s) = s[Len(s)] /\ Last(s) \in Frame
<1>1. Len(s) \in Nat \ {0} /\ DOMAIN s = 1..Len(s)
  BY EmptySeq, LenProperties
<1>2. \A j \in 1..Len(s) : s[j] \in Frame
  BY ElementOfSeq
<1>3. /\ SubSeq(s, 1, Len(s) - 1) \in Seq(Frame)
      /\ Len(SubSeq(s, 1, Len(s) - 1)) = IF 1 <= Len(s) - 1 THEN Len(s) - 1 - 1 + 1 ELSE 0
      /\ \A i \in 1..(Len(s) - 1 - 1 + 1) : SubSeq(s, 1, Len(s) - 1)[i] = s[1 + i - 1]
  BY <1>1, <1>2, SubSeqProperties
<1> QED BY <1>1, <1>2, <1>3, LenProperties DEF Front, Last

(* A handler that is not a DialogBox call returns.                          *)
LEMMA PopHandler ==
  ASSUME NEW s, NEW d, Nested(s, d), s # <<>>, Last(s).op # "Dialog"
  PROVE  Nested(Front(s), d)
<1> DEFINE t == Front(s)
<1> s \in Seq(Frame) /\ Len(s) \in Nat /\ DOMAIN s = 1..Len(s)
  BY LenProperties DEF Nested
<1>1. /\ t \in Seq(Frame) /\ Len(s) \in Nat \ {0} /\ Len(t) = Len(s) - 1
      /\ DOMAIN t = 1..(Len(s) - 1)
      /\ \A j \in 1..(Len(s) - 1) : t[j] = s[j]
      /\ Last(s) = s[Len(s)]
  BY FrontOfStack
<1> HIDE DEF t
<1>2. \A j \in DOMAIN t : j \in DOMAIN s /\ s[j] = t[j]
  BY <1>1
<1>3. \A j \in DOMAIN s : IsDialog(s, j) <=> IsDialog(t, j)
  BY <1>1, <1>2 DEF IsDialog
<1>4. Len(t) <= MaxDepth
  BY <1>1, AgentAssumption DEF Nested
<1>5. d = "closed" <=> \A j \in DOMAIN t : ~IsDialog(t, j)
  BY <1>2, <1>3 DEF Nested, IsDialog
<1>6. \A i, j \in DOMAIN t : IsDialog(t, i) /\ IsDialog(t, j) => i = j
  BY <1>2, <1>3 DEF Nested
<1>7. ASSUME NEW j \in DOMAIN t, t[j].op \in RowOps
      PROVE  \E i \in DOMAIN t : i < j /\ IsDialog(t, i)
  <2>1. PICK i \in DOMAIN s : i < j /\ IsDialog(s, i)
    BY <1>2, <1>7 DEF Nested
  <2> QED BY <2>1, <1>3 DEF IsDialog
<1> QED BY <1>1, <1>4, <1>5, <1>6, <1>7 DEF Nested, t

(* The DialogBox call returns: no handler is left that works on its rows.   *)
LEMMA PopDialog ==
  ASSUME NEW s, NEW d, Nested(s, d), s # <<>>, Last(s).op = "Dialog"
  PROVE  Nested(Front(s), "closed")
<1> DEFINE t == Front(s)
<1> s \in Seq(Frame) /\ Len(s) \in Nat /\ DOMAIN s = 1..Len(s)
  BY LenProperties DEF Nested
<1>1. /\ t \in Seq(Frame) /\ Len(s) \in Nat \ {0} /\ Len(t) = Len(s) - 1
      /\ DOMAIN t = 1..(Len(s) - 1)
      /\ \A j \in 1..(Len(s) - 1) : t[j] = s[j]
      /\ Last(s) = s[Len(s)]
  BY FrontOfStack
<1> HIDE DEF t
<1>2. IsDialog(s, Len(s))
  BY <1>1 DEF IsDialog
<1>3. \A j \in DOMAIN t : j \in DOMAIN s /\ s[j] = t[j] /\ j < Len(s)
  BY <1>1
<1>4. \A j \in DOMAIN t : ~IsDialog(s, j)
  BY <1>1, <1>2, <1>3 DEF Nested
<1>5. \A j \in DOMAIN t : ~IsDialog(t, j)
  BY <1>3, <1>4 DEF IsDialog
<1>6. ASSUME NEW j \in DOMAIN t, t[j].op \in RowOps
      PROVE  FALSE
  <2>1. PICK i \in DOMAIN s : i < j /\ IsDialog(s, i)
    BY <1>3, <1>6 DEF Nested
  <2>2. i \in DOMAIN t
    BY <2>1, <1>1, <1>3
  <2> QED BY <2>1, <2>2, <1>4
<1>7. Len(t) <= MaxDepth
  BY <1>1, AgentAssumption DEF Nested
<1> QED BY <1>1, <1>5, <1>6, <1>7 DEF Nested, t

(* References are marked as shifted or freed, one frame by one.             *)
LEMMA Marked ==
  ASSUME NEW s, NEW d, Nested(s, d), NEW t,
         t \in [DOMAIN s -> Frame], \A j \in DOMAIN s : t[j].op = s[j].op
  PROVE  Nested(t, d)
<1>1. s \in Seq(Frame) /\ Len(s) \in Nat /\ DOMAIN s = 1..Len(s)
  BY LenProperties DEF Nested
<1>2. t \in Seq(Frame)
  BY <1>1, SeqDef
<1>3. DOMAIN t = DOMAIN s /\ Len(t) = Len(s)
  BY <1>1, <1>2, LenProperties
<1>4. \A j \in DOMAIN s : IsDialog(t, j) <=> IsDialog(s, j)
  BY <1>3 DEF IsDialog
<1> QED BY <1>2, <1>3, <1>4 DEF Nested

(* Marking the references that an erase moves or frees keeps the operations. *)
LEMMA Marks ==
  ASSUME NEW s, NEW d, Nested(s, d)
  PROVE  /\ Nested(FreeRows(s), d)
         /\ Nested(FreeMaps(s), d)
         /\ \A i \in Nat : Nested(ShiftRows(s, i), d)
<1>1. \A j \in DOMAIN s : s[j] \in Frame
  BY LenProperties, ElementOfSeq DEF Nested
<1>2. \A f \in Frame, r \in {"shifted", "freed"} :
        [f EXCEPT !.ref = r] \in Frame /\ [f EXCEPT !.ref = r].op = f.op
  BY DEF Frame
<1>3. FreeRows(s) \in [DOMAIN s -> Frame] /\ \A j \in DOMAIN s : FreeRows(s)[j].op = s[j].op
  BY <1>1, <1>2 DEF FreeRows
<1>4. FreeMaps(s) \in [DOMAIN s -> Frame] /\ \A j \in DOMAIN s : FreeMaps(s)[j].op = s[j].op
  BY <1>1, <1>2 DEF FreeMaps
<1>5. ASSUME NEW i \in Nat
      PROVE  /\ ShiftRows(s, i) \in [DOMAIN s -> Frame]
             /\ \A j \in DOMAIN s : ShiftRows(s, i)[j].op = s[j].op
  BY <1>1, <1>2 DEF ShiftRows
<1>6. Nested(FreeRows(s), d)
  BY <1>3, Marked
<1>7. Nested(FreeMaps(s), d)
  BY <1>4, Marked
<1>8. \A i \in Nat : Nested(ShiftRows(s, i), d)
  BY <1>5, Marked
<1> QED BY <1>6, <1>7, <1>8

-----------------------------------------------------------------------------
(* The list of identities, and what clients are told.                       *)

(* No handler, no window.                                                   *)
LEMMA EmptyStack == Nested(<<>>, "closed")
BY EmptySeq, AgentAssumption DEF Nested, IsDialog

(* pubkey_cached of one identity is assigned.                               *)
LEMMA CacheType ==
  ASSUME TypeOK, NEW i \in DOMAIN idents, NEW k \in Key \cup {NoKey}
  PROVE  /\ Cache(i, k) \in Seq(Identity)
         /\ Len(Cache(i, k)) = Len(idents)
         /\ DOMAIN Cache(i, k) = DOMAIN idents
         /\ \A j \in DOMAIN idents : j # i => Cache(i, k)[j] = idents[j]
         /\ Cache(i, k)[i].cached = k
<1>1. idents \in Seq(Identity) /\ Len(idents) \in Nat /\ DOMAIN idents = 1..Len(idents)
  BY LenProperties DEF TypeOK
<1>2. idents[i] \in Identity
  BY <1>1, ElementOfSeq
<1>3. [idents[i] EXCEPT !.cached = k] \in Identity
  BY <1>2 DEF Identity
<1>4. Cache(i, k) = [idents EXCEPT ![i] = [idents[i] EXCEPT !.cached = k]]
  BY DEF Cache
<1>5. Cache(i, k) \in Seq(Identity) /\ Len(Cache(i, k)) = Len(idents)
  BY <1>1, <1>3, <1>4, ExceptSeq
<1>6. DOMAIN Cache(i, k) = DOMAIN idents
  BY <1>4
<1>7. Cache(i, k)[i] = [idents[i] EXCEPT !.cached = k]
  BY <1>4
<1>8. [idents[i] EXCEPT !.cached = k].cached = k
  BY <1>2 DEF Identity
<1>9. \A j \in DOMAIN idents : j # i => Cache(i, k)[j] = idents[j]
  BY <1>4
<1> QED BY <1>5, <1>6, <1>7, <1>8, <1>9

(* SaveIdentity: an identity is overwritten by an identity, its key stays.  *)
LEMMA OverwriteType ==
  ASSUME TypeOK, NEW i \in DOMAIN idents, Overwrite(i)
  PROVE  /\ idents' \in Seq(Identity)
         /\ Len(idents') = Len(idents)
         /\ Loaded' = Loaded
<1>1. idents \in Seq(Identity) /\ Len(idents) \in Nat /\ DOMAIN idents = 1..Len(idents)
  BY LenProperties DEF TypeOK
<1>2. idents[i] \in Identity
  BY <1>1, ElementOfSeq
<1>3. PICK a \in Addrs, t \in KeyTypes :
        idents' = [idents EXCEPT ![i].addr = a, ![i].ktype = t]
  BY DEF Overwrite
<1> DEFINE e == [idents[i] EXCEPT !.addr = a, !.ktype = t]
<1>4. e \in Identity /\ e.cached = idents[i].cached
  BY <1>2 DEF Identity
<1>5. idents' = [idents EXCEPT ![i] = e]
  BY <1>3
<1> HIDE DEF e
<1>6. idents' \in Seq(Identity) /\ Len(idents') = Len(idents)
  BY <1>1, <1>4, <1>5, ExceptSeq
<1>7. DOMAIN idents' = DOMAIN idents /\ \A j \in DOMAIN idents : idents'[j].cached = idents[j].cached
  BY <1>4, <1>5
<1> QED BY <1>6, <1>7 DEF Loaded

(* mIdentities.erase.                                                       *)
LEMMA EraseType ==
  ASSUME TypeOK, NEW i \in DOMAIN idents
  PROVE  /\ RemoveAt(idents, i) \in Seq(Identity)
         /\ Len(RemoveAt(idents, i)) = Len(idents) - 1
         /\ \A j \in 1..(Len(idents) - 1) :
              \E k \in DOMAIN idents : RemoveAt(idents, i)[j] = idents[k]
<1>1. idents \in Seq(Identity) /\ Len(idents) \in Nat /\ DOMAIN idents = 1..Len(idents)
  BY LenProperties DEF TypeOK
<1>2. \A j \in 1..Len(idents) : idents[j] \in Identity
  BY <1>1, ElementOfSeq
<1> DEFINE n == Len(idents)
           u == SubSeq(idents, 1, i - 1)
           v == SubSeq(idents, i + 1, n)
<1>3. /\ u \in Seq(Identity)
      /\ Len(u) = IF 1 <= i - 1 THEN (i - 1) - 1 + 1 ELSE 0
      /\ \A j \in 1..((i - 1) - 1 + 1) : u[j] = idents[1 + j - 1]
  BY <1>1, <1>2, SubSeqProperties
<1>4. /\ v \in Seq(Identity)
      /\ Len(v) = IF i + 1 <= n THEN n - (i + 1) + 1 ELSE 0
      /\ \A j \in 1..(n - (i + 1) + 1) : v[j] = idents[(i + 1) + j - 1]
  BY <1>1, <1>2, SubSeqProperties
<1>5. RemoveAt(idents, i) = u \o v
  BY DEF RemoveAt
<1> HIDE DEF u, v
<1>6. /\ u \o v \in Seq(Identity)
      /\ Len(u \o v) = Len(u) + Len(v)
      /\ \A j \in 1..(Len(u) + Len(v)) : (u \o v)[j] = IF j <= Len(u) THEN u[j] ELSE v[j - Len(u)]
  BY <1>3, <1>4, ConcatProperties
<1>7. Len(u) = i - 1 /\ Len(v) = n - i
  BY <1>1, <1>3, <1>4
<1>8. ASSUME NEW j \in 1..(n - 1)
      PROVE  \E k \in DOMAIN idents : (u \o v)[j] = idents[k]
  <2>1. CASE j <= i - 1
    <3>1. (u \o v)[j] = u[j] /\ u[j] = idents[j]
      BY <1>1, <1>3, <1>6, <1>7, <2>1
    <3> QED BY <1>1, <3>1, <2>1
  <2>2. CASE j > i - 1
    <3>0. j \in 1..(Len(u) + Len(v)) /\ ~(j <= Len(u))
      BY <1>1, <1>7, <2>2
    <3>1. (u \o v)[j] = v[j - (i - 1)]
      <4>1. (u \o v)[j] = v[j - Len(u)]
        BY <1>6, <3>0
      <4> QED BY <1>7, <4>1
    <3>2. /\ j - (i - 1) \in 1..(n - (i + 1) + 1)
          /\ (i + 1) + (j - (i - 1)) - 1 = j + 1
          /\ j + 1 \in 1..n
      BY <1>1, <2>2
    <3>3. v[j - (i - 1)] = idents[j + 1]
      BY <1>4, <3>2
    <3> QED BY <1>1, <3>1, <3>2, <3>3
  <2>3. j <= i - 1 \/ j > i - 1
    BY <1>1
  <2> QED BY <2>1, <2>2, <2>3
<1>9. Len(u) + Len(v) = n - 1
  BY <1>1, <1>7
<1> QED BY <1>5, <1>6, <1>8, <1>9

(* GetNumIdentitiesLoaded never exceeds the identities there are.           *)
LEMMA LoadedCount ==
  ASSUME TypeOK
  PROVE  /\ Loaded \subseteq DOMAIN idents /\ DOMAIN idents = 1..Len(idents)
         /\ Loaded \subseteq Slots
         /\ NumLoadedKeys \in 0..MaxIdents
<1>1. Len(idents) \in Nat /\ DOMAIN idents = 1..Len(idents) /\ Len(idents) <= MaxIdents
  BY LenProperties DEF TypeOK
<1>2. Loaded \subseteq DOMAIN idents
  BY DEF Loaded
<1>3. Loaded \in SUBSET Slots
  BY <1>1, <1>2, AgentAssumption DEF Slots
<1>4. IsFiniteSet(Slots) /\ Cardinality(Slots) = IF 1 > MaxIdents THEN 0 ELSE MaxIdents - 1 + 1
  BY FS_Interval, AgentAssumption DEF Slots
<1>5. IsFiniteSet(Loaded) /\ Cardinality(Loaded) <= Cardinality(Slots)
  BY <1>3, <1>4, FS_Subset
<1>6. Cardinality(Loaded) \in Nat
  BY <1>5, FS_CardinalityType
<1> QED BY <1>1, <1>2, <1>3, <1>4, <1>5, <1>6, AgentAssumption DEF NumLoadedKeys

(* What the list reply holds is made of identities of the list.             *)
LEMMA ListReplyType ==
  ASSUME TypeOK, NEW n \in 0..MaxIdents
  PROVE  ListReply(n) \in Replies
<1>1. Nothing \in Replies
  BY DEF Nothing, Replies
<1> DEFINE e == [i \in Loaded |-> idents[i].cached]
<1>0. \A i \in DOMAIN idents : idents[i] \in Identity
  BY LoadedCount, ElementOfSeq DEF TypeOK
<1>2. \A i \in Loaded : idents[i].cached \in Key
  BY <1>0, LoadedCount DEF Loaded, Identity
<1>3. e \in [Loaded -> Key]
  BY <1>2
<1>4. e \in UNION {[S -> Key] : S \in SUBSET Slots}
  BY <1>3, LoadedCount
<1> HIDE DEF e
<1>5. [kind |-> "list", count |-> n, entries |-> e] \in Replies
  BY <1>4 DEF Replies
<1> QED BY <1>1, <1>5 DEF ListReply, e

(* A call returns: its client is in one of the states of a client.          *)
LEMMA ReturnType ==
  ASSUME TypeOK, NEW c, NEW q \in Requests, NEW r \in Replies, NEW b \in BOOLEAN,
         Return(c, q, r, b)
  PROVE  clients' \in [Clients -> ClientStates]
<1>1. [st |-> "done", req |-> q, reply |-> r, ret |-> b] \in ClientStates
  BY DEF ClientStates
<1> QED BY <1>1 DEF Return, TypeOK

(* What callers ask and hold keeps its type.                                *)
LEMMA RequestTypes ==
  /\ [kind |-> "list"] \in Requests /\ [kind |-> "other"] \in Requests
  /\ \A k \in Key : [kind |-> "sign", key |-> k] \in Requests
  /\ Nothing \in Replies /\ [kind |-> "failure"] \in Replies
  /\ \A q \in Requests : [st |-> "waiting", req |-> q] \in ClientStates
  /\ [st |-> "idle"] \in ClientStates
BY DEF Requests, Replies, ClientStates, Nothing

-----------------------------------------------------------------------------
(* Steps that several actions share.                                        *)

(* Exit and crash: nothing of the process is left.                          *)
LEMMA EndsInv ==
  ASSUME TypeOK, NEW cl \in [Clients -> ClientStates],
         NEW s \in {"exited", "crashed", "undefined"},
         Ends(s, cl), attached' \in BOOLEAN
  PROVE  IInv'
<1>1. clients' \in [Clients -> ClientStates]
  <2> SUFFICES ASSUME NEW c \in Clients, cl[c].st = "waiting"
               PROVE  [st |-> "done", req |-> cl[c].req, reply |-> Nothing, ret |-> FALSE] \in ClientStates
    BY DEF Ends
  <2>1. cl[c] \in ClientStates
    OBVIOUS
  <2>2. cl[c].req \in Requests
    BY <2>1 DEF ClientStates
  <2> QED BY <2>2, RequestTypes DEF ClientStates
<1>2. idents' \in Seq(Identity) /\ Len(idents') = 0
  BY EmptySeq DEF Ends
<1>3. Nested(stack', dialog')
  BY EmptyStack DEF Ends
<1>4. stack' \in Seq(Frame) /\ Len(stack') <= MaxDepth
  BY <1>3 DEF Nested
<1>5. Loaded' = {}
  BY DEF Ends, Loaded
<1>6. TypeOK'
  BY <1>1, <1>2, <1>4, AgentAssumption DEF TypeOK, Ends
<1> QED BY <1>3, <1>5, <1>6 DEF IInv, RowsMatch, LoadedNeedsHandle, Ends

(* The device is unplugged in the middle of Exchange.                       *)
LEMMA LostInv ==
  ASSUME IInv, NEW cl \in [Clients -> ClientStates], Lost(cl)
  PROVE  IInv'
<1>1. CASE Ends("crashed", cl)
  BY <1>1, EndsInv DEF IInv, Lost
<1>2. CASE /\ status' = "hung" /\ clients' = cl /\ handle' = "stale"
           /\ UNCHANGED <<idents, ui, stack, maps>>
  <2>1. TypeOK'
    BY <1>2 DEF IInv, TypeOK, Lost, ui
  <2> QED BY <1>2, <2>1 DEF IInv, RowsMatch, LoadedNeedsHandle, ui
<1> QED BY <1>1, <1>2 DEF Lost

(* An identity whose key was fetched, or not, is an identity.               *)
LEMMA FetchKeyType ==
  ASSUME TypeOK, NEW i \in DOMAIN idents, FetchKey(i)
  PROVE  /\ idents' \in Seq(Identity) /\ Len(idents') = Len(idents)
         /\ attached' \in BOOLEAN /\ handle' \in {"live", "stale"}
<1>1. idents[i] \in Identity
  BY LenProperties, ElementOfSeq DEF TypeOK
<1>2. KeyGiven(i) \in Key \cup {NoKey}
  BY <1>1 DEF KeyGiven, KeyOf, Key, Identity
<1>3. PICK k \in Key \cup {NoKey} : idents' = Cache(i, k)
  BY <1>2 DEF FetchKey
<1>4. idents' \in Seq(Identity) /\ Len(idents') = Len(idents)
  BY <1>3, CacheType
<1> QED BY <1>4 DEF FetchKey, HandleOpened, TypeOK

(* Suspended handlers of a caller's request, however the maps moved.        *)
LEMMA WithMapOfNested ==
  ASSUME IInv, NEW c, NEW s \in WithMapOf(c)
  PROVE  Nested(s, dialog)
BY Marks DEF IInv, WithMapOf

-----------------------------------------------------------------------------
(* The invariant.                                                           *)

(* The program starts with no window, no handler and no caller served.      *)
LEMMA InitInv == Init => IInv
<1> SUFFICES ASSUME Init PROVE IInv
  OBVIOUS
<1>1. PICK n \in 0..MaxIdents :
        idents \in [1..n -> [addr: Addrs, ktype: KeyTypes \cup {NoType}, cached: {NoKey}]]
  BY DEF Init, LoadedIdents
<1>2. \A i \in 1..n : idents[i] \in Identity /\ idents[i].cached = NoKey
  BY <1>1 DEF Identity
<1>3. idents \in [1..n -> Identity]
  BY <1>1, <1>2
<1>4. idents \in Seq(Identity) /\ DOMAIN idents = 1..n /\ n \in Nat
  BY <1>1, <1>3, SeqDef, AgentAssumption
<1>5. Len(idents) = n
  BY <1>4, LenProperties
<1>6. Loaded = {}
  BY <1>2, <1>4 DEF Loaded
<1>7. Nested(stack, dialog)
  BY EmptyStack DEF Init
<1>8. TypeOK
  BY <1>4, <1>5, <1>7, RequestTypes, AgentAssumption DEF TypeOK, Init, Nested
<1> QED BY <1>6, <1>7, <1>8 DEF IInv, RowsMatch, LoadedNeedsHandle, Init

(* What the user does in the tray and in the window.                        *)
LEMMA CommandInv == IInv /\ Command => IInv'
<1> SUFFICES ASSUME IInv, Command PROVE IInv'
  OBVIOUS
<1> USE DEF IInv
<1>a. /\ idents \in Seq(Identity) /\ Len(idents) \in 0..MaxIdents
      /\ DOMAIN idents = 1..Len(idents)
      /\ clients \in [Clients -> ClientStates] /\ attached \in BOOLEAN
      /\ stack \in Seq(Frame) /\ Len(stack) <= MaxDepth
      /\ sel \in 0..MaxIdents
  BY LenProperties, AgentAssumption DEF TypeOK
<1>b. ASSUME Ends("undefined", clients), UNCHANGED attached
      PROVE  IInv'
  BY <1>a, <1>b, EndsInv
<1>1. CASE OpenDialog
  <2>1. Nested(stack', dialog')
    BY <1>1, PushDialog DEF OpenDialog, FindWindow, Suspend, SuspendOn
  <2>2. TypeOK'
    BY <1>1, <1>a, <2>1 DEF OpenDialog, TypeOK, Nested, dev, calls
  <2>3. RowsMatch' /\ LoadedNeedsHandle'
    BY <1>1 DEF OpenDialog, RowsMatch, LoadedNeedsHandle, Loaded, dev
  <2> QED BY <2>1, <2>2, <2>3
<1>2. CASE CloseDialog
  <2>1. Nested(stack', dialog')
    BY <1>2 DEF CloseDialog, Nested
  <2>2. TypeOK'
    BY <1>2 DEF CloseDialog, TypeOK, dev, calls
  <2>3. RowsMatch' /\ LoadedNeedsHandle'
    BY <1>2 DEF CloseDialog, RowsMatch, LoadedNeedsHandle, Loaded, dev
  <2> QED BY <2>1, <2>2, <2>3
<1>3. CASE AddNewIdentity
  <2> DEFINE e == [addr |-> NewAddr, ktype |-> NoType, cached |-> NoKey]
  <2>1. e \in Identity
    BY AgentAssumption DEF Identity
  <2>2. idents' = Append(idents, e)
    BY <1>3 DEF AddNewIdentity
  <2>3. e.cached = NoKey
    OBVIOUS
  <2> HIDE DEF e
  <2>4. /\ idents' \in Seq(Identity) /\ Len(idents') = Len(idents) + 1
        /\ \A i \in 1..Len(idents) : idents'[i] = idents[i]
        /\ idents'[Len(idents) + 1] = e
    BY <1>a, <2>1, <2>2, AppendProperties
  <2>5. DOMAIN idents' = 1..(Len(idents) + 1)
    BY <2>4, LenProperties
  <2>6. Loaded' \subseteq Loaded
    BY <1>a, <2>3, <2>4, <2>5 DEF Loaded
  <2>7. Nested(stack', dialog')
    BY <1>3, Marks DEF AddNewIdentity
  <2>8. rows = Len(idents)
    BY <1>3 DEF AddNewIdentity, RowsMatch
  <2>9. TypeOK'
    BY <1>3, <1>a, <2>4, <2>7, <2>8, AgentAssumption DEF AddNewIdentity, TypeOK, Nested, dev, calls
  <2>10. RowsMatch' /\ LoadedNeedsHandle'
    BY <1>3, <2>4, <2>6, <2>8 DEF AddNewIdentity, RowsMatch, LoadedNeedsHandle, dev
  <2> QED BY <2>7, <2>9, <2>10
<1>4. CASE ClearKey
  <2>1. CASE Selected /\ idents' = Cache(sel, NoKey) /\ UNCHANGED <<ui, stack, dev, calls, status>>
    <3>1. sel \in DOMAIN idents
      BY <2>1 DEF Selected
    <3>2. /\ idents' \in Seq(Identity) /\ Len(idents') = Len(idents)
          /\ DOMAIN idents' = DOMAIN idents
          /\ \A j \in DOMAIN idents : j # sel => idents'[j] = idents[j]
          /\ idents'[sel].cached = NoKey
      BY <2>1, <3>1, CacheType
    <3>3. Loaded' \subseteq Loaded
      BY <3>2 DEF Loaded
    <3>4. TypeOK'
      BY <1>a, <2>1, <3>2 DEF TypeOK, ui, dev, calls
    <3> QED BY <2>1, <3>2, <3>3, <3>4 DEF RowsMatch, LoadedNeedsHandle, ui, dev
  <2> QED BY <1>4, <1>b, <2>1 DEF ClearKey
<1>5. CASE AskRemove
  <2>1. RowFrame("Remove", sel) \in Frame /\ RowFrame("Remove", sel).op \in RowOps
    BY FrameTypes, <1>a DEF RowOps
  <2>2. Nested(stack', dialog')
    BY <1>5, <2>1, PushRow DEF AskRemove, Suspend, SuspendOn, ui
  <2>3. TypeOK'
    BY <1>5, <2>2 DEF AskRemove, TypeOK, Nested, ui, dev, calls
  <2> QED BY <1>5, <2>2, <2>3 DEF AskRemove, RowsMatch, LoadedNeedsHandle, Loaded, ui, dev
<1>6. CASE AskSave
  <2>1. RowFrame("Save", sel) \in Frame /\ RowFrame("Save", sel).op \in RowOps
    BY FrameTypes, <1>a DEF RowOps
  <2>2. Nested(stack', dialog')
    BY <1>6, <2>1, PushRow DEF AskSave, Suspend, SuspendOn, ui
  <2>3. TypeOK'
    BY <1>6, <2>2 DEF AskSave, TypeOK, Nested, ui, dev, calls
  <2> QED BY <1>6, <2>2, <2>3 DEF AskSave, RowsMatch, LoadedNeedsHandle, Loaded, ui, dev
<1>7. ASSUME NEW i \in 0..MaxIdents, Select(i)
      PROVE  IInv'
  <2>1. TypeOK'
    BY <1>7 DEF Select, TypeOK, dev, calls
  <2> QED BY <1>7, <2>1 DEF Select, RowsMatch, LoadedNeedsHandle, Loaded, dev
<1>8. ASSUME NEW o \in {"GetKey", "CopyKey"}, AskKey(o)
      PROVE  IInv'
  <2>1. CASE Selected /\ FetchKey(sel) /\ UNCHANGED <<ui, stack, calls, status>>
    <3>1. /\ idents' \in Seq(Identity) /\ Len(idents') = Len(idents)
          /\ attached' \in BOOLEAN /\ handle' \in {"live", "stale"}
      BY <2>1, FetchKeyType DEF Selected
    <3>2. TypeOK'
      BY <1>a, <2>1, <3>1 DEF TypeOK, ui, calls
    <3> QED BY <2>1, <3>1, <3>2 DEF RowsMatch, LoadedNeedsHandle, ui
  <2>2. CASE Lost(clients)
    BY <1>a, <2>2, LostInv
  <2>3. CASE Selected /\ Suspend(RowFrame(o, sel)) /\ UNCHANGED <<idents, ui, dev, calls, status>>
    <3>1. RowFrame(o, sel) \in Frame /\ RowFrame(o, sel).op \in RowOps
      BY FrameTypes, <1>a DEF RowOps
    <3>2. Nested(stack', dialog')
      BY <1>8, <2>3, <3>1, PushRow DEF AskKey, Suspend, SuspendOn, ui
    <3>3. TypeOK'
      BY <2>3, <3>2 DEF TypeOK, Nested, ui, dev, calls
    <3> QED BY <2>3, <3>2, <3>3 DEF RowsMatch, LoadedNeedsHandle, Loaded, ui, dev
  <2> QED BY <1>8, <1>b, <2>1, <2>2, <2>3 DEF AskKey
<1> QED BY <1>1, <1>2, <1>3, <1>4, <1>5, <1>6, <1>7, <1>8 DEF Command

(* Handlers that come back from a nested message loop.                      *)
LEMMA ResumptionInv == IInv /\ Resumption => IInv'
<1> SUFFICES ASSUME IInv, Resumption PROVE IInv'
  OBVIOUS
<1> USE DEF IInv
<1>a. /\ idents \in Seq(Identity) /\ Len(idents) \in 0..MaxIdents
      /\ DOMAIN idents = 1..Len(idents)
      /\ clients \in [Clients -> ClientStates] /\ attached \in BOOLEAN
      /\ stack \in Seq(Frame) /\ Len(stack) <= MaxDepth
  BY LenProperties, AgentAssumption DEF TypeOK
<1>b. ASSUME Ends("undefined", clients), UNCHANGED attached
      PROVE  IInv'
  BY <1>a, <1>b, EndsInv
<1>c. ASSUME NEW o, Innermost(o)
      PROVE  /\ stack # <<>> /\ Inner \in Frame /\ Inner.op = o
             /\ Inner.slot \in 0..MaxIdents /\ Inner.count \in 0..MaxIdents
             /\ Len(Front(stack)) < MaxDepth
             /\ o # "Dialog" => Nested(Front(stack), dialog)
             /\ o \in RowOps => dialog # "closed"
  <2>1. stack # <<>> /\ Inner.op = o
    BY <1>c DEF Innermost
  <2>2. Inner \in Frame /\ Len(Front(stack)) = Len(stack) - 1 /\ Len(stack) \in Nat \ {0}
        /\ Inner = stack[Len(stack)] /\ DOMAIN stack = 1..Len(stack)
    BY <1>a, <2>1, FrontOfStack, LenProperties DEF Inner
  <2>3. Inner.slot \in 0..MaxIdents /\ Inner.count \in 0..MaxIdents
    BY <2>2 DEF Frame
  <2>4. o # "Dialog" => Nested(Front(stack), dialog)
    BY <2>1, PopHandler DEF Inner
  <2>5. o \in RowOps => dialog # "closed"
    BY <2>1, <2>2 DEF Nested
  <2> QED BY <1>a, <2>1, <2>2, <2>3, <2>4, <2>5, AgentAssumption
<1>1. CASE EndDialogLoop
  <2>1. Nested(Front(stack), "closed")
    BY <1>1, <1>c, PopDialog DEF EndDialogLoop, Inner
  <2>2. Nested(stack', dialog')
    BY <1>1, <2>1 DEF EndDialogLoop, Resume
  <2>3. TypeOK'
    BY <1>1, <2>2, AgentAssumption DEF EndDialogLoop, TypeOK, Nested, dev, calls
  <2> QED BY <1>1, <2>2, <2>3 DEF EndDialogLoop, RowsMatch, LoadedNeedsHandle, Loaded, dev
<1>2. CASE ResumeRemove
  <2>0. /\ Inner.slot \in 0..MaxIdents /\ Nested(Front(stack), dialog)
        /\ Len(Front(stack)) < MaxDepth /\ dialog # "closed"
    BY <1>2, <1>c DEF ResumeRemove, RowOps
  <2>1. CASE Resume /\ UNCHANGED <<idents, rows, sel>>
    <3>1. Nested(stack', dialog')
      BY <1>2, <2>0, <2>1 DEF ResumeRemove, Resume
    <3>2. TypeOK'
      BY <1>2, <2>1, <3>1 DEF ResumeRemove, TypeOK, Nested, dev, calls
    <3> QED BY <1>2, <2>1, <3>1, <3>2 DEF ResumeRemove, RowsMatch, LoadedNeedsHandle, Loaded, dev
  <2>2. CASE stack' = Append(Front(stack), RowFrame("Error", Inner.slot)) /\ UNCHANGED <<idents, rows, sel>>
    <3>0. RowFrame("Error", Inner.slot) \in Frame /\ RowFrame("Error", Inner.slot).op \in RowOps
      BY <2>0, FrameTypes DEF RowOps
    <3>1. Nested(stack', dialog')
      BY <1>2, <2>0, <2>2, <3>0, PushRow DEF ResumeRemove
    <3>2. TypeOK'
      BY <1>2, <2>2, <3>1 DEF ResumeRemove, TypeOK, Nested, dev, calls
    <3> QED BY <1>2, <2>2, <3>1, <3>2 DEF ResumeRemove, RowsMatch, LoadedNeedsHandle, Loaded, dev
  <2>3. CASE /\ Inner.slot \in DOMAIN idents /\ idents' = RemoveAt(idents, Inner.slot)
             /\ DeleteItem(Inner.slot) /\ stack' = ShiftRows(Front(stack), Inner.slot)
    <3>1. Inner.slot \in DOMAIN idents
      BY <2>3
    <3>2. /\ idents' \in Seq(Identity) /\ Len(idents') = Len(idents) - 1
          /\ \A j \in 1..(Len(idents) - 1) : \E k \in DOMAIN idents : idents'[j] = idents[k]
      BY <2>3, <3>1, EraseType
    <3>3. DOMAIN idents' = 1..(Len(idents) - 1)
      BY <3>2, LenProperties
    <3>4. Loaded' # {} => Loaded # {}
      BY <3>2, <3>3 DEF Loaded
    <3>5. Nested(stack', dialog')
      <4>1. Inner.slot \in Nat
        BY <1>a, <3>1
      <4>2. Nested(ShiftRows(Front(stack), Inner.slot), dialog)
        BY <2>0, <4>1, Marks
      <4> QED BY <1>2, <2>3, <4>2 DEF ResumeRemove
    <3>6. rows = Len(idents) /\ rows' = rows - 1 /\ sel \in 0..rows /\ sel' = SelAfterDelete(Inner.slot)
      BY <2>0, <2>3 DEF RowsMatch, TypeOK, DeleteItem
    <3>7. rows' \in 0..MaxIdents /\ sel' \in 0..rows'
      <4>1. rows \in Nat /\ rows <= MaxIdents /\ rows >= Inner.slot /\ Inner.slot \in Nat \ {0}
            /\ MaxIdents \in Nat
        BY <1>a, <3>1, <3>6, AgentAssumption
      <4> QED BY <3>6, <4>1 DEF SelAfterDelete
    <3>8. TypeOK'
      BY <1>2, <1>a, <3>2, <3>5, <3>7, AgentAssumption DEF ResumeRemove, TypeOK, Nested, dev, calls
    <3> QED BY <1>2, <3>2, <3>4, <3>5, <3>6, <3>8 DEF ResumeRemove, RowsMatch, LoadedNeedsHandle, dev
  <2> QED BY <1>2, <2>1, <2>2, <2>3 DEF ResumeRemove
<1>3. CASE ResumeError
  <2>1. Nested(stack', dialog')
    BY <1>3, <1>c DEF ResumeError, Resume, ui
  <2>2. TypeOK'
    BY <1>3, <2>1 DEF ResumeError, TypeOK, Nested, ui, dev, calls
  <2> QED BY <1>3, <2>1, <2>2 DEF ResumeError, RowsMatch, LoadedNeedsHandle, Loaded, ui, dev
<1>4. CASE ResumeSave
  <2>1. CASE Resume /\ idents' = idents /\ UNCHANGED <<ui, dev, calls, status>>
    <3>1. Nested(stack', dialog')
      BY <1>4, <1>c, <2>1 DEF ResumeSave, Resume, ui
    <3>2. TypeOK'
      BY <2>1, <3>1 DEF TypeOK, Nested, ui, dev, calls
    <3> QED BY <2>1, <3>1, <3>2 DEF RowsMatch, LoadedNeedsHandle, Loaded, ui, dev
  <2>2. CASE /\ Resume /\ Inner.slot \in DOMAIN idents /\ Overwrite(Inner.slot)
             /\ UNCHANGED <<ui, dev, calls, status>>
    <3>1. Nested(stack', dialog')
      BY <1>4, <1>c, <2>2 DEF ResumeSave, Resume, ui
    <3>2. idents' \in Seq(Identity) /\ Len(idents') = Len(idents) /\ Loaded' = Loaded
      BY <2>2, OverwriteType
    <3>3. TypeOK'
      BY <1>a, <2>2, <3>1, <3>2 DEF TypeOK, Nested, ui, dev, calls
    <3> QED BY <2>2, <3>1, <3>2, <3>3 DEF RowsMatch, LoadedNeedsHandle, ui, dev
  <2> QED BY <1>4, <1>b, <2>1, <2>2 DEF ResumeSave
<1>5. CASE ResumeNoKeys
  <2>1. Nested(stack', dialog')
    BY <1>5, <1>c DEF ResumeNoKeys, Resume, ui
  <2>2. clients' \in [Clients -> ClientStates]
    BY <1>5, ReturnType, RequestTypes DEF ResumeNoKeys
  <2>3. TypeOK'
    BY <1>5, <2>1, <2>2 DEF ResumeNoKeys, TypeOK, Nested, ui, dev
  <2> QED BY <1>5, <2>1, <2>3 DEF ResumeNoKeys, RowsMatch, LoadedNeedsHandle, Loaded, ui, dev
<1>6. CASE ResumePresent
  <2>1. CASE /\ Resume /\ UNCHANGED <<idents, ui, attached, maps, status>>
             /\ \/ GiveUp(Inner.client) /\ UNCHANGED handle
                \/ /\ handle' = HandleOpened
                   /\ Return(Inner.client, [kind |-> "list"], ListReply(Inner.count), TRUE)
    <3>1. Nested(stack', dialog')
      BY <1>6, <1>c, <2>1 DEF ResumePresent, Resume, ui
    <3>2. ListReply(Inner.count) \in Replies
      BY <1>6, <1>c, ListReplyType DEF ResumePresent
    <3>3. clients' \in [Clients -> ClientStates]
      BY <2>1, <3>2, ReturnType, RequestTypes DEF GiveUp
    <3>4. TypeOK'
      BY <2>1, <3>1, <3>3 DEF TypeOK, Nested, ui, HandleOpened
    <3> QED BY <2>1, <3>1, <3>4 DEF RowsMatch, LoadedNeedsHandle, Loaded, ui, HandleOpened
  <2> QED BY <1>6, <1>b, <2>1 DEF ResumePresent
<1>7. ASSUME NEW o \in {"GetKey", "CopyKey"}, ResumeKey(o)
      PROVE  IInv'
  <2>1. CASE Lost(clients)
    BY <1>a, <2>1, LostInv
  <2>2. CASE /\ Inner.slot \in DOMAIN idents /\ Resume /\ UNCHANGED <<ui, calls, status>>
             /\ (idents' = Cache(Inner.slot, NoKey) /\ UNCHANGED dev) \/ FetchKey(Inner.slot)
    <3>0. Inner.slot \in 0..MaxIdents /\ Nested(Front(stack), dialog)
      BY <1>7, <1>c DEF ResumeKey, RowOps
    <3>1. Inner.slot \in DOMAIN idents
      BY <2>2
    <3>2. Nested(stack', dialog')
      BY <2>2, <3>0 DEF Resume, ui
    <3>3. CASE idents' = Cache(Inner.slot, NoKey) /\ UNCHANGED dev
      <4>1. /\ idents' \in Seq(Identity) /\ Len(idents') = Len(idents)
            /\ DOMAIN idents' = DOMAIN idents
            /\ \A j \in DOMAIN idents : j # Inner.slot => idents'[j] = idents[j]
            /\ idents'[Inner.slot].cached = NoKey
        BY <3>1, <3>3, CacheType
      <4>2. Loaded' \subseteq Loaded
        BY <4>1 DEF Loaded
      <4>3. TypeOK'
        BY <1>a, <2>2, <3>2, <3>3, <4>1 DEF TypeOK, Nested, ui, dev, calls
      <4> QED BY <2>2, <3>2, <3>3, <4>1, <4>2, <4>3 DEF RowsMatch, LoadedNeedsHandle, ui, dev
    <3>4. CASE FetchKey(Inner.slot)
      <4>1. /\ idents' \in Seq(Identity) /\ Len(idents') = Len(idents)
            /\ attached' \in BOOLEAN /\ handle' \in {"live", "stale"}
        BY <3>1, <3>4, FetchKeyType
      <4>2. TypeOK'
        BY <1>a, <2>2, <3>2, <4>1 DEF TypeOK, Nested, ui, calls
      <4> QED BY <2>2, <3>2, <4>1, <4>2 DEF RowsMatch, LoadedNeedsHandle, ui
    <3> QED BY <2>2, <3>3, <3>4
  <2> QED BY <1>7, <1>b, <2>1, <2>2 DEF ResumeKey
<1> QED BY <1>1, <1>2, <1>3, <1>4, <1>5, <1>6, <1>7 DEF Resumption

(* WM_COPYDATA: what callers ask for.                                       *)
LEMMA CallInv == ASSUME IInv, NEW c \in Clients, CopyData(c) \/ ReadReply(c) PROVE IInv'
<1> USE DEF IInv
<1>a. /\ clients \in [Clients -> ClientStates] /\ attached \in BOOLEAN
      /\ NumLoadedKeys \in 0..MaxIdents
      /\ LoadedNeedsHandle /\ RowsMatch
  BY LoadedCount DEF TypeOK
(* The request is suspended on, or served over, the handlers there are.     *)
<1>b. ASSUME Nested(stack', dialog), clients' \in [Clients -> ClientStates],
             maps' = maps \cup {c}, handle' \in {handle, "live"},
             UNCHANGED <<idents, ui, attached, status>>
      PROVE  IInv'
  <2>1. TypeOK'
    BY <1>b DEF TypeOK, Nested, ui
  <2> QED BY <1>a, <1>b, <2>1 DEF RowsMatch, LoadedNeedsHandle, Loaded, ui
<1>1. CASE CopyDataList(c)
  <2>1. PICK s \in WithMapOf(c) :
          \/ /\ \/ SuspendOn(s, CallFrame("NoKeys", c, 0))
                \/ SuspendOn(s, CallFrame("Present", c, NumLoadedKeys))
             /\ clients' = [clients EXCEPT ![c] = [st |-> "waiting", req |-> [kind |-> "list"]]]
             /\ UNCHANGED handle
          \/ /\ handle' = HandleOpened /\ stack' = s
             /\ Return(c, [kind |-> "list"], ListReply(NumLoadedKeys), TRUE)
    BY <1>1 DEF CopyDataList
  <2>2. Nested(s, dialog)
    BY WithMapOfNested
  <2>3. CASE /\ \/ SuspendOn(s, CallFrame("NoKeys", c, 0))
                \/ SuspendOn(s, CallFrame("Present", c, NumLoadedKeys))
             /\ clients' = [clients EXCEPT ![c] = [st |-> "waiting", req |-> [kind |-> "list"]]]
             /\ UNCHANGED handle
    <3>1. \A o \in CallOps, n \in 0..MaxIdents :
            SuspendOn(s, CallFrame(o, c, n)) => Nested(stack', dialog)
      BY <2>2, FrameTypes, PushCall DEF SuspendOn
    <3>2. Nested(stack', dialog)
      BY <1>a, <2>3, <3>1, AgentAssumption DEF CallOps
    <3>3. clients' \in [Clients -> ClientStates]
      BY <1>a, <2>3, RequestTypes
    <3> QED BY <1>1, <1>b, <2>3, <3>2, <3>3 DEF CopyDataList
  <2>4. CASE /\ handle' = HandleOpened /\ stack' = s
             /\ Return(c, [kind |-> "list"], ListReply(NumLoadedKeys), TRUE)
    <3>1. clients' \in [Clients -> ClientStates]
      BY <1>a, <2>4, ListReplyType, ReturnType, RequestTypes
    <3> QED BY <1>1, <1>b, <2>2, <2>4, <3>1 DEF CopyDataList, HandleOpened
  <2> QED BY <2>1, <2>3, <2>4
<1>2. CASE CopyDataOther(c)
  <2>1. clients' \in [Clients -> ClientStates]
    BY <1>2, ReturnType, RequestTypes DEF CopyDataOther
  <2>2. Nested(stack', dialog)
    BY <1>2, WithMapOfNested DEF CopyDataOther
  <2> QED BY <1>2, <1>b, <2>1, <2>2 DEF CopyDataOther, dev
<1>3. ASSUME NEW k \in Key, CopyDataSign(c, k)
      PROVE  IInv'
  <2> DEFINE q == [kind |-> "sign", key |-> k]
             asked == [clients EXCEPT ![c] = [st |-> "waiting", req |-> q]]
  <2>1. q \in Requests /\ asked \in [Clients -> ClientStates]
    BY <1>a, RequestTypes
  <2>2. CASE Lost(asked)
    BY <2>1, <2>2, LostInv
  <2>3. CASE Ends("crashed", asked) /\ UNCHANGED attached
    BY <1>a, <2>1, <2>3, EndsInv
  <2>4. CASE /\ \/ Return(c, q, [kind |-> "failure"], FALSE)
                \/ \E i \in Signers(k) : \E r \in {Signature(k, i), Nothing} : Return(c, q, r, TRUE)
             /\ maps' = maps \cup {c} /\ stack' \in WithMapOf(c)
             /\ UNCHANGED <<idents, ui, dev, status>>
    <3>1. ASSUME NEW i \in Signers(k)
          PROVE  Signature(k, i) \in Replies
      <4>1. i \in DOMAIN idents
        BY DEF Signers, Matching, Loaded
      <4>2. idents[i] \in Identity
        BY <4>1, LenProperties, ElementOfSeq DEF TypeOK
      <4>3. <<idents[i].addr, SignType>> \in Key
        BY <4>2, AgentAssumption DEF Identity, Key
      <4> QED BY <4>3 DEF Signature, Replies
    <3>2. \E r \in Replies, b \in BOOLEAN : Return(c, q, r, b)
      BY <2>4, <3>1, RequestTypes
    <3>3. clients' \in [Clients -> ClientStates]
      BY <2>1, <3>2, ReturnType
    <3>4. Nested(stack', dialog)
      BY <2>4, WithMapOfNested
    <3> QED BY <1>b, <2>4, <3>3, <3>4 DEF dev
  <2> QED BY <1>3, <2>2, <2>3, <2>4 DEF CopyDataSign
<1>4. CASE ReadReply(c)
  <2>1. TypeOK'
    BY <1>4, RequestTypes DEF ReadReply, TypeOK, ui, dev
  <2> QED BY <1>4, <2>1 DEF ReadReply, RowsMatch, LoadedNeedsHandle, Loaded, ui, dev
<1> QED BY <1>1, <1>2, <1>3, <1>4 DEF CopyData

(* Every step of the process, the device and the callers.                   *)
LEMMA StepInv == IInv /\ [Next]_vars => IInv'
<1> SUFFICES ASSUME IInv, [Next]_vars PROVE IInv'
  OBVIOUS
<1>1. CASE Plug
  <2>1. TypeOK'
    BY <1>1 DEF IInv, Plug, TypeOK, ui, calls
  <2> QED BY <1>1, <2>1 DEF IInv, Plug, RowsMatch, LoadedNeedsHandle, Loaded, ui
<1>2. CASE Unplug
  <2>1. TypeOK'
    BY <1>2 DEF IInv, Unplug, TypeOK, ui, calls
  <2> QED BY <1>2, <2>1 DEF IInv, Unplug, RowsMatch, LoadedNeedsHandle, Loaded, ui
<1>3. CASE Exit
  BY <1>3, EndsInv DEF IInv, TypeOK, Exit
<1>4. CASE UNCHANGED vars
  <2>1. TypeOK'
    BY <1>4 DEF IInv, TypeOK, vars
  <2> QED BY <1>4, <2>1 DEF IInv, RowsMatch, LoadedNeedsHandle, Loaded, vars
<1> QED BY <1>1, <1>2, <1>3, <1>4, CommandInv, ResumptionInv, CallInv DEF Next, Stopped

(* Every state that the program reaches satisfies the invariant.            *)
THEOREM Invariance == Spec => []IInv
BY InitInv, StepInv, PTL DEF Spec

-----------------------------------------------------------------------------
(* What follows for the program.                                            *)

(* The state is well typed: in particular the list view never counts below   *)
(* zero and the selection never lies past its last row, although rows are    *)
(* deleted by handlers that were suspended (RemoveIdentityByIndex).         *)
THEOREM TypeCorrect == Spec => []TypeOK
BY Invariance, PTL DEF IInv

(* The rows of the list view are those of mIdentities in every interleaving. *)
THEOREM RowsAlwaysMatch == Spec => []RowsMatch
BY Invariance, PTL DEF IInv

(* At most one window, alive exactly while its DialogBox call is.           *)
THEOREM DialogUnique == Spec => []OneDialog
<1>1. IInv => OneDialog
  BY DEF IInv, Nested, OneDialog, DialogFrames, IsDialog
<1> QED BY <1>1, Invariance, PTL

(* While a key is loaded the device has been opened, so SignMap, which does  *)
(* not open it, never writes to the null handle.                            *)
THEOREM HandleForLoadedKeys == Spec => []LoadedNeedsHandle
BY Invariance, PTL DEF IInv

-----------------------------------------------------------------------------
(* Cached keys.                                                             *)

(* Every loaded identity is one that was there, or has its own key.          *)
LEMMA NotOutdated ==
  ASSUME \A i \in Loaded' : \/ idents'[i].cached = KeyOf(idents'[i])
                            \/ \E j \in Loaded : idents'[i] = idents[j]
  PROVE  Outdated' \subseteq Outdated
BY DEF Outdated

(* pubkey_cached of an identity is assigned its key, or none.                *)
LEMMA CacheNotOutdated ==
  ASSUME TypeOK, NEW i \in DOMAIN idents, NEW k \in {KeyGiven(i), NoKey}, idents' = Cache(i, k)
  PROVE  Outdated' \subseteq Outdated
<1>1. idents[i] \in Identity
  BY LenProperties, ElementOfSeq DEF TypeOK
<1>2. k \in Key \cup {NoKey}
  BY <1>1 DEF KeyGiven, KeyOf, Key, Identity
<1>3. /\ DOMAIN idents' = DOMAIN idents
      /\ \A j \in DOMAIN idents : j # i => idents'[j] = idents[j]
  BY <1>2, CacheType
<1>4. idents'[i] = [idents[i] EXCEPT !.cached = k]
  BY DEF Cache
<1>5. /\ idents'[i].cached = k
      /\ idents'[i].addr = idents[i].addr /\ idents'[i].ktype = idents[i].ktype
  BY <1>1, <1>4 DEF Identity
<1>6. k = NoKey \/ idents'[i].cached = KeyOf(idents'[i])
  BY <1>5 DEF KeyGiven, KeyOf
<1>7. \A j \in Loaded' : \/ idents'[j].cached = KeyOf(idents'[j])
                         \/ j \in Loaded /\ idents'[j] = idents[j]
  BY <1>3, <1>5, <1>6 DEF Loaded
<1> QED BY <1>7, NotOutdated

(* GetPubKeyFor.                                                            *)
LEMMA FetchNotOutdated ==
  ASSUME TypeOK, NEW i \in DOMAIN idents, FetchKey(i)
  PROVE  Outdated' \subseteq Outdated
BY CacheNotOutdated DEF FetchKey

(* Every step but that of a Save.                                           *)
LEMMA OutdatedStep ==
  ASSUME IInv, [Next]_vars
  PROVE  Outdated' \subseteq Outdated \/ (stack # <<>> /\ Inner.op = "Save")
<1>a. TypeOK
  BY DEF IInv
<1>b. UNCHANGED idents => Outdated' \subseteq Outdated
  BY DEF Outdated, Loaded
<1>c. idents' = <<>> => Outdated' \subseteq Outdated
  BY DEF Outdated, Loaded
<1>d. ASSUME NEW s, NEW cl, Ends(s, cl) \/ Lost(cl)
      PROVE  Outdated' \subseteq Outdated
  BY <1>b, <1>c, <1>d DEF Ends, Lost
<1>1. CASE Command
  <2>1. CASE AddNewIdentity
    <3> DEFINE e == [addr |-> NewAddr, ktype |-> NoType, cached |-> NoKey]
    <3>1. e \in Identity /\ e.cached = NoKey
      BY AgentAssumption DEF Identity
    <3>2. idents' = Append(idents, e)
      BY <2>1 DEF AddNewIdentity
    <3>3. idents \in Seq(Identity) /\ Len(idents) \in Nat /\ DOMAIN idents = 1..Len(idents)
      BY <1>a, LenProperties DEF TypeOK
    <3> HIDE DEF e
    <3>4. /\ idents' \in Seq(Identity) /\ Len(idents') = Len(idents) + 1
          /\ \A i \in 1..Len(idents) : idents'[i] = idents[i]
          /\ idents'[Len(idents) + 1] = e
      BY <3>1, <3>2, <3>3, AppendProperties
    <3>5. DOMAIN idents' = 1..(Len(idents) + 1)
      BY <3>4, LenProperties
    <3>6. \A i \in Loaded' : i \in Loaded /\ idents'[i] = idents[i]
      BY <3>1, <3>3, <3>4, <3>5 DEF Loaded
    <3> QED BY <3>6, NotOutdated
  <2>2. CASE ClearKey
    BY <1>a, <1>d, <2>2, CacheNotOutdated DEF ClearKey, Selected
  <2>3. ASSUME NEW o \in {"GetKey", "CopyKey"}, AskKey(o)
        PROVE  Outdated' \subseteq Outdated
    BY <1>a, <1>b, <1>d, <2>3, FetchNotOutdated DEF AskKey, Selected
  <2>4. CASE OpenDialog \/ CloseDialog \/ AskRemove \/ AskSave \/ \E i \in 0..MaxIdents : Select(i)
    BY <1>b, <2>4 DEF OpenDialog, CloseDialog, AskRemove, AskSave, Select
  <2> QED BY <1>1, <2>1, <2>2, <2>3, <2>4 DEF Command
<1>2. CASE Resumption
  <2>1. CASE ResumeSave
    BY <2>1 DEF ResumeSave, Innermost
  <2>2. CASE ResumeRemove
    <3>1. CASE UNCHANGED idents
      BY <1>b, <3>1
    <3>2. CASE Inner.slot \in DOMAIN idents /\ idents' = RemoveAt(idents, Inner.slot)
      <4>1. /\ idents' \in Seq(Identity) /\ Len(idents') = Len(idents) - 1
            /\ \A j \in 1..(Len(idents) - 1) : \E k \in DOMAIN idents : idents'[j] = idents[k]
        BY <1>a, <3>2, EraseType
      <4>2. DOMAIN idents' = 1..(Len(idents) - 1)
        BY <4>1, LenProperties
      <4>3. \A i \in Loaded' : \E j \in Loaded : idents'[i] = idents[j]
        BY <4>1, <4>2 DEF Loaded
      <4> QED BY <4>3, NotOutdated
    <3> QED BY <2>2, <3>1, <3>2 DEF ResumeRemove
  <2>3. ASSUME NEW o \in {"GetKey", "CopyKey"}, ResumeKey(o)
        PROVE  Outdated' \subseteq Outdated
    <3>1. CASE /\ Inner.slot \in DOMAIN idents
               /\ idents' = Cache(Inner.slot, NoKey) \/ FetchKey(Inner.slot)
      BY <1>a, <3>1, CacheNotOutdated, FetchNotOutdated
    <3> QED BY <1>d, <2>3, <3>1 DEF ResumeKey
  <2>4. CASE EndDialogLoop \/ ResumeError \/ ResumeNoKeys \/ ResumePresent
    BY <1>b, <1>d, <2>4 DEF EndDialogLoop, ResumeError, ResumeNoKeys, ResumePresent
  <2> QED BY <1>2, <2>1, <2>2, <2>3, <2>4 DEF Resumption
<1>3. ASSUME NEW c \in Clients, CopyData(c) \/ ReadReply(c)
      PROVE  Outdated' \subseteq Outdated
  BY <1>b, <1>d, <1>3 DEF CopyData, CopyDataList, CopyDataOther, CopyDataSign, ReadReply
<1>4. CASE Plug \/ Unplug \/ Exit \/ Stopped \/ UNCHANGED vars
  BY <1>b, <1>d, <1>4 DEF Plug, Unplug, Exit, Stopped, vars
<1> QED BY <1>1, <1>2, <1>3, <1>4 DEF Next

(* A key that was fetched after a box, for a row that moved or changed        *)
(* meanwhile, still is that row's key; only Save makes a loaded key differ     *)
(* from its identity's (GetPubKeyFor, SaveIdentity).                         *)
THEOREM OnlySave == Spec => OnlySaveOutdates
BY Invariance, OutdatedStep, PTL DEF Spec, OnlySaveOutdates

-----------------------------------------------------------------------------
(* References to rows.                                                      *)

(* In a list of n identities, what a handler holds that nothing has moved is   *)
(* a row of the list; Save may have been asked for with no row.              *)
InRange(f, n) ==
  f.op \in RowOps /\ f.ref = "same" => f.slot \in 0..n /\ (f.slot = 0 => f.op = "Save")

RefsHold(s, n) == \A j \in DOMAIN s : InRange(s[j], n)

RInv == IInv /\ RefsHold(stack, Len(idents))

(* A handler is suspended.                                                  *)
LEMMA PushRefs ==
  ASSUME NEW s \in Seq(Frame), NEW n, RefsHold(s, n), NEW f \in Frame, InRange(f, n)
  PROVE  RefsHold(Append(s, f), n)
<1>1. /\ Len(s) \in Nat /\ DOMAIN s = 1..Len(s)
      /\ Append(s, f) \in Seq(Frame) /\ Len(Append(s, f)) = Len(s) + 1
      /\ \A i \in 1..Len(s) : Append(s, f)[i] = s[i]
      /\ Append(s, f)[Len(s) + 1] = f
  BY AppendProperties, LenProperties
<1>2. DOMAIN Append(s, f) = 1..(Len(s) + 1)
  BY <1>1, LenProperties
<1> QED BY <1>1, <1>2 DEF RefsHold

(* A handler returns.                                                       *)
LEMMA PopRefs ==
  ASSUME NEW s \in Seq(Frame), NEW n, RefsHold(s, n), s # <<>>
  PROVE  RefsHold(Front(s), n) /\ InRange(Last(s), n)
<1>1. /\ Len(s) \in Nat \ {0} /\ DOMAIN s = 1..Len(s) /\ Last(s) = s[Len(s)]
      /\ DOMAIN Front(s) = 1..(Len(s) - 1)
      /\ \A j \in 1..(Len(s) - 1) : Front(s)[j] = s[j]
  BY FrontOfStack, LenProperties
<1> QED BY <1>1 DEF RefsHold

(* A vector moved: fewer references denote what they did.                    *)
LEMMA FreedRefs ==
  ASSUME NEW s \in Seq(Frame), NEW n, RefsHold(s, n)
  PROVE  RefsHold(FreeRows(s), n) /\ RefsHold(FreeMaps(s), n)
<1>1. \A j \in DOMAIN s : s[j] \in Frame
  BY LenProperties, ElementOfSeq
<1>2. \A f \in Frame : [f EXCEPT !.ref = "freed"].ref # "same"
  BY DEF Frame
<1>3. /\ DOMAIN FreeRows(s) = DOMAIN s
      /\ \A j \in DOMAIN s : FreeRows(s)[j] = s[j] \/ FreeRows(s)[j].ref # "same"
  BY <1>1, <1>2 DEF FreeRows
<1>4. /\ DOMAIN FreeMaps(s) = DOMAIN s
      /\ \A j \in DOMAIN s : FreeMaps(s)[j] = s[j] \/ FreeMaps(s)[j].ref # "same"
  BY <1>1, <1>2 DEF FreeMaps
<1> QED BY <1>3, <1>4 DEF RefsHold, InRange

(* The element of slot i was erased: references before it hold.              *)
LEMMA ShiftedRefs ==
  ASSUME NEW s \in Seq(Frame), NEW n \in Nat, RefsHold(s, n), NEW i \in 1..n
  PROVE  RefsHold(ShiftRows(s, i), n - 1)
<1>1. \A j \in DOMAIN s : s[j] \in Frame
  BY LenProperties, ElementOfSeq
<1>2. \A f \in Frame : [f EXCEPT !.ref = "shifted"].ref # "same"
  BY DEF Frame
<1>3. DOMAIN ShiftRows(s, i) = DOMAIN s
  BY DEF ShiftRows
<1>4. ASSUME NEW j \in DOMAIN s
      PROVE  InRange(ShiftRows(s, i)[j], n - 1)
  <2>1. CASE s[j].op \in RowOps /\ s[j].slot >= i /\ s[j].ref = "same"
    <3>1. ShiftRows(s, i)[j] = [s[j] EXCEPT !.ref = "shifted"]
      BY <2>1 DEF ShiftRows
    <3> QED BY <1>1, <1>2, <3>1 DEF InRange
  <2>2. CASE ~(s[j].op \in RowOps /\ s[j].slot >= i /\ s[j].ref = "same")
    <3>1. ShiftRows(s, i)[j] = s[j]
      BY <2>2 DEF ShiftRows
    <3>2. s[j].op \in RowOps /\ s[j].ref = "same" =>
            s[j].slot \in 0..n /\ ~(s[j].slot >= i) /\ (s[j].slot = 0 => s[j].op = "Save")
      BY <2>2 DEF RefsHold, InRange
    <3> QED BY <3>1, <3>2 DEF InRange
  <2> QED BY <2>1, <2>2
<1> QED BY <1>3, <1>4 DEF RefsHold

(* An identity was added.                                                   *)
LEMMA MoreRefs ==
  ASSUME NEW s, NEW n \in Nat, RefsHold(s, n)
  PROVE  RefsHold(s, n + 1)
BY DEF RefsHold, InRange

(* What the frames hold that handlers push.                                 *)
LEMMA FramesInRange ==
  ASSUME NEW n \in Nat
  PROVE  /\ \A o \in RowOps, i \in 1..n : InRange(RowFrame(o, i), n)
         /\ \A i \in 0..n : InRange(RowFrame("Save", i), n)
         /\ \A o \in CallOps : \A c, k : InRange(CallFrame(o, c, k), n)
         /\ InRange(DialogFrame, n)
BY OpsDistinct DEF InRange, RowFrame, CallFrame, DialogFrame, RowOps, CallOps

(* Every step keeps the references, and fails only where one no longer holds. *)
Unmoved ==
  Running /\ status' = "undefined" =>
    sel = 0 \/ (Inner.op = "Save" /\ Inner.slot = 0) \/ Inner.ref # "same"

Kept == RefsHold(stack', Len(idents')) /\ Unmoved

(* The process ends, or hangs.                                              *)
LEMMA EndsKept ==
  ASSUME RInv, NEW cl
  PROVE  /\ \A s : Ends(s, cl) /\ (s # "undefined" \/ sel = 0 \/ (Inner.op = "Save" /\ Inner.slot = 0)
                                     \/ Inner.ref # "same") => Kept
         /\ Lost(cl) => Kept
<1>1. ASSUME NEW s, Ends(s, cl)
      PROVE  RefsHold(stack', Len(idents')) /\ status' = s
  BY <1>1, EmptySeq DEF Ends, RefsHold
<1>2. CASE Lost(cl)
  <2>1. CASE Ends("crashed", cl)
    BY <1>1, <2>1 DEF Kept, Unmoved
  <2>2. CASE status' = "hung" /\ UNCHANGED <<idents, stack>>
    BY <2>2 DEF Kept, Unmoved, RInv
  <2> QED BY <1>2, <2>1, <2>2 DEF Lost
<1> QED BY <1>1, <1>2 DEF Kept, Unmoved

(* What the user does in the tray and in the window.                        *)
LEMMA CommandKept == RInv /\ Command => Kept
<1> SUFFICES ASSUME RInv, Command PROVE Kept
  OBVIOUS
<1>a. /\ TypeOK /\ Running /\ stack \in Seq(Frame) /\ RefsHold(stack, Len(idents))
      /\ idents \in Seq(Identity) /\ Len(idents) \in 0..MaxIdents /\ DOMAIN idents = 1..Len(idents)
      /\ MaxIdents \in Nat
  <2>1. Running
    BY DEF Command, OpenDialog, CloseDialog, AddNewIdentity, ClearKey, AskRemove, AskSave,
           Select, AskKey
  <2> QED BY <2>1, LenProperties, AgentAssumption DEF RInv, IInv, TypeOK
<1>b. dialog = "open" => sel \in 0..Len(idents)
  BY DEF RInv, IInv, TypeOK, RowsMatch
<1>c. ASSUME UNCHANGED status PROVE Unmoved
  BY <1>c DEF Unmoved, Running
<1>d. ASSUME NEW f \in Frame, InRange(f, Len(idents)), Suspend(f), UNCHANGED <<idents, status>>
      PROVE  Kept
  BY <1>a, <1>c, <1>d, PushRefs DEF Suspend, SuspendOn, Kept
<1>e. ASSUME UNCHANGED <<stack, status>>, Len(idents') = Len(idents)
      PROVE  Kept
  BY <1>a, <1>c, <1>e DEF Kept
<1>1. CASE OpenDialog
  BY <1>1, <1>a, <1>d, FrameTypes, FramesInRange DEF OpenDialog
<1>2. CASE CloseDialog \/ \E i \in 0..MaxIdents : Select(i)
  BY <1>2, <1>e DEF CloseDialog, Select
<1>3. CASE AddNewIdentity
  <2>1. [addr |-> NewAddr, ktype |-> NoType, cached |-> NoKey] \in Identity
    BY AgentAssumption DEF Identity
  <2>2. Len(idents') = Len(idents) + 1
    BY <1>3, <1>a, <2>1, AppendProperties DEF AddNewIdentity
  <2>3. RefsHold(stack', Len(idents))
    BY <1>3, <1>a, FreedRefs DEF AddNewIdentity
  <2>4. RefsHold(stack', Len(idents'))
    BY <1>a, <2>2, <2>3, MoreRefs
  <2> QED BY <1>3, <1>c, <2>4 DEF AddNewIdentity, Kept
<1>4. CASE ClearKey
  <2>1. CASE ~Selected /\ Ends("undefined", clients)
    <3>1. sel = 0
      BY <1>4, <1>a, <1>b, <2>1 DEF ClearKey, Selected
    <3> QED BY <2>1, <3>1, EndsKept
  <2>2. CASE /\ Selected /\ idents' = Cache(sel, NoKey) /\ UNCHANGED <<stack, status>>
    BY <1>a, <1>e, <2>2, CacheType DEF Selected
  <2> QED BY <1>4, <2>1, <2>2 DEF ClearKey
<1>5. CASE AskRemove
  <2>1. sel \in 1..Len(idents)
    BY <1>5, <1>b DEF AskRemove
  <2>2. RowFrame("Remove", sel) \in Frame /\ InRange(RowFrame("Remove", sel), Len(idents))
    BY <1>a, <2>1, FrameTypes, FramesInRange DEF RowOps
  <2> QED BY <1>5, <1>d, <2>2 DEF AskRemove
<1>6. CASE AskSave
  <2>1. sel \in 0..Len(idents) /\ sel \in 0..MaxIdents
    BY <1>6, <1>a, <1>b DEF AskSave
  <2>2. RowFrame("Save", sel) \in Frame /\ InRange(RowFrame("Save", sel), Len(idents))
    BY <1>a, <2>1, FrameTypes, FramesInRange DEF RowOps
  <2> QED BY <1>6, <1>d, <2>2 DEF AskSave
<1>7. ASSUME NEW o \in {"GetKey", "CopyKey"}, AskKey(o)
      PROVE  Kept
  <2>1. CASE ~Selected /\ Ends("undefined", clients)
    <3>1. sel = 0
      BY <1>7, <1>a, <1>b, <2>1 DEF AskKey, Selected
    <3> QED BY <2>1, <3>1, EndsKept
  <2>2. CASE Lost(clients)
    BY <2>2, EndsKept
  <2>3. CASE Selected /\ FetchKey(sel) /\ UNCHANGED <<stack, status>>
    BY <1>a, <1>e, <2>3, FetchKeyType DEF Selected
  <2>4. CASE Selected /\ Suspend(RowFrame(o, sel)) /\ UNCHANGED <<idents, status>>
    <3>1. RowFrame(o, sel) \in Frame /\ InRange(RowFrame(o, sel), Len(idents))
      BY <1>a, <2>4, FrameTypes, FramesInRange DEF RowOps, Selected
    <3> QED BY <1>d, <2>4, <3>1
  <2> QED BY <1>7, <2>1, <2>2, <2>3, <2>4 DEF AskKey
<1> QED BY <1>1, <1>2, <1>3, <1>4, <1>5, <1>6, <1>7 DEF Command

(* Handlers that come back from a nested message loop.                      *)
LEMMA ResumptionKept == RInv /\ Resumption => Kept
<1> SUFFICES ASSUME RInv, Resumption PROVE Kept
  OBVIOUS
<1>a. /\ TypeOK /\ Running /\ stack \in Seq(Frame) /\ RefsHold(stack, Len(idents)) /\ stack # <<>>
      /\ idents \in Seq(Identity) /\ Len(idents) \in 0..MaxIdents /\ DOMAIN idents = 1..Len(idents)
      /\ MaxIdents \in Nat
  <2>1. Running /\ stack # <<>>
    BY DEF Resumption, EndDialogLoop, ResumeRemove, ResumeError, ResumeSave, ResumeNoKeys,
           ResumePresent, ResumeKey, Innermost
  <2> QED BY <2>1, LenProperties, AgentAssumption DEF RInv, IInv, TypeOK
<1>b. /\ RefsHold(Front(stack), Len(idents)) /\ Front(stack) \in Seq(Frame)
      /\ InRange(Inner, Len(idents)) /\ Inner \in Frame /\ Inner.slot \in 0..MaxIdents
  BY <1>a, PopRefs, FrontOfStack DEF Inner, Frame
<1>c. ASSUME UNCHANGED status PROVE Unmoved
  BY <1>c DEF Unmoved, Running
<1>d. ASSUME Resume, UNCHANGED status, Len(idents') = Len(idents)
      PROVE  Kept
  BY <1>b, <1>c, <1>d DEF Resume, Kept
<1>e. ASSUME Inner.op \in RowOps PROVE sel \in 0..Len(idents)
  <2>1. Inner = stack[Len(stack)] /\ Len(stack) \in DOMAIN stack
    BY <1>a, FrontOfStack, LenProperties DEF Inner
  <2>2. dialog # "closed"
    BY <1>e, <2>1 DEF RInv, IInv, Nested
  <2> QED BY <2>2 DEF RInv, IInv, TypeOK, RowsMatch
<1>1. CASE EndDialogLoop \/ ResumeError \/ ResumeNoKeys
  BY <1>1, <1>d DEF EndDialogLoop, ResumeError, ResumeNoKeys
<1>2. CASE ResumeRemove
  <2>1. CASE Resume /\ UNCHANGED <<idents, status>>
    BY <1>d, <2>1
  <2>2. CASE /\ Inner.slot \in DOMAIN idents /\ UNCHANGED <<idents, status>>
             /\ stack' = Append(Front(stack), RowFrame("Error", Inner.slot))
    <3>1. RowFrame("Error", Inner.slot) \in Frame /\ InRange(RowFrame("Error", Inner.slot), Len(idents))
      BY <1>a, <1>b, <2>2, FrameTypes, FramesInRange DEF RowOps
    <3> QED BY <1>b, <1>c, <2>2, <3>1, PushRefs DEF Kept
  <2>3. CASE /\ Inner.slot \in DOMAIN idents /\ idents' = RemoveAt(idents, Inner.slot)
             /\ stack' = ShiftRows(Front(stack), Inner.slot) /\ UNCHANGED status
    <3>1. Len(idents') = Len(idents) - 1
      BY <1>a, <2>3, EraseType
    <3>2. RefsHold(stack', Len(idents) - 1)
      BY <1>a, <1>b, <2>3, ShiftedRefs
    <3> QED BY <1>c, <2>3, <3>1, <3>2 DEF Kept
  <2> QED BY <1>2, <2>1, <2>2, <2>3 DEF ResumeRemove
<1>3. CASE ResumeSave
  <2>1. CASE Inner.slot \notin DOMAIN idents /\ Ends("undefined", clients)
    <3>1. Inner.op = "Save" /\ Inner.op \in RowOps
      BY <1>3 DEF ResumeSave, Innermost, RowOps
    <3>2. Inner.ref # "same" \/ Inner.slot = 0
      BY <1>a, <1>b, <2>1, <3>1 DEF InRange
    <3> QED BY <2>1, <3>1, <3>2, EndsKept
  <2>2. CASE Resume /\ UNCHANGED <<idents, status>>
    BY <1>d, <2>2
  <2>3. CASE Resume /\ Inner.slot \in DOMAIN idents /\ Overwrite(Inner.slot) /\ UNCHANGED status
    BY <1>a, <1>d, <2>3, OverwriteType
  <2> QED BY <1>3, <2>1, <2>2, <2>3 DEF ResumeSave
<1>4. CASE ResumePresent
  <2>1. CASE Inner.ref = "freed" /\ Ends("undefined", clients)
    BY <2>1, EndsKept
  <2>2. CASE Resume /\ UNCHANGED <<idents, status>>
    BY <1>d, <2>2
  <2> QED BY <1>4, <2>1, <2>2 DEF ResumePresent
<1>5. ASSUME NEW o \in {"GetKey", "CopyKey"}, ResumeKey(o)
      PROVE  Kept
  <2>1. CASE /\ ~(Inner.ref # "freed" /\ Inner.slot \in DOMAIN idents /\ (o = "CopyKey" => Selected))
             /\ Ends("undefined", clients)
    <3>1. Inner.op = o /\ o \in RowOps /\ o # "Save"
      BY <1>5 DEF ResumeKey, Innermost, RowOps
    <3>2. Inner.ref # "same" \/ Inner.slot \in DOMAIN idents
      BY <1>a, <1>b, <3>1 DEF InRange
    <3>3. Selected \/ sel = 0
      BY <1>a, <1>e, <3>1 DEF Selected
    <3> QED BY <2>1, <3>2, <3>3, EndsKept
  <2>2. CASE Lost(clients)
    BY <2>2, EndsKept
  <2>3. CASE /\ Inner.slot \in DOMAIN idents /\ Resume /\ UNCHANGED status
             /\ idents' = Cache(Inner.slot, NoKey) \/ FetchKey(Inner.slot)
    <3>1. Len(idents') = Len(idents)
      BY <1>a, <2>3, CacheType, FetchKeyType
    <3> QED BY <1>d, <2>3, <3>1
  <2> QED BY <1>5, <2>1, <2>2, <2>3 DEF ResumeKey
<1> QED BY <1>1, <1>2, <1>3, <1>4, <1>5 DEF Resumption

(* WM_COPYDATA: what callers ask for.                                       *)
LEMMA CallKept == ASSUME RInv, NEW c \in Clients, CopyData(c) \/ ReadReply(c) PROVE Kept
<1>a. /\ TypeOK /\ stack \in Seq(Frame) /\ RefsHold(stack, Len(idents)) /\ Len(idents) \in Nat
      /\ NumLoadedKeys \in 0..MaxIdents /\ 0 \in 0..MaxIdents
  BY LoadedCount, LenProperties, AgentAssumption DEF RInv, IInv, TypeOK
<1>b. ASSUME NEW s \in WithMapOf(c)
      PROVE  RefsHold(s, Len(idents)) /\ s \in Seq(Frame)
  BY <1>a, <1>b, FreedRefs, WithMapOfNested DEF WithMapOf, RInv, Nested
<1>c. ASSUME UNCHANGED status PROVE Unmoved
  BY <1>c DEF Unmoved, Running
<1>1. CASE CopyDataList(c)
  <2>1. PICK s \in WithMapOf(c) :
          \/ SuspendOn(s, CallFrame("NoKeys", c, 0))
          \/ SuspendOn(s, CallFrame("Present", c, NumLoadedKeys))
          \/ stack' = s
    BY <1>1 DEF CopyDataList
  <2>2. \A o \in CallOps, n \in 0..MaxIdents :
          CallFrame(o, c, n) \in Frame /\ InRange(CallFrame(o, c, n), Len(idents))
    BY <1>a, FrameTypes, FramesInRange
  <2>3. \A o \in CallOps, n \in 0..MaxIdents :
          SuspendOn(s, CallFrame(o, c, n)) => RefsHold(stack', Len(idents))
    BY <1>b, <2>2, PushRefs DEF SuspendOn
  <2>4. RefsHold(stack', Len(idents))
    BY <1>a, <1>b, <2>1, <2>3 DEF CallOps
  <2> QED BY <1>1, <1>c, <2>4 DEF CopyDataList, Kept
<1>2. CASE CopyDataOther(c)
  BY <1>2, <1>b, <1>c DEF CopyDataOther, Kept
<1>3. ASSUME NEW k \in Key, CopyDataSign(c, k)
      PROVE  Kept
  <2>1. CASE stack' \in WithMapOf(c) /\ UNCHANGED <<idents, status>>
    BY <1>b, <1>c, <2>1 DEF Kept
  <2>2. ASSUME NEW cl, Lost(cl) \/ Ends("crashed", cl)
        PROVE  Kept
    BY <2>2, EndsKept
  <2> QED BY <1>3, <2>1, <2>2 DEF CopyDataSign
<1>4. CASE ReadReply(c)
  BY <1>4, <1>a, <1>c DEF ReadReply, Kept
<1> QED BY <1>1, <1>2, <1>3, <1>4 DEF CopyData

(* Every step of the process, the device and the callers.                   *)
LEMMA KeptStep == RInv /\ [Next]_vars => Kept
<1> SUFFICES ASSUME RInv, [Next]_vars PROVE Kept
  OBVIOUS
<1>1. CASE UNCHANGED <<idents, stack, status>>
  BY <1>1 DEF Kept, Unmoved, Running, RInv
<1>2. CASE Exit
  BY <1>2, EndsKept DEF Exit
<1> QED BY <1>1, <1>2, CommandKept, ResumptionKept, CallKept DEF Next, Plug, Unplug, Stopped, vars, ui, calls

(* Every reference that nothing has moved is one to a row, in every state.    *)
LEMMA RefsAlways == Spec => []RInv
<1>1. Init => RInv
  BY InitInv DEF Init, RInv, RefsHold
<1>2. RInv /\ [Next]_vars => RInv'
  BY StepInv, KeptStep DEF RInv, Kept
<1> QED BY <1>1, <1>2, PTL DEF Spec

(* A handler runs into an element that is not there only if no row is         *)
(* selected, or none was when Save asked, or if the identity or map it took    *)
(* before a box was erased or moved under that box (GetPubKeyFor,             *)
(* PresentPubKeys, SaveIdentity).                                           *)
THEOREM Defined == Spec => DefinedWhileUnmoved
BY RefsAlways, KeptStep, PTL DEF Spec, Kept, Unmoved, DefinedWhileUnmoved
=============================================================================
