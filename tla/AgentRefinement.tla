--------------------------- MODULE AgentRefinement ---------------------------
(***************************************************************************)
(* Agent keeps KeyAgent's promise for every number of clients, identities and *)
(* nested handlers.  A handler answers, when its box is closed, a call that   *)
(* was made before; that this call is still waiting for a list, and that no   *)
(* other handler has answered it, is what has to be known of the stack.      *)
(***************************************************************************)
EXTENDS AgentProofs

(* Handler j of s serves a caller; a caller that waits for a list.           *)
Serves(s, j) == s[j].op \in CallOps

AsksList == [st |-> "waiting", req |-> [kind |-> "list"]]

(* The handlers in s that serve a caller serve one each, and it waits.       *)
OneEach(s, cl) ==
  /\ \A j \in DOMAIN s : Serves(s, j) => s[j].client \in Clients /\ cl[s[j].client] = AsksList
  /\ \A j, k \in DOMAIN s : Serves(s, j) /\ Serves(s, k) /\ s[j].client = s[k].client => j = k

(* Who waits has such a handler.                                            *)
AllServed(s, cl) ==
  \A c \in Clients : cl[c].st = "waiting" => \E j \in DOMAIN s : Serves(s, j) /\ s[j].client = c

Matched(s, cl) == OneEach(s, cl) /\ AllServed(s, cl)

CInv ==
  /\ IInv
  /\ OneEach(stack, clients)
  /\ Running => AllServed(stack, clients)

-----------------------------------------------------------------------------
(* Callers and handlers: what pushing, popping and marking frames preserves. *)

(* The same handlers for the same callers, maybe with other references.      *)
LEMMA SameHandlers ==
  ASSUME NEW s, NEW t, NEW cl, Matched(s, cl), DOMAIN t = DOMAIN s,
         \A j \in DOMAIN s : t[j].op = s[j].op /\ t[j].client = s[j].client
  PROVE  Matched(t, cl)
BY DEF Matched, OneEach, AllServed, Serves

(* References are marked when a vector moves or an element is erased.        *)
LEMMA MarksMatched ==
  ASSUME NEW s \in Seq(Frame), NEW cl, Matched(s, cl)
  PROVE  /\ Matched(FreeRows(s), cl)
         /\ Matched(FreeMaps(s), cl)
         /\ \A i \in Nat : Matched(ShiftRows(s, i), cl)
<1>1. \A j \in DOMAIN s : s[j] \in Frame
  BY LenProperties, ElementOfSeq
<1>2. \A f \in Frame, r \in {"shifted", "freed"} :
        [f EXCEPT !.ref = r].op = f.op /\ [f EXCEPT !.ref = r].client = f.client
  BY DEF Frame
<1>3. /\ DOMAIN FreeRows(s) = DOMAIN s
      /\ \A j \in DOMAIN s : FreeRows(s)[j].op = s[j].op /\ FreeRows(s)[j].client = s[j].client
  BY <1>1, <1>2 DEF FreeRows
<1>4. /\ DOMAIN FreeMaps(s) = DOMAIN s
      /\ \A j \in DOMAIN s : FreeMaps(s)[j].op = s[j].op /\ FreeMaps(s)[j].client = s[j].client
  BY <1>1, <1>2 DEF FreeMaps
<1>5. ASSUME NEW i \in Nat
      PROVE  /\ DOMAIN ShiftRows(s, i) = DOMAIN s
             /\ \A j \in DOMAIN s : /\ ShiftRows(s, i)[j].op = s[j].op
                                    /\ ShiftRows(s, i)[j].client = s[j].client
  BY <1>1, <1>2 DEF ShiftRows
<1>6. Matched(FreeRows(s), cl)
  BY <1>3, SameHandlers
<1>7. Matched(FreeMaps(s), cl)
  BY <1>4, SameHandlers
<1>8. \A i \in Nat : Matched(ShiftRows(s, i), cl)
  BY <1>5, SameHandlers
<1> QED BY <1>6, <1>7, <1>8

(* A handler is suspended that serves no caller.                            *)
LEMMA PushMatched ==
  ASSUME NEW s \in Seq(Frame), NEW cl, Matched(s, cl), NEW f \in Frame, f.op \notin CallOps
  PROVE  Matched(Append(s, f), cl)
<1> DEFINE t == Append(s, f)
<1>1. /\ Len(s) \in Nat /\ DOMAIN s = 1..Len(s)
      /\ t \in Seq(Frame) /\ Len(t) = Len(s) + 1
      /\ \A i \in 1..Len(s) : t[i] = s[i]
      /\ t[Len(s) + 1] = f
  BY AppendProperties, LenProperties
<1>2. DOMAIN t = 1..(Len(s) + 1)
  BY <1>1, LenProperties
<1> HIDE DEF t
<1>3. \A j \in DOMAIN t : Serves(t, j) => j \in DOMAIN s /\ Serves(s, j) /\ t[j] = s[j]
  BY <1>1, <1>2 DEF Serves
<1>4. \A j \in DOMAIN s : j \in DOMAIN t /\ t[j] = s[j]
  BY <1>1, <1>2
<1>5. OneEach(t, cl)
  BY <1>3 DEF Matched, OneEach
<1>6. AllServed(t, cl)
  BY <1>4 DEF Matched, AllServed, Serves
<1> QED BY <1>5, <1>6 DEF Matched, t

(* A handler that serves no caller returns.                                 *)
LEMMA PopMatched ==
  ASSUME NEW s \in Seq(Frame), NEW cl, Matched(s, cl), s # <<>>, Last(s).op \notin CallOps
  PROVE  Matched(Front(s), cl)
<1>1. /\ Len(s) \in Nat \ {0} /\ DOMAIN s = 1..Len(s) /\ Last(s) = s[Len(s)]
      /\ DOMAIN Front(s) = 1..(Len(s) - 1)
      /\ \A j \in 1..(Len(s) - 1) : Front(s)[j] = s[j]
  BY FrontOfStack, LenProperties
<1>2. \A j \in DOMAIN s : Serves(s, j) => j \in DOMAIN Front(s)
  BY <1>1 DEF Serves
<1>3. \A j \in DOMAIN Front(s) : j \in DOMAIN s /\ Front(s)[j] = s[j]
  BY <1>1
<1>4. OneEach(Front(s), cl)
  BY <1>3 DEF Matched, OneEach, Serves
<1>5. AllServed(Front(s), cl)
  BY <1>2, <1>3 DEF Matched, AllServed, Serves
<1> QED BY <1>4, <1>5 DEF Matched

(* A call for a list is made, and a handler suspended that serves it.        *)
LEMMA PushServer ==
  ASSUME NEW s \in Seq(Frame), NEW cl \in [Clients -> ClientStates], Matched(s, cl),
         NEW c \in Clients, cl[c].st # "waiting",
         NEW f \in Frame, f.op \in CallOps, f.client = c
  PROVE  Matched(Append(s, f), [cl EXCEPT ![c] = AsksList])
<1> DEFINE t == Append(s, f)
           asked == [cl EXCEPT ![c] = AsksList]
<1>1. /\ Len(s) \in Nat /\ DOMAIN s = 1..Len(s)
      /\ t \in Seq(Frame) /\ Len(t) = Len(s) + 1
      /\ \A i \in 1..Len(s) : t[i] = s[i]
      /\ t[Len(s) + 1] = f
  BY AppendProperties, LenProperties
<1>2. DOMAIN t = 1..(Len(s) + 1)
  BY <1>1, LenProperties
<1>3. asked[c] = AsksList /\ \A d \in Clients : d # c => asked[d] = cl[d]
  OBVIOUS
<1> HIDE DEF t, asked
<1>4. AsksList.st = "waiting"
  BY DEF AsksList
<1>5. \A j \in DOMAIN s : Serves(s, j) => s[j].client \in Clients /\ s[j].client # c
  BY <1>4 DEF Matched, OneEach
<1>6. \A j \in DOMAIN t : j = Len(s) + 1 \/ (j \in DOMAIN s /\ t[j] = s[j])
  BY <1>1, <1>2
<1>7. OneEach(t, asked)
  <2>1. ASSUME NEW j \in DOMAIN t, Serves(t, j)
        PROVE  t[j].client \in Clients /\ asked[t[j].client] = AsksList
    BY <1>1, <1>3, <1>5, <1>6, <2>1 DEF Matched, OneEach, Serves
  <2>2. ASSUME NEW j \in DOMAIN t, NEW k \in DOMAIN t, Serves(t, j), Serves(t, k),
               t[j].client = t[k].client
        PROVE  j = k
    BY <1>1, <1>5, <1>6, <2>2 DEF Matched, OneEach, Serves
  <2> QED BY <2>1, <2>2 DEF OneEach
<1>8. AllServed(t, asked)
  <2>1. ASSUME NEW d \in Clients, asked[d].st = "waiting"
        PROVE  \E j \in DOMAIN t : Serves(t, j) /\ t[j].client = d
    <3>1. CASE d = c
      BY <1>1, <1>2, <3>1 DEF Serves
    <3>2. CASE d # c
      <4>1. PICK j \in DOMAIN s : Serves(s, j) /\ s[j].client = d
        BY <1>3, <2>1, <3>2 DEF Matched, AllServed
      <4>2. j \in DOMAIN t /\ t[j] = s[j]
        BY <1>1, <1>2
      <4> QED BY <4>1, <4>2 DEF Serves
    <3> QED BY <3>1, <3>2
  <2> QED BY <2>1 DEF AllServed
<1> QED BY <1>7, <1>8 DEF Matched, t, asked

(* The innermost handler answers its caller and returns.                    *)
LEMMA PopServer ==
  ASSUME NEW s \in Seq(Frame), NEW cl \in [Clients -> ClientStates], Matched(s, cl),
         s # <<>>, Last(s).op \in CallOps, NEW x, x.st # "waiting"
  PROVE  Matched(Front(s), [cl EXCEPT ![Last(s).client] = x])
<1> DEFINE c == Last(s).client
           answered == [cl EXCEPT ![c] = x]
<1>1. /\ Len(s) \in Nat \ {0} /\ DOMAIN s = 1..Len(s) /\ Last(s) = s[Len(s)]
      /\ DOMAIN Front(s) = 1..(Len(s) - 1)
      /\ \A j \in 1..(Len(s) - 1) : Front(s)[j] = s[j]
  BY FrontOfStack, LenProperties
<1>2. \A j \in DOMAIN Front(s) : j \in DOMAIN s /\ j # Len(s) /\ Front(s)[j] = s[j]
  BY <1>1
<1>3. Len(s) \in DOMAIN s /\ Serves(s, Len(s)) /\ s[Len(s)].client = c
  BY <1>1 DEF Serves
<1>4. c \in Clients
  BY <1>3 DEF Matched, OneEach
<1>5. answered[c] = x /\ \A d \in Clients : d # c => answered[d] = cl[d]
  BY <1>4
<1> HIDE DEF c, answered
<1>6. \A j \in DOMAIN Front(s) : Serves(Front(s), j) => Serves(s, j) /\ s[j].client # c
  BY <1>2, <1>3 DEF Matched, OneEach, Serves
<1>7. OneEach(Front(s), answered)
  BY <1>2, <1>5, <1>6 DEF Matched, OneEach
<1>8. AllServed(Front(s), answered)
  <2>1. ASSUME NEW d \in Clients, answered[d].st = "waiting"
        PROVE  \E j \in DOMAIN Front(s) : Serves(Front(s), j) /\ Front(s)[j].client = d
    <3>1. d # c /\ cl[d].st = "waiting"
      BY <1>5, <2>1
    <3>2. PICK j \in DOMAIN s : Serves(s, j) /\ s[j].client = d
      BY <3>1 DEF Matched, AllServed
    <3>3. j \in DOMAIN Front(s)
      BY <1>1, <1>3, <3>1, <3>2
    <3> QED BY <1>2, <3>2, <3>3 DEF Serves
  <2> QED BY <2>1 DEF AllServed
<1> QED BY <1>7, <1>8 DEF Matched, c, answered

(* A caller that does not wait is answered at once, or reads its answer.     *)
LEMMA CallerMatched ==
  ASSUME NEW s, NEW cl \in [Clients -> ClientStates], OneEach(s, cl),
         NEW c \in Clients, cl[c].st # "waiting", NEW x
  PROVE  /\ OneEach(s, [cl EXCEPT ![c] = x])
         /\ x.st # "waiting" /\ AllServed(s, cl) => AllServed(s, [cl EXCEPT ![c] = x])
<1> DEFINE changed == [cl EXCEPT ![c] = x]
<1>1. changed[c] = x /\ \A d \in Clients : d # c => changed[d] = cl[d]
  OBVIOUS
<1> HIDE DEF changed
<1>2. \A j \in DOMAIN s : Serves(s, j) => s[j].client # c
  BY DEF OneEach, AsksList
<1>3. OneEach(s, changed)
  BY <1>1, <1>2 DEF OneEach
<1>4. x.st # "waiting" /\ AllServed(s, cl) => AllServed(s, changed)
  BY <1>1 DEF AllServed
<1> QED BY <1>3, <1>4 DEF changed

-----------------------------------------------------------------------------
(* What a step does to the keys held, the calls and the handlers.            *)

(* Held by some identity now, or the one key that was fetched.              *)
Holds == \E k \in Key : Held' \subseteq Held \cup {k}

(* A step that no caller notices.                                           *)
Quiet ==
  /\ UNCHANGED <<clients, status>>
  /\ Holds
  /\ Matched(stack', clients)

(* The process ends or hangs over the calls in asked.                       *)
Gone(asked) ==
  \/ /\ status' # "running" /\ idents' = <<>> /\ stack' = <<>>
     /\ clients' = [c \in Clients |->
          IF asked[c].st = "waiting"
          THEN [st |-> "done", req |-> asked[c].req, reply |-> Nothing, ret |-> FALSE]
          ELSE asked[c]]
  \/ /\ status' = "hung" /\ clients' = asked /\ UNCHANGED <<idents, stack>>

(* Ends takes the calls down with the process.                              *)
LEMMA EndsGone ==
  ASSUME NEW asked, NEW s \in {"exited", "crashed", "undefined"}, Ends(s, asked)
  PROVE  Gone(asked)
BY DEF Ends, Gone

(* The loss of the Ledger ends the process or hangs it.                     *)
LEMMA LostGone ==
  ASSUME NEW asked, Lost(asked)
  PROVE  Gone(asked)
BY DEF Ends, Lost, Gone

(* There is a key.                                                          *)
LEMMA KeyExists == \E k \in Key : TRUE
<1>1. <<NewAddr, SignType>> \in Key
  BY AgentAssumption DEF Key
<1> QED BY <1>1

(* No key comes to be held.                                                 *)
LEMMA NoneFetched ==
  ASSUME \A i \in Loaded' : \E j \in Loaded : idents'[i].cached = idents[j].cached
  PROVE  Holds
BY KeyExists DEF Holds, Held

(* pubkey_cached of one identity is assigned.                               *)
LEMMA CacheHolds ==
  ASSUME TypeOK, NEW i \in DOMAIN idents, NEW k \in Key \cup {NoKey}, idents' = Cache(i, k)
  PROVE  Holds
<1>1. /\ DOMAIN idents' = DOMAIN idents
      /\ \A j \in DOMAIN idents : j # i => idents'[j] = idents[j]
      /\ idents'[i].cached = k
  BY CacheType
<1>2. CASE k = NoKey
  <2>1. \A j \in Loaded' : j \in Loaded /\ idents'[j].cached = idents[j].cached
    BY <1>1, <1>2 DEF Loaded
  <2> QED BY <2>1, NoneFetched
<1>3. CASE k \in Key
  <2>1. \A j \in Loaded' : idents'[j].cached = k \/ (j \in Loaded /\ idents'[j].cached = idents[j].cached)
    BY <1>1 DEF Loaded
  <2>2. Held' \subseteq Held \cup {k}
    BY <2>1 DEF Held
  <2> QED BY <1>3, <2>2 DEF Holds
<1> QED BY <1>2, <1>3

(* GetPubKeyFor loads one key, or none.                                     *)
LEMMA FetchHolds ==
  ASSUME TypeOK, NEW i \in DOMAIN idents, FetchKey(i)
  PROVE  Holds
<1>1. idents[i] \in Identity
  BY LenProperties, ElementOfSeq DEF TypeOK
<1>2. KeyGiven(i) \in Key \cup {NoKey}
  BY <1>1 DEF KeyGiven, KeyOf, Key, Identity
<1>3. PICK k \in Key \cup {NoKey} : idents' = Cache(i, k)
  BY <1>2 DEF FetchKey
<1> QED BY <1>3, CacheHolds

(* SaveIdentity leaves every cached key where it is.                        *)
LEMMA OverwriteHolds ==
  ASSUME TypeOK, NEW i \in DOMAIN idents, Overwrite(i)
  PROVE  Holds
<1>1. PICK a \in Addrs, t \in KeyTypes :
        idents' = [idents EXCEPT ![i].addr = a, ![i].ktype = t]
  BY DEF Overwrite
<1>2. idents[i] \in Identity
  BY LenProperties, ElementOfSeq DEF TypeOK
<1> DEFINE e == [idents[i] EXCEPT !.addr = a, !.ktype = t]
<1>3. e.cached = idents[i].cached
  BY <1>2 DEF Identity
<1>4. idents' = [idents EXCEPT ![i] = e]
  BY <1>1
<1> HIDE DEF e
<1>5. DOMAIN idents' = DOMAIN idents /\ \A j \in DOMAIN idents : idents'[j].cached = idents[j].cached
  BY <1>3, <1>4
<1>6. \A j \in Loaded' : j \in Loaded /\ idents'[j].cached = idents[j].cached
  BY <1>5 DEF Loaded
<1> QED BY <1>6, NoneFetched

(* What the user does in the tray and in the window.                        *)
LEMMA CommandOutcome ==
  ASSUME CInv, Command
  PROVE  Quiet \/ Gone(clients)
<1>a. /\ TypeOK /\ Matched(stack, clients) /\ stack \in Seq(Frame) /\ sel \in 0..MaxIdents
      /\ idents \in Seq(Identity) /\ Len(idents) \in Nat /\ DOMAIN idents = 1..Len(idents)
  <2>1. Running
    BY DEF Command, OpenDialog, CloseDialog, AddNewIdentity, ClearKey, AskRemove, AskSave,
           Select, AskKey
  <2> QED BY <2>1, LenProperties, AgentAssumption DEF CInv, IInv, TypeOK, Matched
<1>b. UNCHANGED idents => Holds
  <2>1. ASSUME UNCHANGED idents PROVE \A i \in Loaded' : i \in Loaded /\ idents'[i].cached = idents[i].cached
    BY <2>1 DEF Loaded
  <2> QED BY <2>1, NoneFetched
<1>c. ASSUME NEW f \in Frame, f.op \notin CallOps
      PROVE  Suspend(f) => Matched(stack', clients)
  BY <1>a, <1>c, PushMatched DEF Suspend, SuspendOn
<1>1. CASE OpenDialog
  <2>1. Matched(stack', clients)
    BY <1>1, <1>c, FrameTypes, OpsDistinct DEF OpenDialog
  <2> QED BY <1>1, <1>b, <2>1 DEF OpenDialog, Quiet, calls
<1>2. CASE CloseDialog
  BY <1>2, <1>a, <1>b DEF CloseDialog, Quiet, calls
<1>3. CASE AddNewIdentity
  <2> DEFINE e == [addr |-> NewAddr, ktype |-> NoType, cached |-> NoKey]
  <2>1. e \in Identity /\ e.cached = NoKey
    BY AgentAssumption DEF Identity
  <2>2. idents' = Append(idents, e)
    BY <1>3 DEF AddNewIdentity
  <2> HIDE DEF e
  <2>3. /\ idents' \in Seq(Identity) /\ Len(idents') = Len(idents) + 1
        /\ \A i \in 1..Len(idents) : idents'[i] = idents[i]
        /\ idents'[Len(idents) + 1] = e
    BY <1>a, <2>1, <2>2, AppendProperties
  <2>4. DOMAIN idents' = 1..(Len(idents) + 1)
    BY <2>3, LenProperties
  <2>5. \A i \in Loaded' : i \in Loaded /\ idents'[i].cached = idents[i].cached
    BY <1>a, <2>1, <2>3, <2>4 DEF Loaded
  <2>6. Matched(stack', clients)
    BY <1>3, <1>a, MarksMatched DEF AddNewIdentity
  <2> QED BY <1>3, <2>5, <2>6, NoneFetched DEF AddNewIdentity, Quiet, calls
<1>4. CASE ClearKey
  <2>1. CASE Ends("undefined", clients)
    BY <2>1, EndsGone
  <2>2. CASE /\ Selected /\ idents' = Cache(sel, NoKey)
             /\ UNCHANGED <<ui, stack, dev, calls, status>>
    BY <1>a, <2>2, CacheHolds DEF Selected, Quiet, calls
  <2> QED BY <1>4, <2>1, <2>2 DEF ClearKey
<1>5. CASE AskRemove
  <2>1. RowFrame("Remove", sel) \in Frame /\ RowFrame("Remove", sel).op \notin CallOps
    BY <1>a, FrameTypes, OpsDistinct DEF RowOps, CallOps
  <2> QED BY <1>5, <1>b, <1>c, <2>1 DEF AskRemove, Quiet, calls
<1>6. CASE AskSave
  <2>1. RowFrame("Save", sel) \in Frame /\ RowFrame("Save", sel).op \notin CallOps
    BY <1>a, FrameTypes, OpsDistinct DEF RowOps, CallOps
  <2> QED BY <1>6, <1>b, <1>c, <2>1 DEF AskSave, Quiet, calls
<1>7. ASSUME NEW i \in 0..MaxIdents, Select(i)
      PROVE  Quiet
  BY <1>7, <1>a, <1>b DEF Select, Quiet, calls
<1>8. ASSUME NEW o \in {"GetKey", "CopyKey"}, AskKey(o)
      PROVE  Quiet \/ Gone(clients)
  <2>1. CASE Ends("undefined", clients)
    BY <2>1, EndsGone
  <2>2. CASE Lost(clients)
    BY <2>2, LostGone
  <2>3. CASE Selected /\ FetchKey(sel) /\ UNCHANGED <<ui, stack, calls, status>>
    BY <1>a, <2>3, FetchHolds DEF Selected, Quiet, calls
  <2>4. CASE Suspend(RowFrame(o, sel)) /\ UNCHANGED <<idents, ui, dev, calls, status>>
    <3>1. RowFrame(o, sel) \in Frame /\ RowFrame(o, sel).op \notin CallOps
      BY <1>a, FrameTypes, OpsDistinct DEF RowOps, CallOps
    <3> QED BY <2>4, <1>b, <1>c, <3>1 DEF Quiet, calls
  <2> QED BY <1>8, <2>1, <2>2, <2>3, <2>4 DEF AskKey
<1> QED BY <1>1, <1>2, <1>3, <1>4, <1>5, <1>6, <1>7, <1>8 DEF Command

(* Handlers of the window that come back from a nested message loop.         *)
LEMMA RowResumptionOutcome ==
  ASSUME CInv,
         \/ EndDialogLoop \/ ResumeRemove \/ ResumeError \/ ResumeSave
         \/ \E o \in {"GetKey", "CopyKey"} : ResumeKey(o)
  PROVE  Quiet \/ Gone(clients)
<1>a. /\ TypeOK /\ Matched(stack, clients) /\ stack \in Seq(Frame)
      /\ idents \in Seq(Identity) /\ Len(idents) \in Nat /\ DOMAIN idents = 1..Len(idents)
  <2>1. Running
    BY DEF EndDialogLoop, ResumeRemove, ResumeError, ResumeSave, ResumeKey, Innermost
  <2> QED BY <2>1, LenProperties DEF CInv, IInv, TypeOK, Matched
<1>b. UNCHANGED idents => Holds
  <2>1. ASSUME UNCHANGED idents PROVE \A i \in Loaded' : i \in Loaded /\ idents'[i].cached = idents[i].cached
    BY <2>1 DEF Loaded
  <2> QED BY <2>1, NoneFetched
<1>c. ASSUME NEW o \in RowOps \cup {"Dialog"}, Innermost(o)
      PROVE  /\ Matched(Front(stack), clients) /\ Front(stack) \in Seq(Frame)
             /\ Inner.slot \in 0..MaxIdents
  BY <1>a, <1>c, PopMatched, FrontOfStack, OpsDistinct DEF Innermost, Inner, Frame
<1>1. CASE EndDialogLoop
  BY <1>1, <1>b, <1>c DEF EndDialogLoop, Resume, Quiet, calls
<1>2. CASE ResumeRemove
  <2>0. /\ Matched(Front(stack), clients) /\ Front(stack) \in Seq(Frame)
        /\ Inner.slot \in 0..MaxIdents
    BY <1>2, <1>c DEF ResumeRemove, RowOps
  <2>1. CASE Resume /\ UNCHANGED <<idents, rows, sel>>
    BY <1>2, <1>b, <2>0, <2>1 DEF ResumeRemove, Resume, Quiet, calls
  <2>2. CASE stack' = Append(Front(stack), RowFrame("Error", Inner.slot)) /\ UNCHANGED <<idents, rows, sel>>
    <3>1. RowFrame("Error", Inner.slot) \in Frame /\ RowFrame("Error", Inner.slot).op \notin CallOps
      BY <2>0, FrameTypes, OpsDistinct DEF RowOps, CallOps
    <3>2. Matched(stack', clients)
      BY <2>0, <2>2, <3>1, PushMatched
    <3> QED BY <1>2, <1>b, <2>2, <3>2 DEF ResumeRemove, Quiet, calls
  <2>3. CASE /\ Inner.slot \in DOMAIN idents /\ idents' = RemoveAt(idents, Inner.slot)
             /\ stack' = ShiftRows(Front(stack), Inner.slot)
    <3>1. Inner.slot \in DOMAIN idents
      BY <2>3
    <3>2. /\ idents' \in Seq(Identity) /\ Len(idents') = Len(idents) - 1
          /\ \A j \in 1..(Len(idents) - 1) : \E k \in DOMAIN idents : idents'[j] = idents[k]
      BY <1>a, <2>3, <3>1, EraseType
    <3>3. DOMAIN idents' = 1..(Len(idents) - 1)
      BY <3>2, LenProperties
    <3>4. \A i \in Loaded' : \E j \in Loaded : idents'[i].cached = idents[j].cached
      BY <3>2, <3>3 DEF Loaded
    <3>5. Inner.slot \in Nat
      BY <1>a, <3>1
    <3>6. Matched(stack', clients)
      BY <2>0, <2>3, <3>5, MarksMatched
    <3> QED BY <1>2, <3>4, <3>6, NoneFetched DEF ResumeRemove, Quiet, calls
  <2> QED BY <1>2, <2>1, <2>2, <2>3 DEF ResumeRemove
<1>3. CASE ResumeError
  BY <1>3, <1>b, <1>c DEF ResumeError, Resume, Quiet, calls, RowOps
<1>4. CASE ResumeSave
  <2>1. CASE Ends("undefined", clients)
    BY <2>1, EndsGone
  <2>2. CASE /\ Resume /\ (UNCHANGED idents \/ (Inner.slot \in DOMAIN idents /\ Overwrite(Inner.slot)))
             /\ UNCHANGED <<ui, dev, calls, status>>
    <3>1. Holds
      BY <1>a, <1>b, <2>2, OverwriteHolds
    <3> QED BY <1>4, <1>c, <2>2, <3>1 DEF ResumeSave, Resume, Quiet, calls, RowOps
  <2> QED BY <1>4, <2>1, <2>2 DEF ResumeSave
<1>5. ASSUME NEW o \in {"GetKey", "CopyKey"}, ResumeKey(o)
      PROVE  Quiet \/ Gone(clients)
  <2>1. CASE Ends("undefined", clients)
    BY <2>1, EndsGone
  <2>2. CASE Lost(clients)
    BY <2>2, LostGone
  <2>3. CASE /\ Inner.slot \in DOMAIN idents /\ Resume /\ UNCHANGED <<ui, calls, status>>
             /\ idents' = Cache(Inner.slot, NoKey) \/ FetchKey(Inner.slot)
    <3>1. Holds
      BY <1>a, <2>3, CacheHolds, FetchHolds
    <3> QED BY <1>5, <1>c, <2>3, <3>1 DEF ResumeKey, Resume, Quiet, calls, RowOps
  <2> QED BY <1>5, <2>1, <2>2, <2>3 DEF ResumeKey
<1> QED BY <1>1, <1>2, <1>3, <1>4, <1>5

(* A call is made, and waits.                                               *)
Asked(c, q) ==
  /\ clients[c].st = "idle"
  /\ clients' = [clients EXCEPT ![c] = [st |-> "waiting", req |-> q]]
  /\ UNCHANGED <<idents, status>>

(* A call is answered, as an agent may that holds these keys.                *)
Answered(c, q, r) ==
  /\ clients[c].st = "idle" \/ clients[c] = [st |-> "waiting", req |-> q]
  /\ AbstractReply(r) \in KA!Permitted(q, Held)
  /\ \E b \in BOOLEAN : Return(c, q, r, b)
  /\ UNCHANGED <<idents, status>>

(* What the callers' steps come to.                                         *)
CallOutcome(c) ==
  \/ /\ Matched(stack', clients')
     /\ Asked(c, [kind |-> "list"]) \/ (\E q \in Requests : \E r : Answered(c, q, r))
  \/ Gone(clients)
  \/ \E q \in Requests :
       clients[c].st = "idle" /\ Gone([clients EXCEPT ![c] = [st |-> "waiting", req |-> q]])

(* A list shows what is held, or is not written.                            *)
LEMMA ListPermitted ==
  ASSUME NEW n
  PROVE  AbstractReply(ListReply(n)) \in KA!Permitted([kind |-> "list"], Held)
<1> DEFINE e == [i \in Loaded |-> idents[i].cached]
<1>1. KA!Permitted([kind |-> "list"], Held) = {KA!Nothing, [kind |-> "list", keys |-> Held]}
  BY DEF KA!Permitted
<1>2. AbstractReply(Nothing) = KA!Nothing
  BY DEF AbstractReply, Nothing, KA!Nothing
<1>3. {e[i] : i \in DOMAIN e} = Held
  BY DEF Held
<1> HIDE DEF e
<1>4. AbstractReply([kind |-> "list", count |-> n, entries |-> e]) = [kind |-> "list", keys |-> Held]
  BY <1>3 DEF AbstractReply
<1> QED BY <1>1, <1>2, <1>4 DEF ListReply, e

(* A call that has nothing written may be one for a list or any other.       *)
LEMMA NothingPermitted ==
  /\ AbstractReply(Nothing) \in KA!Permitted([kind |-> "list"], Held)
  /\ AbstractReply(Nothing) \in KA!Permitted([kind |-> "other"], Held)
BY DEF AbstractReply, Nothing, KA!Nothing, KA!Permitted

(* SignMap signs with a key that is held, and refuses only for others.       *)
LEMMA SignPermitted ==
  ASSUME NEW k \in Key
  PROVE  /\ Matching(k) = {} =>
              AbstractReply([kind |-> "failure"]) \in KA!Permitted([kind |-> "sign", key |-> k], Held)
         /\ \A i \in Signers(k) : \A r \in {Signature(k, i), Nothing} :
              AbstractReply(r) \in KA!Permitted([kind |-> "sign", key |-> k], Held)
<1>1. k \in Held <=> Matching(k) # {}
  BY DEF Held, Matching
<1>2. KA!Permitted([kind |-> "sign", key |-> k], Held) =
        IF k \in Held THEN {KA!Nothing, [kind |-> "sig", key |-> k]} ELSE {[kind |-> "failure"]}
  BY DEF KA!Permitted
<1>3. AbstractReply([kind |-> "failure"]) = [kind |-> "failure"]
  BY DEF AbstractReply
<1>4. AbstractReply(Nothing) = KA!Nothing
  BY DEF AbstractReply, Nothing, KA!Nothing
<1>5. \A i : AbstractReply(Signature(k, i)) = [kind |-> "sig", key |-> k]
  BY DEF AbstractReply, Signature
<1>6. Signers(k) # {} => Matching(k) # {}
  BY DEF Signers
<1> QED BY <1>1, <1>2, <1>3, <1>4, <1>5, <1>6

(* WM_COPYDATA.                                                             *)
LEMMA CopyDataOutcome ==
  ASSUME CInv, NEW c \in Clients, CopyData(c)
  PROVE  CallOutcome(c)
<1>a. /\ TypeOK /\ Matched(stack, clients) /\ stack \in Seq(Frame)
      /\ clients \in [Clients -> ClientStates] /\ NumLoadedKeys \in 0..MaxIdents
      /\ clients[c].st = "idle"
  <2>1. Running /\ clients[c].st = "idle"
    BY DEF CopyData, CopyDataList, CopyDataOther, CopyDataSign
  <2> QED BY <2>1, LoadedCount DEF CInv, IInv, TypeOK, Matched
(* The lookup of the map leaves the handlers that there are.                *)
<1>b. ASSUME NEW s \in WithMapOf(c)
      PROVE  Matched(s, clients) /\ s \in Seq(Frame)
  BY <1>a, <1>b, MarksMatched, WithMapOfNested DEF WithMapOf, CInv, Nested
<1>c. ASSUME NEW q, NEW r, NEW b, Return(c, q, r, b), stack' \in WithMapOf(c)
      PROVE  Matched(stack', clients')
  <2>1. [st |-> "done", req |-> q, reply |-> r, ret |-> b].st # "waiting"
    OBVIOUS
  <2>2. Matched(stack', clients)
    BY <1>b, <1>c
  <2> QED BY <1>a, <1>c, <2>1, <2>2, CallerMatched DEF Return, Matched
<1>1. CASE CopyDataList(c)
  <2>1. PICK s \in WithMapOf(c) :
          \/ /\ \/ SuspendOn(s, CallFrame("NoKeys", c, 0))
                \/ SuspendOn(s, CallFrame("Present", c, NumLoadedKeys))
             /\ clients' = [clients EXCEPT ![c] = [st |-> "waiting", req |-> [kind |-> "list"]]]
          \/ stack' = s /\ Return(c, [kind |-> "list"], ListReply(NumLoadedKeys), TRUE)
    BY <1>1 DEF CopyDataList
  <2>2. CASE /\ \/ SuspendOn(s, CallFrame("NoKeys", c, 0))
                \/ SuspendOn(s, CallFrame("Present", c, NumLoadedKeys))
             /\ clients' = [clients EXCEPT ![c] = [st |-> "waiting", req |-> [kind |-> "list"]]]
    <3>1. PICK o \in CallOps, n \in 0..MaxIdents : stack' = Append(s, CallFrame(o, c, n))
      BY <1>a, <2>2, AgentAssumption DEF SuspendOn, CallOps
    <3>2. CallFrame(o, c, n) \in Frame /\ CallFrame(o, c, n).op \in CallOps /\ CallFrame(o, c, n).client = c
      BY FrameTypes DEF CallFrame
    <3>3. Matched(stack', clients')
      BY <1>a, <1>b, <2>2, <3>1, <3>2, PushServer DEF AsksList
    <3>4. Asked(c, [kind |-> "list"])
      BY <1>1, <1>a, <2>2 DEF Asked, CopyDataList
    <3> QED BY <3>3, <3>4 DEF CallOutcome
  <2>3. CASE stack' = s /\ Return(c, [kind |-> "list"], ListReply(NumLoadedKeys), TRUE)
    <3>1. Answered(c, [kind |-> "list"], ListReply(NumLoadedKeys))
      BY <1>1, <1>a, <2>3, ListPermitted DEF Answered, CopyDataList
    <3>2. Matched(stack', clients')
      BY <1>c, <2>3
    <3> QED BY <3>1, <3>2, RequestTypes DEF CallOutcome
  <2> QED BY <2>1, <2>2, <2>3
<1>2. CASE CopyDataOther(c)
  <2>1. Answered(c, [kind |-> "other"], Nothing)
    BY <1>2, <1>a, NothingPermitted DEF Answered, CopyDataOther
  <2>2. Matched(stack', clients')
    BY <1>2, <1>c DEF CopyDataOther
  <2> QED BY <2>1, <2>2, RequestTypes DEF CallOutcome
<1>3. ASSUME NEW k \in Key, CopyDataSign(c, k)
      PROVE  CallOutcome(c)
  <2> DEFINE q == [kind |-> "sign", key |-> k]
             asked == [clients EXCEPT ![c] = [st |-> "waiting", req |-> q]]
  <2>1. q \in Requests
    BY RequestTypes
  <2>2. CASE Lost(asked) \/ Ends("crashed", asked)
    <3>1. Gone(asked)
      BY <2>2, LostGone, EndsGone
    <3> QED BY <1>a, <2>1, <3>1 DEF CallOutcome
  <2>3. CASE /\ \/ Matching(k) = {} /\ Return(c, q, [kind |-> "failure"], FALSE)
                \/ \E i \in Signers(k) : \E r \in {Signature(k, i), Nothing} : Return(c, q, r, TRUE)
             /\ stack' \in WithMapOf(c) /\ UNCHANGED <<idents, status>>
    <3>1. PICK r : \E b \in BOOLEAN : AbstractReply(r) \in KA!Permitted(q, Held) /\ Return(c, q, r, b)
      <4>1. CASE Matching(k) = {} /\ Return(c, q, [kind |-> "failure"], FALSE)
        BY <4>1, SignPermitted
      <4>2. ASSUME NEW i \in Signers(k), NEW r \in {Signature(k, i), Nothing}, Return(c, q, r, TRUE)
            PROVE  \E s : \E b \in BOOLEAN : AbstractReply(s) \in KA!Permitted(q, Held) /\ Return(c, q, s, b)
        <5>1. AbstractReply(r) \in KA!Permitted(q, Held)
          BY SignPermitted
        <5> QED BY <4>2, <5>1
      <4> QED BY <2>3, <4>1, <4>2
    <3>2. Answered(c, q, r)
      BY <1>a, <2>3, <3>1 DEF Answered
    <3>3. Matched(stack', clients')
      BY <1>c, <2>3, <3>1
    <3> QED BY <2>1, <3>2, <3>3 DEF CallOutcome
  <2> QED BY <1>3, <2>2, <2>3 DEF CopyDataSign
<1> QED BY <1>1, <1>2, <1>3 DEF CopyData

(* A handler of a caller's request comes back from its box.                  *)
LEMMA CallResumptionOutcome ==
  ASSUME CInv, ResumeNoKeys \/ ResumePresent
  PROVE  \E c \in Clients : CallOutcome(c)
<1>a. /\ Matched(stack, clients) /\ stack \in Seq(Frame) /\ stack # <<>> /\ Inner = Last(stack)
      /\ clients \in [Clients -> ClientStates] /\ Inner.op \in CallOps
  <2>1. Running /\ stack # <<>> /\ Inner.op \in CallOps
    BY DEF ResumeNoKeys, ResumePresent, Innermost, CallOps
  <2> QED BY <2>1 DEF CInv, IInv, TypeOK, Matched, Inner
<1>b. Inner.client \in Clients /\ clients[Inner.client] = AsksList
  BY <1>a, FrontOfStack, LenProperties DEF Matched, OneEach, Serves
<1>1. CASE Ends("undefined", clients)
  BY <1>1, <1>b, EndsGone DEF CallOutcome
<1>2. ASSUME NEW r, Return(Inner.client, [kind |-> "list"], r, TRUE), Resume,
             UNCHANGED <<idents, status>>,
             AbstractReply(r) \in KA!Permitted([kind |-> "list"], Held)
      PROVE  CallOutcome(Inner.client)
  <2>1. Answered(Inner.client, [kind |-> "list"], r)
    BY <1>b, <1>2 DEF Answered, AsksList
  <2>2. [st |-> "done", req |-> [kind |-> "list"], reply |-> r, ret |-> TRUE].st # "waiting"
    OBVIOUS
  <2>3. Matched(stack', clients')
    BY <1>a, <1>2, <2>2, PopServer DEF Return, Resume
  <2> QED BY <2>1, <2>3, RequestTypes DEF CallOutcome
<1>3. CASE ResumeNoKeys
  BY <1>b, <1>2, <1>3, NothingPermitted DEF ResumeNoKeys
<1>4. CASE ResumePresent
  BY <1>b, <1>1, <1>2, <1>4, NothingPermitted, ListPermitted DEF ResumePresent, GiveUp
<1> QED BY <1>3, <1>4

-----------------------------------------------------------------------------
(* The invariant.                                                           *)

(* The process is gone: no handler is left, or those that hang are.          *)
LEMMA GoneInv ==
  ASSUME CInv, IInv', NEW cl \in [Clients -> ClientStates], OneEach(stack, cl), Gone(cl)
  PROVE  CInv'
<1>1. OneEach(stack', clients')
  BY DEF Gone, OneEach
<1> QED BY <1>1 DEF CInv, Gone, Running

(* At the start no handler is suspended and no call made.                   *)
LEMMA CInit == Init => CInv
<1>1. Init => OneEach(stack, clients) /\ AllServed(stack, clients)
  BY DEF Init, OneEach, AllServed
<1> QED BY <1>1, InitInv DEF CInv

(* Every step of the process, the device and the callers.                   *)
LEMMA CStep == CInv /\ [Next]_vars => CInv'
<1> SUFFICES ASSUME CInv, [Next]_vars PROVE CInv'
  OBVIOUS
<1>1. IInv'
  BY StepInv DEF CInv
<1>2. clients \in [Clients -> ClientStates] /\ OneEach(stack, clients)
  BY DEF CInv, IInv, TypeOK
<1>3. CASE Quiet \/ Gone(clients)
  BY <1>1, <1>2, <1>3, GoneInv DEF Quiet, CInv, Matched
<1>4. ASSUME NEW c \in Clients, CallOutcome(c)
      PROVE  CInv'
  <2>1. CASE Matched(stack', clients')
    BY <1>1, <2>1 DEF CInv, Matched
  <2>2. CASE Gone(clients)
    BY <1>3, <2>2
  <2>3. ASSUME NEW q \in Requests, clients[c].st = "idle",
               Gone([clients EXCEPT ![c] = [st |-> "waiting", req |-> q]])
        PROVE  CInv'
    <3> DEFINE asked == [clients EXCEPT ![c] = [st |-> "waiting", req |-> q]]
    <3>1. asked \in [Clients -> ClientStates]
      BY <1>2, RequestTypes
    <3>2. OneEach(stack, asked)
      BY <1>2, <2>3, CallerMatched
    <3> HIDE DEF asked
    <3>3. Gone(asked)
      BY <2>3 DEF asked
    <3> QED BY <1>1, <3>1, <3>2, <3>3, GoneInv
  <2> QED BY <1>4, <2>1, <2>2, <2>3 DEF CallOutcome
<1>5. ASSUME NEW c \in Clients, ReadReply(c)
      PROVE  CInv'
  <2>1. [st |-> "idle"].st # "waiting"
    OBVIOUS
  <2>2. /\ OneEach(stack, clients')
        /\ AllServed(stack, clients) => AllServed(stack, clients')
    BY <1>2, <1>5, <2>1, CallerMatched DEF ReadReply
  <2> QED BY <1>1, <1>5, <2>2 DEF ReadReply, CInv, Running
<1>6. CASE UNCHANGED <<stack, clients, status>>
  BY <1>1, <1>6 DEF CInv, Running
<1>7. CASE Exit
  BY <1>3, <1>7, EndsGone DEF Exit
<1> QED
  BY <1>3, <1>4, <1>5, <1>6, <1>7, CommandOutcome, RowResumptionOutcome, CopyDataOutcome,
     CallResumptionOutcome
  DEF Next, Resumption, Plug, Unplug, Stopped, vars, ui, dev, calls

(* Handlers and callers match in every state that the program reaches.       *)
THEOREM HandlersMatchCalls == Spec => []CInv
BY CInit, CStep, PTL DEF Spec

(* Every client that waits has one suspended handler that will answer it,    *)
(* and no handler is left that would answer a client twice (PresentPubKeys). *)
THEOREM OneHandler == Spec => []OneHandlerPerCall
<1>1. CInv => OneHandlerPerCall
  BY DEF CInv, OneEach, AllServed, Serves, AsksList, OneHandlerPerCall, Waiting
<1> QED BY <1>1, HandlersMatchCalls, PTL

-----------------------------------------------------------------------------
(* The refinement: every step is one of the abstract agent, or none.         *)

AbstractCalls == [c \in Clients |-> AbstractCall(clients[c])]

(* A call looks the same to the abstract agent as long as it is not answered. *)
LEMMA AbstractStates ==
  /\ \A q : AbstractCall([st |-> "waiting", req |-> q]) = KA!Waiting(q)
  /\ AbstractCall([st |-> "idle"]) = KA!Idle
  /\ \A q, r, b : AbstractCall([st |-> "done", req |-> q, reply |-> r, ret |-> b])
                    = KA!Done(q, AbstractReply(r))
  /\ \A x \in ClientStates : AbstractCall(x).st = x.st
  /\ \A x \in ClientStates : x.st = "idle" => AbstractCall(x) = KA!Idle
  /\ \A x \in ClientStates : x.st = "waiting" => AbstractCall(x) = x
BY DEF AbstractCall, KA!Waiting, KA!Idle, KA!Done, ClientStates

(* One call changes.                                                        *)
LEMMA OneCall ==
  ASSUME NEW c \in Clients, clients \in [Clients -> ClientStates], NEW x,
         clients' = [clients EXCEPT ![c] = x]
  PROVE  AbstractCalls' = [AbstractCalls EXCEPT ![c] = AbstractCall(x)]
BY DEF AbstractCalls

(* Without a change of the identities, the keys held are the same.           *)
LEMMA SameHeld == UNCHANGED idents => Held' = Held
BY DEF Held, Loaded

(* A process that is gone holds no key.                                     *)
LEMMA NoneHeld == idents' = <<>> => Held' = {}
BY DEF Held, Loaded

(* A step that no caller notices loads a key, loses some, or neither.       *)
LEMMA QuietStep ==
  ASSUME Quiet
  PROVE  \E k \in Key : KA!Hold(k)
<1>1. PICK k \in Key : Held' \subseteq Held \cup {k}
  BY DEF Quiet, Holds
<1>2. AbstractCalls' = AbstractCalls
  BY DEF Quiet, AbstractCalls
<1> QED BY <1>1, <1>2 DEF KA!Hold, AbstractCalls

(* A request that waits for a box is a call.                                *)
LEMMA AskedStep ==
  ASSUME TypeOK, NEW c \in Clients, NEW q \in Requests, Asked(c, q)
  PROVE  KA!Call(c, q)
<1>1. clients \in [Clients -> ClientStates] /\ clients[c] \in ClientStates
  BY DEF TypeOK
<1>2. AbstractCalls' = [AbstractCalls EXCEPT ![c] = KA!Waiting(q)]
  <2> DEFINE x == [st |-> "waiting", req |-> q]
  <2>1. clients' = [clients EXCEPT ![c] = x]
    BY DEF Asked
  <2>2. AbstractCall(x) = KA!Waiting(q)
    BY AbstractStates
  <2> HIDE DEF x
  <2> QED BY <1>1, <2>1, <2>2, OneCall
<1>3. AbstractCalls[c] = KA!Idle
  BY <1>1, AbstractStates DEF Asked, AbstractCalls
<1> QED BY <1>2, <1>3, SameHeld DEF Asked, KA!Call, AbstractCalls

(* A request that is answered at once, or after its box, is answered.       *)
LEMMA AnsweredStep ==
  ASSUME TypeOK, NEW c \in Clients, NEW q \in Requests, NEW r, Answered(c, q, r)
  PROVE  KA!Answer(c, q)
<1>1. clients \in [Clients -> ClientStates] /\ clients[c] \in ClientStates
  BY DEF TypeOK
<1>2. AbstractCalls' = [AbstractCalls EXCEPT ![c] = KA!Done(q, AbstractReply(r))]
  <2>1. PICK b \in BOOLEAN : Return(c, q, r, b)
    BY DEF Answered
  <2> DEFINE x == [st |-> "done", req |-> q, reply |-> r, ret |-> b]
  <2>2. clients' = [clients EXCEPT ![c] = x]
    BY <2>1 DEF Return
  <2>3. AbstractCall(x) = KA!Done(q, AbstractReply(r))
    BY AbstractStates
  <2> HIDE DEF x
  <2> QED BY <1>1, <2>2, <2>3, OneCall
<1>3. AbstractCalls[c] \in {KA!Idle, KA!Waiting(q)}
  BY <1>1, AbstractStates DEF Answered, AbstractCalls
<1>4. AbstractReply(r) \in KA!Permitted(q, Held)
  BY DEF Answered
<1> QED BY <1>2, <1>3, <1>4, SameHeld DEF Answered, KA!Answer, AbstractCalls

(* The caller reads its answer.                                             *)
LEMMA ReadStep ==
  ASSUME TypeOK, NEW c \in Clients, ReadReply(c)
  PROVE  KA!Read(c)
<1>1. clients \in [Clients -> ClientStates] /\ clients[c] \in ClientStates
  BY DEF TypeOK
<1>2. AbstractCalls' = [AbstractCalls EXCEPT ![c] = KA!Idle]
  BY <1>1, OneCall, AbstractStates DEF ReadReply
<1>3. AbstractCalls[c].st = "done"
  BY <1>1, AbstractStates DEF ReadReply, AbstractCalls
<1> QED BY <1>2, <1>3, SameHeld DEF ReadReply, KA!Read, AbstractCalls

(* The process ends over the calls in asked.                                *)
LEMMA Drops ==
  ASSUME NEW asked \in [Clients -> ClientStates],
         clients' = [c \in Clients |->
           IF asked[c].st = "waiting"
           THEN [st |-> "done", req |-> asked[c].req, reply |-> Nothing, ret |-> FALSE]
           ELSE asked[c]]
  PROVE  KA!Dropped([c \in Clients |-> AbstractCall(asked[c])])
<1> DEFINE abs == [c \in Clients |-> AbstractCall(asked[c])]
<1>1. AbstractReply(Nothing) = KA!Nothing
  BY DEF AbstractReply, Nothing, KA!Nothing
<1>2. ASSUME NEW c \in Clients
      PROVE  AbstractCall(clients'[c]) =
               IF abs[c].st = "waiting" THEN KA!Done(abs[c].req, KA!Nothing) ELSE abs[c]
  <2>1. asked[c] \in ClientStates /\ abs[c] = AbstractCall(asked[c])
    OBVIOUS
  <2>2. CASE asked[c].st = "waiting"
    <3>1. abs[c] = asked[c]
      BY <2>1, <2>2, AbstractStates
    <3>2. AbstractCall(clients'[c]) = KA!Done(asked[c].req, AbstractReply(Nothing))
      BY <2>2, AbstractStates
    <3> QED BY <1>1, <2>2, <3>1, <3>2
  <2>3. CASE asked[c].st # "waiting"
    <3>1. abs[c].st # "waiting"
      BY <2>1, <2>3, AbstractStates
    <3>2. clients'[c] = asked[c]
      BY <2>3
    <3> QED BY <2>1, <3>1, <3>2
  <2> QED BY <2>2, <2>3
<1> HIDE DEF abs
<1>3. KA!Dropped(abs)
  BY <1>2 DEF KA!Dropped
<1> QED BY <1>3 DEF abs

(* The process ends over the calls there are, or hangs, which shows nothing.*)
LEMMA GoneStep ==
  ASSUME TypeOK, Gone(clients)
  PROVE  KA!Stop \/ UNCHANGED KA!vars
<1>1. CASE status' = "hung" /\ clients' = clients /\ UNCHANGED <<idents, stack>>
  BY <1>1, SameHeld DEF KA!vars
<1>2. CASE idents' = <<>> /\ clients' = [c \in Clients |->
             IF clients[c].st = "waiting"
             THEN [st |-> "done", req |-> clients[c].req, reply |-> Nothing, ret |-> FALSE]
             ELSE clients[c]]
  <2>1. clients \in [Clients -> ClientStates]
    BY DEF TypeOK
  <2>2. KA!Dropped([c \in Clients |-> AbstractCall(clients[c])])
    BY <1>2, <2>1, Drops
  <2> QED BY <1>2, <2>2, NoneHeld DEF KA!Stop
<1> QED BY <1>1, <1>2 DEF Gone

(* The process ends or hangs over a call just made.                         *)
LEMMA GoneOverStep ==
  ASSUME TypeOK, NEW c \in Clients, NEW q \in Requests, clients[c].st = "idle",
         Gone([clients EXCEPT ![c] = [st |-> "waiting", req |-> q]])
  PROVE  KA!Stop \/ KA!Call(c, q)
<1> DEFINE asked == [clients EXCEPT ![c] = [st |-> "waiting", req |-> q]]
<1>1. clients \in [Clients -> ClientStates] /\ clients[c] \in ClientStates
  BY DEF TypeOK
<1>2. asked \in [Clients -> ClientStates]
  BY <1>1, RequestTypes
<1>3. CASE status' = "hung" /\ clients' = asked /\ UNCHANGED <<idents, stack>>
  <2>1. AbstractCalls' = [AbstractCalls EXCEPT ![c] = KA!Waiting(q)]
    <3> DEFINE x == [st |-> "waiting", req |-> q]
    <3>1. clients' = [clients EXCEPT ![c] = x]
      BY <1>3
    <3>2. AbstractCall(x) = KA!Waiting(q)
      BY AbstractStates
    <3> HIDE DEF x
    <3> QED BY <1>1, <3>1, <3>2, OneCall
  <2>2. AbstractCalls[c] = KA!Idle
    BY <1>1, AbstractStates DEF AbstractCalls
  <2> QED BY <1>3, <2>1, <2>2, SameHeld DEF KA!Call, AbstractCalls
<1>4. CASE idents' = <<>> /\ clients' = [d \in Clients |->
             IF asked[d].st = "waiting"
             THEN [st |-> "done", req |-> asked[d].req, reply |-> Nothing, ret |-> FALSE]
             ELSE asked[d]]
  <2>1. AbstractCalls[c] = KA!Idle
    BY <1>1, AbstractStates DEF AbstractCalls
  <2>2. [d \in Clients |-> AbstractCall(asked[d])] = [AbstractCalls EXCEPT ![c] = KA!Waiting(q)]
    BY <1>1, AbstractStates DEF AbstractCalls
  <2>3. q \in KA!Requests
    BY DEF Requests, KA!Requests
  <2>4. KA!Dropped([d \in Clients |-> AbstractCall(asked[d])])
    BY <1>2, <1>4, Drops
  <2>5. KA!Dropped([AbstractCalls EXCEPT ![c] = KA!Waiting(q)])
    BY <2>2, <2>4
  <2> QED BY <1>4, <2>1, <2>3, <2>5, NoneHeld DEF KA!Stop, AbstractCalls
<1> QED BY <1>3, <1>4 DEF Gone

(* At the start no key is held and no call made.                            *)
LEMMA AbstractInit == Init => KA!Init
<1> SUFFICES ASSUME Init PROVE KA!Init
  OBVIOUS
<1>1. \A i \in DOMAIN idents : idents[i].cached = NoKey
  BY DEF Init, LoadedIdents
<1>2. Held = {}
  BY <1>1 DEF Held, Loaded
<1>3. \A c \in Clients : AbstractCall(clients[c]) = KA!Idle
  BY AbstractStates DEF Init
<1> QED BY <1>2, <1>3 DEF KA!Init

(* Every step.                                                              *)
LEMMA AbstractStep == CInv /\ [Next]_vars => [KA!Next]_KA!vars
<1> SUFFICES ASSUME CInv, [Next]_vars PROVE KA!Next \/ UNCHANGED KA!vars
  OBVIOUS
<1> TypeOK
  BY DEF CInv, IInv
<1>0. Requests = KA!Requests
  BY DEF Requests, KA!Requests
<1>1. CASE Quiet \/ Gone(clients)
  BY <1>1, QuietStep, GoneStep DEF KA!Next
<1>2. ASSUME NEW c \in Clients, CallOutcome(c)
      PROVE  KA!Next \/ UNCHANGED KA!vars
  <2>1. CASE Asked(c, [kind |-> "list"])
    BY <1>0, <2>1, AskedStep, RequestTypes DEF KA!Next
  <2>2. ASSUME NEW q \in Requests, NEW r, Answered(c, q, r)
        PROVE  KA!Next
    BY <1>0, <2>2, AnsweredStep DEF KA!Next
  <2>3. ASSUME NEW q \in Requests, clients[c].st = "idle",
               Gone([clients EXCEPT ![c] = [st |-> "waiting", req |-> q]])
        PROVE  KA!Next
    BY <1>0, <2>3, GoneOverStep DEF KA!Next
  <2> QED BY <1>1, <1>2, <2>1, <2>2, <2>3 DEF CallOutcome
<1>3. ASSUME NEW c \in Clients, ReadReply(c)
      PROVE  KA!Next
  BY <1>3, ReadStep DEF KA!Next
<1>4. CASE UNCHANGED <<idents, clients>>
  BY <1>4, SameHeld DEF KA!vars
<1>5. CASE Exit
  BY <1>1, <1>5, EndsGone DEF Exit
<1> QED
  BY <1>1, <1>2, <1>3, <1>4, <1>5, CommandOutcome, RowResumptionOutcome, CopyDataOutcome,
     CallResumptionOutcome
  DEF Next, Resumption, Plug, Unplug, Stopped, vars, calls

(* Whatever boxes are open and however handlers interleave, callers see a    *)
(* key agent (HandleMemoryMap, PresentPubKeys, SignMap).                     *)
THEOREM Refinement == Spec => ServesKeys
BY AbstractInit, AbstractStep, HandlersMatchCalls, PTL DEF Spec, ServesKeys, KA!Spec
=============================================================================
