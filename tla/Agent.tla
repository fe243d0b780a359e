------------------------------- MODULE Agent -------------------------------
(***************************************************************************)
(* The running program: one UI thread that serves its own windows and, by   *)
(* WM_COPYDATA, the SSH clients.  The thread is re-entrant.  Whenever a      *)
(* handler shows MessageBox(NULL, ...) or DialogBox, Windows dispatches      *)
(* messages from inside that call, no window of the program is disabled (the *)
(* boxes have no owner), and further handlers run to completion, or to a     *)
(* box of their own, before the outer one resumes.  stack holds the handlers *)
(* that are suspended so; only the innermost can resume.                     *)
(*                                                                         *)
(* An action is what one handler does between two points where messages are  *)
(* dispatched.  Slot i of idents is index i-1 of mIdentities; slot 0 is the  *)
(* index -1 of a list with nothing selected.  Names, the registry and the    *)
(* bytes of requests and keys are left to the other modules; addr stands for *)
(* the fields that Identity::ToString renders, from which the device derives *)
(* the key.                                                                  *)
(***************************************************************************)
EXTENDS Integers, FiniteSets, SequencesExt

CONSTANTS
  Clients,        (* threads of the SSH clients, one shared map name each   *)
  Addrs,          (* values of the fields an identity's key is derived from *)
  NewAddr,        (* the fields of a fresh "New Identity"                   *)
  KeyTypes,       (* the names in mKeyTypes                                 *)
  MaxIdents,      (* bound: identities in the list                          *)
  MaxDepth,       (* bound: handlers suspended at a time                    *)
  ReplyCapacity,  (* number of keys that fit in a map of AGENT_MAX_MSGLEN   *)
  NoKey, NoClient

SignType == "nistp256"   \* the key type that P2 = 0x81 selects on the device
NoType   == "none"       \* a KeyType that was never assigned: its name is empty

ASSUME AgentAssumption ==
  /\ NewAddr \in Addrs
  /\ KeyTypes \subseteq {"nistp256", "ed25519"} /\ SignType \in KeyTypes
  /\ MaxIdents \in Nat /\ MaxDepth \in Nat /\ ReplyCapacity \in Nat
  /\ NoClient \notin Clients
  /\ NoKey \notin Addrs \X KeyTypes

VARIABLES
  idents,    (* Application::mIdentities                                    *)
  dialog,    (* the Manage Identities window: open, or ending (EndDialog    *)
             (* was called, the DialogBox loop has not returned yet)        *)
  rows,      (* items of its list view                                      *)
  sel,       (* the selected row, 0 for none                                *)
  stack,     (* suspended handlers, the innermost last                      *)
  attached,  (* the Ledger is plugged in                                    *)
  handle,    (* Device::mDevice                                             *)
  maps,      (* names in Application::mMemoryMaps                           *)
  clients,   (* what each client has asked and what its shared map holds    *)
  status     (* of the process: "hung" in a loop that never ends, or ended   *)

ui    == <<dialog, rows, sel>>
dev   == <<attached, handle>>
calls == <<maps, clients>>
vars  == <<idents, dialog, rows, sel, stack, attached, handle, maps, clients, status>>

Key == Addrs \X KeyTypes

Identity == [addr: Addrs, ktype: KeyTypes \cup {NoType}, cached: Key \cup {NoKey}]

Requests == [kind: {"list", "other"}] \cup [kind: {"sign"}, key: Key]

Slots == 1..MaxIdents

(* What the map holds when SendMessage returns: the request as it was       *)
(* written, a list with its count field, a signature asked for key and made *)
(* with by, or SSH_AGENT_FAILURE.                                           *)
Replies ==
  [kind: {"none", "failure"}]
    \cup [kind: {"list"}, count: 0..MaxIdents, entries: UNION {[S -> Key] : S \in SUBSET Slots}]
    \cup [kind: {"sig"}, key: Key, by: Key]

Nothing == [kind |-> "none"]

ClientStates == [st: {"idle"}]
                  \cup [st: {"waiting"}, req: Requests]
                  \cup [st: {"done"}, req: Requests, reply: Replies, ret: BOOLEAN]

(* A suspended handler: the slot it took an index or a reference of, the     *)
(* client it serves, the key count it computed.  ref tells whether what it   *)
(* holds still denotes what it denoted when taken ("same"), a slot whose     *)
(* element an erase has changed ("shifted") or freed storage ("freed").      *)
RowOps  == {"GetKey", "CopyKey", "Remove", "Save", "Error"}
CallOps == {"NoKeys", "Present"}
Frame == [op: RowOps \cup CallOps \cup {"Dialog"}, slot: 0..MaxIdents,
          client: Clients \cup {NoClient}, count: 0..MaxIdents,
          ref: {"same", "shifted", "freed"}]

RowFrame(o, i)     == [op |-> o, slot |-> i, client |-> NoClient, count |-> 0, ref |-> "same"]
CallFrame(o, c, n) == [op |-> o, slot |-> 0, client |-> c, count |-> n, ref |-> "same"]
DialogFrame        == [op |-> "Dialog", slot |-> 0, client |-> NoClient, count |-> 0, ref |-> "same"]

TypeOK ==
  /\ idents \in Seq(Identity) /\ Len(idents) <= MaxIdents
  /\ dialog \in {"closed", "open", "ending"}
  /\ rows \in 0..MaxIdents
  /\ sel \in 0..rows
  /\ stack \in Seq(Frame) /\ Len(stack) <= MaxDepth
  /\ attached \in BOOLEAN
  /\ handle \in {"null", "live", "stale"}
  /\ maps \subseteq Clients
  /\ clients \in [Clients -> ClientStates]
  /\ status \in {"running", "exited", "crashed", "hung", "undefined"}
-----------------------------------------------------------------------------
(* Start: LoadIdentities has read the sessions of PuTTY; no key is loaded.  *)
LoadedIdents ==
  UNION {[1..n -> [addr: Addrs, ktype: KeyTypes \cup {NoType}, cached: {NoKey}]] : n \in 0..MaxIdents}

Init ==
  /\ idents \in LoadedIdents
  /\ dialog = "closed" /\ rows = 0 /\ sel = 0
  /\ stack = <<>>
  /\ attached \in BOOLEAN /\ handle = "null"
  /\ maps = {}
  /\ clients = [c \in Clients |-> [st |-> "idle"]]
  /\ status = "running"

-----------------------------------------------------------------------------
(* Helpers.                                                                 *)

Running == status = "running"

(* The innermost suspended handler, one suspended in operation o.           *)
Inner == Last(stack)
Innermost(o) == Running /\ stack # <<>> /\ Inner.op = o

(* A handler shows a box (or the dialog) on top of the suspended handlers s. *)
SuspendOn(s, f) == Len(s) < MaxDepth /\ stack' = Append(s, f)
Suspend(f) == SuspendOn(stack, f)
Resume == stack' = Front(stack)

(* The key that the device derives for an identity.                         *)
KeyOf(id) == <<id.addr, id.ktype>>

(* Slots whose key is loaded, and GetNumLoadedKeys.                         *)
Loaded == {i \in DOMAIN idents : idents[i].cached # NoKey}
NumLoadedKeys == Cardinality(Loaded)

(* pubkey_cached of slot i is assigned k.                                   *)
Cache(i, k) == [idents EXCEPT ![i].cached = k]

(* mIdentities.push_back moved the vector: references to its elements dangle. *)
FreeRows(s) == [j \in DOMAIN s |->
  IF s[j].op \in {"GetKey", "CopyKey"} THEN [s[j] EXCEPT !.ref = "freed"] ELSE s[j]]

(* mIdentities.erase at slot i moved every later element down by one.       *)
ShiftRows(s, i) == [j \in DOMAIN s |->
  IF s[j].op \in RowOps /\ s[j].slot >= i /\ s[j].ref = "same"
  THEN [s[j] EXCEPT !.ref = "shifted"] ELSE s[j]]

(* mMemoryMaps.push_back moved the vector: references to its maps dangle.   *)
FreeMaps(s) == [j \in DOMAIN s |->
  IF s[j].op \in CallOps THEN [s[j] EXCEPT !.ref = "freed"] ELSE s[j]]

Waiting(c) == clients[c].st = "waiting"

(* The process is gone, and its windows with it: SendMessage returns 0 to    *)
(* the clients that wait in cl, with their maps as they are.  After          *)
(* "undefined" (an access through a dangling reference or a bad index) the   *)
(* model says no more either.                                               *)
Ends(s, cl) ==
  /\ status' = s
  /\ clients' = [c \in Clients |->
       IF cl[c].st = "waiting"
       THEN [st |-> "done", req |-> cl[c].req, reply |-> Nothing, ret |-> FALSE]
       ELSE cl[c]]
  /\ idents' = <<>> /\ stack' = <<>> /\ maps' = {} /\ handle' = "null"
  /\ dialog' = "closed" /\ rows' = 0 /\ sel' = 0

(* The device is unplugged in the middle of Exchange.  Before the answer,    *)
(* Exchange returns nothing, with status still CODE_SUCCESS, and using the   *)
(* empty answer throws; within the answer, it reads for ever.               *)
Lost(cl) ==
  /\ attached /\ attached' = FALSE
  /\ \/ Ends("crashed", cl)
     \/ /\ status' = "hung" /\ clients' = cl /\ handle' = "stale"
        /\ UNCHANGED <<idents, ui, stack, maps>>

-----------------------------------------------------------------------------
(* The Manage Identities window.  Its commands come from the dialog, which   *)
(* stays enabled under every message box; only EndDialog hides it.          *)

(* FindWindow finds the window by its title even while EndDialog hides it.   *)
(* Seeded fault: only a visible window is found.                            *)
VisibleWindow == dialog = "open"
FindWindow == dialog # "closed"

(* IDM_MNGIDENT: at most one window; its last row is selected.              *)
OpenDialog ==
  /\ Running /\ ~FindWindow
  /\ Suspend(DialogFrame)
  /\ dialog' = "open" /\ rows' = Len(idents) /\ sel' = Len(idents)
  /\ UNCHANGED <<idents, dev, calls, status>>

(* Close, or the window's close box: EndDialog only marks the dialog.       *)
CloseDialog ==
  /\ Running /\ dialog = "open"
  /\ dialog' = "ending"
  /\ UNCHANGED <<idents, rows, sel, stack, dev, calls, status>>

(* DialogBox returns once every handler it dispatched has.                  *)
EndDialogLoop ==
  /\ Innermost("Dialog") /\ dialog = "ending"
  /\ Resume
  /\ dialog' = "closed" /\ rows' = 0 /\ sel' = 0
  /\ UNCHANGED <<idents, dev, calls, status>>

Select(i) ==
  /\ Running /\ dialog = "open" /\ i \in 0..rows /\ i # sel
  /\ sel' = i
  /\ UNCHANGED <<idents, dialog, rows, stack, dev, calls, status>>

(* Add: a default identity at the end of the vector, which may reallocate.  *)
AddNewIdentity ==
  /\ Running /\ dialog = "open" /\ Len(idents) < MaxIdents
  /\ idents' = Append(idents, [addr |-> NewAddr, ktype |-> NoType, cached |-> NoKey])
  /\ rows' = rows + 1 /\ sel' = Len(idents) + 1
  /\ stack' \in {stack, FreeRows(stack)}
  /\ UNCHANGED <<dialog, dev, calls, status>>

(* GetIdentityByIndex of the selected row is an identity.                   *)
Selected == sel \in DOMAIN idents

(* Device::Open replaces the handle.                                        *)
(* Seeded fault: the new handle is not stored.                              *)
HandleKept == handle
HandleOpened == "live"

(* The key that GetPubKeyFor makes of a good answer; the name of a key type  *)
(* that was never assigned matches neither of its branches.                 *)
(* Seeded fault: the path sent is that of the row selected by then.         *)
KeyOfSelected(i) ==
  IF sel \in DOMAIN idents /\ idents[sel].ktype \in KeyTypes THEN KeyOf(idents[sel]) ELSE NoKey
KeyGiven(i) == IF idents[i].ktype \in KeyTypes THEN KeyOf(idents[i]) ELSE NoKey

(* GetPubKeyFor(slot i) with the device there, the result assigned to        *)
(* pubkey_cached: the device gives the key or its user refuses; or it is     *)
(* unplugged, and without a key type's name the empty answer does no harm.   *)
FetchKey(i) ==
  /\ attached
  /\ \/ /\ \E k \in {KeyGiven(i), NoKey} : idents' = Cache(i, k)
        /\ handle' = HandleOpened
        /\ UNCHANGED attached
     \/ /\ idents[i].ktype = NoType
        /\ idents' = Cache(i, NoKey)
        /\ attached' = FALSE /\ handle' = "stale"

(* Get Public Key, and Copy key to clipboard (which gets the key if it is    *)
(* not loaded): the reference taken of the selected row is held across       *)
(* TryOpenDevice's box.  With no row selected it is mIdentities[-1].        *)
AskKey(o) ==
  /\ Running /\ dialog = "open"
  /\ \/ /\ ~Selected
        /\ Ends("undefined", clients) /\ UNCHANGED attached
     \/ /\ Selected /\ (o = "CopyKey" => sel \notin Loaded)
        /\ \/ FetchKey(sel) /\ UNCHANGED <<ui, stack, calls, status>>
           \/ Lost(clients)
           \/ /\ ~attached
              /\ Suspend(RowFrame(o, sel))
              /\ UNCHANGED <<idents, ui, dev, calls, status>>

(* The box is answered.  The reference must still denote an element; Cancel  *)
(* assigns an empty key, and Copy then looks the selected row up again.     *)
ResumeKey(o) ==
  LET i == Inner.slot
      denotes == Inner.ref # "freed" /\ i \in DOMAIN idents
      copies == o = "CopyKey" => Selected
  IN  /\ Innermost(o)
      /\ \/ /\ ~(denotes /\ copies)
            /\ Ends("undefined", clients) /\ UNCHANGED attached
         \/ /\ denotes
            /\ Lost(clients)
         \/ /\ denotes /\ copies
            /\ \/ idents' = Cache(i, NoKey) /\ UNCHANGED dev
               \/ FetchKey(i)
            /\ Resume
            /\ UNCHANGED <<ui, calls, status>>

(* Clear Public Key.                                                        *)
ClearKey ==
  /\ Running /\ dialog = "open"
  /\ \/ /\ ~Selected
        /\ Ends("undefined", clients) /\ UNCHANGED attached
     \/ /\ Selected
        /\ idents' = Cache(sel, NoKey)
        /\ UNCHANGED <<ui, stack, dev, calls, status>>

(* Remove: "Are you sure?" about the row that is selected now.              *)
AskRemove ==
  /\ Running /\ dialog = "open" /\ sel # 0
  /\ Suspend(RowFrame("Remove", sel))
  /\ UNCHANGED <<idents, ui, dev, calls, status>>

(* ListView_DeleteItem: later rows move up, a deleted selection is lost.    *)
(* Seeded fault: the selection stays where it is.                           *)
SelStays(i) == sel
SelAfterDelete(i) == IF sel = i THEN 0 ELSE IF sel > i THEN sel - 1 ELSE sel

(* Seeded fault: the row is left in the list view.                          *)
RowLeft(i) == UNCHANGED <<rows, sel>>
DeleteItem(i) == rows' = rows - 1 /\ sel' = SelAfterDelete(i)

(* Yes: the index is used as it was; a session that the registry cannot      *)
(* open shows a box of its own, and then the identity stays.                *)
ResumeRemove ==
  LET i == Inner.slot
  IN  /\ Innermost("Remove")
      /\ \/ /\ Resume
            /\ UNCHANGED <<idents, rows, sel>>
         \/ /\ i \in DOMAIN idents
            /\ stack' = Append(Front(stack), RowFrame("Error", i))
            /\ UNCHANGED <<idents, rows, sel>>
         \/ /\ i \in DOMAIN idents
            /\ idents' = RemoveAt(idents, i)
            /\ DeleteItem(i)
            /\ stack' = ShiftRows(Front(stack), i)
      /\ UNCHANGED <<dialog, dev, calls, status>>

ResumeError ==
  /\ Innermost("Error")
  /\ Resume
  /\ UNCHANGED <<idents, ui, dev, calls, status>>

(* Save: the index may be that of no row.                                   *)
AskSave ==
  /\ Running /\ dialog = "open"
  /\ Suspend(RowFrame("Save", sel))
  /\ UNCHANGED <<idents, ui, dev, calls, status>>

(* Yes: the fields of the dialog overwrite the identity; its key stays.      *)
Overwrite(i) ==
  \E a \in Addrs, t \in KeyTypes : idents' = [idents EXCEPT ![i].addr = a, ![i].ktype = t]

ResumeSave ==
  LET i == Inner.slot
  IN  /\ Innermost("Save")
      /\ \/ /\ i \notin DOMAIN idents
            /\ Ends("undefined", clients) /\ UNCHANGED attached
         \/ /\ Resume
            /\ UNCHANGED idents \/ (i \in DOMAIN idents /\ Overwrite(i))
            /\ UNCHANGED <<ui, dev, calls, status>>

-----------------------------------------------------------------------------
(* WM_COPYDATA, sent by a client that waits for it to return.  It is served  *)
(* whenever messages are dispatched, whatever boxes are open.               *)

(* Seeded fault: the answer goes to whichever client is waiting.            *)
ReturnToAny(c, q, r, b) ==
  LET d == IF \E e \in Clients : Waiting(e) THEN CHOOSE e \in Clients : Waiting(e) ELSE c
  IN  clients' = [clients EXCEPT ![d] = [st |-> "done", req |-> q, reply |-> r, ret |-> b]]

(* Client c's call, made with request q, is answered with reply r and       *)
(* returns 1 or 0.                                                          *)
Return(c, q, r, b) ==
  clients' = [clients EXCEPT ![c] = [st |-> "done", req |-> q, reply |-> r, ret |-> b]]

(* GetOrCreateMap(name of c): the stacks that the lookup can leave.         *)
WithMapOf(c) == IF c \in maps THEN {stack} ELSE {stack, FreeMaps(stack)}

(* PresentPubKeys once the device is open.  The count is the one computed   *)
(* before; a reply that does not fit in the map is not written.             *)
ListReply(n) ==
  IF NumLoadedKeys <= ReplyCapacity
  THEN [kind |-> "list", count |-> n, entries |-> [i \in Loaded |-> idents[i].cached]]
  ELSE Nothing

CopyDataList(c) ==
  /\ Running /\ clients[c].st = "idle"
  /\ maps' = maps \cup {c}
  /\ \E s \in WithMapOf(c) :
       \/ /\ NumLoadedKeys = 0
          /\ SuspendOn(s, CallFrame("NoKeys", c, 0))
          /\ clients' = [clients EXCEPT ![c] = [st |-> "waiting", req |-> [kind |-> "list"]]]
          /\ UNCHANGED handle
       \/ /\ NumLoadedKeys # 0 /\ ~attached
          /\ SuspendOn(s, CallFrame("Present", c, NumLoadedKeys))
          /\ clients' = [clients EXCEPT ![c] = [st |-> "waiting", req |-> [kind |-> "list"]]]
          /\ UNCHANGED handle
       \/ /\ NumLoadedKeys # 0 /\ attached
          /\ handle' = HandleOpened
          /\ stack' = s
          /\ Return(c, [kind |-> "list"], ListReply(NumLoadedKeys), TRUE)
  /\ UNCHANGED <<idents, ui, attached, status>>

(* "No Identities have keys loaded": the map is left as it is.              *)
ResumeNoKeys ==
  /\ Innermost("NoKeys")
  /\ Resume
  /\ Return(Inner.client, [kind |-> "list"], Nothing, TRUE)
  /\ UNCHANGED <<idents, ui, dev, maps, status>>

(* TryOpenDevice gives up, and the map is left as it is.                    *)
(* Seeded fault: the box is shown until the device is there.                *)
NeverGiveUp(c) == attached /\ Return(c, [kind |-> "list"], Nothing, TRUE)
GiveUp(c) == Return(c, [kind |-> "list"], Nothing, TRUE)

(* Cancel leaves the map; Try again succeeds once the device is there, and   *)
(* writes through the reference to the map.                                 *)
ResumePresent ==
  /\ Innermost("Present")
  /\ \/ /\ attached /\ Inner.ref = "freed"
        /\ Ends("undefined", clients) /\ UNCHANGED attached
     \/ /\ \/ GiveUp(Inner.client) /\ UNCHANGED handle
           \/ /\ attached /\ Inner.ref # "freed"
              /\ handle' = HandleOpened
              /\ Return(Inner.client, [kind |-> "list"], ListReply(Inner.count), TRUE)
        /\ Resume
        /\ UNCHANGED <<idents, ui, attached, maps, status>>

(* The slots that a sign request for k matches; the first one signs.        *)
(* Seeded fault: identities whose key is not loaded match as well.          *)
MatchingUnloaded(k) == {i \in DOMAIN idents : KeyOf(idents[i]) = k}
Matching(k) == {i \in Loaded : idents[i].cached = k}
Signers(k) == {i \in Matching(k) : \A j \in Matching(k) : i <= j}

(* SignMap asks the device to sign with P2 = 0x81 whatever the key type.     *)
Signature(k, i) == [kind |-> "sig", key |-> k, by |-> <<idents[i].addr, SignType>>]

(* The device is not opened here: the handle is used as it is.  A signature  *)
(* that Exchange returned empty is read all the same, and throws.           *)
CopyDataSign(c, k) ==
  LET q == [kind |-> "sign", key |-> k]
      asked == [clients EXCEPT ![c] = [st |-> "waiting", req |-> q]]
  IN  /\ Running /\ clients[c].st = "idle"
      /\ \/ /\ \/ /\ Matching(k) = {}
                 /\ Return(c, q, [kind |-> "failure"], FALSE)
              \/ /\ handle = "live"
                 /\ \E i \in Signers(k) : \E r \in {Signature(k, i), Nothing} :
                      Return(c, q, r, TRUE)
           /\ maps' = maps \cup {c} /\ stack' \in WithMapOf(c)
           /\ UNCHANGED <<idents, ui, dev, status>>
         \/ /\ Matching(k) # {} /\ handle = "live"
            /\ Lost(asked)
         \/ /\ Matching(k) # {} /\ handle # "live"
            /\ Ends("crashed", asked) /\ UNCHANGED attached

(* An empty map or another operation.                                       *)
CopyDataOther(c) ==
  /\ Running /\ clients[c].st = "idle"
  /\ maps' = maps \cup {c} /\ stack' \in WithMapOf(c)
  /\ Return(c, [kind |-> "other"], Nothing, FALSE)
  /\ UNCHANGED <<idents, ui, dev, status>>

(* The client takes the answer from its map and may call again.             *)
ReadReply(c) ==
  /\ clients[c].st = "done"
  /\ clients' = [clients EXCEPT ![c] = [st |-> "idle"]]
  /\ UNCHANGED <<idents, ui, stack, dev, maps, status>>

-----------------------------------------------------------------------------
(* The device's cable, and the end of the process.                          *)

Plug ==
  /\ Running /\ ~attached
  /\ attached' = TRUE
  /\ UNCHANGED <<idents, ui, stack, handle, calls, status>>

(* A handle opened before does not come back with the device.               *)
Unplug ==
  /\ Running /\ attached
  /\ attached' = FALSE
  /\ handle' = IF handle = "live" THEN "stale" ELSE handle
  /\ UNCHANGED <<idents, ui, stack, calls, status>>

(* IDM_EXIT: the window and its open calls go.  WM_QUIT ends the loops of the *)
(* open boxes; what their handlers do while they return is left out.        *)
Exit ==
  /\ Running
  /\ Ends("exited", clients) /\ UNCHANGED attached

Stopped == ~Running /\ UNCHANGED vars

-----------------------------------------------------------------------------
(* What the user does in the window and with the boxes, the clients' calls. *)
Command ==
  \/ OpenDialog \/ CloseDialog \/ AddNewIdentity
  \/ ClearKey \/ AskRemove \/ AskSave
  \/ \E i \in 0..MaxIdents : Select(i)
  \/ \E o \in {"GetKey", "CopyKey"} : AskKey(o)

Resumption ==
  \/ EndDialogLoop \/ ResumeRemove \/ ResumeError \/ ResumeSave
  \/ ResumeNoKeys \/ ResumePresent
  \/ \E o \in {"GetKey", "CopyKey"} : ResumeKey(o)

CopyData(c) ==
  \/ CopyDataList(c) \/ CopyDataOther(c)
  \/ \E k \in Key : CopyDataSign(c, k)

Next ==
  \/ Command
  \/ Resumption
  \/ \E c \in Clients : CopyData(c) \/ ReadReply(c)
  \/ Plug \/ Unplug \/ Exit \/ Stopped

Spec == Init /\ [][Next]_vars

(* The user answers the box that is on top, however often others come over   *)
(* it, and does not leave the dialog open for ever.  No box can be answered  *)
(* out of turn, so what is fair is each depth of the stack.                 *)
Fairness ==
  /\ \A d \in 1..MaxDepth : SF_vars(Len(stack) = d /\ Resumption)
  /\ WF_vars(CloseDialog)

FairSpec == Spec /\ Fairness

-----------------------------------------------------------------------------
(* Safety.                                                                  *)

(* The list view has one row per identity, so a row's index is the index of  *)
(* its identity (AddNewIdentity, RemoveIdentityByIndex, WM_INITDIALOG).      *)
RowsMatch == dialog # "closed" => rows = Len(idents)

DialogFrames == {j \in DOMAIN stack : stack[j].op = "Dialog"}

(* There is never a second Manage Identities window over the first, and the  *)
(* window lives exactly as long as the DialogBox call that made it: the rows *)
(* a handler works on are those of the one window.                          *)
OneDialog == /\ dialog = "closed" <=> DialogFrames = {}
             /\ \A j, k \in DialogFrames : j = k

(* Every client that waits has one suspended handler that will answer it,    *)
(* and no handler is left that would answer a client twice.                 *)
OneHandlerPerCall ==
  \A c \in Clients :
    LET serving == {j \in DOMAIN stack : stack[j].op \in CallOps /\ stack[j].client = c}
    IN  /\ Running => (Waiting(c) <=> serving # {})
        /\ \A j, k \in serving : j = k

(* SignMap writes to Device::mDevice without opening the device: a key can   *)
(* only be loaded if some earlier Open left a handle there.                 *)
LoadedNeedsHandle == Loaded # {} => handle # "null"

(* The identities whose loaded key is not the one the device derives now.   *)
Outdated == {id \in {idents[i] : i \in Loaded} : id.cached # KeyOf(id)}

(* Saving over an identity is the only step after which a loaded key belongs *)
(* to other fields than its identity's.  A key fetched after a box was open, *)
(* for a row that moved or changed meanwhile, still is that row's key.      *)
OnlySaveOutdates ==
  [][Outdated' \subseteq Outdated \/ (stack # <<>> /\ Inner.op = "Save")]_vars

(* A handler runs into an element that is not there only if no row is        *)
(* selected, or none was when Save asked, or if the identity or map it took   *)
(* before a box was erased or moved under that box.                         *)
DefinedWhileUnmoved ==
  [][Running /\ status' = "undefined" =>
       \/ sel = 0
       \/ Inner.op = "Save" /\ Inner.slot = 0
       \/ Inner.ref # "same"]_vars

-----------------------------------------------------------------------------
(* The agent as its callers see it.                                         *)

Held == {idents[i].cached : i \in Loaded}

AbstractReply(r) ==
  CASE r.kind = "list" -> [kind |-> "list", keys |-> {r.entries[i] : i \in DOMAIN r.entries}]
    [] r.kind = "sig"  -> [kind |-> "sig", key |-> r.key]
    [] OTHER           -> r

AbstractCall(s) ==
  IF s.st = "done" THEN [st |-> "done", req |-> s.req, answer |-> AbstractReply(s.reply)] ELSE s

KA == INSTANCE KeyAgent WITH held  <- Held,
                             calls <- [c \in Clients |-> AbstractCall(clients[c])]

(* Whatever boxes are open and however handlers interleave, callers see a    *)
(* key agent: lists of the keys loaded at that moment, signatures on loaded   *)
(* keys only, refusals for others only, and one answer per call.            *)
ServesKeys == KA!Spec

(* A client's call returns, with or without an answer, unless the UI thread  *)
(* never leaves a read loop -- if the user answers the boxes in front and     *)
(* closes the dialog (TryOpenDevice, PresentPubKeys, DialogBox).            *)
CallReturns == \A c \in Clients : Waiting(c) ~> (~Waiting(c) \/ status = "hung")

-----------------------------------------------------------------------------
(* What the source says of itself and its steps do not keep.                *)

(* README.md:31 "you accepted the request this should work!" -- a signature  *)
(* asked for a key is made on the curve of that key.                        *)
SignedOnKeyCurve ==
  \A c \in Clients :
    clients[c].st = "done" /\ clients[c].reply.kind = "sig"
      => clients[c].reply.by[2] = clients[c].reply.key[2]

(* window.cpp:279 "Removing this Identity will also remove it from other     *)
(* applications" -- the identity removed is the one the question was about.  *)
RemovesSelected ==
  [][Running' /\ Len(idents') < Len(idents) => Inner.ref = "same"]_vars
=============================================================================
