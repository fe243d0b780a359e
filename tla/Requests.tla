------------------------------ MODULE Requests ------------------------------
(***************************************************************************)
(* SSH clients' requests, byte for byte.  A client writes its request in a     *)
(* file mapping with the name of its thread, sends WM_COPYDATA and reads the   *)
(* answer from the same mapping.  HandleMemoryMap opens the mapping anew for   *)
(* each request and closes it only after a signature, so what earlier calls    *)
(* left there may outlive the client that left it; and a thread's name may be   *)
(* used again by another client while a box still waits for the first.        *)
(*                                                                         *)
(* Boxes nest as in module Agent, which has the windows and the boxes of the    *)
(* dialog; here the user loads and clears keys and saves identities at any      *)
(* time.                                                                    *)
(***************************************************************************)
EXTENDS Wire, FiniteSets

CONSTANTS
  Clients,      (* names of client threads                                  *)
  Mortal,       (* those that may die in a call, their names being used again *)
  Idents,       (* the identities at first, as [ktype, point, comment]        *)
  Edits,        (* what the user may save them as                            *)
  Challenges,   (* what clients ask to have signed                          *)
  Signatures,   (* pairs of integers that the Ledger signs with             *)
  MapLength,    (* AGENT_MAX_MSGLEN: 8192 in the program                    *)
  MaxDepth,     (* bound: handlers suspended at a time                      *)
  MaxAsks       (* bound: requests written                                  *)

(* An identity: its key type, the point that is its public key on that curve     *)
(* at its path, and its comment.  The y of a point of ed25519 has a bit less    *)
(* than its bytes.                                                          *)
Identity == {d \in [ktype: {"nistp256", "ed25519"}, point: Points, comment: Bytes] :
               d.ktype = "ed25519" => d.point.y[1] < 128}

ASSUME RequestsAssumption ==
  /\ Mortal \subseteq Clients
  /\ Idents \in Seq(Identity) /\ Edits \subseteq Identity
  /\ Challenges \subseteq Bytes /\ Signatures \subseteq Coordinate \X Coordinate
  /\ MapLength \in Nat /\ MapLength < Sizes /\ MaxDepth \in Nat /\ MaxAsks \in Nat

VARIABLES
  idents,    (* Application::mIdentities: what each one is now ...            *)
  cached,    (* ... and its pubkey_cached, empty if it is not loaded          *)
  fetched,   (* history: what it was when its key was last fetched            *)
  attached,  (* the Ledger is plugged in                                    *)
  handle,    (* Device::mDevice                                             *)
  names,     (* of the entries of Application::mMemoryMaps                  *)
  maps,      (* each client's file mapping, and the entry's view of it       *)
  stack,     (* handlers suspended in PresentPubKeys                        *)
  clients,   (* each client's call                                          *)
  asks,      (* requests written so far                                     *)
  status     (* of the process                                              *)

ids  == <<idents, fetched>>
dev  == <<attached, handle>>
vars == <<ids, cached, dev, names, maps, stack, clients, asks, status>>

Slots == DOMAIN Idents

Contents == {Idents[i] : i \in Slots} \cup Edits

(* The blob that GetPubKeyFor gets for an identity.                          *)
KeyOf(d) == KeyInfo(d.ktype, DeviceKey(d.point))
Key == {KeyOf(d) : d \in Contents}

Requests == [kind: {"list", "other"}] \cup [kind: {"sign"}, key: Key, challenge: Challenges]

(* History: what SignMap asked the Ledger to sign, with the path of which        *)
(* identity and on which curve, what that identity was when its key was         *)
(* fetched, and what it got.                                                *)
Signings == [slot: Slots, ident: Contents, was: Contents, curve: {"nistp256"},
             challenge: Bytes, by: Signatures]
NotSigned == [slot |-> 0]

(* A client's call.                                                         *)
Call == [st: {"idle"}] \cup [st: {"asked", "waiting"}, req: Requests]
          \cup [st: {"done"}, req: Requests, ret: BOOLEAN, signed: Signings \cup {NotSigned}]

(* held: the client has the mapping open; kept: the program has, by a handle    *)
(* it will never close.  view is what mDataPtr of the entry points to.        *)
Mapping == [bytes: [1..MapLength -> 0..255], held: BOOLEAN, kept: BOOLEAN,
            view: {"none", "live", "closed"}]

(* A suspended PresentPubKeys: the identities it counted; whether its client    *)
(* has died; whether push_back moved the entry it has a reference of.         *)
Frame == [box: {"NoKeys", "Present"}, client: Clients, counted: SUBSET Slots,
          orphan: BOOLEAN, moved: BOOLEAN]

TypeOK ==
  /\ idents \in [Slots -> Contents] /\ fetched \in [Slots -> Contents]
  /\ cached \in [Slots -> Key \cup {<<>>}]
  /\ attached \in BOOLEAN /\ handle \in {"null", "live", "stale"}
  /\ names \subseteq Clients
  /\ maps \in [Clients -> Mapping]
  /\ stack \in Seq(Frame) /\ Len(stack) <= MaxDepth
  /\ clients \in [Clients -> Call]
  /\ asks \in 0..MaxAsks
  /\ status \in {"running", "exited", "crashed", "hung", "undefined"}

Zeros == [i \in 1..MapLength |-> 0]
NoMapping == [bytes |-> Zeros, held |-> FALSE, kept |-> FALSE, view |-> "none"]

Init ==
  /\ idents = Idents /\ fetched = Idents
  /\ cached = [i \in Slots |-> <<>>]
  /\ attached \in BOOLEAN /\ handle = "null"
  /\ names = {} /\ maps = [c \in Clients |-> NoMapping]
  /\ stack = <<>>
  /\ clients = [c \in Clients |-> [st |-> "idle"]]
  /\ asks = 0 /\ status = "running"

-----------------------------------------------------------------------------
Running == status = "running"
Inner == Last(stack)

Loaded == {i \in Slots : cached[i] # <<>>}

(* Bytes written at the beginning of a mapping.                              *)
Overwrite(bytes, d) == d \o SubSeq(bytes, Len(d) + 1, Len(bytes))

(* A mapping nobody has open is gone; under its name a new one has zeros.     *)
Released(m) == IF m.held \/ m.kept THEN m ELSE [m EXCEPT !.bytes = Zeros]

-----------------------------------------------------------------------------
(* The client.                                                              *)

(* The request is written, if the mapping has room for it; the call is not      *)
(* made yet.                                                                *)
Ask(c, q) ==
  /\ Running /\ clients[c].st = "idle" /\ Len(RequestBytes(q)) <= MapLength
  /\ asks < MaxAsks /\ asks' = asks + 1
  /\ maps' = [maps EXCEPT ![c].held = TRUE, ![c].bytes = Overwrite(@, RequestBytes(q))]
  /\ clients' = [clients EXCEPT ![c] = [st |-> "asked", req |-> q]]
  /\ UNCHANGED <<ids, cached, dev, names, stack, status>>

CloseMapping(c) == [maps EXCEPT ![c] = Released([@ EXCEPT !.held = FALSE])]

(* The call has returned, and the client takes the answer; or it finds no      *)
(* agent to call.                                                           *)
Leave(c) ==
  /\ clients[c].st = "done" \/ (clients[c].st = "asked" /\ ~Running)
  /\ maps' = CloseMapping(c)
  /\ clients' = [clients EXCEPT ![c] = [st |-> "idle"]]
  /\ UNCHANGED <<ids, cached, dev, names, stack, asks, status>>

(* The client's process is killed.  The handler that serves it goes on.       *)
Die(c) ==
  /\ c \in Mortal /\ clients[c].st \in {"asked", "waiting"}
  /\ maps' = CloseMapping(c)
  /\ clients' = [clients EXCEPT ![c] = [st |-> "idle"]]
  /\ stack' = [j \in DOMAIN stack |->
                 IF stack[j].client = c THEN [stack[j] EXCEPT !.orphan = TRUE] ELSE stack[j]]
  /\ UNCHANGED <<ids, cached, dev, names, asks, status>>

-----------------------------------------------------------------------------
(* Ends of the process.                                                     *)

Ends(s, cl) ==
  /\ status' = s
  /\ clients' = [c \in Clients |->
       IF cl[c].st = "waiting"
       THEN [st |-> "done", req |-> cl[c].req, ret |-> FALSE, signed |-> NotSigned] ELSE cl[c]]
  /\ maps' = [c \in Clients |->
       Released([maps[c] EXCEPT !.kept = FALSE, !.view = "none"])]
  /\ cached' = [i \in Slots |-> <<>>] /\ names' = {} /\ stack' = <<>>
  /\ handle' = "null" /\ UNCHANGED <<ids, asks>>

(* The Ledger is lost while Exchange waits for it: before its answer, or       *)
(* within it, when the loop never ends.                                      *)
Lost(cl) ==
  /\ attached /\ attached' = FALSE
  /\ \/ Ends("crashed", cl)
     \/ /\ status' = "hung" /\ clients' = cl /\ handle' = "stale"
        /\ UNCHANGED <<ids, cached, names, maps, stack, asks>>

Exit == Running /\ Ends("exited", clients) /\ UNCHANGED attached

-----------------------------------------------------------------------------
(* HandleMemoryMap.                                                         *)

(* An operation's code is one byte, whatever the length in front of it says:   *)
(* the position of what follows counts on that.                             *)
(* Seeded fault: without the clamp the position is after the whole request.   *)
OperationUnclamped(bytes) == AsInt(bytes, 0)
OperationLength(bytes) == Min({AsInt(bytes, 0), 1})

Operation(bytes) == IF OperationLength(bytes) = 0 THEN 0 ELSE bytes[5]

KeyPosition(bytes) == 4 + OperationLength(bytes)
KeyAsked(bytes) == ReadString(bytes, KeyPosition(bytes))

(* mPosition is right behind the key when the first identity matches.         *)
(* Seeded fault: the challenge is read after one more Seek.                 *)
ChallengeAgain(bytes) == KeyAsked(bytes)
Challenge(bytes) == ReadString(bytes, KeyPosition(bytes) + 4 + Len(KeyAsked(bytes)))

(* MemoryMap::Write, from position 0: what does not fit, and what would just     *)
(* fit, is not written.                                                     *)
(* Seeded fault: the length is not checked.                                 *)
WriteUnchecked(bytes, d) == Overwrite(bytes, d)
Write(bytes, d) == IF Len(d) >= MapLength THEN bytes ELSE Overwrite(bytes, d)

(* The call is made: GetOrCreateMap, which may move the other entries.       *)
Calling(c) == Running /\ clients[c].st = "asked"

Moved == [j \in DOMAIN stack |-> [stack[j] EXCEPT !.moved = TRUE]]
GetOrCreateMap(c) == IF c \in names THEN {stack} ELSE {stack, Moved}

(* MemoryMap::Open; and with what is written then, and Close.  Close only      *)
(* undoes the last Open.                                                    *)
(* Seeded fault: every request closes the mapping.                          *)
AlwaysClosed(c, bytes) == [maps EXCEPT ![c].bytes = bytes, ![c].view = "closed"]
Opened(c, bytes) == [maps EXCEPT ![c].bytes = bytes, ![c].kept = TRUE, ![c].view = "live"]
OpenedAndClosed(c, bytes) == [maps EXCEPT ![c].bytes = bytes, ![c].view = "closed"]

Waits(c) == [clients EXCEPT ![c] = [st |-> "waiting", req |-> clients[c].req]]
Returned(c, ret, signed) ==
  [clients EXCEPT ![c] = [st |-> "done", req |-> clients[c].req, ret |-> ret, signed |-> signed]]

(* An operation that is not known, or none.                                  *)
CopyDataOther(c) ==
  /\ Calling(c)
  /\ Operation(maps[c].bytes) \notin {SSH2_AGENTC_REQUEST_IDENTITIES, SSH2_AGENTC_SIGN_REQUEST}
  /\ maps' = Opened(c, maps[c].bytes)
  /\ clients' = Returned(c, FALSE, NotSigned)
  /\ names' = names \cup {c} /\ stack' \in GetOrCreateMap(c)
  /\ UNCHANGED <<ids, cached, dev, asks, status>>

-----------------------------------------------------------------------------
(* PresentPubKeys.                                                          *)

(* The number of keys is counted before a box; the keys are those that are     *)
(* loaded after it.                                                         *)
(* Seeded fault: one key too many is counted.                               *)
CountOneMore(counted) == Cardinality(counted) + 1
NumLoadedKeys(counted) == Cardinality(counted)

(* Identities without a key are left out.                                   *)
Response(counted) ==
  LET response[i \in 0..Len(Idents)] ==
        IF i = 0 THEN <<SSH2_AGENT_IDENTITIES_ANSWER>> \o Int32(NumLoadedKeys(counted))
        ELSE IF i \in Loaded THEN response[i - 1] \o String(cached[i]) \o String(idents[i].comment)
        ELSE response[i - 1]
  IN  response

Answer(counted) == String(Response(counted)[Len(Idents)])

Suspend(s, box, c) ==
  /\ Len(s) < MaxDepth
  /\ stack' = Append(s, [box |-> box, client |-> c, counted |-> Loaded,
                         orphan |-> FALSE, moved |-> FALSE])

CopyDataList(c) ==
  /\ Calling(c) /\ Operation(maps[c].bytes) = SSH2_AGENTC_REQUEST_IDENTITIES
  /\ names' = names \cup {c}
  /\ \E s \in GetOrCreateMap(c) :
       \/ /\ Loaded = {} \/ ~attached
          /\ Suspend(s, IF Loaded = {} THEN "NoKeys" ELSE "Present", c)
          /\ maps' = Opened(c, maps[c].bytes)
          /\ clients' = Waits(c)
          /\ UNCHANGED handle
       \/ /\ Loaded # {} /\ attached
          /\ stack' = s
          /\ handle' = "live"
          /\ maps' = Opened(c, Write(maps[c].bytes, Answer(Loaded)))
          /\ clients' = Returned(c, TRUE, NotSigned)
  /\ UNCHANGED <<ids, cached, attached, asks, status>>

(* The box is answered, and the client's call returns, if it is still there.   *)
Return ==
  /\ stack' = Front(stack)
  /\ clients' = IF Inner.orphan THEN clients ELSE Returned(Inner.client, TRUE, NotSigned)

(* "No Identities have keys loaded", or TryOpenDevice's box is cancelled.      *)
GiveUp ==
  /\ Running /\ stack # <<>>
  /\ Return
  /\ UNCHANGED <<ids, cached, dev, names, maps, asks, status>>

(* Try again: the answer goes through the reference to the entry, and through  *)
(* its view as the last Open or Close left it.                              *)
Present ==
  LET c == Inner.client
  IN  /\ Running /\ stack # <<>> /\ Inner.box = "Present" /\ attached
      /\ \/ /\ ~Inner.moved /\ maps[c].view = "live"
            /\ handle' = "live"
            /\ maps' = [maps EXCEPT ![c].bytes = Write(@, Answer(Inner.counted))]
            /\ Return
            /\ UNCHANGED <<ids, cached, names, asks, status>>
         \/ /\ Inner.moved \/ maps[c].view # "live"
            /\ Ends("undefined", clients)
      /\ UNCHANGED attached

-----------------------------------------------------------------------------
(* SignMap.                                                                 *)

(* The identities whose key is the one asked for; the first one signs.       *)
Matching(bytes) == {i \in Loaded : cached[i] = KeyAsked(bytes)}

(* The Ledger is asked with the path that the identity has now, and with P2 for  *)
(* nistp256, whatever its key type is.                                       *)
Signing(i, bytes, sig) ==
  [slot |-> i, ident |-> idents[i], was |-> fetched[i], curve |-> "nistp256",
   challenge |-> Challenge(bytes), by |-> sig]

(* With nothing to sign no Exchange is made, and what is then read as the        *)
(* signature has no bytes, as that of a Ledger that was lost before.           *)
CopyDataSign(c) ==
  LET bytes == maps[c].bytes
      i == Min(Matching(bytes))
      signs(sig) ==
        /\ maps' = OpenedAndClosed(c, Write(bytes, SignResponse(idents[i].ktype, DER(sig[1], sig[2]))))
        /\ clients' = Returned(c, TRUE, Signing(i, bytes, sig))
      refused ==
        /\ maps' = OpenedAndClosed(c, bytes)
        /\ clients' = Returned(c, TRUE, NotSigned)
      notFound ==
        /\ maps' = Opened(c, Write(bytes, Failure))
        /\ clients' = Returned(c, FALSE, NotSigned)
      asksLedger == Matching(bytes) # {} /\ handle = "live" /\ Challenge(bytes) # <<>>
  IN  /\ Calling(c) /\ Operation(bytes) = SSH2_AGENTC_SIGN_REQUEST
      /\ \/ /\ \/ Matching(bytes) = {} /\ notFound
               \/ asksLedger /\ (refused \/ \E sig \in Signatures : signs(sig))
            /\ names' = names \cup {c} /\ stack' \in GetOrCreateMap(c)
            /\ UNCHANGED <<ids, cached, dev, asks, status>>
         \/ asksLedger /\ Lost(Waits(c))
         \/ /\ Matching(bytes) # {} /\ (handle # "live" \/ Challenge(bytes) = <<>>)
            /\ Ends("crashed", Waits(c)) /\ UNCHANGED attached

-----------------------------------------------------------------------------
(* The user, and the Ledger's cable.                                        *)

(* GetPubKeyFor: the Ledger gives the key, or its user refuses.              *)
FetchKey(i) ==
  /\ Running /\ attached
  /\ \/ /\ \E blob \in {KeyOf(idents[i]), <<>>} : cached' = [cached EXCEPT ![i] = blob]
        /\ fetched' = [fetched EXCEPT ![i] = idents[i]]
        /\ handle' = "live"
        /\ UNCHANGED <<idents, attached, names, maps, stack, clients, asks, status>>
     \/ Lost(clients)

(* SaveIdentity: the fields of the dialog overwrite the identity; its key stays.  *)
Save(i, d) ==
  /\ Running
  /\ idents' = [idents EXCEPT ![i] = d]
  /\ UNCHANGED <<fetched, cached, dev, names, maps, stack, clients, asks, status>>

ClearKey(i) ==
  /\ Running /\ i \in Loaded
  /\ cached' = [cached EXCEPT ![i] = <<>>]
  /\ UNCHANGED <<ids, dev, names, maps, stack, clients, asks, status>>

Plug ==
  /\ Running /\ ~attached
  /\ attached' = TRUE
  /\ UNCHANGED <<ids, cached, handle, names, maps, stack, clients, asks, status>>

Unplug ==
  /\ Running /\ attached
  /\ attached' = FALSE
  /\ handle' = IF handle = "live" THEN "stale" ELSE handle
  /\ UNCHANGED <<ids, cached, names, maps, stack, clients, asks, status>>

Stopped == ~Running /\ UNCHANGED vars

Next ==
  \/ \E c \in Clients :
       \/ \E q \in Requests : Ask(c, q)
       \/ Leave(c) \/ Die(c)
       \/ CopyDataList(c) \/ CopyDataSign(c) \/ CopyDataOther(c)
  \/ Present \/ GiveUp
  \/ \E i \in Slots : FetchKey(i) \/ ClearKey(i) \/ \E d \in Edits : Save(i, d)
  \/ Plug \/ Unplug \/ Exit \/ Stopped

Spec == Init /\ [][Next]_vars

-----------------------------------------------------------------------------
(* What a client reads.                                                     *)
Reply(c) == Message(maps[c].bytes)

Signed(c) == clients[c].st = "done" /\ Reply(c)[1] = SSH2_AGENT_SIGN_RESPONSE

(* The key whose secret half makes a signature.                              *)
LedgersKey(g) == KeyInfo(g.curve, DeviceKey(g.ident.point))

(* The Ledger is asked to sign exactly the challenge that the client asked to    *)
(* have signed, whatever an earlier request or answer left behind it in the     *)
(* mapping, for an identity that had the key it asked for when that key was     *)
(* fetched; and with this very key, unless the identity was saved as another     *)
(* since or is not of nistp256 (HandleMemoryMap, SignMap).                      *)
SignsWhatWasAsked ==
  \A c \in Clients :
    LET call == clients[c]
    IN  call.st = "done" /\ call.signed # NotSigned =>
          /\ call.req.kind = "sign"
          /\ call.signed.challenge = call.req.challenge
          /\ KeyOf(call.signed.was) = call.req.key
          /\ \/ LedgersKey(call.signed) = call.req.key
             \/ call.signed.ident # call.signed.was
             \/ call.signed.was.ktype # "nistp256"

(* A signature that a client reads is the one that the Ledger made in this call, *)
(* its two integers unchanged up to zeros in front (SignMap).                *)
SignatureIsTheLedgers ==
  \A c \in Clients :
    Signed(c) =>
      /\ clients[c].signed # NotSigned
      /\ \A n \in {1, 2} :
           Significant(IntegersOf(Reply(c))[n]) = Significant(clients[c].signed.by[n])

(* The key of an identity is, for a client, the public key of the point that it   *)
(* had when the key was fetched, unless a coordinate begins with a zero byte    *)
(* (ConvertPubKey, decompressPubKey).                                        *)
BlobIsPublicKey ==
  \A i \in Loaded :
    LET p == fetched[i].point
    IN  p.x[1] # 0 /\ p.y[1] # 0 => cached[i] = PublicKey(fetched[i].ktype, p)

(* A list says how many keys it has, each with a comment, unless a key was       *)
(* loaded or cleared while a box of its handler was open (PresentPubKeys counts  *)
(* before the box).                                                         *)
ListCountsKeys ==
  [][\A c \in Clients :
       /\ clients'[c].st = "done" /\ clients[c].st # "done" /\ clients'[c].ret
       /\ Reply(c)'[1] = SSH2_AGENT_IDENTITIES_ANSWER
       => \/ Len(StringsFrom(Reply(c)', 5)) = 2 * AsInt(Reply(c)', 1)
          \/ stack # <<>> /\ Inner.client = c /\ Inner.counted # Loaded]_vars

(* The program only writes through a reference or a view that is gone if the     *)
(* client of a suspended handler has died, or if a client called for the first  *)
(* time meanwhile (GetOrCreateMap, MemoryMap::Close).                        *)
MappedWhileServed ==
  [][Running /\ status' = "undefined" => Inner.orphan \/ Inner.moved]_vars

AbstractRequest(q) ==
  IF q.kind = "sign" THEN [kind |-> "sign", key |-> q.key] ELSE [kind |-> q.kind]

AbstractReply(c) ==
  CASE Reply(c)[1] = SSH2_AGENT_IDENTITIES_ANSWER -> [kind |-> "list", keys |-> KeysListed(Reply(c))]
    [] Reply(c)[1] = SSH2_AGENT_SIGN_RESPONSE     -> [kind |-> "sig", key |-> clients[c].req.key]
    [] Reply(c)[1] = SSH_AGENT_FAILURE            -> [kind |-> "failure"]
    [] OTHER                                      -> [kind |-> "none"]

AbstractCall(c) ==
  CASE clients[c].st \in {"idle", "asked"} -> [st |-> "idle"]
    [] clients[c].st = "waiting" -> [st |-> "waiting", req |-> AbstractRequest(clients[c].req)]
    [] clients[c].st = "done"    -> [st |-> "done", req |-> AbstractRequest(clients[c].req),
                                     answer |-> AbstractReply(c)]

KA == INSTANCE KeyAgent WITH Clients <- Clients \ Mortal,
                             held    <- {cached[i] : i \in Loaded},
                             calls   <- [c \in Clients \ Mortal |-> AbstractCall(c)]

(* What clients read from their mappings, taken apart by the protocol, is what   *)
(* a key agent answers: lists of the blobs loaded at that moment, signatures   *)
(* only for loaded keys, refusals only for others.  Clients that die, and the  *)
(* handlers they leave, change nothing for those that live.                  *)
ServesKeys == KA!Spec

-----------------------------------------------------------------------------
(* What the source says of itself and its steps do not keep.                *)

(* README.md:31 "you accepted the request this should work!" -- a server reads   *)
(* both integers of a signature as mpints that are not negative.             *)
SignatureVerifies ==
  \A c \in Clients : Signed(c) => \A n \in {1, 2} : ~Negative(IntegersOf(Reply(c))[n])
=============================================================================
