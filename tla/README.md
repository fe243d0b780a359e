# LedgerPageant in TLA+

LedgerPageant is a Windows program that takes the place of PuTTY's Pageant and
keeps the private keys on a Ledger Nano S. This directory holds TLA+ modules of
it, configurations that check them with TLC on small instances, and proofs that
TLAPS checks. Paths such as `window.cpp:284` are relative to `src/`.

## The system

| Component | State | Operations | Source |
|---|---|---|---|
| UI thread | the Manage Identities dialog, its list view and selection, the handlers that are suspended in boxes | menu and dialog commands, dispatch of WM_COPYDATA, exit | window.cpp, main.cpp |
| Agent requests | the shared maps seen so far, each client's pending call | list keys, sign, anything else | application.cpp:480-704, memoryMap.cpp |
| File mappings | `mMemoryMaps`: name, view and position of each; the bytes clients and handlers leave in them | Open, Write, ReadInt, ReadBytes, Close | memoryMap.cpp, application.cpp:480-558 |
| Keys | `pubkey_cached` of every identity | get, copy, clear; derivation from the identity's address | application.cpp:351-478, identity.cpp |
| Device conversation | the hid handle, the reports under way, what has been read | Open, Write, Read, Exchange, chunked signing | ledger_device.cpp, application.cpp:201-266 |
| Framing | none | WrapApdu, UnwrapApdu, APDU | application.cpp:59-199, apdu.h, bytearray.h |
| Identity store | `mIdentities` and PuTTY's sessions in the registry | load, add, save, remove | registryInterface.h, application.cpp:268-313 |
| Encodings | none | DER signature to SSH signature, key blobs, agent messages, base64 | application.cpp:351-462, 580-604, 655-700, encodeUtil.h |
| Layout, icon, strings, log | sizes of controls | resizing, the tray icon, code pages | window.cpp, stringUtil.cpp |

How they interact:

* There is one thread. A client (PuTTY) writes its request in a shared map and
  calls `SendMessage(WM_COPYDATA)`; it is blocked until the handler returns.
* Every message box is `MessageBox(NULL, ...)`: it has no owner, so no window is
  disabled, and its loop dispatches messages. Inside a box the user can give any
  other command of the dialog, and clients can call. Handlers therefore nest, and
  a handler finds, when its box is answered, that indices, references and counts
  it took before may no longer mean what they meant. This is the hard part of
  the program, and it is what module `Agent` is about.
* `Exchange` does not dispatch messages. While it runs nothing else does, apart
  from the Ledger, its user and its cable.
* The registry is shared with PuTTY and is read only once.
* A mapping is shared with one client, named after its thread. The program opens it
  anew for each request and closes it only after a signature, so a mapping, and
  what is in it, can outlive the client that made it, and a later thread with the
  same name finds it.

What makes each component correct, in short: the window, the list and the
identities stay in step under every nesting; each call is answered once, by its
own handler, with keys that are loaded, and read byte for byte what was meant for
it; requests and answers reach the other end of the cable unchanged and never get
out of step; what is saved comes back, and nothing is removed that was not asked
for. `PROJECT.json` lists the hazards at
their lines.

## Modules

| Module | What it is |
|---|---|
| `KeyAgent` | the abstract specification: an agent that holds keys and answers calls |
| `Agent` | the UI thread, its windows and boxes, WM_COPYDATA; refines `KeyAgent` |
| `AgentProofs` | the inductive invariant of `Agent` and what follows from it; what no step of `Agent` does: outdate a key, lose an element |
| `AgentRefinement` | that callers and handlers match, and that `Agent` implements `KeyAgent` |
| `ByteArray` | sequences of bytes, and how numbers and strings are put in them |
| `ByteArrayProofs` | that numbers and strings are read as they were written; sums, slices and induction for the modules that use bytes |
| `Wire` | key blobs, signatures and agent messages as operators on byte sequences, and what the protocol says they are |
| `Requests` | HandleMemoryMap, PresentPubKeys and SignMap on the bytes of shared mappings, clients that die; refines `KeyAgent`, extends `Wire` |
| `RequestsProofs` | that PresentPubKeys writes where its client reads; that the Ledger signs what was asked, and that its signature and its keys arrive |
| `RequestsRefinement` | that `Requests` implements `KeyAgent`, and that a list says how many keys it has |
| `Framing` | WrapApdu and UnwrapApdu as operators on byte sequences, with the layout of the protocol as the other end sees it |
| `FramingProofs` | that the two ends read what the other wrote, for every report size and message |
| `DeviceCall` | the abstract specification of a conversation: one question, at most one answer |
| `Transport` | Exchange, Device, GetPubKeyFor and SignMap as callers, the Ledger as environment; extends `Framing`, refines `DeviceCall` |
| `TransportProofs` | the inductive invariant of `Transport` and what follows from it; that `Transport` implements `DeviceCall` |
| `Derivation` | from an identity to its text, and from the text's digest to the path of its key |
| `IdentityStore` | identities in memory and in the registry, PuTTY, restarts; extends `Derivation` |
| `IdentityStoreProofs` | the inductive invariant of `IdentityStore`, and that what was saved is read |
| `MCAgent`, `MCRequests`, `MCTransport`, `MCIdentityStore` | instances for TLC |

### Agent

State: `idents` is `mIdentities` (slot i is index i-1), `rows` and `sel` are the
list view, `dialog` the window, `stack` the suspended handlers, `handle` is
`Device::mDevice`, `maps` the names in `mMemoryMaps`, `clients` what each client
has asked and got. An action is what one handler does between two points at which
messages are dispatched: `AskRemove` shows the question, `ResumeRemove` is all
that follows the answer. Only the innermost handler can resume.

What a handler holds over a box is kept in its frame: the slot it took, the
count it computed, the client it serves, and in `ref` whether that slot or
reference still denotes the same element (`FreeRows`, `ShiftRows`, `FreeMaps`
mark the frames when a vector moves or is shifted). `std::vector::push_back` may
or may not reallocate, so both happen. An access through a freed reference, or at
index -1, is undefined: the run ends in status "undefined". An exception that
nothing catches ends it in "crashed", the loop of Exchange that never ends in
"hung".

Left out: names and the registry (see `IdentityStore`), the text of the
clipboard, what handlers do while WM_QUIT unwinds the loops of open boxes at
exit, the layout of the window. An exchange with the device is one step here;
`Transport` takes it apart, and has what is left out of that step: the user of the
Ledger who never decides (`CallReturns` is about boxes, `ConversationEnds` about the
Ledger), and answers that are no key or no signature (`Unchecked`). A challenge is never
empty here; `Requests` and `Transport` have the empty one. `DeviceCall` is the contract
between the two: `Lost`, `FetchKey` and `CopyDataSign` have its outcomes for a Ledger
that is lost, refuses, or answers as it should. `ServesKeys` is about the key that a
signature is for; with which path and curve it was made is `SignedOnKeyCurve` and, in
`Requests`, `SignsWhatWasAsked`.

### Requests and Wire

`Agent` says when each call is answered and by whom; its answers are sets of keys.
`Requests` has the same three operations on bytes, without the dialog: the user
loads and clears keys and saves identities as others (`Edits`) at any time. An identity
is its key type, the point that is its public key, and its comment. `cached` stays as it
is when the identity is saved (window.cpp:314), and `fetched` remembers what it was when
the key came. `CopyDataSign` asks the Ledger with the path that the identity has now and
with P2 for nistp256, whatever its key type (application.cpp:646): `Signing` records
both. An empty challenge ends in a crash, as no Exchange is made and what is parsed then
has no bytes. `SignsWhatWasAsked` says that the challenge signed is the one asked for,
that the identity had the key asked for when it was fetched, and that the Ledger signs
with this very key, except in the two cases where the code does not see to it: the
identity was saved as another since, or it is not of nistp256. `maps[c].bytes` is the content of a client's
mapping, `held` and `kept` say which process has it open (nobody: it is gone, and
the next one with its name is zeros), and `view` what `mDataPtr` points to. A
request is written over whatever the mapping had (`Overwrite`), and what is read
from it is read at the positions the code computes: the operation's length clamped
to one byte, the key, then the challenge right behind it. `Write` leaves out what
does not fit, and what would just fit (`>=`).

A client in `Mortal` can be killed in its call. The handler that served it goes on
(`orphan`), and a later client with the same name can call while the first one's
box is open. The entry's view can then be closed by a sign request, and the entry
itself moved by `push_back` (`moved`); a write through either is undefined.
The Ledger's signatures are well formed here; `Transport` has the others.

`Wire` has the code's conversions (`KeyInfo`, `ConvertPubKey`, `decompressPubKey`,
`EncodedSignature`) next to the other end's (`PublicKey`,
`Message`, `KeysListed`, `IntegersOf`), which are written from the protocol and not
from the code. The curve is a given set of points, so that decoding a compressed
one is to choose the point with that x and that parity of y. `Requests.Response` is
the loop of PresentPubKeys over the identities, as a recursive function.

### Framing and Transport

`Framing` translates the loops of WrapApdu and UnwrapApdu to recursive functions of
the block, and the early returns of UnwrapApdu to the conditions under which it
returns nothing.
`ReadsPastEnd` says when the code would read behind the end of its buffer. The
other end (`Position`, `Arrived`, `Data`) is written from the layout of the
protocol and not from the code, so the two are checked against each other.

`Transport` has the UI thread in `pc`, the APDU in `request`, the bytes read in
`result`, reports that wait in the handle in `queue`, and the Ledger in `card`.
`GetPubKey` opens the device first, `Sign` uses the handle as it is, as SignMap
does; with nothing to sign it makes no Exchange and is at once at the signature it never
asked for. What the Ledger answers is one of `Keys` or `Signatures`, or one of `Garbage`,
or a status of `Errors`: nobody checks that an answer is what it should be.
`Refused` is what a caller takes for an error. For a key, 0x61xx and 0x6Cxx are none
(application.cpp:398) and go on to ConvertPubKey, which without 66 bytes may fail an
assertion or throw (`KeyReturned`). A signature is read with `at()` where its own lengths
say (application.cpp:657-675): `Parses` says when all of these bytes exist, and `Signed`
breaks when they do not. That more chunks are to come the Ledger reads from the program's
`offset` (`Acknowledge`, `Decide`): P1 is 0x00 in every chunk and does not say it.

A blocking `hid_read` is an action that is enabled when a report is there;
it fails only when the device is gone, and Read turns that failure into "nothing
yet". `seen` and `answer` are history variables for the properties.

`OneCall` maps `Transport` to `DeviceCall`. From the first report to the return of the last
Exchange a call is busy with one question: the path, or the path and the whole challenge.
The acknowledgements of chunks do not show; the answer shows once the Ledger has it in
`answer`, on the data in `seen`. What comes back is the response and the status, and it is
that answer, or the empty response with CODE_SUCCESS (`Nothing`) and then the handle is
stale. With an empty challenge no question is asked, and what comes back is `Nothing`
(`AskNothing`). A caller may break on `Nothing` and on an answer in `Unchecked`.

### IdentityStore

`reg` maps the keys below `Sessions` to their values; a key is a path, because a
display name with a backslash makes a subkey. `Save` and `DieInSave` write the
values in createSession's order (`Tried`), the second only the first of them, before the
process is killed. The result of each RegSetValueEx is ignored, so any of the values in
`Refusable` may be refused while the others are written (`CreateSession`); `refused`
remembers which a session lacks for that reason. RegCreateKeyEx may be refused, and a
name may be empty: memory changes all the same. SaveIdentity reports only the empty name
to its caller, which does not look; it does not look itself at what createSession
returns. `PuttySave` and `PuttyDelete` are PuTTY; KeyType is not one of its values
and survives its saves. `saved` is a history variable. `getValueDwordFor` gives
RegGetValue a buffer and no size, which is documented to be refused; `unread` in
`LoadedIdentity` is either outcome, so a port may or may not be read back.

`Derivation.IdentityString` is `Identity::ToString`: `Behind` is the text that
happens to lie behind the literal that the port is added to. `GetPathBIP32` takes
the digest of that text and gives `Transport` its path.

## Runs

| Run | Bounds | Shows |
|---|---|---|
| windows | 2 identities, 2 addresses, 3 suspended handlers, no client; 439k states | list and window in step, at most one window, a loaded key has a handle, only Save outdates a key, undefined accesses only after the element moved or with nothing selected |
| calls | 2 clients (symmetric), 2 identities, 1 key type, 2 suspended handlers, room for 1 key in a reply; 297k states | one handler per call; `Agent` refines `KeyAgent` |
| live | 2 clients, 1 identity, 2 suspended handlers; 36k states | every call returns |
| exchange | the program's sizes: 64, 255, 66 and a 21 byte path; 8 challenges, one of them empty, 13 signature lengths, 5 answers that are no signature (4 of them no key), 3 errors; 7k states | requests and answers arrive whole, nothing is left over, no read past the end; the program breaks only on nothing or on an answer that it does not check; with a user who decides, every conversation ends or hangs in the loop without a timeout; `Transport` refines `DeviceCall` |
| store | 2 identities, 3 names of which one is nested, all of ssh, ports read back or not, host names refused or not; 158k states | no two identities were loaded from one key, a session that is loaded has its address or was refused it, sessions vanish only by Remove or PuTTY, what is saved comes back |
| bytes | 2 clients, one mortal; 2 identities, of which one is saved as the other; 2 challenges, one of them empty; mappings of 58 bytes; 2 requests, 2 suspended handlers; 212k states | the Ledger signs what was asked, with the key asked for unless the identity was saved since; its signature and the keys arrive, a list counts its keys, writes go where the client reads; `Requests` refines `KeyAgent` |
| curve | | **violated** `SignedOnKeyCurve`: P2 is 0x81 for every key type |
| removed | | **violated** `RemovesSelected`: a second Remove box shifts the index of the first |
| timeout | | **violated** `TimeoutFires`: the 15 s timeout does not end a wait for the user |
| kept | | **violated** `RemovedEverywhere`: the session of a new identity stays |
| signature | 1 client, 1 identity | **violated** `SignatureVerifies`: the zero in front of s is dropped, so s reads as negative |
| address | 1 identity | **violated** `SameStringAsAgent`: the text has no port |

Two more disagreements have no run of their own. Save keeps the key of the old
address while the dialog and the agent show it under the new one: `OnlySaveOutdates`
says that nothing else does that, and `SignsWhatWasAsked` what it means for a signature.
An Exchange that fails leaves a status that says success, so that the assertion after it
does not see it, and the answers that do come are not looked at: `BreaksOnlyUnchecked`
says that the program breaks over it only with nothing in its hands, from a lost Ledger
or for an empty challenge, or with the Ledger's own whole answer when that is no key, no
signature, or a status 0x61xx or 0x6Cxx for a key.

Why the bounds are enough. In `windows`, two identities and three suspended
handlers are what it takes for one box to invalidate what another handler holds
while a third is between them, the dialog's own call counted. In `calls`, a second
client is what moves the maps and what could get the wrong answer; a reply with
room for one key makes both a list that fits and one that does not. `exchange`
has the real sizes, with lengths one byte around each limit: 57 and 59 bytes of
data in a report, 116 in two, the 121 up to which the size check of UnwrapApdu
believes two reports to be enough, 255 in an APDU; its malformed signatures end before
each of the three lengths that SignMap reads. In `bytes`, coordinates have two
bytes, so that blobs have 19 and 11 bytes. A list of both keys has 59 bytes, which do not
fit, and once the first identity is saved as the second with its shorter comment 57,
which just do; then its key stands for another path, and after the next fetch both have
the same key. The second identity saved as the first would be the same the other way
round. Two requests are what it takes for one to find what the other left, by the same name
after a death as well, and two suspended handlers for a dead client's to be below
or above a living one's. In `store` two identities can
have one name, two sessions can be loaded, and one key can have a subkey. A session whose
protocol was not written stands for those of other protocols, which are no more loaded
than it is; of the address, the value that is written first is the one that may be
refused.

### Fairness

`Agent.FairSpec`: the user answers the box in front, however often others come
over it (strong fairness for each depth of the stack, since a box can be covered
and uncovered for ever), and does not leave the dialog open for ever (weak
fairness of CloseDialog). Both are needed: a call that is suspended below the
dialog waits for it. The thread itself needs none, as each action is a whole
piece of a handler. Nobody has to plug the Ledger in, as the box can be
cancelled.

`Transport.FairSpec`: the thread runs, time passes, and the Ledger does what needs
no user. `AttendedSpec` adds that its user decides; `exchange` uses it, since nothing
else ends a wait for an answer. `TimeoutFires` is refuted under
`FairSpec`, since a timeout is for a user who does nothing.

## Proofs

`AgentProofs` proves, for every number of clients and identities and every depth
of nesting, `Spec => []TypeOK`, `[]RowsMatch`, `[]OneDialog` and
`[]LoadedNeedsHandle`, from `AgentAssumption` alone. The invariant is

    IInv == TypeOK /\ Nested(stack, dialog) /\ RowsMatch /\ LoadedNeedsHandle

None of its parts is inductive alone. That `rows` does not fall below 0 when
Remove deletes a row needs `RowsMatch`; that Remove runs only while the window
exists needs `Nested`: every handler that works on a row is suspended above the
DialogBox call, which is unique, and DialogBox cannot return before what is above
it has. The lemmas say what pushing, popping and marking frames do to `Nested`;
there is one step per action for the rest.

`AgentRefinement` proves `OneHandlerPerCall` and that `Agent` implements `KeyAgent`
(`ServesKeys`), again for all constants. `CInv` adds to `IInv` that each suspended
handler of a call serves one client, which waits for a list (`OneEach`), and that
everyone who waits while the program runs has a handler (`AllServed`). The first is
what makes the answer of a resumed handler an answer to the call that is still
pending; the second is what makes the ends of the process an answer to every
pending call. After the initial state there is one step per action: it is a `Hold`,
`Call`, `Answer`, `Read` or `Stop` of `KeyAgent`, or changes nothing there.

`AgentProofs` also has the action properties `OnlySaveOutdates` and
`DefinedWhileUnmoved`. The second needs `RefsHold`: a handler whose reference is
marked "same" holds a row that exists. It is preserved because every operation that
erases or moves an element marks the frames that hold it.

`ByteArrayProofs` is about bytes: a number that fits in two or four bytes is read as
it was written (`Int32Read`), a string behind any prefix and in front of
any rest is read back whole (`StringRead`). The definitions that loop are recursive
functions of a number. What they compute is proved by induction on that number, in a
form without an operator as parameter: `SetInduction` says that a set that has 0, and
with n also n + 1, has every natural number, and the set is the one of the numbers
for which the claim holds.

`RequestsProofs` proves four invariants and an action property of `Requests`, from
`RequestsAssumption` and `WireAssumption`: mappings are shorter than 65536 bytes, the
y of a point of ed25519 leaves the highest bit of its bytes free, identities and what
they are saved as have a known key type, points are told by x and the parity of y, and a point and a signature
of two coordinates fit in lengths of one byte. There are two parts.

* `VInv` is about who has which mapping: the client of a handler in a box, unless it
  has died, waits, no other handler serves it, and the view of its mapping is open.
  Only a sign request closes a view, and its client would have to be the one that
  waits. `MappedWhileServed` follows. The bytes do not matter: `Mapped` says of them
  only that there is some set they are in.
* `BInv` is about what the mappings hold, relative to `VInv`. While a call is pending
  its mapping has the request of that call, or a list that a dead client's handler
  wrote over it (`Asks`). Once it is done the mapping has a message that is no
  signature, or the signature that the Ledger made in this call (`Has`), and what the
  Ledger signed is what the request said, for an identity that had the key of the request
  when it was fetched (`AsAsked`). That is all that `Cached` gives: a cached key is the one
  made for `fetched`, and not for what the identity is now. `held` is in it because the end
  of the process keeps only the bytes of mappings that a client still has open.
  Nothing less is inductive: that a request is answered as it was asked needs that
  it is still there when its handler runs, which needs that what may be written over
  it is never another request. `TypeOK`, `SignsWhatWasAsked` (of an nistp256 identity that
  is what it was, the key that the Ledger signs with is the one cached),
  `SignatureIsTheLedgers` and `BlobIsPublicKey` follow.

The lemmas under `BInv` follow the bytes: what is placed at the beginning of a mapping
is read from it whatever lies behind (`StringIn`, `RequestsTold`), a signature in DER
taken apart by SignMap, encoded, and taken apart by the protocol has the same two
integers (`Values`, `SignReplies`), and the blob of a key is the public key of its
point for both curves (`KeyIsPublic`).

`RequestsRefinement` proves that `Requests` implements `KeyAgent` (`ServesKeys`) and the
action property `ListCountsKeys`. `LInv` is what both need next to `VInv` and `BInv`: a
call that waits, and every call of a client that cannot die, has its own request in its
mapping, and nobody's list over it (`Own`); everyone who waits has a handler whose client
lives (`Served`); handlers without a client belong to names in `Mortal`, the others serve
requests for a list and have no handler of the same name above them (`Listing`). The
last one is why a dead client's handler never answers in a mapping of a client that
lives. `Listed` reads a list the way the protocol does and finds the keys that are
loaded: `StringsFrom` is a recursion from the front of the message and `Response` one
from its end, so the induction goes over the identities that are behind a place in
it (`ListedBehind`). After the initial state each step is a `Hold`, `Call`, `Answer`,
`Read` or `Stop` of `KeyAgent`, or changes nothing there (`Showing`).

`FramingProofs` proves, for every report size from 12 on and every message shorter than
65536 bytes, that the reports that Exchange makes of a message are the message for the
other end, once its last report is there and not before (`ArrivesWhole`, `ArrivesLast`),
and that UnwrapApdu makes of the first reports of an answer nothing, and of all of them
the answer, without reading behind them (`Unwraps`). `Laid` says that the length and the
first blocks of a message are where the protocol puts them; WrapApdu's loop extends it
by one block, UnwrapApdu's reads one.

`TransportProofs` proves all the safety properties of `Transport`, for all sizes. Its
`IInv` says for each value of `pc` which reports are where: those not written yet, those
in the Ledger, those of the answer that are on their way, and those read (`Writing`,
`Waiting`, `Answered`, `Returned`). Together they are always one whole message, which is
what makes `UnwrapApdu` see its first reports only. Two facts are about the cable: a handle
that is live means that the Ledger is attached, and with a handle that is not, the
Ledger has nothing of an earlier conversation, as it was unplugged since. Without them an
Exchange could begin with an answer left in the queue. `TransportAssumption` has the sizes:
a path that says its own length and leaves room for data; `AnswersAssumption` has the
answers: keys of one length, signatures whose lengths fit in a byte, everything shorter
than 65536 bytes; `ErrorsAssumption` says that an error is not 0x9000.

`BreaksOnlyUnchecked` (`BreaksOnlyOnUnchecked`) follows from `Returned`: what came back is the
answer to this Exchange, whole, or nothing and a handle that is not live, or nothing was
asked (`Unasked`). `Delivered` goes through the answers: a signature that the Ledger made has
all the bytes that SignMap reads, a key has `KeyLen` bytes and a refusal is taken for one,
so that what is left to break on is in `Unchecked`.

It also proves that `Transport` implements `DeviceCall` (`CallsAreOne`). Next to `IInv`
this takes `AInv`: before the Ledger answers and between calls there is no answer; and an
answer is one to the question, or an acknowledgement while there are chunks to come.
`NotShown` covers the steps between question
and answer; the others are one lemma each (`ShowsAsk`, `ShowsGive`, `ShowsReturn`,
`ShowsFinish`, `ShowsCable`).

`IdentityStoreProofs` proves `TypeOK`, `OneIdentityPerKey`, `LoadableHasAddress` and
the action properties `VanishesOnlyByRemove` and `SavedComesBack` for every set of names and values,
every number of identities and whatever the registry refuses, from `StoreAssumption`. The
invariant is the conjunction of what holds of the list (`IdentitiesOK`) and of the registry
and what it refused (`RegistryOK`, which adds that there are finitely many keys, so that
loading them gives a sequence). A session that has its protocol has its address, or was
refused it, because Protocol is written after HostName, PortNumber and UserName by
`createSession`, however far it comes (`AddressFirst`, `CreatedOK`), and by PuTTY
(`PuttySaveOK`). No two identities were loaded from one key because `Start` reads each
once (`Loaded`), because Save leaves `regKeyName` alone (`Edited`), and because `erase` keeps
different identities apart (`Erased`). This does not keep an identity from being saved
under the name that another was loaded from; the two then share the session, and
Remove of the other takes it away. `SavedComesBack` needs `SavedIsThere`: what was
saved last under a name is in the registry unless someone else wrote it, and Save
below another key, or of the rest of a path, leaves it alone.

Only model-checked: liveness (`CallReturns`, `ConversationEnds`), which is out of the
prover's reach. Every safety invariant and action property that a passing run checks
is also proved.

## Not modelled

* SHA-256, the curve (points are a given set) and the base64 text that Copy puts on
  the clipboard: conversions that no property is about.
* `Identity::FromString`, which nothing calls.
* Contents of a mapping that no client of the protocol writes, and mappings shorter
  than `AGENT_MAX_MSGLEN`.
* Answers of the Ledger that are no key or no signature, beyond the call that gets
  them: `Transport` has the crash; a release build that survives one, and what it then
  caches or writes to a mapping, is in no module.
* `KeyType::p2` of a default KeyType, which has no value: the blob of a key does not
  depend on it, nor the request for a signature.
* Leaked device handles of `Device::Open`: nothing depends on how many there are.
* Layout, icon, resources, code pages, log (its macros are empty).

## Plan

Compose `Agent` and `DeviceCall`: the steps of `FetchKey`, `CopyDataSign` and `Lost` as
calls of one, so that what is proved of `Transport` reaches the clients.
