------------------------------ MODULE Transport ------------------------------
(***************************************************************************)
(* A conversation with the Ledger: GetPubKeyFor and SignMap send APDUs        *)
(* through Exchange, which writes reports, waits for the first report of the  *)
(* answer and reads on until the answer is whole.  All of it happens on the   *)
(* UI thread without a message being dispatched, so there is one conversation *)
(* at a time; what interleaves is the Ledger, its user and its cable.        *)
(*                                                                         *)
(* The Ledger is external: it takes an APDU that has arrived, asks its user   *)
(* unless more of the challenge is to come, and sends one answer.  What the   *)
(* answer holds is checked by nobody before it is taken apart, so it may also  *)
(* be one that no key or signature looks like, or any error.                 *)
(***************************************************************************)
EXTENDS Framing

CONSTANTS
  Path,        (* Identity::GetPathBIP32                                    *)
  KeyP2,       (* KeyType::GetP2                                            *)
  MaxChunk,    (* 255: most data in an APDU                                 *)
  KeyLen,      (* 66: data in the answer to a key request                   *)
  Challenges,  (* what clients ask to have signed                           *)
  Keys,        (* what the Ledger has for a key request ...                 *)
  Signatures,  (* ... and for a challenge: r and s, as bytes                 *)
  Garbage,     (* data that it may send instead                             *)
  Errors       (* statuses that it may send instead, without data            *)

CODE_SUCCESS == 36864   \* 0x9000

(* A signature as the Ledger sends it.                                      *)
DER(sig) ==
  <<48, Len(sig[1]) + Len(sig[2]) + 4, 2, Len(sig[1])>> \o sig[1] \o <<2, Len(sig[2])>> \o sig[2]

(* Bytes are bytes, and the Ledger takes as many components of a path as its    *)
(* first byte says.                                                         *)
ASSUME TransportAssumption ==
  /\ MaxChunk \in Nat /\ MaxChunk <= 255 /\ KeyP2 \in 0..255 /\ Challenges \subseteq Bytes
  /\ KeyLen \in Nat \ {0}
  /\ Path \in Bytes /\ Path # <<>> /\ Len(Path) = 1 + 4 * Path[1] /\ Len(Path) < MaxChunk

(* Sizes fit where they are kept; the lengths in a signature have a byte each.  *)
ASSUME AnswersAssumption ==
  /\ Keys \subseteq Bytes /\ \A k \in Keys : Len(k) = KeyLen
  /\ Signatures \subseteq Bytes \X Bytes /\ \A g \in Signatures : Len(g[1]) + Len(g[2]) < 124
  /\ Garbage \subseteq Bytes \ {<<>>}
  /\ \A d \in Keys \cup {DER(g) : g \in Signatures} \cup Garbage : Len(d) + 2 < Sizes

ASSUME ErrorsAssumption == \A code \in Errors : code \in Nat /\ code < Sizes /\ code # CODE_SUCCESS

VARIABLES
  pc,         (* where the UI thread is; "idle" outside a conversation       *)
  op,         (* GetPubKeyFor ("key") or SignMap ("sign")                    *)
  challenge,  (* SignMap's challenge_blob ...                               *)
  offset,     (* ... and how much of it is sent                             *)
  request,    (* the APDU of this Exchange                                  *)
  sent,       (* reports of it written                                      *)
  late,       (* the 15 s of the first Read have passed                     *)
  result,     (* bytes read so far                                          *)
  response, status,   (* what Exchange leaves to its caller                 *)
  attached, handle,   (* the cable, and Device::mDevice                     *)
  queue,      (* reports that wait to be read from the handle               *)
  card,       (* the Ledger: bytes it received, the APDU it works on,        *)
              (* reports it has to send                                     *)
  seen,       (* history: data of the APDUs the Ledger took in this call     *)
  answer      (* history: the Ledger's answer in this Exchange              *)

call   == <<op, challenge, offset>>
wire   == <<attached, handle, queue>>
caller == <<response, status>>
vars   == <<pc, call, request, sent, late, result, caller, wire, card, seen, answer>>

FreshCard == [inbox |-> <<>>, asked |-> <<>>, out |-> <<>>]

TypeOK ==
  /\ pc \in {"idle", "write", "first", "more", "return", "crashed", "undefined"}
  /\ op \in {"key", "sign"}
  /\ challenge \in Challenges \cup {<<>>} /\ offset \in 0..Len(challenge)
  /\ request \in Bytes /\ sent \in 0..Len(Reports(request)) /\ late \in BOOLEAN
  /\ result \in Bytes /\ response \in Bytes
  /\ status \in Errors \cup {CODE_SUCCESS}
  /\ attached \in BOOLEAN /\ handle \in {"null", "live", "stale"}
  /\ queue \in Seq(Bytes)
  /\ card \in [inbox: Bytes, asked: Bytes, out: Seq(Bytes)]
  /\ seen \in Bytes /\ answer \in Bytes

Init ==
  /\ pc = "idle" /\ op = "key" /\ challenge = <<>> /\ offset = 0
  /\ request = <<>> /\ sent = 0 /\ late = FALSE /\ result = <<>>
  /\ response = <<>> /\ status = CODE_SUCCESS
  /\ attached \in BOOLEAN /\ handle = "null" /\ queue = <<>>
  /\ card = FreshCard /\ seen = <<>> /\ answer = <<>>

-----------------------------------------------------------------------------
(* The requests.                                                            *)

(* An APDU keeps the size of its data in a byte.                            *)
APDU(ins, p2, data) ==
  LET size == Len(data) % (MaxChunk + 1)
  IN  <<128, ins, 0, p2, size>> \o SubSeq(data, 1, size)

KeyRequest == APDU(2, KeyP2, Path)

(* The path goes before the first chunk and takes room from it.             *)
(* Seeded fault: it takes none.                                             *)
FullChunk(c, o) == Min({Len(c) - o, MaxChunk})
PathBefore(o) == IF o = 0 THEN Path ELSE <<>>
ChunkSize(c, o) == Min({Len(c) - o, MaxChunk - Len(PathBefore(o))})

SignRequest(c, o) == APDU(4, 129, PathBefore(o) \o SubSeq(c, o + 1, o + ChunkSize(c, o)))

(* Exchange is called with r, its status preset to CODE_SUCCESS.            *)
Exchange(r) ==
  /\ pc' = "write" /\ request' = r /\ sent' = 0 /\ late' = FALSE
  /\ result' = <<>> /\ response' = <<>> /\ status' = CODE_SUCCESS
  /\ answer' = <<>>

(* The caller is done with the conversation.                                *)
Finish(where) ==
  /\ pc' = where
  /\ request' = <<>> /\ sent' = 0 /\ late' = FALSE /\ result' = <<>>
  /\ response' = <<>> /\ status' = CODE_SUCCESS
  /\ op' = "key" /\ challenge' = <<>> /\ offset' = 0
  /\ seen' = <<>> /\ answer' = <<>>

(* GetPubKeyFor opens the device first: a new handle, with an empty queue.   *)
GetPubKey ==
  /\ pc = "idle" /\ attached
  /\ handle' = "live" /\ queue' = <<>>
  /\ Exchange(KeyRequest)
  /\ UNCHANGED <<call, attached, card, seen>>

(* SignMap uses the handle as it is.  With nothing to sign it goes on at once  *)
(* to the signature, which it never asked for.                               *)
Sign(c) ==
  /\ pc = "idle" /\ handle # "null"
  /\ op' = "sign" /\ challenge' = c /\ offset' = ChunkSize(c, 0)
  /\ \/ c # <<>> /\ Exchange(SignRequest(c, 0))
     \/ c = <<>> /\ pc' = "return" /\ UNCHANGED <<request, sent, late, result, caller, answer>>
  /\ UNCHANGED <<wire, card, seen>>

-----------------------------------------------------------------------------
(* Exchange.                                                                *)

Return(data, code) == pc' = "return" /\ response' = data /\ status' = code

WriteReport ==
  /\ pc = "write"
  /\ \/ /\ handle = "live"
        /\ card' = [card EXCEPT !.inbox = @ \o Reports(request)[sent + 1]]
        /\ sent' = sent + 1
        /\ pc' = IF sent' = Len(Reports(request)) THEN "first" ELSE "write"
        /\ UNCHANGED caller
     \/ /\ handle = "stale"
        /\ Return(<<>>, status)
        /\ UNCHANGED <<card, sent>>
  /\ UNCHANGED <<call, request, late, result, wire, seen, answer>>

Elapse ==
  /\ pc = "first" /\ ~late
  /\ late' = TRUE
  /\ UNCHANGED <<pc, call, request, sent, result, caller, wire, card, seen, answer>>

ReadFirst ==
  /\ pc = "first" /\ queue # <<>>
  /\ result' = Head(queue) /\ queue' = Tail(queue)
  /\ pc' = "more"
  /\ UNCHANGED <<call, request, sent, late, caller, attached, handle, card, seen, answer>>

(* hid_read blocks as long as the device is there; only a handle whose device *)
(* is gone gives an error, which Read turns into 0, "nothing yet".           *)
(* Seeded faults: the read does not block; the error is not noticed.         *)
ReadReturns == TRUE
ReadBlocks == FALSE
ReadFails == handle = "stale"

ReadTimesOut ==
  /\ pc = "first" /\ queue = <<>> /\ ReadFails /\ late
  /\ Return(<<>>, status)
  /\ UNCHANGED <<call, request, sent, late, result, wire, card, seen, answer>>

(* The status word at the end, and the bytes before it.                     *)
(* Seeded faults: swOffset keeps its first value; the status word is taken     *)
(* for data.                                                                *)
StatusFirst(r) == AsShort(r, 0)
StatusOf(r) == AsShort(r, Len(r) - 2)
AllOf(r) == r
DataOf(r) == SubSeq(r, 1, Len(r) - 2)

Unwrap ==
  /\ pc = "more" /\ UnwrapApdu(result) # <<>>
  /\ LET r == UnwrapApdu(result) IN Return(DataOf(r), StatusOf(r))
  /\ UNCHANGED <<call, request, sent, late, result, wire, card, seen, answer>>

(* Nothing yet: read on, without a timeout.  From a handle whose device is    *)
(* gone nothing ever comes, and the loop does not end.                      *)
ReadMore ==
  /\ pc = "more" /\ UnwrapApdu(result) = <<>>
  /\ \/ /\ ReadsPastEnd(result)
        /\ pc' = "undefined" /\ UNCHANGED <<result, queue>>
     \/ /\ ~ReadsPastEnd(result) /\ queue # <<>>
        /\ result' = result \o Head(queue) /\ queue' = Tail(queue)
        /\ UNCHANGED pc
  /\ UNCHANGED <<call, request, sent, late, caller, attached, handle, card, seen, answer>>

-----------------------------------------------------------------------------
(* What the callers make of it.                                             *)

(* What GetPubKeyFor and SignMap take for an error: all but 0x9000, and for a  *)
(* key all but 0x61xx and 0x6Cxx, too, which go on to ConvertPubKey.          *)
(* Seeded fault: the status is not looked at.                               *)
NeverRefused == FALSE
Refused == status # CODE_SUCCESS /\ (op = "key" => status \div 256 \notin {97, 108})

(* ConvertPubKey of an answer that is none fails an assertion in a debug       *)
(* build, throws in a release build if it is too short, and does no harm if    *)
(* it is too long or the identity has no key type.                            *)
KeyReturned ==
  /\ pc = "return" /\ op = "key"
  /\ \/ (Refused \/ Len(response) = KeyLen) /\ Finish("idle")
     \/ ~Refused /\ Len(response) # KeyLen /\ \E end \in {"crashed", "idle"} : Finish(end)
  /\ UNCHANGED <<wire, card>>

NextChunk ==
  /\ pc = "return" /\ op = "sign" /\ ~Refused /\ offset # Len(challenge)
  /\ offset' = offset + ChunkSize(challenge, offset)
  /\ Exchange(SignRequest(challenge, offset))
  /\ UNCHANGED <<op, challenge, wire, card, seen>>

(* SignMap reads r and s where the lengths in front of them say, and throws    *)
(* where the signature has no such byte.                                    *)
Parses(sig) ==
  /\ Len(sig) >= 4
  /\ Len(sig) >= 6 + sig[4]
  /\ Len(sig) >= 6 + sig[4] + sig[6 + sig[4]]

Signed ==
  /\ pc = "return" /\ op = "sign"
  /\ \/ Refused /\ Finish("idle")
     \/ /\ ~Refused /\ offset = Len(challenge)
        /\ Finish(IF Parses(response) THEN "idle" ELSE "crashed")
  /\ UNCHANGED <<wire, card>>

-----------------------------------------------------------------------------
(* The Ledger, its user and its cable.                                      *)

CardTakes ==
  /\ attached /\ card.asked = <<>> /\ Arrived(card.inbox)
  /\ card' = [card EXCEPT !.inbox = <<>>, !.asked = Data(card.inbox)]
  /\ seen' = seen \o SubSeq(card'.asked, 6, Len(card'.asked))
  /\ UNCHANGED <<pc, call, request, sent, late, result, caller, wire, answer>>

CardAnswers(bytes) ==
  /\ card.asked # <<>> /\ card.out = <<>>
  /\ answer' = bytes
  /\ card' = [card EXCEPT !.out = Reports(bytes)]
  /\ UNCHANGED <<pc, call, request, sent, late, result, caller, wire, seen>>

(* Whether more is to come is read from the program's offset here; P1, which   *)
(* is 0x00 in every chunk, does not say it.                                  *)
Acknowledge ==
  /\ op = "sign" /\ offset # Len(challenge)
  /\ CardAnswers(Short(CODE_SUCCESS))

(* Answers as they should be, and others.                                   *)
Expected == [o \in {"key", "sign"} |->
  {d \o Short(CODE_SUCCESS) : d \in IF o = "key" THEN Keys ELSE {DER(g) : g \in Signatures}}]
Others == {d \o Short(CODE_SUCCESS) : d \in Garbage} \cup {Short(code) : code \in Errors}

(* The user agrees or refuses, or the Ledger does.                           *)
Decide ==
  /\ op = "sign" => offset = Len(challenge)
  /\ \E a \in Expected[op] \cup Others : CardAnswers(a)

CardSends ==
  /\ attached /\ card.out # <<>>
  /\ queue' = Append(queue, Head(card.out))
  /\ card' = IF Len(card.out) = 1 THEN FreshCard ELSE [card EXCEPT !.out = Tail(@)]
  /\ UNCHANGED <<pc, call, request, sent, late, result, caller, attached, handle, seen, answer>>

Alive == pc \notin {"crashed", "undefined"}

(* Reports that were not read may be lost with the device.                  *)
Unplug ==
  /\ Alive /\ attached
  /\ attached' = FALSE
  /\ handle' = IF handle = "live" THEN "stale" ELSE handle
  /\ queue' \in {queue, <<>>}
  /\ card' = FreshCard
  /\ UNCHANGED <<pc, call, request, sent, late, result, caller, seen, answer>>

Plug ==
  /\ Alive /\ ~attached
  /\ attached' = TRUE
  /\ UNCHANGED <<pc, call, request, sent, late, result, caller, handle, queue, card, seen, answer>>

Stopped == ~Alive /\ UNCHANGED vars

-----------------------------------------------------------------------------
Program ==
  \/ WriteReport \/ Elapse \/ ReadFirst \/ ReadTimesOut \/ Unwrap \/ ReadMore
  \/ KeyReturned \/ NextChunk \/ Signed

Card == CardTakes \/ Acknowledge \/ CardSends

Next ==
  \/ GetPubKey \/ \E c \in Challenges : Sign(c)
  \/ Program \/ Card \/ Decide
  \/ Unplug \/ Plug \/ Stopped

Spec == Init /\ [][Next]_vars

(* The UI thread runs, time passes, and the Ledger does what needs no user.  *)
FairSpec == Spec /\ WF_vars(Program) /\ WF_vars(Card)

(* The user decides, too.                                                   *)
AttendedSpec == FairSpec /\ WF_vars(Decide)

-----------------------------------------------------------------------------
(* The APDU that the Ledger works on is, byte for byte, the one that          *)
(* Exchange was called with (WrapApdu, the padding, the reports).            *)
RequestArrives == card.asked # <<>> => card.asked = request

(* Exchange returns what the Ledger answered to this request, whole and split *)
(* into data and status; or nothing and the preset CODE_SUCCESS.             *)
ResponseIntact ==
  pc = "return" => response \o Short(status) \in {answer, Short(CODE_SUCCESS)}

(* When an Exchange begins, nothing of an earlier one is left: no report in   *)
(* the queue of the handle, no request or answer in the Ledger.              *)
InSync == pc = "idle" \/ (pc = "write" /\ sent = 0) => queue = <<>> /\ card = FreshCard

(* UnwrapApdu, called on every prefix of an answer that ends at a report,     *)
(* never reads behind the end, although its size check passes too early for   *)
(* some lengths.                                                            *)
NoReadPastEnd == pc # "undefined"

(* A signature is on the whole challenge, sent in chunks after the path, and  *)
(* a key is for the whole path.                                             *)
WholeDataSeen ==
  pc = "return" /\ response # <<>> =>
    seen = IF op = "key" THEN Path ELSE Path \o SubSeq(challenge, 1, offset)

(* Answers that callers do not check: data that is no key or no signature, and  *)
(* for a key a status 0x61xx or 0x6Cxx (application.cpp:398).                  *)
Unchecked == [o \in {"key", "sign"} |->
  {d \o Short(CODE_SUCCESS) : d \in Garbage}
    \cup IF o = "key" THEN {Short(code) : code \in Errors \cap (24832..25087 \cup 27648..27903)}
                      ELSE {}]

NothingCame == response = <<>> /\ status = CODE_SUCCESS

(* All of the question is sent, or in this Exchange.                         *)
AllSent == op = "key" \/ offset = Len(challenge)

(* A conversation only breaks the program when all is sent, and then only with  *)
(* nothing in its hands, because the Ledger is lost or there was nothing to     *)
(* sign, or with the Ledger's own answer to the whole question, if that is one  *)
(* of those that callers do not check (GetPubKeyFor, ConvertPubKey, SignMap).   *)
(* A key, a signature and a refusal never do.                                *)
BreaksOnlyUnchecked ==
  [][pc' = "crashed" =>
       /\ pc = "return" /\ AllSent
       /\ \/ NothingCame /\ (handle = "stale" \/ (op = "sign" /\ challenge = <<>>))
          \/ answer \in Unchecked[op] /\ response \o Short(status) = answer]_vars

(* If the user decides, a conversation comes to an end, or it hangs reading   *)
(* the rest of an answer from a Ledger that is gone.                        *)
ConversationEnds ==
  pc = "write" ~> (pc \in {"idle", "crashed"} \/ (pc = "more" /\ handle = "stale"))

-----------------------------------------------------------------------------
(* The conversation as its caller sees it: what it asks, what it gets.         *)
Asked == IF op = "key" THEN [op |-> "key", data |-> Path]
                       ELSE [op |-> "sign", data |-> Path \o challenge]

Askable == {[op |-> "key", data |-> Path]}
             \cup {[op |-> "sign", data |-> Path \o c] : c \in Challenges \ {<<>>}}

AnswersTo == [o \in {"key", "sign"} |-> Expected[o] \cup Others]

CallShown ==
  CASE pc = "idle" -> [st |-> "idle"]
    [] ~Alive -> [st |-> "broken"]
    [] pc = "return" /\ AllSent -> [st |-> "back", q |-> Asked, a |-> response \o Short(status)]
    [] OTHER -> [st |-> "busy", q |-> Asked]

AnswerGiven == IF answer # <<>> /\ AllSent THEN {[on |-> seen, answer |-> answer]} ELSE {}

DC == INSTANCE DeviceCall WITH
  Questions <- Askable, NoQuestion <- [op |-> "sign", data |-> Path],
  Answers <- AnswersTo, Unchecked <- Unchecked, Nothing <- Short(CODE_SUCCESS),
  call <- CallShown, given <- AnswerGiven

(* A conversation is one question and one answer: the chunks, the reports, the   *)
(* 15 s and the status words, with a Ledger that may be lost in between, show   *)
(* in nothing but that a caller that has lost it may get nothing.              *)
OneCall == DC!Spec

-----------------------------------------------------------------------------
(* What the source says of itself and its steps do not keep.                *)

(* ledger_device.cpp:76 "read timeout (forgot to push button?)" -- the wait   *)
(* for an answer ends after 15 s when the user does not push the button.     *)
TimeoutFires == (pc = "first" /\ late) ~> pc # "first"
=============================================================================
