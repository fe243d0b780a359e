----------------------------- MODULE DeviceCall -----------------------------
(***************************************************************************)
(* What a conversation with the Ledger is for GetPubKeyFor and SignMap, with  *)
(* nothing said of APDUs, reports, chunks and timeouts.  A caller asks one    *)
(* question.  The Ledger gives at most one answer to it, and only if it has    *)
(* the question whole and was not unplugged since the device was opened.  The   *)
(* caller gets this answer; only one who has lost the Ledger may get nothing    *)
(* instead, which looks like an answer without data.  Callers do not check all  *)
(* that they get: some answers break the program, and so does nothing.         *)
(***************************************************************************)

CONSTANTS
  Questions,   (* [op, data]: a key for a path, a signature on a challenge   *)
  NoQuestion,  (* a signature on nothing, which the Ledger is never asked     *)
  Answers,     (* Answers[op]: what the Ledger may say to it                 *)
  Unchecked,   (* Unchecked[op]: what a caller takes for an answer to it that  *)
               (* is none                                                  *)
  Nothing      (* what a caller gets from a Ledger that is lost              *)

VARIABLES
  attached,    (* the Ledger is at its cable                               *)
  handle,      (* "null", "live", or "stale" when the Ledger was unplugged   *)
  call,        (* the caller: what it asks, what it gets                    *)
  given        (* the answer that the Ledger gave to this call, if it did     *)

vars == <<attached, handle, call, given>>

Idle == [st |-> "idle"]
Busy(q) == [st |-> "busy", q |-> q]
Back(q, a) == [st |-> "back", q |-> q, a |-> a]
Broken == [st |-> "broken"]

Init == attached \in BOOLEAN /\ handle = "null" /\ call = Idle /\ given = {}

-----------------------------------------------------------------------------
(* A request for a key opens the device; a signature needs that it was opened. *)
Ask(q) ==
  /\ call = Idle
  /\ IF q.op = "key" THEN attached /\ handle' = "live"
                     ELSE handle # "null" /\ UNCHANGED handle
  /\ call' = Busy(q)
  /\ UNCHANGED <<attached, given>>

(* Nothing to sign: the caller goes on with nothing.                         *)
AskNothing ==
  /\ call = Idle /\ handle # "null"
  /\ call' = Back(NoQuestion, Nothing)
  /\ UNCHANGED <<attached, handle, given>>

(* The user of the Ledger decides, once, on the whole of the question.        *)
Give(q) ==
  /\ call = Busy(q) /\ handle = "live" /\ given = {}
  /\ \E a \in Answers[q.op] : given' = {[on |-> q.data, answer |-> a]}
  /\ UNCHANGED <<attached, handle, call>>

Return(q) ==
  /\ call = Busy(q)
  /\ \/ \E g \in given : call' = Back(q, g.answer)
     \/ handle = "stale" /\ call' = Back(q, Nothing)
  /\ UNCHANGED <<attached, handle, given>>

(* Nothing taken for a signature breaks the program.                         *)
Finish(q) ==
  /\ \E a \in Answers[q.op] \cup {Nothing} :
       /\ call = Back(q, a)
       /\ \/ (a # Nothing \/ q.op = "key") /\ call' = Idle
          \/ a \in Unchecked[q.op] \cup {Nothing} /\ call' = Broken
  /\ given' = {}
  /\ UNCHANGED <<attached, handle>>

Unplug ==
  /\ call # Broken /\ attached
  /\ attached' = FALSE
  /\ handle' = IF handle = "live" THEN "stale" ELSE handle
  /\ UNCHANGED <<call, given>>

Plug ==
  /\ call # Broken /\ ~attached
  /\ attached' = TRUE
  /\ UNCHANGED <<handle, call, given>>

-----------------------------------------------------------------------------
Next ==
  \/ \E q \in Questions : Ask(q) \/ Give(q) \/ Return(q)
  \/ \E q \in Questions \cup {NoQuestion} : Finish(q)
  \/ AskNothing \/ Unplug \/ Plug

Spec == Init /\ [][Next]_vars
=============================================================================
