------------------------------ MODULE KeyAgent ------------------------------
(***************************************************************************)
(* What LedgerPageant promises to the programs that call it, with nothing   *)
(* said of windows, message boxes or USB.  The agent holds a set of public  *)
(* keys.  A caller's request is answered at most once; a list shows exactly *)
(* the keys held when it is given ("Keys that are loaded in the UI will be  *)
(* presented to putty", README.md:33), a signature is given only on a key   *)
(* that is held, and a refusal ("failure") only for a key that is not.  A   *)
(* call may also return with nothing written.  Every key the agent comes to *)
(* hold costs one exchange with the device, so keys arrive one at a time.   *)
(***************************************************************************)

CONSTANTS Clients,   (* the callers: threads of PuTTY and its tools         *)
          Key        (* the public keys                                     *)

VARIABLES held,      (* the keys the agent holds                            *)
          calls      (* calls[c]: the call that c has made, and its answer  *)

vars == <<held, calls>>

Requests == [kind: {"list", "other"}] \cup [kind: {"sign"}, key: Key]

Answers == [kind: {"none", "failure"}]
             \cup [kind: {"list"}, keys: SUBSET Key]
             \cup [kind: {"sig"}, key: Key]

Idle == [st |-> "idle"]
Waiting(r) == [st |-> "waiting", req |-> r]
Done(r, a) == [st |-> "done", req |-> r, answer |-> a]

Nothing == [kind |-> "none"]

(* The answers that a request may get from an agent that holds H.           *)
Permitted(r, H) ==
  CASE r.kind = "list"  -> {Nothing, [kind |-> "list", keys |-> H]}
    [] r.kind = "sign"  -> IF r.key \in H
                           THEN {Nothing, [kind |-> "sig", key |-> r.key]}
                           ELSE {[kind |-> "failure"]}
    [] r.kind = "other" -> {Nothing}

Init == /\ held = {}
        /\ calls = [c \in Clients |-> Idle]

(* The user loads one key, or any number of keys are lost.                  *)
Hold(k) == /\ held' \in SUBSET (held \cup {k})
           /\ UNCHANGED calls

Call(c, r) == /\ calls[c] = Idle
              /\ calls' = [calls EXCEPT ![c] = Waiting(r)]
              /\ UNCHANGED held

(* An answer to a pending call, or to one made and answered in one step.    *)
Answer(c, r) == /\ calls[c] \in {Idle, Waiting(r)}
                /\ \E a \in Permitted(r, held) :
                     calls' = [calls EXCEPT ![c] = Done(r, a)]
                /\ UNCHANGED held

Read(c) == /\ calls[c].st = "done"
           /\ calls' = [calls EXCEPT ![c] = Idle]
           /\ UNCHANGED held

(* The agent ends, maybe over a call just made.  It forgets its keys, and   *)
(* every call that is pending returns without an answer.                    *)
Dropped(asked) ==
  calls' = [c \in Clients |-> IF asked[c].st = "waiting"
                              THEN Done(asked[c].req, Nothing) ELSE asked[c]]

Stop ==
  /\ held' = {}
  /\ \/ Dropped(calls)
     \/ \E c \in Clients, r \in Requests :
          calls[c] = Idle /\ Dropped([calls EXCEPT ![c] = Waiting(r)])

Next == \/ Stop
        \/ \E k \in Key : Hold(k)
        \/ \E c \in Clients : Read(c)
        \/ \E c \in Clients, r \in Requests : Call(c, r) \/ Answer(c, r)

Spec == Init /\ [][Next]_vars
=============================================================================
