---------------------------- MODULE IdentityStore ----------------------------
(***************************************************************************)
(* Identities in memory and sessions in the registry, below                 *)
(* Software\SimonTatham\PuTTy\Sessions, which PuTTY writes too.  Sessions are *)
(* read once, at the start; Save and Remove write through.                   *)
(*                                                                         *)
(* A key of the registry is a path below Sessions, because a display name is *)
(* used as a path: "a\b" is subkey b of key a.  A command here is answered    *)
(* and done at once; what can change while its box is open is in module Agent.*)
(***************************************************************************)
EXTENDS Derivation, FiniteSets

CONSTANTS
  Names,      (* display names the user may choose, as paths                 *)
  NewName,    (* "New Identity"                                             *)
  Texts,      (* values of HostName and UserName                            *)
  Ports,      (* values of PortNumber                                       *)
  Protocols,  (* values of Protocol                                         *)
  Behind,     (* text behind the literal of ToString, by its offset          *)
  KeyTypes,   (* the names in mKeyTypes                                     *)
  MaxIdents,  (* bound: identities in the list                              *)
  Refusable,  (* bound: values that RegSetValueEx may refuse                *)
  Absent,     (* a value a key does not have, a name that was not assigned   *)
  Unsaved

(* The values of a session, in the order createSession writes them.         *)
Writes == <<"host", "port", "user", "proto", "ktype">>
Values == Range(Writes)

ASSUME StoreAssumption ==
  /\ Names \subseteq Seq(STRING) /\ <<>> \notin Names
  /\ NewName \in Names /\ Len(NewName) = 1
  /\ \A n \in Names : \A p \in Prefixes(n) \ {<<>>} : p \in Names
  /\ "" \in Texts /\ "ssh" \in Protocols
  /\ 22 \in Ports /\ Ports \subseteq Nat /\ Behind \in [Ports -> Seq(STRING)]
  /\ Absent \notin Texts \cup KeyTypes \cup Protocols /\ Absent \notin Ports
  /\ MaxIdents \in Nat /\ Refusable \subseteq Values

VARIABLES
  mode,    (* "off", "running", or "overflow": the stack overflowed          *)
  mem,     (* Application::mIdentities                                      *)
  reg,     (* the keys below Sessions and their values                      *)
  saved,   (* history: by name, what the program last saved there whole,     *)
           (* until someone else writes or removes the key                  *)
  refused  (* history: by name, the values a session does not have because    *)
           (* RegSetValueEx refused them                                    *)

record == <<saved, refused>>
vars   == <<mode, mem, reg, record>>

Session == [host: Texts \cup {Absent}, port: Ports \cup {Absent}, user: Texts \cup {Absent},
            proto: Protocols \cup {Absent}, ktype: KeyTypes \cup {Absent}]

EmptyKey == [host |-> Absent, port |-> Absent, user |-> Absent, proto |-> Absent, ktype |-> Absent]

(* regKeyName is empty for an identity that was not loaded; ktype is Absent   *)
(* as long as no key type was assigned.                                     *)
Identity == [name: Names \cup {<<>>}, regKeyName: Names \cup {<<>>},
             host: Texts, port: Ports \cup {NoPort}, user: Texts, proto: Protocols,
             ktype: KeyTypes \cup {Absent}]

TypeOK ==
  /\ mode \in {"off", "running", "overflow"}
  /\ mem \in Seq(Identity) /\ Len(mem) <= MaxIdents
  /\ DOMAIN reg \subseteq Names /\ \A n \in DOMAIN reg : reg[n] \in Session
  /\ saved \in [Names -> Session \cup {Unsaved}]
  /\ refused \in [Names -> SUBSET Values]

-----------------------------------------------------------------------------
Running == mode = "running"

TopLevel(n) == Len(n) = 1
Subkeys(n) == {k \in DOMAIN reg : IsStrictPrefix(n, k)}

(* The registry after the values new of s have been written below n;          *)
(* RegCreateKeyEx makes the keys on the way.                                *)
Written(n, s, new) ==
  LET keys == DOMAIN reg \cup (Prefixes(n) \ {<<>>})
      old(m) == IF m \in DOMAIN reg THEN reg[m] ELSE EmptyKey
  IN  [m \in keys |-> IF m = n THEN [f \in DOMAIN EmptyKey |-> IF f \in new THEN s[f] ELSE old(m)[f]]
                      ELSE old(m)]

Without(n) == [m \in DOMAIN reg \ {n} |-> reg[m]]

ValuesOf(ident) ==
  [host |-> ident.host, port |-> ident.port, user |-> ident.user, proto |-> ident.proto,
   ktype |-> ident.ktype]

-----------------------------------------------------------------------------
(* ReadIdentities: every key right below Sessions whose protocol is ssh, in   *)
(* whatever order RegEnumKeyEx has.                                         *)

(* Seeded fault: the key type is not read.                                  *)
KeyTypeForgotten(n) == Absent
KeyTypeRead(n) == reg[n].ktype

(* Seeded fault: the name has the path before it.                           *)
NameWithPath(n) == <<"Sessions">> \o n
SessionName(n) == n

(* A text that is not there is read as an empty one.                        *)
TextRead(text) == IF text = Absent THEN "" ELSE text

(* getValueDwordFor has no variable for the size, which RegGetValue refuses as  *)
(* it is documented: then no port is ever read.                             *)
PortRead(n, unread) == IF unread \/ reg[n].port = Absent THEN NoPort ELSE reg[n].port

LoadedIdentity(n, unread) ==
  [name |-> SessionName(n), regKeyName |-> n,
   host |-> TextRead(reg[n].host), port |-> PortRead(n, unread), user |-> TextRead(reg[n].user),
   proto |-> reg[n].proto, ktype |-> KeyTypeRead(n)]

Loadable(n) == TopLevel(n) /\ reg[n].proto = "ssh"

Orders(S) == {q \in [1..Cardinality(S) -> S] : IsInjective(q)}

Start ==
  /\ mode = "off" /\ Cardinality({n \in DOMAIN reg : Loadable(n)}) <= MaxIdents
  /\ mode' = "running"
  /\ \E q \in Orders({n \in DOMAIN reg : Loadable(n)}), unread \in BOOLEAN :
       mem' = [i \in DOMAIN q |-> LoadedIdentity(q[i], unread)]
  /\ UNCHANGED <<reg, record>>

(* The process ends, orderly or not.                                        *)
Stop ==
  /\ Running
  /\ mode' = "off" /\ mem' = <<>>
  /\ UNCHANGED <<reg, record>>

AddIdentity ==
  /\ Running /\ Len(mem) < MaxIdents
  /\ mem' = Append(mem, [name |-> NewName, regKeyName |-> <<>>, host |-> "", port |-> 22,
                         user |-> "", proto |-> "ssh", ktype |-> Absent])
  /\ UNCHANGED <<mode, reg, record>>

(* SaveIdentity: the fields of the dialog go to the identity, whatever comes  *)
(* of the registry; its regKeyName stays.                                   *)
(* Seeded fault: regKeyName follows the name.                               *)
Renamed(i, d)     == [mem[i] EXCEPT !.name = d.name, !.regKeyName = d.name, !.host = d.host,
                                    !.port = d.port, !.user = d.user, !.proto = d.proto, !.ktype = d.ktype]
Overwritten(i, d) == [mem[i] EXCEPT !.name = d.name, !.host = d.host,
                                    !.port = d.port, !.user = d.user, !.proto = d.proto, !.ktype = d.ktype]

(* createSession writes the values one after the other: the first k of them.  *)
(* Seeded fault: the protocol goes first.                                   *)
ProtocolFirst(k) == IF k = 0 THEN {} ELSE {"proto"} \cup {Writes[j] : j \in 1..(k - 1)}
Tried(k) == {Writes[j] : j \in 1..k}

(* The result of each RegSetValueEx is ignored: whichever is refused, the      *)
(* others are written.                                                      *)
CreateSession(n, d, tried) ==
  \E lost \in SUBSET (Refusable \cap tried) :
    /\ reg' = Written(n, ValuesOf(d), tried \ lost)
    /\ refused' = [refused EXCEPT ![n] = {f \in @ \cup lost : reg'[n][f] = Absent}]
    /\ saved' = [saved EXCEPT ![n] = IF tried \ lost = Values THEN ValuesOf(d) ELSE Unsaved]

(* With an empty name, or if RegCreateKeyEx is refused, the registry stays as   *)
(* it is.  SaveIdentity reports the first to its caller, which does not look;   *)
(* it does not look itself at what createSession returns.                   *)
Save(i, d) ==
  /\ Running /\ i \in DOMAIN mem
  /\ mem' = [mem EXCEPT ![i] = Overwritten(i, d)]
  /\ \/ UNCHANGED <<reg, record>>
     \/ d.name # <<>> /\ CreateSession(d.name, d, Tried(Len(Writes)))
  /\ UNCHANGED mode

(* The process is killed while createSession writes.                        *)
DieInSave(d, k) ==
  /\ Running /\ mem # <<>> /\ d.name # <<>>
  /\ mode' = "off" /\ mem' = <<>>
  /\ CreateSession(d.name, d, Tried(k))

(* Nothing is known of n any more: its key is gone, or PuTTY wrote it.        *)
Forget(n) ==
  /\ saved' = [saved EXCEPT ![n] = Unsaved]
  /\ refused' = [refused EXCEPT ![n] = {}]

(* RemoveIdentityByIndex, removeSession and RemoveKeyRecursive.              *)
(* Seeded fault: the session is looked up by the name.                      *)
KeyByName(i) == mem[i].name
SessionKey(i) == mem[i].regKeyName

(* No key in the registry, or none any more, counts as removed.             *)
RemoveUnsaved(i) ==
  /\ Running /\ i \in DOMAIN mem
  /\ SessionKey(i) \notin DOMAIN reg
  /\ mem' = RemoveAt(mem, i)
  /\ UNCHANGED <<mode, reg, record>>

RemoveSession(i) ==
  /\ Running /\ i \in DOMAIN mem
  /\ SessionKey(i) \in DOMAIN reg /\ Subkeys(SessionKey(i)) = {}
  /\ \/ UNCHANGED <<mem, reg, record>>      \* the registry refuses
     \/ /\ mem' = RemoveAt(mem, i)
        /\ reg' = Without(SessionKey(i))
        /\ Forget(SessionKey(i))
  /\ UNCHANGED mode

(* With a subkey, the path that the recursion builds ends, for the registry,   *)
(* at the NUL after "key\": it is this key again, and so on without an end.   *)
RecurseForEver(i) ==
  /\ Running /\ i \in DOMAIN mem
  /\ SessionKey(i) \in DOMAIN reg /\ Subkeys(SessionKey(i)) # {}
  /\ mode' = "overflow" /\ mem' = <<>>
  /\ UNCHANGED <<reg, record>>

-----------------------------------------------------------------------------
(* PuTTY.  Its names have no backslash; it writes its own values, and KeyType *)
(* is not one of them.  Deleting a key with subkeys fails.                  *)

PuttySave(n, s) ==
  /\ TopLevel(n)
  /\ reg' = Written(n, s, Values \ {"ktype"})
  /\ Forget(n)
  /\ UNCHANGED <<mode, mem>>

PuttyDelete(n) ==
  /\ n \in DOMAIN reg /\ TopLevel(n) /\ Subkeys(n) = {}
  /\ reg' = Without(n)
  /\ Forget(n)
  /\ UNCHANGED <<mode, mem>>

-----------------------------------------------------------------------------
(* The fields of the dialog: a key type is always selected.                 *)
Inputs == [name: Names \cup {<<>>}, host: Texts, port: Ports, user: Texts, proto: Protocols,
           ktype: KeyTypes]

PuttySessions == [host: Texts, port: Ports, user: Texts, proto: Protocols, ktype: {Absent}]

Init ==
  /\ mode = "off" /\ mem = <<>>
  /\ reg = [n \in {} |-> EmptyKey]
  /\ saved = [n \in Names |-> Unsaved] /\ refused = [n \in Names |-> {}]

Command ==
  \/ AddIdentity \/ Stop
  \/ \E i \in 1..MaxIdents :
       \/ RemoveUnsaved(i) \/ RemoveSession(i) \/ RecurseForEver(i)
       \/ \E d \in Inputs : Save(i, d)
  \/ \E d \in Inputs, k \in 0..(Len(Writes) - 1) : DieInSave(d, k)

Putty ==
  \/ \E n \in Names, s \in PuttySessions : PuttySave(n, s)
  \/ \E n \in Names : PuttyDelete(n)

Next == Start \/ Command \/ Putty

Spec == Init /\ [][Next]_vars

-----------------------------------------------------------------------------
(* No two identities were loaded from the same key, whatever was added,        *)
(* renamed, saved and removed since (AddIdentity, SaveIdentity leave            *)
(* regKeyName alone).  It does not keep an identity from being saved under the   *)
(* name another was loaded from: the two then share this session.           *)
OneIdentityPerKey ==
  \A i, j \in DOMAIN mem :
    mem[i].regKeyName = mem[j].regKeyName => i = j \/ mem[i].regKeyName = <<>>

(* A session that would be loaded has its address, even if the program died   *)
(* while it wrote it: Protocol is written after HostName, PortNumber and      *)
(* UserName.  What is missing was refused by the registry.                  *)
Missing(s) == {f \in {"host", "port", "user"} : s[f] = Absent}
LoadableHasAddress == \A n \in DOMAIN reg : reg[n].proto = "ssh" => Missing(reg[n]) \subseteq refused[n]

(* A session only goes away with the identity that was loaded from it, when     *)
(* the user removes this, or by PuTTY.                                      *)
VanishesOnlyByRemove ==
  [][\A n \in DOMAIN reg \ DOMAIN reg' :
       \/ \E i \in DOMAIN mem : mem[i].regKeyName = n /\ mem' = RemoveAt(mem, i)
       \/ PuttyDelete(n)]_vars

(* What was saved whole for ssh, under a name that is a key of its own, is      *)
(* there again after a restart, unless someone else wrote or removed it; at     *)
(* most its port is lost.                                                   *)
SavedComesBack ==
  [][mode = "off" /\ mode' = "running" =>
       \A n \in Names : TopLevel(n) /\ saved[n] # Unsaved /\ saved[n].proto = "ssh" =>
         \E i \in DOMAIN mem' :
           /\ mem'[i].name = n
           /\ ValuesOf(mem'[i]) \in {saved[n], [saved[n] EXCEPT !.port = NoPort]}]_vars

-----------------------------------------------------------------------------
(* What the source says of itself and its steps do not keep.                *)

(* window.cpp:279 "Removing this Identity will also remove it from other      *)
(* applications" -- an identity that was saved, and is unchanged since, is    *)
(* removed with its session.                                                *)
RemovedEverywhere ==
  [][\A i \in DOMAIN mem :
       /\ Running' /\ mem' = RemoveAt(mem, i)
       /\ mem[i].name # <<>> /\ saved[mem[i].name] = ValuesOf(mem[i])
       => mem[i].name \notin DOMAIN reg']_vars

(* README.md:9 "Identities produce the same public key as they would with the   *)
(* ledger-agent.py" -- the key comes from the text of the identity, so that     *)
(* the two must make the same one of it.                                    *)
SameStringAsAgent == \A i \in DOMAIN mem : IdentityString(mem[i], Behind) = AgentString(mem[i])
=============================================================================
