------------------------- MODULE IdentityStoreProofs -------------------------
(***************************************************************************)
(* What holds of IdentityStore for every set of names and texts and every    *)
(* number of identities, and whichever values the registry may refuse.  No    *)
(* key is claimed twice because a key is of one session, and a session has its  *)
(* address or what is missing was refused.                                  *)
(***************************************************************************)
EXTENDS IdentityStore, SequenceTheorems, FiniteSetTheorems, TLAPS

(* The conjuncts of the invariant, each for the part of the state it reads.  *)
RegistryOK(r, lost) ==
  /\ DOMAIN r \subseteq Names /\ IsFiniteSet(DOMAIN r)
  /\ lost \in [Names -> SUBSET Values]
  /\ \A n \in DOMAIN r :
       r[n] \in Session /\ (r[n].proto = "ssh" => Missing(r[n]) \subseteq lost[n])

IdentitiesOK(s) ==
  /\ s \in Seq(Identity) /\ Len(s) <= MaxIdents
  /\ \A i, j \in 1..Len(s) : s[i].regKeyName = s[j].regKeyName => i = j \/ s[i].regKeyName = <<>>

IInv ==
  /\ mode \in {"off", "running", "overflow"}
  /\ IdentitiesOK(mem)
  /\ RegistryOK(reg, refused)
  /\ saved \in [Names -> Session \cup {Unsaved}]

(* The invariant gives the properties that the runs check.                  *)
LEMMA InvImplies == IInv => TypeOK /\ OneIdentityPerKey /\ LoadableHasAddress
<1> SUFFICES ASSUME IInv PROVE TypeOK /\ OneIdentityPerKey /\ LoadableHasAddress
  OBVIOUS
<1>1. DOMAIN mem = 1..Len(mem)
  BY LenProperties DEF IInv, IdentitiesOK
<1> QED BY <1>1 DEF IInv, IdentitiesOK, RegistryOK, TypeOK, OneIdentityPerKey, LoadableHasAddress

-----------------------------------------------------------------------------
(* The list of identities.                                                  *)

(* What the assumption says of the bound.                                    *)
LEMMA Bound == MaxIdents \in Nat
BY StoreAssumption

(* What stands for a value that is not there is no value.                    *)
LEMMA AbsentIsNone == Absent \notin Texts /\ Absent \notin Ports
BY StoreAssumption

(* A process that is not running has no identities.                         *)
LEMMA EmptyList == IdentitiesOK(<<>>)
<1>1. <<>> \in Seq(Identity) /\ Len(<<>>) = 0
  BY EmptySeq
<1> QED BY <1>1, Bound DEF IdentitiesOK

(* What the dialog saves is a session with all its values.                   *)
LEMMA ValuesOfDialog ==
  ASSUME NEW d \in Inputs
  PROVE  /\ ValuesOf(d) \in Session
         /\ Missing(ValuesOf(d)) = {}
<1>1. ValuesOf(d) \in Session
  BY DEF Inputs, ValuesOf, Session
<1>2. d.host \in Texts /\ d.user \in Texts /\ d.port \in Ports
  BY DEF Inputs
<1>3. ValuesOf(d).host # Absent /\ ValuesOf(d).user # Absent /\ ValuesOf(d).port # Absent
  BY <1>2, AbsentIsNone DEF ValuesOf
<1> QED BY <1>1, <1>3 DEF Missing

(* mIdentities.erase: the identities that stay are two different ones of those *)
(* that were there.                                                         *)
LEMMA Erased ==
  ASSUME NEW s, IdentitiesOK(s), NEW i \in DOMAIN s
  PROVE  IdentitiesOK(RemoveAt(s, i))
<1>1. s \in Seq(Identity) /\ Len(s) \in Nat /\ DOMAIN s = 1..Len(s)
  BY LenProperties DEF IdentitiesOK
<1>2. \A j \in 1..Len(s) : s[j] \in Identity
  BY <1>1, ElementOfSeq
<1> DEFINE n == Len(s)
           u == SubSeq(s, 1, i - 1)
           v == SubSeq(s, i + 1, n)
<1>3. /\ u \in Seq(Identity)
      /\ Len(u) = IF 1 <= i - 1 THEN (i - 1) - 1 + 1 ELSE 0
      /\ \A j \in 1..((i - 1) - 1 + 1) : u[j] = s[1 + j - 1]
  BY <1>1, <1>2, SubSeqProperties
<1>4. /\ v \in Seq(Identity)
      /\ Len(v) = IF i + 1 <= n THEN n - (i + 1) + 1 ELSE 0
      /\ \A j \in 1..(n - (i + 1) + 1) : v[j] = s[(i + 1) + j - 1]
  BY <1>1, <1>2, SubSeqProperties
<1>5. RemoveAt(s, i) = u \o v
  BY DEF RemoveAt
<1> HIDE DEF u, v
<1>6. /\ u \o v \in Seq(Identity)
      /\ Len(u \o v) = Len(u) + Len(v)
      /\ \A j \in 1..(Len(u) + Len(v)) : (u \o v)[j] = IF j <= Len(u) THEN u[j] ELSE v[j - Len(u)]
  BY <1>3, <1>4, ConcatProperties
<1>7. Len(u) = i - 1 /\ Len(v) = n - i
  BY <1>1, <1>3, <1>4
<1> DEFINE old(j) == IF j < i THEN j ELSE j + 1
<1>8. ASSUME NEW j \in 1..(n - 1) PROVE old(j) \in 1..n /\ (u \o v)[j] = s[old(j)]
  <2>1. (u \o v)[j] = IF j <= i - 1 THEN u[j] ELSE v[j - (i - 1)]
    BY <1>1, <1>6, <1>7
  <2>2. CASE j < i
    BY <2>1, <2>2, <1>1, <1>3
  <2>3. CASE ~(j < i)
    <3> DEFINE m == j - (i - 1)
    <3>1. m \in 1..(n - (i + 1) + 1) /\ (i + 1) + m - 1 = j + 1
      BY <2>3, <1>1
    <3> HIDE DEF m
    <3>2. v[m] = s[j + 1]
      BY <3>1, <1>4
    <3> QED BY <2>1, <2>3, <3>2, <1>1 DEF m
  <2> QED BY <2>2, <2>3
<1>9. \A j, k \in 1..(n - 1) : old(j) = old(k) => j = k
  BY <1>1
<1>10. Len(u \o v) = n - 1 /\ n - 1 <= MaxIdents
  BY <1>1, <1>6, <1>7, Bound DEF IdentitiesOK
<1> HIDE DEF old
<1>11. \A j, k \in 1..(n - 1) :
         s[old(j)].regKeyName = s[old(k)].regKeyName => j = k \/ s[old(j)].regKeyName = <<>>
  BY <1>8, <1>9 DEF IdentitiesOK
<1> DEFINE t == u \o v
<1>12. /\ t \in Seq(Identity) /\ Len(t) = n - 1
       /\ \A j \in 1..(n - 1) : t[j] = s[old(j)]
  BY <1>6, <1>8, <1>10
<1> HIDE DEF t
<1>13. IdentitiesOK(t)
  BY <1>10, <1>11, <1>12 DEF IdentitiesOK
<1> QED BY <1>5, <1>13 DEF t

(* The dialog overwrites an identity, not where it was loaded from.          *)
LEMMA Edited ==
  ASSUME NEW s, IdentitiesOK(s), NEW i \in DOMAIN s,
         NEW e \in Identity, e.regKeyName = s[i].regKeyName
  PROVE  IdentitiesOK([s EXCEPT ![i] = e])
<1> DEFINE t == [s EXCEPT ![i] = e]
<1>1. s \in Seq(Identity) /\ Len(s) \in Nat /\ DOMAIN s = 1..Len(s)
  BY LenProperties DEF IdentitiesOK
<1>2. /\ t \in Seq(Identity) /\ Len(t) = Len(s)
      /\ \A j \in 1..Len(s) : t[j] = IF j = i THEN e ELSE s[j]
  BY <1>1, ExceptSeq
<1> HIDE DEF t
<1>3. \A j \in 1..Len(s) : t[j].regKeyName = s[j].regKeyName
  BY <1>2
<1>4. IdentitiesOK(t)
  BY <1>2, <1>3 DEF IdentitiesOK
<1> QED BY <1>4 DEF t

(* An identity that was not loaded claims no key.                           *)
LEMMA Added ==
  ASSUME NEW s, IdentitiesOK(s), Len(s) < MaxIdents,
         NEW e \in Identity, e.regKeyName = <<>>
  PROVE  IdentitiesOK(Append(s, e))
<1> DEFINE t == Append(s, e)
<1>1. s \in Seq(Identity) /\ Len(s) \in Nat
  BY LenProperties DEF IdentitiesOK
<1>2. /\ t \in Seq(Identity) /\ Len(t) = Len(s) + 1
      /\ \A j \in 1..Len(s) : t[j] = s[j]
      /\ t[Len(s) + 1] = e
  BY <1>1, AppendProperties
<1> HIDE DEF t
<1>3. ASSUME NEW j \in 1..Len(t), NEW k \in 1..Len(t), t[j].regKeyName = t[k].regKeyName
      PROVE  j = k \/ t[j].regKeyName = <<>>
  <2>1. CASE j = Len(s) + 1 \/ k = Len(s) + 1
    BY <2>1, <1>2, <1>3
  <2>2. CASE j \in 1..Len(s) /\ k \in 1..Len(s)
    BY <2>2, <1>2, <1>3 DEF IdentitiesOK
  <2> QED BY <2>1, <2>2, <1>1, <1>2
<1>4. Len(t) <= MaxIdents
  BY <1>1, <1>2, Bound
<1>5. IdentitiesOK(t)
  BY <1>2, <1>3, <1>4 DEF IdentitiesOK
<1> QED BY <1>5 DEF t

(* ReadIdentities: each session is read once, with or without its address.     *)
LEMMA Loaded ==
  ASSUME RegistryOK(reg, refused), NEW S, S = {n \in DOMAIN reg : Loadable(n)},
         Cardinality(S) <= MaxIdents, NEW q \in Orders(S), NEW unread \in BOOLEAN
  PROVE  IdentitiesOK([i \in DOMAIN q |-> LoadedIdentity(q[i], unread)])
<1> DEFINE t == [i \in DOMAIN q |-> LoadedIdentity(q[i], unread)]
<1>1. IsFiniteSet(S)
  BY FS_Subset DEF RegistryOK
<1>2. Cardinality(S) \in Nat
  BY <1>1, FS_CardinalityType
<1>3. q \in [1..Cardinality(S) -> S] /\ \A i, j \in DOMAIN q : q[i] = q[j] => i = j
  BY DEF Orders, IsInjective
<1>4. ASSUME NEW n \in S
      PROVE  /\ LoadedIdentity(n, unread) \in Identity
             /\ LoadedIdentity(n, unread).regKeyName = n
  <2>1. n \in Names /\ reg[n] \in Session /\ reg[n].proto = "ssh"
    BY DEF RegistryOK, Loadable
  <2>2. TextRead(reg[n].host) \in Texts /\ TextRead(reg[n].user) \in Texts /\ reg[n].proto \in Protocols
        /\ reg[n].ktype \in KeyTypes \cup {Absent}
    BY <2>1, StoreAssumption DEF Session, TextRead
  <2>3. PortRead(n, unread) \in Ports \cup {NoPort}
    BY <2>1 DEF Session, PortRead
  <2> QED BY <2>1, <2>2, <2>3 DEF LoadedIdentity, SessionName, KeyTypeRead, Identity
<1>5. t \in [1..Cardinality(S) -> Identity]
  BY <1>3, <1>4
<1>6. t \in Seq(Identity) /\ Len(t) = Cardinality(S)
  <2> HIDE DEF t
  <2>1. t \in Seq(Identity)
    BY <1>2, <1>5, SeqDef
  <2> QED BY <1>2, <1>5, <2>1, LenProperties
<1>7. \A i \in 1..Len(t) : t[i].regKeyName = q[i]
  BY <1>3, <1>4, <1>6
<1> HIDE DEF t
<1>8. IdentitiesOK(t)
  BY <1>3, <1>6, <1>7 DEF IdentitiesOK
<1> QED BY <1>8 DEF t

-----------------------------------------------------------------------------
(* The registry.                                                            *)

(* RegCreateKeyEx makes finitely many keys, and all of them are names.      *)
LEMMA KeysOnTheWay ==
  ASSUME NEW n \in Names
  PROVE  Prefixes(n) \ {<<>>} \subseteq Names /\ IsFiniteSet(Prefixes(n) \ {<<>>})
<1> DEFINE f == [l \in 0..Len(n) |-> SubSeq(n, 1, l)]
<1>1. Len(n) \in Nat
  BY StoreAssumption, LenProperties
<1>2. IsFiniteSet(0..Len(n))
  BY <1>1, FS_Interval
<1>3. f \in Surjection(0..Len(n), Prefixes(n))
  BY DEF Surjection, Prefixes
<1>4. IsFiniteSet(Prefixes(n))
  BY <1>2, <1>3, FS_Surjection
<1>5. IsFiniteSet(Prefixes(n) \ {<<>>})
  BY <1>4, FS_Subset
<1> QED BY <1>5, StoreAssumption

(* The five values, in any order.                                           *)
LEMMA FiveValues ==
  /\ Values = {"host", "port", "user", "proto", "ktype"}
  /\ Tried(Len(Writes)) = Values
  /\ DOMAIN EmptyKey = Values
BY DEF Values, Range, Writes, Tried, EmptyKey

(* createSession writes Protocol after the address, however far it comes.     *)
LEMMA AddressFirst ==
  ASSUME NEW k \in 0..5, "proto" \in Tried(k) PROVE {"host", "port", "user"} \subseteq Tried(k)
<1>1. k >= 4
  BY DEF Tried, Writes
<1> QED BY <1>1 DEF Tried, Writes

(* The session after some of its values were written, and the rest of it.     *)
LEMMA WrittenHere ==
  ASSUME NEW r, NEW lost, RegistryOK(r, lost), r = reg, NEW n \in Names, NEW s \in Session, NEW new
  PROVE  /\ DOMAIN Written(n, s, new) \subseteq Names /\ IsFiniteSet(DOMAIN Written(n, s, new))
         /\ \A m \in DOMAIN Written(n, s, new) :
              /\ Written(n, s, new)[m] \in Session
              /\ m # n => \/ m \in DOMAIN reg /\ Written(n, s, new)[m] = reg[m]
                         \/ Written(n, s, new)[m] = EmptyKey
              /\ m = n => \A f \in Values :
                   Written(n, s, new)[m][f] =
                     IF f \in new THEN s[f] ELSE IF n \in DOMAIN reg THEN reg[n][f] ELSE Absent
<1> DEFINE keys == DOMAIN reg \cup (Prefixes(n) \ {<<>>})
           old(m) == IF m \in DOMAIN reg THEN reg[m] ELSE EmptyKey
           here == [f \in DOMAIN EmptyKey |-> IF f \in new THEN s[f] ELSE old(n)[f]]
           w == [m \in keys |-> IF m = n THEN here ELSE old(m)]
<1>1. Written(n, s, new) = w
  BY DEF Written
<1>2. keys \subseteq Names /\ IsFiniteSet(keys)
  BY KeysOnTheWay, FS_Union DEF RegistryOK
<1>3. \A m : old(m) \in Session
  BY StoreAssumption DEF RegistryOK, EmptyKey, Session
<1>4. \A f \in Values : old(n)[f] = IF n \in DOMAIN reg THEN reg[n][f] ELSE Absent
  BY FiveValues DEF EmptyKey
<1>5. \A m : (m \in DOMAIN reg /\ old(m) = reg[m]) \/ old(m) = EmptyKey
  OBVIOUS
<1> HIDE DEF old
<1>6. /\ DOMAIN here = {"host", "port", "user", "proto", "ktype"}
      /\ \A f \in {"host", "port", "user", "proto", "ktype"} : here[f] = IF f \in new THEN s[f] ELSE old(n)[f]
  BY DEF EmptyKey
<1>7. here \in Session
  <2>1. here = [host |-> here.host, port |-> here.port, user |-> here.user, proto |-> here.proto, ktype |-> here.ktype]
    BY DEF EmptyKey
  <2>2. /\ here.host \in Texts \cup {Absent} /\ here.port \in Ports \cup {Absent} /\ here.user \in Texts \cup {Absent}
        /\ here.proto \in Protocols \cup {Absent} /\ here.ktype \in KeyTypes \cup {Absent}
    BY <1>3, <1>6 DEF Session
  <2> HIDE DEF here
  <2> QED BY <2>1, <2>2 DEF Session
<1>8. \A f \in Values : here[f] = IF f \in new THEN s[f] ELSE IF n \in DOMAIN reg THEN reg[n][f] ELSE Absent
  BY <1>4, <1>6, FiveValues
<1> HIDE DEF here, keys
<1>9. DOMAIN w = keys /\ \A m \in keys : w[m] = IF m = n THEN here ELSE old(m)
  OBVIOUS
<1> HIDE DEF w
<1> QED BY <1>1, <1>2, <1>3, <1>5, <1>7, <1>8, <1>9

(* Keys that are only on the way are not loadable.                           *)
LEMMA EmptyNotLoaded == EmptyKey.proto # "ssh"
BY StoreAssumption DEF EmptyKey

(* createSession, as far as it comes and whatever is refused: a session that     *)
(* has a protocol has its address, or what it lacks was refused.             *)
LEMMA CreatedOK ==
  ASSUME RegistryOK(reg, refused), saved \in [Names -> Session \cup {Unsaved}],
         NEW d \in Inputs, d.name # <<>>, NEW k \in 0..5, CreateSession(d.name, d, Tried(k))
  PROVE  RegistryOK(reg', refused') /\ saved' \in [Names -> Session \cup {Unsaved}]
<1> DEFINE n == d.name
           s == ValuesOf(d)
<1>1. n \in Names
  BY DEF Inputs
<1>2. s \in Session /\ Missing(s) = {}
  BY ValuesOfDialog
<1>3. PICK lost \in SUBSET (Refusable \cap Tried(k)) :
        /\ reg' = Written(n, s, Tried(k) \ lost)
        /\ refused' = [refused EXCEPT ![n] = {f \in @ \cup lost : reg'[n][f] = Absent}]
        /\ saved' = [saved EXCEPT ![n] = IF Tried(k) \ lost = Values THEN s ELSE Unsaved]
  BY DEF CreateSession
<1> HIDE DEF n, s
<1> DEFINE new == Tried(k) \ lost
<1> HIDE DEF new
<1>4. /\ DOMAIN reg' \subseteq Names /\ IsFiniteSet(DOMAIN reg')
      /\ \A m \in DOMAIN reg' :
           /\ reg'[m] \in Session
           /\ m # n => (m \in DOMAIN reg /\ reg'[m] = reg[m]) \/ reg'[m] = EmptyKey
           /\ m = n => \A f \in Values :
                reg'[m][f] = IF f \in new THEN s[f] ELSE IF n \in DOMAIN reg THEN reg[n][f] ELSE Absent
  <2>1. reg' = Written(n, s, new)
    BY <1>3 DEF new
  <2> QED BY <2>1, <1>1, <1>2, WrittenHere
<1>5. /\ refused' \in [Names -> SUBSET Values]
      /\ refused'[n] = {f \in refused[n] \cup lost : reg'[n][f] = Absent}
      /\ \A m \in Names : m # n => refused'[m] = refused[m]
  <2>1. lost \subseteq Values
    BY FiveValues, StoreAssumption
  <2>2. refused \in [Names -> SUBSET Values]
    BY DEF RegistryOK
  <2> HIDE DEF new
  <2> QED BY <1>1, <1>3, <2>1, <2>2
<1>6. ASSUME NEW m \in DOMAIN reg', reg'[m].proto = "ssh" PROVE Missing(reg'[m]) \subseteq refused'[m]
  <2>1. CASE m # n
    BY <1>4, <1>5, <1>6, <2>1, EmptyNotLoaded DEF RegistryOK
  <2>2. CASE m = n
    <3> SUFFICES ASSUME NEW f \in {"host", "port", "user"}, reg'[n][f] = Absent
                 PROVE  f \in refused[n] \cup lost
      BY <1>5, <2>2 DEF Missing
    <3>1. f \in Values /\ "proto" \in Values
      BY FiveValues
    <3>2. s[f] # Absent
      BY <1>2 DEF Missing
    <3>3. f \notin new /\ (n \in DOMAIN reg => reg[n][f] = Absent)
      BY <1>4, <2>2, <3>1, <3>2
    <3>4. CASE "proto" \in new
      BY <3>3, <3>4, AddressFirst DEF new
    <3>5. CASE "proto" \notin new
      <4>1. n \in DOMAIN reg /\ reg[n]["proto"] = "ssh"
        BY <1>4, <1>6, <2>2, <3>1, <3>5, StoreAssumption
      <4> QED BY <3>3, <4>1 DEF RegistryOK, Missing
    <3> QED BY <3>4, <3>5
  <2> QED BY <2>1, <2>2
<1>7. RegistryOK(reg', refused')
  BY <1>4, <1>5, <1>6 DEF RegistryOK
<1>8. saved' \in [Names -> Session \cup {Unsaved}]
  BY <1>1, <1>2, <1>3
<1> QED BY <1>7, <1>8

(* PuTTY writes all of an address.                                          *)
LEMMA PuttySaveOK ==
  ASSUME RegistryOK(reg, refused), saved \in [Names -> Session \cup {Unsaved}],
         NEW n \in Names, NEW s \in PuttySessions, PuttySave(n, s)
  PROVE  RegistryOK(reg', refused') /\ saved' \in [Names -> Session \cup {Unsaved}]
<1>1. s \in Session /\ Missing(s) = {}
  BY StoreAssumption DEF PuttySessions, Session, Missing
<1> DEFINE new == Values \ {"ktype"}
<1>2. reg' = Written(n, s, new)
  BY DEF PuttySave
<1>3. {"host", "port", "user"} \subseteq new /\ new \subseteq Values
  BY FiveValues
<1> HIDE DEF new
<1>4. /\ DOMAIN reg' \subseteq Names /\ IsFiniteSet(DOMAIN reg')
      /\ \A m \in DOMAIN reg' :
           /\ reg'[m] \in Session
           /\ m # n => (m \in DOMAIN reg /\ reg'[m] = reg[m]) \/ reg'[m] = EmptyKey
           /\ m = n => \A f \in Values :
                reg'[m][f] = IF f \in new THEN s[f] ELSE IF n \in DOMAIN reg THEN reg[n][f] ELSE Absent
  BY <1>1, <1>2, WrittenHere
<1>5. /\ saved' \in [Names -> Session \cup {Unsaved}] /\ refused' \in [Names -> SUBSET Values]
      /\ \A m \in Names : m # n => refused'[m] = refused[m]
  BY DEF PuttySave, Forget, RegistryOK
<1>6. ASSUME NEW m \in DOMAIN reg', reg'[m].proto = "ssh" PROVE Missing(reg'[m]) \subseteq refused'[m]
  <2>1. CASE m # n
    BY <1>4, <1>5, <1>6, <2>1, EmptyNotLoaded DEF RegistryOK
  <2>2. CASE m = n
    BY <1>1, <1>3, <1>4, <2>2 DEF Missing
  <2> QED BY <2>1, <2>2
<1> QED BY <1>4, <1>5, <1>6 DEF RegistryOK

(* RegDeleteKey.                                                            *)
LEMMA WithoutOK ==
  ASSUME RegistryOK(reg, refused), saved \in [Names -> Session \cup {Unsaved}],
         NEW n, reg' = Without(n), Forget(n)
  PROVE  RegistryOK(reg', refused') /\ saved' \in [Names -> Session \cup {Unsaved}]
<1>1. IsFiniteSet(DOMAIN reg \ {n})
  BY FS_Subset DEF RegistryOK
<1>2. /\ saved' \in [Names -> Session \cup {Unsaved}] /\ refused' \in [Names -> SUBSET Values]
      /\ \A m \in Names : m # n => refused'[m] = refused[m]
  BY DEF Forget, RegistryOK
<1> QED BY <1>1, <1>2 DEF RegistryOK, Without

-----------------------------------------------------------------------------
(* An empty registry and no process.                                        *)
LEMMA InitInv == Init => IInv
<1> SUFFICES ASSUME Init PROVE IInv
  OBVIOUS
<1>1. IdentitiesOK(mem)
  BY EmptyList DEF Init
<1>2. RegistryOK(reg, refused)
  BY FS_EmptySet DEF Init, RegistryOK
<1> QED BY <1>1, <1>2 DEF Init, IInv

(* SaveIdentity, with the session written or refused.                       *)
LEMMA SaveInv ==
  ASSUME IInv, NEW i \in 1..MaxIdents, NEW d \in Inputs, Save(i, d) PROVE IInv'
<1>1. mem[i] \in Identity
  BY ElementOfSeq, LenProperties DEF Save, IInv, IdentitiesOK
<1>2. Overwritten(i, d) \in Identity /\ Overwritten(i, d).regKeyName = mem[i].regKeyName
  BY <1>1 DEF Overwritten, Identity, Inputs
<1>3. IdentitiesOK(mem')
  BY <1>2, Edited DEF Save, IInv
<1>4. CASE UNCHANGED <<reg, record>>
  BY <1>3, <1>4 DEF IInv, Save, record
<1>5. CASE d.name # <<>> /\ CreateSession(d.name, d, Tried(Len(Writes)))
  <2>1. Len(Writes) \in 0..5
    BY DEF Writes
  <2>2. RegistryOK(reg', refused') /\ saved' \in [Names -> Session \cup {Unsaved}]
    BY <1>5, <2>1, CreatedOK DEF IInv
  <2> QED BY <1>3, <2>2 DEF IInv, Save
<1> QED BY <1>4, <1>5 DEF Save

(* The process is killed after some of the values.                          *)
LEMMA DieInSaveInv ==
  ASSUME IInv, NEW d \in Inputs, NEW k \in 0..(Len(Writes) - 1), DieInSave(d, k)
  PROVE  IInv'
<1>1. k \in 0..5
  BY DEF Writes
<1>2. RegistryOK(reg', refused') /\ saved' \in [Names -> Session \cup {Unsaved}]
  BY <1>1, CreatedOK DEF IInv, DieInSave
<1> QED BY <1>2, EmptyList DEF IInv, DieInSave

(* What the user does.                                                      *)
LEMMA CommandInv == ASSUME IInv, Command PROVE IInv'
<1>1. CASE AddIdentity
  <2> DEFINE e == [name |-> NewName, regKeyName |-> <<>>, host |-> "", port |-> 22,
                   user |-> "", proto |-> "ssh", ktype |-> Absent]
  <2>1. e \in Identity /\ e.regKeyName = <<>>
    BY StoreAssumption DEF Identity
  <2>2. IdentitiesOK(mem')
    BY <1>1, <2>1, Added DEF AddIdentity, IInv
  <2> QED BY <1>1, <2>2 DEF IInv, AddIdentity, record
<1>2. CASE Stop
  BY <1>2, EmptyList DEF IInv, Stop, record
<1>3. ASSUME NEW i \in 1..MaxIdents, RemoveUnsaved(i) PROVE IInv'
  BY <1>3, Erased DEF IInv, RemoveUnsaved, record
<1>4. ASSUME NEW i \in 1..MaxIdents, RemoveSession(i) PROVE IInv'
  <2>1. CASE UNCHANGED <<mem, reg, record>>
    BY <1>4, <2>1 DEF IInv, RemoveSession, record
  <2>2. CASE /\ mem' = RemoveAt(mem, i)
             /\ reg' = Without(SessionKey(i))
             /\ Forget(SessionKey(i))
    BY <1>4, <2>2, Erased, WithoutOK DEF IInv, RemoveSession
  <2> QED BY <1>4, <2>1, <2>2 DEF RemoveSession
<1>5. ASSUME NEW i \in 1..MaxIdents, RecurseForEver(i) PROVE IInv'
  BY <1>5, EmptyList DEF IInv, RecurseForEver, record
<1> QED BY <1>1, <1>2, <1>3, <1>4, <1>5, SaveInv, DieInSaveInv DEF Command

(* What PuTTY does.                                                         *)
LEMMA PuttyInv == ASSUME IInv, Putty PROVE IInv'
<1>1. ASSUME NEW n \in Names, NEW s \in PuttySessions, PuttySave(n, s) PROVE IInv'
  BY <1>1, PuttySaveOK DEF IInv, PuttySave
<1>2. ASSUME NEW n \in Names, PuttyDelete(n) PROVE IInv'
  BY <1>2, WithoutOK DEF IInv, PuttyDelete
<1> QED BY <1>1, <1>2 DEF Putty

(* Every step of the program and of PuTTY.                                  *)
LEMMA StepInv == IInv /\ [Next]_vars => IInv'
<1> SUFFICES ASSUME IInv, [Next]_vars PROVE IInv'
  OBVIOUS
<1>1. CASE Start
  <2>1. IdentitiesOK(mem')
    BY <1>1, Loaded DEF Start, IInv
  <2> QED BY <1>1, <2>1 DEF IInv, Start, record
<1>2. CASE UNCHANGED vars
  BY <1>2 DEF IInv, vars, record
<1> QED BY <1>1, <1>2, CommandInv, PuttyInv DEF Next

(* Every state of the program and the registry satisfies the invariant.     *)
THEOREM Invariance == Spec => []IInv
BY InitInv, StepInv, PTL DEF Spec

-----------------------------------------------------------------------------
(* What follows for the program.                                            *)

(* The state is well typed: the list stays within its bound, and an identity    *)
(* read from a session has a text for its host and user, be the value there or  *)
(* not (ReadIdentities, SaveIdentity).                                      *)
THEOREM StoreTypes == Spec => []TypeOK
<1>1. IInv => TypeOK
  BY InvImplies
<1> QED BY <1>1, Invariance, PTL

(* No two identities were loaded from the same key, however many were added,    *)
(* renamed and removed since: regKeyName is only assigned by ReadIdentities.  *)
THEOREM KeysDistinct == Spec => []OneIdentityPerKey
<1>1. IInv => OneIdentityPerKey
  BY InvImplies
<1> QED BY <1>1, Invariance, PTL

(* A session that would be loaded has its address, wherever createSession was *)
(* cut off and whatever PuTTY wrote or deleted in between; only a value that the *)
(* registry refused may be missing, since createSession goes on without it.   *)
THEOREM AddressBeforeProtocol == Spec => []LoadableHasAddress
<1>1. IInv => LoadableHasAddress
  BY InvImplies
<1> QED BY <1>1, Invariance, PTL

(* A session only goes away by PuTTY, or with the identity that was loaded from  *)
(* it: createSession only adds keys, and removeSession deletes no other.       *)
THEOREM OnlyRemoveDeletes == Spec => VanishesOnlyByRemove
<1> DEFINE A == \A n \in DOMAIN reg \ DOMAIN reg' :
                  \/ \E i \in DOMAIN mem : mem[i].regKeyName = n /\ mem' = RemoveAt(mem, i)
                  \/ PuttyDelete(n)
<1>1. ASSUME NEW n, NEW s, NEW new, reg' = Written(n, s, new) PROVE A
  BY <1>1 DEF Written
<1>2. ASSUME NEW i, RemoveSession(i) PROVE A
  <2>1. CASE reg' = Without(SessionKey(i)) /\ mem' = RemoveAt(mem, i)
    <3>1. DOMAIN reg' = DOMAIN reg \ {mem[i].regKeyName}
      BY <2>1 DEF Without, SessionKey
    <3> QED BY <3>1, <2>1, <1>2 DEF RemoveSession
  <2> QED BY <1>2, <2>1 DEF RemoveSession
<1>3. reg' = reg => A
  OBVIOUS
<1>4. ASSUME NEW i, NEW d, Save(i, d) \/ \E k \in 0..(Len(Writes) - 1) : DieInSave(d, k) PROVE A
  BY <1>1, <1>3, <1>4 DEF Save, DieInSave, CreateSession
<1>5. ASSUME NEW i, RemoveUnsaved(i) \/ RecurseForEver(i) PROVE A
  BY <1>3, <1>5 DEF RemoveUnsaved, RecurseForEver
<1>6. Command => A
  BY <1>2, <1>3, <1>4, <1>5 DEF Command, AddIdentity, Stop
<1>7. ASSUME NEW n, PuttyDelete(n) PROVE A
  <2>1. DOMAIN reg' = DOMAIN reg \ {n}
    BY <1>7 DEF PuttyDelete, Without
  <2> QED BY <1>7, <2>1
<1>8. Putty => A
  BY <1>1, <1>7 DEF Putty, PuttySave
<1>9. [Next]_vars => [A]_vars
  <2>1. Start => A
    BY <1>3 DEF Start
  <2> HIDE DEF A
  <2> QED BY <2>1, <1>6, <1>8 DEF Next
<1> QED BY <1>9, PTL DEF Spec, VanishesOnlyByRemove

-----------------------------------------------------------------------------
(* What the program saved whole under a name is what the registry has there,    *)
(* as long as no one else wrote or removed it.                               *)
SavedIsThere ==
  \A n \in Names : saved[n] # Unsaved => n \in DOMAIN reg /\ reg[n] = saved[n] /\ Missing(saved[n]) = {}

(* A session below n, and the other keys left alone.                         *)
LEMMA WrittenKeys ==
  ASSUME NEW n \in Names, NEW s, NEW new, n # <<>>
  PROVE  /\ DOMAIN reg \cup {n} \subseteq DOMAIN Written(n, s, new)
         /\ \A m \in DOMAIN reg : m # n => Written(n, s, new)[m] = reg[m]
<1>1. n \in Prefixes(n)
  <2>1. n \in Seq(STRING)
    BY StoreAssumption
  <2>2. Len(n) \in Nat /\ SubSeq(n, 1, Len(n)) = n
    BY <2>1, LenProperties, SubSeqFull
  <2>3. Len(n) \in 0..Len(n)
    BY <2>2
  <2> QED BY <2>2, <2>3 DEF Prefixes
<1> QED BY <1>1 DEF Written

(* A save of which no value was cut off or refused leaves all of them.       *)
LEMMA WrittenWhole ==
  ASSUME NEW n \in Names, n # <<>>, NEW s \in Session
  PROVE  Written(n, s, Values)[n] = s
<1> DEFINE fields == {"host", "port", "user", "proto", "ktype"}
           old(m) == IF m \in DOMAIN reg THEN reg[m] ELSE EmptyKey
<1>1. n \in DOMAIN Written(n, s, Values)
  BY WrittenKeys
<1>2. Written(n, s, Values)[n] = [f \in DOMAIN EmptyKey |-> IF f \in Values THEN s[f] ELSE old(n)[f]]
  BY <1>1 DEF Written
<1>3. DOMAIN EmptyKey = fields /\ fields = Values
  BY FiveValues
<1> HIDE DEF old
<1>4. Written(n, s, Values)[n] = [f \in fields |-> s[f]]
  BY <1>2, <1>3
<1>5. s = [f \in fields |-> s[f]]
  BY DEF Session
<1> QED BY <1>4, <1>5

(* It stays there: createSession writes below one key only, and forgets what    *)
(* was saved there unless it writes all; what removes a key forgets it, too.  *)
LEMMA SavedStep ==
  ASSUME IInv, SavedIsThere, [Next]_vars
  PROVE  SavedIsThere'
<1>1. saved \in [Names -> Session \cup {Unsaved}] /\ DOMAIN reg \subseteq Names
  BY DEF IInv, RegistryOK
<1>2. ASSUME NEW n \in Names, n # <<>>, NEW s, NEW new, reg' = Written(n, s, new),
             \/ saved' = [saved EXCEPT ![n] = Unsaved]
             \/ new = Values /\ s \in Session /\ Missing(s) = {} /\ saved' = [saved EXCEPT ![n] = s]
      PROVE  SavedIsThere'
  <2>1. /\ DOMAIN reg \cup {n} \subseteq DOMAIN reg'
        /\ \A m \in DOMAIN reg : m # n => reg'[m] = reg[m]
    BY <1>2, WrittenKeys
  <2>2. \A m \in Names : m # n => saved'[m] = saved[m]
    BY <1>1, <1>2
  <2>3. saved'[n] = Unsaved \/ (saved'[n] = s /\ reg'[n] = s /\ Missing(s) = {})
    BY <1>1, <1>2, WrittenWhole
  <2> QED BY <2>1, <2>2, <2>3 DEF SavedIsThere
<1>3. ASSUME NEW n \in DOMAIN reg, reg' = Without(n), Forget(n)
      PROVE  SavedIsThere'
  <2>1. \A m \in Names : m # n => saved'[m] = saved[m]
    BY <1>1, <1>3 DEF Forget
  <2>2. saved'[n] = Unsaved
    BY <1>1, <1>3 DEF Forget
  <2> QED BY <1>3, <2>1, <2>2 DEF SavedIsThere, Without
<1>4. CASE UNCHANGED <<reg, record>>
  BY <1>4 DEF SavedIsThere, record
<1>5. ASSUME NEW d \in Inputs, d.name # <<>>, NEW k, CreateSession(d.name, d, Tried(k))
      PROVE  SavedIsThere'
  <2>1. d.name \in Names
    BY <1>5 DEF Inputs
  <2>2. PICK lost \in SUBSET (Refusable \cap Tried(k)) :
          /\ reg' = Written(d.name, ValuesOf(d), Tried(k) \ lost)
          /\ saved' = [saved EXCEPT ![d.name] = IF Tried(k) \ lost = Values THEN ValuesOf(d) ELSE Unsaved]
    BY <1>5 DEF CreateSession
  <2>3. ValuesOf(d) \in Session /\ Missing(ValuesOf(d)) = {}
    BY ValuesOfDialog
  <2> DEFINE new == Tried(k) \ lost
  <2>4. \/ saved' = [saved EXCEPT ![d.name] = Unsaved]
        \/ new = Values /\ saved' = [saved EXCEPT ![d.name] = ValuesOf(d)]
    BY <2>2
  <2>5. reg' = Written(d.name, ValuesOf(d), new)
    BY <2>2
  <2> HIDE DEF new
  <2> QED BY <1>2, <1>5, <2>1, <2>3, <2>4, <2>5
<1>6. ASSUME NEW i \in 1..MaxIdents, NEW d \in Inputs, Save(i, d) PROVE SavedIsThere'
  BY <1>4, <1>5, <1>6 DEF Save
<1>7. ASSUME NEW d \in Inputs, NEW k, DieInSave(d, k) PROVE SavedIsThere'
  BY <1>5, <1>7 DEF DieInSave
<1>8. ASSUME NEW i \in 1..MaxIdents, RemoveUnsaved(i) \/ RemoveSession(i) \/ RecurseForEver(i)
      PROVE  SavedIsThere'
  BY <1>3, <1>4, <1>8 DEF RemoveUnsaved, RemoveSession, RecurseForEver, record
<1>9. ASSUME NEW n \in Names, NEW s, PuttySave(n, s) PROVE SavedIsThere'
  BY <1>2, <1>9, StoreAssumption DEF PuttySave, Forget
<1>10. ASSUME NEW n, PuttyDelete(n) PROVE SavedIsThere'
  BY <1>3, <1>10 DEF PuttyDelete
<1>11. CASE Start \/ AddIdentity \/ Stop \/ UNCHANGED vars
  BY <1>4, <1>11 DEF Start, AddIdentity, Stop, vars, record
<1> QED BY <1>6, <1>7, <1>8, <1>9, <1>10, <1>11 DEF Next, Command, Putty

(* ReadIdentities leaves out no session that it could load.                  *)
LEMMA AllLoaded ==
  ASSUME NEW S, IsFiniteSet(S), NEW q \in Orders(S), NEW n \in S
  PROVE  \E i \in DOMAIN q : q[i] = n
<1> DEFINE N == Cardinality(S)
<1>1. N \in Nat
  BY FS_CardinalityType
<1>2. IsFiniteSet(1..N) /\ Cardinality(1..N) = N
  <2>1. 1 \in Int /\ N \in Int /\ (IF 1 > N THEN 0 ELSE N - 1 + 1) = N
    BY <1>1
  <2> QED BY <2>1, FS_Interval
<1>3. q \in Injection(1..N, S) /\ DOMAIN q = 1..N
  BY DEF Orders, IsInjective, Injection
<1> HIDE DEF N
<1>4. q \in Surjection(1..N, S)
  BY <1>2, <1>3, FS_Injection DEF N
<1> QED BY <1>3, <1>4 DEF Surjection

(* A session saved for ssh is there again when the program starts, with all    *)
(* its values or all but the port (createSession, ReadIdentities).           *)
THEOREM SavedIsRead == Spec => SavedComesBack
<1> DEFINE A == mode = "off" /\ mode' = "running" =>
                  \A n \in Names : TopLevel(n) /\ saved[n] # Unsaved /\ saved[n].proto = "ssh" =>
                    \E i \in DOMAIN mem' :
                      /\ mem'[i].name = n
                      /\ ValuesOf(mem'[i]) \in {saved[n], [saved[n] EXCEPT !.port = NoPort]}
<1>1. ASSUME IInv, SavedIsThere, [Next]_vars PROVE [A]_vars
  <2> SUFFICES ASSUME mode = "off", mode' = "running",
                      NEW n \in Names, TopLevel(n), saved[n] # Unsaved, saved[n].proto = "ssh"
               PROVE  \E i \in DOMAIN mem' :
                        /\ mem'[i].name = n
                        /\ ValuesOf(mem'[i]) \in {saved[n], [saved[n] EXCEPT !.port = NoPort]}
    OBVIOUS
  <2>1. Start
    BY <1>1 DEF Next, Command, Putty, AddIdentity, Stop, RemoveUnsaved, RemoveSession, RecurseForEver,
         Save, DieInSave, PuttySave, PuttyDelete, Running, vars
  <2> DEFINE S == {m \in DOMAIN reg : Loadable(m)}
  <2>2. PICK q \in Orders(S), unread \in BOOLEAN :
          mem' = [i \in DOMAIN q |-> LoadedIdentity(q[i], unread)]
    BY <2>1 DEF Start
  <2>3. n \in S /\ reg[n] = saved[n] /\ reg[n] \in Session
    BY <1>1 DEF SavedIsThere, Loadable, IInv, RegistryOK
  <2>4. IsFiniteSet(S)
    BY <1>1, FS_Subset DEF IInv, RegistryOK
  <2> HIDE DEF S
  <2>5. PICK i \in DOMAIN q : q[i] = n
    BY <2>2, <2>3, <2>4, AllLoaded
  <2>6. i \in DOMAIN mem' /\ mem'[i] = LoadedIdentity(n, unread)
    BY <2>2, <2>5
  <2>7. mem'[i].name = n
    BY <2>6 DEF LoadedIdentity, SessionName
  <2>8. ValuesOf(mem'[i]) \in {saved[n], [saved[n] EXCEPT !.port = NoPort]}
    <3> DEFINE s == reg[n]
               v == ValuesOf(mem'[i])
    <3>0. s.host # Absent /\ s.user # Absent
      BY <1>1, <2>3 DEF SavedIsThere, Missing
    <3>1. v = [host |-> s.host, port |-> PortRead(n, unread), user |-> s.user, proto |-> s.proto, ktype |-> s.ktype]
      BY <2>6, <3>0 DEF LoadedIdentity, ValuesOf, KeyTypeRead, TextRead
    <3>2. PortRead(n, unread) \in {s.port, NoPort}
      BY DEF PortRead
    <3> HIDE DEF v
    <3>3. v = s \/ v = [s EXCEPT !.port = NoPort]
      BY <2>3, <3>1, <3>2 DEF Session
    <3> QED BY <2>3, <3>3 DEF v
  <2> QED BY <2>6, <2>7, <2>8
<1>2. Init => SavedIsThere
  BY DEF Init, SavedIsThere
<1>3. IInv /\ SavedIsThere /\ [Next]_vars => SavedIsThere'
  BY SavedStep
<1>4. Spec => []SavedIsThere
  BY <1>2, <1>3, Invariance, PTL DEF Spec
<1> QED BY <1>1, <1>4, Invariance, PTL DEF Spec, SavedComesBack
=============================================================================
