------------------------------ MODULE StateCache ------------------------------
(***************************************************************************)
(* The cache of Miniserver states (src/mcpserver/loxone/cache.py).         *)
(*                                                                         *)
(* Every OAuth family (subject) has values of its own.  Families of one    *)
(* Loxone user share that identity's share of the byte budget, which gets  *)
(* smaller as identities join; what does not fit is dropped, the oldest    *)
(* first.  The cache keeps the sums it decides by in counters, and the     *)
(* order it evicts in twice: for each subject and for each identity.       *)
(*                                                                         *)
(* Every operation is synchronous, so an action is one call.  A value is   *)
(* its uuid and its size.  Whether it is fresh, which is all that          *)
(* disconnect changes, is followed in LoxoneRuntime.                       *)
(***************************************************************************)
EXTENDS Integers, SequencesExt, Sums

CONSTANTS
  Subjects,
  Users,        \* identities that the Miniserver has named
  Uuids,
  Structures,   \* sets of uuids: what the structure of a user may show
  Sizes,        \* sizes of the events
  MaxBatch,     \* bound: events of one batch
  MaxStates,    \* max_states_per_user
  MaxBytes,     \* max_bytes_per_user
  MaxTotal,     \* max_total_bytes
  NoUser

Parameters ==
  /\ IsFiniteSet(Subjects)
  /\ MaxStates \in Nat \ {0} /\ MaxBytes \in Nat \ {0} /\ MaxTotal \in Nat \ {0}
  /\ Sizes \subseteq Nat \ {0}
  /\ Structures \subseteq SUBSET Uuids
  /\ NoUser \notin Users \cup Subjects
  /\ Users \cap Subjects = {}

\* An identity is a user, or a family of which no user is known: its subject.
Identities == Users \cup Subjects

VARIABLE
  store   \* the cache: see TypeOK

Empty ==
  [values |-> [s \in Subjects |-> <<>>],         \* _values: uuids, oldest first
   sizes |-> [s \in Subjects |-> [u \in Uuids |-> 0]],
   identity |-> [s \in Subjects |-> NoUser],     \* _subject_identity
   members |-> [i \in Identities |-> {}],        \* _identity_subjects
   entries |-> [i \in Identities |-> <<>>],      \* _identity_entries: oldest first
   identityBytes |-> [i \in Identities |-> 0],
   subjectBytes |-> [s \in Subjects |-> 0],
   total |-> 0]

Init == store = Empty

-------------------------------------------------------------------------------

\* A loop of the code: c after Op for every member of seq, in order.
After(Op(_, _), c, seq) ==
  LET a[n \in 0..Len(seq)] == IF n = 0 THEN c ELSE Op(a[n - 1], seq[n])
  IN  a[Len(seq)]

Known(c) == {i \in Identities : c.members[i] # {}}

\* _identity_quota
Quota(c) ==
  LET share == MaxTotal \div (IF Known(c) = {} THEN 1 ELSE Cardinality(Known(c)))
  IN  IF share < MaxBytes THEN share ELSE MaxBytes

\* _discard of a subject that has an identity
Discard(c, s, u) ==
  [c EXCEPT !.values[s] = RemoveFirst(@, u),
            !.sizes[s][u] = 0,
            !.entries[c.identity[s]] = RemoveFirst(@, <<s, u>>),
            !.identityBytes[c.identity[s]] = @ - c.sizes[s][u],
            !.subjectBytes[s] = @ - c.sizes[s][u],
            !.total = @ - c.sizes[s][u]]

DiscardAll(c, keys) == After(LAMBDA d, e : Discard(d, e[1], e[2]), c, keys)

\* Bytes of values
SumOf(c, keys) == Total([k \in DOMAIN keys |-> c.sizes[keys[k][1]][keys[k][2]]])

\* The shortest prefix of keys whose removal leaves at most "room" of "bytes".
Excess(c, keys, bytes, room) ==
  LET fits == {n \in 0..Len(keys) : bytes - SumOf(c, SubSeq(keys, 1, n)) <= room}
  IN  SubSeq(keys, 1, CHOOSE n \in fits : \A m \in fits : n <= m)

\* Mutant of Trim: whoever is oldest in the whole cache gives way.
TrimAnyone(c, i) ==
  DiscardAll(c, Excess(c, FoldLeft(LAMBDA t, j : t \o c.entries[j], <<>>, SetToSeq(Known(c))),
                       c.identityBytes[i], Quota(c)))

\* _trim_identity
Trim(c, i) == DiscardAll(c, Excess(c, c.entries[i], c.identityBytes[i], Quota(c)))

KeysOf(c, s) == [k \in DOMAIN c.values[s] |-> <<s, c.values[s][k]>>]

\* clear: an identity goes with its last subject
Cleared(c, s) ==
  IF c.identity[s] = NoUser
  THEN c
  ELSE [DiscardAll(c, KeysOf(c, s)) EXCEPT !.identity[s] = NoUser,
                                           !.members[c.identity[s]] = @ \ {s}]

\* Mutant of Registered: only the identity that joins is trimmed.
RegisteredTrimsOne(c, s, user) ==
  LET key == IF user # NoUser THEN user
             ELSE IF c.identity[s] # NoUser THEN c.identity[s] ELSE s
      d == [(IF c.identity[s] = NoUser THEN c ELSE Cleared(c, s))
              EXCEPT !.identity[s] = key, !.members[key] = @ \cup {s}]
  IN  IF key = c.identity[s] THEN c ELSE Trim(d, key)

\* _register_identity
Registered(c, s, user) ==
  LET key == IF user # NoUser THEN user
             ELSE IF c.identity[s] # NoUser THEN c.identity[s] ELSE s
      d == [(IF c.identity[s] = NoUser THEN c ELSE Cleared(c, s))
              EXCEPT !.identity[s] = key, !.members[key] = @ \cup {s}]
  IN  IF key = c.identity[s] THEN c
      ELSE After(Trim, d, SetToSeq(Known(d)))

\* One event of a batch: an old value of its uuid goes even if the new one is too
\* large to be stored; then the limits of the subject, then that of the identity.
Stored(c, s, u, size) ==
  LET i == c.identity[s]
      old == Discard(c, s, u)
      new == [old EXCEPT
                !.values[s] = Append(@, u),
                !.sizes[s][u] = size,
                !.entries[i] = Append(@, <<s, u>>),
                !.identityBytes[i] = @ + size,
                !.subjectBytes[s] = @ + size,
                !.total = @ + size]
      counted == DiscardAll(new, SubSeq(KeysOf(new, s), 1, Len(new.values[s]) - MaxStates))
      fitting == DiscardAll(counted, Excess(counted, KeysOf(counted, s),
                                            counted.subjectBytes[s], MaxBytes))
  IN  IF size > Quota(c) THEN old ELSE Trim(fitting, i)

\* Values that the structure no longer shows are dropped first ...
Pruned(c, s, allowed) ==
  After(LAMBDA d, u : IF u \in allowed THEN d ELSE Discard(d, s, u), c, c.values[s])

\* ... and events that it does not show are passed over.
StoredAll(c, s, events, allowed) ==
  After(LAMBDA d, e : IF e[1] \in allowed THEN Stored(d, s, e[1], e[2]) ELSE d, c, events)

-------------------------------------------------------------------------------

BeginConnection(s, user) == store' = Registered(store, s, user)

\* events is a sequence of pairs: a uuid and the size of its new value
Apply(s, events, allowed) ==
  store' = StoredAll(Pruned(Registered(store, s, NoUser), s, allowed), s, events, allowed)

Clear(s) == store' = Cleared(store, s)

ClearAll == store' = After(Cleared, store, SetToSeq(Subjects))

Batches == UNION {[1..n -> Uuids \X Sizes] : n \in 0..MaxBatch}

Next ==
  \/ \E s \in Subjects :
       \/ \E user \in Users \cup {NoUser} : BeginConnection(s, user)
       \/ \E events \in Batches, allowed \in Structures : Apply(s, events, allowed)
       \/ Clear(s)
  \/ ClearAll

Spec == Init /\ [][Next]_store

-------------------------------------------------------------------------------
(***************************************************************************)
(* Properties.                                                             *)
(***************************************************************************)

TypeOK ==
  /\ \A s \in Subjects :
       /\ store.values[s] \in Seq(Uuids)
       /\ IsInjective(store.values[s])
       /\ store.identity[s] \in Identities \cup {NoUser}
       /\ \A u \in Uuids : store.sizes[s][u] \in Sizes \cup {0}
  /\ \A i \in Identities : /\ store.members[i] = {s \in Subjects : store.identity[s] = i}
                           /\ IsInjective(store.entries[i])

\* Of the members of q, a comes before b.
Older(q, a, b) == \E j, k \in DOMAIN q : j < k /\ q[j] = a /\ q[k] = b

\* After every operation, the first of a new identity included: the counters are
\* the sums they stand for, no subject and no identity is over its share, all of
\* it is within the total budget, and both eviction orders tell the same.
BudgetKept ==
  /\ \A s \in Subjects :
       /\ store.subjectBytes[s] = SumOf(store, KeysOf(store, s))
       /\ store.subjectBytes[s] <= MaxBytes
       /\ Len(store.values[s]) <= MaxStates
       /\ store.values[s] # <<>> => store.identity[s] # NoUser
       /\ store.identity[s] # NoUser =>
            \A u, v \in Uuids :
              LET keys == store.entries[store.identity[s]]
              IN  /\ <<s, u>> \in ToSet(keys) <=> u \in ToSet(store.values[s])
                  /\ Older(keys, <<s, u>>, <<s, v>>) <=> Older(store.values[s], u, v)
       /\ \A u \in Uuids : store.sizes[s][u] > 0 <=> u \in ToSet(store.values[s])
  /\ \A i \in Identities :
       /\ store.identityBytes[i] = SumOf(store, store.entries[i])
       /\ store.identityBytes[i] <= Quota(store)
  /\ LET order == SetToSeq(Subjects)
     IN  store.total = Total([k \in DOMAIN order |-> store.subjectBytes[order[k]]])
  /\ store.total <= MaxTotal

\* A value of identity i is new, or has another size.
Stores(i) ==
  \E s \in Subjects, u \in Uuids :
    store'.identity[s] = i /\ store'.sizes[s][u] \notin {0, store.sizes[s][u]}

\* "extra OAuth families of the same identity cannot multiply it" (cache.py:113):
\* while no identity joins, whatever the families of one identity store, the
\* values of every other identity stay.
OthersStay ==
  Known(store') \subseteq Known(store) =>
    \A i \in Identities : Stores(i) =>
      \A j \in Identities \ {i} : store'.entries[j] = store.entries[j]

SharesProtected == [][OthersStay]_store

-------------------------------------------------------------------------------
(***************************************************************************)
(* The inductive invariant: identities and values fix the counters and the *)
(* eviction orders.                                                        *)
(***************************************************************************)

Keys == Subjects \X Uuids

Caches ==
  [values : [Subjects -> Seq(Uuids)], sizes : [Subjects -> [Uuids -> Nat]],
   identity : [Subjects -> Identities \cup {NoUser}], members : [Identities -> SUBSET Subjects],
   entries : [Identities -> Seq(Keys)], identityBytes : [Identities -> Nat],
   subjectBytes : [Subjects -> Nat], total : Nat]

\* What is stored of some subjects
KeysIn(c, subjects) == {e \in Keys : e[1] \in subjects /\ c.sizes[e[1]][e[2]] > 0}

\* Whose sizes they are
SizeIn(c) == [e \in Keys |-> c.sizes[e[1]][e[2]]]

\* A family of which no user is known is an identity of its own.
Members(c) ==
  /\ \A i \in Identities : c.members[i] = {s \in Subjects : c.identity[s] = i}
  /\ \A s \in Subjects : c.identity[s] \in Subjects => c.identity[s] = s
  /\ \A s \in Subjects : c.identity[s] = NoUser => KeysIn(c, {s}) = {}

\* The orders are of what is stored, and agree.
Orders(c) ==
  /\ \A s \in Subjects : /\ IsInjective(c.values[s])
                         /\ \A u \in Uuids : u \in ToSet(c.values[s]) <=> c.sizes[s][u] > 0
  /\ \A i \in Identities : /\ IsInjective(c.entries[i])
                           /\ ToSet(c.entries[i]) = KeysIn(c, c.members[i])
  /\ \A s \in Subjects : c.identity[s] # NoUser =>
       \A u, v \in Uuids :
         Older(c.entries[c.identity[s]], <<s, u>>, <<s, v>>) <=> Older(c.values[s], u, v)

\* The counters are the weights of what they count.
Counters(c) ==
  /\ \A s \in Subjects : c.subjectBytes[s] = Weight(SizeIn(c), KeysIn(c, {s}))
  /\ \A i \in Identities : c.identityBytes[i] = Weight(SizeIn(c), KeysIn(c, c.members[i]))
  /\ c.total = Weight(SizeIn(c), KeysIn(c, Subjects))

WellFormed(c) == c \in Caches /\ Members(c) /\ Orders(c) /\ Counters(c)

Limits(c, s) == c.subjectBytes[s] <= MaxBytes /\ Len(c.values[s]) <= MaxStates

Within(c) ==
  /\ \A s \in Subjects : Limits(c, s) /\ \A u \in Uuids : c.sizes[s][u] \in Sizes \cup {0}
  /\ \A i \in Identities : c.identityBytes[i] <= Quota(c)

CacheInv == WellFormed(store) /\ Within(store)
===============================================================================
