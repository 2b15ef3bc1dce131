----------------------------- MODULE CacheStore -----------------------------
(***************************************************************************)
(* CacheStore[T] (internal/service/cache_store.go): the in-memory store    *)
(* behind the OAuth pending sessions, the OIDC codes and tickets, the      *)
(* login attempts and the LDAP groups.                                     *)
(*                                                                         *)
(* Every exported operation takes the store's mutex for its whole body, so *)
(* each is one action.  Sweep is the exception worth opening: it reads the *)
(* clock once per entry, in the unspecified order of a Go map, while the   *)
(* mutex keeps the others out.  toVisit is the set of keys its loop has    *)
(* not reached; the mutex is held while it is not empty.                   *)
(***************************************************************************)
EXTENDS Integers, FiniteSets, SequencesExt

CONSTANTS Key, Value, Ttl, MaxSize, MaxTime, Never,
          EmptyKey   \* the key "", the zero value evictOne starts from

ASSUME MaxSizeAssumption == MaxSize \in Nat
ASSUME TtlAssumption == Ttl \subseteq Nat
ASSUME NeverAssumption == Never \notin Nat

VARIABLES cache,     \* CacheStore.cache: key -> value and expiry
          order,     \* CacheStore.order: keys, oldest insertion first
          toVisit,   \* keys a running Sweep has still to look at
          now        \* the clock

vars == <<cache, order, toVisit, now>>

Entry == [value : Value, expiresAt : Nat \cup {Never}]
NoEntries == [k \in {} |-> Never]

Unlocked == toVisit = {}

\* time.Now().After(*entry.expiresAt): strictly after.
Expired(k) == cache[k].expiresAt # Never /\ now > cache[k].expiresAt

Deadline(ttl) == IF ttl > 0 THEN now + ttl ELSE Never

Without(m, k) == [x \in DOMAIN m \ {k} |-> m[x]]
With(m, k, e) == [x \in DOMAIN m \cup {k} |-> IF x = k THEN e ELSE m[x]]

-----------------------------------------------------------------------------
(* The operations.                                                         *)

Init == /\ cache = NoEntries
        /\ order = <<>>
        /\ toVisit = {}
        /\ now = 0

\* getCallback: the entries a Get finds.
Found == {k \in DOMAIN cache : ~Expired(k)}

\* Mutant: the slice is not told.
deleteFromMapOnly(k) ==
    /\ cache' = Without(cache, k)
    /\ UNCHANGED order

\* deleteCallback on the map and on the slice.
deleteCallback(k) ==
    /\ cache' = Without(cache, k)
    /\ order' = RemoveFirst(order, k)

\* The loop of evictOne stops at the first expired entry it meets, and else
\* has seen the entry with the least expiry (the first one met, on a tie).
ExpiredKeys == {k \in DOMAIN cache : Expired(k)}
Perishable == {k \in DOMAIN cache : cache[k].expiresAt # Never}
Soonest == {k \in Perishable :
              \A x \in Perishable : cache[k].expiresAt <= cache[x].expiresAt}

\* Mutant: expiries play no part.
evictOldest == {order[1]}

\* The keys evictOne can delete.  It knows "nothing found" by oldestKey = "".
evictOne ==
    IF ExpiredKeys # {} THEN ExpiredKeys
    ELSE IF Perishable = {} THEN {order[1]}
    ELSE {IF k = EmptyKey THEN order[1] ELSE k : k \in Soonest}

\* Mutant: off by one.
mustEvictLate(k) ==
    /\ MaxSize > 0
    /\ k \notin DOMAIN cache
    /\ Cardinality(DOMAIN cache) > MaxSize

MustEvict(k) ==
    /\ MaxSize > 0
    /\ k \notin DOMAIN cache
    /\ Cardinality(DOMAIN cache) >= MaxSize

\* The end of setCallback, on what evictOne left: c and o.
Store(c, o, k, e) ==
    /\ cache' = With(c, k, e)
    /\ order' = IF Contains(o, k) THEN o ELSE Append(o, k)

Set(k, v, ttl) ==
    LET e == [value |-> v, expiresAt |-> Deadline(ttl)]
    IN  /\ Unlocked
        /\ \/ /\ ~MustEvict(k)
              /\ Store(cache, order, k, e)
           \/ /\ MustEvict(k)
              /\ \E x \in evictOne :
                   Store(Without(cache, x), RemoveFirst(order, x), k, e)
        /\ UNCHANGED <<toVisit, now>>

Update(k, v, ttl) ==
    /\ Unlocked
    /\ k \in Found
    /\ cache' = With(cache, k, [value |-> v,
                                expiresAt |-> IF ttl > 0 THEN Deadline(ttl)
                                              ELSE cache[k].expiresAt])
    /\ UNCHANGED <<order, toVisit, now>>

\* Mutant: the mutex is not taken.
deleteUnlocked(k) ==
    /\ deleteCallback(k)
    /\ UNCHANGED <<toVisit, now>>

Delete(k) ==
    /\ Unlocked
    /\ deleteCallback(k)
    /\ UNCHANGED <<toVisit, now>>

Clear ==
    /\ Unlocked
    /\ cache' = NoEntries
    /\ order' = <<>>
    /\ UNCHANGED <<toVisit, now>>

SweepLock ==
    /\ Unlocked
    /\ toVisit' = DOMAIN cache
    /\ UNCHANGED <<cache, order, now>>

\* Mutant: the loop finds expired entries and keeps them.
sweepKeeps(k) ==
    /\ k \in toVisit
    /\ toVisit' = toVisit \ {k}
    /\ UNCHANGED <<cache, order, now>>

SweepVisit(k) ==
    /\ k \in toVisit
    /\ \/ Expired(k) /\ deleteCallback(k)
       \/ ~Expired(k) /\ UNCHANGED <<cache, order>>
    /\ toVisit' = toVisit \ {k}
    /\ UNCHANGED now

Tick ==
    /\ now < MaxTime
    /\ now' = now + 1
    /\ UNCHANGED <<cache, order, toVisit>>

Next == \/ \E k \in Key, v \in Value, ttl \in Ttl :
             Set(k, v, ttl) \/ Update(k, v, ttl)
        \/ \E k \in Key : Delete(k)
        \/ Clear
        \/ SweepLock
        \/ \E k \in Key : SweepVisit(k)
        \/ Tick

Spec == Init /\ [][Next]_vars

\* The services sweep from a ticker; the mutex is released after each loop.
SweepFairness == WF_vars(SweepLock) /\ WF_vars(\E k \in Key : SweepVisit(k))

FairSpec == Spec /\ SweepFairness

-----------------------------------------------------------------------------
(* Properties.                                                             *)

TypeOK ==
    /\ DOMAIN cache \subseteq Key
    /\ cache \in [DOMAIN cache -> Entry]
    /\ order \in Seq(Key)
    /\ toVisit \subseteq DOMAIN cache
    /\ now \in Nat

\* The map and the slice of setCallback, deleteCallback, evictOne and Sweep
\* are two copies of one set of keys: no key is lost from either, and the
\* slice has no duplicate (deleteCallback removes one occurrence only).
OrderMatchesCache ==
    /\ DOMAIN cache = ToSet(order)
    /\ IsInjective(order)

\* However Set, evictions and sweeps follow one another, the store does not
\* outgrow maxSize, which evictOne's choice of a key decides.
SizeBounded == MaxSize > 0 => Cardinality(DOMAIN cache) <= MaxSize

\* What callers see of the store is the abstract bounded map: expired entries
\* that Sweep has not reached are never observed and cost no live entry its
\* place, and nothing else is ever forgotten.
LiveEntries == [k \in Found |-> cache[k]]
Abstract == INSTANCE BoundedMap WITH live <- LiveEntries
ImplementsBoundedMap == Abstract!Spec

\* The sweeper reclaims memory: an expired entry does not stay for ever, even
\* in a store with no bound that is never written again.
ExpiredIsReclaimed ==
    \A k \in Key : (k \in ExpiredKeys) ~> (k \notin ExpiredKeys)
=============================================================================
