----------------------------- MODULE BoundedMap -----------------------------
(***************************************************************************)
(* What a caller of the cache may rely on, with no word on how it is kept: *)
(* a map of live entries, each with an optional expiry, that never holds   *)
(* more than MaxSize of them.  An entry is forgotten when it is removed,   *)
(* when its time is up, or when a new key is put into a full map; then     *)
(* exactly one entry goes, and among entries that can expire it is one     *)
(* that expires soonest.  Sweeping, list order and the representation of   *)
(* expired entries are not visible at this level.                          *)
(***************************************************************************)
EXTENDS Integers, FiniteSets

CONSTANTS Key,       \* cache keys
          Value,     \* cached values
          Ttl,       \* the times to live callers pass; 0 means "no expiry"
          MaxSize,   \* capacity; 0 means unbounded
          MaxTime,   \* bound on the model's clock
          Never      \* the expiry of an entry stored without one

VARIABLES live,      \* the entries a Get can return
          now        \* the clock

vars == <<live, now>>

Deadline(ttl) == IF ttl > 0 THEN now + ttl ELSE Never

With(m, k, e) == [x \in DOMAIN m \cup {k} |-> IF x = k THEN e ELSE m[x]]
Without(m, k) == [x \in DOMAIN m \ {k} |-> m[x]]

Full == MaxSize > 0 /\ Cardinality(DOMAIN live) >= MaxSize

Perishable == {k \in DOMAIN live : live[k].expiresAt # Never}

\* The entries that may make room for a new one.
Victims ==
    IF Perishable = {}
      THEN DOMAIN live
      ELSE {k \in Perishable :
              \A x \in Perishable : live[k].expiresAt <= live[x].expiresAt}

\* The maps a new entry for k can be added to.
Room(k) ==
    IF k \notin DOMAIN live /\ Full
      THEN {Without(live, x) : x \in Victims}
      ELSE {live}

-----------------------------------------------------------------------------

Init == /\ live = [k \in {} |-> Never]
        /\ now = 0

Put(k, v, ttl) ==
    /\ \E m \in Room(k) :
         live' = With(m, k, [value |-> v, expiresAt |-> Deadline(ttl)])
    /\ UNCHANGED now

Replace(k, v, ttl) ==
    /\ k \in DOMAIN live
    /\ live' = With(live, k, [value |-> v,
                              expiresAt |-> IF ttl > 0 THEN Deadline(ttl)
                                                       ELSE live[k].expiresAt])
    /\ UNCHANGED now

Remove(k) ==
    /\ live' = Without(live, k)
    /\ UNCHANGED now

RemoveAll ==
    /\ live' = [k \in {} |-> Never]
    /\ UNCHANGED now

\* Time passes, and what expires with it is gone at once.
Tick ==
    /\ now < MaxTime
    /\ now' = now + 1
    /\ live' = [k \in {x \in DOMAIN live : \/ live[x].expiresAt = Never
                                           \/ now' <= live[x].expiresAt}
                  |-> live[k]]

Next == \/ \E k \in Key, v \in Value, ttl \in Ttl :
             Put(k, v, ttl) \/ Replace(k, v, ttl)
        \/ \E k \in Key : Remove(k)
        \/ RemoveAll
        \/ Tick

Spec == Init /\ [][Next]_vars
=============================================================================
