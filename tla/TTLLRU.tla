------------------------------- MODULE TTLLRU -------------------------------
(***************************************************************************)
(* The bounded TTL/LRU map of internal/cache/ttl_lru.go, as operators on a *)
(* value.  A cache is a function from the stored keys to entries           *)
(*     [value |-> v, expires |-> t, older |-> S]                           *)
(* where S is the set of stored keys nearer to the front of the recency    *)
(* list (c.order) than this one.  The code's map and linked list are one   *)
(* function here: DOMAIN c is the map's key set, and the front of the list *)
(* is the key whose older is empty.  Every operator is one method body,    *)
(* run under the cache's own mutex.                                        *)
(***************************************************************************)
EXTENDS Integers, FiniteSets

EmptyCache == [k \in {} |-> k]

\* The number of stored entries, expired ones included.
CacheLen(c) == Cardinality(DOMAIN c)

\* entry.ExpiresAt.After(now) of a stored entry.
Live(c, k, now) == k \in DOMAIN c /\ c[k].expires > now

\* Unlink the keys of S from the map and from the recency list.
removeElements(c, S) ==
  [k \in DOMAIN c \ S |-> [c[k] EXCEPT !.older = @ \ S]]

MoveToBack(c, k) ==
  [x \in DOMAIN c |->
     [c[x] EXCEPT !.older = IF x = k THEN DOMAIN c \ {k} ELSE @ \ {k}]]

\* The keys the eviction loop pops from the front before an insertion: as many
\* as it takes for the map to hold fewer than max entries.
Evicted(c, max) ==
  {k \in DOMAIN c : Cardinality(c[k].older) <= CacheLen(c) - max}

\* Store a key the map does not hold, at the back of the recency list.
PushBack(c, k, v, exp) ==
  [x \in DOMAIN c \cup {k} |->
     IF x = k THEN [value |-> v, expires |-> exp, older |-> DOMAIN c]
              ELSE c[x]]

setLocked(c, k, v, exp, max) ==
  IF k \in DOMAIN c
  THEN MoveToBack([c EXCEPT ![k].value = v, ![k].expires = exp], k)
  ELSE PushBack(removeElements(c, Evicted(c, max)), k, v, exp)

\* AddIfAbsent stores the key, first dropping an expired entry of it; it is
\* refused, and the entry refreshed in the recency list, when a live entry of
\* the key is there.
AddIfAbsent(c, k, v, exp, now, max) ==
  IF Live(c, k, now) THEN MoveToBack(c, k)
  ELSE setLocked(removeElements(c, {k}), k, v, exp, max)

\* GetAt drops an expired entry and refreshes a live one.
GetAt(c, k, now) ==
  IF Live(c, k, now) THEN MoveToBack(c, k) ELSE removeElements(c, {k})

Delete(c, k) == removeElements(c, {k})

\* Mutant: the sweep drops the entries that have not expired.
SweepInverted(c, now) ==
  removeElements(c, {k \in DOMAIN c : c[k].expires > now})

Sweep(c, now) == removeElements(c, {k \in DOMAIN c : c[k].expires <= now})

\* A cache over the keys K with values V.
IsCache(c, K, V) ==
  /\ DOMAIN c \subseteq K
  /\ \A k \in DOMAIN c :
       c[k] \in [value : V, expires : Int, older : SUBSET K]
=============================================================================
