--------------------------- MODULE TTLLRUTheorems ---------------------------
(***************************************************************************)
(* What the operations of TTLLRU do to the key set, to the size and to the *)
(* entries of a cache, for every cache over a finite key set.              *)
(***************************************************************************)
EXTENDS TTLLRU, FiniteSetTheorems, TLAPS

\* Both caches hold the keys of S, with the same values and expiries.
SameEntries(d, c, S) ==
  /\ S \subseteq DOMAIN d
  /\ S \subseteq DOMAIN c
  /\ \A k \in S : d[k].value = c[k].value /\ d[k].expires = c[k].expires

\* The cache holds this value and this expiry for key k.
Holds(d, k, v, exp) ==
  k \in DOMAIN d /\ d[k].value = v /\ d[k].expires = exp

\* The cache holds fewer than max entries.
HasRoom(c, max) == max \in Nat /\ CacheLen(c) < max

\* The key set gained k.
Gained(d, c, k) ==
  DOMAIN d = DOMAIN c \cup {k} /\ CacheLen(d) = CacheLen(c) + 1

\* Removing keys keeps every other entry with its value and its expiry, and
\* the cache does not grow (removeElementLocked).
LEMMA RemoveElements ==
  ASSUME NEW K, NEW V, NEW c, IsCache(c, K, V), IsFiniteSet(K), NEW S
  PROVE  /\ IsCache(removeElements(c, S), K, V)
         /\ DOMAIN removeElements(c, S) = DOMAIN c \ S
         /\ SameEntries(removeElements(c, S), c, DOMAIN c \ S)
         /\ CacheLen(removeElements(c, S)) <= CacheLen(c)
         /\ CacheLen(c) \in Nat
         /\ CacheLen(removeElements(c, S)) \in Nat
<1> DEFINE d == removeElements(c, S)
<1>1. DOMAIN d = DOMAIN c \ S
  BY Zenon DEF removeElements
<1>2. \A k \in DOMAIN d : d[k] = [c[k] EXCEPT !.older = @ \ S]
  BY Zenon DEF removeElements
<1>3. \A k \in DOMAIN d : c[k] \in [value : V, expires : Int, older : SUBSET K]
  BY <1>1, Zenon DEF IsCache
<1>4. \A k \in DOMAIN d :
        /\ d[k] \in [value : V, expires : Int, older : SUBSET K]
        /\ d[k].value = c[k].value
        /\ d[k].expires = c[k].expires
  BY <1>2, <1>3
<1>5. IsCache(d, K, V)
  BY <1>1, <1>4, Zenon DEF IsCache
<1>6. IsFiniteSet(DOMAIN c)
  BY FS_Subset, Zenon DEF IsCache
<1>7. /\ IsFiniteSet(DOMAIN d)
      /\ Cardinality(DOMAIN d) <= Cardinality(DOMAIN c)
  BY <1>1, <1>6, FS_Subset, Zenon
<1>8. Cardinality(DOMAIN c) \in Nat /\ Cardinality(DOMAIN d) \in Nat
  BY <1>6, <1>7, FS_CardinalityType, Zenon
<1> QED
  BY <1>1, <1>4, <1>5, <1>7, <1>8, Zenon DEF CacheLen, SameEntries

\* Moving a key to the back of the recency list changes neither the stored
\* keys nor any value or expiry (the list's MoveToBack).
LEMMA MoveToBackEntries ==
  ASSUME NEW K, NEW V, NEW c, IsCache(c, K, V), NEW k
  PROVE  /\ IsCache(MoveToBack(c, k), K, V)
         /\ DOMAIN MoveToBack(c, k) = DOMAIN c
         /\ SameEntries(MoveToBack(c, k), c, DOMAIN c)
         /\ CacheLen(MoveToBack(c, k)) = CacheLen(c)
<1> DEFINE d == MoveToBack(c, k)
<1>1. DOMAIN d = DOMAIN c
  BY Zenon DEF MoveToBack
<1>2. \A x \in DOMAIN d :
        d[x] = [c[x] EXCEPT !.older = IF x = k THEN DOMAIN c \ {k}
                                      ELSE @ \ {k}]
  BY Zenon DEF MoveToBack
<1>3. \A x \in DOMAIN d : c[x] \in [value : V, expires : Int, older : SUBSET K]
  BY <1>1, Zenon DEF IsCache
<1>4. \A x \in DOMAIN d :
        /\ d[x] \in [value : V, expires : Int, older : SUBSET K]
        /\ d[x].value = c[x].value
        /\ d[x].expires = c[x].expires
  BY <1>2, <1>3 DEF IsCache
<1> QED
  BY <1>1, <1>4, Zenon DEF IsCache, CacheLen, SameEntries

\* Storing a key in a cache that is not full evicts nothing: the new key is
\* added, every other entry stays and the cache grows by one (setLocked).
LEMMA InsertWithRoom ==
  ASSUME NEW K, NEW V, NEW c, IsCache(c, K, V), IsFiniteSet(K),
         NEW k \in K, k \notin DOMAIN c, NEW v \in V, NEW exp, NEW max,
         exp \in Int, HasRoom(c, max)
  PROVE  /\ IsCache(setLocked(c, k, v, exp, max), K, V)
         /\ Gained(setLocked(c, k, v, exp, max), c, k)
         /\ Holds(setLocked(c, k, v, exp, max), k, v, exp)
         /\ SameEntries(setLocked(c, k, v, exp, max), c, DOMAIN c)
<1> DEFINE r == removeElements(c, {})
           d == setLocked(c, k, v, exp, max)
<1>1. IsFiniteSet(DOMAIN c) /\ Cardinality(DOMAIN c) \in Nat
  BY FS_Subset, FS_CardinalityType, Zenon DEF IsCache
<1>2. ASSUME NEW x \in DOMAIN c
      PROVE  Cardinality(c[x].older) \in Nat
  <2>1. c[x].older \in SUBSET K
    BY Zenon DEF IsCache
  <2>2. IsFiniteSet(c[x].older)
    BY <2>1, FS_Subset, Zenon
  <2> QED
    BY <2>2, FS_CardinalityType, Zenon
<1>3. Evicted(c, max) = {}
  BY <1>1, <1>2 DEF Evicted, CacheLen, HasRoom
<1>4. /\ IsCache(r, K, V)
      /\ DOMAIN r = DOMAIN c
      /\ SameEntries(r, c, DOMAIN c)
  BY RemoveElements, DOMAIN c \ {} = DOMAIN c
<1>5. d = PushBack(r, k, v, exp)
  BY <1>3, Zenon DEF setLocked
<1>6. /\ DOMAIN d = DOMAIN c \cup {k}
      /\ d[k] = [value |-> v, expires |-> exp, older |-> DOMAIN c]
      /\ \A x \in DOMAIN c : d[x] = r[x]
  BY <1>4, <1>5, Zenon DEF PushBack
<1>7. DOMAIN c \in SUBSET K
  BY Zenon DEF IsCache
<1>8. d[k] \in [value : V, expires : Int, older : SUBSET K]
  BY <1>6, <1>7
<1>9. IsCache(d, K, V)
  BY <1>4, <1>6, <1>7, <1>8, Zenon DEF IsCache
<1>10. Cardinality(DOMAIN d) = Cardinality(DOMAIN c) + 1
  BY <1>1, <1>6, FS_AddElement, Zenon
<1> QED
  BY <1>4, <1>6, <1>9, <1>10 DEF CacheLen, SameEntries, Holds, Gained

\* Overwriting a stored key changes that entry alone, and no entry is evicted
\* (the first branch of setLocked).
LEMMA Overwrite ==
  ASSUME NEW K, NEW V, NEW c, IsCache(c, K, V),
         NEW k \in DOMAIN c, NEW v \in V, NEW exp \in Int, NEW max
  PROVE  /\ IsCache(setLocked(c, k, v, exp, max), K, V)
         /\ DOMAIN setLocked(c, k, v, exp, max) = DOMAIN c
         /\ Holds(setLocked(c, k, v, exp, max), k, v, exp)
         /\ SameEntries(setLocked(c, k, v, exp, max), c, DOMAIN c \ {k})
<1> DEFINE u == [c EXCEPT ![k].value = v, ![k].expires = exp]
           d == MoveToBack(u, k)
<1>1. d = setLocked(c, k, v, exp, max)
  BY Zenon DEF setLocked
<1>2. \A x \in DOMAIN c : c[x] \in [value : V, expires : Int, older : SUBSET K]
  BY Zenon DEF IsCache
<1>3. DOMAIN u = DOMAIN c
  BY Zenon
<1>4. \A x \in DOMAIN c \ {k} : u[x] = c[x]
  BY Zenon
<1>5. /\ u[k].value = v /\ u[k].expires = exp /\ u[k].older = c[k].older
      /\ u[k] \in [value : V, expires : Int, older : SUBSET K]
  BY <1>2, Zenon
<1> HIDE DEF u
<1>6. IsCache(u, K, V)
  BY <1>2, <1>3, <1>4, <1>5, Zenon DEF IsCache
<1>7. /\ IsCache(d, K, V)
      /\ DOMAIN d = DOMAIN u
      /\ SameEntries(d, u, DOMAIN u)
  BY <1>6, MoveToBackEntries, Zenon
<1> HIDE DEF d
<1> QED
  BY <1>1, <1>3, <1>4, <1>5, <1>7, Zenon DEF SameEntries, Holds

\* Whatever setLocked evicts, it stores the key and invents nothing: every
\* other entry afterwards was there before.
LEMMA SetEntries ==
  ASSUME NEW K, NEW V, NEW c, IsCache(c, K, V), IsFiniteSet(K),
         NEW k \in K, NEW v \in V, NEW exp \in Int, NEW max
  PROVE  /\ IsCache(setLocked(c, k, v, exp, max), K, V)
         /\ Holds(setLocked(c, k, v, exp, max), k, v, exp)
         /\ SameEntries(setLocked(c, k, v, exp, max), c,
                        DOMAIN setLocked(c, k, v, exp, max) \ {k})
<1> DEFINE d == setLocked(c, k, v, exp, max)
<1>1. CASE k \in DOMAIN c
  <2>1. /\ IsCache(d, K, V) /\ DOMAIN d = DOMAIN c
        /\ Holds(d, k, v, exp)
        /\ SameEntries(d, c, DOMAIN c \ {k})
    BY <1>1, Overwrite
  <2> QED
    BY <1>1, <2>1, Zenon
<1>2. CASE k \notin DOMAIN c
  <2> DEFINE E == Evicted(c, max)
             r == removeElements(c, E)
  <2> HIDE DEF E
  <2>1. /\ IsCache(r, K, V)
        /\ DOMAIN r = DOMAIN c \ E
        /\ SameEntries(r, c, DOMAIN c \ E)
    BY RemoveElements
  <2>2. d = PushBack(r, k, v, exp)
    BY <1>2, Zenon DEF setLocked, E
  <2> HIDE DEF r
  <2>3. /\ DOMAIN d = DOMAIN r \cup {k}
        /\ d[k] = [value |-> v, expires |-> exp, older |-> DOMAIN r]
        /\ \A x \in DOMAIN r : x # k => d[x] = r[x]
    BY <2>2, Zenon DEF PushBack
  <2> HIDE DEF d
  <2>4. IsCache(d, K, V)
    BY <2>1, <2>3 DEF IsCache
  <2>5. SameEntries(d, c, DOMAIN d \ {k})
    BY <2>1, <2>3, Zenon DEF SameEntries
  <2> QED
    BY <2>3, <2>4, <2>5 DEF d, Holds
<1> QED
  BY <1>1, <1>2, Zenon
=============================================================================
