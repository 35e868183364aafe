-------------------------- MODULE ReplayCacheProofs --------------------------
(***************************************************************************)
(* Proofs about ReplayCache for any keys, workers, limits and clock        *)
(* bounds.  The inductive invariant adds two facts to the checked ones: a  *)
(* frame in the hands of a worker was fresh at most MaxStall ago, and an   *)
(* admitted frame is still stored, with an expiry beyond the last moment   *)
(* at which it is fresh, unless that moment has passed.                    *)
(***************************************************************************)
EXTENDS ReplayCache, TTLLRUTheorems

\* The swept cache s that CheckAndMark goes on with: it lost only entries that
\* had expired at t, and its counter bounds its size.
SweptAt(s, t) ==
  /\ IsCache(s.map, Keys, Units)
  /\ s.active \in Nat
  /\ CacheLen(s.map) \in Nat
  /\ CacheLen(s.map) <= s.active
  /\ s.active <= MaxEntries
  /\ DOMAIN s.map \subseteq DOMAIN entries
  /\ \A k \in DOMAIN s.map : s.map[k].expires = entries[k].expires
  /\ \A k \in DOMAIN entries : entries[k].expires > t => k \in DOMAIN s.map

\* A sweep keeps what has not expired and makes the counter exact, whatever
\* cache it starts from.
LEMMA SweepLocked ==
  ASSUME NEW c, IsCache(c, Keys, Units), NEW t \in Int, CacheLen(c) <= MaxEntries
  PROVE  LET s == sweepLocked(c, t)
         IN  /\ IsCache(s.map, Keys, Units)
             /\ s.active = CacheLen(s.map)
             /\ s.active \in Nat
             /\ s.active <= MaxEntries
             /\ DOMAIN s.map = {k \in DOMAIN c : c[k].expires > t}
             /\ \A k \in DOMAIN s.map : s.map[k].expires = c[k].expires
<1> DEFINE E == {k \in DOMAIN c : c[k].expires <= t}
           d == removeElements(c, E)
<1> HIDE DEF E
<1>0. IsFiniteSet(Keys)
  BY ConstantsAssumption, Zenon
<1>1. /\ IsCache(d, Keys, Units)
      /\ DOMAIN d = DOMAIN c \ E
      /\ SameEntries(d, c, DOMAIN c \ E)
      /\ CacheLen(d) <= CacheLen(c)
      /\ CacheLen(c) \in Nat
      /\ CacheLen(d) \in Nat
  BY <1>0, RemoveElements, Zenon
<1>2. \A k \in DOMAIN c : c[k].expires \in Int
  BY Zenon DEF IsCache
<1>3. DOMAIN c \ E = {k \in DOMAIN c : c[k].expires > t}
  BY <1>2 DEF E
<1>4. /\ sweepLocked(c, t).map = d
      /\ sweepLocked(c, t).active = CacheLen(d)
  BY Zenon DEF sweepLocked, Sweep, E
<1>5. CacheLen(d) <= MaxEntries
  BY <1>1, ConstantsAssumption
<1> QED
  BY <1>1, <1>3, <1>4, <1>5, Zenon DEF SameEntries

\* The two sweeps at the top of CheckAndMark leave a swept cache.
LEMMA LimitSweepSwept ==
  ASSUME TypeOK, ActiveBoundsStored, NEW t \in Int
  PROVE  SweptAt(LimitSweep(t), t)
<1> DEFINE p == PeriodicSweep(t)
           l == LimitSweep(t)
<1>1. CacheLen(entries) \in Nat
  BY RemoveElements, ConstantsAssumption, Zenon DEF TypeOK
<1>2. CacheLen(entries) <= MaxEntries
  BY <1>1, ConstantsAssumption DEF ActiveBoundsStored, TypeOK
<1>3. SweptAt([map |-> entries, active |-> active], t)
  BY <1>1, Zenon DEF SweptAt, TypeOK, ActiveBoundsStored
<1>4. SweptAt(sweepLocked(entries, t), t)
  BY <1>2, SweepLocked DEF SweptAt, TypeOK
<1>5. SweptAt(p, t)
  BY <1>3, <1>4, Zenon DEF PeriodicSweep
<1>6. CASE p.active >= MaxEntries
  <2>1. CacheLen(p.map) <= MaxEntries
    BY <1>5, ConstantsAssumption DEF SweptAt
  <2>2. l = sweepLocked(p.map, t)
    BY <1>6, Zenon DEF LimitSweep
  <2>3. /\ IsCache(l.map, Keys, Units)
        /\ l.active = CacheLen(l.map)
        /\ l.active \in Nat
        /\ l.active <= MaxEntries
        /\ DOMAIN l.map = {k \in DOMAIN p.map : p.map[k].expires > t}
        /\ \A k \in DOMAIN l.map : l.map[k].expires = p.map[k].expires
    BY <1>5, <2>1, <2>2, SweepLocked DEF SweptAt
  <2> QED
    BY <1>5, <2>3 DEF SweptAt
<1>7. CASE ~(p.active >= MaxEntries)
  BY <1>5, <1>7, Zenon DEF LimitSweep
<1> QED
  BY <1>6, <1>7, Zenon

\* The counter after CheckAndMark.
NewActive(s, k, t) == IF Verdict(s, k, t) = "ok" THEN s.active + 1 ELSE s.active

\* What CheckAndMark does to a swept cache: it drops no entry that is live at
\* t, it keeps the counter's bounds, and it admits a nonce only when no live
\* entry of it is stored and then stores one.
LEMMA MarkedEntries ==
  ASSUME NEW s, NEW t \in Int, SweptAt(s, t), NEW k \in Keys
  PROVE  LET m == Marked(s, k, t)
         IN  /\ IsCache(m, Keys, Units)
             /\ NewActive(s, k, t) \in Nat
             /\ CacheLen(m) <= NewActive(s, k, t)
             /\ NewActive(s, k, t) <= MaxEntries
             /\ \A x \in DOMAIN s.map : s.map[x].expires > t =>
                  x \in DOMAIN m /\ m[x].expires = s.map[x].expires
             /\ \A x \in DOMAIN s.map \ {k} :
                  x \in DOMAIN m /\ m[x].expires = s.map[x].expires
             /\ Verdict(s, k, t) = "ok" =>
                  /\ ~Live(s.map, k, t)
                  /\ k \in DOMAIN m
                  /\ m[k].expires = t + TTL
             /\ Verdict(s, k, t) \in Verdicts
             /\ Verdict(s, k, t) # "none"
<1> DEFINE m == Marked(s, k, t)
           c == s.map
           r == removeElements(c, {k})
<1>0. /\ IsCache(c, Keys, Units) /\ s.active \in Nat /\ CacheLen(c) \in Nat
      /\ CacheLen(c) <= s.active /\ s.active <= MaxEntries
      /\ MaxEntries \in Nat /\ IsFiniteSet(Keys)
      /\ TTL \in Int
  BY ConstantsAssumption DEF SweptAt
<1>1. /\ IsCache(r, Keys, Units)
      /\ DOMAIN r = DOMAIN c \ {k}
      /\ SameEntries(r, c, DOMAIN c \ {k})
      /\ CacheLen(r) <= CacheLen(c)
      /\ CacheLen(r) \in Nat
  BY <1>0, RemoveElements
<1>2. /\ IsCache(MoveToBack(c, k), Keys, Units)
      /\ DOMAIN MoveToBack(c, k) = DOMAIN c
      /\ SameEntries(MoveToBack(c, k), c, DOMAIN c)
      /\ CacheLen(MoveToBack(c, k)) = CacheLen(c)
  BY <1>0, MoveToBackEntries, Zenon
<1>3. \A x \in DOMAIN c : c[x].expires \in Int
  BY <1>0, Zenon DEF IsCache
<1>4. CASE Live(c, k, t)
  <2>1. m = MoveToBack(c, k)
    BY <1>4, Zenon DEF Marked, GetAt, AddIfAbsent
  <2>2. Verdict(s, k, t) = "ErrReplayDetected"
    BY <1>0, <1>4 DEF Verdict
  <2>3. NewActive(s, k, t) = s.active
    BY <2>2, Zenon DEF NewActive
  <2> QED
    BY <1>0, <1>2, <2>1, <2>2, <2>3, Zenon DEF Verdicts, SameEntries
<1>5. CASE ~Live(c, k, t) /\ s.active >= MaxEntries
  <2>1. m = r
    BY <1>5, Zenon DEF Marked, GetAt
  <2>2. Verdict(s, k, t) = "ErrReplayCacheFull"
    BY <1>0, <1>5, Zenon DEF Verdict
  <2>3. NewActive(s, k, t) = s.active
    BY <2>2, Zenon DEF NewActive
  <2>4. /\ IsCache(m, Keys, Units)
        /\ NewActive(s, k, t) \in Nat
        /\ CacheLen(m) <= NewActive(s, k, t)
        /\ NewActive(s, k, t) <= MaxEntries
    BY <1>0, <1>1, <2>1, <2>3
  <2>5. \A x \in DOMAIN c \ {k} : x \in DOMAIN m /\ m[x].expires = c[x].expires
    BY <1>1, <2>1, Zenon DEF SameEntries
  <2>6. \A x \in DOMAIN c : c[x].expires > t => x # k
    BY <1>5, Zenon DEF Live
  <2> HIDE DEF m
  <2> QED
    BY <2>2, <2>4, <2>5, <2>6, Zenon DEF Verdicts, m
<1>6. CASE ~Live(c, k, t) /\ ~(s.active >= MaxEntries)
  <2>1. m = setLocked(r, k, Unit, t + TTL, MaxEntries)
    BY <1>6, Zenon DEF Marked, AddIfAbsent
  <2>2. Verdict(s, k, t) = "ok"
    BY <1>0, <1>6, Zenon DEF Verdict
  <2>3. NewActive(s, k, t) = s.active + 1
    BY <2>2, Zenon DEF NewActive
  <2>4. HasRoom(r, MaxEntries)
    BY <1>0, <1>1, <1>6 DEF HasRoom
  <2>5. /\ IsCache(m, Keys, Units)
        /\ DOMAIN m = DOMAIN r \cup {k}
        /\ Holds(m, k, Unit, t + TTL)
        /\ SameEntries(m, r, DOMAIN r)
        /\ CacheLen(m) = CacheLen(r) + 1
    <3> DEFINE e == t + TTL
               q == setLocked(r, k, Unit, e, MaxEntries)
    <3>1. e \in Int /\ k \notin DOMAIN r /\ Unit \in Units
      BY <1>0, <1>1 DEF Units
    <3>2. IsCache(r, Keys, Units) /\ IsFiniteSet(Keys)
      BY <1>0, <1>1, Zenon
    <3> HIDE DEF r, e
    <3>3. IsCache(q, Keys, Units)
      BY <2>4, <3>1, <3>2, InsertWithRoom, Zenon
    <3>4. Holds(q, k, Unit, e)
      BY <2>4, <3>1, <3>2, InsertWithRoom, Zenon
    <3>5. SameEntries(q, r, DOMAIN r)
      BY <2>4, <3>1, <3>2, InsertWithRoom, Zenon
    <3>6. Gained(q, r, k)
      BY <2>4, <3>1, <3>2, InsertWithRoom, Zenon
    <3>7. m = q
      BY <2>1, Zenon DEF e
    <3> HIDE DEF m, q
    <3> QED
      BY <3>3, <3>4, <3>5, <3>6, <3>7, Zenon DEF Gained, e
  <2> HIDE DEF m, r
  <2>6. /\ CacheLen(m) <= NewActive(s, k, t)
        /\ NewActive(s, k, t) <= MaxEntries
        /\ NewActive(s, k, t) \in Nat
    BY <1>0, <1>1, <1>6, <2>3, <2>5
  <2>7. \A x \in DOMAIN c \ {k} : x \in DOMAIN m /\ m[x].expires = c[x].expires
    BY <1>1, <2>5, Zenon DEF SameEntries
  <2>8. \A x \in DOMAIN c : c[x].expires > t => x # k
    BY <1>6, Zenon DEF Live
  <2> QED
    BY <1>6, <2>2, <2>5, <2>6, <2>7, <2>8, Zenon DEF Verdicts, Holds, m
<1> QED
  BY <1>4, <1>5, <1>6, Zenon
-----------------------------------------------------------------------------
\* A frame a worker holds passed the window at agedAt, at most MaxStall ago.
InFlight ==
  \A w \in Workers : pc[w] = "aged" =>
    /\ frame[w] \in Keys
    /\ agedAt[w] <= now
    /\ now - agedAt[w] <= MaxStall
    /\ agedAt[w] - stamp[frame[w]] >= -Window
    /\ agedAt[w] - stamp[frame[w]] <= Window

CacheInv == TypeOK /\ ActiveBoundsStored /\ InFlight

\* The first moment after which frame k may be forgotten.
ForgetAt(k) == stamp[k] - Window + TTL

\* An admitted frame is stored until it may be forgotten.
Remembered ==
  \A k \in Keys : accepted[k] >= 1 =>
    \/ k \in DOMAIN entries /\ entries[k].expires >= ForgetAt(k)
    \/ now >= ForgetAt(k)

\* The empty cache satisfies the invariant.
LEMMA CacheInvInit == Init => CacheInv
<1> SUFFICES ASSUME Init PROVE CacheInv
  BY Zenon
<1>1. DOMAIN entries = {}
  BY Zenon DEF Init, EmptyCache
<1>2. CacheLen(entries) = 0
  BY <1>1, FS_EmptySet, Zenon DEF CacheLen
<1>3. IsCache(entries, Keys, Units)
  BY <1>1, Zenon DEF IsCache
<1>4. TypeOK
  BY <1>3, ConstantsAssumption DEF TypeOK, Init, Verdicts
<1>5. ActiveBoundsStored
  BY <1>2, ConstantsAssumption DEF ActiveBoundsStored, Init
<1>6. InFlight
  BY Zenon DEF InFlight, Init
<1> QED
  BY <1>4, <1>5, <1>6, Zenon DEF CacheInv

\* What Sweep does to the cache: exactly the expired nonces are gone.
LEMMA SweepNowEffect ==
  ASSUME CacheInv, SweepNow
  PROVE  /\ DOMAIN entries' = {k \in DOMAIN entries : entries[k].expires > now}
         /\ \A k \in DOMAIN entries' : entries'[k].expires = entries[k].expires
<1>1. now \in Int /\ IsCache(entries, Keys, Units)
  BY DEF CacheInv, TypeOK
<1>2. CacheLen(entries) \in Nat
  BY <1>1, RemoveElements, ConstantsAssumption, Zenon
<1>3. CacheLen(entries) <= MaxEntries
  BY <1>2, ConstantsAssumption DEF CacheInv, TypeOK, ActiveBoundsStored
<1>4. entries' = sweepLocked(entries, now).map
  BY Zenon DEF SweepNow
<1> QED
  BY <1>1, <1>3, <1>4, SweepLocked, Zenon

\* What one CheckAndMark does to the cache of the model, in terms of the
\* entries before it: the facts the invariants and the action property need.
LEMMA CheckAndMarkEffect ==
  ASSUME CacheInv, NEW w \in Workers, NEW t \in agedAt[w]..now,
         CheckAndMark(w, t)
  PROVE  /\ frame[w] \in Keys
         /\ t \in Nat
         /\ t <= now
         /\ t >= agedAt[w]
         /\ IsCache(entries', Keys, Units)
         /\ active' \in Nat
         /\ CacheLen(entries') <= active'
         /\ active' <= MaxEntries
         /\ verdict'[w] \in Verdicts
         /\ \A x \in DOMAIN entries : entries[x].expires > t =>
              x \in DOMAIN entries' /\ entries'[x].expires = entries[x].expires
         /\ \/ accepted' = accepted
            \/ /\ accepted' = [accepted EXCEPT ![frame[w]] = @ + 1]
               /\ ~Live(entries, frame[w], t)
               /\ frame[w] \in DOMAIN entries'
               /\ entries'[frame[w]].expires = t + TTL
<1> DEFINE k == frame[w]
           s == LimitSweep(t)
<1>1. /\ TypeOK /\ ActiveBoundsStored
      /\ k \in Keys
      /\ agedAt[w] \in Nat /\ now \in Nat
  BY Zenon DEF CacheInv, InFlight, CheckAndMark, TypeOK
<1>2. t \in Nat /\ t <= now /\ t >= agedAt[w]
  BY <1>1
<1>3. SweptAt(s, t)
  BY <1>1, <1>2, LimitSweepSwept
<1>4. /\ entries' = Marked(s, k, t)
      /\ active' = NewActive(s, k, t)
      /\ verdict' = [verdict EXCEPT ![w] = Verdict(s, k, t)]
      /\ accepted' = IF Verdict(s, k, t) = "ok"
                     THEN [accepted EXCEPT ![k] = @ + 1] ELSE accepted
  BY Zenon DEF CheckAndMark, NewActive
<1> HIDE DEF s, k
<1>5. /\ IsCache(entries', Keys, Units)
      /\ active' \in Nat
      /\ CacheLen(entries') <= active'
      /\ active' <= MaxEntries
      /\ \A x \in DOMAIN s.map : s.map[x].expires > t =>
           x \in DOMAIN entries' /\ entries'[x].expires = s.map[x].expires
      /\ Verdict(s, k, t) = "ok" =>
           /\ ~Live(s.map, k, t)
           /\ k \in DOMAIN entries'
           /\ entries'[k].expires = t + TTL
      /\ Verdict(s, k, t) \in Verdicts
  BY <1>1, <1>2, <1>3, <1>4, MarkedEntries
<1>6. verdict'[w] \in Verdicts
  BY <1>1, <1>4, <1>5, Zenon DEF TypeOK
<1>7. \A x \in DOMAIN entries : entries[x].expires > t =>
        x \in DOMAIN entries' /\ entries'[x].expires = entries[x].expires
  BY <1>3, <1>5, Zenon DEF SweptAt
<1>8. ~Live(s.map, k, t) => ~Live(entries, k, t)
  BY <1>3, Zenon DEF SweptAt, Live
<1>9. \/ accepted' = accepted
      \/ /\ accepted' = [accepted EXCEPT ![k] = @ + 1]
         /\ ~Live(entries, k, t)
         /\ k \in DOMAIN entries'
         /\ entries'[k].expires = t + TTL
  BY <1>4, <1>5, <1>8, Zenon
<1> QED
  BY <1>1, <1>2, <1>5, <1>6, <1>7, <1>9, Zenon DEF k

\* Every step preserves the invariant.
LEMMA CacheInvNext == CacheInv /\ [Next]_vars => CacheInv'
<1> SUFFICES ASSUME CacheInv, [Next]_vars PROVE CacheInv'
  BY Zenon
<1> USE ConstantsAssumption
<1>1. CASE Tick
  <2>1. TypeOK' /\ ActiveBoundsStored'
    BY <1>1 DEF CacheInv, Tick, TypeOK, ActiveBoundsStored
  <2>2. InFlight'
    BY <1>1 DEF CacheInv, Tick, TypeOK, InFlight
  <2> QED
    BY <2>1, <2>2, Zenon DEF CacheInv
<1>2. CASE SweepNow
  <2>1. CacheLen(entries) \in Nat /\ CacheLen(entries) <= MaxEntries
    <3>1. CacheLen(entries) \in Nat
      BY RemoveElements, Zenon DEF CacheInv, TypeOK
    <3> QED
      BY <3>1 DEF CacheInv, TypeOK, ActiveBoundsStored
  <2>2. /\ IsCache(entries', Keys, Units)
        /\ active' = CacheLen(entries')
        /\ active' \in Nat
        /\ active' <= MaxEntries
    BY <1>2, <2>1, SweepLocked DEF SweepNow, CacheInv, TypeOK
  <2>3. nextSweep' \in Nat
    BY <1>2 DEF SweepNow, CacheInv, TypeOK
  <2>4. TypeOK'
    BY <1>2, <2>2, <2>3, Zenon DEF SweepNow, CacheInv, TypeOK
  <2>5. ActiveBoundsStored'
    BY <2>2 DEF ActiveBoundsStored
  <2>6. InFlight'
    BY <1>2, Zenon DEF SweepNow, CacheInv, InFlight
  <2> QED
    BY <2>4, <2>5, <2>6, Zenon DEF CacheInv
<1>3. ASSUME NEW w \in Workers, NEW k \in Keys, validatePeerCommon(w, k)
      PROVE  CacheInv'
  <2>1. TypeOK'
    BY <1>3 DEF validatePeerCommon, CacheInv, TypeOK, Verdicts
  <2>2. ActiveBoundsStored'
    BY <1>3, Zenon DEF validatePeerCommon, CacheInv, ActiveBoundsStored
  <2>3. InFlight'
    BY <1>3 DEF validatePeerCommon, CacheInv, TypeOK, InFlight, Fresh
  <2> QED
    BY <2>1, <2>2, <2>3, Zenon DEF CacheInv
<1>4. ASSUME NEW w \in Workers, NEW t \in agedAt[w]..now, CheckAndMark(w, t)
      PROVE  CacheInv'
  <2>1. /\ frame[w] \in Keys
        /\ t \in Nat
        /\ IsCache(entries', Keys, Units)
        /\ active' \in Nat
        /\ CacheLen(entries') <= active'
        /\ active' <= MaxEntries
        /\ verdict'[w] \in Verdicts
        /\ \/ accepted' = accepted
           \/ accepted' = [accepted EXCEPT ![frame[w]] = @ + 1]
    BY <1>4, CheckAndMarkEffect, Zenon
  <2>2. /\ now' = now /\ stamp' = stamp /\ frame' = frame
        /\ pc' = [pc EXCEPT ![w] = "idle"]
        /\ agedAt' = [agedAt EXCEPT ![w] = 0]
        /\ nextSweep' \in {nextSweep, t + SweepEvery}
    BY <1>4, Zenon DEF CheckAndMark
  <2>3. \E v : verdict' = [verdict EXCEPT ![w] = v]
    BY <1>4, Zenon DEF CheckAndMark
  <2>4. verdict' \in [Workers -> Verdicts]
    BY <2>1, <2>3, Zenon DEF CacheInv, TypeOK
  <2>5. accepted' \in [Keys -> Nat]
    BY <2>1 DEF CacheInv, TypeOK
  <2>6. TypeOK'
    <3>1. nextSweep' \in Nat
      BY <2>1, <2>2 DEF CacheInv, TypeOK
    <3>2. /\ pc' \in [Workers -> {"idle", "aged"}]
          /\ agedAt' \in [Workers -> Nat]
      BY <2>2, Zenon DEF CacheInv, TypeOK
    <3> QED
      BY <2>1, <2>2, <2>4, <2>5, <3>1, <3>2, Zenon DEF CacheInv, TypeOK
  <2>7. InFlight'
    BY <2>2, Zenon DEF CacheInv, TypeOK, InFlight
  <2> QED
    BY <2>1, <2>6, <2>7, Zenon DEF CacheInv, ActiveBoundsStored
<1>5. CASE UNCHANGED vars
  BY <1>5, Zenon DEF vars, CacheInv, TypeOK, ActiveBoundsStored, InFlight
<1> QED
  BY <1>1, <1>2, <1>3, <1>4, <1>5, Zenon DEF Next

\* The state of the replay cache and of its callers keeps its types, for any
\* limits and any number of concurrent workers.
THEOREM TypeCorrect == Spec => []TypeOK
<1>1. CacheInv => TypeOK
  BY Zenon DEF CacheInv
<1> QED
  BY <1>1, CacheInvInit, CacheInvNext, PTL DEF Spec

\* The counter of CheckAndMark bounds the stored nonces from above and stays
\* within the limit, so that setLocked never evicts a nonce.
THEOREM CounterBounds == Spec => []ActiveBoundsStored
<1>1. CacheInv => ActiveBoundsStored
  BY Zenon DEF CacheInv
<1> QED
  BY <1>1, CacheInvInit, CacheInvNext, PTL DEF Spec

\* No step of CheckAndMark or Sweep drops or changes a nonce that has not
\* expired: the cache fails closed when it is full.
THEOREM LiveNoncesKept == Spec => KeepsLiveNonces
<1>1. CacheInv /\ [Next]_vars =>
        [\A k \in Keys :
           Live(entries, k, now) =>
             k \in DOMAIN entries' /\ entries'[k].expires = entries[k].expires
        ]_vars
  <2> DEFINE Keeps == \A k \in Keys :
                        Live(entries, k, now) =>
                          /\ k \in DOMAIN entries'
                          /\ entries'[k].expires = entries[k].expires
  <2> SUFFICES ASSUME CacheInv, Next PROVE Keeps
    BY Zenon
  <2>0. now \in Nat /\ \A k \in DOMAIN entries : entries[k].expires \in Int
    BY Zenon DEF CacheInv, TypeOK, IsCache
  <2>1. CASE Tick
    BY <2>1, Zenon DEF Tick, Live
  <2>2. CASE SweepNow
    BY <2>2, SweepNowEffect, Zenon DEF Live
  <2>3. ASSUME NEW w \in Workers, NEW k \in Keys, validatePeerCommon(w, k)
        PROVE  Keeps
    BY <2>3, Zenon DEF validatePeerCommon, Live
  <2>4. ASSUME NEW w \in Workers, NEW t \in agedAt[w]..now, CheckAndMark(w, t)
        PROVE  Keeps
    <3>1. /\ t \in Nat /\ t <= now
          /\ \A x \in DOMAIN entries : entries[x].expires > t =>
               /\ x \in DOMAIN entries'
               /\ entries'[x].expires = entries[x].expires
      BY <2>4, CheckAndMarkEffect, Zenon
    <3>2. \A x \in DOMAIN entries : entries[x].expires > now =>
            entries[x].expires > t
      BY <2>0, <3>1
    <3> QED
      BY <3>1, <3>2, Zenon DEF Live
  <2> QED
    BY <2>1, <2>2, <2>3, <2>4, Zenon DEF Next
<1> QED
  BY <1>1, CacheInvInit, CacheInvNext, PTL DEF Spec, KeepsLiveNonces

\* A frame is admitted at most once when the cache remembers a nonce longer
\* than the whole acceptance window and the longest delay between the
\* freshness check and CheckAndMark.  NewServer's TTL, twice the window
\* exactly, is not enough.
THEOREM AdmittedOnce ==
  ASSUME TTL > 2 * Window + MaxStall
  PROVE  Spec => []AcceptedOnce
<1> DEFINE Inv == CacheInv /\ Remembered /\ AcceptedOnce
<1> USE ConstantsAssumption
<1>1. Init => Inv
  BY CacheInvInit DEF Init, Remembered, AcceptedOnce
<1>2. Inv /\ [Next]_vars => Inv'
  <2> SUFFICES ASSUME Inv, [Next]_vars PROVE Remembered' /\ AcceptedOnce'
    BY CacheInvNext, Zenon
  <2>0. /\ now \in Nat
        /\ \A k \in Keys : stamp[k] \in Int /\ ForgetAt(k) \in Int
        /\ \A k \in Keys : accepted[k] \in Nat
        /\ \A k \in DOMAIN entries : entries[k].expires \in Int
    BY DEF CacheInv, TypeOK, IsCache, ForgetAt
  <2>1. CASE Tick
    BY <2>0, <2>1 DEF Tick, Remembered, AcceptedOnce, ForgetAt
  <2>2. CASE SweepNow
    <3>3. /\ DOMAIN entries' = {k \in DOMAIN entries : entries[k].expires > now}
          /\ \A k \in DOMAIN entries' : entries'[k].expires = entries[k].expires
      BY <2>2, SweepNowEffect, Zenon
    <3>4. /\ now' = now /\ stamp' = stamp /\ accepted' = accepted
      BY <2>2, Zenon DEF SweepNow
    <3> QED
      BY <2>0, <3>3, <3>4 DEF Remembered, AcceptedOnce, ForgetAt
  <2>3. ASSUME NEW w \in Workers, NEW k \in Keys, validatePeerCommon(w, k)
        PROVE  Remembered' /\ AcceptedOnce'
    BY <2>3, Zenon DEF validatePeerCommon, Remembered, AcceptedOnce, ForgetAt
  <2>4. ASSUME NEW w \in Workers, NEW t \in agedAt[w]..now, CheckAndMark(w, t)
        PROVE  Remembered' /\ AcceptedOnce'
    <3> DEFINE f == frame[w]
    <3>1. /\ f \in Keys
          /\ t \in Nat /\ t <= now /\ t >= agedAt[w]
          /\ \A x \in DOMAIN entries : entries[x].expires > t =>
               /\ x \in DOMAIN entries'
               /\ entries'[x].expires = entries[x].expires
          /\ \/ accepted' = accepted
             \/ /\ accepted' = [accepted EXCEPT ![f] = @ + 1]
                /\ ~Live(entries, f, t)
                /\ f \in DOMAIN entries'
                /\ entries'[f].expires = t + TTL
      BY <2>4, CheckAndMarkEffect, Zenon
    <3>2. /\ now' = now /\ stamp' = stamp
      BY <2>4, Zenon DEF CheckAndMark
    <3>3. /\ agedAt[w] \in Nat
          /\ now - agedAt[w] <= MaxStall
          /\ agedAt[w] - stamp[f] >= -Window
          /\ agedAt[w] - stamp[f] <= Window
      BY <2>4, Zenon DEF CheckAndMark, CacheInv, TypeOK, InFlight
    <3> HIDE DEF f
    <3>4. now < ForgetAt(f)
      BY <2>0, <3>1, <3>3 DEF ForgetAt
    <3>5. t + TTL >= ForgetAt(f)
      BY <2>0, <3>1, <3>3 DEF ForgetAt
    <3>6. ASSUME accepted' # accepted PROVE accepted[f] = 0
      BY <2>0, <3>1, <3>4, <3>6 DEF Remembered, Live
    <3>7. AcceptedOnce'
      BY <2>0, <3>1, <3>6 DEF AcceptedOnce, CacheInv, TypeOK
    <3>8. ASSUME NEW x \in Keys, accepted'[x] >= 1, ~(now >= ForgetAt(x))
          PROVE  x \in DOMAIN entries' /\ entries'[x].expires >= ForgetAt(x)
      <4>1. CASE accepted'[x] = accepted[x]
        <5>1. x \in DOMAIN entries /\ entries[x].expires >= ForgetAt(x)
          BY <3>8, <4>1, Zenon DEF Remembered
        <5>2. entries[x].expires > t
          BY <2>0, <3>1, <3>8, <5>1
        <5> QED
          BY <3>1, <5>1, <5>2, Zenon
      <4>2. CASE accepted'[x] # accepted[x]
        <5>1. x = f
          BY <2>0, <3>1, <4>2, Zenon DEF CacheInv, TypeOK
        <5> QED
          BY <3>1, <3>5, <4>2, <5>1, Zenon
      <4> QED
        BY <4>1, <4>2, Zenon
    <3>9. Remembered'
      BY <3>2, <3>8, Zenon DEF Remembered, ForgetAt
    <3> QED
      BY <3>7, <3>9, Zenon
  <2>5. CASE UNCHANGED vars
    BY <2>5, Zenon DEF vars, Remembered, AcceptedOnce, ForgetAt
  <2> QED
    BY <2>1, <2>2, <2>3, <2>4, <2>5, Zenon DEF Next
<1>3. Inv => AcceptedOnce
  BY Zenon
<1> QED
  BY <1>1, <1>2, <1>3, PTL DEF Spec

\* A cache that is still at its limit after the sweep at the limit holds that many
\* nonces that had not expired at t (sweepLocked made the counter exact).
LEMMA FullWhenSwept ==
  ASSUME TypeOK, ActiveBoundsStored, NEW t \in Int, NEW a \in Int, a <= t,
         LimitSweep(t).active >= MaxEntries
  PROVE  Cardinality({k \in Keys : Live(entries, k, a)}) >= MaxEntries
<1> DEFINE p == PeriodicSweep(t)
           l == LimitSweep(t)
           L == {k \in Keys : Live(entries, k, a)}
<1>1. CacheLen(entries) \in Nat /\ CacheLen(entries) <= MaxEntries
  <2>1. CacheLen(entries) \in Nat
    BY RemoveElements, ConstantsAssumption, Zenon DEF TypeOK
  <2> QED
    BY <2>1, ConstantsAssumption DEF ActiveBoundsStored, TypeOK
<1>2. /\ IsCache(p.map, Keys, Units) /\ CacheLen(p.map) <= MaxEntries
      /\ DOMAIN p.map \subseteq DOMAIN entries
      /\ \A k \in DOMAIN p.map : p.map[k].expires = entries[k].expires
  <2>1. CASE p = sweepLocked(entries, t)
    BY <1>1, <2>1, SweepLocked DEF TypeOK
  <2>2. CASE p = [map |-> entries, active |-> active]
    BY <1>1, <2>2 DEF TypeOK
  <2> QED
    BY <2>1, <2>2, Zenon DEF PeriodicSweep
<1>3. l = sweepLocked(p.map, t)
  BY Zenon DEF LimitSweep
<1> HIDE DEF p, l
<1>4. /\ l.active = Cardinality(DOMAIN l.map) /\ l.active \in Nat
      /\ DOMAIN l.map = {k \in DOMAIN p.map : p.map[k].expires > t}
  BY <1>2, <1>3, SweepLocked, Zenon DEF CacheLen
<1>5. DOMAIN l.map \subseteq L
  <2>1. DOMAIN entries \subseteq Keys /\ \A k \in DOMAIN entries : entries[k].expires \in Int
    BY Zenon DEF TypeOK, IsCache
  <2> QED
    BY <1>2, <1>4, <2>1 DEF Live
<1>6. IsFiniteSet(L)
  BY FS_Subset, ConstantsAssumption, Zenon
<1>7. Cardinality(DOMAIN l.map) <= Cardinality(L) /\ Cardinality(L) \in Nat
  BY <1>5, <1>6, FS_Subset, FS_CardinalityType, Zenon
<1>8. l.active >= MaxEntries
  BY Zenon DEF l
<1> HIDE DEF L
<1>9. Cardinality(L) >= MaxEntries
  BY <1>4, <1>7, <1>8, ConstantsAssumption
<1> QED
  BY <1>9, Zenon DEF L

\* FullOnlyWhenFull: CheckAndMark answers that the cache is full only when the
\* nonces that had not expired when the age was checked fill it, however far its
\* counter had drifted and whichever worker swept with whichever clock value.
THEOREM FullMeansFull == Spec => FullOnlyWhenFull
<1>1. CacheInv /\ [Next]_vars =>
        [\A w \in Workers :
           verdict'[w] = "ErrReplayCacheFull" /\ verdict[w] # verdict'[w] =>
             Cardinality({k \in Keys : Live(entries, k, agedAt[w])}) >= MaxEntries
        ]_vars
  <2> SUFFICES ASSUME CacheInv, Next, NEW w \in Workers,
                      verdict'[w] = "ErrReplayCacheFull", verdict[w] # verdict'[w]
               PROVE  Cardinality({k \in Keys : Live(entries, k, agedAt[w])}) >= MaxEntries
    BY Zenon
  <2>0. TypeOK /\ ActiveBoundsStored /\ verdict \in [Workers -> Verdicts]
    BY Zenon DEF CacheInv, TypeOK
  <2>1. ~Tick /\ ~SweepNow
    BY Zenon DEF Tick, SweepNow
  <2>2. \A u \in Workers, k \in Keys : ~validatePeerCommon(u, k)
    BY <2>0, Zenon DEF validatePeerCommon
  <2>a. PICK u \in Workers : \E t \in agedAt[u]..now : CheckAndMark(u, t)
    BY <2>1, <2>2, Zenon DEF Next
  <2>3. PICK t \in agedAt[u]..now : CheckAndMark(u, t)
    BY <2>a, Zenon
  <2>4. verdict' = [verdict EXCEPT ![u] = Verdict(LimitSweep(t), frame[u], t)]
    BY <2>3, Zenon DEF CheckAndMark
  <2>5. u = w /\ Verdict(LimitSweep(t), frame[u], t) = "ErrReplayCacheFull"
    BY <2>0, <2>4, Zenon
  <2>6. LimitSweep(t).active >= MaxEntries
    BY <2>5, Zenon DEF Verdict
  <2>7. agedAt[w] \in Nat /\ t \in Int /\ agedAt[w] <= t
    BY <2>0, <2>3, <2>5 DEF TypeOK
  <2> QED
    BY <2>0, <2>6, <2>7, FullWhenSwept
<1> QED
  BY <1>1, CacheInvInit, CacheInvNext, PTL DEF Spec, FullOnlyWhenFull
=============================================================================
