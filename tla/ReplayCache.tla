----------------------------- MODULE ReplayCache -----------------------------
(***************************************************************************)
(* Nonce admission: the freshness check and the replay cache that every    *)
(* TCP auth frame passes (auth/server.go validatePeerCommon, then          *)
(* auth/replay.go MemoryReplayCache.CheckAndMark), run by concurrent auth  *)
(* workers.  The knock listeners pass every frame through the same two     *)
(* checks (knock/binary_frame.go), with one worker.                        *)
(*                                                                         *)
(* A key is the cache key of one frame (client id and nonce).  A frame's   *)
(* timestamp is sealed together with its nonce, so a key has one timestamp *)
(* for ever; stamp gives it.  The same frame may be presented any number   *)
(* of times.  The code reads the clock three times for one frame without   *)
(* holding a lock: once for the age, once at the top of CheckAndMark, and  *)
(* the lock may be granted later still.                                    *)
(***************************************************************************)
EXTENDS TTLLRU

CONSTANTS
  Keys,        \* cache keys: client id and nonce of a frame
  NoFrame,     \* what a worker works on before its first frame
  Workers,     \* concurrent auth workers
  TTL,         \* MemoryReplayCache.ttl
  Window,      \* ServerConfig.TimeWindow
  MaxEntries,  \* MemoryReplayCache.maxEntries
  SweepEvery,  \* MemoryReplayCache.sweepEvery
  MaxStall,    \* bound: longest time from a frame's age check to its verdict
  MaxTime      \* bound: the clock stops here

ASSUME ConstantsAssumption ==
  /\ IsFiniteSet(Keys) /\ NoFrame \notin Keys
  /\ TTL \in Nat \ {0}
  /\ Window \in Nat
  /\ MaxEntries \in Nat \ {0}
  /\ SweepEvery \in 1..TTL
  /\ MaxStall \in Nat
  /\ MaxTime \in Nat

VARIABLES
  now,        \* the wall clock
  stamp,      \* [Keys -> Int]: the sealed timestamp of each frame
  entries,    \* MemoryReplayCache.entries
  active,     \* MemoryReplayCache.active
  nextSweep,  \* MemoryReplayCache.nextSweep, 0 for the zero time
  frame,      \* [Workers -> Keys \cup {NoFrame}]: the frame a worker works on
  pc,         \* [Workers -> {"idle", "aged"}]
  agedAt,     \* [Workers -> Nat]: the clock when the age was computed, 0 when idle
  verdict,    \* [Workers -> Verdicts]: what the last frame was told
  accepted    \* [Keys -> Nat]: how often a frame was admitted

vars == <<now, stamp, entries, active, nextSweep, frame, pc, agedAt, verdict,
          accepted>>

Verdicts == {"none", "ok", "ErrTimeSkew", "ErrReplayDetected",
             "ErrReplayCacheFull"}

\* The value stored with a nonce carries nothing: struct{}{}.
Unit == "unit"
Units == {Unit}

Init ==
  /\ now = 1
  /\ stamp \in [Keys -> 0..MaxTime]
  /\ entries = EmptyCache
  /\ active = 0
  /\ nextSweep = 0
  /\ frame = [w \in Workers |-> NoFrame]
  /\ pc = [w \in Workers |-> "idle"]
  /\ agedAt = [w \in Workers |-> 0]
  /\ verdict = [w \in Workers |-> "none"]
  /\ accepted = [k \in Keys |-> 0]

\* Time passes, but not while a frame has waited MaxStall for its verdict.
Tick ==
  /\ now < MaxTime
  /\ \A w \in Workers : pc[w] = "aged" => now - agedAt[w] < MaxStall
  /\ now' = now + 1
  /\ UNCHANGED <<stamp, entries, active, nextSweep, frame, pc, agedAt,
                 verdict, accepted>>

\* Mutant: a timestamp in the future counts as fresh.
FreshFuture(k) == now - stamp[k] <= Window

\* validatePeerCommon computes the age of the frame and compares it with the
\* window, both ends included.
Fresh(k) == now - stamp[k] >= -Window /\ now - stamp[k] <= Window

validatePeerCommon(w, k) ==
  /\ pc[w] = "idle"
  /\ frame' = [frame EXCEPT ![w] = k]
  /\ \/ /\ Fresh(k)
        /\ pc' = [pc EXCEPT ![w] = "aged"]
        /\ agedAt' = [agedAt EXCEPT ![w] = now]
        /\ verdict' = [verdict EXCEPT ![w] = "none"]
     \/ /\ ~Fresh(k)
        /\ verdict' = [verdict EXCEPT ![w] = "ErrTimeSkew"]
        /\ UNCHANGED <<pc, agedAt>>
  /\ UNCHANGED <<now, stamp, entries, active, nextSweep, accepted>>

\* sweepLocked: the counter is reset to what is left in the cache.
sweepLocked(c, t) == LET s == Sweep(c, t) IN [map |-> s, active |-> CacheLen(s)]

\* Mutant: the periodic sweep resets the counter to zero.
PeriodicSweepZero(t) ==
  IF nextSweep # 0 /\ t >= nextSweep
  THEN [map |-> Sweep(entries, t), active |-> 0]
  ELSE [map |-> entries, active |-> active]

\* The periodic sweep at the top of CheckAndMark, on the first call only armed.
PeriodicSweep(t) ==
  IF nextSweep # 0 /\ t >= nextSweep
  THEN sweepLocked(entries, t)
  ELSE [map |-> entries, active |-> active]

\* Mutant: a cache at its limit is not swept before it refuses.
LimitSweepSkipped(t) == PeriodicSweep(t)

\* A cache at its limit is swept once more before anything is refused.
LimitSweep(t) ==
  LET p == PeriodicSweep(t)
  IN  IF p.active >= MaxEntries THEN sweepLocked(p.map, t) ELSE p

\* nextSweep moves when it was unset, when it was due and at the limit.
SweepMoved(t) ==
  nextSweep = 0 \/ t >= nextSweep \/ PeriodicSweep(t).active >= MaxEntries

\* The rest of CheckAndMark for key k at time t, on a swept cache s.
Verdict(s, k, t) ==
  CASE s.active >= MaxEntries /\ Live(s.map, k, t)  -> "ErrReplayDetected"
    [] s.active >= MaxEntries /\ ~Live(s.map, k, t) -> "ErrReplayCacheFull"
    [] s.active < MaxEntries /\ Live(s.map, k, t)   -> "ErrReplayDetected"
    [] OTHER                                        -> "ok"

\* The cache afterwards: at the limit only looked up, else marked.
Marked(s, k, t) ==
  IF s.active >= MaxEntries
  THEN GetAt(s.map, k, t)
  ELSE AddIfAbsent(s.map, k, Unit, t + TTL, t, MaxEntries)

\* CheckAndMark: t is the clock value read before the mutex was taken.
CheckAndMark(w, t) ==
  LET k == frame[w]
      s == LimitSweep(t)
      v == Verdict(s, k, t)
  IN  /\ pc[w] = "aged"
      /\ entries' = Marked(s, k, t)
      /\ active' = IF v = "ok" THEN s.active + 1 ELSE s.active
      /\ nextSweep' = IF SweepMoved(t) THEN t + SweepEvery ELSE nextSweep
      /\ verdict' = [verdict EXCEPT ![w] = v]
      /\ accepted' = IF v = "ok" THEN [accepted EXCEPT ![k] = @ + 1]
                     ELSE accepted
      /\ pc' = [pc EXCEPT ![w] = "idle"]
      /\ agedAt' = [agedAt EXCEPT ![w] = 0]
      /\ UNCHANGED <<now, stamp, frame>>

\* MemoryReplayCache.Sweep, which an owner of the cache may call at any time.
SweepNow ==
  /\ entries' = sweepLocked(entries, now).map
  /\ active' = sweepLocked(entries, now).active
  /\ nextSweep' = now + SweepEvery
  /\ UNCHANGED <<now, stamp, frame, pc, agedAt, verdict, accepted>>

Next ==
  \/ Tick
  \/ SweepNow
  \/ \E w \in Workers :
       \/ \E k \in Keys : validatePeerCommon(w, k)
       \/ \E t \in agedAt[w]..now : CheckAndMark(w, t)

Spec == Init /\ [][Next]_vars
-----------------------------------------------------------------------------
\* The cache and the workers have their types.
TypeOK ==
  /\ now \in Nat
  /\ stamp \in [Keys -> Int]
  /\ IsCache(entries, Keys, Units)
  /\ active \in Nat
  /\ nextSweep \in Nat
  /\ frame \in [Workers -> Keys \cup {NoFrame}]
  /\ pc \in [Workers -> {"idle", "aged"}]
  /\ agedAt \in [Workers -> Nat]
  /\ verdict \in [Workers -> Verdicts]
  /\ accepted \in [Keys -> Nat]

\* The counter CheckAndMark compares with the limit never falls below the
\* number of stored nonces and never passes the limit.  The counter drifts
\* upwards when an expired nonce is stored again before a sweep; were it ever
\* too small, setLocked would evict a nonce that is still needed.
ActiveBoundsStored == CacheLen(entries) <= active /\ active <= MaxEntries

\* A frame is admitted at most once, however often it is presented, by
\* whatever worker and however the clock readings of validatePeerCommon and
\* CheckAndMark interleave with the sweeps.
AcceptedOnce == \A k \in Keys : accepted[k] <= 1

\* A nonce whose entry has not expired is not dropped, neither by a sweep nor
\* to make room: the cache refuses new nonces instead.  A worker that reads
\* the clock early may sweep with an older time, never with a later one.
KeepsLiveNonces ==
  [][\A k \in Keys :
       Live(entries, k, now) =>
         k \in DOMAIN entries' /\ entries'[k].expires = entries[k].expires]_vars

\* CheckAndMark refuses for lack of room only when as many nonces as the limit
\* are stored that had not expired when the call read the clock, although its
\* counter may be too high when the call starts.
FullOnlyWhenFull ==
  [][\A w \in Workers :
       verdict'[w] = "ErrReplayCacheFull" /\ verdict[w] # verdict'[w] =>
         Cardinality({k \in Keys : Live(entries, k, agedAt[w])}) >= MaxEntries
    ]_vars
=============================================================================
