----------------------------- MODULE AuthProofs -----------------------------
(***************************************************************************)
(* The authenticated side, for any number of dials, connections and        *)
(* workers and any settings.                                               *)
(*                                                                         *)
(* AuthHandshake first: a knock carries the session of its dial            *)
(* (HandshakeInv), the limiter's buckets bound what passed (LimitInv), and *)
(* the ban list drops no ban that is active (BanInv).                      *)
(*                                                                         *)
(* Then AuthListener: every connection that is open is in one pair of      *)
(* hands (OwnerInv), a slot is held for exactly the connections that are   *)
(* queued or authenticating (SlotInv), and what is being authenticated and *)
(* still open is in flight (FlightInv).                                    *)
(***************************************************************************)
EXTENDS AuthHandshake, AuthListener, TTLLRUTheorems

Types ==
  /\ now \in Nat /\ source \in [Dials -> Keys]
  /\ dial \in [Dials -> {"start", "knock", "dial", "proof", "ok", "failed"}]
  /\ srv \in [Dials -> {"none", "policy", "limiter", "ban", "read", "answer",
                        "ok", "failed"}]
  /\ conn \in [Dials -> {"none", "open", "proof", "closed"}]

\* One dial at a time is between SetSessionID and the end of Knock, and the
\* sender holds its session id; a knock is under way, at the server or spent.
ClientInv ==
  /\ \A d \in Dials : d \in holder <=> dial[d] = "knock"
  /\ \A d \in holder : d \in Dials /\ session = {d}
  /\ \A d \in Dials : dial[d] \in {"start", "knock"} => d \notin knocked
  /\ \A d \in Dials : dial[d] \in {"dial", "proof", "ok"} => d \in knocked
  /\ \A d \in Dials : d \in udp \cup tickets => d \in knocked
  /\ \A d \in Dials : ~(d \in udp /\ d \in tickets)

\* What the server has done for a connection, against what the dial knows.
ServerInv ==
  \A d \in Dials :
    /\ srv[d] # "none" => dial[d] \in {"proof", "ok", "failed"}
    /\ srv[d] \in {"answer", "ok"} => d \in knocked /\ d \notin udp \cup tickets
    /\ conn[d] = "proof" => srv[d] = "ok"
    /\ RequireServerProof /\ dial[d] = "ok" => srv[d] = "ok"

HandshakeInv == Types /\ ClientInv /\ ServerInv

-----------------------------------------------------------------------------
\* The limiter.  What it let pass of a source, and what of it is later than a call
\* that began the bucket can have been.
PassedOf(k) == {g \in granted : source[g[1]] = k}
LateOf(k) == {g \in PassedOf(k) : g[2] > buckets[k].start + MaxStall}

GrantInv ==
  /\ IsFiniteSet(granted)
  /\ \A g \in granted : g[2] \in Nat /\ g[2] <= now /\ g[2] > now - Stretch

BucketInv ==
  /\ DOMAIN buckets \subseteq Keys /\ Cardinality(DOMAIN buckets) <= MaxBuckets
  /\ \A k \in DOMAIN buckets : buckets[k] \in [start : Nat, used : 1..Limit]

\* A bucket counts the call that began it and every later one, and before it there
\* was one bucket whose first call is forgotten.
WindowInv ==
  /\ \A k \in Keys \ DOMAIN buckets : Cardinality(PassedOf(k)) <= Limit - 1
  /\ \A k \in DOMAIN buckets :
       /\ Cardinality(LateOf(k)) <= buckets[k].used - 1
       /\ Cardinality(PassedOf(k)) <= Limit - 1 + buckets[k].used

LimitInv == GrantInv /\ BucketInv /\ WindowInv

\* The settings of the limiter are numbers.
LEMMA LimiterNumbers ==
  /\ Limit \in Nat \ {0} /\ Every \in Nat /\ MaxStall \in Nat /\ MaxBuckets \in Nat
  /\ Stretch \in Nat \ {0} /\ Stretch + MaxStall = Every /\ IsFiniteSet(Keys)
  BY HandshakeAssumption DEF Stretch

\* The counts are numbers.
LEMMA PassedCounts ==
  ASSUME GrantInv, NEW k
  PROVE  /\ IsFiniteSet(PassedOf(k)) /\ Cardinality(PassedOf(k)) \in Nat
         /\ IsFiniteSet(LateOf(k)) /\ Cardinality(LateOf(k)) \in Nat
<1>1. PassedOf(k) \subseteq granted /\ LateOf(k) \subseteq granted
  BY Zenon DEF PassedOf, LateOf
<1>2. IsFiniteSet(PassedOf(k)) /\ IsFiniteSet(LateOf(k))
  BY <1>1, FS_Subset, Zenon DEF GrantInv
<1> QED
  BY <1>2, FS_CardinalityType, Zenon

\* Once a bucket has run out, all that is left of its source came after its first
\* call: the limiter may forget the bucket.
LEMMA RanOutForgets ==
  ASSUME LimitInv, now \in Nat, NEW k \in DOMAIN buckets, NEW t \in Nat, t <= now,
         RanOut(buckets[k], t)
  PROVE  Cardinality(PassedOf(k)) <= Limit - 1
<1>1. buckets[k].start \in Nat /\ buckets[k].used \in 1..Limit
  BY Zenon DEF LimitInv, BucketInv
<1>2. now - Stretch >= buckets[k].start + MaxStall
  BY <1>1, LimiterNumbers DEF RanOut
<1>3. \A g \in PassedOf(k) : g[2] \in Nat /\ g[2] > now - Stretch
  BY Zenon DEF LimitInv, GrantInv, PassedOf
<1>4. \A g \in PassedOf(k) : g[2] > buckets[k].start + MaxStall
  BY <1>1, <1>2, <1>3, LimiterNumbers
<1>5. LateOf(k) = PassedOf(k)
  BY <1>4, Zenon DEF LateOf
<1>6. Cardinality(LateOf(k)) <= buckets[k].used - 1
  BY Zenon DEF LimitInv, WindowInv
<1> QED
  BY <1>1, <1>5, <1>6, PassedCounts, LimiterNumbers DEF LimitInv

\* Sweeps forget buckets that have run out and change none.
LEMMA KeptBuckets ==
  ASSUME NEW t
  PROVE  /\ DOMAIN Kept(t) \subseteq DOMAIN buckets
         /\ \A x \in DOMAIN Kept(t) : Kept(t)[x] = buckets[x]
         /\ \A x \in DOMAIN buckets \ DOMAIN Kept(t) : RanOut(buckets[x], t)
  BY Zenon DEF Kept, RestrictValues, Restrict

\* Time passes: what the limiter let pass gets less.
LEMMA LimitTick == ASSUME LimitInv, HandshakeInv, Tick PROVE LimitInv'
<1>1. /\ now \in Nat /\ now' = now + 1 /\ UNCHANGED <<source, buckets>>
      /\ granted' = {g \in granted : g[2] > now' - Stretch}
  BY Zenon DEF Tick, HandshakeInv, Types, clientVars
<1>2. GrantInv'
  <2>1. IsFiniteSet(granted')
    BY <1>1, FS_Subset, Zenon DEF LimitInv, GrantInv
  <2>2. \A g \in granted' : g[2] \in Nat /\ g[2] <= now' /\ g[2] > now' - Stretch
    BY <1>1 DEF LimitInv, GrantInv
  <2> QED
    BY <2>1, <2>2, Zenon DEF GrantInv
<1>3. BucketInv'
  BY <1>1, Zenon DEF LimitInv, BucketInv
<1>4. ASSUME NEW k \in Keys
      PROVE  /\ Cardinality(PassedOf(k)') <= Cardinality(PassedOf(k))
             /\ Cardinality(LateOf(k)') <= Cardinality(LateOf(k))
             /\ Cardinality(PassedOf(k)') \in Nat /\ Cardinality(LateOf(k)') \in Nat
             /\ Cardinality(PassedOf(k)) \in Nat /\ Cardinality(LateOf(k)) \in Nat
  <2>1. PassedOf(k)' \subseteq PassedOf(k)
    BY <1>1, Zenon DEF PassedOf
  <2>2. LateOf(k)' \subseteq LateOf(k)
    BY <1>1, <2>1, Zenon DEF LateOf
  <2>3. /\ IsFiniteSet(PassedOf(k)) /\ Cardinality(PassedOf(k)) \in Nat
        /\ IsFiniteSet(LateOf(k)) /\ Cardinality(LateOf(k)) \in Nat
    BY PassedCounts, Zenon DEF LimitInv
  <2>4. /\ Cardinality(PassedOf(k)') <= Cardinality(PassedOf(k))
        /\ IsFiniteSet(PassedOf(k)')
    BY <2>1, <2>3, FS_Subset, Zenon
  <2>5. /\ Cardinality(LateOf(k)') <= Cardinality(LateOf(k))
        /\ IsFiniteSet(LateOf(k)')
    BY <2>2, <2>3, FS_Subset, Zenon
  <2> QED
    BY <2>3, <2>4, <2>5, FS_CardinalityType, Zenon
<1>5. WindowInv'
  <2>1. ASSUME NEW k \in Keys \ DOMAIN buckets
        PROVE  Cardinality(PassedOf(k)') <= Limit - 1
    BY <1>4, LimiterNumbers DEF LimitInv, WindowInv
  <2>2. ASSUME NEW k \in DOMAIN buckets
        PROVE  /\ Cardinality(LateOf(k)') <= buckets[k].used - 1
               /\ Cardinality(PassedOf(k)') <= Limit - 1 + buckets[k].used
    <3>1. k \in Keys /\ buckets[k].used \in Nat
      BY LimiterNumbers DEF LimitInv, BucketInv
    <3>2. /\ Cardinality(LateOf(k)) <= buckets[k].used - 1
          /\ Cardinality(PassedOf(k)) <= Limit - 1 + buckets[k].used
      BY Zenon DEF LimitInv, WindowInv
    <3> QED
      BY <3>1, <3>2, <1>4, LimiterNumbers
  <2> QED
    BY <2>1, <2>2, <1>1, Zenon DEF WindowInv
<1> QED
  BY <1>2, <1>3, <1>5, Zenon DEF LimitInv

\* What the limiter holds of a source after a call with time t for dial d, either
\* for another source or refused: the same, or nothing for a bucket that ran out.
LEMMA LimitOthers ==
  ASSUME LimitInv, now \in Nat, NEW t \in Nat, t <= now, NEW k \in Keys,
         UNCHANGED now, PassedOf(k)' = PassedOf(k),
         k \in DOMAIN buckets' <=> k \in DOMAIN Kept(t),
         k \in DOMAIN buckets' => buckets'[k] = buckets[k]
  PROVE  /\ k \notin DOMAIN buckets' => Cardinality(PassedOf(k)') <= Limit - 1
         /\ k \in DOMAIN buckets' =>
              /\ Cardinality(LateOf(k)') <= buckets'[k].used - 1
              /\ Cardinality(PassedOf(k)') <= Limit - 1 + buckets'[k].used
<1>1. CASE k \in DOMAIN buckets'
  <2>1. k \in DOMAIN buckets
    BY <1>1, KeptBuckets, Zenon
  <2>2. LateOf(k)' = LateOf(k)
    BY <1>1, Zenon DEF LateOf
  <2> QED
    BY <1>1, <2>1, <2>2, Zenon DEF LimitInv, WindowInv
<1>2. CASE k \notin DOMAIN buckets
  BY <1>2, KeptBuckets, Zenon DEF LimitInv, WindowInv
<1>3. CASE k \in DOMAIN buckets /\ k \notin DOMAIN buckets'
  <2>1. RanOut(buckets[k], t)
    BY <1>3, KeptBuckets, Zenon
  <2> QED
    BY <1>3, <2>1, RanOutForgets, Zenon
<1> QED
  BY <1>1, <1>2, <1>3, Zenon

\* AllowAt refuses, with whatever its sweeps forgot.
LEMMA LimitRefuses ==
  ASSUME LimitInv, HandshakeInv, NEW t \in Nat, t <= now,
         buckets' = Kept(t), UNCHANGED <<now, source, granted>>
  PROVE  LimitInv'
<1>0. now \in Nat
  BY Zenon DEF HandshakeInv, Types
<1>1. GrantInv'
  BY Zenon DEF LimitInv, GrantInv
<1>2. /\ DOMAIN buckets' \subseteq DOMAIN buckets
      /\ \A k \in DOMAIN buckets' : buckets'[k] = buckets[k]
  BY KeptBuckets, Zenon
<1>3. BucketInv'
  <2>1. IsFiniteSet(DOMAIN buckets)
    BY FS_Subset, LimiterNumbers, Zenon DEF LimitInv, BucketInv
  <2>2. /\ Cardinality(DOMAIN buckets') <= Cardinality(DOMAIN buckets)
        /\ IsFiniteSet(DOMAIN buckets')
    BY <1>2, <2>1, FS_Subset, Zenon
  <2>3. Cardinality(DOMAIN buckets) \in Nat /\ Cardinality(DOMAIN buckets') \in Nat
    BY <2>1, <2>2, FS_CardinalityType, Zenon
  <2> QED
    BY <1>2, <2>2, <2>3, LimiterNumbers DEF LimitInv, BucketInv
<1>4. ASSUME NEW k \in Keys
      PROVE  /\ k \notin DOMAIN buckets' => Cardinality(PassedOf(k)') <= Limit - 1
             /\ k \in DOMAIN buckets' =>
                  /\ Cardinality(LateOf(k)') <= buckets'[k].used - 1
                  /\ Cardinality(PassedOf(k)') <= Limit - 1 + buckets'[k].used
  <2>1. PassedOf(k)' = PassedOf(k)
    BY Zenon DEF PassedOf
  <2> QED
    BY <1>0, <1>2, <2>1, LimitOthers, Zenon
<1>5. WindowInv'
  BY <1>3, <1>4, Zenon DEF WindowInv, BucketInv
<1> QED
  BY <1>1, <1>3, <1>5, Zenon DEF LimitInv

\* A call that passes is one more of its source.
LEMMA PassedGrows ==
  ASSUME GrantInv, NEW d, NEW k, k = source[d], NEW g, g = <<d, now>>,
         granted' = granted \cup {g}, UNCHANGED source
  PROVE  /\ PassedOf(k)' = PassedOf(k) \cup {g}
         /\ Cardinality(PassedOf(k)') <= Cardinality(PassedOf(k)) + 1
         /\ Cardinality(PassedOf(k)') \in Nat /\ Cardinality(PassedOf(k)) \in Nat
<1>1. PassedOf(k)' = PassedOf(k) \cup {g}
  BY DEF PassedOf
<1>2. IsFiniteSet(PassedOf(k)) /\ Cardinality(PassedOf(k)) \in Nat
  BY PassedCounts, Zenon
<1>3. Cardinality(PassedOf(k) \cup {g}) \in
        {Cardinality(PassedOf(k)), Cardinality(PassedOf(k)) + 1}
  BY <1>2, FS_AddElement, Zenon
<1> QED
  BY <1>1, <1>2, <1>3

\* The call begins a bucket: of what passed before it, the bucket before it has let
\* pass all but its first, and nothing is late yet.
LEMMA BucketBegins ==
  ASSUME LimitInv, GrantInv', now \in Nat, now' = now, NEW k \in Keys,
         NEW t \in Nat, t <= now, now <= t + MaxStall,
         k \in DOMAIN buckets => RanOut(buckets[k], t),
         buckets'[k].start = t, buckets'[k].used = 1,
         Cardinality(PassedOf(k)') <= Cardinality(PassedOf(k)) + 1,
         Cardinality(PassedOf(k)') \in Nat, Cardinality(PassedOf(k)) \in Nat
  PROVE  /\ Cardinality(LateOf(k)') <= buckets'[k].used - 1
         /\ Cardinality(PassedOf(k)') <= Limit - 1 + buckets'[k].used
<1>1. Cardinality(PassedOf(k)) <= Limit - 1
  <2>1. CASE k \notin DOMAIN buckets
    BY <2>1, Zenon DEF LimitInv, WindowInv
  <2>2. CASE k \in DOMAIN buckets
    BY <2>2, RanOutForgets, Zenon
  <2> QED
    BY <2>1, <2>2, Zenon
<1>2. LateOf(k)' = {}
  <2>1. \A h \in PassedOf(k)' : h[2] \in Nat /\ h[2] <= now
    BY Zenon DEF GrantInv, PassedOf
  <2>2. LateOf(k)' = {h \in PassedOf(k)' : h[2] > t + MaxStall}
    BY Zenon DEF LateOf
  <2> QED
    BY <2>1, <2>2, LimiterNumbers
<1>3. Cardinality(LateOf(k)') = 0
  BY <1>2, FS_EmptySet, Zenon
<1> QED
  BY <1>1, <1>3, LimiterNumbers

\* The call is counted by a bucket that has not run out.
LEMMA BucketCounts ==
  ASSUME LimitInv, NEW k \in DOMAIN buckets, NEW g,
         buckets'[k].start = buckets[k].start,
         buckets'[k].used = buckets[k].used + 1,
         PassedOf(k)' = PassedOf(k) \cup {g},
         Cardinality(PassedOf(k)') <= Cardinality(PassedOf(k)) + 1,
         Cardinality(PassedOf(k)') \in Nat, Cardinality(PassedOf(k)) \in Nat
  PROVE  /\ Cardinality(LateOf(k)') <= buckets'[k].used - 1
         /\ Cardinality(PassedOf(k)') <= Limit - 1 + buckets'[k].used
<1>1. /\ Cardinality(LateOf(k)) <= buckets[k].used - 1
      /\ Cardinality(PassedOf(k)) <= Limit - 1 + buckets[k].used
      /\ buckets[k].used \in Nat
  BY LimiterNumbers DEF LimitInv, WindowInv, BucketInv
<1>2. LateOf(k)' \subseteq LateOf(k) \cup {g}
  BY Zenon DEF LateOf
<1>3. IsFiniteSet(LateOf(k)) /\ Cardinality(LateOf(k)) \in Nat
  BY PassedCounts, Zenon DEF LimitInv
<1>4. /\ IsFiniteSet(LateOf(k) \cup {g})
      /\ Cardinality(LateOf(k) \cup {g}) \in
           {Cardinality(LateOf(k)), Cardinality(LateOf(k)) + 1}
  BY <1>3, FS_AddElement, Zenon
<1>5. /\ Cardinality(LateOf(k)') <= Cardinality(LateOf(k) \cup {g})
      /\ IsFiniteSet(LateOf(k)')
  BY <1>2, <1>4, FS_Subset, Zenon
<1>6. Cardinality(LateOf(k)') \in Nat
  BY <1>5, FS_CardinalityType, Zenon
<1>7. Cardinality(LateOf(k)') <= Cardinality(LateOf(k)) + 1
  BY <1>3, <1>4, <1>5, <1>6
<1> QED
  BY <1>1, <1>3, <1>6, <1>7, LimiterNumbers

\* A limiter that is not full for a source has room for its bucket.
LEMMA BucketFits ==
  ASSUME BucketInv, NEW k \in Keys, NEW t, ~Full(Kept(t), k),
         NEW b \in [start : Nat, used : 1..Limit],
         DOMAIN buckets' = DOMAIN Kept(t) \cup {k}, buckets'[k] = b,
         \A x \in DOMAIN buckets' \ {k} : buckets'[x] = buckets[x]
  PROVE  BucketInv'
<1>0. DOMAIN Kept(t) \subseteq DOMAIN buckets
  BY KeptBuckets, Zenon
<1>1. IsFiniteSet(DOMAIN buckets)
  BY FS_Subset, LimiterNumbers, Zenon DEF BucketInv
<1>2. /\ Cardinality(DOMAIN Kept(t)) <= Cardinality(DOMAIN buckets)
      /\ IsFiniteSet(DOMAIN Kept(t))
  BY <1>0, <1>1, FS_Subset, Zenon
<1>3. Cardinality(DOMAIN buckets) \in Nat /\ Cardinality(DOMAIN Kept(t)) \in Nat
  BY <1>1, <1>2, FS_CardinalityType, Zenon
<1>4. Cardinality(DOMAIN buckets') <= MaxBuckets
  <2>1. CASE k \in DOMAIN Kept(t)
    <3>1. DOMAIN buckets' = DOMAIN Kept(t)
      BY <2>1, Zenon
    <3>2. Cardinality(DOMAIN buckets) <= MaxBuckets
      BY Zenon DEF BucketInv
    <3> QED
      BY <3>1, <3>2, <1>2, <1>3, LimiterNumbers
  <2>2. CASE k \notin DOMAIN Kept(t)
    <3>1. Cardinality(DOMAIN buckets') = Cardinality(DOMAIN Kept(t)) + 1
      BY <1>2, <2>2, FS_AddElement, Zenon
    <3>2. ~(Cardinality(DOMAIN Kept(t)) >= MaxBuckets)
      BY <2>2, Zenon DEF Full
    <3> QED
      BY <3>1, <3>2, <1>3, LimiterNumbers
  <2> QED
    BY <2>1, <2>2, Zenon
<1>5. DOMAIN buckets' \subseteq Keys
  BY <1>0, Zenon DEF BucketInv
<1>6. \A x \in DOMAIN buckets' : buckets'[x] \in [start : Nat, used : 1..Limit]
  BY <1>0, Zenon DEF BucketInv
<1> QED
  BY <1>4, <1>5, <1>6, Zenon DEF BucketInv

\* AllowAt lets dial d of source k pass with time t: the source has bucket b then.
Passes(d, k, t, b) ==
  /\ k = source[d] /\ ~Full(Kept(t), k)
  /\ DOMAIN buckets' = DOMAIN Kept(t) \cup {k} /\ buckets'[k] = b
  /\ \A x \in DOMAIN buckets' \ {k} : buckets'[x] = buckets[x]
  /\ granted' = granted \cup {<<d, now>>} /\ UNCHANGED <<now, source>>

\* The bucket is a new one, for a source without or with one that has run out; or it
\* is the one there was.
NewBucket(k, t, b) ==
  /\ k \notin DOMAIN Kept(t) \/ RanOut(Kept(t)[k], t)
  /\ b = [start |-> t, used |-> 1]
OldBucket(k, t, b) ==
  /\ k \in DOMAIN Kept(t) /\ b.start = buckets[k].start
  /\ b.used = buckets[k].used + 1

\* What a call that passes changes for its source, with a new bucket or the old one.
LEMMA PassesHere ==
  ASSUME LimitInv, GrantInv', now \in Nat, NEW d \in Dials, NEW k \in Keys,
         NEW t \in Nat, t <= now, now <= t + MaxStall, NEW b, Passes(d, k, t, b),
         NewBucket(k, t, b) \/ OldBucket(k, t, b)
  PROVE  /\ Cardinality(LateOf(k)') <= buckets'[k].used - 1
         /\ Cardinality(PassedOf(k)') <= Limit - 1 + buckets'[k].used
<1>1. PICK g : g = <<d, now>>
  BY Zenon
<1>2. /\ PassedOf(k)' = PassedOf(k) \cup {g}
      /\ Cardinality(PassedOf(k)') <= Cardinality(PassedOf(k)) + 1
      /\ Cardinality(PassedOf(k)') \in Nat /\ Cardinality(PassedOf(k)) \in Nat
  <2>1. GrantInv
    BY Zenon DEF LimitInv
  <2>2. k = source[d] /\ granted' = granted \cup {g} /\ UNCHANGED source
    BY <1>1, Zenon DEF Passes
  <2> QED
    BY <1>1, <2>1, <2>2, PassedGrows
<1>3. CASE NewBucket(k, t, b)
  <2>1. k \in DOMAIN buckets => RanOut(buckets[k], t)
    BY <1>3, KeptBuckets, Zenon DEF NewBucket
  <2>2. buckets'[k].start = t /\ buckets'[k].used = 1 /\ now' = now
    BY <1>3 DEF NewBucket, Passes
  <2> QED
    BY <1>2, <2>1, <2>2, BucketBegins, Zenon
<1>4. CASE OldBucket(k, t, b)
  <2>1. /\ k \in DOMAIN buckets /\ buckets'[k].start = buckets[k].start
        /\ buckets'[k].used = buckets[k].used + 1
    BY <1>4, KeptBuckets, Zenon DEF OldBucket, Passes
  <2> QED
    BY <1>2, <2>1, BucketCounts, Zenon
<1> QED
  BY <1>3, <1>4, Zenon

\* Other sources keep what they have, or lose a bucket that has run out.
LEMMA PassesElsewhere ==
  ASSUME LimitInv, now \in Nat, NEW d \in Dials, NEW k \in Keys,
         NEW t \in Nat, t <= now, NEW b, Passes(d, k, t, b), NEW x \in Keys \ {k}
  PROVE  /\ x \notin DOMAIN buckets' => Cardinality(PassedOf(x)') <= Limit - 1
         /\ x \in DOMAIN buckets' =>
              /\ Cardinality(LateOf(x)') <= buckets'[x].used - 1
              /\ Cardinality(PassedOf(x)') <= Limit - 1 + buckets'[x].used
<1>1. PassedOf(x)' = PassedOf(x) /\ now' = now
  BY DEF PassedOf, Passes
<1>2. x \in DOMAIN buckets' <=> x \in DOMAIN Kept(t)
  BY Zenon DEF Passes
<1>3. x \in DOMAIN buckets' => buckets'[x] = buckets[x]
  BY Zenon DEF Passes
<1> QED
  BY <1>1, <1>2, <1>3, LimitOthers, Zenon

\* A call that passes keeps the limiter's invariant.
LEMMA LimitPasses ==
  ASSUME LimitInv, now \in Nat, NEW d \in Dials, NEW k \in Keys,
         NEW t \in Nat, t <= now, now <= t + MaxStall,
         NEW b \in [start : Nat, used : 1..Limit], Passes(d, k, t, b),
         NewBucket(k, t, b) \/ OldBucket(k, t, b)
  PROVE  LimitInv'
<1>1. GrantInv'
  <2>1. /\ IsFiniteSet(granted)
        /\ \A g \in granted : g[2] \in Nat /\ g[2] <= now /\ g[2] > now - Stretch
    BY Zenon DEF LimitInv, GrantInv
  <2>2. granted' = granted \cup {<<d, now>>} /\ now' = now
    BY Zenon DEF Passes
  <2>3. IsFiniteSet(granted')
    BY <2>1, <2>2, FS_AddElement, Zenon
  <2>4. now > now - Stretch /\ now <= now
    BY LimiterNumbers
  <2> QED
    BY <2>1, <2>2, <2>3, <2>4 DEF GrantInv
<1>2. BucketInv'
  <2>1. BucketInv
    BY Zenon DEF LimitInv
  <2> QED
    BY <2>1, BucketFits, Zenon DEF Passes
<1>3. WindowInv'
  <2>1. \A x \in Keys \ DOMAIN buckets' : Cardinality(PassedOf(x)') <= Limit - 1
    <3>1. k \in DOMAIN buckets'
      BY Zenon DEF Passes
    <3> QED
      BY <3>1, PassesElsewhere, Zenon
  <2>2. ASSUME NEW x \in DOMAIN buckets'
        PROVE  /\ Cardinality(LateOf(x)') <= buckets'[x].used - 1
               /\ Cardinality(PassedOf(x)') <= Limit - 1 + buckets'[x].used
    <3>1. x \in Keys
      BY <1>2, Zenon DEF BucketInv
    <3>2. CASE x = k
      BY <1>1, <3>2, PassesHere, Zenon
    <3>3. CASE x # k
      BY <3>1, <3>3, PassesElsewhere, Zenon
    <3> QED
      BY <3>2, <3>3, Zenon
  <2> QED
    BY <2>1, <2>2, Zenon DEF WindowInv
<1> QED
  BY <1>1, <1>2, <1>3, Zenon DEF LimitInv

\* The limiter decides on a call.
LEMMA LimitAllowAt ==
  ASSUME LimitInv, HandshakeInv, NEW d \in Dials, AllowAt(d)
  PROVE  LimitInv'
<1>0. PICK k \in Keys : k = source[d]
  BY Zenon DEF HandshakeInv, Types
<1> DEFINE fresh(t) == k \notin DOMAIN Kept(t) \/ RanOut(Kept(t)[k], t)
           ok(t) == ~Full(Kept(t), k) /\ (fresh(t) \/ Kept(t)[k].used < Limit)
           bucket(t) == IF fresh(t) THEN [start |-> t, used |-> 1]
                        ELSE [Kept(t)[k] EXCEPT !.used = @ + 1]
<1>1. PICK t \in Times :
        /\ buckets' = IF ~ok(t) THEN Kept(t)
                      ELSE [x \in DOMAIN Kept(t) \cup {k} |->
                              IF x # k THEN Kept(t)[x] ELSE bucket(t)]
        /\ granted' = IF ok(t) THEN granted \cup {<<d, now>>} ELSE granted
  BY <1>0, Zenon DEF AllowAt
<1>2. /\ now \in Nat /\ t \in Nat /\ t <= now /\ now <= t + MaxStall
      /\ UNCHANGED <<now, source>>
  BY LimiterNumbers DEF AllowAt, clientVars, Times, HandshakeInv, Types
<1>3. CASE ~ok(t)
  BY <1>1, <1>2, <1>3, LimitRefuses, Zenon
<1>4. CASE ok(t)
  <2>1. k \in DOMAIN Kept(t) =>
          /\ Kept(t)[k] = buckets[k] /\ buckets[k] \in [start : Nat, used : 1..Limit]
    BY KeptBuckets, Zenon DEF LimitInv, BucketInv
  <2>2. /\ bucket(t) \in [start : Nat, used : 1..Limit]
        /\ \/ fresh(t) /\ bucket(t) = [start |-> t, used |-> 1]
           \/ /\ k \in DOMAIN Kept(t) /\ bucket(t).start = buckets[k].start
              /\ bucket(t).used = buckets[k].used + 1
    <3>1. CASE fresh(t)
      <4>1. bucket(t) = [start |-> t, used |-> 1]
        BY <3>1, Zenon
      <4>2. [start |-> t, used |-> 1] \in [start : Nat, used : 1..Limit]
        BY <1>2, LimiterNumbers
      <4> HIDE DEF bucket
      <4> QED
        BY <3>1, <4>1, <4>2, Zenon
    <3>2. CASE ~fresh(t)
      <4>1. /\ k \in DOMAIN Kept(t) /\ Kept(t)[k] = buckets[k]
            /\ buckets[k] \in [start : Nat, used : 1..Limit] /\ buckets[k].used < Limit
        BY <1>4, <2>1, <3>2, Zenon
      <4>2. bucket(t) = [buckets[k] EXCEPT !.used = buckets[k].used + 1]
        BY <3>2, <4>1, Zenon
      <4> HIDE DEF bucket, fresh
      <4> QED
        BY <4>1, <4>2, LimiterNumbers
    <3> QED
      BY <3>1, <3>2, Zenon
  <2> DEFINE b == bucket(t)
  <2>3. /\ DOMAIN buckets' = DOMAIN Kept(t) \cup {k} /\ buckets'[k] = b
        /\ \A x \in DOMAIN buckets' \ {k} : buckets'[x] = Kept(t)[x]
        /\ granted' = granted \cup {<<d, now>>}
    <3> HIDE DEF bucket, ok
    <3> QED
      BY <1>1, <1>4, Zenon
  <2>7. \A x \in DOMAIN buckets' \ {k} : buckets'[x] = buckets[x]
    BY <2>3, KeptBuckets, Zenon
  <2>4. b \in [start : Nat, used : 1..Limit]
    BY <2>2, Zenon
  <2>5. NewBucket(k, t, b) \/ OldBucket(k, t, b)
    BY <2>2, Zenon DEF NewBucket, OldBucket
  <2>6. ~Full(Kept(t), k)
    BY <1>4, Zenon
  <2> HIDE DEF b, bucket
  <2> QED
    <3>1. Passes(d, k, t, b)
      BY <1>0, <1>2, <2>3, <2>6, <2>7, Zenon DEF Passes
    <3> QED
      BY <1>2, <2>4, <2>5, <3>1, LimitPasses, Zenon
<1> QED
  BY <1>3, <1>4, Zenon

\* Every step keeps the limiter's invariant.
LEMMA LimitNext == LimitInv /\ HandshakeInv /\ [AuthNext]_authVars => LimitInv'
<1> SUFFICES ASSUME LimitInv, HandshakeInv, [AuthNext]_authVars PROVE LimitInv'
  BY Zenon
<1>1. CASE UNCHANGED <<now, source, buckets, granted>>
  BY <1>1, Zenon DEF LimitInv, GrantInv, BucketInv, WindowInv, PassedOf, LateOf
<1>2. \/ UNCHANGED <<now, source, buckets, granted>> \/ Tick
      \/ \E d \in Dials : AllowAt(d)
  BY Zenon DEF AuthNext, authVars, guardVars, clientVars, DialStep, SetSessionID, Knock,
         ConnectAndWrite, ReadProof, ServerStep, IsBanned, Ban, Authenticate, Answer,
         KnockArrives, server
<1> QED
  BY <1>1, <1>2, LimitTick, LimitAllowAt, Zenon

\* Nothing has passed yet.
LEMMA LimitInit == AuthInit => LimitInv
<1> SUFFICES ASSUME AuthInit PROVE LimitInv
  BY Zenon
<1>1. granted = {} /\ DOMAIN buckets = {}
  BY Zenon DEF AuthInit
<1>2. \A k \in Keys : PassedOf(k) = {}
  BY <1>1, Zenon DEF PassedOf
<1>3. IsFiniteSet({}) /\ Cardinality({}) = 0
  BY FS_EmptySet, Zenon
<1>4. GrantInv /\ BucketInv
  BY <1>1, <1>3, LimiterNumbers DEF GrantInv, BucketInv
<1>5. WindowInv
  <2>1. ASSUME NEW k \in Keys PROVE Cardinality(PassedOf(k)) <= Limit - 1
    <3>1. Cardinality(PassedOf(k)) = 0
      BY <1>2, <1>3, Zenon
    <3> QED
      BY <3>1, LimiterNumbers
  <2> QED
    BY <1>1, <2>1, Zenon DEF WindowInv
<1> QED
  BY <1>4, <1>5, Zenon DEF LimitInv

-----------------------------------------------------------------------------
\* The dials, before the first of them.
LEMMA HandshakeInit == AuthInit => HandshakeInv
  BY DEF AuthInit, HandshakeInv, Types, ClientInv, ServerInv

\* A step of another dial's server, or of the clock, leaves the rest alone.
LEMMA HandshakeSame ==
  ASSUME HandshakeInv, UNCHANGED <<clientVars, tickets, conn, srv>>, now' \in Nat
  PROVE  HandshakeInv'
  BY Zenon DEF HandshakeInv, Types, ClientInv, ServerInv, clientVars

\* The dialer's steps keep the invariant.
LEMMA DialKeeps ==
  ASSUME HandshakeInv, NEW d \in Dials, DialStep(d)
  PROVE  HandshakeInv'
<1> USE DEF HandshakeInv, server, guardVars
<1>1. CASE SetSessionID(d)
  <2>1. /\ dial[d] = "start" /\ dial'[d] = "knock" /\ holder' = {d} /\ session' = {d}
        /\ holder = {} /\ \A e \in Dials \ {d} : dial'[e] = dial[e]
        /\ UNCHANGED <<now, knocked, udp, source, conn, tickets, srv>>
    BY <1>1, Zenon DEF SetSessionID, Dial, Types
  <2>2. Types'
    BY <1>1, Zenon DEF SetSessionID, Dial, Types
  <2>3. ClientInv'
    BY <2>1, Zenon DEF ClientInv
  <2>4. ServerInv'
    BY <2>1, Zenon DEF ServerInv
  <2> QED
    BY <2>2, <2>3, <2>4, Zenon
<1>2. CASE Knock(d)
  <2>1. /\ dial[d] = "knock" /\ \A e \in Dials \ {d} : dial'[e] = dial[e]
        /\ holder' = holder \ {d}
        /\ \/ /\ dial'[d] = "dial" /\ udp' = udp \cup session
              /\ knocked' = knocked \cup session
           \/ dial'[d] = "failed" /\ UNCHANGED <<udp, knocked>>
        /\ UNCHANGED <<now, session, source, conn, tickets, srv>>
    BY <1>2, Zenon DEF Knock, Dial, Types
  <2>2. Types'
    BY <1>2, Zenon DEF Knock, Dial, Types
  <2>3. session = {d} /\ d \notin knocked /\ srv[d] = "none"
    BY <2>1, Zenon DEF ClientInv, ServerInv
  <2>4. ClientInv'
    BY <2>1, <2>3, Zenon DEF ClientInv
  <2>5. ServerInv'
    BY <2>1, <2>3, Zenon DEF ServerInv
  <2> QED
    BY <2>2, <2>4, <2>5, Zenon
<1>3. CASE ConnectAndWrite(d)
  <2>1. /\ dial[d] = "dial" /\ \A e \in Dials \ {d} : dial'[e] = dial[e]
        /\ \/ /\ dial'[d] = IF RequireServerProof THEN "proof" ELSE "ok"
              /\ conn'[d] = "open" /\ srv'[d] = "policy"
           \/ dial'[d] = "failed" /\ conn'[d] = conn[d] /\ srv'[d] = srv[d]
        /\ \A e \in Dials \ {d} : conn'[e] = conn[e] /\ srv'[e] = srv[e]
        /\ UNCHANGED <<now, holder, session, knocked, udp, source, tickets>>
    BY <1>3, Zenon DEF ConnectAndWrite, Dial, Types
  <2>2. Types'
    BY <1>3, Zenon DEF ConnectAndWrite, Dial, Types
  <2>3. srv[d] = "none"
    BY <2>1, Zenon DEF ServerInv
  <2>4. ClientInv'
    BY <2>1, Zenon DEF ClientInv
  <2>5. ServerInv'
    BY <2>1, <2>3, Zenon DEF ServerInv
  <2> QED
    BY <2>2, <2>4, <2>5, Zenon
<1>4. CASE ReadProof(d)
  <2>1. /\ dial[d] = "proof" /\ \A e \in Dials \ {d} : dial'[e] = dial[e]
        /\ \/ dial'[d] = "ok" /\ conn[d] = "proof" /\ conn' = conn
           \/ dial'[d] = "failed" /\ conn'[d] = "closed"
        /\ \A e \in Dials \ {d} : conn'[e] = conn[e]
        /\ UNCHANGED <<now, holder, session, knocked, udp, source, tickets, srv>>
    BY <1>4, Zenon DEF ReadProof, Dial, Types
  <2>2. Types'
    BY <1>4, Zenon DEF ReadProof, Dial, Types
  <2>3. ClientInv'
    BY <2>1, Zenon DEF ClientInv
  <2>4. ServerInv'
    BY <2>1, Zenon DEF ServerInv
  <2> QED
    BY <2>2, <2>3, <2>4, Zenon
<1> QED
  BY <1>1, <1>2, <1>3, <1>4, Zenon DEF DialStep

\* The server's steps keep it: nothing they change is the client's.
LEMMA ServerKeeps ==
  ASSUME HandshakeInv, NEW d \in Dials, ServerStep(d)
  PROVE  HandshakeInv'
<1> USE DEF HandshakeInv, guardVars, clientVars
\* A connection that fails was not accepted.
<1>1. ASSUME NEW from \in {"policy", "ban", "read", "answer"}, Fail(d, from),
             UNCHANGED <<now, clientVars, tickets>>
      PROVE  HandshakeInv'
  <2>1. /\ srv[d] = from /\ srv'[d] = "failed" /\ conn'[d] = "closed"
        /\ \A e \in Dials \ {d} : srv'[e] = srv[e] /\ conn'[e] = conn[e]
    BY <1>1, Zenon DEF Fail, Srv, Types
  <2>2. Types'
    BY <1>1, Zenon DEF Fail, Srv, Types
  <2>3. ClientInv'
    BY <1>1, Zenon DEF ClientInv
  <2>4. ServerInv'
    BY <1>1, <2>1, Zenon DEF ServerInv
  <2> QED
    BY <2>2, <2>3, <2>4, Zenon
\* Going on to the next check of the connection.
<1>2. ASSUME NEW from \in {"policy", "limiter"}, NEW to \in {"limiter", "read", "ban"},
             Srv(d, from, to), UNCHANGED <<now, clientVars, tickets, conn>>
      PROVE  HandshakeInv'
  <2>1. /\ srv[d] = from /\ srv'[d] = to
        /\ \A e \in Dials \ {d} : srv'[e] = srv[e]
    BY <1>2, Zenon DEF Srv, Types
  <2>2. Types'
    BY <1>2, Zenon DEF Srv, Types
  <2>3. ClientInv'
    BY <1>2, Zenon DEF ClientInv
  <2>4. ServerInv'
    BY <1>2, <2>1, Zenon DEF ServerInv
  <2> QED
    BY <2>2, <2>3, <2>4, Zenon
<1>3. CASE IsBanned(d)
  <2>1. \/ Fail(d, "policy") \/ (Srv(d, "policy", "limiter") /\ UNCHANGED conn)
    BY <1>3, Zenon DEF IsBanned
  <2> QED
    BY <2>1, <1>1, <1>2, <1>3, Zenon DEF IsBanned
<1>4. CASE AllowAt(d)
  <2>1. Srv(d, "limiter", "read") \/ Srv(d, "limiter", "ban")
    BY <1>4, Zenon DEF AllowAt
  <2> QED
    BY <2>1, <1>2, <1>4, Zenon DEF AllowAt
<1>5. CASE Ban(d)
  BY <1>5, <1>1, Zenon DEF Ban
<1>6. CASE Authenticate(d)
  <2>1. CASE Fail(d, "read") /\ UNCHANGED tickets
    BY <2>1, <1>6, <1>1, Zenon DEF Authenticate
  <2>2. CASE /\ d \in tickets /\ tickets' = tickets \ {d}
             /\ Srv(d, "read", "answer") /\ UNCHANGED conn
    <3>1. /\ srv[d] = "read" /\ srv'[d] = "answer"
          /\ \A e \in Dials \ {d} : srv'[e] = srv[e]
          /\ UNCHANGED <<now, clientVars>>
      BY <2>2, <1>6, Zenon DEF Srv, Types, Authenticate
    <3>2. Types'
      BY <2>2, <3>1, Zenon DEF Srv, Types
    <3>3. ClientInv'
      BY <2>2, <3>1, Zenon DEF ClientInv
    <3>4. d \in knocked /\ d \notin udp
      BY <2>2, Zenon DEF ClientInv
    <3>5. ServerInv'
      BY <2>2, <3>1, <3>4, Zenon DEF ServerInv
    <3> QED
      BY <3>2, <3>3, <3>5, Zenon
  <2> QED
    BY <2>1, <2>2, <1>6, Zenon DEF Authenticate
<1>7. CASE Answer(d)
  <2>1. CASE Fail(d, "answer")
    BY <2>1, <1>7, <1>1, Zenon DEF Answer
  <2>2. CASE Srv(d, "answer", "ok") /\ conn' \in {conn, [conn EXCEPT ![d] = "proof"]}
    <3>1. /\ srv[d] = "answer" /\ srv'[d] = "ok"
          /\ \A e \in Dials \ {d} : srv'[e] = srv[e] /\ conn'[e] = conn[e]
          /\ UNCHANGED <<now, clientVars, tickets>>
      BY <2>2, <1>7, Zenon DEF Srv, Types, Answer
    <3>2. Types'
      BY <2>2, <3>1, Zenon DEF Srv, Types
    <3>3. ClientInv'
      BY <3>1, Zenon DEF ClientInv
    <3>4. ServerInv'
      BY <3>1, Zenon DEF ServerInv
    <3> QED
      BY <3>2, <3>3, <3>4, Zenon
  <2> QED
    BY <2>1, <2>2, <1>7, Zenon DEF Answer
<1> QED
  BY <1>3, <1>4, <1>5, <1>6, <1>7, Zenon DEF ServerStep

\* A knock that arrives is a ticket from then on.
LEMMA KnockKeeps ==
  ASSUME HandshakeInv, NEW d \in Dials, KnockArrives(d)
  PROVE  HandshakeInv'
<1> USE DEF HandshakeInv, KnockArrives, guardVars
<1>1. Types'
  BY Zenon DEF Types
<1>2. ClientInv'
  BY Zenon DEF ClientInv
<1>3. ServerInv'
  BY Zenon DEF ServerInv
<1> QED
  BY <1>1, <1>2, <1>3, Zenon

\* Every step keeps the invariant.
LEMMA HandshakeNext == HandshakeInv /\ [AuthNext]_authVars => HandshakeInv'
<1> SUFFICES ASSUME HandshakeInv, [AuthNext]_authVars PROVE HandshakeInv'
  BY Zenon
<1>1. CASE Tick
  <2>1. now' \in Nat
    BY <1>1 DEF Tick, HandshakeInv, Types
  <2> QED
    BY <1>1, <2>1, HandshakeSame, Zenon DEF Tick
<1>2. CASE UNCHANGED authVars
  <2>1. now' \in Nat
    BY <1>2, Zenon DEF authVars, HandshakeInv, Types
  <2> QED
    BY <1>2, <2>1, HandshakeSame, Zenon DEF authVars
<1> QED
  BY <1>1, <1>2, DialKeeps, ServerKeeps, KnockKeeps, Zenon DEF AuthNext

\* What is true in every state of every run.
LEMMA HandshakeAlways == AuthSpec => []HandshakeInv
  BY HandshakeInit, HandshakeNext, PTL DEF AuthSpec

\* DialContext holds the mutex from SetSessionID to the end of Knock, so that no
\* other dialer's id goes out with its knock, however many dial at once; and every
\* return of Knock, errors included, has released it.
THEOREM KnocksAreSessionBound == AuthSpec => []SessionBound
<1>1. HandshakeInv => SessionBound
  BY Zenon DEF HandshakeInv, ClientInv, SessionBound
<1> QED
  BY <1>1, HandshakeAlways, PTL

\* A ClientAuth that required a proof and returned no error faces a ServerAuth that
\* accepted this connection and spent this client's knock on it.
THEOREM ProofMeansAdmitted == AuthSpec => []Agreement
<1>1. HandshakeInv => Agreement
  BY Zenon DEF HandshakeInv, ClientInv, ServerInv, Agreement
<1> QED
  BY <1>1, HandshakeAlways, PTL
-----------------------------------------------------------------------------
\* The ban list is a cache within its capacity.
BanInv == IsCache(bans, Keys, {TRUE}) /\ CacheLen(bans) <= MaxBans

\* What the provers need of the ban list: its expiries and its capacity are numbers.
LEMMA BanNumbers ==
  ASSUME BanInv
  PROVE  /\ \A x \in DOMAIN bans : bans[x].expires \in Int
         /\ MaxBans \in Nat /\ IsFiniteSet(Keys)
<1>1. \A x \in DOMAIN bans :
        bans[x] \in [value : {TRUE}, expires : Int, older : SUBSET Keys]
  BY Zenon DEF BanInv, IsCache
<1> QED
  BY <1>1, HandshakeAssumption, Zenon

\* Entries dropped from the ban list leave a ban list that is no longer.
LEMMA DropBans ==
  ASSUME NEW V, IsCache(bans, Keys, V), IsFiniteSet(Keys), NEW S, NEW d,
         d = removeElements(bans, S)
  PROVE  /\ IsCache(d, Keys, V) /\ DOMAIN d = DOMAIN bans \ S
         /\ CacheLen(d) <= CacheLen(bans)
         /\ CacheLen(bans) \in Nat /\ CacheLen(d) \in Nat
  BY RemoveElements

\* A lookup at an earlier time drops no ban that is active now.
LEMMA LookupKeeps ==
  ASSUME BanInv, HandshakeInv, NEW k \in Keys, NEW t \in Nat, t <= now,
         bans' = GetAt(bans, k, t)
  PROVE  BanInv' /\ \A x \in Keys : Live(bans, x, now) => x \in DOMAIN bans'
<1>0. /\ IsCache(bans, Keys, {TRUE}) /\ CacheLen(bans) <= MaxBans
      /\ \A x \in DOMAIN bans : bans[x].expires \in Int
      /\ MaxBans \in Nat /\ IsFiniteSet(Keys) /\ now \in Nat
  BY BanNumbers, Zenon DEF BanInv, HandshakeInv, Types
<1>1. CASE Live(bans, k, t)
  <2>1. bans' = MoveToBack(bans, k)
    BY <1>1, Zenon DEF GetAt
  <2> QED
    BY <2>1, <1>0, MoveToBackEntries DEF Live, BanInv
<1>2. CASE ~Live(bans, k, t)
  <2>1. bans' = removeElements(bans, {k})
    BY <1>2, Zenon DEF GetAt
  <2>2. /\ IsCache(bans', Keys, {TRUE}) /\ DOMAIN bans' = DOMAIN bans \ {k}
        /\ CacheLen(bans') <= CacheLen(bans)
        /\ CacheLen(bans) \in Nat /\ CacheLen(bans') \in Nat
    BY <1>0, <2>1, DropBans, Zenon
  <2>3. ~Live(bans, k, now)
    BY <1>0, <1>2 DEF Live
  <2>4. BanInv'
    BY <1>0, <2>2 DEF BanInv
  <2> QED
    BY <2>2, <2>3, <2>4, Zenon DEF Live
<1> QED
  BY <1>1, <1>2, Zenon

\* A new ban pushes out only bans that have ended.
LEMMA BanKeeps ==
  ASSUME BanInv, HandshakeInv, NEW k \in Keys, NEW until \in Int, NEW t \in Nat,
         t <= now, bans' = StoreBan(bans, k, until, t)
  PROVE  BanInv' /\ \A x \in Keys : Live(bans, x, now) => x \in DOMAIN bans'
<1>0. /\ IsCache(bans, Keys, {TRUE}) /\ CacheLen(bans) <= MaxBans
      /\ \A x \in DOMAIN bans : bans[x].expires \in Int
      /\ MaxBans \in Nat /\ IsFiniteSet(Keys) /\ now \in Nat
  BY BanNumbers, Zenon DEF BanInv, HandshakeInv, Types
<1> DEFINE live == Sweep(bans, t)
           new == setLocked(live, k, TRUE, until, MaxBans)
<1>1. /\ IsCache(live, Keys, {TRUE})
      /\ CacheLen(live) \in Nat /\ CacheLen(live) <= MaxBans
      /\ DOMAIN live = DOMAIN bans \ {x \in DOMAIN bans : bans[x].expires <= t}
  <2> DEFINE ended == {x \in DOMAIN bans : bans[x].expires <= t}
  <2>1. live = removeElements(bans, ended)
    BY Zenon DEF Sweep
  <2> HIDE DEF live, ended
  <2>2. /\ IsCache(live, Keys, {TRUE}) /\ DOMAIN live = DOMAIN bans \ ended
        /\ CacheLen(live) <= CacheLen(bans)
        /\ CacheLen(bans) \in Nat /\ CacheLen(live) \in Nat
    BY <1>0, <2>1, DropBans, Zenon
  <2> QED
    BY <1>0, <2>2 DEF ended
<1>2. \A x \in Keys : Live(bans, x, now) => x \in DOMAIN live
  <2> HIDE DEF live
  <2> QED
    BY <1>0, <1>1 DEF Live
<1>3. bans' = IF k \in DOMAIN live \/ CacheLen(live) < MaxBans THEN new ELSE live
  BY Zenon DEF StoreBan
<1> HIDE DEF live, new
<1>4. CASE k \in DOMAIN live
  <2>1. IsCache(new, Keys, {TRUE}) /\ DOMAIN new = DOMAIN live
    <3>1. IsCache(new, Keys, {TRUE})
      BY <1>0, <1>1, SetEntries, Zenon DEF new
    <3>2. DOMAIN new = DOMAIN live
      BY <1>4, Zenon DEF new, setLocked, MoveToBack
    <3> QED
      BY <3>1, <3>2, Zenon
  <2>2. CacheLen(new) = CacheLen(live)
    BY <2>1, Zenon DEF CacheLen
  <2> QED
    BY <2>1, <2>2, <1>1, <1>2, <1>3, <1>4, Zenon DEF BanInv
<1>5. CASE k \notin DOMAIN live /\ CacheLen(live) < MaxBans
  <2>1. IsCache(new, Keys, {TRUE}) /\ Gained(new, live, k)
    BY <1>0, <1>1, <1>5, InsertWithRoom, Zenon DEF new, HasRoom
  <2> QED
    BY <2>1, <1>0, <1>1, <1>2, <1>3, <1>5 DEF Gained, BanInv
<1>6. CASE k \notin DOMAIN live /\ CacheLen(live) >= MaxBans
  BY <1>6, <1>0, <1>1, <1>2, <1>3 DEF BanInv
<1> QED
  BY <1>0, <1>1, <1>4, <1>5, <1>6

\* Each step keeps the ban list's shape and its active bans.
LEMMA BansNext ==
  ASSUME BanInv, HandshakeInv, [AuthNext]_authVars
  PROVE  BanInv' /\ \A x \in Keys : Live(bans, x, now) => x \in DOMAIN bans'
<1>1. CASE UNCHANGED bans
  BY <1>1, Zenon DEF BanInv, Live
<1>2. ASSUME NEW d \in Dials, IsBanned(d)
      PROVE  BanInv' /\ \A x \in Keys : Live(bans, x, now) => x \in DOMAIN bans'
  <2>1. PICK t \in Times : bans' = GetAt(bans, source[d], t)
    BY <1>2, Zenon DEF IsBanned
  <2>2. t \in Nat /\ t <= now /\ source[d] \in Keys
    BY DEF Times, HandshakeInv, Types
  <2> QED
    BY <2>1, <2>2, LookupKeeps, Zenon
<1>3. ASSUME NEW d \in Dials, Ban(d)
      PROVE  BanInv' /\ \A x \in Keys : Live(bans, x, now) => x \in DOMAIN bans'
  <2>0. PICK t \in Times : \E t2 \in t..now :
          bans' = StoreBan(bans, source[d], t + BanTTL, t2)
    BY <1>3, Zenon DEF Ban
  <2>1. PICK t2 \in t..now : bans' = StoreBan(bans, source[d], t + BanTTL, t2)
    BY <2>0, Zenon
  <2>2. /\ t \in Nat /\ t2 \in Nat /\ t2 <= now /\ source[d] \in Keys
        /\ t + BanTTL \in Int
    BY HandshakeAssumption DEF Times, HandshakeInv, Types
  <2> QED
    BY <2>1, <2>2, BanKeeps, Zenon
<1>4. \/ UNCHANGED bans
      \/ \E d \in Dials : IsBanned(d) \/ Ban(d)
  BY Zenon DEF AuthNext, authVars, guardVars, Tick, DialStep, SetSessionID, Knock, ConnectAndWrite,
         ReadProof, ServerStep, AllowAt, Authenticate, Answer, KnockArrives, server
<1> QED
  BY <1>1, <1>2, <1>3, <1>4, Zenon

\* The ban list starts empty.
LEMMA BansInit == AuthInit => BanInv
<1> SUFFICES ASSUME AuthInit PROVE BanInv
  BY Zenon
<1>1. DOMAIN bans = {}
  BY Zenon DEF AuthInit, EmptyCache
<1>2. CacheLen(bans) = 0
  BY <1>1, FS_EmptySet, Zenon DEF CacheLen
<1> QED
  BY <1>1, <1>2, HandshakeAssumption DEF BanInv, IsCache

\* BanUntilE and IsBannedAt read the clock before they take the lock, and a full list
\* sweeps and refuses: no ban that is active when a call runs is lost to it.
THEOREM ActiveBansKept == AuthSpec => BansKept
<1>1. BanInv /\ HandshakeInv /\ [AuthNext]_authVars => BanInv'
  BY BansNext, Zenon
<1>2. BanInv /\ HandshakeInv /\ [AuthNext]_authVars =>
        [\A k \in Keys : Live(bans, k, now) => k \in DOMAIN bans']_authVars
  BY BansNext, Zenon
<1> QED
  BY <1>1, <1>2, BansInit, HandshakeAlways, PTL DEF AuthSpec, BansKept

\* Limiter.AllowAt, for any limit, window, capacity and delay of the callers shorter
\* than the window: the call that begins a bucket is out of sight before the next
\* bucket begins, also where a sweep forgets the bucket or the next one begins with an
\* older clock; so a source never gets twice its limit in a Stretch of time.
THEOREM LimiterHolds == AuthSpec => []LimiterBound
<1>1. LimitInv /\ BanInv => LimiterBound
  <2> SUFFICES ASSUME LimitInv, BanInv PROVE LimiterBound
    BY Zenon
  <2>1. ASSUME NEW k \in Keys PROVE Cardinality(PassedOf(k)) < 2 * Limit
    <3>1. Cardinality(PassedOf(k)) \in Nat
      BY PassedCounts, Zenon DEF LimitInv
    <3>2. CASE k \notin DOMAIN buckets
      BY <3>1, <3>2, LimiterNumbers DEF LimitInv, WindowInv
    <3>3. CASE k \in DOMAIN buckets
      BY <3>1, <3>3, LimiterNumbers DEF LimitInv, WindowInv, BucketInv
    <3> QED
      BY <3>2, <3>3, Zenon
  <2> QED
    BY <2>1, Zenon DEF LimiterBound, PassedOf, LimitInv, BucketInv, BanInv
<1>2. LimitInv /\ HandshakeInv /\ BanInv /\ [AuthNext]_authVars => LimitInv' /\ BanInv'
  BY LimitNext, BansNext, Zenon
<1> QED
  BY <1>1, <1>2, LimitInit, BansInit, HandshakeAlways, PTL DEF AuthSpec
-----------------------------------------------------------------------------
Hands == Conns \cup {NoConn}
AcceptorPCs == {"accept", "sleep", "acquire", "queue", "exit"}
\* Where a worker is while it has a connection, and while it has none.
Working == {"track", "auth", "untrack ok", "untrack failed", "release ok",
            "release failed", "deliver"}
Resting == {"receive", "drained", "exit"}

TypeInv ==
  /\ arrived \subseteq Conns /\ open \subseteq arrived /\ delivered \subseteq arrived
  /\ acceptor \in [pc : AcceptorPCs, conn : Hands]
  /\ pending \in Seq(Conns)
  /\ slots \in [Sources -> Nat] /\ releases \subseteq Conns
  /\ worker \in [Workers -> [pc : Working \cup Resting, conn : Hands]]
  /\ done \in BOOLEAN

\* Only a busy goroutine has a connection in its hands.
HandsInv ==
  /\ acceptor.conn # NoConn <=> acceptor.pc \in {"acquire", "queue"}
  /\ \A w \in Workers : worker[w].conn # NoConn <=> worker[w].pc \in Working

\* A connection that failed authentication has been closed.
Failed == {"untrack failed", "release failed"}
FailedInv == \A w \in Workers : worker[w].pc \in Failed => worker[w].conn \notin open

Elems(q) == {q[i] : i \in 1..Len(q)}
Distinct(q) == \A i, j \in 1..Len(q) : q[i] = q[j] => i = j

\* The accept loop, the queue, the workers and the application never have the
\* same connection, and an open connection is with one of them.
QueueInv ==
  /\ Distinct(pending) /\ Len(pending) <= MaxPending
  /\ Elems(pending) \subseteq arrived /\ Elems(pending) \cap delivered = {}
LoopInv ==
  /\ acceptor.conn \notin Elems(pending) \cup delivered
  /\ acceptor.conn \in arrived \cup {NoConn}
WorkersInv ==
  \A w \in Workers : worker[w].conn \in Conns =>
    /\ worker[w].conn \in arrived \ (Elems(pending) \cup delivered)
    /\ worker[w].conn # acceptor.conn
    /\ \A v \in Workers : worker[v].conn = worker[w].conn => v = w
OpenInv ==
  \A c \in open : \/ c \in Elems(pending) \cup delivered \/ acceptor.conn = c
                  \/ \E w \in Workers : worker[w].conn = c
OwnerInv == QueueInv /\ LoopInv /\ WorkersInv /\ OpenInv

\* The connections that are queued or authenticating.
Held ==
  {c \in Conns : \/ acceptor.pc = "queue" /\ acceptor.conn = c
                 \/ c \in Elems(pending)
                 \/ \E w \in Workers : worker[w].conn = c /\ worker[w].pc # "deliver"}

Of(s) == {c \in releases : SourceOf[c] = s}
SlotInv ==
  /\ releases = Held
  /\ MaxPerSource > 0 =>
       \A s \in Sources : slots[s] = Cardinality(Of(s)) /\ slots[s] <= MaxPerSource

\* An authentication on an open connection is in flight until Close has closed
\* what was in flight; after that there is none.
FlightInv ==
  /\ closer \in {"done", "listener", "closed"} => done
  /\ \A w \in Workers : worker[w].pc = "auth" /\ worker[w].conn \in open =>
       worker[w].conn \in inFlight /\ closer # "closed"

ListenerInv == TypeInv /\ HandsInv /\ FailedInv /\ OwnerInv

WorkerType == [pc : Working \cup Resting, conn : Hands]
-----------------------------------------------------------------------------
\* A connection joins the queue at its end.
LEMMA AppendElems ==
  ASSUME NEW S, NEW q \in Seq(S), NEW c \in S
  PROVE  /\ Append(q, c) \in Seq(S) /\ Len(Append(q, c)) = Len(q) + 1
         /\ Elems(Append(q, c)) = Elems(q) \cup {c}
         /\ Distinct(q) /\ c \notin Elems(q) => Distinct(Append(q, c))
<1> DEFINE r == Append(q, c)
<1>1. /\ r \in Seq(S) /\ Len(q) \in Nat /\ Len(r) = Len(q) + 1 /\ r[Len(q) + 1] = c
      /\ \A i \in 1..Len(q) : r[i] = q[i]
  OBVIOUS
<1> HIDE DEF r
<1>2. Elems(r) = Elems(q) \cup {c}
  <2>1. ASSUME NEW x \in Elems(r) PROVE x \in Elems(q) \cup {c}
    <3>1. PICK i \in 1..Len(r) : r[i] = x
      BY <2>1, Zenon DEF Elems
    <3> QED
      BY <1>1, <3>1 DEF Elems
  <2>2. ASSUME NEW x \in Elems(q) PROVE x \in Elems(r)
    <3>1. PICK i \in 1..Len(q) : q[i] = x
      BY <2>2, Zenon DEF Elems
    <3> QED
      BY <1>1, <3>1 DEF Elems
  <2>3. c \in Elems(r)
    BY <1>1 DEF Elems
  <2> QED
    BY <2>1, <2>2, <2>3, Zenon
<1>3. ASSUME Distinct(q), c \notin Elems(q) PROVE Distinct(r)
  <2> SUFFICES ASSUME NEW i \in 1..Len(r), NEW j \in 1..Len(r), r[i] = r[j] PROVE i = j
    BY Zenon DEF Distinct
  <2>1. \A k \in 1..Len(q) : r[k] # c
    BY <1>1, <1>3, Zenon DEF Elems
  <2>2. CASE i \in 1..Len(q) /\ j \in 1..Len(q)
    BY <1>1, <1>3, <2>2, Zenon DEF Distinct
  <2> QED
    BY <1>1, <2>1, <2>2
<1> QED
  BY <1>1, <1>2, <1>3, Zenon DEF r

\* A connection leaves the queue at its head.
LEMMA TailElems ==
  ASSUME NEW S, NEW q \in Seq(S), q # <<>>, Distinct(q)
  PROVE  /\ Tail(q) \in Seq(S) /\ Len(Tail(q)) <= Len(q)
         /\ Head(q) \in Elems(q) /\ Head(q) \in S
         /\ Elems(Tail(q)) = Elems(q) \ {Head(q)}
         /\ Distinct(Tail(q))
<1> DEFINE r == Tail(q)
<1>1. /\ r \in Seq(S) /\ Len(q) \in Nat /\ Len(q) >= 1 /\ Len(r) = Len(q) - 1
      /\ Head(q) = q[1] /\ q[1] \in S
  OBVIOUS
<1>2. \A i \in 1..Len(r) : i + 1 \in 1..Len(q) /\ r[i] = q[i + 1]
  BY <1>1
<1> HIDE DEF r
<1>3. Head(q) \in Elems(q)
  BY <1>1 DEF Elems
<1>4. Elems(r) = Elems(q) \ {Head(q)}
  <2>1. ASSUME NEW x \in Elems(r) PROVE x \in Elems(q) \ {Head(q)}
    <3>1. PICK i \in 1..Len(r) : r[i] = x
      BY <2>1, Zenon DEF Elems
    <3>2. x = q[i + 1] /\ i + 1 \in 1..Len(q) /\ i + 1 # 1 /\ 1 \in 1..Len(q)
      BY <1>1, <1>2, <3>1
    <3> QED
      BY <1>1, <3>2, Zenon DEF Elems, Distinct
  <2>2. ASSUME NEW x \in Elems(q), x # Head(q) PROVE x \in Elems(r)
    <3>1. PICK i \in 1..Len(q) : q[i] = x
      BY <2>2, Zenon DEF Elems
    <3>2. i - 1 \in 1..Len(r) /\ r[i - 1] = q[(i - 1) + 1] /\ (i - 1) + 1 = i
      BY <1>1, <1>2, <2>2, <3>1
    <3> QED
      BY <3>1, <3>2, Zenon DEF Elems
  <2> QED
    BY <2>1, <2>2, Zenon
<1>5. Distinct(r)
  <2> SUFFICES ASSUME NEW i \in 1..Len(r), NEW j \in 1..Len(r), r[i] = r[j] PROVE i = j
    BY Zenon DEF Distinct
  <2>1. i + 1 = j + 1
    BY <1>2, Zenon DEF Distinct
  <2> QED
    BY <2>1
<1> QED
  BY <1>1, <1>3, <1>4, <1>5 DEF r

\* A worker goes on with what it has, or with something else.
LEMMA WorkerGoes ==
  ASSUME TypeInv, NEW w \in Workers, NEW p \in Working, Goes(w, p)
  PROVE  /\ worker' \in [Workers -> WorkerType]
         /\ worker'[w].pc = p /\ worker'[w].conn = worker[w].conn
         /\ \A v \in Workers \ {w} : worker'[v] = worker[v]
<1>1. worker \in [Workers -> WorkerType]
  BY Zenon DEF TypeInv, WorkerType
<1>2. [worker[w] EXCEPT !.pc = p] \in WorkerType
  BY <1>1, Zenon DEF WorkerType
<1>3. worker' = [worker EXCEPT ![w] = [worker[w] EXCEPT !.pc = p]]
  BY <1>1, Zenon DEF Goes
<1>4. worker'[w] = [worker[w] EXCEPT !.pc = p]
  BY <1>1, <1>3, Zenon
<1>5. worker'[w].pc = p /\ worker'[w].conn = worker[w].conn
  BY <1>1, <1>4, Zenon DEF WorkerType
<1> QED
  BY <1>1, <1>2, <1>3, <1>5, Zenon

\* A worker's place and connection are set together.
LEMMA WorkerTakes ==
  ASSUME TypeInv, NEW w \in Workers, NEW p \in Working \cup Resting, NEW c \in Hands,
         worker' = [worker EXCEPT ![w] = [pc |-> p, conn |-> c]]
  PROVE  /\ worker' \in [Workers -> WorkerType]
         /\ worker'[w].pc = p /\ worker'[w].conn = c
         /\ \A v \in Workers \ {w} : worker'[v] = worker[v]
<1>1. worker \in [Workers -> WorkerType] /\ [pc |-> p, conn |-> c] \in WorkerType
  BY Zenon DEF TypeInv, WorkerType
<1> QED
  BY <1>1, Zenon

\* A step that hands nothing over keeps the owners, also when it closes sockets.
LEMMA OwnersSame ==
  ASSUME OwnerInv, UNCHANGED <<pending, delivered, arrived>>, open' \subseteq open,
         acceptor'.conn = acceptor.conn,
         \A w \in Workers : worker'[w].conn = worker[w].conn
  PROVE  OwnerInv'
BY Zenon DEF OwnerInv, QueueInv, LoopInv, WorkersInv, OpenInv

\* The first state: nothing has arrived.
LEMMA ListenerInit == Init => ListenerInv
<1> SUFFICES ASSUME Init PROVE ListenerInv
  BY Zenon
<1>1. pending = <<>> /\ pending \in Seq(Conns) /\ Len(pending) = 0 /\ Elems(pending) = {}
  BY DEF Init, Elems
<1>2. /\ worker \in [Workers -> WorkerType]
      /\ \A w \in Workers : worker[w].pc = "receive" /\ worker[w].conn = NoConn
  BY Zenon DEF Init, WorkerType, Resting, Hands
<1>3. acceptor \in [pc : AcceptorPCs, conn : Hands] /\ acceptor.conn = NoConn
      /\ acceptor.pc = "accept"
  BY Zenon DEF Init, AcceptorPCs, Hands
<1>4. TypeInv
  BY <1>1, <1>2, <1>3, Zenon DEF Init, TypeInv, WorkerType
<1>5. HandsInv /\ FailedInv
  BY <1>2, <1>3, Zenon DEF HandsInv, FailedInv, Failed, Working
<1>6. OwnerInv
  BY <1>1, <1>2, <1>3, ConstantsAssumption DEF OwnerInv, QueueInv, LoopInv, WorkersInv, OpenInv, Init, Distinct
<1> QED
  BY <1>4, <1>5, <1>6, Zenon DEF ListenerInv

\* The accept loop keeps the owners: it takes a connection from the wrapped
\* listener, queues it, or drops and closes it.
LEMMA LoopOwners ==
  ASSUME ListenerInv,
         \/ \E c \in Conns : ListenerAccept(c)
         \/ AcceptTemporary \/ AcceptBroken \/ acceptLoop
  PROVE  ListenerInv'
<1> DEFINE AcceptorType == [pc : AcceptorPCs, conn : Hands]
<1> USE ConstantsAssumption
<1>0. TypeInv /\ HandsInv /\ FailedInv /\ OwnerInv /\ acceptor \in AcceptorType
  BY Zenon DEF ListenerInv, TypeInv
<1>1. UNCHANGED <<worker, delivered>>
  BY Zenon DEF ListenerAccept, AcceptTemporary, AcceptBroken, AcceptFails, acceptLoop, Sleep,
         AcceptClosed, Acquire, Queue, callVars
<1>2. ASSUME acceptor'.conn = acceptor.conn, acceptor' \in AcceptorType,
             acceptor'.conn # NoConn <=> acceptor'.pc \in {"acquire", "queue"},
             UNCHANGED <<arrived, pending>>, open' \subseteq open,
             slots' \in [Sources -> Nat], releases' \subseteq Conns, done' \in BOOLEAN
      PROVE  ListenerInv'
  <2>1. TypeInv' /\ HandsInv' /\ FailedInv'
    BY <1>0, <1>1, <1>2, Zenon DEF TypeInv, HandsInv, FailedInv
  <2>2. OwnerInv'
    BY <1>0, <1>1, <1>2, OwnersSame, Zenon
  <2> QED
    BY <2>1, <2>2, Zenon DEF ListenerInv
<1>3. ASSUME NEW c \in Conns, ListenerAccept(c) PROVE ListenerInv'
  <2>1. /\ acceptor' \in AcceptorType /\ acceptor'.conn = c /\ acceptor'.pc = "acquire"
        /\ acceptor.conn = NoConn
    BY <1>0, <1>3, Zenon DEF ListenerAccept, AcceptorPCs, Hands, HandsInv
  <2>2. TypeInv' /\ HandsInv'
    BY <1>0, <1>1, <1>3, <2>1, Zenon DEF ListenerAccept, TypeInv, HandsInv, closeVars
  <2>3. /\ pending' = pending /\ arrived' = arrived \cup {c} /\ open' = open \cup {c}
        /\ c \notin arrived /\ delivered \subseteq arrived
    BY <1>0, <1>3, Zenon DEF ListenerAccept, TypeInv
  <2>4. QueueInv'
    BY <1>0, <1>1, <2>3, Zenon DEF OwnerInv, QueueInv
  <2>5. LoopInv'
    BY <1>0, <1>1, <2>1, <2>3, Zenon DEF OwnerInv, QueueInv, LoopInv
  <2>6. WorkersInv'
    BY <1>0, <1>1, <2>1, <2>3, Zenon DEF OwnerInv, WorkersInv
  <2>7. OpenInv'
    BY <1>0, <1>1, <2>1, <2>3, Zenon DEF OwnerInv, OpenInv, TypeInv
  <2>8. FailedInv'
    BY <1>0, <1>1, <2>3, Zenon DEF OwnerInv, WorkersInv, FailedInv, Failed, HandsInv, Working,
                            TypeInv, Hands
  <2> QED
    BY <2>2, <2>8, <2>4, <2>5, <2>6, <2>7, Zenon DEF ListenerInv, OwnerInv
<1>4. CASE AcceptTemporary
  <2>1. acceptor' \in AcceptorType /\ acceptor'.pc = "sleep" /\ acceptor'.conn = acceptor.conn
        /\ acceptor.conn = NoConn
    BY <1>0, <1>4, Zenon DEF AcceptTemporary, AcceptorPCs, HandsInv
  <2> QED
    BY <1>0, <1>2, <1>4, <2>1, Zenon DEF AcceptTemporary, TypeInv, closeVars
<1>5. ASSUME NEW e, AcceptFails(e) PROVE ListenerInv'
  <2>1. acceptor' \in AcceptorType /\ acceptor'.pc = "exit" /\ acceptor'.conn = acceptor.conn
        /\ acceptor.conn = NoConn
    BY <1>0, <1>5, Zenon DEF AcceptFails, AcceptorExits, Exited, AcceptorPCs, HandsInv, Hands
  <2> QED
    BY <1>0, <1>2, <1>5, <2>1, Zenon DEF AcceptFails, TypeInv
<1>6. CASE Sleep
  <2>1. acceptor' \in AcceptorType /\ acceptor'.pc \in {"accept", "exit"}
        /\ acceptor'.conn = acceptor.conn /\ acceptor.conn = NoConn
    BY <1>0, <1>6 DEF Sleep, AcceptorExits, Exited, AcceptorPCs, HandsInv, Hands
  <2> QED
    BY <1>0, <1>2, <1>6, <2>1, Zenon DEF Sleep, TypeInv, closeVars
\* The connection in the loop's hands is given up, and closed.
<1>7. ASSUME acceptor' \in AcceptorType, acceptor'.conn = NoConn,
             acceptor'.pc \in {"accept", "exit"}, open' = open \ {acceptor.conn},
             UNCHANGED <<arrived, pending, done>>,
             slots' \in [Sources -> Nat], releases' \subseteq Conns
      PROVE  ListenerInv'
  <2>1. TypeInv' /\ HandsInv' /\ FailedInv'
    BY <1>0, <1>1, <1>7, Zenon DEF TypeInv, HandsInv, FailedInv
  <2>2. OwnerInv'
    BY <1>0, <1>1, <1>7, Zenon DEF OwnerInv, QueueInv, LoopInv, WorkersInv, OpenInv, TypeInv
  <2> QED
    BY <2>1, <2>2, Zenon DEF ListenerInv
<1>8. CASE Acquire
  <2> DEFINE c == acceptor.conn
  <2>0. c \in Conns
    BY <1>0, <1>8, Zenon DEF Acquire, HandsInv, Hands
  <2>1. CASE HasSlot(c)
    <3>1. /\ acceptor' = [acceptor EXCEPT !.pc = "queue"] /\ releases' = releases \cup {c}
          /\ slots' = IF MaxPerSource = 0 THEN slots
                      ELSE [slots EXCEPT ![SourceOf[c]] = @ + 1]
          /\ UNCHANGED <<open, arrived, pending, done>>
      BY <1>8, <2>1, Zenon DEF Acquire, closeVars
    <3>2. acceptor' \in AcceptorType /\ acceptor'.pc = "queue" /\ acceptor'.conn = c
      BY <1>0, <3>1, Zenon DEF AcceptorPCs
    <3>3. slots' \in [Sources -> Nat]
      BY <1>0, <2>0, <3>1 DEF TypeInv
    <3> QED
      BY <1>0, <1>2, <2>0, <3>1, <3>2, <3>3, Zenon DEF TypeInv
  <2>2. CASE ~HasSlot(c)
    <3>1. /\ acceptor' = [pc |-> "accept", conn |-> NoConn] /\ open' = open \ {c}
          /\ UNCHANGED <<arrived, pending, done, slots, releases>>
      BY <1>8, <2>2, Zenon DEF Acquire, Refused, closeVars
    <3>2. acceptor' \in AcceptorType /\ acceptor'.conn = NoConn /\ acceptor'.pc = "accept"
      BY <3>1, Zenon DEF AcceptorPCs, Hands
    <3> QED
      BY <1>0, <1>7, <3>1, <3>2, Zenon DEF TypeInv
  <2> QED
    BY <2>1, <2>2, Zenon
<1>9. CASE Queue
  <2> DEFINE c == acceptor.conn
  <2>0. c \in Conns /\ acceptor.pc = "queue"
    BY <1>0, <1>9, Zenon DEF Queue, HandsInv, Hands
  <2>1. CASE pending' = Append(pending, c) /\ Len(pending) < MaxPending
             /\ acceptor' = [pc |-> "accept", conn |-> NoConn]
             /\ UNCHANGED <<open, slots, releases, pendingClosed>>
    <3>1. acceptor' \in AcceptorType /\ acceptor'.conn = NoConn /\ acceptor'.pc = "accept"
      BY <2>1, Zenon DEF AcceptorPCs, Hands
    <3> HIDE DEF c
    <3>9. pending \in Seq(Conns) /\ Distinct(pending) /\ c \notin Elems(pending)
      BY <1>0, Zenon DEF TypeInv, OwnerInv, QueueInv, LoopInv, c
    <3>10. Len(pending) \in Nat /\ Len(pending) + 1 <= MaxPending
      BY <2>1, <3>9
    <3>2. /\ pending' \in Seq(Conns) /\ Elems(pending') = Elems(pending) \cup {c}
          /\ Distinct(pending') /\ Len(pending') <= MaxPending
      BY <2>0, <2>1, <3>9, <3>10, AppendElems
    <3>3. arrived' = arrived /\ done' = done
      BY <1>9, Zenon DEF Queue, closeVars
    <3>4. TypeInv' /\ HandsInv' /\ FailedInv'
      BY <1>0, <1>1, <2>1, <3>1, <3>2, <3>3, Zenon DEF TypeInv, HandsInv, FailedInv
    <3>5. QueueInv'
      BY <1>0, <1>1, <2>0, <3>2, <3>3 DEF OwnerInv, QueueInv, LoopInv, c
    <3>6. LoopInv'
      BY <1>0, <1>1, <2>0, <3>1, <3>2, <3>3, Zenon DEF OwnerInv, QueueInv, LoopInv, TypeInv
    <3>7. WorkersInv'
      BY <1>0, <1>1, <3>1, <3>2, <3>3, Zenon DEF OwnerInv, WorkersInv, c
    <3>8. OpenInv'
      BY <1>0, <1>1, <2>1, <3>2, Zenon DEF OwnerInv, OpenInv, c
    <3> QED
      BY <3>4, <3>5, <3>6, <3>7, <3>8, Zenon DEF ListenerInv, OwnerInv
  <2>2. CASE Dropped(c) /\ UNCHANGED pending /\ (AcceptorExits
               \/ acceptor' = [pc |-> "accept", conn |-> NoConn])
    <3>1. acceptor' \in AcceptorType /\ acceptor'.conn = NoConn
          /\ acceptor'.pc \in {"accept", "exit"}
      BY <2>2 DEF AcceptorExits, Exited, AcceptorPCs, Hands
    <3>2. /\ open' = open \ {c} /\ releases' \subseteq Conns /\ slots' \in [Sources -> Nat]
      BY <1>0, <2>0, <2>2 DEF Dropped, releaseSource, Given, TypeInv
    <3>3. arrived' = arrived /\ done' = done
      BY <1>9, Zenon DEF Queue, closeVars
    <3> QED
      BY <1>7, <2>2, <3>1, <3>2, <3>3, Zenon
  <2> QED
    BY <1>9, <2>1, <2>2, Zenon DEF Queue
<1> QED
  BY <1>3, <1>4, <1>5, <1>6, <1>8, <1>9, Zenon DEF acceptLoop, AcceptBroken, AcceptClosed

\* The workers keep the owners: a connection goes from the queue to a worker, and
\* from it to the application, or it is closed.
LEMMA WorkerOwners ==
  ASSUME ListenerInv, NEW w \in Workers, authWorker(w)
  PROVE  ListenerInv'
<1> DEFINE c == worker[w].conn
<1> USE ConstantsAssumption
<1>0. TypeInv /\ HandsInv /\ FailedInv /\ OwnerInv
  BY Zenon DEF ListenerInv
<1>1. UNCHANGED <<arrived, acceptor, done>>
  BY Zenon DEF authWorker, Receive, Track, AuthOK, AuthFail, untrackInFlight, Release, Abandon,
         Deliver, acceptVars, closeVars
<1>2. slots' \in [Sources -> Nat] /\ releases' \subseteq Conns
  <2>1. CASE Release(w)
    <3>1. c \in Conns
      BY <1>0, <2>1, Zenon DEF Release, At, HandsInv, TypeInv, Hands, Working
    <3>2. slots[SourceOf[c]] \in Nat /\ Given(c) \in [Sources -> Nat]
      BY <1>0, <3>1 DEF Given, TypeInv
    <3> QED
      BY <1>0, <2>1, <3>2, Zenon DEF Release, releaseSource, TypeInv
  <2>2. CASE UNCHANGED <<slots, releases>>
    BY <1>0, <2>2, Zenon DEF TypeInv
  <2> QED
    BY <2>1, <2>2, Zenon DEF authWorker, Receive, Track, AuthOK, AuthFail, untrackInFlight,
                      Abandon, Deliver
\* It works on with what it has.
<1>3. ASSUME NEW p \in Working, Goes(w, p), worker[w].pc \in Working,
             UNCHANGED <<pending, delivered>>, open' \subseteq open,
             p \in Failed => c \notin open'
      PROVE  ListenerInv'
  <2>1. /\ worker' \in [Workers -> WorkerType]
        /\ worker'[w].pc = p /\ worker'[w].conn = c
        /\ \A v \in Workers \ {w} : worker'[v] = worker[v]
    BY <1>0, <1>3, WorkerGoes, Zenon
  <2>2. TypeInv'
    BY <1>0, <1>1, <1>2, <1>3, <2>1, Zenon DEF TypeInv, WorkerType
  <2>3. HandsInv' /\ FailedInv'
    BY <1>0, <1>1, <1>3, <2>1, Zenon DEF HandsInv, FailedInv
  <2>4. OwnerInv'
    BY <1>0, <1>1, <1>3, <2>1, OwnersSame, Zenon
  <2> QED
    BY <2>2, <2>3, <2>4, Zenon DEF ListenerInv
\* It is left without a connection, which is closed or delivered by then.
<1>4. ASSUME NEW p \in Resting, worker' = [worker EXCEPT ![w] = [pc |-> p, conn |-> NoConn]],
             UNCHANGED pending, open' \subseteq open,
             delivered' = delivered \/ (delivered' = delivered \cup {c} /\ c \in Conns),
             c \in open' => c \in delivered'
      PROVE  ListenerInv'
  <2>1. /\ worker' \in [Workers -> WorkerType]
        /\ worker'[w].pc = p /\ worker'[w].conn = NoConn
        /\ \A v \in Workers \ {w} : worker'[v] = worker[v]
    BY <1>0, <1>4, WorkerTakes, Zenon DEF Hands
  <2>2. c \in Conns => c \in arrived /\ c \notin Elems(pending) /\ c # acceptor.conn
    BY <1>0, Zenon DEF OwnerInv, WorkersInv
  <2>3. \A v \in Workers \ {w} : c \in Conns => worker[v].conn # c
    BY <1>0, Zenon DEF OwnerInv, WorkersInv
  <2>4. TypeInv'
    BY <1>0, <1>1, <1>2, <1>4, <2>1, <2>2, Zenon DEF TypeInv, WorkerType
  <2>5. HandsInv' /\ FailedInv'
    BY <1>0, <1>1, <1>4, <2>1, Zenon DEF HandsInv, FailedInv, Failed, Working, Resting
  <2>6. QueueInv' /\ LoopInv'
    BY <1>0, <1>1, <1>4, <2>2, Zenon DEF OwnerInv, QueueInv, LoopInv
  <2>7. WorkersInv'
    <3> SUFFICES ASSUME NEW v \in Workers, worker'[v].conn \in Conns
                 PROVE  /\ worker'[v].conn \in arrived' \ (Elems(pending') \cup delivered')
                        /\ worker'[v].conn # acceptor'.conn
                        /\ \A u \in Workers : worker'[u].conn = worker'[v].conn => u = v
      BY Zenon DEF WorkersInv
    <3>1. v # w /\ worker'[v] = worker[v]
      BY <2>1, Zenon
    <3>2. worker[v].conn \notin delivered'
      BY <1>0, <1>4, <2>3, <3>1, Zenon DEF OwnerInv, WorkersInv
    <3>3. \A u \in Workers : worker'[u].conn = worker'[v].conn => u = v
      BY <1>0, <2>1, <3>1, Zenon DEF OwnerInv, WorkersInv
    <3> QED
      BY <1>0, <1>1, <1>4, <3>1, <3>2, <3>3 DEF OwnerInv, WorkersInv
  <2>8. OpenInv'
    <3> SUFFICES ASSUME NEW d \in open'
                 PROVE  \/ d \in Elems(pending') \cup delivered' \/ acceptor'.conn = d
                        \/ \E v \in Workers : worker'[v].conn = d
      BY Zenon DEF OpenInv
    <3>1. \/ d \in Elems(pending) \cup delivered \/ acceptor.conn = d
          \/ \E v \in Workers : worker[v].conn = d
      BY <1>0, <1>4, Zenon DEF OwnerInv, OpenInv
    <3> QED
      BY <1>1, <1>4, <2>1, <3>1, Zenon
  <2> QED
    BY <2>4, <2>5, <2>6, <2>7, <2>8, Zenon DEF ListenerInv, OwnerInv
<1>5. CASE Receive(w) /\ pending # <<>>
  <2> DEFINE h == Head(pending)
  <2>1. /\ worker' = [worker EXCEPT ![w] = [pc |-> "track", conn |-> h]]
        /\ pending' = Tail(pending) /\ UNCHANGED <<open, delivered>>
        /\ worker[w].pc = "receive"
    BY <1>5, Zenon DEF Receive, callVars, At
  <2>2. /\ pending' \in Seq(Conns) /\ Len(pending') <= Len(pending)
        /\ h \in Elems(pending) /\ h \in Conns
        /\ Elems(pending') = Elems(pending) \ {h} /\ Distinct(pending')
    BY <1>0, <1>5, <2>1, TailElems, Zenon DEF TypeInv, OwnerInv, QueueInv
  <2>3. Len(pending') <= MaxPending
    <3>1. Len(pending) \in Nat /\ Len(pending') \in Nat /\ Len(pending) <= MaxPending
      BY <1>0, <2>2 DEF TypeInv, OwnerInv, QueueInv
    <3> QED
      BY <2>2, <3>1
  <2> HIDE DEF h
  <2>4. /\ worker' \in [Workers -> WorkerType]
        /\ worker'[w].pc = "track" /\ worker'[w].conn = h
        /\ \A v \in Workers \ {w} : worker'[v] = worker[v]
    BY <1>0, <2>1, <2>2, WorkerTakes, Zenon DEF Hands, Working
  <2>5. c = NoConn
    BY <1>0, <2>1, Zenon DEF HandsInv, Working
  <2>6. TypeInv'
    BY <1>0, <1>1, <1>2, <2>1, <2>2, <2>4, Zenon DEF TypeInv, WorkerType
  <2>7. HandsInv' /\ FailedInv'
    BY <1>0, <1>1, <2>1, <2>2, <2>4, Zenon DEF HandsInv, FailedInv, Failed, Working
  <2>8. QueueInv' /\ LoopInv'
    BY <1>0, <1>1, <2>1, <2>2, <2>3, Zenon DEF OwnerInv, QueueInv, LoopInv
  <2>9. h \in arrived /\ h \notin delivered /\ h # acceptor.conn
        /\ \A v \in Workers : worker[v].conn # h
    BY <1>0, <2>2, Zenon DEF OwnerInv, QueueInv, LoopInv, WorkersInv
  <2>10. WorkersInv'
    BY <1>0, <1>1, <2>1, <2>2, <2>4, <2>9 DEF OwnerInv, WorkersInv
  <2>11. OpenInv'
    <3> SUFFICES ASSUME NEW d \in open'
                 PROVE  \/ d \in Elems(pending') \cup delivered' \/ acceptor'.conn = d
                        \/ \E v \in Workers : worker'[v].conn = d
      BY Zenon DEF OpenInv
    <3>1. d # NoConn
      BY <1>0, <2>1, Zenon DEF TypeInv
    <3>2. \/ d \in Elems(pending) \cup delivered \/ acceptor.conn = d
          \/ \E v \in Workers \ {w} : worker[v].conn = d
      BY <1>0, <2>1, <2>5, <3>1, Zenon DEF OwnerInv, OpenInv
    <3> QED
      BY <1>1, <2>1, <2>2, <2>4, <3>2, Zenon
  <2> QED
    BY <2>6, <2>7, <2>8, <2>10, <2>11, Zenon DEF ListenerInv, OwnerInv
<1>6. CASE Receive(w) /\ pending = <<>>
  <2>1. /\ worker' = [worker EXCEPT ![w] = [pc |-> "drained", conn |-> NoConn]]
        /\ UNCHANGED <<open, pending, delivered>> /\ worker[w].pc = "receive"
    BY <1>6, Zenon DEF Receive, callVars, At
  <2>2. c \notin open
    BY <1>0, <2>1, Zenon DEF HandsInv, Working, TypeInv
  <2> QED
    BY <1>4, <2>1, <2>2, Zenon DEF Resting
<1>7. CASE Track(w) \/ AuthOK(w) \/ AuthFail(w) \/ untrackInFlight(w)
           \/ (Release(w) /\ At(w, "release ok"))
  <2>1. UNCHANGED <<pending, delivered>> /\ open' \subseteq open
    BY <1>7, Zenon DEF Track, Tracked, AuthOK, AuthFail, untrackInFlight, Release, callVars
  <2>2. PICK p \in Working : Goes(w, p) /\ worker[w].pc \in Working
                             /\ (p \in Failed => c \notin open')
    BY <1>0, <1>7, Zenon DEF Track, AuthOK, AuthFail, untrackInFlight, Release, At, Working,
                      FailedInv, Failed
  <2> QED
    BY <1>3, <2>1, <2>2, Zenon
<1>8. CASE Release(w) /\ ~At(w, "release ok")
  <2>1. /\ worker' = [worker EXCEPT ![w] = [pc |-> "receive", conn |-> NoConn]]
        /\ UNCHANGED <<open, pending, delivered>> /\ c \notin open
    BY <1>0, <1>8, Zenon DEF Release, callVars, At, FailedInv, Failed
  <2> QED
    BY <1>4, <2>1, Zenon DEF Resting
<1>9. ASSUME NEW a \in Callers, Deliver(w, a) PROVE ListenerInv'
  <2>1. /\ worker' = [worker EXCEPT ![w] = [pc |-> "receive", conn |-> NoConn]]
        /\ UNCHANGED <<open, pending>> /\ delivered' = delivered \cup {c}
        /\ worker[w].pc = "deliver"
    BY <1>9, Zenon DEF Deliver, At
  <2>2. c \in Conns
    BY <1>0, <2>1, Zenon DEF HandsInv, Working, TypeInv, Hands
  <2> QED
    BY <1>4, <2>1, <2>2, Zenon DEF Resting
<1>10. CASE Abandon(w)
  <2>1. /\ worker' = [worker EXCEPT ![w] = [pc |-> "exit", conn |-> NoConn]]
        /\ UNCHANGED <<pending, delivered>> /\ open' = open \ {c}
    BY <1>10, Zenon DEF Abandon, Abandoned, Exited, callVars
  <2> QED
    BY <1>4, <2>1, Zenon DEF Resting
<1> QED
  BY <1>5, <1>6, <1>7, <1>8, <1>9, <1>10, Zenon DEF authWorker

\* Accept and Close hand no connection over.
LEMMA CloserOwners ==
  ASSUME ListenerInv,
         \/ CloseReady \/ CloseRecords \/ CloseStep \/ UNCHANGED vars
         \/ \E a \in Callers : AcceptCall(a) \/ AcceptErr(a)
  PROVE  ListenerInv'
<1>0. TypeInv /\ HandsInv /\ FailedInv /\ OwnerInv
  BY Zenon DEF ListenerInv
<1>1. /\ UNCHANGED <<arrived, acceptor, pending, slots, releases, worker, delivered>>
      /\ open' \subseteq open /\ done' \in {done, TRUE}
  BY Zenon DEF CloseReady, CloseRecords, CloseStep, CloseDone, CloseListener, closeInFlight,
         AcceptCall, AcceptErr, acceptVars, callVars, closeVars, vars
<1>2. TypeInv' /\ HandsInv' /\ FailedInv'
  BY <1>0, <1>1, Zenon DEF TypeInv, HandsInv, FailedInv
<1>3. OwnerInv'
  BY <1>0, <1>1, OwnersSame, Zenon
<1> QED
  BY <1>2, <1>3, Zenon DEF ListenerInv

\* Every step of the accept loop, the workers and Close keeps the connections in the right
\* hands.
LEMMA ListenerNext == ListenerInv /\ [Next]_vars => ListenerInv'
BY LoopOwners, WorkerOwners, CloserOwners, Zenon DEF Next

\* Every reachable state has its connections in the right hands.
LEMMA ListenerSafe == Spec => []ListenerInv
<1>1. Init => ListenerInv
  BY ListenerInit, Zenon
<1>2. ListenerInv /\ [Next]_vars => ListenerInv'
  BY ListenerNext, Zenon
<1> QED
  BY <1>1, <1>2, PTL DEF Spec

\* OneOwner of the listener: from accept to delivery or close, an open connection
\* is with exactly one of the accept loop, the queue, a worker and the application.
THEOREM ConnectionsHaveOneOwner == Spec => []OneOwner
<1>1. ASSUME ListenerInv PROVE OneOwner
  <2> USE ConstantsAssumption
  <2>0. TypeInv /\ OwnerInv
    BY <1>1, Zenon DEF ListenerInv
  <2> SUFFICES ASSUME NEW c \in open PROVE Cardinality(Owners(c)) = 1
    BY Zenon DEF OneOwner
  <2>1. c \in Conns
    BY <2>0, Zenon DEF TypeInv
  <2>2. Elems(pending) \cap delivered = {} /\ Distinct(pending)
    BY <2>0, Zenon DEF OwnerInv, QueueInv
  <2>3. \A w \in Workers : worker[w].conn = c =>
          /\ c \notin Elems(pending) /\ c \notin delivered /\ acceptor.conn # c
          /\ \A v \in Workers : worker[v].conn = c => v = w
    BY <2>0, <2>1, Zenon DEF OwnerInv, WorkersInv
  <2>4. acceptor.conn = c => c \notin Elems(pending) /\ c \notin delivered
    BY <2>0, Zenon DEF OwnerInv, LoopInv
  <2>5. \A i \in 1..Len(pending) : pending[i] = c =>
          c \in Elems(pending) /\ \A j \in 1..Len(pending) : pending[j] = c => j = i
    BY <2>2, Zenon DEF Elems, Distinct
  <2>6. \E x : Owners(c) = {x}
    <3>1. CASE c \in delivered
      <4>1. Owners(c) = {"application"}
        BY <2>2, <2>3, <2>4, <2>5, <3>1, Zenon DEF Owners
      <4> QED
        BY <4>1, Zenon
    <3>2. CASE acceptor.conn = c
      <4>1. Owners(c) = {"accept loop"}
        BY <2>3, <2>4, <2>5, <3>2, Zenon DEF Owners
      <4> QED
        BY <4>1, Zenon
    <3>3. CASE c \in Elems(pending)
      <4>1. PICK i \in 1..Len(pending) : pending[i] = c
        BY <3>3, Zenon DEF Elems
      <4>2. Owners(c) = {i}
        BY <2>2, <2>3, <2>4, <2>5, <3>3, <4>1, Zenon DEF Owners
      <4> QED
        BY <4>2, Zenon
    <3>4. CASE \E w \in Workers : worker[w].conn = c
      <4>1. PICK w \in Workers : worker[w].conn = c
        BY <3>4, Zenon
      <4>2. Owners(c) = {w}
        BY <2>3, <2>5, <4>1, Zenon DEF Owners
      <4> QED
        BY <4>2, Zenon
    <3> QED
      BY <2>0, <3>1, <3>2, <3>3, <3>4, Zenon DEF OwnerInv, OpenInv
  <2> QED
    BY <2>6, FS_Singleton, Zenon
<1> QED
  BY <1>1, ListenerSafe, PTL
-----------------------------------------------------------------------------
\* The slots that a source's connections hold can be counted.
LEMMA OfFinite ==
  ASSUME TypeInv, NEW s PROVE IsFiniteSet(Of(s)) /\ Cardinality(Of(s)) \in Nat
<1>1. Of(s) \subseteq Conns
  BY Zenon DEF Of, TypeInv
<1>2. IsFiniteSet(Of(s))
  BY <1>1, ConstantsAssumption, FS_Subset, Zenon
<1> QED
  BY <1>2, FS_CardinalityType, Zenon

\* perSource.Acquire: one slot more for the connection's source.
LEMMA SlotTaken ==
  ASSUME TypeInv, SlotInv, NEW c \in Conns, c \notin releases, HasSlot(c),
         releases' = releases \cup {c}, Held' = Held \cup {c},
         slots' = IF MaxPerSource = 0 THEN slots ELSE [slots EXCEPT ![SourceOf[c]] = @ + 1]
  PROVE  SlotInv'
<1> USE ConstantsAssumption
<1>1. releases' = Held'
  BY Zenon DEF SlotInv
<1>2. ASSUME MaxPerSource > 0, NEW s \in Sources
      PROVE  slots'[s] = Cardinality(Of(s)') /\ slots'[s] <= MaxPerSource
  <2>1. IsFiniteSet(Of(s)) /\ Cardinality(Of(s)) \in Nat
    BY OfFinite, Zenon
  <2>2. slots[s] = Cardinality(Of(s)) /\ slots[s] <= MaxPerSource
    BY <1>2, Zenon DEF SlotInv
  <2>3. CASE s = SourceOf[c]
    <3>1. slots'[s] = slots[s] + 1 /\ slots[s] < MaxPerSource
      BY <1>2, <2>3 DEF TypeInv, HasSlot
    <3>2. Of(s)' = Of(s) \cup {c} /\ c \notin Of(s)
      BY <2>3, Zenon DEF Of
    <3>3. Cardinality(Of(s) \cup {c}) = Cardinality(Of(s)) + 1
      BY <2>1, <3>2, FS_AddElement, Zenon
    <3> QED
      BY <2>1, <2>2, <3>1, <3>2, <3>3
  <2>4. CASE s # SourceOf[c]
    <3>1. slots'[s] = slots[s]
      BY <2>4, Zenon DEF TypeInv
    <3>2. Of(s)' = Of(s)
      BY <2>4, Zenon DEF Of
    <3> QED
      BY <2>2, <3>1, <3>2, Zenon
  <2> QED
    BY <2>3, <2>4, Zenon
<1> QED
  BY <1>1, <1>2, Zenon DEF SlotInv

\* releaseSource: one slot fewer, and never below none.
LEMMA SlotGiven ==
  ASSUME TypeInv, SlotInv, NEW c \in Conns, c \in releases, releaseSource(c),
         Held' = Held \ {c}
  PROVE  SlotInv'
<1> USE ConstantsAssumption
<1>1. releases' = releases \ {c} /\ releases' = Held' /\ slots' = Given(c)
  BY Zenon DEF SlotInv, releaseSource
<1>2. ASSUME MaxPerSource > 0, NEW s \in Sources
      PROVE  slots'[s] = Cardinality(Of(s)') /\ slots'[s] <= MaxPerSource
  <2>1. IsFiniteSet(Of(s)) /\ Cardinality(Of(s)) \in Nat
    BY OfFinite, Zenon
  <2>2. slots[s] = Cardinality(Of(s)) /\ slots[s] <= MaxPerSource
    BY <1>2, Zenon DEF SlotInv
  <2>3. CASE s = SourceOf[c]
    <3>1. slots'[s] = IF slots[s] <= 1 THEN 0 ELSE slots[s] - 1
      BY <1>1, <2>3, Zenon DEF TypeInv, Given
    <3>2. Of(s)' = Of(s) \ {c} /\ c \in Of(s)
      BY <1>1, <2>3, Zenon DEF Of
    <3>3. Cardinality(Of(s) \ {c}) = Cardinality(Of(s)) - 1
      BY <2>1, <3>2, FS_RemoveElement, Zenon
    <3>4. Cardinality(Of(s)) # 0
      BY <2>1, <3>2, FS_EmptySet, Zenon
    <3> QED
      BY <2>1, <2>2, <3>1, <3>2, <3>3, <3>4
  <2>4. CASE s # SourceOf[c]
    <3>1. slots'[s] = slots[s]
      BY <1>1, <2>4, Zenon DEF TypeInv, Given
    <3>2. Of(s)' = Of(s)
      BY <1>1, <2>4, Zenon DEF Of
    <3> QED
      BY <2>2, <3>1, <3>2, Zenon
  <2> QED
    BY <2>3, <2>4, Zenon
<1> QED
  BY <1>1, <1>2, Zenon DEF SlotInv

\* A step that takes and gives back no slot.
LEMMA SlotsSame ==
  ASSUME SlotInv, UNCHANGED <<slots, releases>>, Held' = Held PROVE SlotInv'
BY Zenon DEF SlotInv, Of

\* A new listener holds no pending slot.
LEMMA SlotInit == Init => SlotInv
<1> SUFFICES ASSUME Init PROVE SlotInv
  BY Zenon
<1>1. Elems(pending) = {}
  BY DEF Init, Elems
<1>2. /\ \A w \in Workers : worker[w].conn = NoConn
      /\ acceptor.pc = "accept" /\ releases = {}
  BY Zenon DEF Init
<1>3. Held = {}
  BY <1>1, <1>2, ConstantsAssumption, Zenon DEF Held
<1>4. \A s \in Sources : slots[s] = 0 /\ Of(s) = {}
  BY Zenon DEF Init, Of
<1> QED
  BY <1>2, <1>3, <1>4, FS_EmptySet, ConstantsAssumption DEF SlotInv

\* The accept loop: what it queues has a slot, what it drops has none.
LEMMA LoopSlots ==
  ASSUME ListenerInv, SlotInv,
         \/ \E c \in Conns : ListenerAccept(c)
         \/ AcceptTemporary \/ AcceptBroken \/ acceptLoop
  PROVE  SlotInv'
<1> USE ConstantsAssumption
<1>0. TypeInv /\ HandsInv /\ OwnerInv
  BY Zenon DEF ListenerInv
<1>1. UNCHANGED worker
  BY Zenon DEF ListenerAccept, AcceptTemporary, AcceptBroken, AcceptFails, acceptLoop, Sleep,
         AcceptClosed, Acquire, Queue
<1>2. CASE \/ \E c \in Conns : ListenerAccept(c)
           \/ AcceptTemporary \/ AcceptBroken \/ AcceptClosed \/ Sleep
  <2>1. /\ UNCHANGED <<pending, slots, releases>>
        /\ acceptor.pc # "queue" /\ acceptor'.pc # "queue"
    <3>1. CASE (\E c \in Conns : ListenerAccept(c)) \/ AcceptTemporary
      BY <1>0, <3>1 DEF ListenerAccept, AcceptTemporary, TypeInv
    <3>2. ASSUME NEW e, AcceptFails(e)
          PROVE  /\ UNCHANGED <<pending, slots, releases>>
                 /\ acceptor.pc # "queue" /\ acceptor'.pc # "queue"
      <4>1. acceptor' = Exited /\ acceptor.pc = "accept"
        BY <3>2, Zenon DEF AcceptFails, AcceptorExits
      <4> QED
        BY <3>2, <4>1, Zenon DEF AcceptFails, Exited
    <3>3. CASE Sleep
      BY <1>0, <3>3 DEF Sleep, AcceptorExits, Exited, TypeInv
    <3> QED
      BY <1>2, <3>1, <3>2, <3>3, Zenon DEF AcceptBroken, AcceptClosed
  <2>2. Held' = Held
    BY <1>1, <2>1, Zenon DEF Held
  <2> QED
    BY <2>1, <2>2, SlotsSame, Zenon
<1>3. CASE Acquire
  <2> DEFINE c == acceptor.conn
  <2>0. c \in Conns /\ acceptor.pc = "acquire"
    BY <1>0, <1>3, Zenon DEF Acquire, HandsInv, TypeInv, Hands
  <2>1. c \notin Elems(pending) /\ \A w \in Workers : worker[w].conn # c
    BY <1>0, <2>0, Zenon DEF OwnerInv, LoopInv, WorkersInv
  <2>2. c \notin Held
    BY <2>0, <2>1, Zenon DEF Held
  <2>3. CASE HasSlot(c)
    <3>1. /\ acceptor' = [acceptor EXCEPT !.pc = "queue"] /\ releases' = releases \cup {c}
          /\ slots' = IF MaxPerSource = 0 THEN slots
                      ELSE [slots EXCEPT ![SourceOf[c]] = @ + 1]
          /\ UNCHANGED pending
      BY <1>3, <2>3, Zenon DEF Acquire
    <3>2. acceptor'.pc = "queue" /\ acceptor'.conn = c
      BY <1>0, <3>1, Zenon DEF TypeInv
    <3>3. Held' = Held \cup {c}
      BY <1>1, <2>0, <3>1, <3>2, Zenon DEF Held
    <3>4. c \notin releases
      BY <2>2, Zenon DEF SlotInv
    <3> HIDE DEF c
    <3> QED
      BY <1>0, <2>0, <2>3, <3>1, <3>3, <3>4, SlotTaken, Zenon
  <2>4. CASE ~HasSlot(c)
    <3>1. acceptor'.pc = "accept" /\ UNCHANGED <<pending, slots, releases>>
      BY <1>3, <2>4 DEF Acquire, Refused
    <3>2. Held' = Held
      BY <1>1, <2>0, <3>1, Zenon DEF Held
    <3> QED
      BY <3>1, <3>2, SlotsSame, Zenon
  <2> QED
    BY <2>3, <2>4, Zenon
<1>4. CASE Queue
  <2> DEFINE c == acceptor.conn
  <2>0. c \in Conns /\ acceptor.pc = "queue"
    BY <1>0, <1>4, Zenon DEF Queue, HandsInv, TypeInv, Hands
  <2>1. c \notin Elems(pending) /\ \A w \in Workers : worker[w].conn # c
    BY <1>0, <2>0, Zenon DEF OwnerInv, LoopInv, WorkersInv
  <2>2. c \in Held
    BY <2>0, Zenon DEF Held
  <2>3. acceptor'.pc # "queue"
    BY <1>4 DEF Queue, AcceptorExits, Exited
  <2>4. CASE pending' = Append(pending, c) /\ UNCHANGED <<slots, releases>>
    <3>1. Elems(pending') = Elems(pending) \cup {c}
      BY <1>0, <2>0, <2>4, AppendElems DEF TypeInv
    <3>2. Held' = Held
      BY <1>1, <2>0, <2>3, <3>1, Zenon DEF Held
    <3> QED
      BY <2>4, <3>2, SlotsSame, Zenon
  <2>5. CASE Dropped(c) /\ UNCHANGED pending
    <3>1. Held' = Held \ {c}
      BY <1>1, <2>0, <2>1, <2>3, <2>5, Zenon DEF Held
    <3>2. c \in releases /\ releaseSource(c)
      BY <2>2, <2>5, Zenon DEF SlotInv, Dropped
    <3> HIDE DEF c
    <3> QED
      BY <1>0, <2>0, <3>1, <3>2, SlotGiven, Zenon
  <2> QED
    BY <1>4, <2>4, <2>5, Zenon DEF Queue
<1> QED
  BY <1>2, <1>3, <1>4, Zenon DEF acceptLoop

\* The workers: a slot is given back once, when the authentication is over.
LEMMA WorkerSlots ==
  ASSUME ListenerInv, SlotInv, NEW w \in Workers, authWorker(w)
  PROVE  SlotInv'
<1> DEFINE c == worker[w].conn
<1> USE ConstantsAssumption
<1>0. TypeInv /\ HandsInv /\ OwnerInv
  BY Zenon DEF ListenerInv
<1>1. UNCHANGED acceptor
  BY Zenon DEF authWorker, Receive, Track, AuthOK, AuthFail, untrackInFlight, Release, Abandon,
         Deliver, acceptVars
<1>2. CASE Receive(w) /\ pending # <<>>
  <2> DEFINE h == Head(pending)
  <2>1. /\ worker' = [worker EXCEPT ![w] = [pc |-> "track", conn |-> h]]
        /\ pending' = Tail(pending) /\ UNCHANGED <<slots, releases>>
        /\ worker[w].pc = "receive"
    BY <1>2, Zenon DEF Receive, At
  <2>2. h \in Elems(pending) /\ h \in Conns /\ Elems(pending') = Elems(pending) \ {h}
    BY <1>0, <1>2, <2>1, TailElems, Zenon DEF TypeInv, OwnerInv, QueueInv
  <2> HIDE DEF h
  <2>3. /\ worker'[w].pc = "track" /\ worker'[w].conn = h
        /\ \A v \in Workers \ {w} : worker'[v] = worker[v]
    BY <1>0, <2>1, <2>2, WorkerTakes, Zenon DEF Hands, Working
  <2>4. c = NoConn
    BY <1>0, <2>1, Zenon DEF HandsInv, Working
  <2>5. ASSUME NEW d \in Conns PROVE d \in Held' <=> d \in Held
    <3>1. (\E v \in Workers : worker'[v].conn = d /\ worker'[v].pc # "deliver")
            <=> \/ d = h
                \/ \E v \in Workers : worker[v].conn = d /\ worker[v].pc # "deliver"
      BY <2>3, <2>4, Zenon
    <3> QED
      BY <1>1, <2>2, <3>1, Zenon DEF Held
  <2>6. Held' = Held
    BY <2>5, Zenon DEF Held
  <2> QED
    BY <2>1, <2>6, SlotsSame, Zenon
\* Whatever the worker does next, it and its connection stay on the same side.
<1>3. ASSUME UNCHANGED <<pending, slots, releases>>,
             \A v \in Workers \ {w} : worker'[v] = worker[v],
             \/ worker'[w].conn = c /\ worker[w].pc # "deliver" /\ worker'[w].pc # "deliver"
             \/ worker'[w].conn = NoConn /\ (c = NoConn \/ worker[w].pc = "deliver")
      PROVE  SlotInv'
  <2>1. ASSUME NEW d \in Conns PROVE d \in Held' <=> d \in Held
    <3>1. \A v \in Workers : (worker'[v].conn = d /\ worker'[v].pc # "deliver")
            <=> (worker[v].conn = d /\ worker[v].pc # "deliver")
      BY <1>3, Zenon
    <3> QED
      BY <1>1, <1>3, <3>1, Zenon DEF Held
  <2>2. Held' = Held
    BY <2>1, Zenon DEF Held
  <2> QED
    BY <1>3, <2>2, SlotsSame, Zenon
<1>4. CASE Receive(w) /\ pending = <<>>
  <2>1. /\ worker' = [worker EXCEPT ![w] = [pc |-> "drained", conn |-> NoConn]]
        /\ UNCHANGED <<pending, slots, releases>> /\ worker[w].pc = "receive"
    BY <1>4, Zenon DEF Receive, At
  <2>2. c = NoConn
    BY <1>0, <2>1, Zenon DEF HandsInv, Working
  <2>3. /\ worker'[w].conn = NoConn
        /\ \A v \in Workers \ {w} : worker'[v] = worker[v]
    BY <1>0, <2>1, WorkerTakes, Zenon DEF Hands, Resting
  <2> QED
    BY <1>3, <2>1, <2>2, <2>3, Zenon
<1>5. CASE Track(w) \/ AuthOK(w) \/ AuthFail(w) \/ untrackInFlight(w)
  <2>1. UNCHANGED <<pending, slots, releases>> /\ worker[w].pc # "deliver"
    BY <1>5, Zenon DEF Track, AuthOK, AuthFail, untrackInFlight, At
  <2>2. PICK p \in Working \ {"deliver"} : Goes(w, p)
    BY <1>5, Zenon DEF Track, AuthOK, AuthFail, untrackInFlight, Working
  <2>3. /\ worker'[w].conn = c /\ worker'[w].pc = p
        /\ \A v \in Workers \ {w} : worker'[v] = worker[v]
    BY <1>0, <2>2, WorkerGoes, Zenon
  <2> QED
    BY <1>3, <2>1, <2>2, <2>3, Zenon
<1>6. CASE Abandon(w) \/ \E a \in Callers : Deliver(w, a)
  <2>1. UNCHANGED <<pending, slots, releases>> /\ worker[w].pc = "deliver"
    BY <1>6, Zenon DEF Abandon, Deliver, At
  <2>2. PICK p \in Resting : worker' = [worker EXCEPT ![w] = [pc |-> p, conn |-> NoConn]]
    BY <1>6, Zenon DEF Abandon, Deliver, Exited, Resting
  <2>3. /\ worker'[w].conn = NoConn
        /\ \A v \in Workers \ {w} : worker'[v] = worker[v]
    BY <1>0, <2>2, WorkerTakes, Zenon DEF Hands
  <2> QED
    BY <1>3, <2>1, <2>3, Zenon
<1>7. CASE Release(w)
  <2>1. /\ UNCHANGED pending /\ releaseSource(c)
        /\ worker[w].pc \in {"release ok", "release failed"}
    BY <1>7, Zenon DEF Release, At
  <2>2. c \in Conns
    BY <1>0, <2>1, Zenon DEF HandsInv, TypeInv, Hands, Working
  <2>3. /\ \/ worker'[w].conn = c /\ worker'[w].pc = "deliver"
           \/ worker'[w].conn = NoConn
        /\ \A v \in Workers \ {w} : worker'[v] = worker[v]
    <3>1. CASE Goes(w, "deliver")
      BY <1>0, <3>1, WorkerGoes, Zenon DEF Working
    <3>2. CASE worker' = [worker EXCEPT ![w] = [pc |-> "receive", conn |-> NoConn]]
      BY <1>0, <3>2, WorkerTakes, Zenon DEF Hands, Resting
    <3> QED
      BY <1>7, <3>1, <3>2, Zenon DEF Release
  <2>4. /\ c \notin Elems(pending) /\ acceptor.conn # c
        /\ \A v \in Workers : worker[v].conn = c => v = w
    BY <1>0, <2>2, Zenon DEF OwnerInv, WorkersInv
  <2>5. c \in releases
    BY <2>1, <2>2, Zenon DEF SlotInv, Held
  <2>6. ASSUME NEW d \in Conns PROVE d \in Held' <=> d \in Held /\ d # c
    <3>1. (\E v \in Workers : worker'[v].conn = d /\ worker'[v].pc # "deliver")
            <=> /\ d # c
                /\ \E v \in Workers : worker[v].conn = d /\ worker[v].pc # "deliver"
      BY <2>3, <2>4, Zenon
    <3> QED
      BY <1>1, <2>1, <2>4, <3>1, Zenon DEF Held
  <2>7. Held' = Held \ {c}
    BY <2>6, Zenon DEF Held
  <2> HIDE DEF c
  <2> QED
    BY <1>0, <2>1, <2>2, <2>5, <2>7, SlotGiven, Zenon
<1> QED
  BY <1>2, <1>4, <1>5, <1>6, <1>7, Zenon DEF authWorker

\* Every step keeps the pending slots equal to the connections that hold one.
LEMMA SlotNext == ListenerInv /\ SlotInv /\ [Next]_vars => SlotInv'
<1> SUFFICES ASSUME ListenerInv, SlotInv, [Next]_vars PROVE SlotInv'
  BY Zenon
<1>1. CASE \/ CloseReady \/ CloseRecords \/ CloseStep \/ UNCHANGED vars
           \/ \E a \in Callers : AcceptCall(a) \/ AcceptErr(a)
  <2>1. UNCHANGED <<acceptor, pending, slots, releases, worker>>
    BY <1>1, Zenon DEF CloseReady, CloseRecords, CloseStep, CloseDone, CloseListener,
         closeInFlight, AcceptCall, AcceptErr, acceptVars, vars
  <2>2. Held' = Held
    BY <2>1, Zenon DEF Held
  <2> QED
    BY <2>1, <2>2, SlotsSame, Zenon
<1> QED
  BY <1>1, LoopSlots, WorkerSlots, Zenon DEF Next

\* SlotsExact of the listener: on every path of the accept loop, the workers and
\* Close a source's slots are its queued and authenticating connections, and the
\* queue and the slots stay within MaxPendingAuth and MaxPendingAuthPerSource.
THEOREM SlotsAreExact == Spec => []SlotsExact
<1>1. Init => SlotInv
  BY SlotInit, Zenon
<1>2. ListenerInv /\ SlotInv /\ [Next]_vars => SlotInv'
  BY SlotNext, Zenon
<1>3. ListenerInv /\ SlotInv => SlotsExact
  <2> SUFFICES ASSUME ListenerInv, SlotInv PROVE SlotsExact
    BY Zenon
  <2>1. Len(pending) <= MaxPending
    BY Zenon DEF ListenerInv, OwnerInv, QueueInv
  <2>2. ASSUME NEW s \in Sources PROVE Holding(s) = Of(s)
    BY Zenon DEF Holding, Of, SlotInv, Held, Queued, Elems, At
  <2> QED
    BY <2>1, <2>2, Zenon DEF SlotsExact, SlotInv
<1> QED
  BY <1>1, <1>2, <1>3, ListenerSafe, PTL DEF Spec
-----------------------------------------------------------------------------
\* What a worker authenticates is in flight, or closed: trackInFlight and Close
\* see done in one order or the other.
LEMMA FlightNext == ListenerInv /\ FlightInv /\ [Next]_vars => FlightInv'
<1> SUFFICES ASSUME ListenerInv, FlightInv, [Next]_vars PROVE FlightInv'
  BY Zenon
<1> USE ConstantsAssumption
<1>0. TypeInv /\ HandsInv /\ OwnerInv
  BY Zenon DEF ListenerInv
<1>1. ASSUME UNCHANGED <<worker, inFlight>>, closer' = closer, open' \subseteq open,
             done => done'
      PROVE  FlightInv'
  BY <1>1, Zenon DEF FlightInv
<1>2. CASE \/ AcceptTemporary \/ AcceptBroken \/ acceptLoop \/ CloseReady \/ UNCHANGED vars
           \/ \E a \in Callers : AcceptCall(a) \/ AcceptErr(a)
  <2>1. CASE AcceptTemporary \/ Sleep \/ Acquire \/ Queue
    BY <1>1, <2>1, Zenon DEF AcceptTemporary, Sleep, Acquire, Refused, Queue, Dropped, closeVars
  <2>2. CASE AcceptBroken \/ AcceptClosed
    BY <1>1, <2>2, Zenon DEF AcceptBroken, AcceptClosed, AcceptFails
  <2>3. CASE \/ CloseReady \/ UNCHANGED vars
             \/ \E a \in Callers : AcceptCall(a) \/ AcceptErr(a)
    BY <1>1, <2>3 DEF CloseReady, AcceptCall, AcceptErr, closeVars, vars
  <2> QED
    BY <1>2, <2>1, <2>2, <2>3, Zenon DEF acceptLoop
<1>3. ASSUME NEW c \in Conns, ListenerAccept(c) PROVE FlightInv'
  <2>1. /\ UNCHANGED <<worker, inFlight, closer, done>> /\ open' = open \cup {c}
        /\ c \notin arrived
    BY <1>3, Zenon DEF ListenerAccept, closeVars
  <2>2. \A w \in Workers : worker[w].conn # c
    BY <1>0, <2>1, Zenon DEF OwnerInv, WorkersInv
  <2> QED
    BY <2>1, <2>2, Zenon DEF FlightInv
<1>4. CASE CloseRecords \/ CloseStep
  BY <1>4, Zenon DEF CloseRecords, CloseStep, CloseDone, CloseListener, closeInFlight, FlightInv
<1>5. ASSUME NEW w \in Workers, authWorker(w) PROVE FlightInv'
  <2> DEFINE c == worker[w].conn
  <2>1. UNCHANGED <<closer, done>> /\ open' \subseteq open
    BY <1>5, Zenon DEF authWorker, Receive, Track, Tracked, AuthOK, AuthFail, untrackInFlight,
         Release, Abandon, Abandoned, Deliver, closeVars
  <2>2. CASE Track(w)
    <3>1. /\ worker'[w].pc = "auth" /\ worker'[w].conn = c
          /\ \A v \in Workers \ {w} : worker'[v] = worker[v]
      BY <1>0, <2>2, WorkerGoes, Zenon DEF Track, Working
    <3>2. \/ done /\ open' = open \ {c} /\ inFlight' = inFlight
          \/ ~done /\ open' = open /\ inFlight' = inFlight \cup {c}
      BY <2>2, Zenon DEF Track, Tracked
    <3> HIDE DEF c
    <3> QED
      BY <2>1, <3>1, <3>2, Zenon DEF FlightInv
  <2>3. CASE untrackInFlight(w)
    <3>1. inFlight' = inFlight \ {c} /\ worker[w].pc \in Working
          /\ \E p \in Working \ {"auth"} : Goes(w, p)
      BY <2>3, Zenon DEF untrackInFlight, Working, At
    <3>2. /\ worker'[w].pc # "auth"
          /\ \A v \in Workers \ {w} : worker'[v] = worker[v]
      BY <1>0, <3>1, WorkerGoes, Zenon
    <3>3. \A v \in Workers \ {w} : worker[v].conn # c
      BY <1>0, <3>1, Zenon DEF OwnerInv, WorkersInv, HandsInv, TypeInv, Hands
    <3> QED
      BY <2>1, <3>1, <3>2, <3>3, Zenon DEF FlightInv
  <2>4. CASE ~Track(w) /\ ~untrackInFlight(w)
    <3>1. inFlight' = inFlight
      BY <1>5, <2>4, Zenon DEF authWorker, Receive, AuthOK, AuthFail, Release, Abandon, Deliver
    <3>2. /\ worker'[w].pc # "auth"
          /\ \A v \in Workers \ {w} : worker'[v] = worker[v]
      <4>1. \/ \E p \in Working \ {"auth"} : Goes(w, p)
            \/ \E p \in (Working \cup Resting) \ {"auth"}, d \in Hands :
                 worker' = [worker EXCEPT ![w] = [pc |-> p, conn |-> d]]
        <5>1. CASE Receive(w) /\ pending # <<>>
          <6>1. Head(pending) \in Hands
            BY <1>0, <5>1 DEF TypeInv, Hands
          <6> QED
            BY <5>1, <6>1, Zenon DEF Receive, Working
        <5>2. CASE Receive(w) /\ pending = <<>>
          BY <5>2, Zenon DEF Receive, Resting, Hands
        <5>3. CASE AuthOK(w) \/ AuthFail(w) \/ Release(w)
          BY <5>3, Zenon DEF AuthOK, AuthFail, Release, Working, Resting, Hands
        <5>4. CASE Abandon(w) \/ \E a \in Callers : Deliver(w, a)
          BY <5>4, Zenon DEF Abandon, Deliver, Exited, Resting, Hands
        <5> QED
          BY <1>5, <2>4, <5>1, <5>2, <5>3, <5>4, Zenon DEF authWorker
      <4>2. CASE \E p \in Working \ {"auth"} : Goes(w, p)
        BY <1>0, <4>2, WorkerGoes, Zenon
      <4>3. ASSUME NEW p \in (Working \cup Resting) \ {"auth"}, NEW d \in Hands,
                   worker' = [worker EXCEPT ![w] = [pc |-> p, conn |-> d]]
            PROVE  /\ worker'[w].pc # "auth"
                   /\ \A v \in Workers \ {w} : worker'[v] = worker[v]
        BY <1>0, <4>3, WorkerTakes, Zenon
      <4> QED
        BY <4>1, <4>2, <4>3, Zenon
    <3> QED
      BY <2>1, <3>1, <3>2, Zenon DEF FlightInv
  <2> QED
    BY <2>2, <2>3, <2>4, Zenon
<1> QED
  BY <1>2, <1>3, <1>4, <1>5, Zenon DEF Next

\* CloseInterruptsAuth of the listener: when Close has returned, no worker is
\* authenticating a connection that is still open.
THEOREM NoAuthAfterClose == Spec => []CloseInterruptsAuth
<1>1. Init => FlightInv
  BY Zenon DEF Init, FlightInv
<1>2. ListenerInv /\ FlightInv /\ [Next]_vars => FlightInv'
  BY FlightNext, Zenon
<1>3. FlightInv => CloseInterruptsAuth
  BY Zenon DEF FlightInv, CloseInterruptsAuth, At
<1> QED
  BY <1>1, <1>2, <1>3, ListenerSafe, PTL DEF Spec
=============================================================================
