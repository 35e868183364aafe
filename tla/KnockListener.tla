---------------------------- MODULE KnockListener ----------------------------
(***************************************************************************)
(* The knock senders and listeners (knock/client.go, udp.go, udp_seq.go,   *)
(* udp_passive_linux.go, synseq_linux.go): which packets are taken for a   *)
(* knock, what the replay cache and the two sequence trackers keep, and    *)
(* when the handler is called.                                             *)
(*                                                                         *)
(* The network loses, duplicates, delays and reorders packets and may      *)
(* change the source of any of them.  A frame is sealed under a client's   *)
(* secret for a port, and SYN fields are derived from both: nobody else's  *)
(* packet passes for theirs.  A packet AllowPacket or the PacketLimiter    *)
(* drops is a lost one.  One goroutine reads packets, so handling a packet *)
(* is one step.                                                            *)
(***************************************************************************)
EXTENDS Integers, FiniteSets, Functions

CONSTANTS
  Clients,          \* opts.Clients
  Strangers,        \* senders the server has no secret of
  Sources,          \* source addresses
  Methods,          \* the methods a listener may be started with
  Port,             \* opts.Port
  Requests,         \* the knocks senders may be asked for: [client, port, sid, legacy]
  RequireSessionID,
  Length,           \* SequenceOptions.Length
  SeqWindow,        \* SequenceOptions.Window
  MaxInflightPerIP,
  MaxTotalInflight,
  TimeWindow,       \* TimeWindow of frames, and the length of a tcp-syn slot
  SlotSeconds,      \* SequenceOptions.SlotSeconds, the length of a tcp-syn-seq slot
  AllowLegacySYNSeq,
  GivenCache,       \* opts.ReplayCache is set, as gate and relay do
  MinReplayTTL,     \* the five minutes of replayCache and KnockReplayTTL
  NonceTTL,
  MaxSkew,          \* bound: difference of the clocks of client and server
  MaxSends,         \* bound: knocks sent
  MaxTime           \* bound: the clock stops here

IsSYN(m) == m \in {"tcp-syn", "tcp-syn-seq"}
IsSequence(m) == m \in {"udp-seq", "udp-passive-seq", "tcp-syn-seq"}
PartsOf(m) == IF IsSequence(m) THEN 0..(Length - 1) ELSE {0}

SlotLength(m) == IF m = "tcp-syn-seq" THEN SlotSeconds ELSE TimeWindow

\* How long a nonce is remembered: the whole acceptance span of a frame, and the three
\* slots of a SYN sequence in the cache its tracker makes itself.
ReplayTTL(m) ==
  IF m = "tcp-syn-seq" /\ ~GivenCache THEN 3 * SlotSeconds
  ELSE IF 2 * TimeWindow + 1 > MinReplayTTL THEN 2 * TimeWindow + 1 ELSE MinReplayTTL

\* With a SYN method the cache must outlive the three slots in which a packet is
\* accepted: for tcp-syn, and for a tcp-syn-seq with a given cache, it does so for slots
\* of at most 100 seconds.
ASSUME ListenerAssumption ==
  /\ IsFiniteSet(Clients \cup Strangers) /\ IsFiniteSet(Sources)
  /\ Clients \cap Strangers = {}
  /\ Methods \subseteq {"udp", "udp-seq", "udp-passive", "udp-passive-seq",
                        "tcp-syn", "tcp-syn-seq"}
  /\ {RequireSessionID, AllowLegacySYNSeq, GivenCache} \subseteq BOOLEAN
  /\ Length \in 2..5
  /\ {SeqWindow, MaxInflightPerIP, MaxTotalInflight, TimeWindow, SlotSeconds} \subseteq Nat \ {0}
  /\ {MinReplayTTL, NonceTTL, MaxSkew, MaxSends, MaxTime} \subseteq Nat
  /\ NonceTTL > SeqWindow
  /\ \A m \in Methods : IsSYN(m) => 3 * SlotLength(m) <= ReplayTTL(m)

VARIABLES
  method,    \* the method of listener and senders
  skew,      \* the senders' clock minus the server's
  now,       \* the server's clock
  begun,     \* the knocks begun: [client, port, sid, slot, legacy, next part to send]
  net,       \* packets sent
  replay,    \* replay cache: nonce -> expiry
  tracker,   \* the sequences in flight: states, a function from keys to
             \* [first, parts, sid], and the counters perIP and total
  completed, \* the UDP tracker's completed or expired sequences: key -> expiry
  fired,     \* number of handler calls for a knock
  arrived    \* <<part, source>> -> when it last came, within SeqWindow

listenerVars == <<method, skew, now, begun, net, replay, tracker, completed, fired, arrived>>

SlotFor(t) == t \div SlotLength(method)
Slots == 0..(MaxTime + MaxSkew)
KnockIDs == Clients \X (Slots \cup 1..MaxSends)
Empty == [k \in {} |-> 0]
Put(f, x, v) == [y \in DOMAIN f \cup {x} |-> IF y = x THEN v ELSE f[y]]

ListenerInit ==
  /\ method \in Methods /\ skew \in {0, MaxSkew}
  /\ now = 0 /\ begun = Empty /\ net = {}
  /\ replay = Empty /\ completed = Empty
  /\ tracker = [states |-> Empty, perIP |-> [s \in Sources |-> 0], total |-> 0]
  /\ fired = [i \in KnockIDs |-> 0] /\ arrived = Empty

\* Time passes; what has expired is as good as gone.
Tick ==
  /\ now < MaxTime /\ now' = now + 1
  /\ replay' = Restrict(replay, {p \in DOMAIN replay : replay[p] > now'})
  /\ arrived' = Restrict(arrived, {a \in DOMAIN arrived : now' - arrived[a] <= SeqWindow})
  /\ UNCHANGED <<method, skew, begun, net, tracker, completed, fired>>
-----------------------------------------------------------------------------
\* A UDP part is a frame of its own: its own timestamp and nonce, the sequence and
\* session ids of the knock.
BuildKnockFrame(n, k, i) ==
  [client |-> k.client, port |-> k.port, seq |-> n, idx |-> i,
   ts |-> now + skew, sid |-> k.sid]

\* The fields of a SYN part depend on client, port, slot and index alone, and on the
\* label: older senders derive those of a sequence with another one.
ComputeSYNFields(k, i) ==
  [client |-> k.client, port |-> k.port, slot |-> k.slot, idx |-> i, legacy |-> k.legacy]

\* The packet each sender writes as part k.next of knock k, the n-th.
SendUDPMethod(n, k) == BuildKnockFrame(n, k, 0)
SendUDPSequenceMethod(n, k) == BuildKnockFrame(n, k, k.next)
Send(k) == ComputeSYNFields(k, 0)
SendSYNSequence(k) == ComputeSYNFields(k, k.next)

Sent(n, k) ==
  /\ net' = net \cup {CASE method \in {"udp", "udp-passive"} -> SendUDPMethod(n, k)
                        [] method \in {"udp-seq", "udp-passive-seq"} -> SendUDPSequenceMethod(n, k)
                        [] method = "tcp-syn" -> Send(k)
                        [] method = "tcp-syn-seq" -> SendSYNSequence(k)}
  /\ begun' = Put(begun, n, [k EXCEPT !.next = @ + 1])
  /\ UNCHANGED <<method, skew, now, replay, tracker, completed, fired, arrived>>

\* SendMethod begins a knock; the slot of a SYN knock is computed here, once.
SendMethod(r) ==
  LET n == Cardinality(DOMAIN begun) + 1
  IN  /\ n <= MaxSends /\ r.client \in Clients \cup Strangers
      /\ Sent(n, [client |-> r.client, port |-> r.port, slot |-> SlotFor(now + skew),
                  sid |-> IF IsSYN(method) THEN 0 ELSE r.sid,
                  legacy |-> method = "tcp-syn-seq" /\ r.legacy, next |-> 0])

\* The next part, after a pause in which the sender may also be cancelled.
SendPart(n) == begun[n].next \in PartsOf(method) /\ Sent(n, begun[n])
-----------------------------------------------------------------------------
\* CheckAndMark: an entry counts until its expiry.  The nonce of a frame is its
\* own; that of a SYN packet is its fields.
Replayed(p) == p \in DOMAIN replay /\ replay[p] > now
\* Mutant: a nonce is remembered for one side of the window only.
MarkOneSided(p) == replay' = Put(replay, p, now + TimeWindow + 1)
Mark(p) == replay' = Put(replay, p, now + ReplayTTL(method))

\* OpenKnockFrame: sealed by a known client for this port, and not too old or too
\* far ahead.
Authentic(p) == p.client \in Clients /\ p.port = Port
OpenKnockFrame(p) == Authentic(p) /\ p.ts - now \in -TimeWindow..TimeWindow

\* VerifySYNFields and VerifySYNSeqPart: the fields of some client for the slot of
\* the server's clock or one of its neighbours.
VerifySYNFields(p) == Authentic(p) /\ p.slot - SlotFor(now) \in -1..1
VerifySYNSeqPart(p) == VerifySYNFields(p) /\ (p.legacy => AllowLegacySYNSeq)

KnockID(p) == <<p.client, IF IsSYN(method) THEN p.slot ELSE p.seq>>
Fire(p) == fired' = [fired EXCEPT ![KnockID(p)] = @ + 1]

\* A nonce is spent before the session id is asked for.
UDPKnock(p) ==
  IF OpenKnockFrame(p) /\ ~Replayed(p)
  THEN /\ Mark(p)
       /\ IF RequireSessionID /\ p.sid = 0 THEN UNCHANGED fired ELSE Fire(p)
  ELSE UNCHANGED <<replay, fired>>
-----------------------------------------------------------------------------
\* Mutants: the limit is off by one time unit, either way.
ExpiredLate ==
  {k \in DOMAIN tracker.states : now - tracker.states[k].first > SeqWindow + 1}
ExpiredEarly ==
  {k \in DOMAIN tracker.states : now - tracker.states[k].first >= SeqWindow}
\* The keys of sequences older than the window, which both trackers forget first.
Expired == {k \in DOMAIN tracker.states : now - tracker.states[k].first > SeqWindow}

Less(n, K) == IF n > Cardinality(K) THEN n - Cardinality(K) ELSE 0
\* removeLocked and decInflightLocked for the keys of K: the counters follow.
\* Mutant: the counter of the source is not taken back.
WithoutPerIP(t, K) ==
  [states |-> Restrict(t.states, DOMAIN t.states \ K), perIP |-> t.perIP,
   total  |-> Less(t.total, K)]
Without(t, K) ==
  [states |-> Restrict(t.states, DOMAIN t.states \ K),
   perIP  |-> [s \in Sources |-> Less(t.perIP[s], {k \in K : k[1] = s})],
   total  |-> Less(t.total, K)]

\* A new sequence of source s, if its source and the tracker have room.
HasRoom(t, s) == t.perIP[s] < MaxInflightPerIP /\ t.total < MaxTotalInflight
With(t, s, key, st) ==
  [states |-> Put(t.states, key, st), perIP |-> [t.perIP EXCEPT ![s] = @ + 1],
   total |-> t.total + 1]

\* markCompletedLocked for the keys of K: as many as there is room for once the
\* expired entries are swept.  The loop over a map takes them in any order.
MarkCompleted(c, K) ==
  LET live == {k \in DOMAIN c : c[k] > now}
      room == MaxTotalInflight - Cardinality(live)
  IN  {[k \in live \cup M |-> IF k \in M THEN now + NonceTTL ELSE c[k]] :
         M \in {M \in SUBSET K : Cardinality(M) = room
                                   \/ (M = K /\ Cardinality(K) <= room)}}

\* sequenceTracker.add for an opened frame: parts in any order, each once, all
\* with the session id of the first.
sequenceTrackerAdd(p, s) ==
  LET t     == Without(tracker, Expired)
      key   == <<s, p.client, p.seq>>
      isNew == key \notin DOMAIN t.states
      st    == IF isNew THEN [first |-> now, parts |-> {}, sid |-> p.sid]
                        ELSE t.states[key]
      parts == st.parts \cup {p.idx}
  IN  \E done \in MarkCompleted(completed, Expired) :
        IF \/ key \in DOMAIN done
           \/ isNew /\ ~HasRoom(t, s)
           \/ st.sid # p.sid \/ p.idx \in st.parts
        THEN tracker' = t /\ completed' = done /\ UNCHANGED fired
        ELSE IF parts # PartsOf(method)
        THEN /\ tracker' = IF isNew THEN With(t, s, key, [st EXCEPT !.parts = parts])
                           ELSE [t EXCEPT !.states[key].parts = parts]
             /\ completed' = done /\ UNCHANGED fired
        ELSE /\ tracker' = Without(t, {key})
             /\ completed' \in MarkCompleted(done, {key})
             /\ Fire(p)

\* The sequence listeners: every opened frame spends its nonce, also one the
\* tracker then refuses.
UDPSequencePart(p, s) ==
  IF OpenKnockFrame(p) /\ ~Replayed(p)
  THEN /\ Mark(p)
       /\ IF RequireSessionID /\ p.sid = 0 THEN UNCHANGED <<tracker, completed, fired>>
          ELSE sequenceTrackerAdd(p, s)
  ELSE UNCHANGED <<replay, tracker, completed, fired>>
-----------------------------------------------------------------------------
\* synSeqTracker.add: the next part of a sequence of this source, in order; else
\* the first part of a new one, of which the replay cache hears last.
synSeqTrackerAdd(p, s) ==
  LET t    == Without(tracker, Expired)
      key  == <<s, p.client, p.slot>>
      next == {k \in DOMAIN t.states : k = key /\ t.states[k].parts = 0..(p.idx - 1)}
  IN  IF VerifySYNSeqPart(p) /\ next # {}
      THEN /\ IF p.idx + 1 >= Length
              THEN tracker' = Without(t, {key}) /\ Fire(p)
              ELSE tracker' = [t EXCEPT !.states[key].parts = @ \cup {p.idx}]
                   /\ UNCHANGED fired
           /\ UNCHANGED replay
      ELSE IF VerifySYNSeqPart(p) /\ p.idx = 0 /\ HasRoom(t, s) /\ ~Replayed(p)
      THEN /\ Mark(p) /\ UNCHANGED fired
           /\ tracker' = With(t, s, key, [first |-> now, parts |-> {0}, sid |-> 0])
      ELSE tracker' = t /\ UNCHANGED <<replay, fired>>

\* Listen: a SYN packet is a knock by itself.
SYNKnock(p) ==
  IF VerifySYNFields(p) /\ ~Replayed(p) THEN Mark(p) /\ Fire(p)
  ELSE UNCHANGED <<replay, fired>>
-----------------------------------------------------------------------------
\* Is p a part that may count for a sequence?
Counts(p) == IsSequence(method)
             /\ IF IsSYN(method) THEN VerifySYNSeqPart(p)
                ELSE OpenKnockFrame(p) /\ ~Replayed(p)

\* A packet, or another copy of it, reaches the listener from some source.
Receive(p, s) ==
  /\ arrived' = IF Counts(p) THEN Put(arrived, <<p, s>>, now) ELSE arrived
  /\ UNCHANGED <<method, skew, now, begun, net>>

\* The listeners on a socket, and those that sniff.
Serve(p, s) ==
  method = "udp" /\ Receive(p, s) /\ UDPKnock(p) /\ UNCHANGED <<tracker, completed>>
ListenUDPPassive(p, s) ==
  method = "udp-passive" /\ Receive(p, s) /\ UDPKnock(p) /\ UNCHANGED <<tracker, completed>>
ServeSequence(p, s) ==
  method = "udp-seq" /\ Receive(p, s) /\ UDPSequencePart(p, s)
ListenUDPPassiveSequence(p, s) ==
  method = "udp-passive-seq" /\ Receive(p, s) /\ UDPSequencePart(p, s)
Listen(p, s) ==
  /\ method = "tcp-syn" /\ Receive(p, s)
  /\ SYNKnock(p) /\ UNCHANGED <<tracker, completed>>
ListenSYNSequence(p, s) ==
  /\ method = "tcp-syn-seq" /\ Receive(p, s)
  /\ synSeqTrackerAdd(p, s) /\ UNCHANGED completed

ListenerNext ==
  \/ Tick
  \/ \E r \in Requests : SendMethod(r)
  \/ \E n \in DOMAIN begun : SendPart(n)
  \/ \E p \in net, s \in Sources :
       \/ Serve(p, s) \/ ListenUDPPassive(p, s)
       \/ ServeSequence(p, s) \/ ListenUDPPassiveSequence(p, s)
       \/ Listen(p, s) \/ ListenSYNSequence(p, s)

ListenerSpec == ListenerInit /\ [][ListenerNext]_listenerVars
-----------------------------------------------------------------------------
\* The counters that limit the sequences in flight are exact: each is the number
\* of sequences the tracker holds, of a source and in all.  A counter that ran
\* ahead would lock a source out for good.  And the limits hold.  With
\* AllowLegacySYNSeq they do not: the first parts of both forms of one knock pass
\* as two sequences of one key, the second replaces the first and counts again.
InflightExact ==
  /\ tracker.total <= MaxTotalInflight /\ Cardinality(DOMAIN completed) <= MaxTotalInflight
  /\ \A s \in Sources : tracker.perIP[s] <= MaxInflightPerIP
  /\ tracker.total = Cardinality(DOMAIN tracker.states)
  /\ \A s \in Sources :
       tracker.perIP[s] = Cardinality({k \in DOMAIN tracker.states : k[1] = s})

\* The handler is called at most once for a knock, however often its packets are
\* delivered and whichever way the clocks differ.  With AllowLegacySYNSeq a knock
\* sent in both forms has two nonces and fires twice.
FiresOnce == \A i \in KnockIDs : fired[i] <= 1

\* docs/knock-methods.md: "completes a sequence only after all parts arrive within
\* the sequence window" - from one source, and from the client it is reported of.
CompleteNeedsAllParts ==
  [][\A p \in net : (IsSequence(method) /\ p.client \in Clients /\ fired'[KnockID(p)] > fired[KnockID(p)]) =>
       \E s \in Sources : \A i \in PartsOf(method) : \E q \in net :
         /\ KnockID(q) = KnockID(p) /\ q.client = p.client /\ q.idx = i
         /\ <<q, s>> \in DOMAIN arrived' /\ now - arrived'[<<q, s>>] <= SeqWindow]_listenerVars

\* A sequence still within its window is never dropped or set back by the packets
\* of others or by copies of its own: it grows, or completes and calls the handler.
InflightKept ==
  [][\A k \in DOMAIN tracker.states : now - tracker.states[k].first <= SeqWindow =>
       \/ /\ k \in DOMAIN tracker'.states
          /\ tracker.states[k].parts \subseteq tracker'.states[k].parts
          /\ tracker.states[k].first = tracker'.states[k].first
       \/ fired'[<<k[2], k[3]>>] > fired[<<k[2], k[3]>>]]_listenerVars
==============================================================================
