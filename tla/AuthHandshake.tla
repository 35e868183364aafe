---------------------------- MODULE AuthHandshake ----------------------------
(***************************************************************************)
(* Dialers and the server they authenticate to: netx.Dialer.DialContext    *)
(* with one session-bound knock sender for all of them, ClientAuth,        *)
(* ServerAuth and the policy it asks first (policy.Guard: a rate limiter   *)
(* and a ban list).                                                        *)
(*                                                                         *)
(* A knock travels by UDP: it arrives late, or never, and the TCP          *)
(* connection does not wait for it.  What the session store does with a    *)
(* knock is the subject of KnockAdmission; here a knock buys one           *)
(* admission of its session.  A clock is read before the lock of the       *)
(* limiter or ban list is taken, so a call may use a time that is MaxStall *)
(* old.                                                                    *)
(***************************************************************************)
EXTENDS TTLLRU, Functions

CONSTANTS
  Dials,               \* calls of DialContext, each with a session id of its own
  Keys,                \* policyKey of their source addresses
  RequireServerProof, ServerProof,
  Limit, Every,        \* policy.Window
  BanTTL,
  MaxBuckets, MaxBans, \* capacities of limiter and ban list
  MaxStall,            \* bound: from reading the clock to taking the lock
  MaxTime              \* bound: the clock stops here

ASSUME HandshakeAssumption ==
  /\ IsFiniteSet(Dials) /\ IsFiniteSet(Keys)
  /\ RequireServerProof \in BOOLEAN /\ ServerProof \in BOOLEAN
  /\ {Limit, Every, BanTTL, MaxBuckets, MaxBans} \subseteq Nat \ {0}
  /\ MaxTime \in Nat /\ MaxStall \in 0..(Every - 1)

\* A window, less what a caller's clock may be behind: a bucket that a call with an
\* old time begins ends that much sooner after the bucket before it.
Stretch == Every - MaxStall

VARIABLES
  now,      \* the server's clock
  dial,     \* program counter of a DialContext call
  holder,   \* owner of sessionBoundKnockSenderMu, a set
  session,  \* the session id the knock sender holds, a set
  knocked,  \* session ids knocks were sent with
  udp,      \* session ids of the knocks under way
  tickets,  \* session ids the server was knocked for
  source,   \* the source address of a dial
  conn,     \* what the server has said: "open", "proof" or "closed"
  srv,      \* program counter of the connection's ServerAuth call
  buckets,  \* limiter: key -> [start, used]
  swept,    \* limiter: lastSweep, or -1
  bans,     \* ban list, a TTL/LRU cache
  granted   \* <<dial, time>>: what the limiter let pass, a Stretch back

clientVars == <<dial, holder, session, knocked, udp, source>>
guardVars == <<buckets, swept, bans, granted>>
authVars == <<now, clientVars, tickets, conn, srv, guardVars>>

AuthInit ==
  /\ now = 0
  /\ dial = [d \in Dials |-> "start"] /\ holder = {} /\ session = {}
  /\ knocked = {} /\ udp = {}
  /\ source \in [Dials -> Keys]
  /\ tickets = {} /\ conn = [d \in Dials |-> "none"]
  /\ srv = [d \in Dials |-> "none"]
  /\ buckets = [k \in {} |-> 0] /\ swept = -1 /\ bans = EmptyCache /\ granted = {}

Tick ==
  /\ now < MaxTime /\ now' = now + 1
  /\ granted' = {g \in granted : g[2] > now' - Stretch}
  /\ UNCHANGED <<clientVars, tickets, conn, srv, buckets, swept, bans>>
-----------------------------------------------------------------------------
Dial(d, from, to) == dial[d] = from /\ dial' = [dial EXCEPT ![d] = to]
server == <<tickets, srv, guardVars>>

\* Mutant: the pair of calls is not serialized.
SetSessionIDUnlocked(d) ==
  /\ Dial(d, "start", "knock")
  /\ session' = {d}
  /\ UNCHANGED <<now, holder, knocked, udp, source, conn, server>>
\* The mutex is taken for SetSessionID and Knock together.
SetSessionID(d) ==
  /\ Dial(d, "start", "knock")
  /\ holder = {} /\ holder' = {d} /\ session' = {d}
  /\ UNCHANGED <<now, knocked, udp, source, conn, server>>

\* Knock sends what the sender holds; the mutex is released before the error is
\* looked at.
Knock(d) ==
  /\ \/ /\ Dial(d, "knock", "dial")
        /\ udp' = udp \cup session /\ knocked' = knocked \cup session
     \/ Dial(d, "knock", "failed") /\ UNCHANGED <<udp, knocked>>
  /\ holder' = holder \ {d}
  /\ UNCHANGED <<now, session, source, conn, server>>

\* A knock reaches the server; a lost one stays under way.
KnockArrives(s) ==
  /\ s \in udp /\ udp' = udp \ {s} /\ tickets' = tickets \cup {s}
  /\ UNCHANGED <<now, dial, holder, session, knocked, source, conn, srv, guardVars>>

\* The base dialer connects and ClientAuth writes its frame: without a proof to
\* wait for it is done.
ConnectAndWrite(d) ==
  /\ \/ Dial(d, "dial", IF RequireServerProof THEN "proof" ELSE "ok")
     \/ Dial(d, "dial", "failed")
  /\ IF dial'[d] = "failed" THEN UNCHANGED <<conn, srv>>
     ELSE /\ conn' = [conn EXCEPT ![d] = "open"]
          /\ srv' = [srv EXCEPT ![d] = "policy"]
  /\ UNCHANGED <<now, holder, session, knocked, udp, source, tickets, guardVars>>

\* Mutant: any answer will do for a proof.
ReadProofUnchecked(d) ==
  /\ conn[d] # "open" /\ Dial(d, "proof", "ok")
  /\ UNCHANGED <<now, holder, session, knocked, udp, source, conn, server>>
\* ReadFull and VerifyServerProof: a proof, or an end of the connection or of the
\* client's patience.
ReadProof(d) ==
  /\ \/ conn[d] = "proof" /\ Dial(d, "proof", "ok") /\ UNCHANGED conn
     \/ Dial(d, "proof", "failed") /\ conn' = [conn EXCEPT ![d] = "closed"]
  /\ UNCHANGED <<now, holder, session, knocked, udp, source, server>>
-----------------------------------------------------------------------------
\* The server's side of a connection goes on; a failed one is closed (fail).
Srv(d, from, to) == srv[d] = from /\ srv' = [srv EXCEPT ![d] = to]
Fail(d, from) == Srv(d, from, "failed") /\ conn' = [conn EXCEPT ![d] = "closed"]
\* The clock as it was read before the lock was taken.
Times == {t \in 0..now : t >= now - MaxStall}

\* BanList.IsBannedAt: an active ban of the key, or no room for another ban.
BannedAt(k, t) ==
  \/ Live(bans, k, t)
  \/ Cardinality({x \in DOMAIN bans : Live(bans, x, t)}) >= MaxBans

IsBanned(d) ==
  /\ \E t \in Times :
       /\ bans' = GetAt(bans, source[d], t)
       /\ IF BannedAt(source[d], t) THEN Fail(d, "policy")
          ELSE Srv(d, "policy", "limiter") /\ UNCHANGED conn
  /\ UNCHANGED <<now, clientVars, tickets, buckets, swept, granted>>

\* Mutant: a bucket has run out once it has begun.
RanOutAtOnce(b, t) == t >= b.start
RanOut(b, t) == t >= b.start + Every

\* The buckets a call at t leaves: sweepPeriodicallyLocked every half window, and
\* sweepLocked when the limiter is full.
SweepDue(t) == swept >= 0 /\ t - swept >= (IF Every > 1 THEN Every \div 2 ELSE 1)
Kept(t) ==
  IF SweepDue(t) \/ Cardinality(DOMAIN buckets) >= MaxBuckets
  THEN RestrictValues(buckets, LAMBDA b : ~RanOut(b, t)) ELSE buckets

Full(bs, k) == k \notin DOMAIN bs /\ Cardinality(DOMAIN bs) >= MaxBuckets

\* Limiter.AllowAt: a full limiter refuses new keys, it forgets no bucket.
AllowAt(d) ==
  LET k == source[d]
  IN  /\ \E t \in Times :
           LET bs  == Kept(t)
               new == k \notin DOMAIN bs \/ RanOut(bs[k], t)
               ok  == ~Full(bs, k) /\ (new \/ bs[k].used < Limit)
           IN  /\ swept' = IF SweepDue(t) \/ swept < 0 THEN t ELSE swept
               /\ buckets' =
                    IF ~ok THEN bs
                    ELSE [x \in DOMAIN bs \cup {k} |->
                            IF x # k THEN bs[x]
                            ELSE IF new THEN [start |-> t, used |-> 1]
                            ELSE [bs[k] EXCEPT !.used = @ + 1]]
               /\ granted' = IF ok THEN granted \cup {<<d, now>>} ELSE granted
               /\ Srv(d, "limiter", IF ok THEN "read" ELSE "ban")
      /\ UNCHANGED <<now, clientVars, tickets, conn, bans>>

\* Mutant: a full ban list makes room for the new ban.
StoreBanEvicting(c, k, until, t) == setLocked(Sweep(c, t), k, TRUE, until, MaxBans)
\* BanList.BanUntilE: no active ban is evicted for another.
StoreBan(c, k, until, t) ==
  LET live == Sweep(c, t)
  IN  IF k \in DOMAIN live \/ CacheLen(live) < MaxBans
      THEN setLocked(live, k, TRUE, until, MaxBans) ELSE live

\* Guard.Allow bans who was limited.
Ban(d) ==
  /\ \E t \in Times : \E t2 \in t..now :
       bans' = StoreBan(bans, source[d], t + BanTTL, t2)
  /\ Fail(d, "ban")
  /\ UNCHANGED <<now, clientVars, tickets, buckets, swept, granted>>

\* The frame is read and checked before the deadline (an unknown client, a clock
\* too far off or a seen nonce fails as well), then KnockStore.CheckAndConsume
\* asks for the knock.
Authenticate(d) ==
  /\ \/ /\ d \in tickets /\ tickets' = tickets \ {d}
        /\ Srv(d, "read", "answer") /\ UNCHANGED conn
     \/ Fail(d, "read") /\ UNCHANGED tickets
  /\ UNCHANGED <<now, clientVars, guardVars>>

\* The proof is the last thing that can fail, and the ticket is spent by then.
Answer(d) ==
  /\ \/ ~RequireServerProof /\ Srv(d, "answer", "ok") /\ UNCHANGED conn
     \/ /\ RequireServerProof /\ ServerProof /\ conn[d] = "open"
        /\ Srv(d, "answer", "ok") /\ conn' = [conn EXCEPT ![d] = "proof"]
     \/ RequireServerProof /\ Fail(d, "answer")
  /\ UNCHANGED <<now, clientVars, tickets, guardVars>>

DialStep(d) ==
  SetSessionID(d) \/ Knock(d) \/ ConnectAndWrite(d) \/ ReadProof(d)
ServerStep(d) ==
  \/ IsBanned(d) \/ AllowAt(d) \/ Ban(d) \/ Authenticate(d) \/ Answer(d)

AuthNext ==
  \/ Tick
  \/ \E d \in Dials : DialStep(d) \/ ServerStep(d) \/ KnockArrives(d)

AuthSpec == AuthInit /\ [][AuthNext]_authVars
-----------------------------------------------------------------------------
\* A dialer goes on only after a knock with its own session id, although all
\* dialers use one sender and tell it their id in a call of its own; and whoever holds
\* the sender's mutex is about to release it, wherever an error strikes, so that no dial
\* waits for one that has returned.
SessionBound ==
  /\ \A d \in Dials : (dial[d] \in {"dial", "proof", "ok"} => d \in knocked)
                      /\ (dial[d] = "start" => d \notin knocked)
  /\ \A d \in holder : dial[d] = "knock"

\* A client that asked for a proof and is content was admitted: the server
\* accepted this connection and spent the client's own knock on it.
Agreement ==
  \A d \in Dials : RequireServerProof /\ dial[d] = "ok" =>
    srv[d] = "ok" /\ d \in knocked /\ d \notin tickets \cup udp

\* A stretch of time as long as the window, less the time a caller may lose between
\* clock and lock, always sees less than two windows' worth of admissions of a source
\* (a limit of one is a limit), although full limiters and the clock sweep buckets
\* away and callers come with clocks read before another's; and neither limiter nor
\* ban list outgrows its capacity.
LimiterBound ==
  /\ \A k \in Keys : Cardinality({g \in granted : source[g[1]] = k}) < 2 * Limit
  /\ Cardinality(DOMAIN buckets) <= MaxBuckets /\ CacheLen(bans) <= MaxBans

\* policy/ban.go: a full list must "never evict a still-active ban".
BansKept ==
  [][\A k \in Keys : Live(bans, k, now) => k \in DOMAIN bans']_authVars
==============================================================================
