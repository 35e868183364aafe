---------------------------- MODULE AuthListener ----------------------------
(***************************************************************************)
(* The authenticated listener of netx/listener.go: one accept loop, a      *)
(* bounded queue, a pool of auth workers, the application's calls of      *)
(* Accept, and Close, with the per-source limit of internal/iplimit.       *)
(*                                                                         *)
(* Each step is one critical section of l.mu or of the limiter, one        *)
(* channel operation, or one call into the wrapped listener or the auth    *)
(* server.  The pairs of sections that take and give back a slot are one   *)
(* step: only the goroutine that owns the connection reads its entry in    *)
(* l.releases.  Authentication itself is one external step that succeeds or    *)
(* fails; it can only succeed on a connection that is still open.          *)
(***************************************************************************)
EXTENDS Integers, FiniteSets, Sequences

CONSTANTS
  Conns,       \* TCP connections that may arrive
  Sources,     \* source keys: an IPv4 address or an IPv6 /64
  SourceOf,    \* [Conns -> Sources]
  Workers,     \* MaxAuthWorkers goroutines
  Callers,     \* goroutines of the application that call Accept
  MaxPending,  \* MaxPendingAuth, the capacity of the pending channel
  MaxPerSource \* MaxPendingAuthPerSource; 0 for no limit

NoConn == "none"

ASSUME ConstantsAssumption ==
  /\ IsFiniteSet(Conns) /\ IsFiniteSet(Workers) /\ NoConn \notin Conns
  /\ SourceOf \in [Conns -> Sources]
  /\ MaxPending \in Nat \ {0} /\ MaxPerSource \in Nat

VARIABLES
  arrived,       \* connections the wrapped listener has returned
  open,          \* those whose socket is open
  listening,     \* the wrapped listener is open
  acceptor,      \* [pc, conn]: the accept loop
  pending,       \* the pending channel
  pendingClosed,
  slots,         \* [Sources -> Nat]: iplimit.Limiter.n
  releases,      \* l.releases: connections that hold a slot
  worker,        \* [Workers -> [pc, conn]]
  inFlight,      \* l.inFlight
  done,          \* l.done is closed
  err,           \* l.err
  readyClosed,   \* l.ready is closed
  caller,        \* [Callers -> "idle", "waiting" or the result of Accept]
  delivered,     \* connections Accept has returned
  closer         \* progress of Close

vars == <<arrived, open, listening, acceptor, pending, pendingClosed, slots,
          releases, worker, inFlight, done, err, readyClosed, caller,
          delivered, closer>>

acceptVars == <<arrived, listening, acceptor, pendingClosed>>
closeVars == <<done, err, closer>>
callVars == <<readyClosed, caller, delivered>>

Init ==
  /\ arrived = {} /\ open = {} /\ listening = TRUE
  /\ acceptor = [pc |-> "accept", conn |-> NoConn]
  /\ pending = <<>> /\ pendingClosed = FALSE
  /\ slots = [s \in Sources |-> 0] /\ releases = {}
  /\ worker = [w \in Workers |-> [pc |-> "receive", conn |-> NoConn]]
  /\ inFlight = {} /\ done = FALSE /\ err = "nil"
  /\ readyClosed = FALSE
  /\ caller = [a \in Callers |-> "idle"] /\ delivered = {}
  /\ closer = "idle"

\* setErr keeps the first error.
setErr(e) == err' = IF err = "nil" THEN e ELSE err

Exited == [pc |-> "exit", conn |-> NoConn]
-----------------------------------------------------------------------------
\* The accept loop.
ListenerAccept(c) ==
  /\ acceptor.pc = "accept" /\ listening
  /\ c \notin arrived
  /\ arrived' = arrived \cup {c}
  /\ open' = open \cup {c}
  /\ acceptor' = [pc |-> "acquire", conn |-> c]
  /\ UNCHANGED <<listening, pending, pendingClosed, slots, releases, worker,
                 inFlight, closeVars, callVars>>

\* acceptx: a temporary error is retried after a pause that done cuts short.
AcceptTemporary ==
  /\ acceptor.pc = "accept" /\ listening
  /\ acceptor' = [acceptor EXCEPT !.pc = "sleep"]
  /\ UNCHANGED <<arrived, open, listening, pending, pendingClosed, slots,
                 releases, worker, inFlight, closeVars, callVars>>

\* Mutant: the loop ends without closing the queue.
AcceptorExitsOpen == acceptor' = Exited /\ UNCHANGED pendingClosed

\* The loop ends: close(l.pending), then wg.Done.
AcceptorExits == acceptor' = Exited /\ pendingClosed' = TRUE

Sleep ==
  /\ acceptor.pc = "sleep"
  /\ \/ /\ acceptor' = [acceptor EXCEPT !.pc = "accept"]
        /\ UNCHANGED pendingClosed
     \/ done /\ AcceptorExits
  /\ UNCHANGED <<arrived, open, listening, pending, slots, releases, worker,
                 inFlight, closeVars, callVars>>

\* A permanent error ends the loop: the wrapped listener broke, or Close has
\* closed it.
AcceptFails(e) ==
  /\ acceptor.pc = "accept"
  /\ setErr(e)
  /\ done' = TRUE
  /\ AcceptorExits
  /\ UNCHANGED <<arrived, open, listening, pending, slots, releases, worker,
                 inFlight, closer, callVars>>

HasSlot(c) == MaxPerSource = 0 \/ slots[SourceOf[c]] < MaxPerSource

\* The release function Acquire returns: the count never goes below zero.
Given(c) == [slots EXCEPT ![SourceOf[c]] = IF @ <= 1 THEN 0 ELSE @ - 1]

\* Mutant: a refused connection gives back a slot it never had.
RefusedReleases(c) ==
  open' = open \ {c} /\ slots' = Given(c) /\ UNCHANGED releases

Refused(c) == open' = open \ {c} /\ UNCHANGED <<slots, releases>>

\* perSource.Acquire and setRelease, or the drop of the connection; without a
\* limit nothing is counted.
Acquire ==
  LET c == acceptor.conn
  IN  /\ acceptor.pc = "acquire"
      /\ \/ /\ HasSlot(c)
            /\ slots' = IF MaxPerSource = 0 THEN slots
                        ELSE [slots EXCEPT ![SourceOf[c]] = @ + 1]
            /\ releases' = releases \cup {c}
            /\ acceptor' = [acceptor EXCEPT !.pc = "queue"]
            /\ UNCHANGED open
         \/ /\ ~HasSlot(c)
            /\ Refused(c)
            /\ acceptor' = [pc |-> "accept", conn |-> NoConn]
      /\ UNCHANGED <<arrived, listening, pending, pendingClosed, worker,
                     inFlight, closeVars, callVars>>

\* releaseSource: the stored release runs once.
releaseSource(c) ==
  /\ releases' = releases \ {c}
  /\ slots' = IF c \in releases THEN Given(c) ELSE slots

\* Mutant: a connection the queue has no room for is dropped but left open.
DroppedOpen(c) == releaseSource(c) /\ UNCHANGED open

\* A connection that is not queued gives its slot back and is closed.
Dropped(c) == releaseSource(c) /\ open' = open \ {c}

\* The select on pending, done and default.
Queue ==
  LET c == acceptor.conn
  IN  /\ acceptor.pc = "queue"
      /\ \/ /\ Len(pending) < MaxPending
            /\ pending' = Append(pending, c)
            /\ acceptor' = [pc |-> "accept", conn |-> NoConn]
            /\ UNCHANGED <<open, slots, releases, pendingClosed>>
         \/ /\ done
            /\ Dropped(c)
            /\ AcceptorExits
            /\ UNCHANGED pending
         \/ /\ ~done /\ Len(pending) = MaxPending
            /\ Dropped(c)
            /\ acceptor' = [pc |-> "accept", conn |-> NoConn]
            /\ UNCHANGED <<pending, pendingClosed>>
      /\ UNCHANGED <<arrived, listening, worker, inFlight, closeVars, callVars>>

AcceptBroken == listening /\ AcceptFails("broken")
AcceptClosed == ~listening /\ AcceptFails("closed underneath")

acceptLoop == Sleep \/ AcceptClosed \/ Acquire \/ Queue
-----------------------------------------------------------------------------
\* The auth workers.
At(w, pc) == worker[w].pc = pc
Goes(w, pc) == worker' = [worker EXCEPT ![w].pc = pc]

\* for conn := range l.pending
Receive(w) ==
  /\ At(w, "receive")
  /\ \/ /\ pending # <<>>
        /\ worker' = [worker EXCEPT ![w] = [pc |-> "track", conn |-> Head(pending)]]
        /\ pending' = Tail(pending)
     \/ /\ pending = <<>> /\ pendingClosed
        /\ worker' = [worker EXCEPT ![w] = [pc |-> "drained", conn |-> NoConn]]
        /\ UNCHANGED pending
  /\ UNCHANGED <<acceptVars, open, slots, releases, inFlight, closeVars,
                 callVars>>

\* Mutant: a connection taken after done is tracked like any other.
TrackedAlways(c) == inFlight' = inFlight \cup {c} /\ UNCHANGED open

\* trackInFlight: after done the connection is closed instead.
Tracked(c) ==
  IF done THEN open' = open \ {c} /\ UNCHANGED inFlight
          ELSE inFlight' = inFlight \cup {c} /\ UNCHANGED open

Track(w) ==
  /\ At(w, "track")
  /\ Tracked(worker[w].conn)
  /\ Goes(w, "auth")
  /\ UNCHANGED <<acceptVars, pending, slots, releases, closeVars, callVars>>

\* authenticateConn: the auth server closes the connection when it fails.
AuthOK(w) ==
  /\ At(w, "auth") /\ worker[w].conn \in open
  /\ Goes(w, "untrack ok")
  /\ UNCHANGED <<acceptVars, open, pending, slots, releases, inFlight,
                 closeVars, callVars>>

AuthFail(w) ==
  /\ At(w, "auth")
  /\ open' = open \ {worker[w].conn}
  /\ Goes(w, "untrack failed")
  /\ UNCHANGED <<acceptVars, pending, slots, releases, inFlight, closeVars,
                 callVars>>

untrackInFlight(w) ==
  /\ \/ At(w, "untrack ok") /\ Goes(w, "release ok")
     \/ At(w, "untrack failed") /\ Goes(w, "release failed")
  /\ inFlight' = inFlight \ {worker[w].conn}
  /\ UNCHANGED <<acceptVars, open, pending, slots, releases, closeVars,
                 callVars>>

Release(w) ==
  /\ \/ At(w, "release ok") /\ Goes(w, "deliver")
     \/ /\ At(w, "release failed")
        /\ worker' = [worker EXCEPT ![w] = [pc |-> "receive", conn |-> NoConn]]
  /\ releaseSource(worker[w].conn)
  /\ UNCHANGED <<acceptVars, open, pending, inFlight, closeVars, callVars>>

\* The select on ready, which needs a waiting Accept, and done.
Deliver(w, a) ==
  /\ At(w, "deliver") /\ caller[a] = "waiting"
  /\ caller' = [caller EXCEPT ![a] = "conn"]
  /\ delivered' = delivered \cup {worker[w].conn}
  /\ worker' = [worker EXCEPT ![w] = [pc |-> "receive", conn |-> NoConn]]
  /\ UNCHANGED <<acceptVars, open, pending, slots, releases, inFlight,
                 closeVars, readyClosed>>

Abandoned(c) == open' = open \ {c}

Abandon(w) ==
  /\ At(w, "deliver") /\ done
  /\ Abandoned(worker[w].conn)
  /\ worker' = [worker EXCEPT ![w] = Exited]
  /\ UNCHANGED <<acceptVars, pending, slots, releases, inFlight, closeVars,
                 callVars>>

authWorker(w) ==
  \/ Receive(w) \/ Track(w) \/ AuthOK(w) \/ AuthFail(w)
  \/ untrackInFlight(w) \/ Release(w) \/ Abandon(w)
  \/ \E a \in Callers : Deliver(w, a)

WorkerGone(w) == worker[w].pc \in {"exit", "drained"}

\* wg.Wait returns.
AllGone == acceptor.pc = "exit" /\ \A w \in Workers : WorkerGone(w)

CloseReady ==
  /\ ~readyClosed /\ AllGone
  /\ readyClosed' = TRUE
  /\ UNCHANGED <<acceptVars, open, pending, slots, releases, worker, inFlight,
                 closeVars, caller, delivered>>
-----------------------------------------------------------------------------
\* The application calls Accept, again after a connection.
AcceptCall(a) ==
  /\ caller[a] \in {"idle", "conn"}
  /\ caller' = [caller EXCEPT ![a] = "waiting"]
  /\ UNCHANGED <<acceptVars, open, pending, slots, releases, worker, inFlight,
                 closeVars, readyClosed, delivered>>

\* acceptErr: Accept returns the recorded error.
AcceptErr(a) ==
  /\ caller[a] = "waiting" /\ readyClosed
  /\ caller' = [caller EXCEPT ![a] = IF err = "nil" THEN "net.ErrClosed" ELSE err]
  /\ UNCHANGED <<acceptVars, open, pending, slots, releases, worker, inFlight,
                 closeVars, readyClosed, delivered>>

CloseSetErr == setErr("net.ErrClosed")

\* Close, once: setErr; cancel and closeDone; Listener.Close; closeInFlight.
CloseRecords ==
  /\ closer = "idle"
  /\ CloseSetErr
  /\ closer' = "recorded"
  /\ UNCHANGED <<acceptVars, open, pending, slots, releases, worker, inFlight,
                 done, callVars>>

CloseDone ==
  /\ closer = "recorded"
  /\ done' = TRUE
  /\ closer' = "done"
  /\ UNCHANGED <<acceptVars, open, pending, slots, releases, worker, inFlight,
                 err, callVars>>

CloseListener ==
  /\ closer = "done"
  /\ listening' = FALSE
  /\ closer' = "listener"
  /\ UNCHANGED <<arrived, acceptor, pendingClosed, open, pending, slots,
                 releases, worker, inFlight, done, err, callVars>>

closeInFlight ==
  /\ closer = "listener"
  /\ open' = open \ inFlight
  /\ closer' = "closed"
  /\ UNCHANGED <<acceptVars, pending, slots, releases, worker, inFlight, done,
                 err, callVars>>

CloseStep == CloseDone \/ CloseListener \/ closeInFlight
-----------------------------------------------------------------------------
Next ==
  \/ \E c \in Conns : ListenerAccept(c)
  \/ AcceptTemporary
  \/ AcceptBroken
  \/ acceptLoop
  \/ \E w \in Workers : authWorker(w)
  \/ CloseReady
  \/ \E a \in Callers : AcceptCall(a) \/ AcceptErr(a)
  \/ CloseRecords
  \/ CloseStep

Spec == Init /\ [][Next]_vars

\* The goroutines run, AuthTimeout ends every authentication, and a Close that
\* has started runs to its end.
Fairness ==
  /\ WF_vars(acceptLoop)
  /\ \A w \in Workers : WF_vars(authWorker(w))
  /\ WF_vars(CloseReady)
  /\ \A a \in Callers : WF_vars(AcceptErr(a))
  /\ WF_vars(CloseStep)

FairSpec == Spec /\ Fairness
-----------------------------------------------------------------------------
Queued == {pending[i] : i \in 1..Len(pending)}

\* The connections of source s that are queued or authenticating.
Holding(s) ==
  {c \in Conns :
     /\ SourceOf[c] = s
     /\ \/ acceptor.pc = "queue" /\ acceptor.conn = c
        \/ c \in Queued
        \/ \E w \in Workers : worker[w].conn = c /\ ~At(w, "deliver")}

\* A source holds exactly as many slots as it has connections queued or
\* authenticating: no path of the accept loop, the workers or Close loses a
\* slot or gives it back twice.  Queue and slots stay within their limits.
SlotsExact ==
  /\ Len(pending) <= MaxPending
  /\ MaxPerSource > 0 =>
       \A s \in Sources : slots[s] = Cardinality(Holding(s)) /\ slots[s] <= MaxPerSource

\* Who has a connection.
Owners(c) ==
  {w \in Workers : worker[w].conn = c}
    \cup {x \in {"accept loop"} : acceptor.conn = c}
    \cup {i \in 1..Len(pending) : pending[i] = c}
    \cup {x \in {"application"} : c \in delivered}

\* An open connection has one owner: the accept loop, the queue, a worker or
\* the application.  None is dropped without being closed, none is delivered
\* while a worker still has it, and none is queued twice.
OneOwner == \A c \in open : Cardinality(Owners(c)) = 1

\* Once Close has returned, no worker authenticates an open connection: each
\* was in flight and is closed by closeInFlight, or is closed by trackInFlight
\* because done came first.
CloseInterruptsAuth ==
  closer = "closed" =>
    \A w \in Workers : At(w, "auth") => worker[w].conn \notin open

\* Close, or a broken listener, ends the accept loop and the workers, and every
\* waiting Accept returns, never with the error that Close itself causes in the
\* accept loop by closing the wrapped listener.
ShutdownCompletes ==
  /\ [](\A a \in Callers : caller[a] # "closed underneath")
  /\ done ~> readyClosed
  /\ \A a \in Callers : done /\ caller[a] = "waiting" ~> caller[a] # "waiting"
=============================================================================
