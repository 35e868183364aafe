---------------------------- MODULE RelayGateway ----------------------------
(***************************************************************************)
(* The relay gateway's Run (relay/gateway.go): the accept loop, the bounded *)
(* queue and its authentication workers, one goroutine per relayed session *)
(* (relay/auth.go, relay/pipe.go), the knock listener's goroutine and the  *)
(* goroutine that closes everything when the run context ends.             *)
(*                                                                         *)
(* A call that blocks, locks or uses a channel is a step of its own, except *)
(* where nobody can tell two of them apart.  What an accepted knock does to *)
(* the session store is the subject of KnockAdmission.                     *)
(***************************************************************************)
EXTENDS Naturals, Sequences, FiniteSets

CONSTANTS
  MaxConns,        \* bound: connections that arrive, numbered as they do
  Sources,         \* source addresses
  Workers,         \* MaxAuthWorkers
  MaxPendingAuth,  \* capacity of the queue
  MaxPerSource,    \* MaxPendingAuthPerSource
  KnockMethod,     \* FALSE: auth-only, no knock listener
  IdleTimeout      \* FALSE: IdleTimeout is 0, reads have no deadline

ASSUME GatewayAssumption ==
  /\ MaxConns \in Nat /\ IsFiniteSet(Workers) /\ Workers # {}
  /\ MaxPendingAuth \in Nat \ {0} /\ MaxPerSource \in Nat \ {0}
  /\ IsFiniteSet(Sources)
  /\ {KnockMethod, IdleTimeout} \subseteq BOOLEAN

VARIABLES
  main,      \* where run is, the connection and the Accept error in its hands
  result,    \* what run returned
  parent,    \* the caller's context is done
  cancelled, \* cancel() was called
  ln,        \* the TCP listener
  childErr,  \* firstChildError holds the knock listener's error
  active,    \* activeConnections: conns and closed
  pending,   \* the queue of accepted connections, and whether it is closed
  held,      \* <<connection, source>> for every per-source slot in use
  client,    \* [Conns -> state of the client's connection]
  worker,    \* [Workers -> where the worker is and its connection]
  sess,      \* [Conns -> the goroutine that relays the connection]
  knock,     \* the knock goroutine
  closer     \* the goroutine that waits for the context, and what it closes

vars == <<main, result, parent, cancelled, ln, childErr, active, pending, held,
          client, worker, sess, knock, closer>>

runVars == <<main, result, ln, pending>>
ctxVars == <<parent, cancelled, childErr>>
connVars == <<active, held, client>>
goVars == <<worker, sess, knock, closer>>

Nobody == 0
Conns == 1..MaxConns
ctxDone == parent \/ cancelled

Main(pc) == [pc |-> pc, conn |-> Nobody, source |-> Nobody, err |-> "none"]
WorkerAt(pc, c) == [pc |-> pc, conn |-> c]
NoSession == [pc |-> "none", halves |-> {}, upstream |-> {}]

Init ==
  /\ main = Main("validate") /\ result = "running"
  /\ parent = FALSE /\ cancelled = FALSE
  /\ ln = "none" /\ childErr = FALSE
  /\ active = [conns |-> {}, closed |-> FALSE]
  /\ pending = [queue |-> <<>>, closed |-> FALSE]
  /\ held = {}
  /\ client = [c \in Conns |-> "new"]
  /\ worker = [w \in Workers |-> WorkerAt("none", Nobody)]
  /\ sess = [c \in Conns |-> NoSession]
  /\ knock = "none" /\ closer = [pc |-> "none", todo |-> {}]

\* The caller cancels the context it passed to Run; once the run context is
\* done that changes nothing.
ParentCancel ==
  /\ ~ctxDone /\ parent' = TRUE
  /\ UNCHANGED <<runVars, cancelled, childErr, connVars, goVars>>

\* activeConnections.Add, Remove; closing a connection twice is no error.
Close(cs) == [c \in Conns |-> IF c \in cs THEN "closed" ELSE client[c]]
Add(c) ==
  IF active.closed THEN active' = active /\ client' = Close({c})
  ELSE active' = [active EXCEPT !.conns = @ \cup {c}] /\ UNCHANGED client
Remove(c) == [active EXCEPT !.conns = @ \ {c}]
-----------------------------------------------------------------------------
\* The settings are refused, or the address cannot be listened on.
Validate ==
  /\ main.pc = "validate"
  /\ \/ main' = Main("firewall") /\ ln' = "open" /\ UNCHANGED result
     \/ main' = Main("returned") /\ result' = "setup" /\ UNCHANGED ln
  /\ UNCHANGED <<ctxVars, active, pending, held, client, goVars>>

\* ConfigureFirewallPort and InitFirewall, which cleans up what a failed Init
\* left; then the goroutines are started.
StartServing ==
  /\ main.pc = "firewall"
  /\ \/ /\ main' = Main("accept")
        /\ worker' = [w \in Workers |-> WorkerAt("range", Nobody)]
        /\ knock' = IF KnockMethod THEN "listen" ELSE "done"
        /\ closer' = [closer EXCEPT !.pc = "wait"]
        /\ UNCHANGED <<result, ln, sess>>
     \/ /\ main' = Main("returned") /\ result' = "setup" /\ ln' = "closed"
        /\ UNCHANGED goVars
  /\ UNCHANGED <<ctxVars, active, pending, held, client>>

\* ln.Accept returns a connection, a temporary or a fatal error, or, once the
\* listener is closed, net.ErrClosed.
Accept(c, s) ==
  /\ main.pc = "accept" /\ ln = "open"
  /\ client[c] = "new" /\ \A d \in 1..(c - 1) : client[d] # "new"
  /\ client' = [client EXCEPT ![c] = "open"]
  /\ main' = [Main("acquire") EXCEPT !.conn = c, !.source = s]
  /\ UNCHANGED <<result, ln, pending, ctxVars, active, held, goVars>>

AcceptFails(e) ==
  /\ main.pc = "accept" /\ (e = "closed") = (ln = "closed")
  /\ main' = [Main("failed") EXCEPT !.err = e]
  /\ UNCHANGED <<result, ln, pending, ctxVars, connVars, goVars>>

RunReturn(r) == main' = Main("cancel") /\ result' = r

\* Accept failed: the child's error is loaded first, the context is read next,
\* and only then is the error itself looked at.
LoadChildErr ==
  /\ main.pc = "failed"
  /\ IF childErr THEN RunReturn("child")
     ELSE main' = [main EXCEPT !.pc = "failed ctx"] /\ UNCHANGED result
  /\ UNCHANGED <<ln, pending, ctxVars, connVars, goVars>>

ReadCtx ==
  /\ main.pc = "failed ctx"
  /\ CASE ctxDone -> RunReturn("nil")
       [] ~ctxDone /\ main.err = "temporary" ->
            main' = Main("sleep") /\ UNCHANGED result
       [] OTHER -> RunReturn(main.err)
  /\ UNCHANGED <<ln, pending, ctxVars, connVars, goVars>>

ChildOrNil == IF childErr THEN "child" ELSE "nil"

\* acceptx.Sleep: the delay passes or the context ends.
Sleep ==
  /\ main.pc = "sleep"
  /\ \/ main' = Main("accept") /\ UNCHANGED result
     \/ ctxDone /\ RunReturn(ChildOrNil)
  /\ UNCHANGED <<ln, pending, ctxVars, connVars, goVars>>

\* perSource.Acquire, or the connection is dropped; then active.Add.
Acquire ==
  LET c == main.conn
      used == Cardinality({d \in held : d[2] = main.source})
  IN  /\ main.pc = "acquire"
      /\ IF used < MaxPerSource
         THEN held' = held \cup {<<c, main.source>>} /\ Add(c) /\ main' = [main EXCEPT !.pc = "offer"]
         ELSE client' = Close({c}) /\ main' = Main("accept")
              /\ UNCHANGED <<held, active>>
      /\ UNCHANGED <<result, ln, pending, ctxVars, goVars>>

\* The select: one of the ready cases, the default when none is ready.
HasRoom == Len(pending.queue) < MaxPendingAuth
Released(c) == {d \in held : d[1] # c}
Drop(c) == held' = Released(c) /\ active' = Remove(c) /\ client' = Close({c})

Offer ==
  /\ main.pc = "offer"
  /\ \/ /\ HasRoom
        /\ pending' = [pending EXCEPT !.queue = Append(@, main.conn)]
        /\ main' = Main("accept")
        /\ UNCHANGED <<result, held, active, client>>
     \/ ctxDone /\ Drop(main.conn) /\ RunReturn(ChildOrNil) /\ UNCHANGED pending
     \/ /\ ~HasRoom /\ ~ctxDone
        /\ Drop(main.conn) /\ main' = Main("accept") /\ UNCHANGED <<result,
                                                                    pending>>
  /\ UNCHANGED <<ln, ctxVars, goVars>>

\* The deferred calls, in the order they run: cancel and close(pending), the
\* wait for every goroutine, the firewall Cleanup, StopAll and ln.Close.
CancelRun ==
  /\ main.pc = "cancel" /\ main' = Main("wait") /\ cancelled' = TRUE
  /\ pending' = [pending EXCEPT !.closed = TRUE]
  /\ UNCHANGED <<result, ln, parent, childErr, connVars, goVars>>

\* Mutant: the firewall is cleaned up before the goroutines have ended.
WaitGroupSkipped ==
  /\ main.pc = "wait" /\ main' = Main("cleanup")
  /\ UNCHANGED <<result, ln, pending, ctxVars, connVars, goVars>>

WaitGroup ==
  /\ main.pc = "wait"
  /\ knock = "done" /\ closer.pc = "done"
  /\ \A w \in Workers : worker[w].pc = "done"
  /\ \A c \in Conns : sess[c].pc \in {"none", "done"}
  /\ main' = Main("cleanup")
  /\ UNCHANGED <<result, ln, pending, ctxVars, connVars, goVars>>

\* Cleanup's error is dropped.
RunCleanup ==
  /\ main.pc = "cleanup" /\ main' = Main("returned")
  /\ ln' = "closed"
  /\ UNCHANGED <<result, pending, ctxVars, connVars, goVars>>

MainStep ==
  \/ Validate \/ StartServing
  \/ AcceptFails("closed") \/ LoadChildErr \/ ReadCtx \/ Sleep
  \/ Acquire \/ Offer \/ CancelRun \/ WaitGroup \/ RunCleanup
-----------------------------------------------------------------------------
\* A worker takes the next connection, or ends when the queue is closed.
TakePending(w) ==
  /\ worker[w].pc = "range"
  /\ IF pending.queue # <<>>
     THEN /\ worker' = [worker EXCEPT ![w] = WorkerAt("auth", Head(pending.queue))]
          /\ pending' = [pending EXCEPT !.queue = Tail(@)]
     ELSE /\ pending.closed /\ UNCHANGED pending
          /\ worker' = [worker EXCEPT ![w] = WorkerAt("done", Nobody)]
  /\ UNCHANGED <<main, result, ln, ctxVars, connVars, sess, knock, closer>>

\* authenticateConn: ServerAuth reads the client's frame from the open
\* connection and accepts it, or fails, at the latest at its deadline.
authenticateConn(w) ==
  /\ worker[w].pc = "auth"
  /\ \/ /\ client[worker[w].conn] = "open"
        /\ worker' = [worker EXCEPT ![w].pc = "accepted"]
        /\ UNCHANGED client
     \/ /\ client' = Close({worker[w].conn})
        /\ worker' = [worker EXCEPT ![w].pc = "refused"]
  /\ UNCHANGED <<runVars, ctxVars, active, held, sess, knock, closer>>

\* Mutant: the worker relays the session itself and returns to the queue when
\* the session is over.
HandOverInline(w) ==
  LET c == worker[w].conn
  IN  /\ worker[w].pc \in {"accepted", "refused"}
      /\ \/ /\ worker[w].pc = "accepted" /\ sess[c].pc = "none"
            /\ sess' = [sess EXCEPT ![c].pc = "dial"]
            /\ UNCHANGED <<active, worker>>
         \/ /\ worker[w].pc = "refused" \/ sess[c].pc = "done"
            /\ active' = Remove(c) /\ UNCHANGED sess
            /\ worker' = [worker EXCEPT ![w] = WorkerAt("range", Nobody)]
      /\ held' = Released(c)
      /\ UNCHANGED <<runVars, ctxVars, client, knock, closer>>

\* item.release; then an accepted session gets a goroutine of its own and a
\* refused connection leaves the active set.
HandOver(w) ==
  LET c == worker[w].conn
  IN  /\ worker[w].pc \in {"accepted", "refused"}
      /\ held' = Released(c)
      /\ IF worker[w].pc = "accepted"
         THEN sess' = [sess EXCEPT ![c].pc = "dial"] /\ UNCHANGED active
         ELSE active' = Remove(c) /\ UNCHANGED sess
      /\ worker' = [worker EXCEPT ![w] = WorkerAt("range", Nobody)]
      /\ UNCHANGED <<runVars, ctxVars, client, knock, closer>>

WorkerStep(w) == TakePending(w) \/ authenticateConn(w) \/ HandOver(w)
-----------------------------------------------------------------------------
sessVars == <<runVars, ctxVars, held, worker, knock, closer>>

\* relaySession dials the upstream under the run context and a timeout.
DialUpstream(c) ==
  /\ sess[c].pc = "dial"
  /\ \/ /\ ~ctxDone
        /\ sess' = [sess EXCEPT ![c] = [pc |-> "relay", halves |-> {"up", "down"},
                                        upstream |-> {"read", "write"}]]
     \/ sess' = [sess EXCEPT ![c].pc = "close"]
  /\ UNCHANGED <<sessVars, active, client>>

\* Mutant: the client's connection is half-closed, its reads go on.
closeHalfOnly(c, h) ==
  /\ sess' = [sess EXCEPT ![c].halves = @ \ {h},
                          ![c].upstream = @ \ {IF h = "up" THEN "write" ELSE "read"}]
  /\ UNCHANGED client

\* closeWrite(dst) and closeRead(src) when a direction has ended.  An upstream
\* *net.TCPConn closes the one side; the client's authenticatedConn has
\* neither method and is closed.
closeHalf(c, h) ==
  /\ sess' = [sess EXCEPT ![c].halves = @ \ {h},
                          ![c].upstream = @ \ {IF h = "up" THEN "write" ELSE "read"}]
  /\ client' = Close({c})

\* copyHalf ends on EOF, an error or the read deadline, whenever the peers like;
\* the deadline of a direction does not see what the other one moves.
copyHalf(c, h) ==
  /\ sess[c].pc = "relay" /\ h \in sess[c].halves
  /\ closeHalf(c, h)
  /\ UNCHANGED <<sessVars, active>>

\* The half that reads from the upstream has to end when that is closed on this side,
\* or when the client is and its reads have a deadline.  The other half may be in a
\* Write to an upstream that does not read, which has no deadline: it has to end
\* only when the upstream is closed on this side.
MustEnd(c, h) ==
  \/ h = "up" /\ "write" \notin sess[c].upstream
  \/ h = "down" /\ "read" \notin sess[c].upstream
  \/ h = "down" /\ IdleTimeout /\ client[c] = "closed"

\* The watcher of bidirectionalContext closes both connections.
CancelSession(c) ==
  /\ sess[c].pc = "relay" /\ ctxDone
  /\ client[c] = "open" \/ sess[c].upstream # {}
  /\ client' = Close({c}) /\ sess' = [sess EXCEPT ![c].upstream = {}]
  /\ UNCHANGED <<sessVars, active>>

\* Both directions have ended: the deferred closes, then active.Remove.
EndSession(c) ==
  /\ sess[c].pc = "close" \/ (sess[c].pc = "relay" /\ sess[c].halves = {})
  /\ client' = Close({c}) /\ active' = Remove(c)
  /\ sess' = [sess EXCEPT ![c].pc = "done", ![c].upstream = {}]
  /\ UNCHANGED sessVars

SessionStep(c) ==
  \/ DialUpstream(c) \/ CancelSession(c) \/ EndSession(c)
  \/ \E h \in {"up", "down"} : MustEnd(c, h) /\ copyHalf(c, h)
-----------------------------------------------------------------------------
knockVars == <<main, result, parent, pending, connVars, worker, sess, closer>>

\* The knock goroutine listens and runs the handler of every accepted knock.
\* listenKnock returns because the context ended, or with an error of its own,
\* which counts while the context is live: it is stored before the run is
\* cancelled, and the listener is closed last.
ListenFails ==
  /\ knock = "listen" /\ ~ctxDone /\ knock' = "store"
  /\ UNCHANGED <<knockVars, cancelled, ln, childErr>>

ListenEnds ==
  /\ knock = "listen" /\ ctxDone /\ knock' = "done"
  /\ UNCHANGED <<knockVars, cancelled, ln, childErr>>

\* Mutant: the listener is closed first.
KnockErrCloseFirst ==
  /\ \/ knock = "store" /\ ln' = "closed" /\ knock' = "cancel"
        /\ UNCHANGED <<cancelled, childErr>>
     \/ knock = "cancel" /\ cancelled' = TRUE /\ knock' = "close"
        /\ UNCHANGED <<ln, childErr>>
     \/ knock = "close" /\ childErr' = TRUE /\ knock' = "done"
        /\ UNCHANGED <<cancelled, ln>>
  /\ UNCHANGED knockVars

KnockErr ==
  /\ \/ knock = "store" /\ childErr' = TRUE /\ knock' = "cancel"
        /\ UNCHANGED <<cancelled, ln>>
     \/ knock = "cancel" /\ cancelled' = TRUE /\ knock' = "close"
        /\ UNCHANGED <<ln, childErr>>
     \/ knock = "close" /\ ln' = "closed" /\ knock' = "done"
        /\ UNCHANGED <<cancelled, childErr>>
  /\ UNCHANGED knockVars

KnockStep == ListenEnds \/ KnockErr
-----------------------------------------------------------------------------
closerVars == <<main, result, ctxVars, pending, held, worker, sess, knock>>

\* Mutant: the listener is left to the deferred Close.
CloserWakesLate ==
  /\ closer.pc = "wait" /\ ctxDone
  /\ closer' = [closer EXCEPT !.pc = "snapshot"]
  /\ UNCHANGED <<closerVars, active, client, ln>>

\* <-runCtx.Done(), ln.Close, then CloseAll: the set is marked closed and
\* copied under its lock and the copies are closed without it.
CloserWakes ==
  /\ closer.pc = "wait" /\ ctxDone /\ ln' = "closed"
  /\ closer' = [closer EXCEPT !.pc = "snapshot"]
  /\ UNCHANGED <<closerVars, active, client>>

\* Mutant: the set is not marked closed.
SnapshotOpen ==
  /\ closer.pc = "snapshot" /\ closer' = [pc |-> "closing", todo |-> active.conns]
  /\ UNCHANGED <<closerVars, active, client, ln>>

Snapshot ==
  /\ closer.pc = "snapshot" /\ closer' = [pc |-> "closing", todo |-> active.conns]
  /\ active' = [active EXCEPT !.closed = TRUE]
  /\ UNCHANGED <<closerVars, client, ln>>

CloseNext ==
  /\ closer.pc = "closing"
  /\ \/ \E c \in closer.todo :
          client' = Close({c}) /\ closer' = [closer EXCEPT !.todo = @ \ {c}]
     \/ /\ closer.todo = {} /\ closer' = [closer EXCEPT !.pc = "done"]
        /\ UNCHANGED client
  /\ UNCHANGED <<closerVars, active, ln>>

CloserStep == CloserWakes \/ Snapshot \/ CloseNext
-----------------------------------------------------------------------------
Next ==
  \/ ParentCancel
  \/ MainStep
  \/ \E c \in Conns, s \in Sources : Accept(c, s)
  \/ \E c \in Conns : SessionStep(c)
  \/ AcceptFails("temporary") \/ AcceptFails("fatal")
  \/ \E w \in Workers : WorkerStep(w)
  \/ \E c \in Conns, h \in {"up", "down"} : copyHalf(c, h)
  \/ ListenFails \/ KnockStep
  \/ CloserStep

\* Goroutines run, and a call with a deadline or on a closed connection
\* returns.  Peers, knocks and the caller need do nothing.
Fairness ==
  /\ WF_vars(MainStep) /\ WF_vars(KnockStep) /\ WF_vars(CloserStep)
  /\ \A w \in Workers : WF_vars(WorkerStep(w))
  /\ \A c \in Conns : WF_vars(SessionStep(c))

Spec == Init /\ [][Next]_vars
FairSpec == Spec /\ Fairness
-----------------------------------------------------------------------------
\* Run, its goroutines and connections have their types, and the queue is within
\* MaxPendingAuth.
TypeOK ==
  /\ main \in [pc : {"validate", "firewall", "accept", "failed", "failed ctx",
                     "sleep", "acquire", "offer", "cancel", "wait",
                     "cleanup", "returned"},
               conn : Conns \cup {Nobody}, source : Sources \cup {Nobody},
               err : {"none", "temporary", "fatal", "closed"}]
  /\ result \in {"running", "setup", "nil", "child", "fatal", "closed"}
  /\ {parent, cancelled, childErr} \subseteq BOOLEAN
  /\ ln \in {"none", "open", "closed"}
  /\ active \in [conns : SUBSET Conns, closed : BOOLEAN]
  /\ pending.queue \in Seq(Conns) /\ Len(pending.queue) <= MaxPendingAuth
  /\ held \subseteq Conns \X Sources
  /\ client \in [Conns -> {"new", "open", "closed"}]
  /\ worker \in [Workers -> [pc : {"none", "range", "auth", "accepted", "refused",
                                   "done"},
                             conn : Conns \cup {Nobody}]]
  /\ sess \in [Conns -> [pc : {"none", "dial", "relay", "close", "done"},
                         halves : SUBSET {"up", "down"},
                         upstream : SUBSET {"read", "write"}]]
  /\ knock \in {"none", "listen", "store", "cancel", "close", "done"}
  /\ closer \in [pc : {"none", "wait", "snapshot", "closing", "done"},
                 todo : SUBSET Conns]

\* When run has returned nothing of it is left: the listener, every accepted
\* connection and every upstream is closed, no connection is queued, no slot
\* is held and no goroutine runs.
ReturnsClean ==
  main.pc = "returned" =>
    /\ ln # "open"
    /\ \A c \in Conns : client[c] # "open" /\ sess[c].upstream = {}
    /\ pending.queue = <<>> /\ held = {} /\ active.conns = {}
    /\ \A w \in Workers : worker[w].pc \in {"none", "done"}
    /\ \A c \in Conns : sess[c].pc \in {"none", "done"}
    /\ knock \in {"none", "done"} /\ closer.pc \in {"none", "done"}

\* Once CloseAll is over no connection is left open but the one that the accept
\* loop has not handed to Add yet: a connection accepted while CloseAll copies
\* the set is closed by Add.
CloseAllReaches ==
  closer.pc = "done" =>
    \A c \in Conns :
      client[c] = "open" => main.conn = c /\ main.pc = "acquire"

\* run never reports the error of an Accept on the listener it closed itself:
\* the listener is closed only when the context is already done.
ClosedIsNeverReported == result # "closed"

\* CHANGELOG.md: "Relay child goroutine errors preserve the first root-cause
\* error": run returns nil only when its caller cancelled the context, never
\* because the knock listener failed.
NilMeansCancelled == result = "nil" => parent

\* A cancelled gateway returns, whatever its peers and its sessions do.
CancelReturns == parent ~> main.pc = "returned"

\* A queued connection gets a worker although no session ever ends.
NoStarvation ==
  \A c \in Conns : (\E i \in DOMAIN pending.queue : pending.queue[i] = c)
                     ~> (\E w \in Workers : worker[w].conn = c)

ClientFinished(c) == sess[c].pc = "relay" /\ "up" \notin sess[c].halves

\* With an idle timeout a session ends once its client has finished, although the
\* upstream neither closes nor sends and the client's connection has no CloseWrite.
\* (A session whose upstream has finished may stay in a Write to it.)
HalfClosedEnds ==
  \A c \in Conns : IdleTimeout /\ ClientFinished(c) ~> sess[c].pc = "done"
=============================================================================
