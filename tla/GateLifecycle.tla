---------------------------- MODULE GateLifecycle ----------------------------
(***************************************************************************)
(* The life of a gate (gate/gate.go): Wrap, the two goroutines it starts   *)
(* in the knock modes, the TTL timers (internal/timerset), and Close.      *)
(* Sessions and leases are the matter of KnockAdmission; here an accepted  *)
(* knock opens a firewall rule and arms a timer that revokes it.  The      *)
(* backend is one without rule timeouts, where the timers do the revoking; *)
(* each knock stands for a source of its own.                              *)
(*                                                                         *)
(* A step is one critical section, one firewall command, one call that     *)
(* opens or closes sockets, or one wait.                                   *)
(***************************************************************************)
EXTENDS Integers, FiniteSets

CONSTANTS
  Starters,        \* goroutines that call Wrap
  Modes,           \* gate modes to start from
  ConcurrentClose, \* Close may be called while Wrap runs
  FirewallFaults,  \* a firewall command may fail
  MaxKnocks        \* bound: knocks accepted in a behaviour

ASSUME ConstantsAssumption ==
  /\ IsFiniteSet(Starters)
  /\ Modes \subseteq {"auth-only", "knock-auth-only", "knock-firewall-auth",
                      "knock-firewall-only"}
  /\ ConcurrentClose \in BOOLEAN /\ FirewallFaults \in BOOLEAN
  /\ MaxKnocks \in Nat

VARIABLES
  mode,       \* cfg.Mode
  started, closed, closeErr, \* the fields of Gate; closeErr is "not nil"
  cancel,     \* g.cancel is set
  parentDone, \* the context given to Wrap is cancelled
  cancelled,  \* g.cancel has been called
  lnOpen,     \* the TCP listener given to Wrap
  knockOpen,  \* the knock listener
  installed,  \* the managed tables, chains and drop rules are in the firewall
  rules,      \* knocks whose ACCEPT rule is in the firewall
  wrap,       \* [Starters -> where the call of Wrap is]
  cleaner,    \* the goroutine that waits for knockCtx
  server,     \* the goroutine that serves knocks
  knocks,     \* knocks accepted so far
  timers,     \* [1..MaxKnocks -> state]: the timer of each knock
  registered, \* timerset.Set.timers
  wg,         \* timerset.Set.wg: the counter
  done,       \* timers whose timerEntry.done has run
  taken,      \* the timers StopAll has taken and not looked at
  before,     \* the timers counted when StopAll began
  closer,     \* where the body of Close is
  sawCancel   \* the value of g.cancel Close read

gateVars == <<mode, started, closed, cancel, parentDone>>
timerVars == <<timers, registered, wg, done, taken, before>>
vars == <<gateVars, closeErr, cancelled, lnOpen, knockOpen, installed, rules,
          wrap, cleaner, server, knocks, timerVars, closer, sawCancel>>

UsesFirewall == mode \in {"knock-firewall-auth", "knock-firewall-only"}
knockCtxDone == parentDone \/ cancelled
Knocks == 1..MaxKnocks

Init ==
  /\ mode \in Modes
  /\ started = FALSE /\ closed = FALSE /\ closeErr = FALSE
  /\ cancel = FALSE /\ parentDone = FALSE /\ cancelled = FALSE
  /\ lnOpen = TRUE /\ knockOpen = FALSE
  /\ installed = FALSE /\ rules = {}
  /\ wrap = [p \in Starters |-> "begin"]
  /\ cleaner = "none" /\ server = "none"
  /\ knocks = 0
  /\ timers = [n \in Knocks |-> "none"]
  /\ registered = {} /\ wg = 0 /\ done = {} /\ taken = {} /\ before = {}
  /\ closer = "idle" /\ sawCancel = FALSE

\* Cleanup empties the managed chain and removes it, or fails and reports it
\* through recordCleanupErr when record holds.
Cleanup(record) ==
  \/ /\ installed' = FALSE /\ rules' = {}
     /\ UNCHANGED closeErr
  \/ /\ FirewallFaults
     /\ closeErr' = (closeErr \/ record)
     /\ UNCHANGED <<installed, rules>>
-----------------------------------------------------------------------------
\* Wrap.
Goto(p, pc) == wrap' = [wrap EXCEPT ![p] = pc]

MayStart == ~closed /\ ~started

\* beginLifecycle, then the checks that depend on the port and the method.
beginLifecycle(p) ==
  /\ wrap[p] = "begin"
  /\ \/ ~MayStart /\ Goto(p, "refused") /\ UNCHANGED <<started, lnOpen>>
     \/ /\ MayStart
        /\ started' = TRUE
        /\ \/ /\ Goto(p, CASE mode = "auth-only"       -> "listener"
                           [] mode = "knock-auth-only" -> "knock"
                           [] OTHER                    -> "init")
              /\ UNCHANGED lnOpen
           \/ Goto(p, "failed") /\ lnOpen' = FALSE
  /\ UNCHANGED <<mode, closed, cancel, parentDone, closeErr, cancelled,
                 knockOpen, installed, rules, cleaner, server, knocks,
                 timerVars, closer, sawCancel>>

\* fw.Init, which may fail half-way.
InitFirewall(p) ==
  /\ wrap[p] = "init"
  /\ \/ installed' = TRUE /\ Goto(p, "knock")
     \/ installed' \in {installed, TRUE} /\ Goto(p, "init failed")
  /\ UNCHANGED <<gateVars, closeErr, cancelled, lnOpen, knockOpen, rules,
                 cleaner, server, knocks, timerVars, closer, sawCancel>>

\* CleanupFirewallDetached after a failed Init, whose error Wrap returns, or
\* after a failed knock listener, whose error is recorded too.
WrapCleanup(p) ==
  /\ wrap[p] \in {"init failed", "knock failed"}
  /\ Cleanup(wrap[p] = "knock failed")
  /\ Goto(p, "failed")
  /\ lnOpen' = FALSE
  /\ UNCHANGED <<gateVars, cancelled, knockOpen, cleaner, server, knocks,
                 timerVars, closer, sawCancel>>

openKnockListener(p) ==
  /\ wrap[p] = "knock"
  /\ \/ knockOpen' = TRUE /\ Goto(p, "set cancel") /\ UNCHANGED lnOpen
     \/ /\ Goto(p, IF UsesFirewall THEN "knock failed" ELSE "failed")
        /\ lnOpen' = (UsesFirewall /\ lnOpen)
        /\ UNCHANGED knockOpen
  /\ UNCHANGED <<gateVars, closeErr, cancelled, installed, rules, cleaner,
                 server, knocks, timerVars, closer, sawCancel>>

SetCancel(p) ==
  /\ wrap[p] = "set cancel"
  /\ cancel' = TRUE
  /\ Goto(p, "spawn")
  /\ UNCHANGED <<mode, started, closed, parentDone, closeErr, cancelled,
                 lnOpen, knockOpen, installed, rules, cleaner, server, knocks,
                 timerVars, closer, sawCancel>>

\* wg.Add(2) and the two go statements.
Spawn(p) ==
  /\ wrap[p] = "spawn"
  /\ cleaner' = "waiting" /\ server' = "serving"
  /\ Goto(p, "listener")
  /\ UNCHANGED <<gateVars, closeErr, cancelled, lnOpen, knockOpen, installed,
                 rules, knocks, timerVars, closer, sawCancel>>

\* WrapListenerWithConfigE, which can fail in the modes with authentication.
WrapListener(p) ==
  /\ wrap[p] = "listener"
  /\ \/ Goto(p, "returned") /\ UNCHANGED lnOpen
     \/ /\ mode = "auth-only"
        /\ Goto(p, "failed") /\ lnOpen' = FALSE
     \/ /\ mode \in {"knock-auth-only", "knock-firewall-auth"}
        /\ Goto(p, "close") /\ UNCHANGED lnOpen
  /\ UNCHANGED <<gateVars, closeErr, cancelled, knockOpen, installed, rules,
                 cleaner, server, knocks, timerVars, closer, sawCancel>>

\* Wrap calls Close itself and then closes the listener.
WrapClosed(p) ==
  /\ wrap[p] = "close" /\ closer = "returned"
  /\ Goto(p, "failed")
  /\ lnOpen' = FALSE
  /\ UNCHANGED <<gateVars, closeErr, cancelled, knockOpen, installed, rules,
                 cleaner, server, knocks, timerVars, closer, sawCancel>>

Wrap(p) ==
  \/ beginLifecycle(p) \/ InitFirewall(p) \/ WrapCleanup(p)
  \/ openKnockListener(p) \/ SetCancel(p) \/ Spawn(p) \/ WrapListener(p)
  \/ WrapClosed(p)

WrapRuns(p) == wrap[p] \notin {"begin", "refused", "failed", "returned"}
-----------------------------------------------------------------------------
\* The goroutine that waits for the end of knockCtx.
CleanerWakes ==
  /\ cleaner = "waiting" /\ knockCtxDone
  /\ cleaner' = IF UsesFirewall THEN "cleanup" ELSE "sockets"
  /\ UNCHANGED <<gateVars, closeErr, cancelled, lnOpen, knockOpen, installed,
                 rules, wrap, server, knocks, timerVars, closer, sawCancel>>

\* Mutant: a failed cleanup is not recorded.
CleanerCleanupSilent == Cleanup(FALSE)

CleanerCleanup == Cleanup(TRUE)

CleanerCleans ==
  /\ cleaner = "cleanup"
  /\ CleanerCleanup
  /\ cleaner' = "sockets"
  /\ UNCHANGED <<gateVars, cancelled, lnOpen, knockOpen, wrap, server, knocks,
                 timerVars, closer, sawCancel>>

CleanerCloses ==
  /\ cleaner = "sockets"
  /\ knockOpen' = FALSE /\ lnOpen' = FALSE
  /\ cleaner' = "exit"
  /\ UNCHANGED <<gateVars, closeErr, cancelled, installed, rules, wrap, server,
                 knocks, timerVars, closer, sawCancel>>

Cleaner == CleanerWakes \/ CleanerCleans \/ CleanerCloses
-----------------------------------------------------------------------------
\* The goroutine that serves knocks: Serve and the knock handler.
ServeKnock ==
  /\ server = "serving" /\ knockOpen /\ knocks < MaxKnocks
  /\ knocks' = knocks + 1
  /\ server' = IF UsesFirewall THEN "allow" ELSE "arm"
  /\ UNCHANGED <<gateVars, closeErr, cancelled, lnOpen, knockOpen, installed,
                 rules, wrap, cleaner, timerVars, closer, sawCancel>>

\* AllowFirewall needs the managed chain.  When it fails, which it can do
\* with the rule already in place, the knock is dropped.
ServeAllow ==
  /\ server = "allow"
  /\ \/ installed /\ rules' = rules \cup {knocks} /\ server' = "mark"
     \/ /\ ~installed \/ knockCtxDone \/ FirewallFaults
        /\ rules' = rules \/ (installed /\ rules' = rules \cup {knocks})
        /\ server' = "serving"
  /\ UNCHANGED <<gateVars, closeErr, cancelled, lnOpen, knockOpen, installed,
                 wrap, cleaner, knocks, timerVars, closer, sawCancel>>

\* MarkFirewall: without room for a lease the rule is taken back, with a
\* command whose failure is ignored.
ServeMark ==
  /\ server = "mark"
  /\ \/ server' = "arm" /\ UNCHANGED rules
     \/ server' = "serving" /\ rules' = rules \ {knocks}
     \/ /\ knockCtxDone \/ FirewallFaults
        /\ server' = "serving" /\ UNCHANGED rules
  /\ UNCHANGED <<gateVars, closeErr, cancelled, lnOpen, knockOpen, installed,
                 wrap, cleaner, knocks, timerVars, closer, sawCancel>>

\* timerset.AfterFunc: wg.Add, then under the lock the timer is started and stored.
ServeCounts ==
  /\ server = "arm"
  /\ wg' = wg + 1
  /\ timers' = [timers EXCEPT ![knocks] = "counted"]
  /\ server' = "register"
  /\ UNCHANGED <<gateVars, closeErr, cancelled, lnOpen, knockOpen, installed,
                 rules, wrap, cleaner, knocks, registered, done, taken, before,
                 closer, sawCancel>>

ServeArms ==
  /\ server = "register"
  /\ timers' = [timers EXCEPT ![knocks] = "armed"]
  /\ registered' = registered \cup {knocks}
  /\ server' = "serving"
  /\ UNCHANGED <<gateVars, closeErr, cancelled, lnOpen, knockOpen, installed,
                 rules, wrap, cleaner, knocks, wg, done, taken, before, closer,
                 sawCancel>>

\* Serve returns when its context ends, or with an error that closes the
\* listener; either way it closes the knock socket.
ServeEnds ==
  /\ server = "serving" /\ knockCtxDone
  /\ server' = "exit" /\ knockOpen' = FALSE
  /\ UNCHANGED <<gateVars, closeErr, cancelled, lnOpen, installed, rules, wrap,
                 cleaner, knocks, timerVars, closer, sawCancel>>

ServeFails ==
  /\ server = "serving" /\ ~knockCtxDone
  /\ server' = "exit" /\ knockOpen' = FALSE /\ lnOpen' = FALSE
  /\ UNCHANGED <<gateVars, closeErr, cancelled, installed, rules, wrap,
                 cleaner, knocks, timerVars, closer, sawCancel>>

Server == ServeAllow \/ ServeMark \/ ServeCounts \/ ServeArms \/ ServeEnds
-----------------------------------------------------------------------------
\* entry.done.Do(s.wg.Done)
Once(n) == IF n \in done THEN wg ELSE wg - 1

\* The timer of knock n: the runtime starts the callback, which leaves the set
\* and then, if it finds the lease, revokes the rule; a failed revoke is
\* recorded.  The deferred call counts it down and wakes a StopAll that waits.
TimerFires(n) ==
  /\ timers[n] = "armed"
  /\ timers' = [timers EXCEPT ![n] = "fired"]
  /\ UNCHANGED <<gateVars, closeErr, cancelled, lnOpen, knockOpen, installed,
                 rules, wrap, cleaner, server, knocks, registered, wg, done,
                 taken, before, closer, sawCancel>>

LeftBy(n) == registered \ {n}

TimerLeaves(n) ==
  /\ timers[n] = "fired"
  /\ timers' = [timers EXCEPT ![n] = "running"]
  /\ registered' = LeftBy(n)
  /\ UNCHANGED <<gateVars, closeErr, cancelled, lnOpen, knockOpen, installed,
                 rules, wrap, cleaner, server, knocks, wg, done, taken, before,
                 closer, sawCancel>>

TimerRevokes(n) ==
  /\ timers[n] = "running"
  /\ \/ rules' = rules \ {n} /\ UNCHANGED closeErr
     \/ UNCHANGED <<rules, closeErr>>
     \/ UsesFirewall /\ FirewallFaults /\ closeErr' = TRUE /\ UNCHANGED rules
  /\ timers' = [timers EXCEPT ![n] = "returned"]
  /\ UNCHANGED <<gateVars, cancelled, lnOpen, knockOpen, installed, wrap,
                 cleaner, server, knocks, registered, wg, done, taken, before,
                 closer, sawCancel>>

TimerDone(n) ==
  /\ timers[n] = "returned"
  /\ timers' = [timers EXCEPT ![n] = "done"]
  /\ done' = done \cup {n} /\ wg' = Once(n)
  /\ closer' = IF closer = "asleep" /\ wg' = 0 THEN "woken" ELSE closer
  /\ UNCHANGED <<gateVars, closeErr, cancelled, lnOpen, knockOpen, installed,
                 rules, wrap, cleaner, server, knocks, registered, taken,
                 before, sawCancel>>

Timer(n) == TimerFires(n) \/ TimerLeaves(n) \/ TimerRevokes(n) \/ TimerDone(n)
-----------------------------------------------------------------------------
\* The application closes the gate, or Wrap does.
MayClose ==
  ConcurrentClose \/ \A p \in Starters : WrapRuns(p) => wrap[p] = "close"

\* Close, run once; later callers wait for the first.  The listener Wrap
\* returned closes the TCP listener first when it is closed.
CloseBegins ==
  /\ closer = "idle"
  /\ MayClose
  /\ \/ UNCHANGED lnOpen
     \/ (\E p \in Starters : wrap[p] = "returned") /\ lnOpen' = FALSE
  /\ closed' = TRUE /\ sawCancel' = cancel
  /\ closer' = "cancel"
  /\ UNCHANGED <<mode, started, cancel, parentDone, closeErr, cancelled,
                 knockOpen, installed, rules, wrap, cleaner, server,
                 knocks, timerVars>>

\* Mutant: the stored cancel function is not called.
CancelSkipped == cancelled

Cancel == sawCancel \/ cancelled

CloseCancels ==
  /\ closer = "cancel"
  /\ cancelled' = Cancel
  /\ closer' = "take"
  /\ UNCHANGED <<gateVars, closeErr, lnOpen, knockOpen, installed, rules, wrap,
                 cleaner, server, knocks, timerVars, sawCancel>>

\* StopAll: take the map, stop and count down what has not fired, wait for the rest.
StopTakes ==
  /\ closer = "take"
  /\ taken' = registered /\ registered' = {}
  /\ before' = {n \in Knocks : timers[n] # "none"}
  /\ closer' = "stop"
  /\ UNCHANGED <<gateVars, closeErr, cancelled, lnOpen, knockOpen, installed,
                 rules, wrap, cleaner, server, knocks, timers, wg, done,
                 sawCancel>>

\* Mutant: a timer is counted down whether or not Stop was in time.
StoppedAny(n) == TRUE

\* t.Stop() reports whether it came before the callback.
Stopped(n) == timers[n] = "armed"

StopOne(n) ==
  /\ closer = "stop" /\ n \in taken
  /\ taken' = taken \ {n}
  /\ timers' = [timers EXCEPT ![n] = IF @ = "armed" THEN "stopped" ELSE @]
  /\ done' = IF Stopped(n) THEN done \cup {n} ELSE done
  /\ wg' = IF Stopped(n) THEN Once(n) ELSE wg
  /\ UNCHANGED <<gateVars, closeErr, cancelled, lnOpen, knockOpen, installed,
                 rules, wrap, cleaner, server, knocks, registered, before,
                 closer, sawCancel>>

\* wg.Wait returns at once or sleeps until a count-down to zero wakes it.
StopWaits ==
  /\ closer = "stop" /\ taken = {}
  /\ closer' = IF wg = 0 THEN "wait" ELSE "asleep"
  /\ UNCHANGED <<gateVars, closeErr, cancelled, lnOpen, knockOpen, installed,
                 rules, wrap, cleaner, server, knocks, timerVars, sawCancel>>

\* A woken Wait panics when it finds that wg has been added to in the meantime.
StopWakes ==
  /\ closer = "woken"
  /\ closer' = IF wg = 0 THEN "wait" ELSE "panicked"
  /\ UNCHANGED <<gateVars, closeErr, cancelled, lnOpen, knockOpen, installed,
                 rules, wrap, cleaner, server, knocks, timerVars, sawCancel>>

StopAllReturned == closer \in {"wait", "cleanup", "returned"}

GoroutinesGone == cleaner \in {"none", "exit"} /\ server \in {"none", "exit"}

CloseWaits ==
  /\ closer = "wait" /\ GoroutinesGone
  /\ closer' = "cleanup"
  /\ UNCHANGED <<gateVars, closeErr, cancelled, lnOpen, knockOpen, installed,
                 rules, wrap, cleaner, server, knocks, timerVars, sawCancel>>

\* Without goroutines Close cleans the firewall up itself.
CloseCleans ==
  /\ closer = "cleanup"
  /\ IF UsesFirewall /\ ~sawCancel THEN Cleanup(TRUE)
     ELSE UNCHANGED <<installed, rules, closeErr>>
  /\ closer' = "returned"
  /\ UNCHANGED <<gateVars, cancelled, lnOpen, knockOpen, wrap, cleaner, server,
                 knocks, timerVars, sawCancel>>

CloseStep ==
  \/ CloseCancels \/ StopTakes \/ (\E n \in Knocks : StopOne(n))
  \/ StopWaits \/ StopWakes \/ CloseWaits \/ CloseCleans

\* The application cancels the context it gave to Wrap.
ParentCancelled ==
  /\ ~parentDone
  /\ parentDone' = TRUE
  /\ UNCHANGED <<mode, started, closed, cancel, closeErr, cancelled, lnOpen,
                 knockOpen, installed, rules, wrap, cleaner, server, knocks,
                 timerVars, closer, sawCancel>>
-----------------------------------------------------------------------------
Next ==
  \/ \E p \in Starters : Wrap(p)
  \/ Cleaner \/ ServeKnock \/ Server \/ ServeFails
  \/ \E n \in Knocks : Timer(n)
  \/ CloseBegins \/ CloseStep
  \/ ParentCancelled

Spec == Init /\ [][Next]_vars

\* Goroutines run, timers fire, a started Close runs on; knocks, failures of
\* Serve, calls of Close and cancellations need not happen.
Fairness ==
  /\ \A p \in Starters : WF_vars(Wrap(p))
  /\ WF_vars(Cleaner) /\ WF_vars(Server) /\ WF_vars(CloseStep)
  /\ \A n \in Knocks : WF_vars(Timer(n))
  /\ WF_vars((\E p \in Starters : wrap[p] = "close") /\ CloseBegins)

FairSpec == Spec /\ Fairness
-----------------------------------------------------------------------------
Released == ~installed /\ rules = {} /\ ~knockOpen /\ GoroutinesGone

\* When Close has returned no error, nothing of the gate is left: no managed
\* firewall state, no rule, no knock socket, no goroutine.
CloseReleases == closer = "returned" /\ ~closeErr => Released

\* When StopAll has returned, every timer that was counted when it began is stopped or
\* its callback has run to its end, although Stop races with the callback and both
\* may count it down.
StopAllStops ==
  StopAllReturned => \A n \in before : timers[n] \in {"stopped", "done"}

\* A Close that has started returns, unless AfterFunc adds to the WaitGroup between
\* the count-down that wakes StopAll and its return, which panics.
CloseTerminates == closer # "idle" ~> closer \in {"returned", "panicked"}
=============================================================================
