-------------------------- MODULE FirewallBackend --------------------------
(***************************************************************************)
(* The firewall backends (firewall/): what Init, Allow, Revoke and Cleanup *)
(* of the nftables, ipset-iptables, iptables, script and no-op backends do *)
(* to the packet filter, one command at a time.  A command may fail before *)
(* or after it took effect, the knock handler, a timer and the shutdown    *)
(* run commands concurrently, and the process may be killed between any    *)
(* two commands and start again on what it left behind.                    *)
(*                                                                         *)
(* An operation is a program: a sequence of commands, each with what the   *)
(* code does about its failure.  Both kinds of packet filter are seen as a *)
(* chain per address family, the rules of INPUT that lead to it, and a set *)
(* of members with timeouts; an nftables table is all of these at once.    *)
(***************************************************************************)
EXTENDS Integers, Sequences, Functions

CONSTANTS
  Remotes4, Remotes6,  \* IPv4 and IPv6 clients
  TTL,                 \* AllowTTL, in ticks
  PerSecond,           \* ticks in a second
  MaxCleanupDeletes,   \* maxCleanupDeletes
  MaxStarts,           \* bound: starts of the process
  MaxFaults,           \* bound: commands that fail without need
  MaxTime              \* bound: the clock stops here

ASSUME FirewallAssumption ==
  /\ TTL \in Nat \ {0} /\ PerSecond \in Nat \ {0} /\ MaxTime \in Nat
  /\ MaxStarts \in Nat /\ MaxFaults \in Nat /\ MaxCleanupDeletes \in Nat
  /\ MaxStarts + MaxFaults <= MaxCleanupDeletes
  /\ Remotes4 \cap Remotes6 = {}

\* A client is an address, never the name of a rule.
ASSUME RemotesAssumption ==
  \A s \in {"none", "absent", "jump", "drop", "set", "established"} :
    s \notin Remotes4 /\ s \notin Remotes6

VARIABLES
  now,       \* the clock
  kernel,    \* the packet filter
  cfg,       \* the backend New has made
  phase,     \* "down", "init", "serving", "cleanup"
  calls,     \* the backend call of each goroutine: lifecycle, handler, timer
  starts, faults,
  granted,   \* history: remotes an Allow was called for and no Revoke has closed
  doubtful,  \* history: remotes whose rule a failed check did not see
  clean      \* history: the last process ended with a Cleanup without error

firewallVars == <<now, kernel, cfg, phase, calls, starts, faults, granted, doubtful, clean>>

Remotes == Remotes4 \cup Remotes6
Families == {4, 6}
Family(r) == IF r \in Remotes4 THEN 4 ELSE 6
Procs == {"life", "handler", "timer"}
Absent == <<"absent">>
Backends == {"nftables", "ipset-iptables", "iptables", "script", "noop"}
Configs == [backend : Backends, ipv6 : BOOLEAN, drop : BOOLEAN, tool6 : BOOLEAN]
-----------------------------------------------------------------------------
\* Detect: the first backend whose commands are installed, or the script.
Detect(tools, script) ==
  CASE "nft" \in tools -> "nftables"
    [] "nft" \notin tools /\ {"ipset", "iptables"} \subseteq tools -> "ipset-iptables"
    [] tools \cap {"nft", "ipset"} = {} /\ "iptables" \in tools -> "iptables"
    [] OTHER -> IF script THEN "script" ELSE "none"

backendCommands(b) ==
  CASE b = "nftables" -> {"nft"} [] b = "iptables" -> {"iptables"}
    [] b = "ipset-iptables" -> {"ipset", "iptables"} [] OTHER -> {}

ipv6Enabled(b, tools, enable) ==
  IF enable # "unset" THEN enable = "yes"
  ELSE b = "nftables" \/ "ip6tables" \in tools

\* New: the backend for a configuration on a host, "none" when it is refused.  The
\* script backend needs its three commands and cannot drop UDP packets.
New(request, tools, enable, drop, script) ==
  LET b == IF request \in {"", "auto"} THEN Detect(tools, script) ELSE request
      ok == backendCommands(b) \subseteq tools /\ (b = "script" => script /\ ~drop)
  IN  [backend |-> IF ok THEN b ELSE "none", ipv6 |-> ipv6Enabled(b, tools, enable),
       drop |-> drop, tool6 |-> "ip6tables" \in tools]

\* The families a backend filters: an nftables table drops in both.
Managed ==
  CASE cfg.backend \in {"noop", "script"} -> {} [] cfg.backend = "nftables" -> Families
    [] OTHER -> IF cfg.ipv6 THEN Families ELSE {4}
-----------------------------------------------------------------------------
\* A command and what the code does when it fails: "must" gives up (after the
\* backend's Cleanup if undo is set), "try" does not care, "quiet" notes the error
\* unless something was missing and goes on, "loop" repeats until it fails,
\* "unless" skips the next command if it succeeds, "bail" is no command: it gives
\* up if an error was noted.
Cmd(kind, do, f, arg) ==
  [kind |-> kind, do |-> do, fam |-> f, arg |-> arg, undo |-> FALSE]
Undo(prog) == [i \in DOMAIN prog |-> [prog[i] EXCEPT !.undo = TRUE]]
Bail == <<Cmd("bail", "none", 4, "none")>>
If(b, prog) == IF b THEN prog ELSE <<>>

cleanupIptablesRules(f) ==
  If(cfg.drop, <<Cmd("loop", "-D_INPUT", f, "drop")>>)
  \o <<Cmd("loop", "-D_INPUT", f, "jump"),
       Cmd("quiet", "-F", f, "none"), Cmd("quiet", "-X", f, "none")>>

\* initCommand of both iptables backends: ipset's has one more rule, that matches the set.
initCommand(f, match) ==
  <<Cmd("try", "-N", f, "none"), Cmd("try", "-F", f, "none"),
    Cmd("unless", "-C_INPUT", f, "jump"), Cmd("must", "-I_INPUT", f, "jump")>>
  \o If(cfg.drop, <<Cmd("unless", "-C_INPUT", f, "drop"),
                    Cmd("must", "-I_INPUT", f, "drop")>>)
  \o <<Cmd("must", "-A", f, "established")>> \o match \o <<Cmd("must", "-A", f, "drop")>>
initCommandIPSet(f) == initCommand(f, <<Cmd("must", "-A", f, "set")>>)

IptablesInit ==
  cleanupIptablesRules(4) \o Bail \o Undo(initCommand(4, <<>>))
  \o If(cfg.ipv6, Undo(cleanupIptablesRules(6) \o Bail \o initCommand(6, <<>>)))

\* Mutant: the rules of ip6tables are forgotten.
IptablesCleanupV4 == cleanupIptablesRules(4)

IptablesCleanup ==
  cleanupIptablesRules(4) \o If(cfg.ipv6, cleanupIptablesRules(6))

\* Mutant: a set that is there already is used with its members.
CreateSetUnflushed(f) == <<Cmd("must", "create", f, "none")>>

CreateSet(f) ==
  <<Cmd("must", "create", f, "none")>>
  \o Undo(<<Cmd("quiet", "flush", f, "none")>> \o Bail)
DestroySet(f) == <<Cmd("quiet", "flush", f, "none"), Cmd("quiet", "destroy", f, "none")>>

IPSetInit ==
  CreateSet(4) \o Undo(cleanupIptablesRules(4) \o Bail \o initCommandIPSet(4))
  \o If(cfg.ipv6, Undo(CreateSet(6) \o cleanupIptablesRules(6) \o Bail
                       \o initCommandIPSet(6)))
IPSetCleanup ==
  cleanupIptablesRules(4)
  \o If(cfg.ipv6, cleanupIptablesRules(6) \o DestroySet(6)) \o DestroySet(4)

NftablesCleanup == <<Cmd("quiet", "delete_table", 4, "none")>>
NftablesInit ==
  NftablesCleanup \o Bail \o Undo(<<Cmd("must", "table", 4, "none")>>)

\* The script's commands have no effect this module knows of.
Script(r) == <<Cmd("must", "script", 4, r)>>

InitProgram(b) == CASE b = "nftables" -> NftablesInit [] b = "iptables" -> IptablesInit
              [] b = "ipset-iptables" -> IPSetInit [] OTHER -> <<>>
Cleanup(b) == CASE b = "nftables" -> NftablesCleanup [] b = "iptables" -> IptablesCleanup
                [] b = "ipset-iptables" -> IPSetCleanup [] b = "script" -> Script("none")
                [] OTHER -> <<>>

\* An IPv6 client of a backend that does not manage IPv6 is refused by Allow and
\* ignored by Revoke.
Refused(r) == cfg.backend \notin {"noop", "script"} /\ Family(r) = 6 /\ ~cfg.ipv6

\* Mutant: a member is taken out and put back by two commands.
RenewInTwo(r) == <<Cmd("quiet", "del", Family(r), r), Cmd("must", "add", Family(r), r)>>

\* nftRenewElementInput is one transaction, ipset add -exist one command.
Renew(r) == <<Cmd("must", "add", Family(r), r)>>
NftablesAllow(r) == Renew(r)
IPSetAllow(r) == Renew(r)
IptablesAllow(r) == <<Cmd("unless", "-C", Family(r), r), Cmd("must", "-I", Family(r), r)>>

NftablesRevoke(r) == <<Cmd("quiet", "del", Family(r), r)>>
IPSetRevoke(r) == <<Cmd("quiet", "del", Family(r), r)>>
IptablesRevoke(r) == <<Cmd("quiet", "-D", Family(r), r)>>

Allow(r) ==
  CASE cfg.backend = "nftables" -> NftablesAllow(r)
    [] cfg.backend = "ipset-iptables" -> IPSetAllow(r)
    [] cfg.backend = "iptables" -> IptablesAllow(r)
    [] cfg.backend = "script" -> Script(r) [] OTHER -> <<>>
Revoke(r) ==
  CASE cfg.backend = "nftables" -> NftablesRevoke(r)
    [] cfg.backend = "ipset-iptables" -> IPSetRevoke(r)
    [] cfg.backend = "iptables" -> IptablesRevoke(r)
    [] cfg.backend = "script" -> Script(r) [] OTHER -> <<>>

\* ttlSeconds: whole seconds, at least one.
ttlSeconds == IF TTL < PerSecond THEN 1 ELSE TTL \div PerSecond

\* When a member ends that is added for n seconds: with a timeout of 0 it never does.
Forever == MaxTime + TTL + PerSecond + 1
Expiry(n) == IF n = 0 THEN Forever ELSE now + n * PerSecond
-----------------------------------------------------------------------------
Empty == [chain |-> [f \in Families |-> Absent],
          input |-> [f \in Families |-> [jump |-> 0, drop |-> 0]],
          made |-> [f \in Families |-> FALSE], member |-> [r \in Remotes |-> 0]]

Ok(k) == {[k |-> k, out |-> "ok"]}
Error(k) == {[k |-> k, out |-> "error"]}
\* isMissingFirewallObject knows the wording for a missing rule, set or member; the
\* wording for a missing chain differs between versions of iptables.
Missing(k) == {[k |-> k, out |-> "missing"]}
NoChain(k) == Missing(k) \cup Error(k)
Unless(bad, outcome, k) == IF bad THEN outcome ELSE Ok(k)

\* The table of the script that nftables' Init loads.
Table(k) ==
  [k EXCEPT
     !.chain = [f \in Families |-> (IF k.chain[f] = Absent THEN <<>> ELSE k.chain[f])
                 \o <<"established">> \o If(f = 4 \/ cfg.ipv6, <<"set">>) \o <<"drop">>],
     !.input = [f \in Families |-> [jump |-> 1, drop |-> IF cfg.drop THEN 1 ELSE 0]],
     !.made = [f \in Families |-> f = 4 \/ cfg.ipv6 \/ k.made[f]]]

Flushed(k, f) == [r \in Remotes |-> IF Family(r) = f THEN 0 ELSE k.member[r]]

\* Where the first rule for a is.
First(ch, a) == {i \in DOMAIN ch : ch[i] = a /\ \A j \in 1..(i - 1) : ch[j] # a}
\* A chain without its rule i.
Deleted(ch, i) == SubSeq(ch, 1, i - 1) \o SubSeq(ch, i + 1, Len(ch))

\* What a command does to the packet filter, and how it ends.
Effect(k, c) ==
  LET f == c.fam
      a == c.arg
      ch == k.chain[f]
      gone == ch = Absent
  IN  CASE c.do = "-N" -> IF gone THEN Ok([k EXCEPT !.chain[f] = <<>>]) ELSE Error(k)
        [] c.do = "-F" -> Unless(gone, NoChain(k), [k EXCEPT !.chain[f] = <<>>])
        [] c.do = "-X" -> IF gone THEN NoChain(k)
                          ELSE Unless(ch # <<>> \/ k.input[f].jump > 0, Error(k),
                                      [k EXCEPT !.chain[f] = Absent])
        [] c.do = "-A" -> Unless(gone \/ (a = "set" /\ ~k.made[f]), Error(k),
                                 [k EXCEPT !.chain[f] = Append(@, a)])
        [] c.do = "-C_INPUT" -> Unless(k.input[f][a] = 0, Missing(k), k)
        [] c.do = "-I_INPUT" -> Unless(a = "jump" /\ gone, Error(k),
                                       [k EXCEPT !.input[f][a] = @ + 1])
        [] c.do = "-D_INPUT" -> Unless(k.input[f][a] = 0, Missing(k),
                                       [k EXCEPT !.input[f][a] = @ - 1])
        [] c.do = "-C" -> IF gone THEN NoChain(k) ELSE Unless(a \notin Range(ch), Missing(k), k)
        [] c.do = "-I" -> Unless(gone, Error(k), [k EXCEPT !.chain[f] = <<a>> \o @])
        [] c.do = "-D" -> IF gone THEN NoChain(k)
                          ELSE IF a \notin Range(ch) THEN Missing(k)
                          ELSE UNION {Ok([k EXCEPT !.chain[f] = Deleted(ch, i)]) :
                                        i \in First(ch, a)}
        [] c.do = "create" -> Ok([k EXCEPT !.made[f] = TRUE])
        [] c.do = "flush" -> Unless(~k.made[f], Missing(k), [k EXCEPT !.member = Flushed(k, f)])
        [] c.do = "destroy" -> IF ~k.made[f] THEN Missing(k)
                               ELSE Unless(~gone /\ "set" \in Range(ch), Error(k),
                                 [k EXCEPT !.made[f] = FALSE, !.member = Flushed(k, f)])
        [] c.do = "add" -> Unless(~k.made[f], Error(k),
                                  [k EXCEPT !.member[a] = Expiry(ttlSeconds)])
        [] c.do = "del" -> Unless(k.member[a] <= now, Missing(k), [k EXCEPT !.member[a] = 0])
        [] c.do = "table" -> Ok(Table(k))
        [] c.do = "delete_table" -> Unless(k.chain[4] = Absent, Missing(k), Empty)
        [] OTHER -> Ok(k)

\* ip6tables is not installed.
NoTool(c) == c.fam = 6 /\ ~cfg.tool6 /\ cfg.backend # "nftables"
             /\ c.do \notin {"create", "flush", "destroy", "add", "del"}

\* The ends of a command, the ones with a fault included: execRunner's timeout or a
\* refused lock, before or after the command took effect.
Outcomes(c) ==
  IF c.kind = "bail" THEN Ok(kernel)
  ELSE IF NoTool(c) THEN Error(kernel)
  ELSE Effect(kernel, c)
       \cup IF faults < MaxFaults
            THEN UNION {Error(e.k) : e \in Effect(kernel, c) \cup Ok(kernel)} ELSE {}
-----------------------------------------------------------------------------
Call(op, r, prog) ==
  [op |-> op, remote |-> r, todo |-> prog, err |-> FALSE, n |-> 0, since |-> TRUE]
Idle == Call("none", "none", <<>>)

GivesUp(call, c) ==
  [call EXCEPT !.err = TRUE, !.n = 0,
               !.todo = IF c.undo THEN Cleanup(cfg.backend) ELSE <<>>]

\* The call after command c ended with out.
After(call, c, out) ==
  LET rest == [call EXCEPT !.todo = Tail(@), !.n = 0]
      noted == [rest EXCEPT !.err = @ \/ out = "error"]
  IN  CASE c.kind = "must" -> IF out = "ok" THEN rest ELSE GivesUp(call, c)
        [] c.kind = "try" -> rest
        [] c.kind = "quiet" -> noted
        [] c.kind = "loop" -> IF out = "ok" /\ call.n + 1 < MaxCleanupDeletes
                              THEN [call EXCEPT !.n = @ + 1] ELSE noted
        [] c.kind = "unless" -> IF out = "ok" THEN [rest EXCEPT !.todo = Tail(@)] ELSE rest
        [] c.kind = "bail" -> IF call.err THEN GivesUp(call, c) ELSE rest

FirewallInit ==
  /\ now = 1 /\ kernel = Empty /\ phase = "down"
  /\ cfg \in Configs
  /\ calls = [p \in Procs |-> Idle]
  /\ starts = 0 /\ faults = 0
  /\ granted = {} /\ doubtful = {} /\ clean = FALSE

Tick == /\ now < MaxTime /\ now' = now + 1
        /\ UNCHANGED <<kernel, cfg, phase, calls, starts, faults, granted, doubtful, clean>>

\* InitFirewall, at the first start or after the end of an earlier process.
NewProcess ==
  /\ phase = "down" /\ starts < MaxStarts /\ \A p \in Procs : calls[p].op = "none"
  /\ phase' = "init" /\ starts' = starts + 1 /\ clean' = FALSE
  /\ calls' = [calls EXCEPT !["life"] = Call("init", "none", InitProgram(cfg.backend))]
  /\ UNCHANGED <<now, kernel, cfg, faults, granted, doubtful>>

\* CleanupFirewallDetached at shutdown.
Shutdown ==
  /\ phase = "serving" /\ phase' = "cleanup"
  /\ calls' = [calls EXCEPT !["life"] = Call("cleanup", "none", Cleanup(cfg.backend))]
  /\ UNCHANGED <<now, kernel, cfg, starts, faults, granted, doubtful, clean>>

\* The process is killed.
Crash ==
  /\ phase # "down" /\ phase' = "down" /\ calls' = [p \in Procs |-> Idle]
  /\ UNCHANGED <<now, kernel, cfg, starts, faults, granted, doubtful, clean>>

\* AllowFirewall, by the goroutine that serves knocks.
AllowFirewall(r) ==
  /\ phase \in {"serving", "cleanup"} /\ calls["handler"].op = "none" /\ ~Refused(r)
  /\ calls' = [calls EXCEPT !["handler"] = Call("allow", r, Allow(r)),
                 !["timer"].since = @ /\ calls["timer"].remote # r]
  /\ granted' = granted \cup {r}
  /\ UNCHANGED <<now, kernel, cfg, phase, starts, faults, doubtful, clean>>

\* RevokeFirewall, by a timer or by removal after authentication.
RevokeFirewall(r) ==
  /\ phase \in {"serving", "cleanup"} /\ calls["timer"].op = "none" /\ ~Refused(r)
  /\ r \in granted
  /\ calls' = [calls EXCEPT !["timer"] =
                 [Call("revoke", r, Revoke(r)) EXCEPT !.since = calls["handler"].remote # r]]
  /\ UNCHANGED <<now, kernel, cfg, phase, starts, faults, granted, doubtful, clean>>

\* A rule that is there and that the check of Allow did not see is inserted again.
Overlooked(c, o) ==
  c.do = "-C" /\ o.out # "ok" /\ kernel.chain[c.fam] # Absent
              /\ c.arg \in Range(kernel.chain[c.fam])

Step(p) ==
  /\ calls[p].todo # <<>>
  /\ LET c == Head(calls[p].todo)
     IN  \E o \in Outcomes(c) :
           /\ kernel' = o.k
           /\ calls' = [calls EXCEPT ![p] = After(@, c, o.out)]
           /\ faults' = faults + IF c.kind = "bail" \/ NoTool(c) \/ o \in Effect(kernel, c)
                                 THEN 0 ELSE 1
           /\ doubtful' = doubtful \cup IF Overlooked(c, o) THEN {c.arg} ELSE {}
           /\ UNCHANGED <<now, cfg, phase, starts, granted, clean>>

Return(p) ==
  LET c == calls[p]
  IN  /\ c.op # "none" /\ c.todo = <<>>
      /\ calls' = [calls EXCEPT ![p] = Idle]
      /\ phase' = CASE c.op = "init" /\ ~c.err -> "serving"
                    [] c.op = "cleanup" \/ (c.op = "init" /\ c.err) -> "down"
                    [] OTHER -> phase
      /\ clean' = (clean \/ (c.op = "cleanup" /\ ~c.err))
      /\ granted' = CASE c.op = "init" -> {}
                      [] c.op = "revoke" /\ ~c.err /\ c.since /\ c.remote \notin doubtful ->
                           granted \ {c.remote}
                      [] OTHER -> granted
      /\ doubtful' = IF c.op = "init" THEN {} ELSE doubtful
      /\ UNCHANGED <<now, kernel, cfg, starts, faults>>

FirewallNext ==
  \/ Tick \/ NewProcess \/ Shutdown \/ Crash
  \/ \E r \in Remotes : AllowFirewall(r) \/ RevokeFirewall(r)
  \/ \E p \in Procs : Step(p) \/ Return(p)

FirewallSpec == FirewallInit /\ [][FirewallNext]_firewallVars
-----------------------------------------------------------------------------
\* A new connection of r passes INPUT: no rule sends it to the chain, the chain drops
\* nothing, or a rule of the chain that accepts r comes before its drops.
Enters(r) ==
  LET ch == kernel.chain[Family(r)]
      drops == {i \in DOMAIN ch : ch[i] = "drop"}
      accepts == {i \in DOMAIN ch : ch[i] = r \/ (ch[i] = "set" /\ kernel.member[r] > now)}
  IN  kernel.input[Family(r)].jump = 0 \/ drops = {} \/ \E i \in accepts : \A j \in drops : i < j

\* While the backend serves, a new connection gets to the protected port only from a
\* remote that was allowed since Init and whose rule no Revoke has reported as gone:
\* Init leaves nothing of an earlier process, whatever it died of, the chain always
\* ends in its drop, and Revoke removes what Allow has put there.  No member of the set
\* outlives the longer of AllowTTL and a second.  And UDP packets to the knock port are
\* dropped exactly when the configuration says so, for each address family.
OnlyAllowedEnter ==
  phase = "serving" =>
    /\ \A r \in Remotes : Family(r) \in Managed /\ Enters(r) => r \in granted
    /\ \A r \in Remotes : kernel.member[r] <= now + TTL \/ kernel.member[r] <= now + PerSecond
    /\ \A f \in Managed : (kernel.input[f].drop > 0) = cfg.drop

\* No step takes an access away while the backend serves, except a Revoke for that
\* remote and the clock: renewal never leaves a gap, and commands for one remote do
\* not touch another.
AccessKept ==
  [][phase = "serving" /\ phase' = "serving" /\ now' = now =>
       \A r \in Remotes : Enters(r) /\ calls["timer"].remote # r => Enters(r)']_firewallVars

\* A Cleanup that reports no error has left no rule, chain, set or member, although
\* the handler and a timer may still have been at work.
CleanupLeavesNothing == clean /\ phase = "down" => kernel = Empty
=============================================================================
