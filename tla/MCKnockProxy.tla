---------------------------- MODULE MCKnockProxy ----------------------------
EXTENDS KnockProxy, TLC

\* defaultConfig with the addresses it leaves open.
Good == [value |-> "good", file |-> ""]
Default ==
  [mode |-> "", unsupported |-> FALSE, serverOnly |-> FALSE, tcp |-> 443, upstream |-> 80,
   fwPort |-> 0, method |-> "", udpPort |-> 0, udpKnockPort |-> 0, udpListen |-> 0,
   removeAfterAuth |-> TRUE, removeFirst |-> "unset", maxConn |-> 1, maxFrame |-> 1024,
   maxParts |-> 8, length |-> 3, slot |-> 30, window |-> 5, seqWindow |-> 0,
   nonceTTL |-> 120, timeWindow |-> 30, timeWindowText |-> 0, authWindow |-> 30,
   nonceCache |-> 300, allow |-> 15, backend |-> "auto", script |-> FALSE,
   ipv6 |-> "unset", clients |-> <<[id |-> "c1", secret |-> Good]>>, serverAddr |-> 443,
   protectedPort |-> 0, udpServerAddr |-> 0, clientID |-> "c1", secret |-> Good]

Bad == {[value |-> v, file |-> f] : v \in {"", "good", "bad"}, f \in {"", "good", "bad"}}

Numbers ==
  ("fwPort" :> {443, 8443}) @@ ("tcp" :> {0, 65536}) @@ ("upstream" :> {0})
  @@ ("udpPort" :> {-1, 62201}) @@ ("udpKnockPort" :> {62202, 70000})
  @@ ("udpListen" :> {62201, 65536}) @@ ("maxConn" :> {-1, 0, 2})
  @@ ("maxFrame" :> {0, 27, 28, 65536}) @@ ("maxParts" :> {0, 1, 2, 9})
  @@ ("length" :> {0, 1, 8, 9}) @@ ("slot" :> {0, 4}) @@ ("window" :> {-1, 0, 119, 120})
  @@ ("seqWindow" :> {119, 120}) @@ ("nonceTTL" :> {0, 5, 6})
  @@ ("timeWindow" :> {0, 150}) @@ ("timeWindowText" :> {-1, 149, 150})
  @@ ("authWindow" :> {0, 149, 150, 200}) @@ ("nonceCache" :> {0, 1})
  @@ ("serverAddr" :> {0, 8443}) @@ ("protectedPort" :> {443, 70000})
  @@ ("udpServerAddr" :> {443, 62201, 70000})

Variants ==
  UNION {{n :> v : v \in Numbers[n]} : n \in DOMAIN Numbers}
  \cup {"mode" :> m : m \in {"server", "client"}}
  \cup {"unsupported" :> TRUE, "serverOnly" :> TRUE, "removeAfterAuth" :> FALSE,
        "clientID" :> "", "clients" :> <<>>}
  \cup {"method" :> m : m \in SYN \cup Passive \cup
          {"udp-seq", "udp-sequence", "udp-passive-sequence", "icmp"}}
  \cup {[udpListen |-> 62201, udpServerAddr |-> 62201]}
  \cup {"removeFirst" :> b : b \in {"yes", "no"}}
  \cup {"backend" :> b : b \in {"", "nftables", "ipset-iptables", "iptables", "noop"}}
  \cup {[backend |-> "script", script |-> b] : b \in BOOLEAN}
  \cup {"ipv6" :> e : e \in {"yes", "no"}} \cup {"secret" :> s : s \in Bad}
  \cup {"clients" :> <<[id |-> "c1", secret |-> Good], [id |-> i, secret |-> s]>> :
          i \in {"", "c1", "c2"}, s \in {Good, [value |-> "bad", file |-> ""]}}

\* Files that differ from the defaults in at most two places.
MCFiles == {v @@ w @@ Default : v \in Variants, w \in Variants}

MCToolboxes ==
  {{"nft"}, {"ipset", "iptables", "ip6tables"}, {"iptables", "ip6tables"}, {"iptables"}, {}}

\* Bound: two commands fail without need in a process, or one around a restart.
FewAccidents == faults + starts <= 3
=============================================================================
