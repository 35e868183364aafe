----------------------------- MODULE KnockProxy -----------------------------
(***************************************************************************)
(* The knock-proxy command (cmd/knock-proxy): from a configuration file to *)
(* the parameters of the relay gateway, of the client and of the firewall  *)
(* backend, which then runs as in FirewallBackend.                         *)
(*                                                                         *)
(* A file is a record; 0 is a number that is not set, durations are in     *)
(* seconds and an address is its port.  One file holds the sections of the *)
(* server and of the client, as fileConfig does.                           *)
(***************************************************************************)
EXTENDS FirewallBackend

CONSTANTS
  Files,       \* configuration files
  Toolboxes,   \* sets of installed commands
  MaxParts,    \* knock.DefaultSequenceMaxParts
  HeaderSize,  \* knock.KnockFrameHeaderSize
  NoFile       \* no file

Secrets == [value : STRING, file : STRING]

\* fileConfig: a field is a number, a text or a flag, and the clients are a list.
ASSUME FilesAssumption ==
  /\ MaxParts \in Nat /\ HeaderSize \in Nat /\ NoFile \notin Files
  /\ \A c \in Files :
       /\ \A n \in {"tcp", "upstream", "fwPort", "udpPort", "udpKnockPort", "udpListen",
                    "maxConn", "maxFrame", "maxParts", "length", "slot", "window",
                    "seqWindow", "nonceTTL", "timeWindow", "timeWindowText", "authWindow",
                    "nonceCache", "allow", "serverAddr", "protectedPort", "udpServerAddr"} :
            c[n] \in Int
       /\ \A n \in {"mode", "method", "removeFirst", "backend", "ipv6", "clientID"} :
            c[n] \in STRING
       /\ \A n \in {"unsupported", "serverOnly", "removeAfterAuth", "script"} :
            c[n] \in BOOLEAN
       /\ c.secret \in Secrets /\ c.clients \in Seq([id : STRING, secret : Secrets])

VARIABLE
  file         \* the file, until the process starts; then NoFile

proxyVars == <<firewallVars, file>>

SYN == {"tcp-syn", "tcp-syn-seq"}
Passive == {"udp-passive", "udp-passive-seq"}
isKnockMethod(m) == m \in SYN \cup Passive \cup {"udp", "udp-seq"}

defaultInt(v, d) == IF v = 0 THEN d ELSE v
defaultString(v, d) == IF v = "" THEN d ELSE v
isPort(p) == 0 <= p /\ p <= 65535
splitHostPort(p) == 1 <= p /\ p <= 65535

normalizeKnockMethod(m) ==
  CASE m = "udp-sequence" -> "udp-seq" [] m = "udp-passive-sequence" -> "udp-passive-seq"
    [] OTHER -> m

\* loadConfig refuses negative numbers; durations given as text are not among them.
validateNonNegativeConfig(c) ==
  \A n \in {"protectedPort", "maxConn", "maxFrame", "maxParts", "udpPort", "udpKnockPort",
            "timeWindow", "length", "slot", "authWindow", "nonceCache", "fwPort", "allow"} :
    c[n] >= 0

\* A secret is given in the file or in a file of its own, and is long enough.
parseSecret(s) ==
  <<s.value, s.file>> \in {<<"good", "">>, <<"", "good">>}

knockTimeWindow(c) ==
  [ok |-> c.timeWindowText >= 0, window |->
     IF c.timeWindowText # 0 THEN c.timeWindowText ELSE defaultInt(c.timeWindow, 30)]

knockMaxFrameSize(c) ==
  LET max == defaultInt(c.maxFrame, 1024)
  IN  [ok |-> HeaderSize <= max /\ max <= 65535, max |-> max]

\* sequenceOptions: the part count, the window and the lifetime of a nonce.
sequenceOptions(c) ==
  LET max == defaultInt(c.maxParts, MaxParts)
      length == defaultInt(c.length, 3)
      slot == defaultInt(c.slot, 30)
      window == defaultInt(defaultInt(c.seqWindow, c.window), 5)
      nonceTTL == defaultInt(c.nonceTTL, 120)
  IN  [ok |-> max \in 2..MaxParts /\ length \in 2..max /\ slot >= 5 /\ nonceTTL > window,
       max |-> max, length |-> length, slot |-> slot, window |-> window,
       nonceTTL |-> nonceTTL]

\* Mutant: the port of the socket is not taken from udp_listen.
resolveUDPListenPort(c) ==
  LET port == defaultInt(defaultInt(c.udpKnockPort, c.udpPort), c.tcp)
  IN  [ok |-> isPort(port), port |-> port, listen |-> port]

\* resolveUDPListen: the UDP knock socket, and the knock port.
resolveUDPListen(c) ==
  LET given == defaultInt(c.udpKnockPort, c.udpPort)
      port == defaultInt(given, defaultInt(c.udpListen, c.tcp))
  IN  [ok |-> isPort(given) /\ (c.udpListen # 0 => splitHostPort(c.udpListen)),
       port |-> port, listen |-> defaultInt(c.udpListen, port)]

removeAfterAuth(c) ==
  IF c.removeFirst = "unset" THEN c.removeAfterAuth ELSE c.removeFirst = "yes"

\* The clients of auth.clients: distinct, with secrets.
validClients(cs) ==
  /\ cs # <<>> /\ \A i \in DOMAIN cs : cs[i].id # "" /\ parseSecret(cs[i].secret)
  /\ \A i, j \in DOMAIN cs : cs[i].id = cs[j].id => i = j

\* serverRuntime.  unsupported stands for the options of the full product that both
\* sides refuse, serverOnly for those that the server refuses: max_connections of a
\* client, another default_action than drop, metrics.
serverRuntime(c) ==
  LET port == defaultInt(c.fwPort, c.tcp)
      method == normalizeKnockMethod(defaultString(c.method, "udp"))
      udp == resolveUDPListen(c)
      seq == sequenceOptions(c)
      uses == defaultInt(c.maxConn, 1)
  IN  [ok |-> /\ c.mode \in {"", "server"} /\ ~c.unsupported /\ ~c.serverOnly
              /\ validateNonNegativeConfig(c)
              /\ splitHostPort(c.tcp) /\ splitHostPort(c.upstream) /\ port = c.tcp
              /\ isKnockMethod(method) /\ udp.ok /\ seq.ok
              /\ knockTimeWindow(c).ok /\ knockMaxFrameSize(c).ok /\ validClients(c.clients)
              /\ ~(removeAfterAuth(c) /\ uses > 1),
       port |-> port, method |-> method, knockListen |-> udp.listen, knockPort |-> udp.port,
       sequence |-> seq, timeWindow |-> knockTimeWindow(c).window,
       maxFrame |-> knockMaxFrameSize(c).max, allowTTL |-> defaultInt(c.allow, 15),
       authWindow |-> defaultInt(c.authWindow, 30),
       nonceCache |-> defaultInt(c.nonceCache, 300),
       removeAfterAuth |-> removeAfterAuth(c), maxConn |-> uses,
       drop |-> method \in Passive, backend |-> defaultString(c.backend, "auto")]

\* buildServer on a host with these commands: firewall.New for the runtime's settings.
buildServer(c, tools) ==
  LET rt == serverRuntime(c) IN New(rt.backend, tools, c.ipv6, rt.drop, c.script)

\* ValidateDropUDPKnockPort, when the gateway runs: dropped packets need a sniffer.
ValidateDropUDPKnockPort(backend, method) == backend.drop => method \in Passive

\* Where the server takes knocks from (listenKnock): the protected port for SYN
\* knocks, the sniffed port or the socket for UDP.
KnockSocket(rt) ==
  CASE rt.method \in SYN -> rt.port [] rt.method \in Passive -> rt.knockPort
    [] OTHER -> rt.knockListen

\* clientRuntime: the port that is authenticated for, and the one UDP knocks go to.
clientRuntime(c) ==
  LET udp == defaultInt(c.udpKnockPort, c.udpPort)
      method == normalizeKnockMethod(defaultString(c.method, "udp"))
      port == IF c.protectedPort > 0 THEN c.protectedPort ELSE c.serverAddr
  IN  [ok |-> /\ c.mode \in {"", "client"} /\ ~c.unsupported /\ validateNonNegativeConfig(c)
              /\ splitHostPort(c.serverAddr) /\ splitHostPort(port)
              /\ (c.udpServerAddr # 0 => splitHostPort(c.udpServerAddr)) /\ isPort(udp)
              /\ isKnockMethod(method) /\ c.clientID # "" /\ parseSecret(c.secret)
              /\ sequenceOptions(c).ok /\ knockTimeWindow(c).ok /\ knockMaxFrameSize(c).ok,
       method |-> method, sequence |-> sequenceOptions(c), port |-> port,
       timeWindow |-> knockTimeWindow(c).window, maxFrame |-> knockMaxFrameSize(c).max,
       serverAddr |-> c.serverAddr,
       udpServerAddr |-> IF udp > 0 THEN udp ELSE defaultInt(c.udpServerAddr, c.serverAddr)]

\* buildClient: UDP knocks have an address of their own.
buildClient(c) ==
  LET rt == clientRuntime(c)
  IN  [runtime |-> rt,
       knockAddr |-> IF rt.method \in SYN THEN rt.serverAddr ELSE rt.udpServerAddr]
-----------------------------------------------------------------------------
\* The command starts with a file that it accepts on this host, and keeps of it what
\* the backend needs.
ProxyInit ==
  /\ file \in {c \in Files : serverRuntime(c).ok}
  /\ \E tools \in Toolboxes :
       LET b == buildServer(file, tools)
       IN  /\ b.backend # "none"
           /\ ValidateDropUDPKnockPort(b, serverRuntime(file).method)
           /\ cfg = b
  /\ FirewallInit

ProxyNext == FirewallNext /\ file' = IF NewProcess THEN NoFile ELSE file

ProxySpec == ProxyInit /\ [][ProxyNext]_proxyVars
-----------------------------------------------------------------------------
\* The operator gave both sides the same addresses: the client's server address is
\* the listen address, an address for UDP knocks is one the client can parse, and the
\* client can tell the port of the knock socket.
AddressesAgree(c) ==
  LET udp == defaultInt(c.udpKnockPort, c.udpPort)
  IN  /\ c.serverAddr = c.tcp /\ c.protectedPort \in {0, c.tcp}
      /\ c.udpServerAddr # 0 => splitHostPort(c.udpServerAddr)
      /\ c.udpListen # 0 => c.udpListen = defaultInt(udp, c.udpServerAddr)
      /\ c.udpListen = 0 /\ udp = 0 => c.udpServerAddr \in {0, c.tcp}

\* A client and a server that read the same file meet: if the client's own section is
\* filled in, buildClient accepts the file, the client knocks at the port the server
\* listens at or sniffs, by the same method and with the same parts, window and frame
\* size, and authenticates for the protected port.
ClientMeetsServer ==
  /\ file # NoFile /\ file.mode = "" /\ AddressesAgree(file)
  /\ file.clientID # "" /\ parseSecret(file.secret)
  => LET s == serverRuntime(file)
         client == buildClient(file)
         c == client.runtime
     IN  /\ c.ok /\ c.method = s.method /\ c.sequence = s.sequence
         /\ client.knockAddr = KnockSocket(s) /\ c.port = s.port
         /\ c.timeWindow = s.timeWindow /\ c.maxFrame = s.maxFrame
=============================================================================
