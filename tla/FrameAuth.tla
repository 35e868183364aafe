----------------------------- MODULE FrameAuth -----------------------------
(***************************************************************************)
(* One frame from the client that builds it to the server that opens it:   *)
(* TCP frame v1, TCP envelope v2 (BuildEnvelopeV2 picks a size at random,  *)
(* authenticateEnvelopeV2 tries sizes and secrets until one opens), the    *)
(* UDP knock, and the packets that are sniffed: SYN knocks and the         *)
(* datagrams of the passive UDP listeners.                                 *)
(*                                                                         *)
(* An AEAD opens with the secret and the associated data it was sealed     *)
(* with and with no other; hints and hashes do not collide.  The           *)
(* configurations of both sides and the payload are inputs.                *)
(***************************************************************************)
EXTENDS WireCodec, SynPacket, FiniteSets

CONSTANTS
  Overhead,          \* of the AEAD
  PrefixSize, HintSize, HeaderSize,
  SupportedBuckets,  \* EnvelopeV2DefaultBuckets
  DefaultMaxSize,    \* DefaultMaxFrameSize, of frame v1 and knock
  NoSecret,          \* an empty secret
  Inputs             \* what clients, servers and payloads may be: a sequence of combinations

ASSUME SizesAssumption ==
  /\ {Overhead, PrefixSize, HintSize, HeaderSize, DefaultMaxSize} \subseteq Nat \ {0}
  /\ SupportedBuckets \subseteq 1..MaxUint(2) /\ DefaultMaxSize <= MaxUint(2)

VARIABLES
  client,    \* [fmt, hint, buckets, id, secret, port, fresh, foreign, packet]
  server,    \* [accept, hint, buckets, maxFrame, maxAttempts, resolver, secrets, port,
             \*  method, allowSequence]
  payload,   \* the fields
  frame,     \* what the client built: [size, plain]
  sent,      \* how many bytes reach the server, those after the frame included
  damaged,   \* the plaintext is not the client's
  pc,
  todo,      \* sizes and candidates not tried yet: a sequence of pairs
  attempts,
  consumed,  \* bytes taken from the stream
  result
vars == <<client, server, payload, frame, sent, damaged, pc, todo, attempts,
          consumed, result>>
inputs == <<client, server, payload>>
wire == <<frame, sent, damaged>>

NoFrame == [size |-> 0, plain |-> <<>>]
Fails(e) == [ok |-> FALSE, error |-> e]
Accepts(id, p) == [ok |-> TRUE, id |-> id, payload |-> p]

Init ==
  /\ \E i \in DOMAIN Inputs :
       \E c \in Inputs[i].clients, s \in Inputs[i].servers, p \in Inputs[i].payloads :
         client = c /\ server = s /\ payload = p
  /\ frame = NoFrame /\ sent = 0 /\ damaged = FALSE
  /\ pc = "config" /\ todo = <<>> /\ attempts = 0 /\ consumed = 0
  /\ result = Fails("none")

\* The server or the client is done with the frame.
Done(r) == pc' = "done" /\ result' = r
-----------------------------------------------------------------------------
\* WithDefaults: no sizes stand for all of them.
WithDefaults(bs) == IF bs = {} THEN SupportedBuckets ELSE bs
EnvelopeV2Buckets(bs) == SetToSortSeq(WithDefaults(bs) \cap SupportedBuckets, <)
Prefix(hint) == IF hint = "route-hint" THEN PrefixSize + HintSize ELSE PrefixSize

\* EnvelopeV2Config.Validate.
ValidEnvelope(cfg, max) ==
  \A b \in WithDefaults(cfg.buckets) : b \in SupportedBuckets /\ b <= max

staticCandidateCount == IF server.resolver = "map" THEN Len(server.secrets) ELSE 0

\* Mutant: the budget has to do for one size only.
AttemptCostOneBucket == staticCandidateCount
envelopeV2NoneAttemptCost ==
  staticCandidateCount * Cardinality({b \in WithDefaults(server.buckets) : b <= server.maxFrame})

\* ServerConfig.Validate, when the server is made.
Validate ==
  /\ pc = "config"
  /\ IF /\ server.maxFrame >= HeaderSize
        /\ "envelope" \in server.accept =>
             /\ ValidEnvelope(server, server.maxFrame)
             /\ server.hint = "none" => envelopeV2NoneAttemptCost <= server.maxAttempts
     THEN pc' = "build" /\ UNCHANGED result ELSE Done(Fails("config"))
  /\ UNCHANGED <<inputs, wire, todo, attempts, consumed>>
-----------------------------------------------------------------------------
\* A frame of this size is written, with nothing, one byte too few or a byte of
\* the application after it.
Written(size, plain) ==
  /\ frame' = [size |-> size, plain |-> plain]
  /\ sent' \in {size - 1, size, size + 1}
  /\ pc' = "wire" /\ UNCHANGED result
NotBuilt == Done(Fails("build")) /\ UNCHANGED <<frame, sent>>

BuildFrame ==
  LET plain == EncodePayload(payload)
      size  == HeaderSize + Len(plain.value) + Overhead
  IN  IF plain.ok /\ size <= DefaultMaxSize THEN Written(size, plain.value) ELSE NotBuilt

\* The sizes to choose from leave no room for the two bytes of the padding's
\* length: a choice that is too tight fails.
MinSize(plain) == Prefix(client.hint) + Len(plain) + Overhead
BuildEnvelopeV2 ==
  LET plain == EncodeEnvelopeV2Payload(payload)
      fits  == {b \in WithDefaults(client.buckets) : b >= MinSize(plain.value)}
  IN  IF /\ ValidEnvelope(client, Max(SupportedBuckets))
         /\ EnvelopeHead(payload) /\ plain.ok /\ fits # {}
      THEN \E b \in fits :
             LET padding == b - MinSize(plain.value) - 2
             IN  IF padding >= 0 THEN Written(b, Body(plain.value, padding)) ELSE NotBuilt
      ELSE NotBuilt

BuildKnockFrame ==
  LET plain == encodeKnockPayload(payload)
      size  == HeaderSize + Len(plain.value) + Overhead
  IN  IF /\ ~ShortSession(payload) /\ (SingleKnock(payload) \/ SequencePart(payload))
         /\ plain.ok /\ size <= DefaultMaxSize
      THEN Written(size, plain.value) ELSE NotBuilt

\* sendIPv4, sendIPv6 and the kernel: a SYN knock, or a segment or datagram of someone
\* else's, on an interface that frames packets or does not, maybe with bytes after it.
Link(p, v4) ==
  CASE p.link = "ethernet" -> p.macs \o U16(IF v4 THEN 2048 ELSE 34525)
    [] p.link = "vlan" -> p.macs \o U16(33024) \o U16(7) \o U16(IF v4 THEN 2048 ELSE 34525)
    [] p.link = "raw" -> <<>>
IPPacket(p, v4) ==
  CASE client.fmt = "syn" /\ v4 -> buildSYNPacket(p.src, p.dst, p.id, 50000, client.port, payload)
    [] client.fmt = "syn" /\ ~v4 -> buildSYNPacketIPv6(p.src, p.dst, 50000, client.port, payload)
    [] client.fmt = "segment" ->
         LET tcp == TCPHeader(p.flags, 50000, client.port, payload, 0)
         IN  (IF v4 THEN IPv4Header(p.id, 64, TCP, 32, 0, p.src, p.dst)
              ELSE IPv6Header(TCP, 64, 32, p.src, p.dst)) \o tcp
    [] client.fmt = "datagram" -> UDPPacket(p.src, p.dst, p.id, 64, client.port, payload)
SendPacket ==
  LET p  == client.packet
      v4 == Len(p.src) = 4
      bytes == Link(p, v4) \o IPPacket(p, v4) \o p.trailer
  IN  /\ frame' = [size |-> Len(bytes), plain |-> bytes] /\ sent' = Len(bytes)
      /\ pc' = "wire" /\ UNCHANGED result

Sniffed == {"syn", "segment", "datagram"}
Build ==
  /\ pc = "build"
  /\ \/ client.fmt = "frame" /\ BuildFrame
     \/ client.fmt = "envelope" /\ BuildEnvelopeV2
     \/ client.fmt = "knock" /\ BuildKnockFrame
     \/ client.fmt \in Sniffed /\ SendPacket
  /\ UNCHANGED <<inputs, damaged, todo, attempts, consumed>>

\* A client with an encoder of its own may get a byte wrong.
Damage ==
  /\ pc = "wire" /\ client.foreign /\ sent = frame.size
  /\ ~damaged /\ damaged' = TRUE
  /\ \E i \in DOMAIN frame.plain, b \in Byte :
       /\ b # frame.plain[i]
       /\ frame' = [frame EXCEPT !.plain[i] = b]
  /\ UNCHANGED <<inputs, sent, pc, todo, attempts, consumed, result>>
-----------------------------------------------------------------------------
\* A hint is made of the secret and the port, and of the kind of frame.
HintMatches(c, fmt) ==
  client.fmt = fmt /\ c.secret = client.secret /\ client.port = server.port
\* StaticSecrets and RotatingSecrets list the candidates by client id.
ResolveCandidates(fmt, hint) ==
  SelectSeq(server.secrets,
    LAMBDA c : c.secret # NoSecret /\ (hint = "none" \/ HintMatches(c, fmt)))

\* Where a payload has the hash of the client's id and the port.
HashField == [frame |-> 1, envelope |-> 4, knock |-> 2]
PortField == [frame |-> 3, envelope |-> 5, knock |-> 5]

\* The AEAD opens, the payload p decodes and its hash is that of the candidate's id.
Opens(c, fmt, p) ==
  /\ HintMatches(c, fmt) /\ c.id = client.id
  /\ p.ok /\ p.value[HashField[fmt]] = payload[HashField[fmt]]

\* validatePeerCommon: the decoded port, clock and nonce.
PeerResult(c, p) ==
  IF Uint(p[PortField[client.fmt]]) = server.port /\ client.fresh
  THEN Accepts(c.id, p) ELSE Fails("peer")

\* authenticateFrameV1 with ReadFrame.
authenticateFrameV1 ==
  LET p    == DecodePayload(frame.plain)
      open == SelectSeq(ResolveCandidates("frame", "route-hint"), LAMBDA c : Opens(c, "frame", p))
      good == /\ client.fmt = "frame" /\ frame.size <= server.maxFrame /\ sent >= frame.size
              /\ open # <<>>
  IN  /\ Done(IF good THEN PeerResult(open[1], p.value) ELSE Fails("frame"))
      /\ consumed' = IF good THEN frame.size ELSE consumed
      /\ UNCHANGED todo

\* authenticateEnvelopeV2 up to its loops: the sizes in ascending order, and for
\* each of them every candidate.
StartEnvelope ==
  LET cs == ResolveCandidates("envelope", server.hint)
      bs == SelectSeq(EnvelopeV2Buckets(server.buckets),
                      LAMBDA b : b <= server.maxFrame /\ b >= Prefix(server.hint) + Overhead)
  IN  CASE sent < Prefix(server.hint) -> Done(Fails("short")) /\ UNCHANGED todo
        [] sent >= Prefix(server.hint) /\ cs = <<>> ->
             Done(Fails("unknown")) /\ UNCHANGED todo
        [] sent >= Prefix(server.hint) /\ cs # <<>> /\ server.hint = "none"
             /\ Len(cs) > server.maxAttempts -> Done(Fails("too many")) /\ UNCHANGED todo
        [] OTHER ->
             /\ todo' = FlattenSeq([i \in DOMAIN bs |->
                          [j \in DOMAIN cs |-> <<bs[i], cs[j]>>]])
             /\ pc' = "try" /\ UNCHANGED result

\* The first byte of a frame is its version, that of an envelope never is.
FirstByte == IF client.fmt = "frame" THEN {"version"} ELSE {"other"}

\* authenticateConfiguredProtocol: with both protocols the first byte tells.
Dispatch ==
  /\ pc = "wire" /\ client.fmt \in {"frame", "envelope"}
  /\ \/ server.accept = {"frame"} /\ authenticateFrameV1
     \/ server.accept = {"envelope"} /\ StartEnvelope /\ UNCHANGED consumed
     \/ /\ server.accept = {"frame", "envelope"}
        /\ \/ "version" \in FirstByte /\ authenticateFrameV1
           \/ "other" \in FirstByte /\ StartEnvelope /\ UNCHANGED consumed
  /\ UNCHANGED <<inputs, wire, attempts>>

\* Mutant: the prefix, which was only peeked at, is taken for read.
DiscardRest(b) == b - Prefix(server.hint)
Discard(b) == b

\* authenticateEnvelopeV2Candidate: the size is part of what is sealed.
OpensEnvelope(c, b) ==
  /\ frame.size = b /\ client.hint = server.hint
  /\ Opens(c, "envelope", OpenBody(frame.plain))

\* One candidate at one size.
Try ==
  LET b == todo[1][1]
      c == todo[1][2]
  IN  /\ pc = "try" /\ todo # <<>>
      /\ IF sent < b THEN Done(Fails("short")) /\ UNCHANGED <<attempts, consumed, todo>>
         ELSE IF attempts >= server.maxAttempts
         THEN Done(Fails("too many")) /\ UNCHANGED <<attempts, consumed, todo>>
         ELSE /\ attempts' = attempts + 1 /\ todo' = Tail(todo)
              /\ IF OpensEnvelope(c, b) THEN /\ consumed' = Discard(b)
                              /\ Done(PeerResult(c, OpenBody(frame.plain).value))
                 ELSE UNCHANGED <<pc, consumed, result>>
      /\ UNCHANGED <<inputs, wire>>

TriedAll ==
  /\ pc = "try" /\ todo = <<>> /\ Done(Fails("auth"))
  /\ UNCHANGED <<inputs, wire, todo, attempts, consumed>>

\* A listener takes its own method, or any, and parts only if it collects them.
TakesKnock(p) ==
  /\ server.method \in {<<>>, Method(p)}
  /\ p[1] = <<1>> \/ (server.allowSequence /\ SequencePart(p))

\* openKnockFrame: a packet is whole or not a frame.
openKnockFrame ==
  LET p    == decodeKnockPayload(frame.plain)
      open == SelectSeq(ResolveCandidates("knock", "route-hint"), LAMBDA c : Opens(c, "knock", p))
  IN  /\ pc = "wire" /\ client.fmt = "knock"
      /\ Done(IF /\ sent = frame.size /\ sent <= server.maxFrame /\ open # <<>>
                 /\ validateKnockFlags(KnockFlags(payload), p.value)
                 /\ TakesKnock(p.value)
              THEN PeerResult(open[1], p.value) ELSE Fails("knock"))
      /\ consumed' = sent
      /\ UNCHANGED <<inputs, wire, todo, attempts>>

\* What a sniffing listener makes of a packet.  The listener for SYN sequences reads
\* every SYN and compares the port itself.
Sniff ==
  LET r == IF client.fmt = "datagram" THEN parseUDPKnockDatagram(frame.plain, server.port)
           ELSE IF server.sequence THEN ToPort(parseSYNPacket(frame.plain), server.port)
           ELSE parseSYNKnock(frame.plain, server.port)
  IN  /\ pc = "wire" /\ client.fmt \in Sniffed
      /\ Done(IF r.ok THEN Accepts(r.src, r.data) ELSE Fails("no knock"))
      /\ consumed' = sent
      /\ UNCHANGED <<inputs, wire, todo, attempts>>

Next == Validate \/ Build \/ Damage \/ Dispatch \/ Try \/ TriedAll \/ openKnockFrame \/ Sniff

Spec == Init /\ [][Next]_vars
-----------------------------------------------------------------------------
\* A server accepts only what a client it knows has sealed for it, and takes the
\* payload for what the client said: method, session id and extensions arrive as
\* they were, whatever their lengths are, and the application gets its stream from
\* the byte after the frame on.
AuthenticOnly ==
  result.ok /\ client.fmt \notin Sniffed =>
    /\ \E i \in DOMAIN server.secrets : server.secrets[i] = [id |-> client.id, secret |-> client.secret]
    /\ result.id = client.id /\ client.fmt \in server.accept \cup {"knock"}
    /\ client.port = server.port /\ client.fresh
    /\ ~damaged => result.payload = payload
    /\ consumed = frame.size

\* A plaintext has one reading: what the decoder accepts is what the encoder writes
\* for it, also when the bytes are not the encoder's.
Canonical ==
  result.ok /\ client.fmt \notin Sniffed =>
    frame.plain =
      CASE client.fmt = "frame"    -> EncodePayload(result.payload).value
        [] client.fmt = "knock"    -> encodeKnockPayload(result.payload).value
        [] client.fmt = "envelope" ->
             LET plain == EncodeEnvelopeV2Payload(result.payload).value
             IN  plain \o SubSeq(frame.plain, Len(plain) + 1, Len(frame.plain))

\* The two sides agree, and as far as nobody checks it the server's budget is enough.
Known == {i \in DOMAIN server.secrets :
            server.secrets[i] = [id |-> client.id, secret |-> client.secret]}
Sharing == {i \in DOMAIN server.secrets : server.secrets[i].secret = client.secret}
Compatible ==
  /\ Known # {} /\ client.port = server.port /\ client.fresh
  /\ ~damaged /\ sent >= frame.size
  /\ CASE client.fmt = "frame" -> "frame" \in server.accept /\ frame.size <= server.maxFrame
       [] client.fmt = "knock" ->
            /\ sent = frame.size /\ frame.size <= server.maxFrame
            /\ server.method \in {<<>>, Method(payload)}
            /\ payload[1] = <<2>> => server.allowSequence
       [] client.fmt = "envelope" ->
            /\ "envelope" \in server.accept /\ client.hint = server.hint
            /\ WithDefaults(client.buckets) \subseteq WithDefaults(server.buckets)
            /\ server.resolver = "map"
            /\ server.hint = "route-hint" =>
                 Cardinality(Sharing) * Cardinality(WithDefaults(server.buckets))
                   <= server.maxAttempts

\* A client the server knows, that agrees with it on protocol, port, hint mode, sizes
\* and knock method, is accepted whatever size it picks and whoever else the server knows: the
\* budget that ServerConfig.Validate checks for "none" is enough.  With route hints
\* nothing checks it, and the sizes have to fit it.
CompatibleAccepted ==
  pc = "done" /\ client.fmt \notin Sniffed /\ frame # NoFrame /\ Compatible => result.ok

WordSum(s) == FoldFunction(+, 0, [i \in 1..(Len(s) \div 2) |-> U16At(s, 2 * i - 2)])

\* A SYN knock is a valid segment, which stacks and routers do not drop: the words that
\* its header checksum and its TCP checksum cover add up to all ones, however many
\* carries the sums have.
ValidSegment ==
  client.fmt = "syn" /\ pc = "done" =>
    LET p  == client.packet
        v4 == Len(p.src) = 4
        ip == Slice(frame.plain, Len(Link(p, v4)), Len(frame.plain) - Len(p.trailer))
    IN  /\ v4 => WordSum(Slice(ip, 0, 20)) % 65535 = 0
        /\ WordSum(p.src \o p.dst \o <<0, TCP, 0, 32>> \o From(ip, IF v4 THEN 20 ELSE 40))
             % 65535 = 0

TypeLike ==
  client.packet.link = "raw" /\ U16At(frame.plain, 12) \in {2048, 34525, 33024, 34984}

\* An IPv4 packet in which an IPv6 header can be read at some offset, with the
\* listener's port where that one's payload would have it.
HoldsIPv6 ==
  LET s == frame.plain
      proto == IF client.fmt = "datagram" THEN UDP ELSE TCP
  IN  /\ Len(client.packet.src) = 4
      /\ \E i \in 0..(Min({64, Len(s) - 4}) - 40) :
           LooksIPv6(s, i, proto) /\ U16At(s, i + 42) = server.port

\* A sniffing listener reads of a packet what its sender put in, source, fields and
\* payload, wherever the IP header is, whatever follows the packet and although each
\* packet is tried as IPv6 first; and it reads nothing in a packet for another port or
\* in a segment that is not a connection's first.  It can be wrong about two kinds of
\* packets: those without a link header whose bytes 12 and 13, part of the source
\* address, are an EtherType, and IPv4 packets whose lengths and payload make up an
\* IPv6 header and the port.
SniffedIntact ==
  pc = "done" /\ client.fmt \in Sniffed /\ ~TypeLike /\ ~HoldsIPv6 =>
    IF client.port = server.port /\ (client.fmt = "segment" => OpensConnection(client.packet.flags))
    THEN result = Accepts(client.packet.src, payload) ELSE ~result.ok
=============================================================================
