---------------------------- MODULE MCFrameAuth ----------------------------
(* FrameAuth for TLC: every field length that can be said with a byte of   *)
(* six values, and one more, between a client and a server that agree;     *)
(* every pair of configurations, for a few payloads; and sniffed packets   *)
(* on three kinds of interface.                                            *)
EXTENDS FrameAuth

CONSTANTS k1, k2
Port == 1
Bytes(n, b) == [i \in 1..n |-> b]

\* Fields of n bytes for n up to one too many for their prefix.
Short == {<<>>, <<0>>, <<2>>, Bytes(2, 1), Bytes(5, 1), <<0, 1, 0, 0, 0, 0>>}
Long == {<<>>, <<1>>, Bytes(6, 2), Bytes(36, 0)}
FramePayloads ==
  {<<<<1>>, <<2>>, PutUint(Port, 2), m, s, e>> : m \in Short, s \in Short, e \in Long}
EnvelopePayloads == {<<<<2>>, <<f>>>> \o p : f \in {0, 1, 2}, p \in FramePayloads}
TLVs ==
  {<<>>} \cup {<<<<<<0, 1>>, v>>>> : v \in Long}
    \cup {<<<<<<2, 1>>, <<>>>>, <<<<1, 0>>, v>>>> : v \in {<<>>, <<2>>}}
\* Type, sequence id, index and total.
Numbers ==
  [t : {1}, q : {<<>>}, i : {0}, n : {0}]
    \cup [t : {2}, q : {<<>>, <<1>>, <<1, 1>>}, i : {1, 2}, n : {2, 5}]
KnockPayloads ==
  {<<<<k.t>>, <<1>>, <<2>>, m, PutUint(Port, 2), s, k.q, <<k.i>>, <<k.n>>, <<0>>, e>> :
     k \in Numbers, m \in {<<>>, <<3>>, Bytes(6, 1)}, s \in Short, e \in TLVs}

Secret(id, k) == [id |-> id, secret |-> k]
Client(fmt, hint, bs) ==
  [fmt |-> fmt, hint |-> hint, buckets |-> bs, id |-> 1, secret |-> k1, port |-> Port,
   fresh |-> TRUE, foreign |-> FALSE]
Server(accept, hint, bs, max, tries, resolver, secrets) ==
  [accept |-> accept, hint |-> hint, buckets |-> bs, maxFrame |-> max, port |-> Port,
   maxAttempts |-> tries, resolver |-> resolver, secrets |-> secrets,
   method |-> <<>>, allowSequence |-> TRUE]

Inputs3(cs, ss, ps) == [clients |-> cs, servers |-> ss, payloads |-> ps]
CodecInput(fmt, ps) ==
  Inputs3({[Client(fmt, "route-hint", {32}) EXCEPT !.foreign = TRUE]},
          {Server({"frame", "envelope"}, "route-hint", {32}, 32, 1, "map", <<Secret(1, k1)>>)}, ps)

Hints == {"none", "route-hint"}
Sizes == {{16}, {22}, {16, 18}, {16, 18, 22}}
Secrets ==
  {<<Secret(1, k1)>>, <<Secret(1, k2), Secret(1, k1)>>, <<Secret(1, k2)>>,
   <<Secret(1, k1), Secret(2, k1)>>, <<Secret(0, k1), Secret(1, k1), Secret(2, NoSecret)>>}
Payload(fmt, port, n) ==
  LET p == <<<<1>>, <<2>>, PutUint(port, 2), <<>>, Bytes(n, 1), <<>>>>
  IN  IF fmt = "frame" THEN p ELSE <<<<2>>, <<1>>>> \o p
Agreeing(fmt) ==
  {Client(fmt, h, bs) : h \in Hints, bs \in Sizes \cup {{}}}
    \cup {[Client(fmt, "none", {22}) EXCEPT !.fresh = FALSE]}
Elsewhere(fmt) == {[Client(fmt, "none", {22}) EXCEPT !.port = 2]}
Servers ==
  {Server(a, h, bs, m, n2, r, ks) :
     a \in {{"frame"}, {"envelope"}, {"frame", "envelope"}}, h \in Hints,
     bs \in Sizes, m \in {18, 22}, n2 \in {1, 2, 6}, r \in {"map", "custom"}, ks \in Secrets}
   \cup {Server({"envelope"}, h, {}, m, n2, "map", ks) :
           h \in Hints, m \in {22, 32}, n2 \in {2, 6, 9}, ks \in Secrets}
ConfigInput(fmt, cs, port) == Inputs3(cs, Servers, {Payload(fmt, port, n) : n \in {0, 1}})
KnockInput ==
  Inputs3({Client("knock", "route-hint", {})},
          {[Server({}, "route-hint", {}, 32, 1, "map", ks) EXCEPT !.method = m, !.allowSequence = b] :
             ks \in Secrets, m \in {<<>>, <<3>>, <<4>>}, b \in BOOLEAN},
          {p \in KnockPayloads : Method(p) = <<3>> /\ SessionID(p) = <<>>})

\* Addresses, one of which has 0x0800 in its bytes 4 and 5; lengths for which the
\* length, the protocol and the TTL of IPv4 look like an IPv6 header, with the port in
\* the payload or not; and an id and a sequence number for which the checksum's
\* carry has a carry.
Macs == {<<2, 66, 172, 17, 0, 2, 2, 66, 172, 17, 0, 3>>, <<96, 7, 1, 2, 0, 20, 6, 5, 6, 7, 8, 9>>}
V4 == {<<192, 0, 2, 1>>, <<104, 6, 6, 17>>, <<8, 0, 6, 1>>}
V6 == {<<32, 1, 13, 184, 8, 0>> \o Bytes(9, 0) \o <<1>>, <<32, 1, 13, 184>> \o Bytes(12, 255)}
Packet(l, mac, s, id, fl, t) ==
  [link |-> l, macs |-> mac, src |-> s, dst |-> s, id |-> id, flags |-> fl, trailer |-> t]
Links == {"ethernet", "vlan", "raw"}
Mac == CHOOSE mac \in Macs : mac[1] = 2
Packets(fmt) ==
  IF fmt = "segment"
  THEN {Packet(l, Mac, s, 0, fl, <<>>) : l \in Links, s \in V4 \cup V6, fl \in {2, 4, 16, 18, 194}}
  ELSE {Packet(l, mac, s, id, 2, t) : l \in Links, mac \in Macs, s \in V4 \cup V6,
          id \in {0, 24582, 63171}, t \in {<<>>, Bytes(4, 0)}}
Fields ==
  {[sequence |-> sq, window |-> <<250, 240>>, timestamp |-> <<69, 0, 0, 20>>] :
     sq \in {Bytes(4, 0), <<96, 0, 6, 17>>, <<237, 187, 0, 0>>}}
Carried(fmt) ==
  IF fmt = "datagram"
  THEN {Bytes(n, 255) : n \in {0, 1, 30, 71, 79, 80, 83}}
         \cup {[Bytes(80, 255) EXCEPT ![18] = 1, ![19] = 187, ![20] = 0, ![21] = n] : n \in {8, 90}}
  ELSE Fields
Sniffer(port, sequence) ==
  [accept |-> {}, maxFrame |-> 32, sequence |-> sequence, port |-> port]
PacketInput(fmt) ==
  Inputs3({[fmt |-> fmt, port |-> q, foreign |-> FALSE, packet |-> p] :
             q \in {443, 80}, p \in Packets(fmt)},
          {Sniffer(443, b) : b \in BOOLEAN}, Carried(fmt))
MCInputs ==
  <<CodecInput("frame", FramePayloads), CodecInput("envelope", EnvelopePayloads),
    CodecInput("knock", KnockPayloads), KnockInput,
    ConfigInput("frame", Agreeing("frame"), Port), ConfigInput("frame", Elsewhere("frame"), 2),
    ConfigInput("envelope", Agreeing("envelope"), Port),
    ConfigInput("envelope", Elsewhere("envelope"), 2),
    PacketInput("syn"), PacketInput("segment"), PacketInput("datagram")>>
=============================================================================
