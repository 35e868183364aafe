----------------------------- MODULE SynPacket -----------------------------
(***************************************************************************)
(* Packets as the SYN senders write them and the sniffing listeners read   *)
(* them (knock/syn_packet.go, knock/udp_passive_parse.go), byte by byte:   *)
(* the listener gets whatever is on the wire, with a link header or none,  *)
(* and has to find the IP header by itself.                                *)
(*                                                                         *)
(* Offsets count from 0, as in the source.  Numbers that are only copied   *)
(* (sequence number, window, timestamp) stay the bytes they are.           *)
(***************************************************************************)
EXTENDS Integers, FiniteSetsExt, SequencesExt

TCP == 6
UDP == 17
ACK == 16
SYNFlag == 2
RST == 4

U16(n) == <<n \div 256, n % 256>>
U32(n) == U16(n \div 65536) \o U16(n % 65536)
At(s, i) == s[i + 1]
U16At(s, i) == 256 * At(s, i) + At(s, i + 1)
From(s, i) == SubSeq(s, i + 1, Len(s))
Slice(s, i, j) == SubSeq(s, i + 1, j)
HasFlag(b, f) == (b \div f) % 2 = 1

Words(s) ==
  [i \in 1..((Len(s) + 1) \div 2) |->
     256 * s[2 * i - 1] + IF 2 * i <= Len(s) THEN s[2 * i] ELSE 0]
AddCarry(sum) == (sum % 65536) + (sum \div 65536)

\* Mutant: the carry is added in once.
AddCarriesOnce(sum) == AddCarry(sum) % 65536
RECURSIVE AddCarries(_)
AddCarries(sum) == IF sum \div 65536 = 0 THEN sum ELSE AddCarries(AddCarry(sum))

\* The Internet checksum: the complement of the sum of 16-bit words, in which carries
\* are added back until none is left.
checksum(s) == 65535 - AddCarries(FoldLeft(+, 0, Words(s)))

\* The pseudo-headers; their fields are as wide as the checksum needs them.
PseudoIPv4(src, dst, n) == src \o dst \o <<0, TCP>> \o U16(n)
PseudoIPv6(src, dst, n) == src \o dst \o U32(n) \o U32(TCP)
tcpChecksum(src, dst, tcp) == checksum(PseudoIPv4(src, dst, Len(tcp)) \o tcp)
tcpChecksumIPv6(src, dst, tcp) == checksum(PseudoIPv6(src, dst, Len(tcp)) \o tcp)

\* A TCP header with the timestamp option; the fields are carried by sequence number,
\* window and timestamp.
TCPHeader(flags, sport, dport, fields, sum) ==
  U16(sport) \o U16(dport) \o fields.sequence \o U32(0) \o <<128, flags>>
  \o fields.window \o U16(sum) \o <<0, 0, 1, 1, 8, 10>> \o fields.timestamp \o U32(0)
SYNHeader(sport, dport, fields, sum) == TCPHeader(SYNFlag, sport, dport, fields, sum)

IPv4Header(id, ttl, proto, n, sum, src, dst) ==
  <<69, 0>> \o U16(20 + n) \o U16(id) \o <<0, 0, ttl, proto>> \o U16(sum) \o src \o dst
IPv6Header(proto, ttl, n, src, dst) ==
  <<96, 0, 0, 0>> \o U16(n) \o <<proto, ttl>> \o src \o dst

buildSYNPacket(src, dst, id, sport, dport, fields) ==
  LET ip  == checksum(IPv4Header(id, 64, TCP, 32, 0, src, dst))
      tcp == tcpChecksum(src, dst, SYNHeader(sport, dport, fields, 0))
  IN  IPv4Header(id, 64, TCP, 32, ip, src, dst) \o SYNHeader(sport, dport, fields, tcp)

buildSYNPacketIPv6(src, dst, sport, dport, fields) ==
  LET tcp == tcpChecksumIPv6(src, dst, SYNHeader(sport, dport, fields, 0))
  IN  IPv6Header(TCP, 64, 32, src, dst) \o SYNHeader(sport, dport, fields, tcp)

\* A datagram as a kernel sends it.
UDPPacket(src, dst, id, ttl, dport, payload) ==
  LET udp == U16(40000) \o U16(dport) \o U16(8 + Len(payload)) \o <<0, 0>> \o payload
  IN  IF Len(src) = 4 THEN IPv4Header(id, ttl, UDP, Len(udp), 0, src, dst) \o udp
      ELSE IPv6Header(UDP, ttl, Len(udp), src, dst) \o udp
-----------------------------------------------------------------------------
\* The header of a version at offset i: found by looks.
LooksIPv4(s, i, proto) ==
  /\ At(s, i) \div 16 = 4 /\ At(s, i) % 16 >= 5 /\ At(s, i + 9) = proto
  /\ U16At(s, i + 2) >= 20 /\ i + U16At(s, i + 2) <= Len(s)
LooksIPv6(s, i, proto) ==
  /\ At(s, i) \div 16 = 6 /\ At(s, i + 6) = proto
  /\ U16At(s, i + 4) >= 8 /\ i + 40 + U16At(s, i + 4) <= Len(s)

\* By its type an Ethernet frame, with or without a VLAN tag, says where the header
\* is; else the first 64 bytes are searched.
Offset(s, type, found) ==
  LET ether == IF Len(s) >= 14 THEN U16At(s, 12) ELSE 0
  IN  IF ether = type THEN 14
      ELSE IF ether \in {33024, 34984} /\ Len(s) >= 18 /\ U16At(s, 16) = type THEN 18
      ELSE IF found # {} THEN Min(found) ELSE -1
findIPv4OffsetForProtocol(s, proto) ==
  Offset(s, 2048, {i \in 0..(Min({64, Len(s)}) - 20) : LooksIPv4(s, i, proto)})
findIPv6OffsetForProtocol(s, proto) ==
  Offset(s, 34525, {i \in 0..(Min({64, Len(s)}) - 40) : LooksIPv6(s, i, proto)})

Nothing == [ok |-> FALSE]

\* Source and contents of the IP packet.  A total length that cannot be is ignored.
IPv4Contents(s, proto) ==
  LET off == findIPv4OffsetForProtocol(s, proto)
      ip  == From(s, off)
      ihl == 4 * (At(ip, 0) % 16)
      total == IF U16At(ip, 2) <= ihl \/ Len(ip) < U16At(ip, 2) THEN Len(ip) ELSE U16At(ip, 2)
  IN  IF off < 0 \/ Len(s) < off + 20 THEN Nothing
      ELSE IF ihl < 20 \/ Len(ip) < ihl \/ At(ip, 9) # proto THEN Nothing
      ELSE [ok |-> TRUE, src |-> Slice(ip, 12, 16), body |-> Slice(ip, ihl, total)]
IPv6Contents(s, proto, min) ==
  LET off == findIPv6OffsetForProtocol(s, proto)
      ip  == From(s, off)
      n   == U16At(ip, 4)
  IN  IF off < 0 \/ Len(s) < off + 40 THEN Nothing
      ELSE IF At(ip, 6) # proto \/ n < min \/ Len(ip) < 40 + n THEN Nothing
      ELSE [ok |-> TRUE, src |-> Slice(ip, 8, 24), body |-> Slice(ip, 40, 40 + n)]

\* The timestamp among the TCP options, <<>> when there is none.
RECURSIVE parseTimestamp(_)
parseTimestamp(opts) ==
  IF opts = <<>> \/ opts[1] = 0 THEN <<>>
  ELSE IF opts[1] = 1 THEN parseTimestamp(Tail(opts))
  ELSE IF Len(opts) < 2 THEN <<>>
  ELSE IF opts[2] < 2 \/ opts[2] > Len(opts) THEN <<>>
  ELSE IF opts[1] = 8 /\ opts[2] = 10 THEN Slice(opts, 2, 6)
  ELSE parseTimestamp(From(opts, opts[2]))

\* A SYN that is no answer and no reset.
OpensConnection(flags) == HasFlag(flags, SYNFlag) /\ ~HasFlag(flags, ACK) /\ ~HasFlag(flags, RST)

parseSYNFieldsFromTCP(tcp) ==
  LET n == 4 * (At(tcp, 12) \div 16)
      timestamp == parseTimestamp(Slice(tcp, 20, n))
  IN  IF Len(tcp) < 20 THEN Nothing
      ELSE IF ~OpensConnection(At(tcp, 13)) \/ n < 20 \/ Len(tcp) < n THEN Nothing
      ELSE IF timestamp = <<>> THEN Nothing
      ELSE [ok |-> TRUE, port |-> U16At(tcp, 2),
            fields |-> [sequence |-> Slice(tcp, 4, 8), window |-> Slice(tcp, 14, 16),
                        timestamp |-> timestamp]]

SYNOf(ip) ==
  LET syn == parseSYNFieldsFromTCP(ip.body)
  IN  IF ip.ok /\ syn.ok THEN [ok |-> TRUE, src |-> ip.src, port |-> syn.port, data |-> syn.fields]
      ELSE Nothing

parseSYNPacketIPv6(s) == SYNOf(IPv6Contents(s, TCP, 20))
parseSYNPacket(s) ==
  IF parseSYNPacketIPv6(s).ok THEN parseSYNPacketIPv6(s) ELSE SYNOf(IPv4Contents(s, TCP))

\* parseSYNKnock and parseSYNKnockIPv6: the same, for one port.
ToPort(r, port) == IF ~r.ok THEN Nothing ELSE IF r.port # port THEN Nothing ELSE r
parseSYNKnockIPv6(s, port) == ToPort(parseSYNPacketIPv6(s), port)
parseSYNKnock(s, port) ==
  IF parseSYNKnockIPv6(s, port).ok THEN parseSYNKnockIPv6(s, port)
  ELSE ToPort(SYNOf(IPv4Contents(s, TCP)), port)

parseUDPPayload(udp) ==
  IF Len(udp) < 8 THEN Nothing
  ELSE IF U16At(udp, 4) < 8 \/ U16At(udp, 4) > Len(udp) THEN Nothing
  ELSE [ok |-> TRUE, port |-> U16At(udp, 2), data |-> Slice(udp, 8, U16At(udp, 4))]

DatagramOf(ip) ==
  LET udp == parseUDPPayload(ip.body)
  IN  IF ip.ok /\ udp.ok THEN [ok |-> TRUE, src |-> ip.src, port |-> udp.port, data |-> udp.data]
      ELSE Nothing
parseUDPKnockIPv4(s, port) == ToPort(DatagramOf(IPv4Contents(s, UDP)), port)
parseUDPKnockIPv6(s, port) == ToPort(DatagramOf(IPv6Contents(s, UDP, 8)), port)

\* Mutant: a packet in which an IPv6 header is found is IPv6.
parseUDPKnockDatagramOnce(s, port) ==
  IF findIPv6OffsetForProtocol(s, UDP) >= 0 THEN parseUDPKnockIPv6(s, port)
  ELSE parseUDPKnockIPv4(s, port)
parseUDPKnockDatagram(s, port) ==
  IF parseUDPKnockIPv6(s, port).ok THEN parseUDPKnockIPv6(s, port)
  ELSE parseUDPKnockIPv4(s, port)
=============================================================================
