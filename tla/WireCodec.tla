----------------------------- MODULE WireCodec -----------------------------
(***************************************************************************)
(* The three plaintexts libknock seals, byte by byte: the payload of TCP   *)
(* frame v1 (protocol/frame.go), of TCP envelope v2                        *)
(* (protocol/envelope_v2.go) and of a UDP knock (knock/binary_frame.go),   *)
(* and the extensions inside it (internal/codec).                          *)
(*                                                                         *)
(* A payload is the sequence of its fields, a field the sequence of its    *)
(* bytes.  A byte has Base values, 256 in the code: a length that does not *)
(* fit its prefix is cut off as a Go conversion cuts it off.  Hashes and   *)
(* timestamps have FixedSize bytes, a session id SessionMin at least; a    *)
(* sequence has at most MaxParts parts.                                    *)
(***************************************************************************)
EXTENDS Integers, SequencesExt

CONSTANTS Base, FixedSize, SessionMin, MaxParts

ASSUME CodecAssumption ==
  /\ Base \in Nat \ {0, 1, 2} /\ FixedSize \in Nat /\ SessionMin \in Nat \ {0}
  /\ MaxParts \in 2..(Base - 1)

Byte == 0..(Base - 1)
MaxUint(w) == Base^w - 1
PutUint(n, w) == [i \in 1..w |-> (n \div Base^(w - i)) % Base]
Uint(s) == FoldLeft(LAMBDA n, b : n * Base + b, 0, s)

\* A field of n bytes, and one that follows its length in w bytes.
Fixed(n) == [prefix |-> 0, size |-> n]
Var(w) == [prefix |-> w, size |-> 0]

FrameLayout == <<Fixed(FixedSize), Fixed(FixedSize), Fixed(2), Var(1), Var(1), Var(2)>>
EnvelopeLayout ==
  <<Fixed(1), Fixed(1), Fixed(FixedSize), Fixed(FixedSize), Fixed(2), Var(1), Var(1),
    Var(2)>>
KnockLayout ==
  <<Fixed(1), Fixed(FixedSize), Fixed(FixedSize), Var(1), Fixed(2), Var(1), Var(1),
    Fixed(1), Fixed(1), Var(1), Var(2)>>
TLVLayout == <<Fixed(2), Var(2)>>
-----------------------------------------------------------------------------
\* BinaryWriter and bytes.Buffer: the fields one after another.
Write(layout, fields) ==
  FlattenSeq([i \in DOMAIN layout |->
    PutUint(Len(fields[i]), layout[i].prefix) \o fields[i]])

\* The encoders refuse a field that is longer than its prefix can say.
Fits(layout, fields) ==
  \A i \in DOMAIN layout :
    layout[i].prefix > 0 => Len(fields[i]) <= MaxUint(layout[i].prefix)

\* BinaryReader: a field is read from what remains, unless too little does.
ReadField(r, f) ==
  LET n == IF f.prefix = 0 THEN f.size ELSE Uint(SubSeq(r.rest, 1, f.prefix))
  IN  IF ~r.ok \/ Len(r.rest) < f.prefix \/ Len(r.rest) < f.prefix + n
      THEN [r EXCEPT !.ok = FALSE]
      ELSE [ok     |-> TRUE,
            fields |-> Append(r.fields, SubSeq(r.rest, f.prefix + 1, f.prefix + n)),
            rest   |-> SubSeq(r.rest, f.prefix + n + 1, Len(r.rest))]
ReadFields(layout, raw) ==
  FoldLeft(ReadField, [ok |-> TRUE, fields |-> <<>>, rest |-> raw], layout)

\* What an encoder or a decoder returns: a value, or an error.
Ok(v) == [ok |-> TRUE, value |-> v]
Err == [ok |-> FALSE, value |-> <<>>]
-----------------------------------------------------------------------------
\* codec.EncodeTLVs and DecodeTLVs: types and values until nothing remains.
EncodeTLVs(tlvs) ==
  LET raw == FlattenSeq([i \in DOMAIN tlvs |-> Write(TLVLayout, tlvs[i])])
  IN  IF (\A i \in DOMAIN tlvs : Fits(TLVLayout, tlvs[i])) /\ Len(raw) <= MaxUint(2)
      THEN Ok(raw) ELSE Err

RECURSIVE DecodeTLVs(_)
DecodeTLVs(raw) ==
  LET r == ReadFields(TLVLayout, raw)
      more == DecodeTLVs(r.rest)
  IN  CASE raw = <<>> -> Ok(<<>>)
        [] raw # <<>> /\ ~r.ok -> Err
        [] OTHER -> IF more.ok THEN Ok(<<r.fields>> \o more.value) ELSE Err

EncodePayload(p) ==
  IF Fits(FrameLayout, p) THEN Ok(Write(FrameLayout, p)) ELSE Err

\* Mutant: bytes after the extensions are ignored.
DecodePayloadPrefix(raw) ==
  LET r == ReadFields(FrameLayout, raw) IN IF r.ok THEN Ok(r.fields) ELSE Err
\* Extensions that are not the rest of the payload are refused.
DecodePayload(raw) ==
  LET r == ReadFields(FrameLayout, raw)
  IN  IF r.ok /\ r.rest = <<>> THEN Ok(r.fields) ELSE Err

EncodeEnvelopeV2Payload(p) ==
  IF Fits(EnvelopeLayout, p) THEN Ok(Write(EnvelopeLayout, p)) ELSE Err

\* Version 2, and no flag but FlagServerProof.
EnvelopeHead(p) == p[1] = <<2>> /\ p[2] \in {<<0>>, <<1>>}

\* The body of an envelope: the payload, the length of the padding, the padding.
Body(plain, padding) == plain \o PutUint(padding, 2) \o [i \in 1..padding |-> 0]
\* OpenEnvelopeV2Payload once the body is unsealed.
OpenBody(body) ==
  LET r == ReadFields(EnvelopeLayout, body)
      p == ReadField(r, Var(2))
  IN  IF p.ok /\ p.rest = <<>> /\ EnvelopeHead(r.fields)
      THEN Ok(r.fields) ELSE Err

Method(p) == p[4]
SessionID(p) == p[6]
Extensions(p) == p[11]

\* encodeKnockPayload; the last field of a knock is its list of extensions.
encodeKnockPayload(p) ==
  LET ext == EncodeTLVs(Extensions(p))
      raw == [p EXCEPT ![11] = ext.value]
  IN  IF ext.ok /\ Method(p) # <<>> /\ Fits(KnockLayout, raw)
      THEN Ok(Write(KnockLayout, raw)) ELSE Err

ShortSession(p) == Len(SessionID(p)) \in 1..(SessionMin - 1)

decodeKnockPayload(raw) ==
  LET r    == ReadFields(KnockLayout, raw)
      tlvs == DecodeTLVs(Extensions(r.fields))
      p    == [r.fields EXCEPT ![11] = tlvs.value]
  IN  IF r.ok /\ r.rest = <<>> /\ Method(r.fields) # <<>> /\ tlvs.ok /\ ~ShortSession(p)
      THEN Ok(p) ELSE Err

\* The numbers of a sequence's part, and its id, which is as long as a session id;
\* a knock that is no part has neither.
SequencePart(p) ==
  p[1] = <<2>> /\ Len(p[7]) = SessionMin /\ Uint(p[9]) \in 2..MaxParts /\ Uint(p[8]) < Uint(p[9])
SingleKnock(p) == p[1] = <<1>> /\ p[7] = <<>> /\ p[8] = <<0>> /\ p[9] = <<0>>

\* The header's flags as BuildKnockFrame sets them, and as they are checked
\* against the payload when the frame is opened.
KnockFlags(p) ==
  (IF p[1] = <<2>> THEN {"sequence"} ELSE {})
    \cup (IF SessionID(p) # <<>> THEN {"session"} ELSE {})
    \cup (IF Extensions(p) # <<>> THEN {"extensions"} ELSE {})
validateKnockFlags(flags, p) ==
  /\ "sequence" \in flags <=> p[1] = <<2>>
  /\ "session" \in flags <=> Len(SessionID(p)) >= SessionMin
  /\ "extensions" \in flags <=> Extensions(p) # <<>>
=============================================================================
