------------------------------ MODULE StreamFormat ------------------------------
(***************************************************************************)
(* What the stream is made of and what each part is checked for: the       *)
(* stream header, the key and the nonces derived from it, the frames and   *)
(* the segments.  Bytes are abstract: a piece of data is [len, value], an  *)
(* encoded record is the record with its checksum, and a checksum, digest, *)
(* key or tag is the tuple of what it is computed from, so that two of     *)
(* them are equal only when all of that is.                                *)
(*                                                                         *)
(* A function that returns Result returns [ok |-> value] or [err |-> why]. *)
(***************************************************************************)
EXTENDS Naturals, Sequences, FiniteSets

CONSTANTS
  MaxChunk,  \* MAX_CHUNK_SIZE
  TagLen,    \* length the cipher adds to the plaintext
  Short      \* what is read of a header when the stream ends in it

ASSUME MaxChunkAssumption == MaxChunk \in Nat \ {0}
ASSUME TagLenAssumption == TagLen \in Nat \ {0}

Ok(v) == [ok |-> v]
Err(why) == [err |-> why]
IsOk(r) == "ok" \in DOMAIN r

-----------------------------------------------------------------------------

\* The header.  Fields beyond the checksum: dictId .. reserved.

Covered == {"magic", "version", "algProfile", "cipher", "hkdfPrf", "compression",
            "strategy", "aadDomain", "flags", "chunkSize", "plaintextSize"}
HeaderFields ==
  Covered \cup {"crc32", "dictId", "salt", "keyId", "parallelHint", "encTimeNs", "reserved"}

Known ==
  [algProfile |-> {"Aes256GcmHkdfSha256", "Aes256GcmHkdfSha512",
                   "Chacha20Poly1305HkdfSha256", "Chacha20Poly1305HkdfSha512",
                   "Chacha20Poly1305HkdfBlake3K"},
   cipher |-> {"Aes256Gcm", "Chacha20Poly1305"},
   hkdfPrf |-> {"Sha256", "Sha512", "Sha3_256", "Sha3_512", "Blake3K"},
   strategy |-> {"Auto", "Sequential", "Parallel"},
   aadDomain |-> {"Generic", "FileEnvelope", "PipeEnvelope"},
   compression |-> {"Auto", "Deflate", "Zstd", "Lz4"}]

\* Magic and flags are sets and names here; zero salt and reserved are 0.
ValidHeader(h) ==
  /\ h.magic = "RSE1"
  /\ h.version # 0
  /\ h.chunkSize \in 1..MaxChunk
  /\ \A f \in DOMAIN Known : h[f] \in Known[f]
  /\ h.salt # 0
  /\ h.reserved = 0
  /\ "DICT_USED" \in h.flags => h.dictId # 0

\* Before encoding the field is <<>>.
HeaderCrc(h) == <<[f \in Covered |-> h[f]]>>

EncodeHeader(h) ==
  IF ValidHeader(h) THEN Ok([h EXCEPT !.crc32 = HeaderCrc(h)]) ELSE Err("header")

DecodeHeader(buf) ==
  IF buf = Short THEN Err("truncated")
  ELSE IF buf.crc32 # HeaderCrc(buf) THEN Err("crc")
  ELSE IF ~ValidHeader(buf) THEN Err("header")
  ELSE Ok(buf)

-----------------------------------------------------------------------------

\* Key, nonce and associated data.

KeyInfo == (Covered \ {"plaintextSize"}) \cup {"keyId"}

SessionKey(master, h) ==
  IF h.salt = 0 THEN Err("salt")
  ELSE IF h.hkdfPrf \notin Known.hkdfPrf THEN Err("prf")
  ELSE Ok(<<master, h.salt, [f \in KeyInfo |-> h[f]]>>)

Nonce(h, number) == <<h.salt, number>>

\* Defect: the checksum field goes in as it is, unset before encoding.
AadRaw(h, f) == <<h, f.type, f.segment, f.number, f.plainLen>>

\* The header as it is encoded, whatever its checksum field says.
Aad(h, f) ==
  <<[h EXCEPT !.crc32 = HeaderCrc(h)], f.type, f.segment, f.number, f.plainLen>>

Seal(ctx, nonce, aad, data) ==
  [len |-> data.len + TagLen,
   value |-> [cipher |-> ctx.header.cipher, key |-> ctx.key, nonce |-> nonce,
              aad |-> aad, data |-> data]]

Open(ctx, nonce, aad, body) ==
  LET v == body.value IN
  IF /\ body.len >= TagLen
     /\ <<v.cipher, v.key, v.nonce, v.aad>> = <<ctx.header.cipher, ctx.key, nonce, aad>>
  THEN Ok(v.data) ELSE Err("open")

-----------------------------------------------------------------------------

\* Frames.  A context is [header, key, alg].

Empty == [len |-> 0, value |-> <<>>]

ValidInput(type, payload) ==
  /\ type = "data" => payload.len > 0
  /\ type = "terminator" => payload.len = 0
  /\ type = "digest" => payload.len >= 4

FrameHeader(type, segment, number, plainLen, cipherLen) ==
  [type |-> type, segment |-> segment, number |-> number,
   plainLen |-> plainLen, cipherLen |-> cipherLen]

\* The length in the header is the body's, on both sides.
EncodeFrame(h, body) ==
  IF body.len # h.cipherLen THEN Err("length") ELSE Ok([header |-> h, body |-> body])

DecodeFrame(frame) ==
  IF frame.body.len # frame.header.cipherLen THEN Err("length") ELSE Ok(frame)

\* A frame on the wire: only data frames are sealed.
EncryptFrame(ctx, type, segment, number, payload) ==
  LET h == FrameHeader(type, segment, number, payload.len, 0)
      body == IF type = "data"
                THEN Seal(ctx, Nonce(ctx.header, number), Aad(ctx.header, h), payload)
                ELSE payload
  IN
  IF ~ValidInput(type, payload) THEN Err("input")
  ELSE EncodeFrame([h EXCEPT !.cipherLen = body.len], body)

DecryptFrame(ctx, frame) ==
  LET h == frame.header IN
  IF ~IsOk(DecodeFrame(frame)) THEN DecodeFrame(frame)
  ELSE IF h.type = "data"
    THEN Open(ctx, Nonce(ctx.header, h.number), Aad(ctx.header, h), frame.body)
  ELSE Ok(frame.body)

-----------------------------------------------------------------------------

\* Segments: the frames of a wire behind a header of its own.

\* Over the index, the frame count and every data frame, in order.
SegmentDigest(alg, index, count, frames) ==
  <<alg, index, count,
    [i \in DOMAIN frames |->
       <<frames[i].header.number, frames[i].body.len, frames[i].body>>]>>

\* The payload of the digest frame: algorithm, length and digest.
Digest(alg, index, count, frames) ==
  [len |-> 4 + 32,
   value |-> [alg |-> alg, digest |-> SegmentDigest(alg, index, count, frames)]]

SegmentFields == {"index", "bytesLen", "wireLen", "wireCrc32", "frameCount",
                  "digestAlg", "final"}
SegmentCrc(h) == <<[f \in SegmentFields |-> h[f]]>>

SegmentHeader(wire, index, bytesLen, frameCount, alg, final) ==
  LET h == [index |-> index, bytesLen |-> bytesLen, wireLen |-> Len(wire),
            wireCrc32 |-> <<wire>>, frameCount |-> frameCount,
            digestAlg |-> alg, final |-> final, headerCrc32 |-> <<>>]
  IN [h EXCEPT !.headerCrc32 = SegmentCrc(h)]

SegmentValid(h, wire) == h.wireCrc32 = <<wire>> /\ h.headerCrc32 = SegmentCrc(h)

Record(header, wire) == [header |-> header, wire |-> wire]

\* process_encrypt_segment_3: a chunk is the sequence of its frames' data.
EncryptSegment(ctx, index, chunk, final) ==
  LET count == Len(chunk)
      data == [i \in 1..count |-> EncryptFrame(ctx, "data", index, i - 1, chunk[i]).ok]
      digest == EncryptFrame(ctx, "digest", index, count,
                             Digest(ctx.alg, index, count, data)).ok
      terminator == EncryptFrame(ctx, "terminator", index, count + 1, Empty).ok
      wire == data \o <<digest, terminator>>
  IN
  IF chunk = <<>> /\ final
    THEN Ok(Record(SegmentHeader(<<>>, index, 0, 0, ctx.alg, TRUE), <<>>))
  ELSE IF chunk = <<>> THEN Err("empty")
  ELSE Ok(Record(SegmentHeader(wire, index, count, count, ctx.alg, final), wire))

\* What a sequence has at the positions At, in its order.
Picked(s, At) ==
  LET Nth(n) == CHOOSE i \in At : Cardinality({j \in At : j <= i}) = n
  IN [n \in 1..Cardinality(At) |-> s[Nth(n)]]

OfType(wire, type) == Picked(wire, {i \in DOMAIN wire : wire[i].header.type = type})

\* process_decrypt_segment_3, in the order of its checks.  Data frames go to
\* the slot of their number; beyond the slots the code panics.
DecryptSegment(ctx, rec) ==
  LET h == rec.header
      wire == rec.wire
      slots == IF Len(wire) > 2 THEN Len(wire) - 2 ELSE 0
      data == OfType(wire, "data")
      digests == OfType(wire, "digest")
      terminators == OfType(wire, "terminator")
      Slot(n) == {i \in DOMAIN data : data[i].header.number = n}
  IN
  IF wire = <<>> /\ h.final THEN Ok(<<>>)
  ELSE IF ~SegmentValid(h, wire) THEN Err("checksum")
  ELSE IF wire = <<>> THEN Err("no frames")
  ELSE IF \E i \in DOMAIN wire : ~IsOk(DecryptFrame(ctx, wire[i])) THEN Err("frame")
  ELSE IF \E i \in DOMAIN data : data[i].header.number >= slots THEN Err("index")
  ELSE IF Len(digests) # 1 \/ Len(terminators) # 1 THEN Err("frames")
  ELSE IF digests[1].header.number # slots THEN Err("digest position")
  ELSE IF digests[1].body.value.digest # SegmentDigest(ctx.alg, h.index, h.frameCount, data)
    THEN Err("digest")
  ELSE IF terminators[1].header.number # slots + 1 THEN Err("terminator position")
  ELSE Ok([n \in 1..slots |->
             IF Slot(n - 1) = {} THEN Empty
             ELSE DecryptFrame(ctx, data[CHOOSE i \in Slot(n - 1) : TRUE]).ok])
=============================================================================
