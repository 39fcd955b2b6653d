------------------------ MODULE CallAndSchedulerProofs ------------------------
(***************************************************************************)
(* Proofs about the two modules that share the parallelism profiles.       *)
(*                                                                         *)
(* The calls (StreamCall), for every header, key, machine, number of       *)
(* chunks and of frames: what decrypt_stream_v3 returns Ok for is the      *)
(* input of encrypt_stream_v3, whichever of the accidental Alterations     *)
(* became of the stream, none of which computes a checksum or a digest     *)
(* anew; clean calls succeed; a rejected header leaves the sink alone.     *)
(*   - Encrypting segment i has one result, written down in closed form    *)
(*     (DataRecord, FinalRecord); decrypting that gives chunk i back under *)
(*     the same context, and only chunk i or an error under another.       *)
(*   - The storage returns those records, and records that decrypt to an   *)
(*     error (Spoiled); unless one was lost it returns all of them, or no  *)
(*     FINAL marker, or a spoiled one (Returned).                          *)
(*   - The writer puts out segments by their index, so what is written is  *)
(*     the chunks from the first on (Ordered), and nothing fetched is lost *)
(*     on the way to it while there is no error (Accounted).               *)
(*                                                                         *)
(* The scheduler, for every machine and every set of options: a worker     *)
(* finds a device to dispatch to, the load ledger is the work under way    *)
(* until a worker fails, and it stays even.  The ledger rests on what a    *)
(* worker holds between its steps: a target from dispatch to complete,     *)
(* none before, and for ever when it failed.                               *)
(* Evenness is a pigeonhole: the least loaded of n devices has a load of   *)
(* m, so n * m workers hold one of the n, and the worker that dispatches   *)
(* holds none.                                                             *)
(***************************************************************************)
EXTENDS StreamCall, Scheduler, FiniteSetTheorems, SequenceTheorems, TLAPS

\* What encryption makes of frame number k (from 0) of segment i.
DataFrame(c, i, k, payload) ==
  [header |-> FrameHeader("data", i, k, payload.len, payload.len + TagLen),
   body |-> Seal(c, Nonce(c.header, k),
                 Aad(c.header, FrameHeader("data", i, k, payload.len, 0)), payload)]
PlainFrame(type, i, k, payload) ==
  [header |-> FrameHeader(type, i, k, payload.len, payload.len), body |-> payload]

DataFrames(c, i) == [n \in 1..Frames |-> DataFrame(c, i, n - 1, Chunk(i + 1)[n])]
DigestFrame(c, i) == PlainFrame("digest", i, Frames, Digest(c.alg, i, Frames, DataFrames(c, i)))
Terminator(i) == PlainFrame("terminator", i, Frames + 1, Empty)

\* The wire and the record of segment i, and the FINAL marker.
Wire(c, i) ==
  [n \in 1..(Frames + 2) |-> IF n <= Frames THEN DataFrame(c, i, n - 1, Chunk(i + 1)[n])
                             ELSE IF n = Frames + 1 THEN DigestFrame(c, i) ELSE Terminator(i)]
DataHeader(wire, i, alg) == SegmentHeader(wire, i, Frames, Frames, alg, FALSE)
FinalHeader(i, alg) == SegmentHeader(<<>>, i, 0, 0, alg, TRUE)
DataRecord(c, i) == Record(DataHeader(Wire(c, i), i, c.alg), Wire(c, i))
FinalRecord(c, i) == Record(FinalHeader(i, c.alg), <<>>)

-----------------------------------------------------------------------------
(* Sequences.                                                              *)

\* What stands at an interval of positions.
LEMMA PickedRun ==
  ASSUME NEW s, NEW a \in Nat, NEW m \in Nat
  PROVE  Picked(s, (a + 1)..(a + m)) = [n \in 1..m |-> s[a + n]]
<1> DEFINE At == (a + 1)..(a + m)
           Nth(n) == CHOOSE i \in At : Cardinality({j \in At : j <= i}) = n
<1>1. \A i \in At : Cardinality({j \in At : j <= i}) = i - a
  <2> SUFFICES ASSUME NEW i \in At PROVE Cardinality({j \in At : j <= i}) = i - a
    OBVIOUS
  <2>1. {j \in At : j <= i} = (a + 1)..i
    OBVIOUS
  <2>2. Cardinality((a + 1)..i) = i - (a + 1) + 1
    <3>1. a + 1 \in Int /\ i \in Int /\ ~(a + 1 > i)
      OBVIOUS
    <3>2. Cardinality((a + 1)..i) = IF a + 1 > i THEN 0 ELSE i - (a + 1) + 1
      BY <3>1, FS_Interval
    <3> QED
      BY <3>1, <3>2
  <2>3. i - (a + 1) + 1 = i - a
    OBVIOUS
  <2> QED
    BY <2>1, <2>2, <2>3, Zenon
<1>2. Cardinality(At) = m
  <2>1. Cardinality(At) = IF a + 1 > a + m THEN 0 ELSE (a + m) - (a + 1) + 1
    <3>1. a + 1 \in Int /\ a + m \in Int
      OBVIOUS
    <3> QED
      BY <3>1, FS_Interval
  <2> QED
    BY <2>1
<1>3. \A n \in 1..m : Nth(n) = a + n
  <2> SUFFICES ASSUME NEW n \in 1..m PROVE Nth(n) = a + n
    OBVIOUS
  <2>1. a + n \in At /\ Cardinality({j \in At : j <= a + n}) = n
    BY <1>1
  <2>2. \A i \in At : Cardinality({j \in At : j <= i}) = n => i = a + n
    BY <1>1
  <2> HIDE DEF At
  <2> QED
    BY <2>1, <2>2
<1>4. Picked(s, At) = [n \in 1..Cardinality(At) |-> s[Nth(n)]]
  BY DEF Picked
<1> HIDE DEF At, Nth
<1>5. Picked(s, At) = [n \in 1..m |-> s[a + n]]
  BY <1>2, <1>3, <1>4
<1> QED
  BY <1>5 DEF At

LEMMA PickedFront ==
  ASSUME NEW s, NEW m \in Nat
  PROVE  Picked(s, 1..m) = [n \in 1..m |-> s[n]]
<1>1. Picked(s, (0 + 1)..(0 + m)) = [n \in 1..m |-> s[0 + n]]
  <2>1. 0 \in Nat
    OBVIOUS
  <2> QED
    BY <2>1, PickedRun
<1>2. (0 + 1)..(0 + m) = 1..m /\ \A n \in 1..m : 0 + n = n
  OBVIOUS
<1> QED
  BY <1>1, <1>2

-----------------------------------------------------------------------------
(* One segment, encrypted and decrypted.                                   *)

LEMMA FramesInNat == Frames \in Nat /\ Frames > 0 /\ Frames + 2 \in Nat /\ Frames + 1 \in Nat
BY ChunksAssumption

LEMMA ChunkFacts ==
  ASSUME NEW i
  PROVE  /\ Chunk(i) \in Seq([len : Nat, value : {<<i, k>> : k \in 1..Frames}])
         /\ Len(Chunk(i)) = Frames /\ DOMAIN Chunk(i) = 1..Frames
         /\ Chunk(i) # <<>>
         /\ \A n \in 1..Frames : Chunk(i)[n] = [len |-> 1, value |-> <<i, n>>]
         /\ \A n \in 1..Frames : Chunk(i)[n].len = 1
BY FramesInNat DEF Chunk

LEMMA EncryptData ==
  ASSUME NEW c, NEW i, NEW k, NEW payload, payload.len = 1
  PROVE  EncryptFrame(c, "data", i, k, payload) = Ok(DataFrame(c, i, k, payload))
<1> DEFINE h == FrameHeader("data", i, k, payload.len, 0)
           body == Seal(c, Nonce(c.header, k), Aad(c.header, h), payload)
<1>1. TagLen \in Nat /\ payload.len + TagLen \in Nat
  BY TagLenAssumption
<1>2. body.len = payload.len + TagLen
  BY DEF Seal
<1>3. [h EXCEPT !.cipherLen = body.len] = FrameHeader("data", i, k, payload.len, payload.len + TagLen)
  BY <1>2 DEF FrameHeader
<1>4. FrameHeader("data", i, k, payload.len, payload.len + TagLen).cipherLen = payload.len + TagLen
  BY DEF FrameHeader
<1>5. ValidInput("data", payload)
  BY DEF ValidInput
<1>6. EncryptFrame(c, "data", i, k, payload) = EncodeFrame([h EXCEPT !.cipherLen = body.len], body)
  BY <1>5 DEF EncryptFrame
<1> HIDE DEF body, h
<1>7. EncryptFrame(c, "data", i, k, payload)
        = Ok([header |-> FrameHeader("data", i, k, payload.len, payload.len + TagLen), body |-> body])
  BY <1>2, <1>3, <1>4, <1>6 DEF EncodeFrame
<1> QED
  BY <1>7 DEF DataFrame, body, h

LEMMA EncryptPlain ==
  ASSUME NEW c, NEW i, NEW k, NEW payload, NEW type \in {"digest", "terminator"},
         ValidInput(type, payload)
  PROVE  EncryptFrame(c, type, i, k, payload) = Ok(PlainFrame(type, i, k, payload))
<1> DEFINE h == FrameHeader(type, i, k, payload.len, 0)
<1>1. [h EXCEPT !.cipherLen = payload.len] = FrameHeader(type, i, k, payload.len, payload.len)
  BY DEF FrameHeader
<1>2. FrameHeader(type, i, k, payload.len, payload.len).cipherLen = payload.len
  BY DEF FrameHeader
<1>3. EncryptFrame(c, type, i, k, payload) = EncodeFrame([h EXCEPT !.cipherLen = payload.len], payload)
  BY DEF EncryptFrame
<1> HIDE DEF h
<1> QED
  BY <1>1, <1>2, <1>3 DEF EncodeFrame, PlainFrame

LEMMA EncryptChunk ==
  ASSUME NEW c, NEW i
  PROVE  EncryptSegment(c, i, Chunk(i + 1), FALSE) = Ok(DataRecord(c, i))
<1> DEFINE data == [n \in 1..Frames |-> EncryptFrame(c, "data", i, n - 1, Chunk(i + 1)[n]).ok]
           digest == EncryptFrame(c, "digest", i, Frames, Digest(c.alg, i, Frames, data)).ok
           terminator == EncryptFrame(c, "terminator", i, Frames + 1, Empty).ok
           wire == data \o <<digest, terminator>>
<1>1. EncryptSegment(c, i, Chunk(i + 1), FALSE)
        = Ok(Record(SegmentHeader(wire, i, Frames, Frames, c.alg, FALSE), wire))
  BY ChunkFacts, Zenon DEF EncryptSegment
<1>2. data = DataFrames(c, i)
  <2>1. \A n \in 1..Frames : EncryptFrame(c, "data", i, n - 1, Chunk(i + 1)[n]).ok
                               = DataFrame(c, i, n - 1, Chunk(i + 1)[n])
    <3> SUFFICES ASSUME NEW n \in 1..Frames
                 PROVE  EncryptFrame(c, "data", i, n - 1, Chunk(i + 1)[n]).ok
                          = DataFrame(c, i, n - 1, Chunk(i + 1)[n])
      OBVIOUS
    <3>1. Chunk(i + 1)[n].len = 1
      BY ChunkFacts
    <3>2. EncryptFrame(c, "data", i, n - 1, Chunk(i + 1)[n])
            = Ok(DataFrame(c, i, n - 1, Chunk(i + 1)[n]))
      BY <3>1, EncryptData
    <3> QED
      BY <3>2 DEF Ok
  <2> QED
    BY <2>1, Zenon DEF DataFrames
<1>3. digest = DigestFrame(c, i)
  <2> DEFINE d == Digest(c.alg, i, Frames, DataFrames(c, i))
  <2>1. ValidInput("digest", d)
    BY DEF ValidInput, Digest
  <2>2. EncryptFrame(c, "digest", i, Frames, d) = Ok(PlainFrame("digest", i, Frames, d))
    BY <2>1, EncryptPlain
  <2> HIDE DEF d
  <2>3. EncryptFrame(c, "digest", i, Frames, d).ok = PlainFrame("digest", i, Frames, d)
    BY <2>2 DEF Ok
  <2> QED
    BY <1>2, <2>3, Zenon DEF DigestFrame, d
<1>4. terminator = Terminator(i)
  <2>1. ValidInput("terminator", Empty)
    BY DEF ValidInput, Empty
  <2>2. EncryptFrame(c, "terminator", i, Frames + 1, Empty) = Ok(Terminator(i))
    BY <2>1, EncryptPlain DEF Terminator
  <2> QED
    BY <2>2 DEF Ok
<1> HIDE DEF data, digest, terminator
<1>5. wire = Wire(c, i)
  <2> DEFINE T == {DataFrame(c, i, n - 1, Chunk(i + 1)[n]) : n \in 1..Frames}
                    \cup {DigestFrame(c, i), Terminator(i)}
             tail == <<DigestFrame(c, i), Terminator(i)>>
  <2>1. DataFrames(c, i) \in Seq(T) /\ Len(DataFrames(c, i)) = Frames
    <3>1. \A n \in 1..Frames : DataFrame(c, i, n - 1, Chunk(i + 1)[n]) \in T
      OBVIOUS
    <3> HIDE DEF T
    <3> QED
      BY <3>1, FramesInNat DEF DataFrames
  <2>2. /\ tail \in Seq(T) /\ Len(tail) = 2
        /\ tail[1] = DigestFrame(c, i) /\ tail[2] = Terminator(i)
    OBVIOUS
  <2>3. \A n \in 1..Frames : DataFrames(c, i)[n] = DataFrame(c, i, n - 1, Chunk(i + 1)[n])
    BY DEF DataFrames
  <2>d. wire = DataFrames(c, i) \o tail
    BY <1>2, <1>3, <1>4
  <2> HIDE DEF T, tail, wire
  <2> DEFINE front == DataFrames(c, i)
  <2> HIDE DEF front
  <2>e. front \in Seq(T) /\ Len(front) = Frames /\ wire = front \o tail
    BY <2>1, <2>d DEF front
  <2>c. front \in Seq(T) /\ tail \in Seq(T)
    BY <2>2, <2>e
  <2>f. /\ wire \in Seq(T) /\ Len(wire) = Len(front) + Len(tail)
        /\ \A n \in 1..(Len(front) + Len(tail)) :
             wire[n] = IF n <= Len(front) THEN front[n] ELSE tail[n - Len(front)]
    BY <2>c, <2>e, ConcatProperties, Zenon
  <2>g. \A n \in 1..(Frames + 2) : wire[n] = IF n <= Frames THEN front[n] ELSE tail[n - Frames]
    BY <2>2, <2>e, <2>f, FramesInNat
  <2>4. /\ wire \in Seq(T) /\ Len(wire) = Frames + 2
        /\ \A n \in 1..(Frames + 2) :
             wire[n] = IF n <= Frames THEN DataFrames(c, i)[n] ELSE tail[n - Frames]
    BY <2>2, <2>e, <2>f, <2>g, FramesInNat DEF front
  <2>5. \A n \in 1..(Frames + 2) :
          wire[n] = IF n <= Frames THEN DataFrame(c, i, n - 1, Chunk(i + 1)[n])
                    ELSE IF n = Frames + 1 THEN DigestFrame(c, i) ELSE Terminator(i)
    BY <2>2, <2>3, <2>4, FramesInNat
  <2>6. wire = [n \in 1..(Frames + 2) |-> wire[n]]
    BY <2>4
  <2> QED
    BY <2>5, <2>6 DEF Wire
<1> HIDE DEF wire
<1> QED
  BY <1>1, <1>5, Zenon DEF DataRecord, DataHeader

LEMMA EncryptFinal ==
  ASSUME NEW c, NEW i
  PROVE  EncryptSegment(c, i, <<>>, TRUE) = Ok(FinalRecord(c, i))
BY Zenon DEF EncryptSegment, FinalRecord, FinalHeader

LEMMA CrcOfHeader ==
  ASSUME NEW g, DOMAIN g = SegmentFields \cup {"headerCrc32"},
         NEW h, h = [g EXCEPT !.headerCrc32 = SegmentCrc(g)]
  PROVE  /\ h = [f \in SegmentFields \cup {"headerCrc32"} |-> h[f]]
         /\ \A f \in SegmentFields : h[f] = g[f]
         /\ h.headerCrc32 = SegmentCrc(h)
<1>1. \A f \in SegmentFields : f # "headerCrc32"
  BY DEF SegmentFields
<1>2. \A f \in SegmentFields : h[f] = g[f]
  BY <1>1
<1>3. SegmentCrc(h) = SegmentCrc(g)
  BY <1>2 DEF SegmentCrc
<1> QED
  BY <1>2, <1>3

\* The header of a record is valid for its wire.
LEMMA DataHeaderFacts ==
  ASSUME NEW wire, NEW i, NEW alg
  PROVE  /\ DataHeader(wire, i, alg).index = i
         /\ DataHeader(wire, i, alg).frameCount = Frames
         /\ ~DataHeader(wire, i, alg).final
         /\ DataHeader(wire, i, alg).wireCrc32 = <<wire>>
         /\ DataHeader(wire, i, alg).headerCrc32 = SegmentCrc(DataHeader(wire, i, alg))
         /\ DataHeader(wire, i, alg).digestAlg = alg
         /\ DataHeader(wire, i, alg) \in
              [index : {i}, bytesLen : {Frames}, wireLen : {Len(wire)}, wireCrc32 : {<<wire>>},
               frameCount : {Frames}, digestAlg : {alg}, final : BOOLEAN,
               headerCrc32 : {SegmentCrc(DataHeader(wire, i, alg))}]
<1> DEFINE g == [index |-> i, bytesLen |-> Frames, wireLen |-> Len(wire),
                 wireCrc32 |-> <<wire>>, frameCount |-> Frames,
                 digestAlg |-> alg, final |-> FALSE, headerCrc32 |-> <<>>]
           h == DataHeader(wire, i, alg)
<1>1. h = [g EXCEPT !.headerCrc32 = SegmentCrc(g)]
  BY Zenon DEF DataHeader, SegmentHeader
<1>2. DOMAIN g = SegmentFields \cup {"headerCrc32"}
  BY DEF SegmentFields
<1>3. /\ g.index = i /\ g.bytesLen = Frames /\ g.wireLen = Len(wire) /\ g.wireCrc32 = <<wire>>
      /\ g.frameCount = Frames /\ g.digestAlg = alg /\ g.final = FALSE
  OBVIOUS
<1> HIDE DEF g, h
<1>4. /\ h = [f \in SegmentFields \cup {"headerCrc32"} |-> h[f]] /\ h.headerCrc32 = SegmentCrc(h)
      /\ \A f \in SegmentFields : h[f] = g[f]
  BY <1>1, <1>2, CrcOfHeader
<1>5. /\ h.index = i /\ h.bytesLen = Frames /\ h.wireLen = Len(wire) /\ h.wireCrc32 = <<wire>>
      /\ h.frameCount = Frames /\ h.digestAlg = alg /\ h.final = FALSE
  BY <1>3, <1>4 DEF SegmentFields
<1>6. h \in [index : {i}, bytesLen : {Frames}, wireLen : {Len(wire)}, wireCrc32 : {<<wire>>},
            frameCount : {Frames}, digestAlg : {alg}, final : BOOLEAN, headerCrc32 : {SegmentCrc(h)}]
  BY <1>4, <1>5 DEF SegmentFields
<1> QED
  BY <1>4, <1>5, <1>6 DEF h

LEMMA FinalHeaderFacts ==
  ASSUME NEW i, NEW alg
  PROVE  /\ FinalHeader(i, alg).index = i
         /\ FinalHeader(i, alg).frameCount = 0
         /\ FinalHeader(i, alg).final
         /\ FinalHeader(i, alg).wireCrc32 = <<<<>>>>
         /\ FinalHeader(i, alg).headerCrc32 = SegmentCrc(FinalHeader(i, alg))
         /\ FinalHeader(i, alg).digestAlg = alg
         /\ FinalHeader(i, alg) \in
              [index : {i}, bytesLen : {0}, wireLen : {Len(<<>>)}, wireCrc32 : {<<<<>>>>},
               frameCount : {0}, digestAlg : {alg}, final : BOOLEAN,
               headerCrc32 : {SegmentCrc(FinalHeader(i, alg))}]
<1> DEFINE g == [index |-> i, bytesLen |-> 0, wireLen |-> Len(<<>>),
                 wireCrc32 |-> <<<<>>>>, frameCount |-> 0,
                 digestAlg |-> alg, final |-> TRUE, headerCrc32 |-> <<>>]
           h == FinalHeader(i, alg)
<1>1. h = [g EXCEPT !.headerCrc32 = SegmentCrc(g)]
  BY Zenon DEF FinalHeader, SegmentHeader
<1>2. DOMAIN g = SegmentFields \cup {"headerCrc32"}
  BY DEF SegmentFields
<1>3. /\ g.index = i /\ g.bytesLen = 0 /\ g.wireLen = Len(<<>>) /\ g.wireCrc32 = <<<<>>>>
      /\ g.frameCount = 0 /\ g.digestAlg = alg /\ g.final = TRUE
  OBVIOUS
<1> HIDE DEF g, h
<1>4. /\ h = [f \in SegmentFields \cup {"headerCrc32"} |-> h[f]] /\ h.headerCrc32 = SegmentCrc(h)
      /\ \A f \in SegmentFields : h[f] = g[f]
  BY <1>1, <1>2, CrcOfHeader
<1>5. /\ h.index = i /\ h.bytesLen = 0 /\ h.wireLen = Len(<<>>) /\ h.wireCrc32 = <<<<>>>>
      /\ h.frameCount = 0 /\ h.digestAlg = alg /\ h.final = TRUE
  BY <1>3, <1>4 DEF SegmentFields
<1>6. h \in [index : {i}, bytesLen : {0}, wireLen : {Len(<<>>)}, wireCrc32 : {<<<<>>>>},
            frameCount : {0}, digestAlg : {alg}, final : BOOLEAN, headerCrc32 : {SegmentCrc(h)}]
  BY <1>4, <1>5 DEF SegmentFields
<1> QED
  BY <1>4, <1>5, <1>6 DEF h

LEMMA WireShape ==
  ASSUME NEW c, NEW i
  PROVE  /\ DOMAIN Wire(c, i) = 1..(Frames + 2) /\ Len(Wire(c, i)) = Frames + 2
         /\ Wire(c, i) # <<>>
         /\ \A n \in 1..Frames : /\ Wire(c, i)[n] = DataFrame(c, i, n - 1, Chunk(i + 1)[n])
                                 /\ Wire(c, i)[n].header.type = "data"
                                 /\ Wire(c, i)[n].header.number = n - 1
         /\ Wire(c, i)[Frames + 1] = DigestFrame(c, i)
         /\ Wire(c, i)[Frames + 1].header.type = "digest"
         /\ Wire(c, i)[Frames + 1].header.number = Frames
         /\ Wire(c, i)[Frames + 2] = Terminator(i)
         /\ Wire(c, i)[Frames + 2].header.type = "terminator"
         /\ Wire(c, i)[Frames + 2].header.number = Frames + 1
<1> USE FramesInNat
<1>1. DOMAIN Wire(c, i) = 1..(Frames + 2) /\ Len(Wire(c, i)) = Frames + 2 /\ Wire(c, i) # <<>>
  BY DEF Wire
<1>2. /\ \A n \in 1..Frames : Wire(c, i)[n] = DataFrame(c, i, n - 1, Chunk(i + 1)[n])
      /\ Wire(c, i)[Frames + 1] = DigestFrame(c, i)
      /\ Wire(c, i)[Frames + 2] = Terminator(i)
  BY DEF Wire
<1>3. \A k, payload : /\ DataFrame(c, i, k, payload).header.type = "data"
                      /\ DataFrame(c, i, k, payload).header.number = k
  BY DEF DataFrame, FrameHeader
<1>4. \A type, k, payload : /\ PlainFrame(type, i, k, payload).header.type = type
                            /\ PlainFrame(type, i, k, payload).header.number = k
  BY DEF PlainFrame, FrameHeader
<1> QED
  BY <1>1, <1>2, <1>3, <1>4 DEF DigestFrame, Terminator

\* The checks of process_decrypt_segment_3 on a wire of the right shape: the
\* frames and the digest remain.
LEMMA DecryptWhole ==
  ASSUME NEW d, NEW rec, SegmentValid(rec.header, rec.wire),
         rec.wire # <<>>, DOMAIN rec.wire = 1..(Frames + 2), Len(rec.wire) = Frames + 2,
         \A n \in 1..Frames : rec.wire[n].header.type = "data" /\ rec.wire[n].header.number = n - 1,
         rec.wire[Frames + 1].header.type = "digest",
         rec.wire[Frames + 1].header.number = Frames,
         rec.wire[Frames + 2].header.type = "terminator",
         rec.wire[Frames + 2].header.number = Frames + 1
  PROVE  DecryptSegment(d, rec) =
           IF \E i \in DOMAIN rec.wire : ~IsOk(DecryptFrame(d, rec.wire[i])) THEN Err("frame")
           ELSE IF rec.wire[Frames + 1].body.value.digest
                     # SegmentDigest(d.alg, rec.header.index, rec.header.frameCount,
                                     [n \in 1..Frames |-> rec.wire[n]])
             THEN Err("digest")
           ELSE Ok([n \in 1..Frames |-> DecryptFrame(d, rec.wire[n]).ok])
<1> USE FramesInNat
<1> DEFINE h == rec.header
           w == rec.wire
           slots == IF Len(w) > 2 THEN Len(w) - 2 ELSE 0
           data == OfType(w, "data")
           digests == OfType(w, "digest")
           terminators == OfType(w, "terminator")
           Slot(n) == {i \in DOMAIN data : data[i].header.number = n}
           broken == \E i \in DOMAIN w : ~IsOk(DecryptFrame(d, w[i]))
<1>2. DecryptSegment(d, rec) =
        IF broken THEN Err("frame")
        ELSE IF \E i \in DOMAIN data : data[i].header.number >= slots THEN Err("index")
        ELSE IF Len(digests) # 1 \/ Len(terminators) # 1 THEN Err("frames")
        ELSE IF digests[1].header.number # slots THEN Err("digest position")
        ELSE IF digests[1].body.value.digest # SegmentDigest(d.alg, h.index, h.frameCount, data)
          THEN Err("digest")
        ELSE IF terminators[1].header.number # slots + 1 THEN Err("terminator position")
        ELSE Ok([n \in 1..slots |->
                   IF Slot(n - 1) = {} THEN Empty
                   ELSE DecryptFrame(d, data[CHOOSE i \in Slot(n - 1) : TRUE]).ok])
  BY Zenon DEF DecryptSegment
<1>3. slots = Frames
  OBVIOUS
<1>4. /\ {i \in DOMAIN w : w[i].header.type = "data"} = (0 + 1)..(0 + Frames)
      /\ {i \in DOMAIN w : w[i].header.type = "digest"} = (Frames + 1)..(Frames + 1)
      /\ {i \in DOMAIN w : w[i].header.type = "terminator"} = ((Frames + 1) + 1)..((Frames + 1) + 1)
  <2> SUFFICES ASSUME NEW i \in 1..(Frames + 2)
               PROVE  /\ w[i].header.type = "data" <=> i <= Frames
                      /\ w[i].header.type = "digest" <=> i = Frames + 1
                      /\ w[i].header.type = "terminator" <=> i = Frames + 2
    OBVIOUS
  <2>1. CASE i \in 1..Frames
    <3>1. w[i].header.type = "data"
      BY <2>1
    <3> QED
      BY <2>1, <3>1
  <2>2. CASE i = Frames + 1
    BY <2>2
  <2>3. CASE i = Frames + 2
    BY <2>3
  <2> QED
    BY <2>1, <2>2, <2>3
<1>r. \A a \in Nat, m \in Nat : Picked(w, (a + 1)..(a + m)) = [n \in 1..m |-> w[a + n]]
  BY PickedRun
<1>5. data = [n \in 1..Frames |-> w[n]]
  <2>1. data = Picked(w, (0 + 1)..(0 + Frames))
    BY <1>4, Zenon DEF OfType
  <2>2. data = [n \in 1..Frames |-> w[0 + n]]
    <3> HIDE DEF data, w
    <3> QED
      BY <1>r, <2>1
  <2>3. \A n \in 1..Frames : 0 + n = n
    OBVIOUS
  <2> HIDE DEF data, w
  <2> QED
    BY <2>2, <2>3
<1>6. digests = [n \in 1..1 |-> w[Frames + n]]
  <2>1. digests = Picked(w, (Frames + 1)..(Frames + 1))
    BY <1>4, Zenon DEF OfType
  <2> HIDE DEF digests, w
  <2> QED
    BY <1>r, <2>1
<1>7. terminators = [n \in 1..1 |-> w[(Frames + 1) + n]]
  <2>1. terminators = Picked(w, ((Frames + 1) + 1)..((Frames + 1) + 1))
    BY <1>4, Zenon DEF OfType
  <2> HIDE DEF terminators, w
  <2> QED
    BY <1>r, <2>1
<1>8. Len(digests) = 1 /\ digests[1] = w[Frames + 1]
  <2> HIDE DEF digests, w
  <2> QED
    BY <1>6
<1>9. Len(terminators) = 1 /\ terminators[1] = w[Frames + 2]
  <2> HIDE DEF terminators, w
  <2> QED
    BY <1>7
<1>10. \A n \in 1..Frames : Slot(n - 1) = {n}
  <2>1. \A n \in 1..Frames : w[n].header.number = n - 1
    OBVIOUS
  <2> HIDE DEF data, w
  <2> QED
    BY <1>5, <2>1
<1>11. ~ \E i \in DOMAIN data : data[i].header.number >= slots
  <2>1. \A n \in 1..Frames : w[n].header.number = n - 1
    OBVIOUS
  <2> HIDE DEF data, w, slots
  <2> QED
    BY <1>3, <1>5, <2>1
<1>12. [n \in 1..slots |-> IF Slot(n - 1) = {} THEN Empty
                           ELSE DecryptFrame(d, data[CHOOSE i \in Slot(n - 1) : TRUE]).ok]
         = [n \in 1..Frames |-> DecryptFrame(d, w[n]).ok]
  <2>1. ASSUME NEW n \in 1..Frames
        PROVE  (IF Slot(n - 1) = {} THEN Empty
                ELSE DecryptFrame(d, data[CHOOSE i \in Slot(n - 1) : TRUE]).ok) = DecryptFrame(d, w[n]).ok
    <3>1. Slot(n - 1) = {n}
      BY <1>10
    <3>2. data[n] = w[n]
      <4> HIDE DEF data, w
      <4> QED
        BY <1>5
    <3> DEFINE S == Slot(n - 1)
               k == CHOOSE i \in S : TRUE
    <3>3. k = n /\ S # {}
      <4> HIDE DEF Slot, S
      <4>1. S = {n}
        BY <3>1 DEF S
      <4> QED
        BY <4>1
    <3> HIDE DEF k, data, w
    <3>4. (IF S = {} THEN Empty ELSE DecryptFrame(d, data[k]).ok) = DecryptFrame(d, w[n]).ok
      BY <3>2, <3>3
    <3> QED
      BY <3>4, Zenon DEF k
  <2> HIDE DEF data, Slot, slots, w
  <2> QED
    BY <1>3, <2>1
<1> HIDE DEF data, Slot, slots, digests, terminators, broken, w, h
<1>13. DecryptSegment(d, rec) =
         IF broken THEN Err("frame")
         ELSE IF w[Frames + 1].body.value.digest # SegmentDigest(d.alg, h.index, h.frameCount, data)
           THEN Err("digest")
         ELSE Ok([n \in 1..Frames |-> DecryptFrame(d, w[n]).ok])
  <2>1. digests[1].header.number = slots /\ terminators[1].header.number = slots + 1
    BY <1>3, <1>8, <1>9 DEF w
  <2> QED
    BY <1>2, <1>8, <1>9, <1>11, <1>12, <2>1, Zenon
<1> QED
  BY <1>5, <1>13, Zenon DEF broken, w, h

\* The two sides have the same key, digest and header.
Matching(c, d) ==
  /\ d.key = c.key /\ d.alg = c.alg
  /\ d.header.cipher = c.header.cipher /\ d.header.salt = c.header.salt
  /\ [d.header EXCEPT !.crc32 = HeaderCrc(d.header)] = [c.header EXCEPT !.crc32 = HeaderCrc(c.header)]

\* A data frame opens to what was sealed, or not at all.
LEMMA DecryptData ==
  ASSUME NEW c, NEW d, NEW i, NEW k, NEW payload, payload.len = 1
  PROVE  LET r == DecryptFrame(d, DataFrame(c, i, k, payload)) IN
         /\ IsOk(r) => r = Ok(payload)
         /\ Matching(c, d) => r = Ok(payload)
<1> DEFINE f == DataFrame(c, i, k, payload)
           h == FrameHeader("data", i, k, payload.len, payload.len + TagLen)
           g == FrameHeader("data", i, k, payload.len, 0)
           v == [cipher |-> c.header.cipher, key |-> c.key, nonce |-> Nonce(c.header, k),
                 aad |-> Aad(c.header, g), data |-> payload]
           body == [len |-> payload.len + TagLen, value |-> v]
           same == <<v.cipher, v.key, v.nonce, v.aad>>
                     = <<d.header.cipher, d.key, Nonce(d.header, h.number), Aad(d.header, h)>>
           opened == IF body.len >= TagLen /\ same THEN Ok(v.data) ELSE Err("open")
<1>1. f = [header |-> h, body |-> body]
  BY DEF DataFrame, Seal
<1>2. f.header = h /\ f.body = body
  BY <1>1
<1>3. /\ h.cipherLen = payload.len + TagLen /\ h.type = "data" /\ h.number = k
      /\ h.segment = i /\ h.plainLen = payload.len
      /\ g.segment = i /\ g.plainLen = payload.len /\ g.type = "data" /\ g.number = k
  BY DEF FrameHeader
<1>4. body.len = payload.len + TagLen /\ body.value = v /\ v.data = payload
  OBVIOUS
<1>5. Open(d, Nonce(d.header, h.number), Aad(d.header, h), body) = opened
  BY Zenon DEF Open
<1>6. DecryptFrame(d, f) = opened
  <2>1. IsOk(DecodeFrame(f))
    <3> HIDE DEF f, h, body
    <3> QED
      BY <1>2, <1>3, <1>4 DEF DecodeFrame, IsOk, Ok
  <2>2. f.header.type = "data"
    BY <1>2, <1>3
  <2>3. DecryptFrame(d, f) = Open(d, Nonce(d.header, f.header.number), Aad(d.header, f.header), f.body)
    <3> HIDE DEF f
    <3> QED
      BY <2>1, <2>2, Zenon DEF DecryptFrame
  <2> HIDE DEF f, h, body, opened
  <2> QED
    BY <1>2, <1>5, <2>3, Zenon
<1>7. IsOk(opened) => opened = Ok(payload)
  BY DEF IsOk, Err
<1>8. Matching(c, d) => opened = Ok(payload)
  <2> SUFFICES ASSUME Matching(c, d) PROVE body.len >= TagLen /\ same
    BY <1>4
  <2>1. body.len >= TagLen
    BY <1>4, TagLenAssumption
  <2>2. Nonce(c.header, k) = Nonce(d.header, h.number)
    <3> HIDE DEF h
    <3> QED
      BY <1>3 DEF Matching, Nonce
  <2>3. Aad(c.header, g) = Aad(d.header, h)
    <3> HIDE DEF h, g
    <3> QED
      BY <1>3 DEF Matching, Aad
  <2>4. v.cipher = d.header.cipher /\ v.key = d.key
    BY DEF Matching
  <2>5. v.nonce = Nonce(c.header, k) /\ v.aad = Aad(c.header, g)
    OBVIOUS
  <2> HIDE DEF v, h, g, body
  <2> QED
    BY <2>1, <2>2, <2>3, <2>4, <2>5
<1> HIDE DEF f, opened
<1> QED
  BY <1>6, <1>7, <1>8 DEF f

LEMMA DecryptPlain ==
  ASSUME NEW d, NEW i, NEW k, NEW payload, NEW type, type # "data"
  PROVE  DecryptFrame(d, PlainFrame(type, i, k, payload)) = Ok(payload)
<1> DEFINE f == PlainFrame(type, i, k, payload)
<1>1. f.header.cipherLen = f.body.len /\ f.header.type # "data" /\ f.body = payload
  BY DEF PlainFrame, FrameHeader
<1> HIDE DEF f
<1>2. DecryptFrame(d, f) = Ok(payload)
  BY <1>1 DEF DecryptFrame, DecodeFrame, IsOk, Ok
<1> QED
  BY <1>2 DEF f

\* A record that was not touched yields its chunk or an error, for any key,
\* digest and header, and the chunk for those it was written with.
LEMMA DecryptRecord ==
  ASSUME NEW c, NEW d, NEW i
  PROVE  LET r == DecryptSegment(d, DataRecord(c, i)) IN
         /\ IsOk(r) => r = Ok(Chunk(i + 1))
         /\ Matching(c, d) => r = Ok(Chunk(i + 1))
<1> USE FramesInNat
<1> DEFINE w == Wire(c, i)
           h == DataHeader(w, i, c.alg)
           rec == Record(h, w)
           broken == \E n \in DOMAIN w : ~IsOk(DecryptFrame(d, w[n]))
           sum == SegmentDigest(d.alg, i, Frames, [n \in 1..Frames |-> w[n]])
           wrong == DigestFrame(c, i).body.value.digest # sum
           plain == [n \in 1..Frames |-> DecryptFrame(d, w[n]).ok]
<1>0. rec.header = h /\ rec.wire = w /\ DataRecord(c, i) = rec
  BY Zenon DEF Record, DataRecord
<1>1. SegmentValid(h, w) /\ h.index = i /\ h.frameCount = Frames
  <2>1. h.wireCrc32 = <<w>> /\ h.headerCrc32 = SegmentCrc(h) /\ h.index = i /\ h.frameCount = Frames
    BY DataHeaderFacts
  <2> HIDE DEF h
  <2> QED
    BY <2>1 DEF SegmentValid
<1>2. DecryptSegment(d, rec) =
        IF broken THEN Err("frame") ELSE IF wrong THEN Err("digest") ELSE Ok(plain)
  <2> HIDE DEF h
  <2>1. /\ rec.wire # <<>> /\ DOMAIN rec.wire = 1..(Frames + 2) /\ Len(rec.wire) = Frames + 2
        /\ \A n \in 1..Frames : rec.wire[n].header.type = "data" /\ rec.wire[n].header.number = n - 1
        /\ rec.wire[Frames + 1] = DigestFrame(c, i)
        /\ rec.wire[Frames + 1].header.type = "digest"
        /\ rec.wire[Frames + 1].header.number = Frames
        /\ rec.wire[Frames + 2].header.type = "terminator"
        /\ rec.wire[Frames + 2].header.number = Frames + 1
    <3> HIDE DEF rec
    <3> QED
      BY <1>0, WireShape
  <2>2. SegmentValid(rec.header, rec.wire)
    BY <1>0, <1>1, Zenon
  <2>3. DecryptSegment(d, rec) =
           IF \E n \in DOMAIN rec.wire : ~IsOk(DecryptFrame(d, rec.wire[n])) THEN Err("frame")
           ELSE IF rec.wire[Frames + 1].body.value.digest
                     # SegmentDigest(d.alg, rec.header.index, rec.header.frameCount,
                                     [n \in 1..Frames |-> rec.wire[n]])
             THEN Err("digest")
           ELSE Ok([n \in 1..Frames |-> DecryptFrame(d, rec.wire[n]).ok])
    <3> HIDE DEF rec
    <3> QED
      BY <2>1, <2>2, DecryptWhole, ZenonT(30)
  <2> HIDE DEF rec, w
  <2>4. rec.wire = w /\ rec.header.index = i /\ rec.header.frameCount = Frames
    BY <1>0, <1>1
  <2>5. broken <=> \E n \in DOMAIN rec.wire : ~IsOk(DecryptFrame(d, rec.wire[n]))
    BY <2>4
  <2>6. [n \in 1..Frames |-> rec.wire[n]] = [n \in 1..Frames |-> w[n]]
    BY <2>4
  <2>7. [n \in 1..Frames |-> DecryptFrame(d, rec.wire[n]).ok] = plain
    BY <2>4
  <2>8. wrong <=> rec.wire[Frames + 1].body.value.digest
                    # SegmentDigest(d.alg, rec.header.index, rec.header.frameCount,
                                    [n \in 1..Frames |-> rec.wire[n]])
    BY <2>1, <2>4, <2>6
  <2> HIDE DEF broken, wrong, plain
  <2> QED
    BY <2>3, <2>5, <2>7, <2>8
<1>3. ASSUME NEW n \in 1..Frames
      PROVE  /\ IsOk(DecryptFrame(d, w[n])) => DecryptFrame(d, w[n]) = Ok(Chunk(i + 1)[n])
             /\ Matching(c, d) => DecryptFrame(d, w[n]) = Ok(Chunk(i + 1)[n])
  <2>1. w[n] = DataFrame(c, i, n - 1, Chunk(i + 1)[n])
    BY WireShape
  <2>2. Chunk(i + 1)[n].len = 1
    BY ChunkFacts
  <2> HIDE DEF w
  <2> QED
    BY <2>1, <2>2, DecryptData
<1>4. IsOk(DecryptFrame(d, w[Frames + 1])) /\ IsOk(DecryptFrame(d, w[Frames + 2]))
  <2>1. \A v : IsOk(Ok(v))
    BY DEF IsOk, Ok
  <2>2. w[Frames + 1] = DigestFrame(c, i) /\ w[Frames + 2] = Terminator(i)
    BY WireShape
  <2> HIDE DEF w
  <2> QED
    BY <2>1, <2>2, DecryptPlain DEF DigestFrame, Terminator
<1>5. DOMAIN w = 1..(Frames + 2)
  BY WireShape
<1>6. ~broken => plain = Chunk(i + 1)
  <2> SUFFICES ASSUME ~broken PROVE plain = Chunk(i + 1)
    OBVIOUS
  <2>1. \A n \in 1..Frames : DecryptFrame(d, w[n]).ok = Chunk(i + 1)[n]
    <3> SUFFICES ASSUME NEW n \in 1..Frames PROVE DecryptFrame(d, w[n]).ok = Chunk(i + 1)[n]
      OBVIOUS
    <3>1. n \in DOMAIN w
      BY <1>5
    <3>2. DecryptFrame(d, w[n]) = Ok(Chunk(i + 1)[n])
      BY <1>3, <3>1
    <3> QED
      BY <3>2 DEF Ok
  <2>2. plain = [n \in 1..Frames |-> Chunk(i + 1)[n]]
    <3> HIDE DEF w
    <3> QED
      BY <2>1
  <2>3. Chunk(i + 1) = [n \in 1..Frames |-> Chunk(i + 1)[n]]
    BY DEF Chunk
  <2> HIDE DEF plain
  <2> QED
    BY <2>2, <2>3
<1>7. Matching(c, d) => ~broken /\ ~wrong
  <2> SUFFICES ASSUME Matching(c, d) PROVE ~broken /\ ~wrong
    OBVIOUS
  <2>1. \A v : IsOk(Ok(v))
    BY DEF IsOk, Ok
  <2>2. ~broken
    <3> SUFFICES ASSUME NEW n \in DOMAIN w PROVE IsOk(DecryptFrame(d, w[n]))
      OBVIOUS
    <3>1. n \in 1..Frames \/ n = Frames + 1 \/ n = Frames + 2
      BY <1>5
    <3> HIDE DEF w
    <3> QED
      BY <1>3, <1>4, <2>1, <3>1
  <2>3. [n \in 1..Frames |-> w[n]] = DataFrames(c, i)
    <3>1. \A n \in 1..Frames : w[n] = DataFrame(c, i, n - 1, Chunk(i + 1)[n])
      BY WireShape
    <3> HIDE DEF w
    <3> QED
      BY <3>1 DEF DataFrames
  <2>4. DigestFrame(c, i).body.value.digest = SegmentDigest(c.alg, i, Frames, DataFrames(c, i))
    BY DEF DigestFrame, PlainFrame, Digest
  <2>5. d.alg = c.alg
    BY DEF Matching
  <2> HIDE DEF w, broken
  <2> QED
    BY <2>2, <2>3, <2>4, <2>5
<1>8. \A x : ~IsOk(Err(x))
  BY DEF IsOk, Err
<1> HIDE DEF broken, wrong, plain, rec
<1> QED
  BY <1>0, <1>2, <1>6, <1>7, <1>8

LEMMA DecryptFinal ==
  ASSUME NEW c, NEW d, NEW i
  PROVE  DecryptSegment(d, FinalRecord(c, i)) = Ok(<<>>)
<1>1. FinalRecord(c, i).wire = <<>> /\ FinalRecord(c, i).header = FinalHeader(i, c.alg)
  BY Zenon DEF FinalRecord, Record
<1>2. FinalHeader(i, c.alg).final
  BY FinalHeaderFacts
<1> QED
  BY <1>1, <1>2, Zenon DEF DecryptSegment

\* A wire that its header does not fit is refused.
LEMMA DecryptTampered ==
  ASSUME NEW d, NEW rec, ~(rec.wire = <<>> /\ rec.header.final), rec.header.wireCrc32 # <<rec.wire>>
  PROVE  ~IsOk(DecryptSegment(d, rec))
<1>1. ~SegmentValid(rec.header, rec.wire)
  BY DEF SegmentValid
<1>2. DecryptSegment(d, rec) = Err("checksum")
  BY <1>1, Zenon DEF DecryptSegment
<1> QED
  BY <1>2 DEF IsOk, Err

-----------------------------------------------------------------------------
(* The invariant.                                                          *)

Ctx == Context(given.key, given.header, "Blake3")

\* The record of each segment, and what the writer gets for it.
Rec(i) == IF i = given.chunks THEN FinalRecord(Ctx, i) ELSE DataRecord(Ctx, i)
Seg(i) ==
  [index |-> i, chunk |-> IF i = given.chunks THEN <<>> ELSE Chunk(i + 1),
   kind |-> IF i = given.chunks THEN "final" ELSE "data"]

Indices == 0..given.chunks
Good == {Rec(i) : i \in Indices}

\* A record with a header or a wire that its checksum does not fit.
Spoiled(r) ==
  \/ r.header.headerCrc32 # SegmentCrc(r.header)
  \/ r.header.wireCrc32 # <<r.wire>> /\ ~(r.wire = <<>> /\ r.header.final)

EncPlaces == {"validate", "open", "derive", "profile", "header", "records", "ok", "cut", "err", "panic"}
DecPlaces == {"waiting", "validate", "header", "open", "derive", "profile", "records", "ok", "err", "panic"}

TypeOK ==
  /\ given \in [header : Headers, key : {"key", "short"}, dict : Dicts, cores : Cores,
                chunks : 0..MaxChunks]
  /\ enc \in EncPlaces /\ dec \in DecPlaces
  /\ DOMAIN file = {"header", "records", "tail"}
  /\ reader \in [key : {"key", "other", "short"}, alg : {"Blake3", "Sha256"}, cores : Cores \cup {1}]
  /\ sink \in {"old", "open"}
  /\ reading \in BOOLEAN /\ failed \in BOOLEAN
  /\ read \in Nat /\ fetched \subseteq 1..read
  /\ next \in 0..(given.chunks + 1)
  /\ finalIndex \in {NoIndex, given.chunks}
  /\ writerPc \in {"idle", "flush", "drain", "done"}
  /\ finishOk \in {"none", "ok", "missing"}

\* The decryption only begins with what the encryption left behind.
Phases ==
  /\ dec # "waiting" => enc \in {"ok", "cut"}
  /\ dec \in {"waiting", "validate", "header", "open"} => sink = "old"
  /\ dec = "waiting" => /\ read = 0 /\ reading /\ ~failed
                        /\ next = 0 /\ finalIndex = NoIndex /\ writerPc = "idle"

\* The encryption writes the records in order, the FINAL marker last.
Encoded ==
  dec = "waiting" =>
    /\ Len(Records) \in Nat
    /\ Records # <<>> => Records \in Seq(Good)
    /\ \A p \in 1..Len(Records) : Records[p] = Rec(p - 1)
    /\ enc \in {"validate", "open", "derive", "profile", "header"} => Records = <<>>
    /\ enc \in {"records", "cut"} => Len(Records) <= given.chunks
    /\ enc = "ok" => Len(Records) = given.chunks + 1

\* What the storage returns: every record is one that was written, or is
\* spoiled, and the FINAL marker is not among them unless all others are.
Whole(s) == \A i \in Indices : \E p \in DOMAIN s : s[p] = Rec(i)
Headless(s) == \A p \in DOMAIN s : s[p] # Rec(given.chunks)
Returned(s, how) ==
  /\ Len(s) \in Nat /\ DOMAIN s = 1..Len(s)
  /\ \A p \in DOMAIN s : s[p] \in Good \/ Spoiled(s[p])
  /\ how = "lost" \/ Whole(s) \/ Headless(s) \/ \E p \in DOMAIN s : Spoiled(s[p])
Stored == dec # "waiting" => Returned(Records, storage)

\* The writer holds and has written the segments of the input.
Ordered ==
  /\ written \in Seq({Seg(i) : i \in Indices})
  /\ Len(written) = next
  /\ \A i \in 1..next : written[i] = Seg(i - 1)
  /\ \A i \in DOMAIN pending : i \in Indices /\ pending[i] = Seg(i)

\* A record that was decrypted without an error is in the writer.
Arrived(p) ==
  \E i \in Indices :
    /\ Records[p] = Rec(i)
    /\ i < next \/ i \in DOMAIN pending
    /\ i = given.chunks => finalIndex = i

Accounted ==
  /\ dec # "waiting" => read <= Len(Records)
  /\ \A p \in fetched : Records[p].header.headerCrc32 = SegmentCrc(Records[p].header)
  /\ ~failed => \A p \in 1..read : p \in fetched \/ Arrived(p)
  /\ ~failed /\ ~reading => read = Len(Records)
  /\ finalIndex # NoIndex => \E p \in DOMAIN Records : Records[p] = Rec(given.chunks)

\* The writer loop ends with the stream or with an error.
Ended ==
  /\ writerPc \in {"drain", "done"} => failed \/ (~reading /\ fetched = {})
  /\ writerPc = "done" => next \notin DOMAIN pending
  /\ writerPc = "done" => finishOk = IF finalIndex = NoIndex THEN "missing" ELSE "ok"
  /\ dec = "ok" => ~failed /\ writerPc = "done" /\ finishOk = "ok"

IInv == TypeOK /\ Phases /\ Encoded /\ Stored /\ Ordered /\ Accounted /\ Ended

\* A stream that was written whole, kept, and is read with its key and digest.
Clean ==
  /\ enc = "ok" /\ dec # "waiting" /\ storage = "kept"
  /\ reader.key = "key" /\ reader.alg = "Blake3"

\* The file is what the encryption made of a valid header, and it is still
\* that when the storage kept it.
Kept ==
  /\ enc \notin {"validate", "err"} => given.key = "key"
  /\ enc \in {"derive", "profile", "header"} => file.tail = "none"
  /\ enc \in {"records", "ok"} => ValidHeader(given.header)
  /\ enc \in {"records", "ok"} /\ (dec = "waiting" \/ storage = "kept") =>
       file.header = [given.header EXCEPT !.crc32 = HeaderCrc(given.header)] /\ file.tail = "none"
  /\ dec # "waiting" /\ enc = "ok" /\ storage = "kept" =>
       /\ Len(Records) = given.chunks + 1
       /\ \A p \in 1..Len(Records) : Records[p] = Rec(p - 1)

\* Nothing fails on a clean stream once the sink is open, but the profile of
\* a Parallel header on a single core.
Succeeds ==
  Clean =>
    /\ ~failed
    /\ dec = "err" => sink = "old"
    /\ dec = "panic" => given.header.strategy = "Parallel" /\ reader.cores = 1

\* Who opens the sink has decoded the header.
Accepted ==
  /\ dec = "open" => IsOk(DecodeHeader(file.header))
  /\ RejectLeavesSink

-----------------------------------------------------------------------------
(* The records.                                                            *)

LEMMA GivenFacts ==
  ASSUME TypeOK
  PROVE  /\ given.chunks \in Nat /\ given.header \in Headers /\ given.key \in {"key", "short"}
         /\ given.cores \in Cores
         /\ Indices \subseteq Nat /\ given.chunks \in Indices
         /\ \A i : i \in Indices <=> i \in Nat /\ i <= given.chunks
BY ChunksAssumption DEF TypeOK, Indices

\* What is known of the header and the wire of a record.
LEMMA RecordFacts ==
  ASSUME NEW i
  PROVE  /\ Rec(i).header.index = i
         /\ Rec(i).header.headerCrc32 = SegmentCrc(Rec(i).header)
         /\ Rec(i).header.wireCrc32 = <<Rec(i).wire>>
         /\ Rec(i).header.final <=> i = given.chunks
         /\ Rec(i).wire = <<>> <=> i = given.chunks
         /\ DOMAIN Rec(i) = {"header", "wire"}
         /\ DOMAIN Rec(i).header = SegmentFields \cup {"headerCrc32"}
         /\ Rec(i).header.bytesLen \in Nat /\ Rec(i).header.wireLen \in Nat
         /\ Rec(i).header.frameCount \in Nat /\ Rec(i).header.digestAlg = "Blake3"
         /\ Rec(i).header.final \in BOOLEAN
<1> USE FramesInNat
<1>0. Ctx.alg = "Blake3"
  BY DEF Ctx, Context
<1>1. CASE i = given.chunks
  <2> DEFINE h == FinalHeader(i, Ctx.alg)
  <2>1. Rec(i).header = h /\ Rec(i).wire = <<>> /\ DOMAIN Rec(i) = {"header", "wire"}
    BY <1>1 DEF Rec, FinalRecord, Record
  <2>2. /\ h.index = i /\ h.headerCrc32 = SegmentCrc(h) /\ h.wireCrc32 = <<<<>>>> /\ h.final
        /\ h.digestAlg = Ctx.alg
        /\ h \in [index : {i}, bytesLen : {0}, wireLen : {Len(<<>>)}, wireCrc32 : {<<<<>>>>},
                  frameCount : {0}, digestAlg : {Ctx.alg}, final : BOOLEAN, headerCrc32 : {SegmentCrc(h)}]
    BY FinalHeaderFacts
  <2> HIDE DEF h
  <2>3. DOMAIN h = SegmentFields \cup {"headerCrc32"}
    BY <2>2 DEF SegmentFields
  <2> QED
    BY <1>0, <1>1, <2>1, <2>2, <2>3
<1>2. CASE i # given.chunks
  <2> DEFINE w == Wire(Ctx, i)
             h == DataHeader(w, i, Ctx.alg)
  <2>1. Rec(i).header = h /\ Rec(i).wire = w /\ DOMAIN Rec(i) = {"header", "wire"}
    BY <1>2 DEF Rec, DataRecord, Record
  <2>2. w # <<>> /\ Len(w) = Frames + 2
    BY WireShape
  <2> HIDE DEF w
  <2>3. /\ h.index = i /\ h.headerCrc32 = SegmentCrc(h) /\ h.wireCrc32 = <<w>> /\ ~h.final
        /\ h.digestAlg = Ctx.alg
        /\ h \in [index : {i}, bytesLen : {Frames}, wireLen : {Len(w)}, wireCrc32 : {<<w>>},
                  frameCount : {Frames}, digestAlg : {Ctx.alg}, final : BOOLEAN,
                  headerCrc32 : {SegmentCrc(h)}]
    BY DataHeaderFacts
  <2> HIDE DEF h
  <2>4. DOMAIN h = SegmentFields \cup {"headerCrc32"}
    BY <2>3 DEF SegmentFields
  <2> QED
    BY <1>0, <1>2, <2>1, <2>2, <2>3, <2>4
<1> QED
  BY <1>1, <1>2

LEMMA NextIsRec ==
  NextRecord = Rec(Len(Records)) /\ (NextRecord.header.final <=> Len(Records) = given.chunks)
<1> DEFINE i == Len(Records)
<1>1. NextRecord = Rec(i)
  <2>1. CASE i = given.chunks
    <3>1. NextRecord = EncryptSegment(Ctx, i, <<>>, TRUE).ok
      BY <2>1 DEF NextRecord, Ctx, Records
    <3>2. EncryptSegment(Ctx, i, <<>>, TRUE) = Ok(FinalRecord(Ctx, i))
      BY EncryptFinal
    <3>3. Ok(FinalRecord(Ctx, i)).ok = FinalRecord(Ctx, i)
      BY DEF Ok
    <3> QED
      BY <2>1, <3>1, <3>2, <3>3, Zenon DEF Rec
  <2>2. CASE i # given.chunks
    <3>1. NextRecord = EncryptSegment(Ctx, i, Chunk(i + 1), FALSE).ok
      BY <2>2 DEF NextRecord, Ctx, Records
    <3>2. EncryptSegment(Ctx, i, Chunk(i + 1), FALSE) = Ok(DataRecord(Ctx, i))
      BY EncryptChunk
    <3>3. Ok(DataRecord(Ctx, i)).ok = DataRecord(Ctx, i)
      BY DEF Ok
    <3> QED
      BY <2>2, <3>1, <3>2, <3>3, Zenon DEF Rec
  <2> QED
    BY <2>1, <2>2
<1> HIDE DEF i
<1>2. Rec(i).header.final <=> i = given.chunks
  BY RecordFacts
<1> QED
  BY <1>1, <1>2 DEF i

\* Records are told apart by their index, and none of them is spoiled.
LEMMA RecordsDiffer ==
  /\ \A i, j : Rec(i) = Rec(j) => i = j
  /\ \A i : ~Spoiled(Rec(i))
<1>1. \A i, j : Rec(i) = Rec(j) => i = j
  BY RecordFacts
<1>2. \A i : ~Spoiled(Rec(i))
  BY RecordFacts DEF Spoiled
<1> QED
  BY <1>1, <1>2

\* What a record is decrypted to, whoever does it.
LEMMA DecryptRec ==
  ASSUME NEW d, NEW i
  PROVE  /\ IsOk(DecryptSegment(d, Rec(i))) => DecryptSegment(d, Rec(i)).ok = Seg(i).chunk
         /\ Matching(Ctx, d) => IsOk(DecryptSegment(d, Rec(i)))
<1>0. \A v : IsOk(Ok(v)) /\ Ok(v).ok = v
  BY DEF IsOk, Ok
<1>1. CASE i = given.chunks
  <2>1. DecryptSegment(d, Rec(i)) = Ok(<<>>) /\ Seg(i).chunk = <<>>
    BY <1>1, DecryptFinal DEF Rec, Seg
  <2> QED
    BY <1>0, <2>1
<1>2. CASE i # given.chunks
  <2>1. Rec(i) = DataRecord(Ctx, i) /\ Seg(i).chunk = Chunk(i + 1)
    BY <1>2 DEF Rec, Seg
  <2>2. /\ IsOk(DecryptSegment(d, DataRecord(Ctx, i))) =>
              DecryptSegment(d, DataRecord(Ctx, i)) = Ok(Chunk(i + 1))
        /\ Matching(Ctx, d) => DecryptSegment(d, DataRecord(Ctx, i)) = Ok(Chunk(i + 1))
    BY DecryptRecord
  <2> QED
    BY <1>0, <2>1, <2>2
<1> QED
  BY <1>1, <1>2

LEMMA DecryptSpoiled ==
  ASSUME NEW d, NEW r, Spoiled(r), r.header.headerCrc32 = SegmentCrc(r.header)
  PROVE  ~IsOk(DecryptSegment(d, r))
BY DecryptTampered DEF Spoiled

-----------------------------------------------------------------------------
(* What the storage returns.                                               *)

\* The records as they were written, up to some place.
Original(s) ==
  /\ Len(s) \in Nat /\ DOMAIN s = 1..Len(s) /\ Len(s) <= given.chunks + 1
  /\ \A p \in 1..Len(s) : s[p] = Rec(p - 1)

LEMMA LengthOf ==
  ASSUME NEW n \in Nat, NEW t, t = [q \in 1..n |-> t[q]]
  PROVE  Len(t) = n /\ DOMAIN t = 1..n
<1> DEFINE T == {t[q] : q \in 1..n}
<1>1. \A q \in 1..n : t[q] \in T
  OBVIOUS
<1> HIDE DEF T
<1>2. [q \in 1..n |-> t[q]] \in Seq(T) /\ Len([q \in 1..n |-> t[q]]) = n
  BY <1>1
<1> QED
  BY <1>2

LEMMA OriginalGood ==
  ASSUME TypeOK, NEW s, Original(s)
  PROVE  \A p \in DOMAIN s : s[p] \in Good
<1> SUFFICES ASSUME NEW p \in DOMAIN s PROVE s[p] \in Good
  OBVIOUS
<1>1. p - 1 \in Indices
  BY GivenFacts DEF Original
<1>2. s[p] = Rec(p - 1)
  BY DEF Original
<1> QED
  BY <1>1, <1>2 DEF Good

LEMMA OriginalReturned ==
  ASSUME TypeOK, NEW s, Original(s), NEW how
  PROVE  Returned(s, how) /\ (Whole(s) \/ Headless(s))
<1> USE GivenFacts
<1>1. \A p \in DOMAIN s : s[p] \in Good
  BY OriginalGood
<1>2. CASE Len(s) = given.chunks + 1
  <2>1. \A i \in Indices : i + 1 \in DOMAIN s /\ s[i + 1] = Rec(i)
    BY <1>2 DEF Original
  <2>2. Whole(s)
    BY <2>1 DEF Whole
  <2> QED
    BY <1>1, <2>2 DEF Returned, Original
<1>3. CASE Len(s) <= given.chunks
  <2>1. \A p \in DOMAIN s : s[p] = Rec(p - 1) /\ p - 1 # given.chunks
    BY <1>3 DEF Original
  <2>2. Headless(s)
    BY <2>1, RecordsDiffer DEF Headless
  <2> QED
    BY <1>1, <2>2 DEF Returned, Original
<1> QED
  BY <1>2, <1>3 DEF Original

LEMMA Part ==
  ASSUME NEW s, NEW m \in Int, NEW n \in Int, NEW k \in Nat, k = n - m + 1,
         NEW T, \A q \in m..n : s[q] \in T
  PROVE  /\ SubSeq(s, m, n) \in Seq(T)
         /\ Len(SubSeq(s, m, n)) = k /\ DOMAIN SubSeq(s, m, n) = 1..k
         /\ \A q \in 1..k : SubSeq(s, m, n)[q] = s[q + m - 1]
<1> DEFINE t == SubSeq(s, m, n)
<1>2. /\ t \in Seq(T) /\ Len(t) = IF m <= n THEN n - m + 1 ELSE 0
      /\ \A q \in 1..(n - m + 1) : t[q] = s[m + q - 1]
  BY SubSeqProperties
<1>3. Len(t) = k
  BY <1>2
<1>4. \A q \in 1..k : m + q - 1 = q + m - 1
  OBVIOUS
<1> HIDE DEF t
<1>5. t \in Seq(T) /\ Len(t) = k /\ DOMAIN t = 1..k /\ \A q \in 1..k : t[q] = s[q + m - 1]
  BY <1>2, <1>3, <1>4
<1> QED
  BY <1>5 DEF t

LEMMA CutOriginal ==
  ASSUME TypeOK, NEW s, Original(s), NEW p \in DOMAIN s
  PROVE  Original(SubSeq(s, 1, p - 1))
<1> DEFINE t == SubSeq(s, 1, p - 1)
<1>1. p \in Nat /\ p <= Len(s) /\ p >= 1 /\ p - 1 \in Nat
  BY DEF Original
<1>2. Len(t) = p - 1 /\ DOMAIN t = 1..(p - 1) /\ \A q \in 1..(p - 1) : t[q] = s[q + 1 - 1]
  <2> DEFINE T == {s[q] : q \in 1..Len(s)}
  <2>1. p - 1 = (p - 1) - 1 + 1 /\ p - 1 \in Int /\ 1 \in Int
    BY <1>1
  <2>2. \A q \in 1..(p - 1) : s[q] \in T
    BY <1>1
  <2> HIDE DEF T
  <2> QED
    BY <1>1, <2>1, <2>2, Part
<1> HIDE DEF t
<1>3. \A q \in 1..(p - 1) : t[q] = s[q]
  BY <1>1, <1>2
<1>5. Original(t)
  BY <1>1, <1>2, <1>3, GivenFacts DEF Original
<1> QED
  BY <1>5 DEF t

\* The same records in another order, or more than once.
LEMMA ShuffledReturned ==
  ASSUME TypeOK, NEW s, Original(s), NEW t, Len(t) \in Nat, DOMAIN t = 1..Len(t),
         \A p \in DOMAIN t : \E q \in DOMAIN s : t[p] = s[q],
         \A q \in DOMAIN s : \E p \in DOMAIN t : t[p] = s[q], NEW how
  PROVE  Returned(t, how)
<1>1. \A p \in DOMAIN t : t[p] \in Good
  BY OriginalGood
<1>2. Whole(s) => Whole(t)
  BY DEF Whole
<1>3. Headless(s) => Headless(t)
  BY DEF Headless
<1> QED
  BY <1>1, <1>2, <1>3, OriginalReturned DEF Returned

\* One record changed.
LEMMA SpoiledReturned ==
  ASSUME TypeOK, NEW s, Original(s), NEW p \in DOMAIN s, NEW r, Spoiled(r), NEW how
  PROVE  Returned([s EXCEPT ![p] = r], how)
<1> DEFINE t == [s EXCEPT ![p] = r]
<1>1. t = [q \in 1..Len(s) |-> t[q]]
  BY DEF Original
<1>2. t[p] = r /\ \A q \in DOMAIN s : q # p => t[q] = s[q]
  BY DEF Original
<1> HIDE DEF t
<1>3. Len(t) = Len(s) /\ DOMAIN t = DOMAIN s
  BY <1>1, LengthOf DEF Original
<1>4. \A q \in DOMAIN t : t[q] \in Good \/ Spoiled(t[q])
  BY <1>2, <1>3, OriginalGood
<1>5. Returned(t, how)
  BY <1>2, <1>3, <1>4 DEF Returned, Original
<1> QED
  BY <1>5 DEF t

LEMMA SwappedReturned ==
  ASSUME TypeOK, NEW s, Original(s), NEW p \in DOMAIN s, NEW q \in DOMAIN s, NEW how
  PROVE  Returned([s EXCEPT ![p] = s[q], ![q] = s[p]], how)
<1> DEFINE t == [s EXCEPT ![p] = s[q], ![q] = s[p]]
<1>1. t = [n \in 1..Len(s) |-> t[n]]
  BY DEF Original
<1>2. t[p] = s[q] /\ t[q] = s[p] /\ \A n \in DOMAIN s : n # p /\ n # q => t[n] = s[n]
  BY DEF Original
<1> HIDE DEF t
<1>3. Len(t) = Len(s) /\ DOMAIN t = DOMAIN s
  BY <1>1, LengthOf DEF Original
<1>4. \A n \in DOMAIN t : \E m \in DOMAIN s : t[n] = s[m]
  BY <1>2, <1>3
<1>5. \A m \in DOMAIN s : \E n \in DOMAIN t : t[n] = s[m]
  BY <1>2, <1>3
<1>6. Len(t) \in Nat /\ DOMAIN t = 1..Len(t)
  BY <1>3 DEF Original
<1>7. Returned(t, how)
  BY <1>4, <1>5, <1>6, ShuffledReturned
<1> QED
  BY <1>7 DEF t

\* Two parts of the records, one after the other.
LEMMA Joined ==
  ASSUME NEW s, NEW n \in Nat, Len(s) = n, DOMAIN s = 1..n, NEW a \in 0..n, NEW b \in 1..(n + 1)
  PROVE  LET t == SubSeq(s, 1, a) \o SubSeq(s, b, n) IN
         /\ Len(t) = a + (n - b + 1) /\ DOMAIN t = 1..(a + (n - b + 1))
         /\ \A q \in 1..a : t[q] = s[q]
         /\ \A q \in b..n : t[a + (q - b + 1)] = s[q]
         /\ \A p \in DOMAIN t : \E q \in DOMAIN s : t[p] = s[q]
<1> DEFINE T == {s[q] : q \in 1..n}
           u == SubSeq(s, 1, a)
           v == SubSeq(s, b, n)
           t == u \o v
           m == n - b + 1
<1>0. a \in Nat /\ a <= n /\ b \in Nat /\ m \in Nat /\ b = n - m + 1 /\ m <= n
  OBVIOUS
<1>1. (\A q \in 1..a : s[q] \in T) /\ (\A q \in b..n : s[q] \in T)
  BY <1>0
<1>2. a = a - 1 + 1 /\ m = n - b + 1 /\ 1 \in Int /\ a \in Int /\ b \in Int /\ n \in Int
  BY <1>0
<1>4. \A q \in 1..m : q + b - 1 \in 1..n
  BY <1>0
<1> HIDE DEF T, m
<1>5. u \in Seq(T) /\ Len(u) = a /\ \A q \in 1..a : u[q] = s[q]
  <2>1. u \in Seq(T) /\ Len(u) = a /\ \A q \in 1..a : u[q] = s[q + 1 - 1]
    BY <1>0, <1>1, <1>2, Part
  <2>2. \A q \in 1..a : q + 1 - 1 = q
    BY <1>0
  <2> HIDE DEF u
  <2> QED
    BY <2>1, <2>2
<1>6. v \in Seq(T) /\ Len(v) = m /\ \A q \in 1..m : v[q] = s[q + b - 1]
  BY <1>0, <1>1, <1>2, Part
<1> HIDE DEF u, v
<1>7. /\ t \in Seq(T) /\ Len(t) = Len(u) + Len(v)
      /\ \A q \in 1..(Len(u) + Len(v)) : t[q] = IF q <= Len(u) THEN u[q] ELSE v[q - Len(u)]
  BY <1>5, <1>6, ConcatProperties, Zenon
<1> HIDE DEF t
<1>8. Len(t) = a + m /\ DOMAIN t = 1..(a + m)
  BY <1>0, <1>5, <1>6, <1>7
<1>9. \A q \in 1..a : t[q] = s[q]
  BY <1>0, <1>5, <1>6, <1>7
<1>10. \A k \in 1..m : t[a + k] = s[k + b - 1]
  <2> SUFFICES ASSUME NEW k \in 1..m PROVE t[a + k] = s[k + b - 1]
    OBVIOUS
  <2>1. a + k \in 1..(a + m) /\ ~(a + k <= a) /\ (a + k) - a = k
    BY <1>0
  <2>2. t[a + k] = v[k]
    BY <1>5, <1>6, <1>7, <2>1
  <2> QED
    BY <1>6, <2>2
<1>11. \A q \in b..n : t[a + (q - b + 1)] = s[q]
  <2> SUFFICES ASSUME NEW q \in b..n PROVE t[a + (q - b + 1)] = s[q]
    OBVIOUS
  <2>1. q - b + 1 \in 1..m /\ (q - b + 1) + b - 1 = q
    BY <1>0 DEF m
  <2> QED
    BY <1>10, <2>1
<1>12. \A p \in DOMAIN t : \E q \in DOMAIN s : t[p] = s[q]
  <2> SUFFICES ASSUME NEW p \in DOMAIN t PROVE \E q \in DOMAIN s : t[p] = s[q]
    OBVIOUS
  <2>1. CASE p <= a
    BY <1>0, <1>8, <1>9, <2>1
  <2>2. CASE p > a
    <3>1. p - a \in 1..m /\ a + (p - a) = p
      BY <1>0, <1>8, <2>2
    <3> QED
      BY <1>4, <1>10, <3>1
  <2> QED
    BY <1>0, <1>8, <2>1, <2>2
<1> QED
  BY <1>8, <1>9, <1>11, <1>12 DEF t, u, v, m

\* A changed header of a record, or a wire without its first frame.
LEMMA OtherHeaderSpoiled ==
  ASSUME NEW i \in Nat, NEW f \in SegmentFields \cup {"headerCrc32"}, NEW r, NEW h,
         h = [Rec(i).header EXCEPT ![f] = OtherSegment(Rec(i).header, f)], r.header = h
  PROVE  Spoiled(r)
<1> DEFINE g == Rec(i).header
<1>1. /\ DOMAIN g = SegmentFields \cup {"headerCrc32"} /\ g.headerCrc32 = SegmentCrc(g)
      /\ g.index \in Nat /\ g.bytesLen \in Nat /\ g.wireLen \in Nat /\ g.frameCount \in Nat
      /\ g.wireCrc32 = <<Rec(i).wire>> /\ g.digestAlg = "Blake3" /\ g.final \in BOOLEAN
  BY RecordFacts
<1> HIDE DEF g
<1>2. OtherSegment(g, f) # g[f]
  <2>1. \A x : <<x>> # <<>>
    OBVIOUS
  <2>2. CASE f \in {"index", "bytesLen", "wireLen", "frameCount"}
    <3>1. OtherSegment(g, f) = g[f] + 1
      BY <2>2 DEF OtherSegment
    <3> QED
      BY <1>1, <2>2, <3>1
  <2>3. CASE f \in {"wireCrc32", "headerCrc32"}
    <3>1. OtherSegment(g, f) = <<>>
      BY <2>3 DEF OtherSegment
    <3>2. CASE f = "wireCrc32"
      BY <1>1, <2>1, <3>1, <3>2
    <3>3. CASE f = "headerCrc32"
      BY <1>1, <2>1, <3>1, <3>3 DEF SegmentCrc
    <3> QED
      BY <2>3, <3>2, <3>3
  <2>4. CASE f = "digestAlg"
    <3>1. OtherSegment(g, f) = "other"
      BY <2>4 DEF OtherSegment
    <3> QED
      BY <1>1, <2>4, <3>1
  <2>5. CASE f = "final"
    <3>1. OtherSegment(g, f) = ~g.final
      BY <2>5 DEF OtherSegment
    <3> QED
      BY <1>1, <2>5, <3>1
  <2> QED
    BY <2>2, <2>3, <2>4, <2>5 DEF SegmentFields
<1>3. h[f] # g[f] /\ \A e \in SegmentFields \cup {"headerCrc32"} : e # f => h[e] = g[e]
  BY <1>1, <1>2 DEF g
<1>4. h.headerCrc32 # SegmentCrc(h)
  <2>0. "headerCrc32" \notin SegmentFields
    BY DEF SegmentFields
  <2>1. CASE f = "headerCrc32"
    <3>1. SegmentCrc(h) = SegmentCrc(g)
      BY <1>3, <2>0, <2>1 DEF SegmentCrc
    <3> QED
      BY <1>1, <1>3, <2>1, <3>1
  <2>2. CASE f # "headerCrc32"
    <3> DEFINE x == [e \in SegmentFields |-> g[e]]
               y == [e \in SegmentFields |-> h[e]]
    <3>1. x[f] # y[f]
      BY <1>3, <2>2
    <3> HIDE DEF x, y
    <3>2. <<x>> # <<y>>
      BY <3>1
    <3>3. SegmentCrc(g) = <<x>> /\ SegmentCrc(h) = <<y>>
      BY Zenon DEF SegmentCrc, x, y
    <3> QED
      BY <1>1, <1>3, <2>2, <3>2, <3>3
  <2> QED
    BY <2>1, <2>2
<1> QED
  BY <1>4 DEF Spoiled

LEMMA OtherWireSpoiled ==
  ASSUME NEW i, Rec(i).wire # <<>>, NEW r, r.header = Rec(i).header, r.wire # Rec(i).wire
  PROVE  Spoiled(r)
<1> DEFINE w == Rec(i).wire
<1>1. i # given.chunks
  BY RecordFacts
<1>2. ~r.header.final /\ r.header.wireCrc32 = <<w>>
  BY <1>1, RecordFacts
<1> HIDE DEF w
<1>3. <<r.wire>> # <<w>>
  BY DEF w
<1> QED
  BY <1>2, <1>3 DEF Spoiled

LEMMA RestretchedDiffers ==
  ASSUME NEW i, Rec(i).wire # <<>>, NEW v \in Restretched(Rec(i).wire)
  PROVE  v # Rec(i).wire
<1> USE FramesInNat
<1> DEFINE w == Rec(i).wire
           n == Frames + 2
<1>1. w = Wire(Ctx, i)
  <2>1. i # given.chunks
    BY RecordFacts
  <2> QED
    BY <2>1 DEF Rec, DataRecord, Record
<1>2. DOMAIN w = 1..n /\ Len(w) = n /\ n \in Nat
  BY <1>1, WireShape
<1> HIDE DEF w, n
<1>3. PICK ab \in {x \in (0..n) \X (1..(n + 1)) : x[2] # x[1] + 1} :
        v = SubSeq(w, 1, ab[1]) \o SubSeq(w, ab[2], n)
  BY <1>2 DEF Restretched, w
<1> DEFINE a == ab[1]
           b == ab[2]
<1>4. a \in 0..n /\ b \in 1..(n + 1) /\ b # a + 1
  BY <1>3
<1>5. v = SubSeq(w, 1, a) \o SubSeq(w, b, n)
  BY <1>3
<1> HIDE DEF a, b
<1>6. Len(v) = a + (n - b + 1)
  <2> DEFINE t == SubSeq(w, 1, a) \o SubSeq(w, b, n)
  <2>1. Len(t) = a + (n - b + 1)
    BY <1>2, <1>4, Joined
  <2> QED
    BY <1>5, <2>1
<1>7. Len(v) # n
  BY <1>2, <1>4, <1>6
<1> QED
  BY <1>2, <1>7 DEF w

-----------------------------------------------------------------------------
(* The invariant holds initially; encryption and storage preserve it.      *)

LEMMA GivenKept ==
  ASSUME given' = given
  PROVE  /\ Good' = Good /\ Indices' = Indices /\ Ctx' = Ctx
         /\ \A i : Rec(i)' = Rec(i) /\ Seg(i)' = Seg(i)
<1>1. Indices' = Indices
  BY DEF Indices
<1>2. Ctx' = Ctx
  BY DEF Ctx
<1>3. \A i : Rec(i)' = Rec(i)
  BY <1>2 DEF Rec
<1>4. \A i : Seg(i)' = Seg(i)
  BY DEF Seg
<1>5. Good' = Good
  BY <1>1, <1>3 DEF Good
<1> QED
  BY <1>1, <1>2, <1>3, <1>4, <1>5

LEMMA WriterKept ==
  ASSUME given' = given, UNCHANGED writerVars, Ordered
  PROVE  Ordered'
BY GivenKept DEF Ordered, writerVars

LEMMA ReturnedKept ==
  ASSUME given' = given, NEW s, NEW how
  PROVE  Returned(s, how)' = Returned(s, how)
<1>1. Whole(s)' = Whole(s)
  BY GivenKept DEF Whole
<1>2. Headless(s)' = Headless(s)
  BY GivenKept DEF Headless
<1>3. \A p : Spoiled(s[p])' = Spoiled(s[p])
  BY DEF Spoiled
<1> QED
  BY <1>1, <1>2, <1>3, GivenKept DEF Returned

LEMMA InitHolds == Init => IInv
<1> SUFFICES ASSUME Init PROVE IInv
  OBVIOUS
<1>1. /\ given \in [header : Headers, key : {"key", "short"}, dict : Dicts, cores : Cores,
                    chunks : 0..MaxChunks]
      /\ enc = "validate" /\ dec = "waiting" /\ sink = "old" /\ reader = Nobody /\ file = NoFile
      /\ read = 0 /\ reading = TRUE /\ fetched = {} /\ failed = FALSE
      /\ next = 0 /\ pending = <<>> /\ finalIndex = NoIndex /\ written = <<>>
      /\ writerPc = "idle" /\ finishOk = "none"
  BY DEF Init, WriterInit
<1>2. given.chunks \in Nat
  BY <1>1, ChunksAssumption
<1>3. TypeOK
  <2>1. DOMAIN file = {"header", "records", "tail"}
    BY <1>1 DEF NoFile
  <2>2. reader \in [key : {"key", "other", "short"}, alg : {"Blake3", "Sha256"}, cores : Cores \cup {1}]
    BY <1>1 DEF Nobody
  <2>3. enc \in EncPlaces /\ dec \in DecPlaces
    BY <1>1 DEF EncPlaces, DecPlaces
  <2>4. reading \in BOOLEAN /\ failed \in BOOLEAN /\ read \in Nat /\ fetched \subseteq 1..read
    BY <1>1
  <2>5. /\ next \in 0..(given.chunks + 1) /\ finalIndex \in {NoIndex, given.chunks}
        /\ writerPc \in {"idle", "flush", "drain", "done"} /\ finishOk \in {"none", "ok", "missing"}
        /\ sink \in {"old", "open"}
    BY <1>1, <1>2
  <2> QED
    BY <1>1, <2>1, <2>2, <2>3, <2>4, <2>5, Zenon DEF TypeOK
<1>4. Phases
  BY <1>1 DEF Phases
<1>5. Encoded
  <2>1. Records = <<>>
    BY <1>1 DEF Records, NoFile
  <2> QED
    BY <1>1, <2>1 DEF Encoded
<1>6. Stored
  BY <1>1 DEF Stored
<1>7. Ordered
  <2>1. Len(written) = next /\ written \in Seq({Seg(i) : i \in Indices})
    BY <1>1
  <2> QED
    BY <1>1, <2>1 DEF Ordered
<1>8. Accounted
  BY <1>1 DEF Accounted
<1>9. Ended
  BY <1>1 DEF Ended
<1> QED
  BY <1>3, <1>4, <1>5, <1>6, <1>7, <1>8, <1>9 DEF IInv

LEMMA EncryptKeeps ==
  ASSUME IInv, Encrypt
  PROVE  IInv'
<1>1. /\ given' = given /\ UNCHANGED <<storage, reader, dec, sink, decVars, writerVars>>
      /\ enc \in {"validate", "open", "derive", "profile", "header", "records"} /\ dec = "waiting"
  <2>1. enc \in {"validate", "open", "derive", "profile", "header", "records"}
    BY DEF Encrypt, ValidateEncrypt, OpenFile, SetupEncrypt, WriteHeader, WriteRecord, Interrupted
  <2>2. dec = "waiting"
    BY <2>1 DEF IInv, Phases
  <2> QED
    BY <2>1, <2>2 DEF Encrypt
<1>2. TypeOK /\ Phases /\ Encoded /\ Ordered /\ Accounted /\ Ended
  BY DEF IInv
<1>3. /\ read = 0 /\ reading /\ ~failed /\ fetched = {} /\ next = 0 /\ finalIndex = NoIndex
      /\ writerPc = "idle" /\ sink = "old"
  BY <1>1, <1>2 DEF Phases, TypeOK
<1>4. /\ enc' \in EncPlaces /\ DOMAIN file' = {"header", "records", "tail"}
      /\ Len(Records') \in Nat
      /\ Records' # <<>> => Records' \in Seq(Good)
      /\ \A p \in 1..Len(Records') : Records'[p] = Rec(p - 1)
      /\ enc' \in {"validate", "open", "derive", "profile", "header"} => Records' = <<>>
      /\ enc' \in {"records", "cut"} => Len(Records') <= given.chunks
      /\ enc' = "ok" => Len(Records') = given.chunks + 1
  <2>0. /\ Len(Records) \in Nat
        /\ Records # <<>> => Records \in Seq(Good)
        /\ \A p \in 1..Len(Records) : Records[p] = Rec(p - 1)
        /\ enc \in {"validate", "open", "derive", "profile", "header"} => Records = <<>>
        /\ enc \in {"records", "cut"} => Len(Records) <= given.chunks
        /\ enc = "ok" => Len(Records) = given.chunks + 1
    BY <1>1, <1>2 DEF Encoded
  <2>d. DOMAIN file = {"header", "records", "tail"} /\ given.chunks \in Nat
    BY <1>2, GivenFacts DEF TypeOK
  <2>e. Len(<<>>) = 0
    OBVIOUS
  <2>1. CASE ValidateEncrypt
    <3>1. file' = file /\ enc = "validate" /\ enc' \in {"open", "err"}
      BY <2>1 DEF ValidateEncrypt
    <3>2. Records' = Records
      BY <3>1 DEF Records
    <3> QED
      BY <2>0, <2>d, <3>1, <3>2 DEF EncPlaces
  <2>2. CASE OpenFile
    <3>1. enc = "open" /\ enc' \in {"derive", "err"} /\ (file' = file \/ file' = NoFile)
      BY <2>2 DEF OpenFile
    <3>2. Records' = <<>> /\ DOMAIN file' = {"header", "records", "tail"}
      BY <2>0, <2>d, <3>1 DEF Records, NoFile
    <3> QED
      BY <2>d, <2>e, <3>1, <3>2 DEF EncPlaces
  <2>3. CASE SetupEncrypt
    <3>1. /\ file' = file /\ enc \in {"derive", "profile"}
          /\ enc' \in {"profile", "err", "panic", "header"}
      BY <2>3 DEF SetupEncrypt, Setup
    <3>2. Records' = Records
      BY <3>1 DEF Records
    <3> QED
      BY <2>0, <2>d, <3>1, <3>2 DEF EncPlaces
  <2>4. CASE WriteHeader
    <3>1. enc = "header" /\ enc' \in {"records", "err"}
      BY <2>4 DEF WriteHeader
    <3>2. file' = file \/ file' = [file EXCEPT !.header = EncodeHeader(given.header).ok]
      BY <2>4 DEF WriteHeader
    <3>3. Records' = <<>> /\ DOMAIN file' = {"header", "records", "tail"}
      BY <2>0, <2>d, <3>1, <3>2 DEF Records
    <3> QED
      BY <2>d, <2>e, <3>1, <3>3 DEF EncPlaces
  <2>5. CASE WriteRecord
    <3> DEFINE n == Len(Records)
    <3>1. /\ enc = "records" /\ n <= given.chunks /\ n \in Nat
          /\ Records' = Append(Records, Rec(n)) /\ DOMAIN file' = {"header", "records", "tail"}
          /\ enc' = IF n = given.chunks THEN "ok" ELSE "records"
      <4>1. enc = "records" /\ enc' = IF NextRecord.header.final THEN "ok" ELSE "records"
        BY <2>5 DEF WriteRecord
      <4>2. file' = [file EXCEPT !.records = Append(@, NextRecord)]
        BY <2>5 DEF WriteRecord
      <4>3. Records' = Append(Records, NextRecord) /\ DOMAIN file' = {"header", "records", "tail"}
        BY <2>d, <4>2 DEF Records
      <4> QED
        BY <2>0, <4>1, <4>3, NextIsRec
    <3>2. Records \in Seq(Good)
      <4>1. <<>> \in Seq(Good)
        OBVIOUS
      <4> QED
        BY <2>0, <4>1
    <3>3. Rec(n) \in Good
      BY <1>2, <3>1, GivenFacts DEF Good
    <3> HIDE DEF n
    <3>4. /\ Records' \in Seq(Good) /\ Len(Records') = n + 1
          /\ \A p \in 1..(n + 1) : Records'[p] = IF p = n + 1 THEN Rec(n) ELSE Records[p]
      BY <3>1, <3>2, <3>3 DEF n
    <3>5. \A p \in 1..(n + 1) : Records'[p] = Rec(p - 1)
      <4> SUFFICES ASSUME NEW p \in 1..(n + 1) PROVE Records'[p] = Rec(p - 1)
        OBVIOUS
      <4>1. CASE p = n + 1
        <5>1. p - 1 = n
          BY <3>1, <4>1
        <5> QED
          BY <3>4, <4>1, <5>1
      <4>2. CASE p # n + 1
        <5>1. p \in 1..n
          BY <3>1, <4>2
        <5> QED
          BY <2>0, <3>4, <4>2, <5>1 DEF n
      <4> QED
        BY <4>1, <4>2
    <3> QED
      BY <2>d, <3>1, <3>4, <3>5 DEF EncPlaces
  <2>6. CASE Interrupted
    <3>1. enc \in {"header", "records"} /\ enc' = "cut"
      BY <2>6 DEF Interrupted
    <3>2. \E t : file' = [file EXCEPT !.tail = t]
      BY <2>6 DEF Interrupted
    <3>3. Records' = Records /\ DOMAIN file' = {"header", "records", "tail"}
      BY <2>d, <3>2 DEF Records
    <3> QED
      BY <2>0, <2>d, <2>e, <3>1, <3>3 DEF EncPlaces
  <2> QED
    BY <2>1, <2>2, <2>3, <2>4, <2>5, <2>6 DEF Encrypt
<1>5. TypeOK'
  BY <1>1, <1>2, <1>4 DEF TypeOK, decVars, writerVars
<1>6. Phases'
  BY <1>1, <1>2 DEF Phases, decVars, writerVars
<1>7. Encoded'
  BY <1>1, <1>4, GivenKept DEF Encoded
<1>8. Stored'
  BY <1>1 DEF Stored
<1>9. Ordered'
  BY <1>1, <1>2, WriterKept
<1>10. Accounted'
  BY <1>1, <1>3 DEF Accounted, decVars, writerVars
<1>11. Ended'
  BY <1>1, <1>3 DEF Ended, writerVars
<1> QED
  BY <1>5, <1>6, <1>7, <1>8, <1>9, <1>10, <1>11 DEF IInv

LEMMA EncodedOriginal ==
  ASSUME IInv, dec = "waiting", enc \in {"ok", "cut"}
  PROVE  Original(Records)
<1>1. /\ Len(Records) \in Nat
      /\ Records # <<>> => Records \in Seq(Good)
      /\ \A p \in 1..Len(Records) : Records[p] = Rec(p - 1)
      /\ enc = "cut" => Len(Records) <= given.chunks
      /\ enc = "ok" => Len(Records) = given.chunks + 1
  BY DEF IInv, Encoded
<1>2. given.chunks \in Nat
  BY GivenFacts DEF IInv
<1>3. <<>> \in Seq(Good)
  OBVIOUS
<1>4. DOMAIN Records = 1..Len(Records)
  BY <1>1, <1>3
<1> QED
  BY <1>1, <1>2, <1>4 DEF Original

\* Whatever the storage makes of a stream.
LEMMA AlterationsReturned ==
  ASSUME TypeOK, Original(Records), NEW how \in DOMAIN Alterations, NEW f \in Alterations[how]
  PROVE  DOMAIN f = {"header", "records", "tail"} /\ Returned(f.records, how)
<1> DEFINE s == Records
<1>0. /\ DOMAIN file = {"header", "records", "tail"} /\ Original(s) /\ TypeOK
      /\ Len(s) \in Nat /\ DOMAIN s = 1..Len(s)
      /\ given.chunks \in Nat
  BY GivenFacts DEF TypeOK, Original
<1>a. file.records = s /\ Positions = DOMAIN s
  BY DEF Records, Positions
<1>b. ASSUME NEW t, f = [file EXCEPT !.records = t]
      PROVE  DOMAIN f = {"header", "records", "tail"} /\ f.records = t
  BY <1>0, <1>b
<1>1. CASE how = "kept"
  <2>1. f = file
    BY <1>1 DEF Alterations
  <2> QED
    BY <1>0, <1>a, <2>1, OriginalReturned
<1>2. CASE how = "header"
  <2>1. \E h : f = [file EXCEPT !.header = h]
    <3>1. f \in HeaderAltered
      BY <1>2 DEF Alterations
    <3> QED
      BY <3>1 DEF HeaderAltered
  <2>2. f.records = s /\ DOMAIN f = {"header", "records", "tail"}
    BY <1>0, <1>a, <2>1
  <2> QED
    BY <1>0, <2>2, OriginalReturned
<1>3. CASE how = "cut"
  <2>1. f \in Cut
    BY <1>3 DEF Alterations
  <2>2. CASE f = NoFile
    <3>1. f.records = <<>> /\ DOMAIN f = {"header", "records", "tail"}
      BY <2>2 DEF NoFile
    <3>2. Original(<<>>)
      BY <1>0 DEF Original
    <3> QED
      BY <1>0, <3>1, <3>2, OriginalReturned
  <2> DEFINE Front(p, t) == [file EXCEPT !.records = SubSeq(s, 1, p - 1), !.tail = t]
  <2>3. ASSUME NEW p \in DOMAIN s, NEW t, f = Front(p, t)
        PROVE  DOMAIN f = {"header", "records", "tail"} /\ Returned(f.records, how)
    <3>1. f.records = SubSeq(s, 1, p - 1) /\ DOMAIN f = {"header", "records", "tail"}
      BY <1>0, <2>3
    <3>2. Original(SubSeq(s, 1, p - 1))
      BY <1>0, CutOriginal
    <3> QED
      BY <1>0, <3>1, <3>2, OriginalReturned
  <2>4. Cut = {Front(p, t) : p \in Positions, t \in {"none", "header"}}
               \cup {Front(p, "wire") : p \in {q \in Positions : Records[q].wire # <<>>}} \cup {NoFile}
    BY DEF Cut
  <2> HIDE DEF Front
  <2>5. f = NoFile \/ \E p \in DOMAIN s : \E t : f = Front(p, t)
    BY <1>a, <2>1, <2>4
  <2> QED
    BY <2>2, <2>3, <2>5
<1>4. CASE how = "segment"
  <2>1. PICK p \in DOMAIN s, e \in SegmentFields \cup {"headerCrc32"} :
          f = [file EXCEPT !.records[p].header[e] = OtherSegment(s[p].header, e)]
    <3>1. f \in SegmentAltered
      BY <1>4 DEF Alterations
    <3> QED
      BY <1>a, <3>1 DEF SegmentAltered
  <2> DEFINE h == [s[p].header EXCEPT ![e] = OtherSegment(s[p].header, e)]
             r == [s[p] EXCEPT !.header = h]
             t == [s EXCEPT ![p] = r]
  <2>2. f = [file EXCEPT !.records = t]
    BY <1>a, <2>1
  <2>3. p - 1 \in Nat /\ s[p] = Rec(p - 1)
    BY <1>0 DEF Original
  <2>4. r.header = h
    BY <2>3, RecordFacts
  <2>5. h = [Rec(p - 1).header EXCEPT ![e] = OtherSegment(Rec(p - 1).header, e)]
    BY <2>3
  <2> HIDE DEF h, r
  <2>6. Spoiled(r)
    BY <2>3, <2>4, <2>5, OtherHeaderSpoiled
  <2>7. Returned(t, how)
    BY <1>0, <2>6, SpoiledReturned
  <2> QED
    BY <1>b, <2>2, <2>7
<1>5. CASE how = "wire"
  <2>p. PICK p \in DOMAIN s :
          /\ s[p].wire # <<>>
          /\ \E v \in Restretched(s[p].wire) : f = [file EXCEPT !.records[p].wire = v]
    <3>1. f \in WireAltered
      BY <1>5 DEF Alterations
    <3> QED
      BY <1>a, <3>1 DEF WireAltered
  <2>1. PICK v \in Restretched(s[p].wire) : f = [file EXCEPT !.records[p].wire = v]
    BY <2>p
  <2> DEFINE r == [s[p] EXCEPT !.wire = v]
             t == [s EXCEPT ![p] = r]
  <2>2. f = [file EXCEPT !.records = t]
    BY <1>a, <2>1
  <2>3. p - 1 \in Nat /\ s[p] = Rec(p - 1)
    BY <1>0 DEF Original
  <2>4. r.header = Rec(p - 1).header /\ r.wire = v
    BY <2>3, RecordFacts
  <2> HIDE DEF r
  <2>5. Spoiled(r)
    <3>1. v # Rec(p - 1).wire
      BY <2>p, <2>3, RestretchedDiffers
    <3> QED
      BY <2>p, <2>3, <2>4, <3>1, OtherWireSpoiled
  <2>6. Returned(t, how)
    BY <1>0, <2>5, SpoiledReturned
  <2> QED
    BY <1>b, <2>2, <2>6
<1>6. CASE how = "swapped"
  <2> DEFINE Swap(p, q) == [file EXCEPT !.records[p] = Records[q], !.records[q] = Records[p]]
  <2>1. Swapped = {Swap(p, q) : p \in Positions, q \in Positions}
    BY DEF Swapped
  <2>2. ASSUME NEW p \in DOMAIN s, NEW q \in DOMAIN s, f = Swap(p, q)
        PROVE  DOMAIN f = {"header", "records", "tail"} /\ Returned(f.records, how)
    <3> DEFINE t == [s EXCEPT ![p] = s[q], ![q] = s[p]]
    <3>1. f = [file EXCEPT !.records = t]
      BY <1>0, <1>a, <2>2
    <3>2. Returned(t, how)
      BY <1>0, SwappedReturned
    <3> QED
      BY <1>b, <3>1, <3>2
  <2> HIDE DEF Swap
  <2>3. PICK p \in DOMAIN s, q \in DOMAIN s : f = Swap(p, q)
    BY <1>a, <1>6, <2>1 DEF Alterations
  <2> QED
    BY <2>2, <2>3
<1>7. CASE how = "repeated"
  <2>1. PICK a \in DOMAIN s, b \in DOMAIN s :
          b <= a /\ f = [file EXCEPT !.records = SubSeq(s, 1, a) \o SubSeq(s, b, Len(s))]
    <3>1. f \in Repeated
      BY <1>7 DEF Alterations
    <3>2. PICK p \in Positions \X Positions :
            p[2] <= p[1] /\ f = [file EXCEPT !.records = SubSeq(@, 1, p[1]) \o SubSeq(@, p[2], Len(@))]
      BY <3>1 DEF Repeated
    <3>3. p[1] \in DOMAIN s /\ p[2] \in DOMAIN s
      BY <1>a, <3>2
    <3> QED
      BY <1>a, <3>2, <3>3
  <2> DEFINE n == Len(s)
             t == SubSeq(s, 1, a) \o SubSeq(s, b, n)
  <2>2. a \in 0..n /\ b \in 1..(n + 1) /\ n \in Nat /\ DOMAIN s = 1..n /\ b <= a
    BY <1>0, <2>1
  <2>3. /\ Len(t) = a + (n - b + 1) /\ DOMAIN t = 1..(a + (n - b + 1))
        /\ \A q \in 1..a : t[q] = s[q]
        /\ \A q \in b..n : t[a + (q - b + 1)] = s[q]
        /\ \A p \in DOMAIN t : \E q \in DOMAIN s : t[p] = s[q]
    BY <2>2, Joined
  <2> HIDE DEF t, n
  <2>4. \A q \in DOMAIN s : \E p \in DOMAIN t : t[p] = s[q]
    <3> SUFFICES ASSUME NEW q \in DOMAIN s PROVE \E p \in DOMAIN t : t[p] = s[q]
      OBVIOUS
    <3>1. CASE q <= a
      BY <2>2, <2>3, <3>1
    <3>2. CASE q > a
      <4>1. q \in b..n /\ a + (q - b + 1) \in DOMAIN t
        BY <2>2, <2>3, <3>2
      <4> QED
        BY <2>3, <4>1
    <3> QED
      BY <2>2, <3>1, <3>2
  <2>5. Len(t) \in Nat /\ DOMAIN t = 1..Len(t)
    BY <2>2, <2>3
  <2>6. Returned(t, how)
    BY <1>0, <2>3, <2>4, <2>5, ShuffledReturned
  <2>7. f = [file EXCEPT !.records = t]
    BY <2>1 DEF t, n
  <2> QED
    BY <1>b, <2>6, <2>7
<1>8. CASE how = "lost"
  <2>1. PICK p \in DOMAIN s : f = [file EXCEPT !.records = Without(s, p)]
    <3>1. f \in Lost
      BY <1>8 DEF Alterations
    <3> QED
      BY <1>a, <3>1 DEF Lost
  <2> DEFINE n == Len(s)
             a == p - 1
             b == p + 1
             t == SubSeq(s, 1, a) \o SubSeq(s, b, n)
  <2>2. /\ a \in 0..n /\ b \in 1..(n + 1) /\ n \in Nat /\ DOMAIN s = 1..n /\ b <= n + 1
        /\ Len(s) = n
    BY <1>0
  <2> HIDE DEF a, b, n
  <2>3. /\ Len(t) = a + (n - b + 1) /\ DOMAIN t = 1..(a + (n - b + 1))
        /\ \A q \in 1..a : t[q] = s[q]
        /\ \A q \in b..n : t[a + (q - b + 1)] = s[q]
        /\ \A k \in DOMAIN t : \E q \in DOMAIN s : t[k] = s[q]
    BY <2>2, Joined, ZenonT(30)
  <2> HIDE DEF t, n
  <2>4. Len(t) \in Nat /\ DOMAIN t = 1..Len(t)
    BY <2>2, <2>3
  <2>5. \A k \in DOMAIN t : t[k] \in Good
    BY <1>0, <2>3, OriginalGood
  <2>6. Returned(t, how)
    BY <1>8, <2>4, <2>5 DEF Returned
  <2>7. f = [file EXCEPT !.records = t]
    BY <2>1 DEF t, n, a, b, Without
  <2> QED
    BY <1>b, <2>6, <2>7
<1>9. how \in {"kept", "header", "cut", "segment", "wire", "swapped", "repeated", "lost"}
  BY DEF Alterations
<1> QED
  BY <1>1, <1>2, <1>3, <1>4, <1>5, <1>6, <1>7, <1>8, <1>9

LEMMA StoreKeeps ==
  ASSUME IInv, Store
  PROVE  IInv'
<1>1. /\ given' = given /\ enc' = enc /\ UNCHANGED <<sink, decVars, writerVars>>
      /\ enc \in {"ok", "cut"} /\ dec = "waiting" /\ dec' = "validate"
  BY DEF Store, encVars
<1>2. TypeOK /\ Phases /\ Encoded /\ Ordered /\ Accounted /\ Ended
  BY DEF IInv
<1>3. /\ read = 0 /\ reading /\ ~failed /\ fetched = {} /\ next = 0 /\ finalIndex = NoIndex
      /\ writerPc = "idle" /\ sink = "old"
  BY <1>1, <1>2 DEF Phases, TypeOK
<1>4. Original(Records)
  BY <1>1, EncodedOriginal
<1>5. PICK how \in DOMAIN Alterations :
        /\ storage' = how /\ file' \in Alterations[how]
        /\ reader' \in IF how = "kept"
             THEN [key : {"key", "other", "short"}, alg : {"Blake3", "Sha256"}, cores : Cores]
             ELSE [key : {"key"}, alg : {"Blake3"}, cores : Cores]
  BY DEF Store
<1>6. DOMAIN file' = {"header", "records", "tail"} /\ Returned(file'.records, how)
  BY <1>2, <1>4, <1>5, AlterationsReturned
<1>7. reader' \in [key : {"key", "other", "short"}, alg : {"Blake3", "Sha256"}, cores : Cores \cup {1}]
  BY <1>5
<1>8. TypeOK'
  BY <1>1, <1>2, <1>6, <1>7 DEF TypeOK, decVars, writerVars, DecPlaces
<1>9. Phases'
  BY <1>1, <1>3 DEF Phases, decVars, writerVars
<1>10. Encoded'
  BY <1>1 DEF Encoded
<1>11. Stored'
  <2>1. \A s : Returned(s, how)' = Returned(s, how)
    BY <1>1, ReturnedKept
  <2>2. Returned(Records, storage)' = Returned(file'.records, how)
    BY <1>1, <1>5, GivenKept DEF Returned, Whole, Headless, Records, Spoiled
  <2> QED
    BY <1>6, <2>2 DEF Stored
<1>12. Ordered'
  BY <1>1, <1>2, WriterKept
<1>13. Accounted'
  <2>1. Len(Records') \in Nat
    BY <1>6 DEF Returned, Records
  <2>2. Len(Records)' \in Nat
    BY <2>1
  <2> QED
    BY <1>1, <1>3, <2>2 DEF Accounted, decVars, writerVars
<1>14. Ended'
  BY <1>1, <1>3 DEF Ended, writerVars
<1> QED
  BY <1>8, <1>9, <1>10, <1>11, <1>12, <1>13, <1>14 DEF IInv

-----------------------------------------------------------------------------
(* Decryption preserves the invariant.                                     *)

LEMMA RecordsKept ==
  ASSUME IInv, dec # "waiting", dec' # "waiting", given' = given, file' = file, storage' = storage
  PROVE  Encoded' /\ Stored' /\ Records' = Records
<1>1. Records' = Records
  BY DEF Records
<1>2. Returned(Records, storage)' = Returned(Records, storage)
  BY <1>1, GivenKept DEF Returned, Whole, Headless, Spoiled
<1> QED
  BY <1>1, <1>2 DEF IInv, Encoded, Stored

LEMMA AccountedKept ==
  ASSUME IInv, dec # "waiting", dec' # "waiting", given' = given, file' = file,
         UNCHANGED decVars, UNCHANGED writerVars
  PROVE  Accounted'
<1>1. Records' = Records
  BY DEF Records
<1>2. \A p : Arrived(p)' = Arrived(p)
  BY <1>1, GivenKept DEF Arrived, writerVars
<1> QED
  BY <1>1, <1>2, GivenKept DEF IInv, Accounted, decVars, writerVars

\* The steps of the call outside of the pipeline.
LEMMA CallKeeps ==
  ASSUME IInv, UNCHANGED <<encVars, file, storage, reader, decVars, writerVars>>,
         ValidateDecrypt \/ ReadHeader \/ OpenSink \/ SetupDecrypt \/ Return
  PROVE  IInv'
<1>1. /\ given' = given /\ enc' = enc /\ file' = file /\ storage' = storage /\ reader' = reader
      /\ UNCHANGED decVars /\ UNCHANGED writerVars
  BY DEF encVars
<1>2. TypeOK /\ Phases /\ Encoded /\ Ordered /\ Accounted /\ Ended
  BY DEF IInv
<1>3. /\ dec # "waiting" /\ dec' # "waiting" /\ dec' \in DecPlaces /\ sink' \in {"old", "open"}
      /\ dec' \in {"validate", "header", "open"} => sink' = "old"
      /\ dec' = "ok" => ~failed /\ writerPc = "done" /\ finishOk = "ok"
  <2>0. sink \in {"old", "open"}
    BY <1>2 DEF TypeOK
  <2>1. CASE ValidateDecrypt
    <3>1. dec = "validate" /\ dec' \in {"header", "err"} /\ sink' = sink /\ sink = "old"
      BY <1>2, <2>1 DEF ValidateDecrypt, Phases
    <3> QED
      BY <3>1 DEF DecPlaces
  <2>2. CASE ReadHeader
    <3>1. dec = "header" /\ dec' \in {"open", "err"} /\ sink' = sink /\ sink = "old"
      BY <1>2, <2>2 DEF ReadHeader, Phases
    <3> QED
      BY <3>1 DEF DecPlaces
  <2>3. CASE OpenSink
    <3>1. dec = "open" /\ dec' \in {"derive", "err"} /\ sink' \in {"open", sink}
      BY <2>3 DEF OpenSink
    <3> QED
      BY <2>0, <3>1 DEF DecPlaces
  <2>4. CASE SetupDecrypt
    <3>1. /\ dec \in {"derive", "profile"} /\ dec' \in {"profile", "err", "panic", "records"}
          /\ sink' = sink
      BY <2>4 DEF SetupDecrypt, Setup
    <3> QED
      BY <2>0, <3>1 DEF DecPlaces
  <2>5. CASE Return
    <3>1. /\ dec = "records" /\ dec' \in {"err", "ok"} /\ sink' = sink
          /\ writerPc = "done" /\ dec' = "ok" => ~failed /\ finishOk = "ok"
      BY <2>5 DEF Return
    <3>2. dec' = "ok" => ~failed /\ writerPc = "done" /\ finishOk = "ok"
      BY <2>5, <3>1 DEF Return
    <3> QED
      BY <2>0, <3>1, <3>2 DEF DecPlaces
  <2> QED
    BY <2>1, <2>2, <2>3, <2>4, <2>5
<1>4. TypeOK'
  BY <1>1, <1>2, <1>3 DEF TypeOK, decVars, writerVars
<1>5. Phases'
  BY <1>1, <1>2, <1>3 DEF Phases, decVars, writerVars
<1>6. Encoded' /\ Stored'
  BY <1>1, <1>3, RecordsKept
<1>7. Ordered'
  BY <1>1, <1>2, WriterKept
<1>8. Accounted'
  BY <1>1, <1>3, AccountedKept
<1>9. Ended'
  BY <1>1, <1>2, <1>3 DEF Ended, decVars, writerVars
<1> QED
  BY <1>4, <1>5, <1>6, <1>7, <1>8, <1>9 DEF IInv

\* What the pipeline leaves alone.
LEMMA PipelineFrame ==
  ASSUME IInv, Pipeline, UNCHANGED <<encVars, file, storage, reader>>
  PROVE  /\ given' = given /\ enc' = enc /\ file' = file /\ storage' = storage /\ reader' = reader
         /\ dec = "records" /\ dec' = "records" /\ sink' = sink /\ Records' = Records
         /\ Encoded' /\ Stored' /\ Phases'
<1>1. /\ given' = given /\ enc' = enc /\ file' = file /\ storage' = storage /\ reader' = reader
      /\ dec = "records" /\ dec' = "records" /\ sink' = sink
  BY DEF Pipeline, encVars
<1>2. Encoded' /\ Stored' /\ Records' = Records
  BY <1>1, RecordsKept
<1>3. Phases'
  BY <1>1 DEF IInv, Phases
<1> QED
  BY <1>1, <1>2, <1>3

LEMMA FetchKeeps ==
  ASSUME IInv, Pipeline, UNCHANGED <<encVars, file, storage, reader>>, Fetch
  PROVE  IInv'
<1>1. /\ given' = given /\ enc' = enc /\ file' = file /\ reader' = reader
      /\ dec = "records" /\ dec' = "records" /\ sink' = sink /\ Records' = Records
      /\ Encoded' /\ Stored' /\ Phases'
  BY PipelineFrame
<1>2. TypeOK /\ Ordered /\ Accounted /\ Ended
  BY DEF IInv
<1>3. reading /\ ~failed /\ UNCHANGED writerVars
  BY DEF Fetch
<1>4. read \in Nat /\ fetched \subseteq 1..read /\ Len(Records) \in Nat /\ read <= Len(Records)
  <2>1. Len(Records) \in Nat
    BY <1>1 DEF IInv, Stored, Returned
  <2> QED
    BY <1>1, <1>2, <2>1 DEF TypeOK, Accounted
<1>5. \A p : Arrived(p)' = Arrived(p)
  BY <1>1, <1>3, GivenKept DEF Arrived, writerVars
<1>6. Ordered'
  BY <1>1, <1>2, <1>3, WriterKept
<1>7. CASE read < Len(Records)
  <2> DEFINE h == Records[read + 1].header
  <2>1. /\ read' = read + 1
        /\ \/ /\ h.headerCrc32 = SegmentCrc(h) /\ fetched' = fetched \cup {read + 1}
              /\ reading' = TRUE /\ failed' = FALSE
           \/ /\ fetched' = fetched /\ reading' = FALSE /\ failed' = TRUE
    <3> DEFINE good == h.headerCrc32 = SegmentCrc(h)
    <3>1. /\ read' = read + 1
          /\ fetched' = (IF good THEN fetched \cup {read + 1} ELSE fetched)
          /\ reading' = good /\ failed' = ~good
      BY <1>7 DEF Fetch
    <3>2. good \in BOOLEAN
      OBVIOUS
    <3> QED
      BY <3>1, <3>2
  <2>2. read' \in Nat /\ fetched' \subseteq 1..read' /\ reading' \in BOOLEAN /\ failed' \in BOOLEAN
    <3> HIDE DEF h
    <3>1. \A n \in 1..read : n \in 1..(read + 1)
      BY <1>4
    <3>2. read + 1 \in Nat /\ read + 1 \in 1..(read + 1)
      BY <1>4
    <3>3. fetched' \subseteq fetched \cup {read + 1}
      BY <2>1
    <3>4. reading' \in BOOLEAN /\ failed' \in BOOLEAN /\ read' = read + 1
      BY <2>1
    <3> QED
      BY <1>4, <3>1, <3>2, <3>3, <3>4
  <2>3. TypeOK'
    BY <1>1, <1>2, <1>3, <2>2 DEF TypeOK, writerVars
  <2>4. /\ read' <= Len(Records)
        /\ \A p \in fetched' : Records[p].header.headerCrc32 = SegmentCrc(Records[p].header)
        /\ ~failed' => \A p \in 1..read' : p \in fetched' \/ Arrived(p)
        /\ ~failed' /\ ~reading' => read' = Len(Records)
    <3>1. CASE failed'
      <4>1. read' <= Len(Records)
        BY <1>4, <1>7, <2>1
      <4>2. \A p \in fetched' : p \in fetched \/ (p = read + 1 /\ h.headerCrc32 = SegmentCrc(h))
        BY <2>1
      <4>3. \A p \in fetched' : Records[p].header.headerCrc32 = SegmentCrc(Records[p].header)
        BY <1>2, <4>2 DEF Accounted
      <4> QED
        BY <3>1, <4>1, <4>3
    <3>2. CASE ~failed'
      <4>1. /\ h.headerCrc32 = SegmentCrc(h) /\ fetched' = fetched \cup {read + 1} /\ reading'
        BY <2>1, <3>2
      <4>2. \A p \in 1..read' : p \in 1..read \/ p = read + 1
        BY <1>4, <2>1
      <4>3. \A p \in 1..read' : p \in fetched' \/ Arrived(p)
        BY <1>2, <1>3, <4>1, <4>2 DEF Accounted
      <4> QED
        BY <1>2, <1>4, <1>7, <2>1, <4>1, <4>3 DEF Accounted
    <3> QED
      BY <3>1, <3>2
  <2>5. Accounted'
    BY <1>1, <1>2, <1>3, <1>5, <2>4, GivenKept DEF Accounted, writerVars
  <2>6. Ended'
    BY <1>1, <1>2, <1>3 DEF Ended, writerVars
  <2> QED
    BY <1>1, <1>6, <2>3, <2>5, <2>6 DEF IInv
<1>8. CASE ~(read < Len(Records))
  <2>1. reading' = FALSE /\ failed' \in BOOLEAN /\ read' = read /\ fetched' = fetched
    BY <1>8 DEF Fetch
  <2>2. TypeOK'
    BY <1>1, <1>2, <1>3, <2>1 DEF TypeOK, writerVars
  <2>3. read = Len(Records)
    BY <1>4, <1>8
  <2>4. Accounted'
    BY <1>1, <1>2, <1>3, <1>5, <2>1, <2>3, GivenKept DEF Accounted, writerVars
  <2>5. Ended'
    BY <1>1, <1>2, <1>3 DEF Ended, writerVars
  <2> QED
    BY <1>1, <1>6, <2>2, <2>4, <2>5 DEF IInv
<1> QED
  BY <1>7, <1>8

\* What a worker makes of a record, and what it sends to the writer.
Decoded(p) == DecryptSegment(Context(reader.key, file.header, reader.alg), Records[p])
Sent(p) ==
  [index |-> Records[p].header.index, chunk |-> Decoded(p).ok,
   kind |-> IF Records[p].header.final /\ Decoded(p).ok = <<>> THEN "final" ELSE "data"]

LEMMA DecodeCases ==
  ASSUME NEW p, Decode(p)
  PROVE  /\ fetched' = fetched \ {p} /\ read' = read /\ reading' = reading
         /\ \/ IsOk(Decoded(p)) /\ Push(Sent(p)) /\ failed' = failed
            \/ ~IsOk(Decoded(p)) /\ failed' = TRUE /\ UNCHANGED writerVars
<1>1. fetched' = fetched \ {p} /\ read' = read /\ reading' = reading
  BY DEF Decode
<1>2. IF IsOk(Decoded(p)) THEN Push(Sent(p)) /\ UNCHANGED failed
                          ELSE failed' = TRUE /\ UNCHANGED writerVars
  BY Zenon DEF Decode, Decoded, Sent
<1> QED
  BY <1>1, <1>2

\* A segment that is decrypted without an error is one of the input's.
LEMMA DecodeIsSeg ==
  ASSUME IInv, dec = "records", NEW p \in fetched, IsOk(Decoded(p))
  PROVE  \E i \in Indices : Records[p] = Rec(i) /\ Sent(p) = Seg(i)
<1>1. TypeOK /\ Stored /\ Accounted
  BY DEF IInv
<1>2. p \in DOMAIN Records
  <2>1. read <= Len(Records) /\ read \in Nat /\ fetched \subseteq 1..read
    BY <1>1 DEF Accounted, TypeOK
  <2>2. Len(Records) \in Nat /\ DOMAIN Records = 1..Len(Records)
    BY <1>1 DEF Stored, Returned
  <2> QED
    BY <2>1, <2>2
<1>3. Records[p].header.headerCrc32 = SegmentCrc(Records[p].header)
  BY <1>1 DEF Accounted
<1>4. ~Spoiled(Records[p])
  <2> DEFINE x == Records[p]
             d == Context(reader.key, file.header, reader.alg)
  <2>1. x.header.headerCrc32 = SegmentCrc(x.header) /\ Decoded(p) = DecryptSegment(d, x)
    BY <1>3, Zenon DEF Decoded
  <2> HIDE DEF x, d
  <2>2. Spoiled(x) => ~IsOk(DecryptSegment(d, x))
    BY <2>1, DecryptSpoiled
  <2> QED
    BY <2>1, <2>2 DEF x
<1>5. PICK i \in Indices : Records[p] = Rec(i)
  BY <1>1, <1>2, <1>4 DEF Stored, Returned, Good
<1>6. Decoded(p).ok = Seg(i).chunk
  <2> DEFINE d == Context(reader.key, file.header, reader.alg)
  <2>1. Decoded(p) = DecryptSegment(d, Rec(i))
    BY <1>5, Zenon DEF Decoded
  <2> HIDE DEF d
  <2>2. IsOk(DecryptSegment(d, Rec(i))) => DecryptSegment(d, Rec(i)).ok = Seg(i).chunk
    BY DecryptRec
  <2> QED
    BY <2>1, <2>2
<1>7. Rec(i).header.index = i /\ (Rec(i).header.final <=> i = given.chunks)
  BY RecordFacts
<1>8. Chunk(i + 1) # <<>>
  BY ChunkFacts
<1>9. Sent(p) = Seg(i)
  <2>1. CASE i = given.chunks
    <3>1. Decoded(p).ok = <<>>
      BY <1>6, <2>1 DEF Seg
    <3> QED
      BY <1>5, <1>7, <2>1, <3>1, Zenon DEF Seg, Sent
  <2>2. CASE i # given.chunks
    <3>1. Decoded(p).ok = Chunk(i + 1)
      BY <1>6, <2>2 DEF Seg
    <3> QED
      BY <1>5, <1>7, <2>2, <3>1, Zenon DEF Seg, Sent
  <2> QED
    BY <2>1, <2>2
<1> QED
  BY <1>5, <1>9

LEMMA DecodeKeeps ==
  ASSUME IInv, Pipeline, UNCHANGED <<encVars, file, storage, reader>>,
         NEW p \in fetched, Decode(p)
  PROVE  IInv'
<1>1. /\ given' = given /\ enc' = enc /\ file' = file /\ reader' = reader
      /\ dec = "records" /\ dec' = "records" /\ sink' = sink /\ Records' = Records
      /\ Encoded' /\ Stored' /\ Phases'
  BY PipelineFrame
<1>2. TypeOK /\ Ordered /\ Accounted /\ Ended
  BY DEF IInv
<1>3. fetched' = fetched \ {p} /\ read' = read /\ reading' = reading
  BY DecodeCases
<1>4. CASE ~IsOk(Decoded(p))
  <2>1. failed' = TRUE /\ UNCHANGED writerVars
    BY <1>4, DecodeCases
  <2>2. TypeOK'
    BY <1>1, <1>2, <1>3, <2>1 DEF TypeOK, writerVars
  <2>3. Ordered'
    BY <1>1, <1>2, <2>1, WriterKept
  <2>4. Accounted'
    BY <1>1, <1>2, <1>3, <2>1, GivenKept DEF Accounted, writerVars
  <2>5. Ended'
    BY <1>1, <1>2, <2>1 DEF Ended, writerVars
  <2> QED
    BY <1>1, <2>2, <2>3, <2>4, <2>5 DEF IInv
<1>5. CASE IsOk(Decoded(p))
  <2> DEFINE s == Sent(p)
  <2>1. Push(s) /\ failed' = failed
    BY <1>5, DecodeCases
  <2>2. PICK i \in Indices : Records[p] = Rec(i) /\ s = Seg(i)
    BY <1>1, <1>5, DecodeIsSeg
  <2> HIDE DEF s
  <2>3. s.index = i /\ (s.kind = "final" <=> i = given.chunks)
    BY <2>2 DEF Seg
  <2>4. /\ writerPc = "idle" /\ writerPc' = "flush"
        /\ finalIndex' = IF i = given.chunks THEN i ELSE finalIndex
        /\ pending' = Insert(pending, s)
        /\ next' = next /\ written' = written /\ finishOk' = finishOk
    BY <2>1, <2>3 DEF Push
  <2>5. /\ DOMAIN pending' = DOMAIN pending \cup {i} /\ pending'[i] = Seg(i)
        /\ \A j \in DOMAIN pending : j # i => pending'[j] = pending[j]
    BY <2>2, <2>3, <2>4 DEF Insert
  <2>6. TypeOK'
    BY <1>1, <1>2, <1>3, <2>1, <2>4 DEF TypeOK
  <2>7. Ordered'
    <3>1. \A j \in DOMAIN pending' : j \in Indices /\ pending'[j] = Seg(j)
      BY <1>2, <2>5 DEF Ordered
    <3> QED
      BY <1>1, <1>2, <2>4, <3>1, GivenKept DEF Ordered
  <2>8. Accounted'
    <3>1. \A q : Arrived(q) => Arrived(q)'
      <4> SUFFICES ASSUME NEW q, Arrived(q) PROVE Arrived(q)'
        OBVIOUS
      <4>1. PICK j \in Indices : /\ Records[q] = Rec(j) /\ (j < next \/ j \in DOMAIN pending)
                                 /\ j = given.chunks => finalIndex = j
        BY DEF Arrived
      <4>2. Records'[q] = Rec(j) /\ (j < next' \/ j \in DOMAIN pending')
        BY <1>1, <2>4, <2>5, <4>1
      <4>3. j = given.chunks => finalIndex' = j
        BY <2>4, <4>1
      <4> QED
        BY <1>1, <4>2, <4>3, GivenKept DEF Arrived
    <3>2. Arrived(p)'
      <4>1. Records'[p] = Rec(i) /\ i \in DOMAIN pending' /\ (i = given.chunks => finalIndex' = i)
        BY <1>1, <2>2, <2>4, <2>5
      <4> QED
        BY <1>1, <4>1, GivenKept DEF Arrived
    <3>3. ~failed' => \A q \in 1..read' : q \in fetched' \/ Arrived(q)'
      <4>1. \A q \in fetched : q \in fetched' \/ q = p
        BY <1>3
      <4> QED
        BY <1>2, <1>3, <2>1, <3>1, <3>2, <4>1 DEF Accounted
    <3>4. finalIndex' # NoIndex => \E q \in DOMAIN Records : Records[q] = Rec(given.chunks)
      <4>1. p \in DOMAIN Records
        <5>1. read <= Len(Records) /\ read \in Nat /\ fetched \subseteq 1..read
          BY <1>1, <1>2 DEF Accounted, TypeOK
        <5>2. Len(Records) \in Nat /\ DOMAIN Records = 1..Len(Records)
          BY <1>1 DEF IInv, Stored, Returned
        <5> QED
          BY <5>1, <5>2
      <4> QED
        BY <1>2, <2>2, <2>4, <4>1 DEF Accounted
    <3>5. \A q \in fetched' : Records[q].header.headerCrc32 = SegmentCrc(Records[q].header)
      BY <1>2, <1>3 DEF Accounted
    <3>6. read' <= Len(Records) /\ (~failed' /\ ~reading' => read' = Len(Records))
      BY <1>1, <1>2, <1>3, <2>1 DEF Accounted
    <3> QED
      BY <1>1, <3>3, <3>4, <3>5, <3>6, GivenKept DEF Accounted
  <2>9. Ended'
    BY <1>1, <2>4 DEF Ended
  <2> QED
    BY <1>1, <2>6, <2>7, <2>8, <2>9 DEF IInv
<1> QED
  BY <1>4, <1>5

LEMMA WriteNextKeeps ==
  ASSUME IInv, Pipeline, UNCHANGED <<encVars, file, storage, reader>>, WriteNext,
         UNCHANGED decVars
  PROVE  IInv'
<1>1. /\ given' = given /\ enc' = enc /\ file' = file /\ reader' = reader
      /\ dec = "records" /\ dec' = "records" /\ sink' = sink /\ Records' = Records
      /\ Encoded' /\ Stored' /\ Phases'
  BY PipelineFrame
<1>2. TypeOK /\ Ordered /\ Accounted /\ Ended
  BY DEF IInv
<1>3. /\ writerPc \in {"flush", "drain"} /\ next \in DOMAIN pending
      /\ written' = Append(written, pending[next])
      /\ pending' = Remove(pending, next) /\ next' = next + 1
      /\ finalIndex' = finalIndex /\ writerPc' = writerPc /\ finishOk' = finishOk
      /\ read' = read /\ reading' = reading /\ fetched' = fetched /\ failed' = failed
  BY DEF WriteNext, decVars
<1>4. next \in Indices /\ pending[next] = Seg(next) /\ next \in Nat /\ next <= given.chunks
      /\ given.chunks \in Nat
  BY <1>2, <1>3, GivenFacts DEF Ordered
<1>5. DOMAIN pending' = DOMAIN pending \ {next} /\ \A j \in DOMAIN pending' : pending'[j] = pending[j]
  BY <1>3 DEF Remove
<1>6. TypeOK'
  <2>1. next' \in 0..(given.chunks + 1)
    BY <1>3, <1>4
  <2> QED
    BY <1>1, <1>2, <1>3, <2>1 DEF TypeOK
<1>7. Ordered'
  <2> DEFINE S == {Seg(i) : i \in Indices}
  <2>1. Seg(next) \in S
    BY <1>4
  <2>2. written \in Seq(S) /\ Len(written) = next /\ \A i \in 1..next : written[i] = Seg(i - 1)
    BY <1>2 DEF Ordered
  <2> HIDE DEF S
  <2>3. /\ written' \in Seq(S) /\ Len(written') = next + 1
        /\ \A i \in 1..(next + 1) : written'[i] = IF i = next + 1 THEN Seg(next) ELSE written[i]
    BY <1>3, <1>4, <2>1, <2>2
  <2>4. \A i \in 1..(next + 1) : written'[i] = Seg(i - 1)
    <3> SUFFICES ASSUME NEW i \in 1..(next + 1) PROVE written'[i] = Seg(i - 1)
      OBVIOUS
    <3>1. CASE i = next + 1
      <4>1. i - 1 = next
        BY <1>4, <3>1
      <4> QED
        BY <2>3, <3>1, <4>1
    <3>2. CASE i # next + 1
      <4>1. i \in 1..next
        BY <1>4, <3>2
      <4> QED
        BY <2>2, <2>3, <3>2, <4>1
    <3> QED
      BY <3>1, <3>2
  <2>5. \A i \in DOMAIN pending' : i \in Indices /\ pending'[i] = Seg(i)
    BY <1>2, <1>5 DEF Ordered
  <2>6. S' = S
    BY <1>1, GivenKept DEF S
  <2> QED
    BY <1>1, <1>3, <2>3, <2>4, <2>5, <2>6, GivenKept DEF Ordered, S
<1>8. Accounted'
  <2>1. \A q : Arrived(q) => Arrived(q)'
    <3> SUFFICES ASSUME NEW q, Arrived(q) PROVE Arrived(q)'
      OBVIOUS
    <3>1. PICK j \in Indices : /\ Records[q] = Rec(j) /\ (j < next \/ j \in DOMAIN pending)
                               /\ j = given.chunks => finalIndex = j
      BY DEF Arrived
    <3>2. j \in Nat
      BY <1>2, GivenFacts
    <3>3. j < next' \/ j \in DOMAIN pending'
      BY <1>3, <1>4, <1>5, <3>1, <3>2
    <3> QED
      BY <1>1, <1>3, <3>1, <3>3, GivenKept DEF Arrived
  <2> QED
    BY <1>1, <1>2, <1>3, <2>1, GivenKept DEF Accounted
<1>9. Ended'
  BY <1>1, <1>2, <1>3 DEF Ended
<1> QED
  BY <1>1, <1>6, <1>7, <1>8, <1>9 DEF IInv

\* The steps of the writer that write nothing.
LEMMA WriterKeeps ==
  ASSUME IInv, Pipeline, UNCHANGED <<encVars, file, storage, reader>>,
         EndOfStream \/ (PushReturns /\ UNCHANGED decVars) \/ (FinishReturns /\ UNCHANGED decVars)
  PROVE  IInv'
<1>1. /\ given' = given /\ enc' = enc /\ file' = file /\ reader' = reader
      /\ dec = "records" /\ dec' = "records" /\ sink' = sink /\ Records' = Records
      /\ Encoded' /\ Stored' /\ Phases'
  BY PipelineFrame
<1>2. TypeOK /\ Ordered /\ Accounted /\ Ended
  BY DEF IInv
<1>3. /\ UNCHANGED <<next, pending, finalIndex, written>>
      /\ read' = read /\ reading' = reading /\ fetched' = fetched /\ failed' = failed
  BY DEF EndOfStream, Finish, PushReturns, FinishReturns, decVars
<1>4. /\ writerPc' \in {"idle", "drain", "done"} /\ finishOk' \in {"none", "ok", "missing"}
      /\ writerPc' \in {"drain", "done"} => failed \/ (~reading /\ fetched = {})
      /\ writerPc' = "done" => next \notin DOMAIN pending
      /\ writerPc' = "done" => finishOk' = IF finalIndex = NoIndex THEN "missing" ELSE "ok"
  <2>1. CASE EndOfStream
    BY <1>2, <2>1 DEF EndOfStream, Finish, TypeOK
  <2>2. CASE PushReturns
    BY <1>2, <2>2 DEF PushReturns, TypeOK
  <2>3. CASE FinishReturns
    BY <1>2, <2>3 DEF FinishReturns, Ended
  <2> QED
    BY <2>1, <2>2, <2>3
<1>5. TypeOK'
  BY <1>1, <1>2, <1>3, <1>4 DEF TypeOK
<1>6. Ordered'
  BY <1>1, <1>2, <1>3, GivenKept DEF Ordered
<1>7. Accounted'
  <2>1. \A q : Arrived(q)' = Arrived(q)
    BY <1>1, <1>3, GivenKept DEF Arrived
  <2> QED
    BY <1>1, <1>2, <1>3, <2>1, GivenKept DEF Accounted
<1>8. Ended'
  BY <1>1, <1>3, <1>4 DEF Ended
<1> QED
  BY <1>1, <1>5, <1>6, <1>7, <1>8 DEF IInv

LEMMA StepKeeps == IInv /\ [Next]_vars => IInv'
<1> SUFFICES ASSUME IInv, [Next]_vars PROVE IInv'
  OBVIOUS
<1>1. CASE Encrypt
  BY <1>1, EncryptKeeps
<1>2. CASE Store
  BY <1>2, StoreKeeps
<1>3. CASE Decrypt
  <2>1. UNCHANGED <<encVars, file, storage, reader>>
    BY <1>3 DEF Decrypt
  <2>2. CASE Pipeline
    <3>1. CASE Fetch
      BY <2>1, <2>2, <3>1, FetchKeeps
    <3>2. CASE \E p \in fetched : Decode(p)
      BY <2>1, <2>2, <3>2, DecodeKeeps
    <3>3. CASE EndOfStream
      BY <2>1, <2>2, <3>3, WriterKeeps
    <3>4. CASE (WriteNext \/ PushReturns \/ FinishReturns) /\ UNCHANGED decVars
      BY <2>1, <2>2, <3>4, WriteNextKeeps, WriterKeeps
    <3> QED
      BY <2>2, <3>1, <3>2, <3>3, <3>4 DEF Pipeline
  <2>3. CASE ~Pipeline
    <3>1. UNCHANGED <<decVars, writerVars>>
      BY <1>3, <2>3 DEF Decrypt, Return
    <3>2. ValidateDecrypt \/ ReadHeader \/ OpenSink \/ SetupDecrypt \/ Return
      BY <1>3, <2>3 DEF Decrypt
    <3> QED
      BY <2>1, <3>1, <3>2, CallKeeps
  <2> QED
    BY <2>2, <2>3
<1>4. CASE UNCHANGED vars
  <2>1. /\ given' = given /\ enc' = enc /\ file' = file /\ storage' = storage /\ reader' = reader
        /\ dec' = dec /\ sink' = sink /\ UNCHANGED decVars /\ UNCHANGED writerVars
    BY <1>4 DEF vars, encVars
  <2>2. TypeOK'
    BY <2>1 DEF IInv, TypeOK, decVars, writerVars
  <2>3. Phases' /\ Ended'
    BY <2>1 DEF IInv, Phases, Ended, decVars, writerVars
  <2>4. Ordered'
    BY <2>1, WriterKept DEF IInv
  <2>5. Records' = Records
    BY <2>1 DEF Records
  <2>6. \A q : Arrived(q)' = Arrived(q)
    BY <2>1, <2>5, GivenKept DEF Arrived, writerVars
  <2>7. Accounted'
    BY <2>1, <2>5, <2>6, GivenKept DEF IInv, Accounted, decVars, writerVars
  <2>8. Encoded'
    BY <2>1, <2>5, GivenKept DEF IInv, Encoded
  <2>9. Stored'
    <3>1. Returned(Records, storage)' = Returned(Records, storage)
      BY <2>1, <2>5, GivenKept DEF Returned, Whole, Headless, Spoiled
    <3> QED
      BY <2>1, <3>1 DEF IInv, Stored
  <2> QED
    BY <2>2, <2>3, <2>4, <2>7, <2>8, <2>9 DEF IInv
<1> QED
  BY <1>1, <1>2, <1>3, <1>4 DEF Next, Finished

-----------------------------------------------------------------------------
(* What the caller gets.                                                   *)

LEMMA InputPart ==
  ASSUME NEW n \in Nat, NEW m \in 0..n
  PROVE  SubSeq(Input(n), 1, m) = [i \in 1..m |-> Chunk(i)]
<1> DEFINE T == {Chunk(i) : i \in 1..n}
           t == SubSeq(Input(n), 1, m)
<1>1. \A q \in 1..m : Input(n)[q] \in T /\ Input(n)[q] = Chunk(q)
  BY DEF Input
<1> HIDE DEF T
<1>2. m \in Nat /\ m = m - 1 + 1 /\ 1 \in Int /\ m \in Int
  OBVIOUS
<1>3. t \in Seq(T) /\ Len(t) = m /\ \A q \in 1..m : t[q] = Input(n)[q + 1 - 1]
  BY <1>1, <1>2, Part
<1>4. \A q \in 1..m : q + 1 - 1 = q
  BY <1>2
<1> HIDE DEF t
<1>5. t = [i \in 1..m |-> t[i]]
  BY <1>3
<1>6. \A i \in 1..m : t[i] = Chunk(i)
  BY <1>1, <1>3, <1>4
<1> QED
  BY <1>5, <1>6 DEF t

\* The output is a first part of the input, as far as it was written.
LEMMA OutputIsPart ==
  ASSUME TypeOK, Ordered
  PROVE  \E m \in Nat :
           /\ m <= given.chunks /\ (next = given.chunks + 1 => m = given.chunks)
           /\ Len(Output) = m /\ Output = SubSeq(Input(given.chunks), 1, m)
<1> DEFINE n == given.chunks
           m == IF next <= n THEN next ELSE n
           At == {i \in DOMAIN written : written[i].chunk # <<>>}
           s == [i \in DOMAIN written |-> written[i].chunk]
<1>1. n \in Nat /\ next \in Nat /\ next <= n + 1
  BY GivenFacts DEF TypeOK
<1>2. DOMAIN written = 1..next /\ \A i \in 1..next : written[i] = Seg(i - 1)
  BY DEF Ordered
<1>3. m \in Nat /\ m <= n /\ m <= next /\ (next = n + 1 => m = n)
  BY <1>1
<1>4. \A i \in 1..next : written[i].chunk = IF i = n + 1 THEN <<>> ELSE Chunk(i)
  <2> SUFFICES ASSUME NEW i \in 1..next
               PROVE  written[i].chunk = IF i = n + 1 THEN <<>> ELSE Chunk(i)
    OBVIOUS
  <2>1. (i - 1) + 1 = i /\ (i - 1 = n <=> i = n + 1)
    BY <1>1
  <2>2. Seg(i - 1).chunk = IF i - 1 = n THEN <<>> ELSE Chunk((i - 1) + 1)
    BY DEF Seg
  <2> QED
    BY <1>2, <2>1, <2>2
<1>5. \A i : Chunk(i) # <<>>
  BY ChunkFacts
<1>6. At = 1..m
  <2>1. At = {i \in 1..next : i # n + 1}
    BY <1>2, <1>4, <1>5
  <2>2. {i \in 1..next : i # n + 1} = 1..m
    BY <1>1
  <2> QED
    BY <2>1, <2>2
<1>7. \A i \in 1..m : s[i] = Chunk(i)
  <2>1. \A i \in 1..m : i \in 1..next /\ i # n + 1
    BY <1>1, <1>3
  <2> QED
    BY <1>2, <1>4, <2>1
<1>8. Output = Picked(s, At)
  BY DEF Output
<1> HIDE DEF n, m, s, At
<1>9. Picked(s, 1..m) = [i \in 1..m |-> s[i]]
  BY <1>3, PickedFront
<1>11. Output = [i \in 1..m |-> Chunk(i)]
  BY <1>6, <1>7, <1>8, <1>9
<1>12. m \in 0..n
  BY <1>1, <1>3
<1>13. SubSeq(Input(n), 1, m) = [i \in 1..m |-> Chunk(i)]
  BY <1>1, <1>12, InputPart
<1>14. Len(Output) = m
  <2>1. Output = [i \in 1..m |-> Output[i]]
    BY <1>11
  <2> QED
    BY <1>3, <2>1, LengthOf
<1>15. /\ m <= n /\ (next = n + 1 => m = n)
       /\ Len(Output) = m /\ Output = SubSeq(Input(n), 1, m)
  BY <1>3, <1>11, <1>13, <1>14
<1> QED
  BY <1>3, <1>15 DEF n

LEMMA InvOkIsInput == IInv => OkIsInput
<1> SUFFICES ASSUME IInv, dec = "ok"
             PROVE  /\ Len(Output) <= given.chunks
                    /\ Output = SubSeq(Input(given.chunks), 1, Len(Output))
                    /\ storage # "lost" => Len(Output) = given.chunks
  BY DEF OkIsInput
<1>1. TypeOK /\ Ordered /\ Stored /\ Accounted /\ Ended
  BY DEF IInv
<1>2. /\ given.chunks \in Nat /\ given.chunks \in Indices
      /\ \A i : i \in Indices <=> i \in Nat /\ i <= given.chunks
      /\ next \in Nat /\ next <= given.chunks + 1
  BY <1>1, GivenFacts DEF TypeOK
<1>3. /\ ~failed /\ next \notin DOMAIN pending /\ finalIndex # NoIndex /\ ~reading /\ fetched = {}
  BY <1>1 DEF Ended
<1>4. \A p \in DOMAIN Records : Arrived(p)
  <2>1. read = Len(Records) /\ DOMAIN Records = 1..Len(Records)
    BY <1>1, <1>3 DEF Accounted, Stored, Returned
  <2> QED
    BY <1>1, <1>3, <2>1 DEF Accounted
<1>5. storage # "lost" => Whole(Records)
  <2>1. \A p \in DOMAIN Records : ~Spoiled(Records[p])
    BY <1>4, RecordsDiffer DEF Arrived
  <2>2. ~Headless(Records)
    BY <1>1, <1>3 DEF Accounted, Headless
  <2> QED
    BY <1>1, <2>1, <2>2 DEF Stored, Returned
<1>6. Whole(Records) => next = given.chunks + 1
  <2> SUFFICES ASSUME Whole(Records), next <= given.chunks PROVE FALSE
    BY <1>2
  <2>1. next \in Indices
    BY <1>2
  <2>2. PICK p \in DOMAIN Records : Records[p] = Rec(next)
    BY <2>1 DEF Whole
  <2>3. PICK j \in Indices : Records[p] = Rec(j) /\ (j < next \/ j \in DOMAIN pending)
    BY <1>4 DEF Arrived
  <2>4. j = next
    BY <2>2, <2>3, RecordsDiffer
  <2> QED
    BY <1>2, <1>3, <2>3, <2>4
<1>7. PICK m \in Nat :
        /\ m <= given.chunks /\ (next = given.chunks + 1 => m = given.chunks)
        /\ Len(Output) = m /\ Output = SubSeq(Input(given.chunks), 1, m)
  BY <1>1, OutputIsPart
<1> QED
  BY <1>5, <1>6, <1>7

-----------------------------------------------------------------------------
(* Clean calls.                                                            *)

LEMMA HeaderFacts ==
  ASSUME NEW g \in Headers, NEW h, h = [g EXCEPT !.crc32 = HeaderCrc(g)]
  PROVE  /\ \A f \in HeaderFields \ {"crc32"} : h[f] = g[f]
         /\ DOMAIN g = HeaderFields /\ DOMAIN h = HeaderFields
         /\ HeaderCrc(h) = HeaderCrc(g) /\ h.crc32 = HeaderCrc(g)
<1>1. DOMAIN g = HeaderFields
  <2>1. PICK p \in Passed : g = [f \in DOMAIN Base |-> IF f \in DOMAIN p THEN p[f] ELSE Base[f]]
    BY DEF Headers
  <2>2. DOMAIN g = DOMAIN Base
    BY <2>1
  <2>3. DOMAIN Base = HeaderFields
    BY DEF Base, HeaderFields, Covered
  <2> QED
    BY <2>2, <2>3
<1>2. DOMAIN h = HeaderFields /\ h.crc32 = HeaderCrc(g)
      /\ \A f \in HeaderFields \ {"crc32"} : h[f] = g[f]
  BY <1>1 DEF HeaderFields
<1>3. \A f \in Covered : h[f] = g[f]
  <2>1. \A f \in Covered : f \in HeaderFields \ {"crc32"}
    BY DEF Covered, HeaderFields
  <2> QED
    BY <1>2, <2>1
<1>4. HeaderCrc(h) = HeaderCrc(g)
  BY <1>3 DEF HeaderCrc
<1> QED
  BY <1>1, <1>2, <1>4

\* The key and the nonces do not depend on the checksum.
LEMMA SameContext ==
  ASSUME NEW g \in Headers, NEW h, h = [g EXCEPT !.crc32 = HeaderCrc(g)], NEW key, NEW alg
  PROVE  /\ SessionKey(key, h) = SessionKey(key, g)
         /\ Matching(Context(key, g, alg), Context(key, h, alg))
<1>1. /\ \A f \in HeaderFields \ {"crc32"} : h[f] = g[f]
      /\ DOMAIN g = HeaderFields /\ DOMAIN h = HeaderFields /\ HeaderCrc(h) = HeaderCrc(g)
      /\ h.crc32 = HeaderCrc(g)
  BY HeaderFacts
<1>2. SessionKey(key, h) = SessionKey(key, g)
  <2>1. h.salt = g.salt /\ h.hkdfPrf = g.hkdfPrf
    BY <1>1 DEF HeaderFields, Covered
  <2>2. \A f \in KeyInfo : h[f] = g[f]
    <3>1. \A f \in KeyInfo : f \in HeaderFields \ {"crc32"}
      BY DEF KeyInfo, HeaderFields, Covered
    <3> QED
      BY <1>1, <3>1
  <2>3. [f \in KeyInfo |-> h[f]] = [f \in KeyInfo |-> g[f]]
    BY <2>2
  <2> DEFINE x == [f \in KeyInfo |-> h[f]]
             y == [f \in KeyInfo |-> g[f]]
  <2>4. SessionKey(key, h) = IF h.salt = 0 THEN Err("salt")
                             ELSE IF h.hkdfPrf \notin Known.hkdfPrf THEN Err("prf")
                             ELSE Ok(<<key, h.salt, x>>)
    BY Zenon DEF SessionKey
  <2>5. SessionKey(key, g) = IF g.salt = 0 THEN Err("salt")
                             ELSE IF g.hkdfPrf \notin Known.hkdfPrf THEN Err("prf")
                             ELSE Ok(<<key, g.salt, y>>)
    BY Zenon DEF SessionKey
  <2>6. x = y
    BY <2>3
  <2> HIDE DEF x, y
  <2> QED
    BY <2>1, <2>4, <2>5, <2>6
<1>3. h.cipher = g.cipher /\ h.salt = g.salt
  BY <1>1 DEF HeaderFields, Covered
<1>4. [h EXCEPT !.crc32 = HeaderCrc(h)] = [g EXCEPT !.crc32 = HeaderCrc(g)]
  <2>1. [h EXCEPT !.crc32 = HeaderCrc(h)] = h
    BY <1>1
  <2> QED
    BY <2>1
<1> DEFINE c == Context(key, g, alg)
           d == Context(key, h, alg)
<1>5. /\ c.header = g /\ d.header = h /\ c.alg = alg /\ d.alg = alg
      /\ c.key = SessionKey(key, g).ok /\ d.key = SessionKey(key, h).ok
  BY DEF Context
<1> HIDE DEF c, d
<1>6. Matching(c, d)
  BY <1>2, <1>3, <1>4, <1>5 DEF Matching
<1> QED
  BY <1>2, <1>6 DEF c, d

LEMMA EncryptKept ==
  ASSUME IInv, Kept, Encrypt
  PROVE  Kept'
<1>1. /\ given' = given /\ UNCHANGED <<storage, reader, dec, sink, decVars, writerVars>>
      /\ dec = "waiting"
  <2>1. enc \in {"validate", "open", "derive", "profile", "header", "records"}
    BY DEF Encrypt, ValidateEncrypt, OpenFile, SetupEncrypt, WriteHeader, WriteRecord, Interrupted
  <2>2. dec = "waiting"
    BY <2>1 DEF IInv, Phases
  <2> QED
    BY <2>1, <2>2 DEF Encrypt
<1> DEFINE H == [given.header EXCEPT !.crc32 = HeaderCrc(given.header)]
<1> HIDE DEF H
<1>2. /\ enc \notin {"validate", "err"} => given.key = "key"
      /\ enc \in {"derive", "profile", "header"} => file.tail = "none"
      /\ enc = "records" => ValidHeader(given.header) /\ file.header = H /\ file.tail = "none"
      /\ DOMAIN file = {"header", "records", "tail"} /\ given.key \in {"key", "short"}
  BY <1>1 DEF Kept, IInv, TypeOK, H
<1>3. /\ enc' \notin {"validate", "err"} => given.key = "key"
      /\ enc' \in {"derive", "profile", "header"} => file'.tail = "none"
      /\ enc' \in {"records", "ok"} =>
           ValidHeader(given.header) /\ file'.header = H /\ file'.tail = "none"
  <2>1. CASE ValidateEncrypt
    BY <1>2, <2>1 DEF ValidateEncrypt, ValidKey
  <2>2. CASE OpenFile
    BY <1>2, <2>2 DEF OpenFile, NoFile
  <2>3. CASE SetupEncrypt
    <3>1. /\ file' = file /\ enc \in {"derive", "profile"}
          /\ enc' \in {"profile", "err", "panic", "header"}
      BY <2>3 DEF SetupEncrypt, Setup
    <3> QED
      BY <1>2, <3>1
  <2>4. CASE WriteHeader
    <3>1. enc = "header"
      BY <2>4 DEF WriteHeader
    <3>2. CASE ValidHeader(given.header)
      <4>1. EncodeHeader(given.header).ok = H
        <5>1. EncodeHeader(given.header) = Ok(H)
          BY <3>2, Zenon DEF EncodeHeader, H
        <5> QED
          BY <5>1 DEF Ok
      <4>2. enc' = "records" /\ file' = [file EXCEPT !.header = H]
        BY <2>4, <3>2, <4>1 DEF WriteHeader
      <4> QED
        BY <1>2, <3>1, <3>2, <4>2
    <3>3. CASE ~ValidHeader(given.header)
      BY <1>2, <2>4, <3>1, <3>3 DEF WriteHeader
    <3> QED
      BY <3>2, <3>3
  <2>5. CASE WriteRecord
    <3>1. enc = "records" /\ file'.header = file.header /\ file'.tail = file.tail
          /\ enc' \in {"ok", "records"}
      BY <1>2, <2>5 DEF WriteRecord
    <3> QED
      BY <1>2, <3>1
  <2>6. CASE Interrupted
    <3>1. enc \in {"header", "records"} /\ enc' = "cut"
      BY <2>6 DEF Interrupted
    <3> QED
      BY <1>2, <3>1
  <2> QED
    BY <2>1, <2>2, <2>3, <2>4, <2>5, <2>6 DEF Encrypt
<1> QED
  BY <1>1, <1>3 DEF Kept, H

LEMMA StoreKept ==
  ASSUME IInv, Kept, Store
  PROVE  Kept'
<1>1. given' = given /\ enc' = enc /\ enc \in {"ok", "cut"} /\ dec = "waiting" /\ dec' = "validate"
  BY DEF Store, encVars
<1>2. storage' = "kept" => file' = file
  <2>1. PICK how \in DOMAIN Alterations : storage' = how /\ file' \in Alterations[how]
    BY DEF Store
  <2>2. how = "kept" => Alterations[how] = {file}
    BY DEF Alterations
  <2> QED
    BY <2>1, <2>2
<1>3. enc = "ok" => /\ Len(Records) = given.chunks + 1
                    /\ \A p \in 1..Len(Records) : Records[p] = Rec(p - 1)
  BY <1>1 DEF IInv, Encoded
<1>4. storage' = "kept" => Records' = Records
  BY <1>2 DEF Records
<1> QED
  BY <1>1, <1>2, <1>3, <1>4, GivenKept DEF Kept

LEMMA KeptKept ==
  ASSUME IInv, Kept, dec # "waiting", dec' # "waiting",
         UNCHANGED <<encVars, file, storage, reader>>
  PROVE  Kept'
<1>1. given' = given /\ enc' = enc /\ file' = file /\ storage' = storage
  BY DEF encVars
<1>2. Records' = Records
  BY <1>1 DEF Records
<1> QED
  BY <1>1, <1>2, GivenKept DEF Kept

\* What holds of a clean call.
LEMMA CleanFacts ==
  ASSUME IInv, Kept, Clean
  PROVE  /\ file.header = [given.header EXCEPT !.crc32 = HeaderCrc(given.header)]
         /\ file.tail = "none" /\ ValidHeader(given.header)
         /\ given.key = "key" /\ given.header \in Headers
         /\ Len(Records) = given.chunks + 1 /\ given.chunks \in Nat
         /\ \A p \in 1..Len(Records) : Records[p] = Rec(p - 1)
         /\ \A p \in 1..Len(Records) : IsOk(Decoded(p))
<1>1. /\ file.header = [given.header EXCEPT !.crc32 = HeaderCrc(given.header)]
      /\ file.tail = "none" /\ ValidHeader(given.header)
      /\ Len(Records) = given.chunks + 1
      /\ \A p \in 1..Len(Records) : Records[p] = Rec(p - 1)
  BY DEF Clean, Kept
<1>2. given.key = "key"
  BY DEF Clean, Kept
<1>3. given.header \in Headers /\ given.chunks \in Nat
  BY GivenFacts DEF IInv
<1> DEFINE d == Context(reader.key, file.header, reader.alg)
<1>4. Matching(Ctx, d)
  <2> DEFINE g == given.header
             h == file.header
  <2>1. h = [g EXCEPT !.crc32 = HeaderCrc(g)] /\ g \in Headers
    BY <1>1, <1>3
  <2>2. Ctx = Context("key", g, "Blake3") /\ d = Context("key", h, "Blake3")
    BY <1>2 DEF Ctx, Clean
  <2> HIDE DEF g, h, d
  <2>3. Matching(Context("key", g, "Blake3"), Context("key", h, "Blake3"))
    BY <2>1, SameContext
  <2> QED
    BY <2>2, <2>3
<1>5. \A p \in 1..Len(Records) : IsOk(Decoded(p))
  <2> SUFFICES ASSUME NEW p \in 1..Len(Records) PROVE IsOk(Decoded(p))
    OBVIOUS
  <2>1. Decoded(p) = DecryptSegment(d, Rec(p - 1))
    BY <1>1, Zenon DEF Decoded
  <2> HIDE DEF d
  <2>2. IsOk(DecryptSegment(d, Rec(p - 1)))
    BY <1>4, DecryptRec
  <2> QED
    BY <2>1, <2>2
<1> QED
  BY <1>1, <1>2, <1>3, <1>5

\* With the header that was written, only the profile of a Parallel stream on
\* one core is refused.
LEMMA CleanSetup ==
  ASSUME IInv, Kept, Clean, SetupDecrypt
  PROVE  /\ dec' # "err"
         /\ dec' = "panic" => given.header.strategy = "Parallel" /\ reader.cores = 1
<1> DEFINE g == given.header
           h == file.header
<1>1. h = [g EXCEPT !.crc32 = HeaderCrc(g)] /\ ValidHeader(g) /\ g \in Headers
  BY CleanFacts
<1>2. reader.key = "key" /\ reader.cores \in Nat \ {0}
  <2>1. reader.cores \in Cores \cup {1}
    BY DEF IInv, TypeOK
  <2>2. reader.key = "key"
    BY DEF Clean
  <2>3. \A x \in Cores \cup {1} : x \in Nat \ {0}
    BY CoresAssumption
  <2> QED
    BY <2>1, <2>2, <2>3
<1> HIDE DEF g, h
<1>3. \A f \in HeaderFields \ {"crc32"} : h[f] = g[f]
  BY <1>1, HeaderFacts
<1>4. h.salt = g.salt /\ h.hkdfPrf = g.hkdfPrf /\ h.strategy = g.strategy /\ h.chunkSize = g.chunkSize
  BY <1>3 DEF HeaderFields, Covered
<1>5. /\ g.salt # 0 /\ g.hkdfPrf \in Known.hkdfPrf /\ g.strategy \in Strategy
      /\ g.chunkSize \in 1..MaxChunk
  <2>1. g.salt # 0 /\ g.chunkSize \in 1..MaxChunk /\ \A f \in DOMAIN Known : g[f] \in Known[f]
    BY <1>1, Zenon DEF ValidHeader
  <2>2. "hkdfPrf" \in DOMAIN Known /\ "strategy" \in DOMAIN Known /\ Known.strategy = Strategy
    BY DEF Known, Strategy
  <2> QED
    BY <2>1, <2>2
<1>6. IsOk(SessionKey("key", h))
  <2>1. \E v : SessionKey("key", h) = Ok(v)
    BY <1>4, <1>5, Zenon DEF SessionKey
  <2> QED
    BY <2>1 DEF IsOk, Ok
<1>7. /\ dec \in {"derive", "profile"}
      /\ dec' = Setup(dec, h, reader.cores, "key", "records")
  BY <1>2 DEF SetupDecrypt, h
<1>8. CASE dec = "derive"
  <2>1. dec' = "profile"
    BY <1>6, <1>7, <1>8, Zenon DEF Setup
  <2> QED
    BY <2>1
<1>9. CASE dec = "profile"
  <2>1. dec' = IF StrategyPanics(Machinery(reader.cores), h.strategy, h.chunkSize)
                 THEN "panic" ELSE "records"
    BY <1>4, <1>5, <1>7, <1>9 DEF Setup
  <2>2. StrategyPanics(Machinery(reader.cores), h.strategy, h.chunkSize) =>
          h.strategy = "Parallel" /\ reader.cores = 1
    BY <1>2, <1>4, <1>5 DEF StrategyPanics, Machinery
  <2> QED
    BY <1>4, <2>1, <2>2 DEF g
<1> QED
  BY <1>7, <1>8, <1>9

LEMMA CleanReturn ==
  ASSUME IInv, Kept, Clean, ~failed, dec = "records", writerPc = "done"
  PROVE  finishOk = "ok"
<1>1. TypeOK /\ Accounted /\ Ended
  BY DEF IInv
<1>2. Len(Records) = given.chunks + 1 /\ given.chunks \in Nat
      /\ \A p \in 1..Len(Records) : Records[p] = Rec(p - 1)
  BY CleanFacts
<1>3. ~reading /\ fetched = {}
  BY <1>1 DEF Ended
<1>4. read = given.chunks + 1 /\ \A p \in 1..read : Arrived(p)
  BY <1>1, <1>2, <1>3 DEF Accounted
<1>5. given.chunks + 1 \in 1..read /\ (given.chunks + 1) - 1 = given.chunks
  BY <1>2, <1>4
<1>6. Arrived(given.chunks + 1)
  BY <1>4, <1>5
<1>7. Records[given.chunks + 1] = Rec(given.chunks)
  BY <1>2, <1>4, <1>5
<1>8. finalIndex = given.chunks
  BY <1>6, <1>7, RecordsDiffer DEF Arrived
<1>9. finalIndex # NoIndex
  BY <1>2, <1>8, NoIndexAssumption
<1> QED
  BY <1>1, <1>9 DEF Ended

LEMMA SucceedsStep ==
  ASSUME IInv, Kept, Succeeds, [Next]_vars
  PROVE  Succeeds'
<1>1. CASE Encrypt
  <2>1. dec = "waiting"
    BY <1>1 DEF IInv, Phases, Encrypt, ValidateEncrypt, OpenFile, SetupEncrypt, WriteHeader,
                WriteRecord, Interrupted
  <2>2. dec' = "waiting"
    BY <1>1, <2>1 DEF Encrypt
  <2> QED
    BY <2>2 DEF Succeeds, Clean
<1>2. CASE Store
  <2>1. dec' = "validate" /\ ~failed'
    BY <1>2 DEF Store, IInv, Phases, decVars
  <2> QED
    BY <2>1 DEF Succeeds
<1>3. CASE Decrypt
  <2>0. given' = given /\ enc' = enc /\ file' = file /\ storage' = storage /\ reader' = reader
    BY <1>3 DEF Decrypt, encVars
  <2>1. dec # "waiting"
    BY <1>3 DEF Decrypt, ValidateDecrypt, ReadHeader, OpenSink, SetupDecrypt, Pipeline, Return
  <2> SUFFICES ASSUME Clean
               PROVE  /\ ~failed' /\ (dec' = "err" => sink' = "old")
                      /\ dec' = "panic" => given.header.strategy = "Parallel" /\ reader.cores = 1
    BY <2>0, <2>1 DEF Succeeds, Clean
  <2>2. ~failed /\ (dec = "err" => sink = "old")
        /\ (dec = "panic" => given.header.strategy = "Parallel" /\ reader.cores = 1)
    BY DEF Succeeds
  <2>3. /\ file.tail = "none" /\ Len(Records) = given.chunks + 1 /\ given.chunks \in Nat
        /\ \A p \in 1..Len(Records) : Records[p] = Rec(p - 1) /\ IsOk(Decoded(p))
    BY CleanFacts
  <2>4. read \in Nat /\ fetched \subseteq 1..read /\ read <= Len(Records)
    BY <2>1 DEF IInv, TypeOK, Accounted
  <2>5. CASE ValidateDecrypt /\ UNCHANGED <<decVars, writerVars>>
    BY <2>2, <2>5 DEF ValidateDecrypt, ValidKey, Clean, decVars
  <2>6. CASE ReadHeader /\ UNCHANGED <<decVars, writerVars>>
    <3>1. dec = "header" /\ dec' \in {"open", "err"} /\ sink' = sink /\ failed' = failed
      BY <2>6 DEF ReadHeader, decVars
    <3>2. sink = "old"
      BY <3>1 DEF IInv, Phases
    <3> QED
      BY <2>2, <3>1, <3>2
  <2>7. CASE OpenSink /\ UNCHANGED <<decVars, writerVars>>
    <3>1. dec = "open" /\ failed' = failed
          /\ (dec' = "derive" \/ (dec' = "err" /\ sink' = sink))
      BY <2>7 DEF OpenSink, decVars
    <3>2. sink = "old"
      BY <3>1 DEF IInv, Phases
    <3> QED
      BY <2>2, <3>1, <3>2
  <2>8. CASE SetupDecrypt /\ UNCHANGED <<decVars, writerVars>>
    <3>1. /\ dec' # "err"
          /\ dec' = "panic" => given.header.strategy = "Parallel" /\ reader.cores = 1
      BY <2>8, CleanSetup
    <3>2. failed' = failed
      BY <2>8 DEF decVars
    <3> QED
      BY <2>2, <3>1, <3>2
  <2>9. CASE Pipeline
    <3>0. dec = "records" /\ dec' = "records"
      BY <2>9 DEF Pipeline
    <3>1. CASE Fetch
      <4>1. CASE read < Len(Records)
        <5>1. read + 1 \in 1..Len(Records)
          BY <2>3, <2>4, <4>1
        <5>2. Records[read + 1] = Rec((read + 1) - 1)
          BY <2>3, <5>1
        <5>3. Records[read + 1].header.headerCrc32 = SegmentCrc(Records[read + 1].header)
          BY <5>2, RecordFacts
        <5>4. ~failed'
          BY <3>1, <4>1, <5>3 DEF Fetch
        <5> QED
          BY <3>0, <5>4
      <4>2. CASE ~(read < Len(Records))
        <5>1. ~failed'
          BY <2>3, <3>1, <4>2 DEF Fetch
        <5> QED
          BY <3>0, <5>1
      <4> QED
        BY <4>1, <4>2
    <3>2. CASE \E p \in fetched : Decode(p)
      <4>1. PICK p \in fetched : Decode(p)
        BY <3>2
      <4>2. IsOk(Decoded(p))
        BY <2>3, <2>4
      <4>3. failed' = failed
        BY <4>1, <4>2, DecodeCases
      <4> QED
        BY <2>2, <3>0, <4>3
    <3>3. CASE EndOfStream
      BY <2>2, <3>0, <3>3 DEF EndOfStream, decVars
    <3>4. CASE UNCHANGED decVars
      BY <2>2, <3>0, <3>4 DEF decVars
    <3> QED
      BY <2>9, <3>1, <3>2, <3>3, <3>4 DEF Pipeline
  <2>10. CASE Return
    <3>1. dec = "records" /\ writerPc = "done" /\ failed' = failed
          /\ dec' = IF failed \/ finishOk # "ok" THEN "err" ELSE "ok"
      BY <2>10 DEF Return, decVars
    <3>2. finishOk = "ok"
      BY <2>2, <3>1, CleanReturn
    <3> QED
      BY <2>2, <3>1, <3>2
  <2> QED
    BY <1>3, <2>5, <2>6, <2>7, <2>8, <2>9, <2>10 DEF Decrypt
<1>4. CASE UNCHANGED vars
  BY <1>4 DEF Succeeds, Clean, vars, encVars, decVars
<1> QED
  BY <1>1, <1>2, <1>3, <1>4 DEF Next, Finished

LEMMA KeptStep ==
  ASSUME IInv, Kept, [Next]_vars
  PROVE  Kept'
<1>1. CASE Encrypt
  BY <1>1, EncryptKept
<1>2. CASE Store
  BY <1>2, StoreKept
<1>3. CASE Decrypt
  <2>1. UNCHANGED <<encVars, file, storage, reader>>
    BY <1>3 DEF Decrypt
  <2>2. dec # "waiting" /\ dec' # "waiting"
    BY <1>3 DEF Decrypt, ValidateDecrypt, ReadHeader, OpenSink, SetupDecrypt, Setup, Pipeline, Return
  <2> QED
    BY <2>1, <2>2, KeptKept
<1>4. CASE UNCHANGED vars
  <2>1. given' = given /\ enc' = enc /\ file' = file /\ storage' = storage /\ dec' = dec
    BY <1>4 DEF vars, encVars
  <2>2. Records' = Records
    BY <2>1 DEF Records
  <2> QED
    BY <2>1, <2>2, GivenKept DEF Kept
<1> QED
  BY <1>1, <1>2, <1>3, <1>4 DEF Next, Finished

LEMMA AcceptedStep ==
  ASSUME IInv, Accepted, [Next]_vars
  PROVE  Accepted'
<1>1. CASE Encrypt
  <2>1. dec = "waiting"
    BY <1>1 DEF IInv, Phases, Encrypt, ValidateEncrypt, OpenFile, SetupEncrypt, WriteHeader,
                WriteRecord, Interrupted
  <2>2. dec' = "waiting" /\ sink' = "old"
    BY <1>1, <2>1 DEF Encrypt, IInv, Phases
  <2> QED
    BY <2>2 DEF Accepted, RejectLeavesSink
<1>2. CASE Store
  <2>1. dec' = "validate" /\ sink' = "old"
    BY <1>2 DEF Store, IInv, Phases
  <2> QED
    BY <2>1 DEF Accepted, RejectLeavesSink
<1>3. CASE Decrypt
  <2> DEFINE good == IsOk(DecodeHeader(file.header))
  <2>1. good' = good
    BY <1>3 DEF Decrypt
  <2>2. dec = "open" => good
    BY DEF Accepted
  <2>3. sink = "open" => good
    BY DEF Accepted, RejectLeavesSink
  <2>4. dec' = "open" => good
    <3>1. CASE ReadHeader
      BY <3>1 DEF ReadHeader
    <3>2. CASE ~ReadHeader
      BY <1>3, <3>2 DEF Decrypt, ValidateDecrypt, OpenSink, SetupDecrypt, Setup, Pipeline, Return
    <3> QED
      BY <3>1, <3>2
  <2>5. sink' = "open" => good
    <3>1. CASE OpenSink
      BY <2>2, <3>1 DEF OpenSink
    <3>2. CASE ~OpenSink
      <4>1. sink' = sink
        BY <1>3, <3>2 DEF Decrypt, ValidateDecrypt, ReadHeader, SetupDecrypt, Pipeline, Return
      <4> QED
        BY <2>3, <4>1
    <3> QED
      BY <3>1, <3>2
  <2>6. (dec' = "open" => good') /\ (sink' = "open" => good')
    BY <2>1, <2>4, <2>5
  <2> QED
    BY <2>6 DEF Accepted, RejectLeavesSink
<1>4. CASE UNCHANGED vars
  BY <1>4 DEF Accepted, RejectLeavesSink, vars
<1> QED
  BY <1>1, <1>2, <1>3, <1>4 DEF Next, Finished

-----------------------------------------------------------------------------
(* The theorems.                                                           *)

\* The invariant holds in every state, for every number of chunks and frames,
\* every caller and every one of the Alterations the storage may make.
THEOREM InvariantHolds == Spec => []IInv
<1>1. Init => IInv
  BY InitHolds
<1>2. IInv /\ [Next]_vars => IInv'
  BY StepKeeps
<1> QED
  BY <1>1, <1>2, PTL DEF Spec

\* After any one of the accidental Alterations (a cut, two records exchanged, a
\* stretch of records repeated, a record lost, and a header field, a segment
\* header field or a stretch of frames of a wire changed under the checksums
\* there were) a decryption that returns Ok has written the input, or a first
\* part of it when a whole record was lost.  Nothing is claimed of a stream
\* whose checksums or digests were computed anew.
THEOREM OkIsInputHolds == Spec => []OkIsInput
BY InvariantHolds, InvOkIsInput, PTL

\* A stream that was kept is decrypted by whoever has its key and digest,
\* unless a Parallel header meets a single core.
THEOREM CleanCallsSucceedHolds == Spec => []CleanCallsSucceed
<1>1. Init => Kept /\ Succeeds
  <2> SUFFICES ASSUME Init PROVE Kept /\ Succeeds
    OBVIOUS
  <2>1. enc = "validate" /\ dec = "waiting"
    BY DEF Init
  <2> QED
    BY <2>1 DEF Kept, Succeeds, Clean
<1>2. IInv /\ Kept /\ Succeeds /\ [Next]_vars => (Kept /\ Succeeds)'
  BY KeptStep, SucceedsStep
<1>3. IInv /\ Succeeds => CleanCallsSucceed
  <2> SUFFICES ASSUME IInv, Succeeds,
                      dec = "panic" \/ (dec = "err" /\ sink = "open"),
                      enc = "ok", storage = "kept", reader.key = "key", reader.alg = "Blake3"
               PROVE  dec = "panic" /\ given.header.strategy = "Parallel" /\ reader.cores = 1
    BY DEF CleanCallsSucceed
  <2>1. Clean
    BY DEF Clean
  <2> QED
    BY <2>1 DEF Succeeds
<1> QED
  BY <1>1, <1>2, <1>3, InvariantHolds, PTL DEF Spec

\* The sink of the decryption is opened for a header that was accepted.
THEOREM RejectLeavesSinkHolds == Spec => []RejectLeavesSink
<1>1. Init => Accepted
  BY DEF Init, Accepted, RejectLeavesSink
<1>2. IInv /\ Accepted /\ [Next]_vars => Accepted'
  BY AcceptedStep
<1>3. Accepted => RejectLeavesSink
  BY DEF Accepted
<1> QED
  BY <1>1, <1>2, <1>3, InvariantHolds, PTL DEF Spec

-----------------------------------------------------------------------------
(* The scheduler.                                                          *)

\* Every profile has a CPU worker.
SchedulerTypeOK ==
  /\ profile \in [cpu : Nat \ {0}, gpu : Nat]
  /\ load \in [Devices -> Nat]
  /\ pc \in [Workers -> {"recv", "dispatch", "work", "complete", "done"}]
  /\ size \in [Workers -> {"small", "large"}]
  /\ target \in [Workers -> Devices \cup {NoTarget}]
  /\ cancelled \in BOOLEAN

\* A worker holds a target from dispatch to complete.
TargetHeld ==
  \A w \in Workers :
    /\ pc[w] \in {"recv", "dispatch"} => target[w] = NoTarget
    /\ pc[w] \in {"work", "complete"} => target[w] \in Devices

\* Failed workers hold theirs for ever.
Holders(d) == {w \in Workers : target[w] = d}
LedgerHeld == \A d \in Devices : load[d] = Cardinality(Holders(d))

\* The inductive invariant.
SchedulerIInv == SchedulerTypeOK /\ TargetHeld /\ LedgerHeld /\ EvenShare

-----------------------------------------------------------------------------

\* The constructors never go below one CPU worker, whatever the machine and
\* the caller's numbers.
LEMMA ProfileBounds ==
  ASSUME NEW m \in Machine, NEW s \in Strategy, NEW c \in Nat, NEW o \in Options
  PROVE  /\ WithStrategy(m, s, c, o).cpu \in Nat \ {0}
         /\ WithStrategy(m, s, c, o).gpu \in Nat
<1> USE DEF Machine, Options, Larger, Smaller, Less, Clamp
<1>1. CASE s = "Auto"
  BY <1>1 DEF WithStrategy, Dynamic
<1>2. CASE s = "Sequential"
  BY <1>2 DEF WithStrategy, SingleThreaded
<1>3. CASE s = "Parallel"
  BY <1>3 DEF WithStrategy, New
<1> QED
  BY <1>1, <1>2, <1>3 DEF Strategy

LEMMA InitHasProfile == SchedulerInit => profile \in [cpu : Nat \ {0}, gpu : Nat]
<1> SUFFICES ASSUME SchedulerInit PROVE profile \in [cpu : Nat \ {0}, gpu : Nat]
  OBVIOUS
<1>1. PICK m \in Machines, s \in Strategy, c \in ChunkSizes, o \in Configs :
        profile = [cpu |-> WithStrategy(m, s, c, o).cpu, gpu |-> WithStrategy(m, s, c, o).gpu]
  BY DEF SchedulerInit, Profiled
<1>2. m \in Machine
  BY CoresAssumption, MachinesAssumption
  DEF CoresAssumption, MachinesAssumption, Machines, Machine
<1>3. o \in Options
  <2>1. DefaultOptions \in Options
    BY DEF Options, DefaultOptions
  <2>2. [cpu : Wanted, gpu : Wanted, percent : Percents, hardCap : Wanted] \subseteq Options
    BY InputsAssumption DEF InputsAssumption, Options
  <2> QED
    BY <2>1, <2>2 DEF Configs
<1>4. c \in Nat
  BY ChunkSizesAssumption DEF ChunkSizesAssumption
<1> QED
  BY <1>1, <1>2, <1>3, <1>4, ProfileBounds

\* The pools are finite and the threads no more than can be counted.
LEMMA Finiteness ==
  ASSUME profile \in [cpu : Nat \ {0}, gpu : Nat]
  PROVE  /\ IsFiniteSet(Workers)
         /\ \A k \in {"cpu", "gpu"} : IsFiniteSet(Pool(k))
         /\ Devices \subseteq {"cpu", "gpu"} \X Nat
         /\ NoTarget \notin Devices
<1>1. profile.cpu \in Nat \ {0} /\ profile.gpu \in Nat /\ profile.cpu \div 2 \in Nat
  OBVIOUS
<1>2. ASSUME NEW k, NEW n \in Int
      PROVE  IsFiniteSet({k} \X (0..n))
  <2>1. IsFiniteSet({k})
    BY FS_Singleton
  <2>2. IsFiniteSet(0..n)
    BY FS_Interval
  <2> QED
    BY <2>1, <2>2, FS_Product
<1>3. Larger(profile.cpu \div 2, 1) - 1 \in Int /\ profile.gpu - 1 \in Int
      /\ profile.cpu - 1 \in Int
  BY <1>1 DEF Larger
<1>4. IsFiniteSet(Workers)
  BY <1>2, <1>3, FS_Union DEF Workers
<1>5. \A k \in {"cpu", "gpu"} : IsFiniteSet(Pool(k))
  BY <1>2, <1>3 DEF Pool
<1>6. Devices \subseteq {"cpu", "gpu"} \X Nat
  BY <1>1 DEF Devices, Pool
<1> QED
  BY <1>4, <1>5, <1>6, NoTargetAssumption DEF NoTargetAssumption

LEMMA SchedulerInitHolds == SchedulerInit => SchedulerIInv
<1> SUFFICES ASSUME SchedulerInit PROVE SchedulerIInv
  OBVIOUS
<1>1. profile \in [cpu : Nat \ {0}, gpu : Nat]
  BY InitHasProfile
<1>2. SchedulerTypeOK /\ TargetHeld
  BY <1>1 DEF SchedulerInit, SchedulerTypeOK, TargetHeld
<1>3. \A d \in Devices : Holders(d) = {}
  BY <1>1, Finiteness DEF SchedulerInit, Holders
<1>4. LedgerHeld
  BY <1>3, FS_EmptySet DEF LedgerHeld, Holders, SchedulerInit
<1>5. EvenShare
  <2> SUFFICES ASSUME NEW d \in Devices
               PROVE  (load[d] - 1) * Cardinality(Pool(d[1])) < Cardinality(Workers)
    BY DEF EvenShare
  <2>1. d[1] \in {"cpu", "gpu"} /\ d \in Pool(d[1]) /\ load[d] = 0
    BY DEF Devices, Pool, SchedulerInit
  <2>2. IsFiniteSet(Pool(d[1])) /\ Pool(d[1]) # {} /\ IsFiniteSet(Workers)
    BY <1>1, <2>1, Finiteness
  <2>3. Cardinality(Pool(d[1])) \in Nat \ {0} /\ Cardinality(Workers) \in Nat
    BY <2>2, FS_CardinalityType, FS_EmptySet
  <2> DEFINE n == Cardinality(Pool(d[1]))
  <2>4. (0 - 1) * n < 0
    BY <2>3
  <2> QED
    BY <2>1, <2>3, <2>4
<1> QED
  BY <1>2, <1>4, <1>5 DEF SchedulerIInv

-----------------------------------------------------------------------------

\* If each of the devices in D is held by m workers or more, at least
\* |D| * m of the workers in W hold one.
LEMMA PigeonHole ==
  ASSUME NEW D, IsFiniteSet(D), NEW W, IsFiniteSet(W), NEW m \in Nat,
         NEW f \in [W -> D],
         \A d \in D : m <= Cardinality({w \in W : f[w] = d})
  PROVE  Cardinality(D) * m <= Cardinality(W)
<1> DEFINE H(d) == {w \in W : f[w] = d}
           B(d) == CHOOSE b : b \in Bijection(1..Cardinality(H(d)), H(d))
           g == [p \in D \X (1..m) |-> B(p[1])[p[2]]]
<1>1. \A d \in D : /\ Cardinality(H(d)) \in Nat
                   /\ m <= Cardinality(H(d))
                   /\ B(d) \in Bijection(1..Cardinality(H(d)), H(d))
  <2> TAKE d \in D
  <2>0. H(d) \in SUBSET W
    OBVIOUS
  <2>1. IsFiniteSet(H(d))
    BY <2>0, FS_Subset
  <2>3. m <= Cardinality(H(d))
    OBVIOUS
  <2> HIDE DEF H
  <2>2. /\ Cardinality(H(d)) \in Nat
        /\ ExistsBijection(1..Cardinality(H(d)), H(d))
    BY <2>1, FS_CardinalityType
  <2> QED
    BY <2>2, <2>3 DEF ExistsBijection
<1>2. \A d \in D : /\ \A i \in 1..m : B(d)[i] \in H(d)
                   /\ \A i, j \in 1..m : B(d)[i] = B(d)[j] => i = j
  <2> TAKE d \in D
  <2> DEFINE b == B(d)
             n == Cardinality(H(d))
  <2>1. b \in [1..n -> H(d)] /\ (\A i, j \in 1..n : b[i] = b[j] => i = j)
    BY <1>1 DEF Bijection, Injection, IsInjective
  <2>0. n \in Nat /\ m <= n
    BY <1>1
  <2> HIDE DEF b, n
  <2>2. \A i \in 1..m : i \in 1..n
    BY <2>0
  <2>3. /\ \A i \in 1..m : b[i] \in H(d)
        /\ \A i, j \in 1..m : b[i] = b[j] => i = j
    BY <2>1, <2>2
  <2> QED
    BY <2>3 DEF b
<1> HIDE DEF B
<1>3. \A p \in D \X (1..m) :
        p[1] \in D /\ p[2] \in 1..m /\ p = <<p[1], p[2]>> /\ g[p] = B(p[1])[p[2]]
  OBVIOUS
<1>4. g \in [D \X (1..m) -> W]
  BY <1>2, <1>3
<1> HIDE DEF g
<1>5. \A p, q \in D \X (1..m) : g[p] = g[q] => p = q
  <2> TAKE p, q \in D \X (1..m)
  <2> HAVE g[p] = g[q]
  <2>1. /\ B(p[1])[p[2]] \in H(p[1])
        /\ B(q[1])[q[2]] \in H(q[1])
        /\ B(p[1])[p[2]] = B(q[1])[q[2]]
    BY <1>2, <1>3
  <2>2. p[1] = q[1]
    BY <2>1
  <2> QED
    BY <1>2, <1>3, <2>1, <2>2
<1>6. g \in Injection(D \X (1..m), W)
  BY <1>4, <1>5 DEF Injection, IsInjective
<1>7. Cardinality(D \X (1..m)) <= Cardinality(W)
  BY <1>6, FS_Injection
<1>8. IsFiniteSet(1..m) /\ Cardinality(1..m) = m
  BY FS_Interval
<1> QED
  BY <1>7, <1>8, FS_Product

-----------------------------------------------------------------------------

\* The least loaded device of a pool is below the even share as long as a
\* worker has no target.
LEMMA LeastBelowShare ==
  ASSUME SchedulerTypeOK, LedgerHeld,
         NEW w \in Workers, target[w] = NoTarget,
         NEW k \in {"cpu", "gpu"}, NEW d \in Least(k)
  PROVE  load[d] * Cardinality(Pool(k)) < Cardinality(Workers)
<1> DEFINE W == {v \in Workers : target[v] \in Pool(k)}
           f == [v \in W |-> target[v]]
<1>1. IsFiniteSet(Workers) /\ IsFiniteSet(Pool(k)) /\ NoTarget \notin Devices
  BY Finiteness DEF SchedulerTypeOK
<1>2. Pool(k) \subseteq Devices
  BY DEF Devices
<1>3. W \in SUBSET (Workers \ {w})
  BY <1>1, <1>2
<1>4. IsFiniteSet(Workers \ {w}) /\ Cardinality(Workers \ {w}) = Cardinality(Workers) - 1
  BY <1>1, FS_RemoveElement
<1>5. IsFiniteSet(W) /\ Cardinality(W) <= Cardinality(Workers) - 1
  BY <1>3, <1>4, FS_Subset
<1>6. d \in Pool(k) /\ load[d] \in Nat
  BY <1>2 DEF Least, SchedulerTypeOK
<1>7. \A e \in Pool(k) : load[d] <= Cardinality({v \in W : f[v] = e})
  <2> TAKE e \in Pool(k)
  <2>1. {v \in W : f[v] = e} = {v \in Workers : target[v] = e}
    OBVIOUS
  <2>2. load[e] = Cardinality({v \in Workers : target[v] = e})
    BY <1>2 DEF LedgerHeld, Holders
  <2> QED
    BY <2>1, <2>2 DEF Least
<1>8. f \in [W -> Pool(k)]
  OBVIOUS
<1> HIDE DEF W, f
<1>9. Cardinality(Pool(k)) * load[d] <= Cardinality(W)
  BY <1>1, <1>5, <1>6, <1>7, <1>8, PigeonHole
<1>10. /\ Cardinality(Pool(k)) \in Nat /\ Cardinality(W) \in Nat
       /\ Cardinality(Workers) \in Nat
  BY <1>1, <1>5, FS_CardinalityType
<1>11. Cardinality(Pool(k)) * load[d] = load[d] * Cardinality(Pool(k))
  BY <1>6, <1>10
<1>12. load[d] * Cardinality(Pool(k)) \in Nat
  BY <1>6, <1>10
<1> QED
  BY <1>5, <1>9, <1>10, <1>11, <1>12

\* Devices and threads are those of the profile, which no step changes.
LEMMA SameProfile ==
  ASSUME profile' = profile
  PROVE  /\ Devices' = Devices /\ Workers' = Workers
         /\ \A k : Pool(k)' = Pool(k)
BY DEF Devices, Workers, Pool

\* A step that leaves loads and targets alone keeps the ledger.
LEMMA SameLedger ==
  ASSUME SchedulerIInv, UNCHANGED <<profile, load, target>>
  PROVE  LedgerHeld' /\ EvenShare'
<1>1. Devices' = Devices /\ Workers' = Workers /\ \A k : Pool(k)' = Pool(k)
  BY SameProfile
<1>2. LedgerHeld'
  BY <1>1 DEF SchedulerIInv, LedgerHeld, Holders
<1>3. EvenShare'
  BY <1>1 DEF SchedulerIInv, EvenShare
<1> QED
  BY <1>2, <1>3

LEMMA DispatchKeeps ==
  ASSUME SchedulerIInv, NEW w \in Workers, Dispatch(w)
  PROVE  SchedulerIInv'
<1> USE DEF SchedulerIInv
<1>1. /\ profile' = profile /\ Devices' = Devices /\ Workers' = Workers
      /\ \A k : Pool(k)' = Pool(k)
  BY SameProfile DEF Dispatch
<1>2. PICK d \in Least(Kind(w)) :
        /\ load' = [load EXCEPT ![d] = @ + 1]
        /\ target' = [target EXCEPT ![w] = d]
  BY DEF Dispatch
<1>3. Kind(w) \in {"cpu", "gpu"} /\ d \in Pool(Kind(w)) /\ d \in Devices
  BY DEF Kind, Least, Devices
<1>4. pc[w] = "dispatch" /\ target[w] = NoTarget /\ NoTarget \notin Devices
  BY Finiteness DEF Dispatch, TargetHeld, SchedulerTypeOK
<1>5. SchedulerTypeOK'
  BY <1>1, <1>2, <1>3 DEF SchedulerTypeOK, Dispatch
<1>6. TargetHeld'
  BY <1>1, <1>2, <1>3 DEF SchedulerTypeOK, TargetHeld, Dispatch
<1>7. ASSUME NEW e \in Devices
      PROVE  /\ load'[e] = IF e = d THEN load[e] + 1 ELSE load[e]
             /\ Holders(e)' = IF e = d THEN Holders(e) \cup {w} ELSE Holders(e)
             /\ w \notin Holders(e)
  BY <1>1, <1>2, <1>4 DEF SchedulerTypeOK, Holders
<1>8. LedgerHeld'
  <2> SUFFICES ASSUME NEW e \in Devices
               PROVE  load'[e] = Cardinality(Holders(e)')
    BY <1>1 DEF LedgerHeld, Holders
  <2>1. load[e] = Cardinality(Holders(e))
    BY DEF LedgerHeld, Holders
  <2>2. Holders(e) \in SUBSET Workers /\ IsFiniteSet(Workers)
    BY Finiteness DEF Holders, SchedulerTypeOK
  <2>3. IsFiniteSet(Holders(e))
    BY <2>2, FS_Subset
  <2> QED
    BY <1>7, <2>1, <2>3, FS_AddElement
<1>9. EvenShare'
  <2> SUFFICES ASSUME NEW e \in Devices
               PROVE  (load'[e] - 1) * Cardinality(Pool(e[1])) < Cardinality(Workers)
    BY <1>1 DEF EvenShare
  <2>1. CASE e # d
    BY <1>7, <2>1 DEF EvenShare
  <2>2. CASE e = d
    <3>1. load[d] * Cardinality(Pool(Kind(w))) < Cardinality(Workers)
      BY <1>3, <1>4, LeastBelowShare
    <3>2. d[1] = Kind(w)
      BY <1>3 DEF Pool
    <3>3. load'[e] - 1 = load[d]
      BY <1>3, <1>7, <2>2 DEF SchedulerTypeOK
    <3> QED
      BY <2>2, <3>1, <3>2, <3>3
  <2> QED
    BY <2>1, <2>2
<1> QED
  BY <1>5, <1>6, <1>8, <1>9

LEMMA CompleteKeeps ==
  ASSUME SchedulerIInv, NEW w \in Workers, Complete(w)
  PROVE  SchedulerIInv'
<1> USE DEF SchedulerIInv
<1> DEFINE d == target[w]
<1>1. /\ profile' = profile /\ Devices' = Devices /\ Workers' = Workers
      /\ \A k : Pool(k)' = Pool(k)
  BY SameProfile DEF Complete
<1>2. d \in Devices /\ NoTarget \notin Devices
  BY Finiteness DEF Complete, TargetHeld, SchedulerTypeOK
<1>3. ASSUME NEW e \in Devices
      PROVE  IsFiniteSet(Holders(e)) /\ load[e] = Cardinality(Holders(e)) /\ load[e] \in Nat
  <2>1. Holders(e) \in SUBSET Workers /\ IsFiniteSet(Workers)
    BY Finiteness DEF Holders, SchedulerTypeOK
  <2>2. IsFiniteSet(Holders(e))
    BY <2>1, FS_Subset
  <2> QED
    BY <2>2 DEF LedgerHeld, SchedulerTypeOK, Holders
<1>4. load[d] > 0
  <2>1. Holders(d) # {}
    BY DEF Holders
  <2> QED
    BY <1>2, <1>3, <2>1, FS_EmptySet
<1>5. load' = [load EXCEPT ![d] = @ - 1] /\ target' = [target EXCEPT ![w] = NoTarget]
  BY <1>2, <1>4 DEF Complete, SchedulerTypeOK
<1>6. SchedulerTypeOK'
  BY <1>1, <1>2, <1>3, <1>4, <1>5 DEF SchedulerTypeOK, Complete
<1>7. TargetHeld'
  BY <1>1, <1>5 DEF SchedulerTypeOK, TargetHeld, Complete
<1>8. ASSUME NEW e \in Devices
      PROVE  /\ load'[e] = IF e = d THEN load[e] - 1 ELSE load[e]
             /\ Holders(e)' = IF e = d THEN Holders(e) \ {w} ELSE Holders(e)
             /\ e = d <=> w \in Holders(e)
  BY <1>1, <1>2, <1>5 DEF SchedulerTypeOK, Holders
<1>9. LedgerHeld'
  <2> SUFFICES ASSUME NEW e \in Devices
               PROVE  load'[e] = Cardinality(Holders(e)')
    BY <1>1 DEF LedgerHeld, Holders
  <2> QED
    BY <1>3, <1>8, FS_RemoveElement
<1>10. EvenShare'
  <2> SUFFICES ASSUME NEW e \in Devices
               PROVE  (load'[e] - 1) * Cardinality(Pool(e[1])) < Cardinality(Workers)
    BY <1>1 DEF EvenShare
  <2> DEFINE n == Cardinality(Pool(e[1]))
             t == Cardinality(Workers)
  <2>1. n \in Nat /\ t \in Nat
    <3>1. e[1] \in {"cpu", "gpu"}
      BY DEF Devices, Pool
    <3> QED
      BY <3>1, Finiteness, FS_CardinalityType DEF SchedulerTypeOK
  <2>2. (load[e] - 1) * n < t
    BY DEF EvenShare
  <2>3. load[e] \in Nat /\ (load'[e] = load[e] \/ load'[e] = load[e] - 1)
    BY <1>3, <1>8
  <2> HIDE DEF n, t
  <2>4. (load[e] - 1 - 1) * n <= (load[e] - 1) * n
    <3>1. (load[e] - 1 - 1) * n = (load[e] - 1) * n - n
      BY <2>1, <2>3
    <3>2. (load[e] - 1) * n \in Int
      BY <2>1, <2>3
    <3> QED
      BY <2>1, <3>1, <3>2
  <2>5. (load[e] - 1) * n \in Int /\ (load[e] - 1 - 1) * n \in Int
    BY <2>1, <2>3
  <2>6. (load'[e] - 1) * n < t
    BY <2>1, <2>2, <2>3, <2>4, <2>5
  <2> QED
    BY <2>6 DEF n, t
<1> QED
  BY <1>6, <1>7, <1>9, <1>10

LEMMA SchedulerStepKeeps == SchedulerIInv /\ [SchedulerNext]_schedulerVars => SchedulerIInv'
<1> SUFFICES ASSUME SchedulerIInv, [SchedulerNext]_schedulerVars PROVE SchedulerIInv'
  OBVIOUS
<1>1. ASSUME NEW w \in Workers, TakeSegment(w) \/ Succeed(w) \/ Fail(w)
      PROVE  SchedulerIInv'
  <2>1. UNCHANGED <<profile, load, target>>
    BY <1>1 DEF TakeSegment, Succeed, Fail
  <2>2. Devices' = Devices /\ Workers' = Workers
    BY <2>1, SameProfile
  <2>3. SchedulerTypeOK'
    BY <1>1, <2>1, <2>2 DEF SchedulerIInv, SchedulerTypeOK, TakeSegment, Succeed, Fail
  <2>4. TargetHeld'
    BY <1>1, <2>1, <2>2 DEF SchedulerIInv, SchedulerTypeOK, TargetHeld, TakeSegment, Succeed, Fail
  <2> QED
    BY <2>1, <2>3, <2>4, SameLedger DEF SchedulerIInv
<1>2. ASSUME UNCHANGED schedulerVars PROVE SchedulerIInv'
  <2>1. UNCHANGED <<profile, load, target>>
    BY <1>2 DEF schedulerVars
  <2>2. Devices' = Devices /\ Workers' = Workers
    BY <2>1, SameProfile
  <2>3. SchedulerTypeOK' /\ TargetHeld'
    BY <1>2, <2>2 DEF SchedulerIInv, SchedulerTypeOK, TargetHeld, schedulerVars
  <2> QED
    BY <2>1, <2>3, SameLedger DEF SchedulerIInv
<1>3. CASE \E w \in Workers : Worker(w)
  BY <1>1, <1>3, DispatchKeeps, CompleteKeeps DEF Worker
<1> QED
  BY <1>2, <1>3 DEF SchedulerNext, AllDone

-----------------------------------------------------------------------------

\* Types are kept, and every profile has a CPU worker.
THEOREM SchedulerTypeCorrect == SchedulerSpec => []SchedulerTypeOK
<1>1. SchedulerIInv => SchedulerTypeOK
  BY DEF SchedulerIInv
<1> QED
  BY SchedulerInitHolds, SchedulerStepKeeps, <1>1, PTL DEF SchedulerSpec

\* No load is less than the work under way, and until a worker fails it is
\* that work exactly (scheduler.rs:57-93, worker.rs:40-84).
THEOREM LedgerIsExact == SchedulerSpec => []LedgerExact
<1>1. SchedulerIInv => LedgerExact
  <2> SUFFICES ASSUME SchedulerTypeOK, TargetHeld, LedgerHeld, NEW d \in Devices
               PROVE  /\ Cardinality(Running(d)) <= load[d]
                      /\ Failed = {} => load[d] = Cardinality(Running(d))
    BY DEF SchedulerIInv, LedgerExact
  <2>1. IsFiniteSet(Workers) /\ NoTarget \notin Devices
    BY Finiteness DEF SchedulerTypeOK
  <2>2. Holders(d) \in SUBSET Workers /\ Running(d) \in SUBSET Holders(d)
    BY DEF Holders, Running
  <2>3. load[d] = Cardinality(Holders(d)) /\ IsFiniteSet(Holders(d))
    BY <2>1, <2>2, FS_Subset DEF LedgerHeld
  <2>4. Cardinality(Running(d)) <= Cardinality(Holders(d))
    BY <2>2, <2>3, FS_Subset
  <2>5. Failed = {} => Holders(d) = Running(d)
    BY <2>1 DEF SchedulerTypeOK, TargetHeld, Failed, Holders, Running
  <2> QED
    BY <2>3, <2>4, <2>5
<1> QED
  BY SchedulerInitHolds, SchedulerStepKeeps, <1>1, PTL DEF SchedulerSpec

\* No device gets more than its even share of the threads, for any number of
\* devices and threads (parallelism.md:290).
THEOREM ShareIsEven == SchedulerSpec => []EvenShare
<1>1. SchedulerIInv => EvenShare
  BY DEF SchedulerIInv
<1> QED
  BY SchedulerInitHolds, SchedulerStepKeeps, <1>1, PTL DEF SchedulerSpec

\* dispatch never takes the minimum of an empty pool, on any machine and with
\* any options (profiles.rs:161-343, scheduler.rs:57-77).
THEOREM DispatchFindsDevice == SchedulerSpec => []DispatchNeverPanics
<1>1. SchedulerIInv => DispatchNeverPanics
  <2> SUFFICES ASSUME SchedulerTypeOK, NEW w \in Workers PROVE Pool(Kind(w)) # {}
    BY DEF SchedulerIInv, DispatchNeverPanics
  <2>1. CASE Kind(w) = "gpu"
    <3>1. profile.gpu \in Nat /\ profile.gpu > 0
      BY <2>1 DEF Kind, SchedulerTypeOK
    <3>2. <<"gpu", 0>> \in Pool("gpu")
      BY <3>1 DEF Pool
    <3> QED
      BY <2>1, <3>2
  <2>2. CASE Kind(w) = "cpu"
    <3>1. <<"cpu", 0>> \in Pool("cpu")
      BY DEF Pool, SchedulerTypeOK
    <3> QED
      BY <2>2, <3>1
  <2> QED
    BY <2>1, <2>2 DEF Kind
<1> QED
  BY SchedulerInitHolds, SchedulerStepKeeps, <1>1, PTL DEF SchedulerSpec
=============================================================================
