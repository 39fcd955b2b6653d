------------------------------- MODULE StreamCall -------------------------------
(***************************************************************************)
(* The public calls: encrypt_stream_v3 writes a stream, the storage keeps  *)
(* it or damages it in one place, decrypt_stream_v3 reads it back, with    *)
(* the same key and digest or with others, on the same machine or another. *)
(* The storage damages a stream by accident: no checksum or digest is      *)
(* computed anew for what it changed.                                      *)
(* The order of the setup steps is the code's; the pipelines are reduced   *)
(* to the records they write and read, those of the decryption being       *)
(* decrypted in any order.                                                 *)
(***************************************************************************)
EXTENDS StreamFormat, OrderedWriter, Profiles

CONSTANTS
  MaxChunks,   \* chunks of the input
  Frames,      \* frames of a chunk
  Strategies, Salts, Prfs, Dicts  \* what the caller passes

ASSUME ChunksAssumption == MaxChunks \in Nat /\ Frames \in Nat \ {0}

VARIABLES
  given,    \* the caller's [header, key, dict, cores] and the input's length
  enc,      \* where the encrypting call is, or what it returned
  file,     \* the stream [header, records, tail]; tail: what is left of the
            \* next record, "none", part of its "header" or of its "wire"
  storage,  \* what became of it
  reader,   \* the decrypting caller's [key, alg, cores]
  dec,      \* where the decrypting call is, or what it returned
  sink,     \* "old": what was there before, "open": created and truncated
  read,     \* records read, so far
  reading,  \* the reader has not stopped
  fetched,  \* records read and not decrypted
  failed    \* an error was reported

encVars == <<given, enc>>
decVars == <<read, reading, fetched, failed>>
vars == <<encVars, file, storage, reader, dec, sink, decVars, writerVars>>

Base ==
  [magic |-> "RSE1", version |-> 1, algProfile |-> "Chacha20Poly1305HkdfBlake3K",
   cipher |-> "Chacha20Poly1305", hkdfPrf |-> "Blake3K", compression |-> "Auto",
   strategy |-> "Auto", aadDomain |-> "Generic", flags |-> {}, chunkSize |-> 1,
   plaintextSize |-> 0, crc32 |-> <<>>, dictId |-> 0, salt |-> 1, keyId |-> 1,
   parallelHint |-> 0, encTimeNs |-> 0, reserved |-> 0]

\* What the caller sets of it.
Passed == [chunkSize : ChunkSizes, strategy : Strategies, salt : Salts, hkdfPrf : Prfs]
Headers ==
  {[f \in DOMAIN Base |-> IF f \in DOMAIN p THEN p[f] ELSE Base[f]] : p \in Passed}

Machinery(cores) == [cores |-> cores, gpus |-> 0, memory |-> 1]

Chunk(i) == [k \in 1..Frames |-> [len |-> 1, value |-> <<i, k>>]]
Input(n) == [i \in 1..n |-> Chunk(i)]

NoFile == [header |-> Short, records |-> <<>>, tail |-> "none"]
Nobody == [key |-> "key", alg |-> "Blake3", cores |-> 1]

Init ==
  /\ given \in [header : Headers, key : {"key", "short"}, dict : Dicts,
                cores : Cores, chunks : 0..MaxChunks]
  /\ enc = "validate"
  /\ file = NoFile
  /\ storage = "none"
  /\ reader = Nobody
  /\ dec = "waiting"
  /\ sink = "old"
  /\ read = 0 /\ reading = TRUE /\ fetched = {} /\ failed = FALSE
  /\ WriterInit

\* MasterKey::validate and validate_dictionary.
ValidKey(key) == key # "short"
ValidDict(dict) == dict \in {"none", "empty", "valid"}

\* setup_enc_context, setup_dec_context: the key first, then the profile,
\* whose constructor may panic.
Setup(at, h, cores, key, then) ==
  IF at = "derive" THEN IF IsOk(SessionKey(key, h)) THEN "profile" ELSE "err"
  ELSE IF h.strategy \notin Strategy THEN "err"
  ELSE IF StrategyPanics(Machinery(cores), h.strategy, h.chunkSize) THEN "panic"
  ELSE then

Context(key, h, alg) == [header |-> h, key |-> SessionKey(key, h).ok, alg |-> alg]

-----------------------------------------------------------------------------

\* encrypt_stream_v3.

\* The header is not validated here.
ValidateEncrypt ==
  /\ enc = "validate"
  /\ enc' = IF ValidKey(given.key) /\ ValidDict(given.dict) THEN "open" ELSE "err"
  /\ UNCHANGED file

\* File::create: what was there is gone, whatever the rest of the call finds.
OpenFile ==
  /\ enc = "open"
  /\ \/ enc' = "derive" /\ file' = NoFile
     \/ enc' = "err" /\ UNCHANGED file

SetupEncrypt ==
  /\ enc \in {"derive", "profile"}
  /\ enc' = Setup(enc, given.header, given.cores, given.key, "header")
  /\ UNCHANGED file

WriteHeader ==
  /\ enc = "header"
  /\ IF ValidHeader(given.header)
       THEN /\ enc' = "records"
            /\ file' = [file EXCEPT !.header = EncodeHeader(given.header).ok]
       ELSE enc' = "err" /\ UNCHANGED file

NextRecord ==
  LET i == Len(file.records)
      ctx == Context(given.key, given.header, "Blake3")
      r == IF i = given.chunks THEN EncryptSegment(ctx, i, <<>>, TRUE)
                               ELSE EncryptSegment(ctx, i, Chunk(i + 1), FALSE)
  IN r.ok

\* The pipeline writes the records in order, the FINAL marker last.
WriteRecord ==
  /\ enc = "records"
  /\ file' = [file EXCEPT !.records = Append(@, NextRecord)]
  /\ enc' = IF NextRecord.header.final THEN "ok" ELSE "records"

\* The sink fails or the process dies in the middle of a write.
Interrupted ==
  /\ enc \in {"header", "records"}
  /\ enc' = "cut"
  /\ \E t \in {"none", "header", "wire"} :
       /\ enc = "header" => t = "none"
       /\ t = "wire" => NextRecord.wire # <<>>
       /\ file' = [file EXCEPT !.tail = t]

Encrypt ==
  /\ \/ ValidateEncrypt \/ OpenFile \/ SetupEncrypt \/ WriteHeader \/ WriteRecord
     \/ Interrupted
  /\ UNCHANGED <<given, storage, reader, dec, sink, decVars, writerVars>>

-----------------------------------------------------------------------------

\* The storage, and the caller who decrypts.

Other(h, f) ==
  CASE f \in {"version", "chunkSize", "plaintextSize", "dictId", "salt", "keyId",
              "parallelHint", "encTimeNs", "reserved"} -> h[f] + 1
    [] f = "flags" -> {"DICT_USED"}
    [] f = "crc32" -> <<>>
    [] OTHER -> "other"

OtherSegment(h, f) ==
  CASE f \in {"index", "bytesLen", "wireLen", "frameCount"} -> h[f] + 1
    [] f \in {"wireCrc32", "headerCrc32"} -> <<>>
    [] f = "digestAlg" -> "other"
    [] f = "final" -> ~h.final

Records == file.records
Positions == DOMAIN Records
Without(s, p) == SubSeq(s, 1, p - 1) \o SubSeq(s, p + 1, Len(s))

\* A stretch of s is missing, or there twice.
Restretched(s) ==
  {SubSeq(s, 1, ab[1]) \o SubSeq(s, ab[2], Len(s)) :
     ab \in {x \in (0..Len(s)) \X (1..(Len(s) + 1)) : x[2] # x[1] + 1}}

HeaderAltered ==
  {[file EXCEPT !.header = [@ EXCEPT ![f] = Other(file.header, f)]] : f \in HeaderFields}
Cut ==
  {[file EXCEPT !.records = SubSeq(Records, 1, p - 1), !.tail = t] :
     p \in Positions, t \in {"none", "header"}} \cup
  {[file EXCEPT !.records = SubSeq(Records, 1, p - 1), !.tail = "wire"] :
     p \in {q \in Positions : Records[q].wire # <<>>}} \cup
  {NoFile}
SegmentAltered ==
  {[file EXCEPT !.records[p].header[f] = OtherSegment(Records[p].header, f)] :
     p \in Positions, f \in SegmentFields \cup {"headerCrc32"}}
WireAltered ==
  UNION {{[file EXCEPT !.records[p].wire = w] : w \in Restretched(Records[p].wire)} :
           p \in {q \in Positions : Records[q].wire # <<>>}}
Swapped ==
  {[file EXCEPT !.records[p] = Records[q], !.records[q] = Records[p]] :
     p \in Positions, q \in Positions}
Repeated ==
  {[file EXCEPT !.records = SubSeq(@, 1, p[1]) \o SubSeq(@, p[2], Len(@))] :
     p \in {q \in Positions \X Positions : q[2] <= q[1]}}
Lost == {[file EXCEPT !.records = Without(@, p)] : p \in Positions}

\* What the storage may make of the stream, by name.  A changed field or wire
\* keeps the checksums it had: they are unkeyed (segmenting/types.rs:170-180,
\* digest.rs:161-331), and nothing here is claimed of a stream in which they
\* were computed again.
Alterations ==
  [kept |-> {file},
   header |-> IF file.header = Short THEN {} ELSE HeaderAltered,
   cut |-> Cut, segment |-> SegmentAltered, wire |-> WireAltered,
   swapped |-> Swapped, repeated |-> Repeated, lost |-> Lost]

\* The caller has another key or digest only for a stream that was kept.
Store ==
  /\ enc \in {"ok", "cut"} /\ dec = "waiting"
  /\ \E how \in DOMAIN Alterations :
       /\ storage' = how
       /\ file' \in Alterations[how]
       /\ reader' \in
            IF how = "kept"
              THEN [key : {"key", "other", "short"}, alg : {"Blake3", "Sha256"}, cores : Cores]
              ELSE [key : {"key"}, alg : {"Blake3"}, cores : Cores]
  /\ dec' = "validate"
  /\ UNCHANGED <<encVars, sink, decVars, writerVars>>

-----------------------------------------------------------------------------

\* decrypt_stream_v3.

ValidateDecrypt ==
  /\ dec = "validate"
  /\ dec' = IF ValidKey(reader.key) THEN "header" ELSE "err"
  /\ UNCHANGED sink

\* Defect: the sink is opened first.
ReadHeaderLate ==
  /\ dec = "header"
  /\ dec' = IF IsOk(DecodeHeader(file.header)) THEN "open" ELSE "err"
  /\ sink' = "open"

ReadHeader ==
  /\ dec = "header"
  /\ dec' = IF IsOk(DecodeHeader(file.header)) THEN "open" ELSE "err"
  /\ UNCHANGED sink

OpenSink ==
  /\ dec = "open"
  /\ \/ dec' = "derive" /\ sink' = "open"
     \/ dec' = "err" /\ UNCHANGED sink

SetupDecrypt ==
  /\ dec \in {"derive", "profile"}
  /\ dec' = Setup(dec, file.header, reader.cores, reader.key, "records")
  /\ UNCHANGED sink

\* Defect: a segment header with a wrong checksum is passed over.
FetchPassesOver ==
  /\ reading /\ ~failed
  /\ IF read < Len(Records)
       THEN LET h == Records[read + 1].header IN
            /\ read' = read + 1
            /\ fetched' = IF h.headerCrc32 = SegmentCrc(h) THEN fetched \cup {read + 1}
                                                          ELSE fetched
            /\ UNCHANGED <<reading, failed>>
       ELSE /\ reading' = FALSE
            /\ failed' = (file.tail = "wire")
            /\ UNCHANGED <<read, fetched>>
  /\ UNCHANGED writerVars

\* read_segment_into: a segment header that cannot be read whole is the end
\* of the stream, a wrong checksum or a wire cut short an error.
Fetch ==
  /\ reading /\ ~failed
  /\ IF read < Len(Records)
       THEN LET h == Records[read + 1].header
                good == h.headerCrc32 = SegmentCrc(h)
            IN
            /\ read' = read + 1
            /\ fetched' = IF good THEN fetched \cup {read + 1} ELSE fetched
            /\ reading' = good
            /\ failed' = ~good
       ELSE /\ reading' = FALSE
            /\ failed' = (file.tail = "wire")
            /\ UNCHANGED <<read, fetched>>
  /\ UNCHANGED writerVars

\* A worker decrypts a segment and the writer takes it, or it is an error.
Decode(p) ==
  LET r == DecryptSegment(Context(reader.key, file.header, reader.alg), Records[p])
      h == Records[p].header
  IN
  /\ p \in fetched
  /\ fetched' = fetched \ {p}
  /\ IF IsOk(r)
       THEN /\ Push([index |-> h.index, chunk |-> r.ok,
                     kind |-> IF h.final /\ r.ok = <<>> THEN "final" ELSE "data"])
            /\ UNCHANGED failed
       ELSE failed' = TRUE /\ UNCHANGED writerVars
  /\ UNCHANGED <<read, reading>>

\* The writer loop ends with the stream, or early when the call is cancelled.
EndOfStream ==
  /\ failed \/ (~reading /\ fetched = {})
  /\ Finish
  /\ UNCHANGED decVars

Pipeline ==
  /\ dec = "records"
  /\ \/ Fetch
     \/ \E p \in fetched : Decode(p)
     \/ EndOfStream
     \/ (WriteNext \/ PushReturns \/ FinishReturns) /\ UNCHANGED decVars
  /\ UNCHANGED <<dec, sink>>

Return ==
  /\ dec = "records" /\ writerPc = "done"
  /\ dec' = IF failed \/ finishOk # "ok" THEN "err" ELSE "ok"
  /\ UNCHANGED <<sink, decVars, writerVars>>

Decrypt ==
  /\ \/ ValidateDecrypt /\ UNCHANGED <<decVars, writerVars>>
     \/ ReadHeader /\ UNCHANGED <<decVars, writerVars>>
     \/ OpenSink /\ UNCHANGED <<decVars, writerVars>>
     \/ SetupDecrypt /\ UNCHANGED <<decVars, writerVars>>
     \/ Pipeline
     \/ Return
  /\ UNCHANGED <<encVars, file, storage, reader>>

Finished ==
  /\ enc \in {"err", "panic"} \/ dec \in {"ok", "err", "panic"}
  /\ UNCHANGED vars

Next == Encrypt \/ Store \/ Decrypt \/ Finished

Spec == Init /\ [][Next]_vars

-----------------------------------------------------------------------------

\* What the sink of the decryption holds.
Output ==
  Picked([i \in DOMAIN written |-> written[i].chunk],
         {i \in DOMAIN written : written[i].chunk # <<>>})

\* A decryption that returns Ok has written the input that was encrypted, in
\* order, also when the stream was cut, two records changed places, a stretch
\* of records is there twice, or a field or some frames of one record changed
\* under the checksums they had; when a whole record was lost, at least
\* nothing but a first part of the input.  This is about accidents: records
\* whose checksums and digest were computed again are not among the damages
\* (dec_helpers.rs:60-347, readers.rs:236-269, io.rs:287-303).
OkIsInput ==
  dec = "ok" =>
    /\ Len(Output) <= given.chunks
    /\ Output = SubSeq(Input(given.chunks), 1, Len(Output))
    /\ storage # "lost" => Len(Output) = given.chunks

\* A stream that was written whole and kept is decrypted by whoever has the
\* key and the digest; only a Parallel header on a single core panics
\* (v3/stream/core.rs:128-214).
CleanCallsSucceed ==
  (/\ dec = "panic" \/ (dec = "err" /\ sink = "open")
   /\ enc = "ok" /\ storage = "kept"
   /\ reader.key = "key" /\ reader.alg = "Blake3") =>
  dec = "panic" /\ given.header.strategy = "Parallel" /\ reader.cores = 1

\* The decryption leaves its sink as it was until it has a header that it
\* accepts, unlike the encryption (v3/stream/core.rs:171-192).
RejectLeavesSink == sink = "open" => IsOk(DecodeHeader(file.header))
=============================================================================
