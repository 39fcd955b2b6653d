---------------------------- MODULE DecryptPipeline ----------------------------
(***************************************************************************)
(* One call of the v3 decrypt_pipeline: a single reader parses the stream  *)
(* into segments and feeds the segment workers, these the decompression    *)
(* workers, these the ordered writer.                                      *)
(*                                                                         *)
(* The input is a stream as the encrypt pipeline writes it, or the first   *)
(* part of one: cut at a segment or inside a segment header (the reader    *)
(* cannot tell it from the end), or inside a segment's wire bytes.         *)
(***************************************************************************)
EXTENDS PipelineStages

VARIABLES
  whole,   \* segments that are whole in the input, out of Chunks + 1
  torn,    \* the input ends inside the wire bytes of the next one
  parser,  \* where the reader thread is
  parsed,  \* segments it has parsed
  segment  \* the segment it holds

readerVars == <<whole, torn, parser, parsed, segment>>
vars == <<feed, errorVars, readerVars, stageVars, mainVars, writerVars>>

Segment(i) == IF i = Chunks THEN Final(i) ELSE Data(i, i)

Init ==
  /\ StagesInit
  /\ whole \in 0..(Chunks + 1)
  /\ torn \in BOOLEAN
  /\ torn => whole < Chunks    \* the FINAL marker has no wire bytes
  /\ parser = "unspawned"
  /\ parsed = 0
  /\ segment = Final(0)

ParserDone == parser = "done"

-----------------------------------------------------------------------------

\* The header was read by the caller: nothing can fail before the scope.
Start ==
  /\ main = "header"
  /\ main' = "spawn"
  /\ UNCHANGED <<feed, errorVars, readerVars, stageVars, taken, held, result, writerVars>>

\* One reader for every kind of source.  When the file cannot be opened that
\* is reported and there is none; nothing else can have set the flag yet.
SpawnParser ==
  /\ main = "spawn"
  /\ parser = "unspawned"
  /\ \/ parser' = "loop" /\ UNCHANGED errorVars
     \/ "read" \in Faults /\ parser' = "done" /\ ReportError("read")
  /\ UNCHANGED <<feed, whole, torn, parsed, segment, stageVars, mainVars,
                 writerVars>>

\* The segment workers' loop does not look at the flag, the other one does.
SpawnCryptor == SpawnWorkers(Cryptors, parser # "unspawned", FALSE)
SpawnDecompressor == SpawnWorkers(Compressors, AllSpawned(Cryptors), TRUE)

\* The flag is checked once per segment.  A failed read of the next segment
\* header is the end of the stream, a failed read of its wire an error.
Parse ==
  /\ parser = "loop"
  /\ IF cancelled \/ (parsed = whole /\ ~torn)
       THEN parser' = "done" /\ UNCHANGED <<errorVars, parsed, segment>>
     ELSE IF parsed = whole
       THEN parser' = "done" /\ ReportError("read") /\ UNCHANGED <<parsed, segment>>
     ELSE /\ parser' = "send"
          /\ segment' = Segment(parsed)
          /\ parsed' = parsed + 1
          /\ UNCHANGED errorVars
  /\ UNCHANGED <<feed, whole, torn>>

SendParsed ==
  /\ parser = "send"
  /\ SendTo(feed, segment, Open(Cryptors))
  /\ parser' = "loop"
  /\ UNCHANGED <<errorVars, whole, torn, parsed, segment>>

Reader == (Parse \/ SendParsed) /\ UNCHANGED <<stageVars, mainVars, writerVars>>

\* process_decrypt_segment_3, which watches the flag, and decompress_chunk.
DecryptSegment(x) == Process(x, "crypto", TRUE)
DecompressSegment(d) == Process(d, "compress", FALSE)

\* DecryptSegmentWorker3::run.
Cryptor(x) ==
  /\ \/ /\ RecvFrom(x, feed, ParserDone)
        /\ UNCHANGED <<errorVars, mid, out, mainVars, writerVars>>
     \/ Check(x)
     \/ DecryptSegment(x)
     \/ SendOn(x, mid, Open(Compressors), FALSE) /\ UNCHANGED out
  /\ UNCHANGED readerVars

\* run_decompress_worker.
Decompressor(d) ==
  /\ \/ /\ RecvFrom(d, mid, ~Live(Cryptors))
        /\ UNCHANGED <<feed, errorVars, out, mainVars, writerVars>>
     \/ Check(d)
     \/ DecompressSegment(d)
     \/ SendOn(d, out, TRUE, TRUE) /\ UNCHANGED mid
  /\ UNCHANGED readerVars

\* This writer loop does not look at the flag: it ends with the channel.
Main ==
  \/ Start \/ SpawnParser
  \/ /\ \/ SpawnCryptor \/ SpawnDecompressor
        \/ EnterLoop(parser # "unspawned")
        \/ LoopEnds(Compressors)
        \/ PushTaken(FALSE)
        \/ WriterLoop
        \/ Join(ParserDone)
     /\ UNCHANGED readerVars

Returned == main = "returned" /\ UNCHANGED vars

Next ==
  \/ Main
  \/ Reader
  \/ \E x \in Cryptors : Cryptor(x)
  \/ \E d \in Compressors : Decompressor(d)
  \/ Returned

(* Every thread is scheduled whenever it is not blocked.                   *)
Fairness ==
  /\ WF_vars(Main)
  /\ WF_vars(Reader)
  /\ \A x \in Cryptors : WF_vars(Cryptor(x))
  /\ \A d \in Compressors : WF_vars(Decompressor(d))

Spec == Init /\ [][Next]_vars /\ Fairness

-----------------------------------------------------------------------------

\* A truncated stream is never taken for a whole one, wherever it was cut,
\* although the reader treats a failed header read as the end of the stream
\* (readers.rs:242-244, io.rs:380-383).
TruncationDetected == result = "ok" => whole = Chunks + 1

\* Ok means that every chunk of the stream reached the sink, in order.
OkMeansComplete ==
  result = "ok" => written = [i \in 1..(Chunks + 1) |-> Segment(i - 1)]

\* The call returns, unless a failed push ends the writer loop in front of a
\* full channel whose receiver lives on until after the join
\* (pipeline.rs:447-464, 476-478).
ReturnsUnlessAbandoned == <>[](result # "pending" \/ OutputAbandoned)
=============================================================================
