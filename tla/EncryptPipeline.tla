---------------------------- MODULE EncryptPipeline ----------------------------
(***************************************************************************)
(* One call of the v3 encrypt_pipeline: the readers feed the compression   *)
(* workers, these the segment workers, these the ordered writer.           *)
(***************************************************************************)
EXTENDS ReaderPool, PipelineStages

vars == <<feed, errorVars, readerVars, stageVars, mainVars, writerVars>>

Init == ReadersInit /\ StagesInit

-----------------------------------------------------------------------------

\* io::write_header fails before anything was spawned: early return.
WriteHeader ==
  /\ main = "header"
  /\ \/ main' = "spawn" /\ UNCHANGED result
     \/ "write" \in Faults /\ main' = "returned" /\ result' = "error"
  /\ UNCHANGED <<feed, errorVars, stageVars, taken, held, writerVars>>

\* Readers first, then compression workers, then segment workers.
SpawnReader ==
  /\ main = "spawn"
  /\ \/ StopSpawning
     \/ \E r \in Readers : Spawn(r)
     \/ "read" \in Faults /\ OpenFails
  /\ UNCHANGED <<stageVars, mainVars, writerVars>>

SpawnCompressor == SpawnWorkers(Compressors, SpawningDone, TRUE)
SpawnCryptor == SpawnWorkers(Cryptors, SpawningDone /\ AllSpawned(Compressors), TRUE)

Reader(r) ==
  /\ ReaderStep(r, Open(Compressors)) \/ ("read" \in Faults /\ ReadFails(r))
  /\ UNCHANGED <<stageVars, mainVars, writerVars>>

\* compress_chunk, and process_encrypt_segment_3, which watches the flag.
CompressSegment(c) == Process(c, "compress", FALSE)
EncryptSegment(x) == Process(x, "crypto", TRUE)

\* run_compress_worker: the FINAL marker passes through untouched.
Compressor(c) ==
  /\ \/ /\ RecvFrom(c, feed, FeedClosed)
        /\ UNCHANGED <<errorVars, mid, out, mainVars, writerVars>>
     \/ Check(c)
     \/ CompressSegment(c)
     \/ SendOn(c, mid, Open(Cryptors), TRUE) /\ UNCHANGED out
  /\ UNCHANGED readerVars

\* EncryptSegmentWorker3::run.
Cryptor(x) ==
  /\ \/ /\ RecvFrom(x, mid, ~Live(Compressors))
        /\ UNCHANGED <<feed, errorVars, out, mainVars, writerVars>>
     \/ Check(x)
     \/ EncryptSegment(x)
     \/ SendOn(x, out, TRUE, FALSE) /\ UNCHANGED mid
  /\ UNCHANGED readerVars

Main ==
  \/ SpawnReader
  \/ /\ \/ WriteHeader \/ SpawnCompressor \/ SpawnCryptor
        \/ EnterLoop(SpawningDone)
        \/ LoopEnds(Cryptors)
        \/ PushTaken(TRUE)
        \/ WriterLoop
        \/ Join(FeedClosed)
     /\ UNCHANGED readerVars

Returned == main = "returned" /\ UNCHANGED vars

Next ==
  \/ Main
  \/ \E r \in Readers : Reader(r)
  \/ \E c \in Compressors : Compressor(c)
  \/ \E x \in Cryptors : Cryptor(x)
  \/ Returned

(* Every thread is scheduled whenever it is not blocked.                   *)
Fairness ==
  /\ WF_vars(Main)
  /\ \A r \in Readers : WF_vars(Reader(r))
  /\ \A c \in Compressors : WF_vars(Compressor(c))
  /\ \A x \in Cryptors : WF_vars(Cryptor(x))

Spec == Init /\ [][Next]_vars /\ Fairness

-----------------------------------------------------------------------------

OneReader == \A p, q \in Readers : p = q

Places(i) ==
  Downstream(i) + Cardinality({r \in Readers : /\ reader[r] \in {"check", "send", "final"}
                                               /\ item[r].index = i})

\* A numbered segment is never in two places, and as long as nothing was
\* reported it is in one: no stage loses or repeats a segment on its way
\* (readers.rs:160-178, worker.rs:31-85, encrypt.rs:77-109, pipeline.rs:213-234).
EverySegmentOnce ==
  \A i \in 0..(count - 1) : Places(i) <= 1 /\ (Undisturbed => Places(i) = 1)

\* Ok means that every chunk of the input is out, once, under the indices from
\* 0 on and closed by its FINAL marker, although the writer checks only that a
\* FINAL marker was seen (io.rs:296-299) and the threads stop on their own
\* (pipeline.rs:213-264).  In the order of the input it is out of a single
\* reader only: several readers of a file permute it (IndexIsChunk of
\* ReadersAlone), and several of memory may leave the FINAL marker with the
\* index of a segment, so that not even the rest holds (readers.rs:303).
OkMeansComplete ==
  result = "ok" =>
    /\ Len(written) = Chunks + 1
    /\ \A i \in 1..Chunks : written[i].index = i - 1 /\ written[i].kind = "data"
    /\ {written[i].chunk : i \in 1..Chunks} = 0..(Chunks - 1)
    /\ OneReader => \A i \in 1..Chunks : written[i].chunk = i - 1
    /\ written[Chunks + 1] = Final(Chunks)

\* The call returns, unless a failed push or a cancellation ends the writer
\* loop in front of a full channel whose receiver lives on until after the
\* join (pipeline.rs:213-226, 248-249): its senders are joined and blocked.
ReturnsUnlessAbandoned == <>[](result # "pending" \/ OutputAbandoned)
=============================================================================
