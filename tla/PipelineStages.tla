---------------------------- MODULE PipelineStages ----------------------------
(***************************************************************************)
(* The part of a v3 pipeline call that encryption and decryption share:    *)
(* two stages of workers joined by bounded channels,                       *)
(*     feed -> First workers -> mid -> Second workers -> out,              *)
(* and the pipeline function, which spawns them, runs the ordered writer   *)
(* on what comes out, and joins every thread at the end of the scope.      *)
(* EncryptPipeline and DecryptPipeline add the readers and say what the    *)
(* stages are.                                                             *)
(*                                                                         *)
(* Errors are reported as one step (PipelineMonitor has the protocol       *)
(* behind it); telemetry is there too, and the inside of a segment worker  *)
(* is in SegmentWorker.                                                    *)
(***************************************************************************)
EXTENDS PipelineBase, OrderedWriter

CONSTANTS
  Compressors,  \* compression or decompression workers, CPU and GPU ones
  Cryptors,     \* segment workers
  Faults        \* which kinds of failure may happen

Workers == Compressors \cup Cryptors
FaultKinds == {"read", "compress", "crypto", "write"}

ASSUME WorkersAssumption ==
  /\ IsFiniteSet(Workers)
  /\ Compressors # {} /\ Cryptors # {}
  /\ Compressors \cap Cryptors = {}
ASSUME FaultsAssumption == Faults \subseteq FaultKinds
ASSUME NoErrorAssumption == NoError \notin FaultKinds \cup {"send", "finish", "empty"}

VARIABLES
  worker,  \* where each worker is
  work,    \* the segment each worker holds
  mid,     \* channel between the two stages
  out,     \* channel to the writer
  main,    \* where the pipeline function is
  taken,   \* the segment it took off out
  held,    \* its monitor still holds the spare clones of the receivers
  result   \* "pending", "ok" or "error"

stageVars == <<worker, work, mid, out>>
mainVars == <<main, taken, held, result>>

StagesInit ==
  /\ BaseInit
  /\ WriterInit
  /\ worker = [w \in Workers |-> "unspawned"]
  /\ work = [w \in Workers |-> Final(0)]
  /\ mid = <<>>
  /\ out = <<>>
  /\ main = "header"
  /\ taken = Final(0)
  /\ held = TRUE
  /\ result = "pending"

\* A stage's channel ends live in its workers; the pipeline function stands
\* in for those it has not spawned yet.  Its monitor also holds a clone of
\* each receiver, but no sender.
Live(stage) == \E w \in stage : worker[w] # "done"
Open(stage) == held \/ Live(stage)

-----------------------------------------------------------------------------
(* Spawning.  A loop that checks the flag breaks when it is set: the rest  *)
(* of its workers never exist.                                             *)

SpawnWorkers(stage, before, checks) ==
  LET rest == {w \in stage : worker[w] = "unspawned"} IN
  /\ main = "spawn"
  /\ before
  /\ rest # {}
  /\ IF checks /\ cancelled
       THEN worker' = [w \in Workers |-> IF w \in rest THEN "done" ELSE worker[w]]
       ELSE \E w \in rest : worker' = [worker EXCEPT ![w] = "recv"]
  /\ UNCHANGED <<feed, errorVars, work, mid, out, mainVars, writerVars>>

AllSpawned(stage) == \A w \in stage : worker[w] # "unspawned"

EnterLoop(readersSpawned) ==
  /\ main = "spawn"
  /\ readersSpawned
  /\ AllSpawned(Workers)
  /\ main' = "loop"
  /\ UNCHANGED <<feed, errorVars, stageVars, taken, held, result, writerVars>>

-----------------------------------------------------------------------------
(* The workers.                                                            *)

\* rx.recv(): the next segment, or Err once every sender is gone.
RecvFrom(w, channel, closed) ==
  /\ worker[w] = "recv"
  /\ IF channel # <<>>
       THEN /\ work' = [work EXCEPT ![w] = Head(channel)]
            /\ worker' = [worker EXCEPT ![w] = "got"]
            /\ channel' = Tail(channel)
       ELSE /\ closed
            /\ worker' = [worker EXCEPT ![w] = "done"]
            /\ UNCHANGED <<work, channel>>

\* is_cancelled() once per received segment; the segment is dropped.
Check(w) ==
  /\ worker[w] = "got"
  /\ worker' = [worker EXCEPT ![w] = IF cancelled THEN "done" ELSE "busy"]
  /\ UNCHANGED <<feed, errorVars, work, mid, out, mainVars, writerVars>>

\* The segment is processed, which fails only for data; fault is the kind.
\* A worker that watches for cancellation while it works may give up.
Process(w, fault, watches) ==
  /\ worker[w] = "busy"
  /\ \/ /\ worker' = [worker EXCEPT ![w] = "send"]
        /\ UNCHANGED errorVars
     \/ /\ work[w].kind = "data"
        /\ fault \in Faults
        /\ ReportError(fault)
        /\ worker' = [worker EXCEPT ![w] = "done"]
     \/ /\ work[w].kind = "data"
        /\ watches
        /\ cancelled
        /\ worker' = [worker EXCEPT ![w] = "done"]
        /\ UNCHANGED errorVars
  /\ UNCHANGED <<feed, work, mid, out, mainVars, writerVars>>

\* Defect: try_send, and a full channel drops the segment.
SendOnTries(w, channel, open, ignored) ==
  /\ worker[w] = "send"
  /\ channel' = IF open /\ Len(channel) < Capacity THEN Append(channel, work[w]) ELSE channel
  /\ worker' = [worker EXCEPT ![w] = "recv"]
  /\ UNCHANGED <<feed, errorVars, work, mainVars, writerVars>>

\* The result of the send is ignored, or its failure is reported and final.
SendOn(w, channel, open, ignored) ==
  /\ worker[w] = "send"
  /\ SendTo(channel, work[w], open)
  /\ IF open \/ ignored
       THEN worker' = [worker EXCEPT ![w] = "recv"] /\ UNCHANGED errorVars
       ELSE worker' = [worker EXCEPT ![w] = "done"] /\ ReportError("send")
  /\ UNCHANGED <<feed, work, mainVars, writerVars>>

-----------------------------------------------------------------------------
(* The writer loop and the end of the pipeline function.                   *)

\* out_rx.iter(): out_rx itself lives until after the join.
Take ==
  /\ main = "loop"
  /\ out # <<>>
  /\ taken' = Head(out)
  /\ out' = Tail(out)
  /\ main' = "taken"
  /\ UNCHANGED <<feed, errorVars, worker, work, mid, held, result, writerVars>>

\* Defect: the monitor holds a spare sender of the channel until finish.
LoopEndsHeld(second) ==
  /\ main = "loop"
  /\ out = <<>>
  /\ ~Live(second)
  /\ ~held
  /\ main' = "finish"
  /\ UNCHANGED <<feed, errorVars, stageVars, taken, held, result, writerVars>>

LoopEnds(second) ==
  /\ main = "loop"
  /\ out = <<>>
  /\ ~Live(second)
  /\ main' = "finish"
  /\ UNCHANGED <<feed, errorVars, stageVars, taken, held, result, writerVars>>

\* With the check, a cancelled loop breaks and the segment is dropped.
PushTaken(checks) ==
  /\ main = "taken"
  /\ IF checks /\ cancelled
       THEN main' = "finish" /\ UNCHANGED writerVars
       ELSE main' = "push" /\ Push(taken)
  /\ UNCHANGED <<feed, errorVars, stageVars, taken, held, result>>

WriterRuns ==
  /\ main \in {"push", "drain"}
  /\ \/ WriteNext \/ FinishReturns
     \/ "write" \in Faults /\ WriteFails
  /\ UNCHANGED <<feed, errorVars, stageVars, mainVars>>

PushOk ==
  /\ main = "push"
  /\ PushReturns
  /\ main' = "loop"
  /\ UNCHANGED <<feed, errorVars, stageVars, taken, held, result>>

\* Defect: the loop breaks without a report.
PushFailedSilently ==
  /\ main = "push"
  /\ writerPc = "failed"
  /\ main' = "finish"
  /\ UNCHANGED <<feed, errorVars, stageVars, taken, held, result, writerVars>>

\* report_error by the owner of the spare receivers drops them too.
PushFailed ==
  /\ main = "push"
  /\ writerPc = "failed"
  /\ ReportError("write")
  /\ held' = (held /\ cancelled)
  /\ main' = "finish"
  /\ UNCHANGED <<feed, stageVars, taken, result, writerVars>>

CallFinish ==
  /\ main = "finish"
  /\ Finish
  /\ main' = "drain"
  /\ UNCHANGED <<feed, errorVars, stageVars, taken, held, result>>

\* The Result of finish is reported, then monitor.finish() drops the spares.
EndOfScope ==
  /\ main = "drain"
  /\ writerPc = "done"
  /\ IF finishOk = "ok" THEN UNCHANGED errorVars ELSE ReportError("finish")
  /\ held' = FALSE
  /\ main' = "join"
  /\ UNCHANGED <<feed, stageVars, taken, result, writerVars>>

\* Defect: the Result is that of the writer alone.
JoinIgnoresFatal(readersDone) ==
  /\ main = "join"
  /\ readersDone
  /\ ~Live(Workers)
  /\ main' = "returned"
  /\ result' = IF finishOk = "ok" THEN "ok" ELSE "error"
  /\ UNCHANGED <<feed, errorVars, stageVars, taken, held, writerVars>>

\* The scope joins every thread, then the recorded error decides.
Join(readersDone) ==
  /\ main = "join"
  /\ readersDone
  /\ ~Live(Workers)
  /\ main' = "returned"
  /\ result' = IF fatal = NoError THEN "ok" ELSE "error"
  /\ UNCHANGED <<feed, errorVars, stageVars, taken, held, writerVars>>

WriterLoop == Take \/ WriterRuns \/ PushOk \/ PushFailed \/ CallFinish \/ EndOfScope

-----------------------------------------------------------------------------

\* The writer loop has ended and the channel to it is full: nobody takes
\* from it any more, nor is its receiver dropped before the join.
OutputAbandoned == main \in {"finish", "drain", "join"} /\ Len(out) = Capacity

\* How many of the places beyond the readers hold segment i.
Downstream(i) ==
  LET In(channel) == Cardinality({k \in DOMAIN channel : channel[k].index = i})
  IN  In(feed) + In(mid) + In(out) + In(written)
      + Cardinality({w \in Workers : /\ worker[w] \in {"got", "busy", "send"}
                                     /\ work[w].index = i})
      + (IF main = "taken" /\ taken.index = i THEN 1 ELSE 0)
      + (IF i \in DOMAIN pending THEN 1 ELSE 0)

\* No stage stopped: nothing was reported and no write failed.
Undisturbed == ~cancelled /\ writerPc # "failed" /\ finishOk # "io"
=============================================================================
