----------------------------- MODULE WriterAlone -----------------------------
(***************************************************************************)
(* OrderedWriter fed by one stream: its N data segments and FINAL marker   *)
(* arrive in any order, and the loop that feeds it may end early           *)
(* (cancellation, closed channel).                                         *)
(***************************************************************************)
EXTENDS OrderedWriter

CONSTANT N   \* number of data segments; the FINAL marker has index N

ASSUME StreamAssumption == N \in Nat

VARIABLES
  arriving,  \* segments not yet received
  failed     \* a write has failed

fedVars == <<next, pending, finalIndex, written, writerPc, finishOk, arriving, failed>>

Segment(i) ==
  IF i = N THEN [index |-> i, kind |-> "final", chunk |-> i]
           ELSE [index |-> i, kind |-> "data", chunk |-> i]
Stream == {Segment(i) : i \in 0..N}

FedInit ==
  /\ WriterInit
  /\ arriving = Stream
  /\ failed = FALSE

FedReceive(s) == Push(s) /\ arriving' = arriving \ {s} /\ UNCHANGED failed

FedStep ==
  /\ WriterStep \/ Finish
  /\ failed' = (failed \/ WriteFails)
  /\ UNCHANGED arriving

FedFinished == writerPc = "done" /\ UNCHANGED fedVars

FedNext ==
  \/ \E s \in arriving : FedReceive(s)
  \/ FedStep
  \/ FedFinished

FedSpec == FedInit /\ [][FedNext]_fedVars

-----------------------------------------------------------------------------

\* Type invariant of the writer.
WriterTypeOK ==
  /\ next \in Nat
  /\ DOMAIN pending \subseteq Nat
  /\ \A i \in DOMAIN pending : pending[i] = Segment(i)
  /\ finalIndex \in {NoIndex, N}
  /\ written \in Seq(Stream)
  /\ writerPc \in {"idle", "flush", "failed", "drain", "done"}
  /\ finishOk \in {"none", "ok", "missing", "io"}
  /\ arriving \subseteq Stream
  /\ failed \in BOOLEAN

\* Whatever the arrival order and wherever a write fails, the sink holds the
\* first segments of the stream, each once, none skipped (io.rs:305-311).
OutputIsPrefix ==
  /\ Len(written) \in 0..(N + 1)
  /\ \A i \in 1..Len(written) : written[i] = Segment(i - 1)

\* The writer buffers only what cannot be written yet: between two pushes it
\* waits for the first index that has not arrived (io.rs:276-285).
WaitsForFirstMissing ==
  writerPc = "idle" =>
    /\ Segment(next) \in arriving \/ next = N + 1
    /\ \A i \in 0..(next - 1) : Segment(i) \notin arriving

\* finish's check of the FINAL marker alone is enough when every segment was
\* received and no write failed: nothing is left pending (io.rs:287-303).
CompleteWhenFed ==
  (finishOk = "ok" /\ arriving = {} /\ ~failed) =>
    /\ Len(written) = N + 1
    /\ DOMAIN pending = {}

\* Once a write has failed nothing more reaches the sink, although finish
\* still drains what is pending (io.rs:287-294, pipeline.rs:223-238).
NothingAfterFailure == [][failed => written' = written]_fedVars
=============================================================================
