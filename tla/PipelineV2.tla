------------------------------- MODULE PipelineV2 -------------------------------
(***************************************************************************)
(* One call of the v2 encrypt_pipeline or decrypt_pipeline.  Both have the *)
(* shape                                                                   *)
(*                                                                         *)
(*   reader -> feed -> First -> raw -> adapter -> clean -> Second -> out   *)
(*                                                                         *)
(* with the ordered writer, run by the pipeline function itself, behind    *)
(* out.  First are the compression workers of an encryption, the segment   *)
(* workers of a decryption; Second are the others.  raw and out carry      *)
(* Results: a worker that fails sends Err and leaves; the adapter and the  *)
(* writer turn an Err they receive into a fatal error.                     *)
(*                                                                         *)
(* A fatal error is sent to the monitor thread, which takes one, records   *)
(* it, sets the flag and leaves; its receiver goes with it.  A second      *)
(* error finds the channel closed: CancelHandle::fatal panics then, the    *)
(* segment workers, which send by themselves, ignore it.                   *)
(*                                                                         *)
(* The threads of the scope are there from the start: one that is spawned  *)
(* late is one that is scheduled late.  The frame workers of a segment     *)
(* worker are in SegmentWorkerV2.                                          *)
(***************************************************************************)
EXTENDS Naturals, Sequences, FiniteSets, OrderedWriter

CONSTANTS
  Reader, Adapter, Main,   \* three of the threads
  Compressors,             \* (de)compression workers
  Cryptors,                \* segment workers
  MaxInput,                \* bound on the data segments of the input
  Capacity,                \* inflight_segments: capacity of every channel
  Faults,                  \* which kinds of failure may happen
  MaxFaults,               \* bound on the kinds that happen in one call
  NoError                  \* no message, no recorded error

Workers == Compressors \cup Cryptors
Threads == {Reader, Adapter, Main} \cup Workers
FaultKinds == {"read", "compress", "crypto", "write"}

ASSUME ThreadsAssumption ==
  /\ IsFiniteSet(Workers)
  /\ Compressors # {} /\ Cryptors # {} /\ Compressors \cap Cryptors = {}
  /\ Reader # Adapter /\ Reader # Main /\ Adapter # Main
  /\ {Reader, Adapter, Main} \cap Workers = {}
ASSUME LimitsAssumption ==
  /\ MaxInput \in Nat /\ Capacity \in Nat \ {0}
  /\ MaxFaults \in Nat
  /\ Faults \subseteq FaultKinds /\ NoError \notin FaultKinds \cup {"stage", "writer"}

VARIABLES
  mode,       \* "encrypt" or "decrypt"
  input,      \* data segments in the input
  position,   \* segments the reader has taken from it
  pc,         \* where each thread is
  work,       \* the segment each thread holds, Err when none
  queue,      \* the four channels
  mail,       \* the first message sent on fatal_tx: the only one ever read
  monitor,    \* the monitor thread: "waiting", "storing", "exited"
  cancelled,
  fatal,      \* fatal_error
  held,       \* PipelineCancellation still holds its clones of the receivers
  closure,    \* the Result of the closure the scope runs
  raised,     \* kinds of failure that have happened
  result      \* of the call: "pending", "ok", "error", "panic"

settings == <<mode, input>>
threadVars == <<position, pc, work, queue>>
fatalVars == <<mail, monitor, cancelled, fatal>>
endVars == <<closure, result>>
vars == <<settings, threadVars, fatalVars, held, endVars, raised, writerVars>>

Segment(i) == [index |-> i, kind |-> IF i = input THEN "final" ELSE "data", chunk |-> i]
Err == [index |-> 0, kind |-> "error", chunk |-> 0]

First == IF mode = "encrypt" THEN Compressors ELSE Cryptors
Second == IF mode = "encrypt" THEN Cryptors ELSE Compressors

Live(stage) == \E t \in stage : pc[t] \notin {"done", "panicked"}
At(t, place) == pc[t] = place
MayFail(kind) == kind \in Faults /\ Cardinality(raised \cup {kind}) <= MaxFaults
Goto(t, place) == pc' = [pc EXCEPT ![t] = place]
Hold(t, m) == work' = [work EXCEPT ![t] = m]

Init ==
  /\ WriterInit
  /\ mode \in {"encrypt", "decrypt"}
  /\ input \in 0..MaxInput
  /\ position = 0
  /\ pc = [t \in Threads |-> IF t = Reader \/ t \in Cryptors THEN "check" ELSE "recv"]
  /\ work = [t \in Threads |-> Err]
  /\ queue = [place \in {"feed", "raw", "clean", "out"} |-> <<>>]
  /\ mail = NoError
  /\ monitor = "waiting"
  /\ cancelled = FALSE
  /\ fatal = NoError
  /\ held = TRUE
  /\ closure = "running"
  /\ raised = {}
  /\ result = "pending"

-----------------------------------------------------------------------------
(* The channels.  The pipeline function itself keeps comp_rx and out_rx    *)
(* (decomp_out_rx) until it returns.                                       *)

Source(w) == IF w = Adapter THEN "raw" ELSE IF w \in First THEN "feed" ELSE "clean"
Target(w) == IF w = Adapter THEN "clean" ELSE IF w \in First THEN "raw" ELSE "out"

\* Some receiver is left.
Open(place) ==
  CASE place = "feed" -> mode = "encrypt" \/ held \/ Live(First)
    [] place = "raw" -> held \/ Live({Adapter})
    [] place = "clean" -> held \/ Live(Second)
    [] place = "out" -> TRUE

\* No sender is left; the adapter of an encryption has one on out.
Closed(place) ==
  CASE place = "feed" -> ~Live({Reader})
    [] place = "raw" -> ~Live(First)
    [] place = "clean" -> ~Live({Adapter})
    [] place = "out" -> ~Live(Second) /\ (mode = "encrypt" => ~Live({Adapter}))

\* send blocks while the channel is full and fails when it is not open.
Send(place, m) ==
  IF Open(place) THEN /\ Len(queue[place]) < Capacity
                      /\ queue' = [queue EXCEPT ![place] = Append(@, m)]
                 ELSE UNCHANGED queue

\* recv fails: the channel is empty and closed.
Leaves(w) ==
  /\ At(w, "recv")
  /\ queue[Source(w)] = <<>> /\ Closed(Source(w))
  /\ Goto(w, "done")
  /\ UNCHANGED <<settings, position, work, queue, fatalVars, held, endVars, raised, writerVars>>

-----------------------------------------------------------------------------
(* Fatal errors.                                                           *)

Mail(e) == mail' = IF mail = NoError THEN e ELSE mail

\* Cancellation::fatal: the send, which panics without a receiver; a panic
\* of the pipeline function unwinds its closure.
Fatal(t, e) ==
  /\ At(t, "fatal")
  /\ IF monitor # "exited"
       THEN Goto(t, "store") /\ Mail(e) /\ UNCHANGED <<held, closure>>
       ELSE /\ Goto(t, "panicked")
            /\ held' = (held /\ t # Main)
            /\ closure' = IF t = Main THEN "panic" ELSE closure
            /\ UNCHANGED mail
  /\ UNCHANGED <<settings, position, work, queue, monitor, cancelled, fatal, result, raised,
                 writerVars>>

\* Then the flag; the adapter of an encryption sends an Err on.
Store(t) ==
  /\ At(t, "store")
  /\ cancelled' = TRUE
  /\ Goto(t, IF t = Main THEN "end"
             ELSE IF t = Adapter /\ mode = "encrypt" THEN "sendErr" ELSE "done")
  /\ UNCHANGED <<settings, position, work, queue, mail, monitor, fatal, held, endVars, raised,
                 writerVars>>

\* The monitor thread takes the first error and records it.
MonitorTakes ==
  /\ monitor = "waiting"
  /\ mail # NoError
  /\ fatal' = mail
  /\ monitor' = "storing"
  /\ UNCHANGED <<settings, threadVars, mail, cancelled, held, endVars, raised, writerVars>>

\* Defect: the receivers are not cleared.
MonitorStoresOnly ==
  /\ monitor = "storing"
  /\ cancelled' = TRUE
  /\ monitor' = "exited"
  /\ UNCHANGED <<settings, threadVars, mail, fatal, held, endVars, raised, writerVars>>

\* It cancels; the one of encrypt_pipeline also clears the receivers.
MonitorStores ==
  /\ monitor = "storing"
  /\ cancelled' = TRUE
  /\ held' = (held /\ mode = "decrypt")
  /\ monitor' = "exited"
  /\ UNCHANGED <<settings, threadVars, mail, fatal, endVars, raised, writerVars>>

\* Defect: the pipeline function drops its clone of fatal_tx too early.
MonitorLeavesEarly ==
  /\ monitor = "waiting"
  /\ mail = NoError
  /\ ~Live(Threads \ (Compressors \cup {Main}))
  /\ monitor' = "exited"
  /\ UNCHANGED <<settings, threadVars, mail, cancelled, fatal, held, endVars, raised, writerVars>>

\* Every clone of fatal_tx is gone; the compression workers have none.
MonitorLeaves ==
  /\ monitor = "waiting"
  /\ mail = NoError
  /\ ~Live(Threads \ Compressors)
  /\ monitor' = "exited"
  /\ UNCHANGED <<settings, threadVars, mail, cancelled, fatal, held, endVars, raised, writerVars>>

Monitor == MonitorTakes \/ MonitorStores \/ MonitorLeaves

-----------------------------------------------------------------------------
(* The reader.                                                             *)

\* The flag, then the next segment.  An empty input has no FINAL marker.
\* A failed read is fatal to an encryption; the decrypting thread ends, and
\* its Result is dropped.
Read ==
  /\ At(Reader, "check")
  /\ \/ /\ cancelled \/ position > input \/ (mode = "encrypt" /\ input = 0)
        /\ Goto(Reader, "done")
        /\ UNCHANGED <<work, position, raised>>
     \/ /\ ~cancelled /\ position <= input
        /\ mode = "encrypt" => input > 0
        /\ Hold(Reader, Segment(position))
        /\ position' = position + 1
        /\ Goto(Reader, "send")
        /\ UNCHANGED raised
     \/ /\ ~cancelled /\ MayFail("read")
        /\ raised' = raised \cup {"read"}
        /\ Goto(Reader, IF mode = "encrypt" THEN "fatal" ELSE "done")
        /\ UNCHANGED <<work, position>>
  /\ UNCHANGED <<settings, queue, fatalVars, held, endVars, writerVars>>

\* The Result of the send is ignored by an encryption, ends a decryption.
SendRead ==
  /\ At(Reader, "send")
  /\ Send("feed", work[Reader])
  /\ Hold(Reader, Err)
  /\ Goto(Reader, IF Open("feed") THEN "check" ELSE "done")
  /\ UNCHANGED <<settings, position, fatalVars, held, endVars, raised, writerVars>>

ReaderStep == Read \/ SendRead \/ Fatal(Reader, "read") \/ Store(Reader)

-----------------------------------------------------------------------------
(* run_compression_worker, run_decompression_worker: no flag, no fatal_tx. *)

\* Defect: a segment that cannot be compressed is left out.
CompressSkips(c) ==
  /\ At(c, "recv")
  /\ queue[Source(c)] # <<>>
  /\ queue' = [queue EXCEPT ![Source(c)] = Tail(@)]
  /\ LET s == Head(queue[Source(c)]) IN
     \/ Hold(c, s) /\ Goto(c, "send")
     \/ MayFail("compress") /\ s.kind = "data" /\ UNCHANGED <<work, pc>>
  /\ UNCHANGED <<settings, position, fatalVars, held, endVars, raised, writerVars>>

Compress(c) ==
  /\ At(c, "recv")
  /\ queue[Source(c)] # <<>>
  /\ queue' = [queue EXCEPT ![Source(c)] = Tail(@)]
  /\ LET s == Head(queue[Source(c)]) IN
     \/ /\ Hold(c, s)
        /\ Goto(c, "send")
        /\ UNCHANGED raised
     \/ /\ MayFail("compress") /\ s.kind = "data"
        /\ Hold(c, Err)
        /\ raised' = raised \cup {"compress"}
        /\ Goto(c, "sendErr")
  /\ UNCHANGED <<settings, position, fatalVars, held, endVars, writerVars>>

\* The Result of the send is ignored.
SendOn(w) ==
  /\ At(w, "send")
  /\ Send(Target(w), work[w])
  /\ Hold(w, Err)
  /\ Goto(w, "recv")
  /\ UNCHANGED <<settings, position, fatalVars, held, endVars, raised, writerVars>>

\* An Err is the last thing a thread sends.
SendErr(w, next_pc) ==
  /\ At(w, "sendErr")
  /\ Send(IF w = Adapter THEN "out" ELSE Target(w), Err)
  /\ Goto(w, next_pc)
  /\ UNCHANGED <<settings, position, work, fatalVars, held, endVars, raised, writerVars>>

Compressor(c) == Compress(c) \/ SendOn(c) \/ SendErr(c, "done") \/ Leaves(c)

-----------------------------------------------------------------------------
(* EncryptSegmentWorker1::run_v1, DecryptSegmentWorker1::run_v1.           *)

\* The flag is looked at before recv, not after it.
CheckFlag(x) ==
  /\ At(x, "check")
  /\ Goto(x, IF cancelled THEN "done" ELSE "recv")
  /\ UNCHANGED <<settings, position, work, queue, fatalVars, held, endVars, raised, writerVars>>

TakeSegment(x) ==
  /\ At(x, "recv")
  /\ queue[Source(x)] # <<>>
  /\ queue' = [queue EXCEPT ![Source(x)] = Tail(@)]
  /\ Hold(x, Head(queue[Source(x)]))
  /\ Goto(x, "work")
  /\ UNCHANGED <<settings, position, fatalVars, held, endVars, raised, writerVars>>

\* process_segment fails by itself, or because the flag was set meanwhile.
\* A header that does not match its wire is sent on before it is reported.
Work(x) ==
  /\ At(x, "work")
  /\ \/ Goto(x, "send") /\ UNCHANGED <<work, raised>>
     \/ /\ work[x].kind = "data"
        /\ Hold(x, Err)
        /\ \/ cancelled /\ Goto(x, "report") /\ UNCHANGED raised
           \/ /\ MayFail("crypto")
              /\ raised' = raised \cup {"crypto"}
              /\ \/ Goto(x, "report")
                 \/ mode = "decrypt" /\ Goto(x, "invalid")
  /\ UNCHANGED <<settings, position, queue, fatalVars, held, endVars, writerVars>>

SendResult(x) ==
  /\ At(x, "send")
  /\ Send(Target(x), work[x])
  /\ Hold(x, Err)
  /\ Goto(x, IF Open(Target(x)) THEN "check" ELSE "reportLast")
  /\ UNCHANGED <<settings, position, fatalVars, held, endVars, raised, writerVars>>

SendInvalid(x) ==
  /\ At(x, "invalid")
  /\ Send(Target(x), Err)
  /\ Goto(x, "reportLast")
  /\ UNCHANGED <<settings, position, work, fatalVars, held, endVars, raised, writerVars>>

\* let _ = fatal_tx.send(..), then the flag, then the Err.
Report(x) ==
  /\ pc[x] \in {"report", "reportLast"}
  /\ Mail("crypto")
  /\ Goto(x, IF At(x, "report") THEN "flag" ELSE "flagLast")
  /\ UNCHANGED <<settings, position, work, queue, monitor, cancelled, fatal, held, endVars, raised,
                 writerVars>>

Flag(x) ==
  /\ pc[x] \in {"flag", "flagLast"}
  /\ cancelled' = TRUE
  /\ Goto(x, IF At(x, "flag") THEN "sendErr" ELSE "done")
  /\ UNCHANGED <<settings, position, work, queue, mail, monitor, fatal, held, endVars, raised,
                 writerVars>>

Cryptor(x) ==
  CheckFlag(x) \/ TakeSegment(x) \/ Work(x) \/ SendResult(x) \/ SendInvalid(x)
  \/ Report(x) \/ Flag(x) \/ SendErr(x, "done") \/ Leaves(x)

-----------------------------------------------------------------------------
(* The adapter.                                                            *)

\* The flag is looked at behind every recv.
Unwrap ==
  /\ At(Adapter, "recv")
  /\ queue["raw"] # <<>>
  /\ queue' = [queue EXCEPT !["raw"] = Tail(@)]
  /\ LET s == Head(queue["raw"]) IN
     IF cancelled THEN Goto(Adapter, "done") /\ UNCHANGED work
     ELSE IF s.kind = "error" THEN Goto(Adapter, "fatal") /\ UNCHANGED work
     ELSE Goto(Adapter, "send") /\ Hold(Adapter, s)
  /\ UNCHANGED <<settings, position, fatalVars, held, endVars, raised, writerVars>>

AdapterStep ==
  Unwrap \/ SendOn(Adapter) \/ Fatal(Adapter, "stage") \/ Store(Adapter)
  \/ SendErr(Adapter, "done") \/ Leaves(Adapter)

-----------------------------------------------------------------------------
(* The writer loop and the end of the closure.                             *)

Take ==
  /\ At(Main, "recv")
  /\ queue["out"] # <<>>
  /\ queue' = [queue EXCEPT !["out"] = Tail(@)]
  /\ LET s == Head(queue["out"]) IN
     IF cancelled THEN Goto(Main, "end") /\ UNCHANGED writerVars
     ELSE IF s.kind = "error" THEN Goto(Main, "fatal") /\ UNCHANGED writerVars
     ELSE Goto(Main, "push") /\ Push(s)
  /\ UNCHANGED <<settings, position, work, fatalVars, held, endVars, raised>>

LoopEnds ==
  /\ At(Main, "recv")
  /\ queue["out"] = <<>> /\ Closed("out")
  /\ Goto(Main, "end")
  /\ UNCHANGED <<settings, position, work, queue, fatalVars, held, endVars, raised, writerVars>>

\* flush_ready, and what finish drains.
Write ==
  /\ pc[Main] \in {"push", "drain"}
  /\ \/ WriteNext /\ UNCHANGED <<pc, raised>>
     \/ MayFail("write") /\ WriteFails /\ raised' = raised \cup {"write"} /\ UNCHANGED pc
     \/ PushReturns /\ Goto(Main, "recv") /\ UNCHANGED raised
     \/ FinishReturns /\ UNCHANGED <<pc, raised>>
  /\ UNCHANGED <<settings, position, work, queue, fatalVars, held, endVars>>

\* finish is left out after a cancellation.
End ==
  /\ At(Main, "end")
  /\ IF cancelled THEN Goto(Main, "close") /\ UNCHANGED writerVars
                  ELSE Goto(Main, "drain") /\ Finish
  /\ UNCHANGED <<settings, position, work, queue, fatalVars, held, endVars, raised>>

\* The closure returns or unwinds: what PipelineCancellation holds is dropped.
Exit(r) == Goto(Main, "done") /\ held' = FALSE /\ closure' = r

\* push or finish failed.  An encryption makes it fatal; in a decryption the
\* question mark leaves the closure with the flag unset.
WriterFailed ==
  /\ \/ At(Main, "push") /\ writerPc = "failed"
     \/ At(Main, "drain") /\ writerPc = "done" /\ finishOk # "ok"
  /\ IF mode = "encrypt" THEN Goto(Main, "fatal") /\ UNCHANGED <<held, closure>> ELSE Exit("error")
  /\ UNCHANGED <<settings, position, work, queue, fatalVars, result, raised, writerVars>>

WriterDone ==
  /\ At(Main, "drain") /\ writerPc = "done" /\ finishOk = "ok"
  /\ Goto(Main, "close")
  /\ UNCHANGED <<settings, position, work, queue, fatalVars, held, endVars, raised, writerVars>>

\* cancel.finish(), then what the monitor thread has recorded by now.
Close ==
  /\ At(Main, "close")
  /\ Exit(IF fatal = NoError THEN "ok" ELSE "error")
  /\ UNCHANGED <<settings, position, work, queue, fatalVars, result, raised, writerVars>>

\* Defect: an error recorded after finish() is not looked at.
JoinIgnoresLate ==
  /\ result = "pending"
  /\ ~Live(Threads)
  /\ monitor = "exited"
  /\ result' = IF \E t \in Threads : At(t, "panicked") THEN "panic" ELSE closure
  /\ UNCHANGED <<settings, threadVars, fatalVars, held, closure, raised, writerVars>>

\* The scope has joined its threads: a panic of one is the scope's own, then
\* the closure's Result, then what the monitor thread has recorded since.
Join ==
  /\ result = "pending"
  /\ ~Live(Threads)
  /\ monitor = "exited"
  /\ result' = IF \E t \in Threads : At(t, "panicked") THEN "panic"
               ELSE IF closure = "error" \/ fatal # NoError THEN "error" ELSE "ok"
  /\ UNCHANGED <<settings, threadVars, fatalVars, held, closure, raised, writerVars>>

MainStep ==
  Take \/ LoopEnds \/ Write \/ End \/ WriterFailed \/ WriterDone \/ Close
  \/ Fatal(Main, "writer") \/ Store(Main) \/ Join

-----------------------------------------------------------------------------

Step ==
  \/ ReaderStep \/ AdapterStep \/ MainStep \/ Monitor
  \/ \E c \in Compressors : Compressor(c)
  \/ \E x \in Cryptors : Cryptor(x)

Returned == result # "pending" /\ UNCHANGED vars

Next == Step \/ Returned

(* Some thread that is not blocked is scheduled.  A call has finitely many *)
(* steps, so that all of them are in the end.                              *)
Fairness == WF_vars(Step)

Spec == Init /\ [][Next]_vars /\ Fairness

-----------------------------------------------------------------------------

\* Ok means that the whole of a non-empty input is out, in order, closed by
\* its FINAL marker: finish() asks for the marker only, not for what is
\* pending (io.rs:290-303), and a cancelled call leaves finish out
\* (pipeline.rs:338-344, 636-638).
OkMeansComplete ==
  result = "ok" => written = [i \in 1..(input + 1) |-> Segment(i - 1)]

\* No failure but one is swallowed, whichever thread it hit and however many
\* failed with it: a read error behind the FINAL marker of a decryption is,
\* since the reader's Result is dropped (pipeline.rs:493-521).
NothingSwallowed ==
  result = "ok" => raised = {} \/ (mode = "decrypt" /\ raised = {"read"} /\ position = input + 1)

\* The call panics, as the comment on fatal wants it, only over an error that
\* could not be reported because another one had been (types.rs:56-71,
\* 88-104): a first error never panics.
PanicIsSecondError == result = "panic" => fatal # NoError

\* The channels nobody drains any more although their receivers live.
OutputAbandoned == ~Live({Main}) /\ Len(queue["out"]) = Capacity
InputAbandoned == mode = "encrypt" /\ ~Live(First) /\ Len(queue["feed"]) = Capacity

\* The call returns, unless a failure leaves a full channel that only the
\* pipeline function could still receive from: comp_rx when the last
\* compression worker has gone, out_rx when the writer loop has ended
\* (pipeline.rs:68, 73, 152, 298, 425, 609).  Clearing the cancellation's own
\* receivers (pipeline.rs:130-132) unblocks every other thread.
ReturnsUnlessAbandoned == <>[](result # "pending" \/ OutputAbandoned \/ InputAbandoned)
=============================================================================
