# A TLA+ model of streaming-crypto

streaming-crypto encrypts and decrypts streams in parallel: a stream is cut
into segments, segments are compressed, split into frames and sealed by pools
of threads, and an ordered writer puts the result back together. This
directory models the part of the code where threads, channels, cancellation,
reordering and crashes meet, for both generations of the pipeline (v2 and v3):
the pipelines, their readers, workers and error protocols, the ordered writers,
the compression scheduler and the profiles it is sized by, the recovery log;
and what the two public calls promise each other through the stream format.

`core-v3` and `core-v2` are copies of `core-api/src/v3` and `core-api/src/v2`
that differ in their imports, so the modules hold for them too. In the map of
PROJECT.json a helper names its lines in `core-api`, and the definition that
composes helpers into a thread or a call (`Worker`, `Reader`, `Main`, `Cryptor`,
`Encrypt`, ...) names the function as it stands in the copy.

All paths below are relative to `core-api/src/` unless they name a crate.

## The system

| Component | Code | State it keeps | Operations | Talks to | What makes it correct |
|---|---|---|---|---|---|
| Monitor | `v3/src/stream/pipeline/types.rs` | cancelled flag, one-slot cancel token, unbounded channel of telemetry and errors, spare channel ends | `report_error`, `report_telemetry`, `is_cancelled`, `clone`, `finish` | every thread of a call | no raised error turns into Ok; the first recorded error is the one returned; the call's monitor thread ends |
| Pipelines | `v3/src/stream/pipeline/{pipeline,compression}.rs` | three bounded channels, threads of one scope, the recorded error | `encrypt_pipeline`, `decrypt_pipeline` | all below | Ok means the whole stream in order; no segment lost or repeated; the call returns |
| Readers | `v3/src/stream/pipeline/readers.rs` | claim counter, segment counter, count of readers left | read, number, send, leave, FINAL marker | first channel, monitor | each chunk once, unique indices in input order, one FINAL marker after all of them |
| Compression workers, scheduler | `v3/src/stream/compression_worker/worker.rs`, `parallelism/scheduler.rs` | load per device, under a mutex | `dispatch`, `complete`, the two run loops | channels, monitor | there is a device to dispatch to; the ledger is the work under way until a worker fails, and even |
| Segment and frame workers | `v3/src/stream/segment_worker`, `frame_worker` | frame channel, channel back, slots by frame index | dispatch frames, collect, digest, terminator, seal | channels, monitor, token | a segment has its own frames in order; everybody stops after a cancellation |
| Ordered writers | `stream/io.rs` | next index, pending segments, final index seen | `push`, `finish` | the sink | the sink holds a prefix of the stream in index order |
| Recovery log | `recovery/persist.rs`, `resume.rs` | queue of commands, log file, archives, `.zst` files | `append`, rotation, compression | file system | what was flushed is in one of the files, in order |
| Profiles | `parallelism/profiles.rs` | worker counts, inflight segments | constructors | pipelines | at least one CPU worker, no panic on a small machine |
| Framing, segmenting, headers | `stream/framing`, `stream/segmenting`, `headers` | none | encode, decode, validate | workers, writers | decode inverts encode and accepts nothing else |
| Stream API | `v3/src/stream/core.rs`, `stream/core.rs` | the sink it creates | `encrypt_stream_v3`, `decrypt_stream_v3` | everything | a decryption that returns Ok wrote what was encrypted |
| v2 pipeline | `v2/src/stream/pipeline` | fatal channel, flag, clones of the receivers | the previous pipelines | as v3 | as v3; a panic only over an earlier error |
| v2 segment and frame workers | `v2/src/stream/{segment,frame}_worker` | as v3, no token | the same, sending Results | fatal channel, flag | as v3; a message before the flag |
| Crypto | `crypto` | none shared | keys, nonces, associated data, digests | workers | injective in what they bind |
| Codecs, telemetry | `compression`, `telemetry` | none shared | external codecs, sums | workers | not about concurrency |
| Sources and sinks | `stream/io.rs` | none | open, wrap | stream API | — |
| Bindings, benchmarks | `pyo3-api`, `ffi-api`, `streaming-crypto`, `benchmarks` | none | convert and call | stream API | — |

A call of a v3 pipeline runs in one scope:

    readers -> [comp] -> compression workers -> [seg] -> segment workers -> [out] -> writer loop
                                                         (each with a pool of frame workers)

The channels are bounded by `inflight_segments`. The calling thread runs the
writer loop, then joins every thread of the scope; a monitor thread drains the
monitor channel, merges telemetry and records the first error it receives.
Frame workers are detached threads, outside the scope. Decryption runs the
stages the other way round with one parsing reader.

The v2 pipeline has one thread per stage and an adapter between the stages,
which carry Results:

    reader -> [feed] -> First -> [raw] -> adapter -> [clean] -> Second -> [out] -> writer loop

First are the compression workers of an encryption and the segment workers of a
decryption. There is no monitor object: who fails sends a message on `fatal_tx`,
sets the flag and sends an Err on; the monitor thread takes one message and
leaves, and a second one through `CancelHandle::fatal` panics.

What is hard here: several threads report errors around one flag; several
readers claim, read and number chunks in separate steps; threads block on
bounded channels whose other ends are let go at different moments; one token is
meant to wake everybody; the writer reorders; and the log is rotated and
compressed by threads that a crash stops anywhere. PROJECT.json lists each
hazard at its line with the property that is aimed at it.

## The modules

**PipelineMonitor** has every separate access of `report_error` as an action:
the load of the flag (`ReportCheck`), the send (`ReportSend`), the store with
the token (`ReportStore`), so that two threads can both pass the check, and the
send can find the channel closed. `alive` is the set of threads whose clone of
the monitor still exists; `DropMonitor` is the end of one. The scope waits for
the `Scoped` threads only, the `Detached` ones are frame workers. `Writer` is
the thread with the writer loop, which it leaves after a cancellation: then
`Block` may take any other scoped thread, which stands in a send to it for ever
and keeps its clone. The monitor
thread merges, records an error and leaves, or leaves when all clones are gone;
`Conclude` is the join and what the function returns. The module refines
**PipelineOutcome**, the abstract promise: threads raise errors, the call
concludes once, Ok only if nothing was raised, an error only if it was raised.

**OrderedWriter** is the state and the steps of both ordered writers: `pending`
is the BTreeMap, `next` the next index, and each `write_all` is a step that may
fail. The removal before the write, and the increment only after it, are as in
the code. **WriterAlone** feeds it with every order of the segments.

**PipelineBase** has the first channel, the flag and the recorded error.
`ReportError` is one step there: the caller stops or returns after it, and
everything else that reads the outcome reads the flag or joins the caller;
PipelineMonitor has the steps inside it.

**ReaderPool** has one action per shared access of a reader: claim, store or
draw the index, check the flag, send, check again, leave, load the count, send
the FINAL marker; `source` is the kind of input. With file input the claim is
of an offset and the index is drawn after the read. The stream reader is a
single thread and behaves like a single file reader. **ReadersAlone** adds a
consumer and errors from elsewhere.

**PipelineStages** has what encryption and decryption share: spawn loops,
worker loops (receive, check the flag, process, send on), the writer loop, the
end of the scope and the join. `held` says that the calling thread's monitor
still holds a spare receiver of each channel; a channel is open for senders as
long as that or a worker's receiver exists. The receiver of the last channel
lives until after the join. **EncryptPipeline** composes it with the readers,
**DecryptPipeline** with the parser, on streams that are whole, cut at a
segment boundary or torn inside a segment. The two differ where the code does:
the encrypting writer loop looks at the flag and the decrypting one does not,
the segment workers are spawned with and without a check, and a failed send is
reported by segment workers and ignored by compression workers.

**SegmentFrames** are the frames of a segment, the wires a decryption may find
and the checks that accept one. `Wires` may be any set of sequences of frames
that some encryption made, of any segment, and of bytes that are none; for TLC
**SegmentDamage** makes, at every place of a wire, the accidents that take one
step: a frame missing, repeated, overwritten, unreadable, from another segment,
two exchanged, the wire cut short. The segment digest and the checksums have no key, the
digest frame is not encrypted, and nobody compares the segment a frame says it
is of: they tell damage, not forgery, and a wire whose digest was computed again
is in no model here.

**SegmentWorker** is the inside of one v3 segment worker and its frame workers,
in both directions. Every `select!` is a set of actions, one per ready branch;
the default branch (10 ms) is an action enabled when no other branch is.
`token` is the one message of `cancel_tx`, and the rest of the pipeline may
take it first. A decrypting worker sends every frame of the wire, collects as
many and checks them; an index beyond the slots panics it, without a report.
What it sends on goes into a bounded channel (`Deliver`), whose `receiver`
receives, has left its loop but keeps its end, or is gone: the send waits, waits
for ever, or fails.

**SegmentWorkerV2** is the same for v2, where the steps of a failing thread —
message, flag, Err on the output — are separate actions, in the order in which
segment worker and frame worker take them, and where nothing wakes the wait for
the digest and the terminator but the end of the pool. The Err takes its place
in the same bounded channel as the segments. **MCSegmentWorker** and
**MCSegmentWorkerV2** join the workers with SegmentDamage.

**PipelineV2** is a whole v2 call in either direction. `mode` selects which
workers stand first. `Open` and `Closed` say which ends of each channel are
left: the pipeline function itself keeps `comp_rx` and `out_rx`, and
`PipelineCancellation` keeps clones of the receivers (`held`) which the monitor
thread of an encryption clears and that of a decryption does not. `Fatal` and
`Store` are the two steps of `CancelHandle::fatal`; a panic of the pipeline
function unwinds its closure. The decrypting reader's Result is dropped, and a
failed push in a decryption leaves the closure by `?` with the flag unset.
`Join` is the end of the scope and the second look at the recorded error.

**Profiles** are the constructors of `HybridParallelismProfile` as operators,
with the saturating subtraction and cast, the clamp, and the two cases in which
they panic. **Scheduler** is the load ledger and the run loops around it, for
every profile a constructor returns. A worker that fails leaves its loop with
its target (`Failed`) and its load stays.

**StreamFormat** has headers, keys, nonces, associated data, frames and segment
records with every check the code makes of them, in its order. A checksum, key,
tag or digest is the tuple of what it is computed from, so that two are equal
only when all of that is. **StreamCall** composes it with the ordered writer and
the profiles: `encrypt_stream_v3` for any header a caller may pass, a storage
that keeps, cuts, alters, swaps, repeats or loses records, and
`decrypt_stream_v3` by the same or another caller on another machine, reading in
order, decrypting in any order. The storage damages by accident: a field or a
stretch of frames of a record changes under the checksums it had, and nothing
computes a checksum or a digest again.

**RecoveryLog** is the log thread with its queue and its BufWriter, the rotation
by rename, the compression threads and a crash at any moment, which leaves any
beginning of what was being written; the next process appends to the same file.
Every call on the file system may fail: a failing flush leaves its line in
`buffer` and counts it all the same, an `open` that fails behind the rename ends
the log thread, and a compression that cannot open, create, copy or remove
leaves its archive for ever (`abandoned`). It is one log manager per file: two
calls with the same log path (`v3/src/stream/core.rs:109,123`) would rotate it
under each other, and that is not modelled.

Definitions whose comment begins with `Defect:` are no part of the model: each
is a wrong variant of the action after it, used to see that the properties
notice it.

## What is checked

| Run | Instance | Shows |
|---|---|---|
| PipelineMonitor | 2 scoped threads, 1 detached, 3 telemetry events | every interleaving of reports: no error is swallowed, telemetry is complete on Ok, the recorded error is kept, the call concludes unless a thread blocked behind the writer loop, PipelineOutcome is implemented |
| WriterAlone | 4 segments, every order, the sink fails anywhere | prefix, completeness, what the buffer waits for, nothing after a failed write |
| ReadersFile | 2 file readers, 3 chunks, channel of 2, read errors, errors elsewhere | unique indices, every chunk once, the FINAL marker last and with the right index, the readers leave |
| EncryptPipeline | one memory or file reader, 3 chunks, channels of 1, 1 compressor, 2 segment workers, every fault | no segment lost or repeated, Ok means complete and, one reader being at work, in the order of the input, the call returns unless its output was abandoned |
| DecryptPipeline | 3 chunks, channels of 1, 2 segment workers, 1 decompressor, every fault; whole, cut and torn streams | truncation is detected, Ok means complete, the call returns unless its output was abandoned |
| SegmentWorker | 2 segments of 2 data frames, 2 frame workers, queue of 2, output of 1, failures anywhere, a next stage that stays or goes; both directions, wires of SegmentDamage (`OneDamage`) | segments have their own frames in order, a worker gives up only when cancelled or in the unreported panic, every thread stops but a worker whose output was abandoned |
| PipelineV2 | at most 2 data segments, channels of 1, 1 compressor, 2 segment workers, 2 kinds of fault per call; both directions | Ok means complete, which failure is swallowed, a panic only over an earlier error, the call returns unless a channel was abandoned |
| SegmentWorkerV2 | the same with a failing thread's steps apart; wires without a frame or with one of another segment (`FrameMissing`) | the output is whole segments, then at most one Err; the flag never comes without a message; no end without a cause; every thread stops but a worker whose output was abandoned |
| Scheduler | machines of 1 to 6 cores and up to 2 GPUs, every strategy, chunk size and option of a few | the ledger is never below the work under way, exact until a worker fails, and even; `dispatch` always finds a device |
| StreamCall | 2 chunks of 2 frames, headers with good and bad fields, 8 kinds of accidents in storage, two machines | Ok means the input, a kept stream is decrypted, a refused header leaves the sink alone |
| RecoveryLog | limit 2, 5 entries, 3 seconds, one crash, two failing calls | flushed entries are kept and in order, archives end compressed unless their compression failed or was cut off |
| ReadersFileOrder | 2 file readers | **violated**: `IndexIsChunk` |

### The bounds

Two threads of a kind are enough for every race here: each protocol step
concerns one thread and the shared state. Three chunks and the FINAL marker let
a segment be overtaken, a reader be overtaken twice, and a channel of one fill
while both its neighbours hold a segment; the v2 pipeline has one more stage and
two more channels, and two data segments with the marker fill them. Three
telemetry events let one stand before, between and after two errors. Two
frames of data with digest and terminator make four answers, more
than the queue holds and the pool seals at a time. Two
kinds of fault let one error arrive while another is handled; a third finds the
same closed channel. Five entries at a limit of two give two rotations with
appends queued behind each `Rotate`. A saturation of 4095 against a memory of
1024 units and chunks of 1 and 2000 lets a budget be cut, fit nothing and fit
thousands; 1, 2, 4 and 6 cores are the cases of `cores - 1`, `cores - 2` and
`cpu / 2`. One accident at every place of a wire reaches each failing branch
of a decryption; `Accepts` is the same operator in v2, whose run
has fewer wires. TLAPS has the wires with any number of damages. Two
failing calls let a flush fail and the rename behind it, or an `open` that comes
after one of them.

### The violated run, and what the passing runs leave out

* **ReadersFileOrder.** `readers.rs:414` claims an offset and `readers.rs:427`
  draws the index after the read. A reader that is overtaken in between numbers
  a later chunk with an earlier index; the file comes back permuted. The tests
  that assert order use memory input, where index and chunk are one number.
* **Several memory readers.** `readers.rs:303` stores `idx + 1` without taking a
  maximum: a slower reader stores a smaller count last, and the FINAL marker
  takes the index of a data segment; in the writer's map one replaces the other.
  With `Sources = {"memory"}` and two readers TLC finds
  `FinalIndexCountsSegments` violated, so ReadersFile has file readers and
  EncryptPipeline one reader: it can see neither this nor the permutation above.
  The code spawns `cpu_workers / 2` memory readers.
* **Leaked loads.** `parallelism/parallelism.md:372-384` calls `complete` for
  a failed segment too; the worker breaks out of its loop before it
  (`worker.rs:77-84`), so the load of its device counts work nobody does. An
  invariant that the load is the work under way does not hold; `LedgerExact` is
  what remains: never less, and equal until a worker fails.
* **Abandoned channels.** When a write fails, or the flag is seen, the v3 writer
  loop is left while `out_rx` lives on until after the join
  (`pipeline.rs:213-226`, `452-455`). The workers fill the channel, block, and
  are joined for ever. `ReturnsUnlessAbandoned` says that this is the only way
  for a call not to return: `OutputAbandoned` is the exception. In v2 the same
  holds of `out_rx`, and in an encryption of `comp_rx`, which the pipeline
  function keeps after the last compression worker has gone. The modules of the
  parts have the same exception: `Concludes` says that the call returns unless a
  thread is blocked, `AllStop` of the segment workers excepts a worker in a send
  that is `Abandoned`, whose pool still stops (in v2, if the flag is set).
* **The dropped Result.** A read error of the decrypting v2 reader behind the
  FINAL marker is lost (`pipeline.rs:493-521`); `NothingSwallowed` has it as its
  one exception. In front of the marker the writer's missing marker tells.
* **Lost records.** Segments are bound to their index only by the writer, which
  asks for a FINAL marker and not for what came before it (`io.rs:290-303`): a
  whole record lost by the storage leaves an Ok with a first part of the input,
  and `OkIsInput` says so. None of the other accidents of `Alterations` has that
  effect.
* **Recomputed checksums.** CRC32 and segment digest have no key, and neither
  the segment header nor the FINAL marker is authenticated. A record made anew —
  shortened, with a fresh digest and fresh checksums, or a FINAL header in the
  place of a segment — passes every check of the code. No property here says
  anything about such streams: `OkIsInput`, `EmittedInOrder` and
  `OutputIsWholeThenErr` are about damage by accident.
* **Unreported panics.** A wire without one of its data frames, or without its
  digest or terminator, usually has a frame whose index its length leaves no
  place for (`HasNoPlace`), and indexing there panics the segment worker without
  a report (`dec_helpers.rs:208`). In v3 the scope turns the panic into a failed
  call; `GivesUpOnlyWhenCancelled` and `EndsWithCause` have it as their exception.
* **Abandoned archives.** A compression that fails (`persist.rs:192-200`) is
  never tried again, and its archive stays, without any crash:
  `ArchivesAreCompressed` excepts these archives and those a crash cut off.
* **One core.** A `Parallel` header on a single core panics in `clamp`
  (`profiles.rs:181`): the exception of `CleanCallsSucceed`. A chunk size of
  zero panics too, but the decrypting call refuses that header first.
* **Two rotations in a second.** Archives are named by the second
  (`recovery/persist.rs:143-146`) and rename replaces: a second rotation within
  it destroys the first archive. `RecoveryLog` therefore assumes that rotations
  are a second apart; with `SameSecond = TRUE` TLC finds `FlushedIsKept`
  violated.

Also met while reading, and not a run: the device `dispatch` returns is used for
the ledger only (`parallelism/parallelism.md:286-288` says it routes); the
reorder buffer has no bound, so one slow segment lets the rest of the input
pile up in memory (`parallelism.md:67-72` says it is capped); `append` returns
before anything is on disk (`recovery/recovery.md:27`); compaction removes
markers that are not consecutive (`recovery/persist.rs:4`, `203-220`);
`encrypt_stream_v3` creates its output before it validates the header, so a
refused header leaves an empty file (`v3/src/stream/core.rs:128-160`).

### Fairness

Weak fairness of each thread's steps: a thread that can run is eventually
scheduled by the operating system. Nothing forces an error, a failed read or a
crash. Blocking operations are guards, so a blocked thread is not forced. In
PipelineMonitor a thread drops its clone in the end unless it has blocked. The
next stage of a segment worker takes segments as long as it receives; nothing
makes it drop the channel. In
PipelineV2 it is weak fairness of the whole step, which is weaker: a call has
finitely many steps, so every thread that is not blocked gets its turn in the
end. In RecoveryLog time passes, and the log and compression threads run until a
crash. Scheduler and StreamCall have no liveness property and no fairness.

### Abstractions

* In the pipelines a segment is its index, its kind and the chunk it carries;
  bytes, compression and cryptography are left out, and so is the content of
  telemetry. Corrupt data is a fault of the stage that notices it. In
  StreamFormat data has a length and an identity, and the byte layout of a
  record is abstract: what is checked of it is kept.
* `Relaxed` accesses of the flag are single atomic steps: there is one location,
  and a late read is a read that came earlier.
* Within the pipelines the frame workers are part of the step `Process` or
  `Work`, which may give up when the flag is set; the modules of the segment
  workers have their detail.
* A panic of a v3 worker other than the one of a failed cipher setup, and of a
  frame index out of bounds in the segment workers, is not modelled; the scope turns
  it into an error of the call (`pipeline.rs:95`, `341`).
* The threads of a v2 scope are all there from the start: one that is spawned
  late is one that is scheduled late.
* The plaintext writer writes nothing for the FINAL marker, which cannot fail;
  the model allows it to.
* Chunks are read whole: a short `read_at` in the middle of a file is not
  modelled, nor is a file that changes while it is read.
* In RecoveryLog a flush that fails writes nothing, and what it left goes out
  with the next one; loss of power is not modelled. The log file can be opened
  when a process starts: if it cannot, the log thread panics at once and every
  append is lost.

## What is proved

With TLAPS, for every number of threads, events and segments.

**PipelineMonitorProofs.** The inductive invariant `IInv` adds to `TypeOK` what
the safety properties need to know of the states in between:

* `CallersAlive`, `SentHasCause`, `ReportedSetFlag`: a thread inside
  `report_error` still holds its monitor, has put its error into the channel or
  found it closed, and sets the flag before it returns;
* `FlagHasCause`: a set flag, or a sent error, is backed by an error in the
  channel or recorded — the step from "somebody cancelled" to "there is an
  error to return";
* `QuietExit`: if the monitor thread left without an error, all clones are gone
  and the channel is empty;
* `TelemetryAccounted`, `QueuedWasRaised`, `ResultFromFatal`: merged and queued
  telemetry add up to what was sent; what is queued was raised; the result is
  the recorded error.

From it follow `TypeOK`, `NoErrorSwallowed`, `CancelledHasCause` (a set flag
always has an error behind it; too close to `IInv` for a run of its own),
`TelemetryComplete`, the action property `FirstErrorKept`, and the refinement
`RefinesOutcome`: initial states map to initial states, and each action raises,
concludes or stutters. The only assumptions are those of the module: finite,
disjoint sets of threads, and constants that differ.

**EncryptPipelineProofs** has three parts, each with an inductive invariant of
its own.

The *writer alone*, for a stream of any length (`FedIInv`). It relates the four
parts of the writer's state: pending segments lie at or after `next`
(`PendingAhead`), what is written and pending was received (`WrittenReceived`),
everything received is written, pending or the one whose write failed
(`ReceivedAccounted`), a failed write leaves `next` where it is and nothing
pending there (`FailedStops`), and at rest nothing at `next` is pending
(`Quiescent`). From it follow `WriterTypeOK`, `OutputIsPrefix`,
`WaitsForFirstMissing`, `CompleteWhenFed` and `NothingAfterFailure`, which rests
on the fact that the failed segment was removed from the map, so that `finish`
has nothing to go on with.

The *readers alone*, for any number of file readers, chunks and places in the
channel (`PoolIInv`). `Leaving`: `remaining` counts the readers that have not
left, so the one that finds 1 is alone. `PoolIndices` and `PoolClaims`: whatever
is held or in flight has an index and a chunk of its own below the counters.
`PoolComplete`: until an error is reported, every index drawn and every chunk
claimed is held or in flight, and a reader only leaves when all chunks are
claimed. From it follow `IndicesUnique`, `FinalIsLast`, and, by two bijections
between the segments sent and the numbers below `count` and `Chunks`,
`EveryChunkOnce` and `FinalIndexCountsSegments`. The theorems assume
`Sources = {"numbered"}`, file readers.

The *whole pipeline*, for any numbers of readers, workers and chunks, any
capacity and any failures (`IInv`). A segment is `Present` while it is anywhere
between the reader that numbered it and the sink. `Numbers`: present segments
are told apart by their index and by their chunk, and the FINAL marker, the one
that is no data, has the count as its index and exists only when all readers
have left (`Closing`). `Accounted`: as long as nothing is disturbed (no flag, no
failed write) every index below the count is that of a present segment, every
chunk claimed is in one or about to be numbered, and a closed feed has let the
FINAL marker out. `Ordered`: the writer's output has the indices from 0 on, and
it knows of a FINAL marker only when the readers are closing. `Drained` and
`Control` are those of DecryptPipelineProofs. None of them is inductive without
the others: that a reader's send is not dropped takes `Drained`, which is why an
undisturbed stage never finds its receivers gone, and that the writer does not
overwrite what it holds takes `Numbers`. At the join nothing is on its way, so
what is present is written or pending; no index but the count can be the next,
so `next = count + 1`, and a bijection between the segments and the chunks gives
`count = Chunks`: `OkMeansComplete`. That the chunks stand in the order of the
input is proved for one reader (`OneReader`), whose index is always the number
of its chunk (`Alone`); with several file readers it is false, and the theorem
then says that every chunk is written once and no other. `EverySegmentOnce` counts places, not
segments, and takes a second layer: `Apart`, an index is at one of eight stops
between reader and sink, and `Singles`, it is there once. Each step moves one
index from one stop to the next or loses one; that it is lost only when
something is disturbed is `Accounted` again. Both theorems assume
`MemoryHasOneReader`: when the input is in memory there is one reader, as in the
run. With several, `FinalIndexCountsSegments` and with it `OkMeansComplete` are
false, as said above under "Several memory readers".

**DecryptPipelineProofs**, for any number of chunks, workers and places. That a
call returns Ok only says that no error was recorded and that the writer saw a
FINAL marker, so neither `TruncationDetected` nor `OkMeansComplete` is
inductive. `Genuine`: what is on its way anywhere was parsed. `Ordered`: what the
writer holds was parsed, its output is a prefix, and it knows of a FINAL marker
only when all `Chunks + 1` segments were parsed. `Accounted`: while nothing is
disturbed (no flag, no failed write) a parsed segment is on its way or in the
writer. `Drained`: a stage that has ended undisturbed has ended because the one
before it did, and its channel is empty; this is why no sender ever finds a
channel closed without an error behind it. `Control` ties the places of the
pipeline function to those of the writer and a set flag to a recorded error. At
the join nothing is on its way, so all that was parsed is written. The
constants' assumptions are those of the modules, `NoErrorAssumption` among
them: the absence of an error is not one of the errors.

**CallAndSchedulerProofs** holds the proofs about the two modules that share the
parallelism profiles. The scheduler, for every machine, strategy and set of
options: a worker holds a target from `dispatch` to `complete` (`TargetHeld`), and one that failed for ever, so the load of a device is the number of workers
that hold it, running or failed: `LedgerExact`, the load is never below the work
under way and is that work as long as no worker has failed, and `saturating_sub`
never saturates. `EvenShare` is a pigeonhole: the least loaded of n devices has a load
of m, so n * m workers hold one, and the worker that dispatches holds none.
`DispatchNeverPanics` follows from the arithmetic of the profiles, which never
goes below one CPU worker.

The calls (StreamCall), for every set of chunk sizes, strategies, salts, PRFs,
dictionaries and machines and any number of chunks and of frames in one. What
`EncryptSegment` makes of segment i is written down as one record (`DataRecord`,
`FinalRecord`), and `DecryptRecord` says of it that decryption gives the chunk
back under a context with the same key, associated data and digest, and under
every other nothing but that chunk or an error: this is the whole use of StreamFormat, and needs no
induction, since frames are picked by position (`Picked`) and not by recursion
along the wire. The inductive invariant then follows a record through both
calls. `Encoded`: the encryption writes the records of segments 0, 1, 2 and so
on, the FINAL marker last. `Stored`: what the storage returns is made of those
records and of `Spoiled` ones, whose header or wire does not fit its checksum,
and unless a record was lost it has all of them, or no FINAL marker, or a
spoiled one (of a stretch of frames missing or repeated under the old checksum
this is `OtherWireSpoiled`). `Ordered`: the writer has written the segments from
0 on and holds no other. `Accounted`: while nothing failed, every record that was read is
fetched or arrived in the writer. `Ended`: an Ok needs a FINAL marker, no
failure and nothing left to read. At an Ok every record that the storage
returned was therefore decrypted, so none is spoiled, the FINAL marker is there
and with it all others unless one was lost: `OkIsInput`. Without `Stored`
nothing could be said of the bytes the decryption meets, without `Accounted` a
repeated or late record could hide a missing one. `CleanCallsSucceed` adds
`Kept`, that a stream that was kept still has the header of the encrypting
caller, and `Succeeds`, that nothing fails on such a stream: every step that may
fail is shown not to. `RejectLeavesSink` adds that the header decodes when the
sink is opened. Assumed are the constants' types: chunks have at least one
frame, chunk sizes are natural, a machine has a core, a tag has a length.

**PipelineV2Proofs**, for any number of workers, segments and failures. The
invariant for `PanicIsSecondError`: the monitor thread has left only with an
error recorded or with every clone of `fatal_tx` dropped, and then no thread that
could report is live; the compression workers hold no clone and never report.
`OkMeansComplete` and `NothingSwallowed` rest on more layers, together `Whole`.
They speak of an `Undisturbed` call: nothing was sent to the monitor thread and
no Result given up. What is on its way was read, and an Err is only in the
channels that carry Results (`Genuine`); the writer's output is in order and its
place fits that of the pipeline function (`WriterOK`); a stage that ended without
a failure left nothing behind it, and nothing more will come (`Drained`); a
failure that nobody has reported yet is about to be: an Err is pending, or a
thread stands where it reports (`Doomed`); and while nothing has failed but a
read (`Sound`), every segment read is on its way or in the writer (`Accounted`).
`Concluded` adds the two properties themselves. The argument at the join is the
lemma `AllIsOut`: undisturbed, with every stage ended, nothing is on its way, so
what was read is written. A v2 worker sends its failure down the pipeline like a
segment, so that the proof follows an Err to the writer loop. The assumption is
that the absence of an error is not one of the errors.

**SegmentWorkerProofs** and **SegmentWorkerV2Proofs**, for any pool of frame
workers, any frames and segments, any capacity of the channels and any set of
wires made of encrypted frames and torn bytes (`WiresAssumption`), however many
damages away from a whole one:
`EmittedInOrder` and `GivesUpOnlyWhenCancelled` of the v3 worker,
`OutputIsWholeThenErr`, `EndsWithCause` and `FlagHasMessage` of the v2 one.
`Pool` serves both, since both keep their frames in the same variables; the v2
proofs instantiate the v3 module and cite its lemmas. `Ledger` counts:
the frames collected and those on their way are never more than were sent, and
as long as none was lost every frame sent is on its way or where it was put.
A worker that has collected as many frames as it sent has therefore
every frame of this segment in its place and leaves none behind that the next
segment could take for its own. `WireFacts`: the checks of a decrypting worker
accept a wire only if its data frames are those of the whole segment, and its
digest the one made for it. The rest ties the
place of the worker to its flags: in v3 a
token in the channel has a report behind it, and a worker that is gone came to the end
of its segments, was cancelled, or panicked over a frame without a place (`Caused`); in v2 each place from which the flag is set
lies behind a message (`Flagging`), and an Err handed on is the last thing
(`Handing`, `Ending`).

**RecoveryLogProofs**, for any rotation limit, number of entries, crashes and
failing calls of every kind: `FlushedIsKept`. `Losses` counts a torn last line as a loss to
come, which the next write makes real (`FlushLosesOne`: however many lines of the
buffer go out at once); `Jobs` says that a `.zst` file holds
nothing its archive does not hold as long as that is there, and all of it when a
thread is about to remove the archive. `OrderKept` adds a second layer,
`Ordered`: what waits in the buffer and then in the queue is in order, behind all that was written, in
the file or in a rotated log, and before all still to be sent; the names of
archives are seconds that have passed. Both theorems assume
`~SameSecond`, without which they are false (see above), and that the marks in
the log differ from entries.

Model-checked only:

* liveness (`Concludes`, `ReturnsUnlessAbandoned`, `ReadersLeave`, `AllStop`,
  `ArchivesAreCompressed`): fairness and ENABLED are beyond the prover.

## What is left, in order

1. The encrypt pipeline with several memory readers: what still holds there
   (`EverySegmentOnce` does not need the count to be right).
2. The synchronous log, compaction, checkpoints and replay
   (`recovery/persist.rs`, `resume.rs`, `checkpoint.rs`).
3. The v2 stream API, whose calls set up in another order than those of v3.

Not modelled, and why:

* the synchronous `LogManager`, compaction, checkpoints and replay: no caller in
  the pipelines connects them to a stream, so a model would have to invent what
  they are used for; what was found reading them is noted above;
* the v2 stream API (`v2/src/stream/core.rs`): its pipelines are PipelineV2, its
  validation is that of v3 but for the order;
* cryptographic primitives and codecs: no state of their own; StreamFormat and
  the pipelines say what is computed from what, and that it may fail;
* telemetry: sums and formatting; PipelineMonitor models that none is lost;
* `parallelism/policy.rs`: a threshold without a caller in the pipelines;
* the `PayloadReader` and buffer wrappers, bindings, benchmarks: conversions and
  pure I/O.
