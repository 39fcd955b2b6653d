---------------------------- MODULE SegmentWorkerV2 ----------------------------
(***************************************************************************)
(* One v2 segment worker, encrypting or decrypting, with its private pool  *)
(* of frame workers.                                                       *)
(*                                                                         *)
(* Unlike in v3 there is neither a monitor nor a token.  The channels      *)
(* carry Results, and whoever fails does three things by itself, each a    *)
(* step of its own: a message on fatal_tx, the flag, an Err on its output, *)
(* a segment worker in this order, a frame worker and a segment worker     *)
(* with an invalid header with the Err first.  The message must come       *)
(* before the flag: the pipeline gives up at the flag and asks the message *)
(* why.                                                                    *)
(*                                                                         *)
(* The digest and the terminator of an encryption are awaited without a    *)
(* timeout: what ends the wait after a cancellation is that the frame      *)
(* workers leave.                                                          *)
(***************************************************************************)
EXTENDS Naturals, Sequences, FiniteSets, SegmentFrames

CONSTANTS
  FrameWorkers,  \* the pool
  QueueSize,     \* capacity of frame_tx: worker_count * 4
  OutSize,       \* capacity of the channel to the next stage
  MayFail        \* whether something fails here or elsewhere

ASSUME PoolAssumption == IsFiniteSet(FrameWorkers) /\ FrameWorkers # {}
ASSUME SizeAssumption ==
  /\ QueueSize \in Nat \ {0}
  /\ OutSize \in Nat \ {0}
  /\ MayFail \in BOOLEAN

VARIABLES
  mode,       \* "encrypt" or "decrypt"
  pc,         \* where the segment worker is
  segment,    \* index of its segment
  wire,       \* the frames it sends
  sent,       \* how many it has sent
  received,   \* frames collected so far
  slots,      \* data_frames: what was collected, by frame index
  closing,    \* what was received as digest_frame and as terminator_frame
  output,     \* all it has sent on tx: segments, then perhaps an Err
  taken,      \* how much of it the next stage has taken out of the channel
  receiver,   \* "receives"; "stays", but has left its loop; or "gone"
  frames,     \* frame_tx / frame_rx
  sealed,     \* out_tx / out_rx, Err for an error
  fw,         \* where each frame worker is
  job,        \* the frame each one holds
  reported,   \* somebody has sent a message on fatal_tx
  cancelled

workerVars == <<pc, segment, wire, sent, received, slots, closing, output>>
poolVars == <<fw, job>>
nextVars == <<taken, receiver>>
errorVars == <<reported, cancelled>>
vars == <<mode, workerVars, nextVars, frames, sealed, poolVars, errorVars>>

Err == [segment |-> 0, number |-> 0, type |-> "error"]
ErrOut == [segment |-> Segments + 1, frames |-> <<Err>>]

Init ==
  /\ mode \in {"encrypt", "decrypt"}
  /\ pc = "spawn"
  /\ segment = 0
  /\ wire = <<>>
  /\ sent = 0
  /\ received = 0
  /\ slots = EmptySlots(0)
  /\ closing = <<>>
  /\ output = <<>>
  /\ taken = 0
  /\ receiver = "receives"
  /\ frames = <<>>
  /\ sealed = <<>>
  /\ fw = [f \in FrameWorkers |-> "unspawned"]
  /\ job = [f \in FrameWorkers |-> NoFrame]
  /\ reported = FALSE
  /\ cancelled = FALSE

PoolAlive == \E f \in FrameWorkers : fw[f] # "done"
WorkerAlive == pc \notin {"done", "panicked"}

-----------------------------------------------------------------------------
(* The segment worker.                                                     *)

\* A frame worker that cannot be set up panics the worker's thread.
SpawnPool ==
  LET rest == {f \in FrameWorkers : fw[f] = "unspawned"} IN
  /\ pc = "spawn"
  /\ \/ /\ \E f \in rest : fw' = [fw EXCEPT ![f] = "select"]
        /\ pc' = IF Cardinality(rest) = 1 THEN "check" ELSE pc
     \/ /\ MayFail
        /\ fw' = [f \in FrameWorkers |-> IF f \in rest THEN "done" ELSE fw[f]]
        /\ pc' = "panicked"
  /\ UNCHANGED <<mode, nextVars, segment, wire, sent, received, slots, closing, output, frames,
                 sealed, job, errorVars>>

\* The flag is looked at before recv.
CheckFlag ==
  /\ pc = "check"
  /\ pc' = IF cancelled THEN "done" ELSE "recv"
  /\ UNCHANGED <<mode, nextVars, segment, wire, sent, received, slots, closing, output, frames,
                 sealed, poolVars, errorVars>>

\* recv; the FINAL marker needs no frame, but its header is looked at.
TakeSegment ==
  /\ pc = "recv"
  /\ IF segment > Segments
       THEN pc' = "done" /\ UNCHANGED <<wire, sent, received, slots, closing>>
     ELSE IF segment = Segments
       THEN /\ pc' = IF mode = "encrypt" THEN "final" ELSE "validateFinal"
            /\ UNCHANGED <<wire, sent, received, slots, closing>>
     ELSE /\ pc' = IF mode = "encrypt" THEN "send" ELSE "validate"
          /\ wire' \in {Whole(segment)} \cup (IF mode = "decrypt" THEN Wires ELSE {})
          /\ sent' = 0
          /\ received' = 0
          /\ slots' = EmptySlots(IF mode = "encrypt" THEN Frames ELSE DataCount(wire'))
          /\ closing' = <<>>
  /\ UNCHANGED <<mode, nextVars, segment, output, frames, sealed, poolVars, errorVars>>

\* Defect: an empty segment is taken for the end of the input.
ValidateSilently ==
  /\ pc \in {"validate", "validateFinal"}
  /\ \/ pc' = IF pc = "validateFinal" THEN "final" ELSE IF wire = <<>> THEN "done" ELSE "send"
     \/ MayFail /\ pc' = "sendErrFirst"
  /\ UNCHANGED <<mode, nextVars, segment, wire, sent, received, slots, closing, output, frames,
                 sealed, poolVars, errorVars>>

\* The header against the wire; of one that is invalid run_v1 sends the Err
\* before it reports.
Validate ==
  /\ pc \in {"validate", "validateFinal"}
  /\ \/ pc' = IF pc = "validateFinal" THEN "final" ELSE IF wire = <<>> THEN "report" ELSE "send"
     \/ MayFail /\ pc' = "sendErrFirst"
  /\ UNCHANGED <<mode, nextVars, segment, wire, sent, received, slots, closing, output, frames,
                 sealed, poolVars, errorVars>>

\* tx.send(Ok(..)): blocks while the channel is full; when the next stage has
\* dropped it, the worker reports, and has no Err to send.
Deliver(out) ==
  \/ /\ receiver # "gone"
     /\ Len(output) - taken < OutSize
     /\ output' = Append(output, out)
     /\ segment' = segment + 1
     /\ pc' = "check"
  \/ /\ receiver = "gone"
     /\ pc' = "reportLast"
     /\ UNCHANGED <<output, segment>>

SendFinal ==
  /\ pc = "final"
  /\ Deliver([segment |-> segment, frames |-> <<>>])
  /\ UNCHANGED <<mode, nextVars, wire, sent, received, slots, closing, frames, sealed, poolVars,
                 errorVars>>

\* frame_tx.send, which fails when the pool is gone; a decrypting worker
\* parses the frame's header first.
SendFrame ==
  /\ pc = "send"
  /\ IF wire[sent + 1] # Torn /\ PoolAlive
       THEN /\ Len(frames) < QueueSize
            /\ frames' = Append(frames, wire[sent + 1])
            /\ sent' = sent + 1
            /\ pc' = IF sent + 1 = (IF mode = "encrypt" THEN Frames ELSE Len(wire)) THEN "collect"
                     ELSE IF mode = "decrypt" \/ sent + 1 < Frames THEN "send" ELSE "wait"
       ELSE pc' = "report" /\ UNCHANGED <<frames, sent>>
  /\ UNCHANGED <<mode, nextVars, segment, wire, received, slots, closing, output, sealed,
                 poolVars, errorVars>>

\* The collecting loop: an Err ends it, a data frame goes by its number, an
\* index out of bounds panics, a second digest or terminator is an error.
Collect ==
  LET frame == Head(sealed)
      fits == frame.number \in DOMAIN slots
      last == received + 1 = (IF mode = "encrypt" THEN Frames ELSE Len(wire))
      goOn == IF ~last THEN "collect" ELSE IF mode = "encrypt" THEN "send" ELSE "finish"
  IN
  /\ pc = "collect"
  /\ sealed # <<>>
  /\ sealed' = Tail(sealed)
  /\ received' = received + 1
  /\ \/ /\ frame.type = "data" /\ fits
        /\ slots' = [slots EXCEPT ![frame.number] = frame]
        /\ pc' = goOn
        /\ UNCHANGED closing
     \/ /\ frame.type = "data" /\ ~fits
        /\ pc' = "panicked"
        /\ UNCHANGED <<slots, closing>>
     \/ /\ frame.type \in {"digest", "terminator"} /\ ~HasType(closing, frame.type)
        /\ closing' = Append(closing, frame)
        /\ pc' = goOn
        /\ UNCHANGED slots
     \/ /\ frame.type = "error" \/ HasType(closing, frame.type)
        /\ pc' = "report"
        /\ UNCHANGED <<slots, closing>>
  /\ UNCHANGED <<mode, nextVars, segment, wire, sent, output, frames, poolVars, errorVars>>

\* Whatever comes next is the digest frame, then the terminator.
CollectClosing ==
  /\ pc = "wait"
  /\ sealed # <<>>
  /\ sealed' = Tail(sealed)
  /\ closing' = Append(closing, Head(sealed))
  /\ pc' = IF Head(sealed) = Err THEN "report"
           ELSE IF sent = Frames + 1 THEN "send" ELSE "finish"
  /\ UNCHANGED <<mode, nextVars, segment, wire, sent, received, slots, output, frames, poolVars,
                 errorVars>>

\* out_rx is closed, or the flag was found after 10 ms of the first loop.
GiveUp ==
  /\ pc \in {"collect", "wait"}
  /\ sealed = <<>>
  /\ ~PoolAlive \/ (pc = "collect" /\ cancelled)
  /\ pc' = "report"
  /\ UNCHANGED <<mode, nextVars, segment, wire, sent, received, slots, closing, output, frames,
                 sealed, poolVars, errorVars>>

\* The segment is serialized, or checked and put together, and sent.
Finish ==
  LET data == [n \in 1..Cardinality(DOMAIN slots) |-> slots[n - 1]] IN
  /\ pc = "finish"
  /\ IF mode = "encrypt" \/ Accepts(segment, wire, closing)
       THEN Deliver([segment |-> segment,
                      frames |-> IF mode = "encrypt" THEN data \o closing ELSE data])
       ELSE pc' = "report" /\ UNCHANGED <<output, segment>>
  /\ UNCHANGED <<mode, nextVars, wire, sent, received, slots, closing, frames, sealed, poolVars,
                 errorVars>>

\* Defect: the flag is set before the message is sent.
ReportFlags ==
  /\ pc \in {"report", "reportLast"}
  /\ cancelled' = TRUE
  /\ pc' = IF pc = "report" THEN "flag" ELSE "flagLast"
  /\ UNCHANGED <<mode, nextVars, segment, wire, sent, received, slots, closing, output, frames,
                 sealed, poolVars, reported>>

\* fatal_tx.send.
Report ==
  /\ pc \in {"report", "reportLast"}
  /\ reported' = TRUE
  /\ pc' = IF pc = "report" THEN "flag" ELSE "flagLast"
  /\ UNCHANGED <<mode, nextVars, segment, wire, sent, received, slots, closing, output, frames,
                 sealed, poolVars, cancelled>>

\* The flag; then the Err, if there is one to send.
Flag ==
  /\ pc \in {"flag", "flagLast"}
  /\ cancelled' = TRUE
  /\ pc' = IF pc = "flag" THEN "sendErr" ELSE "done"
  /\ UNCHANGED <<mode, nextVars, segment, wire, sent, received, slots, closing, output, frames,
                 sealed, poolVars, reported>>

\* tx.send(Err(..)), on the same channel: that it fails is ignored.
SendErr ==
  /\ pc \in {"sendErr", "sendErrFirst"}
  /\ \/ /\ receiver # "gone"
        /\ Len(output) - taken < OutSize
        /\ output' = Append(output, ErrOut)
     \/ receiver = "gone" /\ UNCHANGED output
  /\ pc' = IF pc = "sendErr" THEN "done" ELSE "reportLast"
  /\ UNCHANGED <<mode, nextVars, segment, wire, sent, received, slots, closing, frames, sealed,
                 poolVars, errorVars>>

-----------------------------------------------------------------------------
(* A frame worker.                                                         *)

\* A frame received after the cancellation is dropped.
TakeFrame(f) ==
  /\ fw[f] = "select"
  /\ frames # <<>>
  /\ job' = [job EXCEPT ![f] = Head(frames)]
  /\ frames' = Tail(frames)
  /\ fw' = [fw EXCEPT ![f] = IF cancelled THEN "done" ELSE "seal"]
  /\ UNCHANGED <<mode, nextVars, workerVars, sealed, errorVars>>

\* encrypt_frame or decrypt_frame, and the send of its Result; a send that
\* fails is reported like a frame that does.
Seal(f) ==
  /\ fw[f] = "seal"
  /\ \/ WorkerAlive /\ sealed' = Append(sealed, job[f]) /\ fw' = [fw EXCEPT ![f] = "select"]
     \/ ~WorkerAlive /\ fw' = [fw EXCEPT ![f] = "report"] /\ UNCHANGED sealed
     \/ /\ MayFail
        /\ sealed' = IF WorkerAlive THEN Append(sealed, Err) ELSE sealed
        /\ fw' = [fw EXCEPT ![f] = "report"]
  /\ UNCHANGED <<mode, nextVars, workerVars, frames, job, errorVars>>

ReportFrame(f) ==
  /\ fw[f] = "report"
  /\ reported' = TRUE
  /\ fw' = [fw EXCEPT ![f] = "flag"]
  /\ UNCHANGED <<mode, nextVars, workerVars, frames, sealed, job, cancelled>>

FlagFrame(f) ==
  /\ fw[f] = "flag"
  /\ cancelled' = TRUE
  /\ fw' = [fw EXCEPT ![f] = "done"]
  /\ UNCHANGED <<mode, nextVars, workerVars, frames, sealed, job, reported>>

\* Defect: the select has no default branch.
StopWithoutTimeout(f) ==
  /\ fw[f] = "select"
  /\ frames = <<>>
  /\ ~WorkerAlive
  /\ fw' = [fw EXCEPT ![f] = "done"]
  /\ UNCHANGED <<mode, nextVars, workerVars, frames, sealed, job, errorVars>>

\* frame_tx was dropped and drained; the flag after 10 ms.
Stop(f) ==
  /\ fw[f] = "select"
  /\ frames = <<>>
  /\ ~WorkerAlive \/ cancelled
  /\ fw' = [fw EXCEPT ![f] = "done"]
  /\ UNCHANGED <<mode, nextVars, workerVars, frames, sealed, job, errorVars>>

-----------------------------------------------------------------------------
(* The rest of the pipeline.  The next stage receives until it has set the *)
(* flag or finds it; then it drops its end of the channel, or the pipeline *)
(* function keeps one behind its loop.  That of a decryption also stops    *)
(* behind a writer whose push failed, which leaves without the flag.       *)

Receive ==
  /\ receiver = "receives"
  /\ taken < Len(output)
  /\ taken' = taken + 1
  /\ UNCHANGED <<mode, workerVars, receiver, frames, sealed, poolVars, errorVars>>

LeaveReceiver ==
  /\ \/ cancelled /\ receiver = "receives" /\ receiver' \in {"stays", "gone"}
     \/ cancelled /\ receiver = "stays" /\ receiver' = "gone"
     \/ MayFail /\ mode = "decrypt" /\ receiver = "receives" /\ receiver' = "stays"
  /\ UNCHANGED <<mode, workerVars, taken, frames, sealed, poolVars, errorVars>>

\* Another thread of the pipeline fails: its message, then the flag.
OthersReport ==
  /\ MayFail /\ ~reported
  /\ reported' = TRUE
  /\ UNCHANGED <<mode, nextVars, workerVars, frames, sealed, poolVars, cancelled>>

OthersFlag ==
  /\ reported /\ ~cancelled
  /\ cancelled' = TRUE
  /\ UNCHANGED <<mode, nextVars, workerVars, frames, sealed, poolVars, reported>>

Stopped == ~WorkerAlive /\ ~PoolAlive

\* A send that nobody will ever make room for.
Abandoned ==
  /\ \/ pc \in {"final", "sendErr", "sendErrFirst"}
     \/ pc = "finish" /\ (mode = "encrypt" \/ Accepts(segment, wire, closing))
  /\ receiver = "stays"
  /\ Len(output) - taken = OutSize

Finished == Stopped /\ UNCHANGED vars

Process ==
  \/ Validate \/ SendFrame \/ Collect \/ CollectClosing \/ GiveUp \/ Finish

Worker ==
  \/ SpawnPool \/ CheckFlag \/ TakeSegment \/ Process \/ SendFinal \/ Report \/ Flag \/ SendErr

FrameWorker(f) == TakeFrame(f) \/ Seal(f) \/ ReportFrame(f) \/ FlagFrame(f) \/ Stop(f)

Next ==
  \/ Worker
  \/ \E f \in FrameWorkers : FrameWorker(f)
  \/ Receive \/ LeaveReceiver
  \/ OthersReport \/ OthersFlag
  \/ Finished

(* Every thread of the worker is scheduled, and the next stage as long as  *)
(* it receives; nothing forces an error, and nothing makes the next stage  *)
(* drop its end.                                                           *)
Fairness ==
  /\ WF_vars(Worker)
  /\ \A f \in FrameWorkers : WF_vars(FrameWorker(f))
  /\ WF_vars(Receive)

Spec == Init /\ [][Next]_vars /\ Fairness

-----------------------------------------------------------------------------

\* What is sent on is a prefix of the whole segments in order, at most closed
\* by one Err: the frames of a segment are its own and in order, whatever the
\* frame workers' timing (enc_helpers.rs:166-197, 236-288), and although a
\* damaged wire may hold any frames that were encrypted, of any segment, in
\* any order and number (dec_helpers.rs:216-394).
OutputIsWholeThenErr ==
  \A i \in DOMAIN output :
    \/ output[i] = ErrOut /\ i = Len(output)
    \/ /\ output[i].segment = i - 1
       /\ i <= Segments =>
            output[i].frames = IF mode = "encrypt" THEN Whole(i - 1) ELSE DataOf(Whole(i - 1))

\* The flag is never set without a message before it: a pipeline that gives
\* up at the flag finds the reason (encrypt.rs:138-143, 158-171,
\* decrypt.rs:146-160, 163-198, frame_worker/encrypt.rs:252-282).
FlagHasMessage == cancelled => reported

\* A worker that ends before its segments leaves a message or panics: when the
\* pool could not be set up, before any segment, or over a data frame that its
\* wire has no place for, as when any other frame is missing
\* (dec_helpers.rs:190-230).
EndsWithCause ==
  ~WorkerAlive /\ (\A i \in DOMAIN output : output[i].segment # Segments) =>
    reported \/ (pc = "panicked" /\ (wire = <<>> \/ HasNoPlace(wire)))

\* Worker and pool stop, also when the flag is set while the digest or the
\* terminator is awaited (enc_helpers.rs:244-288).  Only a worker whose full
\* channel the pipeline function keeps but has stopped to empty waits for it
\* (encrypt.rs:144, 169, decrypt.rs:148, 177, 190; pipeline.rs:85-97), and its
\* pool with it unless the flag is set: a decryption leaves its writer loop
\* without it when a push fails (pipeline.rs:627).
AllStop == <>[](IF Abandoned THEN cancelled => ~PoolAlive ELSE Stopped)
=============================================================================
