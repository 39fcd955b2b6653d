----------------------------- MODULE SegmentWorker -----------------------------
(***************************************************************************)
(* One v3 segment worker, encrypting or decrypting, and its private pool   *)
(* of frame workers.                                                       *)
(*                                                                         *)
(* The worker takes segments one at a time, sends their data frames to the *)
(* pool over a bounded channel, collects the encrypted frames from an      *)
(* unbounded one in the order they come, then does the same with the       *)
(* digest frame and with the terminator.  A decrypting worker sends all    *)
(* the frames it finds in the wire, collects as many, and checks them.     *)
(* The frame workers are detached threads: they end when the worker drops  *)
(* frame_tx, on an error, or when they notice a cancellation.              *)
(*                                                                         *)
(* A cancellation is a flag and one token in a channel of capacity one,    *)
(* which the threads of every segment worker share: whoever receives the   *)
(* token takes it from the others, who must find the flag by themselves.   *)
(* The selects with a default branch do so every 10 ms; those for the      *)
(* digest and the terminator have none.                                    *)
(***************************************************************************)
EXTENDS Naturals, Sequences, FiniteSets, SegmentFrames

CONSTANTS
  FrameWorkers,  \* the pool
  QueueSize,     \* capacity of frame_tx: worker_count * 4
  OutSize,       \* capacity of the channel to the next stage
  MayFail        \* whether frames may fail and other threads report errors

ASSUME PoolAssumption == IsFiniteSet(FrameWorkers) /\ FrameWorkers # {}
ASSUME SizeAssumption ==
  /\ QueueSize \in Nat \ {0}
  /\ OutSize \in Nat \ {0}
  /\ MayFail \in BOOLEAN

VARIABLES
  mode,       \* "encrypt" or "decrypt"
  pc,         \* where the segment worker is
  segment,    \* index of its segment
  wire,       \* the frames of the segment it decrypts
  sent,       \* number of the frame to send next
  received,   \* frames collected so far
  slots,      \* data_frames: what was collected, by frame index
  closing,    \* what was received as digest_frame and as terminator_frame
  emitted,    \* every segment sent to the next stage
  taken,      \* how many of them it has taken out of the channel
  receiver,   \* "receives"; "stays", but has left its loop; or "gone"
  frames,     \* frame_tx / frame_rx
  sealed,     \* out_tx / out_rx
  fw,         \* where each frame worker is
  job,        \* the frame each one holds
  cancelled,  \* the monitor's flag
  token       \* the cancel channel holds its one token

workerVars == <<pc, segment, wire, sent, received, slots, closing, emitted>>
poolVars == <<fw, job>>
nextVars == <<taken, receiver>>
cancelVars == <<cancelled, token>>
vars == <<mode, workerVars, nextVars, frames, sealed, poolVars, cancelVars>>

Init ==
  /\ mode \in {"encrypt", "decrypt"}
  /\ pc = "spawn"
  /\ segment = 0
  /\ wire = <<>>
  /\ sent = 0
  /\ received = 0
  /\ slots = EmptySlots(0)
  /\ closing = <<>>
  /\ emitted = <<>>
  /\ taken = 0
  /\ receiver = "receives"
  /\ frames = <<>>
  /\ sealed = <<>>
  /\ fw = [f \in FrameWorkers |-> "unspawned"]
  /\ job = [f \in FrameWorkers |-> NoFrame]
  /\ cancelled = FALSE
  /\ token = FALSE

\* report_error: set the flag, try_send the token; a second error does nothing.
ReportError == cancelled' = TRUE /\ token' = (token \/ ~cancelled)

PoolAlive == \E f \in FrameWorkers : fw[f] # "done"
WorkerAlive == pc \notin {"done", "panicked"}

-----------------------------------------------------------------------------
(* The segment worker.                                                     *)

\* Spawning the pool stops at a cancellation.  When the cipher cannot be set
\* up, the error is reported and the worker's own thread panics.
SpawnPool ==
  LET rest == {f \in FrameWorkers : fw[f] = "unspawned"}
      StopSpawning == fw' = [f \in FrameWorkers |-> IF f \in rest THEN "done" ELSE fw[f]]
  IN
  /\ pc = "spawn"
  /\ \/ /\ cancelled
        /\ StopSpawning
        /\ pc' = "recv"
        /\ UNCHANGED cancelVars
     \/ /\ ~cancelled
        /\ \E f \in rest : fw' = [fw EXCEPT ![f] = "select"]
        /\ pc' = IF Cardinality(rest) = 1 THEN "recv" ELSE pc
        /\ UNCHANGED cancelVars
     \/ /\ ~cancelled /\ MayFail
        /\ ReportError
        /\ StopSpawning
        /\ pc' = "panicked"
  /\ UNCHANGED <<mode, nextVars, segment, wire, sent, received, slots, closing, emitted, frames,
                 sealed, job>>

\* rx.recv() and the flag; the FINAL marker needs no frame.
TakeSegment ==
  /\ pc = "recv"
  /\ IF segment > Segments \/ cancelled
       THEN pc' = "done" /\ UNCHANGED <<wire, sent, received, slots, closing>>
     ELSE IF segment = Segments
       THEN pc' = "final" /\ UNCHANGED <<wire, sent, received, slots, closing>>
     ELSE /\ pc' = IF mode = "encrypt" THEN "send" ELSE "validate"
          /\ wire' \in {Whole(segment)} \cup (IF mode = "decrypt" THEN Wires ELSE {})
          /\ sent' = 0
          /\ received' = 0
          /\ slots' = EmptySlots(IF mode = "encrypt" THEN Frames ELSE DataCount(wire'))
          /\ closing' = <<>>
  /\ UNCHANGED <<mode, nextVars, segment, emitted, frames, sealed, poolVars, cancelVars>>

\* tx.send: blocks while the channel is full; fails, and is reported, when the
\* next stage has dropped it.
Deliver(out) ==
  \/ /\ receiver # "gone"
     /\ Len(emitted) - taken < OutSize
     /\ emitted' = Append(emitted, out)
     /\ segment' = segment + 1
     /\ pc' = "recv"
     /\ UNCHANGED cancelVars
  \/ /\ receiver = "gone"
     /\ ReportError
     /\ pc' = "done"
     /\ UNCHANGED <<emitted, segment>>

EmitFinal ==
  /\ pc = "final"
  /\ Deliver([segment |-> segment, frames |-> <<>>])
  /\ UNCHANGED <<mode, nextVars, wire, sent, received, slots, closing, frames, sealed, poolVars>>

\* Defect: an invalid segment ends the worker, but is not reported.
ValidateSilently ==
  /\ pc = "validate"
  /\ \/ wire # <<>> /\ pc' = "send"
     \/ (MayFail \/ wire = <<>>) /\ pc' = "done"
  /\ UNCHANGED <<mode, nextVars, segment, wire, sent, received, slots, closing, emitted, frames,
                 sealed, poolVars, cancelVars>>

\* The checksums of the segment header, then the first frame header.
Validate ==
  /\ pc = "validate"
  /\ \/ wire # <<>> /\ pc' = "send" /\ UNCHANGED cancelVars
     \/ /\ MayFail \/ wire = <<>>
        /\ ReportError
        /\ pc' = "done"
  /\ UNCHANGED <<mode, nextVars, segment, wire, sent, received, slots, closing, emitted, frames,
                 sealed, poolVars>>

\* What follows the frame that was sent.
AfterSend(n) ==
  IF mode = "decrypt" THEN (IF n + 1 = Len(wire) THEN "collect" ELSE "send")
  ELSE IF n + 1 < Frames THEN "send"
  ELSE IF n + 1 = Frames THEN "collect" ELSE "wait"

\* frame_tx.send: blocks on a full channel, fails when the pool is gone.  A
\* decrypting worker parses the frame's header first.
SendFrame ==
  /\ pc = "send"
  /\ IF wire[sent + 1] # Torn /\ PoolAlive
       THEN /\ Len(frames) < QueueSize
            /\ frames' = Append(frames, wire[sent + 1])
            /\ sent' = sent + 1
            /\ pc' = AfterSend(sent)
            /\ UNCHANGED cancelVars
       ELSE /\ ReportError
            /\ pc' = "done"
            /\ UNCHANGED <<frames, sent>>
  /\ UNCHANGED <<mode, nextVars, segment, wire, received, slots, closing, emitted, sealed,
                 poolVars>>

\* Defect: frames are stored in the order they come.
StoreByArrival(frame) ==
  CASE frame.type = "data" ->
         IF received \in DOMAIN slots
           THEN slots' = [slots EXCEPT ![received] = frame] /\ UNCHANGED <<closing, cancelVars>>
           ELSE UNCHANGED <<slots, closing, cancelVars>>
    [] frame.type # "data" -> closing' = Append(closing, frame) /\ UNCHANGED <<slots, cancelVars>>

\* A data frame goes by its own number; a second digest or terminator is an
\* error.
Store(frame) ==
  CASE frame.type = "data" ->
         IF frame.number \in DOMAIN slots
           THEN slots' = [slots EXCEPT ![frame.number] = frame] /\ UNCHANGED <<closing,
                                                                               cancelVars>>
           ELSE UNCHANGED <<slots, closing, cancelVars>>
    [] frame.type # "data" /\ HasType(closing, frame.type) ->
         ReportError /\ UNCHANGED <<slots, closing>>
    [] OTHER -> closing' = Append(closing, frame) /\ UNCHANGED <<slots, cancelVars>>

\* Where the collecting loop goes on with a frame: out of bounds is a panic.
AfterCollect(frame) ==
  IF frame.type = "data" /\ frame.number \notin DOMAIN slots THEN "panicked"
  ELSE IF frame.type # "data" /\ HasType(closing, frame.type) THEN "done"
  ELSE IF mode = "encrypt" THEN (IF received + 1 = Frames THEN "send" ELSE "collect")
  ELSE IF received + 1 = Len(wire) THEN "emit" ELSE "collect"

\* The collecting loop ends when as many frames as were sent have come; the
\* digest is computed and sent then.
Collect ==
  /\ pc = "collect"
  /\ sealed # <<>>
  /\ Store(Head(sealed))
  /\ received' = received + 1
  /\ sealed' = Tail(sealed)
  /\ pc' = AfterCollect(Head(sealed))
  /\ UNCHANGED <<mode, nextVars, segment, wire, sent, emitted, frames, poolVars>>

\* The next frame is taken for the digest frame, then for the terminator.
CollectClosing ==
  /\ pc = "wait"
  /\ sealed # <<>>
  /\ closing' = Append(closing, Head(sealed))
  /\ sealed' = Tail(sealed)
  /\ pc' = IF sent = Frames + 1 THEN "send" ELSE "emit"
  /\ UNCHANGED <<mode, nextVars, segment, wire, sent, received, slots, emitted, frames, poolVars,
                 cancelVars>>

\* The segment is serialized, or checked and put together from its slots,
\* and sent to the next stage.
Emit ==
  LET data == [n \in 1..Cardinality(DOMAIN slots) |-> slots[n - 1]] IN
  /\ pc = "emit"
  /\ IF mode = "encrypt" \/ Accepts(segment, wire, closing)
       THEN Deliver([segment |-> segment,
                      frames |-> IF mode = "encrypt" THEN data \o closing ELSE data])
       ELSE /\ ReportError
            /\ pc' = "done"
            /\ UNCHANGED <<emitted, segment>>
  /\ UNCHANGED <<mode, nextVars, wire, sent, received, slots, closing, frames, sealed, poolVars>>

\* Leaving a select without a frame: the pool is gone; the token; the flag,
\* which only the collecting loop looks at, and only when nothing is ready.
PoolGone ==
  /\ pc \in {"collect", "wait"}
  /\ sealed = <<>>
  /\ ~PoolAlive
  /\ ReportError
  /\ pc' = "done"
  /\ UNCHANGED <<mode, nextVars, segment, wire, sent, received, slots, closing, emitted, frames,
                 sealed, poolVars>>

TakeToken ==
  /\ pc \in {"collect", "wait"}
  /\ token
  /\ token' = FALSE
  /\ pc' = "done"
  /\ UNCHANGED <<mode, nextVars, segment, wire, sent, received, slots, closing, emitted, frames,
                 sealed, poolVars, cancelled>>

Timeout ==
  /\ pc = "collect"
  /\ sealed = <<>> /\ PoolAlive /\ ~token
  /\ cancelled
  /\ pc' = "done"
  /\ UNCHANGED <<mode, nextVars, segment, wire, sent, received, slots, closing, emitted, frames,
                 sealed, poolVars, cancelVars>>

-----------------------------------------------------------------------------
(* A frame worker.                                                         *)

\* A frame received after the cancellation is dropped.
TakeFrame(f) ==
  /\ fw[f] = "select"
  /\ frames # <<>>
  /\ job' = [job EXCEPT ![f] = Head(frames)]
  /\ frames' = Tail(frames)
  /\ fw' = [fw EXCEPT ![f] = IF cancelled THEN "done" ELSE "seal"]
  /\ UNCHANGED <<mode, nextVars, workerVars, sealed, cancelVars>>

\* encrypt_in_place or decrypt_in_place, and the send on out_tx; either may
\* fail.
Seal(f) ==
  /\ fw[f] = "seal"
  /\ \/ /\ WorkerAlive
        /\ sealed' = Append(sealed, job[f])
        /\ fw' = [fw EXCEPT ![f] = "select"]
        /\ UNCHANGED cancelVars
     \/ /\ MayFail \/ ~WorkerAlive
        /\ ReportError
        /\ fw' = [fw EXCEPT ![f] = "done"]
        /\ UNCHANGED sealed
  /\ UNCHANGED <<mode, nextVars, workerVars, frames, job>>

\* Defect: the select has no default branch.
StopWithoutTimeout(f) ==
  /\ fw[f] = "select"
  /\ \/ frames = <<>> /\ ~WorkerAlive /\ UNCHANGED token
     \/ token /\ token' = FALSE
  /\ fw' = [fw EXCEPT ![f] = "done"]
  /\ UNCHANGED <<mode, nextVars, workerVars, frames, sealed, job, cancelled>>

\* frame_tx was dropped and drained; the token; the flag after 10 ms.
Stop(f) ==
  /\ fw[f] = "select"
  /\ \/ frames = <<>> /\ ~WorkerAlive /\ UNCHANGED token
     \/ token /\ token' = FALSE
     \/ frames = <<>> /\ WorkerAlive /\ ~token /\ cancelled /\ UNCHANGED token
  /\ fw' = [fw EXCEPT ![f] = "done"]
  /\ UNCHANGED <<mode, nextVars, workerVars, frames, sealed, job, cancelled>>

-----------------------------------------------------------------------------
(* The rest of the pipeline: the next stage receives, until a cancellation *)
(* makes it leave, its end of the channel dropped or, as the writer loop   *)
(* of an encryption does, kept; others report errors, or take the token.   *)

Receive ==
  /\ receiver = "receives"
  /\ taken < Len(emitted)
  /\ taken' = taken + 1
  /\ UNCHANGED <<mode, workerVars, receiver, frames, sealed, poolVars, cancelVars>>

LeaveReceiver ==
  /\ cancelled
  /\ \/ receiver = "receives" /\ receiver' \in {"stays", "gone"}
     \/ receiver = "stays" /\ receiver' = "gone"
  /\ UNCHANGED <<mode, workerVars, taken, frames, sealed, poolVars, cancelVars>>

Cancel ==
  /\ MayFail
  /\ ~cancelled
  /\ ReportError
  /\ UNCHANGED <<mode, nextVars, workerVars, frames, sealed, poolVars>>

StealToken ==
  /\ token
  /\ token' = FALSE
  /\ UNCHANGED <<mode, nextVars, workerVars, frames, sealed, poolVars, cancelled>>

Stopped == ~WorkerAlive /\ ~PoolAlive

\* A send that nobody will ever make room for.
Abandoned ==
  /\ pc = "final" \/ (pc = "emit" /\ (mode = "encrypt" \/ Accepts(segment, wire, closing)))
  /\ receiver = "stays"
  /\ Len(emitted) - taken = OutSize

Finished == Stopped /\ UNCHANGED vars

Worker ==
  \/ SpawnPool \/ TakeSegment \/ EmitFinal \/ Validate \/ SendFrame \/ Collect \/ CollectClosing
  \/ Emit \/ PoolGone \/ TakeToken \/ Timeout

FrameWorker(f) == TakeFrame(f) \/ Seal(f) \/ Stop(f)

Next ==
  \/ Worker
  \/ \E f \in FrameWorkers : FrameWorker(f)
  \/ Receive
  \/ LeaveReceiver
  \/ Cancel
  \/ StealToken
  \/ Finished

(* Every thread of the worker is scheduled, and the next stage as long as  *)
(* it receives; nothing forces an error, nothing makes the next stage drop *)
(* its end, and nothing keeps the token for this worker.                   *)
Fairness ==
  /\ WF_vars(Worker)
  /\ \A f \in FrameWorkers : WF_vars(FrameWorker(f))
  /\ WF_vars(Receive)

Spec == Init /\ [][Next]_vars /\ Fairness

-----------------------------------------------------------------------------

\* Every emitted segment has exactly its own frames, in order, an encrypted
\* one followed by its digest frame and its terminator, although the frame
\* workers finish in any order, the last two are told apart by their time of
\* arrival when they are encrypted (enc_helpers.rs:141-173, 207-246), and a
\* damaged wire may hold any frames that were encrypted, of any segment, in
\* any order and number (dec_helpers.rs:246-347).
EmittedInOrder ==
  \A i \in DOMAIN emitted :
    /\ emitted[i].segment = i - 1
    /\ i <= Segments =>
         emitted[i].frames = IF mode = "encrypt" THEN Whole(i - 1) ELSE DataOf(Whole(i - 1))

\* A worker that leaves before the end of its segments has an error behind
\* it: no segment is given up silently (encrypt.rs:94-108, decrypt.rs:77-126).
\* The one panic that is not reported is that of a wire with a data frame its
\* length has no place for, as when any other frame is missing
\* (dec_helpers.rs:190, 206-209).
GivesUpOnlyWhenCancelled ==
  ~WorkerAlive /\ Len(emitted) <= Segments =>
    cancelled \/ (pc = "panicked" /\ HasNoPlace(wire))

\* Worker and pool stop, after a cancellation too, whoever gets the token
\* (enc_helpers.rs:147-171, 207-246; frame_worker/encrypt.rs:170-209).  Only a
\* worker whose full channel the next stage keeps but has stopped to empty
\* waits for it (encrypt.rs:94, decrypt.rs:110; pipeline.rs:213-226), and its
\* pool stops all the same.
AllStop == <>[](~PoolAlive /\ (WorkerAlive => Abandoned))
=============================================================================
