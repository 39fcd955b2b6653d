------------------------- MODULE SegmentWorkerV2Proofs -------------------------
(***************************************************************************)
(* Proofs, for any number of frame workers, frames and segments, any       *)
(* capacities of the channels and any set of wires made of encrypted       *)
(* frames, that a v2 segment worker hands on whole segments, at most       *)
(* closed by an Err, that it does not end without a cause, and that the    *)
(* flag is never set before a message was sent.                            *)
(*                                                                         *)
(* The frames are kept in the same variables as in v3 and counted by the   *)
(* same invariant, Pool of SegmentWorkerProofs, whose lemmas about single  *)
(* steps are used here on the v2 variables.  What v2 adds is the Err a     *)
(* frame worker sends, which Pool allows on its way but never in a place,  *)
(* and the order of message, flag and Err.                                 *)
(***************************************************************************)
EXTENDS SegmentWorkerV2, FiniteSetTheorems, TLAPS

V3 == INSTANCE SegmentWorkerProofs WITH emitted <- output, token <- reported

-----------------------------------------------------------------------------
(* The instance speaks of the same frames, and its assumptions hold.       *)

LEMMA Finite == V3!IsFiniteSet(FrameWorkers)
BY PoolAssumption DEF V3!IsFiniteSet, IsFiniteSet

LEMMA SamePieces == V3!Pieces = Pieces
BY DEF V3!Pieces, V3!Frame, V3!Torn, Pieces, Frame, Torn

LEMMA WiresArePieces == Wires \subseteq Seq(V3!Pieces)
BY SamePieces, WiresAssumption DEF WiresAssumption

USE Finite, PoolAssumption, SizeAssumption, FramesAssumption, WiresArePieces
    DEF PoolAssumption, SizeAssumption, FramesAssumption

LEMMA SameCardinality == \A S : V3!Cardinality(S) = Cardinality(S)
BY DEF V3!Cardinality, Cardinality

LEMMA SameDataOf == \A w : V3!DataOf(w) = DataOf(w)
BY DEF V3!DataOf, DataOf, V3!Cardinality, Cardinality

LEMMA SameWhole == \A s : V3!Whole(s) = Whole(s)
BY DEF V3!Whole, V3!Frame, Whole, Frame

LEMMA SameWires == \A s : V3!WiresOf(s) = {Whole(s)} \cup Wires
BY SameWhole DEF V3!WiresOf

LEMMA SamePlaces ==
  /\ \A w : V3!DataCount(w) = DataCount(w)
  /\ \A n : V3!EmptySlots(n) = EmptySlots(n)
  /\ \A w : V3!HasNoPlace(w) <=> HasNoPlace(w)
  /\ V3!Bad = Err
<1>1. \A w : V3!DataCount(w) = DataCount(w)
  BY DEF V3!DataCount, DataCount
<1> QED
  BY <1>1 DEF V3!EmptySlots, V3!NoFrame, EmptySlots, NoFrame, V3!HasNoPlace, HasNoPlace, V3!Bad, Err

LEMMA SameAccepts == \A s, w, c : V3!Accepts(s, w, c) <=> Accepts(s, w, c)
<1>1. /\ \A s, d : V3!DigestOf(s, d) = DigestOf(s, d)
      /\ \A x : V3!Carried(x) = Carried(x)
  BY SameDataOf, SameWhole DEF V3!DigestOf, V3!Carried, DigestOf, Carried
<1> QED
  BY <1>1, SameDataOf, SamePlaces DEF V3!Accepts, Accepts

Pool == V3!Pool

LEMMA ErrIsFrame == Err \in V3!FrameRecord
BY DEF Err, V3!FrameRecord, V3!FrameType

-----------------------------------------------------------------------------
(* The frames.                                                             *)

LEMMA InitPool == Init => Pool
<1> SUFFICES ASSUME Init PROVE Pool
  OBVIOUS
<1>1. <<>> \in Seq(V3!FrameRecord) /\ Len(<<>>) = 0 /\ NoFrame \in V3!FrameRecord
  BY DEF NoFrame, V3!FrameRecord, V3!FrameType
<1>2. V3!Types
  BY <1>1 DEF Init, V3!Types, V3!Stations
<1>3. V3!Sealing = {}
  BY DEF Init, V3!Sealing
<1>4. V3!Flights = 0
  <2>1. V3!Cardinality(V3!Sealing) = 0
    BY <1>3, SameCardinality, FS_EmptySet
  <2> QED
    BY <1>1, <2>1 DEF Init, V3!Flights
<1> QED
  BY <1>2, <1>4 DEF Init, Pool, V3!Pool, V3!Resting, V3!Active, V3!Marking

\* Steps that leave the frames alone, and those behind which they are not
\* counted any more.
LEMMA QuietKeeps ==
  ASSUME Pool, UNCHANGED <<mode, pc, segment, wire, sent, received, slots, closing, frames, sealed, job>>,
         fw' \in [FrameWorkers -> V3!Stations], \A f \in FrameWorkers : fw'[f] = "seal" <=> fw[f] = "seal"
  PROVE  Pool'
BY V3!TurnKeeps DEF Pool

LEMMA LeavingKeeps ==
  ASSUME Pool, UNCHANGED <<mode, segment, wire, sent, received, slots, closing, frames, sealed, fw, job>>,
         pc' \in {"done", "panicked", "report", "reportLast", "flag", "flagLast", "sendErr", "sendErrFirst"}
  PROVE  Pool'
<1>1. V3!Types'
  BY DEF Pool, V3!Pool, V3!Types
<1> QED
  BY <1>1, V3!LeaveKeeps DEF Pool, V3!Resting, V3!Active, V3!Marking

LEMMA WorkerKeepsPool ==
  ASSUME Pool, Worker
  PROVE  Pool'
<1>1. V3!Types
  BY DEF Pool, V3!Pool
<1>2. CASE SpawnPool
  <2>1. /\ pc = "spawn" /\ pc' \in {"spawn", "check", "panicked"}
        /\ UNCHANGED <<mode, segment, wire, sent, received, slots, closing, frames, sealed, job>>
    BY <1>2 DEF SpawnPool
  <2>2. /\ fw' \in [FrameWorkers -> V3!Stations]
        /\ \A f \in FrameWorkers : fw'[f] = "seal" <=> fw[f] = "seal"
    <3>1. \/ \E f \in FrameWorkers : fw[f] = "unspawned" /\ fw' = [fw EXCEPT ![f] = "select"]
          \/ fw' = [f \in FrameWorkers |-> IF fw[f] = "unspawned" THEN "done" ELSE fw[f]]
      <4>1. \A f \in FrameWorkers :
              f \in {g \in FrameWorkers : fw[g] = "unspawned"} <=> fw[f] = "unspawned"
        OBVIOUS
      <4> QED
        BY <1>2, <4>1 DEF SpawnPool
    <3>2. fw \in [FrameWorkers -> V3!Stations]
      BY <1>1 DEF V3!Types
    <3> QED
      BY <3>1, <3>2 DEF V3!Stations
  <2>3. V3!Types' /\ V3!Flights' = 0
    BY <2>1, <2>2, V3!SpawnKeeps DEF Pool
  <2>4. CASE pc' = "panicked"
    BY <2>3, <2>4, V3!LeaveKeeps DEF Pool, V3!Resting, V3!Active, V3!Marking
  <2>5. CASE pc' \in {"spawn", "check"}
    BY <2>3, <2>5, V3!RestKeeps DEF Pool, V3!Resting
  <2> QED
    BY <2>1, <2>4, <2>5
<1>3. CASE CheckFlag
  <2>1. /\ pc = "check" /\ pc' \in {"done", "recv"}
        /\ UNCHANGED <<mode, segment, wire, sent, received, slots, closing, frames, sealed, fw, job>>
    BY <1>3 DEF CheckFlag, poolVars
  <2>2. CASE pc' = "done"
    BY <2>1, <2>2, LeavingKeeps
  <2>3. CASE pc' = "recv"
    <3>1. V3!Flights = 0 /\ V3!Sealing' = V3!Sealing
      BY <2>1 DEF Pool, V3!Pool, V3!Resting, V3!Sealing
    <3>2. V3!Types' /\ V3!Flights' = 0
      BY <1>1, <2>1, <3>1 DEF V3!Types, V3!Flights
    <3> QED
      BY <2>3, <3>2, V3!RestKeeps DEF Pool, V3!Resting
  <2> QED
    BY <2>1, <2>2, <2>3
<1>4. CASE TakeSegment
  <2>1. pc = "recv" /\ segment \in Nat /\ UNCHANGED <<mode, frames, sealed, fw, job>>
    BY <1>1, <1>4 DEF TakeSegment, V3!Types, poolVars
  <2>2. CASE segment < Segments
    <3>1. ~(segment > Segments) /\ segment # Segments
      BY <2>1, <2>2
    <3>2. /\ sent' = 0 /\ received' = 0 /\ closing' = <<>> /\ segment' = segment
          /\ slots' = EmptySlots(IF mode = "encrypt" THEN Frames ELSE DataCount(wire'))
          /\ pc' = (IF mode = "encrypt" THEN "send" ELSE "validate")
          /\ \/ wire' = Whole(segment)
             \/ mode = "decrypt" /\ wire' \in Wires
      BY <1>4, <3>1 DEF TakeSegment
    <3>3. wire' \in V3!WiresOf(segment) /\ (mode = "encrypt" => wire' = V3!Whole(segment))
      BY <3>2, SameWires, SameWhole
    <3>4. slots' = V3!EmptySlots(IF mode = "encrypt" THEN Frames ELSE V3!DataCount(wire'))
      BY <3>2, SamePlaces
    <3> QED
      BY <2>1, <2>2, <3>2, <3>3, <3>4, V3!TakeSegmentKeeps DEF Pool
  <2>3. CASE segment = Segments
    <3>1. pc' \in {"final", "validateFinal"} /\ UNCHANGED <<segment, wire, sent, received, slots, closing>>
      BY <1>4, <2>1, <2>3 DEF TakeSegment
    <3>2. V3!Types'
      BY <1>1, <2>1, <3>1 DEF V3!Types
    <3>3. V3!Flights' = 0
      <4>1. V3!Flights = 0 /\ V3!Sealing' = V3!Sealing
        BY <2>1 DEF Pool, V3!Pool, V3!Resting, V3!Sealing
      <4> QED
        BY <2>1, <4>1 DEF V3!Flights
    <3> QED
      BY <3>1, <3>2, <3>3, V3!RestKeeps DEF Pool, V3!Resting, V3!Marking
  <2>4. CASE segment > Segments
    <3>1. pc' = "done" /\ UNCHANGED <<segment, wire, sent, received, slots, closing>>
      BY <1>4, <2>4 DEF TakeSegment
    <3> QED
      BY <2>1, <3>1, LeavingKeeps
  <2> QED
    BY <2>1, <2>2, <2>3, <2>4
<1>5. CASE Validate
  <2>1. /\ UNCHANGED <<mode, segment, wire, sent, received, slots, closing, frames, sealed, fw, job>>
        /\ \/ pc' \in {"report", "sendErrFirst"}
           \/ pc = "validate" /\ wire # <<>> /\ pc' = "send"
           \/ pc = "validateFinal" /\ pc' = "final"
    BY <1>5 DEF Validate, poolVars
  <2>2. CASE pc' \in {"report", "sendErrFirst"}
    BY <2>1, <2>2, LeavingKeeps
  <2>3. CASE pc = "validate" /\ wire # <<>> /\ pc' = "send"
    BY <2>1, <2>3, V3!ValidateKeeps DEF Pool
  <2>4. CASE pc = "validateFinal" /\ pc' = "final"
    <3>1. V3!Flights = 0 /\ V3!Sealing' = V3!Sealing
      BY <2>1, <2>4 DEF Pool, V3!Pool, V3!Resting, V3!Marking, V3!Sealing
    <3>2. V3!Types' /\ V3!Flights' = 0
      BY <1>1, <2>1, <3>1 DEF V3!Types, V3!Flights
    <3> QED
      BY <2>4, <3>2, V3!RestKeeps DEF Pool, V3!Resting, V3!Marking
  <2> QED
    BY <2>1, <2>2, <2>3, <2>4
<1>6. CASE SendFrame
  <2>1. pc = "send" /\ UNCHANGED <<mode, segment, wire, received, slots, closing, sealed, fw, job>>
    BY <1>6 DEF SendFrame, poolVars
  <2>2. CASE wire[sent + 1] # Torn /\ PoolAlive
    <3>1. /\ frames' = Append(frames, wire[sent + 1]) /\ sent' = sent + 1
          /\ pc' = IF sent + 1 = (IF mode = "encrypt" THEN Frames ELSE Len(wire)) THEN "collect"
                   ELSE IF mode = "decrypt" \/ sent + 1 < Frames THEN "send" ELSE "wait"
      BY <1>6, <2>2 DEF SendFrame
    <3>2. mode \in {"encrypt", "decrypt"} /\ sent \in Nat /\ Frames \in Nat
      BY <1>1 DEF V3!Types
    <3>3. pc' = V3!AfterSend(sent)
      BY <3>1, <3>2 DEF V3!AfterSend
    <3> QED
      BY <2>1, <3>1, <3>3, V3!SendFrameKeeps DEF Pool
  <2>3. CASE ~(wire[sent + 1] # Torn /\ PoolAlive)
    <3>1. pc' = "report" /\ UNCHANGED <<frames, sent>>
      BY <1>6, <2>3 DEF SendFrame
    <3> QED
      BY <2>1, <3>1, LeavingKeeps
  <2> QED
    BY <2>2, <2>3
<1>7. CASE Collect
  <2>1. /\ pc = "collect" /\ sealed # <<>> /\ sealed' = Tail(sealed) /\ received' = received + 1
        /\ UNCHANGED <<mode, segment, wire, sent, frames, fw, job>>
    BY <1>7 DEF Collect, poolVars
  <2>2. Head(sealed) \in V3!FrameRecord /\ sealed' \in Seq(V3!FrameRecord)
    BY <1>1, <2>1, V3!TakenOut
  <2>3. \/ /\ Head(sealed).type = "data" /\ Head(sealed).number \in DOMAIN slots
           /\ slots' = [slots EXCEPT ![Head(sealed).number] = Head(sealed)] /\ closing' = closing
           /\ pc' = V3!GoesOn("finish")
        \/ /\ Head(sealed).type \in {"digest", "terminator"}
           /\ closing' = Append(closing, Head(sealed)) /\ slots' = slots
           /\ pc' = V3!GoesOn("finish")
        \/ pc' \in {"panicked", "report"} /\ UNCHANGED <<slots, closing>>
    BY <1>7 DEF Collect, V3!GoesOn
  <2>4. CASE pc' \in {"panicked", "report"} /\ UNCHANGED <<slots, closing>>
    <3>1. V3!Types'
      BY <1>1, <2>1, <2>2, <2>4 DEF V3!Types
    <3> QED
      BY <2>4, <3>1, V3!LeaveKeeps DEF Pool, V3!Resting, V3!Active, V3!Marking
  <2>5. CASE ~(pc' \in {"panicked", "report"} /\ UNCHANGED <<slots, closing>>)
    <3>1. /\ pc' = V3!GoesOn("finish")
          /\ \/ /\ Head(sealed).type = "data" /\ Head(sealed).number \in DOMAIN slots
                /\ slots' = [slots EXCEPT ![Head(sealed).number] = Head(sealed)]
                /\ closing' = closing
             \/ /\ Head(sealed).type # "data" /\ Head(sealed) # V3!Bad
                /\ closing' = Append(closing, Head(sealed))
                /\ slots' = slots
      BY <2>3, <2>5 DEF V3!Bad
    <3> QED
      BY <2>1, <3>1, V3!CollectKeeps DEF Pool
  <2> QED
    BY <2>4, <2>5
<1>8. CASE CollectClosing
  <2>1. /\ pc = "wait" /\ sealed # <<>> /\ sealed' = Tail(sealed)
        /\ closing' = Append(closing, Head(sealed))
        /\ UNCHANGED <<mode, segment, wire, sent, received, slots, frames, fw, job>>
    BY <1>8 DEF CollectClosing, poolVars
  <2>2. CASE Head(sealed) = Err
    <3>1. pc' = "report"
      BY <1>8, <2>2 DEF CollectClosing
    <3>2. Head(sealed) \in V3!FrameRecord /\ sealed' \in Seq(V3!FrameRecord)
      BY <1>1, <2>1, V3!TakenOut
    <3>3. closing' \in Seq(V3!FrameRecord)
      BY <1>1, <2>1, <3>2 DEF V3!Types
    <3>4. V3!Types'
      BY <1>1, <2>1, <3>2, <3>3 DEF V3!Types
    <3> QED
      BY <3>1, <3>4, V3!LeaveKeeps DEF Pool, V3!Resting, V3!Active, V3!Marking
  <2>3. CASE Head(sealed) # Err
    <3>1. pc' = IF sent = Frames + 1 THEN "send" ELSE "finish"
      BY <1>8, <2>3 DEF CollectClosing
    <3>2. Head(sealed) # V3!Bad
      BY <2>3, SamePlaces
    <3> QED
      BY <2>1, <3>1, <3>2, V3!CollectClosingKeeps DEF Pool
  <2> QED
    BY <2>2, <2>3
<1>9. CASE SendFinal \/ Finish
  <2>1. /\ pc \in {"final", "finish"}
        /\ \/ pc' = "check" /\ segment' = segment + 1
           \/ pc' \in {"report", "reportLast"} /\ segment' = segment
        /\ UNCHANGED <<mode, wire, sent, received, slots, closing, frames, sealed, fw, job>>
    BY <1>9 DEF SendFinal, Finish, Deliver, poolVars
  <2>2. CASE pc' \in {"report", "reportLast"} /\ segment' = segment
    BY <2>1, <2>2, LeavingKeeps
  <2>3. CASE pc' = "check" /\ segment' = segment + 1
    <3>a. pc = "final" => V3!Flights = 0
      BY DEF Pool, V3!Pool, V3!Resting, V3!Marking
    <3>1. V3!Flights = 0 /\ V3!Sealing' = V3!Sealing
      BY <2>1, <3>a, V3!Complete DEF Pool, V3!Sealing
    <3>2. V3!Types'
      BY <1>1, <2>1, <2>3 DEF V3!Types
    <3>3. V3!Flights' = 0
      BY <2>1, <3>1 DEF V3!Flights
    <3> QED
      BY <2>3, <3>2, <3>3, V3!RestKeeps DEF Pool, V3!Resting
  <2> QED
    BY <2>1, <2>2, <2>3
<1>10. CASE GiveUp \/ Report \/ Flag \/ SendErr
  <2>1. /\ UNCHANGED <<mode, segment, wire, sent, received, slots, closing, frames, sealed, fw, job>>
        /\ pc' \in {"report", "reportLast", "flag", "flagLast", "sendErr", "done"}
    BY <1>10 DEF GiveUp, Report, Flag, SendErr, poolVars
  <2> QED
    BY <2>1, LeavingKeeps
<1> QED
  BY <1>2, <1>3, <1>4, <1>5, <1>6, <1>7, <1>8, <1>9, <1>10 DEF Worker, Process

LEMMA FrameWorkerKeepsPool ==
  ASSUME Pool, NEW f \in FrameWorkers, FrameWorker(f)
  PROVE  Pool'
<1>1. V3!Types /\ fw \in [FrameWorkers -> V3!Stations]
  BY DEF Pool, V3!Pool, V3!Types
<1>2. UNCHANGED <<mode, pc, segment, wire, sent, received, slots, closing>>
  BY DEF FrameWorker, TakeFrame, Seal, ReportFrame, FlagFrame, Stop, workerVars
<1>3. CASE TakeFrame(f)
  <2>1. PICK p \in {"seal", "done"} : fw' = [fw EXCEPT ![f] = p]
    BY <1>3 DEF TakeFrame
  <2>2. /\ fw[f] = "select" /\ frames # <<>> /\ job' = [job EXCEPT ![f] = Head(frames)]
        /\ frames' = Tail(frames) /\ sealed' = sealed
    BY <1>3 DEF TakeFrame
  <2> QED
    BY <1>2, <2>1, <2>2, V3!TakeFrameKeeps DEF Pool
<1>4. CASE Seal(f)
  <2>1. PICK p \in {"select", "report"} : fw' = [fw EXCEPT ![f] = p]
    BY <1>4 DEF Seal
  <2>2. /\ fw[f] = "seal" /\ frames' = frames /\ job' = job
        /\ sealed' \in {sealed, Append(sealed, job[f]), Append(sealed, V3!Bad)}
    BY <1>4, SamePlaces DEF Seal
  <2>3. p \in V3!Stations \ {"seal"}
    BY DEF V3!Stations
  <2> QED
    BY <1>2, <2>1, <2>2, <2>3, V3!SealKeeps DEF Pool
<1>5. CASE ReportFrame(f) \/ FlagFrame(f) \/ Stop(f)
  <2>1. PICK p \in {"flag", "done"} : fw' = [fw EXCEPT ![f] = p]
    BY <1>5 DEF ReportFrame, FlagFrame, Stop
  <2>2. fw[f] \in {"report", "flag", "select"} /\ UNCHANGED <<frames, sealed, job>>
    BY <1>5 DEF ReportFrame, FlagFrame, Stop
  <2>3. /\ fw' \in [FrameWorkers -> V3!Stations]
        /\ \A g \in FrameWorkers : fw'[g] = "seal" <=> fw[g] = "seal"
    BY <1>1, <2>1, <2>2 DEF V3!Stations
  <2> QED
    BY <1>2, <2>2, <2>3, QuietKeeps
<1> QED
  BY <1>3, <1>4, <1>5 DEF FrameWorker

LEMMA NextPool == Pool /\ [Next]_vars => Pool'
<1> SUFFICES ASSUME Pool, [Next]_vars PROVE Pool'
  OBVIOUS
<1>1. CASE Receive \/ LeaveReceiver \/ OthersReport \/ OthersFlag \/ UNCHANGED vars
  <2>1. UNCHANGED <<mode, pc, segment, wire, sent, received, slots, closing, frames, sealed, fw, job>>
    BY <1>1 DEF Receive, LeaveReceiver, OthersReport, OthersFlag, vars, workerVars, poolVars
  <2>2. fw' \in [FrameWorkers -> V3!Stations]
    BY <2>1 DEF Pool, V3!Pool, V3!Types
  <2> QED
    BY <2>1, <2>2, QuietKeeps
<1> QED
  BY <1>1, WorkerKeepsPool, FrameWorkerKeepsPool DEF Next, Finished

-----------------------------------------------------------------------------
(* The message and the flag.                                               *)

\* Three kinds of threads set the flag, each from a place it only reaches
\* behind its own message.
Flagging ==
  /\ pc \in {"flag", "flagLast", "sendErr"} => reported
  /\ \A f \in FrameWorkers : fw[f] = "flag" => reported
  /\ cancelled => reported
  /\ fw = [f \in FrameWorkers |-> fw[f]]

\* Only Report brings the segment worker to the flag.
LEMMA ProcessStays ==
  ASSUME Process
  PROVE  pc' \notin {"flag", "flagLast", "sendErr"} /\ UNCHANGED <<poolVars, errorVars>>
<1>1. CASE Validate
  BY <1>1 DEF Validate
<1>2. CASE SendFrame
  BY <1>2 DEF SendFrame
<1>3. CASE Collect
  BY <1>3 DEF Collect
<1>4. CASE CollectClosing \/ GiveUp
  BY <1>4 DEF CollectClosing, GiveUp
<1>5. CASE Finish
  BY <1>5 DEF Finish, Deliver
<1> QED
  BY <1>1, <1>2, <1>3, <1>4, <1>5 DEF Process

LEMMA WorkerFlags ==
  ASSUME Flagging, Worker
  PROVE  Flagging'
<1>1. CASE SpawnPool
  <2>1. pc' \in {"spawn", "check", "panicked"} /\ UNCHANGED errorVars
    BY <1>1 DEF SpawnPool
  <2>2. /\ fw' = [f \in FrameWorkers |-> fw'[f]]
        /\ \A f \in FrameWorkers : fw'[f] \in {fw[f], "select", "done"}
    BY <1>1 DEF SpawnPool, Flagging
  <2> QED
    BY <2>1, <2>2 DEF Flagging, errorVars
<1>2. CASE CheckFlag \/ TakeSegment \/ SendFinal \/ SendErr
  <2>1. pc' \notin {"flag", "flagLast", "sendErr"} /\ UNCHANGED <<poolVars, errorVars>>
    BY <1>2 DEF CheckFlag, TakeSegment, SendFinal, Deliver, SendErr
  <2> QED
    BY <2>1 DEF Flagging, poolVars, errorVars
<1>3. CASE Process
  BY <1>3, ProcessStays DEF Flagging, poolVars, errorVars
<1>4. CASE Report
  BY <1>4 DEF Report, Flagging, poolVars
<1>5. CASE Flag
  BY <1>5 DEF Flag, Flagging, poolVars
<1> QED
  BY <1>1, <1>2, <1>3, <1>4, <1>5 DEF Worker

LEMMA FrameWorkerFlags ==
  ASSUME Flagging, NEW f \in FrameWorkers, FrameWorker(f)
  PROVE  Flagging'
<1>1. CASE TakeFrame(f) \/ Seal(f) \/ Stop(f)
  <2>1. /\ UNCHANGED <<workerVars, errorVars>>
        /\ \E p \in {"done", "seal", "select", "report"} : fw' = [fw EXCEPT ![f] = p]
    BY <1>1 DEF TakeFrame, Seal, Stop
  <2> QED
    BY <2>1 DEF Flagging, workerVars, errorVars
<1>2. CASE ReportFrame(f)
  BY <1>2 DEF ReportFrame, Flagging, workerVars
<1>3. CASE FlagFrame(f)
  BY <1>3 DEF FlagFrame, Flagging, workerVars
<1> QED
  BY <1>1, <1>2, <1>3 DEF FrameWorker

LEMMA NextFlagging == Flagging /\ [Next]_vars => Flagging'
<1>1. Flagging /\ (Receive \/ LeaveReceiver \/ OthersReport \/ OthersFlag) => Flagging'
  BY DEF Receive, LeaveReceiver, OthersReport, OthersFlag, Flagging, workerVars, poolVars, errorVars
<1>2. Flagging /\ UNCHANGED vars => Flagging'
  BY DEF vars, Flagging, workerVars, poolVars, errorVars
<1> QED
  BY <1>1, <1>2, WorkerFlags, FrameWorkerFlags DEF Next, Finished

LEMMA InitFlagging == Init => Flagging
BY DEF Init, Flagging

\* Whoever fails, and whoever else fails meanwhile, a message is on its way
\* before the flag is seen (encrypt.rs:138-171, decrypt.rs:146-198,
\* frame_worker/encrypt.rs:252-282).
THEOREM FlagComesAfterMessage == Spec => []FlagHasMessage
<1>1. Flagging => FlagHasMessage
  BY DEF Flagging, FlagHasMessage
<1> QED
  BY <1>1, InitFlagging, NextFlagging, PTL DEF Spec

-----------------------------------------------------------------------------
(* What is handed on.                                                      *)

Closing == {"reportLast", "flagLast", "done"}

\* Only the FINAL marker is handed on without frames.
AtTheEnd == pc \in V3!Marking => segment = Segments

LEMMA NextAtTheEnd == AtTheEnd /\ [Next]_vars => AtTheEnd'
<1> SUFFICES ASSUME AtTheEnd, [Next]_vars PROVE AtTheEnd'
  OBVIOUS
<1> USE DEF V3!Marking
<1>1. CASE TakeSegment
  <2>1. segment' = segment /\ (pc' \in {"final", "validateFinal"} => segment = Segments)
    BY <1>1 DEF TakeSegment
  <2> QED
    BY <2>1 DEF AtTheEnd
<1>2. CASE Validate
  <2>1. segment' = segment /\ (pc' \in {"final", "validateFinal"} => pc = "validateFinal")
    BY <1>2 DEF Validate
  <2> QED
    BY <2>1 DEF AtTheEnd
<1>3. CASE \/ SpawnPool \/ CheckFlag \/ SendFrame \/ CollectClosing \/ GiveUp \/ SendFinal \/ Finish
           \/ Report \/ Flag \/ SendErr
  <2>1. pc' \notin {"final", "validateFinal"}
    BY <1>3 DEF SpawnPool, CheckFlag, SendFrame, CollectClosing, GiveUp, SendFinal, Finish, Deliver,
                Report, Flag, SendErr
  <2> QED
    BY <2>1 DEF AtTheEnd
<1>4. CASE Collect
  <2>1. pc' \notin {"final", "validateFinal"}
    BY <1>4 DEF Collect
  <2> QED
    BY <2>1 DEF AtTheEnd
<1>5. CASE \/ \E f \in FrameWorkers : FrameWorker(f)
           \/ Receive \/ LeaveReceiver \/ OthersReport \/ OthersFlag \/ UNCHANGED vars
  <2>1. UNCHANGED <<pc, segment>>
    BY <1>5 DEF FrameWorker, TakeFrame, Seal, ReportFrame, FlagFrame, Stop, Receive, LeaveReceiver,
                OthersReport, OthersFlag, vars, workerVars
  <2> QED
    BY <2>1 DEF AtTheEnd
<1> QED
  BY <1>1, <1>2, <1>3, <1>4, <1>5 DEF Next, Finished, Worker, Process

\* Whole segments in order, and behind them at most one Err.
Handing ==
  /\ pc \notin Closing => V3!Delivered(output)
  /\ \E q : V3!Delivered(q) /\ output \in {q, Append(q, ErrOut)}

LEMMA Same == \A q : V3!InOrder(q) <=>
                \A i \in DOMAIN q :
                  /\ q[i].segment = i - 1
                  /\ i <= Segments => q[i].frames = IF mode = "encrypt" THEN Whole(i - 1)
                                                                        ELSE DataOf(Whole(i - 1))
BY SameWhole, SameDataOf DEF V3!InOrder

LEMMA Quiet ==
  ASSUME Handing, UNCHANGED <<mode, segment, output>>, pc' \notin Closing => pc \notin Closing
  PROVE  Handing'
<1>1. \A q : V3!Delivered(q)' <=> V3!Delivered(q)
  BY DEF V3!Delivered, V3!InOrder
<1>2. V3!Delivered(output)' <=> V3!Delivered(output)
  BY DEF V3!Delivered, V3!InOrder
<1> QED
  BY <1>1, <1>2 DEF Handing

\* One segment more.
LEMMA HandsOn ==
  ASSUME Pool, Handing, segment <= Segments, pc \notin Closing, mode' = mode, segment' = segment + 1,
         NEW e, output' = Append(output, e), e.segment = segment,
         e = [segment |-> segment, frames |-> e.frames],
         IF segment = Segments THEN e.frames = <<>>
         ELSE e.frames = IF mode = "encrypt" THEN Whole(segment) ELSE DataOf(Whole(segment))
  PROVE  Handing'
<1>1. segment \in Nat /\ V3!Delivered(output)
  BY DEF Pool, V3!Pool, V3!Types, Handing
<1>2. IF segment = Segments THEN e.frames = <<>>
      ELSE e.frames = IF mode = "encrypt" THEN V3!Whole(segment) ELSE V3!DataOf(V3!Whole(segment))
  BY SameWhole, SameDataOf
<1>3. /\ output' \in Seq(V3!Handed) /\ Len(output') = segment + 1 /\ V3!InOrder(output')
  BY <1>1, <1>2, V3!HandOn
<1>4. V3!Delivered(output)'
  BY <1>1, <1>3 DEF V3!Delivered, V3!InOrder
<1>5. \E q : V3!Delivered(q)' /\ output' \in {q, Append(q, ErrOut)}
  <2>1. PICK q : q = output'
    OBVIOUS
  <2>2. V3!Delivered(q)'
    BY <1>4, <2>1 DEF V3!Delivered, V3!InOrder
  <2> QED
    BY <2>1, <2>2
<1> QED
  BY <1>4, <1>5 DEF Handing

\* The Err.
LEMMA HandsErr ==
  ASSUME Handing, pc \notin Closing, UNCHANGED <<mode, segment>>, output' = Append(output, ErrOut),
         pc' \in Closing
  PROVE  Handing'
<1>1. PICK q : q = output
  OBVIOUS
<1>2. V3!Delivered(q)'
  BY <1>1 DEF Handing, V3!Delivered, V3!InOrder
<1>3. \E p : V3!Delivered(p)' /\ output' \in {p, Append(p, ErrOut)}
  BY <1>1, <1>2 DEF ErrOut
<1> QED
  BY <1>3 DEF Handing

LEMMA NextHanding == Pool /\ AtTheEnd /\ Handing /\ [Next]_vars => Handing'
<1> SUFFICES ASSUME Pool, AtTheEnd, Handing, [Next]_vars PROVE Handing'
  OBVIOUS
<1>1. V3!Types /\ segment \in Nat
  BY DEF Pool, V3!Pool, V3!Types
<1>2. CASE SendFinal
  <2>1. pc = "final" /\ segment = Segments /\ mode' = mode
    BY <1>2 DEF SendFinal, AtTheEnd, V3!Marking
  <2>2. \/ UNCHANGED <<segment, output>>
        \/ /\ output' = Append(output, [segment |-> segment, frames |-> <<>>])
           /\ segment' = segment + 1
    BY <1>2 DEF SendFinal, Deliver
  <2>3. CASE UNCHANGED <<segment, output>>
    BY <2>1, <2>3, Quiet DEF Closing
  <2>4. CASE /\ output' = Append(output, [segment |-> segment, frames |-> <<>>])
             /\ segment' = segment + 1
    BY <1>1, <2>1, <2>4, HandsOn DEF Closing
  <2> QED
    BY <2>2, <2>3, <2>4
<1>3. CASE SendErr
  <2>1. /\ pc \in {"sendErr", "sendErrFirst"} /\ pc' \in {"done", "reportLast"}
        /\ UNCHANGED <<mode, segment>>
    BY <1>3 DEF SendErr
  <2>2. output' = output \/ output' = Append(output, ErrOut)
    BY <1>3 DEF SendErr
  <2>3. CASE output' = output
    BY <2>1, <2>3, Quiet DEF Closing
  <2>4. CASE output' = Append(output, ErrOut)
    BY <2>1, <2>4, HandsErr DEF Closing
  <2> QED
    BY <2>2, <2>3, <2>4
<1>4. CASE Finish
  <2>1. pc = "finish" /\ mode' = mode
    BY <1>4 DEF Finish
  <2>2. CASE UNCHANGED <<segment, output>>
    BY <2>1, <2>2, Quiet DEF Closing
  <2>3. CASE ~(UNCHANGED <<segment, output>>)
    <3>1. mode = "encrypt" \/ Accepts(segment, wire, closing)
      BY <1>4, <2>3 DEF Finish
    <3>2. PICK data : data = [n \in 1..Frames |-> slots[n - 1]]
      OBVIOUS
    <3>3. /\ DOMAIN slots = 0..(Frames - 1) /\ data = DataOf(Whole(segment))
          /\ mode = "encrypt" => data \o closing = Whole(segment)
      <4>1. mode = "encrypt" \/ V3!Accepts(segment, wire, closing)
        BY <3>1, SameAccepts
      <4>2. /\ DOMAIN slots = 0..(Frames - 1) /\ data = V3!DataOf(V3!Whole(segment))
            /\ mode = "encrypt" => data \o closing = V3!Whole(segment)
        BY <2>1, <3>2, <4>1, V3!Assembled DEF Pool
      <4> QED
        BY <4>2, SameWhole, SameDataOf
    <3>4. Cardinality(DOMAIN slots) = Frames
      <4>1. Cardinality(0..(Frames - 1)) = Frames
        BY FS_Interval
      <4> QED
        BY <3>3, <4>1
    <3>5. /\ output' = Append(output,
               [segment |-> segment, frames |-> IF mode = "encrypt" THEN data \o closing ELSE data])
          /\ segment' = segment + 1
      BY <1>4, <2>3, <3>1, <3>2, <3>4 DEF Finish, Deliver
    <3>6. segment < Segments
      BY <2>1, V3!Complete DEF Pool, V3!Phase
    <3> DEFINE e == [segment |-> segment, frames |-> IF mode = "encrypt" THEN data \o closing ELSE data]
    <3>7. /\ e.segment = segment /\ e = [segment |-> segment, frames |-> e.frames]
          /\ e.frames = IF mode = "encrypt" THEN Whole(segment) ELSE DataOf(Whole(segment))
      BY <3>3
    <3>8. segment <= Segments /\ segment # Segments /\ output' = Append(output, e)
      BY <1>1, <3>5, <3>6
    <3> HIDE DEF e
    <3> QED
      BY <2>1, <3>5, <3>7, <3>8, HandsOn DEF Closing
  <2> QED
    BY <2>2, <2>3
<1>5. CASE Report
  <2>1. UNCHANGED <<mode, segment, output>> /\ (pc = "reportLast" => pc' = "flagLast")
        /\ pc \in {"report", "reportLast"}
    BY <1>5 DEF Report
  <2> QED
    BY <2>1, Quiet DEF Closing
<1>6. CASE Flag
  <2>1. /\ pc \in {"flag", "flagLast"} /\ UNCHANGED <<mode, segment, output>>
        /\ pc' # "sendErr" => pc = "flagLast"
        /\ pc = "flag" \/ pc' = "done"
    BY <1>6 DEF Flag
  <2> QED
    BY <2>1, Quiet DEF Closing
<1>7. CASE \/ SpawnPool \/ CheckFlag \/ TakeSegment \/ Validate \/ SendFrame \/ Collect
           \/ CollectClosing \/ GiveUp
  <2>1. UNCHANGED <<mode, segment, output>> /\ pc \notin Closing
    BY <1>7 DEF SpawnPool, CheckFlag, TakeSegment, Validate, SendFrame, Collect, CollectClosing,
                GiveUp, Closing
  <2> QED
    BY <2>1, Quiet
<1>8. CASE \/ \E f \in FrameWorkers : FrameWorker(f)
           \/ Receive \/ LeaveReceiver \/ OthersReport \/ OthersFlag \/ UNCHANGED vars
  <2>1. UNCHANGED <<mode, pc, segment, output>>
    BY <1>8 DEF FrameWorker, TakeFrame, Seal, ReportFrame, FlagFrame, Stop, Receive, LeaveReceiver,
                OthersReport, OthersFlag, vars, workerVars
  <2> QED
    BY <2>1, Quiet DEF Closing
<1> QED
  BY <1>2, <1>3, <1>4, <1>5, <1>6, <1>7, <1>8 DEF Next, Finished, Worker, Process

\* What is sent on is a prefix of the whole segments in order, at most closed
\* by one Err, whatever the frame workers' timing (enc_helpers.rs:166-197,
\* 236-288) and whatever encrypted frames, of whatever segments, damage has
\* left of a wire in whatever order (dec_helpers.rs:216-394).  Who made the
\* digest frame is checked neither by the code nor here: an encryption did.
THEOREM SegmentsAreWholeThenErr == Spec => []OutputIsWholeThenErr
<1>1. Init => Handing
  <2> SUFFICES ASSUME Init PROVE Handing
    OBVIOUS
  <2>1. V3!Delivered(output)
    BY DEF Init, V3!Delivered, V3!InOrder
  <2>2. \E q : V3!Delivered(q) /\ output \in {q, Append(q, ErrOut)}
    BY <2>1
  <2> QED
    BY <2>1, <2>2 DEF Handing
<1>2. Pool /\ Handing => OutputIsWholeThenErr
  <2> SUFFICES ASSUME Pool, Handing PROVE OutputIsWholeThenErr
    OBVIOUS
  <2>1. PICK q : V3!Delivered(q) /\ output \in {q, Append(q, ErrOut)}
    BY DEF Handing
  <2>2. segment \in Nat /\ q \in Seq(V3!Handed) /\ Len(q) = segment
    BY <2>1 DEF Pool, V3!Pool, V3!Types, V3!Delivered
  <2>3. \A i \in DOMAIN q :
          /\ q[i].segment = i - 1
          /\ i <= Segments => q[i].frames = IF mode = "encrypt" THEN Whole(i - 1) ELSE DataOf(Whole(i - 1))
    BY <2>1, Same DEF V3!Delivered
  <2>4. CASE output = q
    BY <2>3, <2>4 DEF OutputIsWholeThenErr
  <2>5. CASE output = Append(q, ErrOut)
    <3>1. /\ DOMAIN output = 1..(segment + 1) /\ DOMAIN q = 1..segment /\ Len(output) = segment + 1
          /\ output[segment + 1] = ErrOut /\ \A i \in 1..segment : output[i] = q[i]
      BY <2>2, <2>5
    <3>2. \A i \in 1..(segment + 1) : i \in 1..segment \/ i = segment + 1
      BY <2>2
    <3> QED
      BY <2>3, <3>1, <3>2 DEF OutputIsWholeThenErr
  <2> QED
    BY <2>1, <2>4, <2>5
<1>3. Init => AtTheEnd
  BY DEF Init, AtTheEnd, V3!Marking
<1> QED
  BY <1>1, <1>2, <1>3, InitPool, NextPool, NextAtTheEnd, NextHanding, PTL DEF Spec

-----------------------------------------------------------------------------
(* Why a worker ends.                                                      *)

Ending ==
  /\ pc = "spawn" => wire = <<>>
  /\ pc = "panicked" => wire = <<>> \/ HasNoPlace(wire)
  /\ pc = "done" => segment > Segments \/ reported

LEMMA NextEnding == Pool /\ Flagging /\ Ending /\ [Next]_vars => Ending'
<1> SUFFICES ASSUME Pool, Flagging, Ending, [Next]_vars PROVE Ending'
  OBVIOUS
<1>1. segment \in Nat
  BY DEF Pool, V3!Pool, V3!Types
<1>2. CASE pc' \notin {"spawn", "panicked", "done"}
  BY <1>2 DEF Ending
<1>3. CASE UNCHANGED <<pc, wire, segment>> /\ (reported => reported')
  BY <1>3 DEF Ending
<1>4. CASE SpawnPool
  <2>1. pc = "spawn" /\ wire' = wire /\ pc' \in {"spawn", "check", "panicked"}
    BY <1>4 DEF SpawnPool
  <2> QED
    BY <2>1 DEF Ending
<1>5. CASE CheckFlag
  <2>1. pc' \in {"recv", "done"} /\ (pc' = "done" => cancelled) /\ reported' = reported
    BY <1>5 DEF CheckFlag, errorVars
  <2> QED
    BY <2>1 DEF Ending, Flagging
<1>6. CASE TakeSegment
  <2>1. /\ pc' \in {"done", "final", "validateFinal", "send", "validate"}
        /\ (pc' = "done" => segment > Segments /\ segment' = segment)
    BY <1>6 DEF TakeSegment
  <2> QED
    BY <2>1 DEF Ending
<1>7. CASE Validate \/ SendFrame \/ CollectClosing \/ GiveUp \/ SendFinal \/ Finish \/ Report
  <2>1. pc' \notin {"spawn", "panicked", "done"}
    BY <1>7 DEF Validate, SendFrame, CollectClosing, GiveUp, SendFinal, Finish, Deliver, Report
  <2> QED
    BY <1>2, <2>1
<1>8. CASE Collect
  <2>1. /\ pc = "collect" /\ sealed # <<>> /\ sealed' = Tail(sealed)
        /\ UNCHANGED <<wire, frames, fw, job>>
        /\ pc' \in {"collect", "send", "finish", "panicked", "report"}
        /\ pc' = "panicked" => Head(sealed).type = "data" /\ Head(sealed).number \notin DOMAIN slots
    BY <1>8 DEF Collect, poolVars
  <2>2. pc' = "panicked" => HasNoPlace(wire)
    BY <2>1, V3!NoPlace, SamePlaces DEF Pool
  <2> QED
    BY <2>1, <2>2 DEF Ending
<1>9. CASE Flag \/ SendErr
  <2>1. /\ pc' \in {"sendErr", "done", "reportLast"} /\ reported' = reported
        /\ pc' = "done" => pc \in {"flag", "flagLast", "sendErr"}
    BY <1>9 DEF Flag, SendErr, errorVars
  <2> QED
    BY <2>1 DEF Ending, Flagging
<1>10. CASE \/ \E f \in FrameWorkers : FrameWorker(f)
            \/ Receive \/ LeaveReceiver \/ OthersReport \/ OthersFlag \/ UNCHANGED vars
  <2>1. UNCHANGED <<pc, wire, segment>> /\ (reported => reported')
    BY <1>10 DEF FrameWorker, TakeFrame, Seal, ReportFrame, FlagFrame, Stop, Receive, LeaveReceiver,
                 OthersReport, OthersFlag, vars, workerVars, errorVars
  <2> QED
    BY <1>3, <2>1
<1> QED
  BY <1>4, <1>5, <1>6, <1>7, <1>8, <1>9, <1>10 DEF Next, Finished, Worker, Process

\* A worker that ends before its segments leaves a message or panics: when
\* the pool could not be set up, or over a wire with a data frame its length
\* has no place for, as when any other frame is missing (encrypt.rs:124-171,
\* decrypt.rs:128-198, dec_helpers.rs:190-230).
THEOREM EndsHaveCause == Spec => []EndsWithCause
<1>1. Init => Ending
  BY DEF Init, Ending
<1>2. Init => Handing
  <2> SUFFICES ASSUME Init PROVE Handing
    OBVIOUS
  <2>1. V3!Delivered(output)
    BY DEF Init, V3!Delivered, V3!InOrder
  <2>2. \E q : V3!Delivered(q) /\ output \in {q, Append(q, ErrOut)}
    BY <2>1
  <2> QED
    BY <2>1, <2>2 DEF Handing
<1>3. Pool /\ Handing /\ Ending => EndsWithCause
  <2> SUFFICES ASSUME Pool, Handing, Ending, pc \in {"done", "panicked"},
                      \A i \in DOMAIN output : output[i].segment # Segments
               PROVE  reported \/ (pc = "panicked" /\ (wire = <<>> \/ HasNoPlace(wire)))
    BY DEF EndsWithCause, WorkerAlive
  <2>1. PICK q : V3!Delivered(q) /\ output \in {q, Append(q, ErrOut)}
    BY DEF Handing
  <2>2. segment \in Nat /\ q \in Seq(V3!Handed) /\ Len(q) = segment
    BY <2>1 DEF Pool, V3!Pool, V3!Types, V3!Delivered
  <2>3. ASSUME segment > Segments PROVE FALSE
    <3>1. Segments + 1 \in DOMAIN q /\ Segments + 1 \in DOMAIN output /\ output[Segments + 1] = q[Segments + 1]
      BY <2>1, <2>2, <2>3
    <3>2. q[Segments + 1].segment = (Segments + 1) - 1
      BY <2>1, <3>1 DEF V3!Delivered, V3!InOrder
    <3>3. (Segments + 1) - 1 = Segments
      OBVIOUS
    <3> QED
      BY <3>1, <3>2, <3>3
  <2> QED
    BY <2>3 DEF Ending
<1>4. Init => AtTheEnd
  BY DEF Init, AtTheEnd, V3!Marking
<1> QED
  BY <1>1, <1>2, <1>3, <1>4, InitPool, NextPool, InitFlagging, NextFlagging, NextAtTheEnd, NextHanding,
     NextEnding, PTL DEF Spec
=============================================================================
