---------------------------- MODULE OrderedWriter ----------------------------
(***************************************************************************)
(* The ordered writer at the end of both pipelines: segments come in the   *)
(* order the workers finish, and go out in index order.                    *)
(* OrderedEncryptedWriter and OrderedPlaintextWriter have the same state   *)
(* and the same control; only the bytes they put out differ.               *)
(*                                                                         *)
(* A segment is a record [index, kind, chunk]: kind is "final" for the     *)
(* empty segment with the FINAL_SEGMENT flag, chunk says which piece of    *)
(* the input a data segment carries.  The loop of flush_ready and of       *)
(* finish is one action per iteration, since every write may fail.         *)
(***************************************************************************)
EXTENDS Naturals, Sequences

CONSTANT NoIndex   \* final_index = None

ASSUME NoIndexAssumption == NoIndex \notin Nat

VARIABLES
  next,        \* index the output waits for
  pending,     \* BTreeMap<u32, Segment>: a function on the buffered indices
  finalIndex,  \* index of the FINAL marker once it was pushed
  written,     \* segments written to the sink, in order
  writerPc,    \* "idle", "flush" (in push), "failed" (push returned Err),
               \* "drain" (in finish), "done"
  finishOk     \* the Result of finish: "none", "ok", "missing", "io"

writerVars == <<next, pending, finalIndex, written, writerPc, finishOk>>

WriterInit ==
  /\ next = 0
  /\ pending = <<>>
  /\ finalIndex = NoIndex
  /\ written = <<>>
  /\ writerPc = "idle"
  /\ finishOk = "none"

Insert(m, s) == [i \in DOMAIN m \cup {s.index} |-> IF i = s.index THEN s ELSE m[i]]
Remove(m, i) == [j \in DOMAIN m \ {i} |-> m[j]]

\* Defect: the FINAL marker is noted but not buffered.
PushNotesFinal(s) ==
  /\ writerPc = "idle"
  /\ finalIndex' = IF s.kind = "final" THEN s.index ELSE finalIndex
  /\ pending' = IF s.kind = "final" THEN pending ELSE Insert(pending, s)
  /\ writerPc' = "flush"
  /\ UNCHANGED <<next, written, finishOk>>

\* push: note the FINAL marker, buffer the segment, enter flush_ready.
Push(s) ==
  /\ writerPc = "idle"
  /\ finalIndex' = IF s.kind = "final" THEN s.index ELSE finalIndex
  /\ pending' = Insert(pending, s)
  /\ writerPc' = "flush"
  /\ UNCHANGED <<next, written, finishOk>>

\* One iteration of the flush loop: the segment is removed, then written.
WriteNext ==
  /\ writerPc \in {"flush", "drain"}
  /\ next \in DOMAIN pending
  /\ written' = Append(written, pending[next])
  /\ pending' = Remove(pending, next)
  /\ next' = next + 1
  /\ UNCHANGED <<finalIndex, writerPc, finishOk>>

\* Defect: the index moves on past the segment that was not written.
WriteFailsSkips ==
  /\ writerPc \in {"flush", "drain"}
  /\ next \in DOMAIN pending
  /\ pending' = Remove(pending, next)
  /\ next' = next + 1
  /\ IF writerPc = "flush"
       THEN writerPc' = "failed" /\ UNCHANGED finishOk
       ELSE writerPc' = "done" /\ finishOk' = "io"
  /\ UNCHANGED <<finalIndex, written>>

\* Defect: the segment stays buffered until it was written.
WriteFailsKeeps ==
  /\ writerPc \in {"flush", "drain"}
  /\ next \in DOMAIN pending
  /\ IF writerPc = "flush"
       THEN writerPc' = "failed" /\ UNCHANGED finishOk
       ELSE writerPc' = "done" /\ finishOk' = "io"
  /\ UNCHANGED <<next, pending, finalIndex, written>>

\* write fails: the removed segment is gone and next is not advanced.
WriteFails ==
  /\ writerPc \in {"flush", "drain"}
  /\ next \in DOMAIN pending
  /\ pending' = Remove(pending, next)
  /\ IF writerPc = "flush"
       THEN writerPc' = "failed" /\ UNCHANGED finishOk
       ELSE writerPc' = "done" /\ finishOk' = "io"
  /\ UNCHANGED <<next, finalIndex, written>>

\* Defect: at most one segment is flushed per push.
PushReturnsEarly ==
  /\ writerPc = "flush"
  /\ writerPc' = "idle"
  /\ UNCHANGED <<next, pending, finalIndex, written, finishOk>>

\* push returns Ok: nothing more can be written.
PushReturns ==
  /\ writerPc = "flush"
  /\ next \notin DOMAIN pending
  /\ writerPc' = "idle"
  /\ UNCHANGED <<next, pending, finalIndex, written, finishOk>>

\* finish is called once, when the writer loop ends for whatever reason.
Finish ==
  /\ writerPc \in {"idle", "failed"}
  /\ writerPc' = "drain"
  /\ UNCHANGED <<next, pending, finalIndex, written, finishOk>>

\* Defect: the FINAL marker is not asked for.
FinishReturnsOk ==
  /\ writerPc = "drain"
  /\ next \notin DOMAIN pending
  /\ writerPc' = "done"
  /\ finishOk' = "ok"
  /\ UNCHANGED <<next, pending, finalIndex, written>>

\* finish returns: only the FINAL marker is checked, not what is pending.
FinishReturns ==
  /\ writerPc = "drain"
  /\ next \notin DOMAIN pending
  /\ writerPc' = "done"
  /\ finishOk' = IF finalIndex = NoIndex THEN "missing" ELSE "ok"
  /\ UNCHANGED <<next, pending, finalIndex, written>>

WriterStep == WriteNext \/ WriteFails \/ PushReturns \/ FinishReturns
=============================================================================
