------------------------- MODULE EncryptPipelineProofs -------------------------
(***************************************************************************)
(* Proofs about the v3 encrypt pipeline in three parts: its ordered writer *)
(* alone, its readers alone, and all of it.                                *)
(*                                                                         *)
(* The writer, for a stream of any length: it puts out a prefix of the     *)
(* stream, waits for the first missing segment only, and is complete when  *)
(* it was fed completely.  OutputIsPrefix is not inductive: a step writes  *)
(* pending[next], so what is pending must be known to be the stream's own  *)
(* segments at indices not below next.  Waiting for the first missing      *)
(* segment needs the converse, that every received segment is written or   *)
(* pending (or is the one a failed write lost).                            *)
(*                                                                         *)
(* The readers, for any number of readers of a file, chunks and places in  *)
(* the channel: they number every chunk once and close the stream with one *)
(* FINAL marker that counts them.  PoolIInv has four parts.  Leaving:      *)
(* remaining counts the readers that have not left, so the one that sees 1 *)
(* is alone.  PoolIndices: what is held or in flight has an index of its   *)
(* own below the counter.  PoolClaims: the same for the chunks.            *)
(* PoolComplete, while nothing was reported: every index drawn and every   *)
(* chunk claimed is held or in flight, so that in the end both are         *)
(* numbered by the same segments and count = Chunks.                       *)
(*                                                                         *)
(* The whole call, for any numbers of workers and any failures.  What is   *)
(* Present is between a reader and the sink.  IInv says that no two        *)
(* present segments share an index or a chunk (Numbers); that as long as   *)
(* nothing is disturbed every index drawn is present and every chunk       *)
(* claimed is too (Accounted), and a stage that has ended has left nothing *)
(* behind (Drained); and that the writer's output is in order and cannot   *)
(* have passed the FINAL marker (Ordered).  At the join all that is        *)
(* present is therefore written.  Apart and Singles add that an index is   *)
(* at one stop of the way, and once.                                       *)
(***************************************************************************)
EXTENDS EncryptPipeline, ReadersAlone, WriterAlone, FiniteSetTheorems, TLAPS

\* What is pending was received and is not written yet.
PendingAhead ==
  \A i \in DOMAIN pending : i \in next..N /\ Segment(i) \notin arriving

\* What is written was received.
WrittenReceived ==
  /\ next <= N + 1
  /\ \A i \in 0..(next - 1) : Segment(i) \notin arriving

\* What was received is written or pending, except a segment lost to a failure.
ReceivedAccounted ==
  \A i \in 0..N :
    Segment(i) \notin arriving => \/ i < next
                                  \/ i \in DOMAIN pending
                                  \/ failed /\ i = next

FailedStops ==
  failed => /\ next \notin DOMAIN pending
            /\ Segment(next) \notin arriving
            /\ writerPc \in {"failed", "drain", "done"}

Quiescent ==
  /\ writerPc = "idle" => next \notin DOMAIN pending
  /\ writerPc = "failed" => failed
  /\ finishOk = "ok" => writerPc = "done" /\ next \notin DOMAIN pending

OutputInOrder ==
  /\ Len(written) = next
  /\ \A i \in 1..Len(written) : written[i] = Segment(i - 1)

\* The inductive invariant.
FedIInv ==
  /\ WriterTypeOK
  /\ PendingAhead
  /\ WrittenReceived
  /\ ReceivedAccounted
  /\ FailedStops
  /\ Quiescent
  /\ OutputInOrder

USE StreamAssumption, NoIndexAssumption
    DEF StreamAssumption, NoIndexAssumption

\* Segments of the stream are told apart by their index.
LEMMA SegmentFacts ==
  /\ \A i \in 0..N : Segment(i) \in Stream /\ Segment(i).index = i
  /\ \A i, j \in Nat : Segment(i) = Segment(j) => i = j
  /\ \A s \in Stream : \E i \in 0..N : s = Segment(i)
<1>1. \A i \in Nat : Segment(i).index = i
  BY DEF Segment
<1> QED
  BY <1>1 DEF Stream

LEMMA FedInitIInv == FedInit => FedIInv
<1> SUFFICES ASSUME FedInit PROVE FedIInv
  OBVIOUS
<1> USE DEF FedInit, WriterInit
<1>1. written \in Seq(Stream) /\ Len(written) = 0
  OBVIOUS
<1>2. DOMAIN pending = {}
  OBVIOUS
<1>3. \A i \in 0..N : Segment(i) \in arriving
  BY SegmentFacts
<1>4. WriterTypeOK
  BY <1>1, <1>2 DEF WriterTypeOK
<1> QED
  BY <1>1, <1>2, <1>3, <1>4
  DEF FedIInv, PendingAhead, WrittenReceived, ReceivedAccounted, FailedStops,
      Quiescent, OutputInOrder

\* Receiving a segment preserves the invariant.
LEMMA ReceiveIInv == ASSUME NEW s \in arriving, FedIInv, FedReceive(s) PROVE FedIInv'
<1>0. WriterTypeOK /\ PendingAhead /\ WrittenReceived /\ ReceivedAccounted /\ FailedStops
      /\ Quiescent /\ OutputInOrder
  BY DEF FedIInv
<1>1. PICK k \in 0..N : s = Segment(k)
  BY <1>0, SegmentFacts DEF WriterTypeOK
<1>2. s.index = k /\ (s.kind = "final" => k = N)
  BY <1>1 DEF Segment
<1>3. /\ DOMAIN pending' = DOMAIN pending \cup {k}
      /\ \A i \in DOMAIN pending' : pending'[i] = Segment(i)
  BY <1>0, <1>1, <1>2 DEF WriterTypeOK, FedReceive, Push, Insert
<1>4. /\ finalIndex' \in {NoIndex, N} /\ writerPc' = "flush" /\ writerPc = "idle"
      /\ arriving' = arriving \ {Segment(k)}
      /\ UNCHANGED <<next, written, finishOk, failed>>
  BY <1>0, <1>1, <1>2 DEF WriterTypeOK, FedReceive, Push
<1>5. ~failed
  BY <1>0, <1>4 DEF FailedStops
<1>6. k \notin 0..(next - 1)
  BY <1>0, <1>1 DEF WrittenReceived
<1>7. k >= next
  BY <1>0, <1>6 DEF WriterTypeOK
<1>8. WriterTypeOK'
  BY <1>0, <1>3, <1>4 DEF WriterTypeOK
<1>9. PendingAhead'
  BY <1>0, <1>3, <1>4, <1>7, SegmentFacts DEF WriterTypeOK, PendingAhead
<1>10. WrittenReceived' /\ OutputInOrder'
  BY <1>0, <1>4 DEF WrittenReceived, OutputInOrder
<1>11. ReceivedAccounted'
  BY <1>0, <1>3, <1>4, SegmentFacts DEF ReceivedAccounted
<1>12. FailedStops' /\ Quiescent'
  BY <1>0, <1>4, <1>5 DEF FailedStops, Quiescent
<1> QED
  BY <1>8, <1>9, <1>10, <1>11, <1>12 DEF FedIInv

\* So does an iteration of the flush loop that writes.
LEMMA WriteNextIInv ==
  ASSUME FedIInv, WriteNext, UNCHANGED <<arriving, failed>> PROVE FedIInv'
<1>0. WriterTypeOK /\ PendingAhead /\ WrittenReceived /\ ReceivedAccounted /\ FailedStops
      /\ Quiescent /\ OutputInOrder
  BY DEF FedIInv
<1>1. next \in 0..N /\ pending[next] = Segment(next) /\ Segment(next) \notin arriving
  BY <1>0 DEF WriteNext, WriterTypeOK, PendingAhead
<1>2. ~failed
  BY <1>0 DEF WriteNext, FailedStops
<1>3. /\ DOMAIN pending' = DOMAIN pending \ {next}
      /\ \A i \in DOMAIN pending' : pending'[i] = pending[i]
  BY DEF WriteNext, Remove
<1>4. written' = Append(written, Segment(next)) /\ Segment(next) \in Stream
  BY <1>1, SegmentFacts DEF WriteNext
<1>5. /\ written' \in Seq(Stream)
      /\ Len(written') = Len(written) + 1
      /\ \A i \in 1..Len(written) : written'[i] = written[i]
      /\ written'[Len(written) + 1] = Segment(next)
  BY <1>0, <1>4 DEF WriterTypeOK
<1>6. next' = next + 1 /\ UNCHANGED <<finalIndex, writerPc, finishOk, arriving, failed>>
  BY DEF WriteNext
<1>7. WriterTypeOK'
  BY <1>0, <1>3, <1>5, <1>6 DEF WriterTypeOK
<1>8. PendingAhead' /\ WrittenReceived'
  BY <1>0, <1>1, <1>3, <1>6 DEF WriterTypeOK, PendingAhead, WrittenReceived
<1>9. ReceivedAccounted'
  BY <1>0, <1>2, <1>3, <1>6 DEF WriterTypeOK, ReceivedAccounted
<1>10. FailedStops' /\ Quiescent'
  BY <1>0, <1>2, <1>6 DEF FailedStops, Quiescent, WriteNext
<1>11. OutputInOrder'
  BY <1>0, <1>5, <1>6 DEF WriterTypeOK, OutputInOrder
<1> QED
  BY <1>7, <1>8, <1>9, <1>10, <1>11 DEF FedIInv

\* And a failed write, which loses the segment at next.
LEMMA WriteFailsIInv ==
  ASSUME FedIInv, WriteFails, failed', UNCHANGED arriving PROVE FedIInv'
<1>0. WriterTypeOK /\ PendingAhead /\ WrittenReceived /\ ReceivedAccounted /\ FailedStops
      /\ Quiescent /\ OutputInOrder
  BY DEF FedIInv
<1>1. next \in 0..N /\ Segment(next) \notin arriving
  BY <1>0 DEF WriteFails, WriterTypeOK, PendingAhead
<1>2. /\ DOMAIN pending' = DOMAIN pending \ {next}
      /\ \A i \in DOMAIN pending' : pending'[i] = pending[i]
  BY DEF WriteFails, Remove
<1>3. /\ writerPc' \in {"failed", "done"} /\ finishOk' \in {finishOk, "io"}
      /\ UNCHANGED <<next, finalIndex, written, arriving>>
      /\ finishOk # "ok"
  BY <1>0 DEF WriteFails, Quiescent
<1>4. WriterTypeOK'
  <2>1. failed' \in BOOLEAN
    BY <1>0, <1>3 DEF WriterTypeOK
  <2> QED
    BY <1>0, <1>2, <1>3, <2>1 DEF WriterTypeOK
<1>5. PendingAhead' /\ WrittenReceived' /\ ReceivedAccounted' /\ OutputInOrder'
  BY <1>0, <1>2, <1>3 DEF WriterTypeOK, PendingAhead, WrittenReceived, ReceivedAccounted, OutputInOrder
<1>6. FailedStops' /\ Quiescent'
  BY <1>0, <1>1, <1>2, <1>3 DEF FailedStops, Quiescent
<1> QED
  BY <1>4, <1>5, <1>6 DEF FedIInv

\* And the end of a push, the call of finish, and the end of finish.
LEMMA ReturnsIInv ==
  ASSUME FedIInv, PushReturns \/ Finish \/ FinishReturns, UNCHANGED <<arriving, failed>>
  PROVE  FedIInv'
<1>0. WriterTypeOK /\ PendingAhead /\ WrittenReceived /\ ReceivedAccounted /\ FailedStops
      /\ Quiescent /\ OutputInOrder
  BY DEF FedIInv
<1>1. /\ UNCHANGED <<next, pending, finalIndex, written, arriving, failed>>
      /\ <<writerPc, writerPc'>> \in {<<"flush", "idle">>, <<"idle", "drain">>,
                                      <<"failed", "drain">>, <<"drain", "done">>}
      /\ writerPc' \in {"idle", "done"} => next \notin DOMAIN pending
      /\ finishOk' \in {"none", "ok", "missing", "io"}
      /\ finishOk' # finishOk => writerPc' = "done"
  BY <1>0 DEF PushReturns, Finish, FinishReturns, WriterTypeOK
<1>2. WriterTypeOK'
  BY <1>0, <1>1 DEF WriterTypeOK
<1>3. PendingAhead' /\ WrittenReceived' /\ ReceivedAccounted' /\ OutputInOrder'
  BY <1>0, <1>1 DEF PendingAhead, WrittenReceived, ReceivedAccounted, OutputInOrder
<1>4. FailedStops' /\ Quiescent'
  BY <1>0, <1>1 DEF FailedStops, Quiescent
<1> QED
  BY <1>2, <1>3, <1>4 DEF FedIInv

LEMMA FedNextIInv == FedIInv /\ [FedNext]_fedVars => FedIInv'
<1> SUFFICES ASSUME FedIInv, [FedNext]_fedVars PROVE FedIInv'
  OBVIOUS
<1>1. CASE \E s \in arriving : FedReceive(s)
  BY <1>1, ReceiveIInv
<1>2. CASE FedStep
  <2>0. UNCHANGED arriving /\ failed' = (failed \/ WriteFails)
    BY <1>2 DEF FedStep
  <2>1. failed \in BOOLEAN /\ failed' \in BOOLEAN
    BY <2>0 DEF FedIInv, WriterTypeOK
  <2>2. CASE WriteFails
    BY <2>0, <2>2, WriteFailsIInv
  <2>3. CASE ~WriteFails
    <3>1. failed' = failed
      BY <2>0, <2>1, <2>3
    <3> QED
      BY <1>2, <2>0, <2>3, <3>1, WriteNextIInv, ReturnsIInv DEF FedStep, WriterStep
  <2> QED
    BY <2>2, <2>3
<1>3. CASE UNCHANGED fedVars
  BY <1>3 DEF fedVars, FedIInv, WriterTypeOK, PendingAhead, WrittenReceived, ReceivedAccounted,
              FailedStops, Quiescent, OutputInOrder
<1> QED
  BY <1>1, <1>2, <1>3 DEF FedNext, FedFinished

\* The strengthened invariant holds of every behaviour.
THEOREM WriterInvariant == FedSpec => []FedIInv
  BY FedInitIInv, FedNextIInv, PTL DEF FedSpec

\* Every variable of the writer keeps its type (io.rs:259-274).
THEOREM WriterTypeCorrect == FedSpec => []WriterTypeOK
<1>1. FedIInv => WriterTypeOK
  BY DEF FedIInv
<1> QED
  BY <1>1, WriterInvariant, PTL

\* For a stream of any length, in any arrival order and wherever a write
\* fails, the sink holds a prefix of the stream (io.rs:305-311).
THEOREM OutputIsAPrefix == FedSpec => []OutputIsPrefix
<1>1. FedIInv => OutputIsPrefix
  <2> SUFFICES ASSUME FedIInv PROVE OutputIsPrefix
    OBVIOUS
  <2>1. Len(written) = next /\ next \in Nat /\ next <= N + 1
    BY DEF FedIInv, WriterTypeOK, OutputInOrder, WrittenReceived
  <2> QED
    BY <2>1 DEF FedIInv, OutputInOrder, OutputIsPrefix
<1> QED
  BY <1>1, WriterInvariant, PTL

\* Between two pushes the writer waits for the first index that has not
\* arrived and for nothing else (io.rs:276-285).
THEOREM WaitsForTheFirstMissing == FedSpec => []WaitsForFirstMissing
<1>1. FedIInv => WaitsForFirstMissing
  <2> SUFFICES ASSUME FedIInv, writerPc = "idle"
               PROVE  /\ Segment(next) \in arriving \/ next = N + 1
                      /\ \A i \in 0..(next - 1) : Segment(i) \notin arriving
    BY DEF WaitsForFirstMissing
  <2>1. next \in Nat /\ next <= N + 1
    BY DEF FedIInv, WriterTypeOK, WrittenReceived
  <2>2. next \notin DOMAIN pending /\ ~failed
    BY DEF FedIInv, Quiescent, FailedStops
  <2>3. Segment(next) \in arriving \/ next = N + 1
    BY <2>1, <2>2 DEF FedIInv, ReceivedAccounted
  <2> QED
    BY <2>3 DEF FedIInv, WrittenReceived
<1> QED
  BY <1>1, WriterInvariant, PTL

\* A writer that was fed the whole stream and saw no failing write has put
\* all of it out when finish returns Ok (io.rs:287-303).
THEOREM IsCompleteWhenFed == FedSpec => []CompleteWhenFed
<1>1. FedIInv => CompleteWhenFed
  <2> SUFFICES ASSUME FedIInv, finishOk = "ok", arriving = {}, ~failed
               PROVE  Len(written) = N + 1 /\ DOMAIN pending = {}
    BY DEF CompleteWhenFed
  <2>1. next \in Nat /\ next <= N + 1
    BY DEF FedIInv, WriterTypeOK, WrittenReceived
  <2>2. next \notin DOMAIN pending
    BY DEF FedIInv, Quiescent
  <2>3. next = N + 1
    BY <2>1, <2>2 DEF FedIInv, ReceivedAccounted
  <2>4. Len(written) = N + 1
    BY <2>3 DEF FedIInv, OutputInOrder
  <2>5. \A i \in DOMAIN pending : i \in (N + 1)..N
    BY <2>3 DEF FedIInv, PendingAhead
  <2>6. (N + 1)..N = {}
    OBVIOUS
  <2> QED
    BY <2>4, <2>5, <2>6
<1> QED
  BY <1>1, WriterInvariant, PTL

\* After a failed write nothing reaches the sink any more, although finish
\* still drains the buffer (io.rs:287-294, pipeline.rs:223-238).
THEOREM NothingIsWrittenAfterFailure == FedSpec => NothingAfterFailure
<1>1. FedIInv /\ [FedNext]_fedVars => [failed => written' = written]_fedVars
  <2> SUFFICES ASSUME FedIInv, FedNext, failed PROVE written' = written
    BY DEF fedVars
  <2>1. next \notin DOMAIN pending
    BY DEF FedIInv, FailedStops
  <2> QED
    BY <2>1 DEF FedNext, FedReceive, Push, FedStep, WriterStep, WriteNext, WriteFails,
                PushReturns, FinishReturns, Finish, FedFinished, fedVars
<1> QED
  BY <1>1, WriterInvariant, PTL DEF FedSpec, NothingAfterFailure

-----------------------------------------------------------------------------

ReaderPlaces == {"unspawned", "read", "number", "check", "send", "sent", "leave",
           "last", "final", "done"}
SegmentType == [index : Nat, kind : {"data", "final"}, chunk : Nat]

PoolTypeOK ==
  /\ source = "numbered"
  /\ reader \in [Readers -> ReaderPlaces]
  /\ item \in [Readers -> SegmentType]
  /\ cursor \in Nat /\ count \in Nat /\ remaining \in Int
  /\ feed \in Seq(SegmentType) /\ received \in Seq(SegmentType)
  /\ cancelled \in BOOLEAN

Numbered(r) == reader[r] \in {"check", "send"}
Claimed(r) == reader[r] \in {"number", "check", "send"}
Left(r) == reader[r] \in {"last", "final", "done"}

\* The reader that finds one reader remaining is the last.
Leaving ==
  /\ remaining = Cardinality({r \in Readers : ~Left(r)})
  /\ \A r, q \in Readers :
       reader[r] \in {"last", "final"} /\ q # r => reader[q] = "done"

\* PoolIndices are drawn once, and the FINAL marker takes the next one.
PoolIndices ==
  /\ \A r \in Readers : Numbered(r) => item[r].index < count
  /\ \A r, q \in Readers :
       Numbered(r) /\ Numbered(q) /\ r # q => item[r].index # item[q].index
  /\ \A r \in Readers, i \in DOMAIN InFlight :
       Numbered(r) => InFlight[i].index # item[r].index
  /\ \A r \in Readers : reader[r] = "final" => item[r] = Final(count)
  /\ \A i \in DOMAIN InFlight :
       \/ InFlight[i].kind = "data" /\ InFlight[i].index < count
       \/ InFlight[i] = Final(count) /\ i = Len(InFlight) /\ FeedClosed
  /\ IndicesUnique

\* Chunks are claimed once.
PoolClaims ==
  /\ \A r \in Readers :
       Claimed(r) => /\ item[r].kind = "data"
                     /\ item[r].chunk < cursor /\ item[r].chunk < Chunks
  /\ \A r, q \in Readers :
       Claimed(r) /\ Claimed(q) /\ r # q => item[r].chunk # item[q].chunk
  /\ \A i \in Dispatched :
       /\ InFlight[i].chunk < cursor /\ InFlight[i].chunk < Chunks
       /\ \A r \in Readers : Claimed(r) => InFlight[i].chunk # item[r].chunk
       /\ \A j \in Dispatched : i # j => InFlight[i].chunk # InFlight[j].chunk

\* As long as nothing was reported nothing is missing.
PoolComplete ==
  ~cancelled =>
    /\ \A k \in Nat : k < count =>
         \/ \E i \in Dispatched : InFlight[i].index = k
         \/ \E r \in Readers : Numbered(r) /\ item[r].index = k
    /\ \A c \in Nat : c < cursor /\ c < Chunks =>
         \/ \E i \in Dispatched : InFlight[i].chunk = c
         \/ \E r \in Readers : Claimed(r) /\ item[r].chunk = c
    /\ \A r \in Readers : reader[r] = "leave" \/ Left(r) => cursor >= Chunks
    /\ FeedClosed => InFlight # <<>> /\ InFlight[Len(InFlight)] = Final(count)

\* The inductive invariant.
PoolIInv == PoolTypeOK /\ Leaving /\ PoolIndices /\ PoolClaims /\ PoolComplete

USE ChunksAssumption DEF ChunksAssumption

-----------------------------------------------------------------------------

\* What a step that changes one reader's place does to the count of those
\* that have not left.
LEMMA LeavingKept ==
  ASSUME reader \in [Readers -> ReaderPlaces], Leaving, NEW r \in Readers, NEW p \in ReaderPlaces,
         reader' = [reader EXCEPT ![r] = p], remaining' = remaining,
         ~Left(r), p \notin {"last", "final", "done"}
  PROVE  Leaving'
<1>1. {q \in Readers : ~Left(q)}' = {q \in Readers : ~Left(q)}
  BY DEF Left
<1> QED
  BY <1>1 DEF Leaving, Left

\* Only r has gone, from a place where it was not done.
Goes(r, p) ==
  /\ reader[r] # "done" /\ reader'[r] = p
  /\ Numbered(r)' <=> p \in {"check", "send"}
  /\ Claimed(r)' <=> p \in {"number", "check", "send"}
  /\ Left(r)' <=> p \in {"last", "final", "done"}
  /\ \A q \in Readers :
       q # r => /\ Numbered(q)' <=> Numbered(q)
                /\ Claimed(q)' <=> Claimed(q)
                /\ Left(q)' <=> Left(q)
                /\ reader'[q] = reader[q]
  /\ ~FeedClosed
  /\ p # "done" => ~FeedClosed'

LEMMA Moved ==
  ASSUME reader \in [Readers -> ReaderPlaces], NEW r \in Readers, NEW p \in ReaderPlaces,
         reader' = [reader EXCEPT ![r] = p], reader[r] # "done"
  PROVE  Goes(r, p)
BY DEF Numbered, Claimed, Left, FeedClosed, At, Goes

\* The reader that finds one remaining is the last, and no other one is.
LEMMA LeaveCounts ==
  ASSUME reader \in [Readers -> ReaderPlaces], Leaving, NEW r \in Readers, Leave(r)
  PROVE  /\ Leaving'
         /\ \A q \in Readers : reader[q] \notin {"last", "final"}
         /\ remaining # 1 => ~FeedClosed'
<1> DEFINE S == {q \in Readers : ~Left(q)}
           p == IF remaining = 1 THEN "last" ELSE "done"
<1>1. /\ reader[r] = "leave" /\ ~Left(r)
      /\ reader' = [reader EXCEPT ![r] = p] /\ p \in ReaderPlaces
      /\ remaining' = remaining - 1
  BY DEF Leave, At, Goto, ReaderPlaces, Left
<1>m. Goes(r, p)
  BY <1>1, Moved
<1>3. r \in S /\ IsFiniteSet(S) /\ remaining = Cardinality(S)
  <2>1. S \in SUBSET Readers
    OBVIOUS
  <2> QED
    BY <1>1, <2>1, FS_Subset, ReadersAssumption DEF Leaving, ReadersAssumption
<1>4. IsFiniteSet(S \ {r}) /\ Cardinality(S \ {r}) = remaining - 1
  BY <1>3, FS_RemoveElement
<1>5. {q \in Readers : ~Left(q)}' = S \ {r}
  BY <1>1, <1>m DEF Goes
<1>6. \A q \in Readers : reader[q] \notin {"last", "final"}
  BY <1>1 DEF Leaving
<1>7. remaining = 1 => \A q \in Readers : q # r => reader[q] = "done"
  <2> SUFFICES ASSUME remaining = 1, NEW q \in Readers, q # r
               PROVE  reader[q] = "done"
    OBVIOUS
  <2>1. S \ {r} = {}
    BY <1>4, FS_EmptySet
  <2> QED
    BY <1>6, <2>1 DEF Left
<1>8. remaining # 1 => ~FeedClosed'
  <2> SUFFICES ASSUME remaining # 1 PROVE ~FeedClosed'
    OBVIOUS
  <2>1. S \ {r} # {}
    BY <1>3, <1>4, FS_EmptySet, FS_CardinalityType
  <2>2. PICK q \in S : q # r
    BY <2>1
  <2> QED
    BY <1>m, <2>2 DEF Goes, Left, FeedClosed, At
<1> HIDE DEF S
<1>9. Leaving'
  BY <1>1, <1>4, <1>5, <1>6, <1>7, <1>m DEF Goes, Leaving
<1> QED
  BY <1>6, <1>8, <1>9

\* When spawning stops the readers not spawned are taken off the count.
LEMMA StopCounts ==
  ASSUME reader \in [Readers -> ReaderPlaces], Leaving, StopSpawning
  PROVE  /\ Leaving' /\ reader' \in [Readers -> ReaderPlaces]
         /\ remaining \in Int => remaining' \in Int
         /\ \A q \in Readers : reader[q] \notin {"last", "final"}
<1> DEFINE rest == {r \in Readers : reader[r] = "unspawned"}
           S == {r \in Readers : ~Left(r)}
<1>1. /\ rest # {}
      /\ reader' = [r \in Readers |-> IF r \in rest THEN "done" ELSE reader[r]]
      /\ remaining' = remaining - Cardinality(rest)
  BY DEF StopSpawning, At
<1>2. \A q \in Readers : /\ reader'[q] = "final" <=> reader[q] = "final"
                         /\ reader'[q] = "last" <=> reader[q] = "last"
  BY <1>1
<1>3. \A q \in Readers : reader[q] \notin {"last", "final"}
  BY <1>1 DEF Leaving
<1>4. Cardinality(rest) \in Nat
  <2>1. IsFiniteSet(rest)
    BY FS_Subset, ReadersAssumption DEF ReadersAssumption
  <2> QED
    BY <2>1, FS_CardinalityType
<1>5. reader' \in [Readers -> ReaderPlaces]
  BY <1>1 DEF ReaderPlaces
<1>6. Leaving'
  <2>1. rest \in SUBSET S /\ S \in SUBSET Readers /\ S \cap rest = rest
    BY DEF Left
  <2>2. IsFiniteSet(S)
    BY <2>1, FS_Subset, ReadersAssumption DEF ReadersAssumption
  <2>3. Cardinality(S \ rest) = Cardinality(S) - Cardinality(rest)
    BY <2>1, <2>2, FS_Difference
  <2>4. S' = S \ rest
    BY <1>1 DEF Left
  <2> HIDE DEF rest, S
  <2>5. remaining' = Cardinality(S')
    BY <1>1, <2>3, <2>4 DEF Leaving, S
  <2> QED
    BY <1>2, <1>3, <2>5 DEF Leaving, S
<1> QED
  BY <1>1, <1>3, <1>4, <1>5, <1>6

-----------------------------------------------------------------------------

\* A segment that is sent comes last in flight, and receiving moves nothing.
LEMMA SendAppends ==
  ASSUME PoolTypeOK, NEW s \in SegmentType, feed' = Append(feed, s), received' = received
  PROVE  InFlight' = Append(InFlight, s)
BY DEF PoolTypeOK, InFlight

LEMMA ReceiveMovesNothing ==
  ASSUME PoolTypeOK, PoolReceive
  PROVE  InFlight' = InFlight
BY DEF PoolTypeOK, InFlight, PoolReceive

LEMMA FlightType ==
  ASSUME PoolTypeOK
  PROVE  /\ InFlight \in Seq(SegmentType)
         /\ \A i \in DOMAIN InFlight : InFlight[i].index \in Nat /\ InFlight[i].chunk \in Nat
         /\ \A r \in Readers : item[r].index \in Nat /\ item[r].chunk \in Nat
<1>1. InFlight \in Seq(SegmentType)
  BY DEF PoolTypeOK, InFlight
<1>2. \A i \in DOMAIN InFlight : InFlight[i] \in SegmentType
  BY <1>1
<1> QED
  BY <1>1, <1>2 DEF SegmentType, PoolTypeOK

LEMMA PoolInitIInv == Sources = {"numbered"} /\ PoolInit => PoolIInv
<1> SUFFICES ASSUME Sources = {"numbered"}, PoolInit PROVE PoolIInv
  OBVIOUS
<1> USE DEF PoolInit, BaseInit, ReadersInit
<1>1. PoolTypeOK
  <2>1. Final(0) \in SegmentType
    BY DEF Final, SegmentType
  <2>2. Cardinality(Readers) \in Nat
    BY ReadersAssumption, FS_CardinalityType DEF ReadersAssumption
  <2>3. source = "numbered" /\ remaining \in Int
    BY <2>2
  <2>4. reader \in [Readers -> ReaderPlaces]
    BY DEF ReaderPlaces
  <2>5. item \in [Readers -> SegmentType]
    BY <2>1
  <2>6. feed \in Seq(SegmentType) /\ received \in Seq(SegmentType)
    OBVIOUS
  <2> QED
    BY <2>3, <2>4, <2>5, <2>6 DEF PoolTypeOK
<1>2. InFlight = <<>> /\ Dispatched = {}
  BY DEF InFlight, Dispatched
<1>3. {r \in Readers : ~Left(r)} = Readers
  BY DEF Left
<1>4. Leaving
  BY <1>3 DEF Leaving
<1>5. PoolIndices /\ PoolClaims
  BY <1>2 DEF PoolIndices, PoolClaims, Numbered, Claimed, IndicesUnique
<1>6. ~FeedClosed
  BY ReadersAssumption DEF FeedClosed, At, ReadersAssumption
<1>7. PoolComplete
  BY <1>2, <1>6 DEF PoolComplete, Left
<1> QED
  BY <1>1, <1>4, <1>5, <1>7 DEF PoolIInv

-----------------------------------------------------------------------------

\* A reader goes on or gives its segment up, and nothing else changes.
LEMMA QuietMoveKeeps ==
  ASSUME PoolIInv, NEW r \in Readers, ~Left(r), NEW p \in ReaderPlaces \ {"last", "final", "done"},
         reader' = [reader EXCEPT ![r] = p],
         UNCHANGED <<source, item, cursor, count, remaining, feed, received>>,
         p \in {"check", "send"} => Numbered(r),
         p \in {"number", "check", "send"} => Claimed(r),
         \/ cancelled' = TRUE
         \/ /\ cancelled' = cancelled /\ p # "leave"
            /\ Numbered(r) => p \in {"check", "send"}
            /\ Claimed(r) => p \in {"number", "check", "send"}
  PROVE  PoolIInv'
<1> USE DEF PoolIInv
<1>1. InFlight' = InFlight /\ Dispatched' = Dispatched
  BY DEF InFlight, Dispatched
<1>m. Goes(r, p)
  BY Moved DEF PoolTypeOK, Left
<1>2. PoolTypeOK'
  BY DEF PoolTypeOK
<1>3. Leaving'
  BY LeavingKept DEF PoolTypeOK
<1>4. PoolIndices'
  BY <1>1, <1>m DEF Goes, PoolIndices, IndicesUnique
<1>5. PoolClaims'
  BY <1>1, <1>m DEF Goes, PoolClaims
<1>6. PoolComplete'
  BY <1>1, <1>m DEF Goes, PoolComplete
<1> QED
  BY <1>2, <1>3, <1>4, <1>5, <1>6

LEMMA ClaimKeeps ==
  ASSUME PoolIInv, NEW r \in Readers, Claim(r), UNCHANGED received
  PROVE  PoolIInv'
<1> USE DEF PoolIInv
<1>1. /\ reader[r] = "read" /\ ~Left(r) /\ ~Numbered(r) /\ ~Claimed(r)
      /\ cursor' = cursor + 1
      /\ UNCHANGED <<source, count, remaining, feed, cancelled>>
  BY DEF Claim, At, Left, Numbered, Claimed, errorVars
<1>2. InFlight' = InFlight /\ Dispatched' = Dispatched
  BY <1>1 DEF InFlight, Dispatched
<1>f. /\ \A q \in Readers : Claimed(q) => item[q].chunk \in Nat /\ item[q].chunk < cursor
      /\ \A i \in Dispatched : InFlight[i].chunk \in Nat /\ InFlight[i].chunk < cursor
      /\ cursor \in Nat
  BY FlightType DEF PoolClaims, Dispatched, PoolTypeOK
<1>3. CASE cursor >= Chunks
  <2>1. reader' = [reader EXCEPT ![r] = "leave"] /\ "leave" \in ReaderPlaces /\ item' = item
    BY <1>3 DEF Claim, Goto, ReaderPlaces
  <2>m. Goes(r, "leave")
    BY <1>1, <2>1, Moved DEF PoolTypeOK
  <2>2. PoolTypeOK'
    BY <1>1, <2>1 DEF PoolTypeOK
  <2>3. Leaving'
    BY <1>1, <2>1, LeavingKept DEF PoolTypeOK
  <2>4. PoolIndices'
    BY <1>1, <1>2, <2>1, <2>m DEF Goes, PoolIndices, IndicesUnique
  <2>5. PoolClaims'
    BY <1>1, <1>2, <1>f, <2>1, <2>m DEF Goes, PoolClaims
  <2>6. PoolComplete'
    BY <1>1, <1>2, <1>3, <1>f, <2>1, <2>m DEF Goes, PoolComplete
  <2> QED
    BY <2>2, <2>3, <2>4, <2>5, <2>6
<1>4. CASE ~(cursor >= Chunks)
  <2>1. /\ reader' = [reader EXCEPT ![r] = "number"] /\ "number" \in ReaderPlaces
        /\ item' = [item EXCEPT ![r] = Data(cursor, cursor)]
    BY <1>4 DEF Claim, Goto, ReaderPlaces
  <2>2. Data(cursor, cursor) \in SegmentType /\ Data(cursor, cursor).kind = "data"
        /\ Data(cursor, cursor).chunk = cursor
    BY DEF Data, SegmentType, PoolTypeOK
  <2>m. Goes(r, "number")
    BY <1>1, <2>1, Moved DEF PoolTypeOK
  <2>3. PoolTypeOK'
    BY <1>1, <2>1, <2>2 DEF PoolTypeOK
  <2>4. Leaving'
    BY <1>1, <2>1, LeavingKept DEF PoolTypeOK
  <2>5. item'[r] = Data(cursor, cursor) /\ \A q \in Readers : q # r => item'[q] = item[q]
    BY <2>1 DEF PoolTypeOK
  <2>6. PoolIndices'
    BY <1>1, <1>2, <2>1, <2>5, <2>m DEF Goes, PoolIndices, IndicesUnique
  <2>7. cursor \in Nat /\ cursor < Chunks
    BY <1>4 DEF PoolTypeOK
  <2>8. PoolClaims'
    BY <1>1, <1>2, <1>f, <2>1, <2>2, <2>5, <2>7, <2>m DEF Goes, PoolClaims
  <2>9. PoolComplete'
    BY <1>1, <1>2, <2>1, <2>2, <2>5, <2>7, <2>m DEF Goes, PoolComplete
  <2> QED
    BY <2>3, <2>4, <2>6, <2>8, <2>9
<1> QED
  BY <1>3, <1>4

LEMMA NumberKeeps ==
  ASSUME PoolIInv, NEW r \in Readers, Number(r), UNCHANGED received
  PROVE  PoolIInv'
<1> USE DEF PoolIInv
<1>1. /\ reader[r] = "number" /\ ~Left(r) /\ ~Numbered(r) /\ Claimed(r)
      /\ reader' = [reader EXCEPT ![r] = "check"] /\ "check" \in ReaderPlaces
      /\ item' = [item EXCEPT ![r].index = count]
      /\ count' = count + 1 /\ count \in Nat
      /\ UNCHANGED <<source, cursor, remaining, feed, cancelled>>
  BY DEF Number, At, Goto, ReaderPlaces, Left, Numbered, Claimed, errorVars, PoolTypeOK
<1>2. InFlight' = InFlight /\ Dispatched' = Dispatched
  BY <1>1 DEF InFlight, Dispatched
<1>3. /\ item'[r] \in SegmentType /\ item'[r].index = count
      /\ item'[r].kind = item[r].kind /\ item'[r].chunk = item[r].chunk
      /\ \A q \in Readers : q # r => item'[q] = item[q]
  BY <1>1 DEF PoolTypeOK, SegmentType
<1>m. Goes(r, "check")
  BY <1>1, Moved DEF PoolTypeOK
<1>4. PoolTypeOK'
  BY <1>1, <1>3 DEF PoolTypeOK
<1>5. Leaving'
  BY <1>1, LeavingKept DEF PoolTypeOK
<1>6. PoolIndices'
  <2>1. \A i \in DOMAIN InFlight :
          InFlight[i].kind = "data" /\ InFlight[i].index \in Nat /\ InFlight[i].index < count
    BY <1>1, <1>m, FlightType DEF PoolIndices, Goes
  <2>2. \A q \in Readers : Numbered(q) => item[q].index \in Nat /\ item[q].index < count
    BY DEF PoolIndices, PoolTypeOK, SegmentType
  <2>3. \A q \in Readers : reader[q] # "final"
    BY <1>1 DEF Leaving
  <2> QED
    BY <1>1, <1>2, <1>3, <2>1, <2>2, <2>3, <1>m DEF Goes, PoolIndices, IndicesUnique
<1>7. PoolClaims'
  BY <1>1, <1>2, <1>3, <1>m DEF Goes, PoolClaims
<1>8. PoolComplete'
  BY <1>1, <1>2, <1>3, <1>m DEF Goes, PoolComplete
<1> QED
  BY <1>4, <1>5, <1>6, <1>7, <1>8

\* What is in flight after a send.
LEMMA Appended ==
  ASSUME PoolTypeOK, NEW s \in SegmentType, InFlight' = Append(InFlight, s)
  PROVE  /\ Len(InFlight) \in Nat /\ Len(InFlight') = Len(InFlight) + 1
         /\ DOMAIN InFlight = 1..Len(InFlight)
         /\ DOMAIN InFlight' = DOMAIN InFlight \cup {Len(InFlight) + 1}
         /\ Len(InFlight) + 1 \notin DOMAIN InFlight
         /\ \A i \in DOMAIN InFlight : InFlight'[i] = InFlight[i]
         /\ InFlight'[Len(InFlight) + 1] = s
         /\ Dispatched' = IF s.kind = "data" THEN Dispatched \cup {Len(InFlight) + 1}
                                             ELSE Dispatched
<1>1. InFlight \in Seq(SegmentType)
  BY FlightType
<1> DEFINE n == Len(InFlight)
<1>2. n \in Nat /\ DOMAIN InFlight = 1..n
  BY <1>1
<1>3. Len(InFlight') = n + 1 /\ DOMAIN InFlight' = 1..(n + 1)
  BY <1>1
<1>4. 1..(n + 1) = 1..n \cup {n + 1} /\ n + 1 \notin 1..n
  BY <1>2
<1>5. (\A i \in 1..n : InFlight'[i] = InFlight[i]) /\ InFlight'[n + 1] = s
  BY <1>1
<1>6. Dispatched' = {i \in DOMAIN InFlight' : InFlight'[i].kind = "data"}
  BY DEF Dispatched
<1>7. Dispatched = {i \in 1..n : InFlight[i].kind = "data"}
  BY <1>2 DEF Dispatched
<1> HIDE DEF n
<1>8. Dispatched' = IF s.kind = "data" THEN Dispatched \cup {n + 1} ELSE Dispatched
  BY <1>3, <1>4, <1>5, <1>6, <1>7
<1> QED
  BY <1>2, <1>3, <1>4, <1>5, <1>8 DEF n

LEMMA SendKeeps ==
  ASSUME PoolIInv, NEW r \in Readers, Send(r, TRUE), UNCHANGED received
  PROVE  PoolIInv'
<1> USE DEF PoolIInv
<1>1. /\ reader[r] = "send" /\ ~Left(r) /\ Numbered(r) /\ Claimed(r)
      /\ reader' = [reader EXCEPT ![r] = "sent"] /\ "sent" \in ReaderPlaces
      /\ UNCHANGED <<source, item, cursor, count, remaining, cancelled>>
  BY DEF Send, At, Goto, ReaderPlaces, Left, Numbered, Claimed, errorVars
<1>2. /\ item[r] \in SegmentType /\ item[r].kind = "data"
      /\ feed' = Append(feed, item[r])
  BY <1>1 DEF PoolTypeOK, PoolClaims, Send, SendTo
<1>3. InFlight' = Append(InFlight, item[r])
  BY <1>2, SendAppends
<1> DEFINE n == Len(InFlight) + 1
<1>4. /\ Len(InFlight') = n
      /\ DOMAIN InFlight' = DOMAIN InFlight \cup {n} /\ n \notin DOMAIN InFlight
      /\ \A i \in DOMAIN InFlight : InFlight'[i] = InFlight[i]
      /\ InFlight'[n] = item[r]
      /\ Dispatched' = Dispatched \cup {n}
  BY <1>2, <1>3, Appended
<1>5. Dispatched \subseteq DOMAIN InFlight
  BY DEF Dispatched
<1>m. Goes(r, "sent")
  BY <1>1, Moved DEF PoolTypeOK
<1> HIDE DEF n
<1>6. PoolTypeOK'
  BY <1>1, <1>2 DEF PoolTypeOK
<1>7. Leaving'
  BY <1>1, LeavingKept DEF PoolTypeOK
<1>8. PoolIndices'
  <2>1. \A i \in DOMAIN InFlight :
          InFlight[i].kind = "data" /\ InFlight[i].index < count
    BY <1>m DEF PoolIndices, Goes
  <2>2. \A q \in Readers : reader[q] # "final"
    BY <1>1 DEF Leaving
  <2>3. \A q \in Readers : Numbered(q)' => Numbered(q) /\ q # r
    BY <1>m DEF Goes
  <2>4. \A i, j \in DOMAIN InFlight' : i # j => InFlight'[i].index # InFlight'[j].index
    BY <1>1, <1>4 DEF PoolIndices, IndicesUnique
  <2>5. \A q \in Readers, i \in DOMAIN InFlight' :
          Numbered(q)' => InFlight'[i].index # item[q].index
    BY <1>1, <1>4, <2>3 DEF PoolIndices
  <2>6. \A i \in DOMAIN InFlight' : InFlight'[i].kind = "data" /\ InFlight'[i].index < count
    BY <1>1, <1>2, <1>4, <2>1 DEF PoolIndices
  <2>7. \A q \in Readers : reader'[q] # "final"
    BY <1>m, <2>2 DEF Goes
  <2> QED
    BY <1>1, <2>3, <2>4, <2>5, <2>6, <2>7 DEF PoolIndices, IndicesUnique
<1>9. PoolClaims'
  BY <1>1, <1>2, <1>4, <1>5, <1>m DEF Goes, PoolClaims
<1>10. PoolComplete'
  BY <1>1, <1>2, <1>4, <1>5, <1>m DEF Goes, PoolComplete
<1> QED
  BY <1>6, <1>7, <1>8, <1>9, <1>10

LEMMA LeaveKeeps ==
  ASSUME PoolIInv, NEW r \in Readers, Leave(r), UNCHANGED received
  PROVE  PoolIInv'
<1> USE DEF PoolIInv
<1> DEFINE p == IF remaining = 1 THEN "last" ELSE "done"
<1>1. /\ reader[r] = "leave" /\ ~Left(r) /\ ~Numbered(r) /\ ~Claimed(r)
      /\ reader' = [reader EXCEPT ![r] = p] /\ p \in ReaderPlaces
      /\ remaining' = remaining - 1
      /\ UNCHANGED <<source, item, cursor, count, feed, cancelled>>
  BY DEF Leave, At, Goto, ReaderPlaces, Left, Numbered, Claimed, errorVars
<1>2. InFlight' = InFlight /\ Dispatched' = Dispatched
  BY <1>1 DEF InFlight, Dispatched
<1>m. Goes(r, p)
  BY <1>1, Moved DEF PoolTypeOK
<1>4. /\ Leaving' /\ (remaining # 1 => ~FeedClosed')
      /\ \A q \in Readers : reader[q] \notin {"last", "final"}
  BY LeaveCounts DEF PoolTypeOK
<1>9. PoolTypeOK'
  BY <1>1 DEF PoolTypeOK
<1>11. PoolIndices'
  BY <1>1, <1>2, <1>4, <1>m DEF Goes, PoolIndices, IndicesUnique
<1>12. PoolClaims'
  BY <1>1, <1>2, <1>m DEF Goes, PoolClaims
<1>13. PoolComplete'
  BY <1>1, <1>2, <1>4, <1>m DEF Goes, PoolComplete
<1> QED
  BY <1>4, <1>9, <1>11, <1>12, <1>13

LEMMA LoadCountKeeps ==
  ASSUME PoolIInv, NEW r \in Readers, LoadCount(r), UNCHANGED received
  PROVE  PoolIInv'
<1> USE DEF PoolIInv
<1> DEFINE p == IF count = 0 THEN "done" ELSE "final"
<1>1. /\ reader[r] = "last" /\ Left(r) /\ ~Numbered(r) /\ ~Claimed(r)
      /\ reader' = [reader EXCEPT ![r] = p] /\ p \in ReaderPlaces
      /\ UNCHANGED <<source, cursor, count, remaining, feed>>
  BY DEF LoadCount, At, Goto, ReaderPlaces, Left, Numbered, Claimed
<1>2. IF count = 0 THEN cancelled' = TRUE /\ item' = item
                   ELSE cancelled' = cancelled /\ item' = [item EXCEPT ![r] = Final(count)]
  BY DEF LoadCount, ReportError, errorVars
<1>3. InFlight' = InFlight /\ Dispatched' = Dispatched
  BY <1>1 DEF InFlight, Dispatched
<1>m. Goes(r, p)
  BY <1>1, Moved DEF PoolTypeOK
<1>4. {q \in Readers : ~Left(q)}' = {q \in Readers : ~Left(q)}
  BY <1>1, <1>m DEF Goes
<1>5. \A q \in Readers : q # r => reader[q] = "done"
  BY <1>1 DEF Leaving
<1>6. Final(count) \in SegmentType
  BY DEF Final, SegmentType, PoolTypeOK
<1>7. /\ \A q \in Readers : q # r => item'[q] = item[q]
      /\ count # 0 => item'[r] = Final(count)
  BY <1>2 DEF PoolTypeOK
<1>8. PoolTypeOK'
  BY <1>1, <1>2, <1>6 DEF PoolTypeOK
<1>9. Leaving'
  BY <1>1, <1>4, <1>5, <1>m DEF Goes, Leaving
<1>10. PoolIndices'
  BY <1>1, <1>3, <1>5, <1>7, <1>m DEF Goes, PoolIndices, IndicesUnique
<1>11. PoolClaims'
  BY <1>1, <1>3, <1>7, <1>m DEF Goes, PoolClaims
<1>12. PoolComplete'
  BY <1>1, <1>2, <1>3, <1>7, <1>m DEF Goes, PoolComplete
<1> QED
  BY <1>8, <1>9, <1>10, <1>11, <1>12

LEMMA SendFinalKeeps ==
  ASSUME PoolIInv, NEW r \in Readers, SendFinal(r, TRUE), UNCHANGED received
  PROVE  PoolIInv'
<1> USE DEF PoolIInv
<1>1. /\ reader[r] = "final" /\ Left(r) /\ ~Numbered(r) /\ ~Claimed(r)
      /\ reader' = [reader EXCEPT ![r] = "done"] /\ "done" \in ReaderPlaces
      /\ UNCHANGED <<source, item, cursor, count, remaining, cancelled>>
  BY DEF SendFinal, At, Goto, ReaderPlaces, Left, Numbered, Claimed, errorVars
<1>2. /\ item[r] = Final(count) /\ Final(count) \in SegmentType
      /\ Final(count).kind = "final" /\ Final(count).index = count
      /\ feed' = Append(feed, Final(count))
  BY <1>1 DEF PoolTypeOK, PoolIndices, SendFinal, SendTo, Final
<1>3. InFlight' = Append(InFlight, Final(count))
  BY <1>2, SendAppends
<1> DEFINE n == Len(InFlight) + 1
<1>4. /\ Len(InFlight') = n
      /\ DOMAIN InFlight' = DOMAIN InFlight \cup {n} /\ n \notin DOMAIN InFlight
      /\ \A i \in DOMAIN InFlight : InFlight'[i] = InFlight[i]
      /\ InFlight'[n] = Final(count)
      /\ Dispatched' = Dispatched
  BY <1>2, <1>3, Appended
<1>5. Dispatched \subseteq DOMAIN InFlight
  BY DEF Dispatched
<1>m. Goes(r, "done")
  BY <1>1, Moved DEF PoolTypeOK
<1> HIDE DEF n
<1>6. PoolTypeOK'
  BY <1>1, <1>2 DEF PoolTypeOK
<1>7. \A q \in Readers : reader'[q] = "done" /\ ~Numbered(q)' /\ ~Claimed(q)'
  <2>1. \A q \in Readers : reader'[q] = "done"
    BY <1>1, <1>m DEF Goes, Leaving
  <2> QED
    BY <2>1 DEF Numbered, Claimed
<1>8. FeedClosed'
  BY <1>7 DEF FeedClosed, At
<1>9. {q \in Readers : ~Left(q)}' = {q \in Readers : ~Left(q)}
  BY <1>1, <1>m DEF Goes
<1>10. Leaving'
  BY <1>1, <1>7, <1>9 DEF Leaving
<1>11. PoolIndices'
  <2>1. \A i \in DOMAIN InFlight :
          /\ InFlight[i].kind = "data" /\ InFlight[i].index < count
          /\ InFlight[i].index \in Nat
    BY <1>m, FlightType DEF PoolIndices, Goes
  <2>2. count \in Nat
    BY DEF PoolTypeOK
  <2>3. \A i, j \in DOMAIN InFlight' : i # j => InFlight'[i].index # InFlight'[j].index
    BY <1>2, <1>4, <2>1, <2>2 DEF PoolIndices, IndicesUnique
  <2>4. \A i \in DOMAIN InFlight' :
          \/ InFlight'[i].kind = "data" /\ InFlight'[i].index < count
          \/ InFlight'[i] = Final(count) /\ i = Len(InFlight')
    BY <1>4, <2>1
  <2> QED
    BY <1>1, <1>7, <1>8, <2>3, <2>4 DEF PoolIndices, IndicesUnique
<1>12. PoolClaims'
  BY <1>1, <1>4, <1>5, <1>7 DEF PoolClaims
<1>13. PoolComplete'
  <2>1. InFlight' # <<>>
    BY <1>4
  <2>2. /\ ~cancelled => cursor >= Chunks
        /\ \A q \in Readers : Numbered(q) => FALSE
        /\ \A q \in Readers : Claimed(q) => FALSE
    BY <1>1, <1>m, <1>7 DEF PoolComplete, Goes
  <2> QED
    BY <1>1, <1>4, <1>5, <2>1, <2>2 DEF PoolComplete
<1> QED
  BY <1>6, <1>10, <1>11, <1>12, <1>13

\* The readers that are never spawned leave together, after an error.
LEMMA StopKeeps ==
  ASSUME PoolIInv, StopSpawning, UNCHANGED received
  PROVE  PoolIInv'
<1> USE DEF PoolIInv
<1> DEFINE rest == {r \in Readers : reader[r] = "unspawned"}
<1>1. /\ rest # {} /\ cancelled = TRUE
      /\ reader' = [r \in Readers |-> IF r \in rest THEN "done" ELSE reader[r]]
      /\ UNCHANGED <<source, item, cursor, count, feed, cancelled>>
  BY DEF StopSpawning, At, errorVars, PoolTypeOK
<1>2. InFlight' = InFlight /\ Dispatched' = Dispatched
  BY <1>1 DEF InFlight, Dispatched
<1>3. \A q \in Readers : /\ Numbered(q)' <=> Numbered(q)
                         /\ Claimed(q)' <=> Claimed(q)
                         /\ reader'[q] = "final" <=> reader[q] = "final"
  BY <1>1 DEF Numbered, Claimed
<1>4. ~FeedClosed
  BY <1>1 DEF FeedClosed, At
<1> HIDE DEF rest
<1>5. Leaving' /\ PoolTypeOK'
  <2>1. /\ Leaving' /\ reader' \in [Readers -> ReaderPlaces] /\ remaining' \in Int
    BY StopCounts DEF PoolTypeOK
  <2> QED
    BY <1>1, <2>1 DEF PoolTypeOK
<1>6. PoolIndices'
  BY <1>1, <1>2, <1>3, <1>4 DEF PoolIndices, IndicesUnique
<1>7. PoolClaims'
  BY <1>1, <1>2, <1>3 DEF PoolClaims
<1>8. PoolComplete'
  BY <1>1 DEF PoolComplete
<1> QED
  BY <1>5, <1>6, <1>7, <1>8

LEMMA OpenFailsKeeps ==
  ASSUME PoolIInv, OpenFails, UNCHANGED received
  PROVE  PoolIInv'
<1> USE DEF PoolIInv
<1>1. /\ \A r \in Readers : reader[r] = "unspawned"
      /\ reader' = [r \in Readers |-> "done"]
      /\ remaining' = 0 /\ cancelled' = TRUE
      /\ UNCHANGED <<source, item, cursor, count, feed>>
  BY DEF OpenFails, At, ReportError
<1>2. InFlight' = InFlight /\ Dispatched' = Dispatched
  BY <1>1 DEF InFlight, Dispatched
<1>3. \A r \in Readers : ~Numbered(r)' /\ ~Claimed(r)' /\ Left(r)' /\ reader'[r] = "done"
  BY <1>1 DEF Numbered, Claimed, Left
<1>4. ~FeedClosed
  BY <1>1, ReadersAssumption DEF FeedClosed, At, ReadersAssumption
<1>5. {r \in Readers : ~Left(r)}' = {}
  BY <1>3
<1>6. PoolTypeOK'
  BY <1>1 DEF PoolTypeOK, ReaderPlaces
<1>7. Leaving'
  BY <1>1, <1>3, <1>5, FS_EmptySet DEF Leaving
<1>8. PoolIndices'
  BY <1>1, <1>2, <1>3, <1>4 DEF PoolIndices, IndicesUnique
<1>9. PoolClaims'
  BY <1>1, <1>2, <1>3 DEF PoolClaims
<1>10. PoolComplete'
  BY <1>1 DEF PoolComplete
<1> QED
  BY <1>6, <1>7, <1>8, <1>9, <1>10

\* Nothing moves between the readers and the flight.
LEMMA IdleKeeps ==
  ASSUME PoolIInv, InFlight' = InFlight, PoolTypeOK',
         UNCHANGED <<reader, item, cursor, count, remaining>>,
         cancelled' = cancelled \/ cancelled' = TRUE
  PROVE  PoolIInv'
<1> USE DEF PoolIInv
<1>1. Dispatched' = Dispatched /\ (FeedClosed' <=> FeedClosed)
  BY DEF Dispatched, FeedClosed, At
<1>2. \A r \in Readers : /\ Numbered(r)' <=> Numbered(r)
                         /\ Claimed(r)' <=> Claimed(r)
                         /\ Left(r)' <=> Left(r)
  BY DEF Numbered, Claimed, Left
<1>3. Leaving'
  <2>1. {r \in Readers : ~Left(r)}' = {r \in Readers : ~Left(r)}
    BY <1>2
  <2> QED
    BY <2>1 DEF Leaving
<1>4. PoolIndices'
  BY <1>1, <1>2 DEF PoolIndices, IndicesUnique
<1>5. PoolClaims'
  BY <1>1, <1>2 DEF PoolClaims
<1>6. PoolComplete'
  BY <1>1, <1>2 DEF PoolComplete
<1> QED
  BY <1>3, <1>4, <1>5, <1>6

LEMMA PoolNextIInv == PoolIInv /\ [PoolNext]_poolVars => PoolIInv'
<1> SUFFICES ASSUME PoolIInv, [PoolNext]_poolVars PROVE PoolIInv'
  OBVIOUS
<1> USE DEF PoolIInv
<1>1. ASSUME NEW r \in Readers, PoolReader(r) PROVE PoolIInv'
  <2>1. CASE CheckBeforeSend(r)
    <3>1. /\ reader[r] = "check" /\ ~Left(r) /\ Numbered(r) /\ Claimed(r)
          /\ reader' = [reader EXCEPT ![r] = IF cancelled THEN "leave" ELSE "send"]
          /\ UNCHANGED <<source, item, cursor, count, remaining, feed, received, cancelled>>
      BY <1>1, <2>1 DEF CheckBeforeSend, At, Goto, Left, Numbered, Claimed, errorVars, PoolReader
    <3>2. {"leave", "send"} \subseteq ReaderPlaces \ {"last", "final", "done"}
      BY DEF ReaderPlaces
    <3>3. cancelled \in BOOLEAN
      BY DEF PoolTypeOK
    <3>4. CASE cancelled
      BY <3>1, <3>2, <3>3, <3>4, QuietMoveKeeps
    <3>5. CASE ~cancelled
      BY <3>1, <3>2, <3>3, <3>5, QuietMoveKeeps
    <3> QED
      BY <3>4, <3>5
  <2>2. CASE CheckAfterSend(r)
    <3>1. /\ reader[r] = "sent" /\ ~Left(r) /\ ~Numbered(r) /\ ~Claimed(r)
          /\ reader' = [reader EXCEPT ![r] = IF cancelled THEN "leave" ELSE "read"]
          /\ UNCHANGED <<source, item, cursor, count, remaining, feed, received, cancelled>>
      BY <1>1, <2>2 DEF CheckAfterSend, At, Goto, Left, Numbered, Claimed, errorVars, PoolReader
    <3>2. {"leave", "read"} \subseteq ReaderPlaces \ {"last", "final", "done"}
      BY DEF ReaderPlaces
    <3>3. cancelled \in BOOLEAN
      BY DEF PoolTypeOK
    <3>4. CASE cancelled
      BY <3>1, <3>2, <3>3, <3>4, QuietMoveKeeps
    <3>5. CASE ~cancelled
      BY <3>1, <3>2, <3>3, <3>5, QuietMoveKeeps
    <3> QED
      BY <3>4, <3>5
  <2>3. CASE ReadFails(r)
    <3>1. /\ reader[r] = "number" /\ ~Left(r)
          /\ reader' = [reader EXCEPT ![r] = "leave"] /\ cancelled' = TRUE
          /\ UNCHANGED <<source, item, cursor, count, remaining, feed, received>>
      BY <1>1, <2>3 DEF ReadFails, At, Goto, Left, ReportError, PoolReader
    <3>2. "leave" \in ReaderPlaces \ {"last", "final", "done"}
      BY DEF ReaderPlaces
    <3> QED
      BY <3>1, <3>2, QuietMoveKeeps
  <2>4. ~Publish(r)
    BY DEF Publish, PoolTypeOK
  <2> QED
    BY <1>1, <2>1, <2>2, <2>3, <2>4, ClaimKeeps, NumberKeeps, SendKeeps, LeaveKeeps,
       LoadCountKeeps, SendFinalKeeps
       DEF PoolReader, ReaderStep
<1>2. CASE PoolSpawner
  <2>1. ASSUME NEW r \in Readers, Spawn(r), UNCHANGED received PROVE PoolIInv'
    <3>1. /\ reader[r] = "unspawned" /\ ~Left(r) /\ ~Numbered(r) /\ ~Claimed(r)
          /\ reader' = [reader EXCEPT ![r] = "read"]
          /\ UNCHANGED <<source, item, cursor, count, remaining, feed, received, cancelled>>
      BY <2>1 DEF Spawn, At, Goto, Left, Numbered, Claimed, errorVars
    <3>2. "read" \in ReaderPlaces \ {"last", "final", "done"}
      BY DEF ReaderPlaces
    <3> QED
      BY <3>1, <3>2, QuietMoveKeeps
  <2> QED
    BY <1>2, <2>1, StopKeeps, OpenFailsKeeps DEF PoolSpawner
<1>3. CASE PoolReceive
  <2>1. InFlight' = InFlight
    BY <1>3, ReceiveMovesNothing
  <2>2. PoolTypeOK'
    <3>1. feed' \in Seq(SegmentType) /\ received' \in Seq(SegmentType)
      BY <1>3 DEF PoolReceive, PoolTypeOK
    <3> QED
      BY <1>3, <3>1 DEF PoolReceive, PoolTypeOK, readerVars, errorVars
  <2> QED
    BY <1>3, <2>1, <2>2, IdleKeeps DEF PoolReceive, readerVars, errorVars
<1>4. CASE Cancel
  <2>1. InFlight' = InFlight /\ cancelled' = TRUE
    BY <1>4 DEF Cancel, InFlight, ReportError
  <2>2. PoolTypeOK'
    BY <1>4, <2>1 DEF Cancel, PoolTypeOK, readerVars
  <2> QED
    BY <1>4, <2>1, <2>2, IdleKeeps DEF Cancel, readerVars
<1>5. CASE UNCHANGED poolVars
  <2>1. UNCHANGED <<source, reader, item, cursor, count, remaining, feed, received, cancelled>>
    BY <1>5 DEF poolVars, readerVars, errorVars
  <2>2. InFlight' = InFlight /\ PoolTypeOK'
    BY <2>1 DEF InFlight, PoolTypeOK
  <2> QED
    BY <2>1, <2>2, IdleKeeps
<1> QED
  BY <1>1, <1>2, <1>3, <1>4, <1>5 DEF PoolNext, PoolFinished

-----------------------------------------------------------------------------

\* What is left when the readers left without an error: each index below the
\* count and each chunk is that of one segment in flight.
LEMMA Outcome ==
  ASSUME PoolIInv, FeedClosed, ~cancelled
  PROVE  /\ {InFlight[i].chunk : i \in Dispatched} = 0..(Chunks - 1)
         /\ Cardinality(Dispatched) = Chunks /\ count = Chunks
         /\ InFlight # <<>> /\ InFlight[Len(InFlight)] = Final(count)
<1> USE DEF PoolIInv
<1> DEFINE chunkOf == [i \in Dispatched |-> InFlight[i].chunk]
           indexOf == [i \in Dispatched |-> InFlight[i].index]
<1>1. count \in Nat /\ Chunks \in Nat /\ cursor \in Nat
  BY DEF PoolTypeOK
<1>2. \A r \in Readers : ~Numbered(r) /\ ~Claimed(r) /\ Left(r)
  BY DEF FeedClosed, At, Numbered, Claimed, Left
<1>3. cursor >= Chunks
  BY <1>2, ReadersAssumption DEF PoolComplete, ReadersAssumption
<1>4. \A i \in Dispatched : /\ InFlight[i].chunk \in Nat /\ InFlight[i].index \in Nat
                            /\ InFlight[i].chunk < Chunks /\ InFlight[i].index < count
  <2>1. \A i \in Dispatched : i \in DOMAIN InFlight /\ InFlight[i].kind = "data"
    BY DEF Dispatched
  <2>2. Final(count).kind = "final"
    BY DEF Final
  <2> QED
    BY <2>1, <2>2, FlightType DEF PoolClaims, PoolIndices
<1>5. chunkOf \in Bijection(Dispatched, 0..(Chunks - 1))
  <2>1. chunkOf \in [Dispatched -> 0..(Chunks - 1)]
    BY <1>1, <1>4
  <2>2. \A i, j \in Dispatched : chunkOf[i] = chunkOf[j] => i = j
    BY DEF PoolClaims
  <2>3. \A c \in 0..(Chunks - 1) : \E i \in Dispatched : chunkOf[i] = c
    BY <1>1, <1>2, <1>3 DEF PoolComplete
  <2> QED
    BY <2>1, <2>2, <2>3 DEF Bijection, Injection, Surjection, IsInjective
<1>6. indexOf \in Bijection(Dispatched, 0..(count - 1))
  <2>1. indexOf \in [Dispatched -> 0..(count - 1)]
    BY <1>1, <1>4
  <2>2. \A i, j \in Dispatched : indexOf[i] = indexOf[j] => i = j
    BY DEF PoolIndices, IndicesUnique, Dispatched
  <2>3. \A k \in 0..(count - 1) : \E i \in Dispatched : indexOf[i] = k
    BY <1>1, <1>2 DEF PoolComplete
  <2> QED
    BY <2>1, <2>2, <2>3 DEF Bijection, Injection, Surjection, IsInjective
<1>7. IsFiniteSet(Dispatched)
  <2> DEFINE n == Len(InFlight)
  <2>1. Dispatched \subseteq 1..n /\ n \in Int
    BY FlightType DEF Dispatched
  <2> HIDE DEF n
  <2>2. IsFiniteSet(1..n)
    BY <2>1, FS_Interval
  <2> QED
    BY <2>1, <2>2, FS_Subset
<1>8. Cardinality(0..(Chunks - 1)) = Cardinality(Dispatched)
  BY <1>5, <1>7, FS_Bijection DEF ExistsBijection
<1>9. Cardinality(0..(count - 1)) = Cardinality(Dispatched)
  BY <1>6, <1>7, FS_Bijection DEF ExistsBijection
<1>10. Cardinality(0..(Chunks - 1)) = Chunks /\ Cardinality(0..(count - 1)) = count
  BY <1>1, FS_Interval
<1>11. {InFlight[i].chunk : i \in Dispatched} = 0..(Chunks - 1)
  BY <1>5 DEF Bijection, Injection, Surjection
<1> QED
  BY <1>8, <1>9, <1>10, <1>11 DEF PoolComplete

\* For any number of file readers: every index is that of one segment, the
\* FINAL marker's included (readers.rs:414-432).
THEOREM IndicesAreUnique ==
  ASSUME Sources = {"numbered"}
  PROVE  PoolSpec => []IndicesUnique
<1>1. PoolIInv => IndicesUnique
  BY DEF PoolIInv, PoolIndices
<1>2. PoolInit => PoolIInv
  BY PoolInitIInv
<1> QED
  BY <1>1, <1>2, PoolNextIInv, PTL DEF PoolSpec

\* The reader that finds one reader remaining is really the last: nothing
\* follows the FINAL marker (readers.rs:195-203).
THEOREM FinalComesLast ==
  ASSUME Sources = {"numbered"}
  PROVE  PoolSpec => []FinalIsLast
<1>1. PoolIInv => FinalIsLast
  BY DEF PoolIInv, PoolIndices, FinalIsLast
<1>2. PoolInit => PoolIInv
  BY PoolInitIInv
<1> QED
  BY <1>1, <1>2, PoolNextIInv, PTL DEF PoolSpec

\* Readers that leave without an error have sent every chunk, once
\* (readers.rs:160-203, 409-432).
THEOREM EveryChunkIsSentOnce ==
  ASSUME Sources = {"numbered"}
  PROVE  PoolSpec => []EveryChunkOnce
<1>1. PoolIInv => EveryChunkOnce
  BY Outcome DEF EveryChunkOnce
<1>2. PoolInit => PoolIInv
  BY PoolInitIInv
<1> QED
  BY <1>1, <1>2, PoolNextIInv, PTL DEF PoolSpec

\* And a FINAL marker whose index is the number of chunks
\* (readers.rs:195-229).
THEOREM FinalIndexIsCount ==
  ASSUME Sources = {"numbered"}
  PROVE  PoolSpec => []FinalIndexCountsSegments
<1>1. PoolIInv => FinalIndexCountsSegments
  BY Outcome DEF FinalIndexCountsSegments
<1>2. PoolInit => PoolIInv
  BY PoolInitIInv
<1> QED
  BY <1>1, <1>2, PoolNextIInv, PTL DEF PoolSpec

-----------------------------------------------------------------------------
(* The whole pipeline.                                                     *)

\* Several readers of memory may leave the FINAL marker with an index that is
\* not the number of segments: nothing below is true of them.
MemoryHasOneReader == "memory" \in Sources => OneReader

WorkerPlaces == {"unspawned", "recv", "got", "busy", "send", "done"}
MainPlaces == {"header", "spawn", "loop", "taken", "push", "finish", "drain",
               "join", "returned"}

\* Every variable the argument uses keeps its type.
TypeOK ==
  /\ source \in Sources
  /\ reader \in [Readers -> ReaderPlaces]
  /\ item \in [Readers -> SegmentType]
  /\ cursor \in Nat /\ count \in Nat /\ remaining \in Int
  /\ feed \in Seq(SegmentType) /\ mid \in Seq(SegmentType) /\ out \in Seq(SegmentType)
  /\ worker \in [Workers -> WorkerPlaces]
  /\ work \in [Workers -> SegmentType]
  /\ main \in MainPlaces /\ taken \in SegmentType
  /\ next \in Nat /\ written \in Seq(SegmentType)
  /\ DOMAIN pending \subseteq Nat /\ \A i \in DOMAIN pending : pending[i] \in SegmentType
  /\ writerPc \in {"idle", "flush", "failed", "drain", "done"}
  /\ finishOk \in {"none", "ok", "missing", "io"}
  /\ cancelled \in BOOLEAN

In(s, channel) == \E k \in DOMAIN channel : s = channel[k]
Holding(w) == worker[w] \in {"got", "busy", "send"}
Carries(r) == reader[r] \in {"check", "send", "final"}

\* Segment s is somewhere between a compression worker and the sink.
Beyond(s) ==
  \/ In(s, mid) \/ In(s, out)
  \/ \E w \in Workers : Holding(w) /\ s = work[w]
  \/ main = "taken" /\ s = taken
  \/ In(s, written)
  \/ \E i \in DOMAIN pending : s = pending[i]

\* It has its index and is somewhere between a reader and the sink.
Present(s) ==
  \/ \E r \in Readers : Carries(r) /\ s = item[r]
  \/ In(s, feed) \/ Beyond(s)

\* All readers have left, the last one perhaps with the FINAL marker in hand.
Closing == \A r \in Readers : reader[r] \in {"final", "done"}

\* A lone reader numbers each chunk before it claims the next.
Alone ==
  OneReader =>
    \A r \in Readers :
      /\ reader[r] \in {"unspawned", "read", "check", "send", "sent"} => cursor = count
      /\ reader[r] = "number" => /\ item[r].index = count /\ item[r].chunk = count
                                 /\ cursor = count + 1

\* Indices and chunks are given to one segment each, by a lone reader the same
\* number; the FINAL marker counts the segments.
Numbers ==
  /\ \A s : Present(s) =>
       \/ s.kind = "data" /\ s.index < count /\ s.chunk < cursor /\ s.chunk < Chunks
       \/ s = Final(count) /\ Closing
  /\ \A r \in Readers : reader[r] = "final" => item[r] = Final(count)
  /\ \A s, t : Present(s) /\ Present(t) /\ s.kind = "data" /\ t.kind = "data" =>
       (s.index = t.index \/ s.chunk = t.chunk => s = t)
  /\ \A r \in Readers : reader[r] = "number" =>
       /\ item[r].kind = "data" /\ item[r].chunk < cursor /\ item[r].chunk < Chunks
       /\ \A s : Present(s) => s.chunk # item[r].chunk
       /\ \A q \in Readers : reader[q] = "number" /\ q # r => item[q].chunk # item[r].chunk
  /\ OneReader => \A s : Present(s) /\ s.kind = "data" => s.chunk = s.index

\* While nothing is disturbed nothing is missing.
Accounted ==
  Undisturbed =>
    /\ \A k \in Nat : k < count => \E s : Present(s) /\ s.kind = "data" /\ s.index = k
    /\ \A c \in Nat : c < cursor /\ c < Chunks =>
         \/ \E s : Present(s) /\ s.kind = "data" /\ s.chunk = c
         \/ \E r \in Readers : reader[r] = "number" /\ item[r].chunk = c
    /\ \A r \in Readers : reader[r] = "leave" \/ Left(r) => cursor >= Chunks
    /\ FeedClosed => Present(Final(count))

\* The writer knows of a FINAL marker only once the readers have closed the
\* stream, and puts segments out in index order.
Ordered ==
  /\ Len(written) = next
  /\ \A i \in 1..next : written[i].index = i - 1
  /\ \A i \in DOMAIN pending : pending[i].index = i
  /\ finalIndex # NoIndex => finalIndex = count /\ Closing
  /\ finishOk = "ok" => finalIndex # NoIndex /\ next \notin DOMAIN pending

\* Where the pipeline function is, and where its writer then is.
Control ==
  /\ cancelled => fatal # NoError
  /\ main \in {"header", "spawn", "loop", "taken"} => writerPc = "idle"
  /\ main = "push" => writerPc \in {"flush", "failed"}
  /\ main = "finish" => writerPc \in {"idle", "failed"} /\ (writerPc = "failed" => cancelled)
  /\ main = "drain" => writerPc \in {"drain", "done"}
  /\ main = "join" => writerPc = "done" /\ (finishOk = "ok" \/ cancelled)
  /\ writerPc # "done" => finishOk = "none"
  /\ main # "returned" => result = "pending"

\* A stage that has ended has left nothing behind it.
Drained ==
  Undisturbed =>
    /\ \A c \in Compressors : worker[c] = "done" => FeedClosed /\ feed = <<>>
    /\ \A x \in Cryptors : worker[x] = "done" => ~Live(Compressors) /\ mid = <<>>
    /\ main \in {"finish", "drain", "join"} => ~Live(Cryptors) /\ out = <<>>

\* The inductive invariant.
IInv == /\ TypeOK /\ Leaving /\ Alone /\ Numbers /\ Accounted /\ Ordered /\ Control
        /\ Drained /\ OkMeansComplete

USE WorkersAssumption, FaultsAssumption, NoErrorAssumption, NoIndexAssumption
    DEF WorkersAssumption, FaultsAssumption, NoErrorAssumption, NoIndexAssumption

-----------------------------------------------------------------------------

\* What a send adds to a channel, and what a receive takes off it.
LEMMA ChannelAppend ==
  ASSUME NEW c \in Seq(SegmentType), NEW t \in SegmentType
  PROVE  /\ Append(c, t) \in Seq(SegmentType)
         /\ \A s : In(s, Append(c, t)) <=> In(s, c) \/ s = t
<1>1. /\ Append(c, t) \in Seq(SegmentType) /\ Len(c) \in Nat
      /\ DOMAIN Append(c, t) = 1..(Len(c) + 1) /\ DOMAIN c = 1..Len(c)
      /\ \A k \in 1..Len(c) : Append(c, t)[k] = c[k]
      /\ Append(c, t)[Len(c) + 1] = t
  OBVIOUS
<1>2. \A k \in 1..(Len(c) + 1) : k \in 1..Len(c) \/ k = Len(c) + 1
  BY <1>1
<1>3. \A s : In(s, Append(c, t)) => In(s, c) \/ s = t
  BY <1>1, <1>2 DEF In
<1>4. \A s : In(s, c) \/ s = t => In(s, Append(c, t))
  BY <1>1 DEF In
<1> QED
  BY <1>1, <1>3, <1>4

LEMMA ChannelTake ==
  ASSUME NEW c \in Seq(SegmentType), c # <<>>
  PROVE  /\ Tail(c) \in Seq(SegmentType) /\ Head(c) \in SegmentType
         /\ \A s : In(s, c) <=> In(s, Tail(c)) \/ s = Head(c)
<1>1. /\ Tail(c) \in Seq(SegmentType) /\ Head(c) \in SegmentType /\ Head(c) = c[1]
      /\ Len(c) \in Nat /\ Len(c) # 0 /\ DOMAIN c = 1..Len(c)
      /\ DOMAIN Tail(c) = 1..(Len(c) - 1)
      /\ \A k \in 1..(Len(c) - 1) : Tail(c)[k] = c[k + 1]
  OBVIOUS
<1>2. \A k \in 1..Len(c) : k = 1 \/ (k - 1 \in 1..(Len(c) - 1) /\ c[k] = Tail(c)[k - 1])
  BY <1>1
<1>3. \A s : In(s, c) => In(s, Tail(c)) \/ s = Head(c)
  BY <1>1, <1>2 DEF In
<1>4. \A s : In(s, Tail(c)) \/ s = Head(c) => In(s, c)
  BY <1>1 DEF In
<1> QED
  BY <1>1, <1>3, <1>4

LEMMA EmptyChannel == \A s : ~In(s, <<>>)
BY DEF In

\* What is present is a segment.
LEMMA PresentType ==
  ASSUME TypeOK
  PROVE  \A s : Present(s) => s \in SegmentType
<1>1. \A s, c : c \in Seq(SegmentType) /\ In(s, c) => s \in SegmentType
  BY DEF In
<1> QED
  BY <1>1 DEF Present, Beyond, TypeOK

\* The flag once set stays set: a step that reports disturbs.
Reports == \E e \in FaultKinds \cup {"send", "finish", "empty"} : ReportError(e)

LEMMA ErrorsKeep ==
  ASSUME Control, cancelled \in BOOLEAN, UNCHANGED errorVars \/ Reports
  PROVE  /\ cancelled' \in BOOLEAN /\ (cancelled => cancelled')
         /\ (cancelled' => fatal' # NoError)
         /\ Reports => cancelled'
<1>1. CASE UNCHANGED errorVars /\ ~Reports
  BY <1>1 DEF errorVars, Control
<1>2. CASE Reports
  <2>1. PICK e \in FaultKinds \cup {"send", "finish", "empty"} : ReportError(e)
    BY <1>2 DEF Reports
  <2> QED
    BY <2>1 DEF ReportError, Control
<1> QED
  BY <1>1, <1>2

\* Steps of a worker or a reader leave the pipeline function alone.
LEMMA ControlKeeps ==
  ASSUME Control, cancelled \in BOOLEAN, UNCHANGED errorVars \/ Reports,
         UNCHANGED <<main, result, writerPc, finishOk>>
  PROVE  Control' /\ (Undisturbed' => Undisturbed)
<1>1. (cancelled => cancelled') /\ (cancelled' => fatal' # NoError)
  BY ErrorsKeep
<1> QED
  BY <1>1 DEF Control, Undisturbed

\* A worker's step changes the place of one worker.
LEMMA WorkerTypes ==
  ASSUME TypeOK, NEW w \in Workers, NEW p \in WorkerPlaces,
         worker' = [worker EXCEPT ![w] = p]
  PROVE  /\ worker' \in [Workers -> WorkerPlaces]
         /\ worker'[w] = p
         /\ \A v \in Workers : v # w => worker'[v] = worker[v]
         /\ Holding(w)' <=> p \in {"got", "busy", "send"}
         /\ \A v \in Workers : v # w => (Holding(v)' <=> Holding(v))
<1>1. /\ worker' \in [Workers -> WorkerPlaces]
      /\ worker'[w] = p
      /\ \A v \in Workers : v # w => worker'[v] = worker[v]
  BY DEF TypeOK
<1> QED
  BY <1>1 DEF Holding

\* The stages a thread that goes on belongs to stay as they were.
LEMMA StagesKeep ==
  ASSUME Drained, Undisturbed' => Undisturbed,
         UNCHANGED main, FeedClosed => FeedClosed',
         feed = <<>> /\ FeedClosed => feed' = <<>>,
         mid = <<>> /\ ~Live(Compressors) => mid' = <<>>,
         out = <<>> /\ ~Live(Cryptors) => out' = <<>>,
         Undisturbed' => \A w \in Workers : worker'[w] = "done" <=> worker[w] = "done"
  PROVE  Drained'
<1> SUFFICES ASSUME Undisturbed' PROVE Drained'
  BY DEF Drained
<1>1. /\ Live(Cryptors)' <=> Live(Cryptors)
      /\ Live(Compressors)' <=> Live(Compressors)
  BY DEF Live, Workers
<1>2. /\ \A c \in Compressors : worker[c] = "done" => FeedClosed /\ feed = <<>>
      /\ \A x \in Cryptors : worker[x] = "done" => ~Live(Compressors) /\ mid = <<>>
      /\ main \in {"finish", "drain", "join"} => ~Live(Cryptors) /\ out = <<>>
  BY DEF Drained
<1>3. \A c \in Compressors : worker'[c] = "done" => FeedClosed' /\ feed' = <<>>
  BY <1>2 DEF Workers
<1>4. \A x \in Cryptors : worker'[x] = "done" => ~Live(Compressors)' /\ mid' = <<>>
  BY <1>1, <1>2 DEF Workers
<1>5. main' \in {"finish", "drain", "join"} => ~Live(Cryptors)' /\ out' = <<>>
  BY <1>1, <1>2
<1> QED
  BY <1>3, <1>4, <1>5 DEF Drained

\* A step that leaves the readers alone, but for what they feed.
LEMMA ReadersKeep ==
  ASSUME UNCHANGED readerVars
  PROVE  /\ UNCHANGED <<source, reader, item, cursor, count, remaining>>
         /\ FeedClosed' <=> FeedClosed
         /\ Closing' <=> Closing
         /\ Leaving => Leaving'
         /\ Alone => Alone'
         /\ \A r \in Readers : (Carries(r)' <=> Carries(r)) /\ (Left(r)' <=> Left(r))
<1>1. UNCHANGED <<source, reader, item, cursor, count, remaining>>
  BY DEF readerVars
<1>2. \A r \in Readers : (Carries(r)' <=> Carries(r)) /\ (Left(r)' <=> Left(r))
  BY <1>1 DEF Carries, Left
<1>3. {r \in Readers : ~Left(r)}' = {r \in Readers : ~Left(r)}
  BY <1>2
<1> QED
  BY <1>1, <1>2, <1>3 DEF FeedClosed, At, Closing, Leaving, Alone

\* A step beyond the readers that moves segments, and loses one only when it
\* disturbs.
LEMMA MoveCounts ==
  ASSUME IInv, UNCHANGED readerVars, Undisturbed' => Undisturbed,
         \A s : Present(s)' => Present(s),
         Undisturbed' => \A s : Present(s) => Present(s)'
  PROVE  Leaving' /\ Alone' /\ Numbers' /\ Accounted'
<1> USE DEF IInv
<1>1. Leaving' /\ Alone'
  BY ReadersKeep
<1>2. Numbers'
  BY ReadersKeep DEF Numbers
<1>3. Accounted'
  BY ReadersKeep DEF Accounted
<1> QED
  BY <1>1, <1>2, <1>3

LEMMA MoveKeeps ==
  ASSUME IInv, TypeOK', Control', Drained', UNCHANGED readerVars,
         UNCHANGED <<next, pending, finalIndex, written, finishOk, result>>,
         Undisturbed' => Undisturbed,
         \A s : Present(s)' => Present(s),
         Undisturbed' => \A s : Present(s) => Present(s)'
  PROVE  IInv'
<1> USE DEF IInv
<1>1. Leaving' /\ Alone' /\ Numbers' /\ Accounted'
  BY MoveCounts
<1>2. Ordered'
  BY ReadersKeep DEF Ordered
<1>3. OkMeansComplete'
  BY DEF OkMeansComplete
<1> QED
  BY <1>1, <1>2, <1>3

-----------------------------------------------------------------------------
\* The workers.

\* A worker checks the flag or processes its segment: it goes on with what
\* it holds, or leaves because the pipeline is cancelled.
LEMMA HolderKeeps ==
  ASSUME IInv, NEW w \in Workers, NEW p \in {"busy", "send", "done"}, Holding(w),
         worker' = [worker EXCEPT ![w] = p], worker[w] # "done",
         p = "done" => cancelled',
         UNCHANGED errorVars \/ Reports,
         UNCHANGED <<feed, work, mid, out, mainVars, writerVars>>, UNCHANGED readerVars
  PROVE  IInv'
<1> USE DEF IInv
<1>1. UNCHANGED <<main, taken, held, result,
                  next, pending, finalIndex, written, writerPc, finishOk>>
  BY DEF mainVars, writerVars
<1>2. cancelled' \in BOOLEAN
  BY ErrorsKeep DEF TypeOK
<1>3. /\ worker' \in [Workers -> WorkerPlaces] /\ worker'[w] = p
      /\ \A v \in Workers : v # w => worker'[v] = worker[v]
      /\ Holding(w)' <=> p \in {"got", "busy", "send"}
      /\ \A v \in Workers : v # w => (Holding(v)' <=> Holding(v))
  <2>1. p \in WorkerPlaces
    BY DEF WorkerPlaces
  <2> QED
    BY <2>1, WorkerTypes
<1>4. TypeOK'
  BY <1>1, <1>2, <1>3, ReadersKeep DEF TypeOK
<1>5. Control' /\ (Undisturbed' => Undisturbed)
  BY <1>1, ControlKeeps DEF TypeOK
<1>6. Undisturbed' => p # "done"
  BY DEF Undisturbed
<1>7. Undisturbed' => \A v \in Workers : worker'[v] = "done" <=> worker[v] = "done"
  BY <1>3, <1>6
<1>8. Drained'
  BY <1>1, <1>5, <1>7, StagesKeep, ReadersKeep
<1>9. \A v \in Workers : Holding(v)' => Holding(v)
  BY <1>3
<1>10. Undisturbed' => \A v \in Workers : Holding(v) => Holding(v)'
  BY <1>3, <1>6
<1>11. \A s : Present(s)' => Present(s)
  BY <1>1, <1>9, ReadersKeep DEF Present, Beyond
<1>12. Undisturbed' => \A s : Present(s) => Present(s)'
  BY <1>1, <1>10, ReadersKeep DEF Present, Beyond
<1> QED
  BY <1>1, <1>4, <1>5, <1>8, <1>11, <1>12, MoveKeeps

LEMMA CheckKeeps ==
  ASSUME IInv, NEW w \in Workers, Check(w), UNCHANGED readerVars
  PROVE  IInv'
<1>1. Holding(w) /\ worker[w] # "done"
  BY DEF Check, Holding
<1>2. CASE cancelled
  BY <1>1, <1>2, HolderKeeps DEF Check, errorVars
<1>3. CASE ~cancelled
  BY <1>1, <1>3, HolderKeeps DEF Check, errorVars
<1> QED
  BY <1>2, <1>3

LEMMA ProcessKeeps ==
  ASSUME IInv, NEW w \in Workers, NEW fault \in FaultKinds, NEW watches,
         Process(w, fault, watches), UNCHANGED readerVars
  PROVE  IInv'
<1>1. Holding(w) /\ worker[w] # "done"
  BY DEF Process, Holding
<1>2. UNCHANGED <<feed, work, mid, out, mainVars, writerVars>>
  BY DEF Process
<1>3. CASE worker' = [worker EXCEPT ![w] = "send"] /\ UNCHANGED errorVars
  BY <1>1, <1>2, <1>3, HolderKeeps
<1>4. CASE ReportError(fault) /\ worker' = [worker EXCEPT ![w] = "done"]
  <2>1. Reports /\ cancelled'
    BY <1>4 DEF Reports, ReportError
  <2> QED
    BY <1>1, <1>2, <1>4, <2>1, HolderKeeps
<1>5. CASE cancelled /\ worker' = [worker EXCEPT ![w] = "done"] /\ UNCHANGED errorVars
  <2>1. cancelled'
    BY <1>5 DEF errorVars
  <2> QED
    BY <1>1, <1>2, <1>5, <2>1, HolderKeeps
<1> QED
  BY <1>3, <1>4, <1>5 DEF Process

\* A compression worker takes a segment, or leaves since the readers are done
\* and nothing is left.
LEMMA CompressorReceives ==
  ASSUME IInv, NEW c \in Compressors, RecvFrom(c, feed, FeedClosed),
         UNCHANGED <<errorVars, mid, out, mainVars, writerVars>>, UNCHANGED readerVars
  PROVE  IInv'
<1> USE DEF IInv
<1>0. /\ UNCHANGED <<main, taken, held, result, mid, out,
                    cancelled, next, pending, finalIndex, written, writerPc, finishOk>>
      /\ c \in Workers /\ UNCHANGED errorVars
  BY DEF mainVars, writerVars, errorVars, Workers
<1>1. Control' /\ (Undisturbed' => Undisturbed)
  BY <1>0, ControlKeeps DEF TypeOK
<1>2. CASE feed # <<>>
  <2>1. /\ work' = [work EXCEPT ![c] = Head(feed)]
        /\ worker' = [worker EXCEPT ![c] = "got"]
        /\ feed' = Tail(feed) /\ worker[c] = "recv"
    BY <1>2 DEF RecvFrom
  <2>2. /\ feed' \in Seq(SegmentType) /\ Head(feed) \in SegmentType
        /\ \A s : In(s, feed) <=> In(s, feed') \/ s = Head(feed)
    BY <1>2, <2>1, ChannelTake DEF TypeOK
  <2>3. /\ worker' \in [Workers -> WorkerPlaces] /\ worker'[c] = "got"
        /\ \A v \in Workers : v # c => worker'[v] = worker[v]
        /\ Holding(c)' /\ ~Holding(c)
        /\ \A v \in Workers : v # c => (Holding(v)' <=> Holding(v))
    BY <1>0, <2>1, WorkerTypes DEF WorkerPlaces, Holding
  <2>4. /\ work' \in [Workers -> SegmentType] /\ work'[c] = Head(feed)
        /\ \A v \in Workers : v # c => work'[v] = work[v]
    BY <1>0, <2>1, <2>2 DEF TypeOK
  <2>5. TypeOK'
    BY <1>0, <2>2, <2>3, <2>4, ReadersKeep DEF TypeOK
  <2>6. Drained'
    <3>1. \A v \in Workers : worker'[v] = "done" <=> worker[v] = "done"
      BY <2>1, <2>3
    <3> QED
      BY <1>0, <1>1, <1>2, <3>1, StagesKeep, ReadersKeep
  <2>7. \A s : (\E v \in Workers : Holding(v)' /\ s = work'[v])
                 <=> (\E v \in Workers : Holding(v) /\ s = work[v]) \/ s = Head(feed)
    BY <1>0, <2>3, <2>4
  <2>8. \A s : Present(s)' <=> Present(s)
    BY <1>0, <2>2, <2>7, ReadersKeep DEF Present, Beyond
  <2> QED
    BY <1>0, <1>1, <2>5, <2>6, <2>8, MoveKeeps
<1>3. CASE feed = <<>>
  <2>1. /\ worker' = [worker EXCEPT ![c] = "done"] /\ worker[c] = "recv"
        /\ FeedClosed /\ UNCHANGED <<work, feed>>
    BY <1>3 DEF RecvFrom
  <2>2. /\ worker' \in [Workers -> WorkerPlaces] /\ worker'[c] = "done"
        /\ \A v \in Workers : v # c => worker'[v] = worker[v]
        /\ ~Holding(c)' /\ ~Holding(c)
        /\ \A v \in Workers : v # c => (Holding(v)' <=> Holding(v))
    BY <1>0, <2>1, WorkerTypes DEF WorkerPlaces, Holding
  <2>3. TypeOK'
    BY <1>0, <2>1, <2>2, ReadersKeep DEF TypeOK
  <2>4. \A s : Present(s)' <=> Present(s)
    BY <1>0, <2>1, <2>2, ReadersKeep DEF Present, Beyond
  <2>5. Drained'
    <3> SUFFICES ASSUME Undisturbed' PROVE Drained'
      BY DEF Drained
    <3>1. FeedClosed' /\ feed' = <<>>
      BY <1>0, <1>3, <2>1, ReadersKeep
    <3>2. \A x \in Cryptors : x \in Workers /\ worker'[x] = worker[x]
      BY <2>2 DEF Workers
    <3>3. Live(Compressors)' => Live(Compressors)
      BY <2>2 DEF Live, Workers
    <3>4. Live(Cryptors)' <=> Live(Cryptors)
      BY <3>2 DEF Live
    <3> QED
      BY <1>0, <1>1, <3>1, <3>2, <3>3, <3>4 DEF Drained
  <2> QED
    BY <1>0, <1>1, <2>3, <2>4, <2>5, MoveKeeps
<1> QED
  BY <1>2, <1>3

\* So does a segment worker, of the compression workers.
LEMMA CryptorReceives ==
  ASSUME IInv, NEW x \in Cryptors, RecvFrom(x, mid, ~Live(Compressors)),
         UNCHANGED <<feed, errorVars, out, mainVars, writerVars>>, UNCHANGED readerVars
  PROVE  IInv'
<1> USE DEF IInv
<1>0. /\ UNCHANGED <<main, taken, held, result, feed, out,
                    cancelled, next, pending, finalIndex, written, writerPc, finishOk>>
      /\ x \in Workers /\ UNCHANGED errorVars
  BY DEF mainVars, writerVars, errorVars, Workers
<1>1. Control' /\ (Undisturbed' => Undisturbed)
  BY <1>0, ControlKeeps DEF TypeOK
<1>2. CASE mid # <<>>
  <2>1. /\ work' = [work EXCEPT ![x] = Head(mid)]
        /\ worker' = [worker EXCEPT ![x] = "got"]
        /\ mid' = Tail(mid) /\ worker[x] = "recv"
    BY <1>2 DEF RecvFrom
  <2>2. /\ mid' \in Seq(SegmentType) /\ Head(mid) \in SegmentType
        /\ \A s : In(s, mid) <=> In(s, mid') \/ s = Head(mid)
    BY <1>2, <2>1, ChannelTake DEF TypeOK
  <2>3. /\ worker' \in [Workers -> WorkerPlaces] /\ worker'[x] = "got"
        /\ \A v \in Workers : v # x => worker'[v] = worker[v]
        /\ Holding(x)' /\ ~Holding(x)
        /\ \A v \in Workers : v # x => (Holding(v)' <=> Holding(v))
    BY <1>0, <2>1, WorkerTypes DEF WorkerPlaces, Holding
  <2>4. /\ work' \in [Workers -> SegmentType] /\ work'[x] = Head(mid)
        /\ \A v \in Workers : v # x => work'[v] = work[v]
    BY <1>0, <2>1, <2>2 DEF TypeOK
  <2>5. TypeOK'
    BY <1>0, <2>2, <2>3, <2>4, ReadersKeep DEF TypeOK
  <2>6. Drained'
    <3>1. \A v \in Workers : worker'[v] = "done" <=> worker[v] = "done"
      BY <2>1, <2>3
    <3> QED
      BY <1>0, <1>1, <1>2, <3>1, StagesKeep, ReadersKeep
  <2>7. \A s : (\E v \in Workers : Holding(v)' /\ s = work'[v])
                 <=> (\E v \in Workers : Holding(v) /\ s = work[v]) \/ s = Head(mid)
    BY <1>0, <2>3, <2>4
  <2>8. \A s : Present(s)' <=> Present(s)
    BY <1>0, <2>2, <2>7, ReadersKeep DEF Present, Beyond
  <2> QED
    BY <1>0, <1>1, <2>5, <2>6, <2>8, MoveKeeps
<1>3. CASE mid = <<>>
  <2>1. /\ worker' = [worker EXCEPT ![x] = "done"] /\ worker[x] = "recv"
        /\ ~Live(Compressors) /\ UNCHANGED <<work, mid>>
    BY <1>3 DEF RecvFrom
  <2>2. /\ worker' \in [Workers -> WorkerPlaces] /\ worker'[x] = "done"
        /\ \A v \in Workers : v # x => worker'[v] = worker[v]
        /\ ~Holding(x)' /\ ~Holding(x)
        /\ \A v \in Workers : v # x => (Holding(v)' <=> Holding(v))
    BY <1>0, <2>1, WorkerTypes DEF WorkerPlaces, Holding
  <2>3. TypeOK'
    BY <1>0, <2>1, <2>2, ReadersKeep DEF TypeOK
  <2>4. \A s : Present(s)' <=> Present(s)
    BY <1>0, <2>1, <2>2, ReadersKeep DEF Present, Beyond
  <2>5. Drained'
    <3> SUFFICES ASSUME Undisturbed' PROVE Drained'
      BY DEF Drained
    <3>1. \A c \in Compressors : c \in Workers /\ c # x
      BY DEF Workers
    <3>2. \A c \in Compressors : worker'[c] = worker[c]
      BY <2>2, <3>1
    <3>3. Live(Compressors)' <=> Live(Compressors)
      BY <3>2 DEF Live
    <3>4. Live(Cryptors)' => Live(Cryptors)
      BY <2>2 DEF Live, Workers
    <3>5. ~Live(Compressors)' /\ mid' = <<>>
      BY <1>3, <2>1, <3>3
    <3> QED
      BY <1>0, <1>1, <3>2, <3>4, <3>5, ReadersKeep DEF Drained
  <2> QED
    BY <1>0, <1>1, <2>3, <2>4, <2>5, MoveKeeps
<1> QED
  BY <1>2, <1>3

\* A worker puts its segment into the channel behind its stage, which has a
\* live receiver as long as the worker is there.
LEMMA HandsOn ==
  ASSUME IInv, NEW w \in Workers, worker[w] = "send",
         worker' = [worker EXCEPT ![w] = "recv"],
         \/ mid' = Append(mid, work[w]) /\ out' = out /\ w \in Compressors
         \/ out' = Append(out, work[w]) /\ mid' = mid /\ w \in Cryptors,
         UNCHANGED errorVars, UNCHANGED readerVars,
         UNCHANGED <<feed, work, mainVars, writerVars>>
  PROVE  IInv'
<1> USE DEF IInv
<1>0. /\ UNCHANGED <<main, taken, held, result, feed, work, cancelled,
                     next, pending, finalIndex, written, writerPc, finishOk>>
      /\ Holding(w) /\ UNCHANGED errorVars
  BY DEF mainVars, writerVars, errorVars, Holding
<1>1. work[w] \in SegmentType
  BY DEF TypeOK
<1>2. /\ mid' \in Seq(SegmentType) /\ out' \in Seq(SegmentType)
      /\ \A s : In(s, mid') \/ In(s, out') <=> In(s, mid) \/ In(s, out) \/ s = work[w]
  <2>1. CASE mid' = Append(mid, work[w]) /\ out' = out
    BY <1>1, <2>1, ChannelAppend DEF TypeOK
  <2>2. CASE out' = Append(out, work[w]) /\ mid' = mid
    BY <1>1, <2>2, ChannelAppend DEF TypeOK
  <2> QED
    BY <2>1, <2>2
<1>3. /\ worker' \in [Workers -> WorkerPlaces] /\ worker'[w] = "recv"
      /\ \A v \in Workers : v # w => worker'[v] = worker[v]
      /\ ~Holding(w)'
      /\ \A v \in Workers : v # w => (Holding(v)' <=> Holding(v))
  BY WorkerTypes DEF WorkerPlaces, Holding
<1>4. TypeOK'
  BY <1>0, <1>2, <1>3, ReadersKeep DEF TypeOK
<1>5. Control' /\ (Undisturbed' => Undisturbed)
  BY <1>0, ControlKeeps DEF TypeOK
<1>6. \A s : (\E v \in Workers : Holding(v) /\ s = work[v])
               <=> (\E v \in Workers : Holding(v)' /\ s = work'[v]) \/ s = work[w]
  BY <1>0, <1>3
<1>7. \A s : Present(s)' <=> Present(s)
  BY <1>0, <1>2, <1>6, ReadersKeep DEF Present, Beyond
<1>8. Drained'
  <2>1. (w \in Compressors => Live(Compressors)) /\ (w \in Cryptors => Live(Cryptors))
    BY DEF Live
  <2>2. \A v \in Workers : worker'[v] = "done" <=> worker[v] = "done"
    BY <1>3
  <2> QED
    BY <1>0, <1>5, <2>1, <2>2, StagesKeep, ReadersKeep
<1> QED
  BY <1>0, <1>4, <1>5, <1>7, <1>8, MoveKeeps

\* A compression worker ignores that nobody receives: then its segment is
\* lost, but not while nothing is disturbed, since it is live itself.
LEMMA CompressorSends ==
  ASSUME IInv, NEW c \in Compressors, SendOn(c, mid, Open(Cryptors), TRUE),
         UNCHANGED out, UNCHANGED readerVars
  PROVE  IInv'
<1> USE DEF IInv
<1>0. /\ c \in Workers /\ worker[c] = "send" /\ worker' = [worker EXCEPT ![c] = "recv"]
      /\ UNCHANGED errorVars /\ UNCHANGED <<feed, work, mainVars, writerVars>>
  BY DEF Workers, SendOn
<1>1. CASE Open(Cryptors)
  <2>1. mid' = Append(mid, work[c])
    BY <1>1 DEF SendOn, SendTo
  <2> QED
    BY <1>0, <2>1, HandsOn
<1>2. CASE ~Open(Cryptors)
  <2>1. UNCHANGED mid
    BY <1>2 DEF SendOn, SendTo
  <2>2. ~Undisturbed
    <3>1. Live(Compressors)
      BY <1>0 DEF Live
    <3>2. PICK x \in Cryptors : worker[x] = "done"
      BY <1>2 DEF Open, Live
    <3> QED
      BY <3>1, <3>2 DEF Drained
  <2>3. /\ UNCHANGED <<main, taken, held, result, feed, work, mid, out, cancelled,
                       next, pending, finalIndex, written, writerPc, finishOk>>
        /\ ~Undisturbed'
    BY <1>0, <2>1, <2>2 DEF mainVars, writerVars, errorVars, Undisturbed
  <2>4. /\ worker' \in [Workers -> WorkerPlaces]
        /\ \A v \in Workers : Holding(v)' => Holding(v)
    BY <1>0, WorkerTypes DEF WorkerPlaces, Holding
  <2>5. TypeOK' /\ Drained'
    BY <2>3, <2>4, ReadersKeep DEF TypeOK, Drained
  <2>6. Control'
    BY <1>0, <2>3, ControlKeeps DEF TypeOK
  <2>7. \A s : Present(s)' => Present(s)
    BY <2>3, <2>4, ReadersKeep DEF Present, Beyond
  <2> QED
    BY <2>3, <2>5, <2>6, <2>7, MoveKeeps
<1> QED
  BY <1>1, <1>2

LEMMA CryptorSends ==
  ASSUME IInv, NEW x \in Cryptors, SendOn(x, out, TRUE, FALSE),
         UNCHANGED mid, UNCHANGED readerVars
  PROVE  IInv'
<1>1. /\ x \in Workers /\ worker[x] = "send" /\ worker' = [worker EXCEPT ![x] = "recv"]
      /\ UNCHANGED errorVars /\ UNCHANGED <<feed, work, mainVars, writerVars>>
      /\ out' = Append(out, work[x])
  BY DEF Workers, SendOn, SendTo
<1> QED
  BY <1>1, HandsOn

LEMMA WorkersKeep ==
  ASSUME IInv, (\E c \in Compressors : Compressor(c)) \/ (\E x \in Cryptors : Cryptor(x))
  PROVE  IInv'
<1>1. ASSUME NEW c \in Compressors, Compressor(c) PROVE IInv'
  <2>1. c \in Workers /\ "compress" \in FaultKinds
    BY DEF Workers, FaultKinds
  <2> QED
    BY <1>1, <2>1, CompressorReceives, CheckKeeps, ProcessKeeps, CompressorSends
    DEF Compressor, CompressSegment
<1>2. ASSUME NEW x \in Cryptors, Cryptor(x) PROVE IInv'
  <2>1. x \in Workers /\ "crypto" \in FaultKinds
    BY DEF Workers, FaultKinds
  <2> QED
    BY <1>2, <2>1, CryptorReceives, CheckKeeps, ProcessKeeps, CryptorSends
    DEF Cryptor, EncryptSegment
<1> QED
  BY <1>1, <1>2

-----------------------------------------------------------------------------
\* The pipeline function.

\* A step that only spawns workers leaves every segment where it is.
LEMMA SpawnsKeep ==
  ASSUME IInv, NEW stage \in {Cryptors, Compressors}, NEW before, NEW checks,
         SpawnWorkers(stage, before, checks), UNCHANGED readerVars
  PROVE  IInv'
<1> USE DEF IInv
<1>0. /\ UNCHANGED <<feed, work, mid, out, main, taken, result,
                    cancelled, next, pending, finalIndex, written, writerPc, finishOk>>
      /\ UNCHANGED errorVars /\ stage \subseteq Workers
  BY DEF SpawnWorkers, mainVars, writerVars, errorVars, Workers
<1>1. Control' /\ (Undisturbed' => Undisturbed)
  BY <1>0, ControlKeeps DEF TypeOK
<1>2. /\ worker' \in [Workers -> WorkerPlaces]
      /\ \A v \in Workers : \/ worker'[v] = worker[v]
                            \/ worker[v] = "unspawned" /\ worker'[v] = "recv"
                            \/ worker[v] = "unspawned" /\ worker'[v] = "done" /\ cancelled
  <2>1. CASE checks /\ cancelled
    BY <2>1 DEF SpawnWorkers, TypeOK, WorkerPlaces
  <2>2. CASE ~(checks /\ cancelled)
    <3>1. PICK w \in {v \in stage : worker[v] = "unspawned"} :
            worker' = [worker EXCEPT ![w] = "recv"]
      BY <2>2 DEF SpawnWorkers
    <3> QED
      BY <1>0, <3>1 DEF TypeOK, WorkerPlaces
  <2> QED
    BY <2>1, <2>2
<1>3. \A v \in Workers : Holding(v)' <=> Holding(v)
  BY <1>2 DEF Holding
<1>4. Undisturbed' => \A v \in Workers : worker'[v] = "done" <=> worker[v] = "done"
  BY <1>0, <1>2 DEF Undisturbed
<1>5. TypeOK'
  BY <1>0, <1>2, ReadersKeep DEF TypeOK
<1>6. Drained'
  BY <1>0, <1>1, <1>4, StagesKeep, ReadersKeep
<1>7. \A s : Present(s)' <=> Present(s)
  BY <1>0, <1>3, ReadersKeep DEF Present, Beyond
<1> QED
  BY <1>0, <1>1, <1>5, <1>6, <1>7, MoveKeeps

\* A step from one place to another leaves every segment where it is; the
\* loop only ends undisturbed when nothing can arrive any more.
LEMMA MainMoves ==
  ASSUME IInv, Control', cancelled' \in BOOLEAN, Undisturbed' => Undisturbed,
         writerPc' \in {"idle", "flush", "failed", "drain", "done"},
         main # "taken", main' \in MainPlaces \ {"taken"},
         \/ main \in {"finish", "drain"}
         \/ Undisturbed' /\ main' \in {"finish", "drain", "join"}
              => ~Live(Cryptors) /\ out = <<>>,
         UNCHANGED <<feed, stageVars, taken>>, UNCHANGED readerVars,
         result' = result \/ result' = "error",
         UNCHANGED <<next, pending, finalIndex, written, finishOk>>
  PROVE  IInv'
<1> USE DEF IInv
<1>0. UNCHANGED <<worker, work, mid, out>>
  BY DEF stageVars
<1>1. TypeOK'
  BY <1>0, ReadersKeep DEF TypeOK
<1>2. \A w \in Workers : Holding(w)' <=> Holding(w)
  BY <1>0 DEF Holding
<1>3. \A s : Present(s)' <=> Present(s)
  BY <1>0, <1>2, ReadersKeep DEF Present, Beyond
<1>4. Drained'
  <2>1. /\ Live(Cryptors)' <=> Live(Cryptors)
        /\ Live(Compressors)' <=> Live(Compressors)
    BY <1>0 DEF Live
  <2> QED
    BY <1>0, <2>1, ReadersKeep DEF Drained
<1>5. Leaving' /\ Alone' /\ Numbers' /\ Accounted'
  BY <1>3, MoveCounts
<1>6. Ordered' /\ OkMeansComplete'
  BY ReadersKeep DEF Ordered, OkMeansComplete
<1> QED
  BY <1>1, <1>4, <1>5, <1>6

\* The header, spawning, the end of the loop, and the calls of the writer.
LEMMA WalkKeeps ==
  ASSUME IInv, UNCHANGED readerVars,
         \/ WriteHeader \/ EnterLoop(SpawningDone) \/ LoopEnds(Cryptors)
         \/ PushOk \/ PushFailed \/ CallFinish \/ EndOfScope
         \/ PushTaken(TRUE) /\ cancelled
  PROVE  IInv'
<1> USE DEF IInv
<1>1. CASE WriteHeader \/ EnterLoop(SpawningDone) \/ LoopEnds(Cryptors)
  <2>1. /\ UNCHANGED <<feed, stageVars, taken, fatal, cancelled>>
        /\ result' = result \/ (result' = "error" /\ main' = "returned")
        /\ UNCHANGED <<next, pending, finalIndex, written, writerPc, finishOk>>
        /\ main \in {"header", "spawn", "loop"}
        /\ main' \in {"spawn", "returned", "loop", "finish"}
        /\ main' = "finish" => ~Live(Cryptors) /\ out = <<>>
    BY <1>1 DEF WriteHeader, EnterLoop, LoopEnds, writerVars, errorVars
  <2>2. Control' /\ (Undisturbed' => Undisturbed)
    BY <2>1 DEF Control, Undisturbed
  <2> QED
    BY <2>1, <2>2, MainMoves DEF TypeOK, MainPlaces
<1>2. CASE PushOk \/ CallFinish
  <2>1. /\ UNCHANGED <<feed, stageVars, taken, result, fatal, cancelled>>
        /\ UNCHANGED <<next, pending, finalIndex, written, finishOk>>
        /\ \/ main = "push" /\ main' = "loop" /\ writerPc = "flush" /\ writerPc' = "idle"
           \/ main = "finish" /\ main' = "drain" /\ writerPc' = "drain"
    BY <1>2 DEF PushOk, PushReturns, CallFinish, Finish, errorVars
  <2>2. Control' /\ (Undisturbed' => Undisturbed)
    BY <2>1 DEF Control, Undisturbed
  <2> QED
    BY <2>1, <2>2, MainMoves DEF TypeOK, MainPlaces
<1>3. CASE PushFailed
  <2>1. Reports /\ cancelled'
    BY <1>3 DEF PushFailed, Reports, ReportError, FaultKinds
  <2>2. /\ UNCHANGED <<feed, stageVars, taken, result>>
        /\ UNCHANGED <<next, pending, finalIndex, written, writerPc, finishOk>>
        /\ main = "push" /\ main' = "finish" /\ writerPc = "failed"
    BY <1>3 DEF PushFailed, writerVars
  <2>3. cancelled' \in BOOLEAN /\ (cancelled' => fatal' # NoError)
    BY <2>1, ErrorsKeep DEF TypeOK
  <2>4. Control' /\ (Undisturbed' => Undisturbed) /\ ~Undisturbed'
    BY <2>1, <2>2, <2>3 DEF Control, Undisturbed
  <2> QED
    BY <2>2, <2>3, <2>4, MainMoves DEF TypeOK, MainPlaces
<1>4. CASE EndOfScope
  <2>1. UNCHANGED errorVars \/ Reports
    BY <1>4 DEF EndOfScope, Reports
  <2>2. /\ UNCHANGED <<feed, stageVars, taken, result>>
        /\ UNCHANGED <<next, pending, finalIndex, written, writerPc, finishOk>>
        /\ main = "drain" /\ main' = "join" /\ writerPc = "done"
        /\ finishOk = "ok" \/ Reports
    BY <1>4 DEF EndOfScope, Reports, writerVars
  <2>3. /\ cancelled' \in BOOLEAN /\ (cancelled' => fatal' # NoError)
        /\ (cancelled => cancelled') /\ (Reports => cancelled')
    BY <2>1, ErrorsKeep DEF TypeOK
  <2>4. Control' /\ (Undisturbed' => Undisturbed)
    BY <2>2, <2>3 DEF Control, Undisturbed
  <2> QED
    BY <2>2, <2>3, <2>4, MainMoves DEF TypeOK, MainPlaces
<1>5. CASE PushTaken(TRUE) /\ cancelled
  <2>1. /\ UNCHANGED <<feed, worker, work, mid, out, taken, result, fatal, cancelled>>
        /\ UNCHANGED <<next, pending, finalIndex, written, writerPc, finishOk>>
        /\ main = "taken" /\ main' = "finish"
    BY <1>5 DEF PushTaken, writerVars, errorVars, stageVars
  <2>2. Control' /\ ~Undisturbed'
    BY <1>5, <2>1 DEF Control, Undisturbed
  <2>3. TypeOK'
    BY <2>1, ReadersKeep DEF TypeOK, MainPlaces
  <2>4. Drained'
    BY <2>2 DEF Drained
  <2>5. \A s : Present(s)' => Present(s)
    <3>1. \A w \in Workers : Holding(w)' <=> Holding(w)
      BY <2>1 DEF Holding
    <3> QED
      BY <2>1, <3>1, ReadersKeep DEF Present, Beyond
  <2> QED
    BY <2>1, <2>2, <2>3, <2>4, <2>5, MoveKeeps
<1> QED
  BY <1>1, <1>2, <1>3, <1>4, <1>5

\* The loop takes a segment off the channel.
LEMMA TakeKeeps ==
  ASSUME IInv, Take, UNCHANGED readerVars
  PROVE  IInv'
<1> USE DEF IInv
<1>0. /\ UNCHANGED <<feed, worker, work, mid, result, cancelled, fatal,
                    next, pending, finalIndex, written, writerPc, finishOk>>
      /\ main = "loop" /\ main' = "taken" /\ out # <<>>
      /\ taken' = Head(out) /\ out' = Tail(out)
  BY DEF Take, writerVars, errorVars
<1>1. /\ out' \in Seq(SegmentType) /\ taken' \in SegmentType
      /\ \A s : In(s, out) <=> In(s, out') \/ s = taken'
  BY <1>0, ChannelTake DEF TypeOK
<1>2. TypeOK'
  BY <1>0, <1>1, ReadersKeep DEF TypeOK, MainPlaces
<1>3. Control' /\ (Undisturbed' => Undisturbed)
  BY <1>0 DEF Control, Undisturbed
<1>4. \A w \in Workers : Holding(w)' <=> Holding(w)
  BY <1>0 DEF Holding
<1>5. \A s : Present(s)' <=> Present(s)
  BY <1>0, <1>1, <1>4, ReadersKeep DEF Present, Beyond
<1>6. Drained'
  <2>1. Live(Compressors)' <=> Live(Compressors)
    BY <1>0 DEF Live
  <2> QED
    BY <1>0, <1>3, <2>1, ReadersKeep DEF Drained
<1> QED
  BY <1>0, <1>2, <1>3, <1>5, <1>6, MoveKeeps

\* And hands it to the writer, which buffers it: no other segment has its
\* index.
LEMMA PushKeeps ==
  ASSUME IInv, PushTaken(TRUE), ~cancelled, UNCHANGED readerVars
  PROVE  IInv'
<1> USE DEF IInv
<1> DEFINE n == taken.index
<1>0. /\ UNCHANGED <<feed, worker, work, mid, out, taken, result,
                    cancelled, fatal, next, written, finishOk>>
      /\ main = "taken" /\ main' = "push" /\ writerPc = "idle" /\ writerPc' = "flush"
      /\ pending' = Insert(pending, taken)
      /\ finalIndex' = IF taken.kind = "final" THEN n ELSE finalIndex
  BY DEF PushTaken, Push, stageVars, errorVars
<1>1. Present(taken) /\ taken \in SegmentType /\ n \in Nat
  BY <1>0 DEF Present, Beyond, TypeOK, SegmentType
<1>2. taken.kind = "final" => taken = Final(count) /\ n = count /\ Closing
  BY <1>1 DEF Numbers, Final
<1>3. /\ DOMAIN pending' = DOMAIN pending \cup {n}
      /\ \A i \in DOMAIN pending' : pending'[i] = IF i = n THEN taken ELSE pending[i]
  BY <1>0 DEF Insert
<1>4. TypeOK'
  BY <1>0, <1>1, <1>3, ReadersKeep DEF TypeOK, MainPlaces
<1>5. Control' /\ (Undisturbed' => Undisturbed)
  BY <1>0 DEF Control, Undisturbed
<1>6. \A w \in Workers : Holding(w)' <=> Holding(w)
  BY <1>0 DEF Holding
<1>7. \A i \in DOMAIN pending : i = n => pending[i] = taken
  <2> SUFFICES ASSUME n \in DOMAIN pending PROVE pending[n] = taken
    OBVIOUS
  <2>1. Present(pending[n]) /\ pending[n].index = n /\ pending[n] \in SegmentType
    BY DEF Present, Beyond, Ordered, TypeOK
  <2>2. pending[n].kind \in {"data", "final"} /\ taken.kind \in {"data", "final"}
    BY <1>1, <2>1 DEF SegmentType
  <2>3. Final(count).index = count /\ Final(count).kind = "final"
    BY DEF Final
  <2>4. count \in Nat
    BY DEF TypeOK
  <2> QED
    BY <1>1, <2>1, <2>2, <2>3, <2>4 DEF Numbers
<1>8. \A s : Present(s)' <=> Present(s)
  <2>1. \A s : (\E i \in DOMAIN pending' : s = pending'[i])
                 <=> (\E i \in DOMAIN pending : s = pending[i]) \/ s = taken
    BY <1>3, <1>7
  <2> QED
    BY <1>0, <1>6, <2>1, ReadersKeep DEF Present, Beyond
<1>9. Leaving' /\ Alone' /\ Numbers' /\ Accounted'
  BY <1>5, <1>8, MoveCounts
<1>10. Ordered'
  <2>1. \A i \in DOMAIN pending' : pending'[i].index = i
    BY <1>3 DEF Ordered
  <2>2. finalIndex' # NoIndex => finalIndex' = count /\ Closing
    BY <1>0, <1>2 DEF Ordered
  <2>3. finishOk = "none"
    BY <1>0 DEF Control
  <2> QED
    BY <1>0, <2>1, <2>2, <2>3, ReadersKeep DEF Ordered
<1>11. Drained'
  <2>1. Live(Compressors)' <=> Live(Compressors)
    BY <1>0 DEF Live
  <2> QED
    BY <1>0, <1>5, <2>1, ReadersKeep DEF Drained
<1>12. OkMeansComplete'
  BY <1>0 DEF OkMeansComplete
<1> QED
  BY <1>4, <1>5, <1>9, <1>10, <1>11, <1>12

\* The writer writes what comes next, fails to, or finish returns.
LEMMA WriterKeeps ==
  ASSUME IInv, WriterRuns, UNCHANGED readerVars
  PROVE  IInv'
<1> USE DEF IInv
<1>0. /\ UNCHANGED <<feed, worker, work, mid, out, taken, result,
                    cancelled, fatal, main>>
      /\ main \in {"push", "drain"} /\ result = "pending"
  BY DEF WriterRuns, Control, stageVars, mainVars, errorVars
<1>1. \A w \in Workers : Holding(w)' <=> Holding(w)
  BY <1>0 DEF Holding
<1>2. OkMeansComplete'
  BY <1>0 DEF OkMeansComplete
<1>3. (Undisturbed' => Undisturbed) => Drained'
  <2>1. /\ Live(Cryptors)' <=> Live(Cryptors)
        /\ Live(Compressors)' <=> Live(Compressors)
    BY <1>0 DEF Live
  <2> QED
    BY <1>0, <2>1, ReadersKeep DEF Drained
<1>6. CASE WriteNext
  <2>1. /\ next \in DOMAIN pending /\ next \in Nat
        /\ pending[next] \in SegmentType /\ pending[next].index = next
        /\ UNCHANGED <<finalIndex, writerPc, finishOk>> /\ next' = next + 1
        /\ written' = Append(written, pending[next])
        /\ writerPc # "done"
    BY <1>6 DEF WriteNext, Ordered, TypeOK
  <2>2. /\ DOMAIN pending' = DOMAIN pending \ {next}
        /\ \A i \in DOMAIN pending' : pending'[i] = pending[i]
    BY <1>6 DEF WriteNext, Remove
  <2>3. /\ written' \in Seq(SegmentType)
        /\ \A s : In(s, written') <=> In(s, written) \/ s = pending[next]
    BY <2>1, ChannelAppend DEF TypeOK
  <2>4. /\ Len(written') = next + 1
        /\ \A i \in 1..next : written'[i] = written[i]
        /\ written'[next + 1] = pending[next]
    BY <2>1 DEF TypeOK, Ordered
  <2>5. TypeOK'
    BY <1>0, <2>1, <2>2, <2>3, ReadersKeep DEF TypeOK
  <2>6. Control' /\ (Undisturbed' => Undisturbed)
    BY <1>0, <2>1 DEF Control, Undisturbed
  <2>7. Ordered'
    <3>1. \A i \in 1..(next + 1) : written'[i].index = i - 1
      <4>1. \A i \in 1..(next + 1) : i \in 1..next \/ i = next + 1
        BY <2>1
      <4>2. (next + 1) - 1 = next
        BY <2>1
      <4> QED
        BY <2>1, <2>4, <4>1, <4>2 DEF Ordered
    <3>2. finishOk' # "ok"
      BY <2>1 DEF Control
    <3> QED
      BY <1>0, <2>1, <2>2, <2>4, <3>1, <3>2, ReadersKeep DEF Ordered
  <2>8. \A s : Present(s)' <=> Present(s)
    <3>1. \A s : (\E i \in DOMAIN pending' : s = pending'[i]) \/ In(s, written')
                   <=> (\E i \in DOMAIN pending : s = pending[i]) \/ In(s, written)
      BY <2>1, <2>2, <2>3
    <3> QED
      BY <1>0, <1>1, <3>1, ReadersKeep DEF Present, Beyond
  <2>9. Leaving' /\ Alone' /\ Numbers' /\ Accounted'
    BY <2>6, <2>8, MoveCounts
  <2> QED
    BY <1>2, <1>3, <2>5, <2>6, <2>7, <2>9
<1>7. CASE FinishReturns
  <2>1. /\ UNCHANGED <<next, pending, finalIndex, written>>
        /\ writerPc = "drain" /\ writerPc' = "done" /\ next \notin DOMAIN pending
        /\ finishOk' \in {"ok", "missing"} /\ (finishOk' = "ok" => finalIndex # NoIndex)
    BY <1>7 DEF FinishReturns
  <2>2. TypeOK' /\ Ordered'
    BY <1>0, <2>1, ReadersKeep DEF TypeOK, Ordered
  <2>3. Control' /\ (Undisturbed' => Undisturbed)
    BY <1>0, <2>1 DEF Control, Undisturbed
  <2>4. \A s : Present(s)' <=> Present(s)
    BY <1>0, <1>1, <2>1, ReadersKeep DEF Present, Beyond
  <2>5. Leaving' /\ Alone' /\ Numbers' /\ Accounted'
    BY <2>3, <2>4, MoveCounts
  <2> QED
    BY <1>2, <1>3, <2>2, <2>3, <2>5
<1>8. CASE WriteFails
  <2>1. /\ UNCHANGED <<next, finalIndex, written>>
        /\ DOMAIN pending' = DOMAIN pending \ {next}
        /\ \A i \in DOMAIN pending' : pending'[i] = pending[i]
        /\ \/ writerPc = "flush" /\ writerPc' = "failed" /\ UNCHANGED finishOk
           \/ writerPc = "drain" /\ writerPc' = "done" /\ finishOk' = "io"
    BY <1>8 DEF WriteFails, Remove
  <2>2. TypeOK' /\ ~Undisturbed' /\ (finishOk' = "ok" => finishOk = "ok")
    BY <1>0, <2>1, ReadersKeep DEF TypeOK, Undisturbed
  <2>3. Ordered'
    BY <1>0, <2>1, <2>2, ReadersKeep DEF Ordered
  <2>4. Control'
    BY <1>0, <2>1 DEF Control
  <2>5. \A s : Present(s)' => Present(s)
    BY <1>0, <1>1, <2>1, ReadersKeep DEF Present, Beyond
  <2>6. Leaving' /\ Alone' /\ Numbers' /\ Accounted'
    BY <2>2, <2>5, MoveCounts
  <2> QED
    BY <1>2, <1>3, <2>2, <2>3, <2>4, <2>6
<1> QED
  BY <1>6, <1>7, <1>8 DEF WriterRuns

-----------------------------------------------------------------------------
\* The readers.

\* What a reader's step leaves alone.
Downstairs == <<stageVars, mainVars, writerVars>>

LEMMA BeyondKeeps ==
  ASSUME UNCHANGED Downstairs
  PROVE  /\ \A s : Beyond(s)' <=> Beyond(s)
         /\ UNCHANGED <<worker, work, mid, out, main, taken, held, result,
                        next, pending, finalIndex, written, writerPc, finishOk>>
<1>1. UNCHANGED <<worker, work, mid, out, main, taken, held, result,
                  next, pending, finalIndex, written, writerPc, finishOk>>
  BY DEF Downstairs, stageVars, mainVars, writerVars
<1>2. \A w \in Workers : Holding(w)' <=> Holding(w)
  BY <1>1 DEF Holding
<1> QED
  BY <1>1, <1>2 DEF Beyond

\* While a reader that is not done moves, nothing changes beyond the channel
\* the readers feed.
LEMMA ReaderFrame ==
  ASSUME IInv, UNCHANGED Downstairs, UNCHANGED errorVars \/ Reports, ~FeedClosed,
         Closing => Closing' /\ count' = count
  PROVE  /\ Control' /\ Drained' /\ Ordered' /\ OkMeansComplete'
         /\ cancelled' \in BOOLEAN /\ (Undisturbed' => Undisturbed)
<1> USE DEF IInv
<1>1. UNCHANGED <<worker, work, mid, out, main, taken, result,
                  next, pending, finalIndex, written, writerPc, finishOk>>
  BY BeyondKeeps
<1>2. Control' /\ (Undisturbed' => Undisturbed) /\ cancelled' \in BOOLEAN
  BY <1>1, ControlKeeps, ErrorsKeep DEF TypeOK
<1>3. Drained'
  BY <1>1, <1>2, StagesKeep
<1>4. Ordered' /\ OkMeansComplete'
  BY <1>1 DEF Ordered, OkMeansComplete
<1> QED
  BY <1>2, <1>3, <1>4

\* A reader goes on with what it has, or leaves since the pipeline is
\* cancelled.
LEMMA ReaderWalks ==
  ASSUME IInv, NEW r \in Readers, NEW p \in ReaderPlaces,
         reader' = [reader EXCEPT ![r] = p],
         \/ <<reader[r], p>> \in {<<"unspawned", "read">>, <<"check", "send">>,
                                  <<"sent", "read">>}
         \/ p = "leave" /\ cancelled' /\ reader[r] \in {"number", "check", "sent"},
         UNCHANGED <<source, item, cursor, count, remaining, feed>>,
         UNCHANGED Downstairs, UNCHANGED errorVars \/ Reports
  PROVE  IInv'
<1> USE DEF IInv
<1>1. /\ ~Left(r) /\ reader[r] # "done" /\ p \notin {"last", "final", "done", "number"}
      /\ \/ reader[r] # "number" /\ p # "leave" /\ (Carries(r) <=> p \in {"check", "send"})
         \/ cancelled' /\ p = "leave"
  BY DEF Left, Carries
<1>2. Goes(r, p)
  BY <1>1, Moved DEF TypeOK
<1>3. /\ ~FeedClosed /\ ~Closing
      /\ \A q \in Readers : q # r => (Carries(q)' <=> Carries(q))
      /\ Carries(r)' <=> p \in {"check", "send"}
  BY <1>1, <1>2 DEF Goes, Closing, Carries, Left
<1>4. /\ Control' /\ Drained' /\ Ordered' /\ OkMeansComplete'
      /\ cancelled' \in BOOLEAN /\ (Undisturbed' => Undisturbed)
  BY <1>3, ReaderFrame
<1>5. TypeOK'
  BY <1>4, BeyondKeeps DEF TypeOK
<1>6. Leaving'
  BY <1>1, LeavingKept DEF TypeOK
<1>7. \A s : Present(s)' => Present(s)
  BY <1>1, <1>3, BeyondKeeps DEF Present
<1>8. p # "leave" => \A s : Present(s) => Present(s)'
  BY <1>1, <1>3, BeyondKeeps DEF Present
<1>9. Alone'
  BY <1>1, <1>2 DEF Goes, Alone
<1>10. Numbers'
  BY <1>1, <1>2, <1>3, <1>7 DEF Goes, Numbers
<1>11. Accounted'
  <2>1. Undisturbed' => p # "leave" /\ reader[r] # "number"
    BY <1>1 DEF Undisturbed
  <2> QED
    BY <1>1, <1>2, <1>4, <1>8, <2>1 DEF Goes, Accounted
<1> QED
  BY <1>4, <1>5, <1>6, <1>9, <1>10, <1>11

\* The next chunk is claimed: its number is above those of all others.
LEMMA ClaimCounts ==
  ASSUME MemoryHasOneReader, IInv, NEW r \in Readers, Claim(r), UNCHANGED Downstairs
  PROVE  IInv'
<1> USE DEF IInv
<1>1. /\ reader[r] = "read" /\ ~Left(r) /\ ~Carries(r)
      /\ cursor' = cursor + 1 /\ cursor \in Nat /\ count \in Nat
      /\ UNCHANGED <<source, count, remaining, feed, cancelled>> /\ UNCHANGED errorVars
  BY DEF Claim, At, Left, Carries, errorVars, TypeOK
<1>2. ~FeedClosed /\ ~Closing
  BY <1>1 DEF FeedClosed, At, Closing
<1>3. /\ Control' /\ Drained' /\ Ordered' /\ OkMeansComplete'
      /\ cancelled' \in BOOLEAN /\ (Undisturbed' => Undisturbed)
  BY <1>1, <1>2, ReaderFrame
<1>4. /\ \A s : Present(s) => s \in SegmentType /\ s.chunk \in Nat
      /\ \A q \in Readers : item[q].chunk \in Nat
  BY PresentType DEF SegmentType, TypeOK
<1>5. \A s : Present(s) => s.kind = "data" /\ s.index < count /\ s.chunk < cursor /\ s.chunk < Chunks
  BY <1>2 DEF Numbers
<1>6. CASE cursor >= Chunks
  <2>1. reader' = [reader EXCEPT ![r] = "leave"] /\ "leave" \in ReaderPlaces /\ item' = item
    BY <1>6 DEF Claim, Goto, ReaderPlaces
  <2>2. Goes(r, "leave") /\ Leaving'
    BY <1>1, <2>1, Moved, LeavingKept DEF TypeOK
  <2>3. \A q \in Readers : Carries(q)' <=> Carries(q)
    BY <1>1, <2>2 DEF Goes, Carries
  <2>4. \A s : Present(s)' <=> Present(s)
    BY <1>1, <2>1, <2>3, BeyondKeeps DEF Present
  <2>5. TypeOK'
    BY <1>1, <1>3, <2>1, BeyondKeeps DEF TypeOK
  <2>6. Alone'
    BY <1>1, <2>1, <2>2 DEF Goes, Alone, OneReader, TypeOK
  <2>7. Numbers'
    BY <1>1, <1>2, <1>4, <1>5, <2>1, <2>2, <2>4 DEF Goes, Numbers
  <2>8. Accounted'
    BY <1>1, <1>3, <1>6, <2>1, <2>2, <2>4 DEF Goes, Accounted
  <2> QED
    BY <1>3, <2>2, <2>5, <2>6, <2>7, <2>8
<1>7. CASE ~(cursor >= Chunks)
  <2>1. /\ reader' = [reader EXCEPT ![r] = "number"] /\ "number" \in ReaderPlaces
        /\ item' = [item EXCEPT ![r] = Data(cursor, cursor)] /\ cursor < Chunks
    BY <1>1, <1>7 DEF Claim, Goto, ReaderPlaces
  <2>2. Goes(r, "number") /\ Leaving'
    BY <1>1, <2>1, Moved, LeavingKept DEF TypeOK
  <2>3. /\ item'[r].kind = "data" /\ item'[r].chunk = cursor /\ item'[r].index = cursor
        /\ \A q \in Readers : q # r => item'[q] = item[q]
        /\ item' \in [Readers -> SegmentType]
    BY <1>1, <2>1 DEF Data, SegmentType, TypeOK
  <2>4. /\ \A q \in Readers : Carries(q)' <=> Carries(q)
        /\ ~Carries(r)
    BY <1>1, <2>2 DEF Goes, Carries
  <2>5. \A s : Present(s)' <=> Present(s)
    BY <1>1, <2>3, <2>4, BeyondKeeps DEF Present
  <2>6. TypeOK'
    BY <1>1, <1>3, <2>1, <2>3, BeyondKeeps DEF TypeOK
  <2>7. Alone'
    BY <1>1, <2>2, <2>3 DEF Goes, Alone, OneReader, TypeOK
  <2>8. Numbers'
    <3>1. \A q \in Readers : reader'[q] = "final" => item'[q] = Final(count')
      BY <1>1, <2>2, <2>3 DEF Goes, Numbers
    <3>2. \A q \in Readers : q # r => (reader'[q] = "number" <=> reader[q] = "number")
      BY <2>2 DEF Goes
    <3>3. \A q \in Readers : reader[q] = "number" =>
             /\ item[q].kind = "data" /\ item[q].chunk < cursor /\ item[q].chunk < Chunks
             /\ \A s : Present(s) => s.chunk # item[q].chunk
             /\ \A t \in Readers : reader[t] = "number" /\ t # q => item[t].chunk # item[q].chunk
      BY DEF Numbers
    <3>4. \A q \in Readers : reader'[q] = "number" =>
             /\ item'[q].kind = "data" /\ item'[q].chunk < cursor' /\ item'[q].chunk < Chunks
             /\ \A s : Present(s)' => s.chunk # item'[q].chunk
             /\ \A t \in Readers : reader'[t] = "number" /\ t # q => item'[t].chunk # item'[q].chunk
      BY <1>1, <1>4, <1>5, <2>1, <2>3, <2>5, <3>2, <3>3
    <3>5. \A s : Present(s)' => s.kind = "data" /\ s.index < count' /\ s.chunk < cursor' /\ s.chunk < Chunks
      BY <1>1, <1>4, <1>5, <2>5
    <3> QED
      BY <2>5, <3>1, <3>4, <3>5 DEF Numbers
  <2>9. Accounted'
    <3> SUFFICES ASSUME Undisturbed' PROVE Accounted'
      BY DEF Accounted
    <3>1. \A c \in Nat : c < cursor' /\ c < Chunks =>
             \/ \E s : Present(s)' /\ s.kind = "data" /\ s.chunk = c
             \/ \E q \in Readers : reader'[q] = "number" /\ item'[q].chunk = c
      <4> SUFFICES ASSUME NEW c \in Nat, c < cursor', c < Chunks
                   PROVE  \/ \E s : Present(s)' /\ s.kind = "data" /\ s.chunk = c
                          \/ \E q \in Readers : reader'[q] = "number" /\ item'[q].chunk = c
        OBVIOUS
      <4>1. CASE c = cursor
        BY <2>2, <2>3, <4>1 DEF Goes
      <4>2. CASE c # cursor
        <5>1. c < cursor
          BY <1>1, <4>2
        <5>2. \/ \E s : Present(s) /\ s.kind = "data" /\ s.chunk = c
              \/ \E q \in Readers : reader[q] = "number" /\ item[q].chunk = c
          BY <1>3, <5>1 DEF Accounted
        <5> QED
          BY <1>1, <2>2, <2>3, <2>5, <5>2 DEF Goes
      <4> QED
        BY <4>1, <4>2
    <3>2. \A q \in Readers : reader'[q] = "leave" \/ Left(q)' => cursor' >= Chunks
      BY <1>1, <1>3, <2>2 DEF Goes, Accounted
    <3> QED
      BY <1>1, <1>3, <2>2, <2>5, <3>1, <3>2 DEF Goes, Accounted
  <2> QED
    BY <1>3, <2>2, <2>6, <2>7, <2>8, <2>9
<1> QED
  BY <1>6, <1>7

\* A chunk gets its index, which no segment has, and becomes a segment: a lone
\* reader of memory published the number it claimed.
LEMMA NumberCounts ==
  ASSUME MemoryHasOneReader, IInv, NEW r \in Readers, Publish(r) \/ Number(r),
         UNCHANGED Downstairs
  PROVE  IInv'
<1> USE DEF IInv
<1>1. /\ reader[r] = "number" /\ ~Left(r) /\ ~Carries(r)
      /\ reader' = [reader EXCEPT ![r] = "check"] /\ "check" \in ReaderPlaces
      /\ cursor \in Nat /\ count \in Nat /\ item[r] \in SegmentType
      /\ UNCHANGED <<source, cursor, remaining, feed, cancelled>> /\ UNCHANGED errorVars
  BY DEF Publish, Number, At, Goto, Left, Carries, ReaderPlaces, errorVars, TypeOK
<1>2. /\ item' \in [Readers -> SegmentType] /\ count' = count + 1
      /\ item'[r].index = count /\ item'[r].kind = item[r].kind
      /\ item'[r].chunk = item[r].chunk
      /\ \A q \in Readers : q # r => item'[q] = item[q]
  <2>1. CASE Publish(r)
    <3>1. source = "memory" /\ item' = item /\ count' = item[r].index + 1
      BY <2>1 DEF Publish
    <3>2. item[r].index = count
      BY <1>1, <3>1 DEF Alone, MemoryHasOneReader, TypeOK
    <3> QED
      BY <3>1, <3>2 DEF TypeOK
  <2>2. CASE Number(r)
    <3>1. item' = [item EXCEPT ![r].index = count] /\ count' = count + 1
      BY <2>2 DEF Number
    <3> QED
      BY <1>1, <3>1 DEF TypeOK, SegmentType
  <2> QED
    BY <2>1, <2>2
<1>3. ~FeedClosed /\ ~Closing /\ \A q \in Readers : reader[q] # "final"
  BY <1>1 DEF FeedClosed, At, Closing, Leaving
<1>4. /\ Control' /\ Drained' /\ Ordered' /\ OkMeansComplete'
      /\ cancelled' \in BOOLEAN /\ (Undisturbed' => Undisturbed)
  BY <1>1, <1>3, ReaderFrame
<1>5. Goes(r, "check") /\ Leaving'
  BY <1>1, Moved, LeavingKept DEF TypeOK
<1>6. /\ \A q \in Readers : q # r => (Carries(q)' <=> Carries(q))
      /\ Carries(r)'
  BY <1>1, <1>5 DEF Goes, Carries
<1>7. \A s : Present(s)' <=> Present(s) \/ s = item'[r]
  BY <1>1, <1>2, <1>6, BeyondKeeps DEF Present
<1>8. /\ \A s : Present(s) => s \in SegmentType /\ s.index \in Nat /\ s.chunk \in Nat
      /\ item'[r] \in SegmentType
  BY <1>2, PresentType DEF SegmentType
<1>9. TypeOK'
  <2>1. reader' \in [Readers -> ReaderPlaces] /\ count' \in Nat
    BY <1>1, <1>2 DEF TypeOK
  <2> QED
    BY <1>1, <1>2, <1>4, <2>1, BeyondKeeps DEF TypeOK
<1>10. Alone'
  BY <1>1, <1>2, <1>5 DEF Goes, Alone, OneReader, TypeOK
<1>11. /\ item[r].kind = "data" /\ item[r].chunk < cursor /\ item[r].chunk < Chunks
       /\ \A s : Present(s) => /\ s.chunk # item[r].chunk
                               /\ s.kind = "data" /\ s.index < count
                               /\ s.chunk < cursor /\ s.chunk < Chunks
  BY <1>1, <1>3 DEF Numbers
<1>12. Numbers'
  <2>1. \A s : Present(s)' => s.kind = "data" /\ s.index < count' /\ s.chunk < cursor' /\ s.chunk < Chunks
    BY <1>1, <1>2, <1>7, <1>8, <1>11
  <2>2. \A q \in Readers : reader'[q] # "final"
    BY <1>3, <1>5 DEF Goes
  <2>3. \A s, t : Present(s)' /\ Present(t)' /\ (s.index = t.index \/ s.chunk = t.chunk) => s = t
    <3>1. \A s, t : Present(s) /\ Present(t) /\ (s.index = t.index \/ s.chunk = t.chunk) => s = t
      BY <1>11 DEF Numbers
    <3>2. \A s : Present(s) => s.index # item'[r].index /\ s.chunk # item'[r].chunk
      BY <1>1, <1>2, <1>8, <1>11
    <3> QED
      BY <1>7, <3>1, <3>2
  <2>4. \A q \in Readers : reader'[q] = "number" =>
           /\ q # r /\ reader[q] = "number" /\ item'[q] = item[q]
    BY <1>2, <1>5 DEF Goes
  <2>5. \A q \in Readers : reader'[q] = "number" =>
           /\ item'[q].kind = "data" /\ item'[q].chunk < cursor' /\ item'[q].chunk < Chunks
           /\ \A s : Present(s)' => s.chunk # item'[q].chunk
           /\ \A t \in Readers : reader'[t] = "number" /\ t # q => item'[t].chunk # item'[q].chunk
    BY <1>1, <1>2, <1>7, <2>4 DEF Numbers
  <2>6. OneReader => \A s : Present(s)' => s.chunk = s.index
    <3>1. OneReader => item'[r].chunk = item'[r].index
      BY <1>1, <1>2 DEF Alone
    <3> QED
      BY <1>7, <1>11, <3>1 DEF Numbers
  <2> QED
    BY <2>1, <2>2, <2>3, <2>5, <2>6 DEF Numbers
<1>13. Accounted'
  <2> SUFFICES ASSUME Undisturbed' PROVE Accounted'
    BY DEF Accounted
  <2>1. \A k \in Nat : k < count' => \E s : Present(s)' /\ s.kind = "data" /\ s.index = k
    <3> SUFFICES ASSUME NEW k \in Nat, k < count'
                 PROVE  \E s : Present(s)' /\ s.kind = "data" /\ s.index = k
      OBVIOUS
    <3>1. k < count \/ k = count
      BY <1>1, <1>2
    <3>2. CASE k = count
      BY <1>2, <1>7, <1>11, <3>2
    <3>3. CASE k < count
      BY <1>4, <1>7, <3>3 DEF Accounted
    <3> QED
      BY <3>1, <3>2, <3>3
  <2>2. \A c \in Nat : c < cursor' /\ c < Chunks =>
             \/ \E s : Present(s)' /\ s.kind = "data" /\ s.chunk = c
             \/ \E q \in Readers : reader'[q] = "number" /\ item'[q].chunk = c
    <3> SUFFICES ASSUME NEW c \in Nat, c < cursor, c < Chunks
                 PROVE  \/ \E s : Present(s)' /\ s.kind = "data" /\ s.chunk = c
                        \/ \E q \in Readers : reader'[q] = "number" /\ item'[q].chunk = c
      BY <1>1
    <3>1. CASE \E s : Present(s) /\ s.kind = "data" /\ s.chunk = c
      BY <1>7, <3>1
    <3>2. CASE \E q \in Readers : reader[q] = "number" /\ item[q].chunk = c
      <4>1. PICK q \in Readers : reader[q] = "number" /\ item[q].chunk = c
        BY <3>2
      <4> QED
        BY <1>2, <1>5, <1>7, <1>11, <4>1 DEF Goes
    <3> QED
      BY <1>4, <3>1, <3>2 DEF Accounted
  <2>3. \A q \in Readers : reader'[q] = "leave" \/ Left(q)' => cursor' >= Chunks
    BY <1>1, <1>4, <1>5 DEF Goes, Accounted
  <2>4. ~FeedClosed'
    BY <1>5 DEF Goes
  <2> QED
    BY <2>1, <2>2, <2>3, <2>4 DEF Accounted
<1> QED
  BY <1>4, <1>5, <1>9, <1>10, <1>12, <1>13

\* Nothing undisturbed drops the receivers of the feed while a reader lives.
LEMMA FeedIsOpen ==
  ASSUME Drained, Undisturbed, ~FeedClosed
  PROVE  Open(Compressors)
BY WorkersAssumption DEF Drained, Open, Live, WorkersAssumption

\* A reader sends what it holds, or drops it when nobody receives any more.
LEMMA SendCounts ==
  ASSUME IInv, NEW r \in Readers, Send(r, Open(Compressors)), UNCHANGED Downstairs
  PROVE  IInv'
<1> USE DEF IInv
<1>1. /\ reader[r] = "send" /\ ~Left(r) /\ Carries(r)
      /\ reader' = [reader EXCEPT ![r] = "sent"] /\ "sent" \in ReaderPlaces
      /\ UNCHANGED <<source, item, cursor, count, remaining, cancelled>> /\ UNCHANGED errorVars
      /\ item[r] \in SegmentType
  BY DEF Send, At, Goto, Left, Carries, ReaderPlaces, errorVars, TypeOK
<1>2. ~FeedClosed /\ ~Closing
  BY <1>1 DEF FeedClosed, At, Closing
<1>3. /\ Control' /\ Drained' /\ Ordered' /\ OkMeansComplete'
      /\ cancelled' \in BOOLEAN /\ (Undisturbed' => Undisturbed)
  BY <1>1, <1>2, ReaderFrame
<1>4. Goes(r, "sent") /\ Leaving'
  BY <1>1, Moved, LeavingKept DEF TypeOK
<1>5. /\ \A q \in Readers : q # r => (Carries(q)' <=> Carries(q))
      /\ ~Carries(r)'
  BY <1>1, <1>4 DEF Goes, Carries
<1>6. /\ feed' \in Seq(SegmentType)
      /\ \A s : In(s, feed') => In(s, feed) \/ s = item[r]
      /\ Undisturbed => \A s : In(s, feed') <=> In(s, feed) \/ s = item[r]
  <2>1. CASE Open(Compressors)
    <3>1. feed' = Append(feed, item[r])
      BY <2>1 DEF Send, SendTo
    <3> QED
      BY <1>1, <3>1, ChannelAppend DEF TypeOK
  <2>2. CASE ~Open(Compressors)
    <3>1. feed' = feed /\ ~Undisturbed
      BY <1>2, <2>2, FeedIsOpen DEF Send, SendTo
    <3> QED
      BY <3>1 DEF TypeOK
  <2> QED
    BY <2>1, <2>2
<1>7. \A s : Present(s)' => Present(s)
  BY <1>1, <1>5, <1>6, BeyondKeeps DEF Present
<1>8. Undisturbed => \A s : Present(s) => Present(s)'
  BY <1>1, <1>5, <1>6, BeyondKeeps DEF Present
<1>9. TypeOK'
  BY <1>1, <1>3, <1>6, BeyondKeeps DEF TypeOK
<1>10. Alone'
  BY <1>1, <1>4 DEF Goes, Alone
<1>11. Numbers'
  BY <1>1, <1>2, <1>4, <1>7 DEF Goes, Numbers
<1>12. Accounted'
  BY <1>1, <1>3, <1>4, <1>8 DEF Goes, Accounted
<1> QED
  BY <1>3, <1>4, <1>9, <1>10, <1>11, <1>12

\* drop(tx) by a reader: only the last one may still have something to send.
LEMMA DropKeeps ==
  ASSUME IInv, NEW r \in Readers, Leave(r), UNCHANGED Downstairs
  PROVE  IInv'
<1> USE DEF IInv
<1> DEFINE p == IF remaining = 1 THEN "last" ELSE "done"
<1>1. /\ reader[r] = "leave" /\ ~Carries(r)
      /\ reader' = [reader EXCEPT ![r] = p] /\ p \in ReaderPlaces
      /\ remaining' = remaining - 1
      /\ UNCHANGED <<source, item, cursor, count, feed, cancelled>> /\ UNCHANGED errorVars
  BY DEF Leave, At, Goto, Carries, ReaderPlaces, errorVars, TypeOK
<1>2. ~FeedClosed /\ ~Closing
  BY <1>1 DEF FeedClosed, At, Closing
<1>3. /\ Control' /\ Drained' /\ Ordered' /\ OkMeansComplete'
      /\ cancelled' \in BOOLEAN /\ (Undisturbed' => Undisturbed)
  BY <1>1, <1>2, ReaderFrame
<1>4. Goes(r, p) /\ Leaving' /\ (remaining # 1 => ~FeedClosed')
  BY <1>1, Moved, LeaveCounts DEF TypeOK
<1>5. ~FeedClosed'
  BY <1>4 DEF Goes
<1>6. \A q \in Readers : Carries(q)' <=> Carries(q)
  BY <1>1, <1>4 DEF Goes, Carries
<1>7. \A s : Present(s)' <=> Present(s)
  BY <1>1, <1>6, BeyondKeeps DEF Present
<1>8. TypeOK'
  BY <1>1, <1>3, BeyondKeeps DEF TypeOK
<1>9. p \in {"last", "done"}
  OBVIOUS
<1> HIDE DEF p
<1>10. Alone'
  BY <1>1, <1>4, <1>9 DEF Goes, Alone
<1>11. Numbers'
  BY <1>1, <1>2, <1>4, <1>7, <1>9 DEF Goes, Numbers
<1>12. Accounted'
  BY <1>1, <1>3, <1>4, <1>5, <1>7, <1>9 DEF Goes, Accounted
<1> QED
  BY <1>3, <1>4, <1>8, <1>10, <1>11, <1>12

\* The last reader goes on among those that have left.
LEMMA LastMoves ==
  ASSUME reader \in [Readers -> ReaderPlaces], Leaving, NEW r \in Readers,
         NEW p \in {"final", "done"}, reader[r] \in {"last", "final"},
         reader' = [reader EXCEPT ![r] = p], remaining' = remaining
  PROVE  /\ Leaving' /\ Closing'
         /\ \A q \in Readers : q # r => reader[q] = "done" /\ reader'[q] = "done"
         /\ reader'[r] = p
<1>1. \A q \in Readers : q # r => reader[q] = "done" /\ reader'[q] = "done"
  BY DEF Leaving
<1>2. reader'[r] = p
  OBVIOUS
<1>3. {q \in Readers : ~Left(q)}' = {q \in Readers : ~Left(q)}
  BY <1>1, <1>2 DEF Left
<1> QED
  BY <1>1, <1>2, <1>3 DEF Leaving, Closing

\* The last reader loads the count: all segments have their index by then.
LEMMA LoadKeeps ==
  ASSUME IInv, NEW r \in Readers, LoadCount(r), UNCHANGED Downstairs
  PROVE  IInv'
<1> USE DEF IInv
<1> DEFINE p == IF count = 0 THEN "done" ELSE "final"
<1>1. /\ reader[r] = "last" /\ ~Carries(r)
      /\ reader' = [reader EXCEPT ![r] = p] /\ p \in {"final", "done"} /\ p \in ReaderPlaces
      /\ UNCHANGED <<source, cursor, count, remaining, feed>>
      /\ UNCHANGED errorVars \/ (count = 0 /\ Reports)
      /\ count # 0 \/ Reports
  BY DEF LoadCount, At, Goto, Carries, ReaderPlaces, Reports
<1>2. ~FeedClosed /\ ~Closing
  BY <1>1 DEF FeedClosed, At, Closing
<1>3. /\ Control' /\ Drained' /\ Ordered' /\ OkMeansComplete'
      /\ cancelled' \in BOOLEAN /\ (Undisturbed' => Undisturbed)
  BY <1>1, <1>2, ReaderFrame
<1>4. /\ Leaving' /\ Closing' /\ reader'[r] = p
      /\ \A q \in Readers : q # r => reader[q] = "done" /\ reader'[q] = "done"
  BY <1>1, LastMoves DEF TypeOK
<1>5. /\ item' = IF count = 0 THEN item ELSE [item EXCEPT ![r] = Final(count)]
      /\ Final(count) \in SegmentType /\ Final(count).kind = "final"
  BY ChunksAssumption DEF LoadCount, Final, SegmentType, TypeOK, ChunksAssumption
<1>6. /\ item' \in [Readers -> SegmentType]
      /\ p = "final" => item'[r] = Final(count)
  BY <1>5 DEF TypeOK
<1>7. \A s : Present(s)' => Present(s) \/ (p = "final" /\ s = Final(count))
  BY <1>1, <1>4, <1>6, BeyondKeeps DEF Present, Carries
<1>8. \A s : Present(s) => Present(s)'
  BY <1>1, <1>4, BeyondKeeps DEF Present, Carries
<1>9. p # "final" => ~Undisturbed'
  BY <1>1, ErrorsKeep DEF Undisturbed, TypeOK
<1>10. TypeOK'
  BY <1>1, <1>3, <1>6, BeyondKeeps DEF TypeOK
<1>11. Alone'
  BY <1>1, <1>4 DEF Alone
<1> HIDE DEF p
<1>12. Numbers'
  BY <1>1, <1>2, <1>4, <1>5, <1>6, <1>7 DEF Numbers
<1>13. Accounted'
  <2> SUFFICES ASSUME Undisturbed' PROVE Accounted'
    BY DEF Accounted
  <2>1. ~FeedClosed' /\ cursor >= Chunks /\ \A q \in Readers : reader[q] # "number"
    BY <1>1, <1>3, <1>4, <1>9 DEF FeedClosed, At, Accounted, Left
  <2> QED
    BY <1>1, <1>3, <1>8, <2>1 DEF Accounted
<1> QED
  BY <1>3, <1>4, <1>10, <1>11, <1>12, <1>13

\* And sends the FINAL marker, which closes the feed.
LEMMA FinalGoesOut ==
  ASSUME IInv, NEW r \in Readers, SendFinal(r, Open(Compressors)), UNCHANGED Downstairs
  PROVE  IInv'
<1> USE DEF IInv
<1>1. /\ reader[r] = "final" /\ Carries(r)
      /\ reader' = [reader EXCEPT ![r] = "done"]
      /\ UNCHANGED <<source, item, cursor, count, remaining, cancelled>> /\ UNCHANGED errorVars
      /\ item[r] \in SegmentType /\ item[r] = Final(count)
  BY DEF SendFinal, At, Goto, Carries, errorVars, TypeOK, Numbers
<1>2. ~FeedClosed
  BY <1>1 DEF FeedClosed, At
<1>3. /\ Leaving' /\ Closing' /\ reader'[r] = "done"
      /\ \A q \in Readers : q # r => reader[q] = "done" /\ reader'[q] = "done"
  BY <1>1, LastMoves DEF TypeOK
<1>4. /\ Control' /\ Drained' /\ Ordered' /\ OkMeansComplete'
      /\ cancelled' \in BOOLEAN /\ (Undisturbed' => Undisturbed)
  BY <1>1, <1>2, <1>3, ReaderFrame
<1>5. /\ feed' \in Seq(SegmentType)
      /\ \A s : In(s, feed') => In(s, feed) \/ s = item[r]
      /\ Undisturbed => \A s : In(s, feed') <=> In(s, feed) \/ s = item[r]
  <2>1. CASE Open(Compressors)
    <3>1. feed' = Append(feed, item[r])
      BY <2>1 DEF SendFinal, SendTo
    <3> QED
      BY <1>1, <3>1, ChannelAppend DEF TypeOK
  <2>2. CASE ~Open(Compressors)
    <3>1. feed' = feed /\ ~Undisturbed
      BY <1>2, <2>2, FeedIsOpen DEF SendFinal, SendTo
    <3> QED
      BY <3>1 DEF TypeOK
  <2> QED
    BY <2>1, <2>2
<1>6. \A s : Present(s)' => Present(s)
  BY <1>1, <1>3, <1>5, BeyondKeeps DEF Present, Carries
<1>7. Undisturbed => (\A s : Present(s) => Present(s)') /\ Present(Final(count))
  BY <1>1, <1>3, <1>5, BeyondKeeps DEF Present, Carries
<1>8. TypeOK'
  BY <1>1, <1>4, <1>5, BeyondKeeps DEF TypeOK, ReaderPlaces
<1>9. Alone' /\ Numbers'
  BY <1>1, <1>3, <1>6 DEF Alone, Numbers
<1>10. Accounted'
  <2> SUFFICES ASSUME Undisturbed' PROVE Accounted'
    BY DEF Accounted
  <2>1. cursor >= Chunks /\ \A q \in Readers : reader[q] # "number"
    BY <1>1, <1>3, <1>4 DEF Accounted, Left
  <2> QED
    BY <1>1, <1>4, <1>7, <2>1 DEF Accounted, Final
<1> QED
  BY <1>3, <1>4, <1>8, <1>9, <1>10

\* Spawning stops, or the file cannot be opened: both only when cancelled.
LEMMA NoneSpawned ==
  ASSUME IInv, StopSpawning \/ OpenFails, UNCHANGED Downstairs
  PROVE  IInv'
<1> USE DEF IInv
<1>1. /\ ~FeedClosed /\ ~Closing
      /\ UNCHANGED <<source, item, cursor, count, feed>>
      /\ UNCHANGED errorVars \/ Reports
      /\ cancelled' /\ cancelled' \in BOOLEAN
      /\ \A q \in Readers : \/ reader'[q] = reader[q]
                            \/ reader[q] = "unspawned" /\ reader'[q] = "done"
  <2>1. CASE StopSpawning
    BY <2>1 DEF StopSpawning, FeedClosed, At, Closing, errorVars
  <2>2. CASE OpenFails
    <3>1. Reports
      BY <2>2 DEF OpenFails, Reports, FaultKinds
    <3> QED
      BY <2>2, <3>1, ReadersAssumption
      DEF OpenFails, ReportError, FeedClosed, At, Closing, ReadersAssumption
  <2> QED
    BY <2>1, <2>2
<1>2. Control' /\ Drained' /\ Ordered' /\ OkMeansComplete'
  BY <1>1, ReaderFrame
<1>3. /\ Leaving' /\ reader' \in [Readers -> ReaderPlaces] /\ remaining' \in Int
      /\ \A q \in Readers : reader[q] \notin {"last", "final"}
  <2>1. CASE StopSpawning
    BY <2>1, StopCounts DEF TypeOK
  <2>2. CASE OpenFails
    <3>1. /\ reader' = [q \in Readers |-> "done"] /\ remaining' = 0
          /\ \A q \in Readers : reader[q] = "unspawned"
      BY <2>2 DEF OpenFails, At
    <3>2. {q \in Readers : ~Left(q)}' = {}
      BY <3>1 DEF Left
    <3> QED
      BY <3>1, <3>2, FS_EmptySet DEF Leaving, ReaderPlaces
  <2> QED
    BY <2>1, <2>2
<1>4. \A q \in Readers : Carries(q)' <=> Carries(q)
  BY <1>1 DEF Carries
<1>5. \A s : Present(s)' <=> Present(s)
  BY <1>1, <1>4, BeyondKeeps DEF Present
<1>6. TypeOK'
  BY <1>1, <1>3, BeyondKeeps DEF TypeOK
<1>7. Alone' /\ Numbers'
  BY <1>1, <1>5 DEF Alone, Numbers
<1>8. Accounted'
  BY <1>1 DEF Accounted, Undisturbed
<1> QED
  BY <1>2, <1>3, <1>6, <1>7, <1>8

\* Every step of a reader, and of the loop that spawns them.
LEMMA ReadersStep ==
  ASSUME MemoryHasOneReader, IInv,
         SpawnReader \/ \E r \in Readers : Reader(r)
  PROVE  IInv'
<1>0. UNCHANGED Downstairs
  BY DEF SpawnReader, Reader, Downstairs
<1>1. CASE StopSpawning \/ OpenFails
  BY <1>0, <1>1, NoneSpawned
<1>2. ASSUME NEW r \in Readers, Spawn(r) PROVE IInv'
  <2>1. /\ reader[r] = "unspawned" /\ reader' = [reader EXCEPT ![r] = "read"]
        /\ "read" \in ReaderPlaces
        /\ UNCHANGED <<source, item, cursor, count, remaining, feed>> /\ UNCHANGED errorVars
    BY <1>2 DEF Spawn, At, Goto, ReaderPlaces
  <2> QED
    BY <1>0, <2>1, ReaderWalks
<1>3. ASSUME NEW r \in Readers, ReadFails(r) PROVE IInv'
  <2>1. /\ reader[r] = "number" /\ reader' = [reader EXCEPT ![r] = "leave"]
        /\ "leave" \in ReaderPlaces /\ Reports /\ cancelled'
        /\ UNCHANGED <<source, item, cursor, count, remaining, feed>>
    BY <1>3 DEF ReadFails, At, Goto, ReaderPlaces, Reports, ReportError, FaultKinds
  <2> QED
    BY <1>0, <2>1, ReaderWalks
<1>4. ASSUME NEW r \in Readers, CheckBeforeSend(r) PROVE IInv'
  <2>1. /\ reader[r] = "check" /\ "leave" \in ReaderPlaces /\ "send" \in ReaderPlaces
        /\ \/ ~cancelled /\ reader' = [reader EXCEPT ![r] = "send"]
           \/ cancelled /\ cancelled' /\ reader' = [reader EXCEPT ![r] = "leave"]
        /\ UNCHANGED <<source, item, cursor, count, remaining, feed>> /\ UNCHANGED errorVars
    BY <1>4 DEF CheckBeforeSend, At, Goto, ReaderPlaces, errorVars
  <2> QED
    BY <1>0, <2>1, ReaderWalks
<1>5. ASSUME NEW r \in Readers, CheckAfterSend(r) PROVE IInv'
  <2>1. /\ reader[r] = "sent" /\ "leave" \in ReaderPlaces /\ "read" \in ReaderPlaces
        /\ \/ ~cancelled /\ reader' = [reader EXCEPT ![r] = "read"]
           \/ cancelled /\ cancelled' /\ reader' = [reader EXCEPT ![r] = "leave"]
        /\ UNCHANGED <<source, item, cursor, count, remaining, feed>> /\ UNCHANGED errorVars
    BY <1>5 DEF CheckAfterSend, At, Goto, ReaderPlaces, errorVars
  <2> QED
    BY <1>0, <2>1, ReaderWalks
<1>6. ASSUME NEW r \in Readers, ReaderStep(r, Open(Compressors)) PROVE IInv'
  BY <1>0, <1>4, <1>5, <1>6, ClaimCounts, NumberCounts, SendCounts, DropKeeps, LoadKeeps,
     FinalGoesOut DEF ReaderStep
<1>7. CASE SpawnReader
  BY <1>1, <1>2, <1>7 DEF SpawnReader
<1>8. ASSUME NEW r \in Readers, Reader(r) PROVE IInv'
  BY <1>3, <1>6, <1>8 DEF Reader
<1> QED
  BY <1>7, <1>8

-----------------------------------------------------------------------------
\* The end of the call.

\* Everyone has left and nothing was disturbed: what is present is in the
\* sink, up to the FINAL marker, or buffered above it.
LEMMA WrittenOut ==
  ASSUME IInv, FeedClosed, ~Live(Workers), Undisturbed, main = "join"
  PROVE  /\ next = count + 1
         /\ \A i \in 1..count : /\ Present(written[i]) /\ written[i].kind = "data"
                                /\ written[i].index = i - 1
         /\ written[count + 1] = Final(count)
<1> USE DEF IInv
<1>1. /\ count \in Nat /\ next \in Nat /\ Len(written) = next
      /\ DOMAIN written = 1..next
      /\ \A i \in 1..next : written[i] \in SegmentType /\ written[i].index = i - 1
      /\ \A i \in DOMAIN pending : pending[i].index = i
  BY DEF TypeOK, Ordered
<1>2. \A s : Present(s) => In(s, written) \/ \E i \in DOMAIN pending : s = pending[i]
  <2>1. /\ \A w \in Workers : worker[w] = "done"
        /\ \A r \in Readers : ~Carries(r)
    BY DEF Live, FeedClosed, At, Carries
  <2>2. /\ \E c \in Compressors : worker[c] = "done"
        /\ \E x \in Cryptors : worker[x] = "done"
    BY <2>1, WorkersAssumption DEF Workers, WorkersAssumption
  <2>3. feed = <<>> /\ mid = <<>> /\ out = <<>>
    BY <2>2 DEF Drained
  <2> QED
    BY <2>1, <2>3, EmptyChannel DEF Present, Beyond, Holding
<1>3. next \notin DOMAIN pending /\ Present(Final(count))
  <2>1. finishOk = "ok"
    BY DEF Control, Undisturbed
  <2> QED
    BY <2>1 DEF Ordered, Accounted
<1>4. \A i \in 1..next : Present(written[i])
  BY <1>1 DEF Present, Beyond, In
<1>5. \A s : Present(s) => s.index # next
  <2> SUFFICES ASSUME NEW s, Present(s) PROVE s.index # next
    OBVIOUS
  <2>1. CASE In(s, written)
    <3>1. PICK i \in 1..next : s = written[i]
      BY <1>1, <2>1 DEF In
    <3>2. s.index = i - 1 /\ i - 1 # next
      BY <1>1, <3>1
    <3> QED
      BY <3>2
  <2>2. CASE \E i \in DOMAIN pending : s = pending[i]
    BY <1>1, <1>3, <2>2
  <2> QED
    BY <1>2, <2>1, <2>2
<1>6. next > count
  <2>1. next # count
    BY <1>3, <1>5 DEF Final
  <2>2. ~(next < count)
    BY <1>1, <1>5 DEF Accounted
  <2> QED
    BY <1>1, <2>1, <2>2
<1>7. \A s : Present(s) => (s.kind = "data" /\ s.index < count) \/ s = Final(count)
  BY DEF Numbers
<1>8. \A i \in 1..next : i - 1 < count \/ (i - 1 = count /\ written[i] = Final(count))
  <2> SUFFICES ASSUME NEW i \in 1..next
               PROVE  i - 1 < count \/ (i - 1 = count /\ written[i] = Final(count))
    OBVIOUS
  <2>1. \/ written[i].kind = "data" /\ written[i].index < count
        \/ written[i] = Final(count)
    BY <1>4, <1>7
  <2>2. CASE written[i] = Final(count)
    BY <1>1, <2>2 DEF Final
  <2>3. CASE written[i].index < count
    BY <1>1, <2>3
  <2> QED
    BY <2>1, <2>2, <2>3
<1>9. next = count + 1
  <2>1. next - 1 < count \/ next - 1 = count
    BY <1>1, <1>6, <1>8
  <2> QED
    BY <1>1, <1>6, <2>1
<1>10. \A i \in 1..count : written[i].kind = "data"
  <2> SUFFICES ASSUME NEW i \in 1..count PROVE written[i].kind = "data"
    OBVIOUS
  <2>1. Present(written[i]) /\ written[i].index = i - 1 /\ i - 1 < count
    BY <1>1, <1>4, <1>9
  <2>2. written[i] # Final(count)
    BY <1>1, <2>1 DEF Final
  <2> QED
    BY <1>7, <2>1, <2>2
<1>11. written[count + 1] = Final(count)
  <2>1. count + 1 \in 1..next /\ (count + 1) - 1 = count
    BY <1>1, <1>9
  <2> QED
    BY <1>1, <1>8, <2>1
<1> QED
  BY <1>1, <1>4, <1>9, <1>10, <1>11

\* As many segments as chunks: each chunk is in one of them.
LEMMA AllChunks ==
  ASSUME IInv, FeedClosed, ~Live(Workers), Undisturbed, main = "join"
  PROVE  /\ count = Chunks
         /\ {written[i].chunk : i \in 1..count} = 0..(Chunks - 1)
         /\ OneReader => \A i \in 1..count : written[i].chunk = i - 1
<1> USE DEF IInv
<1>1. count \in Nat /\ Chunks \in Nat /\ cursor \in Nat
  BY ChunksAssumption DEF TypeOK
<1>2. \A i \in 1..count : /\ Present(written[i]) /\ written[i].kind = "data"
                          /\ written[i].index = i - 1 /\ written[i].chunk < Chunks
                          /\ written[i].chunk \in Nat
  <2>1. \A i \in 1..count : /\ Present(written[i]) /\ written[i].kind = "data"
                            /\ written[i].index = i - 1 /\ written[i] # Final(count)
    BY WrittenOut DEF Final
  <2> QED
    BY <2>1, PresentType DEF Numbers, SegmentType
<1>3. cursor >= Chunks /\ \A r \in Readers : reader[r] # "number"
  BY ReadersAssumption DEF Accounted, FeedClosed, At, Left, ReadersAssumption
<1> DEFINE chunkOf == [i \in 1..count |-> written[i].chunk]
<1>4. chunkOf \in [1..count -> 0..(Chunks - 1)]
  BY <1>1, <1>2
<1>5. \A i, j \in 1..count : chunkOf[i] = chunkOf[j] => i = j
  <2> SUFFICES ASSUME NEW i \in 1..count, NEW j \in 1..count,
                      written[i].chunk = written[j].chunk
               PROVE  i = j
    OBVIOUS
  <2>1. written[i] = written[j]
    BY <1>2 DEF Numbers
  <2>2. i - 1 = j - 1
    BY <1>2, <2>1
  <2> QED
    BY <2>2
<1>6. \A c \in 0..(Chunks - 1) : \E i \in 1..count : chunkOf[i] = c
  <2> SUFFICES ASSUME NEW c \in 0..(Chunks - 1) PROVE \E i \in 1..count : written[i].chunk = c
    OBVIOUS
  <2>1. c \in Nat /\ c < cursor /\ c < Chunks
    BY <1>1, <1>3
  <2>2. PICK s : Present(s) /\ s.kind = "data" /\ s.chunk = c
    BY <1>3, <2>1 DEF Accounted
  <2>3. s \in SegmentType /\ s # Final(count)
    BY <2>2, PresentType DEF Final
  <2>4. s.index \in Nat /\ s.index < count
    BY <2>2, <2>3 DEF Numbers, SegmentType
  <2>5. s.index + 1 \in 1..count /\ (s.index + 1) - 1 = s.index
    BY <1>1, <2>4
  <2>6. s = written[s.index + 1]
    BY <1>2, <2>2, <2>5 DEF Numbers
  <2> QED
    BY <2>2, <2>5, <2>6
<1>7. chunkOf \in Bijection(1..count, 0..(Chunks - 1))
  BY <1>4, <1>5, <1>6 DEF Bijection, Injection, Surjection, IsInjective
<1>8. /\ IsFiniteSet(1..count) /\ Cardinality(1..count) = count
      /\ Cardinality(0..(Chunks - 1)) = Chunks
  <2>1. count \in Nat /\ Chunks \in Nat
    BY <1>1, ChunksAssumption DEF TypeOK
  <2>2. IsFiniteSet(1..count) /\ Cardinality(1..count) = count
    <3>1. IsFiniteSet(1..count) /\ Cardinality(1..count) = IF 1 > count THEN 0 ELSE count - 1 + 1
      BY <2>1, FS_Interval
    <3> QED
      BY <2>1, <3>1
  <2>3. Cardinality(0..(Chunks - 1)) = Chunks
    <3>1. Chunks - 1 \in Int
      BY <2>1
    <3>2. Cardinality(0..(Chunks - 1)) = IF 0 > Chunks - 1 THEN 0 ELSE Chunks - 1 - 0 + 1
      BY <3>1, FS_Interval
    <3> QED
      BY <2>1, <3>2
  <2> QED
    BY <2>2, <2>3
<1>9. Cardinality(0..(Chunks - 1)) = Cardinality(1..count)
  BY <1>7, <1>8, FS_Bijection DEF ExistsBijection
<1>10. {written[i].chunk : i \in 1..count} = 0..(Chunks - 1)
  BY <1>7 DEF Bijection, Injection, Surjection
<1>11. OneReader => \A i \in 1..count : written[i].chunk = i - 1
  BY <1>2 DEF Numbers
<1> QED
  BY <1>8, <1>9, <1>10, <1>11

LEMMA JoinKeeps ==
  ASSUME IInv, Join(FeedClosed), UNCHANGED readerVars
  PROVE  IInv'
<1> USE DEF IInv
<1>0. /\ UNCHANGED <<feed, worker, work, mid, out, taken, fatal, cancelled,
                    next, pending, finalIndex, written, writerPc, finishOk>>
      /\ main = "join" /\ main' = "returned" /\ FeedClosed /\ ~Live(Workers)
      /\ result' = IF fatal = NoError THEN "ok" ELSE "error"
  BY DEF Join, stageVars, writerVars, errorVars
<1>1. TypeOK'
  BY <1>0, ReadersKeep DEF TypeOK, MainPlaces
<1>2. Control' /\ (Undisturbed' => Undisturbed)
  BY <1>0 DEF Control, Undisturbed
<1>3. \A w \in Workers : Holding(w)' <=> Holding(w)
  BY <1>0 DEF Holding
<1>4. \A s : Present(s)' <=> Present(s)
  BY <1>0, <1>3, ReadersKeep DEF Present, Beyond
<1>5. Leaving' /\ Alone' /\ Numbers' /\ Accounted'
  BY <1>2, <1>4, MoveCounts
<1>6. Ordered'
  BY <1>0, ReadersKeep DEF Ordered
<1>7. Drained'
  <2>1. Live(Compressors)' <=> Live(Compressors)
    BY <1>0 DEF Live
  <2> QED
    BY <1>0, <1>2, <2>1, ReadersKeep DEF Drained
<1>8. OkMeansComplete'
  <2> SUFFICES ASSUME result' = "ok" PROVE OkMeansComplete'
    BY DEF OkMeansComplete
  <2>1. Undisturbed
    BY <1>0 DEF Control, Undisturbed
  <2>2. /\ next = Chunks + 1 /\ count = Chunks
        /\ \A i \in 1..Chunks : written[i].kind = "data" /\ written[i].index = i - 1
        /\ written[Chunks + 1] = Final(Chunks)
        /\ {written[i].chunk : i \in 1..Chunks} = 0..(Chunks - 1)
        /\ OneReader => \A i \in 1..Chunks : written[i].chunk = i - 1
    BY <1>0, <2>1, WrittenOut, AllChunks
  <2>3. Len(written) = next
    BY DEF Ordered
  <2> QED
    BY <1>0, <2>2, <2>3 DEF OkMeansComplete
<1> QED
  BY <1>1, <1>2, <1>5, <1>6, <1>7, <1>8

LEMMA InitIInv == Init => IInv
<1> SUFFICES ASSUME Init PROVE IInv
  OBVIOUS
<1> USE DEF Init, ReadersInit, StagesInit, BaseInit, WriterInit
<1>1. Final(0) \in SegmentType
  BY ChunksAssumption DEF Final, SegmentType, ChunksAssumption
<1>2. TypeOK
  <2>1. Cardinality(Readers) \in Nat
    BY ReadersAssumption, FS_CardinalityType DEF ReadersAssumption
  <2>2. reader \in [Readers -> ReaderPlaces] /\ worker \in [Workers -> WorkerPlaces]
    BY DEF ReaderPlaces, WorkerPlaces
  <2>3. item \in [Readers -> SegmentType] /\ work \in [Workers -> SegmentType]
    BY <1>1
  <2>4. /\ feed \in Seq(SegmentType) /\ mid \in Seq(SegmentType) /\ out \in Seq(SegmentType)
        /\ written \in Seq(SegmentType) /\ DOMAIN pending = {}
    OBVIOUS
  <2>5. main \in MainPlaces /\ taken \in SegmentType /\ remaining \in Int /\ source \in Sources
    BY <1>1, <2>1 DEF MainPlaces
  <2> QED
    BY <2>2, <2>3, <2>4, <2>5 DEF TypeOK
<1>3. ~FeedClosed /\ ~Closing
  BY ReadersAssumption DEF FeedClosed, At, Closing, ReadersAssumption
<1>4. \A s : ~Present(s)
  BY EmptyChannel DEF Present, Beyond, Carries, Holding
<1>5. Leaving
  <2>1. {r \in Readers : ~Left(r)} = Readers
    BY DEF Left
  <2> QED
    BY <2>1 DEF Leaving
<1>6. Alone /\ Numbers /\ Accounted
  BY <1>3, <1>4 DEF Alone, Numbers, Accounted, Left
<1>7. Ordered /\ Control /\ Drained /\ OkMeansComplete
  BY DEF Ordered, Control, Drained, OkMeansComplete, Workers
<1> QED
  BY <1>2, <1>5, <1>6, <1>7 DEF IInv

\* A stuttering step, after the call has returned say.
LEMMA IdleEnds ==
  ASSUME IInv, UNCHANGED vars
  PROVE  IInv'
<1> USE DEF IInv
<1>1. /\ UNCHANGED <<feed, worker, work, mid, out, main, taken, held, result, fatal, cancelled,
                    next, pending, finalIndex, written, writerPc, finishOk>>
      /\ UNCHANGED readerVars
  BY DEF vars, stageVars, mainVars, writerVars, errorVars
<1>2. TypeOK'
  BY <1>1, ReadersKeep DEF TypeOK
<1>3. Control' /\ (Undisturbed' => Undisturbed)
  BY <1>1 DEF Control, Undisturbed
<1>4. Drained'
  <2>1. Live(Compressors)' <=> Live(Compressors)
    BY <1>1 DEF Live
  <2>2. Live(Cryptors)' <=> Live(Cryptors)
    BY <1>1 DEF Live
  <2> QED
    BY <1>1, <1>3, <2>1, <2>2, ReadersKeep DEF Drained
<1>5. \A w \in Workers : Holding(w)' <=> Holding(w)
  BY <1>1 DEF Holding
<1>6. \A s : Present(s)' <=> Present(s)
  BY <1>1, <1>5, ReadersKeep DEF Present, Beyond
<1> QED
  BY <1>1, <1>2, <1>3, <1>4, <1>6, MoveKeeps

LEMMA NextIInv == MemoryHasOneReader /\ IInv /\ [Next]_vars => IInv'
<1> SUFFICES ASSUME MemoryHasOneReader, IInv, [Next]_vars PROVE IInv'
  OBVIOUS
<1>1. CASE SpawnReader \/ \E r \in Readers : Reader(r)
  BY <1>1, ReadersStep
<1>2. CASE (\E c \in Compressors : Compressor(c)) \/ (\E x \in Cryptors : Cryptor(x))
  BY <1>2, WorkersKeep
<1>3. ASSUME UNCHANGED readerVars,
             \/ WriteHeader \/ SpawnCompressor \/ SpawnCryptor \/ EnterLoop(SpawningDone)
             \/ LoopEnds(Cryptors) \/ PushTaken(TRUE) \/ WriterLoop \/ Join(FeedClosed)
      PROVE  IInv'
  <2>1. CASE SpawnCompressor \/ SpawnCryptor
    BY <1>3, <2>1, SpawnsKeep DEF SpawnCompressor, SpawnCryptor
  <2>2. CASE PushTaken(TRUE)
    BY <1>3, <2>2, PushKeeps, WalkKeeps
  <2>3. CASE WriterLoop
    BY <1>3, <2>3, TakeKeeps, WriterKeeps, WalkKeeps DEF WriterLoop
  <2>4. CASE Join(FeedClosed)
    BY <1>3, <2>4, JoinKeeps
  <2>5. CASE WriteHeader \/ EnterLoop(SpawningDone) \/ LoopEnds(Cryptors)
    BY <1>3, <2>5, WalkKeeps
  <2> QED
    BY <1>3, <2>1, <2>2, <2>3, <2>4, <2>5
<1>4. CASE Main
  BY <1>1, <1>3, <1>4 DEF Main
<1>5. CASE UNCHANGED vars
  BY <1>5, IdleEnds
<1> QED
  BY <1>1, <1>2, <1>4, <1>5 DEF Next, Returned

\* Ok means that every chunk of the input is out, once, under the indices from
\* 0 on, closed by its FINAL marker, and in the order of the input if there is
\* one reader, for any numbers of workers, any input and any failures
\* (io.rs:296-299, pipeline.rs:213-264).  Of several readers, as the code spawns
\* them for a file and for memory, it covers those of a file, without the
\* order; MemoryHasOneReader leaves out those of memory, of which it is false.
THEOREM OkIsTheWholeInput ==
  ASSUME MemoryHasOneReader
  PROVE  Spec => []OkMeansComplete
<1>1. IInv => OkMeansComplete
  BY DEF IInv
<1> QED
  BY <1>1, InitIInv, NextIInv, PTL DEF Spec

-----------------------------------------------------------------------------
(* Every segment is in one place.                                          *)

Stops == {"reader", "feed", "worker", "mid", "out", "taken", "pending", "written"}

Has(c, i) == \E k \in DOMAIN c : c[k].index = i
Once(c, i) == \A k, l \in DOMAIN c : c[k].index = i /\ c[l].index = i => k = l
Holds(w, i) == Holding(w) /\ work[w].index = i
Bears(r, i) == Carries(r) /\ item[r].index = i

\* Index i is at stop p.
Where(p, i) ==
  \/ p = "reader" /\ \E r \in Readers : Bears(r, i)
  \/ p = "feed" /\ Has(feed, i)
  \/ p = "worker" /\ \E w \in Workers : Holds(w, i)
  \/ p = "mid" /\ Has(mid, i)
  \/ p = "out" /\ Has(out, i)
  \/ p = "taken" /\ main = "taken" /\ taken.index = i
  \/ p = "pending" /\ i \in DOMAIN pending
  \/ p = "written" /\ i < next

\* It is at one stop, and there once.
Apart ==
  \A i \in Nat : i < count =>
    \A p, q \in Stops : Where(p, i) /\ Where(q, i) => p = q
Singles ==
  \A i \in Nat : i < count =>
    /\ Once(feed, i) /\ Once(mid, i) /\ Once(out, i)
    /\ \A v, w \in Workers : Holds(v, i) /\ Holds(w, i) => v = w
    /\ \A r, q \in Readers : Bears(r, i) /\ Bears(q, i) => r = q

LEMMA TakeOnce ==
  ASSUME NEW c \in Seq(SegmentType), c # <<>>
  PROVE  \A i : /\ Has(c, i) <=> Has(Tail(c), i) \/ Head(c).index = i
                /\ Once(c, i) => Once(Tail(c), i)
                /\ Once(c, i) /\ Head(c).index = i => ~Has(Tail(c), i)
<1>1. /\ Head(c) = c[1] /\ Len(c) \in Nat /\ Len(c) # 0 /\ DOMAIN c = 1..Len(c)
      /\ DOMAIN Tail(c) = 1..(Len(c) - 1)
      /\ \A k \in 1..(Len(c) - 1) : Tail(c)[k] = c[k + 1]
  OBVIOUS
<1>2. \A k \in 1..(Len(c) - 1) : k + 1 \in 1..Len(c) /\ k + 1 # 1
  BY <1>1
<1>3. \A k \in 1..Len(c) : k = 1 \/ (k - 1 \in 1..(Len(c) - 1) /\ c[k] = Tail(c)[k - 1])
  BY <1>1
<1>4. 1 \in 1..Len(c)
  BY <1>1
<1>5. \A i : Has(c, i) <=> Has(Tail(c), i) \/ Head(c).index = i
  BY <1>1, <1>2, <1>3, <1>4 DEF Has
<1>6. \A i : Once(c, i) => Once(Tail(c), i)
  <2> SUFFICES ASSUME NEW i, Once(c, i), NEW k \in 1..(Len(c) - 1), NEW l \in 1..(Len(c) - 1),
                      Tail(c)[k].index = i, Tail(c)[l].index = i
               PROVE  k = l
    BY <1>1 DEF Once
  <2>1. k + 1 = l + 1
    BY <1>1, <1>2 DEF Once
  <2> QED
    BY <2>1
<1>7. \A i : Once(c, i) /\ Head(c).index = i => ~Has(Tail(c), i)
  BY <1>1, <1>2, <1>4 DEF Has, Once
<1> QED
  BY <1>5, <1>6, <1>7

LEMMA AppendOnce ==
  ASSUME NEW c \in Seq(SegmentType), NEW t \in SegmentType
  PROVE  \A i : /\ Has(Append(c, t), i) <=> Has(c, i) \/ t.index = i
                /\ Once(c, i) /\ (t.index = i => ~Has(c, i)) => Once(Append(c, t), i)
<1>1. /\ Len(c) \in Nat
      /\ DOMAIN Append(c, t) = 1..(Len(c) + 1) /\ DOMAIN c = 1..Len(c)
      /\ \A k \in 1..Len(c) : Append(c, t)[k] = c[k]
      /\ Append(c, t)[Len(c) + 1] = t
  OBVIOUS
<1>2. /\ \A k \in 1..(Len(c) + 1) : k \in 1..Len(c) \/ k = Len(c) + 1
      /\ \A k \in 1..Len(c) : k \in 1..(Len(c) + 1)
      /\ Len(c) + 1 \in 1..(Len(c) + 1)
  BY <1>1
<1>3. \A i : Has(Append(c, t), i) <=> Has(c, i) \/ t.index = i
  BY <1>1, <1>2 DEF Has
<1>4. \A i : Once(c, i) /\ (t.index = i => ~Has(c, i)) => Once(Append(c, t), i)
  BY <1>1, <1>2 DEF Has, Once
<1> QED
  BY <1>3, <1>4

\* A step that moves no segment, or loses one.
LEMMA Shrinks ==
  ASSUME Apart, Singles, count' = count,
         \A i \in Nat : i < count =>
           /\ \A p \in Stops : Where(p, i)' => Where(p, i)
           /\ Once(feed, i) => Once(feed', i)
           /\ Once(mid, i) => Once(mid', i)
           /\ Once(out, i) => Once(out', i)
           /\ \A w \in Workers : Holds(w, i)' => Holds(w, i)
           /\ \A r \in Readers : Bears(r, i)' => Bears(r, i)
  PROVE  Apart' /\ Singles'
<1>1. Apart'
  BY DEF Apart
<1>2. Singles'
  BY DEF Singles, Once
<1> QED
  BY <1>1, <1>2

\* A step that moves index n from stop a to stop b.
LEMMA Shifts ==
  ASSUME Apart, count' = count, NEW n \in Nat, NEW a \in Stops, NEW b \in Stops, Where(a, n),
         \A i \in Nat, p \in Stops :
           i < count /\ Where(p, i)' => \/ Where(p, i) /\ ~(p = a /\ i = n)
                                        \/ p = b /\ i = n
  PROVE  Apart'
BY DEF Apart

LEMMA ReadersStay ==
  ASSUME UNCHANGED readerVars
  PROVE  count' = count /\ \A r \in Readers, i \in Nat : Bears(r, i)' <=> Bears(r, i)
BY ReadersKeep DEF Bears

LEMMA WorkersStay ==
  ASSUME UNCHANGED <<worker, work>>
  PROVE  \A w \in Workers, i \in Nat : Holds(w, i)' <=> Holds(w, i)
BY DEF Holds, Holding

\* Beyond the readers nothing moves on.
LEMMA NothingMoves ==
  ASSUME Apart, Singles, UNCHANGED readerVars, UNCHANGED <<feed, mid, out, work, next>>,
         \A w \in Workers : Holding(w)' => Holding(w),
         DOMAIN pending' \subseteq DOMAIN pending,
         main' = "taken" => main = "taken" /\ taken' = taken
  PROVE  Apart' /\ Singles'
<1>1. /\ count' = count
      /\ \A r \in Readers, i \in Nat : Bears(r, i)' <=> Bears(r, i)
  BY ReadersStay
<1>2. \A w \in Workers, i \in Nat : Holds(w, i)' => Holds(w, i)
  BY DEF Holds
<1>3. \A i \in Nat, p \in Stops : Where(p, i)' => Where(p, i)
  BY <1>1, <1>2 DEF Where
<1> QED
  BY <1>1, <1>2, <1>3, Shrinks

LEMMA WorkerQuiet ==
  ASSUME IInv, Apart, Singles, NEW w \in Workers, UNCHANGED readerVars,
         \/ Check(w)
         \/ \E fault \in FaultKinds, watches \in BOOLEAN : Process(w, fault, watches)
  PROVE  Apart' /\ Singles'
<1> USE DEF IInv
<1>1. /\ UNCHANGED <<feed, mid, out, work, next, pending, main, taken>>
      /\ Holding(w)
      /\ \E p \in WorkerPlaces : worker' = [worker EXCEPT ![w] = p]
  <2>1. CASE Check(w)
    BY <2>1 DEF Check, Holding, mainVars, writerVars, WorkerPlaces
  <2>2. CASE \E fault \in FaultKinds, watches \in BOOLEAN : Process(w, fault, watches)
    BY <2>2 DEF Process, Holding, mainVars, writerVars, WorkerPlaces
  <2> QED
    BY <2>1, <2>2
<1>2. \A v \in Workers : Holding(v)' => Holding(v)
  BY <1>1, WorkerTypes
<1> QED
  BY <1>1, <1>2, NothingMoves

\* A worker takes the head of its channel, or finds it closed.
LEMMA ReceiveApart ==
  ASSUME IInv, Apart, Singles, NEW w \in Workers, UNCHANGED readerVars, NEW closed,
         \/ RecvFrom(w, feed, closed) /\ UNCHANGED mid
         \/ RecvFrom(w, mid, closed) /\ UNCHANGED feed,
         UNCHANGED <<out, mainVars, writerVars>>
  PROVE  Apart' /\ Singles'
<1> USE DEF IInv
<1>1. /\ worker[w] = "recv" /\ ~Holding(w)
      /\ UNCHANGED <<out, main, taken, next, pending>>
  BY DEF RecvFrom, Holding, mainVars, writerVars
<1>2. ASSUME UNCHANGED <<work, feed, mid>>, worker' = [worker EXCEPT ![w] = "done"]
      PROVE  Apart' /\ Singles'
  <2>1. \A v \in Workers : Holding(v)' => Holding(v)
    BY <1>2, WorkerTypes DEF WorkerPlaces
  <2> QED
    BY <1>1, <1>2, <2>1, NothingMoves
<1>3. ASSUME NEW c \in {"feed", "mid"}, NEW channel \in Seq(SegmentType), channel # <<>>,
             work' = [work EXCEPT ![w] = Head(channel)],
             worker' = [worker EXCEPT ![w] = "got"],
             \/ c = "feed" /\ channel = feed /\ feed' = Tail(channel) /\ mid' = mid
             \/ c = "mid" /\ channel = mid /\ mid' = Tail(channel) /\ feed' = feed
      PROVE  Apart' /\ Singles'
  <2> DEFINE n == Head(channel).index
  <2>1. Head(channel) \in SegmentType /\ n \in Nat
    BY <1>3, ChannelTake DEF SegmentType
  <2>2. /\ Holding(w)' /\ work'[w] = Head(channel)
        /\ \A v \in Workers : v # w => (Holding(v)' <=> Holding(v)) /\ work'[v] = work[v]
    <3>1. "got" \in WorkerPlaces /\ "got" \in {"got", "busy", "send"}
      BY DEF WorkerPlaces
    <3>2. Holding(w)' /\ \A v \in Workers : v # w => (Holding(v)' <=> Holding(v))
      BY <1>3, <3>1, WorkerTypes
    <3> QED
      BY <1>3, <3>2 DEF TypeOK
  <2>3. \A v \in Workers, i \in Nat : Holds(v, i)' <=> Holds(v, i) \/ (v = w /\ i = n)
    BY <1>1, <2>2 DEF Holds
  <2>4. /\ count' = count
        /\ \A r \in Readers, i \in Nat : Bears(r, i)' <=> Bears(r, i)
    BY ReadersStay
  <2>5. \A i : /\ Has(channel, i) <=> Has(Tail(channel), i) \/ n = i
               /\ Once(channel, i) => Once(Tail(channel), i)
               /\ Once(channel, i) /\ n = i => ~Has(Tail(channel), i)
    BY <1>3, TakeOnce
  <2>6. \A i \in Nat : i < count /\ i = n => ~Has(Tail(channel), i)
    BY <1>3, <2>5 DEF Singles
  <2> HIDE DEF n
  <2>7. Where(c, n)
    BY <1>3, <2>5 DEF Where
  <2>8. \A i \in Nat, p \in Stops :
           i < count /\ Where(p, i)' => \/ Where(p, i) /\ ~(p = c /\ i = n)
                                        \/ p = "worker" /\ i = n
    BY <1>1, <1>3, <2>3, <2>4, <2>5, <2>6 DEF Where
  <2>9. Apart'
    <3>1. c \in Stops /\ "worker" \in Stops
      BY DEF Stops
    <3> QED
      BY <2>1, <2>4, <2>7, <2>8, <3>1, Shifts
  <2>10. \A i \in Nat, v \in Workers : i < count /\ i = n => ~Holds(v, i)
    <3>1. c \in Stops /\ "worker" \in Stops /\ c # "worker"
      BY DEF Stops
    <3>2. \A i \in Nat, v \in Workers : Holds(v, i) => Where("worker", i)
      BY DEF Where
    <3> QED
      BY <2>7, <3>1, <3>2 DEF Apart
  <2>11. Singles'
    <3>1. \A i \in Nat : i < count => Once(feed', i) /\ Once(mid', i) /\ Once(out', i)
      BY <1>1, <1>3, <2>5 DEF Singles
    <3>2. \A i \in Nat : i < count =>
            \A v, u \in Workers : Holds(v, i)' /\ Holds(u, i)' => v = u
      BY <2>3, <2>10 DEF Singles
    <3>3. \A i \in Nat : i < count =>
            \A r, q \in Readers : Bears(r, i)' /\ Bears(q, i)' => r = q
      BY <2>4 DEF Singles
    <3> QED
      BY <2>4, <3>1, <3>2, <3>3 DEF Singles, Once
  <2> QED
    BY <2>9, <2>11
<1>4. CASE feed # <<>> /\ RecvFrom(w, feed, closed) /\ UNCHANGED mid
  BY <1>3, <1>4 DEF RecvFrom, TypeOK
<1>5. CASE mid # <<>> /\ RecvFrom(w, mid, closed) /\ UNCHANGED feed
  BY <1>3, <1>5 DEF RecvFrom, TypeOK
<1>6. CASE feed = <<>> /\ RecvFrom(w, feed, closed) /\ UNCHANGED mid
  BY <1>2, <1>6 DEF RecvFrom
<1>7. CASE mid = <<>> /\ RecvFrom(w, mid, closed) /\ UNCHANGED feed
  BY <1>2, <1>7 DEF RecvFrom
<1> QED
  BY <1>4, <1>5, <1>6, <1>7

\* A worker sends what it holds on.
LEMMA SendOnApart ==
  ASSUME IInv, Apart, Singles, NEW w \in Workers, worker[w] = "send",
         worker' = [worker EXCEPT ![w] = "recv"],
         NEW c \in {"mid", "out"}, NEW channel \in Seq(SegmentType),
         \/ c = "mid" /\ channel = mid /\ mid' = Append(channel, work[w]) /\ out' = out
         \/ c = "out" /\ channel = out /\ out' = Append(channel, work[w]) /\ mid' = mid,
         UNCHANGED readerVars, UNCHANGED <<feed, work, main, taken, next, pending>>
  PROVE  Apart' /\ Singles'
<1> USE DEF IInv
<1> DEFINE n == work[w].index
<1>1. /\ Holding(w) /\ work[w] \in SegmentType /\ n \in Nat
      /\ Holds(w, n)
  BY DEF Holding, Holds, TypeOK, SegmentType
<1>2. \A v \in Workers, i \in Nat : Holds(v, i)' <=> Holds(v, i) /\ v # w
  <2>1. "recv" \in WorkerPlaces /\ "recv" \notin {"got", "busy", "send"}
    BY DEF WorkerPlaces
  <2>2. ~Holding(w)' /\ \A v \in Workers : v # w => (Holding(v)' <=> Holding(v))
    BY <2>1, WorkerTypes
  <2> QED
    BY <2>2 DEF Holds
<1>3. /\ count' = count
      /\ \A r \in Readers, i \in Nat : Bears(r, i)' <=> Bears(r, i)
  BY ReadersStay
<1>4. \A i : /\ Has(Append(channel, work[w]), i) <=> Has(channel, i) \/ n = i
             /\ Once(channel, i) /\ (n = i => ~Has(channel, i)) => Once(Append(channel, work[w]), i)
  BY <1>1, AppendOnce
<1>5. \A v \in Workers, i \in Nat : i < count /\ i = n /\ Holds(v, i) => v = w
  BY <1>1 DEF Singles
<1> HIDE DEF n
<1>6. Where("worker", n)
  BY <1>1 DEF Where
<1>7. "worker" \in Stops /\ c \in Stops /\ c # "worker"
  BY DEF Stops
<1>8. \A i \in Nat, p \in Stops :
         i < count /\ Where(p, i)' => \/ Where(p, i) /\ ~(p = "worker" /\ i = n)
                                      \/ p = c /\ i = n
  BY <1>2, <1>3, <1>4, <1>5 DEF Where
<1>9. Apart'
  <2>1. n \in Nat /\ count' = count
    BY <1>1, <1>3
  <2> QED
    BY <1>6, <1>7, <1>8, <2>1, Shifts
<1>10. \A i \in Nat : i < count /\ i = n => ~Has(channel, i)
  <2>1. \A i \in Nat : Has(channel, i) => Where(c, i)
    BY DEF Where
  <2> QED
    BY <1>6, <1>7, <2>1 DEF Apart
<1>11. Singles'
  <2>1. \A i \in Nat : i < count => Once(feed', i) /\ Once(mid', i) /\ Once(out', i)
    BY <1>4, <1>10 DEF Singles
  <2>2. \A i \in Nat : i < count =>
          \A v, u \in Workers : Holds(v, i)' /\ Holds(u, i)' => v = u
    BY <1>2 DEF Singles
  <2>3. \A i \in Nat : i < count =>
          \A r, q \in Readers : Bears(r, i)' /\ Bears(q, i)' => r = q
    BY <1>3 DEF Singles
  <2> QED
    BY <1>3, <2>1, <2>2, <2>3 DEF Singles, Once
<1> QED
  BY <1>9, <1>11

LEMMA WorkersApart ==
  ASSUME IInv, Apart, Singles,
         (\E c \in Compressors : Compressor(c)) \/ (\E x \in Cryptors : Cryptor(x))
  PROVE  Apart' /\ Singles'
<1> USE DEF IInv
<1>1. ASSUME NEW c \in Compressors, Compressor(c) PROVE Apart' /\ Singles'
  <2>0. c \in Workers /\ UNCHANGED readerVars /\ "compress" \in FaultKinds /\ FALSE \in BOOLEAN
    BY <1>1 DEF Workers, Compressor, FaultKinds
  <2>1. CASE RecvFrom(c, feed, FeedClosed) /\ UNCHANGED <<errorVars, mid, out, mainVars, writerVars>>
    BY <2>0, <2>1, ReceiveApart
  <2>2. CASE Check(c) \/ CompressSegment(c)
    BY <2>0, <2>2, WorkerQuiet DEF CompressSegment
  <2>3. CASE SendOn(c, mid, Open(Cryptors), TRUE) /\ UNCHANGED out
    <3>1. /\ worker[c] = "send" /\ worker' = [worker EXCEPT ![c] = "recv"]
          /\ UNCHANGED <<feed, work, main, taken, next, pending>>
          /\ mid \in Seq(SegmentType) /\ "mid" \in {"mid", "out"}
      BY <2>3 DEF SendOn, mainVars, writerVars, TypeOK
    <3>2. CASE Open(Cryptors)
      <4>1. mid' = Append(mid, work[c])
        BY <2>3, <3>2 DEF SendOn, SendTo
      <4> QED
        BY <2>0, <2>3, <3>1, <4>1, SendOnApart
    <3>3. CASE ~Open(Cryptors)
      <4>1. UNCHANGED mid
        BY <2>3, <3>3 DEF SendOn, SendTo
      <4>2. \A v \in Workers : Holding(v)' => Holding(v)
        <5>1. "recv" \in WorkerPlaces /\ "recv" \notin {"got", "busy", "send"}
          BY DEF WorkerPlaces
        <5> QED
          BY <2>0, <3>1, <5>1, WorkerTypes
      <4> QED
        BY <2>0, <2>3, <3>1, <4>1, <4>2, NothingMoves
    <3> QED
      BY <3>2, <3>3
  <2> QED
    BY <1>1, <2>1, <2>2, <2>3 DEF Compressor
<1>2. ASSUME NEW x \in Cryptors, Cryptor(x) PROVE Apart' /\ Singles'
  <2>0. x \in Workers /\ UNCHANGED readerVars /\ "crypto" \in FaultKinds /\ TRUE \in BOOLEAN
    BY <1>2 DEF Workers, Cryptor, FaultKinds
  <2>1. CASE RecvFrom(x, mid, ~Live(Compressors))
               /\ UNCHANGED <<feed, errorVars, out, mainVars, writerVars>>
    BY <2>0, <2>1, ReceiveApart
  <2>2. CASE Check(x) \/ EncryptSegment(x)
    BY <2>0, <2>2, WorkerQuiet DEF EncryptSegment
  <2>3. CASE SendOn(x, out, TRUE, FALSE) /\ UNCHANGED mid
    <3>1. /\ worker[x] = "send" /\ worker' = [worker EXCEPT ![x] = "recv"]
          /\ UNCHANGED <<feed, work, main, taken, next, pending>>
          /\ out \in Seq(SegmentType) /\ "out" \in {"mid", "out"}
          /\ out' = Append(out, work[x])
      BY <2>3 DEF SendOn, SendTo, mainVars, writerVars, TypeOK
    <3> QED
      BY <2>0, <2>3, <3>1, SendOnApart
  <2> QED
    BY <1>2, <2>1, <2>2, <2>3 DEF Cryptor
<1> QED
  BY <1>1, <1>2

\* The pipeline function takes, pushes and writes one segment at a time.
LEMMA TakeApart ==
  ASSUME IInv, Apart, Singles, Take, UNCHANGED readerVars
  PROVE  Apart' /\ Singles'
<1> USE DEF IInv
<1> DEFINE n == Head(out).index
<1>1. /\ UNCHANGED <<feed, worker, work, mid, next, pending>>
      /\ main = "loop" /\ main' = "taken" /\ out # <<>> /\ out \in Seq(SegmentType)
      /\ taken' = Head(out) /\ out' = Tail(out)
  BY DEF Take, writerVars, TypeOK
<1>2. n \in Nat
  BY <1>1, ChannelTake DEF SegmentType
<1>3. /\ count' = count
      /\ \A r \in Readers, i \in Nat : Bears(r, i)' <=> Bears(r, i)
  BY ReadersStay
<1>4. \A w \in Workers, i \in Nat : Holds(w, i)' <=> Holds(w, i)
  BY <1>1, WorkersStay
<1>5. \A i : /\ Has(out, i) <=> Has(out', i) \/ n = i
             /\ Once(out, i) => Once(out', i)
             /\ Once(out, i) /\ n = i => ~Has(out', i)
  BY <1>1, TakeOnce
<1>6. \A i \in Nat : i < count /\ i = n => ~Has(out', i)
  BY <1>5 DEF Singles
<1>7. taken'.index = n
  BY <1>1
<1> HIDE DEF n
<1>8. Where("out", n) /\ "out" \in Stops /\ "taken" \in Stops
  BY <1>5 DEF Where, Stops
<1>9. \A i \in Nat, p \in Stops :
         i < count /\ Where(p, i)' => \/ Where(p, i) /\ ~(p = "out" /\ i = n)
                                      \/ p = "taken" /\ i = n
  BY <1>1, <1>3, <1>4, <1>5, <1>6, <1>7 DEF Where
<1>10. Apart'
  BY <1>2, <1>3, <1>8, <1>9, Shifts
<1>11. Singles'
  <2>1. \A i \in Nat : i < count => Once(feed', i) /\ Once(mid', i) /\ Once(out', i)
    BY <1>1, <1>5 DEF Singles
  <2> QED
    BY <1>3, <1>4, <2>1 DEF Singles, Once
<1> QED
  BY <1>10, <1>11

LEMMA PushApart ==
  ASSUME IInv, Apart, Singles, PushTaken(TRUE), UNCHANGED readerVars
  PROVE  Apart' /\ Singles'
<1> USE DEF IInv
<1> DEFINE n == taken.index
<1>1. /\ UNCHANGED <<feed, worker, work, mid, out, next>>
      /\ main = "taken" /\ main' \in {"push", "finish"} /\ n \in Nat
      /\ DOMAIN pending' \subseteq DOMAIN pending \cup {n}
      /\ ~cancelled \/ pending' = pending
  BY DEF PushTaken, Push, Insert, stageVars, writerVars, TypeOK, SegmentType
<1>2. /\ count' = count
      /\ \A r \in Readers, i \in Nat : Bears(r, i)' <=> Bears(r, i)
  BY ReadersStay
<1>3. \A w \in Workers, i \in Nat : Holds(w, i)' <=> Holds(w, i)
  BY <1>1, WorkersStay
<1>4. Where("taken", n) /\ "taken" \in Stops /\ "pending" \in Stops
  BY <1>1 DEF Where, Stops
<1>5. \A i \in Nat, p \in Stops :
         i < count /\ Where(p, i)' => \/ Where(p, i) /\ ~(p = "taken" /\ i = n)
                                      \/ p = "pending" /\ i = n
  BY <1>1, <1>2, <1>3 DEF Where
<1>6. Apart'
  BY <1>1, <1>2, <1>4, <1>5, Shifts
<1>7. Singles'
  BY <1>1, <1>2, <1>3 DEF Singles, Once
<1> QED
  BY <1>6, <1>7

LEMMA WriteApart ==
  ASSUME IInv, Apart, Singles, WriteNext, UNCHANGED <<feed, stageVars, mainVars>>,
         UNCHANGED readerVars
  PROVE  Apart' /\ Singles'
<1> USE DEF IInv
<1>1. /\ UNCHANGED <<feed, worker, work, mid, out, main, taken>>
      /\ next \in DOMAIN pending /\ next \in Nat /\ next' = next + 1
      /\ DOMAIN pending' = DOMAIN pending \ {next}
  BY DEF WriteNext, Remove, stageVars, mainVars, TypeOK
<1>2. /\ count' = count
      /\ \A r \in Readers, i \in Nat : Bears(r, i)' <=> Bears(r, i)
  BY ReadersStay
<1>3. \A w \in Workers, i \in Nat : Holds(w, i)' <=> Holds(w, i)
  BY <1>1, WorkersStay
<1>4. Where("pending", next) /\ "pending" \in Stops /\ "written" \in Stops
  BY <1>1 DEF Where, Stops
<1>5. \A i \in Nat : i < next' => i < next \/ i = next
  BY <1>1
<1>6. \A i \in Nat, p \in Stops :
         i < count /\ Where(p, i)' => \/ Where(p, i) /\ ~(p = "pending" /\ i = next)
                                      \/ p = "written" /\ i = next
  BY <1>1, <1>2, <1>3, <1>5 DEF Where
<1>7. Apart'
  BY <1>1, <1>2, <1>4, <1>6, Shifts
<1>8. Singles'
  BY <1>1, <1>2, <1>3 DEF Singles, Once
<1> QED
  BY <1>7, <1>8

\* A reader that gives no index and sends no chunk moves nothing.
LEMMA ReaderQuiet ==
  ASSUME Apart, Singles, UNCHANGED Downstairs, count' = count,
         \A i \in Nat : i < count => /\ Has(feed', i) => Has(feed, i)
                                     /\ Once(feed, i) => Once(feed', i),
         \A r \in Readers, i \in Nat : i < count /\ Bears(r, i)' => Bears(r, i)
  PROVE  Apart' /\ Singles'
<1>1. UNCHANGED <<worker, work, mid, out, main, taken, next, pending>>
  BY BeyondKeeps
<1>2. \A w \in Workers, i \in Nat : Holds(w, i)' <=> Holds(w, i)
  BY <1>1, WorkersStay
<1>3. \A i \in Nat : i < count => \A p \in Stops : Where(p, i)' => Where(p, i)
  BY <1>1, <1>2 DEF Where
<1> QED
  BY <1>1, <1>2, <1>3, Shrinks

LEMMA FewerCarried ==
  ASSUME Apart, Singles, UNCHANGED Downstairs, count' = count, feed' = feed,
         \A r \in Readers : Carries(r)' => Carries(r) /\ item'[r] = item[r]
  PROVE  Apart' /\ Singles'
BY ReaderQuiet DEF Bears

LEMMA OneReaderGoes ==
  ASSUME reader \in [Readers -> ReaderPlaces], NEW r \in Readers, NEW p \in ReaderPlaces,
         reader' = [reader EXCEPT ![r] = p]
  PROVE  /\ \A q \in Readers : q # r => (Carries(q)' <=> Carries(q))
         /\ Carries(r)' <=> p \in {"check", "send", "final"}
BY DEF Carries

\* The FINAL marker's index is none of the segments'.
LEMMA FinalApart ==
  ASSUME IInv, Apart, Singles, NEW r \in Readers, UNCHANGED Downstairs,
         LoadCount(r) \/ SendFinal(r, Open(Compressors))
  PROVE  Apart' /\ Singles'
<1> USE DEF IInv
<1>1. count \in Nat /\ count' = count /\ Final(count).index = count
      /\ Final(count) \in SegmentType /\ feed \in Seq(SegmentType)
  BY ChunksAssumption
  DEF LoadCount, SendFinal, Final, SegmentType, TypeOK, ChunksAssumption
<1>2. CASE LoadCount(r)
  <2>1. \/ reader' = [reader EXCEPT ![r] = "done"] /\ item' = item
        \/ reader' = [reader EXCEPT ![r] = "final"] /\ item' = [item EXCEPT ![r] = Final(count)]
    BY <1>2 DEF LoadCount, Goto
  <2>2. /\ \A q \in Readers : q # r => (Carries(q)' <=> Carries(q)) /\ item'[q] = item[q]
        /\ Carries(r)' => item'[r] = Final(count)
    BY <2>1, OneReaderGoes DEF TypeOK, ReaderPlaces
  <2>3. \A q \in Readers, i \in Nat : i < count /\ Bears(q, i)' => Bears(q, i)
    BY <1>1, <2>2 DEF Bears
  <2>4. feed' = feed
    BY <1>2 DEF LoadCount
  <2> QED
    BY <1>1, <2>3, <2>4, ReaderQuiet
<1>3. CASE SendFinal(r, Open(Compressors))
  <2>1. /\ reader' = [reader EXCEPT ![r] = "done"] /\ item' = item
        /\ item[r] = Final(count)
        /\ feed' = feed \/ feed' = Append(feed, item[r])
    BY <1>3 DEF SendFinal, SendTo, At, Goto, Numbers
  <2>2. \A q \in Readers, i \in Nat : i < count /\ Bears(q, i)' => Bears(q, i)
    BY <2>1, OneReaderGoes DEF TypeOK, ReaderPlaces, Bears
  <2>3. \A i \in Nat : i < count => /\ Has(feed', i) => Has(feed, i)
                                    /\ Once(feed, i) => Once(feed', i)
    <3>1. CASE feed' = feed
      BY <3>1
    <3>2. CASE feed' = Append(feed, item[r])
      BY <1>1, <2>1, <3>2, AppendOnce
    <3> QED
      BY <2>1, <3>1, <3>2
  <2> QED
    BY <1>1, <2>2, <2>3, ReaderQuiet
<1> QED
  BY <1>2, <1>3

\* A reader sends its segment.
LEMMA SendApart ==
  ASSUME IInv, Apart, Singles, NEW r \in Readers, UNCHANGED Downstairs,
         Send(r, Open(Compressors))
  PROVE  Apart' /\ Singles'
<1> USE DEF IInv
<1> DEFINE n == item[r].index
<1>1. /\ Bears(r, n) /\ n \in Nat /\ item[r] \in SegmentType
      /\ reader' = [reader EXCEPT ![r] = "sent"] /\ "sent" \in ReaderPlaces
      /\ item' = item /\ count' = count
      /\ UNCHANGED <<worker, work, mid, out, main, taken, next, pending>>
  BY BeyondKeeps DEF Send, At, Goto, Bears, Carries, ReaderPlaces, TypeOK, SegmentType
<1>2. \A q \in Readers, i \in Nat : Bears(q, i)' <=> Bears(q, i) /\ q # r
  BY <1>1, OneReaderGoes DEF TypeOK, Bears
<1>3. CASE feed' = feed
  BY <1>1, <1>2, <1>3, ReaderQuiet
<1>4. CASE feed' = Append(feed, item[r])
  <2>1. \A w \in Workers, i \in Nat : Holds(w, i)' <=> Holds(w, i)
    BY <1>1, WorkersStay
  <2>2. \A i : /\ Has(feed', i) <=> Has(feed, i) \/ n = i
               /\ Once(feed, i) /\ (n = i => ~Has(feed, i)) => Once(feed', i)
    BY <1>1, <1>4, AppendOnce DEF TypeOK
  <2>3. \A q \in Readers, i \in Nat : i < count /\ i = n /\ Bears(q, i) => q = r
    BY <1>1 DEF Singles
  <2>4. n \in Nat
    BY <1>1
  <2>5. Where("reader", n) /\ "reader" \in Stops /\ "feed" \in Stops
    BY <1>1 DEF Where, Stops
  <2> HIDE DEF n
  <2>6. \A i \in Nat, p \in Stops :
           i < count /\ Where(p, i)' => \/ Where(p, i) /\ ~(p = "reader" /\ i = n)
                                        \/ p = "feed" /\ i = n
    BY <1>1, <1>2, <2>1, <2>2, <2>3 DEF Where
  <2>7. Apart'
    BY <1>1, <2>4, <2>5, <2>6, Shifts
  <2>8. \A i \in Nat : i < count /\ i = n => ~Has(feed, i)
    <3>1. \A i \in Nat : Has(feed, i) => Where("feed", i)
      BY DEF Where
    <3> QED
      BY <2>5, <3>1 DEF Apart
  <2>9. Singles'
    <3>1. \A i \in Nat : i < count => Once(feed', i) /\ Once(mid', i) /\ Once(out', i)
      BY <1>1, <2>2, <2>8 DEF Singles
    <3>2. \A i \in Nat : i < count =>
            \A q, t \in Readers : Bears(q, i)' /\ Bears(t, i)' => q = t
      BY <1>2 DEF Singles
    <3> QED
      BY <1>1, <2>1, <3>1, <3>2 DEF Singles, Once
  <2> QED
    BY <2>7, <2>9
<1> QED
  BY <1>3, <1>4 DEF Send, SendTo

\* What is at a stop is present.
LEMMA WhereIsPresent ==
  ASSUME IInv, NEW i \in Nat
  PROVE  (\E p \in Stops : Where(p, i)) <=> \E s : Present(s) /\ s.index = i
<1> USE DEF IInv
<1>1. ASSUME NEW s, Present(s), s.index = i PROVE \E p \in Stops : Where(p, i)
  <2> USE DEF Stops
  <2>1. CASE \E r \in Readers : Carries(r) /\ s = item[r]
    BY <1>1, <2>1 DEF Where, Bears
  <2>2. CASE In(s, feed) \/ In(s, mid) \/ In(s, out)
    BY <1>1, <2>2 DEF Where, Has, In
  <2>3. CASE \E w \in Workers : Holding(w) /\ s = work[w]
    BY <1>1, <2>3 DEF Where, Holds
  <2>4. CASE main = "taken" /\ s = taken
    BY <1>1, <2>4 DEF Where
  <2>5. CASE In(s, written)
    <3>1. PICK k \in DOMAIN written : s = written[k]
      BY <2>5 DEF In
    <3>2. k \in 1..next /\ next \in Nat
      BY <3>1 DEF Ordered, TypeOK
    <3>3. i = k - 1
      BY <1>1, <3>1, <3>2 DEF Ordered
    <3>4. i < next
      BY <3>2, <3>3
    <3> QED
      BY <3>4 DEF Where
  <2>6. CASE \E k \in DOMAIN pending : s = pending[k]
    BY <1>1, <2>6 DEF Where, Ordered
  <2> QED
    BY <1>1, <2>1, <2>2, <2>3, <2>4, <2>5, <2>6 DEF Present, Beyond
<1>2. ASSUME NEW p \in Stops, Where(p, i) PROVE \E s : Present(s) /\ s.index = i
  <2>1. CASE \E r \in Readers : Bears(r, i)
    BY <2>1 DEF Bears, Present
  <2>2. CASE Has(feed, i) \/ Has(mid, i) \/ Has(out, i)
    BY <2>2 DEF Has, In, Present, Beyond
  <2>3. CASE \E w \in Workers : Holds(w, i)
    BY <2>3 DEF Holds, Present, Beyond
  <2>4. CASE main = "taken" /\ taken.index = i
    BY <2>4 DEF Present, Beyond
  <2>5. CASE i \in DOMAIN pending
    BY <2>5 DEF Present, Beyond, Ordered
  <2>6. CASE i < next
    <3>1. next \in Nat /\ i + 1 \in 1..next /\ (i + 1) - 1 = i
      BY <2>6 DEF TypeOK
    <3>2. i + 1 \in DOMAIN written /\ written[i + 1].index = i
      BY <3>1 DEF Ordered, TypeOK
    <3> QED
      BY <3>2 DEF Present, Beyond, In
  <2> QED
    BY <1>2, <2>1, <2>2, <2>3, <2>4, <2>5, <2>6 DEF Where
<1> QED
  BY <1>1, <1>2

\* The next index is that of no segment yet.
LEMMA NumberApart ==
  ASSUME MemoryHasOneReader, IInv, Apart, Singles, NEW r \in Readers,
         Publish(r) \/ Number(r), UNCHANGED Downstairs
  PROVE  Apart' /\ Singles'
<1> USE DEF IInv
<1>1. /\ reader[r] = "number" /\ ~Carries(r) /\ count \in Nat
      /\ reader' = [reader EXCEPT ![r] = "check"] /\ "check" \in ReaderPlaces
      /\ feed' = feed
      /\ UNCHANGED <<worker, work, mid, out, main, taken, next, pending>>
  BY BeyondKeeps DEF Publish, Number, At, Goto, Carries, ReaderPlaces, TypeOK
<1>2. /\ count' = count + 1 /\ item'[r].index = count
      /\ \A q \in Readers : q # r => item'[q] = item[q]
  <2>1. CASE Publish(r)
    <3>1. source = "memory" /\ item' = item /\ count' = item[r].index + 1
      BY <2>1 DEF Publish
    <3>2. item[r].index = count
      BY <1>1, <3>1 DEF Alone, MemoryHasOneReader, TypeOK
    <3> QED
      BY <3>1, <3>2
  <2>2. CASE Number(r)
    <3>1. item' = [item EXCEPT ![r].index = count] /\ item[r] \in SegmentType
      BY <2>2 DEF Number, TypeOK
    <3>2. item'[r].index = count
      BY <3>1 DEF TypeOK, SegmentType
    <3> QED
      BY <2>2, <3>1, <3>2 DEF Number, TypeOK
  <2> QED
    BY <2>1, <2>2
<1>3. \A q \in Readers, i \in Nat : Bears(q, i)' <=> Bears(q, i) \/ (q = r /\ i = count)
  BY <1>1, <1>2, OneReaderGoes DEF TypeOK, Bears
<1>4. \A w \in Workers, i \in Nat : Holds(w, i)' <=> Holds(w, i)
  BY <1>1, WorkersStay
<1>5. \A p \in Stops : ~Where(p, count)
  <2>1. ~Closing
    BY <1>1 DEF Closing
  <2>2. \A s : Present(s) => s.index # count
    BY <1>1, <2>1 DEF Numbers
  <2> QED
    BY <1>1, <2>2, WhereIsPresent
<1>6. \A i \in Nat, p \in Stops : Where(p, i)' => Where(p, i) \/ (p = "reader" /\ i = count)
  BY <1>1, <1>3, <1>4 DEF Where
<1>7. \A i \in Nat : i < count' => i < count \/ i = count
  BY <1>1, <1>2
<1>8. Apart'
  BY <1>5, <1>6, <1>7 DEF Apart
<1>9. Singles'
  <2>1. \A q \in Readers : ~Bears(q, count)
    BY <1>1, <1>5 DEF Where, Stops
  <2>2. \A w \in Workers : ~Holds(w, count)
    BY <1>1, <1>5 DEF Where, Stops
  <2>3. ~Has(feed, count) /\ ~Has(mid, count) /\ ~Has(out, count)
    BY <1>1, <1>5 DEF Where, Stops
  <2>4. Once(feed, count) /\ Once(mid, count) /\ Once(out, count)
    BY <2>3 DEF Has, Once
  <2>5. \A i \in Nat : i < count' => Once(feed, i) /\ Once(mid, i) /\ Once(out, i)
    BY <1>7, <2>4 DEF Singles
  <2>6. \A i \in Nat : i < count' =>
          \A v, w \in Workers : Holds(v, i)' /\ Holds(w, i)' => v = w
    BY <1>4, <1>7, <2>2 DEF Singles
  <2>7. \A i \in Nat : i < count' =>
          \A q, t \in Readers : Bears(q, i)' /\ Bears(t, i)' => q = t
    BY <1>3, <1>7, <2>1 DEF Singles
  <2> QED
    BY <1>1, <2>5, <2>6, <2>7 DEF Singles, Once
<1> QED
  BY <1>8, <1>9

LEMMA ReadersApart ==
  ASSUME MemoryHasOneReader, IInv, Apart, Singles,
         SpawnReader \/ \E r \in Readers : Reader(r)
  PROVE  Apart' /\ Singles'
<1> USE DEF IInv
<1>0. UNCHANGED Downstairs
  BY DEF SpawnReader, Reader, Downstairs
<1>1. CASE StopSpawning \/ OpenFails
  <2>1. /\ count' = count /\ feed' = feed /\ item' = item
        /\ \A q \in Readers : reader'[q] = reader[q] \/ reader'[q] = "done"
    BY <1>1 DEF StopSpawning, OpenFails
  <2> QED
    BY <1>0, <2>1, FewerCarried DEF Carries
<1>2. ASSUME NEW r \in Readers, NEW p \in {"read", "number", "leave", "last", "done"},
             reader' = [reader EXCEPT ![r] = p], count' = count, feed' = feed,
             item' = item \/ item' = [item EXCEPT ![r] = Data(cursor, cursor)]
      PROVE  Apart' /\ Singles'
  <2>1. p \in ReaderPlaces /\ p \notin {"check", "send", "final"}
    BY DEF ReaderPlaces
  <2>2. /\ \A q \in Readers : q # r => (Carries(q)' <=> Carries(q)) /\ item'[q] = item[q]
        /\ ~Carries(r)'
    BY <1>2, <2>1, OneReaderGoes DEF TypeOK
  <2> QED
    BY <1>0, <1>2, <2>2, FewerCarried
<1>3. ASSUME NEW r \in Readers,
             Spawn(r) \/ Claim(r) \/ ReadFails(r) \/ CheckAfterSend(r) \/ Leave(r)
      PROVE  Apart' /\ Singles'
  <2>1. \E p \in {"read", "number", "leave", "last", "done"} :
           reader' = [reader EXCEPT ![r] = p]
    BY <1>3 DEF Spawn, Claim, ReadFails, CheckAfterSend, Leave, Goto
  <2>2. /\ count' = count /\ feed' = feed
        /\ item' = item \/ item' = [item EXCEPT ![r] = Data(cursor, cursor)]
    BY <1>3 DEF Spawn, Claim, ReadFails, CheckAfterSend, Leave
  <2> QED
    BY <1>2, <2>1, <2>2
<1>4. ASSUME NEW r \in Readers, CheckBeforeSend(r) PROVE Apart' /\ Singles'
  <2>1. /\ \/ reader' = [reader EXCEPT ![r] = "send"]
           \/ reader' = [reader EXCEPT ![r] = "leave"]
        /\ count' = count /\ feed' = feed /\ item' = item /\ Carries(r)
    BY <1>4 DEF CheckBeforeSend, Goto, At, Carries
  <2>2. \A q \in Readers : Carries(q)' => Carries(q)
    BY <2>1, OneReaderGoes DEF TypeOK, ReaderPlaces
  <2> QED
    BY <1>0, <2>1, <2>2, FewerCarried
<1>5. ASSUME NEW r \in Readers, ReaderStep(r, Open(Compressors)) PROVE Apart' /\ Singles'
  BY <1>0, <1>3, <1>4, <1>5, NumberApart, SendApart, FinalApart DEF ReaderStep
<1>6. CASE SpawnReader
  BY <1>1, <1>3, <1>6 DEF SpawnReader
<1>7. ASSUME NEW r \in Readers, Reader(r) PROVE Apart' /\ Singles'
  BY <1>3, <1>5, <1>7 DEF Reader
<1> QED
  BY <1>6, <1>7

LEMMA MainApart ==
  ASSUME IInv, Apart, Singles, UNCHANGED readerVars,
         \/ WriteHeader \/ SpawnCompressor \/ SpawnCryptor \/ EnterLoop(SpawningDone)
         \/ LoopEnds(Cryptors) \/ PushTaken(TRUE) \/ WriterLoop \/ Join(FeedClosed)
         \/ UNCHANGED vars
  PROVE  Apart' /\ Singles'
<1> USE DEF IInv
<1>1. CASE PushTaken(TRUE) \/ Take
  BY <1>1, PushApart, TakeApart
<1>2. CASE WriterRuns
  <2>1. CASE WriteNext
    BY <1>2, <2>1, WriteApart DEF WriterRuns
  <2>2. CASE FinishReturns \/ WriteFails
    <3>1. /\ UNCHANGED <<feed, worker, work, mid, out, main, taken, next>>
          /\ DOMAIN pending' \subseteq DOMAIN pending
      BY <1>2, <2>2 DEF WriterRuns, FinishReturns, WriteFails, Remove, stageVars, mainVars
    <3> QED
      BY <3>1, NothingMoves DEF Holding
  <2> QED
    BY <1>2, <2>1, <2>2 DEF WriterRuns
<1>3. CASE SpawnCompressor \/ SpawnCryptor
  <2>1. /\ UNCHANGED <<feed, work, mid, out, main, taken, next, pending>>
        /\ \A w \in Workers : worker'[w] = worker[w] \/ worker'[w] \in {"recv", "done"}
    <3>1. ASSUME NEW stage \in {Compressors, Cryptors}, NEW before, SpawnWorkers(stage, before, TRUE)
          PROVE  \A w \in Workers : worker'[w] = worker[w] \/ worker'[w] \in {"recv", "done"}
      <4>1. CASE cancelled
        BY <3>1, <4>1 DEF SpawnWorkers
      <4>2. CASE ~cancelled
        <5>1. PICK w \in {v \in stage : worker[v] = "unspawned"} :
                worker' = [worker EXCEPT ![w] = "recv"]
          BY <3>1, <4>2 DEF SpawnWorkers
        <5> QED
          BY <5>1 DEF TypeOK
      <4> QED
        BY <4>1, <4>2
    <3>2. UNCHANGED <<feed, work, mid, out, main, taken, next, pending>>
      BY <1>3 DEF SpawnCompressor, SpawnCryptor, SpawnWorkers, mainVars, writerVars
    <3> QED
      BY <1>3, <3>1, <3>2 DEF SpawnCompressor, SpawnCryptor
  <2> QED
    BY <2>1, NothingMoves DEF Holding
<1>4. CASE \/ WriteHeader \/ EnterLoop(SpawningDone) \/ LoopEnds(Cryptors)
           \/ PushOk \/ PushFailed \/ CallFinish \/ EndOfScope \/ Join(FeedClosed)
           \/ UNCHANGED vars
  <2>1. /\ UNCHANGED <<feed, worker, work, mid, out, taken, next, pending>>
        /\ main' = "taken" => main = "taken"
    BY <1>4 DEF WriteHeader, EnterLoop, LoopEnds, PushOk, PushReturns, PushFailed, CallFinish,
                Finish, EndOfScope, Join, vars, stageVars, mainVars, writerVars
  <2> QED
    BY <2>1, NothingMoves DEF Holding
<1> QED
  BY <1>1, <1>2, <1>3, <1>4 DEF WriterLoop

LEMMA NextApart ==
  MemoryHasOneReader /\ IInv /\ Apart /\ Singles /\ [Next]_vars => Apart' /\ Singles'
<1> SUFFICES ASSUME MemoryHasOneReader, IInv, Apart, Singles, [Next]_vars
             PROVE  Apart' /\ Singles'
  OBVIOUS
<1>1. UNCHANGED vars => UNCHANGED readerVars
  BY DEF vars
<1> QED
  BY <1>1, ReadersApart, WorkersApart, MainApart DEF Next, Main, Returned

\* The places of one index, counted.
LEMMA AtMostOne ==
  ASSUME NEW S, \A x, y \in S : x = y
  PROVE  Cardinality(S) = IF S = {} THEN 0 ELSE 1
<1>1. CASE S = {}
  BY <1>1, FS_EmptySet
<1>2. CASE S # {}
  <2>1. PICK x \in S : TRUE
    BY <1>2
  <2>2. S = {x}
    BY <2>1
  <2> QED
    BY <1>2, <2>2, FS_Singleton
<1> QED
  BY <1>1, <1>2

LEMMA PlacesAreStops ==
  ASSUME IInv, Apart, Singles, NEW i \in 0..(count - 1)
  PROVE  /\ Places(i) \in {0, 1}
         /\ (\E p \in Stops : Where(p, i)) => Places(i) = 1
<1> USE DEF IInv
<1>1. i \in Nat /\ i < count
  BY DEF TypeOK
<1> DEFINE F == {k \in DOMAIN feed : feed[k].index = i}
           M == {k \in DOMAIN mid : mid[k].index = i}
           O == {k \in DOMAIN out : out[k].index = i}
           T == {k \in DOMAIN written : written[k].index = i}
           W == {w \in Workers : worker[w] \in {"got", "busy", "send"} /\ work[w].index = i}
           R == {r \in Readers : reader[r] \in {"check", "send", "final"} /\ item[r].index = i}
           H == main = "taken" /\ taken.index = i
           P == i \in DOMAIN pending
           Number1(b) == IF b THEN 1 ELSE 0
<1>2. Places(i) = Cardinality(F) + Cardinality(M) + Cardinality(O) + Cardinality(T)
                  + Cardinality(W) + Number1(H) + Number1(P) + Cardinality(R)
  BY DEF Places, Downstream
<1>3. /\ Cardinality(F) = Number1(F # {}) /\ Cardinality(M) = Number1(M # {})
      /\ Cardinality(O) = Number1(O # {}) /\ Cardinality(W) = Number1(W # {})
      /\ Cardinality(R) = Number1(R # {})
  <2>1. \A x, y \in F : x = y
    BY <1>1 DEF Singles, Once
  <2>2. \A x, y \in M : x = y
    BY <1>1 DEF Singles, Once
  <2>3. \A x, y \in O : x = y
    BY <1>1 DEF Singles, Once
  <2>4. \A x, y \in W : x = y
    BY <1>1 DEF Singles, Holds, Holding
  <2>5. \A x, y \in R : x = y
    BY <1>1 DEF Singles, Bears, Carries
  <2> HIDE DEF F, M, O, W, R
  <2> QED
    BY <2>1, <2>2, <2>3, <2>4, <2>5, AtMostOne
<1>4. Cardinality(T) = Number1(T # {}) /\ (T # {} <=> i < next)
  <2>1. /\ next \in Nat /\ DOMAIN written = 1..next
        /\ \A k \in 1..next : written[k].index = k - 1
    BY DEF Ordered, TypeOK
  <2>2. \A x, y \in T : x = y
    BY <1>1, <2>1
  <2>3. i < next => i + 1 \in T
    BY <1>1, <2>1
  <2>4. T # {} => i < next
    BY <1>1, <2>1
  <2> HIDE DEF T
  <2> QED
    BY <2>2, <2>3, <2>4, AtMostOne
<1>5. /\ F # {} <=> Where("feed", i)
      /\ M # {} <=> Where("mid", i)
      /\ O # {} <=> Where("out", i)
      /\ T # {} <=> Where("written", i)
      /\ W # {} <=> Where("worker", i)
      /\ R # {} <=> Where("reader", i)
      /\ H <=> Where("taken", i)
      /\ P <=> Where("pending", i)
  <2>1. (F # {} <=> Has(feed, i)) /\ (M # {} <=> Has(mid, i)) /\ (O # {} <=> Has(out, i))
    BY DEF Has
  <2>2. W # {} <=> \E w \in Workers : Holds(w, i)
    BY DEF Holds, Holding
  <2>3. R # {} <=> \E r \in Readers : Bears(r, i)
    BY DEF Bears, Carries
  <2> HIDE DEF F, M, O, T, W, R
  <2> QED
    BY <1>4, <2>1, <2>2, <2>3 DEF Where
<1>6. \A p, q \in Stops : Where(p, i) /\ Where(q, i) => p = q
  BY <1>1 DEF Apart
<1> HIDE DEF F, M, O, T, W, R, H, P
<1>7. Places(i) = Number1(Where("feed", i)) + Number1(Where("mid", i)) + Number1(Where("out", i))
                  + Number1(Where("written", i)) + Number1(Where("worker", i))
                  + Number1(Where("taken", i)) + Number1(Where("pending", i))
                  + Number1(Where("reader", i))
  BY <1>2, <1>3, <1>4, <1>5
<1>8. CASE \E p \in Stops : Where(p, i)
  BY <1>6, <1>7, <1>8 DEF Stops
<1>9. CASE ~\E p \in Stops : Where(p, i)
  BY <1>7, <1>9 DEF Stops
<1> QED
  BY <1>8, <1>9

LEMMA ApartOnce == IInv /\ Apart /\ Singles => EverySegmentOnce
<1> SUFFICES ASSUME IInv, Apart, Singles, NEW i \in 0..(count - 1)
             PROVE  Places(i) <= 1 /\ (Undisturbed => Places(i) = 1)
  BY DEF EverySegmentOnce
<1>1. i \in Nat /\ i < count
  BY DEF IInv, TypeOK
<1>2. Undisturbed => \E s : Present(s) /\ s.index = i
  BY <1>1 DEF IInv, Accounted
<1>3. Places(i) \in {0, 1} /\ ((\E p \in Stops : Where(p, i)) => Places(i) = 1)
  BY PlacesAreStops
<1> QED
  BY <1>1, <1>2, <1>3, WhereIsPresent

\* No stage loses or repeats a numbered segment on its way
\* (readers.rs:160-178, worker.rs:31-85, encrypt.rs:77-109, pipeline.rs:213-234).
THEOREM SegmentsAreOnce ==
  ASSUME MemoryHasOneReader
  PROVE  Spec => []EverySegmentOnce
<1>1. Init => Apart /\ Singles
  <2> SUFFICES ASSUME Init PROVE Apart /\ Singles
    OBVIOUS
  <2>1. count = 0
    BY DEF Init, ReadersInit
  <2> QED
    BY <2>1 DEF Apart, Singles
<1> QED
  BY <1>1, InitIInv, NextIInv, NextApart, ApartOnce, PTL DEF Spec
=============================================================================
