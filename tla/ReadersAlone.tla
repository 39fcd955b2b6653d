----------------------------- MODULE ReadersAlone -----------------------------
(***************************************************************************)
(* ReaderPool with a consumer that takes everything off the channel and,   *)
(* when MayFail, an error reported by some other thread at any moment.     *)
(***************************************************************************)
EXTENDS ReaderPool

CONSTANT MayFail   \* whether reads fail and other threads report errors

VARIABLE received  \* what the consumer took off the channel, in order

poolVars == <<readerVars, feed, errorVars, received>>

PoolInit == BaseInit /\ ReadersInit /\ received = <<>>

PoolReceive ==
  /\ feed # <<>>
  /\ received' = Append(received, Head(feed))
  /\ feed' = Tail(feed)
  /\ UNCHANGED <<readerVars, errorVars>>

\* Another stage reports an error.
Cancel ==
  /\ MayFail
  /\ ~cancelled
  /\ ReportError("other")
  /\ UNCHANGED <<readerVars, feed, received>>

PoolReader(r) ==
  /\ \/ ReaderStep(r, TRUE)
     \/ MayFail /\ ReadFails(r)
  /\ UNCHANGED received

PoolSpawner ==
  /\ \/ StopSpawning
     \/ \E r \in Readers : Spawn(r)
     \/ MayFail /\ OpenFails
  /\ UNCHANGED received

PoolFinished == FeedClosed /\ feed = <<>> /\ UNCHANGED poolVars

PoolNext ==
  \/ PoolSpawner
  \/ \E r \in Readers : PoolReader(r)
  \/ PoolReceive
  \/ Cancel
  \/ PoolFinished

(* The threads are scheduled; nothing forces an error.                     *)
PoolFairness ==
  /\ WF_poolVars(PoolSpawner)
  /\ \A r \in Readers : WF_poolVars(PoolReader(r))
  /\ WF_poolVars(PoolReceive)

PoolSpec == PoolInit /\ [][PoolNext]_poolVars /\ PoolFairness

-----------------------------------------------------------------------------

InFlight == received \o feed
Dispatched == {i \in DOMAIN InFlight : InFlight[i].kind = "data"}

\* No two segments of a run carry the same index, the FINAL marker included:
\* the writer's buffer is keyed by it (readers.rs:302-303, 414-427).
IndicesUnique ==
  \A i, j \in DOMAIN InFlight : i # j => InFlight[i].index # InFlight[j].index

\* When the readers left without an error, every chunk was dispatched exactly
\* once, whichever reader claimed it (readers.rs:297-307, 414-427).
EveryChunkOnce ==
  (FeedClosed /\ ~cancelled) =>
    /\ Cardinality(Dispatched) = Chunks
    /\ {InFlight[i].chunk : i \in Dispatched} = 0..(Chunks - 1)

\* The FINAL marker comes from the last reader to leave: nothing is sent
\* after it, whoever is still in between claim and send (readers.rs:195-203).
FinalIsLast ==
  \A i \in DOMAIN InFlight : InFlight[i].kind = "final" => i = Len(InFlight)

\* And one FINAL marker was, whose index is the number of segments, so that
\* the writer reaches it after all of them: true of the readers of a file, who
\* count with fetch_add (readers.rs:195-229, 414-440).  Those of memory store
\* their count without taking a maximum, so that a slower one leaves a smaller
\* count behind (readers.rs:303, 313): with several of them it is false.
FinalIndexCountsSegments ==
  (FeedClosed /\ ~cancelled) => InFlight[Len(InFlight)] = Final(Chunks)

\* Segment i carries chunk i, so that writing in index order restores the
\* input (readers.rs:289-310, 409-432).
IndexIsChunk == \A i \in Dispatched : InFlight[i].index = InFlight[i].chunk

\* The readers always leave, and the channel to the workers closes.
ReadersLeave == <>FeedClosed
=============================================================================
