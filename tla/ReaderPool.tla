------------------------------ MODULE ReaderPool ------------------------------
(***************************************************************************)
(* The reader threads of the v3 encrypt pipeline: they split the input     *)
(* into chunks, give each chunk a segment index and send it to the         *)
(* compression workers; the last reader to leave sends the FINAL marker.   *)
(*                                                                         *)
(* spawn_reader_common is the same for the three sources; the closures     *)
(* that read and number a chunk differ.  Memory uses the claimed chunk     *)
(* number as index and stores it + 1 in last_dispatched.  File and stream  *)
(* claim an offset first and draw the index from seg_index afterwards      *)
(* (the stream reader is alone and does both under the reader's mutex).    *)
(* Each shared access is an action.                                        *)
(***************************************************************************)
EXTENDS PipelineBase

CONSTANTS
  Readers,   \* reader threads: (cpu_workers / 2).max(1)
  Sources    \* the kinds of input: "memory", "numbered" (file and stream)

ASSUME ReadersAssumption == IsFiniteSet(Readers) /\ Readers # {}
ASSUME SourcesAssumption == Sources \subseteq {"memory", "numbered"} /\ Sources # {}

VARIABLES
  source,     \* the kind of this input
  reader,     \* where each reader is
  item,       \* [index, chunk]: the segment each reader holds
  cursor,     \* the claim counter: seg_index (memory), next_offset (file)
  count,      \* last_dispatched (memory), seg_index (file and stream)
  remaining   \* readers that have not left

readerVars == <<source, reader, item, cursor, count, remaining>>

ReadersInit ==
  /\ source \in Sources
  /\ reader = [r \in Readers |-> "unspawned"]
  /\ item = [r \in Readers |-> Final(0)]
  /\ cursor = 0
  /\ count = 0
  /\ remaining = Cardinality(Readers)

At(r, pc) == reader[r] = pc
Goto(r, pc) == reader' = [reader EXCEPT ![r] = pc]

-----------------------------------------------------------------------------
(* The spawning loop, run by the pipeline function.                        *)

Spawn(r) ==
  /\ At(r, "unspawned")
  /\ ~cancelled
  /\ Goto(r, "read")
  /\ UNCHANGED <<source, item, cursor, count, remaining, feed, errorVars>>

\* Cancelled: the readers not yet spawned are taken off the count at once.
StopSpawning ==
  LET rest == {r \in Readers : At(r, "unspawned")} IN
  /\ rest # {}
  /\ cancelled
  /\ reader' = [r \in Readers |-> IF r \in rest THEN "done" ELSE reader[r]]
  /\ remaining' = remaining - Cardinality(rest)
  /\ UNCHANGED <<source, item, cursor, count, feed, errorVars>>

\* File::open fails: reported, and no reader is ever spawned or counted.
OpenFails ==
  /\ source = "numbered"
  /\ \A r \in Readers : At(r, "unspawned")
  /\ ReportError("read")
  /\ reader' = [r \in Readers |-> "done"]
  /\ remaining' = 0
  /\ UNCHANGED <<source, item, cursor, count, feed>>

SpawningDone == \A r \in Readers : ~At(r, "unspawned")

-----------------------------------------------------------------------------
(* read_next: claim a chunk, then give it its index.                       *)

\* Defect: the end of the input is tried again.
ClaimRetries(r) ==
  /\ At(r, "read")
  /\ IF cursor >= Chunks
       THEN UNCHANGED <<cursor, reader, item>>
       ELSE /\ cursor' = cursor + 1
            /\ Goto(r, "number")
            /\ item' = [item EXCEPT ![r] = Data(cursor, cursor)]
  /\ UNCHANGED <<source, count, remaining, feed, errorVars>>

\* fetch_add on the claim counter; past the end of the input the loop ends.
Claim(r) ==
  /\ At(r, "read")
  /\ cursor' = cursor + 1
  /\ IF cursor >= Chunks
       THEN Goto(r, "leave") /\ UNCHANGED item
       ELSE /\ Goto(r, "number")
            /\ item' = [item EXCEPT ![r] = Data(cursor, cursor)]
  /\ UNCHANGED <<source, count, remaining, feed, errorVars>>

\* last_dispatched.store(idx + 1): not ordered with the other readers' stores.
Publish(r) ==
  /\ source = "memory"
  /\ At(r, "number")
  /\ count' = item[r].index + 1
  /\ Goto(r, "check")
  /\ UNCHANGED <<source, item, cursor, remaining, feed, errorVars>>

\* Defect: a load instead of the fetch_add.
NumberLoads(r) ==
  /\ source = "numbered"
  /\ At(r, "number")
  /\ item' = [item EXCEPT ![r].index = count]
  /\ count' = IF count = 0 THEN 1 ELSE count
  /\ Goto(r, "check")
  /\ UNCHANGED <<source, cursor, remaining, feed, errorVars>>

\* seg_index.fetch_add(1) once the bytes were read.
Number(r) ==
  /\ source = "numbered"
  /\ At(r, "number")
  /\ item' = [item EXCEPT ![r].index = count]
  /\ count' = count + 1
  /\ Goto(r, "check")
  /\ UNCHANGED <<source, cursor, remaining, feed, errorVars>>

\* Defect: the error is taken for the end of the input.
ReadFailsSilently(r) ==
  /\ source = "numbered"
  /\ At(r, "number")
  /\ Goto(r, "leave")
  /\ UNCHANGED <<source, item, cursor, count, remaining, feed, errorVars>>

\* read_at or read fails: reported from inside the closure, the loop ends.
ReadFails(r) ==
  /\ source = "numbered"
  /\ At(r, "number")
  /\ ReportError("read")
  /\ Goto(r, "leave")
  /\ UNCHANGED <<source, item, cursor, count, remaining, feed>>

-----------------------------------------------------------------------------
(* The loop around read_next, and the way out.                             *)

CheckBeforeSend(r) ==
  /\ At(r, "check")
  /\ Goto(r, IF cancelled THEN "leave" ELSE "send")
  /\ UNCHANGED <<source, item, cursor, count, remaining, feed, errorVars>>

Send(r, open) ==
  /\ At(r, "send")
  /\ SendTo(feed, item[r], open)
  /\ Goto(r, "sent")
  /\ UNCHANGED <<source, item, cursor, count, remaining, errorVars>>

CheckAfterSend(r) ==
  /\ At(r, "sent")
  /\ Goto(r, IF cancelled THEN "leave" ELSE "read")
  /\ UNCHANGED <<source, item, cursor, count, remaining, feed, errorVars>>

\* Defect: the count is compared after the decrement.
LeaveTooEarly(r) ==
  /\ At(r, "leave")
  /\ remaining' = remaining - 1
  /\ Goto(r, IF remaining <= 2 THEN "last" ELSE "done")
  /\ UNCHANGED <<source, item, cursor, count, feed, errorVars>>

\* drop(tx); the last to leave runs on_all_done.
Leave(r) ==
  /\ At(r, "leave")
  /\ remaining' = remaining - 1
  /\ Goto(r, IF remaining = 1 THEN "last" ELSE "done")
  /\ UNCHANGED <<source, item, cursor, count, feed, errorVars>>

\* Defect: the FINAL marker takes the index of the last segment.
LoadCountLast(r) ==
  /\ At(r, "last")
  /\ IF count = 0
       THEN /\ ReportError("empty")
            /\ Goto(r, "done")
            /\ UNCHANGED item
       ELSE /\ item' = [item EXCEPT ![r] = Final(count - 1)]
            /\ Goto(r, "final")
            /\ UNCHANGED errorVars
  /\ UNCHANGED <<source, cursor, count, remaining, feed>>

\* on_all_done loads the count; send_final_segment refuses an empty input.
LoadCount(r) ==
  /\ At(r, "last")
  /\ IF count = 0
       THEN /\ ReportError("empty")
            /\ Goto(r, "done")
            /\ UNCHANGED item
       ELSE /\ item' = [item EXCEPT ![r] = Final(count)]
            /\ Goto(r, "final")
            /\ UNCHANGED errorVars
  /\ UNCHANGED <<source, cursor, count, remaining, feed>>

SendFinal(r, open) ==
  /\ At(r, "final")
  /\ SendTo(feed, item[r], open)
  /\ Goto(r, "done")
  /\ UNCHANGED <<source, item, cursor, count, remaining, errorVars>>

ReaderStep(r, open) ==
  \/ Claim(r)
  \/ Publish(r)
  \/ Number(r)
  \/ CheckBeforeSend(r)
  \/ Send(r, open)
  \/ CheckAfterSend(r)
  \/ Leave(r)
  \/ LoadCount(r)
  \/ SendFinal(r, open)

\* Every sender is gone: recv on the empty channel fails.
FeedClosed == \A r \in Readers : At(r, "done")

=============================================================================
