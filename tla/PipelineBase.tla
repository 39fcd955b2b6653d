----------------------------- MODULE PipelineBase -----------------------------
(***************************************************************************)
(* What the threads of one v3 pipeline call share: the channel the readers *)
(* feed, the monitor's flag and the error its thread records.              *)
(***************************************************************************)
EXTENDS Naturals, Sequences, FiniteSets

CONSTANTS
  Chunks,    \* number of chunks of the input
  Capacity,  \* inflight_segments: capacity of every pipeline channel
  NoError    \* fatal_error = None

ASSUME ChunksAssumption == Chunks \in Nat
ASSUME CapacityAssumption == Capacity \in Nat \ {0}

VARIABLES
  feed,       \* channel the readers send on: comp (encrypt), seg (decrypt)
  cancelled,  \* the monitor's flag
  fatal       \* the error the monitor thread records

errorVars == <<cancelled, fatal>>

\* A segment on its way: its index, whether it is the FINAL marker, and the
\* piece of the input it carries.
Data(i, c) == [index |-> i, kind |-> "data", chunk |-> c]
Final(i) == [index |-> i, kind |-> "final", chunk |-> Chunks]

BaseInit ==
  /\ feed = <<>>
  /\ cancelled = FALSE
  /\ fatal = NoError

\* report_error as one step: the caller only leaves after it, and every
\* other access is ordered by the flag.  PipelineMonitor has the three steps.
ReportError(e) ==
  /\ fatal' = IF cancelled THEN fatal ELSE e
  /\ cancelled' = TRUE

\* tx.send blocks while the channel is full; when no receiver is left
\* (open = FALSE) it fails and the segment is dropped.
SendTo(channel, s, open) ==
  IF open THEN Len(channel) < Capacity /\ channel' = Append(channel, s)
          ELSE UNCHANGED channel

=============================================================================
