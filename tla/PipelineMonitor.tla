--------------------------- MODULE PipelineMonitor ---------------------------
(***************************************************************************)
(* The error and telemetry channel of one v3 pipeline call: the Monitor    *)
(* handle every thread holds a clone of, the monitor thread that consumes  *)
(* the unbounded channel, and the way the pipeline function turns what the *)
(* monitor thread saw into its own Result.                                 *)
(*                                                                         *)
(* Scoped threads (readers, compression and segment workers, and the       *)
(* pipeline function itself as the writer) are joined by the crossbeam     *)
(* scope.  Detached threads (the frame workers, std::thread::spawn) are    *)
(* not: the only thing that waits for them is the monitor thread, which    *)
(* ends on the first error or when the last clone of monitor_tx is gone.   *)
(*                                                                         *)
(* The writer may leave its loop after a cancellation while the pipeline   *)
(* function keeps the receiver of the bounded channel to it: a scoped      *)
(* thread that sends there then blocks, with its clone, and the scope with *)
(* it.                                                                     *)
(*                                                                         *)
(* An error is identified with the thread that reports it; a telemetry     *)
(* event is the value Telemetry, whatever it carries.                      *)
(***************************************************************************)
EXTENDS Naturals, Sequences, FiniteSets

CONSTANTS
  Scoped,        \* threads joined by the scope (the writer among them)
  Writer,        \* the pipeline function itself
  Detached,      \* frame worker threads
  MaxTelemetry,  \* bound on telemetry events (the code has none)
  NoError,       \* fatal_error = None
  Telemetry      \* any Ok(TelemetryEvent) message

Threads == Scoped \cup Detached

ASSUME ThreadsAssumption ==
  /\ Writer \in Scoped
  /\ Scoped \cap Detached = {}
  /\ NoError \notin Threads
  /\ Telemetry \notin Threads
  /\ "pending" \notin Threads
  /\ "ok" \notin Threads
ASSUME BoundAssumption == MaxTelemetry \in Nat

VARIABLES
  cancelled,   \* Arc<AtomicBool>
  channel,     \* messages in monitor_rx, oldest first
  call,        \* where each thread is inside report_error, "idle" outside
  alive,       \* threads that still hold their Monitor clone
  fatal,       \* fatal_error: Option<StreamError>
  monitor,     \* the monitor thread: "running" or "exited"
  sent,        \* telemetry events sent so far
  merged,      \* telemetry events merged into the global counters
  reported,    \* threads whose report_error call has returned
  result,      \* the pipeline's Result: "pending", "ok", or the error
  blocked      \* threads in a send to the writer that nobody will receive

vars == <<cancelled, channel, call, alive, fatal, monitor, sent, merged,
          reported, result, blocked>>

Messages == Threads \cup {Telemetry}

Init ==
  /\ cancelled = FALSE
  /\ channel = <<>>
  /\ call = [t \in Threads |-> "idle"]
  /\ alive = Threads
  /\ fatal = NoError
  /\ monitor = "running"
  /\ sent = 0
  /\ merged = 0
  /\ reported = {}
  /\ result = "pending"
  /\ blocked = {}

-----------------------------------------------------------------------------
(* report_error: three separate accesses, other threads run in between.    *)

\* The early return: an error reported after cancellation is discarded.
ReportCheck(t) ==
  /\ t \in alive \ blocked
  /\ call[t] = "idle"
  /\ IF cancelled
       THEN /\ reported' = reported \cup {t}
            /\ UNCHANGED call
       ELSE /\ call' = [call EXCEPT ![t] = "send"]
            /\ UNCHANGED reported
  /\ UNCHANGED <<cancelled, channel, alive, fatal, monitor, sent, merged, result, blocked>>

\* monitor_tx.send(Err(err)): never blocks; lost once monitor_rx is dropped.
ReportSend(t) ==
  /\ call[t] = "send"
  /\ channel' = IF monitor = "running" THEN Append(channel, t) ELSE channel
  /\ call' = [call EXCEPT ![t] = "store"]
  /\ UNCHANGED <<cancelled, alive, fatal, monitor, sent, merged, reported, result, blocked>>

\* cancelled.store(true); the call returns.
ReportStore(t) ==
  /\ call[t] = "store"
  /\ cancelled' = TRUE
  /\ call' = [call EXCEPT ![t] = "idle"]
  /\ reported' = reported \cup {t}
  /\ UNCHANGED <<channel, alive, fatal, monitor, sent, merged, result, blocked>>

\* report_telemetry: a send whose result is ignored.
ReportTelemetry(t) ==
  /\ t \in alive \ blocked
  /\ call[t] = "idle"
  /\ sent < MaxTelemetry
  /\ sent' = sent + 1
  /\ channel' = IF monitor = "running" THEN Append(channel, Telemetry) ELSE channel
  /\ UNCHANGED <<cancelled, call, alive, fatal, monitor, merged, reported, result, blocked>>

\* The thread ends (or the pipeline function calls finish) and drops its clone.
DropMonitor(t) ==
  /\ t \in alive \ blocked
  /\ call[t] = "idle"
  /\ alive' = alive \ {t}
  /\ UNCHANGED <<cancelled, channel, call, fatal, monitor, sent, merged, reported, result,
                 blocked>>

\* out_tx.send behind the writer's loop: the channel is full, and out_rx is not
\* dropped before the scope has joined this thread.
Block(t) ==
  /\ t \in (alive \cap Scoped) \ ({Writer} \cup blocked)
  /\ call[t] = "idle"
  /\ cancelled
  /\ blocked' = blocked \cup {t}
  /\ UNCHANGED <<cancelled, channel, call, alive, fatal, monitor, sent, merged, reported, result>>

-----------------------------------------------------------------------------
(* The monitor thread and the end of the pipeline function.                *)

\* Ok(Ok(event)): merge the snapshot.
MonitorMerge ==
  /\ monitor = "running"
  /\ channel # <<>>
  /\ Head(channel) = Telemetry
  /\ merged' = merged + 1
  /\ channel' = Tail(channel)
  /\ UNCHANGED <<cancelled, call, alive, fatal, monitor, sent, reported, result, blocked>>

\* Defect: the loop goes on after an error.
MonitorErrorContinues ==
  /\ monitor = "running"
  /\ channel # <<>>
  /\ Head(channel) # Telemetry
  /\ fatal' = Head(channel)
  /\ cancelled' = TRUE
  /\ channel' = Tail(channel)
  /\ UNCHANGED <<call, alive, monitor, sent, merged, reported, result, blocked>>

\* Ok(Err(err)): record it, cancel, leave the loop (monitor_rx is dropped).
MonitorError ==
  /\ monitor = "running"
  /\ channel # <<>>
  /\ Head(channel) # Telemetry
  /\ fatal' = Head(channel)
  /\ cancelled' = TRUE
  /\ monitor' = "exited"
  /\ channel' = <<>>
  /\ UNCHANGED <<call, alive, sent, merged, reported, result, blocked>>

\* Defect: the monitor thread holds no receiver open for detached threads.
MonitorClosedEarly ==
  /\ monitor = "running"
  /\ channel = <<>>
  /\ alive \cap Scoped = {}
  /\ monitor' = "exited"
  /\ UNCHANGED <<cancelled, channel, call, alive, fatal, sent, merged, reported, result, blocked>>

\* Defect: what is still queued when the senders are gone is not read.
MonitorClosedUndrained ==
  /\ monitor = "running"
  /\ alive = {}
  /\ monitor' = "exited"
  /\ channel' = <<>>
  /\ UNCHANGED <<cancelled, call, alive, fatal, sent, merged, reported, result, blocked>>

\* Defect: the loop ends on the flag instead of on the closed channel.
MonitorClosedOnFlag ==
  /\ monitor = "running"
  /\ channel = <<>>
  /\ cancelled
  /\ monitor' = "exited"
  /\ UNCHANGED <<cancelled, channel, call, alive, fatal, sent, merged, reported, result, blocked>>

\* Err(_): every sender is gone and the channel is drained.
MonitorClosed ==
  /\ monitor = "running"
  /\ channel = <<>>
  /\ alive = {}
  /\ monitor' = "exited"
  /\ UNCHANGED <<cancelled, channel, call, alive, fatal, sent, merged, reported, result, blocked>>

\* Defect: the monitor thread is not joined.
ConcludeEarly ==
  /\ result = "pending"
  /\ alive \cap Scoped = {}
  /\ result' = IF fatal = NoError THEN "ok" ELSE fatal
  /\ UNCHANGED <<cancelled, channel, call, alive, fatal, monitor, sent, merged, reported,
                 blocked>>

\* The scope has joined its threads; fatal_error decides the Result.
Conclude ==
  /\ result = "pending"
  /\ monitor = "exited"
  /\ alive \cap Scoped = {}
  /\ result' = IF fatal = NoError THEN "ok" ELSE fatal
  /\ UNCHANGED <<cancelled, channel, call, alive, fatal, monitor, sent, merged, reported,
                 blocked>>

\* The call has returned, or the scope waits for a blocked thread for ever.
Returned == (result # "pending" \/ blocked # {}) /\ UNCHANGED vars

-----------------------------------------------------------------------------

Thread(t) ==
  \/ ReportCheck(t)
  \/ ReportSend(t)
  \/ ReportStore(t)
  \/ ReportTelemetry(t)
  \/ DropMonitor(t)
  \/ Block(t)

MonitorThread == MonitorMerge \/ MonitorError \/ MonitorClosed

Next ==
  \/ \E t \in Threads : Thread(t)
  \/ MonitorThread
  \/ Conclude
  \/ Returned

(* Every thread that is inside a call finishes it and eventually drops its *)
(* clone, unless it blocks; the monitor thread and the joining thread are  *)
(* scheduled.                                                              *)
Fairness ==
  /\ \A t \in Threads : /\ WF_vars(ReportSend(t) \/ ReportStore(t))
                        /\ WF_vars(DropMonitor(t))
  /\ WF_vars(MonitorThread)
  /\ WF_vars(Conclude)

Spec == Init /\ [][Next]_vars /\ Fairness

-----------------------------------------------------------------------------

\* Type invariant of the monitor's state.
TypeOK ==
  /\ cancelled \in BOOLEAN
  /\ channel \in Seq(Messages)
  /\ call \in [Threads -> {"idle", "send", "store"}]
  /\ alive \subseteq Threads
  /\ fatal \in Threads \cup {NoError}
  /\ monitor \in {"running", "exited"}
  /\ sent \in 0..MaxTelemetry
  /\ merged \in Nat
  /\ reported \subseteq Threads
  /\ result \in {"pending", "ok"} \cup Threads
  /\ blocked \subseteq Scoped

\* No error is swallowed: the pipeline never returns Ok when some thread's
\* report_error has returned, or is past its check, whichever thread it is,
\* detached frame workers included (types.rs:69-88, pipeline.rs:261-264).
NoErrorSwallowed ==
  result = "ok" => /\ reported = {}
                   /\ \A t \in Threads : call[t] = "idle"

\* An error that was discarded because the pipeline was already cancelled
\* never leaves the pipeline without an error to return: cancelled implies
\* that an error is recorded or still queued for the monitor thread.
CancelledHasCause ==
  cancelled =>
    \/ fatal # NoError
    \/ \E i \in DOMAIN channel : channel[i] # Telemetry

\* On Ok every telemetry event sent was merged (pipeline.rs:270-273 reads the
\* totals only after the monitor thread drained the channel).
TelemetryComplete == result = "ok" => merged = sent

\* First error wins: once recorded, the error is never replaced, and it is
\* the one returned (types.rs:70, pipeline.rs:120).
FirstErrorKept == [][fatal # NoError => fatal' = fatal /\ result' \in {"pending", fatal}]_<<fatal, result>>

\* Errors some thread has raised: reported, or queued and about to be.
Raised == reported \cup {t \in Threads : call[t] # "idle"}

Outcome == INSTANCE PipelineOutcome WITH raised <- Raised, outcome <- result

\* The machinery of clones, channel, flag and detached threads implements
\* the promise: Ok only when nothing was raised, an error only when that
\* error was raised, one conclusion (types.rs:69-88, pipeline.rs:105-136, 261-264).
RefinesOutcome == Outcome!Spec

\* The monitor thread leaves, even though nothing joins detached threads and
\* blocked ones never drop their clone, and the pipeline call returns unless a
\* thread has blocked in a send to the writer, which left its loop
\* (types.rs:69-88, pipeline.rs:105-136, 213-226, 261-264).
Concludes == <>(monitor = "exited") /\ <>(result # "pending" \/ blocked # {})
=============================================================================
