------------------------ MODULE PipelineMonitorProofs ------------------------
(***************************************************************************)
(* Proofs, for any sets of scoped and detached threads and any number of   *)
(* telemetry events, that no error is swallowed, that an Ok result has all *)
(* its telemetry, and that the monitor implements PipelineOutcome.         *)
(*                                                                         *)
(* None of these is inductive: each rests on the fact that a cancelled     *)
(* pipeline has a cause (an error queued or recorded), which survives      *)
(* report_error's three separate accesses only because the error is sent   *)
(* before the flag is stored, and on the fact that the monitor thread      *)
(* leaves without an error only when no clone of the sender is left.       *)
(***************************************************************************)
EXTENDS PipelineMonitor, TLAPS

\* An error has reached the monitor thread or is waiting for it.
Cause ==
  \/ fatal # NoError
  \/ \E i \in 1..Len(channel) : channel[i] # Telemetry

\* A thread inside report_error still holds its clone.
CallersAlive == \A t \in Threads : call[t] # "idle" => t \in alive

\* Past the send there is a cause, and so there is once the flag is set.
SentHasCause == \A t \in Threads : call[t] = "store" => Cause
FlagHasCause == cancelled => Cause
ReportedSetFlag == reported # {} => cancelled

\* The monitor thread leaves at the first error, and without one only when
\* nobody can report any more.
QuietExit ==
  /\ monitor = "exited" => channel = <<>>
  /\ monitor = "exited" /\ fatal = NoError => alive = {}
  /\ fatal # NoError => monitor = "exited"

\* While there is no error the telemetry is merged or still in the channel.
TelemetryAccounted == ~Cause => merged + Len(channel) = sent

\* Only raised errors travel to the result.
QueuedWasRaised ==
  /\ \A i \in 1..Len(channel) : channel[i] # Telemetry => channel[i] \in Raised
  /\ fatal # NoError => fatal \in Raised

ResultFromFatal ==
  /\ result # "pending" => monitor = "exited"
  /\ result = "ok" => fatal = NoError
  /\ result \notin {"pending", "ok"} => fatal # NoError /\ result = fatal

\* The inductive invariant.
IInv ==
  /\ TypeOK
  /\ CallersAlive
  /\ SentHasCause
  /\ FlagHasCause
  /\ ReportedSetFlag
  /\ QuietExit
  /\ TelemetryAccounted
  /\ QueuedWasRaised
  /\ ResultFromFatal

USE ThreadsAssumption, BoundAssumption
    DEF ThreadsAssumption, BoundAssumption, Threads, Messages

LEMMA InitIInv == Init => IInv
<1> SUFFICES ASSUME Init PROVE IInv
  OBVIOUS
<1> USE DEF Init
<1>1. TypeOK
  <2>1. channel \in Seq(Messages)
    OBVIOUS
  <2>2. call \in [Threads -> {"idle", "send", "store"}]
    OBVIOUS
  <2>3. cancelled \in BOOLEAN /\ alive \subseteq Threads /\ reported \subseteq Threads
    OBVIOUS
  <2>b. blocked \subseteq Scoped
    OBVIOUS
  <2>4. sent \in 0..MaxTelemetry /\ merged \in Nat
    OBVIOUS
  <2> QED
    BY <2>1, <2>2, <2>3, <2>b, <2>4 DEF TypeOK
<1>2. CallersAlive /\ SentHasCause /\ FlagHasCause /\ ReportedSetFlag
  BY DEF CallersAlive, SentHasCause, FlagHasCause, ReportedSetFlag
<1>3. QuietExit /\ TelemetryAccounted /\ ResultFromFatal
  BY DEF QuietExit, TelemetryAccounted, ResultFromFatal
<1>4. QueuedWasRaised
  BY DEF QueuedWasRaised
<1> QED
  BY <1>1, <1>2, <1>3, <1>4 DEF IInv

\* The state after any step has the right types.
LEMMA NextTypeOK == TypeOK /\ [Next]_vars => TypeOK'
<1> SUFFICES ASSUME TypeOK, [Next]_vars PROVE TypeOK'
  OBVIOUS
<1> USE DEF TypeOK
<1>1. ASSUME NEW t \in Threads, ReportCheck(t) PROVE TypeOK'
  BY <1>1 DEF ReportCheck
<1>2. ASSUME NEW t \in Threads, ReportSend(t) PROVE TypeOK'
  BY <1>2 DEF ReportSend
<1>3. ASSUME NEW t \in Threads, ReportStore(t) PROVE TypeOK'
  BY <1>3 DEF ReportStore
<1>4. ASSUME NEW t \in Threads, ReportTelemetry(t) PROVE TypeOK'
  BY <1>4 DEF ReportTelemetry
<1>5. ASSUME NEW t \in Threads, DropMonitor(t) PROVE TypeOK'
  BY <1>5 DEF DropMonitor
<1>b. ASSUME NEW t \in Threads, Block(t) PROVE TypeOK'
  BY <1>b DEF Block
<1>6. CASE MonitorMerge
  BY <1>6 DEF MonitorMerge
<1>7. CASE MonitorError
  BY <1>7 DEF MonitorError
<1>8. CASE MonitorClosed
  BY <1>8 DEF MonitorClosed
<1>9. CASE Conclude
  BY <1>9 DEF Conclude
<1>10. CASE UNCHANGED vars
  BY <1>10 DEF vars
<1> QED
  BY <1>1, <1>2, <1>3, <1>4, <1>5, <1>b, <1>6, <1>7, <1>8, <1>9, <1>10
  DEF Next, Thread, MonitorThread, Returned

\* An error that is queued or recorded is never lost by a step.
LEMMA CauseStable == TypeOK /\ [Next]_vars => (Cause => Cause')
<1> SUFFICES ASSUME TypeOK, [Next]_vars, Cause PROVE Cause'
  OBVIOUS
<1> USE DEF TypeOK, Cause
<1>1. ASSUME NEW t \in Threads, ReportSend(t) PROVE Cause'
  BY <1>1 DEF ReportSend
<1>2. ASSUME NEW t \in Threads, ReportTelemetry(t) PROVE Cause'
  BY <1>2 DEF ReportTelemetry
<1>3. CASE MonitorMerge
  <2>1. /\ channel \in Seq(Messages) /\ channel # <<>> /\ channel[1] = Telemetry
        /\ channel' = Tail(channel) /\ fatal' = fatal
    BY <1>3 DEF MonitorMerge
  <2>2. /\ Len(channel') = Len(channel) - 1
        /\ \A i \in 1..Len(channel') : channel'[i] = channel[i + 1]
    BY <2>1
  <2>3. ASSUME NEW i \in 1..Len(channel), channel[i] # Telemetry
        PROVE  Cause'
    <3>1. i - 1 \in 1..Len(channel') /\ channel'[i - 1] = channel[i]
      BY <2>1, <2>2, <2>3
    <3> QED
      BY <2>3, <3>1
  <2> QED
    BY <2>1, <2>3
<1>4. CASE MonitorError
  BY <1>4 DEF MonitorError
<1>5. ASSUME UNCHANGED <<channel, fatal>> PROVE Cause'
  BY <1>5
<1> QED
  BY <1>1, <1>2, <1>3, <1>4, <1>5
  DEF Next, Thread, MonitorThread, Returned, ReportCheck, ReportStore,
      DropMonitor, Block, MonitorClosed, Conclude, vars

\* The conjuncts about threads inside report_error and about the flag.
LEMMA NextCallers ==
  IInv /\ [Next]_vars =>
    CallersAlive' /\ SentHasCause' /\ FlagHasCause' /\ ReportedSetFlag'
<1> SUFFICES ASSUME IInv, [Next]_vars
             PROVE  CallersAlive' /\ SentHasCause' /\ FlagHasCause' /\ ReportedSetFlag'
  OBVIOUS
<1>0. TypeOK /\ CallersAlive /\ SentHasCause /\ FlagHasCause /\ ReportedSetFlag /\ QuietExit
  BY DEF IInv
<1>c. Cause => Cause'
  BY <1>0, CauseStable
<1> USE DEF TypeOK, CallersAlive, SentHasCause, FlagHasCause, ReportedSetFlag
<1>1. ASSUME NEW t \in Threads, ReportCheck(t)
      PROVE  CallersAlive' /\ SentHasCause' /\ FlagHasCause' /\ ReportedSetFlag'
  BY <1>0, <1>c, <1>1 DEF ReportCheck
<1>2. ASSUME NEW t \in Threads, ReportSend(t)
      PROVE  CallersAlive' /\ SentHasCause' /\ FlagHasCause' /\ ReportedSetFlag'
  <2>1. Cause'
    <3>1. CASE monitor = "running"
      <4>1. channel' = Append(channel, t) /\ channel \in Seq(Messages)
        BY <1>0, <1>2, <3>1 DEF ReportSend
      <4>2. Len(channel') = Len(channel) + 1 /\ channel'[Len(channel) + 1] = t
        BY <4>1
      <4> QED
        BY <4>1, <4>2 DEF Cause
    <3>2. CASE monitor # "running"
      BY <1>0, <1>2, <3>2 DEF ReportSend, QuietExit, Cause
    <3> QED
      BY <3>1, <3>2
  <2> QED
    BY <1>0, <1>2, <2>1 DEF ReportSend
<1>3. ASSUME NEW t \in Threads, ReportStore(t)
      PROVE  CallersAlive' /\ SentHasCause' /\ FlagHasCause' /\ ReportedSetFlag'
  BY <1>0, <1>c, <1>3 DEF ReportStore
<1>4. ASSUME NEW t \in Threads, ReportTelemetry(t)
      PROVE  CallersAlive' /\ SentHasCause' /\ FlagHasCause' /\ ReportedSetFlag'
  BY <1>0, <1>c, <1>4 DEF ReportTelemetry
<1>5. ASSUME NEW t \in Threads, DropMonitor(t)
      PROVE  CallersAlive' /\ SentHasCause' /\ FlagHasCause' /\ ReportedSetFlag'
  BY <1>0, <1>c, <1>5 DEF DropMonitor
<1>b. ASSUME NEW t \in Threads, Block(t)
      PROVE  CallersAlive' /\ SentHasCause' /\ FlagHasCause' /\ ReportedSetFlag'
  BY <1>0, <1>c, <1>b DEF Block
<1>6. CASE MonitorMerge
  BY <1>0, <1>c, <1>6 DEF MonitorMerge
<1>7. CASE MonitorError
  <2>1. Cause'
    BY <1>0, <1>7 DEF MonitorError, Cause
  <2> QED
    BY <1>0, <1>7, <2>1 DEF MonitorError
<1>8. CASE MonitorClosed
  BY <1>0, <1>c, <1>8 DEF MonitorClosed
<1>9. CASE Conclude
  BY <1>0, <1>c, <1>9 DEF Conclude
<1>10. CASE UNCHANGED vars
  BY <1>0, <1>c, <1>10 DEF vars
<1> QED
  BY <1>1, <1>2, <1>3, <1>4, <1>5, <1>b, <1>6, <1>7, <1>8, <1>9, <1>10
  DEF Next, Thread, MonitorThread, Returned

\* The conjuncts about the monitor thread, the telemetry and the result.
LEMMA NextMonitor ==
  IInv /\ [Next]_vars =>
    QuietExit' /\ TelemetryAccounted' /\ ResultFromFatal'
<1> SUFFICES ASSUME IInv, [Next]_vars
             PROVE  QuietExit' /\ TelemetryAccounted' /\ ResultFromFatal'
  OBVIOUS
<1>0. TypeOK /\ CallersAlive /\ QuietExit /\ TelemetryAccounted /\ ResultFromFatal
  BY DEF IInv
<1>c. Cause => Cause'
  BY <1>0, CauseStable
<1> USE DEF TypeOK, CallersAlive, QuietExit, TelemetryAccounted, ResultFromFatal
<1>1. ASSUME NEW t \in Threads, ReportCheck(t)
      PROVE  QuietExit' /\ TelemetryAccounted' /\ ResultFromFatal'
  BY <1>0, <1>c, <1>1 DEF ReportCheck
<1>2. ASSUME NEW t \in Threads, ReportSend(t)
      PROVE  QuietExit' /\ TelemetryAccounted' /\ ResultFromFatal'
  <2>1. Cause'
    <3>1. CASE monitor = "running"
      <4>1. channel' = Append(channel, t) /\ channel \in Seq(Messages)
        BY <1>0, <1>2, <3>1 DEF ReportSend
      <4>2. Len(channel') = Len(channel) + 1 /\ channel'[Len(channel) + 1] = t
        BY <4>1
      <4> QED
        BY <4>1, <4>2 DEF Cause
    <3>2. CASE monitor # "running"
      BY <1>0, <1>2, <3>2 DEF ReportSend, Cause
    <3> QED
      BY <3>1, <3>2
  <2> QED
    BY <1>0, <1>2, <2>1 DEF ReportSend
<1>3. ASSUME NEW t \in Threads, ReportStore(t)
      PROVE  QuietExit' /\ TelemetryAccounted' /\ ResultFromFatal'
  BY <1>0, <1>c, <1>3 DEF ReportStore
<1>4. ASSUME NEW t \in Threads, ReportTelemetry(t)
      PROVE  QuietExit' /\ TelemetryAccounted' /\ ResultFromFatal'
  BY <1>0, <1>c, <1>4 DEF ReportTelemetry, Cause
<1>5. ASSUME NEW t \in Threads, DropMonitor(t)
      PROVE  QuietExit' /\ TelemetryAccounted' /\ ResultFromFatal'
  BY <1>0, <1>c, <1>5 DEF DropMonitor
<1>b. ASSUME NEW t \in Threads, Block(t)
      PROVE  QuietExit' /\ TelemetryAccounted' /\ ResultFromFatal'
  BY <1>0, <1>c, <1>b DEF Block
<1>6. CASE MonitorMerge
  <2>1. ~Cause' => ~Cause /\ Len(channel') = Len(channel) - 1
    BY <1>0, <1>c, <1>6 DEF MonitorMerge
  <2> QED
    BY <1>0, <1>6, <2>1 DEF MonitorMerge
<1>7. CASE MonitorError
  <2>1. Cause'
    BY <1>0, <1>7 DEF MonitorError, Cause
  <2> QED
    BY <1>0, <1>7, <2>1 DEF MonitorError
<1>8. CASE MonitorClosed
  BY <1>0, <1>c, <1>8 DEF MonitorClosed
<1>9. CASE Conclude
  BY <1>0, <1>c, <1>9 DEF Conclude
<1>10. CASE UNCHANGED vars
  BY <1>0, <1>c, <1>10 DEF vars
<1> QED
  BY <1>1, <1>2, <1>3, <1>4, <1>5, <1>b, <1>6, <1>7, <1>8, <1>9, <1>10
  DEF Next, Thread, MonitorThread, Returned

\* What travels through the channel to fatal_error has been raised.
LEMMA NextRaised == IInv /\ [Next]_vars => QueuedWasRaised' /\ Raised \subseteq Raised'
<1> SUFFICES ASSUME IInv, [Next]_vars
             PROVE  QueuedWasRaised' /\ Raised \subseteq Raised'
  OBVIOUS
<1>0. TypeOK /\ QueuedWasRaised
  BY DEF IInv
<1> USE DEF TypeOK, QueuedWasRaised, Raised
<1>1. ASSUME NEW t \in Threads, ReportCheck(t)
      PROVE  QueuedWasRaised' /\ Raised \subseteq Raised'
  BY <1>0, <1>1 DEF ReportCheck
<1>2. ASSUME NEW t \in Threads, ReportSend(t)
      PROVE  QueuedWasRaised' /\ Raised \subseteq Raised'
  <2>1. Raised \subseteq Raised' /\ t \in Raised' /\ fatal' = fatal
    BY <1>0, <1>2 DEF ReportSend
  <2>2. \A i \in 1..Len(channel') :
          channel'[i] # Telemetry => channel'[i] \in Raised \cup {t}
    BY <1>0, <1>2 DEF ReportSend
  <2> QED
    BY <1>0, <2>1, <2>2
<1>3. ASSUME NEW t \in Threads, ReportStore(t)
      PROVE  QueuedWasRaised' /\ Raised \subseteq Raised'
  <2>1. Raised \subseteq Raised'
    BY <1>0, <1>3 DEF ReportStore
  <2> QED
    BY <1>0, <1>3, <2>1 DEF ReportStore
<1>4. ASSUME NEW t \in Threads, ReportTelemetry(t)
      PROVE  QueuedWasRaised' /\ Raised \subseteq Raised'
  BY <1>0, <1>4 DEF ReportTelemetry
<1>5. ASSUME NEW t \in Threads, DropMonitor(t)
      PROVE  QueuedWasRaised' /\ Raised \subseteq Raised'
  BY <1>0, <1>5 DEF DropMonitor
<1>b. ASSUME NEW t \in Threads, Block(t)
      PROVE  QueuedWasRaised' /\ Raised \subseteq Raised'
  BY <1>0, <1>b DEF Block
<1>6. CASE MonitorMerge
  BY <1>0, <1>6 DEF MonitorMerge
<1>7. CASE MonitorError
  <2>1. 1 \in 1..Len(channel) /\ Head(channel) = channel[1]
    BY <1>0, <1>7 DEF MonitorError
  <2> QED
    BY <1>0, <1>7, <2>1 DEF MonitorError
<1>8. CASE MonitorClosed
  BY <1>0, <1>8 DEF MonitorClosed
<1>9. CASE Conclude
  BY <1>0, <1>9 DEF Conclude
<1>10. CASE UNCHANGED vars
  BY <1>0, <1>10 DEF vars
<1> QED
  BY <1>1, <1>2, <1>3, <1>4, <1>5, <1>b, <1>6, <1>7, <1>8, <1>9, <1>10
  DEF Next, Thread, MonitorThread, Returned

\* The strengthening holds in every reachable state, for any threads.
THEOREM InductiveInvariant == Spec => []IInv
<1>1. Init => IInv
  BY InitIInv
<1>2. IInv /\ [Next]_vars => IInv'
  BY NextTypeOK, NextCallers, NextMonitor, NextRaised DEF IInv
<1> QED
  BY <1>1, <1>2, PTL DEF Spec

\* The variables of the monitor keep their types (v3 pipeline/types.rs:43-65).
THEOREM TypeCorrect == Spec => []TypeOK
<1>1. IInv => TypeOK
  BY DEF IInv
<1> QED
  BY <1>1, InductiveInvariant, PTL

\* Ok is returned only if no thread, scoped or detached, has raised an error.
THEOREM NoErrorIsSwallowed == Spec => []NoErrorSwallowed
<1>1. IInv => NoErrorSwallowed
  <2> SUFFICES ASSUME IInv, result = "ok"
               PROVE  reported = {} /\ \A t \in Threads : call[t] = "idle"
    BY DEF NoErrorSwallowed
  <2>1. monitor = "exited" /\ fatal = NoError
    BY DEF IInv, ResultFromFatal
  <2>2. channel = <<>> /\ alive = {}
    BY <2>1 DEF IInv, QuietExit
  <2>3. ~Cause
    BY <2>1, <2>2 DEF Cause
  <2>4. reported = {}
    BY <2>3 DEF IInv, FlagHasCause, ReportedSetFlag
  <2>5. \A t \in Threads : call[t] = "idle"
    BY <2>2 DEF IInv, CallersAlive
  <2> QED
    BY <2>4, <2>5
<1> QED
  BY <1>1, InductiveInvariant, PTL

\* A set cancellation flag always has an error behind it.
THEOREM CancellationHasCause == Spec => []CancelledHasCause
<1>1. IInv => CancelledHasCause
  <2> SUFFICES ASSUME IInv, cancelled, fatal = NoError
               PROVE  \E i \in DOMAIN channel : channel[i] # Telemetry
    BY DEF CancelledHasCause
  <2>1. DOMAIN channel = 1..Len(channel)
    BY DEF IInv, TypeOK
  <2> QED
    BY <2>1 DEF IInv, FlagHasCause, Cause
<1> QED
  BY <1>1, InductiveInvariant, PTL

\* An Ok result has merged every telemetry event that was sent.
THEOREM TelemetryIsComplete == Spec => []TelemetryComplete
<1>1. IInv => TelemetryComplete
  <2> SUFFICES ASSUME IInv, result = "ok"
               PROVE  merged = sent
    BY DEF TelemetryComplete
  <2>1. fatal = NoError /\ channel = <<>>
    BY DEF IInv, ResultFromFatal, QuietExit
  <2>2. Len(channel) = 0 /\ ~Cause
    BY <2>1 DEF Cause
  <2> QED
    BY <2>2 DEF IInv, TypeOK, TelemetryAccounted
<1> QED
  BY <1>1, InductiveInvariant, PTL

\* The recorded error is never replaced and is the one returned.
THEOREM FirstErrorIsKept == Spec => FirstErrorKept
<1>1. IInv /\ [Next]_vars =>
        [fatal # NoError => fatal' = fatal /\ result' \in {"pending", fatal}]_<<fatal, result>>
  <2> SUFFICES ASSUME IInv, [Next]_vars, fatal # NoError
               PROVE  fatal' = fatal /\ result' \in {"pending", fatal}
    OBVIOUS
  <2>1. result \in {"pending", fatal}
    BY DEF IInv, ResultFromFatal
  <2>2. ~MonitorError
    BY DEF MonitorError, IInv, QuietExit, QueuedWasRaised, ResultFromFatal
  <2> QED
    BY <2>1, <2>2
    DEF Next, Thread, MonitorThread, Returned, ReportCheck, ReportSend,
        ReportStore, ReportTelemetry, DropMonitor, Block, MonitorMerge,
        MonitorClosed, Conclude, vars
<1> QED
  BY <1>1, InductiveInvariant, PTL DEF Spec, FirstErrorKept

\* Every step of the monitor is a step of the abstract outcome, or none.
LEMMA StepRefines == IInv /\ IInv' /\ [Next]_vars => [Outcome!Next]_<<Raised, result>>
<1> SUFFICES ASSUME IInv, IInv', [Next]_vars
             PROVE  [Outcome!Next]_<<Raised, result>>
  OBVIOUS
<1>0. TypeOK /\ CallersAlive /\ QueuedWasRaised /\ ResultFromFatal
  BY DEF IInv
<1>ok. result = "ok" => alive = {} /\ Raised = {}
  <2> SUFFICES ASSUME result = "ok" PROVE alive = {} /\ Raised = {}
    OBVIOUS
  <2>1. fatal = NoError /\ monitor = "exited"
    BY DEF IInv, ResultFromFatal
  <2>2. channel = <<>> /\ alive = {} /\ ~Cause
    BY <2>1 DEF IInv, QuietExit, Cause
  <2> QED
    BY <2>2 DEF IInv, FlagHasCause, ReportedSetFlag, CallersAlive, Raised
<1>1. ASSUME NEW t \in Threads, ReportCheck(t) PROVE Outcome!Next
  <2>1. Raised' = Raised \cup {t}
    BY <1>0, <1>1 DEF ReportCheck, TypeOK, Raised
  <2>2. Outcome!Raise(t)
    BY <1>1, <1>ok, <2>1 DEF ReportCheck, Outcome!Raise
  <2> QED
    BY <2>2 DEF Outcome!Next
<1>2. ASSUME NEW t \in Threads, ReportSend(t) \/ ReportStore(t)
      PROVE  UNCHANGED <<Raised, result>>
  <2>1. CASE ReportSend(t)
    BY <1>0, <2>1 DEF ReportSend, TypeOK, Raised
  <2>2. CASE ReportStore(t)
    BY <1>0, <2>2 DEF ReportStore, TypeOK, Raised
  <2> QED
    BY <1>2, <2>1, <2>2
<1>3. CASE Conclude
  <2>1. Raised' = Raised /\ result = "pending"
    BY <1>3 DEF Conclude, Raised
  <2>2. CASE fatal = NoError
    <3>1. result' = "ok" /\ fatal' = NoError /\ monitor' = "exited"
      BY <1>3, <2>2 DEF Conclude
    <3>2. channel' = <<>> /\ alive' = {}
      BY <3>1 DEF IInv, QuietExit
    <3>3. ~Cause'
      BY <3>1, <3>2 DEF Cause
    <3>4. Raised' = {}
      BY <3>2, <3>3 DEF IInv, FlagHasCause, ReportedSetFlag, CallersAlive, Raised
    <3> QED
      BY <2>1, <3>1, <3>4 DEF Outcome!Next, Outcome!Conclude
  <2>3. CASE fatal # NoError
    <3>1. result' = fatal /\ fatal \in Raised
      BY <1>0, <1>3, <2>3 DEF Conclude, QueuedWasRaised
    <3> QED
      BY <2>1, <3>1 DEF Outcome!Next, Outcome!Conclude
  <2> QED
    BY <2>2, <2>3
<1>4. ASSUME UNCHANGED <<call, reported, result>>
      PROVE  UNCHANGED <<Raised, result>>
  BY <1>4 DEF Raised
<1> QED
  BY <1>1, <1>2, <1>3, <1>4
  DEF Next, Thread, MonitorThread, Returned, ReportTelemetry, DropMonitor,
      Block, MonitorMerge, MonitorError, MonitorClosed, vars

\* The monitor implements the promise of PipelineOutcome.
THEOREM ImplementsOutcome == Spec => RefinesOutcome
<1>1. Init => Outcome!Init
  BY DEF Init, Outcome!Init, Raised
<1> QED
  BY <1>1, StepRefines, InductiveInvariant, PTL
  DEF Spec, RefinesOutcome, Outcome!Spec
=============================================================================
