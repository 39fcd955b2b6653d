------------------------------- MODULE Scheduler -------------------------------
(***************************************************************************)
(* The compression workers of one pipeline and the scheduler they share    *)
(* behind a mutex, on any machine and with any profile the constructors of *)
(* HybridParallelismProfile return for it: dispatch when a segment is      *)
(* taken, complete when it is done, nothing when it fails.  The target is  *)
(* a ledger entry only: a worker compresses with its own backend.          *)
(***************************************************************************)
EXTENDS Profiles, FiniteSets

CONSTANTS
  Gpus, Memories,    \* the machines: devices, free memory
  Wanted, Percents,  \* the numbers in a caller's ParallelismConfig
  NoTarget           \* a worker that holds no target

ASSUME MachinesAssumption == Gpus \subseteq Nat /\ Memories \subseteq Nat
ASSUME InputsAssumption == Wanted \subseteq Nat /\ Percents \subseteq 0..100
ASSUME NoTargetAssumption == NoTarget \notin {"cpu", "gpu"} \X Nat

VARIABLES
  profile,    \* cpu_workers and gpu_workers of the pipeline's profile
  load,       \* cpu_load and gpu_load
  pc,         \* where each worker is
  size,       \* of its segment: "small" or "large" (>= gpu_threshold)
  target,     \* the WorkerTarget it got
  cancelled   \* the monitor's flag

schedulerVars == <<profile, load, pc, size, target, cancelled>>

\* One device of the ledger for every worker of the profile.
Pool(kind) == {kind} \X (0..(IF kind = "gpu" THEN profile.gpu ELSE profile.cpu) - 1)
Devices == Pool("cpu") \cup Pool("gpu")

\* One thread for two CPU workers of the profile, and one for every device.
Workers ==
  ({"cpu"} \X (0..Larger(profile.cpu \div 2, 1) - 1)) \cup
  ({"gpu"} \X (0..profile.gpu - 1))

Machines == [cores : Cores, gpus : Gpus, memory : Memories]
Configs ==
  {DefaultOptions} \cup
  [cpu : Wanted, gpu : Wanted, percent : Percents, hardCap : Wanted]

Profiled ==
  \E m \in Machines, s \in Strategy, c \in ChunkSizes, o \in Configs :
    /\ ~StrategyPanics(m, s, c)
    /\ LET p == WithStrategy(m, s, c, o) IN profile = [cpu |-> p.cpu, gpu |-> p.gpu]

SchedulerInit ==
  /\ Profiled
  /\ load = [d \in Devices |-> 0]
  /\ pc = [w \in Workers |-> "recv"]
  /\ size = [w \in Workers |-> "small"]
  /\ target = [w \in Workers |-> NoTarget]
  /\ cancelled = FALSE

\* recv and the check of the flag: a segment, or the end of the worker.
TakeSegment(w) ==
  /\ pc[w] = "recv"
  /\ \/ /\ ~cancelled
        /\ \E s \in {"small", "large"} : size' = [size EXCEPT ![w] = s]
        /\ pc' = [pc EXCEPT ![w] = "dispatch"]
     \/ pc' = [pc EXCEPT ![w] = "done"] /\ UNCHANGED size
  /\ UNCHANGED <<profile, load, target, cancelled>>

Kind(w) == IF profile.gpu > 0 /\ size[w] = "large" THEN "gpu" ELSE "cpu"

\* Defect: always the first device of the pool.
DispatchFirst(w) ==
  /\ pc[w] = "dispatch"
  /\ load' = [load EXCEPT ![<<Kind(w), 0>>] = @ + 1]
  /\ target' = [target EXCEPT ![w] = <<Kind(w), 0>>]
  /\ pc' = [pc EXCEPT ![w] = "work"]
  /\ UNCHANGED <<profile, size, cancelled>>

Least(kind) == {d \in Pool(kind) : \A e \in Pool(kind) : load[d] <= load[e]}

\* dispatch: the first of the least loaded devices of the pool.  On an empty
\* pool the code panics under the mutex: no step here, see DispatchNeverPanics.
Dispatch(w) ==
  /\ pc[w] = "dispatch"
  /\ \E d \in Least(Kind(w)) :
       /\ \A e \in Least(Kind(w)) : d[2] <= e[2]
       /\ load' = [load EXCEPT ![d] = @ + 1]
       /\ target' = [target EXCEPT ![w] = d]
  /\ pc' = [pc EXCEPT ![w] = "work"]
  /\ UNCHANGED <<profile, size, cancelled>>

\* The segment is compressed and sent on; the FINAL marker is sent as it is.
Succeed(w) ==
  /\ pc[w] = "work"
  /\ pc' = [pc EXCEPT ![w] = "complete"]
  /\ UNCHANGED <<profile, load, size, target, cancelled>>

\* Compression fails: reported, and the worker leaves without complete.
Fail(w) ==
  /\ pc[w] = "work"
  /\ cancelled' = TRUE
  /\ pc' = [pc EXCEPT ![w] = "done"]
  /\ UNCHANGED <<profile, load, size, target>>

\* Defect: the CPU load is taken back whatever the target was.
CompleteCpu(w) ==
  LET d == <<"cpu", target[w][2] % profile.cpu>> IN
  /\ pc[w] = "complete"
  /\ load' = [load EXCEPT ![d] = IF @ > 0 THEN @ - 1 ELSE @]
  /\ target' = [target EXCEPT ![w] = NoTarget]
  /\ pc' = [pc EXCEPT ![w] = "recv"]
  /\ UNCHANGED <<profile, size, cancelled>>

\* complete: a decrement that stops at zero.
Complete(w) ==
  /\ pc[w] = "complete"
  /\ load' = [load EXCEPT ![target[w]] = IF @ > 0 THEN @ - 1 ELSE @]
  /\ target' = [target EXCEPT ![w] = NoTarget]
  /\ pc' = [pc EXCEPT ![w] = "recv"]
  /\ UNCHANGED <<profile, size, cancelled>>

Worker(w) == TakeSegment(w) \/ Dispatch(w) \/ Succeed(w) \/ Fail(w) \/ Complete(w)

AllDone == (\A w \in Workers : pc[w] = "done") /\ UNCHANGED schedulerVars

SchedulerNext == (\E w \in Workers : Worker(w)) \/ AllDone

SchedulerSpec == SchedulerInit /\ [][SchedulerNext]_schedulerVars

-----------------------------------------------------------------------------

Running(d) == {w \in Workers : pc[w] \in {"work", "complete"} /\ target[w] = d}

\* A worker that left without complete: its target is never cleared.
Failed == {w \in Workers : pc[w] = "done" /\ target[w] # NoTarget}

\* The work under way on a device is never more than its load, so that the
\* decrement never stops at zero, and until some worker fails the load is that
\* work exactly (scheduler.rs:57-93, worker.rs:40-43, 57-58).  No more can be
\* said: a worker that fails breaks out of its loop before complete
\* (worker.rs:77-84), where the description of worker completion has it call
\* complete for a failed segment too (parallelism.md:372-384).
LedgerExact ==
  \A d \in Devices :
    /\ Cardinality(Running(d)) <= load[d]
    /\ Failed = {} => load[d] = Cardinality(Running(d))

\* However dispatches and completions interleave, no device is given more
\* than its even share of the worker threads (parallelism.md:290).  The loads
\* failed workers leave behind count as theirs.
EvenShare ==
  \A d \in Devices :
    (load[d] - 1) * Cardinality(Pool(d[1])) < Cardinality(Workers)

\* No profile a constructor returns, on any machine, leaves a worker with an
\* empty pool to dispatch to, where min_by_key(..).unwrap() panics and
\* poisons the mutex for every other worker (profiles.rs:161-343,
\* scheduler.rs:57-77).
DispatchNeverPanics ==
  \A w \in Workers : pc[w] = "dispatch" => Pool(Kind(w)) /= {}
=============================================================================
