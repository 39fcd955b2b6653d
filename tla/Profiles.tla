-------------------------------- MODULE Profiles --------------------------------
(***************************************************************************)
(* The parallelism profile of a pipeline: how many workers it starts and   *)
(* how many segments its channels hold, from the machine, the strategy in  *)
(* the header and the caller's options.  Sizes are in one unit; Saturation *)
(* is u32::MAX in that unit, at which the casts of a byte budget stop.     *)
(*                                                                         *)
(* A machine is [cores, gpus, memory], memory being what                   *)
(* sysinfo::available_memory returns; options are [cpu, gpu, percent,      *)
(* hardCap].                                                               *)
(***************************************************************************)
EXTENDS Naturals

CONSTANTS
  Saturation,  \* u32::MAX
  Kibi,        \* the factor 1024 that takes available_memory for KiB
  Cores,       \* num_cpus of the machines
  ChunkSizes   \* header.chunk_size of the streams

ASSUME SaturationAssumption == Saturation \in Nat \ {0}
ASSUME KibiAssumption == Kibi \in Nat \ {0}
ASSUME CoresAssumption == Cores \subseteq Nat \ {0}
ASSUME ChunkSizesAssumption == ChunkSizes \subseteq Nat

Machine == [cores : Nat \ {0}, gpus : Nat, memory : Nat]
Options == [cpu : Nat, gpu : Nat, percent : 0..100, hardCap : Nat]
Strategy == {"Auto", "Sequential", "Parallel"}

Smaller(a, b) == IF a <= b THEN a ELSE b
Larger(a, b) == IF a <= b THEN b ELSE a

\* saturating_sub
Less(a, b) == IF a > b THEN a - b ELSE 0

\* Ord::clamp: panics on an empty range, see the operators named ...Panics.
Clamp(x, lo, hi) == Larger(lo, Smaller(x, hi))

DefaultOptions == [cpu |-> 1, gpu |-> 0, percent |-> 20, hardCap |-> 4]

Available(machine) == machine.memory * Kibi

\* How many segments of the chunk size fit the budget, as a u32.
Fit(machine, percent, chunk) ==
  Smaller((Available(machine) * percent) \div 100, Saturation) \div chunk

\* The channels hold four segments for a worker, and not more than fit.
Inflight(fit, cpu, gpu) == Larger(Smaller(fit, cpu * 4), Smaller(fit, gpu * 4))

SingleThreaded(machine) ==
  [cpu |-> 1, gpu |-> Clamp(1, 0, machine.gpus), inflight |-> 1]

SemiDynamic(machine, chunk, percent, hardCap) ==
  [cpu |-> Larger(Less(machine.cores, 2), 1),
   gpu |-> machine.gpus,
   inflight |-> Smaller(Fit(machine, percent, chunk), hardCap)]

\* Defect: the lower bound of one CPU worker is forgotten.
DynamicBare(machine, chunk) ==
  LET cpu == Less(machine.cores, 2) IN
  [cpu |-> cpu, gpu |-> machine.gpus,
   inflight |-> Inflight(Fit(machine, 75, chunk), cpu, machine.gpus)]

Dynamic(machine, chunk) ==
  LET cpu == Larger(Less(machine.cores, 2), 1) IN
  [cpu |-> cpu, gpu |-> machine.gpus,
   inflight |-> Inflight(Fit(machine, 75, chunk), cpu, machine.gpus)]

New(machine, chunk, opts) ==
  LET cpu == Clamp(opts.cpu, 1, Less(machine.cores, 1))
      gpu == Clamp(opts.gpu, 0, machine.gpus)
      usable == (Available(machine) * Smaller(opts.percent, 75)) \div 100
      cap == Clamp(opts.hardCap, 1, Larger(usable \div chunk, 1))
  IN
  [cpu |-> cpu, gpu |-> gpu, inflight |-> Inflight(cap, cpu, gpu)]

\* The division by the chunk size, and the clamp to 1..cores - 1.
StrategyPanics(machine, strategy, chunk) ==
  \/ strategy \in {"Auto", "Parallel"} /\ chunk = 0
  \/ strategy = "Parallel" /\ machine.cores < 2

\* with_strategy, where it returns.
WithStrategy(machine, strategy, chunk, opts) ==
  CASE strategy = "Auto" -> Dynamic(machine, chunk)
    [] strategy = "Sequential" -> SingleThreaded(machine)
    [] strategy = "Parallel" -> New(machine, chunk, opts)

\* from_stream_header: a strategy nobody defined is an error.
FromStreamHeader(machine, header, opts) ==
  IF header.strategy \notin Strategy THEN [error |-> "UnknownStrategy"]
  ELSE [profile |-> WithStrategy(machine, header.strategy, header.chunkSize, opts)]
=============================================================================
