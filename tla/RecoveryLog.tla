------------------------------ MODULE RecoveryLog ------------------------------
(***************************************************************************)
(* AsyncLogManager: appends are sent to a background thread, which writes  *)
(* and flushes one line each, rotates the file every rotation_limit lines  *)
(* by renaming it to <path>.<second>, and starts a thread that compresses  *)
(* the archive to <path>.<second>.zst and removes it.                      *)
(*                                                                         *)
(* Entries are numbered in the order they were sent.  A crash ends the     *)
(* process at any moment; the next one opens the same file for append.  A  *)
(* crash inside a write may leave a torn last line, to which the next      *)
(* write is glued: the recovery run skips both (checksum, prefix).         *)
(*                                                                         *)
(* Every call on the file system may fail.  What a failed flush leaves in  *)
(* the BufWriter goes out with the next one; a log file that cannot be     *)
(* opened again ends the log thread; and a compression that fails leaves   *)
(* its archive for ever.  One manager per log file is assumed: two with    *)
(* the same path would rotate it under each other.                         *)
(***************************************************************************)
EXTENDS Naturals, Sequences, FiniteSets

CONSTANTS
  RotationLimit,
  MaxEntries,   \* bound on the entries sent
  MaxClock,     \* bound on the seconds that pass
  MaxCrashes,   \* bound on the crashes
  MaxErrors,    \* bound on the calls on the file system that fail
  SameSecond,   \* whether two rotations may fall into one second
  Rotate,       \* LogCommand::Rotate; any other command is an entry
  Torn,         \* a part of a line, no newline yet
  Garbled       \* a line glued to a torn one

ASSUME BoundsAssumption ==
  /\ RotationLimit \in Nat \ {0}
  /\ {MaxEntries, MaxClock, MaxCrashes, MaxErrors} \subseteq Nat
  /\ SameSecond \in BOOLEAN
ASSUME MarksAssumption ==
  /\ Rotate \notin Nat /\ Torn \notin Nat /\ Garbled \notin Nat
  /\ Torn # Rotate /\ Torn # Garbled

VARIABLES
  next,      \* number of entries sent
  queue,     \* commands the thread has not taken: entries and Rotate
  logging,   \* the log thread runs
  buffer,    \* lines a failed flush left in the BufWriter
  count,     \* lines since the last rotation of this process
  file,      \* lines of the log file: entries, Torn, Garbled
  archives,  \* rotated files by the second in their name
  zipped,    \* .zst files: their lines, <<>> while incomplete
  jobs,      \* compression threads: [second, lines, step]
  abandoned, \* archives whose compression failed or was cut off
  clock,     \* the current second
  flushed,   \* entries that were written and flushed
  crashes,
  errors

diskVars == <<file, archives, zipped>>
logVars == <<queue, logging, buffer, count>>
vars == <<next, logVars, diskVars, jobs, abandoned, clock, flushed, crashes, errors>>

Init ==
  /\ next = 0
  /\ queue = <<>>
  /\ logging = TRUE
  /\ buffer = <<>>
  /\ count = 0
  /\ file = <<>>
  /\ archives = <<>>
  /\ zipped = <<>>
  /\ jobs = {}
  /\ abandoned = {}
  /\ clock = 0
  /\ flushed = {}
  /\ crashes = 0
  /\ errors = 0

\* A file is created or replaced, or removed.
Put(m, k, lines) == [j \in DOMAIN m \cup {k} |-> IF j = k THEN lines ELSE m[j]]
Without(m, k) == [j \in DOMAIN m \ {k} |-> m[j]]
EndsTorn(lines) == lines # <<>> /\ lines[Len(lines)] = Torn

\* O_APPEND at the end of a torn line makes one line of the two.
Extend(lines, line) ==
  IF ~EndsTorn(lines) THEN Append(lines, line)
  ELSE [lines EXCEPT ![Len(lines)] = IF line = Torn THEN Torn ELSE Garbled]

Lines(log) == {log[i] : i \in DOMAIN log}

\* The file after all of these lines were written to it.
Written(lines) ==
  IF lines = <<>> THEN file ELSE Extend(file, Head(lines)) \o Tail(lines)

\* These calls fail in this step.
Failing(calls) ==
  /\ errors + Cardinality(calls) <= MaxErrors
  /\ errors' = errors + Cardinality(calls)

-----------------------------------------------------------------------------

\* append: never blocks, returns before anything was written.  Without a log
\* thread the entry is lost.
AppendEntry ==
  /\ next < MaxEntries
  /\ queue' = IF logging THEN Append(queue, next) ELSE queue
  /\ next' = next + 1
  /\ UNCHANGED <<logging, buffer, count, diskVars, jobs, abandoned, clock, flushed, crashes,
                 errors>>

\* The thread writes and flushes one entry, behind what is left in the buffer;
\* it counts the line even if the flush fails.  A full file sends Rotate to
\* the thread itself, behind what is queued already.
WriteEntry ==
  /\ queue # <<>> /\ Head(queue) # Rotate
  /\ LET lines == Append(buffer, Head(queue)) IN
       \/ /\ Failing({})
          /\ file' = Written(lines) /\ buffer' = <<>>
          /\ flushed' = flushed \cup Lines(lines)
       \/ Failing({"flush"}) /\ buffer' = lines /\ UNCHANGED <<file, flushed>>
  /\ IF count + 1 >= RotationLimit
       THEN queue' = Append(Tail(queue), Rotate) /\ count' = 0
       ELSE queue' = Tail(queue) /\ count' = count + 1
  /\ UNCHANGED <<next, logging, archives, zipped, jobs, abandoned, clock, crashes>>

\* Defect: the entry that could not be written is queued again.
WriteErrorRetries ==
  /\ queue # <<>> /\ Head(queue) # Rotate
  /\ Failing({"write_all"})
  /\ queue' = Append(Tail(queue), Head(queue))
  /\ UNCHANGED <<next, logging, buffer, count, diskVars, jobs, abandoned, clock, flushed, crashes>>

\* write_all fails: the entry is skipped.
WriteError ==
  /\ queue # <<>> /\ Head(queue) # Rotate
  /\ Failing({"write_all"})
  /\ queue' = Tail(queue)
  /\ UNCHANGED <<next, logging, buffer, count, diskVars, jobs, abandoned, clock, flushed, crashes>>

\* Flush (once more as the writer is dropped), rename, and open again.  rename
\* replaces an archive of the same name; when it fails the same file is opened;
\* when that fails the thread panics.
RotateFile ==
  /\ queue # <<>> /\ Head(queue) = Rotate
  /\ \E faults \in SUBSET {"flush", "rename", "open"} :
       /\ Failing(faults)
       /\ LET written == IF "flush" \in faults THEN file ELSE Written(buffer) IN
            \/ /\ "rename" \notin faults
               /\ SameSecond \/ clock \notin DOMAIN archives \cup DOMAIN zipped
               /\ archives' = Put(archives, clock, written)
               /\ jobs' = jobs \cup {[second |-> clock, lines |-> <<>>, step |-> "open"]}
               /\ file' = <<>>
            \/ "rename" \in faults /\ file' = written /\ UNCHANGED <<archives, jobs>>
       /\ flushed' = flushed \cup (IF "flush" \in faults THEN {} ELSE Lines(buffer))
       /\ logging' = ("open" \notin faults)
       /\ queue' = IF "open" \in faults THEN <<>> ELSE Tail(queue)
  /\ buffer' = <<>>
  /\ UNCHANGED <<next, count, zipped, abandoned, clock, crashes>>

-----------------------------------------------------------------------------
(* compress_log_file, in a thread of its own.                              *)

othersVars == <<next, logVars, file, clock, flushed, crashes>>

\* The thread ends and its archive stays: nothing tries again.
Abandon(j) ==
  /\ jobs' = jobs \ {j}
  /\ abandoned' = abandoned \cup {j.second}

\* The archive is opened, and the .zst file created whether or not it was.
CompressOpen(j) ==
  /\ j.step = "open"
  /\ \E faults \in SUBSET {"open", "create"} :
       /\ Failing(faults)
       /\ zipped' = IF "create" \in faults THEN zipped ELSE Put(zipped, j.second, <<>>)
       /\ IF faults = {} /\ j.second \in DOMAIN archives
            THEN /\ jobs' = (jobs \ {j}) \cup
                      {[second |-> j.second, lines |-> archives[j.second], step |-> "copy"]}
                 /\ UNCHANGED abandoned
            ELSE Abandon(j)
  /\ UNCHANGED <<othersVars, archives>>

\* Defect: the .zst file stays empty, and the archive is removed all the same.
CompressCopyEmpty(j) ==
  /\ j.step = "copy"
  /\ jobs' = (jobs \ {j}) \cup {[j EXCEPT !.step = "remove"]}
  /\ UNCHANGED <<othersVars, archives, zipped, abandoned, errors>>

\* Defect: the archive stays beside its .zst file.
CompressCopyEnds(j) ==
  /\ j.step = "copy"
  /\ zipped' = Put(zipped, j.second, j.lines)
  /\ jobs' = jobs \ {j}
  /\ UNCHANGED <<othersVars, archives, abandoned, errors>>

\* copy_encode; when it fails the .zst file stays incomplete.
CompressCopy(j) ==
  /\ j.step = "copy"
  /\ \/ /\ Failing({})
        /\ zipped' = Put(zipped, j.second, j.lines)
        /\ jobs' = (jobs \ {j}) \cup {[j EXCEPT !.step = "remove"]}
        /\ UNCHANGED abandoned
     \/ Failing({"copy"}) /\ Abandon(j) /\ UNCHANGED zipped
  /\ UNCHANGED <<othersVars, archives>>

\* remove_file goes by name; nobody looks whether it fails.
CompressRemove(j) ==
  /\ j.step = "remove"
  /\ \/ /\ Failing({})
        /\ archives' = Without(archives, j.second)
        /\ jobs' = jobs \ {j}
        /\ UNCHANGED abandoned
     \/ Failing({"remove"}) /\ Abandon(j) /\ UNCHANGED archives
  /\ UNCHANGED <<othersVars, zipped>>

Compress(j) == CompressOpen(j) \/ CompressCopy(j) \/ CompressRemove(j)

-----------------------------------------------------------------------------

Tick ==
  /\ clock < MaxClock
  /\ clock' = clock + 1
  /\ UNCHANGED <<next, logVars, diskVars, jobs, abandoned, flushed, crashes, errors>>

\* What the log thread may be writing.
Pending ==
  IF queue = <<>> THEN <<>>
  ELSE IF Head(queue) = Rotate THEN buffer ELSE Append(buffer, Head(queue))

\* Threads, queue and buffer are gone; what was being written may end anywhere.
\* The next process starts.
Crash ==
  /\ crashes < MaxCrashes
  /\ crashes' = crashes + 1
  /\ \E k \in 0..Len(Pending), end \in {<<>>, <<Torn>>} :
       /\ k = Len(Pending) => end = <<>>
       /\ file' = Written(SubSeq(Pending, 1, k) \o end)
  /\ queue' = <<>> /\ buffer' = <<>> /\ count' = 0 /\ logging' = TRUE
  /\ jobs' = {}
  /\ abandoned' = abandoned \cup {j.second : j \in jobs}
  /\ UNCHANGED <<next, archives, zipped, clock, flushed, errors>>

Thread == WriteEntry \/ WriteError \/ RotateFile

Idle == next = MaxEntries /\ queue = <<>> /\ jobs = {} /\ UNCHANGED vars

Next ==
  \/ AppendEntry
  \/ Thread
  \/ \E j \in jobs : Compress(j)
  \/ Tick
  \/ Crash
  \/ Idle

(* The background threads run, and time passes.                            *)
Fairness ==
  /\ WF_vars(Thread)
  /\ WF_vars(\E j \in jobs : Compress(j))
  /\ WF_vars(Tick)

Spec == Init /\ [][Next]_vars /\ Fairness

-----------------------------------------------------------------------------

Stored ==
  Lines(file) \cup UNION ({Lines(archives[s]) : s \in DOMAIN archives}
                          \cup {Lines(zipped[s]) : s \in DOMAIN zipped})

\* What was flushed stays in the file, an archive or a .zst file, whatever
\* rotation or compression is under way and wherever a crash falls between
\* its steps, but for the one line that is glued to a torn one
\* (persist.rs:122-156, 192-200).
FlushedIsKept == Cardinality(flushed \ Stored) <= crashes

\* The log of a second: the archive until it is removed, then its .zst file.
LogOf(s) == IF s \in DOMAIN archives THEN archives[s] ELSE zipped[s]

Entries(log) == Lines(log) \cap Nat
InOrder(log) ==
  \A i, j \in DOMAIN log : i < j /\ {log[i], log[j]} \subseteq Nat => log[i] < log[j]
Before(a, b) == \A x \in Entries(a), y \in Entries(b) : x < y

\* Read in the order of the names, the archives and then the file hold the
\* entries in the order they were sent, each once (persist.rs:120-155).
OrderKept ==
  LET seconds == DOMAIN archives \cup DOMAIN zipped
  IN  /\ InOrder(file)
      /\ \A s \in seconds : InOrder(LogOf(s)) /\ Before(LogOf(s), file)
      /\ \A s, t \in seconds : s < t => Before(LogOf(s), LogOf(t))

\* Every archive ends up compressed and removed, but for those whose
\* compression failed or was cut off by a crash: nothing compresses those any
\* more (persist.rs:146-152, 192-200).
ArchivesAreCompressed == <>[](DOMAIN archives \subseteq abandoned)
=============================================================================
