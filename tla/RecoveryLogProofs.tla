--------------------------- MODULE RecoveryLogProofs ---------------------------
(***************************************************************************)
(* Proof, for any rotation limit, number of entries, crashes and failed    *)
(* calls, that the log keeps what it flushed, and keeps it in order, if no *)
(* two rotations fall into one second.                                     *)
(*                                                                         *)
(* A crash loses at most the entry that is glued to the line it tore.  So  *)
(* IInv counts a torn last line as a loss to come (Losses), and it relates *)
(* the .zst files to their archives (Jobs): a .zst file holds nothing its  *)
(* archive does not hold as long as that is there, and everything when a   *)
(* thread is about to remove it.                                           *)
(***************************************************************************)
EXTENDS RecoveryLog, FiniteSetTheorems, SequenceTheorems, TLAPS

TypeOK ==
  /\ queue \in Seq(Nat \cup {Rotate})
  /\ buffer \in Seq(Nat)
  /\ next \in Nat
  /\ file \in Seq(Nat \cup {Torn, Garbled})
  /\ flushed \subseteq Nat /\ IsFiniteSet(flushed)
  /\ crashes \in Nat
  /\ \A j \in jobs : j = [second |-> j.second, lines |-> j.lines, step |-> j.step]

\* A compression thread has its second for itself.
Jobs ==
  /\ \A j \in jobs : j.second \in DOMAIN archives
  /\ \A j, k \in jobs : j.second = k.second => j = k
  /\ \A j \in jobs : j.step \in {"copy", "remove"} => j.lines = archives[j.second]
  /\ \A j \in jobs : j.step = "remove" => j.second \in DOMAIN zipped /\ zipped[j.second] = j.lines
  /\ \A s \in DOMAIN zipped : s \in DOMAIN archives => Lines(zipped[s]) \subseteq Lines(archives[s])

Lost == flushed \ Stored

\* Every entry lost or about to be lost has its crash.
Losses == Cardinality(Lost) + (IF EndsTorn(file) THEN 1 ELSE 0) <= crashes

\* The inductive invariant.
IInv == TypeOK /\ Jobs /\ Losses

USE MarksAssumption DEF MarksAssumption

-----------------------------------------------------------------------------

LEMMA StoredFacts ==
  \A e : e \in Stored <=> \/ e \in Lines(file)
                          \/ \E s \in DOMAIN archives : e \in Lines(archives[s])
                          \/ \E s \in DOMAIN zipped : e \in Lines(zipped[s])
BY DEF Stored

\* A line that is written ends the file, in the place of a torn one if there
\* is one.
LEMMA ExtendFacts ==
  ASSUME file \in Seq(Nat \cup {Torn, Garbled}), NEW line \in Nat \cup {Torn}
  PROVE  /\ Extend(file, line) \in Seq(Nat \cup {Torn, Garbled})
         /\ \A e \in Nat : e \in Lines(file) => e \in Lines(Extend(file, line))
         /\ ~EndsTorn(file) => line \in Lines(Extend(file, line))
         /\ line \in Nat => ~EndsTorn(Extend(file, line))
         /\ Extend(file, line) # <<>>
<1> DEFINE longer == Extend(file, line)
<1>1. CASE ~EndsTorn(file)
  <2>1. longer = Append(file, line)
    BY <1>1 DEF Extend
  <2>2. /\ longer \in Seq(Nat \cup {Torn, Garbled}) /\ longer # <<>>
        /\ Len(longer) = Len(file) + 1 /\ Len(file) \in Nat
        /\ DOMAIN longer = 1..(Len(file) + 1) /\ DOMAIN file = 1..Len(file)
        /\ \A i \in 1..Len(file) : longer[i] = file[i]
        /\ longer[Len(file) + 1] = line
    BY <2>1
  <2>3. \A e \in Nat : e \in Lines(file) => e \in Lines(longer)
    BY <2>2 DEF Lines
  <2>4. line \in Lines(longer) /\ (line \in Nat => ~EndsTorn(longer))
    BY <2>2 DEF Lines, EndsTorn
  <2> QED
    BY <2>2, <2>3, <2>4
<1>2. CASE EndsTorn(file)
  <2> DEFINE last == IF line = Torn THEN Torn ELSE Garbled
  <2>1. longer = [file EXCEPT ![Len(file)] = last]
    BY <1>2 DEF Extend
  <2>2. file # <<>> /\ file[Len(file)] = Torn /\ Len(file) \in Nat /\ Len(file) # 0
    BY <1>2 DEF EndsTorn
  <2>3. /\ longer \in Seq(Nat \cup {Torn, Garbled}) /\ longer # <<>>
        /\ Len(longer) = Len(file)
        /\ DOMAIN longer = 1..Len(file) /\ DOMAIN file = 1..Len(file)
        /\ \A i \in 1..Len(file) : i # Len(file) => longer[i] = file[i]
        /\ longer[Len(file)] = last
    BY <2>1, <2>2
  <2>4. \A e \in Nat : e \in Lines(file) => e \in Lines(longer)
    BY <2>2, <2>3 DEF Lines
  <2>5. line \in Nat => ~EndsTorn(longer)
    BY <2>3 DEF EndsTorn
  <2> QED
    BY <1>2, <2>3, <2>4, <2>5
<1> QED
  BY <1>1, <1>2

\* All of the lines but the first are there; so is the first unless it is
\* glued to a torn one.
LEMMA WrittenFacts ==
  ASSUME file \in Seq(Nat \cup {Torn, Garbled}), NEW lines \in Seq(Nat \cup {Torn})
  PROVE  /\ Written(lines) \in Seq(Nat \cup {Torn, Garbled})
         /\ \A e \in Nat : e \in Lines(file) => e \in Lines(Written(lines))
         /\ lines # <<>> => Lines(lines) \subseteq Lines(Written(lines)) \cup {Head(lines)}
         /\ ~EndsTorn(file) => Lines(lines) \subseteq Lines(Written(lines))
         /\ lines # <<>> /\ lines[Len(lines)] \in Nat => ~EndsTorn(Written(lines))
<1>1. CASE lines = <<>>
  <2>1. Written(lines) = file /\ Lines(lines) = {}
    BY <1>1 DEF Written, Lines
  <2> QED
    BY <1>1, <2>1
<1>2. CASE lines # <<>>
  <2> DEFINE longer == Extend(file, Head(lines))
             rest == Tail(lines)
             all == longer \o rest
             T == Nat \cup {Torn, Garbled}
  <2>0. /\ Len(lines) \in Nat /\ Len(lines) # 0 /\ DOMAIN lines = 1..Len(lines)
        /\ Head(lines) = lines[1] /\ Head(lines) \in Nat \cup {Torn}
    BY <1>2
  <2>1. /\ longer \in Seq(T)
        /\ \A e \in Nat : e \in Lines(file) => e \in Lines(longer)
        /\ ~EndsTorn(file) => Head(lines) \in Lines(longer)
        /\ Head(lines) \in Nat => ~EndsTorn(longer)
        /\ longer # <<>>
    BY <2>0, ExtendFacts
  <2>2. /\ rest \in Seq(T) /\ Len(rest) = Len(lines) - 1
        /\ \A i \in 1..(Len(lines) - 1) : rest[i] = lines[i + 1]
    BY <1>2
  <2>3. Written(lines) = all
    BY <1>2 DEF Written
  <2> HIDE DEF longer, rest
  <2>4. /\ all \in Seq(T) /\ Len(all) = Len(longer) + Len(rest)
        /\ \A i \in 1..(Len(longer) + Len(rest)) :
             all[i] = IF i <= Len(longer) THEN longer[i] ELSE rest[i - Len(longer)]
    BY <2>1, <2>2, ConcatProperties, Zenon
  <2>5. Len(longer) \in Nat /\ DOMAIN longer = 1..Len(longer) /\ Len(longer) # 0
    BY <2>1
  <2>6. DOMAIN all = 1..(Len(longer) + (Len(lines) - 1))
    BY <2>2, <2>4
  <2> HIDE DEF all
  <2>7. \A x : x \in Lines(longer) => x \in Lines(all)
    BY <2>0, <2>2, <2>4, <2>5, <2>6 DEF Lines
  <2>m. ASSUME NEW i \in 2..Len(lines)
        PROVE  Len(longer) + (i - 1) \in DOMAIN all /\ all[Len(longer) + (i - 1)] = lines[i]
    <3>1. /\ Len(longer) + (i - 1) \in 1..(Len(longer) + Len(rest))
          /\ ~(Len(longer) + (i - 1) <= Len(longer))
          /\ (Len(longer) + (i - 1)) - Len(longer) = i - 1
          /\ i - 1 \in 1..(Len(lines) - 1) /\ (i - 1) + 1 = i
      BY <2>0, <2>2, <2>5
    <3>2. all[Len(longer) + (i - 1)] = rest[i - 1] /\ rest[i - 1] = lines[i]
      BY <2>2, <2>4, <3>1
    <3> QED
      BY <2>2, <2>6, <3>1, <3>2
  <2>8. \A i \in 2..Len(lines) : lines[i] \in Lines(all)
    BY <2>m DEF Lines
  <2>9. Lines(lines) \subseteq Lines(all) \cup {Head(lines)}
    BY <2>0, <2>8 DEF Lines
  <2>10. lines[Len(lines)] \in Nat => ~EndsTorn(all)
    <3> SUFFICES ASSUME lines[Len(lines)] \in Nat PROVE ~EndsTorn(all)
      OBVIOUS
    <3>1. CASE Len(lines) = 1
      <4>1. all[Len(all)] = longer[Len(longer)] /\ Head(lines) \in Nat
        BY <2>0, <2>2, <2>4, <2>5, <3>1
      <4> QED
        BY <2>1, <2>5, <4>1 DEF EndsTorn
    <3>2. CASE Len(lines) # 1
      <4>1. Len(lines) \in 2..Len(lines) /\ Len(all) = Len(longer) + (Len(lines) - 1)
        BY <2>0, <2>2, <2>4, <2>5, <3>2
      <4>2. all[Len(all)] = lines[Len(lines)]
        BY <2>m, <4>1
      <4> QED
        BY <4>2 DEF EndsTorn
    <3> QED
      BY <3>1, <3>2
  <2> QED
    BY <2>1, <2>3, <2>4, <2>7, <2>9, <2>10
<1> QED
  BY <1>1, <1>2

LEMMA DifferenceIsFinite ==
  ASSUME NEW S, NEW T, IsFiniteSet(S)
  PROVE  IsFiniteSet(S \ T) /\ Cardinality(S \ T) \in Nat
<1>1. IsFiniteSet(S \ T)
  BY FS_Subset
<1> QED
  BY <1>1, FS_CardinalityType

LEMMA LostIsFinite == TypeOK => IsFiniteSet(Lost) /\ Cardinality(Lost) \in Nat
BY DifferenceIsFinite DEF TypeOK, Lost

\* A step after which every entry that was stored still is loses nothing.
LEMMA KeepingLosesNothing ==
  ASSUME TypeOK, TypeOK', flushed' = flushed, \A e \in Nat : e \in Stored => e \in Stored'
  PROVE  /\ Cardinality(Lost') <= Cardinality(Lost)
         /\ Cardinality(Lost) \in Nat /\ Cardinality(Lost') \in Nat
<1>1. Lost' \subseteq Lost /\ IsFiniteSet(Lost)
  BY LostIsFinite DEF Lost, TypeOK
<1>2. IsFiniteSet(Lost') /\ Cardinality(Lost') <= Cardinality(Lost)
  BY <1>1, FS_Subset
<1> QED
  BY <1>1, <1>2, FS_CardinalityType

\* Steps that leave the disk and the threads alone.
LEMMA DiskStays ==
  ASSUME IInv, TypeOK', UNCHANGED <<diskVars, jobs, flushed>>, crashes' >= crashes
  PROVE  IInv'
<1>1. UNCHANGED <<file, archives, zipped>>
  BY DEF diskVars
<1>2. Stored' = Stored /\ Lost' = Lost
  BY <1>1 DEF Stored, Lost
<1>3. Cardinality(Lost) \in Nat
  BY LostIsFinite DEF IInv
<1> QED
  BY <1>1, <1>2, <1>3 DEF IInv, Jobs, Losses, TypeOK

-----------------------------------------------------------------------------

LEMMA InitIInv == Init => IInv
<1> SUFFICES ASSUME Init PROVE IInv
  OBVIOUS
<1> USE DEF Init
<1>1. IsFiniteSet(flushed)
  BY FS_EmptySet
<1>2. TypeOK /\ Jobs
  BY <1>1 DEF TypeOK, Jobs
<1>3. Lost = {} /\ ~EndsTorn(file)
  BY DEF Lost, EndsTorn
<1>4. Cardinality(Lost) = 0
  BY <1>3, FS_EmptySet
<1> QED
  BY <1>2, <1>3, <1>4 DEF IInv, Losses

LEMMA LinesAreFinite ==
  ASSUME NEW lines \in Seq(Nat)
  PROVE  IsFiniteSet(Lines(lines)) /\ Lines(lines) \subseteq Nat
<1>1. DOMAIN lines = 1..Len(lines) /\ Len(lines) \in Nat /\ lines \in [1..Len(lines) -> Nat]
  OBVIOUS
<1>2. IsFiniteSet(1..Len(lines))
  BY <1>1, FS_Interval
<1>3. lines \in Surjection(1..Len(lines), Lines(lines))
  BY <1>1 DEF Surjection, Lines
<1>4. IsFiniteSet(Lines(lines))
  BY <1>2, <1>3, FS_Surjection
<1> QED
  BY <1>1, <1>4 DEF Lines

\* Flushing loses at most the line that is glued to a torn one, and then none
\* is torn any more.
LEMMA FlushLosesOne ==
  ASSUME IInv, TypeOK', NEW lines \in Seq(Nat),
         flushed' = flushed \cup Lines(lines),
         \A e \in Nat : e \in Stored \cup Lines(Written(lines)) => e \in Stored'
  PROVE  /\ Cardinality(Lost') + (IF EndsTorn(Written(lines)) THEN 1 ELSE 0) <= crashes
         /\ Cardinality(Lost') \in Nat
<1> DEFINE e == Head(lines)
<1>0. /\ IsFiniteSet(Lost) /\ Cardinality(Lost) \in Nat
      /\ Cardinality(Lost') \in Nat
      /\ lines \in Seq(Nat \cup {Torn}) /\ crashes \in Nat
  <2>1. IsFiniteSet(Lost) /\ Cardinality(Lost) \in Nat
    BY LostIsFinite DEF IInv
  <2>2. Cardinality(Lost') \in Nat
    BY DifferenceIsFinite DEF TypeOK, Lost
  <2>3. lines \in Seq(Nat \cup {Torn})
    OBVIOUS
  <2> QED
    BY <2>1, <2>2, <2>3 DEF IInv, TypeOK
<1>1. CASE lines = <<>>
  <2>1. Written(lines) = file /\ Lines(lines) = {}
    BY <1>1 DEF Written, Lines
  <2>2. Cardinality(Lost') <= Cardinality(Lost)
    BY <2>1, KeepingLosesNothing DEF IInv
  <2> QED
    BY <1>0, <2>1, <2>2 DEF IInv, Losses
<1>2. CASE lines # <<>>
  <2>1. e \in Nat /\ lines[Len(lines)] \in Nat
    BY <1>2
  <2>2. /\ Lines(lines) \subseteq Lines(Written(lines)) \cup {e}
        /\ ~EndsTorn(file) => Lines(lines) \subseteq Lines(Written(lines))
        /\ ~EndsTorn(Written(lines))
    BY <1>0, <1>2, <2>1, WrittenFacts DEF IInv, TypeOK
  <2>3. Lines(lines) \subseteq Nat
    BY DEF Lines
  <2> HIDE DEF e
  <2>4. CASE EndsTorn(file)
    <3>1. Lost' \subseteq Lost \cup {e}
      BY <2>2, <2>3 DEF Lost, IInv, TypeOK
    <3>2. IsFiniteSet(Lost \cup {e}) /\ Cardinality(Lost \cup {e}) <= Cardinality(Lost) + 1
      <4>1. /\ IsFiniteSet(Lost \cup {e})
            /\ Cardinality(Lost \cup {e}) =
                 IF e \in Lost THEN Cardinality(Lost) ELSE Cardinality(Lost) + 1
        BY <1>0, FS_AddElement, Zenon
      <4> QED
        BY <1>0, <4>1
    <3>3. Cardinality(Lost') <= Cardinality(Lost \cup {e}) /\ Cardinality(Lost \cup {e}) \in Nat
      BY <3>1, <3>2, FS_Subset, FS_CardinalityType
    <3> QED
      BY <1>0, <2>2, <2>4, <3>2, <3>3 DEF IInv, Losses
  <2>5. CASE ~EndsTorn(file)
    <3>1. Lost' \subseteq Lost
      BY <2>2, <2>3, <2>5 DEF Lost, IInv, TypeOK
    <3>2. Cardinality(Lost') <= Cardinality(Lost)
      BY <1>0, <3>1, FS_Subset
    <3> QED
      BY <1>0, <2>2, <2>5, <3>2 DEF IInv, Losses
  <2> QED
    BY <2>4, <2>5
<1> QED
  BY <1>1, <1>2

\* The entry reaches the file with what was left in the buffer, or joins it.
LEMMA WriteKeeps ==
  ASSUME IInv, WriteEntry
  PROVE  IInv'
<1> DEFINE lines == Append(buffer, Head(queue))
<1>1. /\ queue # <<>> /\ Head(queue) # Rotate
      /\ UNCHANGED <<next, archives, zipped, jobs, crashes>>
      /\ queue' \in {Append(Tail(queue), Rotate), Tail(queue)}
      /\ \/ file' = Written(lines) /\ buffer' = <<>> /\ flushed' = flushed \cup Lines(lines)
         \/ buffer' = lines /\ UNCHANGED <<file, flushed>>
  BY DEF WriteEntry
<1>2. Head(queue) \in Nat /\ Tail(queue) \in Seq(Nat \cup {Rotate})
  BY <1>1 DEF IInv, TypeOK
<1>3. queue' \in Seq(Nat \cup {Rotate}) /\ lines \in Seq(Nat)
  <2>1. Append(Tail(queue), Rotate) \in Seq(Nat \cup {Rotate})
    BY <1>2
  <2>2. lines \in Seq(Nat)
    BY <1>2 DEF IInv, TypeOK
  <2> QED
    BY <1>1, <1>2, <2>1, <2>2
<1> HIDE DEF lines
<1>4. CASE file' = Written(lines) /\ buffer' = <<>> /\ flushed' = flushed \cup Lines(lines)
  <2>1. /\ Written(lines) \in Seq(Nat \cup {Torn, Garbled})
        /\ \A x \in Nat : x \in Lines(file) => x \in Lines(Written(lines))
    <3>1. lines \in Seq(Nat \cup {Torn})
      BY <1>3
    <3> QED
      BY <3>1, WrittenFacts DEF IInv, TypeOK
  <2>2. IsFiniteSet(Lines(lines)) /\ Lines(lines) \subseteq Nat
    BY <1>3, LinesAreFinite
  <2>3. TypeOK'
    <3>1. IsFiniteSet(flushed')
      BY <1>4, <2>2, FS_Union DEF IInv, TypeOK
    <3> QED
      BY <1>1, <1>3, <1>4, <2>1, <2>2, <3>1 DEF IInv, TypeOK
  <2>4. Jobs'
    BY <1>1 DEF IInv, Jobs
  <2>5. \A x \in Nat : x \in Stored \cup Lines(Written(lines)) => x \in Stored'
    <3>1. \A x : x \in Stored' <=> \/ x \in Lines(file')
                                   \/ \E s \in DOMAIN archives : x \in Lines(archives[s])
                                   \/ \E s \in DOMAIN zipped : x \in Lines(zipped[s])
      BY <1>1 DEF Stored
    <3> QED
      BY <1>4, <2>1, <3>1, StoredFacts
  <2>6. Cardinality(Lost') + (IF EndsTorn(Written(lines)) THEN 1 ELSE 0) <= crashes
    BY <1>3, <1>4, <2>3, <2>5, FlushLosesOne
  <2> QED
    BY <1>1, <1>4, <2>3, <2>4, <2>6 DEF IInv, Losses
<1>5. CASE buffer' = lines /\ UNCHANGED <<file, flushed>>
  <2>1. TypeOK'
    BY <1>1, <1>3, <1>5 DEF IInv, TypeOK
  <2> QED
    BY <1>1, <1>5, <2>1, DiskStays DEF diskVars, IInv, TypeOK
<1> QED
  BY <1>1, <1>4, <1>5

\* What a crash leaves in the file is a beginning of what was being written.
LEMMA PendingCut ==
  ASSUME TypeOK, Crash
  PROVE  \E lines \in Seq(Nat \cup {Torn}) :
           /\ file' = Written(lines)
           /\ Entries(lines) \subseteq Entries(Pending)
           /\ InOrder(Pending) => InOrder(lines)
<1>1. PICK k \in 0..Len(Pending), end \in {<<>>, <<Torn>>} :
        file' = Written(SubSeq(Pending, 1, k) \o end)
  BY DEF Crash
<1>2. Pending \in Seq(Nat) /\ Len(Pending) \in Nat /\ DOMAIN Pending = 1..Len(Pending)
  <2>1. Pending \in Seq(Nat)
    BY DEF TypeOK, Pending
  <2> QED
    BY <2>1
<1> DEFINE front == SubSeq(Pending, 1, k)
           lines == front \o end
           T == Nat \cup {Torn}
<1> HIDE DEF Pending
<1>3. /\ front \in Seq(Nat) /\ Len(front) = k
      /\ \A i \in 1..k : front[i] = Pending[i]
  <2>1. k \in Int /\ 1 \in Int /\ \A i \in 1..k : Pending[i] \in Nat
    BY <1>2
  <2>2. /\ front \in Seq(Nat) /\ Len(front) = IF 1 <= k THEN k - 1 + 1 ELSE 0
        /\ \A i \in 1..(k - 1 + 1) : front[i] = Pending[1 + i - 1]
    BY <2>1, SubSeqProperties
  <2> QED
    BY <2>2
<1> HIDE DEF front
<1>4. /\ end \in Seq(T) /\ Len(end) \in 0..1 /\ front \in Seq(T)
      /\ \A i \in 1..Len(end) : end[i] = Torn
  <2>1. front \in Seq(T)
    BY <1>3
  <2>2. CASE end = <<>>
    BY <2>1, <2>2
  <2>3. CASE end = <<Torn>>
    <3>1. end \in Seq({Torn}) /\ Len(end) = 1 /\ end[1] = Torn
      BY <2>3
    <3>2. end \in Seq(T)
      BY <3>1
    <3> QED
      BY <2>1, <3>1, <3>2
  <2> QED
    BY <2>2, <2>3
<1>5. /\ lines \in Seq(T) /\ Len(lines) = k + Len(end)
      /\ \A i \in 1..(k + Len(end)) : lines[i] = IF i <= k THEN front[i] ELSE end[i - k]
  <2>1. end \in Seq(T) /\ front \in Seq(T)
    BY <1>4
  <2> HIDE DEF T
  <2>2. /\ lines \in Seq(T) /\ Len(lines) = Len(front) + Len(end)
        /\ \A i \in 1..(Len(front) + Len(end)) :
             lines[i] = IF i <= Len(front) THEN front[i] ELSE end[i - Len(front)]
    BY <2>1, ConcatProperties, Zenon
  <2>3. Len(front) = k
    BY <1>3
  <2> QED
    BY <2>2, <2>3, Zenon
<1>6. \A i \in DOMAIN lines : lines[i] \in Nat =>
        i \in 1..k /\ i \in DOMAIN Pending /\ lines[i] = Pending[i]
  <2> SUFFICES ASSUME NEW i \in 1..(k + Len(end)), lines[i] \in Nat
               PROVE  i \in 1..k /\ i \in DOMAIN Pending /\ lines[i] = Pending[i]
    BY <1>4, <1>5
  <2>1. i <= k
    BY <1>4, <1>5
  <2> QED
    BY <1>2, <1>3, <1>5, <2>1
<1>7. \A i \in DOMAIN lines : i \in Int
  BY <1>5
<1>8. file' = Written(lines)
  BY <1>1 DEF front
<1> HIDE DEF lines
<1>9. Entries(lines) \subseteq Entries(Pending)
  BY <1>6 DEF Entries, Lines
<1>10. InOrder(Pending) => InOrder(lines)
  BY <1>6 DEF InOrder
<1> QED
  BY <1>5, <1>8, <1>9, <1>10

\* The flag for a loss to come is only raised by a crash.
LEMMA CrashKeeps ==
  ASSUME IInv, Crash
  PROVE  IInv'
<1>1. /\ crashes' = crashes + 1 /\ queue' = <<>> /\ buffer' = <<>> /\ jobs' = {}
      /\ UNCHANGED <<next, archives, zipped, flushed>>
  BY DEF Crash
<1>2. PICK lines \in Seq(Nat \cup {Torn}) : file' = Written(lines)
  BY PendingCut DEF IInv
<1>3. /\ file' \in Seq(Nat \cup {Torn, Garbled})
      /\ \A x \in Nat : x \in Lines(file) => x \in Lines(file')
  BY <1>2, WrittenFacts DEF IInv, TypeOK
<1>4. TypeOK' /\ Jobs'
  BY <1>1, <1>3 DEF IInv, TypeOK, Jobs
<1>5. \A x \in Nat : x \in Stored => x \in Stored'
  <2>1. \A x : x \in Stored' <=> \/ x \in Lines(file')
                                 \/ \E s \in DOMAIN archives : x \in Lines(archives[s])
                                 \/ \E s \in DOMAIN zipped : x \in Lines(zipped[s])
    BY <1>1 DEF Stored
  <2> QED
    BY <1>3, <2>1, StoredFacts
<1>6. /\ Cardinality(Lost') <= Cardinality(Lost)
      /\ Cardinality(Lost) \in Nat /\ Cardinality(Lost') \in Nat
  BY <1>1, <1>4, <1>5, KeepingLosesNothing DEF IInv
<1> QED
  BY <1>1, <1>4, <1>6 DEF IInv, Losses, TypeOK

\* The archive gets a name of its own, and what was in the buffer is written
\* or gone.
LEMMA RotateKeeps ==
  ASSUME IInv, RotateFile, ~SameSecond
  PROVE  IInv'
<1>1. PICK faults \in SUBSET {"flush", "rename", "open"} :
        LET written == IF "flush" \in faults THEN file ELSE Written(buffer) IN
          /\ \/ /\ "rename" \notin faults
                /\ SameSecond \/ clock \notin DOMAIN archives \cup DOMAIN zipped
                /\ archives' = Put(archives, clock, written)
                /\ jobs' = jobs \cup {[second |-> clock, lines |-> <<>>, step |-> "open"]}
                /\ file' = <<>>
             \/ "rename" \in faults /\ file' = written /\ UNCHANGED <<archives, jobs>>
          /\ flushed' = flushed \cup (IF "flush" \in faults THEN {} ELSE Lines(buffer))
          /\ queue' = IF "open" \in faults THEN <<>> ELSE Tail(queue)
  BY DEF RotateFile
<1> DEFINE lines == IF "flush" \in faults THEN <<>> ELSE buffer
           written == Written(lines)
<1>2. /\ queue # <<>> /\ buffer' = <<>> /\ UNCHANGED <<next, zipped, crashes>>
      /\ queue' \in {<<>>, Tail(queue)}
      /\ flushed' = flushed \cup Lines(lines)
      /\ \/ /\ clock \notin DOMAIN archives /\ clock \notin DOMAIN zipped
            /\ archives' = Put(archives, clock, written)
            /\ jobs' = jobs \cup {[second |-> clock, lines |-> <<>>, step |-> "open"]}
            /\ file' = <<>>
         \/ file' = written /\ UNCHANGED <<archives, jobs>>
  <2>1. Lines(<<>>) = {} /\ Written(<<>>) = file
    BY DEF Lines, Written
  <2> QED
    BY <1>1, <2>1 DEF RotateFile
<1>3. lines \in Seq(Nat) /\ lines \in Seq(Nat \cup {Torn})
  BY DEF IInv, TypeOK
<1> HIDE DEF lines
<1>4. /\ written \in Seq(Nat \cup {Torn, Garbled})
      /\ \A x \in Nat : x \in Lines(file) => x \in Lines(written)
  BY <1>3, WrittenFacts DEF IInv, TypeOK
<1>5. TypeOK'
  <2>1. queue' \in Seq(Nat \cup {Rotate})
    <3>1. <<>> \in Seq(Nat \cup {Rotate}) /\ Tail(queue) \in Seq(Nat \cup {Rotate})
      BY <1>2 DEF IInv, TypeOK
    <3> QED
      BY <1>2, <3>1
  <2>2. file' \in Seq(Nat \cup {Torn, Garbled})
    <3>1. <<>> \in Seq(Nat \cup {Torn, Garbled})
      OBVIOUS
    <3> QED
      BY <1>2, <1>4, <3>1
  <2>3. IsFiniteSet(flushed') /\ flushed' \subseteq Nat
    BY <1>2, <1>3, LinesAreFinite, FS_Union DEF IInv, TypeOK
  <2>4. buffer' \in Seq(Nat)
    BY <1>2
  <2> QED
    BY <1>2, <2>1, <2>2, <2>3, <2>4 DEF IInv, TypeOK
<1> HIDE DEF written
<1>6. CASE /\ clock \notin DOMAIN archives /\ clock \notin DOMAIN zipped
           /\ archives' = Put(archives, clock, written)
           /\ jobs' = jobs \cup {[second |-> clock, lines |-> <<>>, step |-> "open"]}
           /\ file' = <<>>
  <2>1. /\ DOMAIN archives' = DOMAIN archives \cup {clock}
        /\ archives'[clock] = written
        /\ \A s \in DOMAIN archives : archives'[s] = archives[s]
    BY <1>6 DEF Put
  <2>2. Jobs'
    BY <1>2, <1>6, <2>1 DEF IInv, Jobs
  <2>3. \A x \in Nat : x \in Stored \cup Lines(written) => x \in Stored'
    <3>1. \A x : x \in Stored' <=> \/ x \in Lines(file')
                                   \/ \E s \in DOMAIN archives' : x \in Lines(archives'[s])
                                   \/ \E s \in DOMAIN zipped : x \in Lines(zipped[s])
      BY <1>2 DEF Stored
    <3> QED
      BY <1>4, <2>1, <3>1, StoredFacts
  <2>4. /\ Cardinality(Lost') + (IF EndsTorn(written) THEN 1 ELSE 0) <= crashes
        /\ Cardinality(Lost') \in Nat
    BY <1>2, <1>3, <1>5, <2>3, FlushLosesOne DEF written
  <2>5. ~EndsTorn(file')
    BY <1>6 DEF EndsTorn
  <2> QED
    BY <1>2, <1>5, <2>2, <2>4, <2>5 DEF IInv, Losses, TypeOK
<1>7. CASE file' = written /\ UNCHANGED <<archives, jobs>>
  <2>1. Jobs'
    BY <1>2, <1>7 DEF IInv, Jobs
  <2>2. \A x \in Nat : x \in Stored \cup Lines(written) => x \in Stored'
    <3>1. \A x : x \in Stored' <=> \/ x \in Lines(file')
                                   \/ \E s \in DOMAIN archives : x \in Lines(archives[s])
                                   \/ \E s \in DOMAIN zipped : x \in Lines(zipped[s])
      BY <1>2, <1>7 DEF Stored
    <3> QED
      BY <1>4, <1>7, <3>1, StoredFacts
  <2>3. Cardinality(Lost') + (IF EndsTorn(written) THEN 1 ELSE 0) <= crashes
    BY <1>2, <1>3, <1>5, <2>2, FlushLosesOne DEF written
  <2> QED
    BY <1>2, <1>5, <1>7, <2>1, <2>3 DEF IInv, Losses
<1> QED
  BY <1>2, <1>6, <1>7

\* Compression creates the .zst file, fills it, and removes the archive, or
\* stops on the way and leaves the archive.
LEMMA CompressKeeps ==
  ASSUME IInv, NEW j \in jobs, Compress(j)
  PROVE  IInv'
<1>1. UNCHANGED <<next, queue, buffer, file, flushed, crashes>>
  BY DEF Compress, CompressOpen, CompressCopy, CompressRemove, othersVars, logVars
<1>2. j.second \in DOMAIN archives
  BY DEF IInv, Jobs
<1>3. CASE CompressOpen(j)
  <2> DEFINE k == [second |-> j.second, lines |-> archives[j.second], step |-> "copy"]
  <2>1. /\ UNCHANGED archives /\ j.step = "open"
        /\ jobs' \subseteq (jobs \ {j}) \cup {k}
        /\ zipped' = zipped \/ zipped' = Put(zipped, j.second, <<>>)
        /\ k \in jobs' => zipped' = Put(zipped, j.second, <<>>)
    <3>1. PICK faults \in SUBSET {"open", "create"} :
            /\ zipped' = IF "create" \in faults THEN zipped ELSE Put(zipped, j.second, <<>>)
            /\ IF faults = {} /\ j.second \in DOMAIN archives
                 THEN jobs' = (jobs \ {j}) \cup {k}
                 ELSE jobs' = jobs \ {j}
      BY <1>3 DEF CompressOpen, Abandon
    <3>2. UNCHANGED archives /\ j.step = "open"
      BY <1>3 DEF CompressOpen
    <3>3. k \notin jobs
      BY <3>2 DEF IInv, Jobs
    <3> QED
      BY <3>1, <3>2, <3>3
  <2>2. /\ \A s \in DOMAIN zipped' :
             \/ s = j.second /\ zipped'[s] = <<>>
             \/ s \in DOMAIN zipped /\ zipped'[s] = zipped[s]
        /\ \A s \in DOMAIN zipped : s \in DOMAIN zipped' /\ (s # j.second => zipped'[s] = zipped[s])
    BY <2>1 DEF Put
  <2>3. /\ k.second = j.second /\ k.lines = archives[j.second] /\ k.step = "copy"
        /\ k = [second |-> k.second, lines |-> k.lines, step |-> k.step]
    OBVIOUS
  <2> HIDE DEF k
  <2>4. TypeOK'
    BY <1>1, <2>1, <2>3 DEF IInv, TypeOK
  <2>5. Lines(<<>>) = {}
    BY DEF Lines
  <2>6. Jobs'
    BY <1>2, <2>1, <2>2, <2>3, <2>5 DEF IInv, Jobs
  <2>7. \A x \in Nat : x \in Stored => x \in Stored'
    <3>1. \A x : x \in Stored' <=> \/ x \in Lines(file)
                                   \/ \E s \in DOMAIN archives : x \in Lines(archives[s])
                                   \/ \E s \in DOMAIN zipped' : x \in Lines(zipped'[s])
      BY <1>1, <2>1 DEF Stored
    <3>2. Lines(zipped[j.second]) \subseteq Lines(archives[j.second]) \/ j.second \notin DOMAIN zipped
      BY <1>2 DEF IInv, Jobs
    <3> QED
      BY <1>2, <2>2, <3>1, <3>2, StoredFacts
  <2> QED
    BY <1>1, <2>4, <2>6, <2>7, KeepingLosesNothing, LostIsFinite DEF IInv, Losses, TypeOK
<1>4. CASE CompressCopy(j) /\ jobs' = (jobs \ {j}) \cup {[j EXCEPT !.step = "remove"]}
             /\ zipped' = Put(zipped, j.second, j.lines)
  <2> DEFINE k == [j EXCEPT !.step = "remove"]
  <2>1. /\ UNCHANGED archives /\ j.step = "copy" /\ j.lines = archives[j.second]
        /\ jobs' = (jobs \ {j}) \cup {k}
    BY <1>4 DEF CompressCopy, IInv, Jobs
  <2>2. /\ DOMAIN zipped' = DOMAIN zipped \cup {j.second}
        /\ zipped'[j.second] = j.lines
        /\ \A s \in DOMAIN zipped : s # j.second => zipped'[s] = zipped[s]
    BY <1>4 DEF CompressCopy, Put
  <2>3. /\ k.second = j.second /\ k.lines = j.lines /\ k.step = "remove"
        /\ k = [second |-> k.second, lines |-> k.lines, step |-> k.step]
    BY DEF IInv, TypeOK
  <2> HIDE DEF k
  <2>4. TypeOK'
    BY <1>1, <2>1, <2>3 DEF IInv, TypeOK
  <2>5. Jobs'
    BY <1>2, <2>1, <2>2, <2>3 DEF IInv, Jobs
  <2>6. \A x \in Nat : x \in Stored => x \in Stored'
    <3>1. \A x : x \in Stored' <=> \/ x \in Lines(file)
                                   \/ \E s \in DOMAIN archives : x \in Lines(archives[s])
                                   \/ \E s \in DOMAIN zipped' : x \in Lines(zipped'[s])
      BY <1>1, <2>1 DEF Stored
    <3>2. Lines(zipped[j.second]) \subseteq Lines(archives[j.second]) \/ j.second \notin DOMAIN zipped
      BY <1>2 DEF IInv, Jobs
    <3> QED
      BY <1>2, <2>2, <3>1, <3>2, StoredFacts
  <2> QED
    BY <1>1, <2>4, <2>5, <2>6, KeepingLosesNothing, LostIsFinite DEF IInv, Losses, TypeOK
<1>5. CASE CompressRemove(j) /\ archives' = Without(archives, j.second)
  <2>1. /\ UNCHANGED zipped /\ jobs' = jobs \ {j}
        /\ j.second \in DOMAIN zipped /\ zipped[j.second] = archives[j.second]
    BY <1>5 DEF CompressRemove, Abandon, IInv, Jobs
  <2>2. /\ DOMAIN archives' = DOMAIN archives \ {j.second}
        /\ \A s \in DOMAIN archives : s # j.second => archives'[s] = archives[s]
    BY <1>5 DEF CompressRemove, Without
  <2>3. TypeOK'
    BY <1>1, <2>1 DEF IInv, TypeOK
  <2>4. Jobs'
    BY <2>1, <2>2 DEF IInv, Jobs
  <2>5. \A x \in Nat : x \in Stored => x \in Stored'
    <3>1. \A x : x \in Stored' <=> \/ x \in Lines(file)
                                   \/ \E s \in DOMAIN archives' : x \in Lines(archives'[s])
                                   \/ \E s \in DOMAIN zipped : x \in Lines(zipped[s])
      BY <1>1, <2>1 DEF Stored
    <3> QED
      BY <2>1, <2>2, <3>1, StoredFacts
  <2> QED
    BY <1>1, <2>3, <2>4, <2>5, KeepingLosesNothing, LostIsFinite DEF IInv, Losses, TypeOK
<1>6. CASE UNCHANGED <<archives, zipped>> /\ jobs' = jobs \ {j}
  <2>1. TypeOK'
    BY <1>1, <1>6 DEF IInv, TypeOK
  <2>2. Jobs'
    BY <1>6 DEF IInv, Jobs
  <2>3. Lost' = Lost
    BY <1>1, <1>6 DEF Lost, Stored
  <2> QED
    BY <1>1, <2>1, <2>2, <2>3 DEF IInv, Losses
<1>7. CASE CompressCopy(j)
  BY <1>4, <1>6, <1>7 DEF CompressCopy, Abandon
<1>8. CASE CompressRemove(j)
  BY <1>5, <1>6, <1>8 DEF CompressRemove, Abandon
<1> QED
  BY <1>3, <1>7, <1>8 DEF Compress

LEMMA NextIInv == ~SameSecond /\ IInv /\ [Next]_vars => IInv'
<1> SUFFICES ASSUME ~SameSecond, IInv, [Next]_vars PROVE IInv'
  OBVIOUS
<1>1. CASE AppendEntry
  <2>1. /\ queue' \in {Append(queue, next), queue} /\ next' = next + 1
        /\ UNCHANGED <<diskVars, jobs, flushed, crashes, file, buffer>>
    BY <1>1 DEF AppendEntry, diskVars
  <2>2. queue' \in Seq(Nat \cup {Rotate})
    <3>1. queue \in Seq(Nat \cup {Rotate}) /\ next \in Nat \cup {Rotate}
      BY DEF IInv, TypeOK
    <3>2. Append(queue, next) \in Seq(Nat \cup {Rotate})
      BY <3>1
    <3> QED
      BY <2>1, <3>1, <3>2
  <2>3. TypeOK'
    BY <2>1, <2>2 DEF IInv, TypeOK
  <2> QED
    BY <2>1, <2>3, DiskStays DEF TypeOK, IInv
<1>2. CASE WriteError
  <2>1. /\ queue' = Tail(queue) /\ queue # <<>>
        /\ UNCHANGED <<next, diskVars, jobs, flushed, crashes, file, buffer>>
    BY <1>2 DEF WriteError, diskVars
  <2>2. queue' \in Seq(Nat \cup {Rotate})
    BY <2>1 DEF IInv, TypeOK
  <2>3. TypeOK'
    BY <2>1, <2>2 DEF IInv, TypeOK
  <2> QED
    BY <2>1, <2>3, DiskStays DEF TypeOK, IInv
<1>3. CASE Tick \/ UNCHANGED vars
  <2>1. UNCHANGED <<next, queue, diskVars, jobs, flushed, crashes, file, buffer>>
    BY <1>3 DEF Tick, vars, diskVars, logVars
  <2>2. TypeOK'
    BY <2>1 DEF IInv, TypeOK
  <2> QED
    BY <2>1, <2>2, DiskStays DEF TypeOK, IInv
<1>4. CASE Thread
  BY <1>2, <1>4, WriteKeeps, RotateKeeps DEF Thread
<1>5. CASE \E j \in jobs : Compress(j)
  BY <1>5, CompressKeeps
<1>6. CASE Crash
  BY <1>6, CrashKeeps
<1> QED
  BY <1>1, <1>3, <1>4, <1>5, <1>6 DEF Next, Idle

\* Whatever rotations, compressions, failed writes and crashes there are, a
\* crash costs at most one flushed entry (persist.rs:122-156, 192-200).
THEOREM FlushedEntriesAreKept ==
  ASSUME ~SameSecond
  PROVE  Spec => []FlushedIsKept
<1>1. IInv => FlushedIsKept
  <2>1. IInv => Cardinality(Lost) \in Nat
    BY LostIsFinite DEF IInv
  <2> QED
    BY <2>1 DEF IInv, TypeOK, Losses, FlushedIsKept, Lost
<1>2. IInv /\ [Next]_vars => IInv'
  BY NextIInv
<1> QED
  BY <1>1, <1>2, InitIInv, PTL DEF Spec

-----------------------------------------------------------------------------
(* The order of the entries.                                               *)

Waiting == Entries(buffer) \cup Entries(queue)
Seconds == DOMAIN archives \cup DOMAIN zipped

\* What waits in the buffer and behind it in the queue is in order, behind all
\* that was written and before all that is still to be sent; the names of the
\* archives are seconds that have passed.
Ordered ==
  /\ clock \in Nat
  /\ Seconds \subseteq 0..clock
  /\ InOrder(buffer) /\ InOrder(queue) /\ Before(buffer, queue)
  /\ \A e \in Waiting : e < next
  /\ \A e \in Waiting, x \in Entries(file) : x < e
  /\ \A s \in Seconds : \A e \in Waiting, x \in Entries(LogOf(s)) : x < e
  /\ \A x \in Entries(file) : x < next
  /\ \A s \in Seconds : \A x \in Entries(LogOf(s)) : x < next
  /\ OrderKept

\* A line that is written is the last one.
LEMMA ExtendOrder ==
  ASSUME file \in Seq(Nat \cup {Torn, Garbled}), NEW line \in Nat \cup {Torn},
         InOrder(file), \A e \in Entries(file) : line \in Nat => e < line
  PROVE  /\ InOrder(Extend(file, line))
         /\ Entries(Extend(file, line)) \subseteq Entries(file) \cup {line}
<1> DEFINE longer == Extend(file, line)
<1>1. CASE ~EndsTorn(file)
  <2>1. longer = Append(file, line)
    BY <1>1 DEF Extend
  <2>2. /\ Len(file) \in Nat
        /\ DOMAIN longer = 1..(Len(file) + 1) /\ DOMAIN file = 1..Len(file)
        /\ \A i \in 1..Len(file) : longer[i] = file[i]
        /\ longer[Len(file) + 1] = line
    BY <2>1
  <2> HIDE DEF longer
  <2>3. \A i \in 1..Len(file) : file[i] \in Nat => file[i] \in Entries(file)
    BY <2>2 DEF Entries, Lines
  <2>4. InOrder(longer)
    BY <2>2, <2>3 DEF InOrder
  <2>5. Entries(longer) \subseteq Entries(file) \cup {line}
    BY <2>2 DEF Entries, Lines
  <2> QED
    BY <2>4, <2>5 DEF longer
<1>2. CASE EndsTorn(file)
  <2> DEFINE last == IF line = Torn THEN Torn ELSE Garbled
  <2>1. longer = [file EXCEPT ![Len(file)] = last]
    BY <1>2 DEF Extend
  <2>2. file # <<>> /\ Len(file) \in Nat /\ Len(file) # 0
    BY <1>2 DEF EndsTorn
  <2>3. /\ DOMAIN longer = 1..Len(file) /\ DOMAIN file = 1..Len(file)
        /\ \A i \in 1..Len(file) : i # Len(file) => longer[i] = file[i]
        /\ longer[Len(file)] = last
    BY <2>1, <2>2
  <2>4. last \notin Nat
    OBVIOUS
  <2> HIDE DEF longer, last
  <2>5. InOrder(longer)
    BY <2>2, <2>3, <2>4 DEF InOrder
  <2>6. Entries(longer) \subseteq Entries(file)
    BY <2>2, <2>3, <2>4 DEF Entries, Lines
  <2> QED
    BY <2>5, <2>6 DEF longer
<1> QED
  BY <1>1, <1>2

\* Lines written in their order end the file in that order.
LEMMA WrittenOrder ==
  ASSUME file \in Seq(Nat \cup {Torn, Garbled}), NEW lines \in Seq(Nat \cup {Torn}),
         InOrder(file), InOrder(lines), Before(file, lines)
  PROVE  /\ InOrder(Written(lines))
         /\ Entries(Written(lines)) \subseteq Entries(file) \cup Entries(lines)
<1>1. CASE lines = <<>>
  BY <1>1 DEF Written
<1>2. CASE lines # <<>>
  <2> DEFINE longer == Extend(file, Head(lines))
             rest == Tail(lines)
             all == longer \o rest
             T == Nat \cup {Torn, Garbled}
  <2>0. /\ Len(lines) \in Nat /\ Len(lines) # 0 /\ DOMAIN lines = 1..Len(lines)
        /\ Head(lines) = lines[1] /\ Head(lines) \in Nat \cup {Torn}
    BY <1>2
  <2>h. Head(lines) \in Nat => Head(lines) \in Entries(lines)
    BY <2>0 DEF Entries, Lines
  <2>1. longer \in Seq(T)
    BY <2>0, ExtendFacts
  <2>2. InOrder(longer) /\ Entries(longer) \subseteq Entries(file) \cup {Head(lines)}
    BY <2>0, <2>h, ExtendOrder DEF Before
  <2>3. /\ rest \in Seq(T) /\ Len(rest) = Len(lines) - 1
        /\ \A i \in 1..(Len(lines) - 1) : rest[i] = lines[i + 1]
    BY <1>2
  <2>4. Written(lines) = all
    BY <1>2 DEF Written
  <2> HIDE DEF longer, rest
  <2>5. /\ all \in Seq(T) /\ Len(all) = Len(longer) + Len(rest)
        /\ \A i \in 1..(Len(longer) + Len(rest)) :
             all[i] = IF i <= Len(longer) THEN longer[i] ELSE rest[i - Len(longer)]
    BY <2>1, <2>3, ConcatProperties, Zenon
  <2>6. /\ Len(longer) \in Nat /\ DOMAIN longer = 1..Len(longer)
        /\ DOMAIN all = 1..(Len(longer) + (Len(lines) - 1))
    BY <2>1, <2>3, <2>5
  <2> HIDE DEF all
  <2>7. \A i \in DOMAIN longer : longer[i] \in Nat =>
          longer[i] \in Entries(file) \/ (longer[i] = lines[1] /\ lines[1] \in Nat)
    BY <2>0, <2>2 DEF Entries, Lines
  <2>8. \A i \in DOMAIN all :
          \/ i \in DOMAIN longer /\ all[i] = longer[i]
          \/ /\ i - Len(longer) + 1 \in 2..Len(lines)
             /\ all[i] = lines[i - Len(longer) + 1]
    BY <2>0, <2>3, <2>5, <2>6
  <2>9. \A i \in DOMAIN lines : lines[i] \in Nat => lines[i] \in Entries(lines)
    BY DEF Entries, Lines
  <2>10. Entries(all) \subseteq Entries(file) \cup Entries(lines)
    <3> SUFFICES ASSUME NEW i \in DOMAIN all, all[i] \in Nat
                 PROVE  all[i] \in Entries(file) \cup Entries(lines)
      BY DEF Entries, Lines
    <3> QED
      BY <2>0, <2>7, <2>8, <2>9
  <2>11. ASSUME NEW i \in DOMAIN all, NEW j \in DOMAIN all, i < j,
                all[i] \in Nat, all[j] \in Nat
         PROVE  all[i] < all[j]
    <3>1. CASE i \in DOMAIN longer /\ j \in DOMAIN longer
      BY <2>2, <2>6, <2>8, <2>11, <3>1 DEF InOrder
    <3>2. CASE i \in DOMAIN longer /\ j \notin DOMAIN longer
      <4>1. j - Len(longer) + 1 \in 2..Len(lines) /\ all[j] = lines[j - Len(longer) + 1]
        BY <2>8, <3>2
      <4>2. all[j] \in Entries(lines) /\ lines[1] \in Nat => lines[1] < all[j]
        BY <2>0, <2>9, <2>11, <4>1 DEF InOrder
      <4>3. all[i] \in Entries(file) \/ (all[i] = lines[1] /\ lines[1] \in Nat)
        BY <2>5, <2>6, <2>7, <2>11, <3>2
      <4>4. all[j] \in Entries(lines)
        BY <2>0, <2>9, <2>11, <4>1
      <4> QED
        BY <4>2, <4>3, <4>4 DEF Before
    <3>3. CASE i \notin DOMAIN longer
      <4>1. j \notin DOMAIN longer
        BY <2>6, <2>11, <3>3
      <4>2. /\ i - Len(longer) + 1 \in 2..Len(lines) /\ all[i] = lines[i - Len(longer) + 1]
            /\ j - Len(longer) + 1 \in 2..Len(lines) /\ all[j] = lines[j - Len(longer) + 1]
        BY <2>8, <3>3, <4>1
      <4>3. i - Len(longer) + 1 < j - Len(longer) + 1
        BY <2>6, <2>11
      <4> QED
        BY <2>0, <2>11, <4>2, <4>3 DEF InOrder
    <3> QED
      BY <3>1, <3>2, <3>3
  <2>12. InOrder(all)
    BY <2>11 DEF InOrder
  <2> QED
    BY <2>4, <2>10, <2>12
<1> QED
  BY <1>1, <1>2

\* The head of the queue comes before the rest of it.
LEMMA TailOrder ==
  ASSUME queue \in Seq(Nat \cup {Rotate}), queue # <<>>, InOrder(queue)
  PROVE  /\ InOrder(Tail(queue))
         /\ Entries(Tail(queue)) \subseteq Entries(queue)
         /\ Head(queue) \in Nat => /\ Head(queue) \in Entries(queue)
                                   /\ \A e \in Entries(Tail(queue)) : Head(queue) < e
<1>1. /\ Len(queue) \in Nat /\ Len(queue) # 0 /\ DOMAIN queue = 1..Len(queue)
      /\ Head(queue) = queue[1]
      /\ DOMAIN Tail(queue) = 1..(Len(queue) - 1)
      /\ \A i \in 1..(Len(queue) - 1) : Tail(queue)[i] = queue[i + 1]
  OBVIOUS
<1>2. InOrder(Tail(queue))
  BY <1>1 DEF InOrder
<1>3. Entries(Tail(queue)) \subseteq Entries(queue)
  BY <1>1 DEF Entries, Lines
<1>4. Head(queue) \in Nat => Head(queue) \in Entries(queue)
  BY <1>1 DEF Entries, Lines
<1>5. ASSUME Head(queue) \in Nat, NEW e \in Entries(Tail(queue)) PROVE Head(queue) < e
  <2>1. PICK i \in 1..(Len(queue) - 1) : e = queue[i + 1] /\ e \in Nat
    BY <1>1 DEF Entries, Lines
  <2> QED
    BY <1>1, <1>5, <2>1 DEF InOrder
<1> QED
  BY <1>2, <1>3, <1>4, <1>5

LEMMA AppendOrder ==
  ASSUME NEW q \in Seq(Nat \cup {Rotate}), NEW e \in Nat \cup {Rotate}, InOrder(q),
         \A x \in Entries(q) : e \in Nat => x < e
  PROVE  InOrder(Append(q, e)) /\ Entries(Append(q, e)) = Entries(q) \cup ({e} \cap Nat)
<1> DEFINE longer == Append(q, e)
<1>1. /\ Len(q) \in Nat
      /\ DOMAIN longer = 1..(Len(q) + 1) /\ DOMAIN q = 1..Len(q)
      /\ \A i \in 1..Len(q) : longer[i] = q[i]
      /\ longer[Len(q) + 1] = e
  OBVIOUS
<1> HIDE DEF longer
<1>2. \A i \in 1..Len(q) : q[i] \in Nat => q[i] \in Entries(q)
  BY <1>1 DEF Entries, Lines
<1>3. InOrder(longer)
  BY <1>1, <1>2 DEF InOrder
<1>4. Entries(longer) = Entries(q) \cup ({e} \cap Nat)
  BY <1>1 DEF Entries, Lines
<1> QED
  BY <1>3, <1>4 DEF longer

LEMMA InitOrdered == Init => Ordered
<1> SUFFICES ASSUME Init PROVE Ordered
  OBVIOUS
<1>1. Entries(<<>>) = {} /\ InOrder(<<>>)
  BY DEF Entries, Lines, InOrder
<1> QED
  BY <1>1 DEF Init, Ordered, OrderKept, Before, Waiting, Seconds

LEMMA EntriesAreNumbers == \A log : \A e \in Entries(log) : e \in Nat
BY DEF Entries

\* Steps that leave the disk alone, and add at most the next entry to what
\* waits.
LEMMA OrderStays ==
  ASSUME Ordered, UNCHANGED <<file, archives, zipped>>, next' >= next, next \in Nat, next' \in Nat,
         clock' >= clock, clock' \in Nat,
         InOrder(buffer'), InOrder(queue'), Before(buffer', queue'),
         Waiting' \subseteq Waiting \cup {next},
         next' > next \/ Waiting' \subseteq Waiting
  PROVE  Ordered'
<1>1. \A s \in Seconds : LogOf(s)' = LogOf(s)
  BY DEF LogOf
<1>2. Seconds' = Seconds
  BY DEF Seconds
<1>3. OrderKept'
  BY <1>1 DEF Ordered, OrderKept, LogOf, Seconds
<1>4. \A e \in Waiting' : e < next'
  BY EntriesAreNumbers DEF Ordered, Waiting
<1>5. /\ \A e \in Waiting', x \in Entries(file') : x < e
      /\ \A x \in Entries(file') : x < next'
  BY EntriesAreNumbers DEF Ordered
<1>6. \A s \in Seconds : /\ \A e \in Waiting', x \in Entries(LogOf(s)) : x < e
                         /\ \A x \in Entries(LogOf(s)) : x < next'
  BY EntriesAreNumbers DEF Ordered
<1>7. Seconds \subseteq 0..clock'
  BY DEF Ordered
<1> QED
  BY <1>1, <1>2, <1>3, <1>4, <1>5, <1>6, <1>7 DEF Ordered

\* A command taken from the queue, and Rotate put behind the others.
LEMMA QueueOrder ==
  ASSUME TypeOK, queue # <<>>, InOrder(queue), Before(buffer, queue),
         queue' \in {Append(Tail(queue), Rotate), Tail(queue)}
  PROVE  /\ InOrder(queue') /\ Entries(queue') \subseteq Entries(queue)
         /\ Before(buffer, queue')
         /\ Head(queue) \in Nat => /\ Head(queue) \in Entries(queue)
                                   /\ \A x \in Entries(queue') : Head(queue) < x
<1>1. queue \in Seq(Nat \cup {Rotate}) /\ Tail(queue) \in Seq(Nat \cup {Rotate})
  BY DEF TypeOK
<1>2. /\ InOrder(Tail(queue)) /\ Entries(Tail(queue)) \subseteq Entries(queue)
      /\ Head(queue) \in Nat => /\ Head(queue) \in Entries(queue)
                                /\ \A x \in Entries(Tail(queue)) : Head(queue) < x
  BY <1>1, TailOrder
<1>3. InOrder(queue') /\ Entries(queue') \subseteq Entries(Tail(queue))
  <2>1. CASE queue' = Tail(queue)
    BY <1>2, <2>1
  <2>2. CASE queue' = Append(Tail(queue), Rotate)
    <3>1. {Rotate} \cap Nat = {}
      OBVIOUS
    <3>2. /\ InOrder(Append(Tail(queue), Rotate))
          /\ Entries(Append(Tail(queue), Rotate)) = Entries(Tail(queue)) \cup ({Rotate} \cap Nat)
      BY <1>1, <1>2, AppendOrder
    <3> QED
      BY <2>2, <3>1, <3>2
  <2> QED
    BY <2>1, <2>2
<1> QED
  BY <1>2, <1>3 DEF Before

\* The buffer with the entry that is to be written behind it.
LEMMA BufferOrder ==
  ASSUME TypeOK, InOrder(buffer), InOrder(queue), Before(buffer, queue),
         queue # <<>>, Head(queue) \in Nat
  PROVE  LET lines == Append(buffer, Head(queue)) IN
           /\ lines \in Seq(Nat) /\ InOrder(lines)
           /\ Entries(lines) = Entries(buffer) \cup {Head(queue)}
           /\ Head(queue) \in Entries(queue)
<1>1. buffer \in Seq(Nat \cup {Rotate}) /\ buffer \in Seq(Nat)
  BY DEF TypeOK
<1>2. Head(queue) \in Entries(queue)
  BY TailOrder DEF TypeOK
<1>3. \A x \in Entries(buffer) : x < Head(queue)
  BY <1>2 DEF Before
<1>4. /\ InOrder(Append(buffer, Head(queue)))
      /\ Entries(Append(buffer, Head(queue))) = Entries(buffer) \cup ({Head(queue)} \cap Nat)
  BY <1>1, <1>3, AppendOrder
<1> QED
  BY <1>1, <1>2, <1>4

\* The entry that is written goes behind every written one.
LEMMA WriteOrders ==
  ASSUME IInv, Ordered, WriteEntry
  PROVE  Ordered'
<1> DEFINE e == Head(queue)
           lines == Append(buffer, e)
<1>1. /\ queue # <<>> /\ e # Rotate
      /\ UNCHANGED <<next, archives, zipped, clock>>
      /\ queue' \in {Append(Tail(queue), Rotate), Tail(queue)}
      /\ \/ file' = Written(lines) /\ buffer' = <<>>
         \/ buffer' = lines /\ UNCHANGED file
  BY DEF WriteEntry
<1>2. e \in Nat /\ next \in Nat /\ clock \in Nat
  BY <1>1 DEF IInv, TypeOK, Ordered
<1>3. /\ InOrder(queue') /\ Entries(queue') \subseteq Entries(queue)
      /\ Before(buffer, queue') /\ \A x \in Entries(queue') : e < x
  BY <1>1, <1>2, QueueOrder DEF Ordered, IInv
<1>4. /\ lines \in Seq(Nat) /\ InOrder(lines)
      /\ Entries(lines) = Entries(buffer) \cup {e} /\ e \in Entries(queue)
  BY <1>1, <1>2, BufferOrder DEF Ordered, IInv
<1> HIDE DEF e, lines
<1>5. Entries(lines) \cup Entries(queue') \subseteq Waiting /\ Before(lines, queue')
  BY <1>3, <1>4 DEF Waiting, Before
<1>6. CASE buffer' = lines /\ UNCHANGED file
  <2>1. Waiting' \subseteq Waiting
    BY <1>5, <1>6 DEF Waiting
  <2> QED
    BY <1>1, <1>2, <1>3, <1>4, <1>5, <1>6, <2>1, OrderStays
<1>7. CASE file' = Written(lines) /\ buffer' = <<>>
  <2>1. Entries(<<>>) = {} /\ InOrder(<<>>)
    BY DEF Entries, Lines, InOrder
  <2>2. InOrder(file') /\ Entries(file') \subseteq Entries(file) \cup Entries(lines)
    <3>1. lines \in Seq(Nat \cup {Torn})
      BY <1>4
    <3>2. InOrder(file) /\ Before(file, lines)
      BY <1>5 DEF Ordered, OrderKept, Before
    <3> QED
      BY <1>4, <1>7, <3>1, <3>2, WrittenOrder DEF IInv, TypeOK
  <2>3. Waiting' = Entries(queue')
    BY <1>7, <2>1 DEF Waiting
  <2>4. \A s \in Seconds : LogOf(s)' = LogOf(s)
    BY <1>1 DEF LogOf
  <2>5. Seconds' = Seconds
    BY <1>1 DEF Seconds
  <2>6. \A x \in Entries(file') :
          x < next /\ (\A y \in Entries(queue') : x < y)
    BY <1>5, <2>2 DEF Ordered, Before
  <2>7. \A s \in Seconds : /\ Before(LogOf(s), file')
                           /\ \A y \in Entries(queue'), x \in Entries(LogOf(s)) : x < y
    BY <1>5, <2>2 DEF Ordered, OrderKept, Before, Seconds
  <2>8. OrderKept'
    BY <1>1, <2>2, <2>4, <2>7 DEF Ordered, OrderKept, Seconds
  <2>9. Before(buffer', queue')
    BY <1>7, <2>1 DEF Before
  <2>10. \A y \in Entries(queue') : y < next
    BY <1>5 DEF Ordered
  <2> QED
    BY <1>1, <1>3, <1>7, <2>1, <2>3, <2>4, <2>5, <2>6, <2>7, <2>8, <2>9, <2>10 DEF Ordered
<1> QED
  BY <1>1, <1>6, <1>7

\* What a crash leaves of the lines being written is in order, and a torn line
\* is no entry.
LEMMA CrashOrders ==
  ASSUME IInv, Ordered, Crash
  PROVE  Ordered'
<1>1. queue' = <<>> /\ buffer' = <<>> /\ UNCHANGED <<next, archives, zipped, clock>>
  BY DEF Crash
<1>2. PICK lines \in Seq(Nat \cup {Torn}) :
        /\ file' = Written(lines)
        /\ Entries(lines) \subseteq Entries(Pending)
        /\ InOrder(Pending) => InOrder(lines)
  BY PendingCut DEF IInv
<1>e. Entries(<<>>) = {} /\ InOrder(<<>>)
  BY DEF Entries, Lines, InOrder
<1>3. InOrder(Pending) /\ Entries(Pending) \subseteq Waiting
  <2>1. CASE queue = <<>>
    BY <1>e, <2>1 DEF Pending
  <2>2. CASE queue # <<>> /\ Head(queue) = Rotate
    BY <2>2 DEF Pending, Ordered, Waiting
  <2>3. CASE queue # <<>> /\ Head(queue) # Rotate
    <3>1. Head(queue) \in Nat
      BY <2>3 DEF IInv, TypeOK
    <3> QED
      BY <2>3, <3>1, BufferOrder DEF Pending, Ordered, Waiting, IInv
  <2> QED
    BY <2>1, <2>2, <2>3
<1>4. InOrder(file') /\ Entries(file') \subseteq Entries(file) \cup Waiting
  <2>1. InOrder(file) /\ Before(file, lines)
    BY <1>2, <1>3 DEF Ordered, OrderKept, Before
  <2> QED
    BY <1>2, <1>3, <2>1, WrittenOrder DEF IInv, TypeOK
<1>5. Waiting' = {} /\ InOrder(queue') /\ InOrder(buffer') /\ Before(buffer', queue')
  BY <1>1, <1>e DEF Waiting, Before
<1>6. Seconds' = Seconds /\ \A s \in Seconds : LogOf(s)' = LogOf(s)
  BY <1>1 DEF LogOf, Seconds
<1>7. \A s \in Seconds : Before(LogOf(s), file')
  BY <1>4 DEF Ordered, OrderKept, Before, Seconds
<1>8. OrderKept'
  BY <1>1, <1>4, <1>6, <1>7 DEF Ordered, OrderKept, Seconds
<1>9. \A x \in Entries(file') : x < next
  BY <1>4 DEF Ordered
<1> QED
  BY <1>1, <1>5, <1>6, <1>8, <1>9 DEF Ordered

\* The archive is the last one by name.
LEMMA RotateOrders ==
  ASSUME IInv, Ordered, RotateFile, ~SameSecond
  PROVE  Ordered'
<1>0. PICK faults \in SUBSET {"flush", "rename", "open"} :
        LET written == IF "flush" \in faults THEN file ELSE Written(buffer) IN
          /\ \/ /\ "rename" \notin faults
                /\ SameSecond \/ clock \notin DOMAIN archives \cup DOMAIN zipped
                /\ archives' = Put(archives, clock, written)
                /\ jobs' = jobs \cup {[second |-> clock, lines |-> <<>>, step |-> "open"]}
                /\ file' = <<>>
             \/ "rename" \in faults /\ file' = written /\ UNCHANGED <<archives, jobs>>
          /\ flushed' = flushed \cup (IF "flush" \in faults THEN {} ELSE Lines(buffer))
          /\ queue' = IF "open" \in faults THEN <<>> ELSE Tail(queue)
  BY DEF RotateFile
<1> DEFINE written == IF "flush" \in faults THEN file ELSE Written(buffer)
<1>1. /\ queue # <<>> /\ buffer' = <<>> /\ UNCHANGED <<next, zipped, clock>>
      /\ queue' \in {<<>>, Tail(queue)}
      /\ \/ /\ clock \notin Seconds
            /\ archives' = Put(archives, clock, written)
            /\ file' = <<>>
         \/ file' = written /\ UNCHANGED archives
  BY <1>0 DEF RotateFile, Seconds
<1>e. Entries(<<>>) = {} /\ InOrder(<<>>)
  BY DEF Entries, Lines, InOrder
<1>2. InOrder(written) /\ Entries(written) \subseteq Entries(file) \cup Entries(buffer)
  <2>1. buffer \in Seq(Nat \cup {Torn})
    BY DEF IInv, TypeOK
  <2>2. InOrder(file) /\ InOrder(buffer) /\ Before(file, buffer)
    BY DEF Ordered, OrderKept, Before, Waiting
  <2>3. /\ InOrder(Written(buffer))
        /\ Entries(Written(buffer)) \subseteq Entries(file) \cup Entries(buffer)
    BY <2>1, <2>2, WrittenOrder DEF IInv, TypeOK
  <2> QED
    BY <2>2, <2>3
<1> HIDE DEF written
<1>3. InOrder(queue') /\ Entries(queue') \subseteq Entries(queue)
  BY <1>1, <1>e, TailOrder DEF IInv, TypeOK, Ordered
<1>4. /\ Waiting' = Entries(queue') /\ InOrder(buffer') /\ Before(buffer', queue')
      /\ Waiting' \subseteq Waiting
  BY <1>1, <1>3, <1>e DEF Waiting, Before
<1>5. \A x \in Entries(written) : x < next /\ \A y \in Entries(queue') : x < y
  BY <1>2, <1>3 DEF Ordered, Waiting, Before
<1>6. \A s \in Seconds : Before(LogOf(s), written)
  BY <1>2 DEF Ordered, OrderKept, Before, Seconds, Waiting
<1>7. \A y \in Waiting' : y < next
  BY <1>4 DEF Ordered
<1>8. \A s \in Seconds : \A y \in Waiting', x \in Entries(LogOf(s)) : x < y
  BY <1>4 DEF Ordered
<1>9. CASE file' = written /\ UNCHANGED archives
  <2>1. Seconds' = Seconds /\ \A s \in Seconds : LogOf(s)' = LogOf(s)
    BY <1>1, <1>9 DEF LogOf, Seconds
  <2>2. OrderKept'
    BY <1>1, <1>2, <1>6, <1>9, <2>1 DEF Ordered, OrderKept, Seconds
  <2> QED
    BY <1>1, <1>3, <1>4, <1>5, <1>7, <1>8, <1>9, <2>1, <2>2 DEF Ordered
<1>10. CASE clock \notin Seconds /\ archives' = Put(archives, clock, written) /\ file' = <<>>
  <2>1. /\ DOMAIN archives' = DOMAIN archives \cup {clock}
        /\ archives'[clock] = written
        /\ \A s \in DOMAIN archives : archives'[s] = archives[s]
    BY <1>10 DEF Put, Seconds
  <2>2. /\ \A s : s = clock => LogOf(s)' = written
        /\ \A s \in Seconds : LogOf(s)' = LogOf(s)
    BY <1>1, <1>10, <2>1 DEF LogOf, Seconds
  <2>3. Seconds' = Seconds \cup {clock}
    BY <1>1, <2>1 DEF Seconds
  <2>4. \A s \in Seconds : s \in Nat /\ s < clock
    BY <1>10 DEF Ordered
  <2>5. InOrder(file') /\ Entries(file') = {}
    BY <1>10, <1>e
  <2>6. ASSUME NEW s \in Seconds \cup {clock}
        PROVE  InOrder(LogOf(s)') /\ Before(LogOf(s)', file')
    <3>1. Before(LogOf(s)', file')
      BY <2>5 DEF Before
    <3>2. CASE s = clock
      <4>1. LogOf(s)' = written
        BY <2>2, <3>2
      <4> QED
        BY <1>2, <3>1, <4>1
    <3>3. CASE s \in Seconds
      BY <2>2, <3>1, <3>3 DEF Ordered, OrderKept, Seconds
    <3> QED
      BY <3>2, <3>3
  <2>7. ASSUME NEW s \in Seconds \cup {clock}, NEW t \in Seconds \cup {clock}, s < t
        PROVE  Before(LogOf(s)', LogOf(t)')
    <3>1. s \in Seconds
      BY <2>4, <2>7 DEF Ordered
    <3>2. CASE t = clock
      <4>1. LogOf(t)' = written /\ LogOf(s)' = LogOf(s)
        BY <2>2, <3>1, <3>2
      <4> QED
        BY <1>6, <3>1, <4>1
    <3>3. CASE t \in Seconds
      BY <2>2, <2>7, <3>1, <3>3 DEF Ordered, OrderKept, Seconds
    <3> QED
      BY <3>2, <3>3
  <2>8. OrderKept'
    BY <2>3, <2>5, <2>6, <2>7 DEF OrderKept, Seconds
  <2>9. \A s \in Seconds \cup {clock} :
          /\ \A y \in Waiting', x \in Entries(LogOf(s)') : x < y
          /\ \A x \in Entries(LogOf(s)') : x < next
    <3> SUFFICES ASSUME NEW s \in Seconds \cup {clock}
                 PROVE  /\ \A y \in Waiting', x \in Entries(LogOf(s)') : x < y
                        /\ \A x \in Entries(LogOf(s)') : x < next
      OBVIOUS
    <3>1. CASE s = clock
      <4>1. LogOf(s)' = written
        BY <2>2, <3>1
      <4> QED
        BY <1>4, <1>5, <4>1
    <3>2. CASE s \in Seconds
      <4>1. LogOf(s)' = LogOf(s)
        BY <2>2, <3>2
      <4> QED
        BY <1>8, <3>2, <4>1 DEF Ordered
    <3> QED
      BY <3>1, <3>2
  <2>10. Seconds \cup {clock} \subseteq 0..clock
    BY DEF Ordered
  <2> QED
    BY <1>1, <1>3, <1>4, <1>7, <2>3, <2>5, <2>8, <2>9, <2>10 DEF Ordered
<1> QED
  BY <1>1, <1>9, <1>10

\* The log of a second stays what it is when its .zst file is made, and when
\* its archive goes.
LEMMA CompressOrders ==
  ASSUME IInv, Ordered, NEW j \in jobs, Compress(j)
  PROVE  Ordered'
<1>1. UNCHANGED <<next, queue, buffer, file, clock>>
  BY DEF Compress, CompressOpen, CompressCopy, CompressRemove, othersVars, logVars
<1>2. j.second \in DOMAIN archives
  BY DEF IInv, Jobs
<1>3. /\ Seconds' = Seconds
      /\ \A s \in Seconds : LogOf(s)' = LogOf(s)
  <2>1. CASE CompressOpen(j) \/ CompressCopy(j)
    <3>1. /\ UNCHANGED archives
          /\ zipped' = zipped \/ \E lines : zipped' = Put(zipped, j.second, lines)
      BY <2>1 DEF CompressOpen, CompressCopy
    <3>2. /\ DOMAIN zipped' = DOMAIN zipped \/ DOMAIN zipped' = DOMAIN zipped \cup {j.second}
          /\ \A s \in DOMAIN zipped : s # j.second => zipped'[s] = zipped[s]
      BY <3>1 DEF Put
    <3> QED
      BY <1>2, <3>1, <3>2 DEF LogOf, Seconds
  <2>2. CASE CompressRemove(j) /\ archives' = Without(archives, j.second)
    <3>1. /\ UNCHANGED zipped
          /\ j.second \in DOMAIN zipped /\ zipped[j.second] = archives[j.second]
          /\ DOMAIN archives' = DOMAIN archives \ {j.second}
          /\ \A s \in DOMAIN archives : s # j.second => archives'[s] = archives[s]
      BY <2>2 DEF CompressRemove, Without, IInv, Jobs
    <3> QED
      BY <1>2, <3>1 DEF LogOf, Seconds
  <2>3. CASE UNCHANGED <<archives, zipped>>
    BY <2>3 DEF LogOf, Seconds
  <2> QED
    BY <2>1, <2>2, <2>3 DEF Compress, CompressRemove
<1>4. Waiting' = Waiting
  BY <1>1 DEF Waiting
<1> QED
  BY <1>1, <1>3, <1>4 DEF Ordered, OrderKept, Seconds

LEMMA NextOrdered == ~SameSecond /\ IInv /\ Ordered /\ [Next]_vars => Ordered'
<1> SUFFICES ASSUME ~SameSecond, IInv, Ordered, [Next]_vars PROVE Ordered'
  OBVIOUS
<1>1. /\ queue \in Seq(Nat \cup {Rotate}) /\ next \in Nat /\ clock \in Nat
      /\ InOrder(queue) /\ InOrder(buffer) /\ Before(buffer, queue)
  BY DEF IInv, TypeOK, Ordered
<1>2. CASE AppendEntry
  <2>1. /\ queue' = Append(queue, next) \/ queue' = queue
        /\ next' = next + 1
        /\ UNCHANGED <<buffer, file, archives, zipped, clock>>
    BY <1>2 DEF AppendEntry, diskVars
  <2>2. InOrder(queue') /\ Entries(queue') \subseteq Entries(queue) \cup {next}
    <3>1. \A x \in Entries(queue) : next \in Nat => x < next
      BY DEF Ordered, Waiting
    <3>2. /\ InOrder(Append(queue, next))
          /\ Entries(Append(queue, next)) = Entries(queue) \cup ({next} \cap Nat)
      BY <1>1, <3>1, AppendOrder
    <3> QED
      BY <1>1, <2>1, <3>2
  <2>3. Before(buffer', queue')
    BY <1>1, <2>1, <2>2 DEF Before, Ordered, Waiting
  <2>4. Waiting' \subseteq Waiting \cup {next}
    BY <2>1, <2>2 DEF Waiting
  <2> QED
    BY <1>1, <2>1, <2>2, <2>3, <2>4, OrderStays
<1>3. CASE WriteError
  <2>1. /\ queue' = Tail(queue) /\ queue # <<>>
        /\ UNCHANGED <<next, buffer, file, archives, zipped, clock>>
    BY <1>3 DEF WriteError, diskVars
  <2>2. /\ InOrder(queue') /\ Entries(queue') \subseteq Entries(queue)
        /\ Before(buffer', queue')
    BY <1>1, <2>1, QueueOrder DEF IInv
  <2>3. Waiting' \subseteq Waiting
    BY <2>1, <2>2 DEF Waiting
  <2> QED
    BY <1>1, <2>1, <2>2, <2>3, OrderStays
<1>4. CASE Tick \/ UNCHANGED vars
  <2>1. /\ UNCHANGED <<next, queue, buffer, file, archives, zipped>>
        /\ clock' = clock \/ clock' = clock + 1
    BY <1>4 DEF Tick, vars, diskVars, logVars
  <2>2. Waiting' = Waiting
    BY <2>1 DEF Waiting
  <2> QED
    BY <1>1, <2>1, <2>2, OrderStays
<1> QED
  BY <1>2, <1>3, <1>4, WriteOrders, RotateOrders, CompressOrders, CrashOrders
  DEF Next, Thread, Idle

\* Whatever is rotated, compressed, lost or torn, what the archives and the
\* file hold is in the order it was sent, each entry once
\* (persist.rs:120-155).
THEOREM EntriesKeepTheirOrder ==
  ASSUME ~SameSecond
  PROVE  Spec => []OrderKept
<1>1. Ordered => OrderKept
  BY DEF Ordered
<1>2. IInv /\ [Next]_vars => IInv'
  BY NextIInv
<1>3. IInv /\ Ordered /\ [Next]_vars => Ordered'
  BY NextOrdered
<1> QED
  BY <1>1, <1>2, <1>3, InitIInv, InitOrdered, PTL DEF Spec
=============================================================================
