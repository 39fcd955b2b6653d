------------------------ MODULE DecryptPipelineProofs ------------------------
(***************************************************************************)
(* Proofs, for any number of chunks, workers and places in the channels,   *)
(* that the decrypt pipeline returns Ok only for a whole stream of which   *)
(* every segment reached the sink.                                         *)
(*                                                                         *)
(* Neither property is inductive: Ok only says that no error is recorded   *)
(* and that the writer saw a FINAL marker.  IInv adds that what is on its  *)
(* way was parsed (Genuine), that while nothing is disturbed no parsed     *)
(* segment is lost (Accounted), and that a stage which has ended without   *)
(* an error has left nothing behind it (Drained).  At the join everything  *)
(* parsed is then in the writer, and a FINAL marker is only there when all *)
(* Chunks + 1 segments were parsed.                                        *)
(***************************************************************************)
EXTENDS DecryptPipeline, TLAPS

SegmentType == [index : Nat, kind : {"data", "final"}, chunk : Nat]
WorkerPlaces == {"unspawned", "recv", "got", "busy", "send", "done"}
MainPlaces == {"header", "spawn", "loop", "taken", "push", "finish", "drain",
               "join", "returned"}

\* Every variable the argument uses keeps its type.
TypeOK ==
  /\ whole \in Nat /\ parsed \in Nat /\ parsed <= whole /\ whole <= Chunks + 1
  /\ parser \in {"unspawned", "loop", "send", "done"}
  /\ segment \in SegmentType /\ taken \in SegmentType
  /\ feed \in Seq(SegmentType) /\ mid \in Seq(SegmentType) /\ out \in Seq(SegmentType)
  /\ worker \in [Workers -> WorkerPlaces]
  /\ work \in [Workers -> SegmentType]
  /\ main \in MainPlaces
  /\ next \in Nat /\ written \in Seq(SegmentType) /\ DOMAIN pending \subseteq Nat
  /\ writerPc \in {"idle", "flush", "failed", "drain", "done"}
  /\ finishOk \in {"none", "ok", "missing", "io"}
  /\ cancelled \in BOOLEAN

In(s, channel) == \E k \in DOMAIN channel : s = channel[k]
Holding(w) == worker[w] \in {"got", "busy", "send"}

\* Segment s is somewhere between the reader and the writer.
Flies(s) ==
  \/ parser = "send" /\ s = segment
  \/ In(s, feed) \/ In(s, mid) \/ In(s, out)
  \/ \E w \in Workers : Holding(w) /\ s = work[w]
  \/ main = "taken" /\ s = taken

\* What is on its way is a segment of the stream, and was parsed.
Genuine == \A s : Flies(s) => \E i \in Nat : i < parsed /\ s = Segment(i)

\* So is what the writer has; the output is a prefix, and only a FINAL marker
\* lets finish return Ok.
Ordered ==
  /\ Len(written) = next /\ next <= Chunks + 1
  /\ \A i \in 1..next : written[i] = Segment(i - 1)
  /\ \A i \in DOMAIN pending : i < parsed /\ pending[i] = Segment(i)
  /\ finalIndex # NoIndex => parsed > Chunks
  /\ finishOk = "ok" => finalIndex # NoIndex /\ next \notin DOMAIN pending

\* Where the pipeline function is, and where its writer then is.
Control ==
  /\ cancelled => fatal # NoError
  /\ main \in {"header", "spawn", "loop", "taken"} => writerPc = "idle"
  /\ main = "push" => writerPc \in {"flush", "failed"}
  /\ main = "finish" => writerPc \in {"idle", "failed"} /\ (writerPc = "failed" => cancelled)
  /\ main = "drain" => writerPc \in {"drain", "done"}
  /\ main \in {"join", "returned"} => writerPc = "done" /\ (finishOk = "ok" \/ cancelled)
  /\ writerPc # "done" => finishOk = "none"
  /\ main # "returned" => result = "pending"

\* While nothing is disturbed every parsed segment is on its way or in the
\* writer.
Accounted ==
  Undisturbed =>
    \A i \in Nat : i < parsed => Flies(Segment(i)) \/ i \in DOMAIN pending \/ i < next

\* And a stage that has ended has left nothing behind it.
Drained ==
  Undisturbed =>
    /\ \A x \in Cryptors : worker[x] = "done" => ParserDone /\ feed = <<>>
    /\ \A d \in Compressors : worker[d] = "done" => ~Live(Cryptors) /\ mid = <<>>
    /\ main \in {"finish", "drain", "join", "returned"} => ~Live(Compressors) /\ out = <<>>

\* What is to be shown of Ok.
Concluded == TruncationDetected /\ OkMeansComplete

\* The inductive invariant.
IInv == /\ TypeOK /\ Genuine /\ Ordered /\ Control /\ Accounted /\ Drained
        /\ Concluded

USE ChunksAssumption, WorkersAssumption, FaultsAssumption, NoErrorAssumption, NoIndexAssumption
    DEF ChunksAssumption, WorkersAssumption, FaultsAssumption, NoErrorAssumption,
        NoIndexAssumption

-----------------------------------------------------------------------------

\* The stream's segments are told apart by their index; the FINAL marker is
\* the one at Chunks.
LEMMA SegmentFacts ==
  \A i \in Nat : /\ Segment(i) \in SegmentType /\ Segment(i).index = i
                 /\ Segment(i).kind = "final" <=> i = Chunks
BY DEF Segment, Final, Data, SegmentType

\* What a send adds to a channel, and what a receive takes off it.
LEMMA ChannelAppend ==
  ASSUME NEW c \in Seq(SegmentType), NEW t \in SegmentType
  PROVE  /\ Append(c, t) \in Seq(SegmentType)
         /\ \A s : In(s, Append(c, t)) <=> In(s, c) \/ s = t
<1>1. /\ Append(c, t) \in Seq(SegmentType) /\ Len(c) \in Nat
      /\ DOMAIN Append(c, t) = 1..(Len(c) + 1) /\ DOMAIN c = 1..Len(c)
      /\ \A k \in 1..Len(c) : Append(c, t)[k] = c[k]
      /\ Append(c, t)[Len(c) + 1] = t
  OBVIOUS
<1>2. \A k \in 1..(Len(c) + 1) : k \in 1..Len(c) \/ k = Len(c) + 1
  BY <1>1
<1>3. \A s : In(s, Append(c, t)) => In(s, c) \/ s = t
  BY <1>1, <1>2 DEF In
<1>4. \A s : In(s, c) \/ s = t => In(s, Append(c, t))
  BY <1>1 DEF In
<1> QED
  BY <1>1, <1>3, <1>4

LEMMA ChannelTake ==
  ASSUME NEW c \in Seq(SegmentType), c # <<>>
  PROVE  /\ Tail(c) \in Seq(SegmentType) /\ Head(c) \in SegmentType
         /\ \A s : In(s, c) <=> In(s, Tail(c)) \/ s = Head(c)
<1>1. /\ Tail(c) \in Seq(SegmentType) /\ Head(c) \in SegmentType /\ Head(c) = c[1]
      /\ Len(c) \in Nat /\ Len(c) # 0 /\ DOMAIN c = 1..Len(c)
      /\ DOMAIN Tail(c) = 1..(Len(c) - 1)
      /\ \A k \in 1..(Len(c) - 1) : Tail(c)[k] = c[k + 1]
  OBVIOUS
<1>2. \A k \in 1..Len(c) : k = 1 \/ (k - 1 \in 1..(Len(c) - 1) /\ c[k] = Tail(c)[k - 1])
  BY <1>1
<1>3. \A s : In(s, c) => In(s, Tail(c)) \/ s = Head(c)
  BY <1>1, <1>2 DEF In
<1>4. \A s : In(s, Tail(c)) \/ s = Head(c) => In(s, c)
  BY <1>1 DEF In
<1> QED
  BY <1>1, <1>3, <1>4

LEMMA EmptyChannel == \A s : ~In(s, <<>>)
BY DEF In

\* A step that moves segments but loses one only when it disturbs.
LEMMA MoveKeeps ==
  ASSUME IInv, TypeOK', Control', Drained',
         UNCHANGED <<whole, parsed, next, pending, finalIndex, written, finishOk, result>>,
         Undisturbed' => Undisturbed,
         \A s : Flies(s)' => Flies(s),
         Undisturbed' => \A s : Flies(s) => Flies(s)'
  PROVE  IInv'
<1>1. Genuine'
  BY DEF IInv, Genuine
<1>2. Ordered'
  BY DEF IInv, Ordered
<1>3. Accounted'
  BY DEF IInv, Accounted
<1>4. Concluded'
  BY DEF IInv, Concluded, TruncationDetected, OkMeansComplete
<1> QED
  BY <1>1, <1>2, <1>3, <1>4 DEF IInv

\* The flag once set stays set: a step that reports disturbs.
Reports == \E e \in FaultKinds \cup {"send", "finish"} : ReportError(e)

LEMMA ErrorsKeep ==
  ASSUME Control, cancelled \in BOOLEAN, UNCHANGED errorVars \/ Reports
  PROVE  /\ cancelled' \in BOOLEAN /\ (cancelled => cancelled')
         /\ (cancelled' => fatal' # NoError)
         /\ Reports => cancelled'
<1>1. CASE UNCHANGED errorVars /\ ~Reports
  BY <1>1 DEF errorVars, Control
<1>2. CASE Reports
  <2>1. PICK e \in FaultKinds \cup {"send", "finish"} : ReportError(e)
    BY <1>2 DEF Reports
  <2> QED
    BY <2>1 DEF ReportError, Control
<1> QED
  BY <1>1, <1>2

\* Steps of a worker or the reader leave the pipeline function alone.
LEMMA ControlKeeps ==
  ASSUME Control, cancelled \in BOOLEAN, UNCHANGED errorVars \/ Reports,
         UNCHANGED <<main, result, writerPc, finishOk>>
  PROVE  Control' /\ (Undisturbed' => Undisturbed)
<1>1. (cancelled => cancelled') /\ (cancelled' => fatal' # NoError)
  BY ErrorsKeep
<1> QED
  BY <1>1 DEF Control, Undisturbed

\* A worker's step changes the place of one worker.
LEMMA WorkerTypes ==
  ASSUME TypeOK, NEW w \in Workers, NEW p \in WorkerPlaces,
         worker' = [worker EXCEPT ![w] = p]
  PROVE  /\ worker' \in [Workers -> WorkerPlaces]
         /\ worker'[w] = p
         /\ \A v \in Workers : v # w => worker'[v] = worker[v]
         /\ Holding(w)' <=> p \in {"got", "busy", "send"}
         /\ \A v \in Workers : v # w => (Holding(v)' <=> Holding(v))
<1>1. /\ worker' \in [Workers -> WorkerPlaces]
      /\ worker'[w] = p
      /\ \A v \in Workers : v # w => worker'[v] = worker[v]
  BY DEF TypeOK
<1> QED
  BY <1>1 DEF Holding

\* The stages a worker that goes on belongs to stay as they were.
LEMMA StagesKeep ==
  ASSUME Drained, Undisturbed' => Undisturbed,
         UNCHANGED main, ParserDone => ParserDone',
         feed = <<>> /\ ParserDone => feed' = <<>>,
         mid = <<>> /\ ~Live(Cryptors) => mid' = <<>>,
         out = <<>> /\ ~Live(Compressors) => out' = <<>>,
         Undisturbed' => \A w \in Workers : worker'[w] = "done" <=> worker[w] = "done"
  PROVE  Drained'
<1> SUFFICES ASSUME Undisturbed' PROVE Drained'
  BY DEF Drained
<1>1. /\ Live(Cryptors)' <=> Live(Cryptors)
      /\ Live(Compressors)' <=> Live(Compressors)
  BY DEF Live, Workers
<1>2. /\ \A x \in Cryptors : worker[x] = "done" => ParserDone /\ feed = <<>>
      /\ \A d \in Compressors : worker[d] = "done" => ~Live(Cryptors) /\ mid = <<>>
      /\ main \in {"finish", "drain", "join", "returned"} => ~Live(Compressors) /\ out = <<>>
  BY DEF Drained
<1>3. ParserDone => ParserDone'
  OBVIOUS
<1>4. \A x \in Cryptors : worker'[x] = "done" => ParserDone' /\ feed' = <<>>
  BY <1>2, <1>3 DEF Workers
<1>5. \A d \in Compressors : worker'[d] = "done" => ~Live(Cryptors)' /\ mid' = <<>>
  BY <1>1, <1>2 DEF Workers
<1>6. main' \in {"finish", "drain", "join", "returned"} => ~Live(Compressors)' /\ out' = <<>>
  BY <1>1, <1>2
<1> QED
  BY <1>4, <1>5, <1>6 DEF Drained

-----------------------------------------------------------------------------
\* The workers.

\* A worker checks the flag or processes its segment: it goes on with what
\* it holds, or leaves because the pipeline is cancelled.
LEMMA HolderKeeps ==
  ASSUME IInv, NEW w \in Workers, NEW p \in {"busy", "send", "done"}, Holding(w),
         worker' = [worker EXCEPT ![w] = p], worker[w] # "done",
         p = "done" => cancelled',
         UNCHANGED errorVars \/ Reports,
         UNCHANGED <<feed, work, mid, out, readerVars, mainVars, writerVars>>
  PROVE  IInv'
<1> USE DEF IInv
<1>1. UNCHANGED <<whole, torn, parser, parsed, segment, main, taken, held, result,
                  next, pending, finalIndex, written, writerPc, finishOk>>
  BY DEF readerVars, mainVars, writerVars
<1>2. cancelled' \in BOOLEAN
  BY ErrorsKeep DEF TypeOK
<1>3. /\ worker' \in [Workers -> WorkerPlaces] /\ worker'[w] = p
      /\ \A v \in Workers : v # w => worker'[v] = worker[v]
      /\ Holding(w)' <=> p \in {"got", "busy", "send"}
      /\ \A v \in Workers : v # w => (Holding(v)' <=> Holding(v))
  <2>1. p \in WorkerPlaces
    BY DEF WorkerPlaces
  <2> QED
    BY <2>1, WorkerTypes
<1>4. TypeOK'
  BY <1>1, <1>2, <1>3 DEF TypeOK
<1>5. Control' /\ (Undisturbed' => Undisturbed)
  BY <1>1, ControlKeeps DEF TypeOK
<1>6. Undisturbed' => p # "done"
  BY DEF Undisturbed
<1>7. Undisturbed' => \A v \in Workers : worker'[v] = "done" <=> worker[v] = "done"
  BY <1>3, <1>6
<1>8. Drained'
  BY <1>1, <1>5, <1>7, StagesKeep DEF ParserDone
<1>9. \A v \in Workers : Holding(v)' => Holding(v)
  BY <1>3
<1>10. Undisturbed' => \A v \in Workers : Holding(v) => Holding(v)'
  BY <1>3, <1>6
<1>11. \A s : Flies(s)' => Flies(s)
  BY <1>1, <1>9 DEF Flies
<1>12. Undisturbed' => \A s : Flies(s) => Flies(s)'
  BY <1>1, <1>10 DEF Flies
<1> QED
  BY <1>1, <1>4, <1>5, <1>8, <1>11, <1>12, MoveKeeps

LEMMA CheckKeeps ==
  ASSUME IInv, NEW w \in Workers, Check(w), UNCHANGED readerVars
  PROVE  IInv'
<1>1. Holding(w) /\ worker[w] # "done"
  BY DEF Check, Holding
<1>2. CASE cancelled
  BY <1>1, <1>2, HolderKeeps DEF Check, errorVars
<1>3. CASE ~cancelled
  BY <1>1, <1>3, HolderKeeps DEF Check, errorVars
<1> QED
  BY <1>2, <1>3

LEMMA ProcessKeeps ==
  ASSUME IInv, NEW w \in Workers, NEW fault \in FaultKinds, NEW watches,
         Process(w, fault, watches), UNCHANGED readerVars
  PROVE  IInv'
<1>1. Holding(w) /\ worker[w] # "done"
  BY DEF Process, Holding
<1>2. UNCHANGED <<feed, work, mid, out, mainVars, writerVars>>
  BY DEF Process
<1>3. CASE worker' = [worker EXCEPT ![w] = "send"] /\ UNCHANGED errorVars
  BY <1>1, <1>2, <1>3, HolderKeeps
<1>4. CASE ReportError(fault) /\ worker' = [worker EXCEPT ![w] = "done"]
  <2>1. Reports /\ cancelled'
    BY <1>4 DEF Reports, ReportError
  <2> QED
    BY <1>1, <1>2, <1>4, <2>1, HolderKeeps
<1>5. CASE cancelled /\ worker' = [worker EXCEPT ![w] = "done"] /\ UNCHANGED errorVars
  <2>1. cancelled'
    BY <1>5 DEF errorVars
  <2> QED
    BY <1>1, <1>2, <1>5, <2>1, HolderKeeps
<1> QED
  BY <1>3, <1>4, <1>5 DEF Process

\* A segment worker takes a segment, or leaves since the reader is done and
\* nothing is left.
LEMMA CryptorReceives ==
  ASSUME IInv, NEW x \in Cryptors, RecvFrom(x, feed, ParserDone),
         UNCHANGED <<errorVars, mid, out, mainVars, writerVars, readerVars>>
  PROVE  IInv'
<1> USE DEF IInv
<1>0. /\ UNCHANGED <<whole, torn, parser, parsed, segment, main, taken, held, result, mid, out,
                    cancelled, next, pending, finalIndex, written, writerPc, finishOk>>
      /\ x \in Workers /\ UNCHANGED errorVars
  BY DEF readerVars, mainVars, writerVars, errorVars, Workers
<1>1. Control' /\ (Undisturbed' => Undisturbed)
  BY <1>0, ControlKeeps DEF TypeOK
<1>2. CASE feed # <<>>
  <2>1. /\ work' = [work EXCEPT ![x] = Head(feed)]
        /\ worker' = [worker EXCEPT ![x] = "got"]
        /\ feed' = Tail(feed) /\ worker[x] = "recv"
    BY <1>2 DEF RecvFrom
  <2>2. /\ feed' \in Seq(SegmentType) /\ Head(feed) \in SegmentType
        /\ \A s : In(s, feed) <=> In(s, feed') \/ s = Head(feed)
    BY <1>2, <2>1, ChannelTake DEF TypeOK
  <2>3. /\ worker' \in [Workers -> WorkerPlaces] /\ worker'[x] = "got"
        /\ \A v \in Workers : v # x => worker'[v] = worker[v]
        /\ Holding(x)' /\ ~Holding(x)
        /\ \A v \in Workers : v # x => (Holding(v)' <=> Holding(v))
    BY <1>0, <2>1, WorkerTypes DEF WorkerPlaces, Holding
  <2>4. /\ work' \in [Workers -> SegmentType] /\ work'[x] = Head(feed)
        /\ \A v \in Workers : v # x => work'[v] = work[v]
    BY <1>0, <2>1, <2>2 DEF TypeOK
  <2>5. TypeOK'
    BY <1>0, <2>2, <2>3, <2>4 DEF TypeOK
  <2>6. Drained'
    <3>1. \A v \in Workers : worker'[v] = "done" <=> worker[v] = "done"
      BY <2>1, <2>3
    <3> QED
      BY <1>0, <1>1, <1>2, <3>1, StagesKeep DEF ParserDone
  <2>7. \A s : (\E v \in Workers : Holding(v)' /\ s = work'[v])
                 <=> (\E v \in Workers : Holding(v) /\ s = work[v]) \/ s = Head(feed)
    BY <1>0, <2>3, <2>4
  <2>8. \A s : Flies(s)' <=> Flies(s)
    BY <1>0, <2>2, <2>7 DEF Flies
  <2> QED
    BY <1>0, <1>1, <2>5, <2>6, <2>8, MoveKeeps
<1>3. CASE feed = <<>>
  <2>1. /\ worker' = [worker EXCEPT ![x] = "done"] /\ worker[x] = "recv"
        /\ ParserDone /\ UNCHANGED <<work, feed>>
    BY <1>3 DEF RecvFrom
  <2>2. /\ worker' \in [Workers -> WorkerPlaces] /\ worker'[x] = "done"
        /\ \A v \in Workers : v # x => worker'[v] = worker[v]
        /\ ~Holding(x)' /\ ~Holding(x)
        /\ \A v \in Workers : v # x => (Holding(v)' <=> Holding(v))
    BY <1>0, <2>1, WorkerTypes DEF WorkerPlaces, Holding
  <2>3. TypeOK'
    BY <1>0, <2>1, <2>2 DEF TypeOK
  <2>4. \A s : Flies(s)' <=> Flies(s)
    BY <1>0, <2>1, <2>2 DEF Flies
  <2>5. Drained'
    <3> SUFFICES ASSUME Undisturbed' PROVE Drained'
      BY DEF Drained
    <3>1. ParserDone' /\ feed' = <<>>
      BY <1>0, <1>3, <2>1 DEF ParserDone
    <3>2. \A d \in Compressors : d \in Workers /\ worker'[d] = worker[d]
      BY <2>2 DEF Workers
    <3>3. Live(Cryptors)' => Live(Cryptors)
      BY <2>2 DEF Live, Workers
    <3>4. Live(Compressors)' <=> Live(Compressors)
      BY <3>2 DEF Live
    <3> QED
      BY <1>0, <1>1, <3>1, <3>2, <3>3, <3>4 DEF Drained
  <2> QED
    BY <1>0, <1>1, <2>3, <2>4, <2>5, MoveKeeps
<1> QED
  BY <1>2, <1>3

\* So does a decompression worker, of the segment workers.
LEMMA DecompressorReceives ==
  ASSUME IInv, NEW d \in Compressors, RecvFrom(d, mid, ~Live(Cryptors)),
         UNCHANGED <<feed, errorVars, out, mainVars, writerVars, readerVars>>
  PROVE  IInv'
<1> USE DEF IInv
<1>0. /\ UNCHANGED <<whole, torn, parser, parsed, segment, main, taken, held, result, feed, out,
                    cancelled, next, pending, finalIndex, written, writerPc, finishOk>>
      /\ d \in Workers /\ UNCHANGED errorVars
  BY DEF readerVars, mainVars, writerVars, errorVars, Workers
<1>1. Control' /\ (Undisturbed' => Undisturbed)
  BY <1>0, ControlKeeps DEF TypeOK
<1>2. CASE mid # <<>>
  <2>1. /\ work' = [work EXCEPT ![d] = Head(mid)]
        /\ worker' = [worker EXCEPT ![d] = "got"]
        /\ mid' = Tail(mid) /\ worker[d] = "recv"
    BY <1>2 DEF RecvFrom
  <2>2. /\ mid' \in Seq(SegmentType) /\ Head(mid) \in SegmentType
        /\ \A s : In(s, mid) <=> In(s, mid') \/ s = Head(mid)
    BY <1>2, <2>1, ChannelTake DEF TypeOK
  <2>3. /\ worker' \in [Workers -> WorkerPlaces] /\ worker'[d] = "got"
        /\ \A v \in Workers : v # d => worker'[v] = worker[v]
        /\ Holding(d)' /\ ~Holding(d)
        /\ \A v \in Workers : v # d => (Holding(v)' <=> Holding(v))
    BY <1>0, <2>1, WorkerTypes DEF WorkerPlaces, Holding
  <2>4. /\ work' \in [Workers -> SegmentType] /\ work'[d] = Head(mid)
        /\ \A v \in Workers : v # d => work'[v] = work[v]
    BY <1>0, <2>1, <2>2 DEF TypeOK
  <2>5. TypeOK'
    BY <1>0, <2>2, <2>3, <2>4 DEF TypeOK
  <2>6. Drained'
    <3>1. \A v \in Workers : worker'[v] = "done" <=> worker[v] = "done"
      BY <2>1, <2>3
    <3> QED
      BY <1>0, <1>1, <1>2, <3>1, StagesKeep DEF ParserDone
  <2>7. \A s : (\E v \in Workers : Holding(v)' /\ s = work'[v])
                 <=> (\E v \in Workers : Holding(v) /\ s = work[v]) \/ s = Head(mid)
    BY <1>0, <2>3, <2>4
  <2>8. \A s : Flies(s)' <=> Flies(s)
    BY <1>0, <2>2, <2>7 DEF Flies
  <2> QED
    BY <1>0, <1>1, <2>5, <2>6, <2>8, MoveKeeps
<1>3. CASE mid = <<>>
  <2>1. /\ worker' = [worker EXCEPT ![d] = "done"] /\ worker[d] = "recv"
        /\ ~Live(Cryptors) /\ UNCHANGED <<work, mid>>
    BY <1>3 DEF RecvFrom
  <2>2. /\ worker' \in [Workers -> WorkerPlaces] /\ worker'[d] = "done"
        /\ \A v \in Workers : v # d => worker'[v] = worker[v]
        /\ ~Holding(d)' /\ ~Holding(d)
        /\ \A v \in Workers : v # d => (Holding(v)' <=> Holding(v))
    BY <1>0, <2>1, WorkerTypes DEF WorkerPlaces, Holding
  <2>3. TypeOK'
    BY <1>0, <2>1, <2>2 DEF TypeOK
  <2>4. \A s : Flies(s)' <=> Flies(s)
    BY <1>0, <2>1, <2>2 DEF Flies
  <2>5. Drained'
    <3> SUFFICES ASSUME Undisturbed' PROVE Drained'
      BY DEF Drained
    <3>1. \A x \in Cryptors : x \in Workers /\ x # d
      BY DEF Workers
    <3>2. \A x \in Cryptors : worker'[x] = worker[x]
      BY <2>2, <3>1
    <3>3. Live(Cryptors)' <=> Live(Cryptors)
      BY <3>2 DEF Live
    <3>4. Live(Compressors)' => Live(Compressors)
      BY <2>2 DEF Live, Workers
    <3>5. ParserDone' <=> ParserDone
      BY <1>0 DEF ParserDone
    <3>6. ~Live(Cryptors)' /\ mid' = <<>>
      BY <1>3, <2>1, <3>3
    <3> QED
      BY <1>0, <1>1, <3>2, <3>4, <3>5, <3>6 DEF Drained
  <2> QED
    BY <1>0, <1>1, <2>3, <2>4, <2>5, MoveKeeps
<1> QED
  BY <1>2, <1>3

\* A segment worker hands its segment on.  It is live, so no decompression
\* worker has left while nothing is disturbed.
LEMMA CryptorSends ==
  ASSUME IInv, NEW x \in Cryptors, SendOn(x, mid, Open(Compressors), FALSE),
         UNCHANGED <<out, readerVars>>
  PROVE  IInv'
<1> USE DEF IInv
<1>0. /\ UNCHANGED <<whole, torn, parser, parsed, segment, main, taken, held, result, feed, out,
                    work, next, pending, finalIndex, written, writerPc, finishOk>>
      /\ x \in Workers /\ worker[x] = "send" /\ Holding(x)
  BY DEF readerVars, mainVars, writerVars, Workers, SendOn, Holding
<1>1. work[x] \in SegmentType
  BY <1>0 DEF TypeOK
<1>2. CASE Open(Compressors)
  <2>1. /\ worker' = [worker EXCEPT ![x] = "recv"]
        /\ mid' = Append(mid, work[x]) /\ UNCHANGED errorVars /\ UNCHANGED cancelled
    BY <1>2 DEF SendOn, SendTo, errorVars
  <2>2. /\ mid' \in Seq(SegmentType)
        /\ \A s : In(s, mid') <=> In(s, mid) \/ s = work[x]
    BY <1>1, <2>1, ChannelAppend DEF TypeOK
  <2>3. /\ worker' \in [Workers -> WorkerPlaces] /\ worker'[x] = "recv"
        /\ \A v \in Workers : v # x => worker'[v] = worker[v]
        /\ ~Holding(x)'
        /\ \A v \in Workers : v # x => (Holding(v)' <=> Holding(v))
    BY <1>0, <2>1, WorkerTypes DEF WorkerPlaces, Holding
  <2>4. TypeOK'
    BY <1>0, <2>1, <2>2, <2>3 DEF TypeOK
  <2>5. Control' /\ (Undisturbed' => Undisturbed)
    BY <1>0, <2>1, ControlKeeps DEF TypeOK
  <2>6. \A s : (\E v \in Workers : Holding(v) /\ s = work[v])
                 <=> (\E v \in Workers : Holding(v)' /\ s = work'[v]) \/ s = work[x]
    BY <1>0, <2>3
  <2>7. \A s : Flies(s)' <=> Flies(s)
    BY <1>0, <2>2, <2>6 DEF Flies
  <2>8. Drained'
    <3>1. Live(Cryptors)
      BY <1>0 DEF Live
    <3>2. \A v \in Workers : worker'[v] = "done" <=> worker[v] = "done"
      BY <1>0, <2>3
    <3> QED
      BY <1>0, <2>5, <3>1, <3>2, StagesKeep DEF ParserDone
  <2> QED
    BY <1>0, <2>4, <2>5, <2>7, <2>8, MoveKeeps
<1>3. CASE ~Open(Compressors)
  <2>1. /\ worker' = [worker EXCEPT ![x] = "done"] /\ UNCHANGED mid
        /\ Reports /\ cancelled'
    BY <1>3 DEF SendOn, SendTo, Reports, ReportError
  <2> QED
    BY <1>0, <2>1, HolderKeeps DEF readerVars, mainVars, writerVars
<1> QED
  BY <1>2, <1>3

\* A decompression worker hands its segment to the writer loop.
LEMMA DecompressorSends ==
  ASSUME IInv, NEW d \in Compressors, SendOn(d, out, TRUE, TRUE),
         UNCHANGED <<mid, readerVars>>
  PROVE  IInv'
<1> USE DEF IInv
<1>0. /\ UNCHANGED <<whole, torn, parser, parsed, segment, main, taken, held, result, feed, mid,
                    work, cancelled, next, pending, finalIndex, written, writerPc, finishOk>>
      /\ d \in Workers /\ worker[d] = "send" /\ Holding(d) /\ UNCHANGED errorVars
      /\ worker' = [worker EXCEPT ![d] = "recv"] /\ out' = Append(out, work[d])
  BY DEF readerVars, mainVars, writerVars, errorVars, Workers, SendOn, SendTo, Holding
<1>1. work[d] \in SegmentType
  BY <1>0 DEF TypeOK
<1>2. /\ out' \in Seq(SegmentType)
      /\ \A s : In(s, out') <=> In(s, out) \/ s = work[d]
  BY <1>0, <1>1, ChannelAppend DEF TypeOK
<1>3. /\ worker' \in [Workers -> WorkerPlaces] /\ worker'[d] = "recv"
      /\ \A v \in Workers : v # d => worker'[v] = worker[v]
      /\ ~Holding(d)'
      /\ \A v \in Workers : v # d => (Holding(v)' <=> Holding(v))
  BY <1>0, WorkerTypes DEF WorkerPlaces, Holding
<1>4. TypeOK'
  BY <1>0, <1>2, <1>3 DEF TypeOK
<1>5. Control' /\ (Undisturbed' => Undisturbed)
  BY <1>0, ControlKeeps DEF TypeOK
<1>6. \A s : (\E v \in Workers : Holding(v) /\ s = work[v])
               <=> (\E v \in Workers : Holding(v)' /\ s = work'[v]) \/ s = work[d]
  BY <1>0, <1>3
<1>7. \A s : Flies(s)' <=> Flies(s)
  BY <1>0, <1>2, <1>6 DEF Flies
<1>8. Drained'
  <2>1. Live(Compressors)
    BY <1>0 DEF Live
  <2>2. \A v \in Workers : worker'[v] = "done" <=> worker[v] = "done"
    BY <1>0, <1>3
  <2> QED
    BY <1>0, <1>5, <2>1, <2>2, StagesKeep DEF ParserDone
<1> QED
  BY <1>0, <1>4, <1>5, <1>7, <1>8, MoveKeeps

LEMMA WorkersKeep ==
  ASSUME IInv, (\E x \in Cryptors : Cryptor(x)) \/ (\E d \in Compressors : Decompressor(d))
  PROVE  IInv'
<1>1. ASSUME NEW x \in Cryptors, Cryptor(x) PROVE IInv'
  <2>1. x \in Workers /\ "crypto" \in FaultKinds
    BY DEF Workers, FaultKinds
  <2> QED
    BY <1>1, <2>1, CryptorReceives, CheckKeeps, ProcessKeeps, CryptorSends
    DEF Cryptor, DecryptSegment
<1>2. ASSUME NEW d \in Compressors, Decompressor(d) PROVE IInv'
  <2>1. d \in Workers /\ "compress" \in FaultKinds
    BY DEF Workers, FaultKinds
  <2> QED
    BY <1>2, <2>1, DecompressorReceives, CheckKeeps, ProcessKeeps, DecompressorSends
    DEF Decompressor, DecompressSegment
<1> QED
  BY <1>1, <1>2

-----------------------------------------------------------------------------
\* The reader.

\* It sends while it is not done, so a segment worker is there to receive.
LEMMA SendParsedKeeps ==
  ASSUME IInv, SendParsed, UNCHANGED <<stageVars, mainVars, writerVars>>
  PROVE  IInv'
<1> USE DEF IInv
<1>0. /\ UNCHANGED <<whole, parsed, segment, worker, work, mid, out, main, taken, result,
                    cancelled, next, pending, finalIndex, written, writerPc, finishOk>>
      /\ UNCHANGED errorVars /\ parser = "send" /\ parser' = "loop"
  BY DEF SendParsed, stageVars, mainVars, writerVars, errorVars
<1>1. Control' /\ (Undisturbed' => Undisturbed)
  BY <1>0, ControlKeeps DEF TypeOK
<1>2. Undisturbed => Open(Cryptors)
  <2>1. ~ParserDone
    BY <1>0 DEF ParserDone
  <2> QED
    BY <2>1 DEF Drained, Open, Live
<1>3. \A w \in Workers : Holding(w)' <=> Holding(w)
  BY <1>0 DEF Holding
<1>4. Drained'
  <2>1. ~ParserDone
    BY <1>0 DEF ParserDone
  <2> QED
    BY <1>0, <1>1, <2>1, StagesKeep
<1>5. CASE Open(Cryptors)
  <2>1. feed' = Append(feed, segment)
    BY <1>5 DEF SendParsed, SendTo
  <2>2. /\ feed' \in Seq(SegmentType)
        /\ \A s : In(s, feed') <=> In(s, feed) \/ s = segment
    BY <2>1, ChannelAppend DEF TypeOK
  <2>3. TypeOK'
    BY <1>0, <2>2 DEF TypeOK
  <2>4. \A s : Flies(s)' <=> Flies(s)
    BY <1>0, <1>3, <2>2 DEF Flies
  <2> QED
    BY <1>0, <1>1, <1>4, <2>3, <2>4, MoveKeeps
<1>6. CASE ~Open(Cryptors)
  <2>1. UNCHANGED feed
    BY <1>6 DEF SendParsed, SendTo
  <2>2. TypeOK'
    BY <1>0, <2>1 DEF TypeOK
  <2>3. \A s : Flies(s)' => Flies(s)
    BY <1>0, <1>3, <2>1 DEF Flies
  <2> QED
    BY <1>0, <1>1, <1>2, <1>4, <1>6, <2>2, <2>3, MoveKeeps
<1> QED
  BY <1>5, <1>6

\* It parses the next segment, or is done; a torn segment is reported.
LEMMA ParseKeeps ==
  ASSUME IInv, Parse, UNCHANGED <<stageVars, mainVars, writerVars>>
  PROVE  IInv'
<1> USE DEF IInv
<1>0. /\ UNCHANGED <<feed, whole, worker, work, mid, out, main, taken, result,
                    next, pending, finalIndex, written, writerPc, finishOk>>
      /\ parser = "loop" /\ (UNCHANGED errorVars \/ Reports)
  BY DEF Parse, Reports, FaultKinds, stageVars, mainVars, writerVars
<1>1. Control' /\ (Undisturbed' => Undisturbed) /\ cancelled' \in BOOLEAN
  BY <1>0, ControlKeeps, ErrorsKeep DEF TypeOK
<1>2. \A w \in Workers : Holding(w)' <=> Holding(w)
  BY <1>0 DEF Holding
<1>3. ~ParserDone
  BY <1>0 DEF ParserDone
<1>4. Drained'
  BY <1>0, <1>1, <1>3, StagesKeep
<1>5. CASE parser' = "done" /\ UNCHANGED <<parsed, segment>>
  <2>1. TypeOK'
    BY <1>0, <1>1, <1>5 DEF TypeOK
  <2>2. \A s : Flies(s)' <=> Flies(s)
    BY <1>0, <1>2, <1>5 DEF Flies
  <2> QED
    BY <1>0, <1>1, <1>4, <1>5, <2>1, <2>2, MoveKeeps
<1>6. CASE ~(parser' = "done" /\ UNCHANGED <<parsed, segment>>)
  <2>1. /\ parser' = "send" /\ segment' = Segment(parsed) /\ parsed' = parsed + 1
        /\ parsed # whole
    BY <1>6 DEF Parse
  <2>2. parsed \in Nat /\ parsed < whole /\ segment' \in SegmentType
    BY <2>1, SegmentFacts DEF TypeOK
  <2>3. TypeOK'
    BY <1>0, <1>1, <2>1, <2>2 DEF TypeOK
  <2>4. \A s : Flies(s)' <=> Flies(s) \/ s = Segment(parsed)
    BY <1>0, <1>2, <2>1 DEF Flies
  <2>5. Genuine'
    BY <2>1, <2>2, <2>4 DEF Genuine
  <2>6. Ordered'
    <3>1. \A i \in DOMAIN pending : i \in Nat /\ i < parsed + 1 /\ pending[i] = Segment(i)
      BY <2>2 DEF Ordered, TypeOK
    <3>2. finalIndex # NoIndex => parsed + 1 > Chunks
      BY <2>2 DEF Ordered
    <3> QED
      BY <1>0, <2>1, <3>1, <3>2 DEF Ordered
  <2>7. Accounted'
    <3> SUFFICES ASSUME Undisturbed', NEW i \in Nat, i < parsed + 1
                 PROVE  Flies(Segment(i))' \/ i \in DOMAIN pending \/ i < next
      BY <1>0, <2>1 DEF Accounted
    <3>1. CASE i = parsed
      BY <2>4, <3>1
    <3>2. CASE i # parsed
      BY <1>1, <2>2, <2>4, <3>2 DEF Accounted
    <3> QED
      BY <3>1, <3>2
  <2>8. Concluded'
    BY <1>0 DEF Concluded, TruncationDetected, OkMeansComplete
  <2> QED
    BY <1>1, <1>4, <2>3, <2>5, <2>6, <2>7, <2>8
<1> QED
  BY <1>5, <1>6

-----------------------------------------------------------------------------
\* The pipeline function.

\* A step that only spawns leaves every segment where it is.
LEMMA SpawnsKeep ==
  ASSUME IInv, NEW stage \in {Cryptors, Compressors}, NEW before, NEW checks,
         SpawnWorkers(stage, before, checks), UNCHANGED readerVars
  PROVE  IInv'
<1> USE DEF IInv
<1>0. /\ UNCHANGED <<whole, parser, parsed, segment, feed, work, mid, out, main, taken, result,
                    cancelled, next, pending, finalIndex, written, writerPc, finishOk>>
      /\ UNCHANGED errorVars /\ stage \subseteq Workers
  BY DEF SpawnWorkers, readerVars, mainVars, writerVars, errorVars, Workers
<1>1. Control' /\ (Undisturbed' => Undisturbed)
  BY <1>0, ControlKeeps DEF TypeOK
<1>2. /\ worker' \in [Workers -> WorkerPlaces]
      /\ \A v \in Workers : \/ worker'[v] = worker[v]
                            \/ worker[v] = "unspawned" /\ worker'[v] = "recv"
                            \/ worker[v] = "unspawned" /\ worker'[v] = "done" /\ cancelled
  <2>1. CASE checks /\ cancelled
    BY <2>1 DEF SpawnWorkers, TypeOK, WorkerPlaces
  <2>2. CASE ~(checks /\ cancelled)
    <3>1. PICK w \in {v \in stage : worker[v] = "unspawned"} :
            worker' = [worker EXCEPT ![w] = "recv"]
      BY <2>2 DEF SpawnWorkers
    <3> QED
      BY <1>0, <3>1 DEF TypeOK, WorkerPlaces
  <2> QED
    BY <2>1, <2>2
<1>3. \A v \in Workers : Holding(v)' <=> Holding(v)
  BY <1>2 DEF Holding
<1>4. Undisturbed' => \A v \in Workers : worker'[v] = "done" <=> worker[v] = "done"
  BY <1>0, <1>2 DEF Undisturbed
<1>5. TypeOK'
  BY <1>0, <1>2 DEF TypeOK
<1>6. Drained'
  BY <1>0, <1>1, <1>4, StagesKeep DEF ParserDone
<1>7. \A s : Flies(s)' <=> Flies(s)
  BY <1>0, <1>3 DEF Flies
<1> QED
  BY <1>0, <1>1, <1>5, <1>6, <1>7, MoveKeeps

\* The reader is spawned, or its file cannot be opened.
LEMMA SpawnParserKeeps ==
  ASSUME IInv, SpawnParser
  PROVE  IInv'
<1> USE DEF IInv
<1>0. /\ UNCHANGED <<whole, parsed, segment, feed, worker, work, mid, out, main, taken, result,
                    next, pending, finalIndex, written, writerPc, finishOk>>
      /\ parser = "unspawned" /\ parser' \in {"loop", "done"}
      /\ UNCHANGED errorVars \/ Reports
  BY DEF SpawnParser, Reports, FaultKinds, stageVars, mainVars, writerVars
<1>1. Control' /\ (Undisturbed' => Undisturbed) /\ cancelled' \in BOOLEAN
  BY <1>0, ControlKeeps, ErrorsKeep DEF TypeOK
<1>2. \A w \in Workers : Holding(w)' <=> Holding(w)
  BY <1>0 DEF Holding
<1>3. TypeOK'
  BY <1>0, <1>1 DEF TypeOK
<1>4. Drained'
  <2>1. ~ParserDone
    BY <1>0 DEF ParserDone
  <2> QED
    BY <1>0, <1>1, <2>1, StagesKeep
<1>5. \A s : Flies(s)' <=> Flies(s)
  BY <1>0, <1>2 DEF Flies
<1> QED
  BY <1>0, <1>1, <1>3, <1>4, <1>5, MoveKeeps

\* A step from one place to another leaves every segment where it is; the
\* loop only ends undisturbed when nothing can arrive any more.
LEMMA MainMoves ==
  ASSUME IInv, Control', cancelled' \in BOOLEAN, Undisturbed' => Undisturbed,
         writerPc' \in {"idle", "flush", "failed", "drain", "done"},
         main # "taken", main' \in MainPlaces \ {"taken"},
         \/ main \in {"finish", "drain"}
         \/ Undisturbed' /\ main' \in {"finish", "drain", "join", "returned"}
              => ~Live(Compressors) /\ out = <<>>,
         UNCHANGED <<feed, stageVars, readerVars, taken, result>>,
         UNCHANGED <<next, pending, finalIndex, written, finishOk>>
  PROVE  IInv'
<1> USE DEF IInv
<1>0. UNCHANGED <<whole, parser, parsed, segment, worker, work, mid, out>>
  BY DEF stageVars, readerVars
<1>1. TypeOK'
  BY <1>0 DEF TypeOK
<1>2. \A w \in Workers : Holding(w)' <=> Holding(w)
  BY <1>0 DEF Holding
<1>3. \A s : Flies(s)' <=> Flies(s)
  BY <1>0, <1>2 DEF Flies
<1>4. Drained'
  <2>1. /\ Live(Cryptors)' <=> Live(Cryptors)
        /\ Live(Compressors)' <=> Live(Compressors)
        /\ ParserDone' <=> ParserDone
    BY <1>0 DEF Live, ParserDone
  <2> QED
    BY <1>0, <2>1 DEF Drained
<1> QED
  BY <1>0, <1>1, <1>3, <1>4, MoveKeeps

\* Spawning, the end of the loop, and the calls of the writer.
LEMMA WalkKeeps ==
  ASSUME IInv, UNCHANGED readerVars,
         \/ Start \/ EnterLoop(parser # "unspawned") \/ LoopEnds(Compressors)
         \/ PushOk \/ PushFailed \/ CallFinish \/ EndOfScope
  PROVE  IInv'
<1> USE DEF IInv
<1>1. CASE Start \/ EnterLoop(parser # "unspawned") \/ LoopEnds(Compressors)
  <2>1. /\ UNCHANGED <<feed, stageVars, readerVars, taken, result, fatal, cancelled>>
        /\ UNCHANGED <<next, pending, finalIndex, written, writerPc, finishOk>>
        /\ main \in {"header", "spawn", "loop"} /\ main' \in {"spawn", "loop", "finish"}
        /\ main' = "finish" => ~Live(Compressors) /\ out = <<>>
    BY <1>1 DEF Start, EnterLoop, LoopEnds, errorVars, writerVars
  <2>2. Control' /\ (Undisturbed' => Undisturbed)
    BY <2>1 DEF Control, Undisturbed
  <2> QED
    BY <2>1, <2>2, MainMoves DEF TypeOK, MainPlaces
<1>2. CASE PushOk \/ CallFinish
  <2>1. /\ UNCHANGED <<feed, stageVars, readerVars, taken, result, fatal, cancelled>>
        /\ UNCHANGED <<next, pending, finalIndex, written, finishOk>>
        /\ \/ main = "push" /\ main' = "loop" /\ writerPc = "flush" /\ writerPc' = "idle"
           \/ main = "finish" /\ main' = "drain" /\ writerPc' = "drain"
    BY <1>2 DEF PushOk, PushReturns, CallFinish, Finish, errorVars
  <2>2. Control' /\ (Undisturbed' => Undisturbed)
    BY <2>1 DEF Control, Undisturbed
  <2> QED
    BY <2>1, <2>2, MainMoves DEF TypeOK, MainPlaces
<1>3. CASE PushFailed
  <2>1. Reports /\ cancelled'
    BY <1>3 DEF PushFailed, Reports, ReportError, FaultKinds
  <2>2. /\ UNCHANGED <<feed, stageVars, readerVars, taken, result>>
        /\ UNCHANGED <<next, pending, finalIndex, written, writerPc, finishOk>>
        /\ main = "push" /\ main' = "finish" /\ writerPc = "failed"
    BY <1>3 DEF PushFailed, writerVars
  <2>3. cancelled' \in BOOLEAN /\ (cancelled' => fatal' # NoError)
    BY <2>1, ErrorsKeep DEF TypeOK
  <2>4. Control' /\ (Undisturbed' => Undisturbed) /\ ~Undisturbed'
    BY <2>1, <2>2, <2>3 DEF Control, Undisturbed
  <2> QED
    BY <2>2, <2>3, <2>4, MainMoves DEF TypeOK, MainPlaces
<1>4. CASE EndOfScope
  <2>1. UNCHANGED errorVars \/ Reports
    BY <1>4 DEF EndOfScope, Reports
  <2>2. /\ UNCHANGED <<feed, stageVars, readerVars, taken, result>>
        /\ UNCHANGED <<next, pending, finalIndex, written, writerPc, finishOk>>
        /\ main = "drain" /\ main' = "join" /\ writerPc = "done"
        /\ finishOk = "ok" \/ Reports
    BY <1>4 DEF EndOfScope, Reports, writerVars
  <2>3. /\ cancelled' \in BOOLEAN /\ (cancelled' => fatal' # NoError)
        /\ (cancelled => cancelled') /\ (Reports => cancelled')
    BY <2>1, ErrorsKeep DEF TypeOK
  <2>4. Control' /\ (Undisturbed' => Undisturbed)
    BY <2>2, <2>3 DEF Control, Undisturbed
  <2> QED
    BY <2>2, <2>3, <2>4, MainMoves DEF TypeOK, MainPlaces
<1> QED
  BY <1>1, <1>2, <1>3, <1>4

\* The loop takes a segment off the channel.
LEMMA TakeKeeps ==
  ASSUME IInv, Take, UNCHANGED readerVars
  PROVE  IInv'
<1> USE DEF IInv
<1>0. /\ UNCHANGED <<whole, parser, parsed, segment, feed, worker, work, mid, result, cancelled, fatal,
                    next, pending, finalIndex, written, writerPc, finishOk>>
      /\ main = "loop" /\ main' = "taken" /\ out # <<>>
      /\ taken' = Head(out) /\ out' = Tail(out)
  BY DEF Take, readerVars, writerVars, errorVars
<1>1. /\ out' \in Seq(SegmentType) /\ taken' \in SegmentType
      /\ \A s : In(s, out) <=> In(s, out') \/ s = taken'
  BY <1>0, ChannelTake DEF TypeOK
<1>2. TypeOK'
  BY <1>0, <1>1 DEF TypeOK, MainPlaces
<1>3. Control' /\ (Undisturbed' => Undisturbed)
  BY <1>0 DEF Control, Undisturbed
<1>4. \A w \in Workers : Holding(w)' <=> Holding(w)
  BY <1>0 DEF Holding
<1>5. \A s : Flies(s)' <=> Flies(s)
  BY <1>0, <1>1, <1>4 DEF Flies
<1>6. Drained'
  <2>1. /\ Live(Cryptors)' <=> Live(Cryptors)
        /\ ParserDone' <=> ParserDone
    BY <1>0 DEF Live, ParserDone
  <2> QED
    BY <1>0, <1>3, <2>1 DEF Drained
<1> QED
  BY <1>0, <1>2, <1>3, <1>5, <1>6, MoveKeeps

\* And hands it to the writer, which buffers it.
LEMMA PushKeeps ==
  ASSUME IInv, PushTaken(FALSE), UNCHANGED readerVars
  PROVE  IInv'
<1> USE DEF IInv
<1>0. /\ UNCHANGED <<whole, parser, parsed, segment, feed, worker, work, mid, out, taken, result,
                    cancelled, fatal, next, written, finishOk>>
      /\ main = "taken" /\ main' = "push" /\ writerPc = "idle" /\ writerPc' = "flush"
      /\ pending' = Insert(pending, taken)
      /\ finalIndex' = IF taken.kind = "final" THEN taken.index ELSE finalIndex
  BY DEF PushTaken, Push, stageVars, readerVars, errorVars
<1>1. PICK n \in Nat : n < parsed /\ taken = Segment(n)
  BY <1>0 DEF Genuine, Flies
<1>2. taken.index = n /\ (taken.kind = "final" => n = Chunks)
  BY <1>1, SegmentFacts
<1>3. /\ DOMAIN pending' = DOMAIN pending \cup {n}
      /\ \A i \in DOMAIN pending' : pending'[i] = IF i = n THEN taken ELSE pending[i]
  BY <1>0, <1>2 DEF Insert
<1>4. TypeOK'
  BY <1>0, <1>1, <1>3 DEF TypeOK, MainPlaces
<1>5. Control' /\ (Undisturbed' => Undisturbed)
  BY <1>0 DEF Control, Undisturbed
<1>6. \A w \in Workers : Holding(w)' <=> Holding(w)
  BY <1>0 DEF Holding
<1>7. \A s : /\ Flies(s)' => Flies(s)
             /\ Flies(s) => Flies(s)' \/ s = taken
  BY <1>0, <1>6 DEF Flies
<1>8. Genuine'
  BY <1>0, <1>7 DEF Genuine
<1>9. Ordered'
  <2>1. \A i \in DOMAIN pending' : i < parsed /\ pending'[i] = Segment(i)
    BY <1>1, <1>3 DEF Ordered
  <2>2. finalIndex' # NoIndex => parsed > Chunks
    BY <1>0, <1>1, <1>2 DEF Ordered, TypeOK
  <2>3. finishOk = "none"
    BY <1>0 DEF Control
  <2> QED
    BY <1>0, <2>1, <2>2, <2>3 DEF Ordered
<1>10. Accounted'
  <2> SUFFICES ASSUME Undisturbed', NEW i \in Nat, i < parsed
               PROVE  Flies(Segment(i))' \/ i \in DOMAIN pending' \/ i < next
    BY <1>0 DEF Accounted
  <2>1. Flies(Segment(i)) \/ i \in DOMAIN pending \/ i < next
    BY <1>5 DEF Accounted
  <2>2. Segment(i) = taken => i = n
    BY <1>1, SegmentFacts
  <2> QED
    BY <1>3, <1>7, <2>1, <2>2
<1>11. Drained'
  <2>1. /\ Live(Cryptors)' <=> Live(Cryptors)
        /\ ParserDone' <=> ParserDone
    BY <1>0 DEF Live, ParserDone
  <2> QED
    BY <1>0, <1>5, <2>1 DEF Drained
<1>12. Concluded'
  BY <1>0 DEF Concluded, TruncationDetected, OkMeansComplete
<1> QED
  BY <1>4, <1>5, <1>8, <1>9, <1>10, <1>11, <1>12

\* The writer writes what comes next, fails to, or finish returns.
LEMMA WriterKeeps ==
  ASSUME IInv, WriterRuns, UNCHANGED readerVars
  PROVE  IInv'
<1> USE DEF IInv
<1>0. /\ UNCHANGED <<whole, parser, parsed, segment, feed, worker, work, mid, out, taken, result,
                    cancelled, fatal, main>>
      /\ main \in {"push", "drain"} /\ result = "pending"
  BY DEF WriterRuns, Control, stageVars, mainVars, readerVars, errorVars
<1>1. \A w \in Workers : Holding(w)' <=> Holding(w)
  BY <1>0 DEF Holding
<1>2. \A s : Flies(s)' <=> Flies(s)
  BY <1>0, <1>1 DEF Flies
<1>3. Genuine' /\ Concluded'
  BY <1>0, <1>2 DEF Genuine, Concluded, TruncationDetected, OkMeansComplete
<1>4. \A w \in Workers : worker'[w] = worker[w]
  BY <1>0
<1>5. (Undisturbed' => Undisturbed) => Drained'
  <2>1. /\ Live(Cryptors)' <=> Live(Cryptors)
        /\ Live(Compressors)' <=> Live(Compressors)
        /\ ParserDone' <=> ParserDone
    BY <1>0 DEF Live, ParserDone
  <2> QED
    BY <1>0, <2>1 DEF Drained
<1>6. CASE WriteNext
  <2>1. /\ next \in DOMAIN pending /\ next \in Nat /\ next < parsed
        /\ pending[next] = Segment(next) /\ parsed <= Chunks + 1
        /\ UNCHANGED <<finalIndex, writerPc, finishOk>> /\ next' = next + 1
        /\ written' = Append(written, Segment(next)) /\ parsed \in Nat
        /\ writerPc # "done"
    BY <1>6 DEF WriteNext, Ordered, TypeOK
  <2>2. /\ DOMAIN pending' = DOMAIN pending \ {next}
        /\ \A i \in DOMAIN pending' : pending'[i] = pending[i]
    BY <1>6 DEF WriteNext, Remove
  <2>3. Segment(next) \in SegmentType
    BY <2>1, SegmentFacts
  <2>4. /\ written' \in Seq(SegmentType) /\ Len(written') = next + 1
        /\ \A i \in 1..next : written'[i] = written[i]
        /\ written'[next + 1] = Segment(next)
    BY <2>1, <2>3 DEF TypeOK, Ordered
  <2>5. TypeOK'
    BY <1>0, <2>1, <2>2, <2>4 DEF TypeOK
  <2>6. Control' /\ (Undisturbed' => Undisturbed)
    BY <1>0, <2>1 DEF Control, Undisturbed
  <2>7. Ordered'
    <3>1. next + 1 <= Chunks + 1
      BY <2>1
    <3>2. \A i \in 1..(next + 1) : written'[i] = Segment(i - 1)
      <4>1. \A i \in 1..(next + 1) : i \in 1..next \/ i = next + 1
        BY <2>1
      <4>2. (next + 1) - 1 = next
        BY <2>1
      <4> QED
        BY <2>4, <4>1, <4>2 DEF Ordered
    <3>3. finishOk' # "ok"
      BY <2>1 DEF Control
    <3> QED
      BY <1>0, <2>1, <2>2, <2>4, <3>1, <3>2, <3>3 DEF Ordered
  <2>8. Accounted'
    BY <1>0, <1>2, <2>1, <2>2, <2>6 DEF Accounted
  <2> QED
    BY <1>3, <1>5, <2>5, <2>6, <2>7, <2>8
<1>7. CASE FinishReturns
  <2>1. /\ UNCHANGED <<next, pending, finalIndex, written>>
        /\ writerPc = "drain" /\ writerPc' = "done" /\ next \notin DOMAIN pending
        /\ finishOk' \in {"ok", "missing"} /\ (finishOk' = "ok" => finalIndex # NoIndex)
    BY <1>7 DEF FinishReturns
  <2>2. TypeOK' /\ Ordered'
    BY <1>0, <2>1 DEF TypeOK, Ordered
  <2>3. Control' /\ (Undisturbed' => Undisturbed)
    BY <1>0, <2>1 DEF Control, Undisturbed
  <2>4. Accounted'
    BY <1>0, <1>2, <2>1, <2>3 DEF Accounted
  <2> QED
    BY <1>3, <1>5, <2>2, <2>3, <2>4
<1>8. CASE WriteFails
  <2>1. /\ UNCHANGED <<next, finalIndex, written>>
        /\ DOMAIN pending' = DOMAIN pending \ {next}
        /\ \A i \in DOMAIN pending' : pending'[i] = pending[i]
        /\ \/ writerPc = "flush" /\ writerPc' = "failed" /\ UNCHANGED finishOk
           \/ writerPc = "drain" /\ writerPc' = "done" /\ finishOk' = "io"
    BY <1>8 DEF WriteFails, Remove
  <2>2. TypeOK' /\ ~Undisturbed' /\ (finishOk' = "ok" => finishOk = "ok")
    BY <1>0, <2>1 DEF TypeOK, Undisturbed
  <2>3. Ordered'
    BY <1>0, <2>1, <2>2 DEF Ordered
  <2>4. Control'
    BY <1>0, <2>1 DEF Control
  <2> QED
    BY <1>3, <1>5, <2>2, <2>3, <2>4 DEF Accounted
<1> QED
  BY <1>6, <1>7, <1>8 DEF WriterRuns

\* At the join of an undisturbed pipeline nothing is on its way any more.
LEMMA NothingFlies ==
  ASSUME IInv, Undisturbed, main = "join", ParserDone, ~Live(Workers)
  PROVE  \A s : ~Flies(s)
<1> USE DEF IInv
<1>1. \A w \in Workers : worker[w] = "done"
  BY DEF Live
<1>2. /\ out = <<>> /\ mid = <<>> /\ feed = <<>>
  BY <1>1 DEF Drained, Workers
<1> QED
  BY <1>1, <1>2, EmptyChannel DEF Flies, ParserDone, Holding

\* The join: Ok means that everything parsed is in the output, the FINAL
\* marker included.
LEMMA JoinKeeps ==
  ASSUME IInv, Join(ParserDone), UNCHANGED readerVars
  PROVE  IInv'
<1> USE DEF IInv
<1>0. /\ UNCHANGED <<whole, parser, parsed, segment, feed, worker, work, mid, out, taken,
                    cancelled, fatal, next, pending, finalIndex, written, writerPc, finishOk>>
      /\ main = "join" /\ main' = "returned" /\ ParserDone /\ ~Live(Workers)
      /\ result' = IF fatal = NoError THEN "ok" ELSE "error"
  BY DEF Join, stageVars, readerVars, writerVars, errorVars
<1>1. TypeOK'
  BY <1>0 DEF TypeOK, MainPlaces
<1>2. Control' /\ (Undisturbed' => Undisturbed)
  BY <1>0 DEF Control, Undisturbed
<1>3. \A w \in Workers : Holding(w)' <=> Holding(w)
  BY <1>0 DEF Holding
<1>4. \A s : Flies(s)' <=> Flies(s)
  BY <1>0, <1>3 DEF Flies
<1>5. Genuine' /\ Ordered' /\ Accounted'
  BY <1>0, <1>2, <1>4 DEF Genuine, Ordered, Accounted
<1>6. Drained'
  <2>1. /\ Live(Cryptors)' <=> Live(Cryptors)
        /\ Live(Compressors)' <=> Live(Compressors)
        /\ ParserDone' <=> ParserDone
    BY <1>0 DEF Live, ParserDone
  <2> QED
    BY <1>0, <1>2, <2>1 DEF Drained
<1>7. Concluded'
  <2> SUFFICES ASSUME fatal = NoError
               PROVE  /\ whole = Chunks + 1
                      /\ written = [i \in 1..(Chunks + 1) |-> Segment(i - 1)]
    BY <1>0 DEF Concluded, TruncationDetected, OkMeansComplete
  <2>1. ~cancelled /\ finishOk = "ok" /\ writerPc = "done" /\ Undisturbed
    BY <1>0 DEF Control, Undisturbed
  <2>2. parsed > Chunks /\ next \notin DOMAIN pending
    BY <2>1 DEF Ordered
  <2>3. whole = Chunks + 1 /\ parsed = Chunks + 1
    BY <2>2 DEF TypeOK
  <2>4. \A i \in Nat : i < Chunks + 1 => i \in DOMAIN pending \/ i < next
    BY <1>0, <2>1, <2>3, NothingFlies DEF Accounted
  <2>a. next \in Nat /\ next <= Chunks + 1 /\ Chunks \in Nat
    BY ChunksAssumption DEF Ordered, TypeOK
  <2>b. next < Chunks + 1 => next \in DOMAIN pending \/ next < next
    BY <2>4, <2>a
  <2>5. next = Chunks + 1
    BY <2>2, <2>a, <2>b
  <2>6. /\ DOMAIN written = 1..(Chunks + 1)
        /\ \A i \in 1..(Chunks + 1) : written[i] = Segment(i - 1)
    BY <2>5 DEF Ordered, TypeOK
  <2>7. written = [i \in 1..(Chunks + 1) |-> written[i]]
    BY <2>6 DEF TypeOK
  <2> QED
    BY <2>3, <2>6, <2>7
<1> QED
  BY <1>1, <1>2, <1>5, <1>6, <1>7

LEMMA InitIInv == Init => IInv
<1> SUFFICES ASSUME Init PROVE IInv
  OBVIOUS
<1> USE DEF Init, StagesInit, BaseInit, WriterInit
<1>1. Final(0) \in SegmentType
  BY DEF Final, SegmentType
<1>2. written \in Seq(SegmentType) /\ Len(written) = 0 /\ DOMAIN pending = {}
  OBVIOUS
<1>3. TypeOK
  <2>1. worker \in [Workers -> WorkerPlaces] /\ work \in [Workers -> SegmentType]
    BY <1>1 DEF WorkerPlaces
  <2>2. whole \in Nat /\ parsed \in Nat /\ parsed <= whole /\ whole <= Chunks + 1
    OBVIOUS
  <2>3. feed \in Seq(SegmentType) /\ mid \in Seq(SegmentType) /\ out \in Seq(SegmentType)
    OBVIOUS
  <2> QED
    BY <1>1, <1>2, <2>1, <2>2, <2>3 DEF TypeOK, MainPlaces
<1>4. \A s : ~Flies(s)
  BY EmptyChannel DEF Flies, Holding
<1>5. Genuine
  BY <1>4 DEF Genuine
<1>6. Ordered
  BY <1>2 DEF Ordered
<1>7. Accounted /\ Control /\ Drained /\ Concluded
  BY DEF Accounted, Control, Drained, Concluded, TruncationDetected, OkMeansComplete, Workers
<1> QED
  BY <1>3, <1>5, <1>6, <1>7 DEF IInv

LEMMA NextIInv == IInv /\ [Next]_vars => IInv'
<1> SUFFICES ASSUME IInv, [Next]_vars PROVE IInv'
  OBVIOUS
<1>1. CASE Main
  <2>1. CASE Start
    BY <2>1, WalkKeeps DEF Start
  <2>2. CASE SpawnParser
    BY <2>2, SpawnParserKeeps
  <2>3. CASE SpawnCryptor /\ UNCHANGED readerVars
    BY <2>3, SpawnsKeep DEF SpawnCryptor
  <2>4. CASE SpawnDecompressor /\ UNCHANGED readerVars
    BY <2>4, SpawnsKeep DEF SpawnDecompressor
  <2>5. CASE WriterLoop /\ UNCHANGED readerVars
    BY <2>5, TakeKeeps, WriterKeeps, WalkKeeps DEF WriterLoop
  <2>6. CASE (EnterLoop(parser # "unspawned") \/ LoopEnds(Compressors)) /\ UNCHANGED readerVars
    BY <2>6, WalkKeeps
  <2>7. CASE PushTaken(FALSE) /\ UNCHANGED readerVars
    BY <2>7, PushKeeps
  <2>8. CASE Join(ParserDone) /\ UNCHANGED readerVars
    BY <2>8, JoinKeeps
  <2> QED
    BY <1>1, <2>1, <2>2, <2>3, <2>4, <2>5, <2>6, <2>7, <2>8 DEF Main
<1>2. CASE Reader
  BY <1>2, ParseKeeps, SendParsedKeeps DEF Reader
<1>3. CASE (\E x \in Cryptors : Cryptor(x)) \/ (\E d \in Compressors : Decompressor(d))
  BY <1>3, WorkersKeep
<1>4. CASE UNCHANGED vars
  <2>1. /\ UNCHANGED <<whole, parser, parsed, segment, feed, worker, work, mid, out, taken,
                      cancelled, fatal, next, pending, finalIndex, written, writerPc, finishOk>>
        /\ UNCHANGED <<main, result>>
    BY <1>4 DEF vars, stageVars, mainVars, readerVars, writerVars, errorVars
  <2>2. TypeOK' /\ Control' /\ (Undisturbed' => Undisturbed)
    BY <2>1 DEF IInv, TypeOK, Control, Undisturbed
  <2>3. \A w \in Workers : Holding(w)' <=> Holding(w)
    BY <2>1 DEF Holding
  <2>4. \A s : Flies(s)' <=> Flies(s)
    BY <2>1, <2>3 DEF Flies
  <2>5. Drained'
    BY <2>1, <2>2, StagesKeep DEF IInv, ParserDone
  <2> QED
    BY <2>1, <2>2, <2>4, <2>5, MoveKeeps
<1> QED
  BY <1>1, <1>2, <1>3, <1>4 DEF Next, Returned

THEOREM InductiveInvariant == Spec => []IInv
  BY InitIInv, NextIInv, PTL DEF Spec

\* Whatever the size of the stream and wherever it was cut, Ok is only
\* returned for a whole one (readers.rs:242-244, io.rs:380-383).
THEOREM TruncationIsDetected == Spec => []TruncationDetected
<1>1. IInv => TruncationDetected
  BY DEF IInv, Concluded
<1> QED
  BY <1>1, InductiveInvariant, PTL

\* And it means that every segment reached the sink, in order
\* (pipeline.rs:447-485).
THEOREM OkIsComplete == Spec => []OkMeansComplete
<1>1. IInv => OkMeansComplete
  BY DEF IInv, Concluded
<1> QED
  BY <1>1, InductiveInvariant, PTL
=============================================================================
