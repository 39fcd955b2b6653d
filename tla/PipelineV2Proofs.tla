--------------------------- MODULE PipelineV2Proofs ---------------------------
(***************************************************************************)
(* Proofs, for any number of workers, segments, places and failures, of    *)
(* what a v2 call returns: Ok only when the whole input is out and no      *)
(* failure was swallowed, and a panic only over an error that came second. *)
(*                                                                         *)
(* IInv is about the monitor thread.  It leaves when it has recorded an    *)
(* error or when every clone of fatal_tx was dropped, which only happens   *)
(* when no thread that could report is live; so a message that was sent is *)
(* recorded, and a panic has an error before it.                           *)
(*                                                                         *)
(* While nothing was sent (Undisturbed) every failure so far is on its way *)
(* to a report (Doomed), a stage that has ended has left nothing behind it *)
(* (Drained), and every segment read is on its way or in the writer        *)
(* (Accounted).  At the join nothing is on its way.                        *)
(***************************************************************************)
EXTENDS PipelineV2, TLAPS

Channels == {"feed", "raw", "clean", "out"}
Message == [index : Nat, kind : {"data", "final", "error"}, chunk : Nat]

ReaderPlaces == {"check", "send", "fatal", "store", "done", "panicked"}
AdapterPlaces == {"recv", "send", "fatal", "store", "sendErr", "done", "panicked"}
MainPlaces == {"recv", "push", "end", "drain", "close", "fatal", "store", "done", "panicked"}
CompressorPlaces == {"recv", "send", "sendErr", "done"}
CryptorPlaces == {"check", "recv", "work", "send", "invalid", "report", "reportLast", "flag",
                  "flagLast", "sendErr", "done"}
Places == ReaderPlaces \cup AdapterPlaces \cup MainPlaces \cup CompressorPlaces
          \cup CryptorPlaces
PlacesOf(t) ==
  IF t = Reader THEN ReaderPlaces ELSE IF t = Adapter THEN AdapterPlaces
  ELSE IF t = Main THEN MainPlaces
  ELSE IF t \in Compressors THEN CompressorPlaces ELSE CryptorPlaces

Gone(t) == pc[t] \in {"done", "panicked"}
Reporters == Threads \ Compressors

Data ==
  /\ mode \in {"encrypt", "decrypt"} /\ input \in Nat
  /\ position \in 0..(input + 1)
  /\ work \in [Threads -> Message]
  /\ queue \in [Channels -> Seq(Message)]

TypeOK ==
  /\ Data
  /\ pc \in [Threads -> Places]
  /\ \A t \in Threads : pc[t] \in PlacesOf(t)
  /\ monitor \in {"waiting", "storing", "exited"}
  /\ closure \in {"running", "ok", "error", "panic"}

\* What was sent to the monitor thread is recorded before it leaves, and the
\* flag, an Err behind it and a panic come after a message.
Recorded ==
  /\ monitor = "storing" => fatal # NoError
  /\ monitor = "exited" => fatal # NoError \/ \A t \in Reporters : Gone(t)
  /\ \A t \in Threads : pc[t] = "panicked" => fatal # NoError
  /\ result = "panic" => fatal # NoError
  /\ cancelled \/ fatal # NoError => mail # NoError
  /\ mail # NoError /\ monitor # "waiting" => fatal # NoError
  /\ \A t \in Threads : pc[t] \in {"store", "flag", "flagLast"} => mail # NoError
  /\ \A t \in Reporters : pc[t] = "sendErr" => mail # NoError

\* The closure's Result is there when the pipeline function has left it, and
\* the call's when all threads are gone.
Ended ==
  /\ closure = "running" <=> ~Gone(Main)
  /\ closure = "panic" <=> pc[Main] = "panicked"
  /\ result # "pending" => ~Live(Threads) /\ monitor = "exited"

\* The inductive invariant of the threads.
IInv == TypeOK /\ Recorded /\ Ended

USE ThreadsAssumption, LimitsAssumption, NoIndexAssumption
    DEF ThreadsAssumption, LimitsAssumption, NoIndexAssumption

-----------------------------------------------------------------------------
(* What steps are made of.                                                 *)

LEMMA ThreadFacts ==
  /\ Reader \in Reporters /\ Adapter \in Reporters /\ Main \in Reporters
  /\ Reader # Adapter /\ Reader # Main /\ Adapter # Main
  /\ \A x \in Cryptors : x \in Reporters
  /\ Reporters \subseteq Threads /\ Workers \subseteq Threads
  /\ Compressors \subseteq Workers /\ Cryptors \subseteq Workers
  /\ \A t \in Threads : t \in Reporters <=> t \notin Compressors
  /\ Reader \notin Workers /\ Adapter \notin Workers /\ Main \notin Workers
<1>1. /\ Reader \in Threads /\ Adapter \in Threads /\ Main \in Threads
      /\ Reader \notin Workers /\ Adapter \notin Workers /\ Main \notin Workers
  BY DEF Threads
<1>2. /\ Compressors \subseteq Workers /\ Cryptors \subseteq Workers /\ Workers \subseteq Threads
  BY DEF Threads, Workers
<1>3. Reader # Adapter /\ Reader # Main /\ Adapter # Main
  OBVIOUS
<1> QED
  BY <1>1, <1>2, <1>3 DEF Reporters

\* The messages a channel holds.
Content(channel) == {channel[k] : k \in DOMAIN channel}

LEMMA ContentOfAppend ==
  ASSUME NEW c \in Seq(Message), NEW m \in Message
  PROVE  /\ Append(c, m) \in Seq(Message) /\ Append(c, m) # <<>>
         /\ Content(Append(c, m)) = Content(c) \cup {m}
<1> DEFINE longer == Append(c, m)
<1>1. /\ longer \in Seq(Message) /\ longer # <<>> /\ Len(c) \in Nat
      /\ DOMAIN longer = 1..(Len(c) + 1) /\ DOMAIN c = 1..Len(c)
      /\ \A k \in 1..Len(c) : longer[k] = c[k]
      /\ longer[Len(c) + 1] = m
  OBVIOUS
<1>2. \A k \in 1..(Len(c) + 1) : k \in 1..Len(c) \/ k = Len(c) + 1
  BY <1>1
<1> HIDE DEF longer
<1>3. Content(longer) \subseteq Content(c) \cup {m}
  BY <1>1, <1>2 DEF Content
<1>4. Content(c) \cup {m} \subseteq Content(longer)
  <2>1. \A k \in 1..Len(c) : k \in 1..(Len(c) + 1)
    BY <1>1
  <2>2. Len(c) + 1 \in 1..(Len(c) + 1)
    BY <1>1
  <2> QED
    BY <1>1, <2>1, <2>2 DEF Content
<1> QED
  BY <1>1, <1>3, <1>4 DEF longer

LEMMA ContentOfTail ==
  ASSUME NEW c \in Seq(Message), c # <<>>
  PROVE  /\ Tail(c) \in Seq(Message) /\ Head(c) \in Message
         /\ Content(c) = Content(Tail(c)) \cup {Head(c)}
<1> DEFINE rest == Tail(c)
<1>1. /\ rest \in Seq(Message) /\ Head(c) \in Message /\ Head(c) = c[1]
      /\ Len(c) \in Nat /\ Len(c) # 0 /\ DOMAIN c = 1..Len(c)
      /\ DOMAIN rest = 1..(Len(c) - 1)
      /\ \A k \in 1..(Len(c) - 1) : rest[k] = c[k + 1] /\ k + 1 \in 1..Len(c)
  OBVIOUS
<1>2. \A k \in 1..Len(c) : k = 1 \/ (k - 1 \in 1..(Len(c) - 1) /\ c[k] = rest[k - 1])
  BY <1>1
<1> HIDE DEF rest
<1>3. Content(c) \subseteq Content(rest) \cup {Head(c)}
  BY <1>1, <1>2 DEF Content
<1>4. Content(rest) \cup {Head(c)} \subseteq Content(c)
  <2>1. 1 \in 1..Len(c)
    BY <1>1
  <2> QED
    BY <1>1, <2>1 DEF Content
<1> QED
  BY <1>1, <1>3, <1>4 DEF rest

LEMMA EmptyContent == Content(<<>>) = {}
BY DEF Content

\* A receive takes the head off one channel.
LEMMA TakeEffect ==
  ASSUME Data, NEW p \in Channels, queue[p] # <<>>,
         queue' = [queue EXCEPT ![p] = Tail(@)]
  PROVE  /\ queue' \in [Channels -> Seq(Message)]
         /\ Head(queue[p]) \in Message
         /\ Content(queue[p]) = Content(queue'[p]) \cup {Head(queue[p])}
         /\ \A q \in Channels : q # p => queue'[q] = queue[q]
<1>1. queue[p] \in Seq(Message)
  BY DEF Data
<1>2. /\ Tail(queue[p]) \in Seq(Message) /\ Head(queue[p]) \in Message
      /\ Content(queue[p]) = Content(Tail(queue[p])) \cup {Head(queue[p])}
  BY <1>1, ContentOfTail
<1>3. /\ queue' \in [Channels -> Seq(Message)]
      /\ queue'[p] = Tail(queue[p])
      /\ \A q \in Channels : q # p => queue'[q] = queue[q]
  BY <1>2 DEF Data
<1> QED
  BY <1>2, <1>3

\* A send adds to one channel, or to none that is not open.
LEMMA SendEffect ==
  ASSUME Data, NEW p \in Channels, NEW m \in Message, Send(p, m)
  PROVE  /\ queue' \in [Channels -> Seq(Message)]
         /\ Content(queue'[p]) = Content(queue[p]) \cup (IF Open(p) THEN {m} ELSE {})
         /\ \A q \in Channels : q # p => queue'[q] = queue[q]
<1>1. CASE ~Open(p)
  BY <1>1 DEF Send, Data
<1>2. CASE Open(p)
  <2>1. queue' = [queue EXCEPT ![p] = Append(@, m)] /\ queue[p] \in Seq(Message)
    BY <1>2 DEF Send, Data
  <2>2. /\ Append(queue[p], m) \in Seq(Message)
        /\ Content(Append(queue[p], m)) = Content(queue[p]) \cup {m}
    BY <2>1, ContentOfAppend
  <2>3. /\ queue' \in [Channels -> Seq(Message)]
        /\ queue'[p] = Append(queue[p], m)
        /\ \A q \in Channels : q # p => queue'[q] = queue[q]
    BY <2>1, <2>2 DEF Data
  <2> QED
    BY <1>2, <2>2, <2>3
<1> QED
  BY <1>1, <1>2

LEMMA GoEffect ==
  ASSUME pc \in [Threads -> Places], NEW t \in Threads, NEW p \in Places, Goto(t, p)
  PROVE  /\ pc' \in [Threads -> Places] /\ pc'[t] = p
         /\ \A u \in Threads : u # t => pc'[u] = pc[u]
BY DEF Goto

LEMMA HoldEffect ==
  ASSUME Data, NEW t \in Threads, NEW m \in Message, Hold(t, m)
  PROVE  /\ work' \in [Threads -> Message] /\ work'[t] = m
         /\ \A u \in Threads : u # t => work'[u] = work[u]
BY DEF Hold, Data

LEMMA MessageFacts ==
  /\ Err \in Message /\ Err.kind = "error"
  /\ \A i \in Nat : /\ Segment(i) \in Message /\ Segment(i).index = i
                    /\ Segment(i).kind # "error"
                    /\ Segment(i).kind = "final" <=> i = input
BY DEF Err, Segment, Message

LEMMA ChannelFacts ==
  \A w \in Workers \cup {Adapter} : Source(w) \in Channels /\ Target(w) \in Channels
BY DEF Source, Target, Channels

-----------------------------------------------------------------------------
(* The threads and the monitor thread.                                     *)

LEMMA InitIInv == Init => IInv
<1> SUFFICES ASSUME Init PROVE IInv
  OBVIOUS
<1>1. Data
  <2>1. queue \in [Channels -> Seq(Message)]
    BY DEF Init, Channels
  <2>2. work \in [Threads -> Message]
    BY MessageFacts DEF Init
  <2> QED
    BY <2>1, <2>2 DEF Init, Data
<1>2. pc \in [Threads -> Places] /\ \A t \in Threads : pc[t] \in PlacesOf(t)
  BY ThreadFacts DEF Init, Places, PlacesOf, ReaderPlaces, AdapterPlaces, MainPlaces,
                     CompressorPlaces, CryptorPlaces
<1>3. \A t \in Threads : pc[t] \in {"check", "recv"}
  BY DEF Init
<1> QED
  BY <1>1, <1>2, <1>3, ThreadFacts DEF Init, IInv, TypeOK, Recorded, Ended, Gone, Live

\* A thread that is not gone moves on.
LEMMA GoKeeps ==
  ASSUME IInv, NEW t \in Threads, ~Gone(t), NEW p \in PlacesOf(t), Goto(t, p),
         Data', UNCHANGED <<monitor, fatal, result>>,
         mail' = mail \/ (t \in Reporters /\ mail' # NoError),
         cancelled' = cancelled \/ mail' # NoError,
         p \in {"store", "flag", "flagLast"} => mail' # NoError,
         p = "sendErr" /\ t \in Reporters => mail' # NoError,
         p = "panicked" => fatal # NoError,
         t = Main /\ p = "done" => closure' \in {"ok", "error"},
         t = Main /\ p = "panicked" => closure' = "panic",
         t = Main => p \in {"done", "panicked"} \/ closure' = closure,
         t # Main => closure' = closure
  PROVE  IInv'
<1>0. p \in Places
  BY DEF PlacesOf, Places
<1>1. /\ pc' \in [Threads -> Places] /\ pc'[t] = p
      /\ \A u \in Threads : u # t => pc'[u] = pc[u]
  BY <1>0, GoEffect DEF IInv, TypeOK
<1>2. TypeOK'
  BY <1>1 DEF IInv, TypeOK, Ended, PlacesOf
<1>3. \A u \in Threads : Gone(u) => Gone(u)'
  BY <1>1 DEF Gone
<1>4. result = "pending"
  BY DEF IInv, Ended, Live, Gone
<1>5. Ended'
  <2>1. CASE t = Main
    BY <1>1, <1>4, <2>1 DEF IInv, Ended, Gone
  <2>2. CASE t # Main
    BY <1>1, <1>4, <2>2, ThreadFacts DEF IInv, Ended, Gone
  <2> QED
    BY <2>1, <2>2
<1>6. Recorded'
  <2>1. mail # NoError => mail' # NoError
    OBVIOUS
  <2>2. /\ monitor' = "storing" => fatal' # NoError
        /\ \A u \in Threads : pc'[u] = "panicked" => fatal' # NoError
        /\ result' = "panic" => fatal' # NoError
    BY <1>1, <1>4 DEF IInv, Recorded
  <2>3. monitor' = "exited" => fatal' # NoError \/ \A u \in Reporters : Gone(u)'
    BY <1>3, ThreadFacts DEF IInv, Recorded
  <2>4. cancelled' \/ fatal' # NoError => mail' # NoError
    BY <2>1 DEF IInv, Recorded
  <2>5. mail' # NoError /\ monitor' # "waiting" => fatal' # NoError
    BY DEF IInv, Recorded, TypeOK
  <2>6. /\ \A u \in Threads : pc'[u] \in {"store", "flag", "flagLast"} => mail' # NoError
        /\ \A u \in Reporters : pc'[u] = "sendErr" => mail' # NoError
    BY <1>1, <2>1, ThreadFacts DEF IInv, Recorded
  <2> QED
    BY <2>2, <2>3, <2>4, <2>5, <2>6 DEF Recorded
<1> QED
  BY <1>2, <1>5, <1>6 DEF IInv

\* The same for a step that leaves what concerns the monitor thread alone.
LEMMA MoveKeeps ==
  ASSUME IInv, NEW t \in Threads, ~Gone(t), NEW p \in PlacesOf(t), Goto(t, p),
         Data', UNCHANGED <<fatalVars, endVars>>,
         p \notin {"store", "flag", "flagLast", "panicked"},
         p = "sendErr" => t \in Compressors,
         t = Main => p # "done"
  PROVE  IInv'
<1>1. UNCHANGED <<mail, monitor, cancelled, fatal, closure, result>>
  BY DEF fatalVars, endVars
<1> QED
  BY <1>1, GoKeeps, ThreadFacts

\* A step that moves no thread, nor the monitor, nor the result.
LEMMA IdleKeeps == IInv /\ Data' /\ UNCHANGED <<pc, fatalVars, endVars>> => IInv'
BY DEF IInv, TypeOK, PlacesOf, Recorded, Ended, Gone, Live, fatalVars, endVars

\* Nothing moves but threads.
LEMMA DataStays == Data /\ UNCHANGED <<settings, position, work, queue>> => Data'
BY DEF Data, settings

\* fatal panics only when the monitor thread has left although the caller is
\* live: an error is recorded.
LEMMA FatalKeeps ==
  ASSUME IInv, NEW t \in {Reader, Adapter, Main},
         NEW e \in FaultKinds \cup {"stage", "writer"}, Fatal(t, e)
  PROVE  IInv'
<1>1. /\ ~Gone(t) /\ t \in Threads /\ t \in Reporters
      /\ UNCHANGED <<monitor, cancelled, fatal, result>> /\ Data'
  BY DataStays, ThreadFacts DEF Fatal, At, Gone, IInv, TypeOK
<1>2. /\ "store" \in PlacesOf(t) /\ "panicked" \in PlacesOf(t)
  BY ThreadFacts DEF PlacesOf, ReaderPlaces, AdapterPlaces, MainPlaces
<1>3. CASE monitor # "exited"
  <2>1. /\ mail' # NoError /\ Goto(t, "store") /\ UNCHANGED closure
    BY <1>3 DEF Fatal, Mail
  <2> QED
    BY <1>1, <1>2, <2>1, GoKeeps
<1>4. CASE monitor = "exited"
  <2>1. fatal # NoError
    BY <1>1, <1>4 DEF IInv, Recorded
  <2>2. /\ Goto(t, "panicked") /\ UNCHANGED mail
        /\ closure' = IF t = Main THEN "panic" ELSE closure
    BY <1>4 DEF Fatal
  <2> QED
    BY <1>1, <1>2, <2>1, <2>2, GoKeeps
<1> QED
  BY <1>3, <1>4

LEMMA StoreKeeps ==
  ASSUME IInv, NEW t \in {Reader, Adapter, Main}, Store(t)
  PROVE  IInv'
<1>1. /\ ~Gone(t) /\ t \in Threads /\ UNCHANGED <<monitor, fatal, mail, closure, result>> /\ Data'
  BY DataStays, ThreadFacts DEF Store, At, Gone, IInv, TypeOK, endVars
<1>2. mail # NoError
  BY <1>1 DEF Store, At, IInv, Recorded
<1>3. \E p \in PlacesOf(t) \cap {"end", "sendErr", "done"} : Goto(t, p) /\ (t = Main => p = "end")
  BY ThreadFacts DEF Store, PlacesOf, ReaderPlaces, AdapterPlaces, MainPlaces
<1> QED
  BY <1>1, <1>2, <1>3, GoKeeps

LEMMA SendOnKeeps ==
  ASSUME IInv, NEW w \in Workers \cup {Adapter}, SendOn(w)
  PROVE  IInv'
<1>1. /\ ~Gone(w) /\ w \in Threads /\ "recv" \in PlacesOf(w) /\ w # Main
      /\ Goto(w, "recv") /\ UNCHANGED <<settings, position, fatalVars, endVars>>
  BY ThreadFacts DEF SendOn, At, Gone, PlacesOf, AdapterPlaces, CompressorPlaces, CryptorPlaces
<1>2. Data'
  <2>1. queue' \in [Channels -> Seq(Message)]
    BY <1>1, SendEffect, ChannelFacts DEF SendOn, IInv, TypeOK, Data
  <2>2. work' \in [Threads -> Message]
    BY <1>1, HoldEffect, MessageFacts DEF SendOn, IInv, TypeOK
  <2> QED
    BY <1>1, <2>1, <2>2 DEF IInv, TypeOK, Data, settings
<1> QED
  BY <1>1, <1>2, MoveKeeps

LEMMA SendErrKeeps ==
  ASSUME IInv, NEW w \in Workers \cup {Adapter}, SendErr(w, "done")
  PROVE  IInv'
<1>1. /\ ~Gone(w) /\ w \in Threads /\ "done" \in PlacesOf(w) /\ w # Main
      /\ Goto(w, "done") /\ UNCHANGED <<settings, position, work, fatalVars, endVars>>
  BY ThreadFacts DEF SendErr, At, Gone, PlacesOf, AdapterPlaces, CompressorPlaces, CryptorPlaces
<1>2. "out" \in Channels
  BY DEF Channels
<1>3. queue' \in [Channels -> Seq(Message)]
  BY <1>1, <1>2, SendEffect, ChannelFacts, MessageFacts DEF SendErr, IInv, TypeOK
<1>4. Data'
  BY <1>1, <1>3 DEF IInv, TypeOK, Data, settings
<1> QED
  BY <1>1, <1>4, MoveKeeps

LEMMA LeavesKeeps ==
  ASSUME IInv, NEW w \in Workers \cup {Adapter}, Leaves(w)
  PROVE  IInv'
<1>1. /\ ~Gone(w) /\ w \in Threads /\ "done" \in PlacesOf(w) /\ w # Main
      /\ Goto(w, "done") /\ UNCHANGED <<fatalVars, endVars>> /\ Data'
  BY DataStays, ThreadFacts DEF Leaves, At, Gone, PlacesOf, AdapterPlaces, CompressorPlaces,
                                CryptorPlaces, IInv, TypeOK
<1> QED
  BY <1>1, MoveKeeps

LEMMA MonitorKeeps ==
  ASSUME IInv, Monitor
  PROVE  IInv'
<1>1. UNCHANGED <<pc, settings, position, work, queue, mail, closure, result>>
  BY DEF Monitor, MonitorTakes, MonitorStores, MonitorLeaves, threadVars, endVars
<1>2. TypeOK'
  BY <1>1, DataStays DEF Monitor, MonitorTakes, MonitorStores, MonitorLeaves, IInv, TypeOK, PlacesOf
<1>3. Ended'
  <2>1. monitor # "exited"
    BY DEF Monitor, MonitorTakes, MonitorStores, MonitorLeaves
  <2> QED
    BY <1>1, <2>1 DEF IInv, Ended, Gone, Live
<1>4. \A t \in Threads : Gone(t)' <=> Gone(t)
  BY <1>1 DEF Gone
<1>5. ~Live(Threads \ Compressors) => \A t \in Reporters : Gone(t)
  BY DEF Live, Reporters, Gone
<1>6. Recorded'
  <2>1. CASE MonitorTakes
    BY <1>1, <2>1 DEF MonitorTakes, IInv, Recorded
  <2>2. CASE MonitorStores
    BY <1>1, <2>2 DEF MonitorStores, IInv, Recorded
  <2>3. CASE MonitorLeaves
    BY <1>1, <1>4, <1>5, <2>3, ThreadFacts DEF MonitorLeaves, IInv, Recorded
  <2> QED
    BY <2>1, <2>2, <2>3 DEF Monitor
<1> QED
  BY <1>2, <1>3, <1>6 DEF IInv

LEMMA ReaderKeeps ==
  ASSUME IInv, ReaderStep
  PROVE  IInv'
<1> USE DEF ReaderPlaces
<1>0. PlacesOf(Reader) = ReaderPlaces /\ Reader \in Threads /\ Reader \in Reporters
  BY ThreadFacts DEF PlacesOf
<1>1. CASE Read
  <2>1. /\ ~Gone(Reader) /\ UNCHANGED <<fatalVars, endVars>>
        /\ \E p \in {"done", "send", "fatal"} : Goto(Reader, p)
    BY <1>1 DEF Read, At, Gone
  <2>2. Data'
    <3>1. CASE UNCHANGED <<work, position>>
      BY <1>1, <3>1, DataStays DEF Read, IInv, TypeOK
    <3>2. CASE /\ position <= input /\ Hold(Reader, Segment(position))
               /\ position' = position + 1
      <4>1. position \in Nat /\ input \in Nat /\ position' \in 0..(input + 1)
        BY <3>2 DEF IInv, TypeOK, Data
      <4>2. work' \in [Threads -> Message]
        BY <1>0, <3>2, <4>1, HoldEffect, MessageFacts DEF IInv, TypeOK
      <4> QED
        BY <1>1, <4>1, <4>2 DEF Read, IInv, TypeOK, Data, settings
    <3> QED
      BY <1>1, <3>1, <3>2 DEF Read
  <2> QED
    BY <1>0, <2>1, <2>2, MoveKeeps, ThreadFacts
<1>2. CASE SendRead
  <2>1. /\ ~Gone(Reader) /\ UNCHANGED <<settings, position, fatalVars, endVars>>
        /\ \E p \in {"done", "check"} : Goto(Reader, p)
    BY <1>2 DEF SendRead, At, Gone
  <2>2. "feed" \in Channels /\ work[Reader] \in Message
    BY <1>0 DEF Channels, IInv, TypeOK, Data
  <2>3. queue' \in [Channels -> Seq(Message)]
    BY <1>2, <2>2, SendEffect DEF SendRead, IInv, TypeOK
  <2>4. work' \in [Threads -> Message]
    BY <1>0, <1>2, HoldEffect, MessageFacts DEF SendRead, IInv, TypeOK
  <2>5. Data'
    BY <2>1, <2>3, <2>4 DEF IInv, TypeOK, Data, settings
  <2> QED
    BY <1>0, <2>1, <2>5, MoveKeeps, ThreadFacts
<1> QED
  BY <1>1, <1>2, FatalKeeps, StoreKeeps DEF ReaderStep, FaultKinds

LEMMA AdapterKeeps ==
  ASSUME IInv, AdapterStep
  PROVE  IInv'
<1>0. PlacesOf(Adapter) = AdapterPlaces /\ Adapter \in Threads /\ Adapter \in Reporters
  BY ThreadFacts DEF PlacesOf
<1>1. CASE Unwrap
  <2>1. /\ ~Gone(Adapter) /\ UNCHANGED <<settings, position, fatalVars, endVars>>
        /\ \E p \in {"done", "send", "fatal"} : Goto(Adapter, p)
        /\ UNCHANGED work \/ Hold(Adapter, Head(queue["raw"]))
    BY <1>1 DEF Unwrap, At, Gone
  <2>2. "raw" \in Channels
    BY DEF Channels
  <2>3. queue' \in [Channels -> Seq(Message)] /\ Head(queue["raw"]) \in Message
    BY <1>1, <2>2, TakeEffect DEF Unwrap, IInv, TypeOK
  <2>4. work' \in [Threads -> Message]
    BY <1>0, <2>1, <2>3, HoldEffect DEF IInv, TypeOK, Data
  <2>5. Data'
    BY <2>1, <2>3, <2>4 DEF IInv, TypeOK, Data, settings
  <2> QED
    BY <1>0, <2>1, <2>5, MoveKeeps, ThreadFacts DEF AdapterPlaces
<1> QED
  BY <1>1, FatalKeeps, StoreKeeps, SendOnKeeps, SendErrKeeps, LeavesKeeps DEF AdapterStep

LEMMA CompressorKeeps ==
  ASSUME IInv, NEW c \in Compressors, Compressor(c)
  PROVE  IInv'
<1>0. /\ PlacesOf(c) = CompressorPlaces /\ c \in Threads /\ c \in Workers /\ c # Main
      /\ Source(c) \in Channels
  BY ThreadFacts, ChannelFacts DEF PlacesOf
<1>1. CASE Compress(c)
  <2>1. /\ ~Gone(c) /\ UNCHANGED <<settings, position, fatalVars, endVars>>
        /\ \E p \in {"send", "sendErr"} : Goto(c, p)
        /\ Hold(c, Err) \/ Hold(c, Head(queue[Source(c)]))
    BY <1>1 DEF Compress, At, Gone
  <2>2. queue' \in [Channels -> Seq(Message)] /\ Head(queue[Source(c)]) \in Message
    BY <1>0, <1>1, TakeEffect DEF Compress, IInv, TypeOK
  <2>3. work' \in [Threads -> Message]
    BY <1>0, <2>1, <2>2, HoldEffect, MessageFacts DEF IInv, TypeOK
  <2>4. Data'
    BY <2>1, <2>2, <2>3 DEF IInv, TypeOK, Data, settings
  <2> QED
    BY <1>0, <2>1, <2>4, MoveKeeps DEF CompressorPlaces
<1> QED
  BY <1>0, <1>1, SendOnKeeps, SendErrKeeps, LeavesKeeps DEF Compressor

LEMMA CryptorKeeps ==
  ASSUME IInv, NEW x \in Cryptors, Cryptor(x)
  PROVE  IInv'
<1> USE DEF CryptorPlaces
<1>0. /\ PlacesOf(x) = CryptorPlaces /\ x \in Threads /\ x \in Workers /\ x # Main
      /\ x \in Reporters /\ Source(x) \in Channels /\ Target(x) \in Channels
  BY ThreadFacts, ChannelFacts DEF PlacesOf
<1>1. CASE CheckFlag(x)
  <2>1. /\ ~Gone(x) /\ UNCHANGED <<fatalVars, endVars>> /\ Data'
        /\ \E p \in {"done", "recv"} : Goto(x, p)
    BY <1>1, DataStays DEF CheckFlag, At, Gone, IInv, TypeOK
  <2> QED
    BY <1>0, <2>1, MoveKeeps
<1>2. CASE TakeSegment(x)
  <2>1. /\ ~Gone(x) /\ UNCHANGED <<settings, position, fatalVars, endVars>>
        /\ Goto(x, "work") /\ Hold(x, Head(queue[Source(x)]))
    BY <1>2 DEF TakeSegment, At, Gone
  <2>2. queue' \in [Channels -> Seq(Message)] /\ Head(queue[Source(x)]) \in Message
    BY <1>0, <1>2, TakeEffect DEF TakeSegment, IInv, TypeOK
  <2>3. work' \in [Threads -> Message]
    BY <1>0, <2>1, <2>2, HoldEffect DEF IInv, TypeOK
  <2>4. Data'
    BY <2>1, <2>2, <2>3 DEF IInv, TypeOK, Data, settings
  <2> QED
    BY <1>0, <2>1, <2>4, MoveKeeps
<1>3. CASE Work(x)
  <2>1. /\ ~Gone(x) /\ UNCHANGED <<settings, position, queue, fatalVars, endVars>>
        /\ \E p \in {"send", "report", "invalid"} : Goto(x, p)
        /\ UNCHANGED work \/ Hold(x, Err)
    BY <1>3 DEF Work, At, Gone
  <2>2. work' \in [Threads -> Message]
    BY <1>0, <2>1, HoldEffect, MessageFacts DEF IInv, TypeOK, Data
  <2>3. Data'
    BY <2>1, <2>2 DEF IInv, TypeOK, Data, settings
  <2> QED
    BY <1>0, <2>1, <2>3, MoveKeeps
<1>4. CASE SendResult(x)
  <2>1. /\ ~Gone(x) /\ UNCHANGED <<settings, position, fatalVars, endVars>>
        /\ \E p \in {"check", "reportLast"} : Goto(x, p)
        /\ work[x] \in Message
    BY <1>0, <1>4 DEF SendResult, At, Gone, IInv, TypeOK, Data
  <2>2. queue' \in [Channels -> Seq(Message)]
    BY <1>0, <1>4, <2>1, SendEffect DEF SendResult, IInv, TypeOK
  <2>3. work' \in [Threads -> Message]
    BY <1>0, <1>4, HoldEffect, MessageFacts DEF SendResult, IInv, TypeOK
  <2>4. Data'
    BY <2>1, <2>2, <2>3 DEF IInv, TypeOK, Data, settings
  <2> QED
    BY <1>0, <2>1, <2>4, MoveKeeps
<1>5. CASE SendInvalid(x)
  <2>1. /\ ~Gone(x) /\ UNCHANGED <<settings, position, work, fatalVars, endVars>>
        /\ Goto(x, "reportLast")
    BY <1>5 DEF SendInvalid, At, Gone
  <2>2. queue' \in [Channels -> Seq(Message)]
    BY <1>0, <1>5, SendEffect, MessageFacts DEF SendInvalid, IInv, TypeOK
  <2>3. Data'
    BY <2>1, <2>2 DEF IInv, TypeOK, Data, settings
  <2> QED
    BY <1>0, <2>1, <2>3, MoveKeeps
<1>6. CASE Report(x)
  <2>1. /\ ~Gone(x) /\ UNCHANGED <<monitor, cancelled, fatal, closure, result>> /\ Data'
        /\ mail' # NoError
        /\ \E p \in {"flag", "flagLast"} : Goto(x, p)
    BY <1>6, DataStays DEF Report, Mail, Gone, IInv, TypeOK, endVars, FaultKinds
  <2> QED
    BY <1>0, <2>1, GoKeeps
<1>7. CASE Flag(x)
  <2>1. /\ ~Gone(x) /\ UNCHANGED <<monitor, mail, fatal, closure, result>> /\ Data'
        /\ \E p \in {"sendErr", "done"} : Goto(x, p)
    BY <1>7, DataStays DEF Flag, Gone, IInv, TypeOK, endVars
  <2>2. mail # NoError
    BY <1>0, <1>7 DEF Flag, IInv, Recorded
  <2> QED
    BY <1>0, <2>1, <2>2, GoKeeps
<1> QED
  BY <1>0, <1>1, <1>2, <1>3, <1>4, <1>5, <1>6, <1>7, SendErrKeeps, LeavesKeeps DEF Cryptor

LEMMA MainKeeps ==
  ASSUME IInv, MainStep
  PROVE  IInv'
<1> USE DEF MainPlaces
<1>0. PlacesOf(Main) = MainPlaces /\ Main \in Threads /\ Main \in Reporters
  BY ThreadFacts DEF PlacesOf
<1>1. CASE Take
  <2>1. /\ ~Gone(Main) /\ UNCHANGED <<settings, position, work, fatalVars, endVars>>
        /\ \E p \in {"end", "fatal", "push"} : Goto(Main, p)
    BY <1>1 DEF Take, At, Gone
  <2>2. "out" \in Channels
    BY DEF Channels
  <2>3. queue' \in [Channels -> Seq(Message)]
    BY <1>1, <2>2, TakeEffect DEF Take, IInv, TypeOK
  <2>4. Data'
    BY <2>1, <2>3 DEF IInv, TypeOK, Data, settings
  <2> QED
    BY <1>0, <2>1, <2>4, MoveKeeps, ThreadFacts
<1>2. CASE LoopEnds \/ End \/ WriterDone
  <2>1. /\ ~Gone(Main) /\ UNCHANGED <<fatalVars, endVars>> /\ Data'
        /\ \E p \in {"end", "close", "drain"} : Goto(Main, p)
    BY <1>2, DataStays DEF LoopEnds, End, WriterDone, At, Gone, IInv, TypeOK
  <2> QED
    BY <1>0, <2>1, MoveKeeps, ThreadFacts
<1>3. CASE Write
  <2>1. /\ ~Gone(Main) /\ UNCHANGED <<fatalVars, endVars>> /\ Data'
        /\ UNCHANGED pc \/ Goto(Main, "recv")
    BY <1>3, DataStays DEF Write, Gone, IInv, TypeOK
  <2>2. CASE UNCHANGED pc
    BY <2>1, <2>2, IdleKeeps
  <2>3. CASE Goto(Main, "recv")
    BY <1>0, <2>1, <2>3, MoveKeeps, ThreadFacts
  <2> QED
    BY <2>1, <2>2, <2>3
<1>4. CASE WriterFailed \/ Close
  <2>1. /\ ~Gone(Main) /\ UNCHANGED <<fatalVars, result>> /\ Data'
        /\ \/ Goto(Main, "fatal") /\ UNCHANGED closure
           \/ Goto(Main, "done") /\ closure' \in {"ok", "error"}
    BY <1>4, DataStays DEF WriterFailed, Close, Exit, At, Gone, IInv, TypeOK
  <2> QED
    BY <1>0, <2>1, GoKeeps, ThreadFacts DEF fatalVars
<1>5. CASE Join
  <2>1. /\ UNCHANGED <<pc, fatalVars, closure>> /\ Data' /\ ~Live(Threads) /\ monitor = "exited"
        /\ result' = "panic" => \E t \in Threads : pc[t] = "panicked"
    BY <1>5, DataStays DEF Join, At, threadVars, IInv, TypeOK
  <2> QED
    BY <2>1 DEF IInv, TypeOK, PlacesOf, Recorded, Ended, Gone, Live, fatalVars
<1> QED
  BY <1>1, <1>2, <1>3, <1>4, <1>5, FatalKeeps, StoreKeeps DEF MainStep

LEMMA NextIInv == IInv /\ [Next]_vars => IInv'
<1>1. IInv /\ UNCHANGED vars => IInv'
  BY IdleKeeps, DataStays DEF vars, threadVars, IInv, TypeOK
<1> QED
  BY <1>1, ReaderKeeps, AdapterKeeps, MainKeeps, MonitorKeeps, CompressorKeeps, CryptorKeeps
  DEF Next, Step, Returned

-----------------------------------------------------------------------------
(* What no step takes back.                                                *)

\* Nothing was sent to the monitor thread, and no Result was given up.
Undisturbed == mail = NoError /\ closure # "error"

Onward ==
  /\ UNCHANGED <<mode, input>>
  /\ position' >= position /\ raised \subseteq raised'
  /\ cancelled => cancelled'
  /\ Undisturbed' => Undisturbed
  /\ \A t \in Threads : Gone(t) => Gone(t)'

LEMMA GoesOnward ==
  ASSUME IInv, NEW t \in Threads, ~Gone(t), NEW p, Goto(t, p),
         UNCHANGED settings, position' >= position, raised \subseteq raised',
         cancelled => cancelled',
         mail' = mail \/ mail' # NoError,
         t # Main => closure' = closure
  PROVE  Onward
<1>1. \A u \in Threads : u # t => pc'[u] = pc[u]
  BY DEF Goto, IInv, TypeOK
<1>2. \A u \in Threads : Gone(u) => Gone(u)'
  BY <1>1 DEF Gone
<1>3. Undisturbed' => Undisturbed
  <2>1. t = Main => closure # "error"
    BY DEF IInv, Ended
  <2> QED
    BY <2>1 DEF Undisturbed
<1> QED
  BY <1>2, <1>3 DEF Onward, settings

LEMMA StaysOnward ==
  ASSUME IInv, UNCHANGED <<pc, settings, closure, raised, position>>, cancelled => cancelled',
         mail' = mail
  PROVE  Onward
<1>1. position \in Nat
  BY DEF IInv, TypeOK, Data
<1> QED
  BY <1>1 DEF Onward, Undisturbed, Gone, settings

LEMMA StepsGoOnward == IInv /\ [Next]_vars => Onward
<1> SUFFICES ASSUME IInv, [Next]_vars PROVE Onward
  OBVIOUS
<1> USE ThreadFacts
<1>0. position \in Nat
  BY DEF IInv, TypeOK, Data
<1>1. ASSUME NEW t \in {Reader, Adapter, Main}, NEW e \in FaultKinds \cup {"stage", "writer"},
             Fatal(t, e) \/ Store(t)
      PROVE  Onward
  <2>1. CASE Fatal(t, e)
    BY <1>0, <2>1, GoesOnward DEF Fatal, At, Gone, Mail
  <2>2. CASE Store(t)
    BY <1>0, <2>2, GoesOnward DEF Store, At, Gone, endVars
  <2> QED
    BY <1>1, <2>1, <2>2
<1>2. ASSUME NEW w \in Workers \cup {Adapter}, SendOn(w) \/ SendErr(w, "done") \/ Leaves(w)
      PROVE  Onward
  BY <1>0, <1>2, GoesOnward DEF SendOn, SendErr, Leaves, At, Gone, fatalVars, endVars
<1>3. CASE ReaderStep
  <2>1. CASE Read
    BY <1>0, <2>1, GoesOnward DEF Read, At, Gone, fatalVars, endVars
  <2>2. CASE SendRead
    BY <1>0, <2>2, GoesOnward DEF SendRead, At, Gone, fatalVars, endVars
  <2> QED
    BY <1>1, <1>3, <2>1, <2>2 DEF ReaderStep, FaultKinds
<1>4. CASE AdapterStep
  <2>1. CASE Unwrap
    BY <1>0, <2>1, GoesOnward DEF Unwrap, At, Gone, fatalVars, endVars
  <2> QED
    BY <1>1, <1>2, <1>4, <2>1 DEF AdapterStep
<1>5. ASSUME NEW c \in Compressors, Compressor(c) PROVE Onward
  <2>1. CASE Compress(c)
    BY <1>0, <2>1, GoesOnward DEF Compress, At, Gone, fatalVars, endVars
  <2> QED
    BY <1>2, <1>5, <2>1 DEF Compressor
<1>6. ASSUME NEW x \in Cryptors, Cryptor(x) PROVE Onward
  <2>1. CASE CheckFlag(x) \/ TakeSegment(x) \/ SendResult(x) \/ SendInvalid(x)
    BY <1>0, <2>1, GoesOnward
    DEF CheckFlag, TakeSegment, SendResult, SendInvalid, At, Gone, fatalVars, endVars
  <2>2. CASE Work(x)
    BY <1>0, <2>2, GoesOnward DEF Work, At, Gone, fatalVars, endVars
  <2>3. CASE Report(x) \/ Flag(x)
    BY <1>0, <2>3, GoesOnward DEF Report, Flag, Mail, At, Gone, endVars, FaultKinds
  <2> QED
    BY <1>2, <1>6, <2>1, <2>2, <2>3 DEF Cryptor
<1>7. CASE MainStep
  <2>1. CASE Take \/ LoopEnds \/ End \/ WriterDone
    BY <1>0, <2>1, GoesOnward DEF Take, LoopEnds, End, WriterDone, At, Gone, fatalVars, endVars
  <2>2. CASE WriterFailed \/ Close
    BY <1>0, <2>2, GoesOnward DEF WriterFailed, Close, Exit, At, Gone, fatalVars
  <2>3. CASE Write
    <3>1. /\ ~Gone(Main) /\ UNCHANGED <<settings, position, mail, cancelled, closure>>
          /\ raised \subseteq raised'
          /\ UNCHANGED pc \/ Goto(Main, "recv")
      BY <2>3 DEF Write, Gone, fatalVars, endVars
    <3>2. CASE UNCHANGED pc
      BY <1>0, <3>1, <3>2 DEF Onward, Undisturbed, Gone, settings
    <3> QED
      BY <1>0, <3>1, <3>2, GoesOnward
  <2>4. CASE Join
    BY <2>4, StaysOnward DEF Join, threadVars, fatalVars
  <2> QED
    BY <1>1, <1>7, <2>1, <2>2, <2>3, <2>4 DEF MainStep
<1>8. CASE Monitor
  BY <1>8, StaysOnward
  DEF Monitor, MonitorTakes, MonitorStores, MonitorLeaves, threadVars, endVars
<1>9. CASE UNCHANGED vars
  BY <1>9, StaysOnward DEF vars, threadVars, fatalVars, endVars
<1> QED
  BY <1>3, <1>4, <1>5, <1>6, <1>7, <1>8, <1>9 DEF Next, Step, Returned

-----------------------------------------------------------------------------
(* The segments.                                                           *)

Holding(t) == pc[t] \in {"send", "work"}
Taken == {i \in 0..input : i < position}
Real == {Segment(i) : i \in Taken}

\* What is on its way was read; an Err is in a channel of Results only.
Genuine ==
  /\ \A p \in {"feed", "clean"} : Content(queue[p]) \subseteq Real
  /\ \A p \in {"raw", "out"} : Content(queue[p]) \subseteq Real \cup {Err}
  /\ \A t \in Threads : Holding(t) => work[t] \in Real

LEMMA RealFacts ==
  ASSUME IInv
  PROVE  /\ \A s \in Real : s \in Message /\ s # Err /\ s.kind # "error"
         /\ Onward /\ IInv' => Real \subseteq Real'
         /\ \A i \in Nat : i < position => Segment(i) \in Real
<1>1. /\ \A i \in Taken : i \in Nat
      /\ \A i \in Nat : i < position => i \in Taken
  <2>1. position \in 0..(input + 1) /\ input \in Nat
    BY DEF IInv, TypeOK, Data
  <2>2. \A i \in Nat : i < position => i <= input
    BY <2>1
  <2> QED
    BY <2>1, <2>2 DEF Taken
<1>2. Onward /\ IInv' => Real \subseteq Real'
  <2> SUFFICES ASSUME Onward, IInv' PROVE Real \subseteq Real'
    OBVIOUS
  <2>1. input' = input /\ position' >= position
    BY DEF Onward
  <2>2. position \in Nat /\ position' \in Nat
    <3>1. position \in 0..(input + 1) /\ input \in Nat
      BY DEF IInv, TypeOK, Data
    <3>2. position' \in 0..(input' + 1) /\ input' \in Nat
      BY DEF IInv, TypeOK, Data
    <3> QED
      BY <3>1, <3>2
  <2>3. Taken \subseteq Taken'
    BY <2>1, <2>2 DEF Taken
  <2>4. Real' = {Segment(i) : i \in Taken'}
    BY <2>1 DEF Real, Segment
  <2> QED
    BY <2>3, <2>4 DEF Real
<1> QED
  BY <1>1, <1>2, MessageFacts DEF Real

\* A step that moves no message.
LEMMA GenuineStays ==
  ASSUME IInv, IInv', Onward, Genuine, UNCHANGED <<queue, work>>,
         \A t \in Threads : Holding(t)' => Holding(t)
  PROVE  Genuine'
BY RealFacts DEF Genuine

\* A thread goes on with nothing in hand.
LEMMA EmptyHanded ==
  ASSUME IInv, NEW t \in Threads, NEW p, p \notin {"send", "work"}, Goto(t, p)
  PROVE  \A u \in Threads : Holding(u)' => u # t /\ Holding(u)
<1>1. /\ pc'[t] = p /\ \A u \in Threads : u # t => pc'[u] = pc[u]
  BY DEF Goto, IInv, TypeOK
<1> QED
  BY <1>1 DEF Holding

\* A thread takes what is real, or lets go of it.
LEMMA GenuineTakes ==
  ASSUME IInv, IInv', Onward, Genuine, NEW t \in Threads, NEW p, NEW m \in Message,
         Goto(t, p), Hold(t, m),
         p \in {"send", "work"} => m \in Real',
         \A q \in Channels : Content(queue'[q]) \subseteq Content(queue[q])
  PROVE  Genuine'
<1>1. /\ work'[t] = m /\ \A u \in Threads : u # t => work'[u] = work[u]
      /\ pc'[t] = p /\ \A u \in Threads : u # t => pc'[u] = pc[u]
  BY DEF Hold, Goto, IInv, TypeOK, Data
<1>2. Real \subseteq Real'
  BY RealFacts
<1>3. \A u \in Threads : Holding(u)' => work'[u] \in Real'
  BY <1>1, <1>2 DEF Genuine, Holding
<1> QED
  BY <1>2, <1>3 DEF Genuine, Channels

\* A send of what is real, or of an Err to a channel of Results.
LEMMA GenuineSends ==
  ASSUME IInv, IInv', Onward, Genuine, NEW p \in Channels, NEW m, Send(p, m),
         m \in Real \/ (m = Err /\ p \in {"raw", "out"}),
         \A t \in Threads : Holding(t)' => Holding(t) /\ work'[t] = work[t]
  PROVE  Genuine'
<1>1. m \in Message
  BY RealFacts, MessageFacts
<1>2. Real \subseteq Real'
  BY RealFacts
<1>3. /\ Content(queue'[p]) \subseteq Content(queue[p]) \cup {m}
      /\ \A q \in Channels : q # p => queue'[q] = queue[q]
  BY <1>1, SendEffect DEF IInv, TypeOK
<1> QED
  BY <1>2, <1>3 DEF Genuine, Channels

LEMMA ReleaseFacts ==
  ASSUME IInv, NEW t \in Threads, NEW p, p \notin {"send", "work"}, Goto(t, p), Hold(t, Err)
  PROVE  \A u \in Threads : Holding(u)' => u # t /\ Holding(u) /\ work'[u] = work[u]
BY EmptyHanded DEF Hold, IInv, TypeOK, Data

LEMMA InitGenuine == Init => Genuine
<1> SUFFICES ASSUME Init PROVE Genuine
  OBVIOUS
<1>1. \A t \in Threads : ~Holding(t)
  BY DEF Init, Holding
<1>2. \A p \in Channels : queue[p] = <<>>
  BY DEF Init, Channels
<1> QED
  BY <1>1, <1>2, EmptyContent DEF Genuine, Channels

\* Source and target of the three stages between the reader and the writer.
LEMMA Wiring ==
  ASSUME IInv
  PROVE  /\ Source(Adapter) = "raw" /\ Target(Adapter) = "clean"
         /\ \A w \in Workers : /\ w \in First <=> w \notin Second
                               /\ w \in First => Source(w) = "feed" /\ Target(w) = "raw"
                               /\ w \in Second => Source(w) = "clean" /\ Target(w) = "out"
         /\ mode = "encrypt" => First = Compressors /\ Second = Cryptors
         /\ mode = "decrypt" => First = Cryptors /\ Second = Compressors
         /\ First \subseteq Workers /\ Second \subseteq Workers /\ First # {} /\ Second # {}
<1>1. mode \in {"encrypt", "decrypt"}
  BY DEF IInv, TypeOK, Data
<1>2. Adapter \notin Workers
  BY ThreadFacts
<1> QED
  BY <1>1, <1>2 DEF Source, Target, First, Second, Workers

LEMMA NextGenuine == IInv /\ IInv' /\ Genuine /\ [Next]_vars => Genuine'
<1> SUFFICES ASSUME IInv, IInv', Genuine, [Next]_vars PROVE Genuine'
  OBVIOUS
<1> USE ThreadFacts
<1>0. Onward
  BY StepsGoOnward
<1>a. /\ \A s \in Real : s \in Message /\ s # Err /\ s.kind # "error"
      /\ Real \subseteq Real'
  BY <1>0, RealFacts
<1>b. ASSUME NEW t \in Threads, NEW p, p \notin {"send", "work"}, Goto(t, p),
             UNCHANGED <<queue, work>>
      PROVE  Genuine'
  BY <1>0, <1>b, EmptyHanded, GenuineStays
<1>c. \A w \in Workers \cup {Adapter} : Source(w) \in Channels /\ Target(w) \in Channels
  BY ChannelFacts
<1>1. ASSUME NEW t \in {Reader, Adapter, Main}, NEW e, Fatal(t, e) \/ Store(t)
      PROVE  Genuine'
  <2>1. CASE Fatal(t, e)
    BY <1>b, <2>1 DEF Fatal
  <2>2. CASE Store(t)
    BY <1>b, <2>2 DEF Store
  <2> QED
    BY <1>1, <2>1, <2>2
<1>2. ASSUME NEW w \in Workers \cup {Adapter}, SendOn(w) PROVE Genuine'
  <2>1. /\ Holding(w) /\ w \in Threads /\ Goto(w, "recv") /\ Hold(w, Err)
        /\ Send(Target(w), work[w])
    BY <1>2 DEF SendOn, At, Holding
  <2>2. work[w] \in Real
    BY <2>1 DEF Genuine
  <2>3. \A u \in Threads : Holding(u)' => Holding(u) /\ work'[u] = work[u]
    BY <2>1, ReleaseFacts
  <2> QED
    BY <1>0, <1>c, <2>1, <2>2, <2>3, GenuineSends
<1>3. ASSUME NEW w \in Workers \cup {Adapter}, SendErr(w, "done") PROVE Genuine'
  <2>1. /\ w \in Threads /\ Goto(w, "done") /\ UNCHANGED work
        /\ Send(IF w = Adapter THEN "out" ELSE Target(w), Err)
    BY <1>3 DEF SendErr
  <2>2. (IF w = Adapter THEN "out" ELSE Target(w)) \in {"raw", "out"} \cap Channels
    BY Wiring DEF Channels, Target
  <2>3. \A u \in Threads : Holding(u)' => Holding(u) /\ work'[u] = work[u]
    BY <2>1, EmptyHanded
  <2> HIDE DEF Send
  <2> QED
    BY <1>0, <2>1, <2>2, <2>3, GenuineSends
<1>4. ASSUME NEW w \in Workers \cup {Adapter}, Leaves(w) PROVE Genuine'
  BY <1>b, <1>4 DEF Leaves
<1>5. CASE ReaderStep
  <2>1. CASE Read
    <3>1. CASE Goto(Reader, "done") \/ Goto(Reader, "fatal")
      <4>1. UNCHANGED work \/ Goto(Reader, "send")
        BY <2>1 DEF Read
      <4>2. ~Goto(Reader, "send")
        BY <3>1 DEF Goto, IInv, TypeOK
      <4> QED
        BY <1>b, <2>1, <3>1, <4>1, <4>2 DEF Read
    <3>2. CASE /\ position <= input /\ Hold(Reader, Segment(position))
               /\ position' = position + 1 /\ Goto(Reader, "send")
      <4>1. position \in Nat /\ position \in Taken'
        <5>1. position \in Nat /\ input' = input
          BY <1>0 DEF IInv, TypeOK, Data, Onward
        <5> QED
          BY <3>2, <5>1 DEF Taken
      <4>2. Segment(position) \in Real' /\ Segment(position) \in Message
        <5>1. input' = input
          BY <1>0 DEF Onward
        <5>2. Real' = {Segment(i) : i \in Taken'}
          BY <5>1 DEF Real, Segment
        <5> QED
          BY <4>1, <5>2, MessageFacts
      <4>3. \A q \in Channels : Content(queue'[q]) \subseteq Content(queue[q])
        BY <2>1 DEF Read
      <4> QED
        BY <1>0, <3>2, <4>2, <4>3, GenuineTakes
    <3> QED
      BY <2>1, <3>1, <3>2 DEF Read
  <2>2. CASE SendRead
    <3>1. /\ Holding(Reader) /\ Hold(Reader, Err)
          /\ Send("feed", work[Reader])
          /\ \E p \in {"check", "done"} : Goto(Reader, p)
      BY <2>2 DEF SendRead, At, Holding
    <3>2. work[Reader] \in Real /\ "feed" \in Channels
      BY <3>1 DEF Genuine, Channels
    <3>3. \A u \in Threads : Holding(u)' => Holding(u) /\ work'[u] = work[u]
      BY <3>1, ReleaseFacts
    <3> QED
      BY <1>0, <3>1, <3>2, <3>3, GenuineSends
  <2> QED
    BY <1>1, <1>5, <2>1, <2>2 DEF ReaderStep
<1>d. ASSUME NEW t \in Threads, NEW p \in Channels, queue[p] # <<>>,
             queue' = [queue EXCEPT ![p] = Tail(@)]
      PROVE  /\ \A q \in Channels : Content(queue'[q]) \subseteq Content(queue[q])
             /\ Head(queue[p]) \in Message /\ Head(queue[p]) \in Content(queue[p])
  BY <1>d, TakeEffect DEF IInv, TypeOK
<1>6. CASE AdapterStep
  <2>1. CASE Unwrap
    <3>1. /\ queue["raw"] # <<>> /\ queue' = [queue EXCEPT !["raw"] = Tail(@)]
          /\ "raw" \in Channels
      BY <2>1 DEF Unwrap, Channels
    <3>2. /\ \A q \in Channels : Content(queue'[q]) \subseteq Content(queue[q])
          /\ Head(queue["raw"]) \in Message /\ Head(queue["raw"]) \in Content(queue["raw"])
      BY <1>d, <3>1
    <3>3. CASE UNCHANGED work /\ (Goto(Adapter, "done") \/ Goto(Adapter, "fatal"))
      <4>1. \A u \in Threads : Holding(u)' => Holding(u)
        BY <3>3, EmptyHanded
      <4> QED
        BY <1>a, <3>2, <3>3, <4>1 DEF Genuine, Channels
    <3>4. CASE /\ Head(queue["raw"]).kind # "error"
               /\ Goto(Adapter, "send") /\ Hold(Adapter, Head(queue["raw"]))
      <4>1. Head(queue["raw"]) \in Real'
        BY <1>a, <3>2, <3>4, MessageFacts DEF Genuine
      <4> QED
        BY <1>0, <3>2, <3>4, <4>1, GenuineTakes
    <3> QED
      BY <2>1, <3>3, <3>4 DEF Unwrap
  <2> QED
    BY <1>1, <1>2, <1>3, <1>4, <1>6, <2>1 DEF AdapterStep
\* Workers take from the channels that carry no Err.
<1>e. ASSUME NEW w \in Workers, queue[Source(w)] # <<>>,
             queue' = [queue EXCEPT ![Source(w)] = Tail(@)]
      PROVE  /\ \A q \in Channels : Content(queue'[q]) \subseteq Content(queue[q])
             /\ Head(queue[Source(w)]) \in Real /\ w \in Threads
  <2>1. Source(w) \in {"feed", "clean"}
    BY Wiring
  <2> QED
    BY <1>c, <1>d, <1>e, <2>1 DEF Genuine
<1>7. ASSUME NEW c \in Compressors, Compressor(c) PROVE Genuine'
  <2>1. CASE Compress(c)
    <3>1. /\ \A q \in Channels : Content(queue'[q]) \subseteq Content(queue[q])
          /\ Head(queue[Source(c)]) \in Real /\ c \in Threads
      BY <1>e, <2>1 DEF Compress
    <3>2. \/ Goto(c, "send") /\ Hold(c, Head(queue[Source(c)]))
          \/ Goto(c, "sendErr") /\ Hold(c, Err)
      BY <2>1 DEF Compress
    <3> QED
      BY <1>0, <1>a, <3>1, <3>2, GenuineTakes, MessageFacts
  <2> QED
    BY <1>2, <1>3, <1>4, <1>7, <2>1 DEF Compressor
<1>8. ASSUME NEW x \in Cryptors, Cryptor(x) PROVE Genuine'
  <2>1. CASE CheckFlag(x) \/ Report(x) \/ Flag(x)
    BY <1>b, <2>1 DEF CheckFlag, Report, Flag
  <2>2. CASE TakeSegment(x)
    <3>1. /\ \A q \in Channels : Content(queue'[q]) \subseteq Content(queue[q])
          /\ Head(queue[Source(x)]) \in Real /\ x \in Threads
      BY <1>e, <2>2 DEF TakeSegment
    <3> QED
      BY <1>0, <1>a, <2>2, <3>1, GenuineTakes DEF TakeSegment
  <2>3. CASE Work(x)
    <3>1. \A q \in Channels : Content(queue'[q]) \subseteq Content(queue[q])
      BY <2>3 DEF Work
    <3>2. CASE Goto(x, "send") /\ UNCHANGED work
      <4>1. \A u \in Threads : Holding(u)' => Holding(u)
        BY <2>3, <3>2 DEF Work, At, Holding, Goto, IInv, TypeOK
      <4> QED
        BY <1>0, <2>3, <3>2, <4>1, GenuineStays DEF Work
    <3>3. CASE Hold(x, Err) /\ (Goto(x, "report") \/ Goto(x, "invalid"))
      BY <1>0, <3>1, <3>3, GenuineTakes, MessageFacts
    <3> QED
      BY <2>3, <3>2, <3>3 DEF Work
  <2>4. CASE SendResult(x)
    <3>1. /\ Holding(x) /\ Hold(x, Err)
          /\ Send(Target(x), work[x])
          /\ \E p \in {"check", "reportLast"} : Goto(x, p)
      BY <2>4 DEF SendResult, At, Holding
    <3>2. work[x] \in Real /\ Target(x) \in Channels
      BY <1>c, <3>1 DEF Genuine
    <3>3. \A u \in Threads : Holding(u)' => Holding(u) /\ work'[u] = work[u]
      BY <3>1, ReleaseFacts
    <3> QED
      BY <1>0, <3>1, <3>2, <3>3, GenuineSends
  <2>5. CASE SendInvalid(x)
    <3>1. /\ Goto(x, "reportLast") /\ UNCHANGED work /\ Send(Target(x), Err)
      BY <2>5 DEF SendInvalid
    <3>2. Target(x) \in {"raw", "out"} \cap Channels
      BY <1>c, Wiring
    <3>3. \A u \in Threads : Holding(u)' => Holding(u) /\ work'[u] = work[u]
      BY <3>1, EmptyHanded
    <3> QED
      BY <1>0, <3>1, <3>2, <3>3, GenuineSends
  <2> QED
    BY <1>3, <1>4, <1>8, <2>1, <2>2, <2>3, <2>4, <2>5 DEF Cryptor
<1>9. CASE MainStep
  <2>1. CASE Take
    <3>1. /\ queue["out"] # <<>> /\ queue' = [queue EXCEPT !["out"] = Tail(@)]
          /\ "out" \in Channels /\ UNCHANGED work
          /\ \E p \in {"end", "fatal", "push"} : Goto(Main, p)
      BY <2>1 DEF Take, Channels
    <3>2. \A q \in Channels : Content(queue'[q]) \subseteq Content(queue[q])
      BY <1>d, <3>1
    <3>3. \A u \in Threads : Holding(u)' => Holding(u)
      BY <3>1, EmptyHanded
    <3> QED
      BY <1>a, <3>1, <3>2, <3>3 DEF Genuine, Channels
  <2>2. CASE LoopEnds \/ End \/ WriterDone
    BY <1>b, <2>2 DEF LoopEnds, End, WriterDone
  <2>3. CASE WriterFailed \/ Close
    BY <1>b, <2>3 DEF WriterFailed, Close, Exit
  <2>4. CASE Write
    <3>1. UNCHANGED <<queue, work>> /\ (UNCHANGED pc \/ Goto(Main, "recv"))
      BY <2>4 DEF Write
    <3>2. CASE UNCHANGED pc
      BY <1>0, <3>1, <3>2, GenuineStays DEF Holding
    <3> QED
      BY <1>b, <3>1, <3>2
  <2>5. CASE Join
    BY <1>0, <2>5, GenuineStays DEF Join, Holding, threadVars
  <2> QED
    BY <1>1, <1>9, <2>1, <2>2, <2>3, <2>4, <2>5 DEF MainStep
<1>10. CASE Monitor \/ UNCHANGED vars
  BY <1>0, <1>10, GenuineStays
  DEF Monitor, MonitorTakes, MonitorStores, MonitorLeaves, threadVars, Holding, vars
<1> QED
  BY <1>5, <1>6, <1>7, <1>8, <1>9, <1>10 DEF Next, Step, Returned


-----------------------------------------------------------------------------
(* The writer.                                                             *)

\* The output is a prefix; what is buffered was read, and only a FINAL
\* marker lets finish return Ok.
Ordered ==
  /\ next \in Nat /\ Len(written) = next /\ next <= position
  /\ written \in Seq(Message)
  /\ \A i \in 1..next : written[i] = Segment(i - 1)
  /\ \A i \in DOMAIN pending : i \in Nat /\ i < position /\ pending[i] = Segment(i)
  /\ finalIndex # NoIndex => position > input
  /\ finishOk = "ok" => finalIndex # NoIndex /\ next \notin DOMAIN pending

\* Where the pipeline function is, and where its writer then is.
Control ==
  /\ pc[Main] = "recv" => writerPc = "idle"
  /\ pc[Main] = "push" => writerPc \in {"flush", "failed"}
  /\ pc[Main] = "drain" => writerPc \in {"drain", "done"}
  /\ pc[Main] \in {"close", "done"} => closure = "error" \/ cancelled \/ finishOk = "ok"
  /\ writerPc # "done" => finishOk = "none"

WriterOK == Ordered /\ Control

LEMMA InitWriterOK == Init => WriterOK
<1> SUFFICES ASSUME Init PROVE WriterOK
  OBVIOUS
<1>1. pc[Main] = "recv"
  BY ThreadFacts DEF Init, Workers
<1>2. next = 0 /\ pending = <<>> /\ written = <<>> /\ finalIndex = NoIndex /\ finishOk = "none"
      /\ writerPc = "idle" /\ position = 0
  BY DEF Init, WriterInit
<1> QED
  BY <1>1, <1>2 DEF WriterOK, Ordered, Control

LEMMA WriterStays ==
  ASSUME IInv, IInv', Onward, WriterOK, UNCHANGED writerVars
  PROVE  Ordered'
<1>1. /\ UNCHANGED <<next, pending, finalIndex, written, writerPc, finishOk, input>>
      /\ position' >= position /\ position \in Nat /\ position' \in Nat
  BY DEF writerVars, Onward, IInv, TypeOK, Data
<1>2. \A i : Segment(i)' = Segment(i)
  BY <1>1 DEF Segment
<1>3. \A n \in Nat : (n <= position => n <= position') /\ (n < position => n < position')
  BY <1>1
<1>4. next' <= position' /\ (finalIndex' # NoIndex => position' > input')
  BY <1>1, <1>3 DEF WriterOK, Ordered, IInv, TypeOK, Data
<1>5. \A i \in DOMAIN pending' : i \in Nat /\ i < position' /\ pending'[i] = Segment(i)'
  BY <1>1, <1>2, <1>3 DEF WriterOK, Ordered
<1>6. \A i \in 1..next' : written'[i] = Segment(i - 1)'
  BY <1>1, <1>2 DEF WriterOK, Ordered
<1> QED
  BY <1>1, <1>4, <1>5, <1>6 DEF WriterOK, Ordered

\* The other threads leave the pipeline function where it is.
LEMMA OthersLeaveWriter ==
  ASSUME IInv, IInv', Onward, WriterOK, UNCHANGED <<writerVars, closure>>, pc'[Main] = pc[Main]
  PROVE  WriterOK'
BY WriterStays DEF WriterOK, Control, Onward, writerVars

LEMMA MainMoves ==
  ASSUME IInv, NEW p, Goto(Main, p)
  PROVE  pc'[Main] = p
BY ThreadFacts DEF IInv, TypeOK, Goto

LEMMA OtherMoves ==
  ASSUME IInv, NEW t \in Threads, t # Main, NEW p, Goto(t, p)
  PROVE  pc'[Main] = pc[Main]
BY ThreadFacts DEF IInv, TypeOK, Goto

\* A segment that was read is buffered.
LEMMA PushKeeps ==
  ASSUME IInv, IInv', Onward, WriterOK, UNCHANGED position,
         NEW s \in Real, Push(s), pc'[Main] = "push"
  PROVE  WriterOK'
<1>1. PICK i \in Nat : i < position /\ s = Segment(i) /\ i <= input
  BY DEF Real, Taken
<1>2. s.index = i /\ (s.kind = "final" <=> i = input)
  BY <1>1, MessageFacts
<1>3. /\ UNCHANGED <<next, written, finishOk, input, position>> /\ position \in Nat /\ input \in Nat
      /\ pending' = Insert(pending, s) /\ writerPc = "idle" /\ writerPc' = "flush"
      /\ finalIndex' = IF s.kind = "final" THEN s.index ELSE finalIndex
  BY DEF Push, Onward, IInv, TypeOK, Data
<1>4. /\ DOMAIN pending' = DOMAIN pending \cup {i}
      /\ pending'[i] = s
      /\ \A j \in DOMAIN pending : j # i => pending'[j] = pending[j]
  BY <1>2, <1>3 DEF Insert
<1>5. \A j : Segment(j)' = Segment(j)
  BY <1>3 DEF Segment
<1>6. \A j \in DOMAIN pending' : j \in Nat /\ j < position /\ pending'[j] = Segment(j)
  BY <1>1, <1>4 DEF WriterOK, Ordered
<1>7. finalIndex' # NoIndex => position > input
  BY <1>1, <1>2, <1>3 DEF WriterOK, Ordered
<1>8. finishOk = "none"
  BY <1>3 DEF WriterOK, Control
<1>9. Ordered'
  BY <1>3, <1>5, <1>6, <1>7, <1>8 DEF WriterOK, Ordered
<1> QED
  BY <1>3, <1>8, <1>9 DEF WriterOK, Control

\* One iteration of the loops of flush_ready and finish.
LEMMA WriteKeeps ==
  ASSUME IInv, IInv', Onward, WriterOK, Write
  PROVE  WriterOK'
<1>0. /\ UNCHANGED <<input, position, closure, cancelled>> /\ position \in Nat
      /\ pc[Main] \in {"push", "drain"}
  BY DEF Write, Onward, IInv, TypeOK, Data, fatalVars, endVars
<1>1. \A j : Segment(j)' = Segment(j)
  BY <1>0 DEF Segment
<1>2. CASE WriteNext /\ UNCHANGED pc
  <2>1. /\ next \in DOMAIN pending /\ written' = Append(written, pending[next])
        /\ DOMAIN pending' = DOMAIN pending \ {next}
        /\ \A j \in DOMAIN pending' : pending'[j] = pending[j]
        /\ next' = next + 1 /\ UNCHANGED <<finalIndex, writerPc, finishOk>>
        /\ writerPc # "done"
    BY <1>2 DEF WriteNext, Remove
  <2>2. /\ next \in Nat /\ next < position
        /\ pending[next] = Segment(next) /\ Segment(next) \in Message
    BY <2>1, MessageFacts DEF WriterOK, Ordered
  <2>3. /\ written' \in Seq(Message) /\ Len(written') = next + 1
        /\ written'[next + 1] = Segment(next)
        /\ \A i \in 1..next : written'[i] = written[i]
    BY <2>1, <2>2 DEF WriterOK, Ordered
  <2>4. \A i \in 1..(next + 1) : written'[i] = Segment(i - 1)
    <3>1. \A i \in 1..(next + 1) : i \in 1..next \/ i = next + 1
      BY <2>2
    <3>2. (next + 1) - 1 = next
      BY <2>2
    <3> QED
      BY <2>3, <3>1, <3>2 DEF WriterOK, Ordered
  <2>5. finishOk = "none"
    BY <2>1 DEF WriterOK, Control
  <2>6. \A i \in DOMAIN pending' : i \in Nat /\ i < position /\ pending'[i] = Segment(i)
    BY <2>1 DEF WriterOK, Ordered
  <2>7. next' \in Nat /\ next' <= position
    BY <1>0, <2>1, <2>2
  <2>8. Ordered'
    BY <1>0, <1>1, <2>1, <2>3, <2>4, <2>5, <2>6, <2>7 DEF WriterOK, Ordered
  <2> QED
    BY <1>0, <1>2, <2>1, <2>5, <2>8 DEF WriterOK, Control
<1>3. CASE WriteFails /\ UNCHANGED pc
  <2>1. /\ UNCHANGED <<next, written, finalIndex>>
        /\ DOMAIN pending' \subseteq DOMAIN pending
        /\ \A j \in DOMAIN pending' : pending'[j] = pending[j]
        /\ \/ writerPc = "flush" /\ writerPc' = "failed" /\ UNCHANGED finishOk
           \/ writerPc = "drain" /\ writerPc' = "done" /\ finishOk' = "io"
    BY <1>3 DEF WriteFails, Remove
  <2>2. Ordered'
    BY <1>0, <1>1, <2>1 DEF WriterOK, Ordered, Control
  <2> QED
    BY <1>0, <1>3, <2>1, <2>2 DEF WriterOK, Control
<1>4. CASE PushReturns /\ Goto(Main, "recv")
  <2>1. /\ UNCHANGED <<next, pending, finalIndex, written, finishOk>> /\ writerPc' = "idle"
        /\ writerPc = "flush" /\ pc'[Main] = "recv"
    BY <1>4, MainMoves DEF PushReturns
  <2>2. Ordered'
    BY <1>0, <1>1, <2>1 DEF WriterOK, Ordered
  <2> QED
    BY <1>0, <2>1, <2>2 DEF WriterOK, Control
<1>5. CASE FinishReturns /\ UNCHANGED pc
  <2>1. /\ UNCHANGED <<next, pending, finalIndex, written>> /\ writerPc' = "done"
        /\ next \notin DOMAIN pending /\ writerPc = "drain"
        /\ finishOk' = "ok" => finalIndex # NoIndex
    BY <1>5 DEF FinishReturns
  <2>2. Ordered'
    BY <1>0, <1>1, <2>1 DEF WriterOK, Ordered
  <2> QED
    BY <1>0, <1>5, <2>1, <2>2 DEF WriterOK, Control
<1> QED
  BY <1>2, <1>3, <1>4, <1>5 DEF Write

LEMMA NextWriterOK == IInv /\ IInv' /\ Genuine /\ WriterOK /\ [Next]_vars => WriterOK'
<1> SUFFICES ASSUME IInv, IInv', Genuine, WriterOK, [Next]_vars PROVE WriterOK'
  OBVIOUS
<1> USE ThreadFacts
<1>0. Onward
  BY StepsGoOnward
<1>a. ASSUME NEW t \in Threads, t # Main, NEW p, Goto(t, p), UNCHANGED <<closure, writerVars>>
      PROVE  WriterOK'
  BY <1>0, <1>a, OtherMoves, OthersLeaveWriter
<1>b. ASSUME NEW p, Goto(Main, p), UNCHANGED writerVars,
             p \notin {"recv", "push", "drain", "close", "done"}
      PROVE  WriterOK'
  BY <1>0, <1>b, MainMoves, WriterStays DEF WriterOK, Control, writerVars
<1>1. ASSUME NEW t \in {Reader, Adapter}, NEW e, Fatal(t, e) \/ Store(t)
      PROVE  WriterOK'
  <2>1. CASE Fatal(t, e)
    BY <1>a, <2>1 DEF Fatal
  <2>2. CASE Store(t)
    BY <1>a, <2>2 DEF Store, endVars
  <2> QED
    BY <1>1, <2>1, <2>2
<1>2. ASSUME NEW w \in Workers \cup {Adapter}, SendOn(w) \/ SendErr(w, "done") \/ Leaves(w)
      PROVE  WriterOK'
  BY <1>a, <1>2 DEF SendOn, SendErr, Leaves, endVars
<1>3. CASE ReaderStep
  <2>1. CASE Read
    BY <1>a, <2>1 DEF Read, endVars
  <2>2. CASE SendRead
    BY <1>a, <2>2 DEF SendRead, endVars
  <2> QED
    BY <1>1, <1>3, <2>1, <2>2 DEF ReaderStep
<1>4. CASE AdapterStep
  <2>1. CASE Unwrap
    BY <1>a, <2>1 DEF Unwrap, endVars
  <2> QED
    BY <1>1, <1>2, <1>4, <2>1 DEF AdapterStep
<1>5. ASSUME NEW c \in Compressors, Compressor(c) PROVE WriterOK'
  <2>1. CASE Compress(c)
    BY <1>a, <2>1 DEF Compress, endVars
  <2> QED
    BY <1>2, <1>5, <2>1 DEF Compressor
<1>6. ASSUME NEW x \in Cryptors, Cryptor(x) PROVE WriterOK'
  <2>1. CASE CheckFlag(x) \/ TakeSegment(x) \/ SendResult(x) \/ SendInvalid(x)
    BY <1>a, <2>1 DEF CheckFlag, TakeSegment, SendResult, SendInvalid, endVars
  <2>2. CASE Work(x)
    BY <1>a, <2>2 DEF Work, endVars
  <2>3. CASE Report(x) \/ Flag(x)
    BY <1>a, <2>3 DEF Report, Flag, endVars
  <2> QED
    BY <1>2, <1>6, <2>1, <2>2, <2>3 DEF Cryptor
<1>7. CASE MainStep
  <2>1. CASE Take
    <3>1. CASE UNCHANGED writerVars
      <4>1. Goto(Main, "end") \/ Goto(Main, "fatal")
        BY <2>1, <3>1 DEF Take, Push, writerVars
      <4> QED
        BY <1>b, <3>1, <4>1
    <3>2. CASE Push(Head(queue["out"])) /\ Goto(Main, "push") /\ Head(queue["out"]).kind # "error"
      <4>1. queue["out"] # <<>> /\ "out" \in Channels
        BY <2>1 DEF Take, Channels
      <4>2. Head(queue["out"]) \in Content(queue["out"])
        BY <2>1, <4>1, TakeEffect DEF Take, IInv, TypeOK
      <4>3. Head(queue["out"]) \in Real
        BY <3>2, <4>2, MessageFacts DEF Genuine
      <4>4. pc'[Main] = "push" /\ UNCHANGED position
        BY <2>1, <3>2, MainMoves DEF Take
      <4> QED
        BY <1>0, <3>2, <4>3, <4>4, PushKeeps
    <3> QED
      BY <2>1, <3>1, <3>2 DEF Take
  <2>2. CASE LoopEnds
    BY <1>b, <2>2 DEF LoopEnds
  <2>3. CASE End
    <3>1. CASE cancelled
      <4>1. pc'[Main] = "close" /\ UNCHANGED <<writerVars, cancelled>>
        BY <2>3, <3>1, MainMoves DEF End, fatalVars
      <4> QED
        BY <1>0, <3>1, <4>1, WriterStays DEF WriterOK, Control, writerVars
    <3>2. CASE ~cancelled
      <4>1. /\ pc'[Main] = "drain" /\ writerPc' = "drain" /\ writerPc # "done"
            /\ UNCHANGED <<next, pending, finalIndex, written, finishOk, input, position>>
        BY <2>3, <3>2, MainMoves, <1>0 DEF End, Finish, Onward
      <4>2. \A j : Segment(j)' = Segment(j)
        BY <4>1 DEF Segment
      <4>3. Ordered'
        BY <4>1, <4>2 DEF WriterOK, Ordered
      <4> QED
        BY <4>1, <4>3 DEF WriterOK, Control
    <3> QED
      BY <3>1, <3>2
  <2>4. CASE WriterFailed
    <3>1. UNCHANGED writerVars
      BY <2>4 DEF WriterFailed
    <3>2. CASE Goto(Main, "fatal")
      BY <1>b, <3>1, <3>2
    <3>3. CASE Goto(Main, "done") /\ closure' = "error"
      BY <1>0, <3>1, <3>3, MainMoves, WriterStays DEF WriterOK, Control, writerVars
    <3> QED
      BY <2>4, <3>2, <3>3 DEF WriterFailed, Exit
  <2>5. CASE WriterDone
    <3>1. pc'[Main] = "close" /\ UNCHANGED writerVars /\ finishOk = "ok"
      BY <2>5, MainMoves DEF WriterDone
    <3> QED
      BY <1>0, <3>1, WriterStays DEF WriterOK, Control, writerVars
  <2>6. CASE Close
    <3>1. /\ pc'[Main] = "done" /\ UNCHANGED writerVars /\ pc[Main] = "close"
          /\ UNCHANGED cancelled /\ closure # "error"
      BY <2>6, MainMoves DEF Close, Exit, At, fatalVars, IInv, Ended, Gone
    <3> QED
      BY <1>0, <3>1, WriterStays DEF WriterOK, Control, writerVars
  <2>7. CASE Write
    BY <1>0, <2>7, WriteKeeps
  <2>8. CASE Join
    <3>1. UNCHANGED <<pc, closure, writerVars>>
      BY <2>8 DEF Join, threadVars
    <3> QED
      BY <1>0, <3>1, OthersLeaveWriter
  <2>9. CASE Fatal(Main, "writer")
    BY <1>b, <2>9 DEF Fatal
  <2>10. CASE Store(Main)
    BY <1>b, <2>10 DEF Store
  <2> QED
    BY <1>7, <2>1, <2>2, <2>3, <2>4, <2>5, <2>6, <2>7, <2>8, <2>9, <2>10 DEF MainStep
<1>8. CASE Monitor \/ UNCHANGED vars
  <2>1. UNCHANGED <<pc, closure, writerVars>>
    BY <1>8 DEF Monitor, MonitorTakes, MonitorStores, MonitorLeaves, threadVars, endVars, vars
  <2> QED
    BY <1>0, <2>1, OthersLeaveWriter
<1> QED
  BY <1>3, <1>4, <1>5, <1>6, <1>7, <1>8 DEF Next, Step, Returned


-----------------------------------------------------------------------------
(* The stages.                                                             *)

Stages == Workers \cup {Adapter}
AfterLoop == {"end", "drain", "close", "done"}

\* While nothing is disturbed, a stage that has ended without a failure has
\* left nothing behind it, and nothing more will come.
Drained ==
  Undisturbed =>
    /\ \A w \in Stages :
         Gone(w) /\ (w \in Compressors => "compress" \notin raised)
           => queue[Source(w)] = <<>> /\ Closed(Source(w))
    /\ pc[Main] \in AfterLoop => queue["out"] = <<>> /\ Closed("out")
    /\ \A c \in Compressors : pc[c] = "sendErr" => "compress" \in raised

\* Undisturbed, no thread is on its way out but by the end of its channel.
LEMMA CalmFacts ==
  ASSUME IInv, Undisturbed
  PROVE  /\ ~cancelled /\ fatal = NoError
         /\ \A t \in Threads : pc[t] \notin {"store", "flag", "flagLast", "panicked"}
         /\ \A t \in Reporters : pc[t] # "sendErr"
         /\ monitor = "exited" => \A t \in Reporters : Gone(t)
BY DEF IInv, Recorded, Undisturbed

\* A thread that is not gone keeps the channel it sends to from closing.
LEMMA SendersKeepOpen ==
  ASSUME IInv
  PROVE  /\ \A w \in Stages : ~Gone(w) => ~Closed(Target(w))
         /\ ~Gone(Reader) => ~Closed("feed")
         /\ mode = "encrypt" /\ ~Gone(Adapter) => ~Closed("out")
<1>1. \A w \in First : ~Gone(w) => ~Closed("raw")
  BY DEF Closed, Live, Gone
<1>2. \A w \in Second : ~Gone(w) => ~Closed("out")
  BY DEF Closed, Live, Gone
<1>3. ~Gone(Adapter) => ~Closed("clean")
  BY DEF Closed, Live, Gone
<1> QED
  BY <1>1, <1>2, <1>3, Wiring DEF Closed, Live, Gone, Stages

\* What is closed stays closed.
LEMMA ClosedStays ==
  ASSUME IInv, Onward, NEW p \in Channels, Closed(p)
  PROVE  Closed(p)'
<1>1. /\ First' = First /\ Second' = Second /\ mode' = mode
      /\ First \subseteq Threads /\ Second \subseteq Threads
      /\ Reader \in Threads /\ Adapter \in Threads
  BY Wiring, ThreadFacts DEF Onward, First, Second
<1>2. \A t \in Threads : Gone(t) => Gone(t)'
  BY DEF Onward
<1> QED
  BY <1>1, <1>2 DEF Closed, Live, Gone, Channels

LEMMA DrainedStays ==
  ASSUME IInv, Onward, Drained, IInv',
         Undisturbed' =>
           /\ \A w \in Stages : Gone(w)' /\ ~Gone(w) =>
                \/ w \in Compressors /\ "compress" \in raised'
                \/ queue[Source(w)] = <<>> /\ Closed(Source(w))
           /\ \A p \in Channels : Closed(p) /\ queue[p] = <<>> => queue'[p] = <<>>
           /\ pc'[Main] \in AfterLoop =>
                pc[Main] \in AfterLoop \/ (queue["out"] = <<>> /\ Closed("out"))
           /\ \A c \in Compressors :
                pc'[c] = "sendErr" => pc[c] = "sendErr" \/ "compress" \in raised'
  PROVE  Drained'
<1> SUFFICES ASSUME Undisturbed' PROVE Drained'
  BY DEF Drained
<1>1. Undisturbed /\ raised \subseteq raised' /\ mode' = mode
  BY DEF Onward
<1>2. \A w \in Stages : Source(w)' = Source(w) /\ Source(w) \in Channels
  BY <1>1, ChannelFacts DEF Source, First, Stages
<1>3. "out" \in Channels
  BY DEF Channels
<1>4. \A w \in Stages :
        Gone(w)' /\ (w \in Compressors => "compress" \notin raised')
          => queue'[Source(w)] = <<>> /\ Closed(Source(w))
  BY <1>1, <1>2 DEF Drained
<1>5. \A p \in Channels : Closed(p) => Closed(p)'
  BY ClosedStays
<1>6. \A w \in Stages :
        Gone(w)' /\ (w \in Compressors => "compress" \notin raised')
          => queue'[Source(w)'] = <<>> /\ Closed(Source(w))'
  <2> SUFFICES ASSUME NEW w \in Stages, Gone(w)', w \in Compressors => "compress" \notin raised'
               PROVE  queue'[Source(w)'] = <<>> /\ Closed(Source(w))'
    OBVIOUS
  <2>1. PICK p \in Channels : p = Source(w) /\ p = Source(w)'
    BY <1>2
  <2>2. queue'[p] = <<>> /\ Closed(p)'
    BY <1>4, <1>5, <2>1
  <2>3. Closed(Source(w))' <=> Closed(p)'
    BY <2>1 DEF Closed
  <2> QED
    BY <2>1, <2>2, <2>3
<1>7. pc'[Main] \in AfterLoop => queue'["out"] = <<>> /\ Closed("out")'
  BY <1>1, <1>3, <1>5 DEF Drained
<1>8. \A c \in Compressors : pc'[c] = "sendErr" => "compress" \in raised'
  BY <1>1 DEF Drained
<1> QED
  BY <1>6, <1>7, <1>8 DEF Drained

LEMMA InitDrained == Init => Drained
<1> SUFFICES ASSUME Init PROVE Drained
  OBVIOUS
<1>1. \A t \in Threads : pc[t] \in {"check", "recv"}
  BY DEF Init
<1> QED
  BY <1>1, ThreadFacts DEF Drained, Gone, AfterLoop, Stages

\* A thread that does not leave, takes from a channel that has something, or
\* adds to one that it keeps open.
LEMMA MovesKeepDrained ==
  ASSUME IInv, IInv', Onward, Drained, NEW t \in Threads, ~Gone(t), NEW p, Goto(t, p),
         p \notin {"done", "panicked"}, t = Main => p \notin AfterLoop,
         t \in Compressors /\ p = "sendErr" => "compress" \in raised',
         Undisturbed' =>
           \A q \in Channels : Closed(q) /\ queue[q] = <<>> => queue'[q] = <<>>
  PROVE  Drained'
<1>1. pc'[t] = p /\ \A u \in Threads : u # t => pc'[u] = pc[u]
  BY DEF Goto, IInv, TypeOK
<1>2. \A w \in Stages : Gone(w)' => Gone(w)
  BY <1>1, ThreadFacts DEF Gone, Stages
<1>3. pc'[Main] \in AfterLoop => pc[Main] \in AfterLoop
  BY <1>1, ThreadFacts
<1>4. \A c \in Compressors :
        pc'[c] = "sendErr" => pc[c] = "sendErr" \/ "compress" \in raised'
  BY <1>1, ThreadFacts
<1> QED
  BY <1>2, <1>3, <1>4, DrainedStays

\* A step that disturbs owes nothing.
LEMMA DisturbedIsDrained == ~Undisturbed' => Drained'
BY DEF Drained

LEMMA TakesKeepEmpty ==
  ASSUME IInv, NEW p \in Channels, queue[p] # <<>>, queue' = [queue EXCEPT ![p] = Tail(@)]
  PROVE  \A q \in Channels : Closed(q) /\ queue[q] = <<>> => queue'[q] = <<>>
BY TakeEffect DEF IInv, TypeOK

LEMMA SendsKeepEmpty ==
  ASSUME IInv, NEW p \in Channels, NEW m \in Message, Send(p, m), ~Closed(p)
  PROVE  \A q \in Channels : Closed(q) /\ queue[q] = <<>> => queue'[q] = <<>>
BY SendEffect DEF IInv, TypeOK

LEMMA NextDrained == IInv /\ IInv' /\ Genuine /\ Drained /\ [Next]_vars => Drained'
<1> SUFFICES ASSUME IInv, IInv', Genuine, Drained, [Next]_vars, Undisturbed' PROVE Drained'
  BY DisturbedIsDrained
<1> USE ThreadFacts
<1>0. Onward /\ Undisturbed
  BY StepsGoOnward DEF Onward
<1>a. /\ ~cancelled /\ fatal = NoError
      /\ \A t \in Threads : pc[t] \notin {"store", "flag", "flagLast", "panicked"}
      /\ \A t \in Reporters : pc[t] # "sendErr"
      /\ monitor = "exited" => \A t \in Reporters : Gone(t)
  BY <1>0, CalmFacts
<1>b. ASSUME NEW t \in Threads, ~Gone(t), NEW p, Goto(t, p), p \notin {"done", "panicked"},
             t = Main => p \notin AfterLoop, UNCHANGED queue, t \notin Compressors
      PROVE  Drained'
  BY <1>0, <1>b, MovesKeepDrained
<1>c. \A s \in Real : s \in Message
  BY RealFacts
<1>1. ASSUME NEW t \in {Reader, Adapter, Main}, NEW e \in FaultKinds \cup {"stage", "writer"},
             Fatal(t, e) \/ Store(t)
      PROVE  Drained'
  <2>1. CASE Fatal(t, e)
    <3>1. monitor # "exited"
      BY <1>a, <2>1 DEF Fatal, At, Gone
    <3>2. mail' # NoError
      BY <2>1, <3>1 DEF Fatal, Mail
    <3> QED
      BY <3>2 DEF Undisturbed
  <2>2. CASE Store(t)
    BY <1>a, <2>2 DEF Store, At
  <2> QED
    BY <1>1, <2>1, <2>2
<1>2. ASSUME NEW w \in Stages, SendOn(w) PROVE Drained'
  <2>1. /\ ~Gone(w) /\ w \in Threads /\ w # Main /\ Goto(w, "recv") /\ Send(Target(w), work[w])
        /\ Target(w) \in Channels /\ work[w] \in Message
    BY <1>2, <1>c, ChannelFacts DEF SendOn, At, Gone, Stages, IInv, TypeOK, Data
  <2>2. ~Closed(Target(w))
    BY <2>1, SendersKeepOpen
  <2> QED
    BY <1>0, <2>1, <2>2, SendsKeepEmpty, MovesKeepDrained
\* The Err of a compression worker follows a failure.
<1>3. ASSUME NEW w \in Stages, SendErr(w, "done") PROVE Drained'
  <2>0. w \in Compressors
    BY <1>a, <1>3 DEF SendErr, At, Stages, Reporters
  <2>1. w \in Compressors /\ "compress" \in raised
    BY <1>0, <1>3, <2>0 DEF SendErr, At, Drained
  <2>2. /\ ~Gone(w) /\ Goto(w, "done") /\ Send(Target(w), Err) /\ UNCHANGED raised
        /\ Target(w) \in Channels /\ Err \in Message
    BY <1>3, <2>1, ChannelFacts, MessageFacts DEF SendErr, At, Gone, Stages
  <2>3. ~Closed(Target(w))
    BY <2>2, SendersKeepOpen
  <2>4. \A q \in Channels : Closed(q) /\ queue[q] = <<>> => queue'[q] = <<>>
    BY <2>2, <2>3, SendsKeepEmpty
  <2>5. \A u \in Threads : u # w => pc'[u] = pc[u]
    BY <2>2 DEF Goto, IInv, TypeOK
  <2>6. /\ \A u \in Stages : Gone(u)' /\ ~Gone(u) => u \in Compressors /\ "compress" \in raised'
        /\ pc'[Main] = pc[Main]
        /\ \A c \in Compressors : pc'[c] = "sendErr" => pc[c] = "sendErr"
    BY <1>3, <2>1, <2>2, <2>5 DEF Gone, Stages, Goto, IInv, TypeOK
  <2> QED
    BY <1>0, <2>4, <2>6, DrainedStays
<1>4. ASSUME NEW w \in Stages, Leaves(w) PROVE Drained'
  <2>1. /\ Goto(w, "done") /\ UNCHANGED queue
        /\ queue[Source(w)] = <<>> /\ Closed(Source(w))
    BY <1>4 DEF Leaves
  <2>2. \A u \in Threads : u # w => pc'[u] = pc[u]
    BY <2>1 DEF Goto, IInv, TypeOK
  <2>3. /\ \A u \in Stages : Gone(u)' /\ ~Gone(u) => u = w
        /\ pc'[Main] = pc[Main]
        /\ \A c \in Compressors : pc'[c] = "sendErr" => pc[c] = "sendErr"
    BY <2>1, <2>2 DEF Gone, Stages, Goto, IInv, TypeOK
  <2> QED
    BY <1>0, <2>1, <2>3, DrainedStays
<1>5. CASE ReaderStep
  <2>1. CASE Read
    <3>1. /\ UNCHANGED queue /\ \E p : Goto(Reader, p)
      BY <2>1 DEF Read
    <3>2. \A u \in Threads : u # Reader => pc'[u] = pc[u]
      BY <3>1 DEF Goto, IInv, TypeOK
    <3>3. /\ \A u \in Stages : Gone(u)' => Gone(u)
          /\ pc'[Main] = pc[Main]
          /\ \A c \in Compressors : pc'[c] = pc[c]
      BY <3>2 DEF Gone, Stages
    <3> QED
      BY <1>0, <3>1, <3>3, DrainedStays
  <2>2. CASE SendRead
    <3>1. /\ ~Gone(Reader) /\ Send("feed", work[Reader]) /\ "feed" \in Channels
          /\ work[Reader] \in Message /\ \E p : Goto(Reader, p)
      BY <2>2 DEF SendRead, At, Gone, Channels, IInv, TypeOK, Data
    <3>2. ~Closed("feed")
      BY <3>1, SendersKeepOpen
    <3>3. \A u \in Threads : u # Reader => pc'[u] = pc[u]
      BY <3>1 DEF Goto, IInv, TypeOK
    <3>4. /\ \A u \in Stages : Gone(u)' => Gone(u)
          /\ pc'[Main] = pc[Main]
          /\ \A c \in Compressors : pc'[c] = pc[c]
      BY <3>3 DEF Gone, Stages
    <3> QED
      BY <1>0, <3>1, <3>2, <3>4, SendsKeepEmpty, DrainedStays
  <2> QED
    BY <1>1, <1>5, <2>1, <2>2 DEF ReaderStep, FaultKinds
<1>6. CASE AdapterStep
  <2>1. CASE Unwrap
    <3>1. /\ ~Gone(Adapter) /\ queue["raw"] # <<>> /\ queue' = [queue EXCEPT !["raw"] = Tail(@)]
          /\ "raw" \in Channels
          /\ \E p \in {"fatal", "send"} : Goto(Adapter, p)
      BY <1>a, <2>1 DEF Unwrap, Channels, At, Gone
    <3> QED
      BY <1>0, <3>1, TakesKeepEmpty, MovesKeepDrained
  <2>2. ~SendErr(Adapter, "done")
    BY <1>a DEF SendErr, At
  <2> QED
    BY <1>1, <1>2, <1>4, <1>6, <2>1, <2>2 DEF AdapterStep, FaultKinds, Stages
<1>7. ASSUME NEW c \in Compressors, Compressor(c) PROVE Drained'
  <2>1. CASE Compress(c)
    <3>1. /\ ~Gone(c) /\ queue[Source(c)] # <<>> /\ queue' = [queue EXCEPT ![Source(c)] = Tail(@)]
          /\ Source(c) \in Channels /\ c \in Threads /\ c # Main
          /\ \E p \in {"send", "sendErr"} : Goto(c, p) /\ (p = "sendErr" => "compress" \in raised')
      BY <2>1, ChannelFacts DEF Compress, At, Gone
    <3> QED
      BY <1>0, <3>1, TakesKeepEmpty, MovesKeepDrained
  <2>2. CASE SendErr(c, "done")
    BY <1>3, <2>2 DEF Stages
  <2> QED
    BY <1>2, <1>4, <1>7, <2>1, <2>2 DEF Compressor, Stages
<1>8. ASSUME NEW x \in Cryptors, Cryptor(x) PROVE Drained'
  <2>0. x \in Threads /\ x # Main /\ x \in Reporters /\ x \notin Compressors
        /\ Source(x) \in Channels /\ Target(x) \in Channels /\ x \in Stages
    BY ChannelFacts DEF Stages
  <2>1. CASE CheckFlag(x)
    <3>1. ~Gone(x) /\ Goto(x, "recv") /\ UNCHANGED queue
      BY <1>a, <2>1 DEF CheckFlag, At, Gone
    <3> QED
      BY <1>b, <2>0, <3>1
  <2>2. CASE TakeSegment(x)
    <3>1. /\ ~Gone(x) /\ queue[Source(x)] # <<>> /\ queue' = [queue EXCEPT ![Source(x)] = Tail(@)]
          /\ Goto(x, "work")
      BY <2>2 DEF TakeSegment, At, Gone
    <3> QED
      BY <1>0, <2>0, <3>1, TakesKeepEmpty, MovesKeepDrained
  <2>3. CASE Work(x)
    <3>1. ~Gone(x) /\ UNCHANGED queue /\ \E p \in {"send", "report", "invalid"} : Goto(x, p)
      BY <2>3 DEF Work, At, Gone
    <3> QED
      BY <1>b, <2>0, <3>1
  <2>4. CASE SendResult(x) \/ SendInvalid(x)
    <3>1. /\ ~Gone(x) /\ \E p \in {"check", "reportLast"} : Goto(x, p)
          /\ \E m \in Message : Send(Target(x), m)
      BY <2>0, <2>4, MessageFacts DEF SendResult, SendInvalid, At, Gone, IInv, TypeOK, Data
    <3>2. ~Closed(Target(x))
      BY <2>0, <3>1, SendersKeepOpen
    <3> QED
      BY <1>0, <2>0, <3>1, <3>2, SendsKeepEmpty, MovesKeepDrained
  <2>5. CASE Report(x)
    <3>1. mail' # NoError
      BY <2>5 DEF Report, Mail, FaultKinds
    <3> QED
      BY <3>1 DEF Undisturbed
  <2>6. ~Flag(x) /\ ~SendErr(x, "done")
    BY <1>a, <2>0 DEF Flag, SendErr, At
  <2> QED
    BY <1>4, <1>8, <2>0, <2>1, <2>2, <2>3, <2>4, <2>5, <2>6 DEF Cryptor
<1>9. CASE MainStep
  <2>a. ASSUME NEW p, Goto(Main, p), UNCHANGED queue,
               p \in AfterLoop => pc[Main] \in AfterLoop \/ (queue["out"] = <<>> /\ Closed("out"))
        PROVE  Drained'
    <3>1. pc'[Main] = p /\ \A u \in Threads : u # Main => pc'[u] = pc[u]
      BY <2>a DEF Goto, IInv, TypeOK
    <3>2. /\ \A u \in Stages : Gone(u)' => Gone(u)
          /\ \A c \in Compressors : pc'[c] = pc[c]
      BY <3>1 DEF Gone, Stages
    <3> QED
      BY <1>0, <2>a, <3>1, <3>2, DrainedStays
  <2>1. CASE Take
    <3>1. /\ ~Gone(Main) /\ queue["out"] # <<>> /\ queue' = [queue EXCEPT !["out"] = Tail(@)]
          /\ "out" \in Channels
          /\ \E p \in {"fatal", "push"} : Goto(Main, p)
      BY <1>a, <2>1 DEF Take, Channels, At, Gone
    <3> QED
      BY <1>0, <3>1, TakesKeepEmpty, MovesKeepDrained DEF AfterLoop
  <2>2. CASE LoopEnds
    BY <2>a, <2>2 DEF LoopEnds
  <2>3. CASE End
    BY <2>a, <2>3 DEF End, At, AfterLoop
  <2>4. CASE WriterFailed
    <3>1. CASE Goto(Main, "fatal")
      BY <2>4, <3>1, <2>a DEF WriterFailed, AfterLoop
    <3>2. CASE closure' = "error"
      BY <3>2 DEF Undisturbed
    <3> QED
      BY <2>4, <3>1, <3>2 DEF WriterFailed, Exit
  <2>5. CASE WriterDone
    BY <2>a, <2>5 DEF WriterDone, At, AfterLoop
  <2>6. CASE Close
    BY <2>a, <2>6 DEF Close, Exit, At, AfterLoop
  <2>7. CASE Write
    <3>1. UNCHANGED queue /\ (UNCHANGED pc \/ Goto(Main, "recv"))
      BY <2>7 DEF Write
    <3>2. CASE UNCHANGED pc
      BY <1>0, <3>1, <3>2, DrainedStays DEF Gone
    <3> QED
      BY <2>a, <3>1, <3>2 DEF AfterLoop
  <2>8. CASE Join
    <3>1. UNCHANGED <<pc, queue>>
      BY <2>8 DEF Join, threadVars
    <3> QED
      BY <1>0, <3>1, DrainedStays DEF Gone
  <2> QED
    BY <1>1, <1>9, <2>1, <2>2, <2>3, <2>4, <2>5, <2>6, <2>7, <2>8 DEF MainStep
<1>10. CASE Monitor \/ UNCHANGED vars
  <2>1. UNCHANGED <<pc, queue>>
    BY <1>10 DEF Monitor, MonitorTakes, MonitorStores, MonitorLeaves, threadVars, vars
  <2> QED
    BY <1>0, <2>1, DrainedStays DEF Gone
<1> QED
  BY <1>5, <1>6, <1>7, <1>8, <1>9, <1>10 DEF Next, Step, Returned


-----------------------------------------------------------------------------
(* What a thread's step leaves alone.                                      *)

\* The channel a thread takes from, and the kind of failure it meets.
Inlet(t) == IF t \in Stages THEN Source(t) ELSE IF t = Main THEN "out" ELSE "none"
OwnKind(t) ==
  IF t = Reader THEN {"read"} ELSE IF t \in Compressors THEN {"compress"}
  ELSE IF t \in Cryptors THEN {"crypto"} ELSE IF t = Main THEN {"write"} ELSE {}

Only(t) ==
  /\ ~Gone(t)
  /\ \A u \in Threads : u # t => pc'[u] = pc[u] /\ work'[u] = work[u]
  /\ \A p \in Channels : p # Inlet(t) => Content(queue[p]) \subseteq Content(queue'[p])
  /\ raised' \subseteq raised \cup OwnKind(t)
  /\ t # Main => UNCHANGED writerVars
  /\ t # Reader => UNCHANGED position
  /\ UNCHANGED result

\* A step that takes nothing.
LEMMA OnlyMoves ==
  ASSUME IInv, NEW t \in Threads, ~Gone(t), NEW p, Goto(t, p),
         UNCHANGED work \/ (\E m : Hold(t, m)),
         \A q \in Channels : q # Inlet(t) => Content(queue[q]) \subseteq Content(queue'[q]),
         raised' \subseteq raised \cup OwnKind(t),
         t # Main => UNCHANGED writerVars,
         t # Reader => UNCHANGED position,
         UNCHANGED result
  PROVE  Only(t)
<1>1. \A u \in Threads : u # t => pc'[u] = pc[u]
  BY DEF Goto, IInv, TypeOK
<1>2. \A u \in Threads : u # t => work'[u] = work[u]
  BY DEF Hold, IInv, TypeOK, Data
<1> QED
  BY <1>1, <1>2 DEF Only

LEMMA TakesFromOne ==
  ASSUME IInv, NEW p \in Channels, queue[p] # <<>>, queue' = [queue EXCEPT ![p] = Tail(@)]
  PROVE  \A q \in Channels : q # p => Content(queue[q]) \subseteq Content(queue'[q])
BY TakeEffect DEF IInv, TypeOK

LEMMA SendsLoseNone ==
  ASSUME IInv, NEW p \in Channels, NEW m \in Message, Send(p, m)
  PROVE  \A q \in Channels : Content(queue[q]) \subseteq Content(queue'[q])
BY SendEffect DEF IInv, TypeOK

LEMMA FatalFrame ==
  ASSUME IInv, NEW t \in {Reader, Adapter, Main}, NEW e, Fatal(t, e) \/ Store(t)
  PROVE  Only(t)
<1>1. t \in Threads
  BY ThreadFacts
<1>2. CASE Fatal(t, e)
  BY <1>1, <1>2, OnlyMoves DEF Fatal, At, Gone
<1>3. CASE Store(t)
  BY <1>1, <1>3, OnlyMoves DEF Store, At, Gone, endVars
<1> QED
  BY <1>2, <1>3

LEMMA StageFrame ==
  ASSUME IInv, NEW w \in Stages, SendOn(w) \/ SendErr(w, "done") \/ Leaves(w)
  PROVE  Only(w)
<1>1. w \in Threads /\ w # Main /\ w # Reader /\ Target(w) \in Channels /\ "out" \in Channels
  BY ThreadFacts, ChannelFacts DEF Stages, Channels
<1>2. CASE SendOn(w)
  <2>1. /\ ~Gone(w) /\ Send(Target(w), work[w]) /\ work[w] \in Message
        /\ Goto(w, "recv") /\ Hold(w, Err) /\ UNCHANGED <<position, raised, writerVars, result>>
    BY <1>1, <1>2 DEF SendOn, At, Gone, endVars, IInv, TypeOK, Data
  <2> QED
    BY <1>1, <2>1, SendsLoseNone, OnlyMoves
<1>3. CASE SendErr(w, "done")
  <2>1. /\ ~Gone(w) /\ \E p \in Channels : Send(p, Err)
        /\ Goto(w, "done") /\ UNCHANGED <<position, work, raised, writerVars, result>>
    BY <1>1, <1>3 DEF SendErr, At, Gone, endVars
  <2> QED
    BY <1>1, <2>1, SendsLoseNone, OnlyMoves, MessageFacts
<1>4. CASE Leaves(w)
  BY <1>1, <1>4, OnlyMoves DEF Leaves, At, Gone, endVars
<1> QED
  BY <1>2, <1>3, <1>4

LEMMA ReaderFrame ==
  ASSUME IInv, ReaderStep
  PROVE  Only(Reader)
<1>0. Reader \in Threads /\ OwnKind(Reader) = {"read"} /\ Reader # Main
  BY ThreadFacts DEF OwnKind
<1>1. CASE Read
  BY <1>0, <1>1, OnlyMoves DEF Read, At, Gone, endVars
<1>2. CASE SendRead
  <2>1. /\ ~Gone(Reader) /\ Send("feed", work[Reader]) /\ work[Reader] \in Message
        /\ (\E p : Goto(Reader, p)) /\ Hold(Reader, Err) /\ UNCHANGED <<raised, writerVars, result>>
        /\ "feed" \in Channels
    BY <1>0, <1>2 DEF SendRead, At, Gone, endVars, IInv, TypeOK, Data, Channels
  <2> QED
    BY <1>0, <2>1, SendsLoseNone, OnlyMoves
<1> QED
  BY <1>1, <1>2, FatalFrame DEF ReaderStep

LEMMA AdapterFrame ==
  ASSUME IInv, AdapterStep
  PROVE  Only(Adapter)
<1>0. Adapter \in Threads /\ Adapter # Main /\ Adapter # Reader /\ Inlet(Adapter) = "raw"
      /\ "raw" \in Channels
  BY ThreadFacts, Wiring DEF Inlet, Stages, Channels
<1>1. CASE Unwrap
  <2>1. /\ ~Gone(Adapter) /\ queue["raw"] # <<>> /\ queue' = [queue EXCEPT !["raw"] = Tail(@)]
        /\ (\E p : Goto(Adapter, p)) /\ (UNCHANGED work \/ \E m : Hold(Adapter, m))
        /\ UNCHANGED <<position, raised, writerVars, result>>
    BY <1>1 DEF Unwrap, At, Gone, endVars
  <2> QED
    BY <1>0, <2>1, TakesFromOne, OnlyMoves
<1> QED
  BY <1>1, FatalFrame, StageFrame DEF AdapterStep, Stages

LEMMA CompressorFrame ==
  ASSUME IInv, NEW c \in Compressors, Compressor(c)
  PROVE  Only(c)
<1>0. /\ c \in Threads /\ c # Main /\ c # Reader /\ c \in Stages
      /\ Inlet(c) = Source(c) /\ Source(c) \in Channels /\ OwnKind(c) = {"compress"}
  BY ThreadFacts, ChannelFacts DEF Inlet, Stages, OwnKind
<1>1. CASE Compress(c)
  <2>1. /\ ~Gone(c) /\ queue[Source(c)] # <<>> /\ queue' = [queue EXCEPT ![Source(c)] = Tail(@)]
        /\ (\E p : Goto(c, p)) /\ (\E m : Hold(c, m)) /\ raised' \subseteq raised \cup {"compress"}
        /\ UNCHANGED <<position, writerVars, result>>
    BY <1>1 DEF Compress, At, Gone, endVars
  <2> QED
    BY <1>0, <2>1, TakesFromOne, OnlyMoves
<1> QED
  BY <1>0, <1>1, StageFrame DEF Compressor

LEMMA CryptorFrame ==
  ASSUME IInv, NEW x \in Cryptors, Cryptor(x)
  PROVE  Only(x)
<1>0. /\ x \in Threads /\ x # Main /\ x # Reader /\ x \in Stages
      /\ Inlet(x) = Source(x) /\ Source(x) \in Channels /\ Target(x) \in Channels
      /\ OwnKind(x) = {"crypto"}
  BY ThreadFacts, ChannelFacts DEF Inlet, Stages, OwnKind, Reporters
<1>1. CASE CheckFlag(x)
  BY <1>0, <1>1, OnlyMoves DEF CheckFlag, At, Gone, endVars
<1>2. CASE TakeSegment(x)
  <2>1. /\ ~Gone(x) /\ queue[Source(x)] # <<>> /\ queue' = [queue EXCEPT ![Source(x)] = Tail(@)]
        /\ (\E p : Goto(x, p)) /\ (\E m : Hold(x, m))
        /\ UNCHANGED <<position, raised, writerVars, result>>
    BY <1>2 DEF TakeSegment, At, Gone, endVars
  <2> QED
    BY <1>0, <2>1, TakesFromOne, OnlyMoves
<1>3. CASE Work(x)
  BY <1>0, <1>3, OnlyMoves DEF Work, At, Gone, endVars
<1>4. CASE SendResult(x) \/ SendInvalid(x)
  <2>1. /\ ~Gone(x) /\ (\E m \in Message : Send(Target(x), m))
        /\ (\E p : Goto(x, p)) /\ (UNCHANGED work \/ \E m : Hold(x, m))
        /\ UNCHANGED <<position, raised, writerVars, result>>
    BY <1>0, <1>4, MessageFacts
    DEF SendResult, SendInvalid, At, Gone, endVars, IInv, TypeOK, Data
  <2> QED
    BY <1>0, <2>1, SendsLoseNone, OnlyMoves
<1>5. CASE Report(x) \/ Flag(x)
  BY <1>0, <1>5, OnlyMoves DEF Report, Flag, Gone, endVars
<1> QED
  BY <1>0, <1>1, <1>2, <1>3, <1>4, <1>5, StageFrame DEF Cryptor

LEMMA MainFrame ==
  ASSUME IInv, MainStep, ~Join
  PROVE  Only(Main)
<1>0. /\ Main \in Threads /\ Main # Reader /\ Inlet(Main) = "out" /\ "out" \in Channels
      /\ OwnKind(Main) = {"write"}
  BY ThreadFacts DEF Inlet, Stages, Channels, OwnKind, Workers
<1>1. CASE Take
  <2>1. /\ ~Gone(Main) /\ queue["out"] # <<>> /\ queue' = [queue EXCEPT !["out"] = Tail(@)]
        /\ (\E p : Goto(Main, p)) /\ UNCHANGED <<position, work, raised, result>>
    BY <1>1 DEF Take, At, Gone, endVars
  <2> QED
    BY <1>0, <2>1, TakesFromOne, OnlyMoves
<1>2. CASE LoopEnds \/ End \/ WriterDone
  BY <1>0, <1>2, OnlyMoves DEF LoopEnds, End, WriterDone, At, Gone, endVars
<1>3. CASE WriterFailed \/ Close
  BY <1>0, <1>3, OnlyMoves DEF WriterFailed, Close, Exit, At, Gone
<1>4. CASE Write
  <2>1. /\ ~Gone(Main) /\ raised' \subseteq raised \cup {"write"}
        /\ UNCHANGED <<position, work, queue, result>>
        /\ UNCHANGED pc \/ Goto(Main, "recv")
    BY <1>4 DEF Write, Gone, endVars
  <2>2. CASE UNCHANGED pc
    BY <1>0, <2>1, <2>2 DEF Only
  <2> QED
    BY <1>0, <2>1, <2>2, OnlyMoves
<1> QED
  BY <1>1, <1>2, <1>3, <1>4, FatalFrame DEF MainStep

\* The monitor thread, the join and stuttering.
Elsewhere ==
  /\ UNCHANGED <<pc, work, queue, position, raised, writerVars, mode, input, closure>>
  /\ UNCHANGED result \/ Join

LEMMA Frames ==
  ASSUME IInv, [Next]_vars
  PROVE  \/ ReaderStep /\ Only(Reader)
         \/ AdapterStep /\ Only(Adapter)
         \/ MainStep /\ ~Join /\ Only(Main)
         \/ \E c \in Compressors : Compressor(c) /\ Only(c)
         \/ \E x \in Cryptors : Cryptor(x) /\ Only(x)
         \/ Elsewhere
<1>1. Monitor => Elsewhere
  BY DEF Monitor, MonitorTakes, MonitorStores, MonitorLeaves, Elsewhere, threadVars, endVars,
         settings
<1>2. Join => Elsewhere
  BY DEF Join, Elsewhere, threadVars, settings
<1>3. UNCHANGED vars => Elsewhere
  BY DEF vars, Elsewhere, threadVars, settings, endVars
<1> QED
  BY <1>1, <1>2, <1>3, ReaderFrame, AdapterFrame, CompressorFrame, CryptorFrame, MainFrame
  DEF Next, Step, Returned

\* While nothing is disturbed the receivers a thread sends to are there.
LEMMA OpenFacts ==
  ASSUME IInv, Drained, Undisturbed
  PROVE  /\ \A w \in Workers : ~Gone(w) => Open(Target(w))
         /\ ~Gone(Reader) => Open("feed")
         /\ ~Gone(Adapter) /\ "compress" \notin raised => Open("clean")
<1>1. ASSUME NEW w \in First, ~Gone(w) PROVE Open("raw")
  <2>1. Live(First)
    BY <1>1 DEF Live, Gone
  <2>2. ~Gone(Adapter)
    BY <2>1, Wiring, ThreadFacts DEF Drained, Closed, Stages
  <2> QED
    BY <2>2 DEF Open, Live, Gone
<1>2. Open("out")
  BY DEF Open
<1>3. ASSUME ~Gone(Reader) PROVE Open("feed")
  <2>1. CASE mode = "encrypt"
    BY <2>1 DEF Open
  <2>2. CASE mode = "decrypt"
    <3>1. PICK w \in First : TRUE
      BY Wiring
    <3>2. w \in Cryptors /\ w \in Stages /\ Source(w) = "feed" /\ w \notin Compressors
      BY <2>2, <3>1, Wiring, ThreadFacts DEF Stages
    <3>3. ~Closed("feed")
      BY <1>3, SendersKeepOpen
    <3>4. ~Gone(w)
      BY <3>2, <3>3 DEF Drained
    <3> QED
      BY <3>1, <3>4 DEF Open, Live, Gone
  <2> QED
    BY <2>1, <2>2 DEF IInv, TypeOK, Data
<1>4. ASSUME ~Gone(Adapter), "compress" \notin raised PROVE Open("clean")
  <2>1. PICK w \in Second : TRUE
    BY Wiring
  <2>2. w \in Stages /\ Source(w) = "clean"
    BY <2>1, Wiring DEF Stages
  <2>3. ~Closed("clean")
    BY <1>4, SendersKeepOpen, Wiring DEF Stages
  <2>4. ~Gone(w)
    BY <1>4, <2>2, <2>3 DEF Drained
  <2> QED
    BY <2>1, <2>4 DEF Open, Live, Gone
<1> QED
  BY <1>1, <1>2, <1>3, <1>4, Wiring


-----------------------------------------------------------------------------
(* The failures.                                                           *)

\* The Err of a compression worker is on its way to who reports it.
ErrPending ==
  \/ \E c \in Compressors : pc[c] = "sendErr"
  \/ mode = "encrypt" /\ (Err \in Content(queue["raw"]) \/ pc[Adapter] = "fatal")
  \/ mode = "decrypt" /\ (Err \in Content(queue["out"]) \/ pc[Main] = "fatal")

CompressDoomed == "compress" \in raised => ErrPending
CryptoDoomed ==
  "crypto" \in raised => \E x \in Cryptors : pc[x] \in {"report", "reportLast", "invalid"}
WriteDoomed ==
  "write" \in raised =>
    \/ pc[Main] = "push" /\ writerPc = "failed"
    \/ pc[Main] = "drain" /\ writerPc = "done" /\ finishOk = "io"
    \/ pc[Main] = "fatal"
ReadDoomed == "read" \in raised /\ mode = "encrypt" => pc[Reader] = "fatal"

\* A failure that nobody has reported yet is about to be.
Doomed == Undisturbed => CompressDoomed /\ CryptoDoomed /\ WriteDoomed /\ ReadDoomed

LEMMA InitDoomed == Init => Doomed
BY DEF Init, Doomed, CompressDoomed, CryptoDoomed, WriteDoomed, ReadDoomed

\* Who reports disturbs, and so has who comes behind a report.
LEMMA Disturbs ==
  ASSUME IInv, Undisturbed, Undisturbed'
  PROVE  /\ \A t \in {Reader, Adapter, Main} :
              /\ \A e \in FaultKinds \cup {"stage", "writer"} : ~Fatal(t, e)
              /\ ~Store(t)
         /\ \A x \in Cryptors : ~Report(x) /\ ~Flag(x) /\ ~SendErr(x, "done")
         /\ ~SendErr(Adapter, "done")
<1>1. /\ \A t \in Threads : pc[t] \notin {"store", "flag", "flagLast", "panicked"}
      /\ \A t \in Reporters : pc[t] # "sendErr"
      /\ monitor = "exited" => \A t \in Reporters : Gone(t)
  BY CalmFacts
<1>2. ASSUME NEW t \in {Reader, Adapter, Main}, NEW e \in FaultKinds \cup {"stage", "writer"},
             Fatal(t, e)
      PROVE  FALSE
  <2>1. monitor # "exited"
    BY <1>1, <1>2, ThreadFacts DEF Fatal, At, Gone
  <2>2. mail' # NoError
    BY <1>2, <2>1 DEF Fatal, Mail
  <2> QED
    BY <2>2 DEF Undisturbed
<1>3. ASSUME NEW t \in {Reader, Adapter, Main}, Store(t) PROVE FALSE
  BY <1>1, <1>3, ThreadFacts DEF Store, At
<1>4. ASSUME NEW x \in Cryptors, Report(x) PROVE FALSE
  <2>1. mail' # NoError
    BY <1>4 DEF Report, Mail, FaultKinds
  <2> QED
    BY <2>1 DEF Undisturbed
<1>5. ASSUME NEW x \in Cryptors, Flag(x) \/ SendErr(x, "done") PROVE FALSE
  BY <1>1, <1>5, ThreadFacts DEF Flag, SendErr, At
<1>6. ~SendErr(Adapter, "done")
  BY <1>1, ThreadFacts DEF SendErr, At
<1> QED
  BY <1>2, <1>3, <1>4, <1>5, <1>6

\* Who else moves leaves a thread, its kind of failure and its channel alone.
LEMMA OthersLeave ==
  ASSUME IInv, [Next]_vars
  PROVE  /\ ReaderStep \/ (pc'[Reader] = pc[Reader] /\ ("read" \in raised' => "read" \in raised))
         /\ AdapterStep \/ (/\ pc'[Adapter] = pc[Adapter]
                            /\ Content(queue["raw"]) \subseteq Content(queue'["raw"]))
         /\ (MainStep /\ ~Join) \/ (/\ pc'[Main] = pc[Main] /\ UNCHANGED writerVars
                                    /\ "write" \in raised' => "write" \in raised
                                    /\ Content(queue["out"]) \subseteq Content(queue'["out"]))
         /\ \A c \in Compressors : Compressor(c) \/ pc'[c] = pc[c]
         /\ \A x \in Cryptors : Cryptor(x) \/ pc'[x] = pc[x]
         /\ \/ \E c \in Compressors : Compressor(c)
            \/ "compress" \in raised' => "compress" \in raised
         /\ \/ \E x \in Cryptors : Cryptor(x)
            \/ "crypto" \in raised' => "crypto" \in raised
<1> USE ThreadFacts
<1>a. /\ OwnKind(Reader) = {"read"} /\ OwnKind(Adapter) = {} /\ OwnKind(Main) = {"write"}
      /\ \A c \in Compressors : OwnKind(c) = {"compress"}
      /\ \A x \in Cryptors : OwnKind(x) = {"crypto"}
  BY DEF OwnKind, Workers
<1>b. /\ "raw" \in Channels /\ "out" \in Channels
      /\ Inlet(Reader) \notin {"raw", "out"} /\ Inlet(Adapter) # "out" /\ Inlet(Main) # "raw"
      /\ \A w \in Workers : Inlet(w) \notin {"raw", "out"}
  BY Wiring DEF Inlet, Stages, Channels
<1>c. \A x \in Cryptors : x \notin Compressors
  OBVIOUS
<1>1. ReaderStep \/ (pc'[Reader] = pc[Reader] /\ ("read" \in raised' => "read" \in raised))
  BY <1>a, Frames DEF Only, Elsewhere
<1>2. AdapterStep \/ (/\ pc'[Adapter] = pc[Adapter]
                      /\ Content(queue["raw"]) \subseteq Content(queue'["raw"]))
  BY <1>b, Frames DEF Only, Elsewhere
<1>3. (MainStep /\ ~Join) \/ (/\ pc'[Main] = pc[Main] /\ UNCHANGED writerVars
                              /\ "write" \in raised' => "write" \in raised
                              /\ Content(queue["out"]) \subseteq Content(queue'["out"]))
  BY <1>a, <1>b, Frames DEF Only, Elsewhere
<1>4. \A c \in Compressors : Compressor(c) \/ pc'[c] = pc[c]
  BY <1>c, Frames DEF Only, Elsewhere
<1>5. \A x \in Cryptors : Cryptor(x) \/ pc'[x] = pc[x]
  BY <1>c, Frames DEF Only, Elsewhere
<1>6. (\E c \in Compressors : Compressor(c)) \/ ("compress" \in raised' => "compress" \in raised)
  BY <1>a, Frames DEF Only, Elsewhere
<1>7. (\E x \in Cryptors : Cryptor(x)) \/ ("crypto" \in raised' => "crypto" \in raised)
  BY <1>a, Frames DEF Only, Elsewhere
<1> QED
  BY <1>1, <1>2, <1>3, <1>4, <1>5, <1>6, <1>7

LEMMA ReadStaysDoomed ==
  ASSUME IInv, Undisturbed, Undisturbed', ReadDoomed, [Next]_vars
  PROVE  ReadDoomed'
<1>1. UNCHANGED mode
  BY StepsGoOnward DEF Onward
<1>2. CASE ReaderStep
  <2>1. ~Fatal(Reader, "read") /\ ~Store(Reader)
    BY Disturbs DEF FaultKinds
  <2>2. CASE Read
    <3>1. CASE "read" \in raised
      BY <1>1, <2>2, <3>1 DEF Read, At, ReadDoomed
    <3>2. CASE "read" \notin raised
      BY <1>1, <2>2, <3>2, ThreadFacts DEF Read, ReadDoomed, Goto, IInv, TypeOK
    <3> QED
      BY <3>1, <3>2
  <2>3. CASE SendRead
    BY <1>1, <2>3 DEF SendRead, At, ReadDoomed
  <2> QED
    BY <1>2, <2>1, <2>2, <2>3 DEF ReaderStep
<1> QED
  BY <1>1, <1>2, OthersLeave DEF ReadDoomed

LEMMA CryptoStaysDoomed ==
  ASSUME IInv, Undisturbed, Undisturbed', CryptoDoomed, [Next]_vars
  PROVE  CryptoDoomed'
<1> DEFINE Reporting(x) == pc[x] \in {"report", "reportLast", "invalid"}
<1>1. ASSUME NEW x \in Cryptors, Reporting(x) PROVE Reporting(x)'
  <2>1. CASE Cryptor(x)
    <3>1. SendInvalid(x)
      BY <1>1, <2>1, Disturbs
      DEF Cryptor, CheckFlag, TakeSegment, Work, SendResult, SendErr, Leaves, At
    <3> QED
      BY <1>1, <3>1, ThreadFacts DEF SendInvalid, Goto, IInv, TypeOK
  <2> QED
    BY <1>1, <2>1, OthersLeave
<1>2. ASSUME "crypto" \in raised', "crypto" \notin raised
      PROVE  \E x \in Cryptors : Reporting(x)'
  <2>1. PICK x \in Cryptors : Cryptor(x)
    BY <1>2, OthersLeave
  <2>2. Work(x)
    BY <1>2, <2>1
    DEF Cryptor, CheckFlag, TakeSegment, SendResult, SendInvalid, Report, Flag, SendErr, Leaves
  <2> QED
    BY <1>2, <2>2, ThreadFacts DEF Work, Goto, IInv, TypeOK
<1> QED
  BY <1>1, <1>2 DEF CryptoDoomed

LEMMA WriteStaysDoomed ==
  ASSUME IInv, Undisturbed, Undisturbed', WriterOK, WriteDoomed, [Next]_vars
  PROVE  WriteDoomed'
<1>1. CASE MainStep /\ ~Join
  <2>1. ~Fatal(Main, "writer") /\ ~Store(Main)
    BY Disturbs
  <2>2. CASE Take \/ LoopEnds \/ End \/ Close \/ WriterDone
    BY <2>2 DEF Take, LoopEnds, End, Close, WriterDone, At, WriteDoomed
  <2>3. CASE WriterFailed
    <3>1. closure' # "error"
      BY DEF Undisturbed
    <3> QED
      BY <2>3, <3>1, MainMoves DEF WriterFailed, Exit, WriteDoomed
  <2>4. CASE Write
    <3>1. CASE WriteNext \/ PushReturns \/ FinishReturns
      BY <2>4, <3>1 DEF Write, WriteNext, PushReturns, FinishReturns, WriteFails, WriteDoomed,
                        WriterOK, Control, Ordered
    <3>2. CASE WriteFails /\ UNCHANGED pc
      BY <2>4, <3>2 DEF Write, WriteFails, WriteDoomed, WriterOK, Control
    <3> QED
      BY <2>4, <3>1, <3>2 DEF Write
  <2> QED
    BY <1>1, <2>1, <2>2, <2>3, <2>4 DEF MainStep
<1> QED
  BY <1>1, OthersLeave DEF WriteDoomed, writerVars

\* The Err is taken by the one who reports it.
LEMMA ErrStays ==
  ASSUME IInv, Undisturbed, Undisturbed', [Next]_vars
  PROVE  /\ mode = "encrypt" /\ (Err \in Content(queue["raw"]) \/ pc[Adapter] = "fatal")
              => ErrPending'
         /\ mode = "decrypt" /\ (Err \in Content(queue["out"]) \/ pc[Main] = "fatal")
              => ErrPending'
<1>1. UNCHANGED mode /\ ~cancelled /\ "raw" \in Channels /\ "out" \in Channels
  BY StepsGoOnward, CalmFacts DEF Onward, Channels
<1>2. ASSUME AdapterStep, mode = "encrypt", Err \in Content(queue["raw"]) \/ pc[Adapter] = "fatal"
      PROVE  ErrPending'
  <2>1. ~Fatal(Adapter, "stage") /\ ~Store(Adapter) /\ ~SendErr(Adapter, "done")
    BY Disturbs
  <2>2. CASE Unwrap
    <3>1. Err \in Content(queue["raw"])
      BY <1>2, <2>2 DEF Unwrap, At
    <3>2. Content(queue["raw"]) = Content(queue'["raw"]) \cup {Head(queue["raw"])}
      BY <1>1, <2>2, TakeEffect DEF Unwrap, IInv, TypeOK
    <3>3. CASE Head(queue["raw"]) = Err
      <4>1. Goto(Adapter, "fatal")
        BY <1>1, <2>2, <3>3, MessageFacts DEF Unwrap
      <4> QED
        BY <1>1, <1>2, <4>1, ThreadFacts DEF Goto, IInv, TypeOK, ErrPending
    <3> QED
      BY <1>1, <1>2, <3>1, <3>2, <3>3 DEF ErrPending
  <2>3. CASE Leaves(Adapter)
    BY <1>1, <1>2, <2>3, Wiring, EmptyContent DEF Leaves, At
  <2>4. CASE SendOn(Adapter)
    <3>1. Err \in Content(queue["raw"])
      BY <1>2, <2>4 DEF SendOn, At
    <3>2. Send(Target(Adapter), work[Adapter]) /\ work[Adapter] \in Message
      BY <2>4, ThreadFacts DEF SendOn, IInv, TypeOK, Data
    <3>3. Content(queue["raw"]) \subseteq Content(queue'["raw"])
      BY <1>1, <3>2, SendsLoseNone, ChannelFacts
    <3> QED
      BY <1>1, <1>2, <3>1, <3>3 DEF ErrPending
  <2> QED
    BY <1>2, <2>1, <2>2, <2>3, <2>4 DEF AdapterStep
<1>3. ASSUME MainStep, ~Join, mode = "decrypt", Err \in Content(queue["out"]) \/ pc[Main] = "fatal"
      PROVE  ErrPending'
  <2>1. ~Fatal(Main, "writer") /\ ~Store(Main)
    BY Disturbs
  <2>2. CASE Take
    <3>1. Err \in Content(queue["out"])
      BY <1>3, <2>2 DEF Take, At
    <3>2. Content(queue["out"]) = Content(queue'["out"]) \cup {Head(queue["out"])}
      BY <1>1, <2>2, TakeEffect DEF Take, IInv, TypeOK
    <3>3. CASE Head(queue["out"]) = Err
      <4>1. Goto(Main, "fatal")
        BY <1>1, <2>2, <3>3, MessageFacts DEF Take
      <4> QED
        BY <1>1, <1>3, <4>1, MainMoves DEF ErrPending
    <3> QED
      BY <1>1, <1>3, <3>1, <3>2, <3>3 DEF ErrPending
  <2>3. CASE LoopEnds
    BY <1>3, <2>3, EmptyContent DEF LoopEnds, At
  <2>4. CASE End \/ WriterDone \/ Close \/ WriterFailed \/ Write
    <3>1. pc[Main] # "fatal" /\ UNCHANGED queue
      BY <2>4 DEF End, WriterDone, Close, WriterFailed, Write, At
    <3> QED
      BY <1>1, <1>3, <3>1 DEF ErrPending
  <2> QED
    BY <1>3, <2>1, <2>2, <2>3, <2>4 DEF MainStep
<1> QED
  BY <1>1, <1>2, <1>3, OthersLeave DEF ErrPending

LEMMA CompressStaysDoomed ==
  ASSUME IInv, Undisturbed, Undisturbed', Drained, CompressDoomed, [Next]_vars
  PROVE  CompressDoomed'
<1>1. UNCHANGED mode
  BY StepsGoOnward DEF Onward
<1>2. ASSUME NEW c \in Compressors, pc[c] = "sendErr" PROVE ErrPending'
  <2>1. CASE Compressor(c)
    <3>1. SendErr(c, "done")
      BY <1>2, <2>1 DEF Compressor, Compress, SendOn, Leaves, At
    <3>2. Send(Target(c), Err) /\ Target(c) \in Channels /\ c \in Workers
      BY <3>1, ChannelFacts, ThreadFacts DEF SendErr
    <3>3. Open(Target(c))
      <4>1. \A w \in Workers : ~Gone(w) => Open(Target(w))
        BY OpenFacts
      <4>2. ~Gone(c)
        BY <1>2 DEF Gone
      <4> QED
        BY <3>2, <4>1, <4>2
    <3>4. Err \in Content(queue'[Target(c)])
      <4>1. Data /\ Err \in Message
        BY MessageFacts DEF IInv, TypeOK
      <4>2. Content(queue'[Target(c)]) = Content(queue[Target(c)])
                                         \cup (IF Open(Target(c)) THEN {Err} ELSE {})
        BY <3>2, <4>1, SendEffect
      <4> QED
        BY <3>3, <4>2
    <3>5. \/ mode = "encrypt" /\ Target(c) = "raw"
          \/ mode = "decrypt" /\ Target(c) = "out"
      <4>1. mode = "encrypt" => c \in First
        BY Wiring
      <4>2. mode = "decrypt" => c \in Second
        BY Wiring
      <4>3. mode \in {"encrypt", "decrypt"}
        BY DEF IInv, TypeOK, Data
      <4> QED
        BY <3>2, <4>1, <4>2, <4>3, Wiring
    <3> QED
      BY <1>1, <3>4, <3>5 DEF ErrPending
  <2> QED
    BY <1>2, <2>1, OthersLeave DEF ErrPending
<1>3. ASSUME "compress" \in raised', "compress" \notin raised PROVE ErrPending'
  <2>1. PICK c \in Compressors : Compressor(c)
    BY <1>3, OthersLeave
  <2>2. Compress(c)
    BY <1>3, <2>1 DEF Compressor, SendOn, SendErr, Leaves
  <2>3. Goto(c, "sendErr")
    BY <1>3, <2>2 DEF Compress
  <2> QED
    BY <2>3, ThreadFacts DEF Goto, IInv, TypeOK, ErrPending
<1> QED
  BY <1>2, <1>3, ErrStays DEF CompressDoomed, ErrPending

LEMMA NextDoomed ==
  IInv /\ WriterOK /\ Drained /\ Doomed /\ [Next]_vars => Doomed'
<1> SUFFICES ASSUME IInv, WriterOK, Drained, Doomed, [Next]_vars, Undisturbed' PROVE Doomed'
  BY DEF Doomed
<1>1. Undisturbed
  BY StepsGoOnward DEF Onward
<1> QED
  BY <1>1, ReadStaysDoomed, CryptoStaysDoomed, WriteStaysDoomed, CompressStaysDoomed DEF Doomed


-----------------------------------------------------------------------------
(* No segment is lost on the way.                                          *)

Flies(s) ==
  \/ \E p \in Channels : s \in Content(queue[p])
  \/ \E t \in Threads : Holding(t) /\ s = work[t]
Safe(i) == Flies(Segment(i)) \/ i \in DOMAIN pending \/ i < next

\* Nothing failed but a read, which loses nothing that was read before.
Sound == Undisturbed /\ raised \subseteq {"read"}

Accounted ==
  /\ raised \subseteq FaultKinds
  /\ Sound => \A i \in Nat : i < position => Safe(i)

LEMMA InitAccounted == Init => Accounted
<1> SUFFICES ASSUME Init PROVE Accounted
  OBVIOUS
<1>1. position = 0 /\ raised = {}
  BY DEF Init
<1>2. \A i \in Nat : ~(i < 0)
  OBVIOUS
<1> QED
  BY <1>1, <1>2 DEF Accounted

LEMMA KindsStay ==
  ASSUME IInv, raised \subseteq FaultKinds, [Next]_vars
  PROVE  raised' \subseteq FaultKinds
<1>1. \A t : OwnKind(t) \subseteq FaultKinds
  BY DEF OwnKind, FaultKinds
<1> QED
  BY <1>1, Frames DEF Only, Elsewhere

\* A thread passes on what it takes and what it holds.
LEMMA PassesOn ==
  ASSUME IInv, Onward, NEW t \in Threads, t # Main, Only(t),
         \A s \in Real : (\E p \in Channels : p = Inlet(t) /\ s \in Content(queue[p])) =>
           \/ \E p \in Channels : s \in Content(queue'[p])
           \/ Holding(t)' /\ s = work'[t],
         Holding(t) => \/ \E p \in Channels : work[t] \in Content(queue'[p])
                       \/ Holding(t)' /\ work'[t] = work[t]
  PROVE  \A i \in Nat : i < position /\ Safe(i) => Safe(i)'
<1> SUFFICES ASSUME NEW i \in Nat, i < position, Safe(i) PROVE Safe(i)'
  OBVIOUS
<1>1. Segment(i)' = Segment(i) /\ Segment(i) \in Real
  BY RealFacts DEF Onward, Segment
<1>2. CASE i \in DOMAIN pending \/ i < next
  BY <1>2 DEF Only, Safe, writerVars
<1>3. CASE Flies(Segment(i))
  <2>1. \/ \E p \in Channels : Segment(i) \in Content(queue'[p])
        \/ \E u \in Threads : Holding(u)' /\ Segment(i) = work'[u]
    <3>1. CASE \E p \in Channels : Segment(i) \in Content(queue[p])
      BY <1>1, <3>1 DEF Only
    <3>2. CASE \E u \in Threads : Holding(u) /\ Segment(i) = work[u]
      BY <3>2 DEF Only, Holding
    <3> QED
      BY <1>3, <3>1, <3>2 DEF Flies
  <2>2. Flies(Segment(i))'
    BY <1>1, <2>1 DEF Flies
  <2> QED
    BY <2>2 DEF Safe
<1> QED
  BY <1>2, <1>3 DEF Safe

LEMMA AccountedStays ==
  ASSUME IInv, Onward, Accounted, raised' \subseteq FaultKinds,
         Sound' => \A i \in Nat :
                     i < position' => (i < position /\ (Safe(i) => Safe(i)')) \/ Safe(i)'
  PROVE  Accounted'
<1>1. Sound' => Sound
  BY DEF Sound, Onward
<1> QED
  BY <1>1 DEF Accounted

\* What a taking thread leaves in its channel.
LEMMA TakesHead ==
  ASSUME IInv, NEW p \in Channels, queue[p] # <<>>, queue' = [queue EXCEPT ![p] = Tail(@)]
  PROVE  \A s \in Content(queue[p]) : s = Head(queue[p]) \/ s \in Content(queue'[p])
<1>1. Content(queue[p]) = Content(queue'[p]) \cup {Head(queue[p])}
  BY TakeEffect DEF IInv, TypeOK
<1> QED
  BY <1>1

LEMMA Arrives ==
  ASSUME IInv, NEW p \in Channels, NEW m \in Message, Send(p, m), Open(p)
  PROVE  m \in Content(queue'[p])
<1>1. Content(queue'[p]) = Content(queue[p]) \cup (IF Open(p) THEN {m} ELSE {})
  BY SendEffect DEF IInv, TypeOK
<1> QED
  BY <1>1

LEMMA StagePasses ==
  ASSUME IInv, Onward, Drained, Sound, NEW w \in Stages, Only(w),
         SendOn(w) \/ Leaves(w)
  PROVE  \A i \in Nat : i < position /\ Safe(i) => Safe(i)'
<1> USE ThreadFacts
<1>1. w \in Threads /\ w # Main /\ ~Gone(w)
  BY DEF Stages, Only
<1>2. CASE SendOn(w)
  <2>1. /\ Send(Target(w), work[w]) /\ Target(w) \in Channels /\ work[w] \in Message
    BY <1>1, <1>2, ChannelFacts DEF SendOn, Stages, IInv, TypeOK, Data
  <2>2. Open(Target(w))
    BY <1>1, OpenFacts, Wiring DEF Sound, Stages
  <2>3. work[w] \in Content(queue'[Target(w)])
    BY <2>1, <2>2, Arrives
  <2>4. \A p \in Channels : Content(queue[p]) \subseteq Content(queue'[p])
    BY <2>1, SendsLoseNone
  <2> QED
    BY <1>1, <2>1, <2>3, <2>4, PassesOn
<1>3. CASE Leaves(w)
  <2>1. UNCHANGED queue /\ ~Holding(w)
    BY <1>3 DEF Leaves, At, Holding
  <2> QED
    BY <1>1, <2>1, PassesOn
<1> QED
  BY <1>2, <1>3

LEMMA NextAccounted ==
  IInv /\ Genuine /\ Drained /\ WriterOK /\ Accounted /\ [Next]_vars => Accounted'
<1> SUFFICES ASSUME IInv, Genuine, Drained, WriterOK, Accounted, [Next]_vars PROVE Accounted'
  OBVIOUS
<1> USE ThreadFacts
<1>0. Onward /\ raised' \subseteq FaultKinds
  BY StepsGoOnward, KindsStay DEF Accounted
<1> SUFFICES ASSUME Sound'
             PROVE  \A i \in Nat :
                      i < position' => (i < position /\ (Safe(i) => Safe(i)')) \/ Safe(i)'
  BY <1>0, AccountedStays
<1>a. Sound /\ Undisturbed /\ Undisturbed' /\ raised' \subseteq {"read"}
  BY <1>0 DEF Sound, Onward
<1>b. ~cancelled
  BY <1>a, CalmFacts
<1>c. \A s \in Real : s \in Message /\ s # Err /\ s.kind # "error"
  BY RealFacts
<1>d. /\ \A t \in {Reader, Adapter, Main} :
           /\ \A e \in FaultKinds \cup {"stage", "writer"} : ~Fatal(t, e)
           /\ ~Store(t)
      /\ \A x \in Cryptors : ~Report(x) /\ ~Flag(x) /\ ~SendErr(x, "done")
      /\ ~SendErr(Adapter, "done")
  BY <1>a, Disturbs
<1>1. ASSUME ReaderStep, Only(Reader)
      PROVE  \A i \in Nat : i < position' => (i < position /\ (Safe(i) => Safe(i)')) \/ Safe(i)'
  <2>1. Inlet(Reader) \notin Channels
    BY DEF Inlet, Stages, Channels
  <2>2. CASE Read
    <3>1. ~Holding(Reader)
      BY <2>2 DEF Read, At, Holding
    <3>2. \A i \in Nat : i < position /\ Safe(i) => Safe(i)'
      BY <1>0, <1>1, <2>1, <3>1, PassesOn
    <3>3. CASE position' = position + 1 /\ Hold(Reader, Segment(position)) /\ Goto(Reader, "send")
      <4>1. position \in Nat /\ \A i \in Nat : i < position + 1 => i < position \/ i = position
        <5>1. position \in Nat
          BY DEF IInv, TypeOK, Data
        <5> QED
          BY <5>1
      <4>2. Holding(Reader)' /\ work'[Reader] = Segment(position)
        BY <3>3 DEF Hold, Goto, Holding, IInv, TypeOK, Data
      <4>3. ASSUME NEW i \in Nat, i = position PROVE Safe(i)'
        <5>1. Segment(i)' = Segment(position)
          BY <1>0, <4>3 DEF Onward, Segment
        <5> QED
          BY <4>2, <5>1 DEF Safe, Flies
      <4> QED
        BY <3>2, <3>3, <4>1, <4>3
    <3>4. CASE UNCHANGED position
      BY <3>2, <3>4
    <3> QED
      BY <2>2, <3>3, <3>4 DEF Read
  <2>3. CASE SendRead
    <3>1. /\ Send("feed", work[Reader]) /\ "feed" \in Channels /\ work[Reader] \in Message
          /\ UNCHANGED position
      BY <2>3 DEF SendRead, Channels, IInv, TypeOK, Data
    <3>2. Open("feed")
      BY <1>1, <1>a, OpenFacts DEF Only
    <3>3. work[Reader] \in Content(queue'["feed"])
      BY <3>1, <3>2, Arrives
    <3>4. \A i \in Nat : i < position /\ Safe(i) => Safe(i)'
      BY <1>0, <1>1, <2>1, <3>1, <3>3, PassesOn
    <3> QED
      BY <3>1, <3>4
  <2> QED
    BY <1>1, <1>d, <2>2, <2>3 DEF ReaderStep, FaultKinds
<1>2. ASSUME AdapterStep, Only(Adapter)
      PROVE  \A i \in Nat : i < position /\ Safe(i) => Safe(i)'
  <2>1. CASE Unwrap
    <3>1. /\ Inlet(Adapter) = "raw" /\ "raw" \in Channels
          /\ queue["raw"] # <<>> /\ queue' = [queue EXCEPT !["raw"] = Tail(@)]
          /\ ~Holding(Adapter)
      BY <2>1, Wiring DEF Inlet, Stages, Channels, Unwrap, At, Holding
    <3>2. \A s \in Content(queue["raw"]) : s = Head(queue["raw"]) \/ s \in Content(queue'["raw"])
      BY <3>1, TakesHead
    <3>3. Head(queue["raw"]) \in Real => Holding(Adapter)' /\ work'[Adapter] = Head(queue["raw"])
      BY <1>b, <1>c, <2>1 DEF Unwrap, Hold, Goto, Holding, IInv, TypeOK, Data
    <3> QED
      BY <1>0, <1>2, <3>1, <3>2, <3>3, PassesOn
  <2> QED
    BY <1>0, <1>2, <1>a, <1>d, <2>1, StagePasses DEF AdapterStep, Stages
<1>3. ASSUME NEW c \in Compressors, Compressor(c), Only(c)
      PROVE  \A i \in Nat : i < position /\ Safe(i) => Safe(i)'
  <2>0. c \in Threads /\ c # Main /\ c \in Stages /\ Inlet(c) = Source(c) /\ Source(c) \in Channels
    BY ChannelFacts DEF Inlet, Stages
  <2>1. CASE Compress(c)
    <3>1. /\ queue[Source(c)] # <<>> /\ queue' = [queue EXCEPT ![Source(c)] = Tail(@)]
          /\ ~Holding(c) /\ Hold(c, Head(queue[Source(c)])) /\ Goto(c, "send")
      BY <1>a, <2>1 DEF Compress, At, Holding
    <3>2. \A s \in Content(queue[Source(c)]) :
            s = Head(queue[Source(c)]) \/ s \in Content(queue'[Source(c)])
      BY <2>0, <3>1, TakesHead
    <3>3. Holding(c)' /\ work'[c] = Head(queue[Source(c)])
      BY <2>0, <3>1 DEF Hold, Goto, Holding, IInv, TypeOK, Data
    <3> QED
      BY <1>0, <1>3, <2>0, <3>1, <3>2, <3>3, PassesOn
  <2>2. CASE SendErr(c, "done")
    <3>1. "compress" \in raised
      BY <1>a, <2>2 DEF SendErr, At, Drained
    <3> QED
      BY <1>a, <3>1 DEF Sound
  <2> QED
    BY <1>0, <1>3, <1>a, <2>0, <2>1, <2>2, StagePasses DEF Compressor
<1>4. ASSUME NEW x \in Cryptors, Cryptor(x), Only(x)
      PROVE  \A i \in Nat : i < position /\ Safe(i) => Safe(i)'
  <2>0. /\ x \in Threads /\ x # Main /\ x \in Stages /\ Inlet(x) = Source(x)
        /\ Source(x) \in Channels /\ Target(x) \in Channels
    BY ChannelFacts DEF Inlet, Stages
  <2>1. CASE CheckFlag(x)
    <3>1. ~Holding(x) /\ UNCHANGED queue
      BY <2>1 DEF CheckFlag, At, Holding
    <3> QED
      BY <1>0, <1>4, <2>0, <3>1, PassesOn
  <2>2. CASE TakeSegment(x)
    <3>1. /\ queue[Source(x)] # <<>> /\ queue' = [queue EXCEPT ![Source(x)] = Tail(@)]
          /\ ~Holding(x) /\ Hold(x, Head(queue[Source(x)])) /\ Goto(x, "work")
      BY <2>2 DEF TakeSegment, At, Holding
    <3>2. \A s \in Content(queue[Source(x)]) :
            s = Head(queue[Source(x)]) \/ s \in Content(queue'[Source(x)])
      BY <2>0, <3>1, TakesHead
    <3>3. Holding(x)' /\ work'[x] = Head(queue[Source(x)])
      BY <2>0, <3>1 DEF Hold, Goto, Holding, IInv, TypeOK, Data
    <3> QED
      BY <1>0, <1>4, <2>0, <3>1, <3>2, <3>3, PassesOn
  <2>3. CASE Work(x)
    <3>1. UNCHANGED <<work, queue>> /\ Goto(x, "send")
      BY <1>a, <1>b, <2>3 DEF Work
    <3>2. Holding(x)'
      BY <2>0, <3>1 DEF Goto, Holding, IInv, TypeOK
    <3> QED
      BY <1>0, <1>4, <2>0, <3>1, <3>2, PassesOn
  <2>4. CASE SendResult(x)
    <3>1. Send(Target(x), work[x]) /\ work[x] \in Message
      BY <2>0, <2>4 DEF SendResult, IInv, TypeOK, Data
    <3>2. Open(Target(x))
      BY <1>4, <1>a, OpenFacts DEF Only
    <3>3. work[x] \in Content(queue'[Target(x)])
      BY <2>0, <3>1, <3>2, Arrives
    <3>4. \A p \in Channels : Content(queue[p]) \subseteq Content(queue'[p])
      BY <2>0, <3>1, SendsLoseNone
    <3> QED
      BY <1>0, <1>4, <2>0, <3>3, <3>4, PassesOn
  <2>5. CASE SendInvalid(x)
    <3>1. ~Holding(x) /\ Send(Target(x), Err)
      BY <2>5 DEF SendInvalid, At, Holding
    <3>2. \A p \in Channels : Content(queue[p]) \subseteq Content(queue'[p])
      BY <2>0, <3>1, SendsLoseNone, MessageFacts
    <3> QED
      BY <1>0, <1>4, <2>0, <3>1, <3>2, PassesOn
  <2> QED
    BY <1>0, <1>4, <1>a, <1>d, <2>0, <2>1, <2>2, <2>3, <2>4, <2>5, StagePasses DEF Cryptor
<1>5. ASSUME MainStep, ~Join, Only(Main)
      PROVE  \A i \in Nat : i < position /\ Safe(i) => Safe(i)'
  <2>0. \A i : Segment(i)' = Segment(i)
    BY <1>0 DEF Onward, Segment
  <2>1. \A u \in Threads : Holding(u) => Holding(u)' /\ work'[u] = work[u]
    <3>1. ~Holding(Main)
      BY DEF IInv, TypeOK, PlacesOf, MainPlaces, Holding
    <3> QED
      BY <1>5, <3>1 DEF Only, Holding
  <2>2. CASE Take
    <3>1. /\ "out" \in Channels /\ queue["out"] # <<>> /\ queue' = [queue EXCEPT !["out"] = Tail(@)]
      BY <2>2 DEF Take, Channels
    <3>2. \A s \in Content(queue["out"]) : s = Head(queue["out"]) \/ s \in Content(queue'["out"])
      BY <3>1, TakesHead
    <3>3. \A p \in Channels : p # "out" => Content(queue[p]) \subseteq Content(queue'[p])
      BY <3>1, TakesFromOne
    <3> DEFINE h == Head(queue["out"])
    <3>4. h \in Real => Push(h)
      BY <1>b, <1>c, <2>2 DEF Take
    <3>5. DOMAIN pending \subseteq DOMAIN pending' /\ next' = next
      BY <2>2 DEF Take, Push, Insert, writerVars
    <3>6. h \in Real => h.index \in DOMAIN pending'
      BY <3>4 DEF Push, Insert
    <3> HIDE DEF h
    <3> SUFFICES ASSUME NEW i \in Nat, i < position, Safe(i) PROVE Safe(i)'
      OBVIOUS
    <3>7. Segment(i) \in Real /\ Segment(i).index = i
      BY RealFacts, MessageFacts
    <3>8. CASE Segment(i) = h
      BY <3>6, <3>7, <3>8 DEF Safe
    <3>9. CASE Segment(i) # h
      <4>1. (\E p \in Channels : Segment(i) \in Content(queue[p]))
              => \E p \in Channels : Segment(i) \in Content(queue'[p])
        BY <3>1, <3>2, <3>3, <3>9 DEF h
      <4>2. Flies(Segment(i)) => Flies(Segment(i))'
        BY <2>0, <2>1, <4>1 DEF Flies
      <4> QED
        BY <3>5, <4>2 DEF Safe
    <3> QED
      BY <3>8, <3>9
  <2>a. ASSUME UNCHANGED queue,
               \A i \in Nat : i \in DOMAIN pending \/ i < next => i \in DOMAIN pending' \/ i < next'
        PROVE  \A i \in Nat : i < position /\ Safe(i) => Safe(i)'
    <3>1. \A i \in Nat : Flies(Segment(i)) => Flies(Segment(i))'
      BY <2>0, <2>1, <2>a DEF Flies
    <3> QED
      BY <2>a, <3>1 DEF Safe
  <2>3. CASE LoopEnds \/ End \/ WriterFailed \/ WriterDone \/ Close
    <3>1. UNCHANGED <<queue, pending, next>>
      BY <2>3 DEF LoopEnds, End, WriterFailed, WriterDone, Close, Finish, writerVars
    <3> QED
      BY <2>a, <3>1
  <2>4. CASE Write
    <3>1. CASE WriteNext
      <4>1. DOMAIN pending' = DOMAIN pending \ {next} /\ next' = next + 1 /\ next \in Nat
        BY <3>1 DEF WriteNext, Remove, WriterOK, Ordered
      <4>2. \A i \in Nat : i < next => i < next + 1
        BY <4>1
      <4>3. next < next + 1
        BY <4>1
      <4> QED
        BY <2>4, <2>a, <4>1, <4>2, <4>3 DEF Write
    <3>2. CASE PushReturns \/ FinishReturns
      BY <2>4, <2>a, <3>2 DEF PushReturns, FinishReturns, Write
    <3>3. CASE raised' = raised \cup {"write"}
      BY <1>a, <3>3
    <3> QED
      BY <2>4, <3>1, <3>2, <3>3 DEF Write
  <2> QED
    BY <1>5, <1>d, <2>2, <2>3, <2>4 DEF MainStep
<1>6. CASE Elsewhere
  <2>1. UNCHANGED <<pc, work, queue, position, input, pending, next>>
    BY <1>6 DEF Elsewhere, writerVars
  <2>2. \A i : Segment(i)' = Segment(i)
    BY <2>1 DEF Segment
  <2>3. \A i \in Nat : Safe(i) => Safe(i)'
    BY <2>1, <2>2 DEF Safe, Flies, Holding
  <2> QED
    BY <2>1, <2>3
<1>7. Reader \notin Stages /\ \A t : t # Reader /\ Only(t) => position' = position
  BY DEF Only, Stages
<1> QED
  BY <1>1, <1>2, <1>3, <1>4, <1>5, <1>6, <1>7, Frames


-----------------------------------------------------------------------------
(* The end.                                                                *)

\* What the call promises with its Ok, and what else holds then.
Concluded == OkMeansComplete /\ NothingSwallowed

LEMMA InitConcluded == Init => Concluded
BY DEF Init, Concluded, OkMeansComplete, NothingSwallowed

\* All threads are gone and nothing was reported: everything is out.
LEMMA AllIsOut ==
  ASSUME IInv, WriterOK, Drained, Doomed, Accounted,
         Undisturbed, \A t \in Threads : pc[t] = "done"
  PROVE  /\ raised \subseteq {"read"} /\ (mode = "encrypt" => raised = {})
         /\ position = input + 1
         /\ written = [i \in 1..(input + 1) |-> Segment(i - 1)]
<1> USE ThreadFacts
<1>1. mode \in {"encrypt", "decrypt"} /\ input \in Nat /\ position \in 0..(input + 1)
  BY DEF IInv, TypeOK, Data
<1>2. pc[Main] = "done" /\ pc[Adapter] = "done" /\ pc[Reader] = "done"
      /\ \A w \in Workers : pc[w] = "done"
  OBVIOUS
<1>3. finishOk = "ok"
  BY <1>2, CalmFacts DEF WriterOK, Control, Undisturbed
<1>4. Content(queue["raw"]) = {} /\ Content(queue["out"]) = {}
  <2>1. queue["out"] = <<>>
    BY <1>2 DEF Drained, AfterLoop
  <2>2. queue["raw"] = <<>>
    BY <1>2, Wiring DEF Drained, Stages, Gone
  <2> QED
    BY <2>1, <2>2, EmptyContent
<1>5. "compress" \notin raised /\ "crypto" \notin raised /\ "write" \notin raised
      /\ (mode = "encrypt" => "read" \notin raised)
  BY <1>2, <1>4 DEF Doomed, CompressDoomed, CryptoDoomed, WriteDoomed, ReadDoomed, ErrPending
<1>6. raised \subseteq {"read"} /\ (mode = "encrypt" => raised = {})
  BY <1>5 DEF Accounted, FaultKinds
<1>7. Content(queue["feed"]) = {} /\ Content(queue["clean"]) = {}
  <2>1. \A w \in Stages : queue[Source(w)] = <<>>
    BY <1>2, <1>5 DEF Drained, Stages, Gone
  <2>2. PICK v \in First, w \in Second : TRUE
    BY Wiring
  <2>3. Source(v) = "feed" /\ Source(w) = "clean" /\ v \in Stages /\ w \in Stages
    BY <2>2, Wiring DEF Stages
  <2> QED
    BY <2>1, <2>3, EmptyContent
<1>8. \A s : ~Flies(s)
  BY <1>1, <1>2, <1>4, <1>7 DEF Flies, Channels, Holding
<1>9. \A i \in Nat : i < position => i \in DOMAIN pending \/ i < next
  BY <1>6, <1>8 DEF Accounted, Sound, Safe
<1>10. next \in Nat /\ next <= position /\ next \notin DOMAIN pending /\ position > input
  BY <1>3 DEF WriterOK, Ordered
<1>11. position = input + 1 /\ next = input + 1
  <2>1. ~(next < position)
    BY <1>9, <1>10
  <2> QED
    BY <1>1, <1>10, <2>1
<1>12. written = [i \in 1..(input + 1) |-> Segment(i - 1)]
  BY <1>1, <1>11 DEF WriterOK, Ordered
<1> QED
  BY <1>6, <1>11, <1>12

LEMMA NextConcluded ==
  IInv /\ IInv' /\ WriterOK /\ Drained /\ Doomed /\ Accounted /\ Concluded /\ [Next]_vars
    => Concluded'
<1> SUFFICES ASSUME IInv, IInv', WriterOK, Drained, Doomed, Accounted, Concluded, [Next]_vars
             PROVE  Concluded'
  OBVIOUS
<1>1. CASE Join
  <2>1. UNCHANGED <<mode, input, position, raised, written, pc>>
    BY <1>1 DEF Join, settings, threadVars, writerVars
  <2>2. SUFFICES ASSUME result' = "ok" PROVE Concluded'
    BY DEF Concluded, OkMeansComplete, NothingSwallowed
  <2>3. /\ ~Live(Threads) /\ monitor = "exited" /\ fatal = NoError /\ closure # "error"
        /\ \A t \in Threads : pc[t] # "panicked"
    BY <1>1, <2>2 DEF Join, At
  <2>4. (\A t \in Threads : pc[t] = "done") /\ Undisturbed
    BY <2>3 DEF Live, IInv, Recorded, Undisturbed
  <2>5. /\ raised \subseteq {"read"} /\ (mode = "encrypt" => raised = {})
        /\ position = input + 1
        /\ written = [i \in 1..(input + 1) |-> Segment(i - 1)]
    BY <2>4, AllIsOut
  <2>6. mode \in {"encrypt", "decrypt"}
    BY DEF IInv, TypeOK, Data
  <2>7. \A i : Segment(i)' = Segment(i)
    BY <2>1 DEF Segment
  <2> QED
    BY <2>1, <2>5, <2>6, <2>7 DEF Concluded, OkMeansComplete, NothingSwallowed
<1>2. CASE ~Join
  <2>1. CASE UNCHANGED <<result, mode, input, position, raised, written>>
    <3>1. \A i : Segment(i)' = Segment(i)
      BY <2>1 DEF Segment
    <3> QED
      BY <2>1, <3>1 DEF Concluded, OkMeansComplete, NothingSwallowed
  <2>2. CASE \E t \in Threads : Only(t)
    <3>1. result = "pending" /\ result' = "pending"
      BY <2>2 DEF Only, IInv, Ended, Live, Gone
    <3> QED
      BY <3>1 DEF Concluded, OkMeansComplete, NothingSwallowed
  <2> QED
    BY <1>2, <2>1, <2>2, Frames, ThreadFacts DEF Elsewhere, writerVars
<1> QED
  BY <1>1, <1>2

\* The inductive invariant of the whole call.
Whole == IInv /\ Genuine /\ WriterOK /\ Drained /\ Doomed /\ Accounted /\ Concluded

LEMMA SpecWhole == Spec => []Whole
<1>1. Init => Whole
  BY InitIInv, InitGenuine, InitWriterOK, InitDrained, InitDoomed, InitAccounted, InitConcluded
  DEF Whole
<1>2. Whole /\ [Next]_vars => Whole'
  BY NextIInv, NextGenuine, NextWriterOK, NextDrained, NextDoomed, NextAccounted, NextConcluded
  DEF Whole
<1> QED
  BY <1>1, <1>2, PTL DEF Spec

\* Whatever the workers, the input, the capacity of the channels and the
\* failures, Ok means that the whole input is out in order, closed by its
\* FINAL marker (pipeline.rs:338-344, 636-638, io.rs:290-303).
THEOREM OkIsComplete == Spec => []OkMeansComplete
<1>1. Whole => OkMeansComplete
  BY DEF Whole, Concluded
<1> QED
  BY <1>1, SpecWhole, PTL

\* Whichever threads fail, and however many, a call that returns Ok had no
\* failure but a read of a decryption behind the FINAL marker
\* (pipeline.rs:493-521).
THEOREM NoFailureIsSwallowed == Spec => []NothingSwallowed
<1>1. Whole => NothingSwallowed
  BY DEF Whole, Concluded
<1> QED
  BY <1>1, SpecWhole, PTL


\* However many threads fail and in whatever order, the call panics only
\* when another error was recorded (types.rs:56-71, 88-104).
THEOREM PanicsAreSecondErrors == Spec => []PanicIsSecondError
<1>1. IInv => PanicIsSecondError
  BY DEF IInv, Recorded, PanicIsSecondError
<1> QED
  BY <1>1, InitIInv, NextIInv, PTL DEF Spec
=============================================================================
