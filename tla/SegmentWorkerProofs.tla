-------------------------- MODULE SegmentWorkerProofs --------------------------
(***************************************************************************)
(* Proofs, for any number of frame workers, frames and segments, any       *)
(* capacities of the channels and any set of wires made of encrypted       *)
(* frames, of what the segment workers of both generations hand on and why *)
(* they give up.                                                           *)
(*                                                                         *)
(* Both keep their frames in the same variables, so that one invariant,    *)
(* Pool, serves both: the proofs of SegmentWorkerV2 instantiate this       *)
(* module on the v2 variables and cite its lemmas.                         *)
(*                                                                         *)
(* Pool counts.  The frames collected and those on their way are never     *)
(* more than were sent; as long as they are as many and none failed, and   *)
(* the wire has the segment's own data frames, every frame that was sent   *)
(* is on its way or where it was put.  A worker that has collected as many *)
(* as it sent therefore leaves nothing behind for the next segment, and    *)
(* has every data frame of this one in its place.                          *)
(***************************************************************************)
EXTENDS SegmentWorker, FiniteSetTheorems, SequenceTheorems, TLAPS

\* What a v2 frame worker sends for a frame that failed.
Bad == [segment |-> 0, number |-> 0, type |-> "error"]

FrameType == {"data", "digest", "terminator", "none", "torn", "error"}
FrameRecord == [segment : Nat, number : Nat, type : FrameType]
Stations == {"unspawned", "select", "seal", "report", "flag", "done"}

\* The places of a worker between two segments, and with one in work; "emit"
\* is where v3 and "finish" where v2 puts a segment together.
Marking == {"validateFinal", "final"}
Resting == {"spawn", "check", "recv"} \cup Marking
Active == {"send", "collect", "wait", "emit", "finish"}

WiresOf(s) == {Whole(s)} \cup Wires
Content(channel) == {channel[k] : k \in DOMAIN channel}

Types ==
  /\ mode \in {"encrypt", "decrypt"}
  /\ segment \in Nat /\ sent \in Nat /\ received \in Nat
  /\ wire \in Seq(FrameRecord) /\ closing \in Seq(FrameRecord)
  /\ frames \in Seq(FrameRecord) /\ sealed \in Seq(FrameRecord)
  /\ fw \in [FrameWorkers -> Stations] /\ job \in [FrameWorkers -> FrameRecord]

\* The frames on their way, and those that are back.
Sealing == {f \in FrameWorkers : fw[f] = "seal"}
Flights == Len(frames) + Len(sealed) + Cardinality(Sealing)
Collected == IF mode = "encrypt" THEN received + Len(closing) ELSE received

SentFrames == {wire[k] : k \in 1..sent}
Flying(x) == x \in Content(frames) \/ x \in Content(sealed) \/ \E f \in Sealing : job[f] = x
Kept(x) ==
  IF x.type = "data" THEN x.number \in DOMAIN slots /\ slots[x.number] = x
                     ELSE x \in Content(closing)

\* How far an encryption is: the data, the digest, the terminator.
EncryptPhase ==
  /\ wire = Whole(segment)
  /\ pc = "send" => \/ sent < Frames /\ received = 0 /\ Len(closing) = 0
                    \/ sent = Frames /\ received = Frames /\ Len(closing) = 0
                    \/ sent = Frames + 1 /\ received = Frames /\ Len(closing) = 1
  /\ pc = "collect" => sent = Frames /\ received < Frames /\ Len(closing) = 0
  /\ pc = "wait" => \/ sent = Frames + 1 /\ received = Frames /\ Len(closing) = 0
                    \/ sent = Frames + 2 /\ received = Frames /\ Len(closing) = 1
  /\ pc \in {"emit", "finish"} => sent = Frames + 2 /\ received = Frames /\ Len(closing) = 2
  /\ pc # "validate"
  /\ Len(closing) > 0 => closing[1] \in {wire[k] : k \in 1..(Frames + 1)}

\* A decryption sends all frames of the wire, then collects as many.
DecryptPhase ==
  /\ pc = "validate" => sent = 0 /\ received = 0 /\ closing = <<>>
  /\ pc = "send" => received = 0
  /\ pc = "collect" => sent = Len(wire) /\ received < Len(wire)
  /\ pc # "wait"
  /\ pc \in {"emit", "finish"} => sent = Len(wire) /\ received = Len(wire)

Phase ==
  /\ segment < Segments
  /\ wire \in WiresOf(segment) /\ sent <= Len(wire) /\ (pc = "send" => sent < Len(wire))
  /\ DOMAIN slots = 0..((IF mode = "encrypt" THEN Frames ELSE DataCount(wire)) - 1)
  /\ IF mode = "encrypt" THEN EncryptPhase ELSE DecryptPhase

\* Nobody lost a frame of a wire that has the data of its segment.
NoneLost ==
  DataOf(wire) = DataOf(Whole(segment)) /\ Collected + Flights = sent /\ ~Flying(Bad)

Ledger ==
  /\ Collected + Flights <= sent
  /\ \A x : Flying(x) => x = Bad \/ x \in SentFrames
  /\ Content(closing) \subseteq SentFrames
  /\ NoneLost => \A x \in SentFrames : Flying(x) \/ Kept(x)

Pool ==
  /\ Types
  /\ pc \in Resting => Flights = 0
  /\ pc \in Active \cup {"validate"} => Phase /\ Ledger

USE PoolAssumption, SizeAssumption, FramesAssumption
    DEF PoolAssumption, SizeAssumption, FramesAssumption

-----------------------------------------------------------------------------
(* Frames and wires.                                                       *)

LEMMA FrameFacts ==
  ASSUME NEW s \in Nat, NEW n \in Nat
  PROVE  /\ Frame(s, n) \in FrameRecord /\ Frame(s, n).number = n
         /\ Frame(s, n) # Bad /\ Frame(s, n) # Torn
         /\ Frame(s, n).type \in {"data", "digest", "terminator"}
         /\ Frame(s, n).type = "data" <=> n < Frames
         /\ Frame(s, n).type = "digest" <=> n = Frames
         /\ Frame(s, n).type = "terminator" <=> n > Frames
BY DEF Frame, FrameRecord, FrameType, Bad, Torn

LEMMA WholeFacts ==
  ASSUME NEW s \in Nat
  PROVE  /\ Whole(s) \in Seq(FrameRecord) /\ Len(Whole(s)) = Frames + 2
         /\ DOMAIN Whole(s) = 1..(Frames + 2)
         /\ \A n \in 1..(Frames + 2) : Whole(s)[n] = Frame(s, n - 1)
         /\ DataCount(Whole(s)) = Frames
<1>1. \A n \in 1..(Frames + 2) : n - 1 \in Nat /\ Frame(s, n - 1) \in FrameRecord
  BY FrameFacts
<1> QED
  BY <1>1 DEF Whole, DataCount

\* When the data frames come first, they are the beginning of the wire.
LEMMA DataComesFirst ==
  ASSUME NEW w \in Seq(FrameRecord), NEW m \in Nat, m <= Len(w),
         \A i \in 1..Len(w) : w[i].type = "data" <=> i <= m
  PROVE  DataOf(w) = [n \in 1..m |-> w[n]] /\ Len(DataOf(w)) = m
<1> DEFINE At == {i \in DOMAIN w : w[i].type = "data"}
           Nth(n) == CHOOSE i \in At : Cardinality({j \in At : j <= i}) = n
<1>1. At = 1..m
  <2>1. DOMAIN w = 1..Len(w) /\ Len(w) \in Nat
    OBVIOUS
  <2> QED
    BY <2>1
<1>a. \A i \in Nat : Cardinality(1..i) = i
  BY FS_Interval
<1>2. \A i \in 1..m : Cardinality({j \in At : j <= i}) = i
  <2> SUFFICES ASSUME NEW i \in 1..m PROVE Cardinality({j \in At : j <= i}) = i
    OBVIOUS
  <2>1. {j \in At : j <= i} = 1..i
    BY <1>1
  <2>2. i \in Nat
    OBVIOUS
  <2> QED
    BY <1>a, <2>1, <2>2
<1>3. \A n \in 1..m : Nth(n) = n
  BY <1>1, <1>2
<1>4. Cardinality(At) = m
  BY <1>1, <1>a
<1>5. DataOf(w) = [n \in 1..Cardinality(At) |-> w[Nth(n)]]
  BY DEF DataOf
<1>6. DataOf(w) = [n \in 1..m |-> w[n]]
  BY <1>3, <1>4, <1>5
<1> QED
  BY <1>6

LEMMA DataOfWhole ==
  ASSUME NEW s \in Nat
  PROVE  DataOf(Whole(s)) = [n \in 1..Frames |-> Frame(s, n - 1)]
<1> DEFINE w == Whole(s)
<1>1. /\ w \in Seq(FrameRecord) /\ Len(w) = Frames + 2 /\ Frames \in Nat /\ Frames <= Len(w)
      /\ \A n \in 1..Len(w) : w[n] = Frame(s, n - 1)
  BY WholeFacts
<1>2. \A n \in 1..Len(w) : w[n].type = "data" <=> n <= Frames
  <2> SUFFICES ASSUME NEW n \in 1..Len(w) PROVE w[n].type = "data" <=> n <= Frames
    OBVIOUS
  <2>1. n - 1 \in Nat /\ w[n] = Frame(s, n - 1) /\ (n - 1 < Frames <=> n <= Frames)
    BY <1>1
  <2> HIDE DEF w
  <2> QED
    BY <2>1, FrameFacts
<1> HIDE DEF w
<1>3. DataOf(w) = [n \in 1..Frames |-> w[n]]
  BY <1>1, <1>2, DataComesFirst
<1>4. \A n \in 1..Frames : w[n] = Frame(s, n - 1)
  BY <1>1
<1> QED
  BY <1>3, <1>4 DEF w

\* The data of a wire are its data frames.
LEMMA DataOfContent ==
  ASSUME NEW w \in Seq(FrameRecord)
  PROVE  Content(DataOf(w)) = {x \in Content(w) : x.type = "data"}
<1> DEFINE At == {i \in DOMAIN w : w[i].type = "data"}
           Upto(i) == {j \in At : j <= i}
           rank == [i \in At |-> Cardinality(Upto(i))]
           m == Cardinality(At)
           Nth(n) == CHOOSE i \in At : Cardinality(Upto(i)) = n
<1>1. DOMAIN w = 1..Len(w) /\ Len(w) \in Nat
  OBVIOUS
<1>2. At \in SUBSET (1..Len(w)) /\ IsFiniteSet(At) /\ m \in Nat
  <2>1. IsFiniteSet(1..Len(w)) /\ At \in SUBSET (1..Len(w))
    BY <1>1, FS_Interval
  <2> HIDE DEF At
  <2> QED
    BY <2>1, FS_Subset, FS_CardinalityType
<1>3. DataOf(w) = [n \in 1..m |-> w[Nth(n)]]
  BY DEF DataOf
<1>4. \A i \in At : w[i] \in Content(w) /\ w[i].type = "data" /\ i \in Nat
  BY <1>1 DEF Content
<1>5. \A x \in Content(w) : x.type = "data" => \E i \in At : x = w[i]
  BY <1>1 DEF Content
<1> HIDE DEF At
<1>6. ASSUME NEW i \in At
      PROVE  rank[i] \in 1..m /\ i \in Upto(i) /\ IsFiniteSet(Upto(i))
  <2>1. i \in Upto(i) /\ Upto(i) \in SUBSET At
    BY <1>4
  <2> HIDE DEF Upto
  <2>2. IsFiniteSet(Upto(i)) /\ Cardinality(Upto(i)) <= m /\ Cardinality(Upto(i)) \in Nat
    BY <1>2, <2>1, FS_Subset, FS_CardinalityType
  <2>3. Cardinality(Upto(i)) # 0
    BY <2>1, <2>2, FS_EmptySet
  <2> QED
    BY <1>2, <2>1, <2>2, <2>3
<1>7. ASSUME NEW i \in At, NEW k \in At, i < k
      PROVE  rank[i] # rank[k]
  <2>1. Upto(i) \in SUBSET Upto(k) /\ k \notin Upto(i) /\ k \in Upto(k)
    BY <1>4, <1>7
  <2>2. IsFiniteSet(Upto(k))
    BY <1>6
  <2> HIDE DEF Upto
  <2>3. Cardinality(Upto(i)) # Cardinality(Upto(k))
    BY <2>1, <2>2, FS_Subset
  <2> QED
    BY <2>3
<1>8. \A i, k \in At : rank[i] = rank[k] => i = k
  <2>1. \A i, k \in At : i < k \/ k < i \/ i = k
    BY <1>4
  <2> HIDE DEF rank
  <2> QED
    BY <1>7, <2>1
<1>9. \A n \in 1..m : \E i \in At : rank[i] = n
  <2>1. rank \in [At -> 1..m]
    BY <1>6
  <2> HIDE DEF rank
  <2>2. rank \in Injection(At, 1..m)
    BY <1>8, <2>1 DEF Injection, IsInjective
  <2>3. IsFiniteSet(1..m) /\ Cardinality(1..m) = m
    BY <1>2, FS_Interval
  <2>4. rank \in Surjection(At, 1..m)
    BY <2>2, <2>3, FS_Injection
  <2> QED
    BY <2>4 DEF Surjection
<1>10. \A n \in 1..m : Nth(n) \in At /\ rank[Nth(n)] = n
  BY <1>9
<1>11. \A i \in At : Nth(rank[i]) = i
  <2>1. \A i \in At : rank[i] \in 1..m
    BY <1>6
  <2> HIDE DEF rank, Nth
  <2> QED
    BY <1>8, <1>10, <2>1
<1>12. DOMAIN DataOf(w) = 1..m
  BY <1>3
<1>13. \A n \in 1..m : DataOf(w)[n] = w[Nth(n)]
  BY <1>3
<1> HIDE DEF Nth, m, rank
<1>14. Content(DataOf(w)) \subseteq {x \in Content(w) : x.type = "data"}
  BY <1>4, <1>10, <1>12, <1>13 DEF Content
<1>15. ASSUME NEW x \in Content(w), x.type = "data"
       PROVE  x \in Content(DataOf(w))
  <2>1. PICK i \in At : x = w[i]
    BY <1>5, <1>15
  <2>2. rank[i] \in 1..m /\ DataOf(w)[rank[i]] = x
    BY <1>6, <1>11, <1>13, <2>1
  <2> QED
    BY <1>12, <2>2 DEF Content
<1> QED
  BY <1>14, <1>15

\* A piece of a wire is a frame of some segment, or torn.
LEMMA PieceFacts ==
  ASSUME NEW x \in Pieces
  PROVE  /\ x \in FrameRecord /\ x # Bad /\ x.number \in Nat /\ x.type # "error"
         /\ x.type = "torn" \/ \E t \in Nat, n \in Nat : x = Frame(t, n)
<1>1. CASE x = Torn
  BY <1>1 DEF Torn, FrameRecord, FrameType, Bad
<1>2. CASE \E t \in Nat, n \in Nat : x = Frame(t, n)
  <2>1. PICK t \in Nat, n \in Nat : x = Frame(t, n)
    BY <1>2
  <2> QED
    BY <1>2, <2>1, FrameFacts
<1>3. Segments \in Nat /\ Frames \in Nat
  OBVIOUS
<1>4. x = Torn \/ \E t \in 0..(Segments - 1), n \in 0..(Frames + 1) : x = Frame(t, n)
  BY DEF Pieces
<1>5. \A t \in 0..(Segments - 1), n \in 0..(Frames + 1) : t \in Nat /\ n \in Nat
  BY <1>3
<1> QED
  BY <1>1, <1>2, <1>4, <1>5

LEMMA WireFacts ==
  ASSUME NEW s \in Nat, s < Segments, NEW w \in WiresOf(s)
  PROVE  w \in Seq(FrameRecord) /\ Content(w) \subseteq Pieces /\ Bad \notin Content(w)
<1>1. w \in Seq(Pieces)
  <2>1. CASE w \in Wires
    BY <2>1, WiresAssumption DEF WiresAssumption
  <2>2. CASE w = Whole(s)
    <3>1. Segments \in Nat /\ Frames \in Nat
      OBVIOUS
    <3>2. s \in 0..(Segments - 1) /\ \A n \in 1..(Frames + 2) : n - 1 \in 0..(Frames + 1)
      BY <3>1
    <3>3. \A n \in 1..(Frames + 2) : Frame(s, n - 1) \in Pieces
      BY <3>2 DEF Pieces
    <3> QED
      BY <2>2, <3>1, <3>3 DEF Whole
  <2> QED
    BY <2>1, <2>2 DEF WiresOf
<1>2. Content(w) \subseteq Pieces
  BY <1>1 DEF Content
<1>3. \A k \in 1..Len(w) : w[k] \in FrameRecord
  <2>1. \A k \in 1..Len(w) : w[k] \in Pieces
    BY <1>1
  <2> QED
    BY <2>1, PieceFacts
<1> QED
  BY <1>1, <1>2, <1>3, PieceFacts

\* An accepted wire has the data frames of its segment, and as many places.
LEMMA AcceptedFacts ==
  ASSUME NEW s \in Nat, s < Segments, NEW w \in WiresOf(s),
         NEW c, Content(c) \subseteq Content(w), Accepts(s, w, c)
  PROVE  DataCount(w) = Frames /\ DataOf(w) = DataOf(Whole(s))
<1>1. PICK i \in DOMAIN c :
        /\ c[i].type = "digest" /\ c[i].number = DataCount(w)
        /\ Carried(c[i]) = DigestOf(s, DataOf(w))
  BY DEF Accepts
<1>2. c[i] \in Pieces
  BY <1>1, WireFacts DEF Content
<1>3. PICK t \in Nat, n \in Nat : c[i] = Frame(t, n)
  BY <1>1, <1>2, PieceFacts
<1>4. n = Frames /\ c[i].number = n /\ c[i].segment = t
  BY <1>1, <1>3, FrameFacts DEF Frame
<1>5. Carried(c[i]) = DigestOf(t, DataOf(Whole(t)))
  BY <1>4 DEF Carried
<1>6. t = s /\ DataOf(Whole(t)) = DataOf(w)
  BY <1>1, <1>5 DEF DigestOf
<1> QED
  BY <1>1, <1>4, <1>6

\* The data frames of such a wire are those of the segment.
LEMMA DataFrames ==
  ASSUME NEW s \in Nat, NEW w \in Seq(FrameRecord), DataOf(w) = DataOf(Whole(s))
  PROVE  /\ \A x \in Content(w) : x.type = "data" => x = Frame(s, x.number)
         /\ \A n \in 1..Frames : Frame(s, n - 1) \in Content(w)
<1>1. Whole(s) \in Seq(FrameRecord) /\ Frames \in Nat
  BY WholeFacts
<1>2. {x \in Content(w) : x.type = "data"} = {x \in Content(Whole(s)) : x.type = "data"}
  BY <1>1, DataOfContent
<1>3. \A n \in 1..(Frames + 2) :
        n - 1 \in Nat /\ Frame(s, n - 1).number = n - 1 /\ (n <= Frames => Frame(s, n - 1).type = "data")
  <2>1. \A n \in 1..(Frames + 2) : n - 1 \in Nat /\ (n <= Frames => n - 1 < Frames)
    BY <1>1
  <2> QED
    BY <2>1, FrameFacts
<1>4. Content(Whole(s)) = {Frame(s, n - 1) : n \in 1..(Frames + 2)}
  <2>1. DOMAIN Whole(s) = 1..(Frames + 2) /\ \A n \in 1..(Frames + 2) : Whole(s)[n] = Frame(s, n - 1)
    BY WholeFacts
  <2>2. Content(Whole(s)) = {Whole(s)[n] : n \in 1..(Frames + 2)}
    BY <2>1 DEF Content
  <2> QED
    BY <2>1, <2>2
<1>5. \A x \in Content(w) : x.type = "data" => x = Frame(s, x.number)
  <2> SUFFICES ASSUME NEW x \in Content(w), x.type = "data" PROVE x = Frame(s, x.number)
    OBVIOUS
  <2>1. x \in Content(Whole(s))
    BY <1>2
  <2>2. PICK n \in 1..(Frames + 2) : x = Frame(s, n - 1)
    BY <1>4, <2>1
  <2> QED
    BY <1>3, <2>2
<1>6. \A n \in 1..Frames : Frame(s, n - 1) \in Content(w)
  <2> SUFFICES ASSUME NEW n \in 1..Frames PROVE Frame(s, n - 1) \in Content(w)
    OBVIOUS
  <2>1. n \in 1..(Frames + 2) /\ n <= Frames
    BY <1>1
  <2>2. Frame(s, n - 1) \in Content(Whole(s)) /\ Frame(s, n - 1).type = "data"
    BY <1>3, <1>4, <2>1
  <2> QED
    BY <1>2, <2>2
<1> QED
  BY <1>5, <1>6

-----------------------------------------------------------------------------
(* Channels and the pool.                                                  *)

LEMMA HeadAndTail ==
  ASSUME NEW c \in Seq(FrameRecord), c # <<>>
  PROVE  /\ Head(c) \in FrameRecord /\ Tail(c) \in Seq(FrameRecord)
         /\ Len(c) \in Nat /\ Len(c) >= 1 /\ Len(Tail(c)) = Len(c) - 1
         /\ Content(c) = {Head(c)} \cup Content(Tail(c))
<1>1. /\ Len(c) \in Nat /\ Len(c) >= 1 /\ Len(Tail(c)) = Len(c) - 1
      /\ Head(c) = c[1] /\ c[1] \in FrameRecord
      /\ \A k \in 1..(Len(c) - 1) : Tail(c)[k] = c[k + 1]
      /\ DOMAIN c = 1..Len(c) /\ DOMAIN Tail(c) = 1..(Len(c) - 1)
      /\ Tail(c) \in Seq(FrameRecord)
  OBVIOUS
<1>2. \A k \in 1..Len(c) : k = 1 \/ (k - 1 \in 1..(Len(c) - 1) /\ c[k] = Tail(c)[k - 1])
  BY <1>1
<1>3. ASSUME NEW x \in Content(c)
      PROVE  x = Head(c) \/ x \in Content(Tail(c))
  <2>1. PICK k \in 1..Len(c) : x = c[k]
    BY <1>1 DEF Content
  <2>2. CASE k = 1
    BY <1>1, <2>1, <2>2
  <2>3. CASE k - 1 \in 1..(Len(c) - 1) /\ c[k] = Tail(c)[k - 1]
    BY <1>1, <2>1, <2>3 DEF Content
  <2> QED
    BY <1>2, <2>2, <2>3
<1>4. ASSUME NEW x \in Content(Tail(c))
      PROVE  x \in Content(c)
  <2>1. PICK k \in 1..(Len(c) - 1) : x = Tail(c)[k]
    BY <1>1 DEF Content
  <2>2. k + 1 \in 1..Len(c) /\ x = c[k + 1]
    BY <1>1, <2>1
  <2> QED
    BY <1>1, <2>2 DEF Content
<1>5. Head(c) \in Content(c)
  BY <1>1 DEF Content
<1> QED
  BY <1>1, <1>3, <1>4, <1>5

LEMMA NoContent ==
  ASSUME NEW c \in Seq(FrameRecord), Len(c) = 0
  PROVE  Content(c) = {}
<1>1. DOMAIN c = {}
  OBVIOUS
<1> QED
  BY <1>1 DEF Content

LEMMA Appended ==
  ASSUME NEW c \in Seq(FrameRecord), NEW x \in FrameRecord
  PROVE  /\ Append(c, x) \in Seq(FrameRecord) /\ Len(Append(c, x)) = Len(c) + 1
         /\ Content(Append(c, x)) = Content(c) \cup {x}
<1>1. /\ Len(c) \in Nat /\ Len(Append(c, x)) = Len(c) + 1 /\ Append(c, x) \in Seq(FrameRecord)
      /\ DOMAIN c = 1..Len(c) /\ DOMAIN Append(c, x) = 1..(Len(c) + 1)
      /\ \A k \in 1..Len(c) : Append(c, x)[k] = c[k]
      /\ Append(c, x)[Len(c) + 1] = x
  OBVIOUS
<1>2. \A k \in 1..(Len(c) + 1) : k \in 1..Len(c) \/ k = Len(c) + 1
  BY <1>1
<1>3. \A k \in 1..Len(c) : k \in 1..(Len(c) + 1)
  BY <1>1
<1>4. Len(c) + 1 \in 1..(Len(c) + 1)
  BY <1>1
<1>5. Content(Append(c, x)) \subseteq Content(c) \cup {x}
  BY <1>1, <1>2 DEF Content
<1>6. Content(c) \subseteq Content(Append(c, x)) /\ x \in Content(Append(c, x))
  BY <1>1, <1>3, <1>4 DEF Content
<1> QED
  BY <1>1, <1>5, <1>6

LEMMA PoolSets ==
  ASSUME NEW S \in SUBSET FrameWorkers
  PROVE  /\ Cardinality(S) \in Nat /\ (Cardinality(S) = 0 <=> S = {})
         /\ \A f \in FrameWorkers :
              /\ f \notin S => Cardinality(S \cup {f}) = Cardinality(S) + 1
              /\ f \in S => Cardinality(S \ {f}) = Cardinality(S) - 1
<1>1. IsFiniteSet(S)
  BY FS_Subset
<1> QED
  BY <1>1, FS_CardinalityType, FS_EmptySet, FS_AddElement, FS_RemoveElement

\* Nothing is on its way.
LEMMA NothingFlies ==
  ASSUME Types, Flights <= 0
  PROVE  \A x : ~Flying(x)
<1>1. Sealing \in SUBSET FrameWorkers /\ Cardinality(Sealing) \in Nat
  BY PoolSets DEF Sealing
<1>2. Len(frames) \in Nat /\ Len(sealed) \in Nat
  BY DEF Types
<1>3. Len(frames) = 0 /\ Len(sealed) = 0 /\ Cardinality(Sealing) = 0
  BY <1>1, <1>2 DEF Flights
<1>4. Content(frames) = {} /\ Content(sealed) = {}
  BY <1>3 DEF Types, Content
<1>5. Sealing = {}
  BY <1>1, <1>3, PoolSets
<1> QED
  BY <1>4, <1>5 DEF Flying

\* The one frame that is on its way has arrived.
LEMMA OneFlies ==
  ASSUME Types, sealed # <<>>, Flights <= 1
  PROVE  Flights = 1 /\ \A x : Flying(x) => x = Head(sealed)
<1>1. Sealing \in SUBSET FrameWorkers /\ Cardinality(Sealing) \in Nat
  BY PoolSets DEF Sealing
<1>2. Len(frames) \in Nat
  BY DEF Types
<1>3. /\ Len(sealed) \in Nat /\ Len(sealed) >= 1 /\ Len(Tail(sealed)) = Len(sealed) - 1
      /\ Tail(sealed) \in Seq(FrameRecord) /\ Content(sealed) = {Head(sealed)} \cup Content(Tail(sealed))
  BY HeadAndTail DEF Types
<1>4. Len(frames) = 0 /\ Len(sealed) = 1 /\ Cardinality(Sealing) = 0
  BY <1>1, <1>2, <1>3 DEF Flights
<1>5. Content(frames) = {}
  BY <1>4 DEF Types, Content
<1>a. Tail(sealed) \in Seq(FrameRecord) /\ Len(Tail(sealed)) = 0
  BY <1>3, <1>4
<1>6. Content(Tail(sealed)) = {}
  BY ONLY <1>a, NoContent, Zenon
<1>7. Sealing = {}
  BY <1>1, <1>4, PoolSets
<1> QED
  BY <1>2, <1>3, <1>4, <1>5, <1>6, <1>7 DEF Flying, Flights

\* A step of the pool may lose frames and make Errs, never make frames.
LEMMA PoolStepKeeps ==
  ASSUME Pool, UNCHANGED <<mode, pc, segment, wire, sent, received, slots, closing>>,
         Types', Flights' <= Flights, \A x : Flying(x)' => Flying(x) \/ x = Bad,
         Flights' = Flights /\ ~Flying(Bad)' => \A x : Flying(x) => Flying(x)'
  PROVE  Pool'
<1>1. /\ Collected' = Collected /\ SentFrames' = SentFrames /\ (Phase <=> Phase')
      /\ \A x : Kept(x)' <=> Kept(x)
  BY DEF Collected, SentFrames, Phase, EncryptPhase, DecryptPhase, Kept
<1>2. Types /\ Sealing \in SUBSET FrameWorkers /\ Sealing' \in SUBSET FrameWorkers
  BY DEF Pool, Sealing
<1>a. Cardinality(Sealing) \in Nat /\ Cardinality(Sealing') \in Nat
  BY <1>2, PoolSets
<1>b. Len(frames) \in Nat /\ Len(sealed) \in Nat /\ Len(frames') \in Nat /\ Len(sealed') \in Nat
  BY <1>2 DEF Types
<1>c. Flights' = Len(frames') + Len(sealed') + Cardinality(Sealing')
  BY DEF Flights
<1>3. Flights \in Nat /\ Flights' \in Nat
  BY <1>a, <1>b, <1>c DEF Flights
<1>4. Collected \in Nat /\ sent \in Nat /\ sent' = sent
  BY <1>2 DEF Types, Collected
<1>5. ASSUME Ledger
      PROVE  Ledger'
  <2>a. Collected + Flights <= sent
    BY <1>5 DEF Ledger
  <2>b. PICK g \in Nat : g = Flights'
    BY <1>3
  <2>c. g <= Flights /\ Collected' + Flights' = Collected + g
    BY <1>1, <2>b
  <2>d. Collected + g <= sent /\ (Collected + g = sent => g = Flights /\ Collected + Flights = sent)
    BY <1>3, <1>4, <2>a, <2>c
  <2>1. Collected' + Flights' <= sent'
    BY <1>4, <2>c, <2>d
  <2>2. \A x : Flying(x)' => x = Bad \/ x \in SentFrames'
    BY <1>1, <1>5 DEF Ledger
  <2>3. Content(closing)' \subseteq SentFrames'
    BY <1>1, <1>5 DEF Ledger, Content
  <2>4. ASSUME NoneLost'
        PROVE  \A x \in SentFrames' : Flying(x)' \/ Kept(x)'
    <3>a. Collected' + Flights' = sent'
      BY <2>4 DEF NoneLost
    <3>1. Flights' = Flights /\ Collected + Flights = sent
      BY <1>4, <2>b, <2>c, <2>d, <3>a
    <3>3. ~Flying(Bad)
      BY <2>4, <3>1 DEF NoneLost
    <3>4. NoneLost
      BY <2>4, <3>1, <3>3 DEF NoneLost
    <3> QED
      BY <1>1, <1>5, <2>4, <3>1, <3>4 DEF Ledger, NoneLost
  <2> QED
    BY <2>1, <2>2, <2>3, <2>4 DEF Ledger
<1> QED
  BY <1>1, <1>3, <1>5 DEF Pool

\* A frame worker takes a frame, to work on it or to drop it.
LEMMA TakeFrameKeeps ==
  ASSUME Pool, NEW f \in FrameWorkers, fw[f] = "select", frames # <<>>,
         NEW p \in {"seal", "done"}, fw' = [fw EXCEPT ![f] = p],
         job' = [job EXCEPT ![f] = Head(frames)], frames' = Tail(frames),
         UNCHANGED <<mode, pc, segment, wire, sent, received, slots, closing, sealed>>
  PROVE  Pool' /\ (Flying(Bad)' => Flying(Bad))
<1>1. Types
  BY DEF Pool
<1>2. /\ Head(frames) \in FrameRecord /\ Tail(frames) \in Seq(FrameRecord)
      /\ Len(frames) \in Nat /\ Len(frames) >= 1 /\ Len(Tail(frames)) = Len(frames) - 1
      /\ Content(frames) = {Head(frames)} \cup Content(Tail(frames))
  BY <1>1, HeadAndTail DEF Types
<1>3. Types'
  BY <1>1, <1>2 DEF Types, Stations
<1>4. /\ f \notin Sealing /\ Sealing \in SUBSET FrameWorkers
      /\ p = "seal" => Sealing' = Sealing \cup {f}
      /\ p = "done" => Sealing' = Sealing
  BY <1>1 DEF Types, Sealing
<1>5. Cardinality(Sealing) \in Nat /\ Cardinality(Sealing \cup {f}) = Cardinality(Sealing) + 1
  BY <1>4, PoolSets
<1>6. Flights' = Len(Tail(frames)) + Len(sealed) + Cardinality(Sealing') /\ Len(sealed) \in Nat
  BY <1>1 DEF Flights, Types
<1>7. /\ p = "seal" => Flights' = Flights
      /\ p = "done" => Flights' < Flights
  <2>1. CASE p = "seal"
    <3>1. Flights' = Len(frames) - 1 + Len(sealed) + (Cardinality(Sealing) + 1)
      BY <1>2, <1>4, <1>5, <1>6, <2>1
    <3> QED
      BY <1>2, <1>5, <1>6, <2>1, <3>1 DEF Flights
  <2>2. CASE p = "done"
    <3>1. Flights' = Len(frames) - 1 + Len(sealed) + Cardinality(Sealing)
      BY <1>2, <1>4, <1>6, <2>2
    <3> QED
      BY <1>2, <1>5, <1>6, <2>2, <3>1 DEF Flights
  <2> QED
    BY <2>1, <2>2
<1>8. job'[f] = Head(frames) /\ \A g \in Sealing : g # f /\ job'[g] = job[g]
  BY <1>1, <1>4 DEF Types
<1>9. \A x : Flying(x)' => Flying(x)
  <2>1. \A x : Flying(x)' <=> \/ x \in Content(Tail(frames)) \/ x \in Content(sealed)
                              \/ \E g \in Sealing' : job'[g] = x
    BY DEF Flying, Content
  <2> QED
    BY <1>2, <1>4, <1>8, <2>1 DEF Flying
<1>10. p = "seal" => \A x : Flying(x) => Flying(x)'
  <2>1. \A x : Flying(x)' <=> \/ x \in Content(Tail(frames)) \/ x \in Content(sealed)
                              \/ \E g \in Sealing' : job'[g] = x
    BY DEF Flying, Content
  <2> QED
    BY <1>2, <1>4, <1>8, <2>1 DEF Flying
<1>11. Flights \in Nat
  BY <1>2, <1>5, <1>6 DEF Flights
<1>12. Flights' <= Flights /\ (Flights' = Flights => p = "seal")
  BY <1>6, <1>7, <1>11
<1> QED
  BY <1>3, <1>9, <1>10, <1>12, PoolStepKeeps

\* A frame worker sends its frame, or an Err, or nothing.
LEMMA SealKeeps ==
  ASSUME Pool, NEW f \in FrameWorkers, fw[f] = "seal",
         NEW p \in Stations \ {"seal"}, fw' = [fw EXCEPT ![f] = p],
         sealed' \in {sealed, Append(sealed, job[f]), Append(sealed, Bad)},
         UNCHANGED <<mode, pc, segment, wire, sent, received, slots, closing, frames, job>>
  PROVE  Pool' /\ (sealed' # Append(sealed, Bad) \/ job[f] = Bad => (Flying(Bad)' => Flying(Bad)))
<1>1. Types /\ Bad \in FrameRecord
  BY DEF Pool, Bad, FrameRecord, FrameType
<1>2. PICK x \in FrameRecord : sealed' = Append(sealed, x) \/ sealed' = sealed
  BY <1>1 DEF Types
<1>3. Types'
  <2>1. sealed' \in Seq(FrameRecord)
    BY <1>1, <1>2, Appended DEF Types
  <2>2. fw' \in [FrameWorkers -> Stations]
    BY <1>1 DEF Types
  <2> QED
    BY <1>1, <2>1, <2>2 DEF Types
<1>4. /\ f \in Sealing /\ Sealing \in SUBSET FrameWorkers
      /\ Sealing' = Sealing \ {f}
  BY <1>1 DEF Types, Sealing
<1>5. Cardinality(Sealing) \in Nat /\ Cardinality(Sealing \ {f}) = Cardinality(Sealing) - 1
  BY <1>4, PoolSets
<1>6. /\ Flights' = Len(frames) + Len(sealed') + Cardinality(Sealing) - 1
      /\ Len(frames) \in Nat /\ Len(sealed) \in Nat /\ job[f] \in FrameRecord
      /\ Flights = Len(frames) + Len(sealed) + Cardinality(Sealing)
  BY <1>1, <1>4, <1>5 DEF Flights, Types
<1>7. CASE sealed' = sealed
  <2>1. Flights' < Flights
    BY <1>5, <1>6, <1>7
  <2>2. \A y : Flying(y)' => Flying(y)
    BY <1>4, <1>7 DEF Flying, Content
  <2>3. Flights' <= Flights /\ Flights' # Flights
    BY <1>5, <1>6, <1>7
  <2> QED
    BY <1>3, <2>2, <2>3, PoolStepKeeps
<1>8. CASE sealed' = Append(sealed, Bad)
  <2>1. Content(sealed') = Content(sealed) \cup {Bad} /\ Len(sealed') = Len(sealed) + 1
    BY <1>1, <1>8, Appended DEF Types
  <2>2. Flights' = Flights
    BY <1>5, <1>6, <2>1
  <2>3. \A y : Flying(y)' <=> \/ y \in Content(frames) \/ y \in Content(sealed')
                              \/ \E g \in Sealing' : job[g] = y
    BY DEF Flying, Content
  <2>4. Flying(Bad)' /\ \A y : Flying(y)' => Flying(y) \/ y = Bad
    BY <1>4, <2>1, <2>3 DEF Flying
  <2>5. Pool'
    BY <1>3, <2>2, <2>4, <1>6, <1>5, PoolStepKeeps
  <2>6. job[f] = Bad => Flying(Bad)
    BY <1>4 DEF Flying
  <2> QED
    BY <1>8, <2>5, <2>6
<1>9. CASE sealed' = Append(sealed, job[f])
  <2>1. Content(sealed') = Content(sealed) \cup {job[f]} /\ Len(sealed') = Len(sealed) + 1
    BY <1>1, <1>6, <1>9, Appended DEF Types
  <2>2. Flights' = Flights
    BY <1>5, <1>6, <2>1
  <2>3. \A y : Flying(y)' <=> \/ y \in Content(frames) \/ y \in Content(sealed')
                              \/ \E g \in Sealing' : job[g] = y
    BY DEF Flying, Content
  <2>4. \A y : Flying(y)' <=> Flying(y)
    BY <1>4, <2>1, <2>3 DEF Flying
  <2>5. Pool'
    BY <1>3, <2>2, <2>4, <1>6, <1>5, PoolStepKeeps
  <2> QED
    BY <2>4, <2>5
<1> QED
  BY <1>7, <1>8, <1>9

\* A frame worker changes otherwise.
LEMMA TurnKeeps ==
  ASSUME Pool, fw' \in [FrameWorkers -> Stations],
         \A f \in FrameWorkers : fw'[f] = "seal" <=> fw[f] = "seal",
         UNCHANGED <<mode, pc, segment, wire, sent, received, slots, closing, frames, sealed, job>>
  PROVE  Pool' /\ (Flying(Bad)' => Flying(Bad))
<1>1. Types /\ Types'
  BY DEF Pool, Types
<1>2. Sealing' = Sealing
  BY DEF Sealing
<1>3. /\ Flights' = Flights /\ Sealing \in SUBSET FrameWorkers
      /\ \A x : Flying(x)' <=> Flying(x)
  BY <1>2 DEF Flights, Flying, Content, Sealing
<1>4. Flights \in Nat
  BY <1>1, <1>3, PoolSets DEF Flights, Types
<1> QED
  BY <1>1, <1>3, <1>4, PoolStepKeeps

-----------------------------------------------------------------------------
(* The segment worker's part.                                              *)

LEMMA CollectedInNat ==
  ASSUME Types
  PROVE  /\ Collected \in Nat /\ Flights \in Nat /\ Sealing \in SUBSET FrameWorkers
         /\ Len(frames) \in Nat /\ Len(sealed) \in Nat /\ Cardinality(Sealing) \in Nat
<1>1. Sealing \in SUBSET FrameWorkers /\ Cardinality(Sealing) \in Nat
  BY PoolSets DEF Sealing
<1> QED
  BY <1>1 DEF Types, Collected, Flights

LEMMA PhaseFacts ==
  ASSUME Types, Phase
  PROVE  /\ wire \in WiresOf(segment) /\ segment < Segments
         /\ Bad \notin Content(wire) /\ SentFrames \subseteq Content(wire)
         /\ Len(wire) \in Nat /\ sent <= Len(wire) /\ DOMAIN wire = 1..Len(wire)
         /\ wire = Whole(segment) =>
              Len(wire) = Frames + 2 /\ \A n \in 1..(Frames + 2) : wire[n] = Frame(segment, n - 1)
<1>1. /\ wire \in WiresOf(segment) /\ Len(wire) \in Nat /\ sent <= Len(wire)
      /\ DOMAIN wire = 1..Len(wire) /\ segment \in Nat /\ segment < Segments /\ sent \in Nat
  BY DEF Types, Phase
<1>2. Bad \notin Content(wire)
  BY <1>1, WireFacts
<1>3. SentFrames \subseteq Content(wire)
  BY <1>1 DEF SentFrames, Content
<1> QED
  BY <1>1, <1>2, <1>3, WholeFacts

\* A frame of the wire is put on its way.
LEMMA SendFrameKeeps ==
  ASSUME Pool, pc = "send", frames' = Append(frames, wire[sent + 1]), sent' = sent + 1,
         pc' = AfterSend(sent),
         UNCHANGED <<mode, segment, wire, received, slots, closing, sealed, fw, job>>
  PROVE  Pool' /\ (Flying(Bad)' => Flying(Bad))
<1>1. Types /\ Phase /\ Ledger
  BY DEF Pool, Active
<1> DEFINE x == wire[sent + 1]
<1>2. /\ sent \in Nat /\ sent + 1 \in 1..Len(wire) /\ x \in FrameRecord /\ x \in Content(wire) /\ x # Bad
  <2>1. sent \in Nat /\ Len(wire) \in Nat /\ sent < Len(wire) /\ wire \in Seq(FrameRecord)
    BY <1>1 DEF Types, Phase
  <2>2. sent + 1 \in 1..Len(wire) /\ x \in FrameRecord /\ x \in Content(wire)
    BY <2>1 DEF Content
  <2> QED
    BY <1>1, <2>1, <2>2, PhaseFacts
<1> HIDE DEF x
<1>3. /\ frames' \in Seq(FrameRecord) /\ Len(frames') = Len(frames) + 1
      /\ Content(frames') = Content(frames) \cup {x}
  BY <1>1, <1>2, Appended DEF Types, x
<1>4. Types'
  BY <1>1, <1>2, <1>3 DEF Types
<1>5. Flights' = Flights + 1 /\ Collected' = Collected /\ Collected \in Nat /\ Flights \in Nat
  <2>1. Sealing' = Sealing
    BY DEF Sealing
  <2> QED
    BY <1>1, <1>3, <2>1, CollectedInNat DEF Flights, Collected
<1>6. SentFrames' = SentFrames \cup {x}
  <2>1. SentFrames' = {wire[k] : k \in 1..(sent + 1)}
    BY DEF SentFrames
  <2>2. 1..(sent + 1) = (1..sent) \cup {sent + 1}
    BY <1>2
  <2> QED
    BY <2>1, <2>2 DEF SentFrames, x
<1>7. \A y : Flying(y)' <=> Flying(y) \/ y = x
  <2>1. \A y : Flying(y)' <=> \/ y \in Content(frames') \/ y \in Content(sealed)
                              \/ \E g \in Sealing : job[g] = y
    BY DEF Flying, Content, Sealing
  <2> QED
    BY <1>3, <2>1 DEF Flying
<1>8. \A y : Kept(y)' <=> Kept(y)
  BY DEF Kept, Content
<1>9. Ledger'
  <2>1. Collected' + Flights' <= sent' /\ (Collected' + Flights' = sent' => Collected + Flights = sent)
    <3>1. Collected + Flights <= sent
      BY <1>1 DEF Ledger
    <3> QED
      BY <1>2, <1>5, <3>1
  <2>2. \A y : Flying(y)' => y = Bad \/ y \in SentFrames'
    BY <1>1, <1>6, <1>7 DEF Ledger
  <2>3. Content(closing)' \subseteq SentFrames'
    BY <1>1, <1>6 DEF Ledger, Content
  <2>4. ASSUME NoneLost' PROVE \A y \in SentFrames' : Flying(y)' \/ Kept(y)'
    <3>1. NoneLost
      BY <1>2, <1>7, <2>1, <2>4 DEF NoneLost
    <3> QED
      BY <1>1, <1>6, <1>7, <1>8, <3>1 DEF Ledger
  <2> QED
    BY <2>1, <2>2, <2>3, <2>4 DEF Ledger
<1>10. Phase' /\ pc' \in Active
  <2>1. /\ sent + 1 <= Len(wire) /\ Len(wire) \in Nat /\ mode \in {"encrypt", "decrypt"}
        /\ Frames \in Nat /\ Frames > 0
    BY <1>1, <1>2 DEF Types
  <2>2. pc' \in {"send", "collect", "wait"}
    BY DEF AfterSend
  <2>3. CASE mode = "encrypt"
    <3>1. EncryptPhase /\ Len(wire) = Frames + 2
      BY <1>1, <2>3, PhaseFacts DEF Phase, EncryptPhase
    <3>2. \/ sent + 1 < Frames /\ pc' = "send" /\ received = 0 /\ Len(closing) = 0
          \/ sent + 1 = Frames /\ pc' = "collect" /\ received = 0 /\ Len(closing) = 0
          \/ sent = Frames /\ pc' = "wait" /\ received = Frames /\ Len(closing) = 0
          \/ sent = Frames + 1 /\ pc' = "wait" /\ received = Frames /\ Len(closing) = 1
      BY <1>2, <2>1, <2>3, <3>1 DEF AfterSend, EncryptPhase
    <3>3. EncryptPhase' /\ (pc' = "send" => sent + 1 < Len(wire))
      BY <1>2, <2>1, <3>1, <3>2 DEF EncryptPhase
    <3> QED
      BY <1>1, <2>1, <2>2, <2>3, <3>3 DEF Phase, Active
  <2>4. CASE mode = "decrypt"
    <3>1. DecryptPhase /\ received = 0
      BY <1>1, <2>4 DEF Phase, DecryptPhase
    <3>2. \/ pc' = "send" /\ sent + 1 # Len(wire)
          \/ pc' = "collect" /\ sent + 1 = Len(wire)
      BY <2>4 DEF AfterSend
    <3>3. DecryptPhase' /\ (pc' = "send" => sent + 1 < Len(wire))
      BY <1>2, <2>1, <3>1, <3>2 DEF DecryptPhase
    <3> QED
      BY <1>1, <2>1, <2>2, <2>4, <3>3 DEF Phase, Active
  <2> QED
    BY <2>1, <2>3, <2>4
<1> QED
  BY <1>2, <1>4, <1>7, <1>9, <1>10 DEF Pool, Active, Resting, Marking

\* Where a worker goes on with a frame it has put away.
GoesOn(last) ==
  IF received + 1 # (IF mode = "encrypt" THEN Frames ELSE Len(wire)) THEN "collect"
  ELSE IF mode = "encrypt" THEN "send" ELSE last

\* One frame less is on its way.
LEMMA TakenOut ==
  ASSUME Types, sealed # <<>>, sealed' = Tail(sealed), UNCHANGED <<frames, fw, job>>
  PROVE  /\ Head(sealed) \in FrameRecord /\ sealed' \in Seq(FrameRecord)
         /\ Flying(Head(sealed)) /\ Flights' + 1 = Flights /\ Flights' \in Nat
         /\ \A x : Flying(x)' => Flying(x)
         /\ \A x : Flying(x) => Flying(x)' \/ x = Head(sealed)
<1>1. /\ Head(sealed) \in FrameRecord /\ Tail(sealed) \in Seq(FrameRecord)
      /\ Len(sealed) \in Nat /\ Len(sealed) >= 1 /\ Len(Tail(sealed)) = Len(sealed) - 1
      /\ Content(sealed) = {Head(sealed)} \cup Content(Tail(sealed))
  BY HeadAndTail DEF Types
<1>2. Sealing' = Sealing
  BY DEF Sealing
<1>3. Flights' + 1 = Flights /\ Flights' \in Nat
  BY <1>1, <1>2, CollectedInNat DEF Flights
<1>4. \A x : Flying(x)' <=> \/ x \in Content(frames) \/ x \in Content(Tail(sealed))
                            \/ \E g \in Sealing : job[g] = x
  BY <1>2 DEF Flying, Content
<1> QED
  BY <1>1, <1>3, <1>4 DEF Flying

\* A frame is put where it belongs.
LEMMA CollectKeeps ==
  ASSUME Pool, pc = "collect", sealed # <<>>, sealed' = Tail(sealed), received' = received + 1,
         NEW last \in {"emit", "finish"}, pc' = GoesOn(last),
         \/ /\ Head(sealed).type = "data" /\ Head(sealed).number \in DOMAIN slots
            /\ slots' = [slots EXCEPT ![Head(sealed).number] = Head(sealed)]
            /\ closing' = closing
         \/ /\ Head(sealed).type # "data" /\ Head(sealed) # Bad
            /\ closing' = Append(closing, Head(sealed))
            /\ slots' = slots,
         UNCHANGED <<mode, segment, wire, sent, frames, fw, job>>
  PROVE  Pool' /\ (Flying(Bad)' => Flying(Bad))
<1>1. Types /\ Phase /\ Ledger
  BY DEF Pool, Active
<1>h. PICK h \in FrameRecord : h = Head(sealed)
  BY <1>1, TakenOut
<1>2. /\ h \in FrameRecord /\ sealed' \in Seq(FrameRecord)
      /\ Flying(h) /\ Flights' + 1 = Flights /\ Flights' \in Nat
      /\ \A x : Flying(x)' => Flying(x)
      /\ \A x : Flying(x) => Flying(x)' \/ x = h
  BY <1>1, <1>h, TakenOut
<1>3. h # Bad
  BY <1>h DEF Bad
<1>4. h \in SentFrames
  BY <1>1, <1>2, <1>3 DEF Ledger
<1>5. closing \in Seq(FrameRecord) /\ received \in Nat /\ sent \in Nat /\ segment \in Nat
      /\ mode \in {"encrypt", "decrypt"} /\ Frames \in Nat /\ Frames > 0
  BY <1>1 DEF Types
<1>a. closing' = closing \/ closing' = Append(closing, h)
  BY <1>h
<1>b. /\ Append(closing, h) \in Seq(FrameRecord)
      /\ Content(Append(closing, h)) = Content(closing) \cup {h}
  BY <1>5, Appended
<1>6. \/ closing' = closing
      \/ /\ closing' = Append(closing, h) /\ closing' \in Seq(FrameRecord)
         /\ Content(closing') = Content(closing) \cup {h}
  BY <1>a, <1>b
<1>7. Types'
  BY <1>1, <1>2, <1>5, <1>6 DEF Types
<1>8. mode = "encrypt" => h.type = "data" /\ sent = Frames /\ Len(closing) = 0 /\ wire = Whole(segment)
  <2> SUFFICES ASSUME mode = "encrypt" PROVE h.type = "data" /\ sent = Frames /\ Len(closing) = 0 /\ wire = Whole(segment)
    OBVIOUS
  <2>1. sent = Frames /\ wire = Whole(segment) /\ Len(closing) = 0
    BY <1>1 DEF Phase, EncryptPhase
  <2>2. \A n \in 1..(Frames + 2) : wire[n] = Frame(segment, n - 1)
    BY <1>1, <2>1, PhaseFacts
  <2>3. PICK k \in 1..Frames : h = wire[k]
    BY <1>4, <2>1 DEF SentFrames
  <2>4. k - 1 \in Nat /\ k - 1 < Frames /\ h = Frame(segment, k - 1)
    BY <1>5, <2>2, <2>3
  <2>5. h.type = "data"
    BY <1>5, <2>4, FrameFacts
  <2> QED
    BY <2>1, <2>5
<1>9. Collected' = Collected + 1 /\ Collected \in Nat /\ SentFrames' = SentFrames
  <2>1. mode = "encrypt" => closing' = closing
    BY <1>h, <1>8
  <2>2. Collected \in Nat /\ Len(closing) \in Nat
    BY <1>1, <1>5, CollectedInNat
  <2> QED
    BY <1>5, <2>1, <2>2 DEF Collected, SentFrames
<1>10. Ledger'
  <2>1. Collected' + Flights' <= sent' /\ (Collected' + Flights' = sent' => Collected + Flights = sent)
    <3>1. Collected + Flights <= sent
      BY <1>1 DEF Ledger
    <3>2. Collected' + Flights' = Collected + Flights /\ sent' = sent
      BY <1>2, <1>9
    <3> QED
      BY <3>1, <3>2
  <2>2. \A y : Flying(y)' => y = Bad \/ y \in SentFrames'
    BY <1>1, <1>2, <1>9 DEF Ledger
  <2>3. Content(closing') \subseteq SentFrames'
    BY <1>1, <1>4, <1>6, <1>9 DEF Ledger
  <2>4. ASSUME NoneLost' PROVE \A y \in SentFrames' : Flying(y)' \/ Kept(y)'
    <3>1. NoneLost /\ DataOf(wire) = DataOf(Whole(segment))
      BY <1>2, <1>3, <2>1, <2>4 DEF NoneLost
    <3>2. \A y \in SentFrames : y.type = "data" => y = Frame(segment, y.number)
      BY <1>1, <1>5, <3>1, PhaseFacts, DataFrames DEF Types
    <3>3. \A y \in SentFrames :
            y.type = "data" /\ h.type = "data" /\ y.number = h.number => y = h
      BY <1>4, <3>2
    <3>4. \A y \in SentFrames : Kept(y) => Kept(y)'
      <4> SUFFICES ASSUME NEW y \in SentFrames, Kept(y) PROVE Kept(y)'
        OBVIOUS
      <4>1. CASE y.type = "data"
        <5>1. y.number \in DOMAIN slots /\ slots[y.number] = y
          BY <4>1 DEF Kept
        <5>2. y.number \in DOMAIN slots' /\ slots'[y.number] = y
          BY <1>h, <3>3, <4>1, <5>1
        <5> QED
          BY <4>1, <5>2 DEF Kept
      <4>2. CASE y.type # "data"
        <5>1. y \in Content(closing')
          BY <1>6, <4>2 DEF Kept
        <5> QED
          BY <4>2, <5>1 DEF Kept
      <4> QED
        BY <4>1, <4>2
    <3>5. Kept(h)'
      <4>1. CASE h.type = "data"
        <5>1. h.number \in DOMAIN slots' /\ slots'[h.number] = h
          BY <1>h, <4>1
        <5> QED
          BY <4>1, <5>1 DEF Kept
      <4>2. CASE h.type # "data"
        <5>1. h \in Content(closing')
          <6>1. closing' = Append(closing, h)
            BY <1>h, <4>2
          <6> QED
            BY <1>2, <1>5, <6>1, Appended
        <5> QED
          BY <4>2, <5>1 DEF Kept
      <4> QED
        BY <4>1, <4>2
    <3> QED
      BY <1>1, <1>2, <1>9, <3>1, <3>4, <3>5 DEF Ledger
  <2> QED
    BY <2>1, <2>2, <2>3, <2>4 DEF Ledger
<1>11. Phase' /\ pc' \in Active
  <2>1. DOMAIN slots' = DOMAIN slots
    OBVIOUS
  <2>2. CASE mode = "encrypt"
    <3>1. EncryptPhase /\ Len(wire) = Frames + 2
      BY <1>1, <2>2, PhaseFacts DEF Phase, EncryptPhase
    <3>2. closing' = closing /\ Len(closing) = 0 /\ sent = Frames /\ received < Frames
      BY <1>h, <1>8, <2>2, <3>1 DEF EncryptPhase
    <3>3. \/ pc' = "collect" /\ received + 1 < Frames
          \/ pc' = "send" /\ received + 1 = Frames
      BY <1>5, <2>2, <3>2 DEF GoesOn
    <3>4. EncryptPhase' /\ (pc' = "send" => sent < Len(wire))
      BY <1>5, <3>1, <3>2, <3>3 DEF EncryptPhase
    <3> QED
      BY <1>1, <1>5, <2>1, <2>2, <3>3, <3>4 DEF Phase, Active
  <2>3. CASE mode = "decrypt"
    <3>1. sent = Len(wire) /\ received < Len(wire) /\ Len(wire) \in Nat
      BY <1>1, <2>3, PhaseFacts DEF Phase, DecryptPhase
    <3>2. \/ pc' = "collect" /\ received + 1 < Len(wire)
          \/ pc' = last /\ received + 1 = Len(wire)
      BY <1>5, <2>3, <3>1 DEF GoesOn
    <3>3. DecryptPhase' /\ pc' # "send"
      BY <1>5, <3>1, <3>2 DEF DecryptPhase
    <3> QED
      BY <1>1, <1>5, <2>1, <2>3, <3>2, <3>3 DEF Phase, Active
  <2> QED
    BY <1>5, <2>2, <2>3
<1> QED
  BY <1>2, <1>7, <1>10, <1>11 DEF Pool, Active, Resting, Marking

\* The one frame awaited is the digest frame, then the terminator.
LEMMA CollectClosingKeeps ==
  ASSUME Pool, pc = "wait", sealed # <<>>, sealed' = Tail(sealed), Head(sealed) # Bad,
         closing' = Append(closing, Head(sealed)),
         NEW last \in {"emit", "finish"}, pc' = IF sent = Frames + 1 THEN "send" ELSE last,
         UNCHANGED <<mode, segment, wire, sent, received, slots, frames, fw, job>>
  PROVE  Pool' /\ (Flying(Bad)' => Flying(Bad))
<1>1. Types /\ Phase /\ Ledger
  BY DEF Pool, Active
<1>h. PICK h \in FrameRecord : h = Head(sealed)
  BY <1>1, TakenOut
<1>2. /\ h \in FrameRecord /\ sealed' \in Seq(FrameRecord)
      /\ Flying(h) /\ Flights' + 1 = Flights /\ Flights' \in Nat /\ Flights \in Nat
      /\ \A x : Flying(x)' => Flying(x)
      /\ \A x : Flying(x) => Flying(x)' \/ x = h
  BY <1>1, <1>h, TakenOut, CollectedInNat
<1>3. /\ mode = "encrypt" /\ wire = Whole(segment) /\ received = Frames
      /\ \/ sent = Frames + 1 /\ Len(closing) = 0
         \/ sent = Frames + 2 /\ Len(closing) = 1
      /\ Len(closing) > 0 => closing[1] \in {wire[k] : k \in 1..(Frames + 1)}
  BY <1>1 DEF Types, Phase, EncryptPhase, DecryptPhase
<1>4. /\ Len(wire) = Frames + 2 /\ Frames \in Nat /\ segment \in Nat /\ sent \in Nat
      /\ \A n \in 1..(Frames + 2) : wire[n] = Frame(segment, n - 1)
  BY <1>1, <1>3, PhaseFacts DEF Types
<1>5. h \in SentFrames
  BY <1>1, <1>2, <1>h DEF Ledger
<1>6. /\ closing \in Seq(FrameRecord) /\ Append(closing, h) \in Seq(FrameRecord)
      /\ Len(closing') = Len(closing) + 1
      /\ Content(closing') = Content(closing) \cup {h} /\ closing' = Append(closing, h)
  BY <1>1, <1>2, <1>h, Appended DEF Types
<1>7. Types'
  BY <1>1, <1>2, <1>6 DEF Types
<1>8. Collected' = Collected + 1 /\ Collected \in Nat /\ SentFrames' = SentFrames
  <2>1. Len(closing) \in Nat /\ received \in Nat /\ Collected \in Nat
    BY <1>1, CollectedInNat DEF Types
  <2> QED
    BY <1>3, <1>6, <2>1 DEF Collected, SentFrames
<1>c. Collected + 1 = sent
  <2>1. Collected = received + Len(closing)
    BY <1>3 DEF Collected
  <2>2. CASE sent = Frames + 1 /\ Len(closing) = 0
    BY <1>3, <1>4, <2>1, <2>2
  <2>3. CASE sent = Frames + 2 /\ Len(closing) = 1
    BY <1>3, <1>4, <2>1, <2>3
  <2> QED
    BY <1>3, <2>2, <2>3
<1>9. Flights = 1 /\ \A x : Flying(x) => x = h
  <2>1. Collected + Flights <= sent
    BY <1>1 DEF Ledger
  <2>2. Flights <= 1
    BY <1>2, <1>4, <1>8, <1>c, <2>1
  <2> QED
    BY <1>1, <1>h, <2>2, OneFlies
<1>10. NoneLost
  <2>1. Collected + Flights = sent
    BY <1>4, <1>8, <1>9, <1>c
  <2> QED
    BY <1>3, <1>9, <1>h, <2>1 DEF NoneLost
<1>11. h = wire[sent]
  <2>1. sent \in 1..sent /\ wire[sent] \in SentFrames /\ wire[sent] = Frame(segment, sent - 1)
    BY <1>3, <1>4 DEF SentFrames
  <2>2. ~Kept(wire[sent])
    <3>1. sent - 1 \in Nat /\ ~(sent - 1 < Frames)
      BY <1>3, <1>4
    <3>2. wire[sent].type # "data"
      BY <1>4, <2>1, <3>1, FrameFacts
    <3>3. wire[sent] \notin Content(closing)
      <4>1. CASE Len(closing) = 0
        BY <1>6, <4>1, NoContent
      <4>2. CASE sent = Frames + 2 /\ Len(closing) = 1
        <5>1. Content(closing) = {closing[1]}
          BY <1>6, <4>2 DEF Content
        <5>2. PICK k \in 1..(Frames + 1) : closing[1] = wire[k]
          BY <1>3, <4>2
        <5>3. k - 1 \in Nat /\ wire[k] = Frame(segment, k - 1) /\ k - 1 # sent - 1
          BY <1>4, <4>2, <5>2
        <5>4. Frame(segment, k - 1).number = k - 1
          BY <1>4, <5>3, FrameFacts
        <5>5. Frame(segment, sent - 1).number = sent - 1
          BY <1>4, <3>1, FrameFacts
        <5> QED
          BY <2>1, <5>1, <5>2, <5>3, <5>4, <5>5
      <4> QED
        BY <1>3, <4>1, <4>2
    <3> QED
      BY <3>2, <3>3 DEF Kept
  <2>3. Flying(wire[sent])
    BY <1>1, <1>10, <2>1, <2>2 DEF Ledger
  <2> QED
    BY <1>9, <2>3
<1>12. \A x : Kept(x) => Kept(x)'
  BY <1>6 DEF Kept
<1>13. Kept(h)'
  <2>1. sent - 1 \in Nat /\ ~(sent - 1 < Frames) /\ h = Frame(segment, sent - 1)
    BY <1>3, <1>4, <1>11
  <2>2. h.type # "data"
    BY <1>4, <2>1, FrameFacts
  <2>3. h \in Content(closing')
    BY <1>6
  <2> QED
    BY <2>2, <2>3 DEF Kept
<1>14. Ledger'
  <2>1. Collected' + Flights' <= sent'
    <3>a. PICK g \in Nat : g = Flights' /\ g + 1 = Flights
      BY <1>2
    <3>b. g + 1 = 1
      BY <1>9, <3>a
    <3>c. g = 0
      BY ONLY <3>b, g \in Nat
    <3>1. Flights' = 0 /\ Collected' = Collected + 1 /\ sent' = sent
      BY <1>8, <3>a, <3>c
    <3> QED
      BY <1>4, <1>8, <1>c, <3>1
  <2>2. \A y : Flying(y)' => y = Bad \/ y \in SentFrames'
    BY <1>1, <1>2, <1>8 DEF Ledger
  <2>3. Content(closing') \subseteq SentFrames'
    BY <1>1, <1>5, <1>6, <1>8 DEF Ledger
  <2>4. \A y \in SentFrames' : Flying(y)' \/ Kept(y)'
    BY <1>1, <1>2, <1>8, <1>10, <1>12, <1>13 DEF Ledger
  <2> QED
    BY <2>1, <2>2, <2>3, <2>4 DEF Ledger
<1>15. Phase' /\ pc' \in Active
  <2>1. closing'[1] \in {wire[k] : k \in 1..(Frames + 1)}
    <3>1. CASE Len(closing) = 0
      <4>1. closing'[1] = h /\ sent = Frames + 1
        BY <1>3, <1>6, <3>1
      <4> QED
        BY <1>5, <4>1 DEF SentFrames
    <3>2. CASE Len(closing) = 1
      BY <1>3, <1>6, <3>2
    <3> QED
      BY <1>3, <3>1, <3>2
  <2>2. \/ pc' = "send" /\ sent = Frames + 1 /\ Len(closing') = 1
        \/ pc' = last /\ sent = Frames + 2 /\ Len(closing') = 2
    <3>1. CASE sent = Frames + 1 /\ Len(closing) = 0
      BY <1>6, <3>1
    <3>2. CASE sent = Frames + 2 /\ Len(closing) = 1
      BY <1>4, <1>6, <3>2
    <3> QED
      BY <1>3, <3>1, <3>2
  <2>3. EncryptPhase'
    BY <1>3, <1>4, <2>1, <2>2 DEF EncryptPhase
  <2>4. pc' = "send" => sent < Len(wire)
    BY <1>4, <2>2
  <2> QED
    BY <1>1, <1>3, <2>2, <2>3, <2>4 DEF Phase, Active
<1> QED
  BY <1>2, <1>7, <1>14, <1>15 DEF Pool, Active, Resting, Marking

\* A segment is begun with nothing on its way.
LEMMA TakeSegmentKeeps ==
  ASSUME Pool, pc = "recv", segment < Segments, sent' = 0, received' = 0, closing' = <<>>,
         wire' \in WiresOf(segment), mode = "encrypt" => wire' = Whole(segment),
         slots' = EmptySlots(IF mode = "encrypt" THEN Frames ELSE DataCount(wire')),
         pc' = IF mode = "encrypt" THEN "send" ELSE "validate",
         UNCHANGED <<mode, segment, frames, sealed, fw, job>>
  PROVE  Pool' /\ ~Flying(Bad)'
<1>1. Types /\ Flights = 0 /\ segment \in Nat /\ mode \in {"encrypt", "decrypt"}
  BY DEF Pool, Resting, Types
<1>2. PICK w \in Seq(FrameRecord) : w = wire'
  BY <1>1, WireFacts
<1>3. closing' \in Seq(FrameRecord) /\ Content(closing') = {} /\ Len(closing') = 0
  BY DEF Content
<1>4. Types'
  BY <1>1, <1>2, <1>3 DEF Types
<1>5. \A x : ~Flying(x)'
  <2>1. \A x : ~Flying(x)
    BY <1>1, NothingFlies
  <2>2. \A x : Flying(x)' <=> Flying(x)
    BY DEF Flying, Content, Sealing
  <2> QED
    BY <2>1, <2>2
<1>6. Flights' = 0 /\ Collected' = 0 /\ SentFrames' = {}
  <2>1. Sealing' = Sealing
    BY DEF Sealing
  <2>2. Flights' = Flights
    BY <2>1 DEF Flights
  <2>3. Collected' = 0 /\ SentFrames' = {}
    BY <1>3 DEF Collected, SentFrames
  <2> QED
    BY <1>1, <2>2, <2>3
<1>7. Ledger'
  BY <1>3, <1>5, <1>6 DEF Ledger
<1>8. Phase'
  <2>1. DOMAIN slots' = 0..((IF mode = "encrypt" THEN Frames ELSE DataCount(wire')) - 1)
    BY DEF EmptySlots
  <2>2. CASE mode = "encrypt"
    <3>1. Len(wire') = Frames + 2
      BY <1>1, <2>2, WholeFacts
    <3>2. pc' = "send" /\ 0 < Frames /\ Frames \in Nat
      BY <2>2
    <3>3. EncryptPhase'
      BY <1>3, <2>2, <3>2 DEF EncryptPhase
    <3> QED
      BY <1>1, <2>1, <2>2, <3>1, <3>2, <3>3 DEF Phase
  <2>3. CASE mode = "decrypt"
    <3>1. DecryptPhase' /\ pc' = "validate"
      BY <2>3 DEF DecryptPhase
    <3>2. 0 <= Len(wire')
      BY <1>2
    <3> QED
      BY <1>1, <2>1, <2>3, <3>1, <3>2 DEF Phase
  <2> QED
    BY <1>1, <2>2, <2>3
<1> QED
  BY <1>4, <1>5, <1>7, <1>8 DEF Pool, Active, Resting, Marking

\* An invalid wire does not come so far.
LEMMA ValidateKeeps ==
  ASSUME Pool, pc = "validate", pc' = "send", wire # <<>>,
         UNCHANGED <<mode, segment, wire, sent, received, slots, closing, frames, sealed, fw, job>>
  PROVE  Pool' /\ (Flying(Bad)' => Flying(Bad))
<1>1. Types /\ Phase /\ Ledger
  BY DEF Pool
<1>2. mode = "decrypt" /\ sent = 0 /\ received = 0 /\ Len(wire) \in Nat /\ Len(wire) > 0
  BY <1>1 DEF Types, Phase, EncryptPhase, DecryptPhase
<1>3. Types' /\ Ledger' /\ (Flying(Bad)' <=> Flying(Bad))
  <2>1. \A x : (Flying(x)' <=> Flying(x)) /\ (Kept(x)' <=> Kept(x))
    BY DEF Flying, Content, Kept, Sealing
  <2>2. Flights' = Flights /\ Collected' = Collected /\ SentFrames' = SentFrames
    BY DEF Flights, Sealing, Collected, SentFrames
  <2>3. NoneLost' => NoneLost
    BY <2>1, <2>2 DEF NoneLost
  <2>4. Ledger'
    BY <1>1, <2>1, <2>2, <2>3 DEF Ledger, Content
  <2> QED
    BY <1>1, <2>1, <2>4 DEF Types
<1>4. Phase'
  BY <1>1, <1>2 DEF Phase, DecryptPhase
<1> QED
  BY <1>3, <1>4 DEF Pool, Active, Resting, Marking

\* A worker that has left needs no account of its frames.
LEMMA LeaveKeeps ==
  ASSUME Types', pc' \notin Resting \cup Active \cup {"validate"}
  PROVE  Pool'
BY DEF Pool

LEMMA RestKeeps ==
  ASSUME Types', Flights' = 0, pc' \in Resting
  PROVE  Pool'
BY DEF Pool, Resting, Active, Marking

\* When a segment is put together, all its frames are back.
LEMMA Complete ==
  ASSUME Pool, pc \in {"emit", "finish"}
  PROVE  /\ Types /\ Phase /\ Flights = 0 /\ Content(closing) \subseteq Content(wire)
         /\ DataOf(wire) = DataOf(Whole(segment)) => \A x \in Content(wire) : Kept(x)
<1>1. Types /\ Phase /\ Ledger
  BY DEF Pool, Active
<1>2. Len(wire) \in Nat /\ SentFrames \subseteq Content(wire) /\ Content(closing) \subseteq Content(wire)
  BY <1>1, PhaseFacts DEF Ledger
<1>3. Collected = sent /\ sent = Len(wire)
  <2>1. CASE mode = "encrypt"
    <3>1. sent = Frames + 2 /\ received = Frames /\ Len(closing) = 2 /\ Len(wire) = Frames + 2
      BY <1>1, <2>1, PhaseFacts DEF Phase, EncryptPhase
    <3> QED
      BY <2>1, <3>1 DEF Collected
  <2>2. CASE mode = "decrypt"
    BY <1>1, <2>2 DEF Phase, DecryptPhase, Collected
  <2> QED
    BY <1>1, <2>1, <2>2 DEF Types
<1>4. Flights = 0
  <2>1. Collected \in Nat /\ Flights \in Nat
    BY <1>1, CollectedInNat
  <2>2. Collected + Flights <= sent
    BY <1>1 DEF Ledger
  <2> QED
    BY <1>3, <2>1, <2>2
<1>5. \A x : ~Flying(x)
  BY <1>1, <1>4, NothingFlies
<1>6. ASSUME DataOf(wire) = DataOf(Whole(segment)), NEW x \in Content(wire)
      PROVE  Kept(x)
  <2>1. Collected \in Nat
    BY <1>1, CollectedInNat
  <2>2. NoneLost
    BY <1>3, <1>4, <1>5, <1>6, <2>1 DEF NoneLost
  <2>3. x \in SentFrames
    BY <1>1, <1>3, PhaseFacts DEF SentFrames, Content
  <2> QED
    BY <1>1, <1>5, <2>2, <2>3 DEF Ledger
<1> QED
  BY <1>1, <1>2, <1>4, <1>6

LEMMA WholeIs ==
  ASSUME NEW s \in Nat, NEW c \in Seq(FrameRecord), Len(c) = 2,
         c[1] = Frame(s, Frames), c[2] = Frame(s, Frames + 1)
  PROVE  [n \in 1..Frames |-> Frame(s, n - 1)] \o c = Whole(s)
<1> DEFINE d == [n \in 1..Frames |-> Frame(s, n - 1)]
<1>a. Frames \in Nat
  BY FramesAssumption
<1>b. \A n \in Nat : Frame(s, n) \in FrameRecord
  BY FrameFacts
<1>1. Frames \in Nat /\ \A n \in 1..Frames : n - 1 \in Nat /\ Frame(s, n - 1) \in FrameRecord
  BY <1>a, <1>b
<1>2. /\ d \in Seq(FrameRecord) /\ Len(d) = Frames
      /\ \A n \in 1..Frames : d[n] = Frame(s, n - 1)
  BY <1>1
<1> HIDE DEF d
<1>3. /\ d \o c \in Seq(FrameRecord) /\ Len(d \o c) = Frames + 2
      /\ \A n \in 1..(Frames + 2) : (d \o c)[n] = IF n <= Frames THEN d[n] ELSE c[n - Frames]
  <2>1. /\ d \o c \in Seq(FrameRecord) /\ Len(d \o c) = Len(d) + Len(c)
        /\ \A n \in 1..(Len(d) + Len(c)) : (d \o c)[n] = IF n <= Len(d) THEN d[n] ELSE c[n - Len(d)]
    BY <1>2, ConcatProperties, Zenon
  <2>2. Len(d) = Frames /\ Len(c) = 2
    BY <1>2
  <2> QED
    BY <2>1, <2>2
<1>4. \A n \in 1..(Frames + 2) : (d \o c)[n] = Whole(s)[n]
  <2> SUFFICES ASSUME NEW n \in 1..(Frames + 2) PROVE (d \o c)[n] = Whole(s)[n]
    OBVIOUS
  <2>1. Whole(s)[n] = Frame(s, n - 1)
    BY WholeFacts
  <2>2. \/ n \in 1..Frames
        \/ n = Frames + 1 /\ n - Frames = 1 /\ n - 1 = Frames
        \/ n = Frames + 2 /\ n - Frames = 2 /\ n - 1 = Frames + 1
    BY <1>1
  <2>3. (d \o c)[n] = IF n <= Frames THEN d[n] ELSE c[n - Frames]
    BY <1>3
  <2>4. CASE n \in 1..Frames
    BY <1>1, <1>2, <2>1, <2>3, <2>4
  <2>5. CASE n = Frames + 1 /\ n - Frames = 1 /\ n - 1 = Frames
    BY <1>1, <2>1, <2>3, <2>5
  <2>6. CASE n = Frames + 2 /\ n - Frames = 2 /\ n - 1 = Frames + 1
    BY <1>1, <2>1, <2>3, <2>6
  <2> QED
    BY <2>2, <2>4, <2>5, <2>6
<1>5. Whole(s) \in Seq(FrameRecord) /\ Len(Whole(s)) = Frames + 2
  BY WholeFacts
<1>6. d \o c = Whole(s)
  BY <1>3, <1>4, <1>5, SeqEqual
<1> QED
  BY <1>6 DEF d

\* What is handed on is the segment and nothing but the segment.
LEMMA Assembled ==
  ASSUME Pool, pc \in {"emit", "finish"}, mode = "encrypt" \/ Accepts(segment, wire, closing),
         NEW data, data = [n \in 1..Frames |-> slots[n - 1]]
  PROVE  /\ DOMAIN slots = 0..(Frames - 1) /\ data = DataOf(Whole(segment))
         /\ mode = "encrypt" => data \o closing = Whole(segment)
<1>1. /\ Types /\ Phase /\ Content(closing) \subseteq Content(wire) /\ segment \in Nat
      /\ Frames \in Nat /\ Frames > 0
  BY Complete DEF Types
<1>2. DataCount(wire) = Frames /\ DataOf(wire) = DataOf(Whole(segment))
  <2>1. CASE mode = "encrypt"
    BY <1>1, <2>1, WholeFacts DEF Phase, EncryptPhase
  <2>2. CASE Accepts(segment, wire, closing)
    BY <1>1, <2>2, AcceptedFacts DEF Phase
  <2> QED
    BY <2>1, <2>2
<1>3. \A x \in Content(wire) : Kept(x)
  BY <1>2, Complete
<1>4. DOMAIN slots = 0..(Frames - 1)
  BY <1>1, <1>2 DEF Phase
<1>5. \A n \in 1..Frames : slots[n - 1] = Frame(segment, n - 1)
  <2> SUFFICES ASSUME NEW n \in 1..Frames PROVE slots[n - 1] = Frame(segment, n - 1)
    OBVIOUS
  <2>1. n - 1 \in Nat /\ n - 1 < Frames
    BY <1>1
  <2>2. Frame(segment, n - 1).type = "data" /\ Frame(segment, n - 1).number = n - 1
    BY <1>1, <2>1, FrameFacts
  <2>3. Frame(segment, n - 1) \in Content(wire)
    BY <1>1, <1>2, DataFrames DEF Types
  <2>4. Kept(Frame(segment, n - 1))
    BY <1>3, <2>3
  <2> QED
    BY <2>2, <2>4 DEF Kept
<1>6. data = [n \in 1..Frames |-> Frame(segment, n - 1)]
  BY <1>5
<1>7. data = DataOf(Whole(segment))
  BY <1>1, <1>6, DataOfWhole
<1>8. ASSUME mode = "encrypt"
      PROVE  data \o closing = Whole(segment)
  <2>1. /\ Len(closing) = 2 /\ closing \in Seq(FrameRecord) /\ wire = Whole(segment)
        /\ closing[1] \in {wire[k] : k \in 1..(Frames + 1)}
    BY <1>1, <1>8 DEF Types, Phase, EncryptPhase
  <2> DEFINE digest == Frame(segment, Frames)
             last == Frame(segment, Frames + 1)
  <2>2. /\ digest.type # "data" /\ last.type # "data"
        /\ digest.number = Frames /\ last.number = Frames + 1 /\ digest # last
    BY <1>1, FrameFacts
  <2>3. Kept(digest) /\ Kept(last)
    <3>1. Frames + 1 \in 1..(Frames + 2) /\ Frames + 2 \in 1..(Frames + 2)
          /\ (Frames + 1) - 1 = Frames /\ (Frames + 2) - 1 = Frames + 1
      BY <1>1
    <3>2. /\ DOMAIN wire = 1..(Frames + 2)
          /\ \A n \in 1..(Frames + 2) : wire[n] = Frame(segment, n - 1)
      BY <1>1, <2>1, PhaseFacts
    <3>3. wire[Frames + 1] = digest /\ wire[Frames + 2] = last
      BY <3>1, <3>2 DEF digest, last
    <3>4. digest \in Content(wire) /\ last \in Content(wire)
      BY <3>1, <3>2, <3>3 DEF Content
    <3> QED
      BY <1>3, <3>4
  <2>4. digest \in Content(closing) /\ last \in Content(closing)
    BY <2>2, <2>3 DEF Kept
  <2> HIDE DEF digest, last
  <2>5. digest \in {closing[1], closing[2]} /\ last \in {closing[1], closing[2]}
    BY <2>1, <2>4 DEF Content
  <2>6. closing[1] # last
    <3>1. PICK k \in 1..(Frames + 1) : closing[1] = wire[k]
      BY <2>1
    <3>2. k - 1 \in Nat /\ k - 1 < Frames + 1 /\ closing[1] = Frame(segment, k - 1)
      BY <1>1, <2>1, <3>1, PhaseFacts
    <3>3. closing[1].number = k - 1
      BY <1>1, <3>2, FrameFacts
    <3> QED
      BY <1>1, <2>2, <3>2, <3>3
  <2>7. closing[1] = digest /\ closing[2] = last
    BY <2>2, <2>5, <2>6
  <2> QED
    BY <1>1, <1>6, <2>1, <2>7, WholeIs DEF digest, last
<1> QED
  BY <1>4, <1>7, <1>8

-----------------------------------------------------------------------------
(* The v3 worker.                                                          *)

\* No v3 frame worker puts an error on its way.
Clean == pc \in Active \cup {"validate"} => ~Flying(Bad)

LEMMA InitPool == Init => Pool /\ Clean
<1> SUFFICES ASSUME Init PROVE Pool /\ Clean
  OBVIOUS
<1>1. <<>> \in Seq(FrameRecord) /\ Len(<<>>) = 0 /\ NoFrame \in FrameRecord
  BY DEF NoFrame, FrameRecord, FrameType
<1>2. Types
  BY <1>1 DEF Init, Types, Stations
<1>3. Sealing = {}
  BY DEF Init, Sealing
<1>4. Flights = 0
  <2>1. Cardinality(Sealing) = 0
    BY <1>3, FS_EmptySet
  <2> QED
    BY <1>1, <2>1 DEF Init, Flights
<1> QED
  BY <1>2, <1>4 DEF Init, Pool, Clean, Resting, Active, Marking

\* Pool and Clean read these variables only.
LEMMA PoolUnchanged ==
  ASSUME Pool, UNCHANGED <<mode, pc, segment, wire, sent, received, slots, closing, frames, sealed, fw, job>>
  PROVE  Pool' /\ (Flying(Bad)' <=> Flying(Bad))
<1>1. fw' \in [FrameWorkers -> Stations] /\ Types
  BY DEF Pool, Types
<1>2. Pool'
  BY <1>1, TurnKeeps
<1> QED
  BY <1>2 DEF Flying, Content, Sealing

\* The pool is spawned, or is not, before anything is on its way.
LEMMA SpawnKeeps ==
  ASSUME Pool, pc = "spawn", fw' \in [FrameWorkers -> Stations],
         \A f \in FrameWorkers : fw'[f] = "seal" <=> fw[f] = "seal",
         UNCHANGED <<mode, segment, wire, sent, received, slots, closing, frames, sealed, job>>
  PROVE  Types' /\ Flights' = 0
<1>1. Types /\ Flights = 0
  BY DEF Pool, Resting
<1>2. Sealing' = Sealing
  BY DEF Sealing
<1> QED
  BY <1>1, <1>2 DEF Types, Flights

LEMMA WorkerKeepsPool ==
  ASSUME Pool, Clean, Worker
  PROVE  Pool' /\ Clean'
<1>1. Types /\ Bad \in FrameRecord
  BY DEF Pool, Bad, FrameRecord, FrameType
<1>2. CASE SpawnPool
  <2>1. /\ pc = "spawn" /\ fw' \in [FrameWorkers -> Stations]
        /\ \A f \in FrameWorkers : fw'[f] = "seal" <=> fw[f] = "seal"
        /\ UNCHANGED <<mode, segment, wire, sent, received, slots, closing, frames, sealed, job>>
        /\ pc' \in {"spawn", "recv", "panicked"}
    <3>1. /\ pc = "spawn" /\ pc' \in {"spawn", "recv", "panicked"}
          /\ UNCHANGED <<mode, segment, wire, sent, received, slots, closing, frames, sealed, job>>
      BY <1>2 DEF SpawnPool
    <3>2. \/ \E f \in FrameWorkers : fw[f] = "unspawned" /\ fw' = [fw EXCEPT ![f] = "select"]
          \/ fw' = [f \in FrameWorkers |-> IF fw[f] = "unspawned" THEN "done" ELSE fw[f]]
      <4>1. \A f \in FrameWorkers :
              f \in {g \in FrameWorkers : fw[g] = "unspawned"} <=> fw[f] = "unspawned"
        OBVIOUS
      <4> QED
        BY <1>2, <4>1 DEF SpawnPool
    <3>3. fw \in [FrameWorkers -> Stations]
      BY <1>1 DEF Types
    <3> QED
      BY <3>1, <3>2, <3>3 DEF Stations
  <2>2. Types' /\ Flights' = 0
    BY <2>1, SpawnKeeps
  <2>3. CASE pc' = "panicked"
    BY <2>2, <2>3, LeaveKeeps DEF Clean, Active, Resting, Marking
  <2>4. CASE pc' \in {"spawn", "recv"}
    BY <2>2, <2>4, RestKeeps DEF Clean, Active, Resting, Marking
  <2> QED
    BY <2>1, <2>3, <2>4
<1>3. CASE TakeSegment
  <2>1. CASE segment < Segments /\ ~cancelled
    <3>1. segment \in Nat /\ ~(segment > Segments) /\ segment # Segments
      BY <1>1, <2>1 DEF Types
    <3>2. /\ pc = "recv" /\ sent' = 0 /\ received' = 0 /\ closing' = <<>>
          /\ slots' = EmptySlots(IF mode = "encrypt" THEN Frames ELSE DataCount(wire'))
          /\ pc' = (IF mode = "encrypt" THEN "send" ELSE "validate")
          /\ \/ wire' = Whole(segment)
             \/ mode = "decrypt" /\ wire' \in Wires
          /\ UNCHANGED <<mode, segment, frames, sealed, fw, job>>
      BY <1>3, <2>1, <3>1 DEF TakeSegment, poolVars
    <3>3. wire' \in WiresOf(segment) /\ (mode = "encrypt" => wire' = Whole(segment))
      BY <3>2 DEF WiresOf
    <3> QED
      BY <2>1, <3>2, <3>3, TakeSegmentKeeps DEF Clean
  <2>2. CASE ~(segment < Segments /\ ~cancelled)
    <3>1. /\ pc = "recv" /\ pc' \in {"final", "done"}
          /\ UNCHANGED <<mode, segment, wire, sent, received, slots, closing, frames, sealed, fw, job>>
      <4>1. segment \in Nat /\ (segment > Segments \/ cancelled \/ segment = Segments)
        BY <1>1, <2>2 DEF Types
      <4> QED
        BY <1>3, <4>1 DEF TakeSegment, poolVars
    <3>2. Types'
      BY <1>1, <3>1 DEF Types
    <3>3. Flights' = 0
      <4>1. Flights = 0 /\ Sealing' = Sealing
        BY <3>1 DEF Pool, Resting, Sealing
      <4> QED
        BY <3>1, <4>1 DEF Flights
    <3>4. CASE pc' = "done"
      BY <3>2, <3>4, LeaveKeeps DEF Clean, Active, Resting, Marking
    <3>5. CASE pc' = "final"
      BY <3>2, <3>3, <3>5, RestKeeps DEF Clean, Active, Resting, Marking
    <3> QED
      BY <3>1, <3>4, <3>5
  <2> QED
    BY <2>1, <2>2
<1>4. CASE Validate
  <2>1. /\ pc = "validate" /\ (pc' = "done" \/ (wire # <<>> /\ pc' = "send"))
        /\ UNCHANGED <<mode, segment, wire, sent, received, slots, closing, frames, sealed, fw, job>>
    BY <1>4 DEF Validate, poolVars
  <2>2. CASE pc' = "done"
    <3>1. Types'
      BY <1>1, <2>1 DEF Types
    <3> QED
      BY <2>2, <3>1, LeaveKeeps DEF Clean, Active, Resting, Marking
  <2>3. CASE wire # <<>> /\ pc' = "send"
    BY <2>1, <2>3, ValidateKeeps DEF Clean
  <2> QED
    BY <2>1, <2>2, <2>3
<1>5. CASE SendFrame
  <2>1. pc = "send" /\ UNCHANGED <<mode, segment, wire, received, slots, closing, sealed, fw, job>>
    BY <1>5 DEF SendFrame, poolVars
  <2>2. CASE wire[sent + 1] # Torn /\ PoolAlive
    <3>1. frames' = Append(frames, wire[sent + 1]) /\ sent' = sent + 1 /\ pc' = AfterSend(sent)
      BY <1>5, <2>2 DEF SendFrame
    <3>2. Pool' /\ (Flying(Bad)' => Flying(Bad))
      BY <2>1, <3>1, SendFrameKeeps
    <3> QED
      BY <2>1, <3>2 DEF Clean, Active
  <2>3. CASE ~(wire[sent + 1] # Torn /\ PoolAlive)
    <3>1. pc' = "done" /\ UNCHANGED <<frames, sent>>
      BY <1>5, <2>3 DEF SendFrame
    <3>2. Types'
      BY <1>1, <2>1, <3>1 DEF Types
    <3> QED
      BY <3>1, <3>2, LeaveKeeps DEF Clean, Active, Resting, Marking
  <2> QED
    BY <2>2, <2>3
<1>6. CASE Collect
  <2>1. /\ pc = "collect" /\ sealed # <<>> /\ received' = received + 1 /\ sealed' = Tail(sealed)
        /\ UNCHANGED <<mode, segment, wire, sent, frames, fw, job>>
        /\ pc' = AfterCollect(Head(sealed)) /\ Store(Head(sealed))
    BY <1>6 DEF Collect, poolVars
  <2>2. Head(sealed) \in FrameRecord /\ Head(sealed) # Bad /\ sealed' \in Seq(FrameRecord)
    <3>1. Flying(Head(sealed)) /\ Head(sealed) \in FrameRecord /\ sealed' \in Seq(FrameRecord)
      BY <1>1, <2>1, TakenOut
    <3> QED
      BY <2>1, <3>1 DEF Clean, Active
  <2>3. \/ slots' = slots /\ closing' = closing
        \/ /\ Head(sealed).type = "data" /\ Head(sealed).number \in DOMAIN slots
           /\ slots' = [slots EXCEPT ![Head(sealed).number] = Head(sealed)] /\ closing' = closing
        \/ /\ Head(sealed).type # "data" /\ ~HasType(closing, Head(sealed).type)
           /\ closing' = Append(closing, Head(sealed)) /\ slots' = slots
    BY <2>1 DEF Store
  <2>4. closing' \in Seq(FrameRecord)
    <3>1. closing \in Seq(FrameRecord) /\ Append(closing, Head(sealed)) \in Seq(FrameRecord)
      BY <1>1, <2>2, Appended DEF Types
    <3> QED
      BY <2>3, <3>1
  <2>5. Types'
    BY <1>1, <2>1, <2>2, <2>4 DEF Types
  <2>6. CASE pc' \in {"panicked", "done"}
    BY <2>5, <2>6, LeaveKeeps DEF Clean, Active, Resting, Marking
  <2>7. CASE pc' \notin {"panicked", "done"}
    <3>1. /\ ~(Head(sealed).type = "data" /\ Head(sealed).number \notin DOMAIN slots)
          /\ ~(Head(sealed).type # "data" /\ HasType(closing, Head(sealed).type))
          /\ pc' = GoesOn("emit")
      BY <2>1, <2>7 DEF AfterCollect, GoesOn
    <3>2. \/ /\ Head(sealed).type = "data" /\ Head(sealed).number \in DOMAIN slots
             /\ slots' = [slots EXCEPT ![Head(sealed).number] = Head(sealed)]
             /\ closing' = closing
          \/ /\ Head(sealed).type # "data" /\ Head(sealed) # Bad
             /\ closing' = Append(closing, Head(sealed))
             /\ slots' = slots
      BY <2>1, <2>2, <3>1 DEF Store
    <3>3. Pool' /\ (Flying(Bad)' => Flying(Bad))
      BY <2>1, <3>1, <3>2, CollectKeeps
    <3> QED
      BY <2>1, <3>3 DEF Clean, Active
  <2> QED
    BY <2>6, <2>7
<1>7. CASE CollectClosing
  <2>1. /\ pc = "wait" /\ sealed # <<>> /\ sealed' = Tail(sealed)
        /\ closing' = Append(closing, Head(sealed))
        /\ pc' = (IF sent = Frames + 1 THEN "send" ELSE "emit")
        /\ UNCHANGED <<mode, segment, wire, sent, received, slots, frames, fw, job>>
    BY <1>7 DEF CollectClosing, poolVars
  <2>2. Head(sealed) # Bad
    BY <1>1, <2>1, TakenOut DEF Clean, Active
  <2>3. Pool' /\ (Flying(Bad)' => Flying(Bad))
    BY <2>1, <2>2, CollectClosingKeeps
  <2> QED
    BY <2>1, <2>3 DEF Clean, Active
<1>8. CASE EmitFinal \/ Emit
  <2>1. /\ pc \in {"final", "emit"} /\ pc' \in {"recv", "done"} /\ segment' \in {segment, segment + 1}
        /\ UNCHANGED <<mode, wire, sent, received, slots, closing, frames, sealed, fw, job>>
    BY <1>8 DEF EmitFinal, Emit, Deliver, poolVars
  <2>2. Types'
    BY <1>1, <2>1 DEF Types
  <2>3. Flights' = 0
    <3>1. pc = "final" => Flights = 0
      BY DEF Pool, Resting, Marking
    <3>2. Flights = 0 /\ Sealing' = Sealing
      BY <2>1, <3>1, Complete DEF Sealing
    <3> QED
      BY <2>1, <3>2 DEF Flights
  <2>4. CASE pc' = "done"
    BY <2>2, <2>4, LeaveKeeps DEF Clean, Active, Resting, Marking
  <2>5. CASE pc' = "recv"
    BY <2>2, <2>3, <2>5, RestKeeps DEF Clean, Active, Resting, Marking
  <2> QED
    BY <2>1, <2>4, <2>5
<1>9. CASE PoolGone \/ TakeToken \/ Timeout
  <2>1. pc' = "done" /\ UNCHANGED <<mode, segment, wire, sent, received, slots, closing, frames, sealed, fw, job>>
    BY <1>9 DEF PoolGone, TakeToken, Timeout, poolVars, cancelVars
  <2>2. Types'
    BY <1>1, <2>1 DEF Types
  <2> QED
    BY <2>1, <2>2, LeaveKeeps DEF Clean, Active, Resting, Marking
<1> QED
  BY <1>2, <1>3, <1>4, <1>5, <1>6, <1>7, <1>8, <1>9 DEF Worker

LEMMA FrameWorkerKeepsPool ==
  ASSUME Pool, Clean, NEW f \in FrameWorkers, FrameWorker(f)
  PROVE  Pool' /\ Clean'
<1>1. Types /\ fw \in [FrameWorkers -> Stations]
  BY DEF Pool, Types
<1>2. UNCHANGED <<mode, pc, segment, wire, sent, received, slots, closing>>
  BY DEF FrameWorker, TakeFrame, Seal, Stop, workerVars
<1>3. CASE TakeFrame(f)
  <2>1. PICK p \in {"seal", "done"} : fw' = [fw EXCEPT ![f] = p]
    BY <1>3 DEF TakeFrame
  <2>2. /\ fw[f] = "select" /\ frames # <<>> /\ job' = [job EXCEPT ![f] = Head(frames)]
        /\ frames' = Tail(frames) /\ sealed' = sealed
    BY <1>3 DEF TakeFrame
  <2>3. Pool' /\ (Flying(Bad)' => Flying(Bad))
    BY <1>2, <2>1, <2>2, TakeFrameKeeps
  <2> QED
    BY <1>2, <2>3 DEF Clean
<1>4. CASE Seal(f)
  <2>1. PICK p \in {"select", "done"} : fw' = [fw EXCEPT ![f] = p]
    BY <1>4 DEF Seal
  <2>2. /\ fw[f] = "seal" /\ frames' = frames /\ job' = job
        /\ sealed' = sealed \/ sealed' = Append(sealed, job[f])
    BY <1>4 DEF Seal
  <2>3. p \in Stations \ {"seal"} /\ sealed' \in {sealed, Append(sealed, job[f]), Append(sealed, Bad)}
    BY <2>1, <2>2 DEF Stations
  <2>4. sealed' # Append(sealed, Bad) \/ job[f] = Bad
    <3>1. Append(sealed, Bad) # sealed
      <4>1. Len(Append(sealed, Bad)) # Len(sealed)
        BY <1>1, Appended DEF Types, Bad, FrameRecord, FrameType
      <4> QED
        BY <4>1
    <3>2. Append(sealed, job[f]) = Append(sealed, Bad) => job[f] = Bad
      BY <1>1 DEF Types, Bad, FrameRecord, FrameType
    <3> QED
      BY <2>2, <3>1, <3>2
  <2>5. Pool' /\ (Flying(Bad)' => Flying(Bad))
    BY <1>2, <2>1, <2>2, <2>3, <2>4, SealKeeps
  <2> QED
    BY <1>2, <2>5 DEF Clean
<1>5. CASE Stop(f)
  <2>1. fw[f] = "select" /\ fw' = [fw EXCEPT ![f] = "done"] /\ UNCHANGED <<frames, sealed, job>>
    BY <1>5 DEF Stop
  <2>2. fw' \in [FrameWorkers -> Stations] /\ \A g \in FrameWorkers : fw'[g] = "seal" <=> fw[g] = "seal"
    BY <1>1, <2>1 DEF Stations
  <2>3. Pool' /\ (Flying(Bad)' => Flying(Bad))
    BY <1>2, <2>1, <2>2, TurnKeeps
  <2> QED
    BY <1>2, <2>3 DEF Clean
<1> QED
  BY <1>3, <1>4, <1>5 DEF FrameWorker

LEMMA NextPool == Pool /\ Clean /\ [Next]_vars => Pool' /\ Clean'
<1> SUFFICES ASSUME Pool, Clean, [Next]_vars PROVE Pool' /\ Clean'
  OBVIOUS
<1>1. CASE Receive \/ LeaveReceiver \/ Cancel \/ StealToken \/ UNCHANGED vars
  <2>1. UNCHANGED <<mode, pc, segment, wire, sent, received, slots, closing, frames, sealed, fw, job>>
    BY <1>1 DEF Receive, LeaveReceiver, Cancel, StealToken, vars, workerVars, poolVars
  <2> QED
    BY <2>1, PoolUnchanged DEF Clean
<1> QED
  BY <1>1, WorkerKeepsPool, FrameWorkerKeepsPool DEF Next, Finished

\* What a worker hands on, and that it does so in order.
Handed ==
  [segment : Nat, frames : {<<>>} \cup {Whole(s) : s \in Nat} \cup {DataOf(Whole(s)) : s \in Nat}]

InOrder(q) ==
  \A i \in DOMAIN q :
    /\ q[i].segment = i - 1
    /\ i <= Segments => q[i].frames = IF mode = "encrypt" THEN Whole(i - 1) ELSE DataOf(Whole(i - 1))

Delivered(q) == q \in Seq(Handed) /\ Len(q) = segment /\ segment <= Segments + 1 /\ InOrder(q)

LEMMA HandOn ==
  ASSUME segment \in Nat, NEW q, Delivered(q), segment <= Segments, NEW e, e.segment = segment,
         e = [segment |-> segment, frames |-> e.frames],
         IF segment = Segments THEN e.frames = <<>>
         ELSE e.frames = IF mode = "encrypt" THEN Whole(segment) ELSE DataOf(Whole(segment))
  PROVE  /\ Append(q, e) \in Seq(Handed) /\ Len(Append(q, e)) = segment + 1 /\ InOrder(Append(q, e))
         /\ Append(q, e)[segment + 1] = e
<1>1. e \in Handed
  BY DEF Handed
<1>2. q \in Seq(Handed) /\ Len(q) = segment
  BY DEF Delivered
<1>3. /\ Append(q, e) \in Seq(Handed) /\ Len(Append(q, e)) = segment + 1
      /\ DOMAIN Append(q, e) = 1..(segment + 1) /\ DOMAIN q = 1..segment
      /\ Append(q, e)[segment + 1] = e /\ \A i \in 1..segment : Append(q, e)[i] = q[i]
  BY <1>1, <1>2
<1>4. \A i \in 1..(segment + 1) : i \in 1..segment \/ (i = segment + 1 /\ i - 1 = segment)
  OBVIOUS
<1>5. segment + 1 <= Segments => segment # Segments
  OBVIOUS
<1>6. InOrder(Append(q, e))
  <2> SUFFICES ASSUME NEW i \in 1..(segment + 1)
               PROVE  /\ Append(q, e)[i].segment = i - 1
                      /\ i <= Segments => Append(q, e)[i].frames =
                           IF mode = "encrypt" THEN Whole(i - 1) ELSE DataOf(Whole(i - 1))
    BY <1>3 DEF InOrder
  <2>1. CASE i \in 1..segment
    BY <1>3, <2>1 DEF Delivered, InOrder
  <2>2. CASE i = segment + 1 /\ i - 1 = segment
    BY <1>3, <1>5, <2>2
  <2> QED
    BY <1>4, <2>1, <2>2
<1> QED
  BY <1>3, <1>6

\* Only the FINAL marker is handed on without frames.
AtTheEnd == pc \in Marking => segment = Segments

LEMMA NextAtTheEnd == Types /\ AtTheEnd /\ [Next]_vars => AtTheEnd'
<1> SUFFICES ASSUME Types, AtTheEnd, [Next]_vars PROVE AtTheEnd'
  OBVIOUS
<1>1. CASE TakeSegment
  <2>1. segment' = segment /\ (pc' = "final" => segment = Segments) /\ pc' # "validateFinal"
    BY <1>1 DEF TakeSegment
  <2> QED
    BY <2>1 DEF AtTheEnd, Marking
<1>2. CASE EmitFinal \/ Emit
  <2>1. pc' \in {"recv", "done"}
    BY <1>2 DEF EmitFinal, Emit, Deliver
  <2> QED
    BY <2>1 DEF AtTheEnd, Marking
<1>3. CASE SpawnPool \/ Validate \/ SendFrame \/ CollectClosing \/ PoolGone \/ TakeToken \/ Timeout
  <2>1. pc' \notin Marking
    BY <1>3 DEF SpawnPool, Validate, SendFrame, AfterSend, CollectClosing, PoolGone, TakeToken,
                Timeout, Marking
  <2> QED
    BY <2>1 DEF AtTheEnd
<1>4. CASE Collect
  <2>1. pc' = AfterCollect(Head(sealed))
    BY <1>4 DEF Collect
  <2>2. pc' \notin Marking
    BY <2>1 DEF AfterCollect, Marking
  <2> QED
    BY <2>2 DEF AtTheEnd
<1>5. CASE \/ \E f \in FrameWorkers : FrameWorker(f)
           \/ Receive \/ LeaveReceiver \/ Cancel \/ StealToken \/ UNCHANGED vars
  <2>1. UNCHANGED <<pc, segment>>
    BY <1>5 DEF FrameWorker, TakeFrame, Seal, Stop, Receive, LeaveReceiver, Cancel, StealToken,
                vars, workerVars
  <2> QED
    BY <2>1 DEF AtTheEnd
<1> QED
  BY <1>1, <1>2, <1>3, <1>4, <1>5 DEF Next, Finished, Worker

\* A segment is put together from all its frames, so it is whole; the marker
\* is handed on behind the last one.
LEMMA NextDelivered ==
  Pool /\ AtTheEnd /\ Delivered(emitted) /\ [Next]_vars => Delivered(emitted)'
<1> SUFFICES ASSUME Pool, AtTheEnd, Delivered(emitted), [Next]_vars PROVE Delivered(emitted)'
  OBVIOUS
<1>1. Types /\ segment \in Nat
  BY DEF Pool, Types
<1>2. CASE EmitFinal /\ emitted' # emitted
  <2>1. /\ emitted' = Append(emitted, [segment |-> segment, frames |-> <<>>])
        /\ segment' = segment + 1 /\ mode' = mode /\ pc = "final"
    BY <1>2 DEF EmitFinal, Deliver
  <2>2. segment = Segments
    BY <2>1 DEF AtTheEnd, Marking
  <2>3. /\ emitted' \in Seq(Handed) /\ Len(emitted') = segment + 1 /\ InOrder(emitted')
    BY <1>1, <2>1, <2>2, HandOn
  <2> QED
    BY <2>1, <2>2, <2>3 DEF Delivered, InOrder
<1>3. CASE Emit /\ emitted' # emitted
  <2>1. PICK data : data = [n \in 1..Frames |-> slots[n - 1]]
    OBVIOUS
  <2>d. pc = "emit" /\ (mode = "encrypt" \/ Accepts(segment, wire, closing))
    BY <1>3 DEF Emit
  <2>c. Cardinality(DOMAIN slots) = Frames
    <3>1. DOMAIN slots = 0..(Frames - 1) /\ Frames \in Nat
      BY <2>1, <2>d, Assembled
    <3>2. Cardinality(0..(Frames - 1)) = Frames
      BY FS_Interval
    <3> QED
      BY <3>1, <3>2
  <2>2. /\ emitted' = Append(emitted,
             [segment |-> segment, frames |-> IF mode = "encrypt" THEN data \o closing ELSE data])
        /\ segment' = segment + 1 /\ mode' = mode /\ pc = "emit"
    BY <1>3, <2>1, <2>c, <2>d DEF Emit, Deliver
  <2>3. data = DataOf(Whole(segment)) /\ (mode = "encrypt" => data \o closing = Whole(segment))
    BY <2>1, <2>d, Assembled
  <2>4. segment < Segments
    BY <2>2, Complete DEF Phase
  <2> DEFINE e == [segment |-> segment, frames |-> IF mode = "encrypt" THEN data \o closing ELSE data]
  <2>a. /\ e.segment = segment /\ e = [segment |-> segment, frames |-> e.frames]
        /\ e.frames = IF mode = "encrypt" THEN Whole(segment) ELSE DataOf(Whole(segment))
    BY <2>3
  <2>b. segment <= Segments /\ segment # Segments /\ emitted' = Append(emitted, e)
    BY <1>1, <2>2, <2>4
  <2> HIDE DEF e
  <2>5. emitted' \in Seq(Handed) /\ Len(emitted') = segment + 1 /\ InOrder(emitted')
    <3>1. InOrder(Append(emitted, e)) /\ Append(emitted, e) \in Seq(Handed) /\ Len(Append(emitted, e)) = segment + 1
      BY <1>1, <2>a, <2>b, HandOn
    <3> QED
      BY <2>b, <3>1
  <2> QED
    BY <1>1, <2>2, <2>4, <2>5 DEF Delivered, InOrder
<1>4. CASE UNCHANGED <<mode, segment, emitted>>
  BY <1>4 DEF Delivered, InOrder
<1>5. CASE EmitFinal \/ Emit
  <2>1. mode' = mode /\ (emitted' = emitted => segment' = segment)
    <3>1. mode' = mode
      BY <1>5 DEF EmitFinal, Emit
    <3>2. ASSUME NEW e, emitted' = Append(emitted, e) PROVE emitted' # emitted
      <4>1. Len(emitted) \in Nat /\ Len(Append(emitted, e)) = Len(emitted) + 1
        BY DEF Delivered
      <4> QED
        BY <3>2, <4>1
    <3>3. segment' = segment \/ \E e : emitted' = Append(emitted, e)
      BY <1>5 DEF EmitFinal, Emit, Deliver
    <3> QED
      BY <3>1, <3>2, <3>3
  <2> QED
    BY <1>2, <1>3, <1>4, <1>5, <2>1
<1>6. CASE SpawnPool \/ TakeSegment \/ Validate \/ SendFrame \/ Collect \/ CollectClosing
  BY <1>4, <1>6 DEF SpawnPool, TakeSegment, Validate, SendFrame, Collect, CollectClosing
<1>7. CASE PoolGone \/ TakeToken \/ Timeout
  BY <1>4, <1>7 DEF PoolGone, TakeToken, Timeout
<1>8. CASE \/ \E f \in FrameWorkers : FrameWorker(f)
           \/ Receive \/ LeaveReceiver \/ Cancel \/ StealToken \/ UNCHANGED vars
  <2>1. UNCHANGED <<mode, segment, emitted>>
    BY <1>8 DEF FrameWorker, TakeFrame, Seal, Stop, Receive, LeaveReceiver, Cancel, StealToken,
                vars, workerVars
  <2> QED
    BY <1>4, <2>1
<1> QED
  BY <1>5, <1>6, <1>7, <1>8 DEF Next, Finished, Worker

\* Whatever the timing of the pool, and whatever encrypted frames, of whatever
\* segments, damage has left of a wire in whatever order, the segments handed
\* on are whole and in order (enc_helpers.rs:141-173, 207-246,
\* dec_helpers.rs:246-347).  Who made the digest frame is checked neither by
\* the code nor here: an encryption did.
THEOREM SegmentsAreWhole == Spec => []EmittedInOrder
<1>1. Init => Delivered(emitted)
  BY DEF Init, Delivered, InOrder
<1>2. Delivered(emitted) => EmittedInOrder
  BY DEF Delivered, InOrder, EmittedInOrder
<1>3. Init => AtTheEnd
  BY DEF Init, AtTheEnd, Marking
<1>4. Pool => Types
  BY DEF Pool
<1> QED
  BY <1>1, <1>2, <1>3, <1>4, InitPool, NextPool, NextAtTheEnd, NextDelivered, PTL DEF Spec

\* Whoever leaves has a cause.
Caused ==
  /\ token => cancelled
  /\ ~WorkerAlive =>
       \/ segment > Segments
       \/ cancelled
       \/ pc = "panicked" /\ HasNoPlace(wire)

\* A data frame without a place comes from the wire.
LEMMA NoPlace ==
  ASSUME Pool, pc = "collect", sealed # <<>>, sealed' = Tail(sealed), UNCHANGED <<frames, fw, job>>,
         Head(sealed).type = "data", Head(sealed).number \notin DOMAIN slots
  PROVE  HasNoPlace(wire)
<1>1. Types /\ Phase /\ Ledger /\ segment \in Nat
  BY DEF Pool, Active, Types
<1>2. Head(sealed) \in Content(wire)
  <2>1. Flying(Head(sealed)) /\ Head(sealed) # Bad
    BY <1>1, TakenOut DEF Bad
  <2> QED
    BY <1>1, <2>1, PhaseFacts DEF Ledger
<1>3. DOMAIN slots = 0..(DataCount(wire) - 1) /\ DataCount(wire) \in Nat
  <2>1. mode = "encrypt" => DataCount(wire) = Frames
    BY <1>1, WholeFacts DEF Phase, EncryptPhase
  <2>2. DataCount(wire) \in Nat
    BY <1>1, PhaseFacts DEF DataCount
  <2> QED
    BY <1>1, <2>1, <2>2 DEF Phase
<1>4. Head(sealed).number \in Nat
  BY <1>1, <1>2, PhaseFacts, WireFacts, PieceFacts
<1>5. ~(Head(sealed).number < DataCount(wire))
  BY <1>3, <1>4
<1>6. Head(sealed).number >= DataCount(wire)
  BY <1>3, <1>4, <1>5
<1> QED
  BY <1>2, <1>6 DEF HasNoPlace, Content

LEMMA NextCaused == Pool /\ Caused /\ [Next]_vars => Caused'
<1> SUFFICES ASSUME Pool, Caused, [Next]_vars PROVE Caused'
  OBVIOUS
<1>1. Types /\ segment \in Nat
  BY DEF Pool, Types
<1>2. CASE ReportError /\ UNCHANGED segment
  BY <1>2 DEF Caused, ReportError
<1>3. CASE UNCHANGED cancelVars /\ pc' \notin {"done", "panicked"}
  BY <1>3 DEF Caused, cancelVars, WorkerAlive
<1>4. CASE UNCHANGED <<pc, segment, wire, cancelled>> /\ (token' => token)
  BY <1>4 DEF Caused, WorkerAlive
<1>5. CASE UNCHANGED cancelVars /\ cancelled
  BY <1>5 DEF Caused, cancelVars
<1>6. CASE SpawnPool
  <2>1. \/ UNCHANGED cancelVars /\ pc' \notin {"done", "panicked"}
        \/ ReportError /\ UNCHANGED segment
    BY <1>6 DEF SpawnPool
  <2> QED
    BY <1>2, <1>3, <2>1
<1>7. CASE TakeSegment
  <2>1. UNCHANGED cancelVars /\ pc = "recv"
    BY <1>7 DEF TakeSegment
  <2>2. CASE segment > Segments /\ ~cancelled
    <3>1. segment' = segment
      BY <1>7, <2>2 DEF TakeSegment
    <3> QED
      BY <2>1, <2>2, <3>1 DEF Caused, cancelVars
  <2>3. CASE ~(segment > Segments \/ cancelled)
    <3>1. pc' \in {"final", "send", "validate"}
      BY <1>7, <2>1, <2>3 DEF TakeSegment
    <3> QED
      BY <1>3, <2>1, <3>1
  <2> QED
    BY <1>5, <2>1, <2>2, <2>3
<1>8. CASE Validate \/ SendFrame \/ EmitFinal \/ Emit
  <2>1. \/ UNCHANGED cancelVars /\ pc' \notin {"done", "panicked"}
        \/ ReportError /\ UNCHANGED segment
    BY <1>8 DEF Validate, SendFrame, EmitFinal, Emit, Deliver, AfterSend
  <2> QED
    BY <1>2, <1>3, <2>1
<1>9. CASE Collect
  <2>1. /\ pc = "collect" /\ sealed # <<>> /\ sealed' = Tail(sealed)
        /\ UNCHANGED <<segment, wire, frames, fw, job>>
        /\ Store(Head(sealed)) /\ pc' = AfterCollect(Head(sealed))
    BY <1>9 DEF Collect, poolVars
  <2>2. CASE Head(sealed).type = "data" /\ Head(sealed).number \notin DOMAIN slots
    <3>1. HasNoPlace(wire)
      BY <2>1, <2>2, NoPlace
    <3>2. pc' = "panicked" /\ UNCHANGED cancelVars
      BY <2>1, <2>2 DEF AfterCollect, Store
    <3> QED
      BY <2>1, <3>1, <3>2 DEF Caused, cancelVars
  <2>3. CASE Head(sealed).type # "data" /\ HasType(closing, Head(sealed).type)
    BY <1>2, <2>1, <2>3 DEF Store
  <2>4. CASE /\ ~(Head(sealed).type = "data" /\ Head(sealed).number \notin DOMAIN slots)
             /\ ~(Head(sealed).type # "data" /\ HasType(closing, Head(sealed).type))
    <3>1. pc' \in {"send", "collect", "emit"} /\ UNCHANGED cancelVars
      BY <2>1, <2>4 DEF AfterCollect, Store
    <3> QED
      BY <1>3, <3>1
  <2> QED
    BY <2>2, <2>3, <2>4
<1>10. CASE CollectClosing
  BY <1>3, <1>10 DEF CollectClosing
<1>11. CASE PoolGone
  BY <1>2, <1>11 DEF PoolGone
<1>12. CASE TakeToken
  BY <1>12 DEF TakeToken, Caused
<1>13. CASE Timeout
  BY <1>5, <1>13 DEF Timeout
<1>14. CASE \E f \in FrameWorkers : FrameWorker(f)
  <2>1. \/ UNCHANGED <<pc, segment, wire, cancelled>> /\ (token' => token)
        \/ ReportError /\ UNCHANGED segment
    BY <1>14 DEF FrameWorker, TakeFrame, Seal, Stop, workerVars, cancelVars
  <2> QED
    BY <1>2, <1>4, <2>1
<1>15. CASE Cancel
  BY <1>2, <1>15 DEF Cancel, workerVars
<1>16. CASE Receive \/ LeaveReceiver \/ StealToken \/ UNCHANGED vars
  BY <1>4, <1>16 DEF Receive, LeaveReceiver, StealToken, vars, workerVars, cancelVars
<1> QED
  BY <1>6, <1>7, <1>8, <1>9, <1>10, <1>11, <1>12, <1>13, <1>14, <1>15, <1>16
  DEF Next, Finished, Worker

\* No segment is given up silently but one whose wire has a data frame that
\* its length has no place for, as when any other frame is missing: that
\* panic is not reported (encrypt.rs:94-108, decrypt.rs:77-126,
\* dec_helpers.rs:190, 206-209).
THEOREM LeavesWithCause == Spec => []GivesUpOnlyWhenCancelled
<1>1. Init => Caused
  BY DEF Init, Caused, WorkerAlive
<1>2. Delivered(emitted) /\ Caused => GivesUpOnlyWhenCancelled
  BY DEF Delivered, Caused, GivesUpOnlyWhenCancelled
<1>3. Init => Delivered(emitted) /\ AtTheEnd
  BY DEF Init, Delivered, InOrder, AtTheEnd, Marking
<1>4. Pool => Types
  BY DEF Pool
<1> QED
  BY <1>1, <1>2, <1>3, <1>4, InitPool, NextPool, NextAtTheEnd, NextDelivered, NextCaused, PTL DEF Spec
=============================================================================
