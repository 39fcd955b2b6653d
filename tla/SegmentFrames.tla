----------------------------- MODULE SegmentFrames -----------------------------
(***************************************************************************)
(* The frames of a segment, as the segment workers of both generations     *)
(* number them, the wires a decryption may find in place of those that     *)
(* were encrypted, and the checks that decide whether it accepts one.      *)
(*                                                                         *)
(* A frame is its segment, its number and its type; that its contents      *)
(* survive encryption, and that nobody without the key makes one, is the   *)
(* ciphers' business.  A wire is any sequence of such frames and of bytes  *)
(* that are none.  What is modelled is damage: frames that are lost,       *)
(* repeated, exchanged or from elsewhere, each as some encryption made it. *)
(* The digest and the checksums have no key; they tell damage, and no      *)
(* property here is about a digest frame that no encryption made.          *)
(***************************************************************************)
EXTENDS Naturals, Sequences, FiniteSets

CONSTANTS
  Frames,    \* data frames of a segment
  Segments,  \* data segments of the stream; the FINAL marker comes behind
  Wires      \* what may be found in the place of an encrypted segment

\* Numbers below Frames are data, then come the digest and the terminator.
Frame(s, n) ==
  [segment |-> s, number |-> n,
   type |-> IF n < Frames THEN "data" ELSE IF n = Frames THEN "digest" ELSE "terminator"]

\* What vec![default; n] holds: a frame of no segment, with number zero.
NoFrame == [segment |-> 0, number |-> 0, type |-> "none"]

\* Bytes that are no frame: an unknown header, or one that says too much.
Torn == [segment |-> 0, number |-> 0, type |-> "torn"]

\* What a wire is made of.
Pieces == {Frame(s, n) : s \in 0..(Segments - 1), n \in 0..(Frames + 1)} \cup {Torn}

ASSUME FramesAssumption == Frames \in Nat \ {0} /\ Segments \in Nat
ASSUME WiresAssumption == Wires \subseteq Seq(Pieces)

\* The wire of a segment as it was encrypted.
Whole(s) == [n \in 1..(Frames + 2) |-> Frame(s, n - 1)]

\* The data frames of a wire, in its order.
DataOf(wire) ==
  LET At == {i \in DOMAIN wire : wire[i].type = "data"}
      Nth(n) == CHOOSE i \in At : Cardinality({j \in At : j <= i}) = n
  IN [n \in 1..Cardinality(At) |-> wire[Nth(n)]]

\* The digest of a segment covers its number and its data frames in order; a
\* digest frame carries the one of the segment it was made for.
DigestOf(s, data) == [segment |-> s, data |-> data]
Carried(frame) == DigestOf(frame.segment, DataOf(Whole(frame.segment)))

-----------------------------------------------------------------------------
(* Decryption.  The data frames are counted by what the wire holds, not by *)
(* the segment header.                                                     *)

\* frame_count.saturating_sub(2)
DataCount(wire) == IF Len(wire) < 2 THEN 0 ELSE Len(wire) - 2

EmptySlots(n) == [i \in 0..(n - 1) |-> NoFrame]

HasType(frames, type) == \E i \in DOMAIN frames : frames[i].type = type

\* A data frame that the slots have no place for: storing it panics.
HasNoPlace(wire) == \E i \in DOMAIN wire : wire[i].type = "data" /\ wire[i].number >= DataCount(wire)

\* Defect: the digest is not compared.
AcceptsUnverified(s, wire, closing) ==
  /\ DataCount(wire) + 2 = Len(wire)
  /\ \E i \in DOMAIN closing : closing[i].type = "digest" /\ closing[i].number = DataCount(wire)
  /\ \E i \in DOMAIN closing :
       closing[i].type = "terminator" /\ closing[i].number = DataCount(wire) + 1

\* The checks behind the collecting loop, all of them fatal.  Which segment a
\* frame says it is of is not among them.
Accepts(s, wire, closing) ==
  /\ DataCount(wire) + 2 = Len(wire)
  /\ \E i \in DOMAIN closing :
       /\ closing[i].type = "digest"
       /\ closing[i].number = DataCount(wire)
       /\ Carried(closing[i]) = DigestOf(s, DataOf(wire))
  /\ \E i \in DOMAIN closing :
       closing[i].type = "terminator" /\ closing[i].number = DataCount(wire) + 1
=============================================================================
