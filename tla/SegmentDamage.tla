----------------------------- MODULE SegmentDamage -----------------------------
(***************************************************************************)
(* Wires to check the segment workers with: at every place of the last     *)
(* segment's wire the accidents that take one step.  In the place of an    *)
(* earlier segment they are frames from elsewhere, damaged.                *)
(***************************************************************************)
EXTENDS SegmentFrames, SequencesExt

LastWire == Whole(Segments - 1)

Missing(w) == {RemoveAt(w, i) : i \in DOMAIN w}
Foreign(w) == {ReplaceAt(w, i, Whole(0)[i]) : i \in DOMAIN w}
Overwritten(w) == {ReplaceAt(w, i, w[i - 1]) : i \in 2..Len(w)}
Unreadable(w) == {ReplaceAt(w, i, Torn) : i \in DOMAIN w}
Repeated(w) == {InsertAt(w, i, w[i]) : i \in DOMAIN w}
CutShort(w) == {SubSeq(w, 1, n) : n \in 0..Len(w)}
Exchanged(w) ==
  {[w EXCEPT ![i] = w[i + 1], ![i + 1] = w[i]] : i \in 1..(Len(w) - 1)}

\* A frame of the segment is not there, or none is.
FrameMissing == {Whole(0), <<>>} \cup Missing(LastWire) \cup Foreign(LastWire)

OneDamage ==
  FrameMissing \cup Overwritten(LastWire) \cup Unreadable(LastWire)
    \cup Repeated(LastWire) \cup CutShort(LastWire) \cup Exchanged(LastWire)
=============================================================================
