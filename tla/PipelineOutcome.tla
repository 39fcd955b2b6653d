--------------------------- MODULE PipelineOutcome ---------------------------
(***************************************************************************)
(* What a pipeline call promises about errors, without channels, flags or  *)
(* a monitor thread: threads raise errors; the call concludes once, with   *)
(* Ok only if nothing was raised, with an error only if that very error    *)
(* was raised; after Ok nothing can be raised any more.                    *)
(***************************************************************************)
CONSTANTS Threads

VARIABLES raised, outcome

Init == raised = {} /\ outcome = "pending"

Raise(t) ==
  /\ outcome # "ok"
  /\ raised' = raised \cup {t}
  /\ UNCHANGED outcome

Conclude ==
  /\ outcome = "pending"
  /\ \/ raised = {} /\ outcome' = "ok"
     \/ outcome' \in raised
  /\ UNCHANGED raised

Next == Conclude \/ \E t \in Threads : Raise(t)

Spec == Init /\ [][Next]_<<raised, outcome>>
=============================================================================
