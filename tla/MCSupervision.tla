--------------------------- MODULE MCSupervision ---------------------------
(* Two instances of Supervision for TLC: commands, sentinel and herdr that   *)
(* fail in every way and soldiers that die; and soldiers that pause, beside  *)
(* commands that fail.                                                       *)
EXTENDS Supervision

CONSTANT Pause  \* what may happen in the second instance

Pauses == INSTANCE Supervision WITH Event <- Pause

VARIABLE part

InPart(p, next) == part = p /\ next /\ UNCHANGED part

SupervisionInit == Init /\ part \in {"faults", "pauses"}
SupervisionNext == InPart("faults", Next) \/ InPart("pauses", Pauses!Next)

\* Fairness, of the instance at hand: its commands' steps are the only ones that differ.
StepInPart(p) == \/ part = "faults" /\ CommandStep(p)
                 \/ part = "pauses" /\ Pauses!CommandStep(p)
SupervisionFair ==
    /\ WF_vars(SentinelStep) /\ SF_vars(Elapse)
    /\ \A p \in Proc : WF_vars(StepInPart(p))
    /\ <>[][~(Crash \/ Outage)]_vars

SupervisionSpec == SupervisionInit /\ [][SupervisionNext]_<<vars, part>> /\ SupervisionFair
=============================================================================
