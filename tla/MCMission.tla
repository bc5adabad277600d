----------------------------- MODULE MCMission -----------------------------
(* What a mission depends on besides its record, on small instances: the     *)
(* terminal its soldier is started in, the answers to its soldier's          *)
(* questions, and the shipping of its work.  None of them reads what another *)
(* writes, so one behaviour exercises one of them: their state spaces are    *)
(* added, not multiplied.                                                    *)
EXTENDS Answers, Ship, HcTerminals

VARIABLE part

InPart(p, next, rest) == part = p /\ next /\ UNCHANGED <<part, rest>>

MissionInit ==
    /\ part \in {"answers", "ship", "terminals"}
    /\ AnswersInit /\ (part # "answers" => harness = CHOOSE h \in Harness : TRUE)
    /\ ShipInit /\ HcInit
MissionNext ==
    \/ InPart("answers", AnswersNext, <<shipVars, hcVars>>)
    \/ InPart("ship", ShipNext, <<answersVars, hcVars>>)
    \/ InPart("terminals", HcNext, <<answersVars, shipVars>>)
MissionSpec == MissionInit /\ [][MissionNext]_<<part, answersVars, shipVars, hcVars>>
=============================================================================
