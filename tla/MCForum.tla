------------------------------ MODULE MCForum ------------------------------
(* Two instances of Forum for TLC: rounds of feedback that only the listener *)
(* fetches, with answers, ends and failing writes; and deliveries an agent   *)
(* and the listener compete for, either of which may die.                    *)
EXTENDS Forum

CONSTANTS Round,  \* what may happen in the first instance
          Rival   \* and in the second

Rounds == INSTANCE Forum WITH Event <- Round
Rivals == INSTANCE Forum WITH Event <- Rival, MaxQueued <- 1, MaxFailures <- 0

VARIABLE part

InPart(p, next) == part = p /\ next /\ UNCHANGED part

ForumInit == Init /\ part \in {"rounds", "rivals"}
ForumNext == InPart("rounds", Rounds!Next) \/ InPart("rivals", Rivals!Next)
ForumSpec == /\ ForumInit /\ [][ForumNext]_<<vars, part>>
             /\ part = "rounds" => Fairness

\* SentGetsThrough, of the instance whose listener keeps running.
RoundsGetThrough == part = "rounds" => SentGetsThrough
=============================================================================
