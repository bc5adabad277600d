---------------------------- MODULE MCWakeQueue ----------------------------
(* Three instances of WakeQueue for TLC: two tasks that settle again while   *)
(* two listeners compete for the news; one task that settles more often; and *)
(* one task that settles once while the listeners, one of them a purger,     *)
(* fail and die.                                                             *)
EXTENDS WakeQueue

CONSTANTS Fault,        \* what may happen in the last instance
          FaultPurger,  \* and its purger, besides Proc
          FaultTask     \* the task of the other two instances

Once == INSTANCE WakeQueue WITH Task <- {FaultTask}, Proc <- Proc \cup {FaultPurger},
          Purger <- {FaultPurger}, Event <- Fault, MaxSettles <- 1, MaxDeaths <- 2

Again == INSTANCE WakeQueue WITH Task <- {FaultTask}, MaxSettles <- 3

VARIABLE part

InPart(p, next) == part = p /\ next /\ UNCHANGED part

QueueInit == \/ part = "often" /\ Init
             \/ part = "again" /\ Again!Init
             \/ part = "once" /\ Once!Init
QueueNext == InPart("often", Next) \/ InPart("again", Again!Next) \/ InPart("once", Once!Next)
queueVars == <<vars, part>>
QueueFair == /\ WF_queueVars(InPart("once", Once!RecordWake))
             /\ \A p \in Proc \cup {FaultPurger} :
                  /\ WF_queueVars(InPart("once", Once!Step(p)))
                  /\ SF_queueVars(InPart("once", Once!Deliver(p)))
QueueSpec == QueueInit /\ [][QueueNext]_queueVars /\ QueueFair

\* NoWakeLost and ToldOnce speak of whatever tasks and listeners the instance at hand
\* has.  Every wake of the last one is heard.
WakesHeard == part = "once" => Once!EveryWakeHeard
=============================================================================
