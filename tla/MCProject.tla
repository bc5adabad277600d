----------------------------- MODULE MCProject -----------------------------
(* What vexillum keeps for a project besides its missions, on small          *)
(* instances: the panes of its commanders and the delivery of wakes to them, *)
(* the copies of the skills, the block in AGENTS.md.  The three share no     *)
(* state that another reads, so one behaviour exercises one of them: their   *)
(* state spaces are added, not multiplied.                                   *)
EXTENDS Commanders, ManagedFiles, SlotText

VARIABLE part

InPart(p, next, rest) == part = p /\ next /\ UNCHANGED <<part, rest>>
WakesPart(next) == InPart("wakes", next, <<managedVars, slotVars>>)

ProjectInit ==
    /\ part \in {"wakes", "copies", "block"}
    /\ ManagedInit
    /\ SlotInit /\ (part # "block" => text = <<>>)
    /\ CommandersInit /\ (part # "wakes" => ~nested /\ pane = [p \in Pane |-> NoAgent])
ProjectNext == \/ WakesPart(CommandersNext)
               \/ InPart("copies", ManagedNext, <<commanderVars, slotVars>>)
               \/ InPart("block", SlotNext, <<commanderVars, managedVars>>)
ProjectVars == <<part, commanderVars, managedVars, slotVars>>

\* The sentinel goes on with its sweep, time passes, and a commander's turn ends.
ProjectFair == /\ WF_ProjectVars(WakesPart(Injecting)) /\ WF_ProjectVars(WakesPart(TimePasses))
               /\ \A p \in Pane : WF_ProjectVars(WakesPart(EndsTurn(p)))
ProjectSpec == ProjectInit /\ [][ProjectNext]_ProjectVars /\ ProjectFair

\* What waits gets through to a commander that stays (see WakeGetsThrough).
WakesDelivered == part = "wakes" => WakeGetsThrough
=============================================================================
