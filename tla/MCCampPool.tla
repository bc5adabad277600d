----------------------------- MODULE MCCampPool -----------------------------
(* The leases of the camps in three parts: commands that dispatch and strike *)
(* over two slots, commands that dispatch and redispatch over two slots, and *)
(* all three commands over one slot.                                         *)
EXTENDS CampPool, TLC

CONSTANTS StrikeActivity, RedispatchActivity

VARIABLE part

Strikes == INSTANCE CampPool WITH Activity <- StrikeActivity
Redispatches == INSTANCE CampPool WITH Activity <- RedispatchActivity

MCInit == Init /\ part \in {"strike", "redispatch", "both"}

MCNext == /\ part' = part
          /\ \/ part = "strike" /\ Strikes!Next
             \/ part = "redispatch" /\ Redispatches!Next
             \/ part = "both" /\ Next /\ pool'.n <= 1

MCSpec == MCInit /\ [][MCNext]_<<vars, part>>

Symmetry == Permutations(Task) \cup Permutations(Proc)
=============================================================================
