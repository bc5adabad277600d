----------------------------- MODULE MCCampWork -----------------------------
(* The work in the camps, in three parts: one command at a time with edits,  *)
(* discards, pull requests and squash merges (CampPool as it is); commands   *)
(* that lease and strike at the same time (Work); and a strike or a dispatch *)
(* beside a land (Landing).                                                  *)
EXTENDS CampPool, TLC

CONSTANTS WorkCommit, WorkProc, WorkActivity, LandActivity

VARIABLE part

Work == INSTANCE CampPool WITH Commit <- WorkCommit, Proc <- WorkProc, Activity <- WorkActivity
Landing == INSTANCE CampPool WITH Commit <- WorkCommit, Proc <- WorkProc, Activity <- LandActivity

MCInit == \/ part = "ship" /\ Init
          \/ part = "work" /\ Work!Init
          \/ part = "land" /\ Landing!Init

MCNext == /\ part' = part
          /\ \/ part = "ship" /\ Next
             \/ part = "work" /\ Work!Next
             \/ part = "land" /\ Landing!Next

MCSpec == MCInit /\ [][MCNext]_<<vars, part>>

Symmetry == Permutations(Task) \cup Permutations(Commit) \cup Permutations(WorkProc)
=============================================================================
