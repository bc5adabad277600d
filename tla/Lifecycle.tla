----------------------------- MODULE Lifecycle -----------------------------
(***************************************************************************)
(* What a task's status may become (internal/state, Status), whoever       *)
(* writes it: the sentinel or a vx command.                                *)
(***************************************************************************)
VARIABLE status

Statuses == {"pending", "running", "blocked", "done", "failed",
             "interrupted", "shipped", "unconfirmed", "struck"}

\* The soldier settled and its pane may still be open.
Reopenable == {"done", "blocked", "unconfirmed", "shipped"}
\* The task has nothing to keep: a strike closes it.
NeverFinished == {"interrupted", "failed", "unconfirmed"}

Init == status = "pending"

Launch   == status = "pending" /\ status' \in {"running", "failed"}
\* A settle is seen by the sentinel and by the command that sent the prompt: the last one to
\* write wins.
Settle   == /\ status \in {"running", "done", "blocked", "unconfirmed"}
            /\ status' \in {"interrupted", "failed"} \cup Reopenable
Resume   == status \in Reopenable /\ status' = "running"
Ship     == status = "interrupted" /\ status' = "shipped"
Relaunch == status = "interrupted" /\ status' = "pending"
Close    == status \in NeverFinished /\ status' = "struck"

Next == Launch \/ Settle \/ Resume \/ Ship \/ Relaunch \/ Close

Spec == Init /\ [][Next]_status
=============================================================================
