---------------------------- MODULE ForumMailbox ----------------------------
(* What the forum promises the human who sends a prompt from the browser: it *)
(* is owed to the agents from then on, and is let go of only once one of     *)
(* them has it, on paper the program cannot lose: an entry of the project's  *)
(* inbox, or the output of a poll.                                           *)
CONSTANT Prompt

VARIABLES owed,   \* prompts sent and not let go of
          taken   \* prompts an agent's inbox or a poll's output has

mvars == <<owed, taken>>

MInit == owed = {} /\ taken = {}

\* Hub.Send: what is new is owed.
Send(S) == /\ S \cap (owed \cup taken) = {}
           /\ owed' = owed \cup S
           /\ UNCHANGED taken

\* A redelivery may be taken a second time, also after it was let go of.
Take(S) == /\ S \subseteq owed \cup taken
           /\ taken' = taken \cup S
           /\ UNCHANGED owed

\* Hub.Ack.
LetGo(S) == /\ S \subseteq owed \cap taken
            /\ owed' = owed \ S
            /\ UNCHANGED taken

MNext == \E S \in SUBSET Prompt : Send(S) \/ Take(S) \/ LetGo(S)

MSpec == MInit /\ [][MNext]_mvars
=============================================================================
