------------------------------ MODULE Answers ------------------------------
(***************************************************************************)
(* A soldier's question and the answers "vx decide" gives it               *)
(* (internal/soldier: AnswerBlocked, opencode_blocked.go, pi_ask.go,       *)
(* modal.go, decision.go; internal/piask with its ask_user extension).     *)
(*                                                                         *)
(* The sentinel records what a blocked soldier asks; the general reads the *)
(* record and answers it, while somebody at the pane may answer first and  *)
(* the soldier may go on to ask something else.  A Pi soldier's tool       *)
(* exchanges files, an OpenCode or Claude screen takes keys, a             *)
(* needs-decision line takes a prompt.  A question is a number; option     *)
(* lists, screens and their parsers are reduced to what they tell apart.   *)
(***************************************************************************)
EXTENDS Naturals, FiniteSets

CONSTANTS Decider,      \* runs of "vx decide", one answer each
          MaxQuestions, \* bound: questions the soldier asks
          Harness       \* the harnesses the soldier may run on

ASSUME AnswersAssumption ==
  /\ MaxQuestions \in Nat
  /\ Harness \subseteq {"claude", "opencode", "pi"}

VARIABLES
  harness,  \* the soldier's
  screen,   \* what its pane shows, and the question that stands there
  asked,    \* questions asked so far
  taking,   \* ask_user: the answer the tool has read, while it closes its dialog
  qfile,    \* question.json: the id in it, 0 for no file
  afile,    \* answer.json: its id, and who wrote it
  rec,      \* the record: blocked or not, and its Decision
  decide,   \* the runs of "vx decide"
  heard     \* history: the answers of vx the soldier took, and for which question

answersVars == <<harness, screen, asked, taking, qfile, afile, rec, decide, heard>>
pane == <<screen, asked, taking>>
files == <<qfile, afile>>

Screens == [claude   |-> {"modal", "dialog", "line"},
            opencode |-> {"form", "permission", "dialog", "line"},
            pi       |-> {"ask", "line"}]
Waiting == {"modal", "dialog", "form", "field", "permission", "ask"}   \* herdr: blocked
NoAnswer == [q |-> 0, by |-> "none"]
NoDecision == [blocked |-> FALSE, kind |-> "none", q |-> 0, answered |-> FALSE]
Begun == [at |-> "load", copy |-> NoDecision, plan |-> "none"]

AnswersInit ==
  /\ harness \in Harness
  /\ screen = [kind |-> "working", q |-> 0]
  /\ asked = 0
  /\ taking = NoAnswer
  /\ qfile = 0
  /\ afile = NoAnswer
  /\ rec = NoDecision
  /\ decide = [d \in Decider |-> Begun]
  /\ heard = {}

-----------------------------------------------------------------------------
(* The soldier and whoever sits at its pane. *)
Outside == UNCHANGED <<harness, rec, decide>>

(* It blocks on a screen of its harness, or ends its turn with a           *)
(* needs-decision line.  ask_user removes a leftover answer first, then    *)
(* leaves its question.                                                    *)
Asks(kind) ==
  /\ screen.kind = "working"
  /\ asked < MaxQuestions
  /\ asked' = asked + 1
  /\ screen' = [kind |-> kind, q |-> asked + 1]
  /\ IF kind = "ask" THEN qfile' = asked + 1 /\ afile' = NoAnswer ELSE UNCHANGED files
  /\ UNCHANGED <<taking, heard>> /\ Outside

(* execute's finally: the dialog is closed and both files are removed. *)
Closes == screen' = [kind |-> "working", q |-> 0] /\ taking' = NoAnswer

AnsweredThere ==
  /\ screen.kind \notin {"working"}
  /\ taking = NoAnswer
  /\ Closes
  /\ IF screen.kind = "ask" THEN qfile' = 0 /\ afile' = NoAnswer ELSE UNCHANGED files
  /\ UNCHANGED <<asked, heard>> /\ Outside

(* readAnswer takes only an answer addressed to the open question. *)
AnyAnswer == TRUE    \* mutant: a leftover answers too
Addressed == afile.q = screen.q

ReadsAnswer ==
  /\ screen.kind = "ask" /\ taking = NoAnswer
  /\ afile # NoAnswer /\ Addressed
  /\ taking' = afile
  /\ UNCHANGED <<screen, asked, heard>> /\ UNCHANGED files /\ Outside

TakesAnswer ==
  /\ taking # NoAnswer
  /\ heard' = heard \cup {[via |-> "file", q |-> screen.q, meant |-> taking.q, by |-> taking.by]}
  /\ Closes
  /\ qfile' = 0 /\ afile' = NoAnswer
  /\ UNCHANGED asked /\ Outside

(* The session ends and another starts in the pane: both clear the files.  *)
Restarts ==
  /\ harness = "pi" /\ screen.kind = "ask"
  /\ Closes
  /\ qfile' = 0 /\ afile' = NoAnswer
  /\ UNCHANGED <<asked, heard>> /\ Outside

(* The sentinel settles the running task: openAskQuestion, the parsers of  *)
(* the two harnesses with screens of their own, prose for the rest.        *)
KindOf(s) == CASE s.kind = "ask" -> "ask" [] s.kind = "modal" -> "modal" [] OTHER -> "prose"

OldLine == screen.kind = "line" /\ rec.answered /\ rec.q = screen.q

RecordsBlocked ==
  /\ ~rec.blocked
  /\ screen.kind # "working" /\ ~OldLine
  /\ rec' = [blocked |-> TRUE, kind |-> KindOf(screen), q |-> screen.q, answered |-> FALSE]
  /\ UNCHANGED <<harness, decide, heard>> /\ UNCHANGED pane /\ UNCHANGED files

(* "vx decide --dismiss", refused while the pane really waits. *)
Dismisses ==
  /\ rec.blocked /\ screen.kind \notin Waiting
  /\ rec' = [rec EXCEPT !.blocked = FALSE, !.answered = TRUE]
  /\ UNCHANGED <<harness, decide, heard>> /\ UNCHANGED pane /\ UNCHANGED files

-----------------------------------------------------------------------------
(* "vx decide". *)
Stands(d, at) == decide[d].at = at
Turns(d, at) == decide' = [decide EXCEPT ![d].at = at]
Copy(d) == decide[d].copy
Still == UNCHANGED <<harness, rec, heard>> /\ UNCHANGED pane

(* runDecide loads a blocked task; AnswerBlocked takes the way of its      *)
(* question.                                                               *)
FirstStep(r) ==
  IF r.kind = "ask" THEN "reread"
  ELSE IF harness = "opencode" THEN "look"
  ELSE IF r.kind = "modal" THEN "press" ELSE "prompt"

LoadBlocked(d) ==
  /\ Stands(d, "load") /\ rec.blocked
  /\ decide' = [decide EXCEPT ![d] = [at |-> FirstStep(rec), copy |-> rec, plan |-> "option"]]
  /\ Still /\ UNCHANGED files

(* A modal's answer that is no option, or "Type something.", goes out as a *)
(* prompt.                                                                 *)
Unresolved(d) ==
  /\ Stands(d, "press") /\ Copy(d).kind = "modal"
  /\ Turns(d, "prompt")
  /\ Still /\ UNCHANGED files

(* answerAsk: the question on file must be the one of the record. *)
SameQuestion(d) == qfile # 0 /\ qfile = Copy(d).q

Reread(d) ==
  /\ Stands(d, "reread")
  /\ Turns(d, IF SameQuestion(d) THEN "write" ELSE "refused")
  /\ Still /\ UNCHANGED files

Write(d) ==
  /\ Stands(d, "write")
  /\ afile' = [q |-> Copy(d).q, by |-> d]
  /\ Turns(d, "wait")
  /\ Still /\ UNCHANGED qfile

(* WaitConsumed: the question is gone, or is another. *)
Consumed(d) ==
  /\ Stands(d, "wait") /\ qfile # Copy(d).q
  /\ Turns(d, "record")
  /\ Still /\ UNCHANGED files

(* ConsumeTimeout is many polls of the extension: it passes only while the *)
(* extension does not look at the file.                                    *)
LeftThere == afile   \* mutant: a late answer stays
WithdrawnFile == NoAnswer

TimesOut(d) ==
  /\ Stands(d, "wait") /\ qfile = Copy(d).q
  /\ taking = NoAnswer
  /\ afile' = WithdrawnFile
  /\ Turns(d, "refused")
  /\ Still /\ UNCHANGED qfile

(* openCodePlanFor: how an answer is given on the screen that is there: as *)
(* one of its options ("always allow" never), or as text where the form    *)
(* takes one; on another screen, or when it fits none, not at all.         *)
PlanFor(kind) == CASE kind = "permission" -> {"option"}
                   [] kind = "form" -> {"option", "text"}
                   [] OTHER -> {}

(* answerOpenCodeBlocked: the pane's status and screen, read again, and    *)
(* the plan for the answer on it.                                          *)
LookAt(d) ==
  /\ Stands(d, "look")
  /\ \/ screen.kind \notin Waiting /\ Turns(d, "prompt")
     \/ screen.kind \in Waiting /\ Turns(d, "refused")
     \/ \E plan \in PlanFor(screen.kind) :
           decide' = [decide EXCEPT ![d] = [@ EXCEPT !.at = "press", !.plan = plan]]
  /\ Still /\ UNCHANGED files

(* Keys land on whatever is there when they arrive. *)
Hears(d) ==
  IF screen.kind \in {"modal", "form", "field", "permission", "ask", "dialog"}
  THEN heard' = heard \cup {[via |-> "keys", q |-> screen.q, meant |-> Copy(d).q, by |-> d]}
  ELSE UNCHANGED heard

Press(d) ==
  /\ Stands(d, "press")
  /\ IF decide[d].plan = "text" /\ screen.kind = "form"
     THEN /\ screen' = [screen EXCEPT !.kind = "field"]
          /\ Turns(d, "field")
          /\ UNCHANGED <<taking, heard>> /\ UNCHANGED files
     ELSE /\ Hears(d)
          /\ IF screen.kind \in Waiting THEN Closes ELSE UNCHANGED <<screen, taking>>
          /\ IF screen.kind = "ask" THEN qfile' = 0 /\ afile' = NoAnswer ELSE UNCHANGED files
          /\ Turns(d, IF decide[d].plan = "text" THEN "field" ELSE "record")
  /\ UNCHANGED <<harness, asked, rec>>

(* waitForTextField, then the text, one key a character. *)
FieldOpens(d) ==
  /\ Stands(d, "field")
  /\ Turns(d, IF screen.kind = "field" THEN "type" ELSE "refused")
  /\ Still /\ UNCHANGED files

Type(d) ==
  /\ Stands(d, "type")
  /\ Hears(d)
  /\ IF screen.kind \in Waiting THEN Closes ELSE UNCHANGED <<screen, taking>>
  /\ Turns(d, "record")
  /\ UNCHANGED <<harness, asked, rec>> /\ UNCHANGED files

(* herdr refuses a prompt to a pane that waits; else it starts a turn. *)
PromptSent(d) ==
  /\ Stands(d, "prompt")
  /\ IF screen.kind \in Waiting
     THEN Turns(d, "refused") /\ UNCHANGED <<screen, taking, heard>>
     ELSE /\ heard' = heard \cup
               (IF screen.kind = "line"
                THEN {[via |-> "prompt", q |-> screen.q, meant |-> Copy(d).q, by |-> d]} ELSE {})
          /\ Closes
          /\ Turns(d, "record")
  /\ UNCHANGED <<harness, asked, rec>> /\ UNCHANGED files

(* finishAnswerBlocked: the Decision on disk is marked answered, the       *)
(* amendment names the question of the copy, and the status is what the    *)
(* pane settled in: another question replaces the Decision.                *)
Record(d) ==
  /\ Stands(d, "record")
  /\ rec' \in {[rec EXCEPT !.blocked = FALSE, !.answered = TRUE]} \cup
       (IF screen.kind \in Waiting
        THEN {[blocked |-> TRUE, kind |-> KindOf(screen), q |-> screen.q, answered |-> FALSE]}
        ELSE {})
  /\ Turns(d, "ok")
  /\ UNCHANGED <<harness, heard>> /\ UNCHANGED pane /\ UNCHANGED files

(* A decide that dies, or whose herdr call fails, leaves what it did. *)
Dies(d) ==
  /\ decide[d].at \notin {"load", "ok", "refused", "gone"}
  /\ Turns(d, "gone")
  /\ Still /\ UNCHANGED files

Soldier == \/ \E kind \in Screens[harness] : Asks(kind)
           \/ AnsweredThere \/ ReadsAnswer \/ TakesAnswer \/ Restarts

DecideStep(d) ==
  \/ LoadBlocked(d) \/ Unresolved(d) \/ Reread(d) \/ Write(d) \/ Consumed(d) \/ TimesOut(d)
  \/ LookAt(d) \/ Press(d) \/ FieldOpens(d) \/ Type(d) \/ PromptSent(d) \/ Record(d)

AnswersNext ==
  \/ Soldier \/ RecordsBlocked \/ Dismisses
  \/ \E d \in Decider : DecideStep(d) \/ Dies(d)

AnswersSpec == AnswersInit /\ [][AnswersNext]_answersVars

-----------------------------------------------------------------------------
(* The question a Pi soldier gets answered through its file is the one the *)
(* record showed the general, however old the record or the file is        *)
(* (pi_ask.go answerAsk, ask_user.ts readAnswer).                          *)
FileAnswersTheShown == \A h \in heard : h.via = "file" => h.q = h.meant

(* An answer "vx decide" reported as refused or withdrawn never reaches    *)
(* the soldier later (piask.go Withdraw: "so it cannot answer the question *)
(* late").                                                                 *)
RefusedIsUnheard ==
  \A h \in heard : h.via = "file" => ~Stands(h.by, "refused")

(* decide.go: an OpenCode screen is answered "after the pane is read again *)
(* so nothing is typed into a screen that has moved on".                   *)
KeysAnswerTheShown ==
  harness = "opencode" => \A h \in heard : h.via = "keys" => h.q = h.meant
=============================================================================
