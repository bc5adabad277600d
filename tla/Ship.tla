-------------------------------- MODULE Ship --------------------------------
(***************************************************************************)
(* Shipping one mission (internal/cli/ship.go, ship_push.go), the          *)
(* tribunal it runs first (internal/tribunal) and landing what was shipped *)
(* (internal/cli/land.go, internal/ghpr).                                  *)
(*                                                                         *)
(* Commands of vexillum are processes of their own: several ships of the   *)
(* task may run at once, each may die anywhere, and meanwhile the soldier  *)
(* the commander prompted again works in the very camp the tribunal        *)
(* judges.  git, GitHub and the people who push to the branch are          *)
(* external.  A branch is the sequence of its commits, so one branch       *)
(* fast-forwards another exactly when it has it as a prefix; the base      *)
(* branch is the empty sequence.                                           *)
(***************************************************************************)
EXTENDS Naturals, Sequences, SequencesExt, FiniteSets

CONSTANTS Shipper,      \* "vx ship" processes of the task
          MaxRounds,    \* tribunal: Options.MaxFixRounds with --fix, 0 without
          MaxAttempts,  \* reviewMaxAttempts
          MaxCommit     \* bound: commits anybody makes

ASSUME ShipAssumption ==
  /\ MaxRounds \in Nat
  /\ MaxAttempts \in Nat \ {0}
  /\ MaxCommit \in Nat

VARIABLES
  task,     \* the record: status and LastPushedSHA
  working,  \* the soldier is at work in the camp
  camp,     \* the mission branch in the camp, its HEAD
  dirty,    \* the camp has uncommitted edits
  origin,   \* the branch on the remote, empty when there is none
  pr,       \* the branch's pull request: its state, and the head merged
  green,    \* heads whose checks are all green on GitHub
  foreign,  \* commits others pushed that were never in the camp
  made,     \* commits made so far
  proc,     \* the ships
  land      \* the "vx land" that merges the pull request

shipVars == <<task, working, camp, dirty, origin, pr, green, foreign, made, proc, land>>
world == <<task, working, camp, dirty, origin, pr, green, foreign, made, land>>

Commit == 1 .. MaxCommit
NoSHA == <<0>>          \* an empty LastPushedSHA: the tip of no branch

(* A ship at rest; "at" is then where it stands: look, lint, tests, review, *)
(* verdict, fix, stage, docs, text (the tribunal), head, push, tip, force,   *)
(* record, open, save (the push and the pull request), as runShip goes.      *)
Resting == [at |-> "idle", shipped |-> FALSE, pushed |-> NoSHA, existing |-> FALSE,
            round |-> 0, attempt |-> 0, target |-> <<>>, head |-> <<>>, touched |-> FALSE]

NoLand == [at |-> "idle", head |-> <<>>]

(* A finished mission with one commit of its soldier. *)
ShipInit ==
  /\ task = [status |-> "done", pushed |-> NoSHA]
  /\ working = FALSE
  /\ camp = <<1>>
  /\ dirty = FALSE
  /\ origin = <<>>
  /\ pr = [state |-> "none", merged |-> <<>>]
  /\ green = {}
  /\ foreign = {}
  /\ made = 1
  /\ proc = [p \in Shipper |-> Resting]
  /\ land = NoLand

(* Somebody other than p changed the camp. *)
Touch(ps) == [q \in Shipper |->
  IF q \in ps /\ proc[q].at # "idle" THEN [proc[q] EXCEPT !.touched = TRUE] ELSE proc[q]]

(* The commander prompts the settled task again; the soldier commits,      *)
(* rewrites what it had, takes in what others pushed, leaves files behind, *)
(* stops; the sentinel settles a running task whose soldier has stopped.   *)
Prompt ==
  /\ task.status \in {"done", "shipped"}
  /\ task' = [task EXCEPT !.status = "running"]
  /\ working' = TRUE
  /\ UNCHANGED <<camp, dirty, origin, pr, green, foreign, made, proc, land>>

SoldierLeaves(branch) ==
  /\ working
  /\ made < MaxCommit
  /\ camp' = branch
  /\ made' = made + 1
  /\ proc' = Touch(Shipper)
  /\ UNCHANGED <<task, working, origin, pr, green, land>>

Commits == SoldierLeaves(Append(camp, made + 1)) /\ dirty' = FALSE /\ UNCHANGED foreign

Amends ==
  /\ camp # <<>>
  /\ SoldierLeaves(Append(Front(camp), made + 1))
  /\ dirty' = FALSE
  /\ UNCHANGED foreign

Integrates ==
  /\ ~IsPrefix(origin, camp)
  /\ SoldierLeaves(Append(origin, made + 1))
  /\ foreign' = foreign \ ToSet(origin)
  /\ UNCHANGED dirty

Edits ==
  /\ working /\ ~dirty
  /\ dirty' = TRUE
  /\ UNCHANGED <<task, working, camp, origin, pr, green, foreign, made, proc, land>>

Stops ==
  /\ working
  /\ working' = FALSE
  /\ UNCHANGED <<task, camp, dirty, origin, pr, green, foreign, made, proc, land>>

Settles ==
  /\ task.status = "running" /\ ~working
  /\ task' = [task EXCEPT !.status = "done"]
  /\ UNCHANGED <<working, camp, dirty, origin, pr, green, foreign, made, proc, land>>

(* GitHub and the people there: a commit pushed to the pull request's      *)
(* branch, checks that turn green, a pull request closed or reopened.      *)
OthersPush ==
  /\ pr.state = "open" /\ origin # <<>> /\ made < MaxCommit
  /\ origin' = Append(origin, made + 1)
  /\ foreign' = foreign \cup {made + 1}
  /\ made' = made + 1
  /\ UNCHANGED <<task, working, camp, dirty, pr, green, proc, land>>

ChecksPass ==
  /\ pr.state = "open" /\ origin \notin green
  /\ green' = green \cup {origin}
  /\ UNCHANGED <<task, working, camp, dirty, origin, pr, foreign, made, proc, land>>

CloseOrReopen ==
  /\ \/ pr.state = "open" /\ pr' = [pr EXCEPT !.state = "closed"]
     \/ pr.state = "closed" /\ pr' = [pr EXCEPT !.state = "open"]
  /\ UNCHANGED <<task, working, camp, dirty, origin, green, foreign, made, proc, land>>

-----------------------------------------------------------------------------
(* The ship. *)
Set(p, r) == proc' = [proc EXCEPT ![p] = r]
Goes(p, to) == Set(p, [proc[p] EXCEPT !.at = to])
Refuses(p) == Set(p, Resting)
At(p, at) == proc[p].at = at

Load(p) ==
  /\ At(p, "idle")
  /\ task.status \in {"done", "shipped"}
  /\ Set(p, [Resting EXCEPT !.at = "look", !.shipped = task.status = "shipped",
                            !.pushed = task.pushed])
  /\ UNCHANGED world

(* existingPullRequest: an open one is reused, none is fine for a task     *)
(* never shipped, a merged or closed one cannot take more commits.         *)
LookUp(p) ==
  /\ At(p, "look")
  /\ \/ pr.state = "open" /\ Set(p, [proc[p] EXCEPT !.at = "lint", !.existing = TRUE])
     \/ pr.state = "none" /\ ~proc[p].shipped /\ Goes(p, "lint")
     \/ Refuses(p)
  /\ UNCHANGED world

(* One step of the pipeline that runs a command: it passes, or its failure *)
(* ends the round and with it the ship.                                    *)
Check(p, step, next) ==
  /\ At(p, step)
  /\ Goes(p, next) \/ Refuses(p)
  /\ UNCHANGED world

Lint(p)  == Check(p, "lint", "tests")
Tests(p) == Check(p, "tests", "review")
Docs(p)  == Check(p, "docs", "text")
Text(p)  == Check(p, "text", "head")

(* runReview fixes the commit it asks about; a branch without changes has  *)
(* nothing to review.                                                      *)
StartReview(p) ==
  /\ At(p, "review")
  /\ Set(p, [proc[p] EXCEPT !.at = IF camp = <<>> THEN "docs" ELSE "verdict",
                            !.target = camp, !.attempt = 1, !.touched = FALSE])
  /\ UNCHANGED world

AgainOrDone(p) ==
  IF proc[p].attempt < MaxAttempts
  THEN [proc[p] EXCEPT !.attempt = @ + 1]
  ELSE Resting

FixOrDone(p) ==
  IF proc[p].round < MaxRounds THEN [proc[p] EXCEPT !.at = "fix", !.attempt = 0] ELSE Resting

(* The reviewer's answer: a pass; findings the fixer may act on; a report  *)
(* that does not parse, asked for again; findings for a human, a file left *)
(* unread, a timeout or an error, none of which is ever a pass.            *)
Verdict(p) ==
  /\ At(p, "verdict")
  /\ \/ Set(p, [proc[p] EXCEPT !.at = "docs", !.attempt = 0])
     \/ Set(p, FixOrDone(p))
     \/ Set(p, AgainOrDone(p))
     \/ Refuses(p)
  /\ UNCHANGED world

(* The fixer edits the camp, or finds nothing to edit, or runs out of time *)
(* and leaves what it edited uncommitted.                                  *)
FixerRuns(p) ==
  /\ At(p, "fix")
  /\ dirty' \in {dirty, TRUE}
  /\ \/ Goes(p, "stage")
     \/ Refuses(p)
  /\ UNCHANGED <<task, working, camp, origin, pr, green, foreign, made, land>>

DocsAfterFix(r) == [r EXCEPT !.at = "docs", !.round = @ + 1]  \* mutant: no second review
(* The round after a fix: the whole pipeline again. *)
NextRound(r) == [r EXCEPT !.at = "lint", !.round = @ + 1]

(* vexillum commits whatever lies in the camp, the soldier's edits too. *)
FixCommit(p) ==
  /\ At(p, "stage")
  /\ IF dirty /\ made < MaxCommit
     THEN /\ camp' = Append(camp, made + 1)
          /\ made' = made + 1
          /\ dirty' = FALSE
          /\ proc' = [Touch(Shipper \ {p}) EXCEPT ![p] = NextRound(proc[p])]
     ELSE Refuses(p) /\ UNCHANGED <<camp, made, dirty>>
  /\ UNCHANGED <<task, working, origin, pr, green, foreign, land>>

(* pushShipBranch reads the branch's tip, and later pushes the branch: git *)
(* reads it again.                                                         *)
ReadHead(p) ==
  /\ At(p, "head")
  /\ Set(p, [proc[p] EXCEPT !.at = "push", !.head = camp])
  /\ UNCHANGED world

Push(p) ==
  /\ At(p, "push")
  /\ \/ /\ IsPrefix(origin, camp)
        /\ origin' = camp
        /\ Goes(p, "record") \/ Refuses(p)     \* or its answer is lost
     \/ ~IsPrefix(origin, camp) /\ Goes(p, "tip") /\ UNCHANGED origin
     \/ Refuses(p) /\ UNCHANGED origin
  /\ UNCHANGED <<task, working, camp, dirty, pr, green, foreign, made, land>>

(* Rejected: forced only when origin holds what the record says was pushed. *)
OwnTip(p) == proc[p].pushed # NoSHA /\ origin = proc[p].pushed

RemoteTip(p) ==
  /\ At(p, "tip")
  /\ IF OwnTip(p) THEN Goes(p, "force") ELSE Refuses(p)
  /\ UNCHANGED world

LeaseDropped(p) == TRUE  \* mutant: --force
(* --force-with-lease: GitHub compares and swaps. *)
LeaseHolds(p) == origin = proc[p].pushed

ForcePush(p) ==
  /\ At(p, "force")
  /\ IF LeaseHolds(p)
     THEN origin' = camp /\ (Goes(p, "record") \/ Refuses(p))
     ELSE Refuses(p) /\ UNCHANGED origin
  /\ UNCHANGED <<task, working, camp, dirty, pr, green, foreign, made, land>>

(* The pushed tip is saved at once; a failure is only reported. *)
RecordPushed(p) ==
  /\ At(p, "record")
  /\ task' \in {task, [task EXCEPT !.pushed = proc[p].head]}
  /\ Goes(p, "open")
  /\ UNCHANGED <<working, camp, dirty, origin, pr, green, foreign, made, land>>

(* gh refuses a second pull request for the branch. *)
OpenPR(p) ==
  /\ At(p, "open")
  /\ \/ proc[p].existing /\ Goes(p, "save") /\ UNCHANGED pr
     \/ ~proc[p].existing /\ pr.state = "none"
        /\ pr' = [pr EXCEPT !.state = "open"] /\ Goes(p, "save")
     \/ ~proc[p].existing /\ Refuses(p) /\ UNCHANGED pr
  /\ UNCHANGED <<task, working, camp, dirty, origin, green, foreign, made, land>>

RecordShipped(p) ==
  /\ At(p, "save")
  /\ task' \in {task, [status |-> "shipped", pushed |-> proc[p].head]}
  /\ Set(p, Resting)
  /\ UNCHANGED <<working, camp, dirty, origin, pr, green, foreign, made, land>>

Die(p) ==
  /\ ~At(p, "idle")
  /\ Refuses(p)
  /\ UNCHANGED world

ShipStep(p) ==
  \/ Load(p) \/ LookUp(p) \/ Lint(p) \/ Tests(p) \/ StartReview(p) \/ Verdict(p)
  \/ FixerRuns(p) \/ FixCommit(p) \/ Docs(p) \/ Text(p) \/ ReadHead(p) \/ Push(p)
  \/ RemoteTip(p) \/ ForcePush(p) \/ RecordPushed(p) \/ OpenPR(p) \/ RecordShipped(p)

-----------------------------------------------------------------------------
(* mergeShippedPR and MergeShipped. *)
View ==
  /\ land.at = "idle" /\ task.status = "shipped" /\ pr.state = "open"
  /\ land' = [at |-> "checks", head |-> origin]
  /\ UNCHANGED <<task, working, camp, dirty, origin, pr, green, foreign, made, proc>>

(* gh reads the checks of the head the pull request has now. *)
SeeChecks ==
  /\ land.at = "checks"
  /\ land' = IF origin \in green THEN [land EXCEPT !.at = "merge"] ELSE NoLand
  /\ UNCHANGED <<task, working, camp, dirty, origin, pr, green, foreign, made, proc>>

HeadUnmatched == TRUE  \* mutant: the merge is not bound to a head
(* --match-head-commit *)
HeadMatches == origin = land.head

Merge ==
  /\ land.at = "merge"
  /\ land' = NoLand
  /\ IF pr.state = "open" /\ HeadMatches
     THEN pr' = [state |-> "merged", merged |-> origin]
     ELSE UNCHANGED pr
  /\ UNCHANGED <<task, working, camp, dirty, origin, green, foreign, made, proc>>

ShipNext ==
  \/ \E p \in Shipper : ShipStep(p) \/ Die(p)
  \/ Prompt \/ Commits \/ Amends \/ Integrates \/ Edits \/ Stops \/ Settles
  \/ OthersPush \/ ChecksPass \/ CloseOrReopen
  \/ View \/ SeeChecks \/ Merge

ShipSpec == ShipInit /\ [][ShipNext]_shipVars

-----------------------------------------------------------------------------
Steps(p) == proc'[p] # proc[p]

(* A ship never takes a commit off the remote branch that somebody else    *)
(* pushed and the camp never had, whatever was pushed while the tribunal   *)
(* ran and whatever an earlier ship recorded or failed to record.          *)
ForeignKept ==
  [][\A p \in Shipper : Steps(p) => ToSet(origin) \cap foreign \subseteq ToSet(origin')]_shipVars

(* What a ship pushes is the very branch its last review judged, the       *)
(* fixer's commits included, unless somebody else committed to the camp    *)
(* after that review had begun.                                            *)
PushesTheReviewed ==
  [][\A p \in Shipper : Steps(p) /\ origin' # origin =>
       proc[p].touched \/ origin' = proc[p].target]_shipVars

(* "vx land" merges a head only if the checks of that head were green,     *)
(* whatever is pushed to the branch while it looks.                        *)
MergedVerified == pr.merged # <<>> => pr.merged \in green
=============================================================================
