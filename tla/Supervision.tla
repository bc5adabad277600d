---------------------------- MODULE Supervision ----------------------------
(***************************************************************************)
(* One task's record and everybody who writes it: the sentinel, whose tick *)
(* works from a copy of the record while it asks herdr what the soldier's  *)
(* pane shows (internal/sentinel), and the vx commands that launch,        *)
(* prompt, answer, ship, land and strike the task (internal/cli,           *)
(* internal/soldier).  A write under the tasks lock (state.Update) is one  *)
(* step; what a process read before it may be stale by then.  The soldier, *)
(* herdr and the general are the environment.                              *)
(***************************************************************************)
EXTENDS Naturals

CONSTANTS Proc,         \* vx commands on this task at the same time
          Event,        \* what may happen besides the plain course (see SupervisionAssumption)
          MaxTurns,     \* bound: turns the task's soldiers take
          MaxCommands   \* bound: vx commands

ASSUME SupervisionAssumption ==
    /\ Event \subseteq {"hand", "pause", "death", "outage", "error", "kill", "crash", "marked", "overtaken"}
    /\ MaxTurns \in Nat /\ MaxCommands \in Nat

VARIABLES rec,      \* tasks/<id>.json
          leased,   \* whether the task holds its camp
          pane,     \* what herdr's pane of the soldier is at
          turn,     \* the turns started so far
          line,     \* the turn of the last needs-decision line in the scrollback
          signal,   \* whether a commit or a report is there (the completion signal)
          paused,   \* whether a valid pause file is there
          snt,      \* the sentinel
          cmd,      \* the vx commands
          issued,   \* the commands begun: the number of a command names its prompt
          heard,    \* history: the prompts and answers delivered to the soldier
          unsure,   \* history: the prompts and answers whose command ended not knowing what came of them
          tasked    \* history: whether the soldier in the pane was sent the task, by a launch that lived on

world   == <<pane, turn, line, signal, paused>>
history == <<heard, unsure, tasked>>
vars    == <<rec, leased, world, snt, cmd, issued, history>>

L == INSTANCE Lifecycle WITH status <- rec.st
Statuses == L!Statuses
Reopenable == L!Reopenable

Id   == 1..MaxCommands
Turn == 0..MaxTurns
Mark == {"no", "new", "old"}   \* a ...Since field: zero, within its window, past it

Records == [st : Statuses, agent : BOOLEAN, submitted : BOOLEAN,
            fresh : BOOLEAN,             \* UpdatedAt is within the settle grace period
            by : {0} \cup Id,            \* the prompt UpdatedAt stems from, if it does
            missing : Mark, idle : Mark, \* AgentNotFoundSince, IdleUnconfirmedSince
            asked : Turn, answered : BOOLEAN, \* Decision: the turn it was asked in
            amends : SUBSET Id]
NewRec == [st |-> "pending", agent |-> FALSE, submitted |-> FALSE, fresh |-> TRUE, by |-> 0,
           missing |-> "no", idle |-> "no", asked |-> 0, answered |-> FALSE, amends |-> {}]

Panes == {"none", "starting", "ready", "working", "asking", "idle", "held", "gone"}
Open  == Panes \ {"none", "gone"}

Tick    == [at : {"down", "idle", "reopen", "reopenSave", "probe", "act", "save", "undelivered", "wake"},
            snap : Records, live : {"none", "unknown", "gone", "working", "blocked", "idle"},
            next : Records]
NoTick  == [at |-> "idle", snap |-> NewRec, live |-> "none", next |-> NewRec]

Kind == {"dispatch", "redispatch", "prompt", "decide", "dismiss", "strike", "land", "ship"}
Cmds == [at : {"idle", "discard", "reset", "acquire", "tab", "run", "start", "stamp", "mark", "deliver",
               "probe", "look", "record", "restore", "fail", "interrupt", "retire", "close", "ship"},
         kind : Kind \cup {"none"}, id : {0} \cup Id,
         copy : Records,                  \* the record as the command knows it
         res : Statuses \cup {"sent"},    \* what the probe found: the status to record
         asks : Turn]                     \* the question it settled on
NoCmd == [at |-> "idle", kind |-> "none", id |-> 0, copy |-> NewRec, res |-> "sent", asks |-> 0]

Init ==
    /\ rec = NewRec /\ leased = FALSE
    /\ pane = "none" /\ turn = 0 /\ line = 0 /\ signal = FALSE /\ paused = FALSE
    /\ snt = NoTick
    /\ cmd = [p \in Proc |-> NoCmd] /\ issued = 0
    /\ heard = {} /\ unsure = {} /\ tasked = FALSE

-----------------------------------------------------------------------------
(* What the code reads, and how it changes a record.                       *)

\* agent_status of herdr for the pane; a pane that is gone has no agent.
Shown == [none |-> "gone", starting |-> "unknown", ready |-> "idle", working |-> "working",
          asking |-> "blocked", idle |-> "idle", held |-> "idle", gone |-> "gone"]
Live == Shown[pane]
\* The pane paints a turn in progress, or its turn left background work behind.
TurnNotOver == pane \in {"held", "working"}
\* FinalTurnNeedsDecision: a needs-decision line whose question record r does not hold as answered.
NeedsDecision(r) == pane \in Open /\ line # 0 /\ ~(r.answered /\ r.asked = line)

\* The status, and UpdatedAt now.
Touched(r, st) == [r EXCEPT !.st = st, !.fresh = TRUE, !.by = 0]
\* Blocked on the question of turn q.
Asked(r, q) == [Touched(r, "blocked") EXCEPT !.asked = q, !.answered = FALSE]

-----------------------------------------------------------------------------
(* The sentinel's tick.                                                    *)

\* The write of a tick: its whole copy, unless the task has left running meanwhile.
Saved(r) == IF rec.st = "running"
            THEN [r EXCEPT !.submitted = r.submitted \/ rec.submitted]
            ELSE rec

TickDone == snt' = NoTick
ToSave(r) == snt' = [NoTick EXCEPT !.at = "save", !.next = r]

\* A slip: only a done task is watched for more work.
ReopenDoneOnly ==
    /\ snt.at = "idle" /\ rec.agent
    /\ \/ rec.st = "done" /\ leased /\ snt' = [NoTick EXCEPT !.at = "reopen", !.snap.st = rec.st]
       \/ rec.st = "running" /\ ~rec.fresh /\ snt' = [NoTick EXCEPT !.at = "probe", !.snap = rec]
    /\ UNCHANGED <<rec, leased, world, cmd, issued, history>>

\* The task list, read at the start of the tick.
Snapshot ==
    /\ snt.at = "idle" /\ rec.agent
    /\ \/ rec.st \in Reopenable /\ leased /\ snt' = [NoTick EXCEPT !.at = "reopen", !.snap.st = rec.st]
       \/ rec.st = "running" /\ ~rec.fresh /\ snt' = [NoTick EXCEPT !.at = "probe", !.snap = rec]
    /\ UNCHANGED <<rec, leased, world, cmd, issued, history>>

\* reopenActiveTasks: a settled task whose soldier works again.
ReopenProbe ==
    /\ snt.at = "reopen"
    /\ snt' = IF Live = "working" THEN [snt EXCEPT !.at = "reopenSave"] ELSE NoTick
    /\ UNCHANGED <<rec, leased, world, cmd, issued, history>>

\* A slip: the probe's lease check is not repeated under the lock.
ReopenUnleased ==
    /\ snt.at = "reopenSave"
    /\ rec' = IF rec.st = snt.snap.st
              THEN [Touched(rec, "running") EXCEPT !.missing = "no", !.idle = "no"]
              ELSE rec
    /\ TickDone
    /\ UNCHANGED <<leased, world, cmd, issued, history>>

ReopenSave ==
    /\ snt.at = "reopenSave"
    /\ rec' = IF rec.st = snt.snap.st /\ leased
              THEN [Touched(rec, "running") EXCEPT !.missing = "no", !.idle = "no"]
              ELSE rec
    /\ TickDone
    /\ UNCHANGED <<leased, world, cmd, issued, history>>

Probe ==
    /\ snt.at = "probe"
    /\ snt' = IF Live = "unknown" THEN NoTick ELSE [snt EXCEPT !.at = "act", !.live = Live]
    /\ UNCHANGED <<rec, leased, world, cmd, issued, history>>

\* herdr restarts and knows no agent when it is asked.  It is back before the window of a
\* not-found mark is over, so an outage is never what an old mark is confirmed by.
Outage ==
    /\ "outage" \in Event
    /\ snt.at = "probe" /\ snt.snap.missing # "old" /\ Live # "gone"
    /\ snt' = [snt EXCEPT !.at = "act", !.live = "gone"]
    /\ UNCHANGED <<rec, leased, world, cmd, issued, history>>

\* A slip: one agent_not_found is enough.
InterruptAtOnce ==
    /\ snt.at = "act" /\ snt.live = "gone"
    /\ ToSave(Touched(snt.snap, "interrupted"))
    /\ UNCHANGED <<rec, leased, world, cmd, issued, history>>

\* handleAgentNotFound: gone for longer than the window, the task is interrupted.
AgentNotFound ==
    /\ snt.at = "act" /\ snt.live = "gone"
    /\ \/ snt.snap.missing = "no" /\ ToSave([snt.snap EXCEPT !.missing = "new"])
       \/ snt.snap.missing = "new" /\ TickDone
       \/ snt.snap.missing = "old" /\ ToSave(Touched(snt.snap, "interrupted"))
    /\ UNCHANGED <<rec, leased, world, cmd, issued, history>>

\* The agent answers again: its not-found mark goes before anything else.
AgentFound ==
    /\ snt.at = "act" /\ snt.live # "gone" /\ snt.snap.missing # "no"
    /\ LET found == [snt.snap EXCEPT !.missing = "no"]
       IN  /\ rec' = Saved(found)
           /\ snt' = IF rec.st = "running" THEN [snt EXCEPT !.snap = found] ELSE NoTick
    /\ UNCHANGED <<leased, world, cmd, issued, history>>

Present(live) == snt.at = "act" /\ snt.live = live /\ snt.snap.missing = "no"

StillWorking ==
    /\ Present("working") /\ TickDone
    /\ UNCHANGED <<rec, leased, world, cmd, issued, history>>

\* settleTransition.
SettleBlocked ==
    /\ Present("blocked") /\ ToSave([Asked(snt.snap, turn) EXCEPT !.idle = "no"])
    /\ UNCHANGED <<rec, leased, world, cmd, issued, history>>

\* settleNeedsDecision.
SettleNeedsDecision ==
    /\ Present("idle") /\ NeedsDecision(snt.snap)
    /\ ToSave([Asked(snt.snap, line) EXCEPT !.idle = "no"])
    /\ UNCHANGED <<rec, leased, world, cmd, issued, history>>

Idle == Present("idle") /\ ~NeedsDecision(snt.snap)

\* The first sight of an idle turn is marked, and the mark has a window to run out.
MarkIdle(r) == \/ r.idle = "no" /\ ToSave([r EXCEPT !.idle = "new"])
               \/ r.idle = "new" /\ TickDone

\* A slip: background work is waited for without end.
HoldForEver ==
    /\ Idle /\ TurnNotOver
    /\ \/ MarkIdle(snt.snap)
       \/ snt.snap.idle = "old" /\ TickDone
    /\ UNCHANGED <<rec, leased, world, cmd, issued, history>>

\* holdUnfinishedTurn.
HoldUnfinishedTurn ==
    /\ Idle /\ TurnNotOver
    /\ \/ MarkIdle(snt.snap)
       \/ snt.snap.idle = "old" /\ ToSave(Touched(snt.snap, "unconfirmed"))
    /\ UNCHANGED <<rec, leased, world, cmd, issued, history>>

\* settleDone, on a completion signal.
SettleDone ==
    /\ Idle /\ ~TurnNotOver /\ signal
    /\ ToSave([Touched(snt.snap, "done") EXCEPT !.idle = "no"])
    /\ UNCHANGED <<rec, leased, world, cmd, issued, history>>

\* A declared pause excuses the idle turn.
ExcusePause ==
    /\ Idle /\ ~TurnNotOver /\ ~signal /\ paused
    /\ \/ snt.snap.idle = "no" /\ TickDone
       \/ snt.snap.idle # "no" /\ ToSave([snt.snap EXCEPT !.idle = "no"])
    /\ UNCHANGED <<rec, leased, world, cmd, issued, history>>

\* handleIdleUnconfirmed.
IdleUnconfirmed ==
    /\ Idle /\ ~TurnNotOver /\ ~signal /\ ~paused
    /\ \/ MarkIdle(snt.snap)
       \/ snt.snap.idle = "old" /\ snt.snap.submitted /\ ToSave(Touched(snt.snap, "unconfirmed"))
       \/ snt.snap.idle = "old" /\ ~snt.snap.submitted /\ snt' = [NoTick EXCEPT !.at = "undelivered"]
    /\ UNCHANGED <<rec, leased, world, cmd, issued, history>>

\* The end of a tick's write: a task that left running owes the commander a wake.
Written(settled) == snt' = IF settled THEN [NoTick EXCEPT !.at = "wake"] ELSE NoTick

Save ==
    /\ snt.at = "save"
    /\ rec' = Saved(snt.next)
    /\ Written(rec.st = "running" /\ snt.next.st # "running")
    /\ UNCHANGED <<leased, world, cmd, issued, history>>

\* interruptUndelivered: the prompt never got out, by the record as it is now.
InterruptUndelivered ==
    /\ snt.at = "undelivered"
    /\ LET undelivered == rec.st = "running" /\ ~rec.submitted
       IN  /\ rec' = IF undelivered THEN [Touched(rec, "interrupted") EXCEPT !.idle = "no"] ELSE rec
           /\ Written(undelivered)
    /\ UNCHANGED <<leased, world, cmd, issued, history>>

\* recordWake: the wake itself is WakeQueue's.
RecordWake ==
    /\ snt.at = "wake" /\ TickDone
    /\ UNCHANGED <<rec, leased, world, cmd, issued, history>>

\* The sentinel dies; the next one starts with a new tick.
Crash ==
    /\ "crash" \in Event /\ snt.at \notin {"idle", "down"}
    /\ snt' = [NoTick EXCEPT !.at = "down"]
    /\ UNCHANGED <<rec, leased, world, cmd, issued, history>>
Restart ==
    /\ snt.at = "down" /\ TickDone
    /\ UNCHANGED <<rec, leased, world, cmd, issued, history>>

SentinelStep ==
    \/ Restart \/ Snapshot \/ ReopenProbe \/ ReopenSave \/ Probe
    \/ AgentNotFound \/ AgentFound \/ StillWorking \/ SettleBlocked
    \/ SettleNeedsDecision \/ HoldUnfinishedTurn \/ SettleDone \/ ExcusePause \/ IdleUnconfirmed
    \/ Save \/ InterruptUndelivered \/ RecordWake

-----------------------------------------------------------------------------
(* The vx commands.                                                        *)

C(p) == cmd[p]
At(p, a) == cmd[p].at = a
Goto(p, a) == cmd' = [cmd EXCEPT ![p].at = a]
End(p) == cmd' = [cmd EXCEPT ![p] = NoCmd]
Launches == {"dispatch", "redispatch"}
Speeches == {"prompt", "decide"}

\* No tick that saw the task running is still under way: it is shorter than what makes a
\* task leave running and come back.
Swift == snt.at \in {"down", "idle", "reopen", "reopenSave", "wake"}

\* What a command needs of the record it loads.
Accepts(k) ==
    CASE k = "dispatch"   -> rec.st = "pending" /\ issued = 0
      [] k = "redispatch" -> rec.st = "interrupted"
      [] k = "prompt"     -> rec.st \in {"done", "shipped", "unconfirmed"} /\ rec.agent /\ leased
      [] k = "decide"     -> rec.st = "blocked"
      [] k = "dismiss"    -> rec.st = "blocked" /\ rec.agent
      [] k = "strike"     -> rec.st # "pending" \/ leased
      [] k = "land"       -> rec.st \notin {"pending", "shipped"}
      [] k = "ship"       -> rec.st \in {"done", "shipped"}
FirstStep == [dispatch |-> "acquire", redispatch |-> "discard", prompt |-> "mark", decide |-> "deliver",
              dismiss |-> "look", strike |-> "retire", land |-> "retire", ship |-> "ship"]

\* The record as it was loaded, as far as the command looks at that copy again.
Loaded(k) ==
    CASE k = "dispatch"                        -> rec
      [] k \in {"redispatch", "strike", "land"} -> [NewRec EXCEPT !.st = rec.st, !.agent = rec.agent]
      [] k = "dismiss"                         -> [NewRec EXCEPT !.asked = rec.asked]
      [] OTHER                                 -> NewRec

\* A decide comes long after the tick that settled its question.  Without the event "marked"
\* no redispatch meets a record that still carries an idle mark (Reset does not clear it).
Timely(k) == CASE k = "decide"     -> Swift
               [] k = "redispatch" -> rec.idle = "no" \/ "marked" \in Event
               [] OTHER            -> TRUE

Begin(p, k) ==
    /\ At(p, "idle") /\ issued < MaxCommands
    /\ Accepts(k) /\ Timely(k)
    /\ issued' = issued + 1
    /\ cmd' = [cmd EXCEPT ![p] = [NoCmd EXCEPT !.at = FirstStep[k], !.kind = k, !.id = issued + 1,
                                            !.copy = Loaded(k)]]
    /\ UNCHANGED <<rec, leased, world, snt, history>>

\* A step that fails leaves the command's work where it is.
GiveUp(p) ==
    /\ C(p).at \in {"discard", "acquire", "look", "retire", "ship"} /\ "error" \in Event
    /\ End(p)
    /\ UNCHANGED <<rec, leased, world, snt, issued, history>>

Kill(p) ==
    /\ "kill" \in Event /\ ~At(p, "idle")
    /\ End(p)
    /\ unsure' = IF C(p).kind \in Speeches /\ C(p).at \in {"deliver", "probe", "record", "restore"}
                 THEN unsure \cup {C(p).id} ELSE unsure
    /\ tasked' = (tasked /\ ~(C(p).kind \in Launches /\ C(p).at \in {"probe", "record"}))
    /\ UNCHANGED <<rec, leased, world, snt, issued, heard>>

\* The tab on the record is closed, unless herdr fails to.
CloseTab(p) == pane' \in IF C(p).copy.agent THEN {"gone"} \cup {pane : e \in Event \cap {"error"}} ELSE {pane}

\* vx redispatch: throw the dead soldier's camp, tab, report and pause file away ...
Discard(p) ==
    /\ At(p, "discard") /\ Goto(p, "reset")
    /\ leased' = FALSE /\ signal' = FALSE /\ paused' = FALSE
    /\ CloseTab(p)
    /\ UNCHANGED <<rec, turn, line, snt, issued, history>>

\* ... and put the record back to that of a fresh dispatch.
Reset(p) ==
    /\ At(p, "reset")
    /\ rec' = [Touched(rec, "pending") EXCEPT !.agent = FALSE, !.submitted = FALSE, !.missing = "no",
                                              !.asked = 0, !.answered = FALSE]
    /\ cmd' = [cmd EXCEPT ![p].at = "acquire", ![p].copy = rec']
    /\ UNCHANGED <<leased, world, snt, issued, history>>

\* acquireAndRunInHerdr: lease a camp, and save the whole copy with it.
Acquire(p) ==
    /\ At(p, "acquire") /\ Goto(p, "tab")
    /\ leased' = TRUE
    /\ rec' = Touched(C(p).copy, C(p).copy.st)
    /\ UNCHANGED <<world, snt, issued, history>>

\* RunInHerdr: a tab for the soldier.
CreateTab(p) ==
    /\ At(p, "tab") /\ Goto(p, "run")
    /\ pane' = "starting" /\ line' = 0 /\ tasked' = FALSE
    /\ UNCHANGED <<rec, leased, turn, signal, paused, snt, issued, heard, unsure>>

TabFails(p) ==
    /\ At(p, "tab") /\ "error" \in Event
    /\ rec' = Touched(C(p).copy, "failed")
    /\ End(p)
    /\ UNCHANGED <<leased, world, snt, issued, history>>

RecordRunning(p) ==
    /\ At(p, "run") /\ Swift
    /\ rec' = [Touched(rec, "running") EXCEPT !.agent = TRUE]
    /\ cmd' = [cmd EXCEPT ![p].at = "start", ![p].copy = NewRec]
    /\ UNCHANGED <<leased, world, snt, issued, history>>

\* startAgent: wait for the agent; a pane that closed, or a start herdr refuses, fails the task.
StartAgent(p) ==
    /\ At(p, "start")
    /\ \/ pane \in Open \ {"starting"} /\ Goto(p, "stamp")
       \/ (pane = "gone" \/ "error" \in Event) /\ Goto(p, "fail")
    /\ UNCHANGED <<rec, leased, world, snt, issued, history>>

\* UpdatedAt again: the grace period counts from here.
Stamp(p) ==
    /\ At(p, "stamp") /\ Goto(p, "deliver")
    /\ rec' = Touched(rec, rec.st)
    /\ UNCHANGED <<leased, world, snt, issued, history>>

Fail(p) ==
    /\ At(p, "fail") /\ End(p)
    /\ rec' = Touched(rec, "failed")
    /\ UNCHANGED <<leased, world, snt, issued, history>>

\* Reprompt: running, with the amendment, before the prompt goes out.
MarkRunning(p) ==
    /\ At(p, "mark") /\ Swift
    /\ rec' = [Touched(rec, "running") EXCEPT !.amends = @ \cup {C(p).id}, !.by = C(p).id,
                                              !.missing = "no", !.idle = "no"]
    /\ cmd' = [cmd EXCEPT ![p].at = "deliver", ![p].copy = rec]
    /\ UNCHANGED <<leased, world, snt, issued, history>>

\* herdr takes the prompt, or the answer, and the soldier starts a turn on it.
Deliver(p) ==
    /\ At(p, "deliver") /\ pane \in Open \ {"starting"}
    /\ pane = "working" \/ turn < MaxTurns
    /\ pane' = "working"
    /\ turn' = IF pane = "working" THEN turn ELSE turn + 1
    /\ heard' = IF C(p).kind \in Speeches THEN heard \cup {C(p).id} ELSE heard
    /\ tasked' = (tasked \/ C(p).kind \in Launches)
    /\ Goto(p, "probe")
    /\ UNCHANGED <<rec, leased, line, signal, paused, snt, issued, unsure>>

\* What a command does when its soldier's pane turns out to be gone.
WhenGone == [dispatch |-> "fail", redispatch |-> "fail", prompt |-> "restore", decide |-> "interrupt"]

PaneGone(p) ==
    /\ C(p).at \in {"deliver", "probe"} /\ pane \in {"none", "gone"}
    /\ Goto(p, WhenGone[C(p).kind])
    /\ unsure' = IF At(p, "probe") /\ C(p).kind \in Speeches THEN unsure \cup {C(p).id} ELSE unsure
    /\ UNCHANGED <<rec, leased, world, snt, issued, heard, tasked>>

\* Any other error of herdr: the prompt was not delivered.
DeliveryFails(p) ==
    /\ At(p, "deliver") /\ "error" \in Event
    /\ IF C(p).kind = "decide" THEN End(p) ELSE Goto(p, WhenGone[C(p).kind])
    /\ UNCHANGED <<rec, leased, world, snt, issued, history>>

\* A slip: the status goes back, the amendment of the prompt nobody heard stays.
RestoreStatusOnly(p) ==
    /\ At(p, "restore") /\ End(p)
    /\ rec' = IF rec.st = "running" /\ rec.by = C(p).id
              THEN [rec EXCEPT !.st = C(p).copy.st, !.fresh = FALSE, !.by = C(p).copy.by,
                               !.missing = C(p).copy.missing, !.idle = C(p).copy.idle]
              ELSE rec
    /\ UNCHANGED <<leased, world, snt, issued, history>>

\* restoreAfterFailedPrompt: the amendment goes, and the running status if it is still this prompt's.
Restore(p) ==
    /\ At(p, "restore") /\ End(p)
    /\ LET taken == [rec EXCEPT !.amends = @ \ {C(p).id}]
       IN  rec' = IF rec.st = "running" /\ rec.by = C(p).id
                  THEN [taken EXCEPT !.st = C(p).copy.st, !.fresh = FALSE, !.by = C(p).copy.by,
                                     !.missing = C(p).copy.missing, !.idle = C(p).copy.idle]
                  ELSE taken
    /\ UNCHANGED <<leased, world, snt, issued, history>>

\* markInterrupted.
Interrupt(p) ==
    /\ At(p, "interrupt") /\ End(p)
    /\ rec' = Touched(rec, "interrupted")
    /\ UNCHANGED <<leased, world, snt, issued, history>>

\* corroboratedStatus of a pane at rest, for a task with record r.
Corroborated(r) ==
    IF pane = "asking" \/ NeedsDecision(r) THEN "blocked"
    ELSE IF pane = "held" THEN "running"
    ELSE IF signal \/ ~paused THEN "done"
    ELSE "unconfirmed"
\* finishAnswerBlocked maps what the pane shows, and holds only an unfinished turn back.
AfterAnswer ==
    CASE pane = "asking" -> "blocked" [] pane = "held" -> "running" [] OTHER -> "done"

Found(p, r, st) == [r EXCEPT !.at = "record", !.res = st, !.copy = NewRec,
                             !.asks = IF pane = "asking" THEN turn ELSE line]

\* The quick probe after a delivery: the soldier is at work, or it settled already.
QuickProbe(p) ==
    /\ At(p, "probe") /\ pane \in Open \ {"starting"}
    /\ cmd' = [cmd EXCEPT ![p] = Found(p, @, IF pane = "working" THEN "sent"
                                               ELSE IF C(p).kind = "decide" THEN AfterAnswer
                                               ELSE Corroborated(C(p).copy))]
    /\ UNCHANGED <<rec, leased, world, snt, issued, history>>

\* DismissBlocked looks at the pane instead; a pane that is really blocked is refused.
Look(p) ==
    /\ At(p, "look") /\ pane # "starting"
    /\ cmd' = [cmd EXCEPT ![p] =
                  CASE pane \in {"none", "gone"} -> [@ EXCEPT !.at = "interrupt"]
                    [] pane = "asking"           -> NoCmd
                    [] pane = "working"          -> Found(p, @, "running")
                    [] OTHER                     -> Found(p, @, Corroborated([C(p).copy EXCEPT !.answered = TRUE]))]
    /\ UNCHANGED <<rec, leased, world, snt, issued, history>>

\* applySettled.
Settled(r, p) == IF C(p).res = "blocked" THEN Asked(r, C(p).asks) ELSE Touched(r, C(p).res)

RecordLaunch(p) ==
    /\ At(p, "record") /\ C(p).kind \in Launches
    /\ rec' = [IF C(p).res = "sent" THEN rec ELSE Settled(rec, p) EXCEPT !.submitted = TRUE]
    /\ End(p)
    /\ UNCHANGED <<leased, world, snt, issued, history>>

RecordPrompt(p) ==
    /\ At(p, "record") /\ C(p).kind = "prompt"
    /\ rec' = IF C(p).res = "sent" THEN rec ELSE Settled(rec, p)
    /\ End(p)
    /\ UNCHANGED <<leased, world, snt, issued, history>>

\* finishAnswerBlocked: the answer, the amendment and the status, whatever the record is by now.
RecordAnswer(p) ==
    /\ At(p, "record") /\ C(p).kind = "decide"
    /\ LET told == [rec EXCEPT !.answered = rec.asked # 0, !.amends = @ \cup {C(p).id}]
       IN  rec' = IF C(p).res = "sent" THEN Touched(told, "running") ELSE Settled(told, p)
    /\ End(p)
    /\ UNCHANGED <<leased, world, snt, issued, history>>

RecordDismissal(p) ==
    /\ At(p, "record") /\ C(p).kind = "dismiss" /\ Swift
    /\ rec' = [Touched(rec, C(p).res) EXCEPT !.answered = rec.asked # 0, !.missing = "no", !.idle = "no"]
    /\ End(p)
    /\ UNCHANGED <<leased, world, snt, issued, history>>

\* vx strike and the strike of vx land: the camp goes back to the pool, then the pane is closed.
\* A landed branch is not ahead of its base any more.  After a merge the strike may still fail.
Retire(p) ==
    /\ At(p, "retire") /\ Goto(p, "close")
    /\ C(p).kind = "land" => signal
    /\ signal' = (signal /\ C(p).kind # "land")
    /\ \/ leased' = FALSE /\ CloseTab(p)
       \/ C(p).kind = "land" /\ "error" \in Event /\ UNCHANGED <<leased, pane>>
    /\ UNCHANGED <<rec, turn, line, paused, snt, issued, history>>

\* A slip: the record on disk is not looked at again.
CloseAsLoaded(p) ==
    /\ At(p, "close") /\ C(p).kind = "strike" /\ End(p)
    /\ rec' = IF C(p).copy.st \in L!NeverFinished THEN Touched(rec, "struck") ELSE rec
    /\ UNCHANGED <<leased, world, snt, issued, history>>

\* closeStruckTask: only a task that never finished, by the loaded record and by the one on disk.
CloseStruck(p) ==
    /\ At(p, "close") /\ C(p).kind = "strike" /\ End(p)
    /\ rec' = IF {C(p).copy.st, rec.st} \subseteq L!NeverFinished THEN Touched(rec, "struck") ELSE rec
    /\ UNCHANGED <<leased, world, snt, issued, history>>

\* recordLanded: what is still open is done.
RecordLanded(p) ==
    /\ At(p, "close") /\ C(p).kind = "land" /\ End(p)
    /\ rec' = IF rec.st \in {"running", "blocked", "unconfirmed"}
              THEN [Touched(rec, "done") EXCEPT !.missing = "no", !.idle = "no"]
              ELSE rec
    /\ UNCHANGED <<leased, world, snt, issued, history>>

\* vx ship, minutes after it loaded the record: the pull request is open.
RecordShipped(p) ==
    /\ At(p, "ship") /\ End(p)
    /\ rec' = Touched(rec, "shipped")
    /\ UNCHANGED <<leased, world, snt, issued, history>>

CommandStep(p) ==
    \/ Discard(p) \/ Reset(p) \/ Acquire(p) \/ CreateTab(p) \/ TabFails(p)
    \/ RecordRunning(p) \/ StartAgent(p) \/ Stamp(p) \/ Fail(p)
    \/ MarkRunning(p) \/ Deliver(p) \/ PaneGone(p) \/ DeliveryFails(p) \/ Restore(p) \/ Interrupt(p)
    \/ QuickProbe(p) \/ Look(p) \/ GiveUp(p)
    \/ RecordLaunch(p) \/ RecordPrompt(p) \/ RecordAnswer(p) \/ RecordDismissal(p)
    \/ Retire(p) \/ CloseStruck(p) \/ RecordLanded(p) \/ RecordShipped(p)

-----------------------------------------------------------------------------
(* The soldier, the general at its pane, herdr, and time.                  *)

Unmoved == UNCHANGED <<rec, leased, snt, cmd, issued, history>>

\* A harness that starts comes up by itself.
AgentUp ==
    /\ pane = "starting" /\ pane' = "ready"
    /\ UNCHANGED <<turn, line, signal, paused>> /\ Unmoved

\* A turn ends: finished, on a question (a selector, or a needs-decision line) or on background work.
EndTurn ==
    /\ pane = "working"
    /\ \/ pane' \in {"idle", "asking", "held"} /\ UNCHANGED line
       \/ pane' = "idle" /\ line' = turn
    /\ UNCHANGED <<turn, signal, paused>> /\ Unmoved

\* The commit, or the report: it may reach the disk just after the turn.
Finish ==
    /\ pane \in {"working", "idle"} /\ ~signal /\ signal' = TRUE
    /\ UNCHANGED <<pane, turn, line, paused>> /\ Unmoved

\* The soldier goes on by itself (the background job ended, the pause is over), or since the
\* general typed into its pane.
NewTurn ==
    /\ \/ pane = "held"
       \/ pane = "idle" /\ paused
       \/ "hand" \in Event /\ pane \in {"idle", "held", "asking"}
    /\ turn < MaxTurns
    /\ pane' = "working" /\ turn' = turn + 1
    /\ UNCHANGED <<line, signal, paused>> /\ Unmoved

DeclarePause ==
    /\ "pause" \in Event /\ pane = "working" /\ ~paused /\ paused' = TRUE
    /\ UNCHANGED <<pane, turn, line, signal>> /\ Unmoved
\* The soldier removes the file, or it outlives its validity.
PauseOver ==
    /\ paused /\ paused' = FALSE
    /\ UNCHANGED <<pane, turn, line, signal>> /\ Unmoved

PaneDies ==
    /\ "death" \in Event /\ pane \in Open /\ pane' = "gone"
    /\ UNCHANGED <<turn, line, signal, paused>> /\ Unmoved

\* Ticks, and the sections of a command that wait for neither a soldier nor a pull request, are
\* shorter than the sentinel's grace period and windows; so is a harness's start (see README).
Waits(p) == C(p).at \in {"idle", "ship"}
Quiet == snt.at = "idle" /\ \A p \in Proc : Waits(p)

\* The quick probe (15 s) outlasts the grace period (8 s) while the soldier works; a decide's,
\* which records nothing before its probe is over, only with the event "overtaken".
Probing(p) == At(p, "probe") /\ pane = "working" /\ (C(p).kind = "decide" => "overtaken" \in Event)

GraceOver ==
    /\ rec.fresh /\ rec.st = "running"   \* nobody else asks
    /\ snt.at = "idle" /\ \A p \in Proc : Waits(p) \/ Probing(p)
    /\ rec' = [rec EXCEPT !.fresh = FALSE]
    /\ UNCHANGED <<leased, world, snt, cmd, issued, history>>

WindowOver ==
    /\ "new" \in {rec.missing, rec.idle} /\ Quiet
    /\ rec' = [rec EXCEPT !.missing = IF @ = "new" THEN "old" ELSE @, !.idle = IF @ = "new" THEN "old" ELSE @]
    /\ UNCHANGED <<leased, world, snt, cmd, issued, history>>

\* What time alone brings about.
Elapse == AgentUp \/ PauseOver \/ GraceOver \/ WindowOver
World  == EndTurn \/ Finish \/ NewTurn \/ DeclarePause \/ PaneDies \/ Elapse

Next == \/ SentinelStep \/ Outage \/ Crash
        \/ \E p \in Proc : CommandStep(p) \/ Kill(p) \/ \E k \in Kind : Begin(p, k)
        \/ World

\* The sentinel ticks, commands carry on, time passes between the ticks, and neither the sentinel
\* nor herdr fails over and over for ever.  Nothing makes a soldier work, or a commander act.
Fairness ==
    /\ WF_vars(SentinelStep) /\ SF_vars(Elapse)
    /\ \A p \in Proc : WF_vars(CommandStep(p))
    /\ <>[][~(Crash \/ Outage)]_vars

Spec == Init /\ [][Next]_vars /\ Fairness

-----------------------------------------------------------------------------

\* Every variable holds a value of its kind.
TypeOK ==
    /\ rec \in Records /\ leased \in BOOLEAN
    /\ pane \in Panes /\ turn \in Turn /\ line \in Turn /\ signal \in BOOLEAN /\ paused \in BOOLEAN
    /\ snt \in Tick
    /\ cmd \in [Proc -> Cmds] /\ issued \in {0} \cup Id
    /\ heard \subseteq Id /\ unsure \subseteq Id /\ tasked \in BOOLEAN

\* Reprompt, finishAnswerBlocked: what the general told the soldier is on the record as an
\* amendment, and an instruction that never reached the soldier is not.
AmendmentKept ==
    \A id \in Id \ unsure : (\A p \in Proc : C(p).id # id) => (id \in heard <=> id \in rec.amends)

\* handleAgentNotFound, interruptUndelivered: an interrupted task, whose camp vx redispatch
\* throws away, has no soldier that was given the task (unless its dispatch was killed
\* before it could record the delivery).
LostHasNoSoldier == rec.st = "interrupted" => pane \in {"none", "gone"} \/ ~tasked

\* LostHasNoSoldier, and every variable of its kind.
LostIsLost == TypeOK /\ LostHasNoSoldier

\* reopenActiveTasks, saveIfRunning, recordLanded: once a task is landed or struck and its
\* camp is given back, nobody opens it again.
ClosedStays ==
    [][~leased /\ rec.st \in {"done", "shipped", "struck"} => rec'.st \in {rec.st, "shipped"}]_vars

\* state.Update: whatever the interleaving, the status only takes the steps of Lifecycle.
LifecycleSpec == L!Spec

AtRest == pane \in {"ready", "idle", "asking", "held", "gone"}

\* tickProject: a running task whose soldier has stopped is settled and its wake written,
\* unless the sentinel dies between the two or the soldier goes on.
EveryStopTold ==
    (rec.st = "running" /\ AtRest) ~> ((rec.st # "running" /\ snt.at # "wake") \/ ~AtRest)

\* reopenActiveTasks: a settled task whose soldier keeps working is running again.
WorkNoticed ==
    rec.st \in Reopenable /\ leased /\ pane = "working"
        ~> ~(rec.st \in Reopenable /\ leased /\ pane = "working")
=============================================================================
