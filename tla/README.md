# Vexillum in TLA+

Vexillum (`vx`) runs coding agents ("soldiers") for one operator: a *commander*
(an agent session) dispatches *tasks*, each to a soldier in its own tab of a
terminal multiplexer and, for a mission, in its own git worktree (a *camp*). A
background *sentinel* polls the soldiers and wakes the commander when one of
them settles. A *forum* server lets a human review artifacts in a browser, and a
listener carries the feedback to the commander. Nothing is a database: every
process reads and writes small files under the project and the vexillum home,
some under a `flock`, some relying on `link` or `rename`. These modules model
the parts of the program where several processes, or a process and its user,
meet in such files.

Contents: [components](#components), [modules](#modules), [runs](#runs),
[fairness](#fairness), [proofs](#proofs), [findings](#findings),
[what the runs do not show](#what-the-runs-do-not-show),
[not modelled](#not-modelled), [what is left](#what-is-left).

## Components

| Component | State | Operations | Meets whom, where | Module |
|---|---|---|---|---|
| camp pool (`camp/`) | `pool.json`, `pool.lock`, worktrees, branches `vexillum/<task>` | Acquire, Resolve, Land, Strike, Discard, Prune, RetireStale, SlotReused | every `vx` command, in `pool.json` and in git | `CampPool`, `CampLease` |
| camp commands (`cli/dispatch`, `redispatch`, `strike`, `land`) | one process's steps between two locked sections | dispatch, redispatch, strike, land | each other and the soldiers, through pool, record and tab | `CampPool` |
| wake queue (`sentinel/claim.go`) | `wakes/<task>.json`, `...claimed-<ms>-<pid>-<n>` | record, claim, judge, deliver, commit, release, purge, recover | the sentinel writes; await, drain and injector claim | `WakeQueue` |
| task records (`state/`, `soldier/herdr_run.go`) | one JSON record per task | locked read-modify-write, unlocked save | all commands and the sentinel's tick | `Supervision`, `Lifecycle` |
| sentinel tick (`sentinel.go`, `settle/`, `pause/`) | snapshot of the records, marks of when an agent went idle or missing | reopen, settle, interrupt, hold | commands that change the record during the tick | `Supervision` |
| ship, tribunal, merge (`cli/ship*.go`, `tribunal/`, `ghpr/`) | verdict, tip recorded, remote branch, pull request | check, review, fix, push, open, record, merge | soldier, other ships, whoever pushes | `Ship` |
| forum hub (`forum/hub.go`, `store.go`, `server.go`) | per session: queued, outbox, inflight, transcript; on disk | queue, send, poll, ack, reply, relay, end, adopt | browser, listener and agents over HTTP; restarts | `Forum`, `ForumMailbox` |
| layout issues, attachments (`forum/layout.go`, `attachments.go`) | issues of an artifact with their versions; staged and claimed images | report, queue, withdraw, dismiss; stage, sweep, publish | tabs of different versions; messages | `LayoutTray`, `ReviewFiles` |
| forum listener, inbox (`forumlisten/`, `inbox/`) | `inbox/<session>/<uid>.json`, `read/`, `listener.pid` | poll, write once, ring, relay, ack, confirm; claim, halt | hub, commander | `Forum`, `ListenerLife` |
| forum server life cycle (`forum/lifecycle.go`, `lock.go`) | `server.pid`, `server.json` | lock, publish, idle exit, discover, replace, spawn | commands of two builds | `ForumServer` |
| sentinel lock, awaiters (`sentinel/lock.go`, `awaiter.go`, `build.go`) | flock, pid and build record, awaiter records | acquire, retire, probe, start; register, supersede, reap | sentinels of two builds, awaits of dead hooks | `SentinelLife`, `Awaiters` |
| terminal backend (`herdr/hc.go`) | terminals with labels, the cache of names | start, label, name, launch, prompt, read, kill | tasks of one name; the sentinel's cache | `HcTerminals` |
| answers (`soldier/pi_ask.go`, `opencode_blocked.go`, `modal.go`) | question on record, on screen, `question.json`, `answer.json` | record, answer by file, keys, typing, prompt; withdraw | soldier, general at the pane, two decides | `Answers` |
| commander registry, injector (`commanderreg/`, `injector.go`) | `commanders.json`, its lock, failing since | register, resolve, claim, deliver, type | commanders, herdr, panes that change hands | `Commanders` |
| project set-up (`cli/setup_project.go`, `install/`, `slot/`) | managed copies, hashes in `config.json`, backups, the block in `AGENTS.md` | inspect, consent, install, merge, save; repair, replace | the user who edits the same files | `ManagedFiles`, `SlotText` |
| harness adapters, OpenCode API, model tables, yolo, doctor, reports, self-update, site, bench | — | parsing, calls, one-shot writes | — | [not modelled](#not-modelled) |

What makes each correct:

* **camp pool**: a slot is leased to one task and a task leases one slot; only
  the task's own commands end its lease or dismantle its camp; no commit of a
  soldier is lost unless it was discarded.
* **wake queue**: news on record is on disk until it was told; it is told at
  most once; it is told eventually.
* **task records**: a status or an instruction a command recorded is not undone
  by a sentinel that looked before; every stopped soldier is reported.
* **ship**: what is pushed is what was reviewed, nobody's commits are
  overwritten, what is merged was green.
* **forum**: a prompt the human sent is held until it is in an inbox or with an
  agent, counts once there, and is rung; a message keeps its files.
* **locks**: one server, one listener, one sentinel per home; their records are
  true; whoever needs one gets one.
* **terminals and answers**: a task's words reach its own terminal; an answer
  reaches the question it was given to, or nobody.
* **set-up**: nothing the user wrote goes without a backup.

The hard behaviours are listed as hazards in `PROJECT.json`, each at its line:
the ones a run covers name their properties, the others say why none does.

## Modules

Each component has a module of its own. Components that act on the same state
are in one module (`CampPool`: pool and commands; `Forum`: hub, listener, inbox
and wakes; `Supervision`: tick and commands). The MC modules put components that
share no state side by side: a variable `part` says which of them a behaviour
exercises, so their state spaces are added, not multiplied, and one run checks
several. In all of them a process is a record with a place `at`; an action is
one locked section, one system call or one call of another program, so that a
crash or another process fits between any two.

### CampPool, CampLease (`camp/`, the camp commands)

`CampPool` has one process per running command. Its record `proc[p]` is the
command's local state: where it is (`at`), the locked section it is in or on
its way to (`sect`), the task, slot and branch it captured *earlier* (records
are loaded once, so these go stale), whether the herdr tab it loaded is still
the task's (`tab`), the merged-pull-request answer it got before taking the
lock (`pr`), and the pool it loaded (`view`). Every locked section is three
steps, `Enter` (flock, load), a `...Work` step (what it asks and does in git)
and a `Save...` step (write `pool.json`, unlock), and `Crash` may strike
between any two: git then has what `pool.json` does not know.

| Code | Actions |
|---|---|
| `Acquire` | `AcquireWork`, `AcquireFails`, `SaveAcquire` |
| `StrikeWith` | `StrikeWork`, `StrikeDiscardWork`, `StrikeRefused`, `StrikeNotLeased`, `SaveStrike` |
| `Discard` | `DiscardWork`, `DiscardCut`, `DiscardRefused`, `SaveDiscard` |
| `Prune`, `RetireStale` | `Prune`, `RetireWork`, `RetireRefused` |
| `Land` (no lock) | `Merge`, `MergeRefused` |
| `runDispatch`, `runRedispatch`, `runStrike`, `runLand` | `Dispatch`, `Redispatch`, `BeginStrike`, `BeginLand`, `AskReused`, `Resolve`, `Reset`, `Record`, `RecordFails`, `Launch`, `Close`, `CloseFails` |
| soldiers, GitHub | `Edit`, `CommitWork`, `Rebase`, `Die`, `Ship`, `MergePR` |

Git is abstracted to what the properties need: a revision is the set of
commits reachable from it, a fast-forward is a subset, a worktree is on a
branch or detached and clean or dirty. `content` is what the base *has the
content of* (it grows with a squash merge, where `base` gets a new commit
instead), so the code's landed tests are a pair of guards: an ancestor always
counts as landed (`MayBeRefused` false), content may (`MayBeLanded`). The
history variable `owed` holds the commits made on a branch that neither the
base has nor a discard reported as thrown away; a commit made on a detached
worktree is on no branch, and nothing in the code promises it.

`CampLease` is the promise: a table of slots in which `Grant` gives an idle
slot to a task that holds none and `Return` makes a slot idle. `CampPool`
implements it with `owner <- pool.leasedBy` (property `LeaseSpec`).

### WakeQueue (`sentinel/`, `cli/sentinel.go`)

One action is one system call: nothing in the queue is locked. A listener
lists the directory (`List`: pending names, and the claims old enough to be
abandoned), puts abandoned claims back (`Stat`, `PutBack`: the two calls of
`restore`), claims what was listed one `rename` at a time (`Pick`, `Take`),
judges what it read (`Keep`, `Discard`), delivers all of it (`Deliver`) and
removes the files (`Commit`), or fails and puts them back (`DeliverFails`, then
`Stat`/`PutBack` again). The sentinel's purge (`Purger`) runs the same steps
for stale wakes only. `Settle` and `RecordWake` are the two writes of a
settling task, the record and the wake; `WakeSkipped` is a sentinel that stops
between them. `Reprompt` stands for every command that puts a task back to
running, `Retire` for landing and striking, `Age` for StaleWakeAfter passing.
`wakeIsCurrent` reads the record and the pool, and treats what it cannot read
as news: `MayBeNews` and `MayBeOld` overlap there.

The claimed file remembers its claimant (`by`), None once that process is
dead: this stands for its age, staleClaimAfter (2 min) being far longer than
a delivery. With the event `slow` a live claim may be found abandoned too.
`unheard` and `told` are history variables.

### Supervision, Lifecycle (`sentinel/sentinel.go`, `soldier/herdr_run.go`, the task commands)

One task: its record `rec`, its camp lease, what its herdr pane shows, and the
two kinds of process that write the record. A write under the tasks lock
(`state.Update`) is one step. The sentinel's tick (`snt`) is several: the copy
it took (`snap`), what herdr answered (`live`), what it is about to write
(`next`), and `Saved`, the write of a *whole* copy that happens only while the
record on disk is still running (`saveIfRunning`). A command (`cmd[p]`) keeps
the record it loaded (`copy`) and the outcome it found before it took the lock
(`res`, `asks`).

| Code | Actions |
|---|---|
| `tickProject`, `reopenActiveTasks` | `Snapshot`, `ReopenProbe`, `ReopenSave`, `Probe`, `AgentFound`, `StillWorking` |
| `handleAgentNotFound` | `AgentNotFound` |
| `settleTransition`, `settleNeedsDecision`, `settleDone` | `SettleBlocked`, `SettleNeedsDecision`, `SettleDone` |
| `settleIdleTask`, `holdUnfinishedTurn`, `handleIdleUnconfirmed`, `interruptUndelivered` | `ExcusePause`, `HoldUnfinishedTurn`, `IdleUnconfirmed`, `InterruptUndelivered` |
| `saveIfRunning`, `recordWake` | `Save`, `RecordWake` |
| `acquireAndRunInHerdr`, `RunInHerdr` | `Acquire`, `CreateTab`, `TabFails`, `RecordRunning`, `StartAgent`, `Stamp`, `Deliver`, `QuickProbe`, `RecordLaunch`, `Fail` |
| `runRedispatch` | `Discard`, `Reset`, then the same |
| `Reprompt` | `MarkRunning`, `Deliver`, `QuickProbe`, `RecordPrompt`, `Restore` |
| `AnswerBlocked`, `DismissBlocked` | `Deliver`, `QuickProbe`, `RecordAnswer`, `Interrupt`; `Look`, `RecordDismissal` |
| `runStrike`, `runLand`, `runShip` | `Retire`, `CloseStruck`, `RecordLanded`, `RecordShipped` |
| soldier, general, herdr, time | `EndTurn`, `NewTurn`, `Finish`, `DeclarePause`, `PauseOver`, `PaneDies`, `AgentUp`, `Outage`, `GraceOver`, `WindowOver` |

Time is abstracted to what the code compares: a `...Since` mark is absent, within
its window or past it (`Mark`), and `UpdatedAt` is within the settle grace
period or not (`fresh`). `by` stands for the exact `UpdatedAt` that
`restoreAfterFailedPrompt` compares. A transcript is reduced to the questions in
it: `line` is the turn of the last `needs-decision:` line in the scrollback, and
a decision is the turn it was asked in. The completion signal is one boolean.

Left out of the record: `Output`, `PauseSeenAt` (only wording depends on it),
harness versions. Left out of the tick: a transcript that cannot be read, the
second reading of `awaitSettledTranscript`, another terminal backend, the
`ask_user` question of Pi. Left out of the commands: the answers given through
Pi's file and OpenCode's screen, which are `Answers`'. `Retire` is the return of the lease and the
closing of the tab in one step: what can happen between them is `CampPool`'s.

`Lifecycle` is the promise: which status may follow which, whoever writes it.
`Supervision` implements it with `status <- rec.st` (property `LifecycleSpec`).

The model assumes of time what the program's constants make so, and says where:

* `Swift` (in `RecordRunning`, `MarkRunning`, `RecordDismissal`, and when a
  decide begins): no tick that saw the task running is still under way when the
  task has left running and a command puts it back. A tick takes seconds; in
  between lie a settle, a wake, a commander's decision and another command.
  Without it `saveIfRunning`, whose check cannot tell the two runs apart, would
  write the older copy back and lose an amendment.
* `Quiet` (in `GraceOver`, `WindowOver`): a tick, and a section of a command,
  is shorter than the grace period (8 s) and the windows (30 s and more), but
  for ship's wait for its pull request and for the quick probe (15 s), which
  the grace period does not outlast (`Probing`). The probe of a decide records
  nothing before it is over, so a tick inside it is a race the program loses:
  it is the event `overtaken`, of the run `answer_undone` only.
* `Timely`: no redispatch meets an idle mark of the task's previous life, but
  with the event `marked`, which no run has: `redispatch.go:225` does not clear
  `IdleUnconfirmedSince`, so a sentinel that looks at the new soldier before the
  stamp of its prompt (up to 15 s) interrupts it at once, with its work begun.
* A harness comes up within the grace period of its launch. A slower one lets
  the sentinel interrupt a task (herdr out for a window, or a pane that dies)
  whose launch then records a failure or a settle over it.
* `Outage`: herdr is back before a not-found mark is past its window.

`Event` (and `Activity` in `CampPool`) say what may happen in a run, so that
one module serves several bounds: they leave actions out, never change one.

### Forum, ForumMailbox (`forum/`, `forumlisten/`, `inbox/`, forum wakes)

`Forum` follows one prompt the whole way. `rec[s]` is what `session.json` and
the hub's copy hold of a session (`commit` persists first and then replaces the
copy; a failed write leaves both); `call[c]` is where a polling process is, the
listener or an agent that runs `vx forum poll` itself; `unread` and `read` are
the inbox; `bell` the pending forum wake; `drain` the session whose wake the
Stop hook holds.

| Code | Actions |
|---|---|
| hub: `Open`, `Queue`, `RemoveQueued`, `Send`, `End`, `Reply`, `Refresh` | `Open`, `Queue`, `RemoveQueued`, `Send`, `End`, `StopWaiting`, `Reply`, `NoticeEdit`, `Refresh` |
| hub: `Poll`, `Ack`, `Relay`, load after a restart | `StartPoll`, `Deliver`, `DeliverLost`, `PollFails`, `PollEmpty`, `Ack`, `Relay`, `Restart` |
| `forumlisten.Run`, `handle` | `StartListener`, `Look`, `CountUnread`, `Write`, `Ring`, `StoreFails`, `Die` |
| `vx forum poll` | `Output` |
| drain, `inbox.MarkRead` | `ClaimBell`, `Tell`, `TellFails`, `Confirm` |

`ForumMailbox` is the promise: a message that was sent is *owed*; only one that
was taken (is in an inbox, or was printed by an agent's poll), or whose session
is let go, stops being owed. `Forum` implements it with `owed <- Owed` (outbox
and inflight) and `taken <- seen`.

### LayoutTray, ReviewFiles (`forum/layout.go`, `attachments.go`)

`LayoutTray` is the issue tray of one artifact: `Audit` is one pass of a tab
(its version, whether it is conclusive, whether it is of this viewport class),
with `sight` and the retirement in `record`; `QueueIssues`, `Withdraw`,
`SendRequests`, `AckRequests` follow the prompts that carry issues, `EditPage`,
`Dismiss` and `ReloadTray` the artifact, the user and a restart from
`layout.json`, which a failed write (`unsaved`) may have missed. A tab that was
not reloaded goes on reporting an old version at any time; only the *first* pass
of a version comes in order (`InOrder`).

`ReviewFiles` has the files of messages: `Stage`, `Discard`, `AgeImage` (the
grace of a sweep), `QueueImages`, `RemoveImages`, `SendImages`, `AckImages`,
`ReplyText` (an agent's reply, which moves the transcript on), `ReloadFiles`,
and `Draw`, `Publish`, `QueueBoard` for a whiteboard whose file is written before
its prompt is queued. Each of the hub's operations includes its sweep.

### ForumServer, ListenerLife, SentinelLife, Awaiters (who runs)

| Code | Module: actions |
|---|---|
| `forum/lock.go`, `Run`, idle exit, stop | `ForumServer`: `Claim`, `ReadLock`, `ClearStale`, `Publish`, `StopServing`, `Unpublish`, `Unlock`, `ServerDies`, `ComeAndGo` |
| `EnsureServer`, `replaceStale`, `attach` | `FirstAttach`, `Look`, `Judge`, `StopIfIdle`, `AwaitGone`, `Spawn` |
| `forumlisten/lock.go`, `Run`, `Stop` | `ListenerLife`: `ClaimLock`, `ReadLockPID`, `RemoveStale`, `Polls`, `Releases`, `Halts`, `ListenerDies` |
| `vx forum <file>`, `Ensure` | `OpensSession`, `ToldRunning`, `SpawnsListener`, `GivesUpEnsure`, `EndsReview`, `WindowsGo`, `WindowReturns` |
| `AcquireLock`, `AcquireLockRetiring`, `PublishInfo` and their release | `SentinelLife`: `JudgeHolder`, `TakeFlock`, `MissFlock`, `WritePid`, `ForgetInfo`, `PublishInfo`, `Retire`, `RetireUnlocked`, `SeePid`, `DropPid`, `SeeInfo`, `DropInfo`, `UnlockFlock`, `SentinelDies`, `Rebuild` |
| the await's look at the sentinel | `Probe`, `EnsureFree`, `EnsureHeld`, `StartOne` |
| `RegisterAwaiter`, `ReapAwaiters` | `Awaiters`: `Stamp`, `Register`, `List`, `Inspect`, `Signal`, `Swept`, `Obey`, `Finish`, `HangUp` |

A lock made by `link` is claimed, read and removed in separate steps, so a
process may act on a pid it read before; a probe of the sentinel's flock holds
it shared for a step of its own. A release is several steps too: it looks
whether the file is still its own, then removes it.

### Ship (`cli/ship.go`, `tribunal/`, `ghpr/`, merge in `cli/land.go`)

A branch is the sequence of its commits, so "fast-forwards" is "is a prefix of".
`proc[p]` is one `vx ship`: the tribunal's `Lint`, `Tests`, `StartReview`,
`Verdict` and its rounds of `FixerRuns` and `FixCommit`, `Docs`, `Text`; then
`ReadHead`, `Push`, and, when the push is refused, `RemoteTip` and `ForcePush`
with the lease on what was read; `RecordPushed`, `OpenPR`, `RecordShipped`.
`Die` strikes anywhere. The soldier works in the same camp meanwhile (`Prompt`,
`Edits`, `Commits`, `Amends`, `Integrates`, `Stops`, `Settles`), others push to
the remote branch (`OthersPush`), GitHub turns heads green (`ChecksPass`), and
`View`, `SeeChecks`, `Merge` are `vx land` of a shipped mission. `touched` says
that somebody committed to the camp after the review in hand began; `target` is
what that review judged. Findings of a reviewer and the text of a pull request
are left out: a verdict is a choice.

### Answers (`soldier/`, `piask/`, `cli/decide`)

A question is a number, what a pane shows is one of the kinds of screen that the
harness has. The soldier and the person at the pane: `Asks`, `AnsweredThere`,
`ReadsAnswer`, `TakesAnswer`, `Restarts`; the sentinel: `RecordsBlocked`,
`Dismisses`; a `vx decide`: `LoadBlocked`, `Unresolved`, `Reread` (herdr's pane
or Pi's file), `Write`, `Consumed`, `TimesOut` (the answer file and its
withdrawal), `LookAt`, `Press`, `FieldOpens`, `Type` (keys), `PromptSent`,
`Record`, `Dies`. `heard` remembers which answer reached which question and which
one it was meant for.

### HcTerminals (`herdr/hc.go`, its use in `soldier/herdr_run.go`)

Terminals have labels; a name is a label found by search. `CreateTab`,
`BindTask`, `CheckName`, `LabelName`, `TypeLaunch`, `Started`, `DismissDialog`,
`AwaitReady`, `RecordName` are a dispatch; `Reprompt`, `SendText`, `LookAfter`,
`Stalled`, `Decides`, `PressKeys` the later commands; `Probes` and `ReadStatus`
the sentinel with its cache of names; `Kill`, `RemoveTab` the end; `Report`,
`TakeText`, `EndTurn`, `AgentExits`, `PersonCloses` what happens in the terminal.
`strayed` records whenever something is sent to, or read from, the terminal of
another task. The worst case is modelled: tasks whose prompts give one name.

### Commanders (`commanderreg/`, `sentinel/injector.go`)

`Announce`, `LockRegistry`, `LoadRegistry`, `WriteRegistry`,
`RegistrationFails` are a registration; `Sweep`, `NothingWaits`, `Resolve`,
`HerdrFails`, `LookAtPane`, `ClaimAll`, `Deliver`, `AnswerLost`,
`NotDelivered`, `InjectorDies` one sweep of the injector over one project, by
session or, once delivery has failed for `fallbackAfter`, by typing. Panes change
hands (`PaneChanges`), turns end, awaits come and go, the API fails or its answer
is lost. Claims of single files are `WakeQueue`'s: here a claim takes all.

### ManagedFiles, SlotText (`cli/setup_project.go`, `install/`, `piwake/`, `slot/`)

`ManagedFiles` has the copies of skills and of the wake extension. A run
inspects everything (`Inspect`), asks (`Consent`), writes file after file
(`WriteOwn`, `SaveBackup`, `InstallFile`, `NoteCurrent`, `MergeHook`) and saves
the hashes last (`SaveConfig`); `RunFails` between any two; `EditCopy`,
`RemoveCopy`, `LinkOwn`, `LoseOwn` are the user, `NewBinary` an update. A hash
is the content it is of. `SlotText` is the block in `AGENTS.md`: a file is its
lines (marker, fence, text), `Markers`, `Pairs`, `Orphans` and `SlotState` are
the scanner, `InspectFile`, `ConfirmRepair`, `DeclineRepair`, `SaveBody`,
`WriteMarkers`, `WriteBlock`, `RunStops` a run, `InsertLine`, `DeleteLine`,
`PasteBlock` the user.

## Runs

All with `CHECK_DEADLOCK FALSE`: the bounds let every run end with nothing left
to do (tasks dispatched once, settles, stops, crashes, questions and edits
counted).

| Run | Bounds | Shows |
|---|---|---|
| `camp_leases` | 2 tasks, 2 commands at once, crashes; part `strike`: dispatch and strike over 2 slots; part `redispatch`: dispatch and redispatch over 2 slots; part `both`: all three over 1 slot | `LeaseIInv` (type, lease table, and what a command knows between its read and its save), `LeaseEndsByOwner`, and `LeaseSpec`: the pool implements `CampLease` |
| `camp_work` | 1 slot, 2 tasks; part `work`: 2 commands, 1 commit, dispatch, redispatch, strike; part `land`: the same with dispatch, strike, land; part `ship`: 1 command at a time, 3 commits, edits, discards, squash-merged pull requests | `CommitsKept`, `UnshippedKept`, `ForeignCampUntouched` |
| `wakes` | 2 listeners; part `often`: 2 tasks, 2 settles, re-prompts; part `again`: 1 task, 3 settles, re-prompts; part `once`: 1 task, 1 settle, a purge besides, failures, 2 deaths, aging, a crash of the sentinel | `NoWakeLost`, `ToldOnce`, `WakesHeard` (part `once`) |
| `supervision` | 1 task, 1 command at a time, 2 commands, 2 turns, failing commands, the general typing into the pane; part `faults`: dead panes, outages, killed commands, a dying sentinel; part `pauses`: soldiers that pause | `AmendmentKept`, `LostIsLost`, `ClosedStays`, `LifecycleSpec`, `EveryStopTold`, `WorkNoticed` |
| `forum` | part `rounds`: 1 session, 2 prompts, the listener, restarts, lost answers, failing writes, an end; part `rivals`: 1 prompt queued at a time, an agent that polls too, deaths and lost answers, no restart | `BellsRing`, `WaitHonest`, `MailboxSpec`, `RoundsGetThrough` (part `rounds`) |
| `forum_desk` | 1 issue, 2 requests, 3 versions; 2 messages, 2 images, 1 staged at a time, transcript of 2 | `RetiredByNewer`, `RequestOut`, `RepairedRetires`; `FilesKept` |
| `processes` | 2 servers of 2 builds (one protocol), 2 callers, 1 stop or death; 3 sentinels, 2 awaits, 2 builds, 1 crash; 2 awaits of 2 sessions and the reaper; 3 listeners, 2 openers, 1 halt | `OneOfEach`, `ForumServed`, `RecordTrue`, `SentinelWatched`, `NewestKept` |
| `mission` | 2 decides, 3 questions, all harnesses; 1 ship at a time, 1 round, 2 attempts, 3 commits; 2 tasks of one name, 2 terminals, agents that exit | `FileAnswersTheShown`, `RefusedIsUnheard`; `PushesTheReviewed`, `ForeignKept`, `MergedVerified`; `ReachesOwn` |
| `project` | 2 panes, 2 registrations, 1 wake, 2 moves; 2 skills (one of two files) and the extension, 2 binaries, 1 change, failing runs, a user who edits meanwhile; 2 lines and 2 edits around a block, 2 templates | `EntriesKept`, `WakesTheCommander`, `WakesDelivered`; `EditsKept`; `WrittenIsFound`, `LinesKept` |
| `land_reused_slot`, `answer_undone`, `opencode_moved` | the smallest that shows it | one disagreement each, see Findings |

Why the bounds are enough:

* **camps**: a command names one task and one slot, so a conflict over a slot is
  between two commands and two tasks; one slot makes reuse happen at once, a
  second one makes a task that could lease two. Three commits are the squash
  commit, the work in it and the work after it.
* **wakes**: two listeners race for a file, the purge is the third party; three
  settles are an old wake, a newer one of the other status, the old one again.
* **supervision**: the sentinel is the concurrent process; two commands are a
  launch and any command after it, two turns one that settles and one that
  starts after it, at any point of a command or a tick.
* **forum**: one prompt is in flight while the other is queued, sent or
  redelivered; one restart or lost answer is enough to redeliver; the rival is
  the second taker. Sessions share nothing but the inbox directory.
* **desk**: three versions are the one an issue was queued in, the one that
  repaired it and one that brings it back; two requests that carry one issue are
  withdrawn in both orders. Two images and a staging limit of one make a message
  fight for the place; a transcript of two evicts.
* **processes**: two claimants and one dead holder for a lock; a third sentinel
  and a third listener are the ones started while one leaves and one waits.
* **mission**: three questions are the one on record, the one on screen and the
  next; three commits are the reviewed, the fixer's and a foreign one. Two ships
  at once, and more rounds, are covered by the proofs for `Ship`.
* **project**: one pane is handed over while the other is registered; two
  binaries are the one that wrote a copy and the one that inspects it; two edits
  reach every way to break a block's markers (a marker lost, a block doubled).

## Fairness

* `wakes`: weak fairness of every step of a listener and of `RecordWake` (loops
  that poll every few seconds), strong fairness of `Deliver`: a delivery tried
  again and again succeeds at some time. The code cannot guarantee that a
  commander comes back; `WakesHeard` says what happens when one does.
* `supervision`: weak fairness of the sentinel's and the commands' steps, strong
  fairness of `Elapse` (time passes between ticks, and a harness that starts
  comes up); neither crashes nor outages go on for ever. Nothing makes a soldier
  end a turn: `EveryStopTold` and `WorkNoticed` speak of one that stays stopped,
  or goes on working.
* `forum`: weak fairness of the listener's and the hub's steps on its behalf
  (`Deliver`, `PollFails`, `PollEmpty`, `CountUnread`, `Write`, `Ring`, `Look`,
  `Relay`, `Ack`). The human has to do nothing, and the listener must keep
  running: this is the premise of `SentGetsThrough`.
* `forum_desk`: the browser audits the newest version again and again,
  conclusively (`WF` of that one `Audit`); queueing and sending are nobody's duty.
* `processes`: weak fairness of each process's next step, strong fairness of
  `TakeFlock`: a start that meets a probe every single time is excluded by the
  premise of `Watched`, a probe taking microseconds and starts being seconds
  apart. Nobody has to come, stop or die.
* `project`: the sentinel goes on with its sweep, `fallbackAfter` passes, and a
  commander's turn ends. The API owes nothing.

## Proofs

For every value of the constants, from the named assumptions on them only
(`CampPoolAssumption`, `WakeQueueAssumption`, ...: None is none of the things it
is none of, bounds are naturals):

| Module | Theorems | Inductive invariant, and why it is needed |
|---|---|---|
| `CampPool_proof` | `TypeCorrect`, `LeaseCorrect`, `LeaseRefines` (`LeaseSpec`), `LeaseEnds` (`LeaseEndsByOwner`), `Inductive` (`LeaseIInv`) | `LeaseInv` is not inductive: a section saves a pool it loaded two steps earlier. `ViewCurrent` (only the lock's holder is inside, and its view is the pool), `SaveChecked` (what it checked still holds when it saves), `AwaitingOnce` (one command at most is on its way to lease a camp for a task, which leases none), `HoldersDispatched` |
| | `CommitsSafe` (`CommitsKept`), `NoCommitLost` (no commit is ever lost where nothing ships), `UnshippedSafe` (`UnshippedKept`), `ForeignCampSafe` (`ForeignCampUntouched`) | `WorkIInv`, on top of `LeaseIInv`, speaks of branches and worktrees: what a command in its section knows of the pull request and may go on to do (`CommandShape`), a slot that is free names the branch of a task nobody leases for (`StruckForGood`), what a redispatch resolved is the slot's until another command runs (`ResolvedAlone`), and a worktree is on a branch that exists (`WorkShape`). Without them a section might delete the branch of the task that took its slot |
| `WakeQueue_proof` | `TypesHold` (proved only: no run spends time on the types of the queue); `NothingLost` (`NoWakeLost`, for tasks that settle once) | `LossIInv`: every wake on disk or in a listener's hands says what the record says (`Truth`), a listener's memory and the files agree (`Linked`), what was told is over (`ToldOver`). A claim read, released or purged is then never the last copy of news. Holds with slow listeners, deaths, failures, aging and a crash of the sentinel |
| | `ToldAtMostOnce` (`ToldOnce`) | `TellIInv`: until a listener dies, every claimed file is remembered by the one listener that claimed it (`Owned`), the numbers of all wakes pending, claimed or about to be recorded differ (`Numbered`, `TickNumbered`), and nobody who has yet to deliver remembers one that was told (`Untold`). With failures, aging, purges and tasks that settle again |
| | `NothingLostAgain` (`NoWakeLost`, for tasks that settle again and deliveries that succeed) | `NewsIInv`, on top of `TellIInv`: news is pending or in the file of a listener that has yet to deliver it (`NewsAlive`), the wake about to be recorded is of no unheard task (`TickUnheard`), nothing is ever put back (`NoneBack`) or there for a purge (`NoneStale`) |
| `Supervision_proof` | `SupervisionTyped`; `ClosedForGood` (`ClosedStays`); `InterruptedIsLost` (`LostIsLost`); `RecordRefinesLifecycle` (`LifecycleSpec`); `ToldIsOnRecord` (`AmendmentKept`) | three invariants on `SupTypes` (which command is at which stage with which result, and what a tick has read): see below |
| `Forum_proof` | `NewsRings` (`BellsRing`), `WaitsHonestly` (`WaitHonest`), `MailboxRefined` (`MailboxSpec`) | `ForumIInv`: a prompt is in one place of one session (`OneSession`, `OnePlace`), what a poll or the listener holds was handed to it and is leased still or taken (`Handed`); an entry nobody was told of is unread (`NewsUnread`), and once the listener has rung, the wake of its session is pending or held by a drain (`Rung`) |
| `ForumDesk_proof` | `FilesStay` (`FilesKept`); `RequestsOut` (`RequestOut`); `NewerRetires` (`RetiredByNewer`) | `FilesIInv`: what a restart loads is what was shown (`SavedAll`), no board on file is behind one submitted (`BoardsInLine`). `AskIInv`: an issue that awaits a fix, in memory *and* in the file a restart loads, is carried by a request or was sent (`AllCarried`). `RetireIInv`, of both too: versions are numbered in their order (`Numbered`), and a number later than the one an issue was last seen under belongs to a version later than any that proved it (`After`) |
| `Mission_proof` | of `Ship`: `ForeignStays` (`ForeignKept`), `ReviewedPushed` (`PushesTheReviewed`), `MergesVerified` (`MergedVerified`) | `OwnInv`: camp, recorded tips and heads hold no foreign commit, and nothing not made yet; `ReviewedInv`: while a branch is judged and untouched the camp is its target; `LandInv`: a head that left the remote while the camp has it lies under a foreign commit. Any number of ships, rounds and attempts |
| | of `Answers`: `FileAnswered` (`FileAnswersTheShown`), `RefusedUnheard` (`RefusedIsUnheard`) | `AnswersIInv`: questions are counted upwards, the file's id is that of a question asked (`AskOnFile`), an answer on file is of the question its writer loaded (`Author`), what a tool is taking is still open (`TakingOpen`), what was heard is over (`HeardOver`) |
| | of `HcTerminals`: `OwnReached` (`ReachesOwn`) | `HcIInv`: a terminal on record is the task's and no other's (`TabsOwned`), no two living terminals carry one name, and the one a dispatch is about to put is still free (`NamesOnce`), and the name on record of a task that is followed is on its own terminal, whatever step its command is at (`CallsHome`). The sentinel's cache may point anywhere: it is tested by the name |
| `Processes_proof` | `OneEach` (`OneOfEach`), `RecordsTrue` (`RecordTrue`), `NewestStays` (`NewestKept`), `ListenersKept` | the composition `MCProcesses`, whose invariant is the parts': until a process is killed, whoever believes it holds a lock is named by it, a lock that is there is held, and nobody is about to clear a stale one (`ServerLock`, `LockTrue`); a sentinel that got past its flock holds it; an await aims only at one that was stamped, and only for a reason that stays (`AwaitChased`) |
| `Project_proof` | of `Commanders`: `RegistrationsKept` (`EntriesKept`), `WakesReachCommanders` (`WakesTheCommander`) | only the lock's holder has loaded the registry, and what it loaded is still there (`LoadedAlone`, `LoadedFresh`); the pane a sweep works on is the one it found, while that has not changed hands (`Chosen`) |
| | of `ManagedFiles`: `EditsStay` (`EditsKept`) | `Guarded`: a copy the user left is what neither `config.json` nor the run knows and no template, and the plan of the run leaves it alone or saves it first |
| | of `SlotText`: `BlockFound` (`WrittenIsFound`), `UserLinesKept` (`LinesKept`), for files of any length | `BlockInv`: what a run is about to write over is the file it read or, with that file saved, its repair (`InHand`), and not malformed. What carries it are the lemmas about the scanner: see below |

The step lemmas follow the actions, one per action that touches what the
invariant speaks of, and frame lemmas for the rest.

The three questions about a task's record need different knowledge of a command
that is under way, so each has an invariant of its own:

* `LeaseIInv` says who holds the camp (`LeaseOf`): a launch from its tab on, and
  a prompt all along; an answer or a dismissal at least finds the task blocked.
  A sentinel that read the record before the camp was returned tests the lease
  again when it reopens, so a closed task stays closed.
* `LifeIInv` adds the status: a pending or interrupted task has no soldier
  (`Dead`); a soldier at work was stamped on record or is in the hand of a
  command between its start and its stamp (`InHand`); a tick about to write
  "interrupted" saw a pane that is dead. The last is why a not-found mark has to
  be old, and why a redispatch must not meet an old idle mark. Every step
  then changes the status as `Lifecycle` allows, which is the refinement.
* `AmendIInv` says of amendments that what a tick is about to write agrees with
  the record in the part that matters (`Alike`): nothing was recorded since it
  read. While a decide is under way, or a prompt is delivered or taken back, no
  tick works on the running task (`Steady`), so none has an older copy to write.

What the scanner of `SlotText` finds in a file is a function of all of its lines.
The lemmas about it compare two files by the lines one has of the other:

* what an edit moves in order is listed in the same order (`PickedMoved`), so the
  order of the user's lines is kept where no line is left out (`EditOutside`);
* a line goes on being inside or outside a code block if the code blocks that
  were cut before it are closed (`EditFenced`), and markers and pairs follow
  (`EditMarkers`, `EditPairs`);
* the code blocks between a BEGIN and its END are closed (`PairClosed`), and so
  are those in all the pairs that a repair cuts before a line (`ExtraClosed`);
* so one pair at most is left by a repair (`RepairKeeps`), and the block an upsert
  writes is that pair (`UpsertKeeps`).

`ExtraClosed` is by induction over the lines: a set of numbers has a least one
(`Least`), so a least line where it failed would be a contradiction.

What the theorems suppose beyond the assumptions on constants is what the code
needs: without it TLC refutes the property, with one exception. Two commands at
once (three in all) break `ClosedStays`, `LifecycleSpec` and `AmendmentKept`, but
TLC finds no violation of `LostIsLost`, which may hold for them too: its proof
rests on `LeaseIInv`, which does not.

| Hypothesis | Theorems | Without it |
|---|---|---|
| `OneCommand` | those of `Supervision_proof` but the types | each of two commands writes what it decided on the record it loaded |
| `"marked" \notin Event` | `InterruptedIsLost`, `RecordRefinesLifecycle` | a redispatch leaves `IdleUnconfirmedSince` (`redispatch.go:225`) |
| `"overtaken" \notin Event` | `ToldIsOnRecord` | the run `answer_undone` |
| `"ship" \notin Activity` | `NoCommitLost` | the prune after a merged pull request deletes what was committed later (`prune.go:98`), hence the condition of `CommitsKept` |
| `"reprompt" \notin Event` | `NothingLost` | a restored claim overwrites a newer wake (`claim.go:105`) |
| `Calm`: nobody fails, dies or is slow, and no purger meets an aged wake | `NothingLostAgain` | the same |
| `"slow" \notin Event` | `ToldAtMostOnce` | a claim is put back as abandoned while its listener delivers it |
| `"unsaved" \notin FilesEvent` | `FilesStay` | a message the transcript's file lacks is gone from it after a restart, and its images are swept |
| `"unreleased" \notin TrayEvent` | `RequestsOut` | a withdrawal that is not saved comes back as an issue that waits for nobody (`hub.go:495`) |
| `"late" \notin TrayEvent` | `NewerRetires` | a pass of an older version that was never seen is dated as the newest (`layout.go:332`) |
| `HcEvent \subseteq {"exit"}` | `OwnReached` | two dispatches find a name free, a person's closing frees an address, a struck launch goes on (`hc.go:702`, `562`) |

Only model-checked:

* `LifecycleSpec`, `ClosedStays` and the others of `Supervision` hold with one
  command at a time only, in the runs as in the proofs;
* all liveness, which is out of the prover's reach.

## Findings

* `land_reused_slot`: `vx land` of a task whose slot another task has taken
  fast-forwards the checkout to the *other* task's branch: `runLand` makes no
  `SlotReused` check (`land.go:92`).
* `answer_undone`: while `vx decide` waits in its quick probe the sentinel
  reopens the task and starts a tick; the answer and the amendment are recorded,
  and `saveIfRunning` then writes the tick's older copy over them
  (`sentinel.go:449`).
* `opencode_moved`: `vx decide` reads an OpenCode pane again and presses the
  keys of its answer into whatever form is there then, without comparing it with
  the question the general was shown (`opencode_blocked.go:231`).

## What the runs do not show

Cases the properties or the bounds exclude, because the code does not keep them
there or cannot:

* `CommitsKept` ends with the first merged pull request: a prune that follows one
  deletes what was committed to the branch after it (`prune.go:98`).
* Two redispatches of one task that overlap: `Discard` tests the lease and then
  deletes the branch it resolved earlier (`camp.go:530`, `548`), which may be
  another task's by then; hence the clauses of `UnshippedKept` and
  `ForeignCampUntouched` for commands that overlap. git spares a branch that some
  worktree has checked out: the camp loses it only while its worktree is not on it.
* A strike returns the slot before it closes the tab (`herdr_run.go:799`), and a
  dispatch in between puts a second soldier in the worktree.
* Wakes that settle repeatedly *and* are put back are not checked together: a
  wake recorded between the two calls of `restore` is overwritten by the older
  one (`claim.go:105`). This is why `NothingLost` excludes `reprompt`, and
  `NothingLostAgain` what puts a claim back. A listener slower than
  `staleClaimAfter` may tell a wake twice: the run has no event `slow`, and
  `ToldAtMostOnce` excludes it. After a death, too, a wake may be told twice,
  `ToldOnce` says nothing then.
* `supervision` has one command on the task at a time. Two of them meet in
  `CampPool`; what ship's unconditional write makes of a record another command
  closed meanwhile is a hazard without a property. `DismissBlocked` interrupts a
  task on one `agent_not_found` (`herdr_run.go:496`). `EveryStopTold` ends at the
  step after the wake is due, so a sentinel killed in between is not covered.
* Locks made by `link` have two owners once a holder died without its clean-up
  and two starters remove its stale file one after the other (`forum/lock.go`,
  `forumlisten/lock.go:119`): `OneOfEach` speaks of histories without such a
  death. `Ensure` may be told of a listener that is leaving
  (`forumlisten/lock.go:183`): `ListenerKept` excludes exactly that. Two callers
  of `EnsureServer` may replace each other's server (`lifecycle.go:399`); both
  get one in the end, which is `ForumServed`. A build with another protocol is in
  the module, not in the run.
* Forum: an inbox entry looked for before another poller wrote it
  (`inbox.go:99`) and confirmed entries forgotten beyond `maxRead`
  (`inbox.go:277`, in `Confirm`) make a prompt count twice: no property says that
  one counts once. The agent of part `rivals` meets no restart of the hub; the whiteboard of one diagram is
  written over by a later request (`store.go:149`), hence "never older" in
  `FilesKept`; a pass whose version's stamp was forgotten is dated like a new one
  (`layout.go:332`): `MaxStamps` keeps them all. The same
  comes of a version whose first pass is overtaken by one of a later version
  (the event `late`, in no run). The caps on issues and histories
  are left out.
* Ship: the tip on record is the one of the last push that was recorded; one
  pushed by a ship that died is found through the remote only.
* `ReachesOwn` holds when agents exit. With terminals closed by hand, dispatches
  that overlap, or a running task that is struck (the other values of `HcEvent`)
  a name may be found on a terminal of another task: only the name is checked
  (`hc.go:435`, `562`), and two dispatches may both find it free (`702`).
* Commanders: a registered pane is not tested for being in a camp, and one that
  changes hands inside one sweep is not looked at again.
* Set-up: a run that dies before `SaveConfig` leaves what it wrote without a
  hash (`setup_project.go:549`); a forced overwrite that is interrupted and
  repeated has the backup of its own first half; a removed `SKILL.md` brings a
  whole skill back, over the other files of it; edits made *during* a run may be
  lost (`EditsKept` promises what was left with no run under way). A file that
  ends in an unclosed code block gets a block appended inside it at every run:
  the exception in `WrittenIsFound`.

## Not modelled

* Harness command lines, versions and transcripts, and the HTTP protocol of
  OpenCode: parsing and formats of other programs, with no state two actors
  share. What they return is a choice where a module asks them.
* Project resolution, model tables, yolo: files one command writes at a time.
* Doctor, reports, pull-request text, self-update, terminal output: read-only,
  text, or one-shot downloads.
* Site, benchmarks, generators: no part of the running program.
* In modelled components: presence and event stream of browsers, renderers and
  chrome of the forum; the herdr client proper (calls to another program); the
  user's own terminals in hc; the sweep over several projects; the wording of
  wakes and reports.

## What is left

Every safety property of a passing run is proved, on the conditions above. Worth
modelling next: two commands on one record in `Supervision`, with the properties
that survive it.
