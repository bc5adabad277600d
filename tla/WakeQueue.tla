----------------------------- MODULE WakeQueue -----------------------------
(***************************************************************************)
(* The queue of wakes of one project (internal/sentinel): the sentinel     *)
(* records that a task settled in one file per task, and whoever listens   *)
(* for the commander (the Stop hook's await, a drain, the injector of the  *)
(* sentinel) claims the files by renaming them aside, hands their news on, *)
(* and then removes them (Commit) or puts them back (Release).  Claims     *)
(* left by a listener that died are put back by whoever lists the queue    *)
(* next.  Nothing is locked: every step below is one system call.          *)
(***************************************************************************)
EXTENDS Naturals, FiniteSets

CONSTANTS Task,
          Status,      \* what a task that is not running may be: blocked, done, ...
          Proc,        \* the processes that claim wakes
          Purger,      \* those of them that purge the queue; the others listen
          Event,       \* what may happen besides settling and listening (see WakeQueueAssumption)
          MaxSettles,  \* bound: status changes of all tasks together
          MaxDeaths,   \* bound: listeners that die
          MaxFiles,    \* bound: claimed files that exist, or that a listener remembers
          None

ASSUME WakeQueueAssumption ==
    /\ None \notin Task /\ None \notin Proc /\ Purger \subseteq Proc
    /\ "running" \notin Status /\ "none" \notin Status
    /\ Event \subseteq {"reprompt", "fail", "die", "slow", "age", "crash"}
    /\ MaxSettles \in Nat /\ MaxDeaths \in Nat /\ MaxFiles \in Nat

File == 1..MaxFiles

VARIABLES status,     \* the status of each task on record
          gone,       \* the tasks struck or landed
          tick,       \* the change the sentinel saved but has not recorded a wake for
          pending,    \* wakes/<task>.json
          file,       \* the claimed files, wakes/<task>.json.claimed-...
          proc,       \* where each listener is
          deaths,     \* listeners dead so far
          settles,    \* status changes so far: the number of a change is its wake's id
          unheard,    \* history: the tasks whose status a wake announced and no listener told
          told        \* history: the changes some listener told the commander

vars == <<status, gone, tick, pending, file, proc, deaths, settles, unheard, told>>

Id     == 0..MaxSettles
Wakes  == [st : Status \cup {"none"}, id : Id, stale : BOOLEAN]
NoWake == [st |-> "none", id |-> 0, stale |-> FALSE]
Changes == [task : Task \cup {None}, st : Status \cup {"none"}, id : Id]
NoTick == [task |-> None, st |-> "none", id |-> 0]

\* A claimed file: the task in its name, the wake in it and who claimed it (None: it died).
Files  == [task : Task \cup {None}, wake : Wakes, by : Proc \cup {None}]
NoFile == [task |-> None, wake |-> NoWake, by |-> None]
\* What a listener remembers of a claim: the file, the task in its name, what it read.
Claims == [f : File \cup {0}, task : Task \cup {None}, st : Status \cup {"none"}, id : Id]
NoClaim == [f |-> 0, task |-> None, st |-> "none", id |-> 0]

Procs == [at : {"idle", "back", "claim", "take", "judge", "deliver", "commit", "release"},
          names : SUBSET Task, back : SUBSET Claims, held : SUBSET Claims,
          cur : Claims]
IdleProc == [at |-> "idle", names |-> {}, back |-> {}, held |-> {}, cur |-> NoClaim]

Init ==
    /\ status = [t \in Task |-> "running"] /\ gone = {}
    /\ tick = NoTick
    /\ pending = [t \in Task |-> NoWake]
    /\ file = [f \in File |-> NoFile]
    /\ proc = [p \in Proc |-> IdleProc]
    /\ deaths = 0 /\ settles = 0
    /\ unheard = {} /\ told = {}

-----------------------------------------------------------------------------
(* The sentinel's tick, and what the commander does to a task.             *)

Settle(t, s) ==
    /\ tick = NoTick /\ status[t] = "running" /\ t \notin gone /\ settles < MaxSettles
    /\ status' = [status EXCEPT ![t] = s]
    /\ settles' = settles + 1
    /\ tick' = [task |-> t, st |-> s, id |-> settles + 1]
    /\ UNCHANGED <<gone, pending, file, proc, deaths, unheard, told>>

\* writeWake replaces the task's wake file.
Written(t, w) == [pending EXCEPT ![t] = w]

\* recordWake: then the wake.
RecordWake ==
    /\ tick # NoTick
    /\ pending' = Written(tick.task, [st |-> tick.st, id |-> tick.id, stale |-> FALSE])
    /\ unheard' = IF status[tick.task] = tick.st /\ tick.task \notin gone
                  THEN unheard \cup {tick.task} ELSE unheard
    /\ tick' = NoTick
    /\ UNCHANGED <<status, gone, file, proc, deaths, settles, told>>

\* The sentinel dies, or fails to write the wake: the task is not running any more, so
\* the next tick does not look at it.
WakeSkipped ==
    /\ "crash" \in Event /\ tick # NoTick
    /\ tick' = NoTick
    /\ UNCHANGED <<status, gone, pending, file, proc, deaths, settles, unheard, told>>

\* The commander answers, re-prompts or redispatches a task, or the sentinel reopens it.
Reprompt(t) ==
    /\ "reprompt" \in Event /\ status[t] # "running" /\ t \notin gone
    /\ status' = [status EXCEPT ![t] = "running"]
    /\ unheard' = unheard \ {t}
    /\ UNCHANGED <<gone, tick, pending, file, proc, deaths, settles, told>>

\* The commander lands or strikes it.
Retire(t) ==
    /\ status[t] # "running" /\ t \notin gone
    /\ gone' = gone \cup {t}
    /\ unheard' = unheard \ {t}
    /\ UNCHANGED <<status, tick, pending, file, proc, deaths, settles, told>>

\* StaleWakeAfter passes.
Age ==
    /\ "age" \in Event
    /\ pending' = [t \in Task |-> IF pending[t] = NoWake THEN NoWake
                                  ELSE [pending[t] EXCEPT !.stale = TRUE]]
    /\ file' = [f \in File |-> IF file[f] = NoFile THEN NoFile
                               ELSE [file[f] EXCEPT !.wake.stale = TRUE]]
    /\ unheard' = {}
    /\ UNCHANGED <<status, gone, tick, proc, deaths, settles, told>>

-----------------------------------------------------------------------------
(* Listening.  One listing puts abandoned claims back (back), claims what  *)
(* is pending (names) one file at a time, hands what it holds on (held),   *)
(* and ends its claims.  The sentinel's purge takes the stale wakes only.  *)

Goto(p, r) == proc' = [proc EXCEPT ![p] = r]
Exists(f) == file[f] # NoFile
Removed(f) == [file EXCEPT ![f] = NoFile]

\* A dead listener's claim is its own business.
NeverAbandoned(f) == FALSE
\* staleClaimAfter: a claim that old belongs to a dead listener, or to a slow one.
Abandoned(f) == Exists(f) /\ (file[f].by = None \/ "slow" \in Event)

\* A name no claim has, or had while a listener remembers it.
Remembered(p) == proc[p].back \cup proc[p].held \cup {proc[p].cur}
Fresh(f) == ~Exists(f) /\ \A p \in Proc : \A c \in Remembered(p) : c.f # f

Claim(f) == [f |-> f, task |-> file[f].task, st |-> file[f].wake.st, id |-> file[f].wake.id]

\* A listener is done with claim c; one that lists the queue finds its task waiting.
Requeued(r, c) == [r EXCEPT !.back = @ \ {c}, !.cur = NoClaim,
                            !.names = IF r.at = "back" THEN @ \cup {c.task} ELSE @]

\* listPending reads the directory.
List(p) ==
    /\ proc[p].at = "idle"
    /\ Goto(p, [IdleProc EXCEPT !.at = "back",
                                !.names = {t \in Task : pending[t] # NoWake},
                                !.back = {Claim(f) : f \in {g \in File : Abandoned(g)}}])
    /\ UNCHANGED <<status, gone, tick, pending, file, deaths, settles, unheard, told>>

\* restore, first step: a wake that waits already is taken for a newer one.
Stat(p) ==
    /\ proc[p].at \in {"back", "release"} /\ proc[p].cur = NoClaim
    /\ \E c \in proc[p].back :
          IF pending[c.task] # NoWake
          THEN file' = Removed(c.f) /\ Goto(p, Requeued(proc[p], c))
          ELSE Goto(p, [proc[p] EXCEPT !.cur = c]) /\ UNCHANGED file
    /\ UNCHANGED <<status, gone, tick, pending, deaths, settles, unheard, told>>

\* restore, second step: rename, over whatever waits by now.
PutBack(p) ==
    /\ proc[p].at \in {"back", "release"} /\ proc[p].cur # NoClaim
    /\ LET c == proc[p].cur
       IN /\ IF Exists(c.f)
             THEN pending' = [pending EXCEPT ![c.task] = file[c.f].wake] /\ file' = Removed(c.f)
             ELSE UNCHANGED <<pending, file>>
          /\ Goto(p, Requeued(proc[p], c))
    /\ UNCHANGED <<status, gone, tick, deaths, settles, unheard, told>>

\* Everything is put back: claim what is pending, or after a failed delivery give up.
AllBack(p) ==
    /\ proc[p].at \in {"back", "release"} /\ proc[p].cur = NoClaim /\ proc[p].back = {}
    /\ Goto(p, IF proc[p].at = "back" \/ p \in Purger THEN [proc[p] EXCEPT !.at = "claim"]
               ELSE IdleProc)
    /\ UNCHANGED <<status, gone, tick, pending, file, deaths, settles, unheard, told>>

\* The next name: the purge looks for a stale wake in it, a claim just takes it.
Pick(p) ==
    /\ proc[p].at = "claim"
    /\ \E t \in proc[p].names :
          Goto(p, IF p \in Purger /\ ~pending[t].stale
                  THEN [proc[p] EXCEPT !.names = @ \ {t}]
                  ELSE [proc[p] EXCEPT !.at = "take", !.names = @ \ {t}, !.cur.task = t])
    /\ UNCHANGED <<status, gone, tick, pending, file, deaths, settles, unheard, told>>

\* Read the wake and remember it, and leave the file to Commit.
TakeCopy(p, f) ==
    LET t == proc[p].cur.task
        c == [f |-> f, task |-> t, st |-> pending[t].st, id |-> pending[t].id]
    IN /\ file' = [file EXCEPT ![f] = [task |-> t, wake |-> pending[t], by |-> p]]
       /\ UNCHANGED pending
       /\ Goto(p, [proc[p] EXCEPT !.at = "judge", !.cur = c])
\* Consume the wake at once.
TakeConsume(p, f) ==
    LET t == proc[p].cur.task
        c == [f |-> f, task |-> t, st |-> pending[t].st, id |-> pending[t].id]
    IN /\ pending' = [pending EXCEPT ![t] = NoWake]
       /\ UNCHANGED file
       /\ Goto(p, [proc[p] EXCEPT !.at = "judge", !.cur = c])
\* Rename the wake aside: of two listeners one wins.
TakeAside(p, f) ==
    LET t == proc[p].cur.task
        c == [f |-> f, task |-> t, st |-> pending[t].st, id |-> pending[t].id]
    IN /\ file' = [file EXCEPT ![f] = [task |-> t, wake |-> pending[t], by |-> p]]
       /\ pending' = [pending EXCEPT ![t] = NoWake]
       /\ Goto(p, [proc[p] EXCEPT !.at = "judge", !.cur = c])

Take(p) ==
    /\ proc[p].at = "take"
    /\ IF pending[proc[p].cur.task] = NoWake
       THEN Goto(p, [proc[p] EXCEPT !.at = "claim", !.cur = NoClaim]) /\ UNCHANGED <<pending, file>>
       ELSE \E f \in File : Fresh(f) /\ (\A g \in File : Fresh(g) => f <= g) /\ TakeAside(p, f)
    /\ UNCHANGED <<status, gone, tick, deaths, settles, unheard, told>>

\* wakeIsCurrent: what is not established counts as news.
MayBeNews(c) == ~file[c.f].wake.stale /\ status[c.task] = c.st
MayBeOld(c)  == file[c.f].wake.stale \/ status[c.task] # c.st \/ c.task \in gone

Keep(p) ==
    /\ proc[p].at = "judge" /\ p \notin Purger /\ Exists(proc[p].cur.f) /\ MayBeNews(proc[p].cur)
    /\ Goto(p, [proc[p] EXCEPT !.at = "claim", !.cur = NoClaim, !.held = @ \cup {proc[p].cur}])
    /\ UNCHANGED <<status, gone, tick, pending, file, deaths, settles, unheard, told>>

Discard(p) ==
    /\ proc[p].at = "judge" /\ p \notin Purger
    /\ Exists(proc[p].cur.f) => MayBeOld(proc[p].cur)
    /\ file' = Removed(proc[p].cur.f)
    /\ Goto(p, [proc[p] EXCEPT !.at = "claim", !.cur = NoClaim])
    /\ UNCHANGED <<status, gone, tick, pending, deaths, settles, unheard, told>>

\* PurgeStaleWakes reads what it claimed again, and puts back what is not stale.
Purge(p) ==
    /\ proc[p].at = "judge" /\ p \in Purger
    /\ LET c == proc[p].cur
       IN IF file[c.f].wake.stale
          THEN file' = Removed(c.f) /\ Goto(p, [proc[p] EXCEPT !.at = "claim", !.cur = NoClaim])
          ELSE /\ UNCHANGED file
               /\ Goto(p, [proc[p] EXCEPT !.at = "release", !.cur = NoClaim, !.back = {c}])
    /\ UNCHANGED <<status, gone, tick, pending, deaths, settles, unheard, told>>

\* Nothing was news: the await looks again later, the purge is over.
NothingHeld(p) ==
    /\ proc[p].at = "claim" /\ proc[p].names = {} /\ proc[p].held = {}
    /\ Goto(p, IdleProc)
    /\ UNCHANGED <<status, gone, tick, pending, file, deaths, settles, unheard, told>>

\* The news is printed, or prompted into the commander's session.
Deliver(p) ==
    /\ proc[p].at = "claim" /\ proc[p].names = {} /\ proc[p].held # {}
    /\ told' = told \cup {c.id : c \in proc[p].held}
    /\ unheard' = unheard \ {c.task : c \in {d \in proc[p].held : d.st = status[d.task]}}
    /\ Goto(p, [proc[p] EXCEPT !.at = "commit"])
    /\ UNCHANGED <<status, gone, tick, pending, file, deaths, settles>>

\* The hook is gone, the write fails, the API refuses: Release.
DeliverFails(p) ==
    /\ "fail" \in Event
    /\ proc[p].at = "claim" /\ proc[p].names = {} /\ proc[p].held # {}
    /\ Goto(p, [proc[p] EXCEPT !.at = "release", !.back = proc[p].held, !.held = {}])
    /\ UNCHANGED <<status, gone, tick, pending, file, deaths, settles, unheard, told>>

\* Commit removes the claimed files one after another.
Commit(p) ==
    /\ proc[p].at = "commit"
    /\ \E c \in proc[p].held :
          /\ file' = Removed(c.f)
          /\ Goto(p, IF proc[p].held = {c} THEN IdleProc ELSE [proc[p] EXCEPT !.held = @ \ {c}])
    /\ UNCHANGED <<status, gone, tick, pending, deaths, settles, unheard, told>>

\* A listener dies, or cannot remove a file: its claims stay behind.
Die(p) ==
    /\ "die" \in Event /\ proc[p].at # "idle" /\ deaths < MaxDeaths
    /\ deaths' = deaths + 1
    /\ file' = [f \in File |-> IF file[f].by = p THEN [file[f] EXCEPT !.by = None] ELSE file[f]]
    /\ Goto(p, IdleProc)
    /\ UNCHANGED <<status, gone, tick, pending, settles, unheard, told>>

-----------------------------------------------------------------------------

Step(p) == \/ List(p) \/ Stat(p) \/ PutBack(p) \/ AllBack(p) \/ Pick(p) \/ Take(p)
           \/ Keep(p) \/ Discard(p) \/ Purge(p) \/ NothingHeld(p) \/ Commit(p)

Next == \/ \E p \in Proc : Step(p) \/ Deliver(p) \/ DeliverFails(p) \/ Die(p)
        \/ \E t \in Task : Reprompt(t) \/ Retire(t) \/ \E s \in Status : Settle(t, s)
        \/ RecordWake \/ WakeSkipped \/ Age

Spec == Init /\ [][Next]_vars

\* The sentinel's tick goes on, every await polls, and a delivery tried again and again
\* succeeds.
FairSpec == /\ Spec /\ WF_vars(RecordWake)
            /\ \A p \in Proc : WF_vars(Step(p)) /\ SF_vars(Deliver(p))

-----------------------------------------------------------------------------
(* Properties.                                                             *)

TypeOK ==
    /\ status \in [Task -> Status \cup {"running"}]
    /\ gone \subseteq Task
    /\ tick \in Changes
    /\ pending \in [Task -> Wakes]
    /\ file \in [File -> Files]
    /\ proc \in [Proc -> Procs]
    /\ deaths \in 0..MaxDeaths /\ settles \in Id
    /\ unheard \subseteq Task /\ told \subseteq Id

\* A wake that is still news is on disk, pending or claimed, until a listener has handed
\* it on: claiming, failing, dying and putting back never lose it.
NoWakeLost ==
    \A t \in unheard :
        \/ pending[t].st = status[t] /\ ~pending[t].stale
        \/ \E f \in File : /\ file[f].task = t
                           /\ file[f].wake.st = status[t] /\ ~file[f].wake.stale

\* A wake is told at most once, whichever listeners race for it, as long as none of them
\* died with claims it had told and not removed.
ToldAgain == \E p \in DOMAIN proc :
                Deliver(p) /\ deaths = 0 /\ \E c \in proc[p].held : c.id \in told
ToldOnce == [][~ToldAgain]_vars

\* Every wake is heard, unless the commander deals with its task first or it goes stale:
\* failed deliveries and dead listeners only delay it.
EveryWakeHeard == \A t \in Task : t \in unheard ~> t \notin unheard
=============================================================================
