---------------------------- MODULE SentinelLife ----------------------------
(***************************************************************************)
(* The one sentinel of a home (internal/sentinel: lock.go, build.go;       *)
(* internal/cli: common.go, sentinel.go).  It holds a flock while it runs, *)
(* keeps its pid and its build in two files, and retires when its          *)
(* executable is replaced on disk.  The awaits of the Stop hooks see at    *)
(* every poll that one is running, and start one when none is, or when the *)
(* one that runs is about to retire.                                       *)
(***************************************************************************)
EXTENDS Naturals, FiniteSets

CONSTANTS Sentinel,    \* the processes a sentinel may run in
          Poller,      \* the awaits that poll
          NoSentinel,
          MaxBuild,    \* bound: builds of the program installed one after another
          MaxCrashes   \* bound: sentinels that die

ASSUME SentinelAssumption ==
    NoSentinel \notin Sentinel /\ MaxBuild \in Nat \ {0} /\ MaxCrashes \in Nat

VARIABLES disk,      \* the build the executable on disk is of
          snt,       \* each sentinel process: where it is, its build, what it judged
          flock,     \* the process that holds sentinel.lock
          pidfile,   \* the process sentinel.pid names
          info,      \* the process whose record is in sentinel.json
          poll,      \* where each await is
          probing,   \* the awaits whose probe holds sentinel.lock shared
          crashes

sentinelVars == <<disk, snt, flock, pidfile, info, poll, probing, crashes>>

Off == [at |-> "off", build |-> 1, retiring |-> FALSE]
SentinelInit ==
    /\ disk = 1 /\ snt = [p \in Sentinel |-> Off]
    /\ flock = NoSentinel /\ pidfile = NoSentinel /\ info = NoSentinel
    /\ poll = [a \in Poller |-> "poll"] /\ probing = {} /\ crashes = 0

To(p, at) == snt' = [snt EXCEPT ![p].at = at]

\* Build.Stale: the file at the path the process started from is another.
\* (A change of the code: it compares version strings, and every build says "dev".)
StaleByVersion(p) == FALSE
Stale(p) == snt[p].build # disk

\* HolderStale: a live, locked, recorded sentinel whose executable is no more.
HolderStale == \E p \in Sentinel : p = info /\ snt[p].at # "off" /\ flock # NoSentinel /\ Stale(p)

-----------------------------------------------------------------------------
\* AcquireLockRetiring judges the holder before every attempt, and what it
\* judged once it keeps.
JudgeHolder(p) ==
    /\ snt[p].at = "judge"
    /\ snt' = [snt EXCEPT ![p] = [at |-> "lock", build |-> @.build,
                                  retiring |-> @.retiring \/ HolderStale]]
    /\ UNCHANGED <<disk, flock, pidfile, info, poll, probing, crashes>>

\* AcquireLock: the flock is taken, or somebody else has it (a probe counts):
\* wait for a holder that retires, up to the deadline, else give up.
TakeFlock(p) ==
    /\ snt[p].at = "lock" /\ flock = NoSentinel /\ probing = {}
    /\ flock' = p /\ To(p, "pid")
    /\ UNCHANGED <<disk, pidfile, info, poll, probing, crashes>>
MissFlock(p) ==
    /\ snt[p].at = "lock" /\ (flock # NoSentinel \/ probing # {})
    /\ \/ snt[p].retiring /\ To(p, "judge")
       \/ To(p, "off")
    /\ UNCHANGED <<disk, flock, pidfile, info, poll, probing, crashes>>

\* Holding it: the pid, the record of whoever is gone, and one's own.
WritePid(p) ==
    /\ snt[p].at = "pid" /\ pidfile' = p /\ To(p, "forget")
    /\ UNCHANGED <<disk, flock, info, poll, probing, crashes>>
ForgetInfo(p) ==
    /\ snt[p].at = "forget" /\ info' = NoSentinel /\ To(p, "publish")
    /\ UNCHANGED <<disk, flock, pidfile, poll, probing, crashes>>
PublishInfo(p) ==
    /\ snt[p].at = "publish" /\ info' = p /\ To(p, "run")
    /\ UNCHANGED <<disk, flock, pidfile, poll, probing, crashes>>

\* RunInjecting: after a pass the sentinel sees that its executable is stale.
\* (A change of the code: it unlocks before it removes its files.)
RetireUnlocked(p) ==
    /\ snt[p].at = "run" /\ Stale(p) /\ To(p, "seePid") /\ flock' = NoSentinel
    /\ UNCHANGED <<disk, pidfile, info, poll, probing, crashes>>
Retire(p) ==
    /\ snt[p].at = "run" /\ Stale(p) /\ To(p, "seePid")
    /\ UNCHANGED <<disk, flock, pidfile, info, poll, probing, crashes>>

\* release: each file is read, and removed when it is this process's own; then
\* the flock goes.
SeePid(p) ==
    /\ snt[p].at = "seePid" /\ To(p, IF pidfile = p THEN "dropPid" ELSE "seeInfo")
    /\ UNCHANGED <<disk, flock, pidfile, info, poll, probing, crashes>>
DropPid(p) ==
    /\ snt[p].at = "dropPid" /\ pidfile' = NoSentinel /\ To(p, "seeInfo")
    /\ UNCHANGED <<disk, flock, info, poll, probing, crashes>>
SeeInfo(p) ==
    /\ snt[p].at = "seeInfo" /\ To(p, IF info = p THEN "dropInfo" ELSE "unlock")
    /\ UNCHANGED <<disk, flock, pidfile, info, poll, probing, crashes>>
DropInfo(p) ==
    /\ snt[p].at = "dropInfo" /\ info' = NoSentinel /\ To(p, "unlock")
    /\ UNCHANGED <<disk, flock, pidfile, poll, probing, crashes>>
UnlockFlock(p) ==
    /\ snt[p].at = "unlock" /\ To(p, "off")
    /\ flock' = IF flock = p THEN NoSentinel ELSE flock
    /\ UNCHANGED <<disk, pidfile, info, poll, probing, crashes>>

\* A sentinel dies: the kernel drops its flock, its files stay.
SentinelDies(p) ==
    /\ snt[p].at # "off" /\ crashes < MaxCrashes /\ crashes' = crashes + 1
    /\ To(p, "off") /\ flock' = IF flock = p THEN NoSentinel ELSE flock
    /\ UNCHANGED <<disk, pidfile, info, poll, probing>>

\* A rebuild or an upgrade replaces the executable.
Rebuild ==
    /\ disk < MaxBuild /\ disk' = disk + 1
    /\ UNCHANGED <<snt, flock, pidfile, info, poll, probing, crashes>>

-----------------------------------------------------------------------------
\* IsRunning: a probe that takes the lock shared, for a moment, if it can.
Probe(a) ==
    /\ poll[a] = "poll"
    /\ IF flock # NoSentinel
       THEN poll' = [poll EXCEPT ![a] = "held"] /\ UNCHANGED probing
       ELSE poll' = [poll EXCEPT ![a] = "free"] /\ probing' = probing \cup {a}
    /\ UNCHANGED <<disk, snt, flock, pidfile, info, crashes>>

\* The new process is of the build on disk; its pid is in neither file.
Startable == {p \in Sentinel \ {pidfile, info} : snt[p].at = "off"}
StartOne == \/ \E p \in Startable :
                 snt' = [snt EXCEPT ![p] = [at |-> "judge", build |-> disk, retiring |-> FALSE]]
            \/ Startable = {} /\ UNCHANGED snt  \* bound: enough of them have started

\* ensureSentinelRunning: none runs, or the one that does is about to retire.
EnsureFree(a) ==
    /\ poll[a] = "free" /\ probing' = probing \ {a}
    /\ poll' = [poll EXCEPT ![a] = "poll"] /\ StartOne
    /\ UNCHANGED <<disk, flock, pidfile, info, crashes>>
EnsureHeld(a) ==
    /\ poll[a] = "held" /\ poll' = [poll EXCEPT ![a] = "poll"]
    /\ IF HolderStale THEN StartOne ELSE UNCHANGED snt
    /\ UNCHANGED <<disk, flock, pidfile, info, probing, crashes>>

SentinelStep(p) ==
    \/ JudgeHolder(p) \/ TakeFlock(p) \/ MissFlock(p) \/ WritePid(p) \/ ForgetInfo(p)
    \/ PublishInfo(p) \/ Retire(p) \/ SeePid(p) \/ DropPid(p) \/ SeeInfo(p) \/ DropInfo(p)
    \/ UnlockFlock(p)
PollStep(a) == Probe(a) \/ EnsureFree(a) \/ EnsureHeld(a)
SentinelNext == \/ \E p \in Sentinel : SentinelStep(p) \/ SentinelDies(p)
                \/ \E a \in Poller : PollStep(a)
                \/ Rebuild

-----------------------------------------------------------------------------
(* Properties *)

\* While a sentinel runs, sentinel.pid and sentinel.json name it and nobody
\* else, whoever retires, dies or starts around it: its successors, and the
\* commands that ask which build and backend supervise the soldiers, rely on it.
RecordTrue == \A p \in Sentinel : snt[p].at = "run" => flock = p /\ pidfile = p /\ info = p

\* As long as awaits poll, a sentinel of the installed build ends up running and
\* stays, although probes take its lock, sentinels die and builds are replaced.
\* A start that meets a probe every single time is left out: a probe takes
\* microseconds, and awaits start sentinels seconds apart.
Contended(p) == snt[p].at = "lock" /\ flock = NoSentinel
ProbesMiss == (\E p \in Sentinel : []<>Contended(p))
              => \E p \in Sentinel : []<>(Contended(p) /\ probing = {})
Watched == ProbesMiss => <>[](\E p \in Sentinel : snt[p].at = "run" /\ snt[p].build = disk)
=============================================================================
