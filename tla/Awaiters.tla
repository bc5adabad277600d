------------------------------ MODULE Awaiters ------------------------------
(***************************************************************************)
(* The awaits of the Stop hooks of one project (internal/sentinel:         *)
(* awaiter.go; internal/cli: sentinel.go).  Each records itself in a file  *)
(* of its own, then sweeps the others: the awaits whose owner (the session *)
(* that launched them) is gone, and the older ones of its own owner, are   *)
(* signalled to exit.  A sentinel that starts sweeps too.  One action is   *)
(* one file, one look at a process or one signal.                          *)
(***************************************************************************)
EXTENDS Naturals, FiniteSets

CONSTANTS Await,      \* the await processes, in the order of their pids
          Owner,      \* the sessions whose hooks launch them
          Reaper      \* the sentinel, which sweeps when it starts

ASSUME AwaiterAssumption == Await \subseteq Nat \ {0} /\ Reaper \notin Await

VARIABLES awt,      \* each await: where it is, its owner, when it started, what it sweeps
          now,      \* the number of awaits stamped so far
          record,   \* the awaits with a record on disk
          hung,     \* the owners that are gone
          signalled \* the awaits sent SIGTERM and not gone yet

awaiterVars == <<awt, now, record, hung, signalled>>

NoAwait == 0
Sweeper == Await \cup {Reaper}
AwaitInit ==
    /\ awt = [a \in Sweeper |-> [at |-> "new", owner |-> CHOOSE o \in Owner : TRUE, stamp |-> 0,
                                left |-> {}, aim |-> NoAwait]]
    /\ now = 0 /\ record = {} /\ hung = {} /\ signalled = {}

Gone(a) == awt[a].at = "gone"

\* It goes on, with the records it has still to look at and the await it aims at.
Goes(a, at, left, aim) == awt' = [awt EXCEPT ![a] = [at |-> at, owner |-> @.owner, stamp |-> @.stamp,
                                                     left |-> left, aim |-> aim]]

\* startedBefore: by start time, and by pid when those are equal.
StartedBefore(a, b) == awt[a].stamp < awt[b].stamp \/ (awt[a].stamp = awt[b].stamp /\ a < b)

\* The process has lost its parent: it was given another one.
Orphan(a) == awt[a].owner \in hung

\* A session ends its turn and its hook launches an await; two may start in the
\* same instant.
Stamp(a) ==
    /\ a # Reaper /\ awt[a].at = "new" /\ now' \in {now, now + 1} \ {0}
    /\ \E o \in Owner \ hung :
          awt' = [awt EXCEPT ![a] = [at |-> "write", owner |-> o, stamp |-> now',
                                     left |-> {}, aim |-> NoAwait]]
    /\ UNCHANGED <<record, hung, signalled>>

\* RegisterAwaiter: the record first, then the list of all records.
Register(a) ==
    /\ awt[a].at = "write" /\ Goes(a, "list", {}, NoAwait)
    /\ record' = record \cup {a}
    /\ UNCHANGED <<now, hung, signalled>>
List(a) ==
    /\ awt[a].at = "list" \/ (a = Reaper /\ awt[a].at = "new")
    /\ Goes(a, "sweep", record \ {a}, NoAwait)
    /\ UNCHANGED <<now, record, hung, signalled>>

\* What a sweep signals: an orphan, or (not the sentinel's) an older await of
\* the same owner.
\* (A change of the code: any other await of the owner is superseded.)
SupersededAny(a, b) == a # Reaper /\ awt[a].owner = awt[b].owner
Superseded(a, b) == a # Reaper /\ awt[a].owner = awt[b].owner /\ StartedBefore(b, a)

\* sweepAwaiters, in the order of the directory: one record is read and its
\* process inspected ...
Inspect(a, b) ==
    /\ awt[a].at = "sweep" /\ b \in awt[a].left /\ \A c \in awt[a].left : b <= c
    /\ Goes(a, IF ~Gone(b) /\ (Orphan(b) \/ Superseded(a, b)) THEN "kill" ELSE "sweep",
            awt[a].left \ {b}, b)
    /\ record' = IF Gone(b) THEN record \ {b} ELSE record
    /\ UNCHANGED <<now, hung, signalled>>
\* ... and signalled; its record goes.
Signal(a) ==
    /\ awt[a].at = "kill" /\ Goes(a, "sweep", awt[a].left, NoAwait)
    /\ signalled' = IF Gone(awt[a].aim) THEN signalled ELSE signalled \cup {awt[a].aim}
    /\ record' = record \ {awt[a].aim}
    /\ UNCHANGED <<now, hung>>
Swept(a) ==
    /\ awt[a].at = "sweep" /\ awt[a].left = {}
    /\ Goes(a, IF a = Reaper THEN "gone" ELSE "wait", {}, NoAwait)
    /\ UNCHANGED <<now, record, hung, signalled>>

\* The signal ends an await: one that waits removes its record, one that has not
\* asked for signals yet does not.
Obey(a) ==
    /\ a \in signalled /\ Goes(a, "gone", {}, NoAwait)
    /\ signalled' = signalled \ {a}
    /\ record' = IF awt[a].at = "wait" THEN record \ {a} ELSE record
    /\ UNCHANGED <<now, hung>>

\* runSentinelAwait: at a poll it finds its owner gone, or a wake to print, or
\* its time over, and ends.
Finish(a) ==
    /\ awt[a].at = "wait" /\ Goes(a, "gone", {}, NoAwait)
    /\ record' = record \ {a} /\ signalled' = signalled \ {a}
    /\ UNCHANGED <<now, hung>>

\* The session ends; its hooks are not reaped.
HangUp(o) ==
    /\ o \notin hung /\ hung' = hung \cup {o}
    /\ UNCHANGED <<awt, now, record, signalled>>

AwaitNext ==
    \/ \E a \in Await : Stamp(a) \/ Register(a) \/ Obey(a) \/ Finish(a)
    \/ \E a \in Sweeper : List(a) \/ Signal(a) \/ Swept(a) \/ \E b \in Await : Inspect(a, b)
    \/ \E o \in Owner : HangUp(o)

-----------------------------------------------------------------------------
(* Properties *)

\* Awaits that start together do not signal each other to death: nobody signals
\* an await of a live session unless that session has a newer one.  So as long
\* as its awaits do not end by themselves, the session keeps one (awaiter.go:
\* supersede only strictly older awaits).
NewestKept == \A b \in signalled : Orphan(b) \/ \E a \in Await : awt[a].owner = awt[b].owner
                                                  /\ awt[a].stamp # 0 /\ StartedBefore(b, a)
=============================================================================
