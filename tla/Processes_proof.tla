--------------------------- MODULE Processes_proof ---------------------------
(***************************************************************************)
(* Proofs about the processes of a home (ForumServer, SentinelLife,        *)
(* Awaiters, ListenerLife): one server, one listener, a sentinel whose     *)
(* files tell the truth, and awaits that do not signal each other to       *)
(* death; for every number of processes, of crashes and of builds.         *)
(***************************************************************************)
EXTENDS MCProcesses, FiniteSetTheorems, TLAPS

USE ServerAssumption, SentinelAssumption, AwaiterAssumption, ListenerAssumption

-----------------------------------------------------------------------------
(* The forum server.                                                        *)

Serving     == {"bind", "serve", "stopping", "unlock"}
ServerTypes == sat = [p \in Server |-> sat[p]]
\* Until a server dies, whoever believes it holds the lock is named by it, a lock that
\* is there is held, and none is found stale.
ServerLock  == ~crashed => /\ \A p \in Server : sat[p] \in Serving => slock = p
                           /\ slock # NoServer => slock \in Server /\ sat[slock] \in Serving
                           /\ \A p \in Server : sat[p] # "clear"
ServerIInv  == ServerTypes /\ ServerLock

LEMMA ServerStart == ServerInit => ServerIInv
  BY DEF ServerInit, ServerIInv, ServerTypes, ServerLock, Serving

LEMMA ServerProcess ==
  ASSUME ServerIInv, NEW p \in Server, ServerStep(p) \/ StopServing(p) \/ ServerDies(p) \/ ComeAndGo(p)
  PROVE  ServerIInv'
<1> USE DEF ServerIInv, ServerTypes, ServerLock, Serving, SMove
<1>1. CASE Claim(p)
  BY <1>1 DEF Claim
<1>2. CASE ReadLock(p)
  BY <1>2 DEF ReadLock, Alive
<1>3. CASE ClearStale(p)
  BY <1>3 DEF ClearStale
<1>4. CASE Publish(p) \/ Unpublish(p)
  BY <1>4 DEF Publish, Unpublish
<1>5. CASE Unlock(p)
  BY <1>5 DEF Unlock
<1>6. CASE StopServing(p)
  BY <1>6 DEF StopServing
<1>7. CASE ServerDies(p)
  BY <1>7 DEF ServerDies
<1>8. CASE ComeAndGo(p)
  BY <1>8 DEF ComeAndGo
<1> QED BY <1>1, <1>2, <1>3, <1>4, <1>5, <1>6, <1>7, <1>8 DEF ServerStep

LEMMA ServerAsked ==
  ASSUME ServerIInv, NEW c \in Asker, AskStep(c)
  PROVE  ServerIInv'
<1> USE DEF ServerIInv, ServerTypes, ServerLock, Serving, SMove
<1>1. CASE FirstAttach(c) \/ Judge(c) \/ AwaitGone(c) \/ Look(c)
  BY <1>1 DEF FirstAttach, Judge, AwaitGone, Look, Attach
<1>2. CASE StopIfIdle(c)
  BY <1>2 DEF StopIfIdle
<1>3. CASE Spawn(c)
  BY <1>3 DEF Spawn
<1> QED BY <1>1, <1>2, <1>3 DEF AskStep

LEMMA ServerKeeps ==
  ASSUME ServerIInv, [ServerNext]_serverVars
  PROVE  ServerIInv'
<1>1. CASE UNCHANGED serverVars
  BY <1>1 DEF serverVars, ServerIInv, ServerTypes, ServerLock
<1> QED BY <1>1, ServerProcess, ServerAsked DEF ServerNext

LEMMA ServerHolds == ServerIInv => OneUnlessCrashed
<1> SUFFICES ASSUME ServerIInv, ~crashed PROVE Cardinality(Owners) <= 1
  BY DEF OneUnlessCrashed
<1>1. Owners \subseteq {slock}
  BY DEF ServerIInv, ServerLock, Serving, Owners
<1>2. IsFiniteSet({slock}) /\ Cardinality({slock}) = 1
  BY FS_Singleton
<1> QED BY <1>1, <1>2, FS_Subset

-----------------------------------------------------------------------------
(* The sentinel.                                                            *)

\* The steps between taking the flock and letting it go, and those at which the
\* process is the one that its pid file, and its record, name.
Holds == {"pid", "forget", "publish", "run", "seePid", "dropPid", "seeInfo", "dropInfo", "unlock"}
Named == {"forget", "publish", "run"}
SentinelTypes == /\ snt = [p \in Sentinel |-> snt[p]]
                 /\ \A p \in Sentinel : snt[p] = [at |-> snt[p].at, build |-> snt[p].build,
                                                  retiring |-> snt[p].retiring]
SentinelLock  == \A p \in Sentinel : snt[p].at \in Holds => flock = p
SentinelFiles == \A p \in Sentinel : /\ snt[p].at \in Named => pidfile = p
                                     /\ snt[p].at = "run" => info = p
SentinelIInv  == SentinelTypes /\ SentinelLock /\ SentinelFiles

LEMMA SentinelStart == SentinelInit => SentinelIInv
  BY DEF SentinelInit, Off, SentinelIInv, SentinelTypes, SentinelLock, SentinelFiles, Holds, Named

\* A process that moves keeps the others where they are.
LEMMA Moves ==
  ASSUME SentinelIInv, NEW p \in Sentinel, NEW at, To(p, at)
  PROVE  /\ SentinelTypes' /\ snt'[p].at = at
         /\ \A q \in Sentinel \ {p} : snt'[q] = snt[q]
  BY DEF SentinelIInv, SentinelTypes, To

LEMMA SentinelProcess ==
  ASSUME SentinelIInv, NEW p \in Sentinel, SentinelStep(p) \/ SentinelDies(p)
  PROVE  SentinelIInv'
<1> USE DEF SentinelIInv, SentinelLock, SentinelFiles, Holds, Named
<1>1. CASE JudgeHolder(p)
  BY <1>1 DEF JudgeHolder, SentinelTypes
<1>2. CASE TakeFlock(p)
  BY <1>2, Moves DEF TakeFlock
<1>3. CASE MissFlock(p)
  BY <1>3, Moves DEF MissFlock
<1>4. CASE WritePid(p)
  BY <1>4, Moves DEF WritePid
<1>5. CASE ForgetInfo(p)
  BY <1>5, Moves DEF ForgetInfo
<1>6. CASE PublishInfo(p)
  BY <1>6, Moves DEF PublishInfo
<1>7. CASE Retire(p)
  BY <1>7, Moves DEF Retire
<1>8. CASE SeePid(p)
  BY <1>8, Moves DEF SeePid
<1>9. CASE DropPid(p)
  BY <1>9, Moves DEF DropPid
<1>10. CASE SeeInfo(p)
  BY <1>10, Moves DEF SeeInfo
<1>11. CASE DropInfo(p)
  BY <1>11, Moves DEF DropInfo
<1>12. CASE UnlockFlock(p)
  BY <1>12, Moves DEF UnlockFlock
<1>13. CASE SentinelDies(p)
  BY <1>13, Moves DEF SentinelDies
<1> QED BY <1>1, <1>2, <1>3, <1>4, <1>5, <1>6, <1>7, <1>8, <1>9, <1>10, <1>11, <1>12, <1>13
        DEF SentinelStep

LEMMA SentinelPolled ==
  ASSUME SentinelIInv, NEW a \in Poller, PollStep(a)
  PROVE  SentinelIInv'
<1>1. StartOne \/ UNCHANGED snt
  BY DEF PollStep, Probe, EnsureFree, EnsureHeld
<1>2. UNCHANGED <<flock, pidfile, info>>
  BY DEF PollStep, Probe, EnsureFree, EnsureHeld
<1>3. CASE UNCHANGED snt
  BY <1>2, <1>3 DEF SentinelIInv, SentinelTypes, SentinelLock, SentinelFiles
<1>4. CASE StartOne
  BY <1>2, <1>3, <1>4 DEF StartOne, Startable, SentinelIInv, SentinelTypes, SentinelLock, SentinelFiles,
                          Holds, Named
<1> QED BY <1>1, <1>3, <1>4

LEMMA SentinelKeeps ==
  ASSUME SentinelIInv, [SentinelNext]_sentinelVars
  PROVE  SentinelIInv'
<1>1. CASE UNCHANGED sentinelVars \/ Rebuild
  BY <1>1 DEF sentinelVars, Rebuild, SentinelIInv, SentinelTypes, SentinelLock, SentinelFiles
<1> QED BY <1>1, SentinelProcess, SentinelPolled DEF SentinelNext

LEMMA SentinelHolds == SentinelIInv => RecordTrue
  BY DEF SentinelIInv, SentinelLock, SentinelFiles, Holds, Named, RecordTrue

-----------------------------------------------------------------------------
(* The awaits.                                                              *)

AwaitTypes == /\ awt = [a \in Sweeper |-> awt[a]] /\ now \in Nat
              /\ \A a \in Sweeper : /\ awt[a] = [at |-> awt[a].at, owner |-> awt[a].owner,
                                                 stamp |-> awt[a].stamp, left |-> awt[a].left,
                                                 aim |-> awt[a].aim]
                                    /\ awt[a].stamp \in Nat
\* Whoever has a record, is to be swept, or was signalled, has an owner that stays and
\* a time of start that stays.
Stamped == {a \in Await : awt[a].at # "new" /\ awt[a].stamp # 0}
AwaitStamped == /\ \A a \in Await : awt[a].at # "new" <=> awt[a].stamp # 0
                /\ record \subseteq Stamped /\ signalled \subseteq Stamped
                /\ \A a \in Sweeper : /\ awt[a].left \subseteq Stamped
                                      /\ awt[a].at = "kill" => awt[a].aim \in Stamped
\* Why an await is signalled, which stays true.
Chased(b) == Orphan(b) \/ \E a \in Await : awt[a].owner = awt[b].owner
                                             /\ awt[a].stamp # 0 /\ StartedBefore(b, a)
AwaitChased == /\ \A b \in signalled : Chased(b)
               /\ \A a \in Sweeper : awt[a].at = "kill" => Chased(awt[a].aim)
AwaitIInv == AwaitTypes /\ AwaitStamped /\ AwaitChased

LEMMA AwaitStart == AwaitInit => AwaitIInv
<1> SUFFICES ASSUME AwaitInit PROVE AwaitIInv
  OBVIOUS
<1>1. PICK o : awt = [a \in Sweeper |-> [at |-> "new", owner |-> o, stamp |-> 0,
                                         left |-> {}, aim |-> NoAwait]]
  BY Zenon DEF AwaitInit
<1>2. now = 0 /\ record = {} /\ signalled = {}
  BY DEF AwaitInit
<1>3. AwaitTypes
  BY <1>1, <1>2 DEF AwaitTypes
<1>4. AwaitStamped /\ AwaitChased
  BY <1>1, <1>2 DEF AwaitStamped, AwaitChased, Stamped, Sweeper
<1> QED BY <1>3, <1>4 DEF AwaitIInv

\* A step that leaves owners and times of start alone leaves every reason in force.
LEMMA ChasedStays ==
  ASSUME AwaitIInv, NEW b \in Stamped, Chased(b), hung \subseteq hung',
         \A a \in Stamped : awt'[a].owner = awt[a].owner /\ awt'[a].stamp = awt[a].stamp
  PROVE  Chased(b)'
<1>0. awt'[b].owner = awt[b].owner /\ awt'[b].stamp = awt[b].stamp
  OBVIOUS
<1>1. CASE Orphan(b)
  <2>1. Orphan(b)'
    BY <1>0, <1>1 DEF Orphan
  <2> QED BY <2>1 DEF Chased
<1>2. CASE ~Orphan(b)
  <2>1. PICK a \in Await : awt[a].owner = awt[b].owner /\ awt[a].stamp # 0 /\ StartedBefore(b, a)
    BY <1>2 DEF Chased
  <2>2. a \in Stamped
    BY <2>1 DEF AwaitIInv, AwaitStamped, Stamped
  <2>3. awt'[a].owner = awt'[b].owner /\ awt'[a].stamp # 0 /\ StartedBefore(b, a)'
    BY <1>0, <2>1, <2>2 DEF StartedBefore
  <2> QED BY <2>3 DEF Chased
<1> QED BY <1>1, <1>2

\* One await goes on, with the owner and the time of start it has.
LEMMA AwaitMoves ==
  ASSUME AwaitIInv, NEW a \in Sweeper, NEW at, NEW left, NEW aim, Goes(a, at, left, aim),
         at = "new" => awt[a].at = "new",
         a \in Await => awt[a].at # "new",
         UNCHANGED <<now, hung>>
  PROVE  /\ AwaitTypes' /\ Stamped' = Stamped
         /\ awt'[a].at = at /\ awt'[a].left = left /\ awt'[a].aim = aim
         /\ \A b \in Sweeper \ {a} : awt'[b] = awt[b]
         /\ \A b \in Await : awt'[b].at # "new" <=> awt'[b].stamp # 0
         /\ \A b \in Stamped : Chased(b) => Chased(b)'
<1>1. /\ AwaitTypes'
      /\ awt'[a].at = at /\ awt'[a].left = left /\ awt'[a].aim = aim
      /\ awt'[a].owner = awt[a].owner /\ awt'[a].stamp = awt[a].stamp
      /\ \A b \in Sweeper \ {a} : awt'[b] = awt[b]
  BY DEF AwaitIInv, AwaitTypes, Goes
<1>2. \A b \in Sweeper : awt'[b].owner = awt[b].owner /\ awt'[b].stamp = awt[b].stamp
  BY <1>1
<1>3. \A b \in Await : awt'[b].at = "new" <=> awt[b].at = "new"
  BY <1>1 DEF Sweeper
<1>4. Stamped' = Stamped
  BY <1>2, <1>3 DEF Stamped, Sweeper
<1>5. \A b \in Await : awt'[b].at # "new" <=> awt'[b].stamp # 0
  BY <1>2, <1>3 DEF AwaitIInv, AwaitStamped, Sweeper
<1>6. \A b \in Stamped : Chased(b) => Chased(b)'
  BY <1>2, ChasedStays DEF Stamped, Sweeper
<1> QED BY <1>1, <1>4, <1>5, <1>6

\* So the invariant is kept if it holds of what the step has added.
LEMMA AwaitFollows ==
  ASSUME AwaitIInv, NEW a \in Sweeper, NEW at, NEW left, NEW aim, Goes(a, at, left, aim),
         at # "new", a \in Await => awt[a].at # "new", UNCHANGED <<now, hung>>,
         left \subseteq Stamped, record' \subseteq Stamped,
         at = "kill" => aim \in Stamped /\ Chased(aim),
         \A b \in signalled' : b \in Stamped /\ Chased(b)
  PROVE  AwaitIInv'
<1>1. /\ AwaitTypes' /\ Stamped' = Stamped
      /\ awt'[a].at = at /\ awt'[a].left = left /\ awt'[a].aim = aim
      /\ \A b \in Sweeper \ {a} : awt'[b] = awt[b]
      /\ \A b \in Await : awt'[b].at # "new" <=> awt'[b].stamp # 0
      /\ \A b \in Stamped : Chased(b) => Chased(b)'
  BY AwaitMoves
<1>2. AwaitStamped'
  BY <1>1 DEF AwaitIInv, AwaitStamped
<1>3. AwaitChased'
  BY <1>1 DEF AwaitIInv, AwaitStamped, AwaitChased
<1> QED BY <1>1, <1>2, <1>3 DEF AwaitIInv

LEMMA AwaitStep ==
  ASSUME AwaitIInv, NEW a \in Sweeper,
         \/ a \in Await /\ (Register(a) \/ Obey(a) \/ Finish(a))
         \/ List(a) \/ Signal(a) \/ Swept(a) \/ \E b \in Await : Inspect(a, b)
  PROVE  AwaitIInv'
<1>0. /\ a \in Await /\ awt[a].at # "new" => a \in Stamped
      /\ record \subseteq Stamped /\ signalled \subseteq Stamped /\ awt[a].left \subseteq Stamped
      /\ \A b \in signalled : Chased(b)
      /\ awt[a].at = "kill" => awt[a].aim \in Stamped /\ Chased(awt[a].aim)
  BY DEF AwaitIInv, AwaitStamped, AwaitChased, Stamped
<1>1. CASE a \in Await /\ Register(a)
  <2>1. awt[a].at = "write" /\ a \in Stamped
    BY <1>0, <1>1 DEF Register
  <2>2. /\ Goes(a, "list", {}, NoAwait) /\ record' \subseteq Stamped
        /\ UNCHANGED <<now, hung, signalled>>
    BY <1>0, <1>1, <2>1 DEF Register
  <2> QED BY <1>0, <2>1, <2>2, AwaitFollows
<1>2. CASE List(a)
  BY <1>0, <1>2, AwaitFollows, AwaiterAssumption DEF List
<1>3. ASSUME NEW b \in Await, Inspect(a, b)
      PROVE  AwaitIInv'
  <2>1. b \in Stamped /\ awt[a].at = "sweep"
    BY <1>0, <1>3 DEF Inspect
  <2>2. ASSUME Superseded(a, b) PROVE Chased(b)
    <3>1. a \in Await /\ awt[a].stamp # 0
      BY <1>0, <2>1, <2>2 DEF Superseded, Sweeper, Stamped
    <3> QED BY <2>2, <3>1 DEF Superseded, Chased
  <2>3. Orphan(b) => Chased(b)
    BY DEF Chased
  <2> QED BY <1>0, <1>3, <2>1, <2>2, <2>3, AwaitFollows DEF Inspect
<1>4. CASE Signal(a)
  BY <1>0, <1>4, AwaitFollows DEF Signal
<1>5. CASE Swept(a)
  BY <1>0, <1>5, AwaitFollows DEF Swept
<1>6. CASE a \in Await /\ Obey(a)
  <2>1. awt[a].at # "new"
    BY <1>0, <1>6 DEF Obey, Stamped
  <2> QED BY <1>0, <1>6, <2>1, AwaitFollows DEF Obey
<1>7. CASE a \in Await /\ Finish(a)
  BY <1>0, <1>7, AwaitFollows DEF Finish
<1> QED BY <1>1, <1>2, <1>3, <1>4, <1>5, <1>6, <1>7

LEMMA AwaitStamps ==
  ASSUME AwaitIInv, NEW a \in Await, Stamp(a)
  PROVE  AwaitIInv'
<1>1. PICK o \in Owner : awt' = [awt EXCEPT ![a] = [at |-> "write", owner |-> o, stamp |-> now',
                                                    left |-> {}, aim |-> NoAwait]]
  BY DEF Stamp
<1>2. now' \in Nat \ {0} /\ a \in Sweeper /\ a \notin Stamped
      /\ UNCHANGED <<record, hung, signalled>>
  BY DEF Stamp, AwaitIInv, AwaitTypes, Sweeper, Stamped
<1>3. /\ AwaitTypes' /\ awt'[a].at = "write" /\ awt'[a].stamp # 0 /\ awt'[a].left = {}
      /\ \A b \in Sweeper \ {a} : awt'[b] = awt[b]
  BY <1>1, <1>2 DEF AwaitIInv, AwaitTypes
<1>4. Stamped' = Stamped \cup {a}
  BY <1>3 DEF Stamped, Sweeper
<1>5. \A b \in Stamped : Chased(b) => Chased(b)'
  BY <1>2, <1>3, ChasedStays DEF Stamped, Sweeper
<1>6. AwaitStamped'
  BY <1>2, <1>3, <1>4 DEF AwaitIInv, AwaitStamped, Sweeper
<1>7. AwaitChased'
  BY <1>2, <1>3, <1>5 DEF AwaitIInv, AwaitStamped, AwaitChased
<1> QED BY <1>3, <1>6, <1>7 DEF AwaitIInv

LEMMA AwaitKeeps ==
  ASSUME AwaitIInv, [AwaitNext]_awaiterVars
  PROVE  AwaitIInv'
<1>1. CASE UNCHANGED awaiterVars
  BY <1>1 DEF awaiterVars, AwaitIInv, AwaitTypes, AwaitStamped, AwaitChased, Stamped, Chased, Orphan,
              StartedBefore
<1>2. ASSUME NEW o \in Owner, HangUp(o)
      PROVE  AwaitIInv'
  <2>1. UNCHANGED <<awt, now, record, signalled>> /\ hung \subseteq hung'
    BY <1>2 DEF HangUp
  <2>2. \A b \in Stamped : Chased(b) => Chased(b)'
    BY <2>1, ChasedStays
  <2>3. AwaitTypes' /\ AwaitStamped'
    BY <2>1 DEF AwaitIInv, AwaitTypes, AwaitStamped, Stamped
  <2> QED BY <2>1, <2>2, <2>3 DEF AwaitIInv, AwaitStamped, AwaitChased
<1>3. \A a \in Await : a \in Sweeper
  BY DEF Sweeper
<1> QED BY <1>1, <1>2, <1>3, AwaitStep, AwaitStamps DEF AwaitNext

LEMMA AwaitHolds == AwaitIInv => NewestKept
  BY DEF AwaitIInv, AwaitChased, Chased, NewestKept

-----------------------------------------------------------------------------
(* The forum listener.                                                      *)

Stages    == {"gone", "claim", "read", "clear", "poll", "leave"}
LockTypes == lat \in [Ear -> Stages] /\ lpid \in Ear \cup {NoEar}
\* The lock names a process that took it, and is not used again while it does.
LockNames == lpid # NoEar => lat[lpid] \in {"poll", "leave", "gone"}
\* Until one is killed, whoever believes it holds the lock is named by it, a lock
\* that is there is held, and none is found stale.
LockTrue  == ~lcrashed => /\ \A p \in Ear : lat[p] \in {"poll", "leave"} => lpid = p
                          /\ lpid # NoEar => lat[lpid] \in {"poll", "leave"}
                          /\ \A p \in Ear : lat[p] # "clear"
OwedOpen  == owed => review = "open"
ListenerIInv == LockTypes /\ LockNames /\ LockTrue /\ OwedOpen /\ HeardOnceTold

LEMMA ListenerStart == ListenerInit => ListenerIInv
  BY DEF ListenerInit, ListenerIInv, LockTypes, Stages, LockNames, LockTrue, OwedOpen, HeardOnceTold

\* Of one process that takes a step by itself.
LEMMA EarStep ==
  ASSUME ListenerIInv, NEW p \in Ear,
         \/ ClaimLock(p) \/ ReadLockPID(p) \/ RemoveStale(p) \/ Polls(p) \/ Releases(p)
         \/ Halts(p) \/ ListenerDies(p)
  PROVE  ListenerIInv'
<1> USE DEF ListenerIInv, LockTypes, Stages, LockNames, LockTrue, OwedOpen, HeardOnceTold, LMove, NobodyOpens
<1>1. CASE ClaimLock(p)
  BY <1>1 DEF ClaimLock
<1>2. CASE ReadLockPID(p)
  BY <1>2 DEF ReadLockPID, Running, Verified
<1>3. CASE RemoveStale(p)
  BY <1>3 DEF RemoveStale
<1>4. CASE Polls(p)
  BY <1>4 DEF Polls
<1>5. CASE Releases(p)
  BY <1>5 DEF Releases
<1>6. CASE Halts(p)
  BY <1>6 DEF Halts
<1>7. CASE ListenerDies(p)
  BY <1>7 DEF ListenerDies
<1> QED BY <1>1, <1>2, <1>3, <1>4, <1>5, <1>6, <1>7

\* Of a command, or of the review.
LEMMA OpenerStep ==
  ASSUME ListenerIInv,
         \/ \E c \in Opener : OpensSession(c) \/ ToldRunning(c) \/ SpawnsListener(c) \/ GivesUpEnsure(c)
         \/ EndsReview \/ WindowsGo \/ WindowReturns
  PROVE  ListenerIInv'
<1> USE DEF ListenerIInv, LockTypes, Stages, LockNames, LockTrue, OwedOpen, HeardOnceTold, LMove
<1>1. ASSUME NEW c \in Opener, OpensSession(c) \/ GivesUpEnsure(c)
      PROVE  ListenerIInv'
  BY <1>1 DEF OpensSession, GivesUpEnsure
<1>2. ASSUME NEW c \in Opener, ToldRunning(c)
      PROVE  ListenerIInv'
  BY <1>2 DEF ToldRunning, Satisfied, Running, Verified
<1>3. ASSUME NEW c \in Opener, SpawnsListener(c)
      PROVE  ListenerIInv'
  BY <1>3 DEF SpawnsListener
<1>4. CASE EndsReview \/ WindowsGo \/ WindowReturns
  BY <1>4 DEF EndsReview, WindowsGo, WindowReturns
<1> QED BY <1>1, <1>2, <1>3, <1>4

LEMMA ListenerStep ==
  ASSUME ListenerIInv, [ListenerNext]_listenerVars
  PROVE  ListenerIInv'
<1>1. CASE UNCHANGED listenerVars
  BY <1>1 DEF listenerVars, ListenerIInv, LockTypes, LockNames, LockTrue, OwedOpen, HeardOnceTold
<1> QED BY <1>1, EarStep, OpenerStep DEF ListenerNext

LEMMA ListenerHolds == ListenerIInv => ListenerKept
<1> SUFFICES ASSUME ListenerIInv PROVE OneListener
  BY DEF ListenerKept, ListenerIInv
<1> SUFFICES ASSUME ~lcrashed PROVE Cardinality(Holding) <= 1
  BY DEF OneListener
<1>1. Holding \subseteq {lpid}
  BY DEF ListenerIInv, LockTrue, Holding
<1>2. IsFiniteSet({lpid}) /\ Cardinality({lpid}) = 1
  BY FS_Singleton
<1> QED BY <1>1, <1>2, FS_Subset

\* At most one process listens until one is killed, and a command that is told of a
\* listener that is not leaving has one for as long as the review is open and nobody
\* stops it (forumlisten.AcquireLock, Ensure, Run).
THEOREM ListenersKept == ListenerSpec => []ListenerKept
<1>1. ListenerInit => ListenerIInv
  BY ListenerStart
<1>2. ListenerIInv /\ [ListenerNext]_listenerVars => ListenerIInv'
  BY ListenerStep
<1>3. ListenerIInv => ListenerKept
  BY ListenerHolds
<1> QED BY <1>1, <1>2, <1>3, PTL DEF ListenerSpec

-----------------------------------------------------------------------------
(* Together: a step of one part leaves the others' variables alone.         *)
ProcessIInv == ServerIInv /\ SentinelIInv /\ AwaitIInv /\ ListenerIInv

LEMMA ProcessStart == ProcessInit => ProcessIInv
  BY ServerStart, SentinelStart, AwaitStart, ListenerStart DEF ProcessInit, ProcessIInv

LEMMA ProcessStep ==
  ASSUME ProcessIInv, [ProcessNext]_ProcessVars
  PROVE  ProcessIInv'
<1>1. [ServerNext]_serverVars /\ [SentinelNext]_sentinelVars
      /\ [AwaitNext]_awaiterVars /\ [ListenerNext]_listenerVars
  BY DEF ProcessNext, ProcessVars, ForumPart, SentinelPart, AwaitPart, ListenerPart, InPart
<1> QED BY <1>1, ServerKeeps, SentinelKeeps, AwaitKeeps, ListenerStep DEF ProcessIInv

LEMMA ProcessAlways == ProcessSpec => []ProcessIInv
<1>1. ProcessInit => ProcessIInv
  BY ProcessStart
<1>2. ProcessIInv /\ [ProcessNext]_ProcessVars => ProcessIInv'
  BY ProcessStep
<1> QED BY <1>1, <1>2, PTL DEF ProcessSpec

\* However many commands spawn servers and listeners, at most one of each believes it
\* holds the lock until one is killed, and a listener a command was told of goes on
\* (forum.AcquireLock, EnsureServer; forumlisten.AcquireLock, Ensure).
THEOREM OneEach == ProcessSpec => []OneOfEach
<1>1. ProcessIInv => OneOfEach
  BY ServerHolds, ListenerHolds DEF ProcessIInv, OneOfEach
<1> QED BY <1>1, ProcessAlways, PTL

\* While a sentinel runs, its lock, its pid file and its record name it, whoever
\* retires, dies or starts around it (sentinel.AcquireLockRetiring, release).
THEOREM RecordsTrue == ProcessSpec => []RecordTrue
<1>1. ProcessIInv => RecordTrue
  BY SentinelHolds DEF ProcessIInv
<1> QED BY <1>1, ProcessAlways, PTL

\* Awaits signal only those whose session is gone or has a newer one, however many
\* start in the same instant (sentinel.RegisterAwaiter, sweepAwaiters).
THEOREM NewestStays == ProcessSpec => []NewestKept
<1>1. ProcessIInv => NewestKept
  BY AwaitHolds DEF ProcessIInv
<1> QED BY <1>1, ProcessAlways, PTL
=============================================================================
