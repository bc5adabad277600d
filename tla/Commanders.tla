----------------------------- MODULE Commanders -----------------------------
(***************************************************************************)
(* How the sentinel wakes an OpenCode commander (internal/commanderreg,    *)
(* internal/sentinel: injector.go, internal/cli: commander_register.go).   *)
(* Commands that a commander runs record its pane in the registry of the   *)
(* project.  For a project with wakes and no await, the sentinel finds the *)
(* pane, claims the wakes, and hands them to the pane's session through    *)
(* the OpenCode API; when that has been failing for a while it types them  *)
(* into the pane.  One action is one file access or one call.              *)
(***************************************************************************)
EXTENDS Naturals

CONSTANTS Pane,
          NoPane,
          Announcer,   \* the commands that register the commander that runs them
          Wake,        \* the wakes the sentinel records
          MaxMoves     \* bound: times a pane changes hands, or herdr fails

ASSUME CommanderAssumption == NoPane \notin Pane \cup Announcer /\ MaxMoves \in Nat

Kinds == {"claude", "opencode"}

VARIABLES pane,     \* each pane: the kind of its agent, where it works, whether it is busy,
                    \* whether it has a session
          registry, \* commanders.json: the pane registered for each kind
          last,     \* history: the pane of the last registration of each kind that was written
          registryLock, \* who holds commanders.lock
          reg,      \* each registration: where it is, the kind and pane, what it loaded
          queue,    \* the wakes that wait
          inj,      \* the sentinel's sweep: where it is, the pane, the wakes, the route
          failing,  \* since when delivery has failed: "no", "new", "old" (for fallbackAfter)
          awaiting, \* an await of the project is alive
          nested,   \* the project's directory holds vexillum's home, and so the camps
          moves,
          misled    \* history: a wake went to an agent that was not the commander's when
                    \* this sweep found the pane

commanderVars == <<pane, registry, last, registryLock, reg, queue, inj, failing, awaiting, nested, moves, misled>>
paneVars == <<pane, moves, awaiting, nested>>
regVars  == <<registry, last, registryLock, reg>>

NoAgent == [kind |-> "none", dir |-> "elsewhere", busy |-> FALSE, session |-> FALSE]
\* An OpenCode pane has a session once something was sent in it.
Agents == {NoAgent} \cup [kind : {"opencode"}, dir : {"project", "camp", "elsewhere"},
                          busy : {FALSE}, session : BOOLEAN]
NoReg == [at |-> "none", kind |-> "claude", pane |-> NoPane, seen |-> [k \in Kinds |-> NoPane]]
NoSweep == [at |-> "idle", pane |-> NoPane, held |-> {}, typed |-> FALSE, found |-> FALSE, same |-> TRUE]

CommandersInit ==
    /\ pane \in [Pane -> {NoAgent, [NoAgent EXCEPT !.kind = "claude", !.dir = "project"]}
                         \cup {a \in Agents : a.session /\ a.dir # "elsewhere"}]
    /\ registry = [k \in Kinds |-> NoPane] /\ last = [k \in Kinds |-> NoPane]
    /\ registryLock = NoPane /\ reg = [c \in Announcer |-> NoReg]
    /\ queue = {} /\ inj = NoSweep /\ failing = "no"
    /\ awaiting = FALSE /\ nested \in BOOLEAN /\ moves = 0 /\ misled = FALSE

-----------------------------------------------------------------------------
(* The registry.                                                            *)

\* Register asks herdr which agent runs in the pane it was typed in ...
Announce(c) ==
    /\ reg[c].at = "none"
    /\ \E p \in Pane : /\ pane[p].kind # "none"
                       /\ reg' = [reg EXCEPT ![c] = [NoReg EXCEPT !.at = "lock", !.pane = p, !.kind = pane[p].kind]]
    /\ UNCHANGED <<paneVars, registry, last, registryLock, queue, inj, failing, misled>>

\* ... takes the lock ...
\* (A change of the code: it does not.)
LockNothing(c) ==
    /\ reg[c].at = "lock"
    /\ reg' = [reg EXCEPT ![c].at = "load"]
    /\ UNCHANGED <<paneVars, registry, last, registryLock, queue, inj, failing, misled>>
LockRegistry(c) ==
    /\ reg[c].at = "lock" /\ registryLock = NoPane
    /\ registryLock' = c /\ reg' = [reg EXCEPT ![c].at = "load"]
    /\ UNCHANGED <<paneVars, registry, last, queue, inj, failing, misled>>

\* ... loads the registry, and replaces it with the entry of its kind set.
LoadRegistry(c) ==
    /\ reg[c].at = "load"
    /\ reg' = [reg EXCEPT ![c].at = "write", ![c].seen = registry]
    /\ UNCHANGED <<paneVars, registry, last, registryLock, queue, inj, failing, misled>>
WriteRegistry(c) ==
    /\ reg[c].at = "write"
    /\ registry' = [reg[c].seen EXCEPT ![reg[c].kind] = reg[c].pane]
    /\ last' = [last EXCEPT ![reg[c].kind] = reg[c].pane]
    /\ registryLock' = NoPane /\ reg' = [reg EXCEPT ![c] = [NoReg EXCEPT !.at = "done"]]
    /\ UNCHANGED <<paneVars, queue, inj, failing, misled>>
\* It is killed, or the file cannot be read or written; the lock is released.
RegistrationFails(c) ==
    /\ reg[c].at \in {"lock", "load", "write"}
    /\ registryLock' = IF registryLock = c THEN NoPane ELSE registryLock
    /\ reg' = [reg EXCEPT ![c] = [NoReg EXCEPT !.at = "done"]]
    /\ UNCHANGED <<paneVars, registry, last, queue, inj, failing, misled>>

\* The agent works in the project, or below it; in vexillum's home it is a soldier.
Inside(p)  == pane[p].dir = "project" \/ (nested /\ pane[p].dir = "camp")
Soldier(p) == pane[p].dir = "camp"
LiveAt(p)  == p # NoPane /\ pane[p].kind = "opencode" /\ Inside(p)

\* findByDir
\* (A change of the code: soldiers are found too.)
FoundByAnyDir(p) == LiveAt(p)
FoundByDir(p) == LiveAt(p) /\ ~Soldier(p)

-----------------------------------------------------------------------------
(* The sentinel's sweep of the project.                                     *)

\* problem: delivery is failing, since the first problem.
Problem(f) == IF f = "no" THEN "new" ELSE f
Leave(f)   == inj' = NoSweep /\ failing' = f

\* Wakes wait, the registry has an OpenCode commander, no await is alive.
Sweep ==
    /\ inj.at = "idle" /\ queue # {} /\ registry["opencode"] # NoPane /\ ~awaiting
    /\ inj' = [NoSweep EXCEPT !.at = "resolve"]
    /\ UNCHANGED <<paneVars, regVars, queue, failing, misled>>
NothingWaits ==
    /\ inj.at = "idle" /\ queue = {} /\ failing # "no"
    /\ Leave("no")
    /\ UNCHANGED <<paneVars, regVars, queue, misled>>

\* commanderreg.Resolve: the registered pane while its agent still works there,
\* else a pane found by directory; none is no problem, a herdr that fails is.
Resolve ==
    LET e == registry["opencode"] IN
    /\ inj.at = "resolve"
    /\ \/ LiveAt(e) /\ inj' = [inj EXCEPT !.at = "look", !.pane = e] /\ UNCHANGED failing
       \/ ~LiveAt(e) /\ \E p \in Pane : /\ FoundByDir(p)
                                        /\ inj' = [inj EXCEPT !.at = "look", !.pane = p, !.found = TRUE]
                                        /\ UNCHANGED failing
       \/ ~LiveAt(e) /\ ~(\E p \in Pane : FoundByDir(p)) /\ Leave("no")
    /\ UNCHANGED <<paneVars, regVars, queue, misled>>
HerdrFails ==
    /\ inj.at \in {"resolve", "look"} /\ moves < MaxMoves /\ moves' = moves + 1
    /\ Leave(Problem(failing))
    /\ UNCHANGED <<pane, awaiting, nested, regVars, queue, misled>>

\* The pane of a commander nothing was sent in yet has no session.
\* (A change of the code: no session, no delivery.)
ReachableInSession(p, typed) == pane[p].session
Reachable(p, typed) == typed \/ pane[p].session

\* AgentGet: the route is typing when the API has failed for long and the
\* commander is idle, else its session.
LookAtPane ==
    LET p == inj.pane
        typed == failing = "old" /\ ~pane[p].busy IN
    /\ inj.at = "look"
    /\ IF pane[p].kind # "none" /\ Reachable(p, typed)
       THEN inj' = [inj EXCEPT !.at = "claim", !.typed = typed] /\ UNCHANGED failing
       ELSE Leave(Problem(failing))
    /\ UNCHANGED <<paneVars, regVars, queue, misled>>

\* Claim: everything that waits, unless somebody was faster (see WakeQueue).
ClaimAll ==
    /\ inj.at = "claim"
    /\ IF queue = {} THEN Leave("no") ELSE inj' = [inj EXCEPT !.at = "deliver", !.held = queue] /\ UNCHANGED failing
    /\ queue' = {}
    /\ UNCHANGED <<paneVars, regVars, misled>>

\* The text reaches the agent of the pane.
Reaches == /\ pane' = [pane EXCEPT ![inj.pane].busy = TRUE, ![inj.pane].session = TRUE]
           /\ misled' = (misled \/ (inj.same /\ (~LiveAt(inj.pane) \/ (inj.found /\ Soldier(inj.pane)))))
\* Commit.  A text typed that is not seen to be taken is taken all the same.
Deliver ==
    /\ inj.at = "deliver" /\ pane[inj.pane].kind # "none"
    /\ inj.typed => ~pane[inj.pane].busy
    /\ Reaches /\ Leave("no")
    /\ UNCHANGED <<moves, awaiting, nested, regVars, queue>>
\* The API takes the text and its answer is lost, or (Release) the API refuses,
\* no service runs, the pane is gone or busy: the wakes are put back.
AnswerLost ==
    /\ inj.at = "deliver" /\ ~inj.typed /\ pane[inj.pane].kind # "none"
    /\ Reaches /\ Leave(Problem(failing)) /\ queue' = queue \cup inj.held
    /\ UNCHANGED <<moves, awaiting, nested, regVars>>
NotDelivered ==
    /\ inj.at = "deliver"
    /\ inj.typed => pane[inj.pane].busy \/ pane[inj.pane].kind = "none"
    /\ Leave(Problem(failing)) /\ queue' = queue \cup inj.held
    /\ UNCHANGED <<paneVars, regVars, misled>>
\* The sentinel is killed; its claim is put back by whoever lists the queue next.
InjectorDies ==
    /\ inj.at # "idle" /\ moves < MaxMoves /\ moves' = moves + 1
    /\ Leave("no") /\ queue' = queue \cup inj.held
    /\ UNCHANGED <<pane, awaiting, nested, regVars, misled>>
\* fallbackAfter has passed.
TimePasses ==
    /\ failing = "new" /\ failing' = "old"
    /\ UNCHANGED <<paneVars, regVars, queue, inj, misled>>

-----------------------------------------------------------------------------
(* The commander and its pane.                                              *)

RecordWake(w) ==
    /\ w \notin queue \cup inj.held /\ moves < MaxMoves /\ moves' = moves + 1
    /\ queue' = queue \cup {w}
    /\ UNCHANGED <<pane, awaiting, nested, regVars, inj, failing, misled>>
\* The agent of a pane exits, another starts there, the pane is reused.
PaneChanges(p) ==
    /\ moves < MaxMoves /\ moves' = moves + 1
    /\ \E a \in Agents \ {pane[p]} : pane' = [pane EXCEPT ![p] = a]
    /\ inj' = [inj EXCEPT !.same = @ /\ inj.pane # p]
    /\ UNCHANGED <<awaiting, nested, regVars, queue, failing, misled>>
EndsTurn(p) ==
    /\ pane[p].busy /\ pane' = [pane EXCEPT ![p].busy = FALSE]
    /\ UNCHANGED <<moves, awaiting, nested, regVars, queue, inj, failing, misled>>
\* A Claude Code commander listens: its await takes what waits, and comes back
\* with the next turn.
AwaitComes ==
    /\ ~awaiting /\ moves < MaxMoves /\ moves' = moves + 1
    /\ awaiting' = TRUE
    /\ UNCHANGED <<pane, nested, regVars, queue, inj, failing, misled>>
AwaitEnds ==
    /\ awaiting /\ awaiting' = FALSE /\ queue' = {}
    /\ UNCHANGED <<pane, moves, nested, regVars, inj, failing, misled>>

Registration(c) == LockRegistry(c) \/ LoadRegistry(c) \/ WriteRegistry(c)
Injecting == \/ Sweep \/ NothingWaits \/ Resolve \/ LookAtPane \/ ClaimAll
             \/ Deliver \/ AnswerLost \/ NotDelivered
CommandersNext ==
    \/ \E c \in Announcer : Announce(c) \/ Registration(c) \/ RegistrationFails(c)
    \/ Injecting \/ HerdrFails \/ InjectorDies \/ TimePasses
    \/ \E w \in Wake : RecordWake(w)
    \/ \E p \in Pane : PaneChanges(p) \/ EndsTurn(p)
    \/ AwaitComes \/ AwaitEnds
CommandersSpec == CommandersInit /\ [][CommandersNext]_commanderVars

-----------------------------------------------------------------------------
(* Properties *)

\* Two commanders that register at once do not lose each other's entry
\* (commanderreg.lock): the registry holds the last registration of each kind.
EntriesKept == registry = last

\* A wake goes to an OpenCode agent that worked in the project when the sweep
\* found its pane, not to whoever was given the pane of a commander that is gone;
\* an agent found by its directory is no soldier.
WakesTheCommander == ~misled

\* While an OpenCode commander stays in a pane the sentinel can find and ends its
\* turns, what waits is handed to it again and again until it is consumed,
\* whatever the API does: after fallbackAfter it is typed.  (An agent is busy here
\* from the moment a wake reached it until its turn ends.)
Present == \E p \in Pane : LiveAt(p) /\ ~Soldier(p)
Addressed == ~awaiting /\ registry["opencode"] # NoPane /\ Present
Consumed == queue = {} /\ inj.held = {}
WakeGetsThrough == <>[]Addressed => []<>(Consumed \/ \E p \in Pane : LiveAt(p) /\ pane[p].busy)
=============================================================================
