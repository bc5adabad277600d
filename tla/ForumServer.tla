---------------------------- MODULE ForumServer ----------------------------
(***************************************************************************)
(* The one forum server of a home (internal/forum: lock.go, lifecycle.go): *)
(* a server claims server.pid by a hard link, publishes server.json, and   *)
(* serves until it is idle or stopped; a command that needs a server       *)
(* (EnsureServer) uses the one that runs, replaces an idle one of another  *)
(* build, or spawns one and waits for it.  Every step is one system call   *)
(* or one request.                                                         *)
(***************************************************************************)
EXTENDS Naturals, FiniteSets

CONSTANTS Server,       \* the processes a server may run in
          Asker,        \* the calls of EnsureServer
          Build,        \* the builds of the program that are about
          OtherTongue,  \* those of them that speak another protocol
          NoServer,
          ServerEvent,  \* what may happen besides (see ServerAssumption)
          MaxStops      \* bound: servers that stop by themselves, are stopped or die

ASSUME ServerAssumption ==
    /\ NoServer \notin Server /\ OtherTongue \subseteq Build /\ MaxStops \in Nat
    /\ ServerEvent \subseteq {"idle", "stop", "die", "mute"}

VARIABLES sat,      \* where each server process is
          sbuild,   \* its build
          inUse,    \* the serving processes with an open session, a tab or a poll
          slock,    \* the process server.pid names
          sfile,    \* the process server.json names
          ask,      \* where each call of EnsureServer is
          stops,    \* servers stopped so far
          crashed   \* history: a server died without its clean-up

serverVars == <<sat, sbuild, inUse, slock, sfile, ask, stops, crashed>>

Asks == [at : {"new", "judge", "stop", "wait", "spawn", "look", "got", "other", "failed"},
         build : Build, saw : Server \cup {NoServer}, first : BOOLEAN]

\* The processes that hold, or believe they hold, the lock.
Owners == {p \in Server : sat[p] \in {"bind", "serve", "stopping", "unlock"}}
Alive(p) == p \in Server /\ sat[p] # "gone"
SpeaksWith(b, c) == (b \in OtherTongue) <=> (c \in OtherTongue)

ServerInit ==
    /\ sat = [p \in Server |-> "gone"] /\ inUse = {}
    /\ sbuild = [p \in Server |-> CHOOSE b \in Build : TRUE]
    /\ slock = NoServer /\ sfile = NoServer /\ stops = 0 /\ crashed = FALSE
    /\ ask = [c \in Asker |-> [at |-> "new", saw |-> NoServer, first |-> TRUE,
                              build |-> CHOOSE b \in Build : TRUE]]

SMove(p, to) == sat' = [sat EXCEPT ![p] = to]

\* AcquireLock: the link is made, or a lock is there already.
Claim(p) ==
    /\ sat[p] = "claim"
    /\ IF slock = NoServer THEN slock' = p /\ SMove(p, "bind")
                           ELSE SMove(p, "read") /\ UNCHANGED slock
    /\ UNCHANGED <<sbuild, inUse, sfile, ask, stops, crashed>>

\* The loser reads the lock: gone meanwhile, a live server's, or stale.
ReadLock(p) ==
    /\ sat[p] = "read"
    /\ SMove(p, IF slock = NoServer THEN "claim" ELSE IF Alive(slock) THEN "gone" ELSE "clear")
    /\ UNCHANGED <<sbuild, inUse, slock, sfile, ask, stops, crashed>>

\* It removes the lock it judged stale, whatever the file holds by now.
ClearStale(p) ==
    /\ sat[p] = "clear" /\ slock' = NoServer /\ SMove(p, "claim")
    /\ UNCHANGED <<sbuild, inUse, sfile, ask, stops, crashed>>

\* Run binds a port, publishes itself and serves.
Publish(p) ==
    /\ sat[p] = "bind" /\ sfile' = p /\ SMove(p, "serve")
    /\ UNCHANGED <<sbuild, inUse, slock, ask, stops, crashed>>

\* Nobody was connected for IdleTimeout, or "vx forum stop" asked.
StopServing(p) ==
    /\ sat[p] = "serve" /\ stops < MaxStops
    /\ \/ "idle" \in ServerEvent /\ p \notin inUse
       \/ "stop" \in ServerEvent
    /\ SMove(p, "stopping") /\ inUse' = inUse \ {p} /\ stops' = stops + 1
    /\ UNCHANGED <<sbuild, slock, sfile, ask, crashed>>

\* The deferred clean-up of Run: server.json first, the lock last.
Unpublish(p) ==
    /\ sat[p] = "stopping" /\ sfile' = NoServer /\ SMove(p, "unlock")
    /\ UNCHANGED <<sbuild, inUse, slock, ask, stops, crashed>>
Unlock(p) ==
    /\ sat[p] = "unlock" /\ slock' = NoServer /\ SMove(p, "gone")
    /\ UNCHANGED <<sbuild, inUse, sfile, ask, stops, crashed>>

ServerDies(p) ==
    /\ "die" \in ServerEvent /\ stops < MaxStops /\ sat[p] # "gone"
    /\ SMove(p, "gone") /\ inUse' = inUse \ {p} /\ stops' = stops + 1
    /\ UNCHANGED <<sbuild, slock, sfile, ask>>
    /\ crashed' = TRUE

\* Somebody opens or closes the last of a server's sessions, tabs and polls.
ComeAndGo(p) ==
    /\ sat[p] = "serve" /\ inUse' = IF p \in inUse THEN inUse \ {p} ELSE inUse \cup {p}
    /\ UNCHANGED <<sat, sbuild, slock, sfile, ask, stops, crashed>>

-----------------------------------------------------------------------------
AskTo(c, to, p) == ask' = [ask EXCEPT ![c].at = to, ![c].saw = p]
\* discover: the process server.json names, when it answers its health check.
Found == {p \in Server : p = sfile /\ sat[p] = "serve"}
Usable(c, p) == IF SpeaksWith(sbuild[p], ask[c].build) THEN "got" ELSE "other"

\* attach, by a command of build b: nobody answers, a server of this build does,
\* or one of another.
Attach(c, b, none) ==
    /\ \E p \in Found \cup {NoServer} :
          /\ p = NoServer => Found = {}
          /\ ask' = [ask EXCEPT ![c].build = b, ![c].saw = p,
                               ![c].at = IF p = NoServer THEN none
                                         ELSE IF sbuild[p] = b THEN "got" ELSE "judge"]
    /\ UNCHANGED <<sat, sbuild, inUse, slock, sfile, stops, crashed>>
FirstAttach(c) == ask[c].at = "new" /\ \E b \in Build : Attach(c, b, "spawn")
Look(c) == ask[c].at = "look" /\ Attach(c, ask[c].build, "look")

\* (A change of the code: the loop of EnsureServer replaces servers too.)
ReplacesAgain(c, known, p) == known /\ p \notin inUse
\* The server's status: only an idle one is to be replaced, and only by the
\* first attach; one whose activity is not known counts as busy.
Replaces(c, known, p) == ask[c].first /\ known /\ p \notin inUse
Judge(c) ==
    /\ ask[c].at = "judge"
    /\ LET p == ask[c].saw IN
       \E known \in {sat[p] = "serve"} \cup (IF "mute" \in ServerEvent THEN {FALSE} ELSE {}) :
           AskTo(c, IF Replaces(c, known, p) THEN "stop" ELSE Usable(c, p), p)
    /\ UNCHANGED <<sat, sbuild, inUse, slock, sfile, stops, crashed>>

\* handleAgentStop with only_if_idle: the server judges again whether it is in use.
Refused(p) == p \in inUse
StopIfIdle(c) ==
    /\ ask[c].at = "stop"
    /\ LET p == ask[c].saw IN
       \/ sat[p] = "serve" /\ Refused(p) /\ AskTo(c, Usable(c, p), p) /\ UNCHANGED <<sat, inUse, crashed>>
       \/ sat[p] = "serve" /\ ~Refused(p) /\ AskTo(c, "wait", p) /\ SMove(p, "stopping")
          /\ inUse' = inUse \ {p}
       \/ sat[p] # "serve" /\ AskTo(c, "failed", p) /\ UNCHANGED <<sat, inUse, crashed>>
    /\ UNCHANGED <<sbuild, slock, sfile, stops, crashed>>

\* replaceStale waits until no live process is published: for five seconds,
\* which a server that shuts down never takes and one that serves outlasts.
AwaitGone(c) ==
    /\ ask[c].at = "wait"
    /\ \/ ~(sfile \in Server /\ Alive(sfile)) /\ AskTo(c, "spawn", NoServer)
       \/ Found # {} /\ AskTo(c, "failed", NoServer)
    /\ UNCHANGED <<sat, sbuild, inUse, slock, sfile, stops, crashed>>

\* A server process starts; one pid is never that of a lock left behind.
Spawn(c) ==
    /\ ask[c].at = "spawn" \/ (ask[c].at = "look" /\ Found = {})
    /\ \E p \in Server :
          /\ sat[p] = "gone" /\ p \notin {slock, sfile}
          /\ SMove(p, "claim") /\ sbuild' = [sbuild EXCEPT ![p] = ask[c].build]
    /\ ask' = [ask EXCEPT ![c].at = "look", ![c].saw = NoServer, ![c].first = FALSE]
    /\ UNCHANGED <<inUse, slock, sfile, stops, crashed>>

ServerStep(p) == Claim(p) \/ ReadLock(p) \/ ClearStale(p) \/ Publish(p) \/ Unpublish(p) \/ Unlock(p)
AskStep(c) == FirstAttach(c) \/ Judge(c) \/ StopIfIdle(c) \/ AwaitGone(c) \/ Look(c) \/ Spawn(c)
ServerNext == \/ \E p \in Server : ServerStep(p) \/ StopServing(p) \/ ServerDies(p) \/ ComeAndGo(p)
              \/ \E c \in Asker : AskStep(c)

-----------------------------------------------------------------------------
(* Properties *)

\* At most one process believes it is the server of the home (forum/lock.go:
\* AcquireLock), however many commands spawn servers and whichever stop, until a
\* server dies without its clean-up: then two that find its lock stale may.
OneUnlessCrashed == ~crashed => Cardinality(Owners) <= 1

\* Every command that needs a server ends up with one, or is told that the one
\* that runs cannot be used: two commands of different builds never keep
\* replacing each other's server (EnsureServer: the loop replaces nothing).
EveryoneServed == \A c \in Asker : <>(ask[c].at \in {"got", "other", "failed"})
=============================================================================
