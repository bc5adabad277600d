---------------------------- MODULE ListenerLife ----------------------------
(***************************************************************************)
(* The one forum listener of a home (internal/forumlisten: lock.go and the *)
(* life of Run in listen.go; internal/cli: forum.go): "vx forum <file>"    *)
(* opens a session and makes sure that a listener runs; a listener claims  *)
(* listener.pid by a hard link, polls, and exits by itself when nothing is *)
(* left to listen to.  What it does with what a poll delivers is Forum's.  *)
(***************************************************************************)
EXTENDS Naturals, FiniteSets

CONSTANTS Ear,        \* the processes a listener may run in
          Opener,     \* the runs of "vx forum <file>"
          NoEar,
          MaxHalts    \* bound: listeners stopped, killed, or without their server

ASSUME ListenerAssumption == NoEar \notin Ear /\ MaxHalts \in Nat

VARIABLES lat,       \* where each listener process is
          quiet,     \* those whose last poll found no session
          lpid,      \* the process listener.pid names
          review,    \* the sessions with a project: none, open, or with every window gone
          opener,    \* where each "vx forum <file>" is
          halts,
          owed,      \* history: a command was told of a listener that was not leaving
          lcrashed   \* history: a listener died without its clean-up

listenerVars == <<lat, quiet, lpid, review, opener, halts, owed, lcrashed>>

ListenerInit ==
    /\ lat = [p \in Ear |-> "gone"] /\ quiet = {} /\ lpid = NoEar
    /\ review = "none" /\ opener = [c \in Opener |-> [at |-> "new", spawned |-> 0]]
    /\ halts = 0 /\ owed = FALSE /\ lcrashed = FALSE

LMove(p, to) == lat' = [lat EXCEPT ![p] = to]
NobodyOpens  == UNCHANGED <<review, opener, halts, owed, lcrashed>>
\* verifiedListener: the process is there, and its command line is a listener's.
Verified(p)  == p \in Ear /\ lat[p] # "gone"
\* Running
Running == Verified(lpid)
\* The processes that hold, or believe they hold, the lock.
Holding == {p \in Ear : lat[p] \in {"poll", "leave"}}

-----------------------------------------------------------------------------
(* A listener.                                                              *)

\* claimLock: the link is made, or a lock is there already.
ClaimLock(p) ==
    /\ lat[p] = "claim"
    /\ IF lpid = NoEar THEN lpid' = p /\ LMove(p, "poll") ELSE LMove(p, "read") /\ UNCHANGED lpid
    /\ UNCHANGED quiet /\ NobodyOpens

\* AcquireLock, not claimed: the lock is gone, another listener's, or stale.
ReadLockPID(p) ==
    /\ lat[p] = "read"
    /\ LMove(p, IF lpid = NoEar THEN "claim" ELSE IF Running THEN "gone" ELSE "clear")
    /\ UNCHANGED <<quiet, lpid>> /\ NobodyOpens
\* It removes the lock it judged stale, whatever the file holds by now.
RemoveStale(p) ==
    /\ lat[p] = "clear" /\ lpid' = NoEar /\ LMove(p, "claim")
    /\ UNCHANGED quiet /\ NobodyOpens

\* Run: a poll answers that there is no session, twice a grace apart, or that
\* every window is gone: the listener leaves.  Any other answer starts the grace anew.
Polls(p) ==
    /\ lat[p] = "poll"
    /\ \/ review = "none" /\ quiet' = quiet \cup {p}
          /\ (UNCHANGED lat \/ (p \in quiet /\ LMove(p, "leave")))
       \/ review = "left" /\ LMove(p, "leave") /\ UNCHANGED quiet
       \/ review = "open" /\ quiet' = quiet \ {p} /\ UNCHANGED lat
    /\ UNCHANGED lpid /\ NobodyOpens

\* The deferred release, and the end of the process.
Releases(p) ==
    /\ lat[p] = "leave" /\ lpid' = NoEar /\ LMove(p, "gone") /\ quiet' = quiet \ {p}
    /\ NobodyOpens

\* "vx forum stop" signals the holder of the lock; or the server is lost for good.
Halts(p) ==
    /\ lat[p] = "poll" /\ halts < MaxHalts
    /\ LMove(p, "leave") /\ halts' = halts + 1 /\ owed' = FALSE
    /\ UNCHANGED <<quiet, lpid, review, opener, lcrashed>>
ListenerDies(p) ==
    /\ lat[p] # "gone" /\ halts < MaxHalts
    /\ LMove(p, "gone") /\ quiet' = quiet \ {p}
    /\ halts' = halts + 1 /\ owed' = FALSE /\ lcrashed' = TRUE
    /\ UNCHANGED <<lpid, review, opener>>

-----------------------------------------------------------------------------
(* "vx forum <file>", and the review.                                       *)
OpenerTo(c, to) == opener' = [opener EXCEPT ![c].at = to]

\* runForumOpen: the session, which a browser is opened on.
OpensSession(c) ==
    /\ opener[c].at = "new" /\ review' = "open" /\ OpenerTo(c, "ensure")
    /\ UNCHANGED <<lat, quiet, lpid, halts, owed, lcrashed>>

\* Ensure is satisfied by a listener that holds the lock ...
\* (A change of the code: by one it has started.)
TakenForRunning(c) == opener[c].spawned > 0 \/ Running
Satisfied(c) == Running
ToldRunning(c) ==
    /\ opener[c].at \in {"ensure", "await"} /\ Satisfied(c)
    /\ OpenerTo(c, "told")
    /\ owed' = (owed \/ (review = "open" /\ ~(Running /\ lat[lpid] = "leave")))
    /\ UNCHANGED <<lat, quiet, lpid, review, halts, lcrashed>>

\* ... else spawns one, and a second time when none holds it after a while.
SpawnsListener(c) ==
    /\ ~Satisfied(c)
    /\ \/ opener[c].at = "ensure" \/ (opener[c].at = "await" /\ opener[c].spawned < 2)
    /\ opener' = [opener EXCEPT ![c] = [at |-> "await", spawned |-> @.spawned + 1]]
    /\ \E p \in Ear : lat[p] = "gone" /\ p # lpid /\ LMove(p, "claim")
    /\ UNCHANGED <<quiet, lpid, review, halts, owed, lcrashed>>
GivesUpEnsure(c) ==
    /\ opener[c].at = "await" /\ ~Satisfied(c) /\ OpenerTo(c, "failed")
    /\ UNCHANGED <<lat, quiet, lpid, review, halts, owed, lcrashed>>

\* The last session ends ("vx forum end", or the user); the last window closes,
\* past the grace, and may be opened again.
EndsReview ==
    /\ review # "none" /\ review' = "none" /\ owed' = FALSE
    /\ UNCHANGED <<lat, quiet, lpid, opener, halts, lcrashed>>
WindowsGo ==
    /\ review = "open" /\ review' = "left" /\ owed' = FALSE
    /\ UNCHANGED <<lat, quiet, lpid, opener, halts, lcrashed>>
WindowReturns ==
    /\ review = "left" /\ review' = "open"
    /\ UNCHANGED <<lat, quiet, lpid, opener, halts, owed, lcrashed>>

ListenerNext ==
    \/ \E p \in Ear : \/ ClaimLock(p) \/ ReadLockPID(p) \/ RemoveStale(p) \/ Polls(p) \/ Releases(p)
                      \/ Halts(p) \/ ListenerDies(p)
    \/ \E c \in Opener : OpensSession(c) \/ ToldRunning(c) \/ SpawnsListener(c) \/ GivesUpEnsure(c)
    \/ EndsReview \/ WindowsGo \/ WindowReturns
ListenerSpec == ListenerInit /\ [][ListenerNext]_listenerVars

-----------------------------------------------------------------------------
(* Properties *)

\* At most one process listens (AcquireLock), until one dies without its
\* clean-up: then two that find its lock stale may.
OneListener == ~lcrashed => Cardinality(Holding) <= 1
\* A command that reports "listener: running" of a listener that was not on its
\* way out leaves one that goes on polling for as long as the review is open and
\* nobody stops it.
HeardOnceTold == owed => \E p \in Ear : lat[p] = "poll"
ListenerKept == OneListener /\ HeardOnceTold
=============================================================================
