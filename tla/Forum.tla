-------------------------------- MODULE Forum --------------------------------
(* Forum feedback, from the browser to the commander.  The hub of the server *)
(* keeps one durable record per review session: prompts queued in the        *)
(* browser, sent (outbox), and handed out but not acknowledged (inflight).   *)
(* The listener polls it, writes each prompt to the project's inbox, rings a *)
(* forum wake, relays the round and only then acknowledges; an agent may     *)
(* poll a session itself.  Every process may stop between two steps.         *)
EXTENDS Naturals, FiniteSets

CONSTANTS Session,      \* review sessions (artifact files)
          Prompt,       \* prompts the human may write
          Agent,        \* agents that run `vx forum poll` themselves
          Listener,     \* the forum listener
          None,
          Event,        \* what may happen in this run
          MaxQueued,    \* maxQueuedPrompts
          MaxRead,      \* confirmed entries the inbox keeps per session
          MaxFailures   \* consecutive failures that end the listener

Caller == Agent \cup {Listener}

ASSUME ForumAssumption ==
    /\ Listener \notin Agent
    /\ None \notin Caller
    /\ None \notin Session
    /\ None \notin Prompt
    /\ MaxQueued \in Nat \ {0} /\ MaxRead \in Nat /\ MaxFailures \in Nat

VARIABLES
    rec,      \* session.json of each session, and what the hub holds of it
    call,     \* what each polling process is at
    unread,   \* the inbox: entries nobody confirmed
    read,     \* the inbox: confirmed entries kept
    bell,     \* sessions whose forum wake is pending
    drain,    \* the session whose wake the Stop hook's await has claimed
    seen,     \* history: prompts that were once an inbox entry or poll output
    untold    \* history: entries written since a wake last told of the session

inboxVars == <<unread, read>>
history == <<seen, untold>>
vars == <<rec, call, unread, read, bell, drain, seen, untold>>

--------------------------------------------------------------------------
(* The session record. *)

Blank == [st |-> "none", root |-> FALSE,
          queued |-> {}, outbox |-> {}, inflight |-> {}, lease |-> None,
          unanswered |-> FALSE, awaiting |-> FALSE, relayed |-> "no"]

\* `lease` is the caller that was handed InflightID last; `unanswered` is
\* Round > AnsweredThrough; `relayed` is "no" while RelayedAt is not set, then
\* whether RelayedRound is the latest round ("now") or an earlier one ("old").
Record == [st : {"none", "open", "ended"}, root : BOOLEAN,
           queued : SUBSET Prompt, outbox : SUBSET Prompt,
           inflight : SUBSET Prompt, lease : Caller \cup {None},
           unanswered : BOOLEAN, awaiting : BOOLEAN,
           relayed : {"no", "old", "now"}]

Undelivered(s) == rec[s].outbox \cup rec[s].inflight
Owed == UNION {Undelivered(s) : s \in Session}
Written == (UNION {rec[s].queued : s \in Session}) \cup Owed \cup seen

\* Hub.commit: the record is saved before the copy in memory is replaced.  A
\* server that stops in between comes back with the saved one.
Commit(s, r) == rec' = [rec EXCEPT ![s] = r]

\* `conn`: the server a process knows still runs.  `todo`: prompts of the
\* delivery it has yet to store or print.
RestCall == [at |-> "poll", conn |-> TRUE, sess |-> None, todo |-> {},
             cur |-> None, over |-> FALSE, fails |-> 0, relaying |-> {}]
Gone == [RestCall EXCEPT !.at = "gone"]

Init == /\ rec = [s \in Session |-> Blank]
        /\ call = [c \in Caller |-> Gone]
        /\ unread = [s \in Session |-> {}]
        /\ read = [s \in Session |-> {}]
        /\ bell = {}
        /\ drain = None
        /\ seen = {} /\ untold = {}

--------------------------------------------------------------------------
(* The browser and the commander, at the hub.  Which tabs are connected is   *)
(* left open: the human acts at any time, and a poll may find them all gone. *)

Quiet == UNCHANGED <<inboxVars, bell, drain, history>>
HubOnly == UNCHANGED call /\ Quiet

\* Hub.OpenFor by `vx forum <file>`, inside a project or not.  (A session
\* the user ended is reopened only with --reopen, which may be given.)
Open(s) ==
    /\ \E root \in BOOLEAN :
        /\ root \/ "outside" \in Event
        /\ Commit(s, [rec[s] EXCEPT !.st = "open", !.root = root \/ @])
    /\ HubOnly

Queue(s, p) ==
    /\ rec[s].st = "open"
    /\ p \notin Written
    /\ Cardinality(rec[s].queued) < MaxQueued
    /\ Commit(s, [rec[s] EXCEPT !.queued = @ \cup {p}])
    /\ HubOnly

RemoveQueued(s, p) ==
    /\ p \in rec[s].queued
    /\ rec[s].st = "open"
    /\ Commit(s, [rec[s] EXCEPT !.queued = @ \ {p}])
    /\ HubOnly

Sent(s, end) ==
    LET r == [rec[s] EXCEPT !.outbox = @ \cup rec[s].queued, !.queued = {}]
        feedback == IF rec[s].queued = {} THEN r
                    ELSE [r EXCEPT !.unanswered = TRUE, !.awaiting = TRUE,
                                   !.relayed = IF @ = "no" THEN "no" ELSE "old"]
    IN  IF end THEN [feedback EXCEPT !.st = "ended", !.awaiting = FALSE]
        ELSE feedback

Send(s, end) ==
    /\ rec[s].st = "open"
    /\ rec[s].queued # {} \/ end
    /\ end => "end" \in Event
    /\ Commit(s, Sent(s, end))
    /\ HubOnly

End(s) ==
    /\ "end" \in Event
    /\ rec[s].st = "open"
    /\ Commit(s, [rec[s] EXCEPT !.st = "ended", !.awaiting = FALSE])
    /\ HubOnly

StopWaiting(s) ==
    /\ "stop" \in Event
    /\ rec[s].awaiting \/ rec[s].relayed # "no"
    /\ Commit(s, [rec[s] EXCEPT !.awaiting = FALSE, !.relayed = "no"])
    /\ HubOnly

\* Hub.ReplyChecked: a reply answers the round in progress, as does, at the
\* next look of a tab (Hub.snapshotOf), an artifact that was changed since.
Answered(s) == [rec[s] EXCEPT !.awaiting = FALSE, !.relayed = "no", !.unanswered = FALSE]
Reply(s) ==
    /\ "answer" \in Event
    /\ rec[s].st = "open"
    /\ Commit(s, Answered(s))
    /\ HubOnly
NoticeEdit(s) ==
    /\ "answer" \in Event
    /\ rec[s].unanswered
    /\ Commit(s, Answered(s))
    /\ HubOnly

\* Hub.Relay, the handler: an ended or answered session is left alone.
RelayAnswered(s) == rec[s].st # "ended"  \* mutant: an answered round is relayed
RelayActive(s) == rec[s].st # "ended" /\ rec[s].unanswered
Relayed(s) == IF RelayActive(s) THEN [rec[s] EXCEPT !.relayed = "now"] ELSE rec[s]

\* The server stops or dies, and is started again by whoever needs it next.
\* Only what commit saved survives, and AwaitingSince does not (Hub.load).
Restart ==
    /\ "restart" \in Event
    /\ rec' = [s \in Session |-> [rec[s] EXCEPT !.awaiting = FALSE]]
    /\ call' = [c \in Caller |-> [call[c] EXCEPT !.conn = call[c].at = "gone"]]
    /\ Quiet

--------------------------------------------------------------------------
(* A polling process.  The answer to a request may be lost on its way.       *)

Step(c, at) == call' = [call EXCEPT ![c].at = at]
Rest(c) == IF c = Listener
             THEN [RestCall EXCEPT !.conn = call[c].conn, !.relaying = call[c].relaying]
             ELSE Gone

\* What a failure leaves: the listener gives up after MaxFailures in a row,
\* and looks for a server again (EnsureServer) unless this one answered.
AfterFailure(c) ==
    IF c # Listener THEN Gone
    ELSE IF call[c].fails < MaxFailures
           THEN [Rest(c) EXCEPT !.fails = call[c].fails + 1, !.conn = TRUE]
           ELSE Gone

\* forumlisten.Ensure, by `vx forum <file>` in a project.
StartListener ==
    /\ call[Listener].at = "gone"
    /\ \E s \in Session : rec[s].root
    /\ call' = [call EXCEPT ![Listener] = RestCall]
    /\ UNCHANGED rec /\ Quiet

\* Hub.beginPoll, for `vx forum poll`: an agent that polls with nothing to
\* deliver is done with the round.  A relay poll changes nothing here.
StartPoll(a, s) ==
    /\ "agent" \in Event
    /\ call[a].at = "gone"
    /\ rec[s].st # "none"
    /\ call' = [call EXCEPT ![a] = [RestCall EXCEPT !.sess = s]]
    /\ IF Undelivered(s) = {}
         THEN Commit(s, [rec[s] EXCEPT !.awaiting = FALSE, !.relayed = "no"])
         ELSE UNCHANGED rec
    /\ Quiet

CoversOpen(c) == IF c # Listener THEN {call[c].sess}  \* mutant: not the ended ones
                 ELSE {s \in Session : rec[s].root /\ rec[s].st = "open"}
\* adoptRecentSessions: what a poll finds on disk, though nothing has touched it
\* since the server started: open sessions, and those that still owe something.
Adopted(s) == rec[s].st = "open" \/ Undelivered(s) # {}
\* What a poll covers: one session, or for the listener every one with a project.
Covers(c) == IF c # Listener THEN {call[c].sess}
             ELSE {s \in Session : rec[s].root /\ Adopted(s)}
Waiting(c) == {s \in Covers(c) : Undelivered(s) # {}}

\* Hub.deliver: everything is leased to the caller, what was leased before too.
Leased(c, s) == [rec[s] EXCEPT !.inflight = Undelivered(s), !.outbox = {}, !.lease = c]
Deliver(c, s) ==
    /\ call[c].at = "poll" /\ call[c].conn
    /\ s \in Waiting(c)
    /\ Commit(s, Leased(c, s))
    /\ call' = [call EXCEPT ![c] =
                  [@ EXCEPT !.at = IF c = Listener THEN "store" ELSE "print",
                            !.sess = s, !.todo = Undelivered(s),
                            !.over = rec[s].st = "ended"]]
    /\ Quiet

\* The same, and the caller does not learn of it.
DeliverLost(c, s) ==
    /\ "lost" \in Event
    /\ call[c].at = "poll" /\ call[c].conn
    /\ s \in Waiting(c)
    /\ Commit(s, Leased(c, s))
    /\ call' = [call EXCEPT ![c] = AfterFailure(c)]
    /\ Quiet

\* The server of the poll is gone.
PollFails(c) ==
    /\ call[c].at = "poll" /\ ~call[c].conn
    /\ call' = [call EXCEPT ![c] = AfterFailure(c)]
    /\ UNCHANGED rec /\ Quiet

\* Nothing to deliver: a timeout, an ended session, every tab gone; and for
\* the listener nothing to cover, for which it lingers a while first.
PollEmpty(c) ==
    /\ call[c].at = "poll" /\ call[c].conn
    /\ Waiting(c) = {}
    /\ \/ call' = [call EXCEPT ![c] = Rest(c)]
       \/ /\ Covers(c) = {} \/ \A s \in Covers(c) : rec[s].st = "open"
          /\ call' = [call EXCEPT ![c] = Gone]
    /\ UNCHANGED rec /\ Quiet

Die(c) == /\ "die" \in Event
          /\ call[c].at # "gone"
          /\ call' = [call EXCEPT ![c] = Gone]
          /\ UNCHANGED rec /\ Quiet

\* Hub.Ack: only the latest delivery is confirmed.  A caller does not mind an
\* acknowledgement that fails.
AckedAny(c, s) == [rec[s] EXCEPT !.inflight = {}, !.lease = None]  \* mutant
Acked(c, s) == IF rec[s].lease = c
                 THEN [rec[s] EXCEPT !.inflight = {}, !.lease = None]
                 ELSE rec[s]
Ack(c) ==
    /\ call[c].at = "ack"
    /\ \/ call[c].conn /\ Commit(call[c].sess, Acked(c, call[c].sess))
       \/ /\ "lost" \in Event \/ ~call[c].conn
          /\ UNCHANGED rec
    /\ call' = [call EXCEPT ![c] = Rest(c)]
    /\ Quiet

\* An agent's poll writes what it got to its output.
Output(c) ==
    /\ call[c].at = "print"
    /\ seen' = seen \cup call[c].todo
    /\ untold' = untold \ call[c].todo
    /\ call' = [call EXCEPT ![c] = [@ EXCEPT !.at = "ack", !.todo = {}]]
    /\ UNCHANGED <<rec, inboxVars, bell, drain>>

--------------------------------------------------------------------------
(* The listener's handle: inbox, wake, relay, acknowledgement. *)

lsn == call[Listener]

\* inbox.Write looks for the confirmed entry first, and then writes.
Look(p) ==
    /\ lsn.at = "store" /\ p \in lsn.todo
    /\ call' = [call EXCEPT ![Listener] =
                  IF p \in read[lsn.sess] THEN [lsn EXCEPT !.todo = @ \ {p}]
                  ELSE [lsn EXCEPT !.at = "write", !.cur = p]]
    /\ UNCHANGED rec /\ Quiet

Write ==
    /\ lsn.at = "write"
    /\ unread' = [unread EXCEPT ![lsn.sess] = @ \cup {lsn.cur}]
    /\ seen' = seen \cup {lsn.cur}
    /\ untold' = untold \cup ({lsn.cur} \ (unread[lsn.sess] \cup seen))
    /\ call' = [call EXCEPT ![Listener] = [lsn EXCEPT !.at = "store", !.cur = None,
                                                      !.todo = @ \ {lsn.cur}]]
    /\ UNCHANGED <<rec, read, bell, drain>>

\* Every prompt is written: is anything unread, so that a wake is due?
Told == IF lsn.over THEN "ack" ELSE "relay"
CountUnread ==
    /\ lsn.at = "store" /\ lsn.todo = {}
    /\ Step(Listener, IF unread[lsn.sess] = {} THEN Told ELSE "ring")
    /\ UNCHANGED rec /\ Quiet

\* sentinel.RecordForumWake: one wake per session, whatever it already holds.
Ring ==
    /\ lsn.at = "ring"
    /\ bell' = bell \cup {lsn.sess}
    /\ Step(Listener, Told)
    /\ UNCHANGED <<rec, inboxVars, drain, history>>

StoreFails ==
    /\ "fail" \in Event
    /\ lsn.at \in {"store", "write", "ring"}
    /\ call' = [call EXCEPT ![Listener] = [AfterFailure(Listener) EXCEPT !.conn = lsn.conn]]
    /\ UNCHANGED rec /\ Quiet

\* The answer decides whether the round is refreshed later on; a relay that
\* fails is not tried again before that.
Refreshes(s) == IF RelayActive(s) THEN lsn.relaying \cup {s} ELSE lsn.relaying \ {s}
Relay ==
    /\ lsn.at = "relay"
    /\ \/ /\ lsn.conn
          /\ Commit(lsn.sess, Relayed(lsn.sess))
          /\ call' = [call EXCEPT ![Listener] = [@ EXCEPT !.at = "ack",
                                                   !.relaying = Refreshes(lsn.sess)]]
       \/ /\ "lost" \in Event \/ ~lsn.conn
          /\ UNCHANGED rec
          /\ Step(Listener, "ack")
    /\ Quiet

\* Every RefreshEvery, between two polls.
Refresh(s) ==
    /\ lsn.at = "poll" /\ lsn.conn /\ s \in lsn.relaying
    /\ Commit(s, Relayed(s))
    /\ call' = [call EXCEPT ![Listener].relaying = Refreshes(s)]
    /\ Quiet

--------------------------------------------------------------------------
(* The commander: the wake that is claimed and told, and the inbox.  One     *)
(* drain claims at a time; WakeQueue has the race for a file.                *)

QuietCall == UNCHANGED <<rec, call>>

ClaimBell(s) ==
    /\ drain = None /\ s \in bell
    /\ bell' = bell \ {s}
    /\ drain' = s
    /\ QuietCall /\ UNCHANGED <<inboxVars, history>>

\* A wake is news only while the session has unread entries; it says how many.
Tell ==
    /\ drain # None
    /\ untold' = untold \ unread[drain]
    /\ drain' = None
    /\ QuietCall /\ UNCHANGED <<inboxVars, bell, seen>>

ForgetClaim ==  \* mutant: a claim of a drain that failed is not put back
    /\ drain # None
    /\ drain' = None
    /\ QuietCall /\ UNCHANGED <<inboxVars, bell, history>>

\* A delivery that fails puts the wake back; a drain that dies leaves its
\* claim, which a later listing puts back.
TellFails ==
    /\ drain # None
    /\ ("fail" \in Event /\ unread[drain] # {}) \/ "die" \in Event
    /\ bell' = bell \cup {drain}
    /\ drain' = None
    /\ QuietCall /\ UNCHANGED <<inboxVars, history>>

\* `vx forum inbox --ack` of an entry `vx forum inbox` printed: an entry stays
\* unread until then.  inbox.MarkRead of one entry, and pruneRead: which of the confirmed entries
\* are the newest is left open.
Confirm(s, p) ==
    /\ p \in unread[s]
    /\ unread' = [unread EXCEPT ![s] = @ \ {p}]
    /\ \E kept \in SUBSET (read[s] \cup {p}) :
         /\ IF Cardinality(read[s] \cup {p}) <= MaxRead THEN kept = read[s] \cup {p}
            ELSE Cardinality(kept) = MaxRead
         /\ read' = [read EXCEPT ![s] = kept]
    /\ untold' = untold \ {p}
    /\ QuietCall /\ UNCHANGED <<bell, drain, seen>>

--------------------------------------------------------------------------

Human(s) == \/ \E p \in Prompt : Queue(s, p) \/ RemoveQueued(s, p)
            \/ \E end \in BOOLEAN : Send(s, end)
            \/ End(s) \/ StopWaiting(s) \/ NoticeEdit(s)

Polls(c) == \/ PollFails(c) \/ PollEmpty(c) \/ Die(c) \/ Ack(c)
            \/ \E s \in Session : Deliver(c, s) \/ DeliverLost(c, s)

Handles == \/ CountUnread \/ Write \/ Ring \/ StoreFails \/ Relay
           \/ \E p \in Prompt : Look(p)
           \/ \E s \in Session : Refresh(s)

Commander == \/ Tell \/ TellFails
             \/ \E s \in Session :
                  \/ Open(s) \/ Reply(s) \/ ClaimBell(s)
                  \/ \E p \in Prompt : Confirm(s, p)

Next == \/ \E s \in Session : Human(s)
        \/ \E c \in Caller : Polls(c)
        \/ \E a \in Agent : Output(a) \/ \E s \in Session : StartPoll(a, s)
        \/ StartListener \/ Handles
        \/ Restart
        \/ Commander

Spec == Init /\ [][Next]_vars

\* A listener that runs takes its steps, and so does an await: loops that wait
\* for nobody.  Nothing makes the human, an agent or the commander act.
Fairness ==
    /\ WF_vars(\E s \in Session : Deliver(Listener, s))
    /\ WF_vars(PollFails(Listener) \/ PollEmpty(Listener))
    /\ WF_vars(CountUnread \/ Write \/ Ring \/ \E p \in Prompt : Look(p))
    /\ WF_vars(Relay) /\ WF_vars(Ack(Listener))

FairSpec == Spec /\ Fairness

--------------------------------------------------------------------------
(* Properties. *)

CallType == [at : {"gone", "poll", "print", "store", "write", "ring", "relay", "ack"},
             conn : BOOLEAN, sess : Session \cup {None}, todo : SUBSET Prompt,
             cur : Prompt \cup {None}, over : BOOLEAN, fails : 0..MaxFailures,
             relaying : SUBSET Session]

\* The values the variables may take.
TypeOK ==
    /\ rec \in [Session -> Record]
    /\ call \in [Caller -> CallType]
    /\ unread \in [Session -> SUBSET Prompt]
    /\ read \in [Session -> SUBSET Prompt]
    /\ bell \in SUBSET Session
    /\ drain \in Session \cup {None}
    /\ seen \in SUBSET Prompt /\ untold \in SUBSET Prompt

\* A prompt the human sent stays owed, through restarts of the server, dead
\* listeners, lost answers and competing polls, until it is an inbox entry or
\* in the output of a poll (hub.go deliver and Ack, listen.go handle).
Mailbox == INSTANCE ForumMailbox WITH owed <- Owed, taken <- seen
MailboxSpec == Mailbox!MSpec

\* An entry of the inbox no wake told of has its wake on the way, or is still
\* leased, so that the redelivery rings: the listener rings before it
\* acknowledges, and a drain that drops a wake drops no news
\* (listen.go handle, forumwake.go claimForum).
BellRings ==
    \A s \in Session : \A p \in untold \cap unread[s] :
        \/ s \in bell \/ drain = s
        \/ p \in rec[s].inflight
BellsRing == TypeOK /\ BellRings

\* The review surface waits, and says that its round was relayed, only for a
\* round nobody answered, in an open session as to waiting: a late or repeated
\* relay never revives an answered round (hub.go Relay, ReplyChecked, Send).
WaitHonest ==
    \A s \in Session :
        /\ rec[s].awaiting => rec[s].st = "open" /\ rec[s].unanswered
        /\ rec[s].relayed # "no" => rec[s].unanswered

\* While a listener keeps running, what the human sent in a project's session
\* gets to an inbox or to an agent, whatever answers are lost and however often
\* the server restarts: MaxFailures in a row end it (listen.go Run).
SentGetsThrough ==
    \A s \in Session, p \in Prompt :
        [](p \in Undelivered(s) /\ rec[s].root /\ [](lsn.at # "gone") => <>(p \in seen))
=============================================================================
