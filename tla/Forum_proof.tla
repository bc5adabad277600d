----------------------------- MODULE Forum_proof -----------------------------
(***************************************************************************)
(* Proofs about Forum, for every set of sessions, prompts and agents and   *)
(* for everything that may happen: a prompt that was sent is owed until    *)
(* somebody has it, an entry nobody was told of has its wake on the way,   *)
(* and no late relay makes an answered round wait.                         *)
(***************************************************************************)
EXTENDS Forum, TLAPS

\* A process that was handed a delivery and is not done with it.
Handling == {"print", "store", "write", "ring", "relay", "ack"}
Has(c, s) == call[c].at \in Handling /\ call[c].sess = s

\* What each place of a process says of what it holds.
CallsNamed ==
    \A c \in Caller :
        /\ call[c].at \in Handling => call[c].sess \in Session
        /\ call[c].at = "write" => call[c].cur \in call[c].todo
        /\ call[c].at \in {"ring", "relay", "ack"} => call[c].todo = {}
        /\ call[c].at = "print" => c # Listener
        /\ call[c].at \in {"store", "write", "ring", "relay"} => c = Listener

TypeInv == TypeOK /\ CallsNamed

\* Prompt p is somewhere in session s.
At(p, s) == \/ p \in rec[s].queued \/ p \in rec[s].outbox \/ p \in rec[s].inflight
            \/ p \in unread[s] \/ p \in read[s]
            \/ \E c \in Caller : Has(c, s) /\ p \in call[c].todo

\* A prompt belongs to one session, and is queued, sent or handed out there.
OneSession == \A p \in Prompt : \A s, t \in Session : At(p, s) /\ At(p, t) => s = t
OnePlace ==
    \A s \in Session :
        /\ rec[s].queued \cap seen = {}
        /\ rec[s].queued \cap rec[s].outbox = {} /\ rec[s].queued \cap rec[s].inflight = {}
        /\ rec[s].outbox \cap rec[s].inflight = {}
        /\ unread[s] \subseteq seen /\ read[s] \subseteq seen
\* What a process has yet to store is leased still, or somebody else has stored it;
\* and what is leased to a process it has yet to store, or somebody has.
Handed ==
    \A s \in Session, c \in Caller : Has(c, s) =>
        /\ call[c].todo \subseteq seen \cup rec[s].inflight
        /\ rec[s].lease = c => rec[s].inflight \subseteq seen \cup call[c].todo

FlowInv == OneSession /\ OnePlace /\ Handed

\* News is an unread entry; what an agent printed is no news; and what the listener
\* has rung for rings until it is told.
NewsUnread == \A p \in untold : \E s \in Session : p \in unread[s]
PrintedTold ==
    \A s \in Session, a \in Agent : Has(a, s) /\ rec[s].lease = a =>
        /\ call[a].at = "print" => rec[s].inflight \subseteq call[a].todo
        /\ call[a].at = "ack" => rec[s].inflight \cap untold = {}
Rung == lsn.at \in {"relay", "ack"} =>
            \/ untold \cap unread[lsn.sess] = {}
            \/ lsn.sess \in bell \/ drain = lsn.sess

BellInv == NewsUnread /\ PrintedTold /\ Rung /\ BellRings

ForumIInv == TypeInv /\ FlowInv /\ BellInv /\ WaitHonest

-----------------------------------------------------------------------------
(* Types.                                                                   *)

LEMMA CallerSplit == Listener \in Caller /\ Agent \subseteq Caller /\ \A c \in Caller : c = Listener \/ c \in Agent
  BY DEF Caller

LEMMA RestTyped == RestCall \in CallType /\ Gone \in CallType
<1>1. RestCall \in CallType
  BY ForumAssumption DEF RestCall, CallType
<1> QED BY <1>1 DEF Gone, CallType

\* What a failure or the end of a delivery leaves a process with.
LEMMA LeftTyped ==
  ASSUME TypeOK, NEW c \in Caller
  PROVE  /\ Rest(c) \in CallType /\ Rest(c).at \in {"poll", "gone"}
         /\ AfterFailure(c) \in CallType /\ AfterFailure(c).at \in {"poll", "gone"}
<1>1. call[c] \in CallType
  BY DEF TypeOK
<1>2. RestCall.at = "poll" /\ Gone.at = "gone"
  BY DEF RestCall, Gone
<1>3. Rest(c) \in CallType /\ Rest(c).at \in {"poll", "gone"}
  BY <1>1, <1>2, RestTyped DEF Rest, CallType
<1>4. call[c].fails < MaxFailures => call[c].fails + 1 \in 0..MaxFailures
  BY <1>1, ForumAssumption DEF CallType
<1>5. CASE c = Listener /\ call[c].fails < MaxFailures
  BY <1>3, <1>4, <1>5 DEF AfterFailure, CallType
<1>6. CASE ~(c = Listener /\ call[c].fails < MaxFailures)
  BY <1>2, <1>3, <1>6, RestTyped DEF AfterFailure
<1> QED BY <1>3, <1>5, <1>6

\* The records the hub commits.
LEMMA CommitTyped ==
  ASSUME TypeOK, NEW s \in Session, NEW r \in Record, Commit(s, r)
  PROVE  /\ rec' \in [Session -> Record] /\ rec'[s] = r
         /\ \A t \in Session \ {s} : rec'[t] = rec[t]
  BY DEF TypeOK, Commit

LEMMA RecordsTyped ==
  ASSUME TypeOK, NEW s \in Session
  PROVE  /\ \A end \in BOOLEAN : Sent(s, end) \in Record
         /\ Answered(s) \in Record /\ Relayed(s) \in Record
         /\ \A c \in Caller : Leased(c, s) \in Record /\ Acked(c, s) \in Record
<1>1. rec[s] \in Record
  BY DEF TypeOK
<1>2. ASSUME NEW end \in BOOLEAN PROVE Sent(s, end) \in Record
  BY <1>1 DEF Sent, Record
<1>3. Answered(s) \in Record
  BY <1>1 DEF Answered, Record
<1>4. Relayed(s) \in Record
  BY <1>1 DEF Relayed, Record
<1>5. ASSUME NEW c \in Caller PROVE Leased(c, s) \in Record
  BY <1>1 DEF Leased, Undelivered, Record
<1>6. ASSUME NEW c \in Caller PROVE Acked(c, s) \in Record
  BY <1>1 DEF Acked, Record
<1> QED BY <1>2, <1>3, <1>4, <1>5, <1>6

\* The actions by what they do to a polling process: nothing but to the records ...
HubStep ==
    \E s \in Session :
        \/ Open(s) \/ End(s) \/ StopWaiting(s) \/ Reply(s) \/ NoticeEdit(s)
        \/ \E p \in Prompt : Queue(s, p) \/ RemoveQueued(s, p)
        \/ \E end \in BOOLEAN : Send(s, end)

LEMMA HubTyped ==
  ASSUME TypeOK, HubStep
  PROVE  /\ rec' \in [Session -> Record]
         /\ UNCHANGED <<call, unread, read, bell, drain, seen, untold>>
<1>1. PICK s \in Session :
        \/ Open(s) \/ End(s) \/ StopWaiting(s) \/ Reply(s) \/ NoticeEdit(s)
        \/ \E p \in Prompt : Queue(s, p) \/ RemoveQueued(s, p)
        \/ \E end \in BOOLEAN : Send(s, end)
  BY DEF HubStep
<1>2. HubOnly
  BY <1>1 DEF Open, End, StopWaiting, Reply, NoticeEdit, Queue, RemoveQueued, Send
<1>3. \E r \in Record : Commit(s, r)
  <2>1. rec[s] \in Record
    BY DEF TypeOK
  <2>2. CASE Open(s)
    <3>1. PICK root \in BOOLEAN : Commit(s, [rec[s] EXCEPT !.st = "open", !.root = root \/ @])
      BY <2>2 DEF Open
    <3>2. (root \/ rec[s].root) \in BOOLEAN
      OBVIOUS
    <3>3. [rec[s] EXCEPT !.st = "open", !.root = root \/ @] \in Record
      BY <2>1, <3>2 DEF Record
    <3> QED BY <3>1, <3>3
  <2>3. CASE End(s)
    <3>1. [rec[s] EXCEPT !.st = "ended", !.awaiting = FALSE] \in Record
      BY <2>1 DEF Record
    <3> QED BY <2>3, <3>1 DEF End
  <2>4. CASE StopWaiting(s)
    <3>1. [rec[s] EXCEPT !.awaiting = FALSE, !.relayed = "no"] \in Record
      BY <2>1 DEF Record
    <3> QED BY <2>4, <3>1 DEF StopWaiting
  <2>5. CASE Reply(s) \/ NoticeEdit(s)
    BY <2>5, RecordsTyped DEF Reply, NoticeEdit
  <2>6. ASSUME NEW p \in Prompt, Queue(s, p) \/ RemoveQueued(s, p)
        PROVE  \E r \in Record : Commit(s, r)
    <3>1. /\ [rec[s] EXCEPT !.queued = @ \cup {p}] \in Record
          /\ [rec[s] EXCEPT !.queued = @ \ {p}] \in Record
      BY <2>1 DEF Record
    <3> QED BY <2>6, <3>1 DEF Queue, RemoveQueued
  <2>7. ASSUME NEW end \in BOOLEAN, Send(s, end)
        PROVE  \E r \in Record : Commit(s, r)
    BY <2>7, RecordsTyped DEF Send
  <2> QED BY <1>1, <2>2, <2>3, <2>4, <2>5, <2>6, <2>7
<1> QED BY <1>2, <1>3, CommitTyped DEF HubOnly, Quiet, inboxVars, history

\* ... a process lets go of what it had ...
LetsGo ==
    \/ Restart \/ StartListener \/ StoreFails
    \/ \E c \in Caller : PollFails(c) \/ PollEmpty(c) \/ Die(c)
    \/ \E a \in Agent, s \in Session : StartPoll(a, s)
    \/ \E s \in Session : Refresh(s)

SameCall(c) == /\ call'[c].at = call[c].at /\ call'[c].sess = call[c].sess
               /\ call'[c].todo = call[c].todo /\ call'[c].cur = call[c].cur

\* In a session's record no prompt moves.
Settled == \A s \in Session : /\ rec'[s].queued = rec[s].queued /\ rec'[s].outbox = rec[s].outbox
                              /\ rec'[s].inflight = rec[s].inflight /\ rec'[s].lease = rec[s].lease

LEMMA LetsGoMoves ==
  ASSUME TypeOK, LetsGo
  PROVE  /\ rec' \in [Session -> Record] /\ call' \in [Caller -> CallType]
         /\ Settled
         /\ \A c \in Caller : call'[c].at \in {"poll", "gone"} \/ SameCall(c)
         /\ UNCHANGED <<unread, read, bell, drain, seen, untold>>
<1>t. rec \in [Session -> Record] /\ call \in [Caller -> CallType]
  BY DEF TypeOK
<1>1. CASE Restart
  <2>1. \A s \in Session : [rec[s] EXCEPT !.awaiting = FALSE] \in Record
    BY <1>t DEF Record
  <2>2. \A c \in Caller : [call[c] EXCEPT !.conn = call[c].at = "gone"] \in CallType
    BY <1>t DEF CallType
  <2>3. \A s \in Session : rec'[s] = [rec[s] EXCEPT !.awaiting = FALSE]
    BY <1>1 DEF Restart
  <2>4. \A c \in Caller : call'[c] = [call[c] EXCEPT !.conn = call[c].at = "gone"]
    BY <1>1 DEF Restart
  <2>5. Settled
    <3> SUFFICES ASSUME NEW s \in Session
                 PROVE  /\ rec'[s].queued = rec[s].queued /\ rec'[s].outbox = rec[s].outbox
                        /\ rec'[s].inflight = rec[s].inflight /\ rec'[s].lease = rec[s].lease
      BY DEF Settled
    <3>1. rec[s] \in Record /\ rec'[s] = [rec[s] EXCEPT !.awaiting = FALSE]
      BY <1>t, <2>3
    <3> QED BY <3>1 DEF Record
  <2>6. \A c \in Caller : SameCall(c)
    <3> SUFFICES ASSUME NEW c \in Caller PROVE SameCall(c)
      OBVIOUS
    <3>1. call[c] \in CallType /\ call'[c] = [call[c] EXCEPT !.conn = call[c].at = "gone"]
      BY <1>t, <2>4
    <3> QED BY <3>1 DEF SameCall, CallType
  <2> QED BY <1>1, <2>1, <2>2, <2>5, <2>6 DEF Restart, Quiet, inboxVars, history
<1>2. ASSUME NEW c \in Caller, NEW d \in CallType, d.at \in {"poll", "gone"},
             call' = [call EXCEPT ![c] = d]
      PROVE  /\ call' \in [Caller -> CallType]
             /\ \A x \in Caller : call'[x].at \in {"poll", "gone"} \/ SameCall(x)
  BY <1>t, <1>2 DEF SameCall
<1>3. UNCHANGED rec => Settled
  BY DEF Settled
<1>4. CASE StartListener
  BY <1>t, <1>2, <1>3, <1>4, RestTyped, CallerSplit
     DEF StartListener, Quiet, inboxVars, history, RestCall
<1>5. CASE StoreFails
  <2>1. /\ [AfterFailure(Listener) EXCEPT !.conn = lsn.conn] \in CallType
        /\ [AfterFailure(Listener) EXCEPT !.conn = lsn.conn].at \in {"poll", "gone"}
    BY <1>t, LeftTyped, CallerSplit DEF CallType, lsn
  <2> QED BY <1>t, <1>2, <1>3, <1>5, <2>1, CallerSplit DEF StoreFails, Quiet, inboxVars, history
<1>6. ASSUME NEW c \in Caller, PollFails(c) \/ PollEmpty(c) \/ Die(c)
      PROVE  /\ UNCHANGED rec /\ Quiet
             /\ \E d \in CallType : d.at \in {"poll", "gone"} /\ call' = [call EXCEPT ![c] = d]
  <2>1. Gone.at = "gone"
    BY DEF Gone, RestCall
  <2>2. /\ Rest(c) \in CallType /\ Rest(c).at \in {"poll", "gone"}
        /\ AfterFailure(c) \in CallType /\ AfterFailure(c).at \in {"poll", "gone"}
    BY LeftTyped
  <2> QED BY <1>6, <2>1, <2>2, RestTyped DEF PollFails, PollEmpty, Die
<1>7. ASSUME NEW a \in Agent, NEW s \in Session, StartPoll(a, s)
      PROVE  /\ rec' \in [Session -> Record] /\ Settled /\ Quiet
             /\ \E d \in CallType : d.at \in {"poll", "gone"} /\ call' = [call EXCEPT ![a] = d]
  <2>1. [RestCall EXCEPT !.sess = s] \in CallType /\ [RestCall EXCEPT !.sess = s].at = "poll"
    BY RestTyped DEF CallType, RestCall
  <2>2. rec[s] \in Record /\ [rec[s] EXCEPT !.awaiting = FALSE, !.relayed = "no"] \in Record
    BY <1>t DEF Record
  <2>3. rec' \in [Session -> Record] /\ Settled
    <3>1. CASE UNCHANGED rec
      BY <1>t, <1>3, <3>1
    <3>2. CASE Commit(s, [rec[s] EXCEPT !.awaiting = FALSE, !.relayed = "no"])
      BY <1>t, <2>2, <3>2 DEF Commit, Settled, Record
    <3> QED BY <1>7, <3>1, <3>2 DEF StartPoll
  <2> QED BY <1>7, <2>1, <2>3 DEF StartPoll
<1>8. ASSUME NEW s \in Session, Refresh(s)
      PROVE  /\ rec' \in [Session -> Record] /\ Settled /\ Quiet
             /\ call' \in [Caller -> CallType] /\ \A c \in Caller : SameCall(c)
  <2>1. call' = [call EXCEPT ![Listener].relaying = Refreshes(s)] /\ Refreshes(s) \subseteq Session
    BY <1>t, <1>8, CallerSplit DEF Refresh, Refreshes, lsn, CallType
  <2>2. Commit(s, Relayed(s)) /\ Relayed(s) \in Record
    BY <1>8, RecordsTyped DEF Refresh
  <2>3. rec' \in [Session -> Record] /\ Settled
    BY <1>t, <2>2 DEF Commit, Settled, Relayed, Record
  <2>4. [call[Listener] EXCEPT !.relaying = Refreshes(s)] \in CallType
    BY <1>t, <2>1, CallerSplit DEF CallType
  <2>5. call' = [call EXCEPT ![Listener] = [call[Listener] EXCEPT !.relaying = Refreshes(s)]]
    BY <1>t, <2>1, CallerSplit
  <2>6. call' \in [Caller -> CallType] /\ \A c \in Caller : SameCall(c)
    BY <1>t, <2>4, <2>5, CallerSplit DEF SameCall, CallType
  <2> QED BY <1>8, <2>3, <2>6 DEF Refresh
<1> QED
  BY <1>t, <1>1, <1>2, <1>3, <1>4, <1>5, <1>6, <1>7, <1>8, CallerSplit DEF LetsGo, Quiet, inboxVars, history

-----------------------------------------------------------------------------
(* Steps in which no prompt moves.                                          *)

Inv == TypeInv /\ FlowInv /\ BellInv
StoresSame == UNCHANGED <<unread, read, bell, drain, seen, untold>>

LEMMA TypeKept ==
  ASSUME TypeOK, rec' \in [Session -> Record], call' \in [Caller -> CallType], StoresSame
  PROVE  TypeOK'
  BY DEF TypeOK, StoresSame

\* Prompts that are nowhere new stay with their session.
LEMMA StaysInSession ==
  ASSUME OneSession, \A p \in Prompt : \A s \in Session : At(p, s)' => At(p, s)
  PROVE  OneSession'
  BY DEF OneSession

LEMMA FrameKeeps ==
  ASSUME Inv, rec' \in [Session -> Record], call' \in [Caller -> CallType], Settled,
         \A c \in Caller : call'[c].at \in {"poll", "gone"} \/ SameCall(c), StoresSame
  PROVE  Inv'
<1>0. ASSUME NEW c \in Caller, NEW s \in Session, Has(c, s)'
      PROVE  Has(c, s) /\ SameCall(c)
  BY <1>0 DEF Has, Handling, SameCall
<1>1. TypeInv'
  <2>1. TypeOK'
    BY TypeKept DEF Inv, TypeInv
  <2>2. CallsNamed'
    BY DEF Inv, TypeInv, CallsNamed, SameCall, Handling
  <2> QED BY <2>1, <2>2 DEF TypeInv
<1>2. FlowInv'
  <2>1. OneSession'
    <3>1. ASSUME NEW p \in Prompt, NEW s \in Session, At(p, s)' PROVE At(p, s)
      BY <1>0, <3>1 DEF At, Settled, StoresSame, SameCall
    <3> QED BY <3>1, StaysInSession DEF Inv, FlowInv
  <2>2. OnePlace'
    BY DEF Inv, FlowInv, OnePlace, Settled, StoresSame
  <2>3. Handed'
    <3> SUFFICES ASSUME NEW s \in Session, NEW c \in Caller, Has(c, s)'
                 PROVE  /\ call'[c].todo \subseteq seen' \cup rec'[s].inflight
                        /\ rec'[s].lease = c => rec'[s].inflight \subseteq seen' \cup call'[c].todo
      BY DEF Handed
    <3> QED BY <1>0 DEF Inv, FlowInv, Handed, Settled, StoresSame, SameCall
  <2> QED BY <2>1, <2>2, <2>3 DEF FlowInv
<1>3. BellInv'
  <2>1. NewsUnread'
    BY DEF Inv, BellInv, NewsUnread, StoresSame
  <2>2. PrintedTold'
    <3> SUFFICES ASSUME NEW s \in Session, NEW a \in Agent, Has(a, s)', rec'[s].lease = a
                 PROVE  /\ call'[a].at = "print" => rec'[s].inflight \subseteq call'[a].todo
                        /\ call'[a].at = "ack" => rec'[s].inflight \cap untold' = {}
      BY DEF PrintedTold
    <3> QED BY <1>0, CallerSplit DEF Inv, BellInv, PrintedTold, Settled, StoresSame, SameCall
  <2>3. Rung'
    BY CallerSplit DEF Inv, BellInv, Rung, StoresSame, SameCall, lsn
  <2>4. BellRings'
    BY DEF Inv, BellInv, BellRings, Settled, StoresSame
  <2> QED BY <2>1, <2>2, <2>3, <2>4 DEF BellInv
<1> QED BY <1>1, <1>2, <1>3 DEF Inv

LEMMA LetsGoKeeps == ASSUME Inv, LetsGo PROVE Inv'
  BY LetsGoMoves, FrameKeeps DEF Inv, TypeInv, StoresSame

\* The human and the commander, at the hub.
LEMMA HubKeeps == ASSUME Inv, HubStep PROVE Inv'
<1>t. TypeOK /\ rec \in [Session -> Record] /\ call \in [Caller -> CallType]
  BY DEF Inv, TypeInv, TypeOK
<1>1. /\ rec' \in [Session -> Record] /\ call' = call /\ StoresSame
      /\ unread' = unread /\ read' = read /\ seen' = seen
  BY <1>t, HubTyped DEF StoresSame
<1>2. Settled => Inv'
  <2>1. \A c \in Caller : SameCall(c)
    BY <1>1 DEF SameCall
  <2> QED BY <1>t, <1>1, <2>1, FrameKeeps
<1>c. TypeInv'
  BY <1>t, <1>1, TypeKept DEF Inv, TypeInv, CallsNamed, StoresSame
<1>h. \A c \in Caller, s \in Session : Has(c, s)' <=> Has(c, s)
  BY <1>1 DEF Has
<1>3. PICK s \in Session :
        \/ Open(s) \/ End(s) \/ StopWaiting(s) \/ Reply(s) \/ NoticeEdit(s)
        \/ \E p \in Prompt : Queue(s, p) \/ RemoveQueued(s, p)
        \/ \E end \in BOOLEAN : Send(s, end)
  BY DEF HubStep
<1>r. rec[s] \in Record
  BY <1>t
\* What the bells depend on does not change.
<1>b. ASSUME \A t \in Session : rec'[t].inflight = rec[t].inflight /\ rec'[t].lease = rec[t].lease
      PROVE  BellInv' /\ Handed'
  <2>1. NewsUnread' /\ Rung'
    BY <1>1 DEF Inv, BellInv, NewsUnread, Rung, lsn, StoresSame
  <2>2. PrintedTold'
    BY <1>1, <1>b, <1>h, CallerSplit DEF Inv, BellInv, PrintedTold, StoresSame
  <2>3. BellRings'
    BY <1>1, <1>b DEF Inv, BellInv, BellRings, StoresSame
  <2>4. Handed'
    BY <1>1, <1>b, <1>h DEF Inv, FlowInv, Handed
  <2> QED BY <2>1, <2>2, <2>3, <2>4 DEF BellInv
<1>4. CASE Open(s) \/ End(s) \/ StopWaiting(s) \/ Reply(s) \/ NoticeEdit(s)
  <2> DEFINE Alike(r) == /\ r.queued = rec[s].queued /\ r.outbox = rec[s].outbox
                         /\ r.inflight = rec[s].inflight /\ r.lease = rec[s].lease
  <2>0. ASSUME NEW r, Commit(s, r), Alike(r) PROVE Settled
    BY <1>t, <2>0 DEF Commit, Settled
  <2>1. ASSUME NEW root PROVE Alike([rec[s] EXCEPT !.st = "open", !.root = root])
    BY <1>r DEF Record
  <2>3. /\ Alike([rec[s] EXCEPT !.st = "ended", !.awaiting = FALSE])
        /\ Alike([rec[s] EXCEPT !.awaiting = FALSE, !.relayed = "no"])
        /\ Alike(Answered(s))
    BY <1>r DEF Record, Answered
  <2>4. Open(s) => \E r : Commit(s, r) /\ Alike(r)
    BY <2>1 DEF Open
  <2>5. End(s) \/ StopWaiting(s) \/ Reply(s) \/ NoticeEdit(s) => \E r : Commit(s, r) /\ Alike(r)
    BY <2>3 DEF End, StopWaiting, Reply, NoticeEdit
  <2>2. Settled
    BY <1>4, <2>0, <2>4, <2>5
  <2> QED BY <1>2, <2>2
<1>5. ASSUME NEW p \in Prompt, Queue(s, p) PROVE Inv'
  <2>1. /\ rec'[s].queued = rec[s].queued \cup {p} /\ rec'[s].outbox = rec[s].outbox
        /\ rec'[s].inflight = rec[s].inflight /\ rec'[s].lease = rec[s].lease
        /\ \A t \in Session \ {s} : rec'[t] = rec[t]
    BY <1>t, <1>r, <1>5 DEF Queue, Commit, Record
  <2>2. ~ \E t \in Session : At(p, t)
    <3>1. p \notin seen /\ \A t \in Session : /\ p \notin rec[t].queued
                                             /\ p \notin rec[t].outbox \cup rec[t].inflight
      BY <1>5 DEF Queue, Written, Owed, Undelivered
    <3>2. \A t \in Session : p \notin unread[t] \cup read[t]
      BY <3>1 DEF Inv, FlowInv, OnePlace
    <3>3. \A c \in Caller, t \in Session : Has(c, t) => p \notin call[c].todo
      BY <3>1 DEF Inv, FlowInv, Handed
    <3> QED BY <3>1, <3>2, <3>3 DEF At
  <2>3. \A q \in Prompt, t \in Session : At(q, t)' => At(q, t) \/ (q = p /\ t = s)
    BY <1>1, <1>h, <2>1 DEF At
  <2>4. OneSession'
    BY <2>2, <2>3 DEF Inv, FlowInv, OneSession
  <2>5. OnePlace'
    <3>1. p \notin seen
      BY <1>5 DEF Queue, Written
    <3> QED BY <1>1, <2>1, <2>2, <3>1 DEF Inv, FlowInv, OnePlace, At
  <2> QED BY <1>b, <1>c, <2>1, <2>4, <2>5 DEF Inv, FlowInv
<1>6. ASSUME NEW p \in Prompt, RemoveQueued(s, p) PROVE Inv'
  <2>1. /\ rec'[s].queued = rec[s].queued \ {p} /\ rec'[s].outbox = rec[s].outbox
        /\ rec'[s].inflight = rec[s].inflight /\ rec'[s].lease = rec[s].lease
        /\ \A t \in Session \ {s} : rec'[t] = rec[t]
    BY <1>t, <1>r, <1>6 DEF RemoveQueued, Commit, Record
  <2>2. \A q \in Prompt, t \in Session : At(q, t)' => At(q, t)
    BY <1>1, <1>h, <2>1 DEF At
  <2>3. OneSession'
    BY <2>2, StaysInSession DEF Inv, FlowInv
  <2>4. OnePlace'
    BY <1>1, <2>1 DEF Inv, FlowInv, OnePlace
  <2> QED BY <1>b, <1>c, <2>1, <2>3, <2>4 DEF Inv, FlowInv
<1>7. ASSUME NEW end \in BOOLEAN, Send(s, end) PROVE Inv'
  <2>1. /\ rec'[s].queued = {} /\ rec'[s].outbox = rec[s].outbox \cup rec[s].queued
        /\ rec'[s].inflight = rec[s].inflight /\ rec'[s].lease = rec[s].lease
        /\ \A t \in Session \ {s} : rec'[t] = rec[t]
    BY <1>t, <1>r, <1>7 DEF Send, Sent, Commit, Record
  <2>2. \A q \in Prompt, t \in Session : At(q, t)' => At(q, t)
    BY <1>1, <1>h, <2>1 DEF At
  <2>3. OneSession'
    BY <2>2, StaysInSession DEF Inv, FlowInv
  <2>4. OnePlace'
    BY <1>1, <2>1 DEF Inv, FlowInv, OnePlace
  <2> QED BY <1>b, <1>c, <2>1, <2>3, <2>4 DEF Inv, FlowInv
<1> QED BY <1>3, <1>4, <1>5, <1>6, <1>7

-----------------------------------------------------------------------------
(* A delivery is handed out, and acknowledged.                              *)

\* The record of s after everything it owes was leased to c.
LeasedTo(c, s) ==
    /\ rec' \in [Session -> Record]
    /\ rec'[s].queued = rec[s].queued /\ rec'[s].outbox = {}
    /\ rec'[s].inflight = Undelivered(s) /\ rec'[s].lease = c
    /\ \A t \in Session \ {s} : rec'[t] = rec[t]

LEMMA LeasedMoves ==
  ASSUME TypeOK, NEW c \in Caller, NEW s \in Session, Commit(s, Leased(c, s))
  PROVE  LeasedTo(c, s)
<1>1. rec[s] \in Record /\ Leased(c, s) \in Record
  BY RecordsTyped DEF TypeOK
<1>2. /\ Leased(c, s).queued = rec[s].queued /\ Leased(c, s).outbox = {}
      /\ Leased(c, s).inflight = Undelivered(s) /\ Leased(c, s).lease = c
  BY <1>1 DEF Leased, Record
<1> QED BY <1>1, <1>2, CommitTyped DEF LeasedTo

LEMMA DeliverKeeps ==
  ASSUME Inv, NEW c \in Caller, NEW s \in Session, LeasedTo(c, s), StoresSame,
         call' \in [Caller -> CallType],
         \A x \in Caller \ {c} : call'[x] = call[x],
         \/ call'[c].at \in {"poll", "gone"}
         \/ /\ call'[c].at = IF c = Listener THEN "store" ELSE "print"
            /\ call'[c].sess = s /\ call'[c].todo = Undelivered(s)
  PROVE  Inv'
<1>1. Undelivered(s) = rec[s].outbox \cup rec[s].inflight
  BY DEF Undelivered
<1>0. ASSUME NEW x \in Caller, NEW t \in Session, Has(x, t)'
      PROVE  \/ x = c /\ t = s /\ call'[c].todo = Undelivered(s)
                /\ call'[c].at = IF c = Listener THEN "store" ELSE "print"
             \/ x # c /\ Has(x, t) /\ call'[x] = call[x]
  BY <1>0 DEF Has, Handling
<1>2. TypeInv'
  <2>1. TypeOK'
    BY TypeKept DEF Inv, TypeInv, LeasedTo
  <2>2. CallsNamed'
    BY DEF Inv, TypeInv, CallsNamed, Handling
  <2> QED BY <2>1, <2>2 DEF TypeInv
<1>3. FlowInv'
  <2>1. OneSession'
    <3>1. ASSUME NEW p \in Prompt, NEW t \in Session, At(p, t)' PROVE At(p, t)
      BY <1>0, <1>1, <3>1 DEF At, LeasedTo, StoresSame
    <3> QED BY <3>1, StaysInSession DEF Inv, FlowInv
  <2>2. OnePlace'
    BY <1>1 DEF Inv, FlowInv, OnePlace, LeasedTo, StoresSame
  <2>3. Handed'
    <3> SUFFICES ASSUME NEW t \in Session, NEW x \in Caller, Has(x, t)'
                 PROVE  /\ call'[x].todo \subseteq seen' \cup rec'[t].inflight
                        /\ rec'[t].lease = x => rec'[t].inflight \subseteq seen' \cup call'[x].todo
      BY DEF Handed
    <3> QED BY <1>0, <1>1 DEF Inv, FlowInv, Handed, LeasedTo, StoresSame
  <2> QED BY <2>1, <2>2, <2>3 DEF FlowInv
<1>4. BellInv'
  <2>1. NewsUnread'
    BY DEF Inv, BellInv, NewsUnread, StoresSame
  <2>2. PrintedTold'
    <3> SUFFICES ASSUME NEW t \in Session, NEW a \in Agent, Has(a, t)', rec'[t].lease = a
                 PROVE  /\ call'[a].at = "print" => rec'[t].inflight \subseteq call'[a].todo
                        /\ call'[a].at = "ack" => rec'[t].inflight \cap untold' = {}
      BY DEF PrintedTold
    <3> QED BY <1>0, CallerSplit DEF Inv, BellInv, PrintedTold, LeasedTo, StoresSame
  <2>3. Rung'
    BY CallerSplit DEF Inv, BellInv, Rung, StoresSame, lsn
  <2>4. BellRings'
    BY <1>1 DEF Inv, BellInv, BellRings, LeasedTo, StoresSame
  <2> QED BY <2>1, <2>2, <2>3, <2>4 DEF BellInv
<1> QED BY <1>2, <1>3, <1>4 DEF Inv

LEMMA DeliversKeeps ==
  ASSUME Inv, NEW c \in Caller, NEW s \in Session, Deliver(c, s) \/ DeliverLost(c, s)
  PROVE  Inv' /\ LeasedTo(c, s) /\ UNCHANGED seen
<1>t. TypeOK /\ call \in [Caller -> CallType] /\ rec[s] \in Record
  BY DEF Inv, TypeInv, TypeOK
<1>1. Commit(s, Leased(c, s)) /\ StoresSame /\ UNCHANGED seen
  BY DEF Deliver, DeliverLost, Quiet, StoresSame, inboxVars, history
<1>2. LeasedTo(c, s)
  BY <1>t, <1>1, LeasedMoves
<1>3. Undelivered(s) \subseteq Prompt
  BY <1>t DEF Undelivered, Record
<1>4. CASE Deliver(c, s)
  <2> DEFINE d == [call[c] EXCEPT !.at = IF c = Listener THEN "store" ELSE "print",
                                  !.sess = s, !.todo = Undelivered(s),
                                  !.over = rec[s].st = "ended"]
  <2>1. call' = [call EXCEPT ![c] = d]
    BY <1>4 DEF Deliver
  <2>2. /\ d \in CallType /\ d.at = IF c = Listener THEN "store" ELSE "print"
        /\ d.sess = s /\ d.todo = Undelivered(s)
    BY <1>t, <1>3 DEF CallType
  <2> QED BY <1>t, <1>1, <1>2, <2>1, <2>2, DeliverKeeps
<1>5. CASE DeliverLost(c, s)
  <2>1. /\ call' \in [Caller -> CallType] /\ call'[c].at \in {"poll", "gone"}
        /\ \A x \in Caller \ {c} : call'[x] = call[x]
    BY <1>t, <1>5, LeftTyped DEF DeliverLost
  <2> QED BY <1>1, <1>2, <2>1, DeliverKeeps
<1> QED BY <1>1, <1>2, <1>4, <1>5

\* The record of s after c's latest delivery was acknowledged.
AckedTo(c, s) ==
    /\ rec' \in [Session -> Record]
    /\ rec[s].lease = c
    /\ rec'[s].queued = rec[s].queued /\ rec'[s].outbox = rec[s].outbox
    /\ rec'[s].inflight = {} /\ rec'[s].lease = None
    /\ \A t \in Session \ {s} : rec'[t] = rec[t]

LEMMA AckMoves ==
  ASSUME Inv, NEW c \in Caller, Ack(c)
  PROVE  /\ call[c].sess \in Session /\ Has(c, call[c].sess) /\ call[c].todo = {}
         /\ (Settled /\ rec' \in [Session -> Record]) \/ AckedTo(c, call[c].sess)
         /\ call' \in [Caller -> CallType] /\ call'[c].at \in {"poll", "gone"}
         /\ \A x \in Caller \ {c} : call'[x] = call[x]
         /\ StoresSame /\ UNCHANGED seen
<1>t. TypeOK /\ rec \in [Session -> Record] /\ call \in [Caller -> CallType]
  BY DEF Inv, TypeInv, TypeOK
<1> DEFINE s == call[c].sess
<1>1. s \in Session /\ Has(c, s) /\ call[c].todo = {}
  BY DEF Inv, TypeInv, CallsNamed, Ack, Has, Handling
<1>2. StoresSame /\ UNCHANGED seen
  BY DEF Ack, Quiet, StoresSame, inboxVars, history
<1>3. /\ call' \in [Caller -> CallType] /\ call'[c].at \in {"poll", "gone"}
      /\ \A x \in Caller \ {c} : call'[x] = call[x]
  BY <1>t, LeftTyped DEF Ack
<1>4. (Settled /\ rec' \in [Session -> Record]) \/ AckedTo(c, s)
  <2>1. UNCHANGED rec \/ Commit(s, Acked(c, s))
    BY DEF Ack
  <2>2. CASE UNCHANGED rec
    BY <1>t, <2>2 DEF Settled
  <2>3. CASE Commit(s, Acked(c, s)) /\ rec[s].lease # c
    BY <1>t, <1>1, <2>3 DEF Commit, Acked, Settled
  <2>4. CASE Commit(s, Acked(c, s)) /\ rec[s].lease = c
    <3> HIDE DEF s
    <3>1. Acked(c, s) = [rec[s] EXCEPT !.inflight = {}, !.lease = None]
      BY <2>4 DEF Acked
    <3>2. /\ Acked(c, s).queued = rec[s].queued /\ Acked(c, s).outbox = rec[s].outbox
          /\ Acked(c, s).inflight = {} /\ Acked(c, s).lease = None
      BY <1>t, <1>1, <3>1 DEF Record
    <3> QED BY <1>t, <1>1, <2>4, <3>2, RecordsTyped, CommitTyped DEF AckedTo
  <2> QED BY <2>1, <2>2, <2>3, <2>4
<1> QED BY <1>1, <1>2, <1>3, <1>4

LEMMA AckKeeps == ASSUME Inv, NEW c \in Caller, Ack(c) PROVE Inv'
<1> DEFINE s == call[c].sess
<1>0. /\ s \in Session /\ Has(c, s) /\ call[c].todo = {}
      /\ (Settled /\ rec' \in [Session -> Record]) \/ AckedTo(c, s)
      /\ call' \in [Caller -> CallType] /\ call'[c].at \in {"poll", "gone"}
      /\ \A x \in Caller \ {c} : call'[x] = call[x]
      /\ StoresSame
  BY AckMoves
<1>a. call[c].at = "ack"
  BY DEF Ack
<1> HIDE DEF s
<1>1. CASE Settled /\ rec' \in [Session -> Record]
  <2>1. \A x \in Caller : call'[x].at \in {"poll", "gone"} \/ SameCall(x)
    BY <1>0 DEF SameCall
  <2> QED BY <1>0, <1>1, <2>1, FrameKeeps
<1>2. CASE AckedTo(c, s)
  <2>0. ASSUME NEW x \in Caller, NEW t \in Session, Has(x, t)'
        PROVE  x # c /\ Has(x, t) /\ call'[x] = call[x]
    BY <1>0, <2>0 DEF Has, Handling
  <2>s. rec[s].inflight \subseteq seen
    BY <1>0, <1>2 DEF Inv, FlowInv, Handed, AckedTo
  <2>1. TypeInv'
    <3>1. TypeOK'
      BY <1>0, <1>2, TypeKept DEF Inv, TypeInv, AckedTo
    <3>2. CallsNamed'
      BY <1>0 DEF Inv, TypeInv, CallsNamed, Handling
    <3> QED BY <3>1, <3>2 DEF TypeInv
  <2>2. OneSession'
    <3>1. ASSUME NEW p \in Prompt, NEW t \in Session, At(p, t)' PROVE At(p, t)
      BY <1>0, <1>2, <2>0, <3>1 DEF At, AckedTo, StoresSame
    <3> QED BY <3>1, StaysInSession DEF Inv, FlowInv
  <2>3. OnePlace'
    BY <1>0, <1>2 DEF Inv, FlowInv, OnePlace, AckedTo, StoresSame
  <2>4. Handed'
    <3> SUFFICES ASSUME NEW t \in Session, NEW x \in Caller, Has(x, t)'
                 PROVE  /\ call'[x].todo \subseteq seen' \cup rec'[t].inflight
                        /\ rec'[t].lease = x => rec'[t].inflight \subseteq seen' \cup call'[x].todo
      BY DEF Handed
    <3>1. call[x].todo \subseteq seen \cup rec[t].inflight
      BY <2>0 DEF Inv, FlowInv, Handed
    <3>2. CASE t = s
      BY <1>0, <1>2, <2>0, <2>s, <3>1, <3>2 DEF AckedTo, StoresSame
    <3>3. CASE t # s
      BY <1>0, <1>2, <2>0, <3>1, <3>3 DEF Inv, FlowInv, Handed, AckedTo, StoresSame
    <3> QED BY <3>2, <3>3
  <2>5. NewsUnread' /\ Rung'
    BY <1>0, CallerSplit DEF Inv, BellInv, NewsUnread, Rung, StoresSame, lsn
  <2>6. PrintedTold'
    <3> SUFFICES ASSUME NEW t \in Session, NEW a \in Agent, Has(a, t)', rec'[t].lease = a
                 PROVE  /\ call'[a].at = "print" => rec'[t].inflight \subseteq call'[a].todo
                        /\ call'[a].at = "ack" => rec'[t].inflight \cap untold' = {}
      BY DEF PrintedTold
    <3> QED BY <1>0, <1>2, <2>0, CallerSplit, ForumAssumption
           DEF Inv, BellInv, PrintedTold, AckedTo, StoresSame
  <2>7. BellRings'
    <3> SUFFICES ASSUME NEW t \in Session, NEW p \in untold' \cap unread'[t]
                 PROVE  t \in bell' \/ drain' = t \/ p \in rec'[t].inflight
      BY DEF BellRings
    <3>1. t \in bell \/ drain = t \/ p \in rec[t].inflight
      BY <1>0 DEF Inv, BellInv, BellRings, StoresSame
    <3>2. CASE t # s
      BY <1>0, <1>2, <3>1, <3>2 DEF AckedTo, StoresSame
    <3>3. CASE t = s /\ c = Listener
      BY <1>0, <1>a, <3>3 DEF Inv, BellInv, Rung, StoresSame, Has, lsn
    <3>4. CASE t = s /\ c \in Agent
      BY <1>0, <1>2, <1>a, <3>1, <3>4 DEF Inv, BellInv, PrintedTold, AckedTo, StoresSame
    <3> QED BY <3>2, <3>3, <3>4, CallerSplit
  <2> QED BY <2>1, <2>2, <2>3, <2>4, <2>5, <2>6, <2>7 DEF Inv, FlowInv, BellInv
<1> QED BY <1>0, <1>1, <1>2

-----------------------------------------------------------------------------
(* What was handed out is stored, printed and told.                         *)

LEMMA OutputKeeps == ASSUME Inv, NEW a \in Agent, Output(a) PROVE Inv'
<1>t. TypeOK /\ call \in [Caller -> CallType] /\ a \in Caller /\ a # Listener
  BY CallerSplit, ForumAssumption DEF Inv, TypeInv, TypeOK
<1>1. /\ call' \in [Caller -> CallType] /\ call'[a].at = "ack" /\ call'[a].todo = {}
      /\ call'[a].sess = call[a].sess /\ \A x \in Caller \ {a} : call'[x] = call[x]
  <2>1. [call[a] EXCEPT !.at = "ack", !.todo = {}] \in CallType
    BY <1>t DEF CallType
  <2> QED BY <1>t, <2>1 DEF Output, CallType
<1>2. /\ call[a].at = "print" /\ seen' = seen \cup call[a].todo /\ untold' = untold \ call[a].todo
      /\ UNCHANGED <<rec, unread, read, bell, drain>>
  BY DEF Output, inboxVars
<1>3. call[a].todo \subseteq Prompt
  BY <1>t DEF CallType
<1>0. ASSUME NEW x \in Caller, NEW t \in Session, Has(x, t)'
      PROVE  Has(x, t) /\ call'[x].todo \subseteq call[x].todo
  BY <1>1, <1>2, <1>0 DEF Has, Handling
<1>4. TypeInv'
  <2>1. TypeOK'
    BY <1>t, <1>1, <1>2, <1>3 DEF TypeOK
  <2>2. CallsNamed'
    BY <1>t, <1>1, <1>2 DEF Inv, TypeInv, CallsNamed, Handling
  <2> QED BY <2>1, <2>2 DEF TypeInv
<1>5. OneSession'
  <2>1. ASSUME NEW p \in Prompt, NEW t \in Session, At(p, t)' PROVE At(p, t)
    BY <1>0, <1>2, <2>1 DEF At
  <2> QED BY <2>1, StaysInSession DEF Inv, FlowInv
<1>6. OnePlace'
  <2> SUFFICES ASSUME NEW s \in Session PROVE rec[s].queued \cap seen' = {}
    BY <1>2 DEF Inv, FlowInv, OnePlace
  <2> SUFFICES ASSUME NEW p \in rec[s].queued, p \in call[a].todo, p \notin seen PROVE FALSE
    BY <1>2 DEF Inv, FlowInv, OnePlace
  <2>1. call[a].sess \in Session /\ Has(a, call[a].sess)
    BY <1>t, <1>2 DEF Inv, TypeInv, CallsNamed, Has, Handling
  <2>2. p \in rec[call[a].sess].inflight
    BY <1>t, <2>1 DEF Inv, FlowInv, Handed
  <2>3. s = call[a].sess
    BY <1>3, <2>1, <2>2 DEF Inv, FlowInv, OneSession, At
  <2> QED BY <2>2, <2>3 DEF Inv, FlowInv, OnePlace
<1>7. Handed'
  <2> SUFFICES ASSUME NEW t \in Session, NEW x \in Caller, Has(x, t)'
               PROVE  /\ call'[x].todo \subseteq seen' \cup rec'[t].inflight
                      /\ rec'[t].lease = x => rec'[t].inflight \subseteq seen' \cup call'[x].todo
    BY DEF Handed
  <2> QED BY <1>0, <1>1, <1>2 DEF Inv, FlowInv, Handed
<1>8. NewsUnread' /\ Rung' /\ BellRings'
  BY <1>t, <1>1, <1>2, CallerSplit DEF Inv, BellInv, NewsUnread, Rung, BellRings, lsn
<1>9. PrintedTold'
  <2> SUFFICES ASSUME NEW t \in Session, NEW x \in Agent, Has(x, t)', rec'[t].lease = x
               PROVE  /\ call'[x].at = "print" => rec'[t].inflight \subseteq call'[x].todo
                      /\ call'[x].at = "ack" => rec'[t].inflight \cap untold' = {}
    BY DEF PrintedTold
  <2> QED BY <1>0, <1>1, <1>2, CallerSplit DEF Inv, BellInv, PrintedTold
<1> QED BY <1>4, <1>5, <1>6, <1>7, <1>8, <1>9 DEF Inv, FlowInv, BellInv

\* The listener goes on with its delivery; the stores are as they were, but for a bell.
LEMMA ListenerKeeps ==
  ASSUME Inv, rec' \in [Session -> Record], Settled,
         call' \in [Caller -> CallType],
         \A x \in Caller \ {Listener} : call'[x] = call[x],
         UNCHANGED <<unread, read, drain, seen, untold>>, bell \subseteq bell', bell' \subseteq Session,
         lsn.at \in Handling, lsn'.at \in Handling \ {"print"}, lsn'.sess = lsn.sess,
         lsn'.todo \subseteq lsn.todo, lsn.todo \ lsn'.todo \subseteq seen,
         lsn'.at = "write" => lsn'.cur \in lsn'.todo,
         lsn'.at \in {"ring", "relay", "ack"} => lsn'.todo = {},
         Rung'
  PROVE  Inv'
<1>t. TypeOK /\ Listener \in Caller
  BY CallerSplit DEF Inv, TypeInv
<1>0. ASSUME NEW x \in Caller, NEW t \in Session, Has(x, t)'
      PROVE  Has(x, t) /\ call'[x].todo \subseteq call[x].todo /\ call[x].todo \ call'[x].todo \subseteq seen
  BY <1>t, <1>0 DEF Has, lsn
<1>1. TypeInv'
  <2>1. TypeOK'
    BY <1>t DEF TypeOK
  <2>2. CallsNamed'
    BY <1>t DEF Inv, TypeInv, CallsNamed, Handling, lsn
  <2> QED BY <2>1, <2>2 DEF TypeInv
<1>2. OneSession'
  <2>1. ASSUME NEW p \in Prompt, NEW t \in Session, At(p, t)' PROVE At(p, t)
    BY <1>0, <2>1 DEF At, Settled
  <2> QED BY <2>1, StaysInSession DEF Inv, FlowInv
<1>3. OnePlace'
  BY DEF Inv, FlowInv, OnePlace, Settled
<1>4. Handed'
  <2> SUFFICES ASSUME NEW t \in Session, NEW x \in Caller, Has(x, t)'
               PROVE  /\ call'[x].todo \subseteq seen' \cup rec'[t].inflight
                      /\ rec'[t].lease = x => rec'[t].inflight \subseteq seen' \cup call'[x].todo
    BY DEF Handed
  <2> QED BY <1>0 DEF Inv, FlowInv, Handed, Settled
<1>5. NewsUnread' /\ BellRings'
  BY DEF Inv, BellInv, NewsUnread, BellRings, Settled
<1>6. PrintedTold'
  <2> SUFFICES ASSUME NEW t \in Session, NEW x \in Agent, Has(x, t)', rec'[t].lease = x
               PROVE  /\ call'[x].at = "print" => rec'[t].inflight \subseteq call'[x].todo
                      /\ call'[x].at = "ack" => rec'[t].inflight \cap untold' = {}
    BY DEF PrintedTold
  <2>1. x \in Caller \ {Listener}
    BY CallerSplit, ForumAssumption
  <2> QED BY <1>0, <2>1 DEF Inv, BellInv, PrintedTold, Settled
<1> QED BY <1>1, <1>2, <1>3, <1>4, <1>5, <1>6 DEF Inv, FlowInv, BellInv

LEMMA LookKeeps == ASSUME Inv, NEW p \in Prompt, Look(p) PROVE Inv'
<1>t. TypeOK /\ call \in [Caller -> CallType] /\ Listener \in Caller /\ lsn \in CallType
  BY CallerSplit DEF Inv, TypeInv, TypeOK, lsn
<1>1. /\ lsn.at = "store" /\ p \in lsn.todo /\ StoresSame /\ UNCHANGED rec
  BY DEF Look, Quiet, StoresSame, inboxVars, history
<1>s. lsn.sess \in Session
  BY <1>t, <1>1 DEF Inv, TypeInv, CallsNamed, lsn, Handling
<1>2. /\ call' \in [Caller -> CallType] /\ \A x \in Caller \ {Listener} : call'[x] = call[x]
      /\ lsn'.sess = lsn.sess
      /\ \/ lsn'.at = "store" /\ lsn'.todo = lsn.todo \ {p} /\ p \in read[lsn.sess]
         \/ lsn'.at = "write" /\ lsn'.todo = lsn.todo /\ lsn'.cur = p
  <2> DEFINE d == IF p \in read[lsn.sess] THEN [lsn EXCEPT !.todo = @ \ {p}]
                  ELSE [lsn EXCEPT !.at = "write", !.cur = p]
  <2>1. call' = [call EXCEPT ![Listener] = d]
    BY DEF Look
  <2>2. /\ d \in CallType /\ d.sess = lsn.sess
        /\ \/ d.at = "store" /\ d.todo = lsn.todo \ {p} /\ p \in read[lsn.sess]
           \/ d.at = "write" /\ d.todo = lsn.todo /\ d.cur = p
    BY <1>t, <1>1 DEF CallType
  <2> QED BY <1>t, <2>1, <2>2 DEF lsn
<1>3. Settled /\ rec' \in [Session -> Record]
  BY <1>t, <1>1 DEF Settled, TypeOK
<1>4. p \in read[lsn.sess] => p \in seen
  BY <1>s DEF Inv, FlowInv, OnePlace
<1>5. Rung'
  BY <1>2 DEF Rung
<1>6. bell \subseteq bell' /\ bell' \subseteq Session /\ UNCHANGED <<unread, read, drain, seen, untold>>
  BY <1>t, <1>1 DEF StoresSame, TypeOK
<1> QED BY <1>1, <1>2, <1>3, <1>4, <1>5, <1>6, ListenerKeeps DEF Handling

\* The places a delivery goes through once it is stored.
LEMMA OnwardMoves ==
  ASSUME Inv, NEW a \in {"ring", "relay", "ack"}, Step(Listener, a),
         lsn.at \in {"store", "ring", "relay"}, lsn.todo = {}
  PROVE  /\ call' \in [Caller -> CallType] /\ \A x \in Caller \ {Listener} : call'[x] = call[x]
         /\ lsn'.at = a /\ lsn'.sess = lsn.sess /\ lsn'.todo = {} /\ lsn.sess \in Session
<1>t. call \in [Caller -> CallType] /\ Listener \in Caller /\ lsn \in CallType
  BY CallerSplit DEF Inv, TypeInv, TypeOK, lsn
<1>1. [lsn EXCEPT !.at = a] \in CallType
  BY <1>t DEF CallType
<1>2. call' = [call EXCEPT ![Listener] = [lsn EXCEPT !.at = a]]
  BY <1>t DEF Step, lsn
<1>3. lsn.sess \in Session
  BY <1>t DEF Inv, TypeInv, CallsNamed, lsn, Handling
<1> QED BY <1>t, <1>1, <1>2, <1>3 DEF lsn, CallType

LEMMA CountKeeps == ASSUME Inv, CountUnread PROVE Inv'
<1>1. PICK a \in {"ring", "relay", "ack"} :
        Step(Listener, a) /\ (a # "ring" => unread[lsn.sess] = {})
  BY DEF CountUnread, Told
<1>2. /\ lsn.at = "store" /\ lsn.todo = {} /\ UNCHANGED <<rec, unread, read, bell, drain, seen, untold>>
  BY DEF CountUnread, Quiet, inboxVars, history
<1>3. /\ call' \in [Caller -> CallType] /\ \A x \in Caller \ {Listener} : call'[x] = call[x]
      /\ lsn'.at = a /\ lsn'.sess = lsn.sess /\ lsn'.todo = {}
  BY <1>1, <1>2, OnwardMoves
<1>4. Settled /\ rec' \in [Session -> Record] /\ bell' \subseteq Session
  BY <1>2 DEF Settled, Inv, TypeInv, TypeOK
<1>5. Rung'
  <2> SUFFICES ASSUME lsn'.at \in {"relay", "ack"} PROVE untold' \cap unread'[lsn'.sess] = {}
    BY DEF Rung
  <2>1. unread'[lsn'.sess] = {}
    BY <1>1, <1>2, <1>3
  <2> QED BY <2>1
<1> QED BY <1>2, <1>3, <1>4, <1>5, ListenerKeeps DEF Handling

LEMMA RingKeeps == ASSUME Inv, Ring PROVE Inv'
<1>1. PICK a \in {"relay", "ack"} : Step(Listener, a)
  BY DEF Ring, Told
<1>2. /\ lsn.at = "ring" /\ bell' = bell \cup {lsn.sess}
      /\ UNCHANGED <<rec, unread, read, drain, seen, untold>>
  BY DEF Ring, inboxVars, history
<1>t. lsn.todo = {}
  BY <1>2, CallerSplit DEF Inv, TypeInv, CallsNamed, lsn
<1>3. /\ call' \in [Caller -> CallType] /\ \A x \in Caller \ {Listener} : call'[x] = call[x]
      /\ lsn'.at = a /\ lsn'.sess = lsn.sess /\ lsn'.todo = {} /\ lsn.sess \in Session
  BY <1>1, <1>2, <1>t, OnwardMoves
<1>4. Settled /\ rec' \in [Session -> Record] /\ bell' \subseteq Session
  BY <1>2, <1>3 DEF Settled, Inv, TypeInv, TypeOK
<1>5. Rung'
  BY <1>2, <1>3 DEF Rung
<1> QED BY <1>2, <1>3, <1>4, <1>5, <1>t, ListenerKeeps DEF Handling

LEMMA RelayKeeps == ASSUME Inv, Relay PROVE Inv' /\ Settled
<1>t. TypeOK /\ rec \in [Session -> Record] /\ call \in [Caller -> CallType]
      /\ Listener \in Caller /\ lsn \in CallType
  BY CallerSplit DEF Inv, TypeInv, TypeOK, lsn
<1>1. lsn.at = "relay" /\ UNCHANGED <<unread, read, bell, drain, seen, untold>>
  BY DEF Relay, Quiet, inboxVars, history
<1>2. lsn.todo = {} /\ lsn.sess \in Session
  BY <1>t, <1>1 DEF Inv, TypeInv, CallsNamed, lsn, Handling
<1>3. /\ call' \in [Caller -> CallType] /\ \A x \in Caller \ {Listener} : call'[x] = call[x]
      /\ lsn'.at = "ack" /\ lsn'.sess = lsn.sess /\ lsn'.todo = {}
  <2>1. CASE Step(Listener, "ack")
    BY <1>1, <1>2, <2>1, OnwardMoves
  <2>2. CASE call' = [call EXCEPT ![Listener] = [@ EXCEPT !.at = "ack", !.relaying = Refreshes(lsn.sess)]]
    <3> DEFINE d == [lsn EXCEPT !.at = "ack", !.relaying = Refreshes(lsn.sess)]
    <3>1. Refreshes(lsn.sess) \subseteq Session
      BY <1>t, <1>2 DEF Refreshes, CallType
    <3>2. d \in CallType /\ d.at = "ack" /\ d.sess = lsn.sess /\ d.todo = lsn.todo
      BY <1>t, <3>1 DEF CallType
    <3>3. call' = [call EXCEPT ![Listener] = d]
      BY <1>t, <2>2 DEF lsn
    <3> QED BY <1>t, <1>2, <3>2, <3>3 DEF lsn
  <2> QED BY <2>1, <2>2 DEF Relay
<1>4. Settled /\ rec' \in [Session -> Record]
  <2>1. CASE UNCHANGED rec
    BY <1>t, <2>1 DEF Settled
  <2>2. CASE Commit(lsn.sess, Relayed(lsn.sess))
    <3>1. /\ Relayed(lsn.sess).queued = rec[lsn.sess].queued /\ Relayed(lsn.sess).outbox = rec[lsn.sess].outbox
          /\ Relayed(lsn.sess).inflight = rec[lsn.sess].inflight /\ Relayed(lsn.sess).lease = rec[lsn.sess].lease
      BY <1>t, <1>2 DEF Relayed, Record
    <3> QED BY <1>t, <1>2, <2>2, <3>1, RecordsTyped, CommitTyped DEF Settled
  <2> QED BY <2>1, <2>2 DEF Relay
<1>5. Rung'
  BY <1>1, <1>3 DEF Inv, BellInv, Rung
<1>6. bell' \subseteq Session
  BY <1>t, <1>1 DEF TypeOK
<1> QED BY <1>1, <1>2, <1>3, <1>4, <1>5, <1>6, ListenerKeeps DEF Handling

LEMMA WriteMoves ==
  ASSUME Inv, Write
  PROVE  /\ lsn.sess \in Session /\ lsn.cur \in lsn.todo /\ lsn.todo \subseteq Prompt
         /\ Has(Listener, lsn.sess)
         /\ call' \in [Caller -> CallType] /\ \A x \in Caller \ {Listener} : call'[x] = call[x]
         /\ lsn'.at = "store" /\ lsn'.sess = lsn.sess /\ lsn'.todo = lsn.todo \ {lsn.cur}
         /\ unread' \in [Session -> SUBSET Prompt]
         /\ unread'[lsn.sess] = unread[lsn.sess] \cup {lsn.cur}
         /\ \A t \in Session \ {lsn.sess} : unread'[t] = unread[t]
         /\ seen' = seen \cup {lsn.cur}
         /\ untold' = untold \cup ({lsn.cur} \ (unread[lsn.sess] \cup seen))
         /\ UNCHANGED <<rec, read, bell, drain>>
<1>t. /\ unread \in [Session -> SUBSET Prompt] /\ call \in [Caller -> CallType]
      /\ Listener \in Caller /\ lsn \in CallType /\ lsn.at = "write"
  BY CallerSplit DEF Inv, TypeInv, TypeOK, lsn, Write
<1>1. lsn.sess \in Session /\ lsn.cur \in lsn.todo /\ lsn.todo \subseteq Prompt /\ Has(Listener, lsn.sess)
  BY <1>t DEF Inv, TypeInv, CallsNamed, lsn, Handling, Has, CallType
<1>2. /\ call' \in [Caller -> CallType] /\ \A x \in Caller \ {Listener} : call'[x] = call[x]
      /\ lsn'.at = "store" /\ lsn'.sess = lsn.sess /\ lsn'.todo = lsn.todo \ {lsn.cur}
  <2> DEFINE d == [lsn EXCEPT !.at = "store", !.cur = None, !.todo = @ \ {lsn.cur}]
  <2>1. call' = [call EXCEPT ![Listener] = d]
    BY DEF Write
  <2>2. d \in CallType /\ d.at = "store" /\ d.sess = lsn.sess /\ d.todo = lsn.todo \ {lsn.cur}
    BY <1>t, <1>1 DEF CallType
  <2> HIDE DEF d
  <2> QED BY <1>t, <2>1, <2>2 DEF lsn
<1>3. unread' = [unread EXCEPT ![lsn.sess] = unread[lsn.sess] \cup {lsn.cur}]
  BY <1>t, <1>1 DEF Write
<1>4. /\ unread' \in [Session -> SUBSET Prompt]
      /\ unread'[lsn.sess] = unread[lsn.sess] \cup {lsn.cur}
      /\ \A t \in Session \ {lsn.sess} : unread'[t] = unread[t]
  BY <1>t, <1>1, <1>3
<1> QED BY <1>1, <1>2, <1>4 DEF Write

LEMMA WriteKeeps == ASSUME Inv, Write PROVE Inv'
<1> DEFINE s == lsn.sess
           p == lsn.cur
<1>0. /\ s \in Session /\ p \in lsn.todo /\ lsn.todo \subseteq Prompt /\ Has(Listener, s)
      /\ call' \in [Caller -> CallType] /\ \A x \in Caller \ {Listener} : call'[x] = call[x]
      /\ lsn'.at = "store" /\ lsn'.sess = s /\ lsn'.todo = lsn.todo \ {p}
      /\ unread' \in [Session -> SUBSET Prompt]
      /\ unread'[s] = unread[s] \cup {p}
      /\ \A t \in Session \ {s} : unread'[t] = unread[t]
      /\ seen' = seen \cup {p}
      /\ untold' = untold \cup ({p} \ (unread[s] \cup seen))
      /\ UNCHANGED <<rec, read, bell, drain>>
  BY WriteMoves
<1> HIDE DEF s, p
<1>t. TypeOK /\ Listener \in Caller /\ Listener \notin Agent
  BY CallerSplit, ForumAssumption DEF Inv, TypeInv
<1>1. ASSUME NEW x \in Caller, NEW t \in Session, Has(x, t)'
      PROVE  Has(x, t) /\ call'[x].todo \subseteq call[x].todo /\ call[x].todo \ call'[x].todo \subseteq {p}
  BY <1>0, <1>1, <1>t DEF Has, lsn, Handling
<1>2. At(p, s) /\ p \in Prompt
  BY <1>0, <1>t DEF At, lsn
<1>3. p \in seen \/ p \in rec[s].inflight
  BY <1>0, <1>t DEF Inv, FlowInv, Handed, lsn
<1>4. TypeInv'
  <2>1. TypeOK'
    BY <1>0, <1>2, <1>t DEF TypeOK
  <2>2. CallsNamed'
    BY <1>0, <1>t DEF Inv, TypeInv, CallsNamed, Handling, lsn
  <2> QED BY <2>1, <2>2 DEF TypeInv
<1>5. OneSession'
  <2>1. ASSUME NEW q \in Prompt, NEW t \in Session, At(q, t)' PROVE At(q, t)
    BY <1>0, <1>1, <1>2, <2>1 DEF At
  <2> QED BY <2>1, StaysInSession DEF Inv, FlowInv
<1>6. OnePlace'
  <2>1. \A t \in Session : p \notin rec[t].queued
    <3> SUFFICES ASSUME NEW t \in Session, p \in rec[t].queued PROVE FALSE
      OBVIOUS
    <3>1. t = s
      BY <1>0, <1>2 DEF Inv, FlowInv, OneSession, At
    <3> QED BY <1>3, <3>1 DEF Inv, FlowInv, OnePlace
  <2> QED BY <1>0, <2>1 DEF Inv, FlowInv, OnePlace
<1>7. Handed'
  <2> SUFFICES ASSUME NEW t \in Session, NEW x \in Caller, Has(x, t)'
               PROVE  /\ call'[x].todo \subseteq seen' \cup rec'[t].inflight
                      /\ rec'[t].lease = x => rec'[t].inflight \subseteq seen' \cup call'[x].todo
    BY DEF Handed
  <2> QED BY <1>0, <1>1 DEF Inv, FlowInv, Handed
<1>8. NewsUnread'
  <2> SUFFICES ASSUME NEW q \in untold' PROVE \E t \in Session : q \in unread'[t]
    BY DEF NewsUnread
  <2>1. CASE q \in untold
    BY <1>0, <2>1 DEF Inv, BellInv, NewsUnread
  <2>2. CASE q = p
    BY <1>0, <2>2
  <2> QED BY <1>0, <2>1, <2>2
<1>9. PrintedTold'
  <2> SUFFICES ASSUME NEW t \in Session, NEW x \in Agent, Has(x, t)', rec'[t].lease = x
               PROVE  /\ call'[x].at = "print" => rec'[t].inflight \subseteq call'[x].todo
                      /\ call'[x].at = "ack" => rec'[t].inflight \cap untold' = {}
    BY DEF PrintedTold
  <2>1. x \in Caller \ {Listener}
    BY <1>t, CallerSplit
  <2>2. Has(x, t) /\ call'[x] = call[x] /\ rec[t].lease = x
    BY <1>0, <1>1, <2>1
  <2>3. call[x].at = "ack" => rec[t].inflight \subseteq seen
    BY <2>1, <2>2 DEF Inv, TypeInv, CallsNamed, FlowInv, Handed
  <2> QED BY <1>0, <2>2, <2>3 DEF Inv, BellInv, PrintedTold
<1>10. Rung'
  BY <1>0 DEF Rung
<1>11. BellRings'
  <2> SUFFICES ASSUME NEW t \in Session, NEW q \in untold' \cap unread'[t]
               PROVE  t \in bell \/ drain = t \/ q \in rec[t].inflight
    BY <1>0 DEF BellRings
  <2>1. CASE q \in untold /\ q \in unread[t]
    BY <2>1 DEF Inv, BellInv, BellRings
  <2>2. CASE q = p /\ q \notin untold
    <3>1. p \in rec[s].inflight /\ p \notin seen
      BY <1>0, <1>3, <2>2
    <3>2. t = s
      BY <1>0, <2>2, <3>1 DEF Inv, FlowInv, OnePlace
    <3> QED BY <2>2, <3>1, <3>2
  <2>3. CASE q = p /\ q \in untold /\ q \notin unread[t]
    <3>1. PICK u \in Session : p \in unread[u]
      BY <2>3 DEF Inv, BellInv, NewsUnread
    <3>2. u = s /\ t = s
      BY <1>0, <1>2, <2>3, <3>1 DEF Inv, FlowInv, OneSession, At
    <3> QED BY <2>3, <3>1, <3>2
  <2> QED BY <1>0, <2>1, <2>2, <2>3
<1> QED BY <1>4, <1>5, <1>6, <1>7, <1>8, <1>9, <1>10, <1>11 DEF Inv, FlowInv, BellInv

\* The commander's side: wakes claimed and told, entries confirmed.
CommanderStep == \/ Tell \/ TellFails
                 \/ \E s \in Session : ClaimBell(s) \/ \E p \in Prompt : Confirm(s, p)

\* What a step of the commander may do to the inbox and the wakes.
Reads == /\ UNCHANGED <<rec, call, seen>>
         /\ unread' \in [Session -> SUBSET Prompt] /\ read' \in [Session -> SUBSET Prompt]
         /\ \A t \in Session : /\ unread'[t] \subseteq unread[t]
                               /\ read'[t] \subseteq read[t] \cup unread[t]
         /\ untold' \subseteq untold
         /\ bell' \subseteq Session /\ drain' \in Session \cup {None}
         /\ \A p \in untold', t \in Session : p \in unread[t] => p \in unread'[t]
         /\ \A t \in Session : t \in bell \/ drain = t =>
              t \in bell' \/ drain' = t \/ untold' \cap unread'[t] = {}

LEMMA CommanderReads == ASSUME Inv, CommanderStep PROVE Reads
<1>t. /\ unread \in [Session -> SUBSET Prompt] /\ read \in [Session -> SUBSET Prompt]
      /\ bell \subseteq Session /\ drain \in Session \cup {None}
  BY DEF Inv, TypeInv, TypeOK
<1>1. CASE Tell
  BY <1>t, <1>1 DEF Tell, QuietCall, inboxVars, Reads
<1>2. CASE TellFails
  BY <1>t, <1>2 DEF TellFails, QuietCall, inboxVars, history, Reads
<1>3. ASSUME NEW s \in Session, ClaimBell(s) PROVE Reads
  BY <1>t, <1>3, ForumAssumption DEF ClaimBell, QuietCall, inboxVars, history, Reads
<1>4. ASSUME NEW s \in Session, NEW p \in Prompt, Confirm(s, p) PROVE Reads
  <2>1. PICK kept \in SUBSET (read[s] \cup {p}) : read' = [read EXCEPT ![s] = kept]
    BY <1>4 DEF Confirm
  <2>2. /\ p \in unread[s] /\ unread' = [unread EXCEPT ![s] = unread[s] \ {p}]
        /\ untold' = untold \ {p} /\ UNCHANGED <<rec, call, bell, drain, seen>>
    BY <1>t, <1>4 DEF Confirm, QuietCall
  <2>3. /\ unread' \in [Session -> SUBSET Prompt]
        /\ \A t \in Session : unread'[t] = IF t = s THEN unread[s] \ {p} ELSE unread[t]
    BY <1>t, <2>2
  <2>4. /\ read' \in [Session -> SUBSET Prompt]
        /\ \A t \in Session : read'[t] \subseteq read[t] \cup unread[t]
    BY <1>t, <2>1, <2>2
  <2> QED BY <1>t, <2>2, <2>3, <2>4 DEF Reads
<1> QED BY <1>1, <1>2, <1>3, <1>4 DEF CommanderStep

LEMMA CommanderKeeps == ASSUME Inv, CommanderStep PROVE Inv'
<1>0. Reads
  BY CommanderReads
<1>h. \A x \in Caller, t \in Session : Has(x, t)' <=> Has(x, t)
  BY <1>0 DEF Has, Reads
<1>1. TypeInv'
  BY <1>0 DEF Inv, TypeInv, TypeOK, CallsNamed, Reads
<1>2. OneSession'
  <2>1. ASSUME NEW p \in Prompt, NEW t \in Session, At(p, t)' PROVE At(p, t)
    BY <1>0, <1>h, <2>1 DEF At, Reads
  <2> QED BY <2>1, StaysInSession DEF Inv, FlowInv
<1>3. OnePlace' /\ Handed'
  BY <1>0, <1>h DEF Inv, FlowInv, OnePlace, Handed, Reads
<1>4. NewsUnread'
  BY <1>0 DEF Inv, BellInv, NewsUnread, Reads
<1>5. PrintedTold'
  BY <1>0, <1>h, CallerSplit DEF Inv, BellInv, PrintedTold, Reads
<1>6. Rung'
  <2> SUFFICES ASSUME lsn.at \in {"relay", "ack"}
               PROVE  \/ untold' \cap unread'[lsn.sess] = {}
                      \/ lsn.sess \in bell' \/ drain' = lsn.sess
    BY <1>0 DEF Rung, Reads, lsn
  <2>1. lsn.sess \in Session
    BY CallerSplit DEF Inv, TypeInv, CallsNamed, lsn, Handling
  <2> QED BY <1>0, <2>1 DEF Inv, BellInv, Rung, Reads
<1>7. BellRings'
  <2> SUFFICES ASSUME NEW t \in Session, NEW p \in untold' \cap unread'[t]
               PROVE  t \in bell' \/ drain' = t \/ p \in rec[t].inflight
    BY <1>0 DEF BellRings, Reads
  <2> QED BY <1>0 DEF Inv, BellInv, BellRings, Reads
<1> QED BY <1>1, <1>2, <1>3, <1>4, <1>5, <1>6, <1>7 DEF Inv, FlowInv, BellInv

-----------------------------------------------------------------------------
(* Waiting.                                                                 *)

Honest(r) == /\ r.awaiting => r.st = "open" /\ r.unanswered
             /\ r.relayed # "no" => r.unanswered

LEMMA HonestCommit ==
  ASSUME TypeOK, WaitHonest, NEW s \in Session, NEW r, Commit(s, r), Honest(r)
  PROVE  WaitHonest'
  BY DEF TypeOK, WaitHonest, Commit, Honest

LEMMA HonestKeeps == ASSUME TypeInv, WaitHonest, [Next]_vars PROVE WaitHonest'
<1>t. TypeOK /\ rec \in [Session -> Record] /\ call \in [Caller -> CallType]
  BY DEF TypeInv, TypeOK
<1>h. \A s \in Session : rec[s] \in Record /\ Honest(rec[s])
  BY <1>t DEF WaitHonest, Honest
<1>0. UNCHANGED rec => WaitHonest'
  BY DEF WaitHonest
\* The records the hub commits are honest.
<1>r. ASSUME NEW s \in Session
      PROVE  Honest(Relayed(s)) /\ Honest(Answered(s))
  BY <1>h DEF Honest, Record, Relayed, RelayActive, Answered
<1>l. ASSUME NEW s \in Session, NEW c \in Caller
      PROVE  Honest(Leased(c, s)) /\ Honest(Acked(c, s))
  BY <1>h DEF Honest, Record, Leased, Acked
<1>w. ASSUME NEW s \in Session
      PROVE  /\ Honest([rec[s] EXCEPT !.awaiting = FALSE])
             /\ Honest([rec[s] EXCEPT !.awaiting = FALSE, !.relayed = "no"])
  BY <1>h DEF Honest, Record
<1>1. ASSUME HubStep PROVE WaitHonest'
  <2>1. PICK s \in Session :
          \/ Open(s) \/ End(s) \/ StopWaiting(s) \/ Reply(s) \/ NoticeEdit(s)
          \/ \E p \in Prompt : Queue(s, p) \/ RemoveQueued(s, p)
          \/ \E end \in BOOLEAN : Send(s, end)
    BY <1>1 DEF HubStep
  <2>r. rec[s] \in Record /\ Honest(rec[s])
    BY <1>h
  <2>2. CASE Open(s)
    <3>1. PICK root \in BOOLEAN : Commit(s, [rec[s] EXCEPT !.st = "open", !.root = root \/ @])
      BY <2>2 DEF Open
    <3>2. Honest([rec[s] EXCEPT !.st = "open", !.root = root \/ @])
      BY <2>r DEF Honest, Record
    <3> QED BY <1>t, <3>1, <3>2, HonestCommit
  <2>3. CASE End(s)
    <3>1. Honest([rec[s] EXCEPT !.st = "ended", !.awaiting = FALSE])
      BY <2>r DEF Honest, Record
    <3> QED BY <1>t, <2>3, <3>1, HonestCommit DEF End
  <2>4. CASE StopWaiting(s) \/ Reply(s) \/ NoticeEdit(s)
    BY <1>t, <1>r, <1>w, <2>4, HonestCommit DEF StopWaiting, Reply, NoticeEdit
  <2>5. ASSUME NEW p \in Prompt, Queue(s, p) \/ RemoveQueued(s, p) PROVE WaitHonest'
    <3>1. /\ Honest([rec[s] EXCEPT !.queued = @ \cup {p}])
          /\ Honest([rec[s] EXCEPT !.queued = @ \ {p}])
      BY <2>r DEF Honest, Record
    <3> QED BY <1>t, <2>5, <3>1, HonestCommit DEF Queue, RemoveQueued
  <2>6. ASSUME NEW end \in BOOLEAN, Send(s, end) PROVE WaitHonest'
    <3>1. Honest(Sent(s, end))
      BY <2>r, <2>6 DEF Honest, Record, Sent, Send
    <3> QED BY <1>t, <2>6, <3>1, HonestCommit DEF Send
  <2> QED BY <2>1, <2>2, <2>3, <2>4, <2>5, <2>6
<1>2. ASSUME Restart PROVE WaitHonest'
  <2>1. \A s \in Session : rec'[s] = [rec[s] EXCEPT !.awaiting = FALSE]
    BY <1>2 DEF Restart
  <2>2. \A s \in Session : Honest(rec'[s])
    BY <1>w, <2>1
  <2> QED BY <2>2 DEF WaitHonest, Honest
<1>3. ASSUME NEW a \in Agent, NEW s \in Session, StartPoll(a, s) PROVE WaitHonest'
  BY <1>t, <1>0, <1>w, <1>3, HonestCommit DEF StartPoll
<1>4. ASSUME NEW c \in Caller, NEW s \in Session, Deliver(c, s) \/ DeliverLost(c, s) PROVE WaitHonest'
  BY <1>t, <1>l, <1>4, HonestCommit DEF Deliver, DeliverLost
<1>5. ASSUME NEW c \in Caller, Ack(c) PROVE WaitHonest'
  <2>1. call[c].sess \in Session
    BY <1>5 DEF Ack, TypeInv, CallsNamed, Handling
  <2> QED BY <1>t, <1>0, <1>l, <1>5, <2>1, HonestCommit DEF Ack
<1>6. ASSUME Relay PROVE WaitHonest'
  <2>1. lsn.sess \in Session
    BY <1>6, CallerSplit DEF Relay, TypeInv, CallsNamed, Handling, lsn
  <2> QED BY <1>t, <1>0, <1>r, <1>6, <2>1, HonestCommit DEF Relay
<1>7. ASSUME NEW s \in Session, Refresh(s) PROVE WaitHonest'
  BY <1>t, <1>r, <1>7, HonestCommit DEF Refresh
<1>8. ASSUME NEW c \in Caller, PollFails(c) \/ PollEmpty(c) \/ Die(c) PROVE WaitHonest'
  BY <1>0, <1>8 DEF PollFails, PollEmpty, Die
<1>9. ASSUME NEW a \in Agent, Output(a) PROVE WaitHonest'
  BY <1>0, <1>9 DEF Output
<1>10. ASSUME StartListener \/ CountUnread \/ Write \/ Ring \/ StoreFails \/ Tell \/ TellFails
       PROVE WaitHonest'
  BY <1>0, <1>10 DEF StartListener, CountUnread, Write, Ring, StoreFails, Tell, TellFails, QuietCall
<1>11. ASSUME NEW s \in Session, NEW p \in Prompt, Confirm(s, p) PROVE WaitHonest'
  BY <1>0, <1>11 DEF Confirm, QuietCall
<1>12. ASSUME NEW s \in Session, ClaimBell(s) PROVE WaitHonest'
  BY <1>0, <1>12 DEF ClaimBell, QuietCall
<1>13. ASSUME NEW p \in Prompt, Look(p) PROVE WaitHonest'
  BY <1>0, <1>13 DEF Look
<1>14. ASSUME UNCHANGED vars PROVE WaitHonest'
  BY <1>0, <1>14 DEF vars
<1>15. CASE \E s \in Session : Human(s)
  BY <1>1, <1>15 DEF Human, HubStep
<1>16. CASE \E c \in Caller : Polls(c)
  BY <1>4, <1>5, <1>8, <1>16 DEF Polls
<1>17. CASE Handles
  BY <1>6, <1>7, <1>10, <1>13, <1>17 DEF Handles
<1>18. CASE Commander
  BY <1>1, <1>10, <1>11, <1>12, <1>18 DEF Commander, HubStep
<1> QED BY <1>2, <1>3, <1>9, <1>10, <1>14, <1>15, <1>16, <1>17, <1>18 DEF Next

-----------------------------------------------------------------------------
(* The refinement of ForumMailbox.                                          *)

\* What the sessions owe depends on outbox and inflight only.
LEMMA OwedHolds == \A p : p \in Owed <=> \E s \in Session : p \in rec[s].outbox \/ p \in rec[s].inflight
  BY DEF Owed, Undelivered
LEMMA OwedHoldsNext == \A p : p \in Owed' <=> \E s \in Session : p \in rec'[s].outbox \/ p \in rec'[s].inflight
  BY DEF Owed, Undelivered

LEMMA OwedKept ==
  ASSUME \A s \in Session : /\ rec'[s].outbox = rec[s].outbox
                            /\ rec'[s].inflight = rec[s].inflight
  PROVE  Owed' = Owed
  BY OwedHolds, OwedHoldsNext

\* Whatever the human does, nothing sent is forgotten, and what is sent is new.
LEMMA HubOwes ==
  ASSUME Inv, HubStep
  PROVE  UNCHANGED seen /\ (Owed' = Owed \/ \E S \in SUBSET Prompt : Mailbox!Send(S))
<1>t. TypeOK /\ rec \in [Session -> Record]
  BY DEF Inv, TypeInv, TypeOK
<1>0. UNCHANGED seen
  BY <1>t, HubTyped
<1>1. PICK s \in Session :
        \/ Open(s) \/ End(s) \/ StopWaiting(s) \/ Reply(s) \/ NoticeEdit(s)
        \/ \E p \in Prompt : Queue(s, p) \/ RemoveQueued(s, p)
        \/ \E end \in BOOLEAN : Send(s, end)
  BY DEF HubStep
<1>r. rec[s] \in Record
  BY <1>t
<1> DEFINE Alike(r) == r.outbox = rec[s].outbox /\ r.inflight = rec[s].inflight
<1>2. ASSUME NEW r, Commit(s, r), Alike(r) PROVE Owed' = Owed
  BY <1>t, <1>2, OwedKept DEF Commit
<1>3. ASSUME NEW root PROVE Alike([rec[s] EXCEPT !.st = "open", !.root = root])
  BY <1>r DEF Record
<1>4. ASSUME NEW Q PROVE Alike([rec[s] EXCEPT !.queued = Q])
  BY <1>r DEF Record
<1>5. /\ Alike([rec[s] EXCEPT !.st = "ended", !.awaiting = FALSE])
      /\ Alike([rec[s] EXCEPT !.awaiting = FALSE, !.relayed = "no"])
      /\ Alike(Answered(s))
  BY <1>r DEF Record, Answered
<1>6. Open(s) => \E r : Commit(s, r) /\ Alike(r)
  BY <1>3 DEF Open
<1>7. End(s) \/ StopWaiting(s) \/ Reply(s) \/ NoticeEdit(s) => \E r : Commit(s, r) /\ Alike(r)
  BY <1>5 DEF End, StopWaiting, Reply, NoticeEdit
<1>8. ASSUME NEW p \in Prompt, Queue(s, p) \/ RemoveQueued(s, p) PROVE \E r : Commit(s, r) /\ Alike(r)
  BY <1>4, <1>8 DEF Queue, RemoveQueued
<1>9. ASSUME NEW end \in BOOLEAN, Send(s, end)
      PROVE  Mailbox!Send(rec[s].queued) /\ rec[s].queued \in SUBSET Prompt
  <2>1. /\ rec'[s].outbox = rec[s].outbox \cup rec[s].queued /\ rec'[s].inflight = rec[s].inflight
        /\ \A t \in Session \ {s} : rec'[t] = rec[t]
    BY <1>t, <1>r, <1>9 DEF Send, Sent, Commit, Record
  <2>2. rec[s].queued \subseteq Prompt
    BY <1>r DEF Record
  <2>3. Owed' = Owed \cup rec[s].queued
    BY <2>1, OwedHolds, OwedHoldsNext
  <2>4. rec[s].queued \cap (Owed \cup seen) = {}
    <3> SUFFICES ASSUME NEW p \in rec[s].queued, p \in Owed \cup seen PROVE FALSE
      OBVIOUS
    <3>1. p \notin seen
      BY DEF Inv, FlowInv, OnePlace
    <3>2. PICK t \in Session : p \in rec[t].outbox \/ p \in rec[t].inflight
      BY <3>1, OwedHolds
    <3>3. t = s
      BY <2>2, <3>2 DEF Inv, FlowInv, OneSession, At
    <3> QED BY <3>2, <3>3 DEF Inv, FlowInv, OnePlace
  <2> QED BY <1>0, <2>2, <2>3, <2>4 DEF Mailbox!Send
<1> QED BY <1>0, <1>1, <1>2, <1>6, <1>7, <1>8, <1>9

\* An acknowledgement lets go of what somebody has only.
LEMMA AckOwes ==
  ASSUME Inv, NEW c \in Caller, Ack(c)
  PROVE  UNCHANGED seen /\ (Owed' = Owed \/ \E S \in SUBSET Prompt : Mailbox!LetGo(S))
<1> DEFINE s == call[c].sess
<1>0. /\ s \in Session /\ Has(c, s) /\ call[c].todo = {}
      /\ Settled \/ AckedTo(c, s)
      /\ UNCHANGED seen
  BY AckMoves
<1> HIDE DEF s
<1>1. CASE Settled
  BY <1>0, <1>1, OwedKept DEF Settled
<1>2. CASE AckedTo(c, s)
  <2>1. rec[s].inflight \subseteq Prompt
    BY <1>0 DEF Inv, TypeInv, TypeOK, Record
  <2>2. rec[s].inflight \subseteq seen
    BY <1>0, <1>2 DEF Inv, FlowInv, Handed, AckedTo
  <2>3. rec[s].inflight \subseteq Owed
    BY <1>0, OwedHolds
  <2>4. Owed' = Owed \ rec[s].inflight
    <3>1. ASSUME NEW p \in rec[s].inflight PROVE p \notin Owed'
      <4> SUFFICES ASSUME NEW t \in Session, p \in rec'[t].outbox \/ p \in rec'[t].inflight
                   PROVE  FALSE
        BY OwedHoldsNext
      <4>1. t # s
        BY <1>0, <1>2 DEF AckedTo, Inv, FlowInv, OnePlace
      <4>2. At(p, t) /\ At(p, s)
        BY <1>0, <1>2, <4>1 DEF AckedTo, At
      <4> QED BY <1>0, <2>1, <4>1, <4>2 DEF Inv, FlowInv, OneSession
    <3>2. ASSUME NEW p, p \notin rec[s].inflight PROVE p \in Owed' <=> p \in Owed
      BY <1>0, <1>2, <3>2, OwedHolds, OwedHoldsNext DEF AckedTo
    <3> QED BY <3>1, <3>2
  <2>5. Mailbox!LetGo(rec[s].inflight)
    BY <1>0, <2>2, <2>3, <2>4 DEF Mailbox!LetGo
  <2> QED BY <1>0, <2>1, <2>5
<1> QED BY <1>0, <1>1, <1>2

\* What is stored or printed was owed, or somebody had it already.
LEMMA TakeOwes ==
  ASSUME Inv, NEW c \in Caller, call[c].at \in {"print", "write"},
         UNCHANGED rec, NEW S \in SUBSET call[c].todo, seen' = seen \cup S
  PROVE  \E T \in SUBSET Prompt : Mailbox!Take(T)
<1>1. call[c].sess \in Session /\ Has(c, call[c].sess)
  BY DEF Inv, TypeInv, CallsNamed, Has, Handling
<1>2. S \subseteq Prompt
  BY DEF Inv, TypeInv, TypeOK, CallType
<1>3. S \subseteq Owed \cup seen
  BY <1>1, OwedHolds DEF Inv, FlowInv, Handed
<1>4. Owed' = Owed
  BY OwedKept
<1>5. Mailbox!Take(S)
  BY <1>3, <1>4 DEF Mailbox!Take
<1> QED BY <1>2, <1>5

LEMMA MailboxSteps == Inv /\ [Next]_vars => [Mailbox!MNext]_Mailbox!mvars
<1> SUFFICES ASSUME Inv, [Next]_vars
             PROVE  (Owed' = Owed /\ seen' = seen) \/ Mailbox!MNext
  BY DEF Mailbox!mvars
<1>t. TypeOK
  BY DEF Inv, TypeInv
<1>1. ASSUME HubStep PROVE (Owed' = Owed /\ seen' = seen) \/ Mailbox!MNext
  BY <1>1, HubOwes DEF Mailbox!MNext
<1>2. ASSUME NEW c \in Caller, Ack(c) PROVE (Owed' = Owed /\ seen' = seen) \/ Mailbox!MNext
  BY <1>2, AckOwes DEF Mailbox!MNext
<1>3. ASSUME NEW a \in Agent, Output(a) PROVE Mailbox!MNext
  BY <1>3, TakeOwes, CallerSplit DEF Output, Mailbox!MNext
<1>4. ASSUME Write PROVE Mailbox!MNext
  <2>1. lsn.cur \in lsn.todo
    BY <1>4, WriteMoves
  <2> QED BY <1>4, <2>1, TakeOwes, CallerSplit DEF Write, lsn, Mailbox!MNext
<1>5. ASSUME LetsGo PROVE Owed' = Owed /\ seen' = seen
  BY <1>t, <1>5, LetsGoMoves, OwedKept DEF Settled
<1>6. ASSUME NEW c \in Caller, NEW s \in Session, Deliver(c, s) \/ DeliverLost(c, s)
      PROVE  Owed' = Owed /\ seen' = seen
  <2>1. LeasedTo(c, s) /\ UNCHANGED seen
    BY <1>6, DeliversKeeps
  <2>2. \A t \in Session : rec'[t].outbox \cup rec'[t].inflight = rec[t].outbox \cup rec[t].inflight
    BY <2>1 DEF LeasedTo, Undelivered
  <2> QED BY <2>1, <2>2, OwedHolds, OwedHoldsNext
<1>7. ASSUME Relay PROVE Owed' = Owed /\ seen' = seen
  <2>1. Settled
    BY <1>7, RelayKeeps
  <2> QED BY <1>7, <2>1, OwedKept DEF Settled, Relay, Quiet, history
<1>8. UNCHANGED <<rec, seen>> => Owed' = Owed
  BY OwedKept
<1>9. ASSUME NEW p \in Prompt, Look(p) PROVE Owed' = Owed /\ seen' = seen
  BY <1>8, <1>9 DEF Look, Quiet, history
<1>10. ASSUME CountUnread \/ Ring PROVE Owed' = Owed /\ seen' = seen
  BY <1>8, <1>10 DEF CountUnread, Ring, Quiet, history
<1>11. ASSUME CommanderStep PROVE Owed' = Owed /\ seen' = seen
  BY <1>8, <1>11, CommanderReads DEF Reads
<1>12. ASSUME UNCHANGED vars PROVE Owed' = Owed /\ seen' = seen
  BY <1>8, <1>12 DEF vars
<1>13. CASE \E s \in Session : Human(s)
  BY <1>1, <1>13 DEF Human, HubStep
<1>14. CASE \E c \in Caller : Polls(c)
  BY <1>2, <1>5, <1>6, <1>14 DEF Polls, LetsGo
<1>15. CASE (\E a \in Agent : Output(a) \/ \E s \in Session : StartPoll(a, s)) \/ StartListener \/ Restart
  BY <1>3, <1>5, <1>15 DEF LetsGo
<1>16. CASE Handles
  BY <1>4, <1>5, <1>7, <1>9, <1>10, <1>16 DEF Handles, LetsGo
<1>17. CASE Commander
  BY <1>1, <1>11, <1>17 DEF Commander, HubStep, CommanderStep
<1> QED BY <1>12, <1>13, <1>14, <1>15, <1>16, <1>17 DEF Next

-----------------------------------------------------------------------------
(* The theorems.                                                            *)

LEMMA ForumStarts == Init => ForumIInv
<1> SUFFICES ASSUME Init PROVE ForumIInv
  OBVIOUS
<1>1. TypeOK
  <2>1. Blank \in Record
    BY DEF Blank, Record
  <2> QED BY <2>1, RestTyped DEF Init, TypeOK
<1>2. \A c \in Caller : call[c].at = "gone"
  BY DEF Init, Gone, RestCall
<1>3. CallsNamed /\ Handed /\ PrintedTold /\ Rung
  BY <1>2, CallerSplit DEF CallsNamed, Handling, Handed, PrintedTold, Has, Rung, lsn
<1>4. OneSession /\ OnePlace /\ NewsUnread /\ BellRings
  BY <1>2 DEF Init, Blank, OneSession, OnePlace, NewsUnread, BellRings, At, Has, Handling
<1>5. WaitHonest
  BY DEF Init, Blank, WaitHonest
<1> QED BY <1>1, <1>3, <1>4, <1>5 DEF ForumIInv, TypeInv, FlowInv, BellInv

LEMMA ForumSteps == ForumIInv /\ [Next]_vars => ForumIInv'
<1> SUFFICES ASSUME Inv, WaitHonest, [Next]_vars PROVE Inv'
  BY HonestKeeps DEF ForumIInv, Inv
<1>1. CASE \E s \in Session : Human(s)
  BY <1>1, HubKeeps DEF Human, HubStep
<1>2. CASE \E c \in Caller : Polls(c)
  BY <1>2, LetsGoKeeps, AckKeeps, DeliversKeeps DEF Polls, LetsGo
<1>3. CASE \E a \in Agent : Output(a) \/ \E s \in Session : StartPoll(a, s)
  BY <1>3, OutputKeeps, LetsGoKeeps DEF LetsGo
<1>4. CASE StartListener \/ Restart
  BY <1>4, LetsGoKeeps DEF LetsGo
<1>5. CASE Handles
  BY <1>5, CountKeeps, WriteKeeps, RingKeeps, RelayKeeps, LookKeeps, LetsGoKeeps DEF Handles, LetsGo
<1>6. CASE Commander
  BY <1>6, HubKeeps, CommanderKeeps DEF Commander, HubStep, CommanderStep
<1>7. CASE UNCHANGED vars
  BY <1>7 DEF vars, Inv, TypeInv, TypeOK, CallsNamed, FlowInv, OneSession, OnePlace, Handed, At, Has,
              BellInv, NewsUnread, PrintedTold, Rung, BellRings, lsn
<1> QED BY <1>1, <1>2, <1>3, <1>4, <1>5, <1>6, <1>7 DEF Next

\* Every value has its type, and an entry nobody was told of has its wake on the way or
\* is leased still, whatever fails, dies, is lost or polled by others (listen.go handle,
\* forumwake.go claimForum).
THEOREM NewsRings == Spec => []BellsRing
<1>1. ForumIInv => BellsRing
  BY DEF ForumIInv, TypeInv, BellInv, BellsRing
<1> QED BY <1>1, ForumStarts, ForumSteps, PTL DEF Spec

\* The review surface waits, and says its round was relayed, for an unanswered round only
\* (hub.go Relay, ReplyChecked, Send).
THEOREM WaitsHonestly == Spec => []WaitHonest
<1>1. ForumIInv => WaitHonest
  BY DEF ForumIInv
<1> QED BY <1>1, ForumStarts, ForumSteps, PTL DEF Spec

\* A prompt the human sent stays owed, through restarts, dead listeners, lost answers
\* and competing polls, until it is an inbox entry or in the output of a poll: the hub,
\* the listener and the inbox implement ForumMailbox (hub.go deliver and Ack, listen.go
\* handle).
THEOREM MailboxRefined == Spec => MailboxSpec
<1>1. Init => Mailbox!MInit
  BY OwedHolds DEF Init, Blank, Mailbox!MInit
<1>2. ForumIInv /\ [Next]_vars => [Mailbox!MNext]_Mailbox!mvars
  BY MailboxSteps DEF ForumIInv, Inv
<1> QED BY <1>1, <1>2, ForumStarts, ForumSteps, PTL DEF Spec, MailboxSpec, Mailbox!MSpec
=============================================================================
