-------------------------- MODULE Supervision_proof --------------------------
(***************************************************************************)
(* Proofs about Supervision, for any number of turns and of vx commands,   *)
(* one of which works on the task at a time, and whatever else happens:    *)
(* panes that die, outages of herdr, commands that fail or are killed, a   *)
(* sentinel that crashes.  One inductive invariant for each question, on   *)
(* top of what a tick and the commands have read (SupTypes): LeaseIInv     *)
(* (who holds the camp), LifeIInv (the status), AmendIInv (the amendments).*)
(***************************************************************************)
EXTENDS Supervision, TLAPS

USE SupervisionAssumption DEF Id, Turn, Statuses, L!Statuses, Reopenable, L!Reopenable

\* One vx command at a time works on the task.
OneCommand == \A p, q \in Proc : p = q

-----------------------------------------------------------------------------
(* What holds for any number of commands: which command is at which stage,   *)
(* and what a tick has read.                                                 *)

KindsAt == [idle |-> {"none"}, discard |-> {"redispatch"}, reset |-> {"redispatch"},
            acquire |-> Launches, tab |-> Launches, run |-> Launches, start |-> Launches,
            stamp |-> Launches, fail |-> Launches, mark |-> {"prompt"}, restore |-> {"prompt"},
            deliver |-> Launches \cup Speeches, probe |-> Launches \cup Speeches,
            record |-> Launches \cup Speeches \cup {"dismiss"}, look |-> {"dismiss"},
            interrupt |-> {"decide", "dismiss"}, retire |-> {"strike", "land"},
            close |-> {"strike", "land"}, ship |-> {"ship"}]
Results == {"blocked", "running", "done", "unconfirmed"}
Fits(c) == /\ c.kind \in KindsAt[c.at]
           /\ c.at = "record" => c.res \in Results \cup {"sent"} /\ (c.kind = "dismiss" => c.res # "sent")
           /\ IF c.at = "idle" THEN c.id = 0 ELSE c.id \in 1..issued
TickFits == /\ snt.at \in {"reopen", "reopenSave"} => snt.snap.st \in Reopenable
            /\ snt.at \in {"probe", "act"} => snt.snap.st = "running"
            /\ snt.at = "save" => snt.next.st \in Results \cup {"interrupted"}
SupTypes == TypeOK /\ TickFits /\ \A p \in Proc : Fits(cmd[p])

\* What the operators on records return.
LEMMA TouchedIs ==
  ASSUME NEW r \in Records, NEW st \in Statuses
  PROVE  /\ Touched(r, st) \in Records /\ Touched(r, st).st = st /\ Touched(r, st).fresh = TRUE
         /\ Touched(r, st).missing = r.missing /\ Touched(r, st).idle = r.idle
         /\ Touched(r, st).submitted = r.submitted /\ Touched(r, st).amends = r.amends
         /\ Touched(r, st).agent = r.agent /\ Touched(r, st).by = 0
  BY DEF Touched, Records

LEMMA AskedIs ==
  ASSUME NEW r \in Records, NEW q \in Turn
  PROVE  /\ Asked(r, q) \in Records /\ Asked(r, q).st = "blocked" /\ Asked(r, q).fresh = TRUE
         /\ Asked(r, q).missing = r.missing /\ Asked(r, q).idle = r.idle
         /\ Asked(r, q).submitted = r.submitted /\ Asked(r, q).amends = r.amends
         /\ Asked(r, q).agent = r.agent
<1> PICK t : t = Touched(r, "blocked")
  OBVIOUS
<1>1. /\ t \in Records /\ t.st = "blocked" /\ t.fresh = TRUE
      /\ t.missing = r.missing /\ t.idle = r.idle
      /\ t.submitted = r.submitted /\ t.amends = r.amends /\ t.agent = r.agent
  BY TouchedIs
<1> QED BY <1>1 DEF Asked, Records

LEMMA NewIs ==
  /\ NewRec \in Records /\ NewRec.st = "pending" /\ NewRec.missing = "no" /\ NewRec.idle = "no"
  /\ NewRec.amends = {} /\ NewRec.agent = FALSE
  BY DEF NewRec, Records, Mark

LEMMA NoTickIs == NoTick \in Tick /\ NoTick.at = "idle"
  BY NewIs DEF NoTick, Tick

LEMMA NoCmdIs ==
  /\ NoCmd \in Cmds /\ NoCmd.at = "idle" /\ NoCmd.kind = "none" /\ NoCmd.id = 0 /\ Fits(NoCmd)
  BY NewIs DEF NoCmd, Cmds, Fits, KindsAt

\* A tick that goes on.
LEMMA TickIs ==
  ASSUME NEW t \in Tick
  PROVE  /\ t.snap \in Records /\ t.next \in Records
         /\ \A a \in {"down", "idle", "reopen", "reopenSave", "probe", "act", "save", "undelivered", "wake"} :
               LET n == [t EXCEPT !.at = a] IN
               n \in Tick /\ n.at = a /\ n.snap = t.snap /\ n.next = t.next /\ n.live = t.live
         /\ \A l \in {"none", "unknown", "gone", "working", "blocked", "idle"} :
               LET n == [t EXCEPT !.at = "act", !.live = l] IN
               n \in Tick /\ n.at = "act" /\ n.snap = t.snap /\ n.next = t.next /\ n.live = l
  BY DEF Tick

LEMMA SaveIs ==
  ASSUME NEW r \in Records
  PROVE  /\ [NoTick EXCEPT !.at = "save", !.next = r] \in Tick
         /\ [NoTick EXCEPT !.at = "save", !.next = r].at = "save"
         /\ [NoTick EXCEPT !.at = "save", !.next = r].next = r
  BY NoTickIs DEF Tick

\* A command that goes on.
LEMMA GoesTo ==
  ASSUME NEW c \in Cmds, NEW a \in DOMAIN KindsAt
  PROVE  LET n == [c EXCEPT !.at = a] IN
         /\ n \in Cmds /\ n.at = a /\ n.kind = c.kind /\ n.id = c.id /\ n.copy = c.copy
         /\ n.res = c.res /\ n.asks = c.asks
  BY DEF Cmds, KindsAt

LEMMA SavedIs ==
  ASSUME rec \in Records, NEW r \in Records
  PROVE  /\ Saved(r) \in Records
         /\ rec.st # "running" => Saved(r) = rec
         /\ rec.st = "running" =>
               /\ Saved(r).st = r.st /\ Saved(r).missing = r.missing /\ Saved(r).idle = r.idle
               /\ Saved(r).amends = r.amends /\ Saved(r).fresh = r.fresh /\ Saved(r).agent = r.agent
               /\ Saved(r).submitted = (r.submitted \/ rec.submitted)
  BY DEF Saved, Records

-----------------------------------------------------------------------------
(* Every variable keeps its kind.                                            *)

LEMMA SupStart == Init => SupTypes
<1> SUFFICES ASSUME Init PROVE SupTypes
  OBVIOUS
<1>1. TypeOK
  <2>1. rec \in Records /\ snt \in Tick /\ cmd \in [Proc -> Cmds]
    BY NewIs, NoTickIs, NoCmdIs DEF Init
  <2>2. 0 \in Turn /\ issued = 0
    BY DEF Init
  <2>3. /\ leased \in BOOLEAN /\ pane \in Panes /\ turn \in Turn /\ line \in Turn
        /\ signal \in BOOLEAN /\ paused \in BOOLEAN /\ heard \subseteq Id /\ unsure \subseteq Id
        /\ tasked \in BOOLEAN
    BY <2>2 DEF Init, Panes
  <2> QED BY <2>1, <2>2, <2>3 DEF TypeOK
<1>2. TickFits
  BY NoTickIs DEF Init, TickFits
<1>3. \A p \in Proc : cmd[p] = NoCmd
  BY DEF Init
<1> QED BY <1>1, <1>2, <1>3, NoCmdIs DEF SupTypes

\* What a tick makes of the copy it works on, to save it.
Plan(r) == /\ snt.at = "act" /\ r \in Records /\ ToSave(r) /\ r.st \in Results \cup {"interrupted"}
           /\ r.amends = snt.snap.amends
           /\ r.missing = "old" => snt.snap.missing = "old"
           /\ r.idle = "old" => snt.snap.idle = "old"
           /\ r.st \in {"running", "blocked", "done"} \/ "old" \in {snt.snap.missing, snt.snap.idle}
           /\ r.st = "interrupted" => snt.live = "gone" /\ snt.snap.missing = "old"
\* A tick that is over, or has found the prompt undelivered.
Rests == snt' \in Tick /\ snt'.at \in {"idle", "down", "wake"}
Undelivered == snt.at = "act" /\ snt.snap.idle = "old" /\ snt' = [NoTick EXCEPT !.at = "undelivered"]
Sees == Snapshot \/ ReopenProbe \/ Probe \/ Outage

LEMMA SnapIs ==
  ASSUME SupTypes
  PROVE  snt \in Tick /\ snt.snap \in Records /\ snt.next \in Records /\ rec \in Records
         /\ (snt.at \in {"probe", "act"} => snt.snap.st = "running")
<1>1. snt \in Tick /\ rec \in Records
  BY DEF SupTypes, TypeOK
<1> QED BY <1>1, TickIs DEF SupTypes, TickFits

LEMMA TickSettles ==
  ASSUME SupTypes, AgentNotFound \/ SettleBlocked \/ SettleNeedsDecision \/ HoldUnfinishedTurn
                   \/ SettleDone \/ ExcusePause \/ IdleUnconfirmed
  PROVE  Rests \/ Undelivered \/ \E r : Plan(r)
<1>1. snt.snap \in Records /\ snt.at = "act" /\ snt.snap.st = "running" /\ turn \in Turn /\ line \in Turn
  BY SnapIs DEF SupTypes, TypeOK, AgentNotFound, SettleBlocked, SettleNeedsDecision, HoldUnfinishedTurn,
                SettleDone, ExcusePause, IdleUnconfirmed, Idle, Present
<1>n. TickDone => Rests
  BY NoTickIs DEF TickDone, Rests
<1> DEFINE m == [snt.snap EXCEPT !.missing = "new"]
           i == [snt.snap EXCEPT !.idle = "new"]
           u == Touched(snt.snap, "unconfirmed")
<1>m. m \in Records /\ m.st = "running" /\ m.amends = snt.snap.amends /\ m.missing = "new" /\ m.idle = snt.snap.idle
  BY <1>1 DEF Records, Mark
<1>i. i \in Records /\ i.st = "running" /\ i.amends = snt.snap.amends /\ i.missing = snt.snap.missing /\ i.idle = "new"
  BY <1>1 DEF Records, Mark
<1>u. u \in Records /\ u.st = "unconfirmed" /\ u.amends = snt.snap.amends /\ u.missing = snt.snap.missing /\ u.idle = snt.snap.idle
  BY <1>1, TouchedIs
<1>w. MarkIdle(snt.snap) => Rests \/ Plan(i)
  BY <1>1, <1>n, <1>i DEF MarkIdle, Plan, Results
<1>z. snt.snap.idle = "old" /\ ToSave(u) => Plan(u)
  BY <1>1, <1>u DEF Plan, Results
<1> HIDE DEF m, i, u
<1>2. CASE AgentNotFound
  <2> DEFINE r == Touched(snt.snap, "interrupted")
  <2>1. r \in Records /\ r.st = "interrupted" /\ r.amends = snt.snap.amends /\ r.missing = snt.snap.missing /\ r.idle = snt.snap.idle
    BY <1>1, TouchedIs
  <2>2. snt.live = "gone" /\ snt.snap.missing = "old" /\ ToSave(r) => Plan(r)
    BY <1>1, <2>1 DEF Plan, Results
  <2>3. snt.snap.missing = "no" /\ ToSave(m) => Plan(m)
    BY <1>1, <1>m DEF Plan, Results
  <2> HIDE DEF r
  <2> QED BY <1>2, <1>n, <2>2, <2>3 DEF AgentNotFound, r, m
<1>3. CASE SettleBlocked
  <2> DEFINE a == Asked(snt.snap, turn)
             r == [a EXCEPT !.idle = "no"]
  <2>1. a \in Records /\ a.st = "blocked" /\ a.amends = snt.snap.amends /\ a.missing = snt.snap.missing
    BY <1>1, AskedIs
  <2> HIDE DEF a
  <2>2. r \in Records /\ r.st = "blocked" /\ r.amends = snt.snap.amends /\ r.missing = snt.snap.missing /\ r.idle = "no"
    BY <2>1 DEF Records, Mark
  <2>3. ToSave(r)
    BY <1>3 DEF SettleBlocked, a
  <2> QED BY <1>1, <2>2, <2>3 DEF Plan, Results
<1>4. CASE SettleNeedsDecision
  <2> DEFINE a == Asked(snt.snap, line)
             r == [a EXCEPT !.idle = "no"]
  <2>1. a \in Records /\ a.st = "blocked" /\ a.amends = snt.snap.amends /\ a.missing = snt.snap.missing
    BY <1>1, AskedIs
  <2> HIDE DEF a
  <2>2. r \in Records /\ r.st = "blocked" /\ r.amends = snt.snap.amends /\ r.missing = snt.snap.missing /\ r.idle = "no"
    BY <2>1 DEF Records, Mark
  <2>3. ToSave(r)
    BY <1>4 DEF SettleNeedsDecision, a
  <2> QED BY <1>1, <2>2, <2>3 DEF Plan, Results
<1>5. CASE HoldUnfinishedTurn
  BY <1>5, <1>w, <1>z DEF HoldUnfinishedTurn, u
<1>6. CASE SettleDone
  <2> DEFINE a == Touched(snt.snap, "done")
             r == [a EXCEPT !.idle = "no"]
  <2>1. a \in Records /\ a.st = "done" /\ a.amends = snt.snap.amends /\ a.missing = snt.snap.missing
    BY <1>1, TouchedIs
  <2> HIDE DEF a
  <2>2. r \in Records /\ r.st = "done" /\ r.amends = snt.snap.amends /\ r.missing = snt.snap.missing /\ r.idle = "no"
    BY <2>1 DEF Records, Mark
  <2>3. ToSave(r)
    BY <1>6 DEF SettleDone, a
  <2> QED BY <1>1, <2>2, <2>3 DEF Plan, Results
<1>7. CASE ExcusePause
  <2> DEFINE r == [snt.snap EXCEPT !.idle = "no"]
  <2>1. r \in Records /\ r.st = "running" /\ r.amends = snt.snap.amends /\ r.missing = snt.snap.missing /\ r.idle = "no"
    BY <1>1 DEF Records, Mark
  <2>2. ToSave(r) => Plan(r)
    BY <1>1, <2>1 DEF Plan, Results
  <2> QED BY <1>7, <1>n, <2>2 DEF ExcusePause
<1>8. CASE IdleUnconfirmed
  BY <1>1, <1>8, <1>w, <1>z DEF IdleUnconfirmed, u, Undelivered
<1> QED BY <1>2, <1>3, <1>4, <1>5, <1>6, <1>7, <1>8

LEMMA TickStep ==
  ASSUME SupTypes, SentinelStep \/ Outage \/ Crash
  PROVE  /\ UNCHANGED <<leased, world, cmd, issued, history>>
         /\ \/ ReopenSave \/ AgentFound \/ Save \/ InterruptUndelivered
            \/ UNCHANGED rec /\ (Rests \/ Undelivered \/ Sees \/ \E r : Plan(r))
<1>1. UNCHANGED <<leased, world, cmd, issued, history>>
  BY DEF SentinelStep, Outage, Crash, Restart, Snapshot, ReopenProbe, ReopenSave, Probe, AgentNotFound, AgentFound,
         StillWorking, SettleBlocked, SettleNeedsDecision, HoldUnfinishedTurn, SettleDone, ExcusePause,
         IdleUnconfirmed, Save, InterruptUndelivered, RecordWake
<1>2. ASSUME AgentNotFound \/ SettleBlocked \/ SettleNeedsDecision \/ HoldUnfinishedTurn
             \/ SettleDone \/ ExcusePause \/ IdleUnconfirmed
      PROVE  UNCHANGED rec /\ (Rests \/ Undelivered \/ \E r : Plan(r))
  <2>1. UNCHANGED rec
    BY <1>2 DEF AgentNotFound, SettleBlocked, SettleNeedsDecision, HoldUnfinishedTurn, SettleDone, ExcusePause,
                IdleUnconfirmed
  <2> QED BY <1>2, <2>1, TickSettles
<1>3. ASSUME Restart \/ StillWorking \/ RecordWake \/ Crash PROVE UNCHANGED rec /\ Rests
  <2>1. [NoTick EXCEPT !.at = "down"] \in Tick /\ [NoTick EXCEPT !.at = "down"].at = "down"
    BY NoTickIs, TickIs
  <2> QED BY <1>3, <2>1, NoTickIs DEF Restart, StillWorking, RecordWake, Crash, TickDone, Rests
<1>4. Sees => UNCHANGED rec
  BY DEF Sees, Snapshot, ReopenProbe, Probe, Outage
<1> QED BY <1>1, <1>2, <1>3, <1>4 DEF SentinelStep, Sees

\* The writes of a tick.
LEMMA WriteIs ==
  ASSUME SupTypes
  PROVE  /\ ReopenSave =>
              /\ Rests /\ rec' \in Records
              /\ \/ rec' = rec
                 \/ /\ rec.st \in Reopenable /\ leased /\ rec'.st = "running" /\ rec'.fresh
                    /\ rec'.missing = "no" /\ rec'.idle = "no"
                    /\ rec'.amends = rec.amends /\ rec'.submitted = rec.submitted
         /\ AgentFound =>
              /\ snt.at = "act" /\ snt.live # "gone" /\ rec' \in Records
              /\ \/ rec.st # "running" /\ rec' = rec /\ Rests
                 \/ /\ rec.st = "running" /\ rec'.st = "running"
                    /\ rec'.missing = "no" /\ rec'.idle = snt.snap.idle
                    /\ rec'.amends = snt.snap.amends
                    /\ rec'.submitted = (snt.snap.submitted \/ rec.submitted)
                    /\ snt' \in Tick /\ snt'.at = "act" /\ snt'.live = snt.live
                    /\ snt'.snap.st = "running" /\ snt'.snap.missing = "no"
                    /\ snt'.snap.idle = snt.snap.idle /\ snt'.snap.amends = snt.snap.amends
         /\ Save =>
              /\ snt.at = "save" /\ Rests /\ rec' \in Records
              /\ \/ rec.st # "running" /\ rec' = rec
                 \/ /\ rec.st = "running" /\ rec'.st = snt.next.st
                    /\ rec'.missing = snt.next.missing /\ rec'.idle = snt.next.idle
                    /\ rec'.amends = snt.next.amends
                    /\ rec'.submitted = (snt.next.submitted \/ rec.submitted)
         /\ InterruptUndelivered =>
              /\ snt.at = "undelivered" /\ Rests /\ rec' \in Records
              /\ \/ rec' = rec
                 \/ /\ rec.st = "running" /\ ~rec.submitted /\ rec'.st = "interrupted"
                    /\ rec'.amends = rec.amends /\ rec'.submitted = rec.submitted
<1>1. snt \in Tick /\ snt.snap \in Records /\ snt.next \in Records /\ rec \in Records
      /\ (snt.at \in {"probe", "act"} => snt.snap.st = "running")
  BY SnapIs
<1>2. TickDone => Rests
  BY NoTickIs DEF TickDone, Rests
<1>3. \A b : Written(b) => Rests
  <2>1. [NoTick EXCEPT !.at = "wake"] \in Tick /\ [NoTick EXCEPT !.at = "wake"].at = "wake"
    BY NoTickIs DEF Tick
  <2> QED BY <2>1, NoTickIs DEF Written, Rests
<1>4. ASSUME ReopenSave
      PROVE  /\ Rests /\ rec' \in Records
             /\ \/ rec' = rec
                \/ /\ rec.st \in Reopenable /\ leased /\ rec'.st = "running" /\ rec'.fresh
                   /\ rec'.missing = "no" /\ rec'.idle = "no"
                   /\ rec'.amends = rec.amends /\ rec'.submitted = rec.submitted
  <2> DEFINE t == Touched(rec, "running")
             r == [t EXCEPT !.missing = "no", !.idle = "no"]
  <2>1. t \in Records /\ t.st = "running" /\ t.fresh = TRUE /\ t.amends = rec.amends /\ t.submitted = rec.submitted
    BY <1>1, TouchedIs
  <2> HIDE DEF t
  <2>2. /\ r \in Records /\ r.st = "running" /\ r.fresh = TRUE /\ r.amends = rec.amends
        /\ r.submitted = rec.submitted /\ r.missing = "no" /\ r.idle = "no"
    BY <2>1 DEF Records, Mark
  <2>3. snt.snap.st \in Reopenable
    BY <1>4 DEF ReopenSave, SupTypes, TickFits
  <2>4. rec' = rec \/ (rec' = r /\ rec.st = snt.snap.st /\ leased)
    BY <1>4 DEF ReopenSave, t
  <2> HIDE DEF r
  <2> QED BY <1>1, <1>2, <1>4, <2>2, <2>3, <2>4 DEF ReopenSave
<1>5. ASSUME AgentFound
      PROVE  /\ snt.at = "act" /\ snt.live # "gone" /\ rec' \in Records
             /\ \/ rec.st # "running" /\ rec' = rec /\ Rests
                \/ /\ rec.st = "running" /\ rec'.st = "running"
                   /\ rec'.missing = "no" /\ rec'.idle = snt.snap.idle
                   /\ rec'.amends = snt.snap.amends
                   /\ rec'.submitted = (snt.snap.submitted \/ rec.submitted)
                   /\ snt' \in Tick /\ snt'.at = "act" /\ snt'.live = snt.live
                   /\ snt'.snap.st = "running" /\ snt'.snap.missing = "no"
                   /\ snt'.snap.idle = snt.snap.idle /\ snt'.snap.amends = snt.snap.amends
  <2> DEFINE r == [snt.snap EXCEPT !.missing = "no"]
             t == [snt EXCEPT !.snap = r]
  <2>1. snt.at = "act" /\ snt.snap.st = "running" /\ snt.live # "gone"
    BY <1>1, <1>5 DEF AgentFound
  <2>2. /\ r \in Records /\ r.st = "running" /\ r.missing = "no" /\ r.idle = snt.snap.idle
        /\ r.amends = snt.snap.amends /\ r.submitted = snt.snap.submitted
    BY <1>1, <2>1 DEF Records, Mark
  <2>3. rec' = Saved(r) /\ snt' = IF rec.st = "running" THEN t ELSE NoTick
    BY <1>5 DEF AgentFound
  <2> HIDE DEF r
  <2>4. t \in Tick /\ t.at = "act" /\ t.live = snt.live /\ t.snap = r
    BY <1>1, <2>1, <2>2 DEF Tick
  <2> HIDE DEF t
  <2>5. CASE rec.st = "running"
    BY <1>1, <2>1, <2>2, <2>3, <2>4, <2>5, SavedIs
  <2>6. CASE rec.st # "running"
    BY <1>1, <1>2, <2>1, <2>2, <2>3, <2>6, SavedIs DEF TickDone
  <2> QED BY <2>5, <2>6
<1>6. ASSUME Save
      PROVE  /\ snt.at = "save" /\ Rests /\ rec' \in Records
             /\ \/ rec.st # "running" /\ rec' = rec
                \/ /\ rec.st = "running" /\ rec'.st = snt.next.st
                   /\ rec'.missing = snt.next.missing /\ rec'.idle = snt.next.idle
                   /\ rec'.amends = snt.next.amends
                   /\ rec'.submitted = (snt.next.submitted \/ rec.submitted)
  <2>1. snt.at = "save" /\ Rests /\ rec' = Saved(snt.next)
    BY <1>3, <1>6 DEF Save
  <2> QED BY <1>1, <2>1, SavedIs
<1>7. ASSUME InterruptUndelivered
      PROVE  /\ snt.at = "undelivered" /\ Rests /\ rec' \in Records
             /\ \/ rec' = rec
                \/ /\ rec.st = "running" /\ ~rec.submitted /\ rec'.st = "interrupted"
                   /\ rec'.amends = rec.amends /\ rec'.submitted = rec.submitted
  <2> DEFINE t == Touched(rec, "interrupted")
             r == [t EXCEPT !.idle = "no"]
  <2>1. t \in Records /\ t.st = "interrupted" /\ t.amends = rec.amends /\ t.submitted = rec.submitted
    BY <1>1, TouchedIs
  <2> HIDE DEF t
  <2>2. r \in Records /\ r.st = "interrupted" /\ r.amends = rec.amends /\ r.submitted = rec.submitted
    BY <2>1 DEF Records, Mark
  <2>3. rec' = rec \/ (rec' = r /\ rec.st = "running" /\ ~rec.submitted)
    BY <1>7 DEF InterruptUndelivered, t
  <2> HIDE DEF r
  <2> QED BY <1>1, <1>3, <1>7, <2>2, <2>3 DEF InterruptUndelivered
<1> QED BY <1>4, <1>5, <1>6, <1>7

\* What a tick that looks around has read.
LEMMA SeenIs ==
  ASSUME SupTypes, Sees
  PROVE  /\ snt' \in Tick /\ snt'.at \in {"idle", "reopen", "reopenSave", "probe", "act"}
         /\ snt'.at \in {"reopen", "reopenSave"} => snt'.snap.st \in Reopenable
         /\ snt'.at = "probe" => snt.at = "idle" /\ rec.st = "running" /\ ~rec.fresh /\ snt'.snap = rec
         /\ snt'.at = "act" => /\ snt.at = "probe" /\ snt'.snap = snt.snap
                               /\ snt'.live = "gone" /\ snt.snap.missing = "old" => pane \in {"none", "gone"}
<1>1. snt \in Tick /\ rec \in Records
  BY SnapIs
<1>2. CASE Snapshot
  <2> DEFINE o == [NoTick EXCEPT !.at = "reopen", !.snap.st = rec.st]
             b == [NoTick EXCEPT !.at = "probe", !.snap = rec]
  <2>1. rec.st \in Statuses
    BY <1>1 DEF Records
  <2>2. o \in Tick /\ o.at = "reopen" /\ o.snap.st = rec.st
    <3>1. NoTick.snap \in Records
      BY NoTickIs, TickIs
    <3>2. [NoTick.snap EXCEPT !.st = rec.st] \in Records /\ [NoTick.snap EXCEPT !.st = rec.st].st = rec.st
      BY <2>1, <3>1 DEF Records
    <3> QED BY <3>2, NoTickIs DEF Tick
  <2>3. b \in Tick /\ b.at = "probe" /\ b.snap = rec
    BY <1>1, NoTickIs DEF Tick
  <2>4. (snt' = o /\ rec.st \in Reopenable) \/ (snt' = b /\ snt.at = "idle" /\ rec.st = "running" /\ ~rec.fresh)
    BY <1>2 DEF Snapshot
  <2> HIDE DEF o, b
  <2> QED BY <2>2, <2>3, <2>4
<1>3. CASE ReopenProbe
  <2>1. snt.snap.st \in Reopenable
    BY <1>3 DEF ReopenProbe, SupTypes, TickFits
  <2>2. LET n == [snt EXCEPT !.at = "reopenSave"] IN n \in Tick /\ n.at = "reopenSave" /\ n.snap = snt.snap
    BY <1>1, TickIs
  <2> QED BY <1>3, <2>1, <2>2, NoTickIs DEF ReopenProbe
<1>4. CASE Probe
  <2>1. Live \in {"unknown", "gone", "working", "blocked", "idle"} /\ (Live = "gone" => pane \in {"none", "gone"})
    BY DEF SupTypes, TypeOK, Panes, Live, Shown
  <2>2. PICK l \in {"none", "unknown", "gone", "working", "blocked", "idle"} : l = Live
    BY <2>1
  <2>3. LET n == [snt EXCEPT !.at = "act", !.live = l] IN n \in Tick /\ n.at = "act" /\ n.snap = snt.snap /\ n.live = l
    BY <1>1 DEF Tick
  <2>4. snt.at = "probe" /\ snt' = IF l = "unknown" THEN NoTick ELSE [snt EXCEPT !.at = "act", !.live = l]
    BY <1>4, <2>2 DEF Probe
  <2> QED BY <2>1, <2>2, <2>3, <2>4, NoTickIs
<1>5. CASE Outage
  <2>1. LET n == [snt EXCEPT !.at = "act", !.live = "gone"] IN n \in Tick /\ n.at = "act" /\ n.snap = snt.snap
    BY <1>1, TickIs
  <2>2. snt.at = "probe" /\ snt.snap.missing # "old" /\ snt' = [snt EXCEPT !.at = "act", !.live = "gone"]
    BY <1>5 DEF Outage
  <2> QED BY <2>1, <2>2
<1> QED BY <1>2, <1>3, <1>4, <1>5 DEF Sees

LEMMA TickTypes ==
  ASSUME SupTypes, SentinelStep \/ Outage \/ Crash
  PROVE  SupTypes'
<1>1. UNCHANGED <<leased, world, cmd, issued, history>>
  BY TickStep
<1>2. rec' \in Records /\ snt' \in Tick /\ TickFits'
  <2>1. Rests => snt' \in Tick /\ TickFits'
    BY DEF Rests, TickFits
  <2>2. CASE ReopenSave \/ Save \/ InterruptUndelivered
    BY <2>1, <2>2, WriteIs
  <2>3. CASE AgentFound
    BY <2>1, <2>3, WriteIs DEF TickFits
  <2>4. CASE UNCHANGED rec /\ Sees
    BY <2>4, SeenIs, SnapIs DEF TickFits
  <2>5. CASE UNCHANGED rec /\ Undelivered
    <3>1. snt' \in Tick /\ snt'.at = "undelivered"
      BY <2>5, NoTickIs, TickIs DEF Undelivered
    <3> QED BY <2>5, <3>1, SnapIs DEF TickFits
  <2>6. ASSUME NEW r, Plan(r), UNCHANGED rec PROVE rec' \in Records /\ snt' \in Tick /\ TickFits'
    <3>1. snt' \in Tick /\ snt'.at = "save" /\ snt'.next = r
      BY <2>6, SaveIs DEF Plan, ToSave
    <3> QED BY <2>6, <3>1, SnapIs DEF TickFits, Plan
  <2>7. CASE UNCHANGED rec /\ Rests
    BY <2>1, <2>7, SnapIs
  <2> QED BY <2>2, <2>3, <2>4, <2>5, <2>6, <2>7, TickStep
<1>3. \A p \in Proc : Fits(cmd[p])'
  BY <1>1 DEF SupTypes, Fits
<1>4. TypeOK'
  BY <1>1, <1>2 DEF SupTypes, TypeOK, world, history
<1> QED BY <1>2, <1>3, <1>4 DEF SupTypes

\* The command of process p goes on to stage a.
Moves(p, a) == /\ cmd' = [cmd EXCEPT ![p] = cmd'[p]] /\ cmd'[p] \in Cmds
               /\ cmd'[p].at = a /\ cmd'[p].kind = cmd[p].kind /\ cmd'[p].id = cmd[p].id
KeepsCopy(p) == cmd'[p].copy = cmd[p].copy

LEMMA MineIs ==
  ASSUME SupTypes, NEW p \in Proc
  PROVE  /\ cmd \in [Proc -> Cmds] /\ cmd[p] \in Cmds /\ cmd[p].copy \in Records /\ rec \in Records
         /\ cmd[p].kind \in KindsAt[cmd[p].at] /\ cmd[p].at \in DOMAIN KindsAt
         /\ (cmd[p].at = "record" => cmd[p].res \in Results \cup {"sent"} /\ (cmd[p].kind = "dismiss" => cmd[p].res # "sent"))
         /\ (cmd[p].at # "idle" => cmd[p].id \in Id /\ cmd[p].id \in 1..issued)
         /\ cmd[p].asks \in Turn
<1>1. cmd \in [Proc -> Cmds] /\ rec \in Records /\ issued \in {0} \cup Id /\ Fits(cmd[p])
  BY DEF SupTypes, TypeOK
<1>2. cmd[p] \in Cmds
  BY <1>1
<1>3. cmd[p].copy \in Records /\ cmd[p].at \in DOMAIN KindsAt /\ cmd[p].id \in {0} \cup Id /\ cmd[p].asks \in Turn
  BY <1>2 DEF Cmds, KindsAt
<1>4. cmd[p].at # "idle" => cmd[p].id \in 1..issued
  BY <1>1 DEF Fits
<1>5. cmd[p].id # 0 => cmd[p].id \in Id
  BY <1>3
<1>6. \A i \in 1..issued : i # 0
  OBVIOUS
<1> QED BY <1>1, <1>2, <1>3, <1>4, <1>5, <1>6 DEF Fits

LEMMA KindAt ==
  /\ KindsAt["idle"] = {"none"} /\ KindsAt["discard"] = {"redispatch"}
  /\ KindsAt["reset"] = {"redispatch"}
  /\ KindsAt["acquire"] = Launches /\ KindsAt["tab"] = Launches /\ KindsAt["run"] = Launches
  /\ KindsAt["start"] = Launches /\ KindsAt["stamp"] = Launches
  /\ KindsAt["mark"] = {"prompt"} /\ KindsAt["deliver"] = Launches \cup Speeches
  /\ KindsAt["retire"] = {"strike", "land"} /\ KindsAt["close"] = {"strike", "land"}
  /\ KindsAt["fail"] = Launches /\ KindsAt["restore"] = {"prompt"} /\ KindsAt["look"] = {"dismiss"}
  /\ KindsAt["probe"] = Launches \cup Speeches /\ KindsAt["record"] = Launches \cup Speeches \cup {"dismiss"}
  /\ KindsAt["interrupt"] = {"decide", "dismiss"} /\ KindsAt["ship"] = {"ship"}
  BY DEF KindsAt

LEMMA KindIs ==
  ASSUME SupTypes, NEW p \in Proc
  PROVE  /\ cmd[p].at \in {"discard", "reset"} => cmd[p].kind = "redispatch"
         /\ cmd[p].at \in {"acquire", "tab", "run", "start", "stamp", "fail"} => cmd[p].kind \in Launches
         /\ cmd[p].at \in {"mark", "restore"} => cmd[p].kind = "prompt"
         /\ cmd[p].at \in {"deliver", "probe"} => cmd[p].kind \in Launches \cup Speeches
         /\ cmd[p].at = "record" => cmd[p].kind \in Launches \cup Speeches \cup {"dismiss"}
         /\ cmd[p].at = "interrupt" => cmd[p].kind \in {"decide", "dismiss"}
         /\ cmd[p].at \in {"retire", "close"} => cmd[p].kind \in {"strike", "land"}
         /\ cmd[p].at = "look" => cmd[p].kind = "dismiss"
         /\ cmd[p].at = "ship" => cmd[p].kind = "ship"
<1>1. PICK a, k : a = cmd[p].at /\ k = cmd[p].kind
  OBVIOUS
<1>2. k \in KindsAt[a]
  BY <1>1, MineIs
<1> QED BY <1>1, <1>2, KindAt

LEMMA GotoMoves ==
  ASSUME SupTypes, NEW p \in Proc, NEW a \in DOMAIN KindsAt, Goto(p, a)
  PROVE  Moves(p, a) /\ KeepsCopy(p)
<1> PICK c : c = [cmd[p] EXCEPT !.at = a]
  OBVIOUS
<1>1. cmd \in [Proc -> Cmds] /\ cmd[p] \in Cmds
  BY MineIs
<1>2. c \in Cmds /\ c.at = a /\ c.kind = cmd[p].kind /\ c.id = cmd[p].id /\ c.copy = cmd[p].copy
  BY <1>1, GoesTo
<1>3. cmd' = [cmd EXCEPT ![p] = c]
  BY DEF Goto
<1>4. cmd'[p] = c
  BY <1>1, <1>3
<1> QED BY <1>2, <1>3, <1>4 DEF Moves, KeepsCopy

\* A launch.
LEMMA DiscardIs ==
  ASSUME SupTypes, NEW p \in Proc, Discard(p)
  PROVE  /\ cmd[p].at = "discard" /\ Moves(p, "reset") /\ UNCHANGED <<rec, turn, line, snt, issued, history>>
         /\ leased' = FALSE /\ signal' \in BOOLEAN /\ paused' \in BOOLEAN /\ pane' \in {pane, "gone"}
  BY GotoMoves DEF Discard, At, KindsAt, CloseTab

LEMMA ResetIs ==
  ASSUME SupTypes, NEW p \in Proc, Reset(p)
  PROVE  /\ cmd[p].at = "reset" /\ Moves(p, "acquire") /\ UNCHANGED <<leased, world, snt, issued, history>>
         /\ rec' \in Records /\ rec'.st = "pending" /\ rec'.missing = "no" /\ rec'.idle = rec.idle
         /\ rec'.amends = rec.amends /\ cmd'[p].copy = rec'
<1> DEFINE t == Touched(rec, "pending")
<1>t. t \in Records /\ t.st = "pending" /\ t.idle = rec.idle /\ t.amends = rec.amends
  BY MineIs, TouchedIs
<1>r. PICK r : r = [t EXCEPT !.agent = FALSE, !.submitted = FALSE, !.missing = "no", !.asked = 0, !.answered = FALSE]
  OBVIOUS
<1>1. rec' = r
  BY <1>r DEF Reset
<1> HIDE DEF t
<1>2. 0 \in Turn
  OBVIOUS
<1>3. r \in Records /\ r.st = "pending" /\ r.missing = "no" /\ r.idle = rec.idle /\ r.amends = rec.amends
  BY <1>t, <1>r, <1>2 DEF Records, Mark
<1>c. PICK c : c = [cmd[p] EXCEPT !.at = "acquire", !.copy = r]
  OBVIOUS
<1>4. c \in Cmds /\ c.at = "acquire" /\ c.kind = cmd[p].kind /\ c.id = cmd[p].id /\ c.copy = r
  BY <1>c, <1>3, MineIs DEF Cmds
<1>5. cmd' = [cmd EXCEPT ![p] = c]
  BY <1>1, <1>c, MineIs DEF Reset
<1>6. cmd'[p] = c
  BY <1>5, MineIs
<1> QED BY <1>1, <1>3, <1>4, <1>5, <1>6 DEF Reset, Moves, At

LEMMA AcquireIs ==
  ASSUME SupTypes, NEW p \in Proc, Acquire(p)
  PROVE  /\ cmd[p].at = "acquire" /\ Moves(p, "tab") /\ KeepsCopy(p) /\ UNCHANGED <<world, snt, issued, history>>
         /\ leased' = TRUE /\ rec' \in Records /\ rec'.st = cmd[p].copy.st /\ rec'.missing = cmd[p].copy.missing
         /\ rec'.idle = cmd[p].copy.idle /\ rec'.amends = cmd[p].copy.amends
<1>1. cmd[p].copy \in Records /\ cmd[p].copy.st \in Statuses
  BY MineIs DEF Records
<1>2. rec' = Touched(cmd[p].copy, cmd[p].copy.st)
  BY DEF Acquire, C
<1>3. /\ rec' \in Records /\ rec'.st = cmd[p].copy.st /\ rec'.missing = cmd[p].copy.missing
      /\ rec'.idle = cmd[p].copy.idle /\ rec'.amends = cmd[p].copy.amends
  BY <1>1, <1>2 DEF Touched, Records
<1> QED BY <1>3, GotoMoves DEF Acquire, At, KindsAt

LEMMA CreateTabIs ==
  ASSUME SupTypes, NEW p \in Proc, CreateTab(p)
  PROVE  /\ cmd[p].at = "tab" /\ Moves(p, "run") /\ pane' = "starting" /\ line' = 0 /\ tasked' = FALSE
         /\ UNCHANGED <<rec, leased, turn, signal, paused, snt, issued, heard, unsure>>
  BY GotoMoves DEF CreateTab, At, KindsAt

LEMMA RecordRunningIs ==
  ASSUME SupTypes, NEW p \in Proc, RecordRunning(p)
  PROVE  /\ cmd[p].at = "run" /\ Swift /\ Moves(p, "start") /\ UNCHANGED <<leased, world, snt, issued, history>>
         /\ rec' \in Records /\ rec'.st = "running" /\ rec'.missing = rec.missing /\ rec'.idle = rec.idle
         /\ rec'.amends = rec.amends /\ rec'.submitted = rec.submitted
<1> DEFINE t == Touched(rec, "running")
<1>t. /\ t \in Records /\ t.st = "running" /\ t.missing = rec.missing /\ t.idle = rec.idle
      /\ t.amends = rec.amends /\ t.submitted = rec.submitted
  BY MineIs, TouchedIs
<1>1. rec' = [t EXCEPT !.agent = TRUE]
  BY DEF RecordRunning
<1> HIDE DEF t
<1>c. PICK c : c = [cmd[p] EXCEPT !.at = "start", !.copy = NewRec]
  OBVIOUS
<1>4. c \in Cmds /\ c.at = "start" /\ c.kind = cmd[p].kind /\ c.id = cmd[p].id
  BY <1>c, MineIs, NewIs DEF Cmds
<1>5. cmd' = [cmd EXCEPT ![p] = c]
  BY <1>c, MineIs DEF RecordRunning
<1>6. cmd'[p] = c
  BY <1>5, MineIs
<1>7. Moves(p, "start")
  BY <1>4, <1>5, <1>6 DEF Moves
<1> QED BY <1>t, <1>1, <1>7 DEF RecordRunning, At, Records

LEMMA StartAgentIs ==
  ASSUME SupTypes, NEW p \in Proc, StartAgent(p)
  PROVE  /\ cmd[p].at = "start" /\ (Moves(p, "stamp") \/ Moves(p, "fail"))
         /\ UNCHANGED <<rec, leased, world, snt, issued, history>>
  BY GotoMoves DEF StartAgent, At, KindsAt

LEMMA StampIs ==
  ASSUME SupTypes, NEW p \in Proc, Stamp(p)
  PROVE  /\ cmd[p].at = "stamp" /\ Moves(p, "deliver") /\ UNCHANGED <<leased, world, snt, issued, history>>
         /\ rec' \in Records /\ rec'.st = rec.st /\ rec'.missing = rec.missing /\ rec'.idle = rec.idle
         /\ rec'.amends = rec.amends /\ rec'.submitted = rec.submitted
<1>1. rec \in Records /\ rec.st \in Statuses
  BY MineIs DEF Records
<1>2. rec' = Touched(rec, rec.st)
  BY DEF Stamp
<1>3. /\ rec' \in Records /\ rec'.st = rec.st /\ rec'.missing = rec.missing /\ rec'.idle = rec.idle
      /\ rec'.amends = rec.amends /\ rec'.submitted = rec.submitted
  BY <1>1, <1>2 DEF Touched, Records
<1> QED BY <1>3, GotoMoves DEF Stamp, At, KindsAt

\* A prompt.
LEMMA MarkRunningIs ==
  ASSUME SupTypes, NEW p \in Proc, MarkRunning(p)
  PROVE  /\ cmd[p].at = "mark" /\ Swift /\ Moves(p, "deliver") /\ UNCHANGED <<leased, world, snt, issued, history>>
         /\ rec' \in Records /\ rec'.st = "running" /\ rec'.fresh = TRUE /\ rec'.missing = "no" /\ rec'.idle = "no"
         /\ rec'.amends = rec.amends \cup {cmd[p].id} /\ rec'.submitted = rec.submitted /\ cmd'[p].copy = rec
<1> DEFINE t == Touched(rec, "running")
<1>t. /\ t \in Records /\ t.st = "running" /\ t.fresh = TRUE /\ t.amends = rec.amends /\ t.submitted = rec.submitted
  BY MineIs, TouchedIs
<1>0. cmd[p].at = "mark" /\ cmd[p].id \in Id /\ t.amends \subseteq Id
  BY <1>t, MineIs DEF MarkRunning, At, Records
<1>r. PICK r : r = [t EXCEPT !.amends = t.amends \cup {cmd[p].id}, !.by = cmd[p].id, !.missing = "no", !.idle = "no"]
  OBVIOUS
<1>1. rec' = r
  BY <1>r DEF MarkRunning, C
<1> HIDE DEF t
<1>3. /\ r \in Records /\ r.st = "running" /\ r.fresh = TRUE /\ r.missing = "no" /\ r.idle = "no"
      /\ r.amends = rec.amends \cup {cmd[p].id} /\ r.submitted = rec.submitted
  BY <1>t, <1>r, <1>0 DEF Records, Mark
<1>c. PICK c : c = [cmd[p] EXCEPT !.at = "deliver", !.copy = rec]
  OBVIOUS
<1>4. c \in Cmds /\ c.at = "deliver" /\ c.kind = cmd[p].kind /\ c.id = cmd[p].id /\ c.copy = rec
  BY <1>c, MineIs DEF Cmds
<1>5. cmd' = [cmd EXCEPT ![p] = c]
  BY <1>c, MineIs DEF MarkRunning
<1>6. cmd'[p] = c
  BY <1>5, MineIs
<1> QED BY <1>0, <1>1, <1>3, <1>4, <1>5, <1>6 DEF MarkRunning, Moves

\* What is delivered, and what is not.
LEMMA DeliverIs ==
  ASSUME SupTypes, NEW p \in Proc, Deliver(p)
  PROVE  /\ cmd[p].at = "deliver" /\ Moves(p, "probe") /\ KeepsCopy(p)
         /\ UNCHANGED <<rec, leased, line, signal, paused, snt, issued, unsure>>
         /\ pane \in Open /\ pane' = "working" /\ turn' \in Turn
         /\ heard' = (IF cmd[p].kind \in Speeches THEN heard \cup {cmd[p].id} ELSE heard)
         /\ tasked' = (tasked \/ cmd[p].kind \in Launches)
<1>1. turn \in Turn
  BY DEF SupTypes, TypeOK
<1>2. turn' \in Turn
  BY <1>1 DEF Deliver
<1> QED BY <1>2, GotoMoves DEF Deliver, At, KindsAt, C

LEMMA PaneGoneIs ==
  ASSUME SupTypes, NEW p \in Proc, PaneGone(p)
  PROVE  /\ cmd[p].at \in {"deliver", "probe"} /\ pane \in {"none", "gone"} /\ KeepsCopy(p)
         /\ cmd[p].kind \in Launches \cup Speeches /\ Moves(p, WhenGone[cmd[p].kind])
         /\ unsure' = (IF cmd[p].at = "probe" /\ cmd[p].kind \in Speeches THEN unsure \cup {cmd[p].id} ELSE unsure)
         /\ UNCHANGED <<rec, leased, world, snt, issued, heard, tasked>>
<1>1. cmd[p].at \in {"deliver", "probe"} /\ cmd[p].kind \in Launches \cup Speeches
  BY MineIs DEF PaneGone, C, KindsAt
<1>2. WhenGone[cmd[p].kind] \in DOMAIN KindsAt
  BY <1>1 DEF WhenGone, KindsAt, Launches, Speeches
<1> QED BY <1>1, <1>2, GotoMoves DEF PaneGone, C, At

LEMMA DeliveryFailsIs ==
  ASSUME SupTypes, NEW p \in Proc, DeliveryFails(p)
  PROVE  /\ cmd[p].at = "deliver" /\ cmd[p].kind \in Launches \cup Speeches
         /\ \/ End(p) \/ (cmd[p].kind # "decide" /\ Moves(p, WhenGone[cmd[p].kind]) /\ KeepsCopy(p))
         /\ UNCHANGED <<rec, leased, world, snt, issued, history>>
<1>1. cmd[p].at = "deliver" /\ cmd[p].kind \in Launches \cup Speeches
  BY MineIs DEF DeliveryFails, At, KindsAt
<1>2. WhenGone[cmd[p].kind] \in DOMAIN KindsAt
  BY <1>1 DEF WhenGone, KindsAt, Launches, Speeches
<1> QED BY <1>1, <1>2, GotoMoves DEF DeliveryFails, C

\* What a probe finds.
LEMMA FoundIs ==
  ASSUME SupTypes, NEW p \in Proc, NEW st \in Results \cup {"sent"}, cmd' = [cmd EXCEPT ![p] = Found(p, cmd[p], st)]
  PROVE  Moves(p, "record") /\ cmd'[p].res = st
<1>c. PICK c : c = Found(p, cmd[p], st)
  OBVIOUS
<1>1. turn \in Turn /\ line \in Turn /\ cmd[p] \in Cmds
  BY MineIs DEF SupTypes, TypeOK
<1>2. (IF pane = "asking" THEN turn ELSE line) \in Turn
  BY <1>1
<1>4. c \in Cmds /\ c.at = "record" /\ c.kind = cmd[p].kind /\ c.id = cmd[p].id /\ c.res = st
  BY <1>c, <1>1, <1>2, NewIs DEF Found, Cmds, Results
<1>5. cmd' = [cmd EXCEPT ![p] = c]
  BY <1>c
<1>6. cmd'[p] = c
  BY <1>5, MineIs
<1> QED BY <1>4, <1>5, <1>6 DEF Moves

LEMMA QuickProbeIs ==
  ASSUME SupTypes, NEW p \in Proc, QuickProbe(p)
  PROVE  /\ cmd[p].at = "probe" /\ Moves(p, "record") /\ cmd'[p].res \in Results \cup {"sent"}
         /\ UNCHANGED <<rec, leased, world, snt, issued, history>>
<1>1. PICK st : st = IF pane = "working" THEN "sent"
                     ELSE IF C(p).kind = "decide" THEN AfterAnswer ELSE Corroborated(C(p).copy)
  OBVIOUS
<1>2. AfterAnswer \in Results /\ Corroborated(C(p).copy) \in Results
  BY DEF AfterAnswer, Corroborated, Results
<1>3. st \in Results \cup {"sent"}
  BY <1>1, <1>2
<1>4. cmd' = [cmd EXCEPT ![p] = Found(p, cmd[p], st)]
  BY <1>1, MineIs DEF QuickProbe, C
<1>5. cmd[p].at = "probe"
  BY DEF QuickProbe, At
<1>6. UNCHANGED <<rec, leased, world, snt, issued, history>>
  BY DEF QuickProbe
<1>7. Moves(p, "record") /\ cmd'[p].res = st
  BY <1>3, <1>4, FoundIs
<1> QED BY <1>3, <1>5, <1>6, <1>7

LEMMA LookIs ==
  ASSUME SupTypes, NEW p \in Proc, Look(p)
  PROVE  /\ cmd[p].at = "look" /\ cmd[p].kind = "dismiss"
         /\ UNCHANGED <<rec, leased, world, snt, issued, history>>
         /\ \/ End(p) \/ (pane \in {"none", "gone"} /\ Moves(p, "interrupt"))
            \/ (Moves(p, "record") /\ cmd'[p].res \in Results)
<1>1. cmd[p].at = "look" /\ cmd[p].kind = "dismiss" /\ UNCHANGED <<rec, leased, world, snt, issued, history>>
  BY MineIs DEF Look, At, KindsAt
<1>2. CASE pane \in {"none", "gone"}
  <2>1. cmd' = [cmd EXCEPT ![p].at = "interrupt"]
    BY <1>2, MineIs DEF Look
  <2> QED BY <1>1, <1>2, <2>1, GotoMoves DEF Goto, KindsAt
<1>3. CASE pane = "asking"
  BY <1>1, <1>3 DEF Look, End
<1>4. CASE pane = "working"
  <2>1. cmd' = [cmd EXCEPT ![p] = Found(p, cmd[p], "running")] /\ "running" \in Results
    BY <1>4, MineIs DEF Look, Results
  <2>2. Moves(p, "record") /\ cmd'[p].res = "running"
    BY <2>1, FoundIs
  <2> QED BY <1>1, <2>1, <2>2
<1>5. CASE pane \notin {"none", "gone", "asking", "working"}
  <2>1. PICK st : st = Corroborated([C(p).copy EXCEPT !.answered = TRUE])
    OBVIOUS
  <2>2. cmd' = [cmd EXCEPT ![p] = Found(p, cmd[p], st)]
    BY <1>5, <2>1, MineIs DEF Look
  <2>3. st \in Results
    BY <2>1 DEF Corroborated, Results
  <2>4. Moves(p, "record") /\ cmd'[p].res = st
    BY <2>2, <2>3, FoundIs
  <2> QED BY <1>1, <2>3, <2>4
<1> QED BY <1>2, <1>3, <1>4, <1>5

LEMMA RetireIs ==
  ASSUME SupTypes, NEW p \in Proc, Retire(p)
  PROVE  /\ cmd[p].at = "retire" /\ Moves(p, "close") /\ UNCHANGED <<rec, turn, line, paused, snt, issued, history>>
         /\ signal' \in BOOLEAN /\ leased' \in {FALSE, leased} /\ pane' \in {pane, "gone"}
  BY GotoMoves DEF Retire, At, KindsAt, CloseTab

\* How a command ends.
LEMMA FailsIs ==
  ASSUME SupTypes, NEW p \in Proc
  PROVE  /\ TabFails(p) =>
              /\ cmd[p].at = "tab" /\ End(p) /\ UNCHANGED <<leased, world, snt, issued, history>>
              /\ rec' \in Records /\ rec'.st = "failed" /\ rec'.amends = cmd[p].copy.amends
         /\ Fail(p) =>
              /\ cmd[p].at = "fail" /\ End(p) /\ UNCHANGED <<leased, world, snt, issued, history>>
              /\ rec' \in Records /\ rec'.st = "failed" /\ rec'.amends = rec.amends /\ rec'.submitted = rec.submitted
         /\ Interrupt(p) =>
              /\ cmd[p].at = "interrupt" /\ End(p) /\ UNCHANGED <<leased, world, snt, issued, history>>
              /\ rec' \in Records /\ rec'.st = "interrupted" /\ rec'.amends = rec.amends /\ rec'.submitted = rec.submitted
         /\ RecordShipped(p) =>
              /\ cmd[p].at = "ship" /\ End(p) /\ UNCHANGED <<leased, world, snt, issued, history>>
              /\ rec' \in Records /\ rec'.st = "shipped" /\ rec'.amends = rec.amends /\ rec'.submitted = rec.submitted
<1>1. rec \in Records /\ cmd[p].copy \in Records
  BY MineIs
<1>2. \A st \in Statuses :
         /\ Touched(rec, st) \in Records /\ Touched(rec, st).st = st /\ Touched(rec, st).amends = rec.amends
         /\ Touched(rec, st).submitted = rec.submitted
  BY <1>1 DEF Touched, Records
<1>3. Touched(cmd[p].copy, "failed") \in Records /\ Touched(cmd[p].copy, "failed").st = "failed"
      /\ Touched(cmd[p].copy, "failed").amends = cmd[p].copy.amends
  BY <1>1, TouchedIs
<1> QED BY <1>2, <1>3 DEF TabFails, Fail, Interrupt, RecordShipped, At, C

LEMMA RestoreIs ==
  ASSUME SupTypes, NEW p \in Proc, Restore(p)
  PROVE  /\ cmd[p].at = "restore" /\ cmd[p].kind = "prompt" /\ End(p)
         /\ UNCHANGED <<leased, world, snt, issued, history>>
         /\ rec' \in Records /\ rec'.amends = rec.amends \ {cmd[p].id} /\ rec'.submitted = rec.submitted
         /\ \/ rec'.st = rec.st /\ rec'.missing = rec.missing /\ rec'.idle = rec.idle
            \/ rec.st = "running" /\ rec'.st = cmd[p].copy.st
<1>1. rec \in Records /\ cmd[p].copy \in Records /\ cmd[p].at = "restore" /\ cmd[p].kind = "prompt"
  BY MineIs DEF Restore, At, KindsAt
<1>t. PICK t : t = [rec EXCEPT !.amends = rec.amends \ {cmd[p].id}]
  OBVIOUS
<1>2. /\ t \in Records /\ t.amends = rec.amends \ {cmd[p].id} /\ t.submitted = rec.submitted
      /\ t.st = rec.st /\ t.missing = rec.missing /\ t.idle = rec.idle
  BY <1>t, <1>1 DEF Records
<1>c. PICK c : c = cmd[p].copy
  OBVIOUS
<1>r. PICK r : r = [t EXCEPT !.st = c.st, !.fresh = FALSE, !.by = c.by, !.missing = c.missing, !.idle = c.idle]
  OBVIOUS
<1>3. r \in Records /\ r.st = c.st /\ r.amends = t.amends /\ r.submitted = t.submitted
  BY <1>c, <1>r, <1>1, <1>2 DEF Records
<1>4. rec' = t \/ (rec' = r /\ rec.st = "running")
  BY <1>t, <1>c, <1>r DEF Restore, C
<1> QED BY <1>1, <1>2, <1>c, <1>3, <1>4 DEF Restore

LEMMA SettledIs ==
  ASSUME SupTypes, NEW p \in Proc, NEW r \in Records, cmd[p].res \in Results
  PROVE  LET t == Settled(r, p) IN
         t \in Records /\ t.st = cmd[p].res /\ t.amends = r.amends /\ t.submitted = r.submitted
<1>1. cmd[p].asks \in Turn
  BY MineIs
<1>2. CASE cmd[p].res = "blocked"
  BY <1>1, <1>2, AskedIs DEF Settled, C
<1>3. CASE cmd[p].res # "blocked"
  <2>1. cmd[p].res \in Statuses
    BY DEF Results
  <2> QED BY <1>3, <2>1, TouchedIs DEF Settled, C
<1> QED BY <1>2, <1>3

LEMMA RecordedIs ==
  ASSUME SupTypes, NEW p \in Proc
  PROVE  /\ RecordLaunch(p) =>
              /\ cmd[p].at = "record" /\ cmd[p].kind \in Launches /\ End(p)
              /\ UNCHANGED <<leased, world, snt, issued, history>>
              /\ rec' \in Records /\ rec'.amends = rec.amends /\ rec'.submitted = TRUE
              /\ rec'.st \in Results \cup {rec.st} /\ (rec'.st = "pending" => rec'.missing = rec.missing /\ rec'.idle = rec.idle)
         /\ RecordPrompt(p) =>
              /\ cmd[p].at = "record" /\ cmd[p].kind = "prompt" /\ End(p)
              /\ UNCHANGED <<leased, world, snt, issued, history>>
              /\ rec' \in Records /\ rec'.amends = rec.amends /\ rec'.submitted = rec.submitted
              /\ (rec' = rec \/ rec'.st \in Results)
         /\ RecordAnswer(p) =>
              /\ cmd[p].at = "record" /\ cmd[p].kind = "decide" /\ End(p)
              /\ UNCHANGED <<leased, world, snt, issued, history>>
              /\ rec' \in Records /\ rec'.amends = rec.amends \cup {cmd[p].id} /\ rec'.submitted = rec.submitted
              /\ rec'.st \in Results
         /\ RecordDismissal(p) =>
              /\ cmd[p].at = "record" /\ cmd[p].kind = "dismiss" /\ End(p)
              /\ UNCHANGED <<leased, world, snt, issued, history>>
              /\ rec' \in Records /\ rec'.amends = rec.amends /\ rec'.submitted = rec.submitted
              /\ rec'.st \in Results
<1>1. rec \in Records /\ (cmd[p].at = "record" => cmd[p].res \in Results \cup {"sent"})
      /\ (cmd[p].at = "record" /\ cmd[p].kind = "dismiss" => cmd[p].res \in Results)
      /\ (cmd[p].at = "record" => cmd[p].id \in Id)
  BY MineIs
<1>2. ASSUME RecordLaunch(p)
      PROVE  /\ rec' \in Records /\ rec'.amends = rec.amends /\ rec'.submitted = TRUE
             /\ rec'.st \in Results \cup {rec.st} /\ (rec'.st = "pending" => rec'.missing = rec.missing /\ rec'.idle = rec.idle)
  <2>1. PICK r : r = IF cmd[p].res = "sent" THEN rec ELSE Settled(rec, p)
    OBVIOUS
  <2>2. cmd[p].res \in Results \cup {"sent"}
    BY <1>1, <1>2 DEF RecordLaunch, At
  <2>3. /\ r \in Records /\ r.amends = rec.amends /\ r.st \in Results \cup {rec.st}
        /\ (r.st = "pending" => r = rec)
    BY <1>1, <2>1, <2>2, SettledIs DEF Results
  <2>4. rec' = [r EXCEPT !.submitted = TRUE]
    BY <1>2, <2>1 DEF RecordLaunch, C
  <2> QED BY <2>3, <2>4 DEF Records
<1>3. ASSUME RecordPrompt(p)
      PROVE  /\ rec' \in Records /\ rec'.amends = rec.amends /\ rec'.submitted = rec.submitted
             /\ (rec' = rec \/ rec'.st \in Results)
  <2>2. cmd[p].res \in Results \cup {"sent"}
    BY <1>1, <1>3 DEF RecordPrompt, At
  <2>3. rec' = IF cmd[p].res = "sent" THEN rec ELSE Settled(rec, p)
    BY <1>3 DEF RecordPrompt, C
  <2> QED BY <1>1, <2>2, <2>3, SettledIs
<1>4. ASSUME RecordAnswer(p)
      PROVE  /\ rec' \in Records /\ rec'.amends = rec.amends \cup {cmd[p].id} /\ rec'.submitted = rec.submitted
             /\ rec'.st \in Results
  <2>1. cmd[p].res \in Results \cup {"sent"} /\ cmd[p].id \in Id
    BY <1>1, <1>4 DEF RecordAnswer, At
  <2>t. PICK t : t = [rec EXCEPT !.answered = (rec.asked # 0), !.amends = rec.amends \cup {cmd[p].id}]
    OBVIOUS
  <2>2. t \in Records /\ t.amends = rec.amends \cup {cmd[p].id} /\ t.submitted = rec.submitted
    BY <1>1, <2>1, <2>t DEF Records
  <2>3. rec' = IF cmd[p].res = "sent" THEN Touched(t, "running") ELSE Settled(t, p)
    BY <1>4, <2>t DEF RecordAnswer, C
  <2>4. CASE cmd[p].res = "sent"
    BY <2>2, <2>3, <2>4, TouchedIs DEF Results
  <2>5. CASE cmd[p].res # "sent"
    BY <2>1, <2>2, <2>3, <2>5, SettledIs
  <2> QED BY <2>4, <2>5
<1>5. ASSUME RecordDismissal(p)
      PROVE  /\ rec' \in Records /\ rec'.amends = rec.amends /\ rec'.submitted = rec.submitted
             /\ rec'.st \in Results
  <2>1. cmd[p].res \in Results /\ cmd[p].res \in Statuses
    BY <1>1, <1>5 DEF RecordDismissal, At, C, Results
  <2>t. PICK t : t = Touched(rec, cmd[p].res)
    OBVIOUS
  <2>2. t \in Records /\ t.amends = rec.amends /\ t.submitted = rec.submitted /\ t.st = cmd[p].res
    BY <1>1, <2>1, <2>t DEF Touched, Records
  <2>3. rec' = [t EXCEPT !.answered = (rec.asked # 0), !.missing = "no", !.idle = "no"]
    BY <1>5, <2>t DEF RecordDismissal, C
  <2> QED BY <2>1, <2>2, <2>3 DEF Records, Mark
<1> QED BY <1>2, <1>3, <1>4, <1>5 DEF RecordLaunch, RecordPrompt, RecordAnswer, RecordDismissal, At, C

LEMMA ClosedIs ==
  ASSUME SupTypes, NEW p \in Proc
  PROVE  /\ CloseStruck(p) =>
              /\ cmd[p].at = "close" /\ End(p) /\ UNCHANGED <<leased, world, snt, issued, history>>
              /\ rec' \in Records /\ rec'.amends = rec.amends /\ rec'.submitted = rec.submitted
              /\ (rec' = rec \/ (rec.st \in L!NeverFinished /\ rec'.st = "struck"))
         /\ RecordLanded(p) =>
              /\ cmd[p].at = "close" /\ End(p) /\ UNCHANGED <<leased, world, snt, issued, history>>
              /\ rec' \in Records /\ rec'.amends = rec.amends /\ rec'.submitted = rec.submitted
              /\ (rec' = rec \/ (rec.st \in {"running", "blocked", "unconfirmed"} /\ rec'.st = "done"))
<1>1. rec \in Records
  BY MineIs
<1>2. \A st \in Statuses :
         /\ Touched(rec, st) \in Records /\ Touched(rec, st).st = st /\ Touched(rec, st).amends = rec.amends
         /\ Touched(rec, st).submitted = rec.submitted
  BY <1>1 DEF Touched, Records
<1>3. ASSUME CloseStruck(p)
      PROVE  /\ rec' \in Records /\ rec'.amends = rec.amends /\ rec'.submitted = rec.submitted
             /\ (rec' = rec \/ (rec.st \in L!NeverFinished /\ rec'.st = "struck"))
  <2>1. rec' = rec \/ (rec' = Touched(rec, "struck") /\ rec.st \in L!NeverFinished)
    BY <1>3 DEF CloseStruck
  <2> QED BY <1>1, <1>2, <2>1
<1>4. ASSUME RecordLanded(p)
      PROVE  /\ rec' \in Records /\ rec'.amends = rec.amends /\ rec'.submitted = rec.submitted
             /\ (rec' = rec \/ (rec.st \in {"running", "blocked", "unconfirmed"} /\ rec'.st = "done"))
  <2>t. PICK t : t = Touched(rec, "done")
    OBVIOUS
  <2>1. t \in Records /\ t.st = "done" /\ t.amends = rec.amends /\ t.submitted = rec.submitted
    BY <1>2, <2>t
  <2>2. rec' = rec \/ (rec' = [t EXCEPT !.missing = "no", !.idle = "no"] /\ rec.st \in {"running", "blocked", "unconfirmed"})
    BY <1>4, <2>t DEF RecordLanded
  <2> QED BY <1>1, <2>1, <2>2 DEF Records, Mark
<1> QED BY <1>3, <1>4 DEF CloseStruck, RecordLanded, At, C

\* How a command begins.
LEMMA LoadedIs ==
  ASSUME SupTypes, NEW k \in Kind
  PROVE  Loaded(k) \in Records /\ (k = "dispatch" => Loaded(k) = rec)
<1>1. rec \in Records /\ rec.st \in Statuses /\ rec.agent \in BOOLEAN /\ rec.asked \in Turn /\ NewRec \in Records
  BY NewIs DEF SupTypes, TypeOK, Records
<1>2. [NewRec EXCEPT !.st = rec.st, !.agent = rec.agent] \in Records /\ [NewRec EXCEPT !.asked = rec.asked] \in Records
  BY <1>1 DEF Records
<1> QED BY <1>1, <1>2 DEF Loaded

LEMMA BeginIs ==
  ASSUME SupTypes, NEW p \in Proc, NEW k \in Kind, Begin(p, k)
  PROVE  /\ cmd[p].at = "idle" /\ cmd' = [cmd EXCEPT ![p] = cmd'[p]] /\ cmd'[p] \in Cmds
         /\ cmd'[p].at = FirstStep[k] /\ cmd'[p].kind = k /\ cmd'[p].id = issued + 1 /\ cmd'[p].copy = Loaded(k)
         /\ issued' = issued + 1 /\ issued + 1 \in Id /\ UNCHANGED <<rec, leased, world, snt, history>>
         /\ Accepts(k) /\ Timely(k)
<1>1. cmd \in [Proc -> Cmds] /\ issued \in {0} \cup Id /\ NoCmd \in Cmds /\ Loaded(k) \in Records
  BY NoCmdIs, LoadedIs DEF SupTypes, TypeOK
<1>2. issued + 1 \in Id
  BY <1>1 DEF Begin
<1>3. FirstStep[k] \in DOMAIN KindsAt
  BY DEF FirstStep, Kind, KindsAt
<1>c. PICK c : c = [NoCmd EXCEPT !.at = FirstStep[k], !.kind = k, !.id = issued + 1, !.copy = Loaded(k)]
  OBVIOUS
<1>4. c \in Cmds /\ c.at = FirstStep[k] /\ c.kind = k /\ c.id = issued + 1 /\ c.copy = Loaded(k)
  BY <1>c, <1>1, <1>2, <1>3 DEF Cmds, KindsAt
<1>5. cmd' = [cmd EXCEPT ![p] = c]
  BY <1>c DEF Begin
<1>6. cmd'[p] = c
  BY <1>1, <1>5
<1> QED BY <1>2, <1>4, <1>5, <1>6 DEF Begin, At

\* What the command of a process does leaves those of the others alone.
RestTypes == /\ leased \in BOOLEAN /\ pane \in Panes /\ turn \in Turn /\ line \in Turn /\ signal \in BOOLEAN
             /\ paused \in BOOLEAN /\ heard \subseteq Id /\ unsure \subseteq Id /\ tasked \in BOOLEAN

LEMMA StepTypes ==
  ASSUME SupTypes, NEW p \in Proc, NEW c \in Cmds, cmd' = [cmd EXCEPT ![p] = c], Fits(c)',
         rec' \in Records, snt' = snt, issued' \in {issued, issued + 1} \cap ({0} \cup Id), RestTypes'
  PROVE  SupTypes'
<1>1. cmd \in [Proc -> Cmds] /\ issued \in Nat /\ snt \in Tick /\ TickFits /\ \A q \in Proc : Fits(cmd[q])
  BY DEF SupTypes, TypeOK
<1>2. cmd' \in [Proc -> Cmds]
  BY <1>1
<1>3. TypeOK'
  BY <1>1, <1>2 DEF TypeOK, RestTypes
<1>4. TickFits'
  BY <1>1 DEF TickFits
<1>5. ASSUME NEW q \in Proc PROVE Fits(cmd[q])'
  <2>1. CASE q = p
    BY <1>1, <2>1
  <2>2. CASE q # p
    <3>1. cmd'[q] = cmd[q] /\ Fits(cmd[q])
      BY <1>1, <2>2
    <3>2. 1..issued \subseteq 1..issued'
      BY <1>1
    <3> QED BY <3>1, <3>2 DEF Fits
  <2> QED BY <2>1, <2>2
<1> QED BY <1>3, <1>4, <1>5 DEF SupTypes

LEMMA EndTypes ==
  ASSUME SupTypes, NEW p \in Proc, End(p), rec' \in Records, UNCHANGED <<snt, issued>>, RestTypes'
  PROVE  SupTypes'
<1>1. NoCmd \in Cmds /\ Fits(NoCmd)'
  BY NoCmdIs DEF Fits
<1>2. issued \in {0} \cup Id
  BY DEF SupTypes, TypeOK
<1>3. cmd' = [cmd EXCEPT ![p] = NoCmd]
  BY DEF End
<1> QED BY <1>1, <1>2, <1>3, StepTypes

LEMMA MoveTypes ==
  ASSUME SupTypes, NEW p \in Proc, NEW a, Moves(p, a), a # "idle", cmd[p].at # "idle", cmd[p].kind \in KindsAt[a],
         a = "record" => cmd'[p].res \in Results \cup {"sent"} /\ (cmd[p].kind = "dismiss" => cmd'[p].res # "sent"),
         rec' \in Records, UNCHANGED <<snt, issued>>, RestTypes'
  PROVE  SupTypes'
<1>1. PICK c \in Cmds : /\ cmd' = [cmd EXCEPT ![p] = c] /\ cmd'[p] = c
                        /\ c.at = a /\ c.kind = cmd[p].kind /\ c.id = cmd[p].id
  BY DEF Moves
<1>2. cmd[p].id \in 1..issued /\ issued \in {0} \cup Id
  BY MineIs DEF SupTypes, TypeOK
<1>3. Fits(c)'
  BY <1>1, <1>2 DEF Fits
<1> QED BY <1>1, <1>2, <1>3, StepTypes

LEMMA SupRest == SupTypes => RestTypes
  BY DEF SupTypes, TypeOK, RestTypes

LEMMA CommandTypes ==
  ASSUME SupTypes, NEW p \in Proc, CommandStep(p) \/ Kill(p) \/ (\E k \in Kind : Begin(p, k))
  PROVE  SupTypes'
<1>0. RestTypes /\ rec \in Records /\ cmd[p].kind \in KindsAt[cmd[p].at]
      /\ (cmd[p].at # "idle" => cmd[p].id \in Id)
  BY SupRest, MineIs
<1>r. UNCHANGED <<leased, world, history>> => RestTypes'
  BY <1>0 DEF RestTypes, world, history
<1>u. UNCHANGED rec => rec' \in Records
  BY <1>0
<1>1. CASE Discard(p)
  <2>1. RestTypes'
    BY <1>0, <1>1, DiscardIs DEF RestTypes, Panes, history
  <2>2. cmd[p].at # "idle" /\ cmd[p].kind \in KindsAt["reset"]
    BY <1>0, <1>1, DiscardIs, KindAt
  <2> QED BY <1>1, <1>u, <2>1, <2>2, DiscardIs, MoveTypes
<1>2. CASE Reset(p)
  BY <1>0, <1>2, <1>r, ResetIs, MoveTypes DEF KindsAt, Launches
<1>3. CASE Acquire(p)
  <2>1. RestTypes'
    BY <1>0, <1>3, AcquireIs DEF RestTypes, history, world
  <2>2. cmd[p].at # "idle" /\ cmd[p].kind \in KindsAt["tab"]
    BY <1>0, <1>3, AcquireIs, KindAt
  <2> QED BY <1>3, <2>1, <2>2, AcquireIs, MoveTypes
<1>4. CASE CreateTab(p)
  <2>0. 0 \in Turn
    OBVIOUS
  <2>1. RestTypes'
    BY <1>0, <1>4, <2>0, CreateTabIs DEF RestTypes, Panes
  <2>2. cmd[p].at # "idle" /\ cmd[p].kind \in KindsAt["run"]
    BY <1>0, <1>4, CreateTabIs, KindAt
  <2> QED BY <1>4, <1>u, <2>1, <2>2, CreateTabIs, MoveTypes
<1>5. CASE TabFails(p) \/ Fail(p) \/ Interrupt(p) \/ RecordShipped(p)
  BY <1>5, <1>r, FailsIs, EndTypes
<1>6. CASE RecordRunning(p)
  BY <1>0, <1>6, <1>r, RecordRunningIs, MoveTypes DEF KindsAt
<1>7. CASE StartAgent(p)
  BY <1>0, <1>7, <1>r, <1>u, StartAgentIs, MoveTypes DEF KindsAt
<1>8. CASE Stamp(p)
  BY <1>0, <1>8, <1>r, StampIs, MoveTypes DEF KindsAt
<1>9. CASE MarkRunning(p)
  <2>1. cmd[p].at # "idle" /\ cmd[p].kind \in KindsAt["deliver"]
    BY <1>9, MarkRunningIs, KindIs, KindAt DEF Speeches
  <2> QED BY <1>9, <1>r, <2>1, MarkRunningIs, MoveTypes
<1>10. CASE Deliver(p)
  <2>1. cmd[p].id \in Id /\ cmd[p].at = "deliver"
    BY <1>0, <1>10, DeliverIs
  <2>2. RestTypes'
    BY <1>0, <1>10, <2>1, DeliverIs DEF RestTypes, Panes
  <2> QED BY <1>0, <1>10, <1>u, <2>2, DeliverIs, MoveTypes DEF KindsAt
<1>11. CASE PaneGone(p)
  <2>1. cmd[p].id \in Id
    BY <1>0, <1>11, PaneGoneIs
  <2>2. RestTypes'
    BY <1>0, <1>11, <2>1, PaneGoneIs DEF RestTypes, world
  <2>3. cmd[p].kind \in KindsAt[WhenGone[cmd[p].kind]] /\ WhenGone[cmd[p].kind] \notin {"idle", "record"}
    BY <1>11, PaneGoneIs DEF KindsAt, WhenGone, Launches, Speeches
  <2> QED BY <1>11, <1>u, <2>2, <2>3, PaneGoneIs, MoveTypes
<1>12. CASE DeliveryFails(p)
  <2>1. cmd[p].kind \in KindsAt[WhenGone[cmd[p].kind]] /\ WhenGone[cmd[p].kind] \notin {"idle", "record"}
    BY <1>12, DeliveryFailsIs DEF KindsAt, WhenGone, Launches, Speeches
  <2> QED BY <1>12, <1>r, <1>u, <2>1, DeliveryFailsIs, MoveTypes, EndTypes
<1>13. CASE Restore(p)
  BY <1>13, <1>r, RestoreIs, EndTypes
<1>14. CASE QuickProbe(p)
  BY <1>0, <1>14, <1>r, <1>u, QuickProbeIs, MoveTypes DEF KindsAt, Launches, Speeches
<1>15. CASE Look(p)
  <2>1. "sent" \notin Results
    BY DEF Results
  <2> QED BY <1>0, <1>15, <1>r, <1>u, <2>1, LookIs, MoveTypes, EndTypes DEF KindsAt
<1>16. CASE GiveUp(p)
  BY <1>16, <1>r, <1>u, EndTypes DEF GiveUp
<1>17. CASE RecordLaunch(p) \/ RecordPrompt(p) \/ RecordAnswer(p) \/ RecordDismissal(p)
  BY <1>17, <1>r, RecordedIs, EndTypes
<1>18. CASE Retire(p)
  <2>1. RestTypes'
    BY <1>0, <1>18, RetireIs DEF RestTypes, Panes, history
  <2>2. cmd[p].at # "idle" /\ cmd[p].kind \in KindsAt["close"]
    BY <1>0, <1>18, RetireIs, KindAt
  <2> QED BY <1>18, <1>u, <2>1, <2>2, RetireIs, MoveTypes
<1>19. CASE CloseStruck(p) \/ RecordLanded(p)
  BY <1>19, <1>r, ClosedIs, EndTypes
<1>20. CASE Kill(p)
  <2>1. RestTypes'
    BY <1>0, <1>20 DEF RestTypes, Kill, At, C, world
  <2> QED BY <1>20, <1>u, <2>1, EndTypes DEF Kill
<1>21. ASSUME NEW k \in Kind, Begin(p, k) PROVE SupTypes'
  <2>1. PICK c : c = cmd'[p]
    OBVIOUS
  <2>2. FirstStep[k] # "idle" /\ FirstStep[k] # "record" /\ k \in KindsAt[FirstStep[k]]
    BY DEF FirstStep, Kind, KindsAt, Launches, Speeches
  <2>3. issued + 1 \in 1..(issued + 1)
    BY DEF SupTypes, TypeOK
  <2>4. c \in Cmds /\ Fits(c)'
    BY <1>21, <2>1, <2>2, <2>3, BeginIs DEF Fits
  <2> QED BY <1>21, <1>r, <1>u, <2>1, <2>4, BeginIs, StepTypes
<1> QED BY <1>1, <1>2, <1>3, <1>4, <1>5, <1>6, <1>7, <1>8, <1>9, <1>10, <1>11, <1>12, <1>13, <1>14, <1>15,
           <1>16, <1>17, <1>18, <1>19, <1>20, <1>21 DEF CommandStep

LEMMA WorldTypes ==
  ASSUME SupTypes, World
  PROVE  SupTypes' /\ UNCHANGED <<leased, snt, cmd, issued, history>>
         /\ (((GraceOver \/ WindowOver) /\ UNCHANGED world) \/ UNCHANGED rec)
<1>1. UNCHANGED <<leased, snt, cmd, issued, history>>
      /\ (((GraceOver \/ WindowOver) /\ UNCHANGED world) \/ UNCHANGED rec)
  BY DEF World, Elapse, EndTurn, Finish, NewTurn, DeclarePause, PaneDies, AgentUp, PauseOver, GraceOver,
         WindowOver, Unmoved
<1>2. rec' \in Records
  <2>1. rec \in Records
    BY DEF SupTypes, TypeOK
  <2>2. CASE GraceOver
    BY <2>1, <2>2 DEF GraceOver, Records
  <2>3. CASE WindowOver
    <3>1. rec.missing \in Mark /\ rec.idle \in Mark
      BY <2>1 DEF Records
    <3>2. PICK m \in Mark, i \in Mark : rec' = [rec EXCEPT !.missing = m, !.idle = i]
      BY <2>3, <3>1 DEF WindowOver, Mark
    <3> QED BY <2>1, <3>2 DEF Records
  <2> QED BY <1>1, <2>1, <2>2, <2>3
<1>3. pane' \in Panes /\ turn' \in Turn /\ line' \in Turn /\ signal' \in BOOLEAN /\ paused' \in BOOLEAN
  <2>1. pane \in Panes /\ turn \in Turn /\ line \in Turn /\ signal \in BOOLEAN /\ paused \in BOOLEAN
    BY DEF SupTypes, TypeOK
  <2>2. CASE NewTurn
    <3>1. turn + 1 \in Turn
      BY <2>1, <2>2 DEF NewTurn
    <3> QED BY <2>1, <2>2, <3>1 DEF NewTurn, Panes
  <2>3. CASE EndTurn
    BY <2>1, <2>3 DEF EndTurn, Panes
  <2>4. CASE Finish \/ DeclarePause \/ PauseOver
    BY <2>1, <2>4 DEF Finish, DeclarePause, PauseOver
  <2>5. CASE PaneDies \/ AgentUp
    BY <2>1, <2>5 DEF PaneDies, AgentUp, Panes
  <2>6. CASE GraceOver \/ WindowOver
    BY <2>1, <2>6 DEF GraceOver, WindowOver, world
  <2> QED BY <2>2, <2>3, <2>4, <2>5, <2>6 DEF World, Elapse
<1>4. TypeOK'
  BY <1>1, <1>2, <1>3 DEF SupTypes, TypeOK, history
<1>5. TickFits' /\ \A p \in Proc : Fits(cmd[p])'
  BY <1>1 DEF SupTypes, TickFits, Fits
<1> QED BY <1>1, <1>4, <1>5 DEF SupTypes

LEMMA SupStep == SupTypes /\ [Next]_vars => SupTypes'
<1> SUFFICES ASSUME SupTypes, [Next]_vars PROVE SupTypes'
  OBVIOUS
<1>1. CASE SentinelStep \/ Outage \/ Crash
  BY <1>1, TickTypes
<1>2. ASSUME NEW p \in Proc, CommandStep(p) \/ Kill(p) \/ (\E k \in Kind : Begin(p, k)) PROVE SupTypes'
  BY <1>2, CommandTypes
<1>3. CASE World
  BY <1>3, WorldTypes
<1>4. CASE UNCHANGED vars
  BY <1>4 DEF vars, world, history, SupTypes, TypeOK, TickFits, Fits
<1> QED BY <1>1, <1>2, <1>3, <1>4 DEF Next

\* state.Update, Tick, the vx commands: whatever happens, and with however many commands at
\* once, every variable keeps a value of its kind.
THEOREM SupervisionTyped == Spec => []TypeOK
<1>1. SupTypes => TypeOK
  BY DEF SupTypes
<1> QED BY <1>1, SupStart, SupStep, PTL DEF Spec

-----------------------------------------------------------------------------
(* Whose camp it is, while one command is at work.                           *)

LeaseOf(c) == /\ c.at \in {"discard", "reset"} => rec.st = "interrupted"
              /\ c.at \in {"acquire", "tab", "run"} => rec.st = "pending"
              /\ c.at \in {"acquire", "tab"} => c.copy.st = "pending"
              /\ c.kind \in Launches /\ c.at \notin {"discard", "reset", "acquire"} => leased
              /\ c.kind = "prompt" => leased
              /\ c.kind \in {"decide", "dismiss"} => leased \/ rec.st = "blocked"
LeaseIInv == SupTypes /\ \A p \in Proc : LeaseOf(cmd[p])

\* A task whose camp is given back stays as it is, or has its pull request recorded.
Stays == ~leased /\ rec.st \in {"done", "shipped", "struck"} => rec'.st \in {rec.st, "shipped"}

LEMMA LeaseStart == Init => LeaseIInv
<1>1. Init => \A p \in Proc : cmd[p] = NoCmd
  BY DEF Init
<1>2. LeaseOf(NoCmd)
  BY NoCmdIs DEF LeaseOf, Launches
<1> QED BY <1>1, <1>2, SupStart DEF LeaseIInv

\* Steps that are not a command's.
LEMMA OthersWrite ==
  ASSUME SupTypes, SentinelStep \/ Outage \/ Crash \/ World
  PROVE  /\ UNCHANGED <<leased, cmd, issued, history>>
         /\ rec'.st = rec.st \/ rec.st = "running" \/ (rec.st \in Reopenable /\ leased /\ rec'.st = "running")
<1>1. rec \in Records
  BY DEF SupTypes, TypeOK
<1>2. CASE World
  <2>1. UNCHANGED <<leased, cmd, issued, history>> /\ (GraceOver \/ WindowOver \/ UNCHANGED rec)
    BY <1>2, WorldTypes
  <2>2. GraceOver \/ WindowOver => rec'.st = rec.st
    BY <1>1 DEF GraceOver, WindowOver, Records
  <2> QED BY <2>1, <2>2
<1>3. CASE SentinelStep \/ Outage \/ Crash
  BY <1>3, TickStep, WriteIs
<1> QED BY <1>2, <1>3

LEMMA LeaseOthers ==
  ASSUME LeaseIInv, SentinelStep \/ Outage \/ Crash \/ World
  PROVE  LeaseIInv' /\ Stays
<1>1. SupTypes
  BY DEF LeaseIInv
<1>2. /\ UNCHANGED <<leased, cmd>>
      /\ rec'.st = rec.st \/ rec.st = "running" \/ (rec.st \in Reopenable /\ leased /\ rec'.st = "running")
  BY <1>1, OthersWrite
<1>3. SupTypes'
  BY <1>1, SupStep DEF Next
<1>4. ASSUME NEW p \in Proc PROVE LeaseOf(cmd[p])'
  <2>1. PICK c : c = cmd[p]
    OBVIOUS
  <2>2. LeaseOf(c) /\ cmd'[p] = c
    BY <1>2, <2>1 DEF LeaseIInv
  <2>3. LeaseOf(c)'
    BY <1>2, <2>2 DEF LeaseOf
  <2> QED BY <2>2, <2>3 DEF LeaseOf
<1> QED BY <1>2, <1>3, <1>4 DEF LeaseIInv, Stays

\* The end of a command.
LEMMA EndIs == ASSUME SupTypes, NEW p \in Proc, End(p) PROVE cmd'[p] = NoCmd
  BY DEF End, SupTypes, TypeOK

LEMMA LeaseEnds ==
  ASSUME SupTypes, NEW p \in Proc, End(p)
  PROVE  LeaseOf(cmd[p])'
  BY EndIs, NoCmdIs DEF LeaseOf, Launches

LEMMA LeaseLaunch ==
  ASSUME SupTypes, NEW p \in Proc, LeaseOf(cmd[p]),
         Discard(p) \/ Reset(p) \/ Acquire(p) \/ CreateTab(p) \/ TabFails(p) \/ RecordRunning(p)
            \/ StartAgent(p) \/ Stamp(p) \/ Fail(p)
  PROVE  LeaseOf(cmd[p])' /\ Stays
<1>0. cmd[p].kind \in KindsAt[cmd[p].at]
  BY MineIs
<1>1. CASE Discard(p)
  BY <1>1, DiscardIs, KindIs DEF LeaseOf, Launches, Moves, Stays
<1>2. CASE Reset(p)
  BY <1>0, <1>2, ResetIs, KindAt DEF LeaseOf, Launches, Moves, Stays
<1>3. CASE Acquire(p)
  BY <1>0, <1>3, AcquireIs, KindAt DEF LeaseOf, KeepsCopy, Launches, Moves, Stays
<1>4. CASE CreateTab(p)
  BY <1>0, <1>4, CreateTabIs, KindAt DEF LeaseOf, Launches, Moves, Stays
<1>5. CASE TabFails(p)
  BY <1>0, <1>5, FailsIs, LeaseEnds DEF LeaseOf, Stays
<1>6. CASE RecordRunning(p)
  BY <1>0, <1>6, RecordRunningIs, KindAt DEF LeaseOf, Launches, Moves, Stays
<1>7. CASE StartAgent(p)
  BY <1>0, <1>7, StartAgentIs, KindAt DEF LeaseOf, Launches, Moves, Stays
<1>8. CASE Stamp(p)
  BY <1>0, <1>8, StampIs, KindAt DEF LeaseOf, Launches, Moves, Stays
<1>9. CASE Fail(p)
  <2>1. cmd[p].kind \in Launches /\ cmd[p].at = "fail"
    BY <1>0, <1>9, FailsIs, KindAt
  <2> QED BY <1>9, <2>1, FailsIs, LeaseEnds DEF LeaseOf, Stays
<1> QED BY <1>1, <1>2, <1>3, <1>4, <1>5, <1>6, <1>7, <1>8, <1>9

LEMMA LeaseSpeech ==
  ASSUME SupTypes, NEW p \in Proc, LeaseOf(cmd[p]),
         MarkRunning(p) \/ Deliver(p) \/ PaneGone(p) \/ DeliveryFails(p) \/ Restore(p) \/ Interrupt(p)
            \/ QuickProbe(p) \/ Look(p) \/ GiveUp(p)
  PROVE  LeaseOf(cmd[p])' /\ Stays
<1>0. cmd[p].kind \in KindsAt[cmd[p].at]
  BY MineIs
<1>w. \A k \in Launches \cup Speeches :
         WhenGone[k] \in {"fail", "restore", "interrupt"} /\ (k \in Launches => WhenGone[k] = "fail")
  BY DEF WhenGone, Launches, Speeches
<1>1. CASE MarkRunning(p)
  BY <1>1, MarkRunningIs, KindIs DEF LeaseOf, Launches, Moves, Stays
<1>2. CASE Deliver(p)
  BY <1>0, <1>2, DeliverIs DEF LeaseOf, Moves, Stays
<1>3. CASE PaneGone(p)
  BY <1>0, <1>3, <1>w, PaneGoneIs DEF LeaseOf, Moves, Stays
<1>4. CASE DeliveryFails(p)
  BY <1>0, <1>4, <1>w, DeliveryFailsIs, LeaseEnds DEF LeaseOf, Moves, Stays
<1>5. CASE Restore(p)
  BY <1>5, RestoreIs, LeaseEnds DEF LeaseOf, Stays
<1>6. CASE Interrupt(p)
  <2>1. cmd[p].kind \in {"decide", "dismiss"}
    BY <1>0, <1>6, FailsIs, KindAt
  <2> QED BY <1>6, <2>1, FailsIs, LeaseEnds DEF LeaseOf, Stays
<1>7. CASE QuickProbe(p)
  BY <1>0, <1>7, QuickProbeIs DEF LeaseOf, Moves, Stays
<1>8. CASE Look(p)
  BY <1>8, LookIs, LeaseEnds DEF LeaseOf, Moves, Launches, Stays
<1>9. CASE GiveUp(p)
  BY <1>9, LeaseEnds DEF GiveUp, Stays
<1> QED BY <1>1, <1>2, <1>3, <1>4, <1>5, <1>6, <1>7, <1>8, <1>9

LEMMA LeaseRecords ==
  ASSUME SupTypes, NEW p \in Proc, LeaseOf(cmd[p]),
         RecordLaunch(p) \/ RecordPrompt(p) \/ RecordAnswer(p) \/ RecordDismissal(p)
            \/ Retire(p) \/ CloseStruck(p) \/ RecordLanded(p) \/ RecordShipped(p) \/ Kill(p)
  PROVE  LeaseOf(cmd[p])' /\ Stays
<1>1. CASE RecordLaunch(p) \/ RecordPrompt(p) \/ RecordAnswer(p) \/ RecordDismissal(p)
  BY <1>1, RecordedIs, LeaseEnds DEF LeaseOf, Stays
<1>2. CASE Retire(p)
  <2>1. cmd[p].kind \in {"strike", "land"}
    BY <1>2, MineIs, RetireIs, KindAt
  <2> QED BY <1>2, <2>1, RetireIs DEF LeaseOf, Moves, Launches, Stays
<1>3. CASE CloseStruck(p) \/ RecordLanded(p)
  BY <1>3, ClosedIs, LeaseEnds DEF Stays, L!NeverFinished
<1>4. CASE RecordShipped(p)
  BY <1>4, FailsIs, LeaseEnds DEF Stays
<1>5. CASE Kill(p)
  BY <1>5, LeaseEnds DEF Kill, Stays
<1> QED BY <1>1, <1>2, <1>3, <1>4, <1>5

LEMMA LeaseBegins ==
  ASSUME SupTypes, NEW p \in Proc, NEW k \in Kind, Begin(p, k)
  PROVE  LeaseOf(cmd[p])' /\ Stays
<1>1. PICK c : c = cmd'[p]
  OBVIOUS
<1>2. /\ c.at = FirstStep[k] /\ c.kind = k /\ c.copy = Loaded(k) /\ Accepts(k)
      /\ UNCHANGED <<rec, leased>>
  BY <1>1, BeginIs
<1>3. k = "dispatch" => Loaded(k) = rec
  BY LoadedIs
<1>4. /\ k = "dispatch" => rec.st = "pending"
      /\ k = "redispatch" => rec.st = "interrupted"
      /\ k = "prompt" => leased
      /\ k \in {"decide", "dismiss"} => rec.st = "blocked"
  BY <1>2 DEF Accepts
<1>6. /\ k = "dispatch" => FirstStep[k] = "acquire"
      /\ k = "redispatch" => FirstStep[k] = "discard"
      /\ k \in {"decide", "dismiss", "prompt"} => FirstStep[k] \in {"deliver", "look", "mark"}
      /\ k \in {"strike", "land", "ship"} => FirstStep[k] \in {"retire", "ship"}
  BY DEF FirstStep
<1>5. LeaseOf(c)'
  BY <1>2, <1>3, <1>4, <1>6 DEF LeaseOf, Launches, Kind
<1> QED BY <1>1, <1>2, <1>5 DEF LeaseOf, Stays

LEMMA LeaseStep == OneCommand /\ LeaseIInv /\ [Next]_vars => LeaseIInv' /\ (Stays \/ UNCHANGED vars)
<1> SUFFICES ASSUME OneCommand, LeaseIInv, [Next]_vars PROVE LeaseIInv' /\ (Stays \/ UNCHANGED vars)
  OBVIOUS
<1>0. SupTypes /\ SupTypes'
  BY SupStep DEF LeaseIInv
<1>1. CASE SentinelStep \/ Outage \/ Crash \/ World
  BY <1>1, LeaseOthers
<1>2. ASSUME NEW p \in Proc, CommandStep(p) \/ Kill(p) \/ (\E k \in Kind : Begin(p, k))
      PROVE  LeaseIInv' /\ Stays
  <2>1. LeaseOf(cmd[p])
    BY DEF LeaseIInv
  <2>2. LeaseOf(cmd[p])' /\ Stays
    BY <1>0, <1>2, <2>1, LeaseLaunch, LeaseSpeech, LeaseRecords, LeaseBegins DEF CommandStep
  <2>3. \A q \in Proc : q = p
    BY DEF OneCommand
  <2> QED BY <1>0, <2>2, <2>3 DEF LeaseIInv
<1>3. CASE UNCHANGED vars
  BY <1>0, <1>3 DEF LeaseIInv, LeaseOf, vars
<1> QED BY <1>1, <1>2, <1>3 DEF Next

\* reopenActiveTasks, saveIfRunning, recordLanded: once a task is landed or struck and its camp
\* is given back, neither the sentinel nor the one command at work opens it again, whatever the
\* tick or the command had read before.
THEOREM ClosedForGood == OneCommand => (Spec => ClosedStays)
<1>1. LeaseIInv /\ (Stays \/ UNCHANGED vars)
      => [~leased /\ rec.st \in {"done", "shipped", "struck"} => rec'.st \in {rec.st, "shipped"}]_vars
  BY DEF Stays
<1>2. OneCommand /\ LeaseIInv /\ [Next]_vars
      => LeaseIInv' /\ [~leased /\ rec.st \in {"done", "shipped", "struck"} => rec'.st \in {rec.st, "shipped"}]_vars
  BY <1>1, LeaseStep
<1>3. SUFFICES ASSUME OneCommand PROVE Spec => ClosedStays
  OBVIOUS
<1>4. LeaseIInv /\ [Next]_vars
      => LeaseIInv' /\ [~leased /\ rec.st \in {"done", "shipped", "struck"} => rec'.st \in {rec.st, "shipped"}]_vars
  BY <1>2, <1>3
<1> QED BY <1>4, LeaseStart, PTL DEF Spec, ClosedStays

-----------------------------------------------------------------------------
(* The status.                                                               *)

\* No soldier that was sent the task is in the pane.
Dead == pane \in {"none", "gone"} \/ ~tasked
\* A tick under way that can only find the task at work, blocked or done.
TickTame == /\ snt.at \in {"probe", "act"} => snt.snap.missing # "old" /\ snt.snap.idle # "old"
            /\ snt.at = "save" => /\ snt.next.st \in {"running", "blocked", "done"}
                                  /\ snt.next.missing # "old" /\ snt.next.idle # "old"
            /\ snt.at # "undelivered"
Tame == /\ rec.st \in {"running", "blocked", "done"}
        /\ rec.st = "running" => rec.missing # "old" /\ rec.idle # "old"
        /\ TickTame
TameAt(c) == \/ c.kind \in Launches /\ c.at \in {"start", "stamp", "deliver", "probe", "record", "fail"}
             \/ c.kind = "prompt" /\ c.at \in {"deliver", "probe", "record", "restore"}
             \/ c.kind = "decide"
\* No tick works on the task, and none will while its command is at it.
Undisturbed == rec.st = "running" => rec.fresh /\ Swift
InHand(c) == c.kind \in Launches /\ c.at \in {"probe", "record"}
LifeOf(c) ==
    /\ c.at \in {"discard", "reset"} => rec.idle = "no"
    /\ c.at \in {"acquire", "tab"} => c.copy.missing = "no" /\ c.copy.idle = "no"
    /\ TameAt(c) => Tame
    /\ c.at = "mark" => rec.st \in Reopenable \cup {"running"} /\ Undisturbed
    /\ c.kind = "dismiss" => rec.st \in {"blocked", "running"} /\ Undisturbed
    /\ c.kind = "prompt" /\ c.at \in {"deliver", "probe", "restore"} => c.copy.st \in Reopenable \cup {"running"}
    /\ c.at = "ship" => rec.st \notin {"pending", "failed", "struck"}
    /\ c.at = "interrupt" => pane \in {"none", "gone"}
LifeHolds == /\ rec.st = "pending" => rec.missing = "no" /\ rec.idle = "no"
             /\ rec.st \in {"pending", "interrupted"} => Dead
             /\ Dead \/ rec.submitted \/ \E p \in Proc : InHand(cmd[p])
             /\ snt.at = "act" /\ snt.live = "gone" /\ snt.snap.missing = "old" => Dead
             /\ snt.at = "save" /\ snt.next.st = "interrupted" => Dead
LifeIInv == LeaseIInv /\ LifeHolds /\ \A p \in Proc : LifeOf(cmd[p])

\* The status takes a step of Lifecycle.
Lawful == L!Next \/ rec'.st = rec.st

LEMMA LifeStart == Init => LifeIInv
<1> SUFFICES ASSUME Init PROVE LifeIInv
  OBVIOUS
<1>1. \A p \in Proc : cmd[p] = NoCmd
  BY DEF Init
<1>2. LifeOf(NoCmd)
  BY NoCmdIs DEF LifeOf, TameAt, Launches
<1>3. LifeHolds
  BY NewIs, NoTickIs DEF Init, LifeHolds, Dead
<1> QED BY <1>1, <1>2, <1>3, LeaseStart DEF LifeIInv

\* A tick that only looks, or plans.
LEMMA LooksTame ==
  ASSUME SupTypes, UNCHANGED rec, Rests \/ Undelivered \/ Sees \/ \E r : Plan(r)
  PROVE  /\ Tame => Tame'
         /\ Undisturbed => Undisturbed'
         /\ snt'.at = "act" /\ snt'.live = "gone" /\ snt'.snap.missing = "old" => pane \in {"none", "gone"}
         /\ snt'.at = "save" /\ snt'.next.st = "interrupted"
               => snt.at = "act" /\ snt.live = "gone" /\ snt.snap.missing = "old"
<1>1. CASE Rests
  BY <1>1 DEF Rests, Tame, TickTame, Undisturbed, Swift
<1>2. CASE Undelivered
  <2>1. snt'.at = "undelivered" /\ snt.at = "act" /\ snt.snap.idle = "old"
    BY <1>2, NoTickIs, TickIs DEF Undelivered
  <2> QED BY <2>1 DEF Tame, TickTame, Undisturbed, Swift
<1>3. CASE Sees
  <2>1. Tame => Tame'
    BY <1>3, SeenIs DEF Tame, TickTame
  <2>2. Undisturbed => Undisturbed'
    BY <1>3, SeenIs DEF Undisturbed, Swift
  <2>3. snt'.at = "act" /\ snt'.live = "gone" /\ snt'.snap.missing = "old" => pane \in {"none", "gone"}
    BY <1>3, SeenIs
  <2>4. snt'.at # "save"
    BY <1>3, SeenIs
  <2> QED BY <2>1, <2>2, <2>3, <2>4
<1>4. ASSUME NEW r, Plan(r)
      PROVE  /\ Tame => Tame'
             /\ Undisturbed => Undisturbed'
             /\ snt'.at # "act"
             /\ snt'.at = "save" /\ snt'.next.st = "interrupted"
                   => snt.at = "act" /\ snt.live = "gone" /\ snt.snap.missing = "old"
  <2>1. snt'.at = "save" /\ snt'.next = r
    BY <1>4, SaveIs DEF Plan, ToSave
  <2>2. /\ snt.at = "act" /\ (r.missing = "old" => snt.snap.missing = "old")
        /\ (r.idle = "old" => snt.snap.idle = "old")
        /\ (r.st \in {"running", "blocked", "done"} \/ "old" \in {snt.snap.missing, snt.snap.idle})
        /\ (r.st = "interrupted" => snt.live = "gone" /\ snt.snap.missing = "old")
    BY <1>4 DEF Plan
  <2> QED BY <2>1, <2>2 DEF Tame, TickTame, Undisturbed, Swift
<1> QED BY <1>1, <1>2, <1>3, <1>4

\* A tick that writes the record.
LEMMA WritesTame ==
  ASSUME SupTypes, ReopenSave \/ AgentFound \/ Save \/ InterruptUndelivered
  PROVE  /\ Tame => Tame'
         /\ rec.st \in Reopenable \cup {"running"} /\ Undisturbed
               => /\ rec'.st \in {rec.st, "running"} /\ Undisturbed'
         /\ rec.st \notin Reopenable \cup {"running"} => rec' = rec
         /\ rec' = rec \/ rec'.st \in Results \cup {"interrupted"}
         /\ rec.submitted => rec'.submitted
         /\ snt'.at = "act" => snt'.snap.missing = "no"
         /\ snt'.at # "save"
         /\ rec.st # "interrupted" /\ rec'.st = "interrupted"
               => \/ snt.at = "save" /\ snt.next.st = "interrupted"
                  \/ snt.at = "undelivered" /\ ~rec.submitted
         /\ Lawful
<1>0. rec \in Records /\ (snt.at = "save" => snt.next.st \in Results \cup {"interrupted"})
  BY DEF SupTypes, TypeOK, TickFits
<1>1. CASE ReopenSave
  <2>1. Rests /\ (rec' = rec \/ /\ rec.st \in Reopenable /\ rec'.st = "running" /\ rec'.fresh
                                /\ rec'.missing = "no" /\ rec'.idle = "no" /\ rec'.submitted = rec.submitted)
    BY <1>1, WriteIs
  <2> QED BY <2>1 DEF Rests, Tame, TickTame, Undisturbed, Swift, Results, Lawful, L!Next, L!Resume
<1>2. CASE AgentFound
  <2>1. snt.at = "act" /\ \/ rec.st # "running" /\ rec' = rec /\ Rests
                          \/ /\ rec.st = "running" /\ rec'.st = "running"
                             /\ rec'.missing = "no" /\ rec'.idle = snt.snap.idle
                             /\ rec'.submitted = (snt.snap.submitted \/ rec.submitted)
                             /\ snt'.at = "act" /\ snt'.snap.missing = "no" /\ snt'.snap.idle = snt.snap.idle
    BY <1>2, WriteIs
  <2> QED BY <2>1 DEF Rests, Tame, TickTame, Undisturbed, Swift, Results, Lawful
<1>3. CASE Save
  <2>1. snt.at = "save" /\ Rests /\ \/ rec.st # "running" /\ rec' = rec
                                    \/ /\ rec.st = "running" /\ rec'.st = snt.next.st
                                       /\ rec'.missing = snt.next.missing /\ rec'.idle = snt.next.idle
                                       /\ rec'.submitted = (snt.next.submitted \/ rec.submitted)
    BY <1>3, WriteIs
  <2> QED BY <1>0, <2>1 DEF Rests, Tame, TickTame, Undisturbed, Swift, Results, Lawful, L!Next, L!Settle
<1>4. CASE InterruptUndelivered
  <2>1. snt.at = "undelivered" /\ Rests
        /\ (rec' = rec \/ (rec.st = "running" /\ ~rec.submitted /\ rec'.st = "interrupted" /\ rec'.submitted = rec.submitted))
    BY <1>4, WriteIs
  <2> QED BY <2>1 DEF Rests, Tame, TickTame, Undisturbed, Swift, Lawful, L!Next, L!Settle
<1> QED BY <1>1, <1>2, <1>3, <1>4

LEMMA LifeTick ==
  ASSUME LifeIInv, SentinelStep \/ Outage \/ Crash
  PROVE  LifeHolds' /\ (\A p \in Proc : LifeOf(cmd[p])') /\ Lawful
<1>0. SupTypes /\ LeaseIInv /\ LifeHolds
  BY DEF LifeIInv, LeaseIInv
<1>1. UNCHANGED <<pane, tasked, cmd>> /\ (Dead' <=> Dead)
  BY <1>0, TickStep DEF world, history, Dead
<1>2. CASE ReopenSave \/ AgentFound \/ Save \/ InterruptUndelivered
  <2>0. /\ Tame => Tame'
        /\ rec.st \in Reopenable \cup {"running"} /\ Undisturbed => rec'.st \in {rec.st, "running"} /\ Undisturbed'
        /\ rec.st \notin Reopenable \cup {"running"} => rec' = rec
        /\ rec' = rec \/ rec'.st \in Results \cup {"interrupted"}
        /\ rec.submitted => rec'.submitted
        /\ snt'.at = "act" => snt'.snap.missing = "no"
        /\ snt'.at # "save"
        /\ rec.st # "interrupted" /\ rec'.st = "interrupted"
              => \/ snt.at = "save" /\ snt.next.st = "interrupted"
                 \/ snt.at = "undelivered" /\ ~rec.submitted
        /\ Lawful
    BY <1>0, <1>2, WritesTame
  <2>1. snt.at = "undelivered" /\ ~rec.submitted => Dead
    <3>1. \A p \in Proc : InHand(cmd[p]) => TameAt(cmd[p])
      BY DEF InHand, TameAt
    <3>2. \A p \in Proc : TameAt(cmd[p]) => snt.at # "undelivered"
      BY DEF LifeIInv, LifeOf, Tame, TickTame
    <3> QED BY <1>0, <3>1, <3>2 DEF LifeHolds
  <2>2. LifeHolds'
    <3>1. (rec.st = "pending" => rec.missing = "no" /\ rec.idle = "no") /\ (rec.st \in {"pending", "interrupted"} => Dead)
          /\ (Dead \/ rec.submitted \/ \E p \in Proc : InHand(cmd[p]))
          /\ (snt.at = "save" /\ snt.next.st = "interrupted" => Dead)
      BY <1>0 DEF LifeHolds
    <3>2. (\E p \in Proc : InHand(cmd[p])) => (\E p \in Proc : InHand(cmd[p]))'
      BY <1>1 DEF InHand
    <3>3. rec'.st = "pending" => rec' = rec
      BY <2>0 DEF Results
    <3>4. rec'.st = "interrupted" => rec.st = "interrupted" \/ Dead
      BY <2>0, <2>1, <3>1
    <3> QED BY <1>1, <2>0, <3>1, <3>2, <3>3, <3>4 DEF LifeHolds
  <2>3. ASSUME NEW p \in Proc PROVE LifeOf(cmd[p])'
    <3>1. PICK c : c = cmd[p]
      OBVIOUS
    <3>2. LifeOf(c) /\ cmd'[p] = c /\ LeaseOf(c)
      BY <1>0, <1>1, <3>1 DEF LifeIInv, LeaseIInv
    <3>3. c.at \in {"discard", "reset"} => rec' = rec
      BY <2>0, <3>2 DEF LeaseOf
    <3>4. LifeOf(c)'
      BY <1>1, <2>0, <3>2, <3>3 DEF LifeOf, TameAt, Results
    <3> QED BY <3>2, <3>4 DEF LifeOf, TameAt
  <2> QED BY <2>0, <2>2, <2>3
<1>3. CASE UNCHANGED rec /\ (Rests \/ Undelivered \/ Sees \/ \E r : Plan(r))
  <2>0. /\ Tame => Tame'
        /\ Undisturbed => Undisturbed'
        /\ snt'.at = "act" /\ snt'.live = "gone" /\ snt'.snap.missing = "old" => pane \in {"none", "gone"}
        /\ snt'.at = "save" /\ snt'.next.st = "interrupted"
              => snt.at = "act" /\ snt.live = "gone" /\ snt.snap.missing = "old"
    BY <1>0, <1>3, LooksTame
  <2>2. LifeHolds'
    <3>2. (\E p \in Proc : InHand(cmd[p])) => (\E p \in Proc : InHand(cmd[p]))'
      BY <1>1 DEF InHand
    <3>3. pane \in {"none", "gone"} => Dead
      BY DEF Dead
    <3> QED BY <1>0, <1>1, <1>3, <2>0, <3>2, <3>3 DEF LifeHolds
  <2>3. ASSUME NEW p \in Proc PROVE LifeOf(cmd[p])'
    <3>1. PICK c : c = cmd[p]
      OBVIOUS
    <3>2. LifeOf(c) /\ cmd'[p] = c
      BY <1>1, <3>1 DEF LifeIInv
    <3>4. LifeOf(c)'
      BY <1>1, <1>3, <2>0, <3>2 DEF LifeOf, TameAt
    <3> QED BY <3>2, <3>4 DEF LifeOf, TameAt
  <2> QED BY <1>3, <2>2, <2>3 DEF Lawful
<1> QED BY <1>0, <1>2, <1>3, TickStep

\* The soldier, the general and time.
LEMMA LifeWorld ==
  ASSUME LifeIInv, World
  PROVE  LifeHolds' /\ (\A p \in Proc : LifeOf(cmd[p])') /\ Lawful
<1>0. SupTypes /\ LeaseIInv /\ LifeHolds /\ rec \in Records
  BY DEF LifeIInv, LeaseIInv, SupTypes, TypeOK
<1>1. UNCHANGED <<snt, cmd, tasked>>
  BY <1>0, WorldTypes DEF history
<1>2. pane \in {"none", "gone"} => pane' \in {"none", "gone"}
  BY DEF World, Elapse, EndTurn, Finish, NewTurn, DeclarePause, PaneDies, AgentUp, PauseOver, GraceOver, WindowOver, world
<1>3. Dead => Dead'
  BY <1>1, <1>2 DEF Dead
<1>4. CASE UNCHANGED rec
  BY <1>0, <1>1, <1>2, <1>3, <1>4 DEF LifeIInv, LifeHolds, LifeOf, InHand, TameAt, Tame, TickTame, Undisturbed, Swift, Lawful
<1>5. CASE GraceOver
  <2>1. /\ rec'.st = rec.st /\ rec'.missing = rec.missing /\ rec'.idle = rec.idle /\ rec'.submitted = rec.submitted
        /\ \A p \in Proc : cmd[p].at \in {"idle", "ship", "probe"}
    BY <1>0, <1>5 DEF GraceOver, Records, Waits, Probing, At, C
  <2>2. \A p \in Proc : cmd[p].kind # "dismiss"
    BY <1>0, <2>1, MineIs, KindIs, KindAt DEF Launches, Speeches
  <2> QED BY <1>0, <1>1, <1>2, <1>3, <2>1, <2>2
          DEF LifeIInv, LifeHolds, LifeOf, InHand, TameAt, Tame, TickTame, Lawful
<1>6. CASE WindowOver
  <2>1. /\ rec'.st = rec.st /\ rec'.submitted = rec.submitted
        /\ rec.missing = "no" => rec'.missing = "no"
        /\ rec.idle = "no" => rec'.idle = "no"
        /\ \A p \in Proc : cmd[p].at \in {"idle", "ship"}
    BY <1>0, <1>6 DEF WindowOver, Records, Quiet, Waits, C
  <2>2. \A p \in Proc : cmd[p].kind \in {"none", "ship"}
    BY <1>0, <2>1, MineIs, KindAt
  <2> QED BY <1>0, <1>1, <1>2, <1>3, <2>1, <2>2 DEF LifeIInv, LifeHolds, LifeOf, InHand, TameAt, Launches, Lawful
<1> QED BY <1>0, <1>4, <1>5, <1>6, WorldTypes

\* The step of a command, when it is the only one.
LifeGoes(p) == /\ Dead => Dead' \/ TickTame'
               /\ rec'.st = "pending" => rec'.missing = "no" /\ rec'.idle = "no"
               /\ rec'.st \in {"pending", "interrupted"} => Dead'
               /\ Dead' \/ rec'.submitted \/ InHand(cmd'[p])
               /\ LifeOf(cmd[p])' /\ Lawful
\* What holds of it before.
LifeWas(p) == /\ OneCommand /\ SupTypes /\ LeaseOf(cmd[p]) /\ LifeOf(cmd[p]) /\ LifeHolds
              /\ Dead \/ rec.submitted \/ InHand(cmd[p])

LEMMA LifeHad ==
  ASSUME OneCommand, LifeIInv, NEW p \in Proc
  PROVE  LifeWas(p)
<1>1. \A q \in Proc : InHand(cmd[q]) => InHand(cmd[p])
  BY DEF OneCommand
<1> QED BY <1>1 DEF LifeIInv, LeaseIInv, LifeHolds, LifeWas

LEMMA LifeEnds ==
  ASSUME SupTypes, NEW p \in Proc, End(p)
  PROVE  LifeOf(cmd[p])' /\ ~InHand(cmd'[p])
  BY EndIs, NoCmdIs DEF LifeOf, TameAt, InHand, Launches

LEMMA LifeLaunch ==
  ASSUME NEW p \in Proc, LifeWas(p),
         Discard(p) \/ Reset(p) \/ Acquire(p) \/ CreateTab(p) \/ TabFails(p) \/ RecordRunning(p)
            \/ StartAgent(p) \/ Stamp(p) \/ Fail(p)
  PROVE  LifeGoes(p)
<1>0. /\ SupTypes /\ LeaseOf(cmd[p]) /\ LifeOf(cmd[p]) /\ LifeHolds
      /\ Dead \/ rec.submitted \/ InHand(cmd[p])
  BY DEF LifeWas
<1>k. cmd[p].at \in {"discard", "reset", "acquire", "tab", "run", "start", "stamp", "fail"} => cmd[p].kind \in Launches
  BY <1>0, KindIs DEF Launches
<1>d. /\ rec.st = "pending" => rec.missing = "no" /\ rec.idle = "no"
      /\ rec.st \in {"pending", "interrupted"} => Dead
  BY <1>0 DEF LifeHolds
<1>s. Swift => TickTame
  BY DEF Swift, TickTame
<1>1. CASE Discard(p)
  <2>1. cmd[p].at = "discard" /\ cmd'[p].at = "reset" /\ cmd'[p].kind = cmd[p].kind /\ rec.st = "interrupted"
        /\ rec.idle = "no" /\ UNCHANGED <<rec, snt, tasked>> /\ pane' \in {pane, "gone"}
    BY <1>0, <1>1, DiscardIs DEF history, Moves, LeaseOf, LifeOf
  <2>2. Dead /\ Dead'
    BY <1>d, <2>1 DEF Dead
  <2>3. LifeOf(cmd[p])'
    BY <1>k, <2>1 DEF LifeOf, TameAt, Launches
  <2> QED BY <2>1, <2>2, <2>3 DEF LifeGoes, Lawful
<1>2. CASE Reset(p)
  <2>1. cmd[p].at = "reset" /\ cmd'[p].at = "acquire" /\ cmd'[p].kind = cmd[p].kind /\ rec.st = "interrupted"
        /\ rec.idle = "no" /\ rec'.st = "pending" /\ rec'.missing = "no" /\ rec'.idle = "no" /\ cmd'[p].copy = rec'
        /\ UNCHANGED <<pane, tasked>>
    BY <1>0, <1>2, ResetIs DEF history, world, Moves, LeaseOf, LifeOf
  <2>2. Dead /\ Dead'
    BY <1>d, <2>1 DEF Dead
  <2>3. LifeOf(cmd[p])'
    BY <1>k, <2>1 DEF LifeOf, TameAt, Launches
  <2> QED BY <2>1, <2>2, <2>3 DEF LifeGoes, Lawful, L!Next, L!Relaunch
<1>3. CASE Acquire(p)
  <2>1. cmd[p].at = "acquire" /\ cmd'[p].at = "tab" /\ cmd'[p].kind = cmd[p].kind /\ rec.st = "pending"
        /\ rec'.st = "pending" /\ rec'.missing = "no" /\ rec'.idle = "no" /\ cmd'[p].copy = cmd[p].copy
        /\ UNCHANGED <<pane, tasked>>
    BY <1>0, <1>3, AcquireIs DEF history, world, Moves, KeepsCopy, LeaseOf, LifeOf
  <2>2. Dead /\ Dead'
    BY <1>d, <2>1 DEF Dead
  <2>3. LifeOf(cmd[p])'
    BY <1>0, <1>k, <2>1 DEF LifeOf, TameAt, Launches
  <2> QED BY <2>1, <2>2, <2>3 DEF LifeGoes, Lawful
<1>4. CASE CreateTab(p)
  <2>1. cmd[p].at = "tab" /\ cmd'[p].at = "run" /\ cmd'[p].kind = cmd[p].kind /\ rec.st = "pending"
        /\ rec' = rec /\ tasked' = FALSE
    BY <1>0, <1>4, CreateTabIs DEF Moves, LeaseOf
  <2>2. Dead'
    BY <2>1 DEF Dead
  <2>3. LifeOf(cmd[p])'
    BY <1>k, <2>1 DEF LifeOf, TameAt, Launches
  <2> QED BY <1>d, <2>1, <2>2, <2>3 DEF LifeGoes, Lawful
<1>5. CASE TabFails(p)
  <2>1. rec.st = "pending" /\ rec'.st = "failed" /\ UNCHANGED <<pane, tasked>> /\ LifeOf(cmd[p])'
    BY <1>0, <1>5, FailsIs, LifeEnds DEF LeaseOf, history, world
  <2>2. Dead /\ Dead'
    BY <1>d, <2>1 DEF Dead
  <2> QED BY <2>1, <2>2 DEF LifeGoes, Lawful, L!Next, L!Launch
<1>6. CASE RecordRunning(p)
  <2>1. cmd[p].at = "run" /\ cmd'[p].at = "start" /\ cmd'[p].kind = cmd[p].kind /\ rec.st = "pending"
        /\ rec'.st = "running" /\ rec'.missing = "no" /\ rec'.idle = "no" /\ Swift /\ UNCHANGED <<snt, pane, tasked>>
    BY <1>0, <1>d, <1>6, RecordRunningIs DEF history, world, Moves, LeaseOf
  <2>2. Dead /\ Dead'
    BY <1>d, <2>1 DEF Dead
  <2>3. LifeOf(cmd[p])'
    BY <1>k, <1>s, <2>1 DEF LifeOf, TameAt, Tame, TickTame, Launches
  <2> QED BY <2>1, <2>2, <2>3 DEF LifeGoes, Lawful, L!Next, L!Launch
<1>7. CASE StartAgent(p)
  <2>1. cmd[p].at = "start" /\ cmd'[p].at \in {"stamp", "fail"} /\ cmd'[p].kind = cmd[p].kind
        /\ UNCHANGED <<rec, snt, pane, tasked>>
    BY <1>0, <1>7, StartAgentIs DEF history, world, Moves
  <2>2. Dead' <=> Dead
    BY <2>1 DEF Dead
  <2>3. LifeOf(cmd[p])'
    BY <1>0, <1>k, <2>1 DEF LifeOf, TameAt, Tame, TickTame, Launches
  <2>4. ~InHand(cmd[p])
    BY <2>1 DEF InHand
  <2> QED BY <1>0, <1>d, <2>1, <2>2, <2>3, <2>4 DEF LifeGoes, Lawful
<1>8. CASE Stamp(p)
  <2>1. cmd[p].at = "stamp" /\ cmd'[p].at = "deliver" /\ cmd'[p].kind = cmd[p].kind
        /\ rec'.st = rec.st /\ rec'.missing = rec.missing /\ rec'.idle = rec.idle /\ rec'.submitted = rec.submitted
        /\ UNCHANGED <<snt, pane, tasked>>
    BY <1>0, <1>8, StampIs DEF history, world, Moves
  <2>2. Dead' <=> Dead
    BY <2>1 DEF Dead
  <2>3. LifeOf(cmd[p])'
    BY <1>0, <1>k, <2>1 DEF LifeOf, TameAt, Tame, TickTame, Launches
  <2>4. ~InHand(cmd[p])
    BY <2>1 DEF InHand
  <2> QED BY <1>0, <1>d, <2>1, <2>2, <2>3, <2>4 DEF LifeGoes, Lawful
<1>9. CASE Fail(p)
  <2>1. cmd[p].at = "fail" /\ rec'.st = "failed" /\ rec'.submitted = rec.submitted /\ UNCHANGED <<pane, tasked>>
        /\ LifeOf(cmd[p])'
    BY <1>0, <1>9, FailsIs, LifeEnds DEF history, world
  <2>2. Dead' <=> Dead
    BY <2>1 DEF Dead
  <2>3. rec.st \in {"running", "blocked", "done"}
    BY <1>0, <1>k, <2>1 DEF LifeOf, TameAt, Tame
  <2>4. ~InHand(cmd[p])
    BY <2>1 DEF InHand
  <2> QED BY <1>0, <2>1, <2>2, <2>3, <2>4 DEF LifeGoes, Lawful, L!Next, L!Settle
<1> QED BY <1>1, <1>2, <1>3, <1>4, <1>5, <1>6, <1>7, <1>8, <1>9

LEMMA LifeSpeech ==
  ASSUME NEW p \in Proc, LifeWas(p),
         MarkRunning(p) \/ Deliver(p) \/ PaneGone(p) \/ DeliveryFails(p) \/ Restore(p) \/ Interrupt(p)
            \/ QuickProbe(p) \/ Look(p) \/ GiveUp(p)
  PROVE  LifeGoes(p)
<1>0. /\ SupTypes /\ LeaseOf(cmd[p]) /\ LifeOf(cmd[p]) /\ LifeHolds
      /\ Dead \/ rec.submitted \/ InHand(cmd[p])
  BY DEF LifeWas
<1>d. /\ rec.st = "pending" => rec.missing = "no" /\ rec.idle = "no"
      /\ rec.st \in {"pending", "interrupted"} => Dead
  BY <1>0 DEF LifeHolds
<1>w. \A k \in Launches \cup Speeches :
         /\ k \in Launches => WhenGone[k] = "fail"
         /\ k = "prompt" => WhenGone[k] = "restore"
         /\ k = "decide" => WhenGone[k] = "interrupt"
  BY DEF WhenGone, Launches, Speeches
<1>1. CASE MarkRunning(p)
  <2>1. cmd[p].at = "mark" /\ cmd'[p].at = "deliver" /\ cmd'[p].kind = "prompt" /\ cmd'[p].copy = rec
        /\ rec'.st = "running" /\ rec'.missing = "no" /\ rec'.idle = "no" /\ rec'.submitted = rec.submitted
        /\ Swift /\ UNCHANGED <<snt, pane, tasked>>
    BY <1>0, <1>1, MarkRunningIs, KindIs DEF history, world, Moves
  <2>2. Dead' <=> Dead
    BY <2>1 DEF Dead
  <2>3. rec.st \in Reopenable \cup {"running"}
    BY <1>0, <2>1 DEF LifeOf
  <2>4. TickTame'
    BY <2>1 DEF Swift, TickTame
  <2>5. LifeOf(cmd[p])'
    BY <2>1, <2>3, <2>4 DEF LifeOf, TameAt, Tame
  <2>6. ~InHand(cmd[p])
    BY <2>1 DEF InHand
  <2> QED BY <1>0, <2>1, <2>2, <2>3, <2>5, <2>6 DEF LifeGoes, Lawful, L!Next, L!Resume
<1>2. CASE Deliver(p)
  <2>1. cmd[p].at = "deliver" /\ cmd'[p].at = "probe" /\ cmd'[p].kind = cmd[p].kind /\ cmd'[p].copy = cmd[p].copy
        /\ UNCHANGED <<rec, snt>> /\ pane \in Open /\ tasked' = (tasked \/ cmd[p].kind \in Launches)
    BY <1>0, <1>2, DeliverIs DEF Moves, KeepsCopy
  <2>2. Tame /\ rec.st \notin {"pending", "interrupted"}
    <3>1. TameAt(cmd[p])
      BY <1>0, <2>1, KindIs DEF TameAt, Speeches
    <3>2. Tame
      BY <1>0, <3>1 DEF LifeOf
    <3> QED BY <3>2 DEF Tame
  <2>4. LifeOf(cmd[p])'
    <3>1. cmd[p].kind \in Launches \cup Speeches /\ Tame'
      BY <1>0, <2>1, <2>2, KindIs DEF Tame, TickTame
    <3>2. cmd[p].kind = "prompt" => cmd[p].copy.st \in Reopenable \cup {"running"}
      BY <1>0, <2>1 DEF LifeOf
    <3> QED BY <2>1, <3>1, <3>2 DEF LifeOf, Launches, Speeches
  <2>5. Dead' \/ rec'.submitted \/ InHand(cmd'[p])
    <3>1. CASE cmd[p].kind \in Launches
      BY <2>1, <3>1 DEF InHand
    <3>2. CASE cmd[p].kind \notin Launches
      <4>1. ~InHand(cmd[p]) /\ tasked' = tasked
        BY <1>0, <2>1, <3>2 DEF InHand, SupTypes, TypeOK
      <4>2. Dead => Dead'
        BY <2>1, <4>1 DEF Dead, Open
      <4> QED BY <1>0, <2>1, <4>1, <4>2
    <3> QED BY <3>1, <3>2
  <2>6. TickTame'
    BY <2>1, <2>2 DEF Tame, TickTame
  <2> QED BY <2>1, <2>2, <2>4, <2>5, <2>6 DEF LifeGoes, Lawful
<1>3. CASE PaneGone(p)
  <2>1. cmd[p].at \in {"deliver", "probe"} /\ cmd[p].kind \in Launches \cup Speeches
        /\ cmd'[p].at = WhenGone[cmd[p].kind] /\ cmd'[p].kind = cmd[p].kind /\ cmd'[p].copy = cmd[p].copy
        /\ UNCHANGED <<rec, snt, pane, tasked>> /\ pane \in {"none", "gone"}
    BY <1>0, <1>3, PaneGoneIs DEF world, Moves, KeepsCopy
  <2>2. Dead /\ Dead'
    BY <2>1 DEF Dead
  <2>3. TameAt(cmd[p])
    BY <2>1 DEF TameAt, Speeches
  <2>4. Tame'
    BY <1>0, <2>1, <2>3 DEF LifeOf, Tame, TickTame
  <2>5. LifeOf(cmd[p])'
    BY <1>0, <1>w, <2>1, <2>4 DEF LifeOf, Launches, Speeches
  <2> QED BY <1>0, <1>d, <2>1, <2>2, <2>5 DEF LifeGoes, Lawful
<1>4. CASE DeliveryFails(p)
  <2>1. cmd[p].at = "deliver" /\ cmd[p].kind \in Launches \cup Speeches /\ UNCHANGED <<rec, snt, pane, tasked>>
        /\ \/ LifeOf(cmd[p])'
           \/ /\ cmd[p].kind # "decide" /\ cmd'[p].copy = cmd[p].copy
              /\ cmd'[p].at = WhenGone[cmd[p].kind] /\ cmd'[p].kind = cmd[p].kind
    BY <1>0, <1>4, DeliveryFailsIs, LifeEnds DEF world, history, Moves, KeepsCopy
  <2>2. Dead' <=> Dead
    BY <2>1 DEF Dead
  <2>3. TameAt(cmd[p]) /\ ~InHand(cmd[p])
    BY <2>1 DEF TameAt, InHand, Speeches
  <2>4. Tame'
    BY <1>0, <2>1, <2>3 DEF LifeOf, Tame, TickTame
  <2>5. LifeOf(cmd[p])'
    BY <1>0, <1>w, <2>1, <2>4 DEF LifeOf, Launches, Speeches
  <2> QED BY <1>0, <1>d, <2>1, <2>2, <2>3, <2>5 DEF LifeGoes, Lawful
<1>5. CASE Restore(p)
  <2>1. cmd[p].at = "restore" /\ cmd[p].kind = "prompt" /\ UNCHANGED <<pane, tasked>> /\ LifeOf(cmd[p])'
        /\ rec'.submitted = rec.submitted
        /\ \/ rec'.st = rec.st /\ rec'.missing = rec.missing /\ rec'.idle = rec.idle
           \/ rec.st = "running" /\ rec'.st = cmd[p].copy.st
    BY <1>0, <1>5, RestoreIs, LifeEnds DEF world, history
  <2>2. Dead' <=> Dead
    BY <2>1 DEF Dead
  <2>3. ~InHand(cmd[p]) /\ cmd[p].copy.st \in Reopenable \cup {"running"}
    BY <1>0, <2>1 DEF InHand, LifeOf
  <2> QED BY <1>0, <1>d, <2>1, <2>2, <2>3 DEF LifeGoes, Lawful, L!Next, L!Settle
<1>6. CASE Interrupt(p)
  <2>1. cmd[p].at = "interrupt" /\ rec'.st = "interrupted" /\ rec'.submitted = rec.submitted
        /\ UNCHANGED <<pane, tasked>> /\ LifeOf(cmd[p])'
    BY <1>0, <1>6, FailsIs, LifeEnds DEF history, world
  <2>2. Dead'
    BY <1>0, <2>1 DEF LifeOf, Dead
  <2>3. rec.st \in {"running", "blocked", "done"}
    <3>1. cmd[p].kind \in {"decide", "dismiss"}
      BY <1>0, <2>1, KindIs
    <3> QED BY <1>0, <3>1 DEF LifeOf, TameAt, Tame
  <2> QED BY <1>0, <2>1, <2>2, <2>3 DEF LifeGoes, Lawful, L!Next, L!Settle
<1>7. CASE QuickProbe(p)
  <2>1. cmd[p].at = "probe" /\ cmd'[p].at = "record" /\ cmd'[p].kind = cmd[p].kind /\ UNCHANGED <<rec, snt, pane, tasked>>
    BY <1>0, <1>7, QuickProbeIs DEF history, world, Moves
  <2>2. Dead' <=> Dead
    BY <2>1 DEF Dead
  <2>3. InHand(cmd[p]) => InHand(cmd'[p])
    BY <2>1 DEF InHand
  <2>4. cmd[p].kind \in Launches \cup Speeches
    BY <1>0, <2>1, KindIs
  <2>5. TameAt(cmd[p])
    BY <2>1, <2>4 DEF TameAt, Speeches
  <2>6. Tame'
    BY <1>0, <2>1, <2>5 DEF LifeOf, Tame, TickTame
  <2>7. LifeOf(cmd[p])'
    BY <2>1, <2>4, <2>6 DEF LifeOf, Launches, Speeches
  <2> QED BY <1>0, <1>d, <2>1, <2>2, <2>3, <2>7 DEF LifeGoes, Lawful
<1>8. CASE Look(p)
  <2>1. cmd[p].at = "look" /\ cmd[p].kind = "dismiss" /\ UNCHANGED <<rec, snt, pane, tasked>>
        /\ \/ End(p)
           \/ /\ cmd'[p].kind = "dismiss"
              /\ cmd'[p].at = "record" \/ (cmd'[p].at = "interrupt" /\ pane \in {"none", "gone"})
    BY <1>0, <1>8, LookIs DEF history, world, Moves
  <2>2. (Dead' <=> Dead) /\ ~InHand(cmd[p])
    BY <2>1 DEF Dead, InHand
  <2>3. CASE End(p)
    BY <1>0, <1>d, <2>1, <2>2, <2>3, LifeEnds DEF LifeGoes, Lawful
  <2>4. CASE ~End(p)
    <3>1. LifeOf(cmd[p])'
      BY <1>0, <2>1, <2>4 DEF LifeOf, TameAt, Launches, Undisturbed, Swift
    <3> QED BY <1>0, <1>d, <2>1, <2>2, <3>1 DEF LifeGoes, Lawful
  <2> QED BY <2>3, <2>4
<1>9. CASE GiveUp(p)
  <2>1. cmd[p].at \in {"discard", "acquire", "look", "retire", "ship"} /\ UNCHANGED <<rec, pane, tasked>> /\ LifeOf(cmd[p])'
    BY <1>0, <1>9, LifeEnds DEF GiveUp, world, history, C
  <2>2. (Dead' <=> Dead) /\ ~InHand(cmd[p])
    BY <2>1 DEF Dead, InHand
  <2> QED BY <1>0, <1>d, <2>1, <2>2 DEF LifeGoes, Lawful
<1> QED BY <1>1, <1>2, <1>3, <1>4, <1>5, <1>6, <1>7, <1>8, <1>9

LEMMA LifeRecords ==
  ASSUME NEW p \in Proc, LifeWas(p),
         RecordLaunch(p) \/ RecordPrompt(p) \/ RecordAnswer(p) \/ RecordDismissal(p)
            \/ Retire(p) \/ CloseStruck(p) \/ RecordLanded(p) \/ RecordShipped(p) \/ Kill(p)
  PROVE  LifeGoes(p)
<1>0. /\ SupTypes /\ LeaseOf(cmd[p]) /\ LifeOf(cmd[p]) /\ LifeHolds /\ rec \in Records
      /\ Dead \/ rec.submitted \/ InHand(cmd[p])
  BY DEF LifeWas, SupTypes, TypeOK
<1>d. /\ rec.st = "pending" => rec.missing = "no" /\ rec.idle = "no"
      /\ rec.st \in {"pending", "interrupted"} => Dead
  BY <1>0 DEF LifeHolds
<1>1. CASE RecordLaunch(p) \/ RecordPrompt(p) \/ RecordAnswer(p) \/ RecordDismissal(p)
  <2>1. /\ cmd[p].at = "record" /\ UNCHANGED <<pane, tasked>> /\ LifeOf(cmd[p])'
        /\ rec'.st \in Results \cup {rec.st} /\ (rec'.submitted = rec.submitted \/ rec'.submitted = TRUE)
        /\ cmd[p].kind \in Launches => rec'.submitted = TRUE
        /\ cmd[p].kind \in Launches \cup {"prompt", "decide", "dismiss"}
    BY <1>0, <1>1, RecordedIs, LifeEnds DEF history, world, Launches
  <2>2. (Dead' <=> Dead) /\ (InHand(cmd[p]) => rec'.submitted)
    BY <2>1 DEF Dead, InHand
  <2>3. rec.st \in {"running", "blocked", "done"}
    BY <1>0, <2>1 DEF LifeOf, TameAt, Tame
  <2>4. rec'.st \in {"running", "blocked", "done", "unconfirmed"}
    BY <2>1, <2>3 DEF Results
  <2>5. Lawful
    BY <2>3, <2>4 DEF Lawful, L!Next, L!Settle, L!Resume
  <2> QED BY <1>0, <2>1, <2>2, <2>4, <2>5 DEF LifeGoes
<1>2. CASE Retire(p)
  <2>1. cmd[p].at = "retire" /\ cmd'[p].at = "close" /\ cmd'[p].kind = cmd[p].kind /\ UNCHANGED <<rec, tasked>>
        /\ pane' \in {pane, "gone"}
    BY <1>0, <1>2, RetireIs DEF history, Moves
  <2>2. cmd[p].kind \in {"strike", "land"}
    BY <1>0, <2>1, KindIs
  <2>3. (Dead => Dead') /\ ~InHand(cmd[p])
    BY <2>1 DEF Dead, InHand
  <2>4. LifeOf(cmd[p])'
    BY <2>1, <2>2 DEF LifeOf, TameAt, Launches
  <2> QED BY <1>0, <1>d, <2>1, <2>3, <2>4 DEF LifeGoes, Lawful
<1>3. CASE CloseStruck(p) \/ RecordLanded(p)
  <2>1. cmd[p].at = "close" /\ UNCHANGED <<pane, tasked>> /\ LifeOf(cmd[p])' /\ rec'.submitted = rec.submitted
        /\ \/ rec' = rec
           \/ rec.st \in L!NeverFinished /\ rec'.st = "struck"
           \/ rec.st \in {"running", "blocked", "unconfirmed"} /\ rec'.st = "done"
    BY <1>0, <1>3, ClosedIs, LifeEnds DEF history, world
  <2>2. (Dead' <=> Dead) /\ ~InHand(cmd[p])
    BY <2>1 DEF Dead, InHand
  <2>3. Lawful
    BY <2>1 DEF Lawful, L!Next, L!Settle, L!Close
  <2> QED BY <1>0, <1>d, <2>1, <2>2, <2>3 DEF LifeGoes
<1>4. CASE RecordShipped(p)
  <2>1. cmd[p].at = "ship" /\ UNCHANGED <<pane, tasked>> /\ LifeOf(cmd[p])' /\ rec'.submitted = rec.submitted
        /\ rec'.st = "shipped"
    BY <1>0, <1>4, FailsIs, LifeEnds DEF history, world
  <2>2. (Dead' <=> Dead) /\ ~InHand(cmd[p])
    BY <2>1 DEF Dead, InHand
  <2>3. rec.st \in Statuses \ {"pending", "failed", "struck"}
    BY <1>0, <2>1 DEF LifeOf, Records
  <2>4. Lawful
    BY <2>1, <2>3 DEF Lawful, L!Next, L!Settle, L!Ship
  <2> QED BY <1>0, <2>1, <2>2, <2>4 DEF LifeGoes
<1>5. CASE Kill(p)
  <2>1. UNCHANGED <<rec, pane>> /\ LifeOf(cmd[p])'
        /\ tasked' = (tasked /\ ~(cmd[p].kind \in Launches /\ cmd[p].at \in {"probe", "record"}))
    BY <1>0, <1>5, LifeEnds DEF Kill, world, C
  <2>2. (Dead => Dead') /\ (InHand(cmd[p]) => Dead')
    BY <2>1 DEF Dead, InHand
  <2> QED BY <1>0, <1>d, <2>1, <2>2 DEF LifeGoes, Lawful
<1> QED BY <1>1, <1>2, <1>3, <1>4, <1>5

LEMMA LifeBegins ==
  ASSUME NEW p \in Proc, LifeWas(p), "marked" \notin Event, NEW k \in Kind, Begin(p, k)
  PROVE  LifeGoes(p)
<1>0. /\ SupTypes /\ LifeHolds
      /\ Dead \/ rec.submitted \/ InHand(cmd[p])
  BY DEF LifeWas
<1>d. /\ rec.st = "pending" => rec.missing = "no" /\ rec.idle = "no"
      /\ rec.st \in {"pending", "interrupted"} => Dead
  BY <1>0 DEF LifeHolds
<1>1. PICK c : c = cmd'[p]
  OBVIOUS
<1>2. /\ c.at = FirstStep[k] /\ c.kind = k /\ c.copy = Loaded(k) /\ Accepts(k) /\ Timely(k) /\ cmd[p].at = "idle"
      /\ UNCHANGED <<rec, snt, pane, tasked>>
  BY <1>0, <1>1, BeginIs DEF world, history
<1>3. k = "dispatch" => Loaded(k) = rec
  BY <1>0, LoadedIs
<1>4. /\ k = "dispatch" => rec.st = "pending"
      /\ k = "prompt" => rec.st \in {"done", "shipped", "unconfirmed"}
      /\ k \in {"decide", "dismiss"} => rec.st = "blocked"
      /\ k = "ship" => rec.st \in {"done", "shipped"}
  BY <1>2 DEF Accepts
<1>5. (k = "redispatch" => rec.idle = "no") /\ (k = "decide" => Swift)
  BY <1>2 DEF Timely
<1>6. /\ k = "dispatch" => FirstStep[k] = "acquire"
      /\ k = "redispatch" => FirstStep[k] = "discard"
      /\ k = "prompt" => FirstStep[k] = "mark"
      /\ k = "decide" => FirstStep[k] = "deliver"
      /\ k = "dismiss" => FirstStep[k] = "look"
      /\ k \in {"strike", "land"} => FirstStep[k] = "retire"
      /\ k = "ship" => FirstStep[k] = "ship"
  BY DEF FirstStep
<1>7. (Dead' <=> Dead) /\ ~InHand(cmd[p])
  BY <1>2 DEF Dead, InHand
<1>8. k = "decide" => Tame'
  BY <1>2, <1>4, <1>5 DEF Tame, TickTame, Swift
<1>9. LifeOf(c)'
  <2>1. k \in Launches => c.at \in {"acquire", "discard"}
    BY <1>2, <1>6 DEF Launches
  <2>2. TameAt(c) => k = "decide"
    BY <1>2, <1>6, <2>1 DEF TameAt
  <2> QED BY <1>2, <1>3, <1>4, <1>5, <1>6, <1>8, <1>d, <2>2 DEF LifeOf, Kind, Undisturbed
<1>10. LifeOf(cmd[p])'
  BY <1>1, <1>9 DEF LifeOf, TameAt
<1> QED BY <1>0, <1>d, <1>2, <1>7, <1>10 DEF LifeGoes, Lawful

LEMMA LifeStep ==
  OneCommand /\ "marked" \notin Event /\ LifeIInv /\ [Next]_vars => LifeIInv' /\ Lawful
<1> SUFFICES ASSUME OneCommand, "marked" \notin Event, LifeIInv, [Next]_vars PROVE LifeIInv' /\ Lawful
  OBVIOUS
<1>0. SupTypes /\ LeaseIInv /\ LeaseIInv' /\ LifeHolds
  BY LeaseStep DEF LifeIInv, LeaseIInv
<1>1. CASE SentinelStep \/ Outage \/ Crash
  BY <1>0, <1>1, LifeTick DEF LifeIInv
<1>2. CASE World
  BY <1>0, <1>2, LifeWorld DEF LifeIInv
<1>3. ASSUME NEW p \in Proc, CommandStep(p) \/ Kill(p) \/ (\E k \in Kind : Begin(p, k))
      PROVE  LifeIInv' /\ Lawful
  <2>1. LifeWas(p)
    BY LifeHad
  <2>2. LifeGoes(p)
    BY <1>3, <2>1, LifeLaunch, LifeSpeech, LifeRecords, LifeBegins DEF CommandStep
  <2>3. snt' = snt
    BY <1>3 DEF CommandStep, Discard, Reset, Acquire, CreateTab, TabFails, RecordRunning, StartAgent, Stamp, Fail,
           MarkRunning, Deliver, PaneGone, DeliveryFails, Restore, Interrupt, QuickProbe, Look, GiveUp,
           RecordLaunch, RecordPrompt, RecordAnswer, RecordDismissal, Retire, CloseStruck, RecordLanded,
           RecordShipped, Kill, Begin
  <2>4. \A q \in Proc : q = p
    BY DEF OneCommand
  <2>5. LifeHolds'
    BY <1>0, <2>2, <2>3 DEF LifeHolds, LifeGoes, TickTame
  <2>6. \A q \in Proc : LifeOf(cmd[q])'
    BY <2>2, <2>4 DEF LifeGoes
  <2> QED BY <1>0, <2>2, <2>5, <2>6 DEF LifeIInv, LifeGoes
<1>4. CASE UNCHANGED vars
  BY <1>0, <1>4 DEF vars, world, history, LifeIInv, LifeHolds, LifeOf, InHand, TameAt, Tame, TickTame,
                    Undisturbed, Swift, Dead, Lawful
<1> QED BY <1>1, <1>2, <1>3, <1>4 DEF Next

\* handleAgentNotFound, interruptUndelivered, Reprompt: a task that is marked interrupted, and
\* whose camp vx redispatch may throw away, has no soldier at work that was given the task, if
\* no redispatch meets a record that still carries an idle mark.
THEOREM InterruptedIsLost == OneCommand /\ "marked" \notin Event => (Spec => []LostIsLost)
<1> SUFFICES ASSUME OneCommand, "marked" \notin Event PROVE Spec => []LostIsLost
  OBVIOUS
<1>1. LifeIInv /\ [Next]_vars => LifeIInv'
  BY LifeStep
<1>2. LifeIInv => LostIsLost
  BY DEF LifeIInv, LifeHolds, LeaseIInv, SupTypes, LostIsLost, LostHasNoSoldier, Dead
<1> QED BY <1>1, <1>2, LifeStart, PTL DEF Spec

\* state.Update: under the same conditions the record implements Lifecycle, whatever the
\* interleaving of the tick, the command and the soldier.
THEOREM RecordRefinesLifecycle == OneCommand /\ "marked" \notin Event => (Spec => LifecycleSpec)
<1> SUFFICES ASSUME OneCommand, "marked" \notin Event PROVE Spec => LifecycleSpec
  OBVIOUS
<1>1. LifeIInv /\ [Next]_vars => LifeIInv' /\ [L!Next]_(rec.st)
  BY LifeStep DEF Lawful
<1>2. Init => L!Init
  BY NewIs DEF Init, L!Init
<1> QED BY <1>1, <1>2, LifeStart, PTL DEF Spec, LifecycleSpec, L!Spec

-----------------------------------------------------------------------------
(* Amendments.                                                               *)

Alike(A, B) == \A i \in Id \ unsure : i \in A <=> i \in B
\* What a command that is at work has told the soldier, and what of it is on record.
Untold(c) == c.id \notin heard /\ c.id \notin rec.amends
OwnTold(c) ==
    CASE c.kind = "prompt" /\ c.at \in {"deliver", "restore"} -> c.id \notin heard /\ c.id \in rec.amends
      [] c.kind = "prompt" /\ c.at = "mark"                   -> Untold(c)
      [] c.kind = "decide" /\ c.at = "deliver"                -> Untold(c)
      [] c.kind = "decide" /\ c.at \in {"probe", "record"}    -> c.id \in heard /\ c.id \notin rec.amends
      [] OTHER -> c.id \in heard <=> c.id \in rec.amends
\* While its command is at it, no tick works on the task.
Steady(c) == c.kind = "decide" \/ (c.kind = "prompt" /\ (c.at = "deliver" \/ (c.at = "restore" /\ c.id \notin unsure)))
AmendOf(c) ==
    /\ c.at \in {"acquire", "tab"} => Alike(c.copy.amends, rec.amends)
    /\ Steady(c) => Swift /\ (rec.st = "running" => rec.fresh)
    /\ c.id \in Id \ unsure => OwnTold(c)
AmendHolds == /\ snt.at \in {"probe", "act"} => Alike(snt.snap.amends, rec.amends)
              /\ snt.at = "save" => Alike(snt.next.amends, rec.amends)
              /\ heard \cup unsure \subseteq 1..issued
              /\ AmendmentKept
AmendIInv == SupTypes /\ AmendHolds /\ \A p \in Proc : AmendOf(cmd[p])

LEMMA AmendStart == Init => AmendIInv
<1> SUFFICES ASSUME Init PROVE AmendIInv
  OBVIOUS
<1>1. \A p \in Proc : cmd[p] = NoCmd
  BY DEF Init
<1>2. AmendOf(NoCmd)
  BY NoCmdIs DEF AmendOf, Steady
<1>3. AmendHolds
  BY NewIs, NoTickIs DEF Init, AmendHolds, AmendmentKept
<1> QED BY <1>1, <1>2, <1>3, SupStart DEF AmendIInv

\* A tick writes no amendments but those it has read.
LEMMA TickAlike ==
  ASSUME SupTypes, AmendHolds, SentinelStep \/ Outage \/ Crash
  PROVE  /\ UNCHANGED <<cmd, issued, heard, unsure>>
         /\ Alike(rec'.amends, rec.amends)
         /\ snt'.at \in {"probe", "act"} => Alike(snt'.snap.amends, rec'.amends)
         /\ snt'.at = "save" => Alike(snt'.next.amends, rec'.amends)
         /\ Swift /\ (rec.st = "running" => rec.fresh) => Swift' /\ (rec'.st = "running" => rec'.fresh)
<1>1. UNCHANGED <<cmd, issued, heard, unsure>>
  BY TickStep DEF history
<1>a. /\ snt.at \in {"probe", "act"} => Alike(snt.snap.amends, rec.amends)
      /\ snt.at = "save" => Alike(snt.next.amends, rec.amends)
  BY DEF AmendHolds
<1>2. CASE ReopenSave \/ InterruptUndelivered
  <2>1. Rests /\ rec'.amends = rec.amends /\ (rec' = rec \/ rec'.fresh \/ snt.at = "undelivered")
    BY <1>2, WriteIs
  <2> QED BY <1>1, <2>1 DEF Rests, Alike, Swift
<1>3. CASE AgentFound
  <2>1. snt.at = "act" /\ \/ rec' = rec /\ Rests
                          \/ /\ rec'.amends = snt.snap.amends /\ snt'.at = "act"
                             /\ snt'.snap.amends = snt.snap.amends
    BY <1>3, WriteIs
  <2> QED BY <1>1, <1>a, <2>1 DEF Rests, Alike, Swift
<1>4. CASE Save
  <2>1. snt.at = "save" /\ Rests /\ (rec' = rec \/ rec'.amends = snt.next.amends)
    BY <1>4, WriteIs
  <2> QED BY <1>1, <1>a, <2>1 DEF Rests, Alike, Swift
<1>5. CASE UNCHANGED rec /\ Rests
  BY <1>1, <1>5 DEF Rests, Alike, Swift
<1>6. CASE UNCHANGED rec /\ Undelivered
  <2>1. snt'.at = "undelivered" /\ snt.at = "act"
    BY <1>6, NoTickIs, TickIs DEF Undelivered
  <2> QED BY <1>1, <1>6, <2>1 DEF Alike, Swift
<1>7. CASE UNCHANGED rec /\ Sees
  <2>1. /\ snt'.at \in {"idle", "reopen", "reopenSave", "probe", "act"}
        /\ snt'.at = "probe" => rec.st = "running" /\ ~rec.fresh /\ snt'.snap = rec
        /\ snt'.at = "act" => snt.at = "probe" /\ snt'.snap = snt.snap
    BY <1>7, SeenIs
  <2> QED BY <1>1, <1>7, <1>a, <2>1 DEF Alike, Swift
<1>8. ASSUME NEW r, Plan(r), UNCHANGED rec
      PROVE  /\ Alike(rec'.amends, rec.amends)
             /\ snt'.at \notin {"probe", "act"}
             /\ snt'.at = "save" => Alike(snt'.next.amends, rec'.amends)
             /\ ~Swift
  <2>1. snt'.at = "save" /\ snt'.next = r
    BY <1>8, SaveIs DEF Plan, ToSave
  <2>2. snt.at = "act" /\ r.amends = snt.snap.amends
    BY <1>8 DEF Plan
  <2> QED BY <1>a, <1>8, <2>1, <2>2 DEF Alike, Swift
<1> QED BY <1>1, <1>2, <1>3, <1>4, <1>5, <1>6, <1>7, <1>8, TickStep

LEMMA AmendOthers ==
  ASSUME AmendIInv, "overtaken" \notin Event, SentinelStep \/ Outage \/ Crash \/ World
  PROVE  AmendHolds' /\ \A p \in Proc : AmendOf(cmd[p])'
<1>0. SupTypes /\ AmendHolds /\ rec \in Records
  BY DEF AmendIInv, SupTypes, TypeOK
<1>1. /\ UNCHANGED <<cmd, issued, heard, unsure>>
      /\ Alike(rec'.amends, rec.amends)
      /\ snt'.at \in {"probe", "act"} => Alike(snt'.snap.amends, rec'.amends)
      /\ snt'.at = "save" => Alike(snt'.next.amends, rec'.amends)
      /\ \A p \in Proc : Steady(cmd[p]) => Swift' /\ (rec'.st = "running" => rec'.fresh)
  <2>0. \A p \in Proc : Steady(cmd[p]) => Swift /\ (rec.st = "running" => rec.fresh)
    BY DEF AmendIInv, AmendOf
  <2>1. CASE SentinelStep \/ Outage \/ Crash
    BY <1>0, <2>0, <2>1, TickAlike
  <2>2. CASE World
    <3>1. UNCHANGED <<snt, cmd, issued, heard, unsure>> /\ (GraceOver \/ WindowOver \/ UNCHANGED rec)
      BY <1>0, <2>2, WorldTypes DEF history
    <3>2. rec'.amends = rec.amends /\ rec'.st = rec.st
      BY <1>0, <3>1 DEF GraceOver, WindowOver, Records
    <3>3. rec'.fresh = rec.fresh \/ GraceOver
      BY <1>0, <3>1 DEF WindowOver, Records
    <3>4. ASSUME GraceOver, NEW p \in Proc PROVE ~Steady(cmd[p])
      <4>1. cmd[p].at \in {"idle", "ship"} \/ (cmd[p].at = "probe" /\ cmd[p].kind # "decide")
        BY <3>4 DEF GraceOver, Waits, Probing, At, C
      <4>2. cmd[p].at \in {"idle", "ship"} => cmd[p].kind \in {"none", "ship"}
        BY <1>0, MineIs, KindAt
      <4> QED BY <4>1, <4>2 DEF Steady
    <3>5. Swift' <=> Swift
      BY <3>1 DEF Swift
    <3>6. Alike(rec'.amends, rec.amends)
      BY <3>2 DEF Alike
    <3>7. /\ snt'.at \in {"probe", "act"} => Alike(snt'.snap.amends, rec'.amends)
          /\ snt'.at = "save" => Alike(snt'.next.amends, rec'.amends)
      BY <1>0, <3>1, <3>2 DEF AmendHolds
    <3> QED BY <2>0, <3>1, <3>2, <3>3, <3>4, <3>5, <3>6, <3>7
  <2> QED BY <2>1, <2>2
<1>2. \A i \in Id \ unsure : i \in rec'.amends <=> i \in rec.amends
  BY <1>1 DEF Alike
<1>3. AmendmentKept'
  BY <1>0, <1>1, <1>2 DEF AmendHolds, AmendmentKept, C
<1>4. AmendHolds'
  BY <1>0, <1>1, <1>3 DEF AmendHolds, Alike
<1>5. ASSUME NEW p \in Proc PROVE AmendOf(cmd[p])'
  <2>1. PICK c : c = cmd[p]
    OBVIOUS
  <2>2. AmendOf(c) /\ cmd'[p] = c
    BY <1>1, <2>1 DEF AmendIInv
  <2>3. c.id \in Id \ unsure => (OwnTold(c)' <=> OwnTold(c))
    BY <1>1, <1>2 DEF OwnTold, Untold
  <2>4. AmendOf(c)'
    BY <1>1, <1>2, <2>1, <2>2, <2>3 DEF AmendOf, Steady, Alike
  <2> QED BY <2>2, <2>4 DEF AmendOf, Steady, OwnTold, Untold, Alike
<1> QED BY <1>4, <1>5

\* The step of a command, when it is the only one.
AmendGoes(p) ==
    /\ unsure \subseteq unsure' /\ heard' \cup unsure' \subseteq 1..issued'
    /\ \A i \in Id \ unsure' : i # cmd[p].id => (i \in heard' <=> i \in heard) /\ (i \in rec'.amends <=> i \in rec.amends)
    /\ ~Swift => \A i \in Id \ unsure' : i \in rec'.amends <=> i \in rec.amends
    /\ AmendOf(cmd[p])'
    /\ cmd'[p].id # cmd[p].id /\ cmd[p].id \in Id \ unsure' => (cmd[p].id \in heard' <=> cmd[p].id \in rec'.amends)
\* What holds of it before.
AmendWas(p) == SupTypes /\ AmendHolds /\ AmendOf(cmd[p])

LEMMA AmendEnds ==
  ASSUME SupTypes, NEW p \in Proc, End(p)
  PROVE  AmendOf(cmd[p])'
  BY EndIs, NoCmdIs DEF AmendOf, Steady

\* A step that changes no amendment and tells the soldier nothing.
LEMMA AmendSame ==
  ASSUME NEW p \in Proc, AmendWas(p), rec'.amends = rec.amends, UNCHANGED <<heard, unsure, issued>>, AmendOf(cmd[p])',
         cmd'[p].id = cmd[p].id \/ (cmd[p].id \in Id \ unsure => (cmd[p].id \in heard <=> cmd[p].id \in rec.amends))
  PROVE  AmendGoes(p)
  BY DEF AmendWas, AmendHolds, AmendGoes

LEMMA AmendLaunch ==
  ASSUME NEW p \in Proc, AmendWas(p),
         Discard(p) \/ Reset(p) \/ Acquire(p) \/ CreateTab(p) \/ TabFails(p) \/ RecordRunning(p)
            \/ StartAgent(p) \/ Stamp(p) \/ Fail(p)
  PROVE  AmendGoes(p)
<1>0. SupTypes /\ AmendHolds /\ AmendOf(cmd[p]) /\ heard \cup unsure \subseteq 1..issued
  BY DEF AmendWas, AmendHolds
<1>1. cmd[p].at \in {"discard", "reset", "acquire", "tab", "run", "start", "stamp", "fail"}
  BY <1>0, DiscardIs, ResetIs, AcquireIs, CreateTabIs, FailsIs, RecordRunningIs, StartAgentIs, StampIs
<1>2. cmd[p].kind \in Launches
  BY <1>0, <1>1, KindIs DEF Launches
<1>3. cmd[p].id \in Id \ unsure => (cmd[p].id \in heard <=> cmd[p].id \in rec.amends)
  BY <1>0, <1>2 DEF AmendOf, OwnTold, Launches
\* The record a launch writes has the amendments of the record it replaces.
<1>4. UNCHANGED <<heard, unsure, issued>> /\ \A i \in Id \ unsure : i \in rec'.amends <=> i \in rec.amends
  <2>1. CASE Acquire(p)
    BY <1>0, <2>1, AcquireIs DEF AmendOf, Alike, history
  <2>2. CASE TabFails(p)
    BY <1>0, <2>2, FailsIs DEF AmendOf, Alike, history
  <2>3. CASE ~Acquire(p) /\ ~TabFails(p)
    BY <1>0, <2>3, DiscardIs, ResetIs, CreateTabIs, FailsIs, RecordRunningIs, StartAgentIs, StampIs DEF history
  <2> QED BY <2>1, <2>2, <2>3
<1>5. \/ End(p)
      \/ /\ cmd'[p].kind = cmd[p].kind /\ cmd'[p].id = cmd[p].id
         /\ cmd'[p].at \in {"acquire", "tab"} => cmd'[p].copy.amends = rec'.amends
  <2>1. CASE Discard(p) \/ CreateTab(p) \/ RecordRunning(p) \/ StartAgent(p) \/ Stamp(p)
    BY <1>0, <2>1, DiscardIs, CreateTabIs, RecordRunningIs, StartAgentIs, StampIs DEF Moves
  <2>2. CASE Reset(p)
    BY <1>0, <2>2, ResetIs DEF Moves
  <2>3. CASE Acquire(p)
    BY <1>0, <2>3, AcquireIs DEF Moves, KeepsCopy
  <2>4. CASE TabFails(p) \/ Fail(p)
    BY <1>0, <2>4, FailsIs
  <2> QED BY <2>1, <2>2, <2>3, <2>4
<1>6. AmendOf(cmd[p])'
  <2>1. CASE End(p)
    BY <1>0, <2>1, AmendEnds
  <2>2. CASE ~End(p)
    BY <1>2, <1>3, <1>4, <1>5, <2>2 DEF AmendOf, Alike, Steady, OwnTold, Launches
  <2> QED BY <2>1, <2>2
<1> QED BY <1>0, <1>3, <1>4, <1>6 DEF AmendGoes

LEMMA AmendSpeech ==
  ASSUME NEW p \in Proc, AmendWas(p),
         MarkRunning(p) \/ Deliver(p) \/ PaneGone(p) \/ DeliveryFails(p) \/ Restore(p) \/ Interrupt(p)
            \/ QuickProbe(p) \/ Look(p) \/ GiveUp(p)
  PROVE  AmendGoes(p)
<1>0. SupTypes /\ AmendHolds /\ AmendOf(cmd[p]) /\ heard \cup unsure \subseteq 1..issued
      /\ (cmd[p].at # "idle" => cmd[p].id \in Id /\ cmd[p].id \in 1..issued)
  BY MineIs DEF AmendWas, AmendHolds
<1>o. cmd[p].id \in Id \ unsure => OwnTold(cmd[p])
  BY <1>0 DEF AmendOf
<1>w. \A k \in Launches \cup Speeches :
         /\ k \in Launches => WhenGone[k] = "fail"
         /\ k = "prompt" => WhenGone[k] = "restore"
         /\ k = "decide" => WhenGone[k] = "interrupt"
  BY DEF WhenGone, Launches, Speeches
<1>1. CASE MarkRunning(p)
  <2>1. cmd[p].at = "mark" /\ cmd[p].kind = "prompt" /\ cmd'[p].at = "deliver" /\ cmd'[p].kind = "prompt"
        /\ cmd'[p].id = cmd[p].id /\ rec'.fresh = TRUE /\ rec'.amends = rec.amends \cup {cmd[p].id}
        /\ Swift /\ UNCHANGED <<snt, heard, unsure, issued>>
    BY <1>0, <1>1, MarkRunningIs, KindIs DEF history, Moves
  <2>2. Swift'
    BY <2>1 DEF Swift
  <2>3. cmd[p].id \in Id \ unsure => cmd[p].id \notin heard
    BY <1>o, <2>1 DEF OwnTold, Untold
  <2>4. AmendOf(cmd[p])'
    BY <2>1, <2>2, <2>3 DEF AmendOf, OwnTold
  <2> QED BY <1>0, <2>1, <2>4 DEF AmendGoes
<1>2. CASE Deliver(p)
  <2>1. cmd[p].at = "deliver" /\ cmd'[p].at = "probe" /\ cmd'[p].kind = cmd[p].kind /\ cmd'[p].id = cmd[p].id
        /\ UNCHANGED <<rec, snt, unsure, issued>>
        /\ heard' = (IF cmd[p].kind \in Speeches THEN heard \cup {cmd[p].id} ELSE heard)
    BY <1>0, <1>2, DeliverIs DEF Moves
  <2>2. cmd[p].kind \in Launches \cup Speeches
    BY <1>0, <2>1, KindIs
  <2>3. Steady(cmd[p])' => Swift' /\ (rec'.st = "running" => rec'.fresh)
    BY <1>0, <2>1 DEF AmendOf, Steady, Swift
  <2>4. cmd[p].id \in Id \ unsure => OwnTold(cmd[p])'
    <3>1. CASE cmd[p].kind \in Launches
      BY <1>o, <2>1, <3>1 DEF OwnTold, Launches, Speeches
    <3>2. CASE cmd[p].kind = "prompt"
      BY <1>o, <2>1, <3>2 DEF OwnTold, Speeches
    <3>3. CASE cmd[p].kind = "decide"
      BY <1>o, <2>1, <3>3 DEF OwnTold, Untold, Speeches
    <3> QED BY <2>2, <3>1, <3>2, <3>3 DEF Speeches
  <2>5. AmendOf(cmd[p])'
    BY <2>1, <2>3, <2>4 DEF AmendOf
  <2> QED BY <1>0, <2>1, <2>5 DEF AmendGoes
<1>3. CASE PaneGone(p)
  <2>1. cmd[p].at \in {"deliver", "probe"} /\ cmd[p].kind \in Launches \cup Speeches
        /\ cmd'[p].at = WhenGone[cmd[p].kind] /\ cmd'[p].kind = cmd[p].kind /\ cmd'[p].id = cmd[p].id
        /\ UNCHANGED <<rec, snt, heard, issued>>
        /\ unsure' = (IF cmd[p].at = "probe" /\ cmd[p].kind \in Speeches THEN unsure \cup {cmd[p].id} ELSE unsure)
    BY <1>0, <1>3, PaneGoneIs DEF Moves
  <2>2. Steady(cmd[p])' => Swift' /\ (rec'.st = "running" => rec'.fresh)
    BY <1>0, <1>w, <2>1 DEF AmendOf, Steady, Swift, Launches, Speeches
  <2>3. cmd[p].id \in Id \ unsure' => OwnTold(cmd[p])'
    <3>1. CASE cmd[p].kind \in Launches
      BY <1>o, <1>w, <2>1, <3>1 DEF OwnTold, Launches, Speeches
    <3>2. CASE cmd[p].kind = "prompt"
      BY <1>o, <1>w, <2>1, <3>2 DEF OwnTold, Speeches
    <3>3. CASE cmd[p].kind = "decide"
      BY <1>o, <1>w, <2>1, <3>3 DEF OwnTold, Untold, Speeches
    <3> QED BY <2>1, <3>1, <3>2, <3>3 DEF Speeches
  <2>4. cmd'[p].at \notin {"acquire", "tab"}
    BY <1>w, <2>1 DEF Launches, Speeches
  <2>5. AmendOf(cmd[p])'
    BY <2>1, <2>2, <2>3, <2>4 DEF AmendOf
  <2> QED BY <1>0, <2>1, <2>5 DEF AmendGoes
<1>4. CASE DeliveryFails(p)
  <2>1. cmd[p].at = "deliver" /\ cmd[p].kind \in Launches \cup Speeches /\ UNCHANGED <<rec, snt, heard, unsure, issued>>
        /\ \/ End(p)
           \/ /\ cmd[p].kind # "decide" /\ cmd'[p].id = cmd[p].id
              /\ cmd'[p].at = WhenGone[cmd[p].kind] /\ cmd'[p].kind = cmd[p].kind
    BY <1>0, <1>4, DeliveryFailsIs DEF history, Moves
  <2>2. CASE End(p) /\ cmd[p].kind # "prompt"
    <3>1. cmd[p].id \in Id \ unsure => (cmd[p].id \in heard <=> cmd[p].id \in rec.amends)
      BY <1>o, <2>1, <2>2 DEF OwnTold, Untold, Launches, Speeches
    <3> QED BY <1>0, <2>1, <2>2, <3>1, AmendEnds, AmendSame
  <2>3. CASE ~End(p)
    <3>1. Steady(cmd[p])' => Swift' /\ (rec'.st = "running" => rec'.fresh)
      BY <1>0, <1>w, <2>1, <2>3 DEF AmendOf, Steady, Swift, Launches, Speeches
    <3>2. cmd[p].id \in Id \ unsure' => OwnTold(cmd[p])'
      BY <1>o, <1>w, <2>1, <2>3 DEF OwnTold, Launches, Speeches
    <3>3. AmendOf(cmd[p])'
      BY <1>w, <2>1, <2>3, <3>1, <3>2 DEF AmendOf, Launches, Speeches
    <3> QED BY <1>0, <2>1, <2>3, <3>3, AmendSame
  <2>4. CASE End(p) /\ cmd[p].kind = "prompt"
    <3>1. cmd' = [cmd EXCEPT ![p].at = "restore"]
      BY <1>4, <2>4 DEF DeliveryFails, C, Goto, WhenGone
    <3>2. cmd'[p].at = "restore"
      BY <1>0, <3>1, GotoMoves, KindAt DEF Goto, Moves, KindsAt
    <3> QED BY <1>0, <2>4, <3>2, EndIs, NoCmdIs
  <2> QED BY <2>2, <2>3, <2>4
<1>5. CASE Restore(p)
  <2>1. cmd[p].at = "restore" /\ cmd[p].kind = "prompt" /\ UNCHANGED <<heard, unsure, issued>>
        /\ AmendOf(cmd[p])' /\ rec'.amends = rec.amends \ {cmd[p].id}
    BY <1>0, <1>5, RestoreIs, AmendEnds DEF history
  <2>2. cmd[p].id \in Id \ unsure => cmd[p].id \notin heard /\ Swift
    BY <1>0, <1>o, <2>1 DEF OwnTold, AmendOf, Steady
  <2> QED BY <1>0, <2>1, <2>2 DEF AmendGoes
<1>6. CASE Interrupt(p)
  <2>1. cmd[p].at = "interrupt" /\ rec'.amends = rec.amends /\ UNCHANGED <<heard, unsure, issued>> /\ AmendOf(cmd[p])'
    BY <1>0, <1>6, FailsIs, AmendEnds DEF history
  <2>2. cmd[p].id \in Id \ unsure => (cmd[p].id \in heard <=> cmd[p].id \in rec.amends)
    BY <1>o, <2>1 DEF OwnTold
  <2> QED BY <2>1, <2>2, AmendSame
<1>7. CASE QuickProbe(p)
  <2>1. cmd[p].at = "probe" /\ cmd'[p].at = "record" /\ cmd'[p].kind = cmd[p].kind /\ cmd'[p].id = cmd[p].id
        /\ UNCHANGED <<rec, snt, heard, unsure, issued>>
    BY <1>0, <1>7, QuickProbeIs DEF history, Moves
  <2>2. AmendOf(cmd[p])'
    BY <1>0, <2>1 DEF AmendOf, Steady, OwnTold, Swift
  <2> QED BY <2>1, <2>2, AmendSame
<1>8. CASE Look(p)
  <2>1. cmd[p].at = "look" /\ cmd[p].kind = "dismiss" /\ UNCHANGED <<rec, snt, heard, unsure, issued>>
        /\ \/ End(p)
           \/ cmd'[p].kind = "dismiss" /\ cmd'[p].id = cmd[p].id /\ cmd'[p].at \in {"record", "interrupt"}
    BY <1>0, <1>8, LookIs DEF history, Moves
  <2>2. cmd[p].id \in Id \ unsure => (cmd[p].id \in heard <=> cmd[p].id \in rec.amends)
    BY <1>o, <2>1 DEF OwnTold
  <2>3. CASE End(p)
    BY <1>0, <2>1, <2>2, <2>3, AmendEnds, AmendSame
  <2>4. CASE ~End(p)
    <3>1. AmendOf(cmd[p])'
      BY <2>1, <2>2, <2>4 DEF AmendOf, Steady, OwnTold
    <3> QED BY <2>1, <2>4, <3>1, AmendSame
  <2> QED BY <2>3, <2>4
<1>9. CASE GiveUp(p)
  <2>1. cmd[p].at \in {"discard", "acquire", "look", "retire", "ship"} /\ UNCHANGED <<rec, heard, unsure, issued>>
        /\ AmendOf(cmd[p])'
    BY <1>0, <1>9, AmendEnds DEF GiveUp, history, C
  <2>2. cmd[p].id \in Id \ unsure => (cmd[p].id \in heard <=> cmd[p].id \in rec.amends)
    BY <1>o, <2>1 DEF OwnTold
  <2> QED BY <2>1, <2>2, AmendSame
<1> QED BY <1>1, <1>2, <1>3, <1>4, <1>5, <1>6, <1>7, <1>8, <1>9

LEMMA AmendRecords ==
  ASSUME NEW p \in Proc, AmendWas(p),
         RecordLaunch(p) \/ RecordPrompt(p) \/ RecordAnswer(p) \/ RecordDismissal(p)
            \/ Retire(p) \/ CloseStruck(p) \/ RecordLanded(p) \/ RecordShipped(p) \/ Kill(p)
  PROVE  AmendGoes(p)
<1>0. SupTypes /\ AmendHolds /\ AmendOf(cmd[p]) /\ heard \cup unsure \subseteq 1..issued
      /\ (cmd[p].at # "idle" => cmd[p].id \in Id /\ cmd[p].id \in 1..issued)
  BY MineIs DEF AmendWas, AmendHolds
<1>o. cmd[p].id \in Id \ unsure => OwnTold(cmd[p])
  BY <1>0 DEF AmendOf
<1>1. CASE RecordLaunch(p) \/ RecordPrompt(p) \/ RecordDismissal(p)
  <2>1. cmd[p].at = "record" /\ cmd[p].kind \in Launches \cup {"prompt", "dismiss"} /\ rec'.amends = rec.amends
        /\ UNCHANGED <<heard, unsure, issued>> /\ AmendOf(cmd[p])'
    BY <1>0, <1>1, RecordedIs, AmendEnds DEF history
  <2>2. cmd[p].id \in Id \ unsure => (cmd[p].id \in heard <=> cmd[p].id \in rec.amends)
    BY <1>o, <2>1 DEF OwnTold, Launches
  <2> QED BY <2>1, <2>2, AmendSame
<1>2. CASE RecordAnswer(p)
  <2>1. cmd[p].at = "record" /\ cmd[p].kind = "decide" /\ rec'.amends = rec.amends \cup {cmd[p].id}
        /\ UNCHANGED <<heard, unsure, issued>> /\ AmendOf(cmd[p])'
    BY <1>0, <1>2, RecordedIs, AmendEnds DEF history
  <2>2. Swift /\ (cmd[p].id \in Id \ unsure => cmd[p].id \in heard)
    BY <1>0, <1>o, <2>1 DEF OwnTold, AmendOf, Steady
  <2> QED BY <1>0, <2>1, <2>2 DEF AmendGoes
<1>3. CASE Retire(p)
  <2>1. cmd[p].at = "retire" /\ cmd'[p].at = "close" /\ cmd'[p].kind = cmd[p].kind /\ cmd'[p].id = cmd[p].id
        /\ UNCHANGED <<rec, snt, heard, unsure, issued>>
    BY <1>0, <1>3, RetireIs DEF history, Moves
  <2>2. AmendOf(cmd[p])'
    BY <1>0, <2>1 DEF AmendOf, Steady, OwnTold, Swift
  <2> QED BY <2>1, <2>2, AmendSame
<1>4. CASE CloseStruck(p) \/ RecordLanded(p) \/ RecordShipped(p)
  <2>1. cmd[p].at \in {"close", "ship"} /\ rec'.amends = rec.amends
        /\ UNCHANGED <<heard, unsure, issued>> /\ AmendOf(cmd[p])'
    BY <1>0, <1>4, ClosedIs, FailsIs, AmendEnds DEF history
  <2>2. cmd[p].id \in Id \ unsure => (cmd[p].id \in heard <=> cmd[p].id \in rec.amends)
    BY <1>o, <2>1 DEF OwnTold
  <2> QED BY <2>1, <2>2, AmendSame
<1>5. CASE Kill(p)
  <2>1. cmd[p].at # "idle" /\ UNCHANGED <<rec, heard, issued>> /\ AmendOf(cmd[p])'
        /\ unsure' = (IF cmd[p].kind \in Speeches /\ cmd[p].at \in {"deliver", "probe", "record", "restore"}
                      THEN unsure \cup {cmd[p].id} ELSE unsure)
    BY <1>0, <1>5, AmendEnds DEF Kill, At, C
  <2>2. cmd[p].id \in Id \ unsure' => (cmd[p].id \in heard <=> cmd[p].id \in rec.amends)
    BY <1>o, <2>1 DEF OwnTold, Untold, Speeches
  <2> QED BY <1>0, <2>1, <2>2 DEF AmendGoes
<1> QED BY <1>1, <1>2, <1>3, <1>4, <1>5

LEMMA AmendBegins ==
  ASSUME NEW p \in Proc, OneCommand, AmendWas(p), NEW k \in Kind, Begin(p, k)
  PROVE  AmendGoes(p)
<1>0. SupTypes /\ AmendHolds /\ heard \cup unsure \subseteq 1..issued /\ AmendmentKept /\ issued \in {0} \cup Id
  BY DEF AmendWas, AmendHolds, SupTypes, TypeOK
<1>1. PICK c : c = cmd'[p]
  OBVIOUS
<1>2. /\ c.at = FirstStep[k] /\ c.kind = k /\ c.copy = Loaded(k) /\ c.id = issued + 1
      /\ Accepts(k) /\ Timely(k) /\ cmd[p].at = "idle" /\ issued' = issued + 1 /\ issued + 1 \in Id
      /\ UNCHANGED <<rec, snt, heard, unsure>>
  BY <1>0, <1>1, BeginIs DEF history
<1>3. cmd[p].id = 0
  BY <1>0, <1>2 DEF SupTypes, Fits
<1>4. \A q \in Proc : C(q).id # issued + 1
  BY <1>0, <1>3 DEF OneCommand, C
<1>5. issued + 1 \notin heard \cup unsure
  BY <1>0
<1>6. issued + 1 \notin rec.amends
  BY <1>0, <1>2, <1>4, <1>5 DEF AmendmentKept
<1>7. k = "dispatch" => Loaded(k) = rec
  BY <1>0, LoadedIs
<1>8. /\ k = "dispatch" => FirstStep[k] = "acquire"
      /\ k # "dispatch" => FirstStep[k] \notin {"acquire", "tab"}
      /\ k = "prompt" => FirstStep[k] = "mark"
      /\ k = "decide" => FirstStep[k] = "deliver"
  BY DEF FirstStep, Kind
<1>9. k = "decide" => Swift /\ rec.st = "blocked"
  BY <1>2 DEF Timely, Accepts
<1>10. Steady(c)' => Swift' /\ (rec'.st = "running" => rec'.fresh)
  BY <1>2, <1>8, <1>9 DEF Steady, Swift
<1>11. OwnTold(c)'
  BY <1>2, <1>5, <1>6, <1>8 DEF OwnTold, Untold
<1>12. AmendOf(c)'
  BY <1>2, <1>7, <1>8, <1>10, <1>11 DEF AmendOf, Alike
<1>13. AmendOf(cmd[p])'
  BY <1>1, <1>12 DEF AmendOf, Steady, OwnTold, Untold, Alike
<1>14. 1..issued \subseteq 1..(issued + 1)
  BY <1>0
<1> QED BY <1>0, <1>2, <1>3, <1>13, <1>14 DEF AmendGoes

LEMMA AmendStep ==
  OneCommand /\ "overtaken" \notin Event /\ AmendIInv /\ [Next]_vars => AmendIInv'
<1> SUFFICES ASSUME OneCommand, "overtaken" \notin Event, AmendIInv, [Next]_vars PROVE AmendIInv'
  OBVIOUS
<1>0. SupTypes /\ SupTypes' /\ AmendHolds
  BY SupStep DEF AmendIInv
<1>1. CASE SentinelStep \/ Outage \/ Crash \/ World
  BY <1>0, <1>1, AmendOthers DEF AmendIInv
<1>2. ASSUME NEW p \in Proc, CommandStep(p) \/ Kill(p) \/ (\E k \in Kind : Begin(p, k))
      PROVE  AmendIInv'
  <2>1. AmendWas(p)
    BY DEF AmendIInv, AmendWas
  <2>2. AmendGoes(p)
    BY <1>2, <2>1, AmendLaunch, AmendSpeech, AmendRecords, AmendBegins DEF CommandStep
  <2>3. snt' = snt
    BY <1>2 DEF CommandStep, Discard, Reset, Acquire, CreateTab, TabFails, RecordRunning, StartAgent, Stamp, Fail,
           MarkRunning, Deliver, PaneGone, DeliveryFails, Restore, Interrupt, QuickProbe, Look, GiveUp,
           RecordLaunch, RecordPrompt, RecordAnswer, RecordDismissal, Retire, CloseStruck, RecordLanded,
           RecordShipped, Kill, Begin
  <2>4. \A q \in Proc : q = p
    BY DEF OneCommand
  <2>5. AmendmentKept'
    <3> SUFFICES ASSUME NEW i \in Id \ unsure', (\A q \in Proc : C(q).id # i)'
                 PROVE  i \in heard' <=> i \in rec'.amends
      BY DEF AmendmentKept
    <3>1. cmd'[p].id # i
      BY DEF C
    <3>2. CASE i = cmd[p].id
      BY <2>2, <3>1, <3>2 DEF AmendGoes
    <3>3. CASE i # cmd[p].id
      <4>1. \A q \in Proc : C(q).id # i
        BY <2>4, <3>3 DEF C
      <4>2. i \in heard <=> i \in rec.amends
        BY <1>0, <2>2, <4>1 DEF AmendHolds, AmendmentKept, AmendGoes
      <4> QED BY <2>2, <3>3, <4>2 DEF AmendGoes
    <3> QED BY <3>2, <3>3
  <2>6. AmendHolds'
    <3>1. snt.at \in {"probe", "act", "save"} => ~Swift
      BY DEF Swift
    <3> QED BY <1>0, <2>2, <2>3, <2>5, <3>1 DEF AmendHolds, AmendGoes, Alike
  <2>7. \A q \in Proc : AmendOf(cmd[q])'
    BY <2>2, <2>4 DEF AmendGoes
  <2> QED BY <1>0, <2>6, <2>7 DEF AmendIInv
<1>3. CASE UNCHANGED vars
  BY <1>0, <1>3 DEF vars, history, AmendIInv, AmendHolds, AmendOf, Alike, Steady, OwnTold, Untold, Swift, AmendmentKept, C
<1> QED BY <1>1, <1>2, <1>3 DEF Next

\* Reprompt, finishAnswerBlocked, restoreAfterFailedPrompt: what the general told the soldier is
\* on the record as an amendment and what never reached the soldier is not, whatever a tick
\* writes back meanwhile, if no grace period runs out under the probe of a decide.
THEOREM ToldIsOnRecord == OneCommand /\ "overtaken" \notin Event => (Spec => []AmendmentKept)
<1> SUFFICES ASSUME OneCommand, "overtaken" \notin Event PROVE Spec => []AmendmentKept
  OBVIOUS
<1>1. AmendIInv /\ [Next]_vars => AmendIInv'
  BY AmendStep
<1>2. AmendIInv => AmendmentKept
  BY DEF AmendIInv, AmendHolds
<1> QED BY <1>1, <1>2, AmendStart, PTL DEF Spec

=============================================================================
