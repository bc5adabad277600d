--------------------------- MODULE CampPool_proof ---------------------------
(***************************************************************************)
(* Proofs about CampPool, for every set of tasks, commits and commands,    *)
(* any bound on the slots and any choice of activities.                    *)
(***************************************************************************)
EXTENDS CampPool, TLAPS

USE CampPoolAssumption DEF Slot, NoSlot

LEMMA IdleType == EmptyPool \in Pools /\ IdleProc \in Procs
  BY DEF EmptyPool, Pools, IdleProc, Procs, At, Cmd, Sect

\* A command that moves stays a command.
LEMMA GotoType ==
  ASSUME proc \in [Proc -> Procs], NEW p \in Proc, NEW r \in Procs, Goto(p, r)
  PROVE  proc' \in [Proc -> Procs]
  BY DEF Goto

\* One field of a command's record at a time.
LEMMA FieldTypes ==
  ASSUME NEW r \in Procs
  PROVE  /\ \A a \in At : [r EXCEPT !.at = a] \in Procs
         /\ \A s \in Sect : [r EXCEPT !.sect = s] \in Procs
         /\ \A c \in Cmd : [r EXCEPT !.cmd = c] \in Procs
         /\ \A n \in 0..MaxSlots : [r EXCEPT !.slot = n] \in Procs
         /\ \A b \in Task \cup {None} : [r EXCEPT !.branch = b] \in Procs
         /\ \A x \in BOOLEAN : [r EXCEPT !.pr = x] \in Procs
         /\ \A x \in BOOLEAN : [r EXCEPT !.tab = x] \in Procs
         /\ \A v \in Pools : [r EXCEPT !.view = v] \in Procs
  BY DEF Procs

LEMMA SectionType ==
  ASSUME NEW r \in Procs, NEW s \in Sect
  PROVE  Section(r, s) \in Procs
  BY FieldTypes DEF Section, At

LEMMA LeaveType ==
  ASSUME TypeOK, NEW p \in Proc, NEW a \in At, Leave(p, a)
  PROVE  proc' \in [Proc -> Procs] /\ lock' \in Proc \cup {None}
<1>1. [proc[p] EXCEPT !.at = a, !.view = EmptyPool] \in Procs
  BY FieldTypes, IdleType DEF TypeOK
<1> QED BY <1>1, GotoType DEF TypeOK, Leave, Unlock

LEMMA GiveUpType ==
  ASSUME TypeOK, NEW p \in Proc, GiveUp(p)
  PROVE  proc' \in [Proc -> Procs] /\ lock' \in Proc \cup {None}
  BY IdleType, GotoType DEF TypeOK, GiveUp, Finish, Unlock

LEMMA DeleteBranchType ==
  ASSUME TypeOK, NEW b \in Task, NEW S, DeleteBranch(b, S)
  PROVE  wt' \in [Slot -> Worktrees] /\ refs' \subseteq Task /\ tip' \in [Task -> SUBSET Commit]
  BY DEF TypeOK, DeleteBranch, DetachAt, Worktrees

LEMMA WipeType ==
  ASSUME TypeOK, NEW p \in Proc, Wipe(p)
  PROVE  wt' \in [Slot -> Worktrees]
  BY DEF TypeOK, Wipe, DetachAt, Worktrees

\* What a live command knows of itself.
LEMMA Named ==
  ASSUME TypeOK, CommandsNamed, NEW p \in Proc, proc[p].at # "idle"
  PROVE  /\ proc[p].task \in Task
         /\ proc[p].sect # "acquire" \/ proc[p].at \notin {"enter", "work"} => proc[p].slot \in Slot
  BY DEF CommandsNamed, Rec

\* Every step of every command and of the world keeps the whole state in its types.
LEMMA TypeStep ==
  ASSUME TypeOK, CommandsNamed, [Next]_vars
  PROVE  TypeOK'
<1>0. CASE UNCHANGED vars
  BY <1>0 DEF TypeOK, vars, procVars, gitVars
<1>1. ASSUME NEW p \in Proc, NEW t \in Task, Dispatch(p, t)
      PROVE  TypeOK'
  <2>1. Section(Command(t, "dispatch"), "acquire") \in Procs
    BY IdleType DEF TypeOK, Section, Command, Procs, At, Cmd, Sect, IdleProc
  <2> QED BY <1>1, <2>1, GotoType DEF Dispatch, TypeOK, Rec, gitVars
<1>2. ASSUME NEW p \in Proc, NEW t \in Task, Redispatch(p, t)
      PROVE  TypeOK'
  <2>1. [Command(t, "redispatch") EXCEPT !.at = "resolve", !.sect = "discard"] \in Procs
    BY IdleType DEF TypeOK, Command, Procs, At, Cmd, Sect, IdleProc
  <2> QED BY <1>2, <2>1, GotoType DEF Redispatch, TypeOK, Rec, gitVars
<1>3. ASSUME NEW p \in Proc, NEW t \in Task, BeginLand(p, t)
      PROVE  TypeOK'
  <2>1. [Command(t, "land") EXCEPT !.at = "resolve", !.sect = "strike"] \in Procs
    BY IdleType DEF TypeOK, Command, Procs, At, Cmd, Sect, IdleProc
  <2> QED BY <1>3, <2>1, GotoType DEF BeginLand, TypeOK, Rec, gitVars
<1>4. ASSUME NEW p \in Proc, NEW t \in Task, NEW c \in {"strike", "discard"}, BeginStrike(p, t, c)
      PROVE  TypeOK'
  <2>1. [Command(t, c) EXCEPT !.at = "reused"] \in Procs
    BY IdleType DEF TypeOK, Command, Procs, At, Cmd, Sect, IdleProc
  <2> QED BY <1>4, <2>1, GotoType DEF BeginStrike, TypeOK, Rec, gitVars
<1>5. ASSUME NEW p \in Proc, AskReused(p)
      PROVE  TypeOK'
  <2> DEFINE r == Section(proc[p], "retire")
  <2>0. r \in Procs /\ proc[p].task \in Task \cup {None}
    BY SectionType DEF TypeOK, Sect, Procs
  <2>1. [r EXCEPT !.branch = proc[p].task] \in Procs
    BY <2>0, FieldTypes
  <2>2. [proc[p] EXCEPT !.at = "resolve", !.sect = "strike"] \in Procs
    BY FieldTypes DEF TypeOK, Sect, At
  <2> QED BY <1>5, <2>1, <2>2, GotoType DEF AskReused, TypeOK, Rec, gitVars
<1>6. ASSUME NEW p \in Proc, Resolve(p)
      PROVE  TypeOK'
  <2> DEFINE b == pool.branch[proc[p].slot]
              x == proc[p].cmd \in {"strike", "discard"}
                   /\ prHead[proc[p].task] # {} /\ b \in merged
              r == [proc[p] EXCEPT !.branch = b, !.pr = x]
  <2>1. b \in Task \cup {None} /\ x \in BOOLEAN
    <3>1. proc[p].slot \in Slot
      BY <1>6, Named DEF Resolve, Rec
    <3> QED BY <3>1 DEF TypeOK, Pools
  <2>2. r \in Procs
    BY <2>1, FieldTypes DEF TypeOK
  <2>3. [r EXCEPT !.at = "merge"] \in Procs /\ Section(r, r.sect) \in Procs
    <3>1. r.sect \in Sect
      BY <2>2 DEF Procs
    <3> HIDE DEF r
    <3> QED BY <2>2, <3>1, FieldTypes, SectionType DEF At
  <2>4. Goto(p, IF r.cmd = "land" THEN [r EXCEPT !.at = "merge"] ELSE Section(r, r.sect))
    BY <1>6 DEF Resolve, Rec
  <2> QED BY <1>6, <2>3, <2>4, GotoType DEF Resolve, TypeOK, gitVars
<1>7. ASSUME NEW p \in Proc, Merge(p)
      PROVE  TypeOK'
  <2>1. [Section(proc[p], "strike") EXCEPT !.branch = None] \in Procs
    BY SectionType, FieldTypes DEF TypeOK, Sect
  <2>2. proc[p].branch \in Task
    BY <1>7 DEF Merge, Landable, Rec, TypeOK
  <2> QED BY <1>7, <2>1, <2>2, GotoType DEF Merge, TypeOK, Rec
<1>8. ASSUME NEW p \in Proc, MergeRefused(p)
      PROVE  TypeOK'
  BY <1>8, IdleType, GotoType DEF MergeRefused, Finish, TypeOK, gitVars
<1>9. ASSUME NEW p \in Proc, Enter(p)
      PROVE  TypeOK'
  <2>1. [proc[p] EXCEPT !.at = "work", !.view = pool] \in Procs
    BY FieldTypes DEF TypeOK, At
  <2> QED BY <1>9, <2>1, GotoType DEF Enter, TypeOK, Rec, gitVars
<1>10. ASSUME NEW p \in Proc, AcquireWork(p)
      PROVE  TypeOK'
  <2> DEFINE t == proc[p].task
  <2>1. PICK s \in Slot : /\ wt' = [wt EXCEPT ![s] = Checkout(s, t)]
                         /\ Goto(p, [proc[p] EXCEPT !.at = "save", !.slot = s])
    BY <1>10 DEF AcquireWork, Rec
  <2>2. [proc[p] EXCEPT !.at = "save", !.slot = s] \in Procs
    <3>1. s \in 0..MaxSlots
      OBVIOUS
    <3>2. [proc[p] EXCEPT !.at = "save"] \in Procs
      BY FieldTypes DEF TypeOK, At
    <3> QED BY <3>1, <3>2, FieldTypes
  <2>4. t \in Task
    BY <1>10, Named DEF AcquireWork, In
  <2>3. wt' \in [Slot -> Worktrees]
    <3>1. wt[s] \in Worktrees
      BY DEF TypeOK
    <3>2. Checkout(s, t) \in Worktrees
      BY <2>4, <3>1 DEF Checkout, Worktrees
    <3> QED BY <2>1, <3>2 DEF TypeOK
  <2> QED BY <1>10, <2>1, <2>2, <2>3, <2>4, GotoType DEF AcquireWork, TypeOK, Rec
<1>11. ASSUME NEW p \in Proc, AcquireFails(p)
      PROVE  TypeOK'
  <2>1. wt' \in [Slot -> Worktrees]
    BY <1>11 DEF AcquireFails, DetachAt, TypeOK, Worktrees
  <2> QED BY <1>11, <2>1, GiveUpType DEF AcquireFails, TypeOK
<1>12. ASSUME NEW p \in Proc, SaveAcquire(p)
      PROVE  TypeOK'
  <2>1. pool' \in Pools
    BY <1>12 DEF SaveAcquire, TypeOK, Rec, Procs, Pools
  <2> QED BY <1>12, <2>1, LeaveType DEF SaveAcquire, TypeOK, gitVars, At
<1>13. ASSUME NEW p \in Proc, StrikeWork(p)
      PROVE  TypeOK'
  <2>1. [proc[p] EXCEPT !.at = "save"] \in Procs
    BY FieldTypes DEF TypeOK, At
  <2> QED BY <1>13, <2>1, GotoType DEF StrikeWork, TypeOK, Rec, gitVars
<1>14. ASSUME NEW p \in Proc, StrikeDiscardWork(p)
      PROVE  TypeOK'
  <2>1. [proc[p] EXCEPT !.at = "save"] \in Procs
    BY FieldTypes DEF TypeOK, At
  <2>2. wt' \in [Slot -> Worktrees]
    BY <1>14, WipeType DEF StrikeDiscardWork
  <2> QED BY <1>14, <2>1, <2>2, GotoType DEF StrikeDiscardWork, TypeOK, Rec
<1>15. ASSUME NEW p \in Proc, StrikeRefused(p)
      PROVE  TypeOK'
  BY <1>15, GiveUpType DEF StrikeRefused, TypeOK, gitVars
<1>16. ASSUME NEW p \in Proc, StrikeNotLeased(p)
      PROVE  TypeOK'
  BY <1>16, GiveUpType, LeaveType DEF StrikeNotLeased, TypeOK, gitVars, At
<1>17. ASSUME NEW p \in Proc, SaveStrike(p)
      PROVE  TypeOK'
  <2>1. pool' \in Pools
    BY <1>17 DEF SaveStrike, TypeOK, Rec, Procs, Pools
  <2> QED BY <1>17, <2>1, GiveUpType, LeaveType DEF SaveStrike, TypeOK, gitVars, At
<1>18. ASSUME NEW p \in Proc, SaveDiscard(p)
      PROVE  TypeOK'
  <2>1. pool' \in Pools
    BY <1>18 DEF SaveDiscard, TypeOK, Rec, Procs, Pools
  <2> QED BY <1>18, <2>1, GiveUpType, LeaveType DEF SaveDiscard, TypeOK, gitVars, At
<1>19. ASSUME NEW p \in Proc, DiscardWork(p)
      PROVE  TypeOK'
  <2>1. [proc[p] EXCEPT !.at = "save"] \in Procs
    BY FieldTypes DEF TypeOK, At
  <2>2. wt' \in [Slot -> Worktrees]
    BY <1>19, WipeType DEF DiscardWork
  <2> QED BY <1>19, <2>1, <2>2, GotoType DEF DiscardWork, TypeOK, Rec
<1>20. ASSUME NEW p \in Proc, DiscardCut(p)
      PROVE  TypeOK'
  BY <1>20, WipeType, GiveUpType DEF DiscardCut, TypeOK
<1>21. ASSUME NEW p \in Proc, DiscardRefused(p)
      PROVE  TypeOK'
  BY <1>21, GiveUpType DEF DiscardRefused, TypeOK, gitVars
<1>22. ASSUME NEW p \in Proc, Prune(p)
      PROVE  TypeOK'
  <2>1. wt' \in [Slot -> Worktrees] /\ refs' \subseteq Task /\ tip' \in [Task -> SUBSET Commit]
    BY <1>22, DeleteBranchType DEF Prune, TypeOK
  <2> QED BY <1>22, <2>1, GiveUpType DEF Prune, TypeOK
<1>23. ASSUME NEW p \in Proc, RetireWork(p)
      PROVE  TypeOK'
  <2>1. wt' \in [Slot -> Worktrees] /\ refs' \subseteq Task /\ tip' \in [Task -> SUBSET Commit]
    BY <1>23, DeleteBranchType DEF RetireWork, TypeOK
  <2> QED BY <1>23, <2>1, LeaveType DEF RetireWork, TypeOK, At
<1>24. ASSUME NEW p \in Proc, RetireRefused(p)
      PROVE  TypeOK'
  BY <1>24, GiveUpType DEF RetireRefused, TypeOK, gitVars
<1>25. ASSUME NEW p \in Proc, Reset(p)
      PROVE  TypeOK'
  <2> DEFINE r == Section(proc[p], "acquire")
  <2>0. r \in Procs /\ NoSlot \in 0..MaxSlots
    BY SectionType DEF TypeOK, Sect
  <2> DEFINE s == [r EXCEPT !.slot = NoSlot]
  <2>8. s \in Procs
    BY <2>0, FieldTypes
  <2>1. [s EXCEPT !.branch = None] \in Procs
    BY <2>8, FieldTypes
  <2>2. Goto(p, [s EXCEPT !.branch = None])
    BY <1>25 DEF Reset, Rec
  <2>3. proc' \in [Proc -> Procs]
    BY <2>1, <2>2, GotoType DEF TypeOK
  <2>6. slotOf' = [slotOf EXCEPT ![proc[p].task] = 0] /\ interrupted' = interrupted \ {proc[p].task}
    BY <1>25 DEF Reset, Rec
  <2>7. 0 \in 0..MaxSlots
    BY DEF CampPoolAssumption
  <2>4. slotOf' \in [Task -> 0..MaxSlots] /\ interrupted' \subseteq Task
    BY <2>6, <2>7 DEF TypeOK
  <2>5. UNCHANGED <<lock, pool, dispatched, soldier, gitVars, owed>>
    BY <1>25 DEF Reset
  <2> HIDE DEF r
  <2> QED BY <2>3, <2>4, <2>5 DEF TypeOK, gitVars
<1>26. ASSUME NEW p \in Proc, Record(p)
      PROVE  TypeOK'
  <2>1. [proc[p] EXCEPT !.at = "launch"] \in Procs
    BY FieldTypes DEF TypeOK, At
  <2> QED BY <1>26, <2>1, GotoType DEF Record, TypeOK, Rec, Procs, gitVars
<1>27. ASSUME NEW p \in Proc, RecordFails(p)
      PROVE  TypeOK'
  <2>1. [Section(proc[p], "strike") EXCEPT !.cmd = "undo"] \in Procs
    BY SectionType, FieldTypes DEF TypeOK, Sect, Cmd
  <2> QED BY <1>27, <2>1, GotoType DEF RecordFails, TypeOK, Rec, gitVars
<1>28. ASSUME NEW p \in Proc, Launch(p)
      PROVE  TypeOK'
  <2>1. \A q \in Proc : [proc[q] EXCEPT !.tab = @ /\ proc[q].task # proc[p].task] \in Procs
    <3> TAKE q \in Proc
    <3> DEFINE x == proc[q].tab /\ proc[q].task # proc[p].task
    <3>1. proc[q] \in Procs /\ x \in BOOLEAN
      BY DEF TypeOK
    <3> QED BY <3>1, FieldTypes
  <2>2. proc' \in [Proc -> Procs]
    BY <1>28, <2>1, IdleType DEF Launch, Rec
  <2>3. soldier' \in [Task -> 0..MaxSlots]
    BY <1>28 DEF Launch, TypeOK, Rec, Procs
  <2> QED BY <1>28, <2>2, <2>3 DEF Launch, TypeOK, gitVars
<1>29. ASSUME NEW p \in Proc, Close(p)
      PROVE  TypeOK'
  <2>1. [Section(proc[p], "prune") EXCEPT !.tab = FALSE] \in Procs
    BY SectionType, FieldTypes DEF TypeOK, Sect
  <2>2. proc' \in [Proc -> Procs]
    BY <1>29, <2>1, IdleType, GotoType DEF Close, AfterClose, Finish, Rec, TypeOK
  <2>3. interrupted' \subseteq Task /\ soldier' \in [Task -> 0..MaxSlots]
    BY <1>29, Named DEF Close, TypeOK, Rec
  <2> QED BY <1>29, <2>2, <2>3 DEF Close, TypeOK, gitVars
<1>30. ASSUME NEW p \in Proc, CloseFails(p)
      PROVE  TypeOK'
  <2>1. [Section(proc[p], "prune") EXCEPT !.tab = FALSE] \in Procs
    BY SectionType, FieldTypes DEF TypeOK, Sect
  <2>2. proc' \in [Proc -> Procs]
    BY <1>30, <2>1, IdleType, GotoType DEF CloseFails, AfterClose, Finish, Rec, TypeOK
  <2>3. interrupted' \subseteq Task /\ soldier' \in [Task -> 0..MaxSlots]
    BY <1>30, Named DEF CloseFails, TypeOK, Rec
  <2> QED BY <1>30, <2>2, <2>3 DEF CloseFails, TypeOK, gitVars
<1>31. ASSUME NEW p \in Proc, Crash(p)
      PROVE  TypeOK'
  BY <1>31, IdleType, GotoType DEF Crash, Finish, TypeOK, gitVars
<1>32. ASSUME NEW t \in Task, Edit(t)
      PROVE  TypeOK'
  BY <1>32 DEF Edit, TypeOK, Worktrees, procVars
<1>33. ASSUME NEW t \in Task, NEW c \in Commit, CommitWork(t, c)
      PROVE  TypeOK'
  <2>1. soldier[t] \in Slot /\ wt[soldier[t]] \in Worktrees
    BY <1>33 DEF CommitWork, TypeOK
  <2> DEFINE s == soldier[t]
  <2>2. CASE wt[s].on = None
    <3>1. [wt EXCEPT ![s].rev = @ \cup {c}] \in [Slot -> Worktrees]
      BY <2>1 DEF TypeOK, Worktrees
    <3>2. wt' = [[wt EXCEPT ![s].rev = @ \cup {c}] EXCEPT ![s].dirty = FALSE]
      BY <1>33, <2>2, Zenon DEF CommitWork
    <3>4. UNCHANGED <<tip, owed>>
      BY <1>33, <2>2 DEF CommitWork
    <3>3. wt' \in [Slot -> Worktrees]
      BY <2>1, <3>1, <3>2 DEF Worktrees
    <3> QED BY <1>33, <3>3, <3>4 DEF CommitWork, TypeOK, procVars
  <2>3. CASE wt[s].on # None
    <3>1. [wt[s] EXCEPT !.dirty = FALSE] \in Worktrees
      BY <2>1 DEF Worktrees
    <3>2. /\ wt' = [wt EXCEPT ![s].dirty = FALSE]
          /\ tip' = [tip EXCEPT ![wt[s].on] = @ \cup {c}]
          /\ owed' = owed \cup {c}
      BY <1>33, <2>3 DEF CommitWork
    <3>3. wt' \in [Slot -> Worktrees]
      BY <2>1, <3>1, <3>2 DEF TypeOK
    <3> QED BY <1>33, <3>2, <3>3 DEF CommitWork, TypeOK, procVars
  <2> QED BY <2>2, <2>3
<1>34. ASSUME NEW t \in Task, Rebase(t)
      PROVE  TypeOK'
  BY <1>34 DEF Rebase, TypeOK, Worktrees, procVars
<1>35. ASSUME NEW t \in Task, Die(t)
      PROVE  TypeOK'
  <2>1. \A q \in Proc : [proc[q] EXCEPT !.tab = @ /\ proc[q].task # t] \in Procs
    <3> TAKE q \in Proc
    <3> DEFINE x == proc[q].tab /\ proc[q].task # t
    <3>1. proc[q] \in Procs /\ x \in BOOLEAN
      BY DEF TypeOK
    <3> QED BY <3>1, FieldTypes
  <2>2. proc' \in [Proc -> Procs]
    BY <1>35, <2>1 DEF Die
  <2> QED BY <1>35, <2>2 DEF Die, TypeOK, gitVars
<1>36. ASSUME NEW t \in Task, Ship(t)
      PROVE  TypeOK'
  BY <1>36 DEF Ship, TypeOK, procVars
<1>37. ASSUME NEW t \in Task, NEW c \in Commit, MergePR(t, c)
      PROVE  TypeOK'
  BY <1>37 DEF MergePR, TypeOK, procVars
<1> QED BY <1>0, <1>1, <1>2, <1>3, <1>4, <1>5, <1>6, <1>7, <1>8, <1>9, <1>10, <1>11, <1>12, <1>13, <1>14, <1>15, <1>16, <1>17, <1>18, <1>19, <1>20, <1>21, <1>22, <1>23, <1>24, <1>25, <1>26, <1>27, <1>28, <1>29, <1>30, <1>31, <1>32, <1>33, <1>34, <1>35, <1>36, <1>37
       DEF Next, Begin, Step, Locked, World

-----------------------------------------------------------------------------
(* The lease invariant.  Five fields of a command matter to it: at, sect,  *)
(* task, slot and view.                                                    *)

\* The step leaves the five fields of command q alone.
Same(q) ==
    /\ proc'[q].at = proc[q].at /\ proc'[q].sect = proc[q].sect
    /\ proc'[q].task = proc[q].task /\ proc'[q].slot = proc[q].slot
    /\ proc'[q].view = proc[q].view

\* The step moves command p to <<a, s, t, n>> and no other command.
Moved(p, a, s, t, n) ==
    /\ proc'[p].at = a /\ proc'[p].sect = s /\ proc'[p].task = t /\ proc'[p].slot = n
    /\ \A q \in Proc \ {p} : Same(q)

\* What <<a, s, t, n>> has to satisfy for the lease invariant to survive the move of p
\* while pool.json stays as it is.
MayMove(p, a, s, t, n) ==
    /\ a # "idle" => /\ t \in Task
                     /\ a = "resolve" => s # "acquire"
                     /\ ~(s = "acquire" /\ a \in {"enter", "work"}) => n \in Slot
    /\ a \in {"work", "save"} => lock' = p /\ proc'[p].view = pool
    /\ a = "save" => /\ s \in {"acquire", "strike", "discard"}
                     /\ s = "acquire" => pool.leasedBy[n] = None
                     /\ s # "acquire" => pool.leasedBy[n] = t
    /\ a = "reset" \/ (s = "acquire" /\ a \in {"enter", "work", "save"}) => Awaiting(p, t)

LEMMA Own ==
  ASSUME LeaseIInv, NEW p \in Proc, proc[p].at # "idle"
  PROVE  /\ proc[p].task \in Task
         /\ proc[p].at = "resolve" => proc[p].sect # "acquire"
         /\ ~(proc[p].sect = "acquire" /\ proc[p].at \in {"enter", "work"}) => proc[p].slot \in Slot
  BY DEF LeaseIInv, CommandsNamed, Rec

LEMMA Keeps ==
  ASSUME LeaseIInv, TypeOK', NEW p \in Proc, NEW a, NEW s, NEW t, NEW n,
         Moved(p, a, s, t, n), MayMove(p, a, s, t, n),
         pool' = pool, dispatched' = dispatched, \A q \in Proc \ {p} : lock = q => lock' = q
  PROVE  LeaseIInv'
<1>1. CommandsNamed'
  BY DEF LeaseIInv, CommandsNamed, Rec, Moved, MayMove, Same
<1>2. ViewCurrent'
  BY DEF LeaseIInv, ViewCurrent, Rec, Moved, MayMove, Same
<1>3. SaveChecked'
  BY DEF LeaseIInv, SaveChecked, Rec, Moved, MayMove, Same
<1>4. AwaitingOnce'
  <2>1. \A q \in Proc, u \in Task : Awaiting(q, u)' => Awaiting(q, u)
    BY DEF Awaiting, Rec, Moved, MayMove, Same
  <2> QED BY <2>1 DEF LeaseIInv, AwaitingOnce
<1> QED BY <1>1, <1>2, <1>3, <1>4 DEF LeaseIInv, LeaseInv, HoldersDispatched

LEMMA StaysKeeps ==
  ASSUME LeaseIInv, TypeOK', \A q \in Proc : Same(q),
         pool' = pool, dispatched' = dispatched, lock' = lock
  PROVE  LeaseIInv'
  BY DEF LeaseIInv, CommandsNamed, ViewCurrent, SaveChecked, AwaitingOnce, Awaiting, Rec, Same,
         LeaseInv, HoldersDispatched

LEMMA FinishKeeps ==
  ASSUME LeaseIInv, TypeOK', NEW p \in Proc, Finish(p),
         pool' = pool, dispatched' = dispatched, \A q \in Proc \ {p} : lock = q => lock' = q
  PROVE  LeaseIInv'
<1>1. Moved(p, "idle", "none", None, 0)
  BY DEF Finish, Goto, IdleProc, Moved, Same, LeaseIInv, TypeOK
<1>2. MayMove(p, "idle", "none", None, 0)
  BY DEF MayMove
<1> QED BY <1>1, <1>2, Keeps

LEMMA GiveUpKeeps ==
  ASSUME LeaseIInv, TypeOK', NEW p \in Proc, proc[p].at \in {"work", "save"}, GiveUp(p),
         pool' = pool, dispatched' = dispatched
  PROVE  LeaseIInv'
<1>1. lock = p
  BY DEF LeaseIInv, ViewCurrent, Rec
<1> QED BY <1>1, FinishKeeps DEF GiveUp

LEMMA LeaveMoved ==
  ASSUME LeaseIInv, NEW p \in Proc, NEW a \in At, Leave(p, a)
  PROVE  Moved(p, a, proc[p].sect, proc[p].task, proc[p].slot)
  BY DEF Leave, Goto, Moved, Same, LeaseIInv, TypeOK, Procs

LEMMA LeaveKeeps ==
  ASSUME LeaseIInv, TypeOK', NEW p \in Proc, proc[p].at = "work", proc[p].sect # "acquire",
         Leave(p, "close"), pool' = pool, dispatched' = dispatched
  PROVE  LeaseIInv'
<1>1. lock = p
  BY DEF LeaseIInv, ViewCurrent, Rec
<1>2. MayMove(p, "close", proc[p].sect, proc[p].task, proc[p].slot)
  BY Own DEF MayMove
<1> QED BY <1>1, <1>2, LeaveMoved, Keeps DEF At

LEMMA DispatchStep ==
  ASSUME LeaseIInv, TypeOK', NEW p \in Proc, NEW t \in Task, Dispatch(p, t)
  PROVE  LeaseIInv'
<1>1. Moved(p, "enter", "acquire", t, slotOf[t])
  BY DEF Dispatch, Section, Command, IdleProc, Moved, Same, Goto, LeaseIInv, TypeOK
<1>2. pool' = pool /\ lock' = lock /\ dispatched' = dispatched \cup {t} /\ t \notin dispatched
  BY DEF Dispatch
<1>3. CommandsNamed' /\ ViewCurrent' /\ SaveChecked'
  BY <1>1, <1>2 DEF LeaseIInv, CommandsNamed, ViewCurrent, SaveChecked, Rec, Moved, Same
<1>4. AwaitingOnce'
  <2>1. \A s \in Slot : pool.leasedBy[s] # t
    BY <1>2 DEF LeaseIInv, HoldersDispatched, CampPoolAssumption
  <2>2. \A q \in Proc : ~Awaiting(q, t)
    BY <1>2 DEF LeaseIInv, AwaitingOnce
  <2>3. ASSUME NEW q \in Proc, NEW u \in Task, Awaiting(q, u)'
        PROVE  Awaiting(q, u) \/ (q = p /\ u = t)
    <3>1. CASE q = p
      BY <1>1, <2>3, <3>1 DEF Awaiting, Rec, Moved
    <3>2. CASE q # p
      <4>1. Same(q)
        BY <1>1, <3>2 DEF Moved
      <4> QED BY <2>3, <4>1 DEF Awaiting, Rec, Same
    <3> QED BY <3>1, <3>2
  <2> QED BY <1>2, <2>1, <2>2, <2>3 DEF LeaseIInv, AwaitingOnce
<1> QED BY <1>2, <1>3, <1>4 DEF LeaseIInv, LeaseInv, HoldersDispatched

LEMMA AcquireWorkStep ==
  ASSUME LeaseIInv, TypeOK', NEW p \in Proc, AcquireWork(p)
  PROVE  LeaseIInv'
<1>1. lock = p /\ proc[p].view = pool
  BY DEF AcquireWork, In, LeaseIInv, ViewCurrent, Rec
<1>2. PICK s \in Slot : /\ s \in Usable(pool) \/ s = pool.n + 1
                       /\ Goto(p, [proc[p] EXCEPT !.at = "save", !.slot = s])
  BY <1>1 DEF AcquireWork, Rec
<1>3. pool.leasedBy[s] = None
  BY <1>2 DEF Usable, LeaseIInv, LeaseInv, TypeOK, Pools
<1>4. Moved(p, "save", "acquire", proc[p].task, s) /\ proc'[p].view = pool
  <2> DEFINE r == [proc[p] EXCEPT !.at = "save", !.slot = s]
  <2>1. proc[p] \in Procs /\ proc \in [Proc -> Procs]
    BY DEF LeaseIInv, TypeOK
  <2>2. proc[p].sect = "acquire"
    BY DEF AcquireWork, In, Rec
  <2>3. /\ r.at = "save" /\ r.sect = "acquire" /\ r.task = proc[p].task /\ r.slot = s
        /\ r.view = pool
    BY <1>1, <2>1, <2>2 DEF Procs
  <2>4. proc' = [proc EXCEPT ![p] = r]
    BY <1>2 DEF Goto
  <2> HIDE DEF r
  <2> QED BY <2>1, <2>3, <2>4 DEF Moved, Same
<1>5. MayMove(p, "save", "acquire", proc[p].task, s)
  BY <1>1, <1>3, <1>4, Own DEF AcquireWork, In, Rec, MayMove, Awaiting
<1> QED BY <1>4, <1>5, Keeps DEF AcquireWork

\* A save rewrites one slot of pool.json; nobody else is inside a section meanwhile.
LEMMA SaveFrame ==
  ASSUME LeaseIInv, NEW p \in Proc, proc[p].at = "save"
  PROVE  /\ lock = p /\ proc[p].view = pool
         /\ \A q \in Proc \ {p} : proc[q].at \notin {"work", "save"}
         /\ proc[p].slot \in Slot /\ proc[p].task \in Task
  BY Own DEF LeaseIInv, ViewCurrent, Rec

LEMMA SaveAcquireStep ==
  ASSUME LeaseIInv, TypeOK', NEW p \in Proc, SaveAcquire(p)
  PROVE  LeaseIInv'
<1> DEFINE n == proc[p].slot
           t == proc[p].task
<1>1. /\ lock = p /\ proc[p].view = pool
      /\ \A q \in Proc \ {p} : proc[q].at \notin {"work", "save"}
      /\ n \in Slot /\ t \in Task
  BY SaveFrame DEF SaveAcquire, In
<1>2. Moved(p, "record", "acquire", t, n)
  BY LeaveMoved DEF SaveAcquire, In, At
<1>3. /\ Awaiting(p, t) /\ pool.leasedBy[n] = None
  BY DEF SaveAcquire, In, Awaiting, Rec, LeaseIInv, SaveChecked
<1>4. /\ pool'.leasedBy = [pool.leasedBy EXCEPT ![n] = t]
      /\ pool'.branch = [pool.branch EXCEPT ![n] = t]
      /\ pool'.n = IF n > pool.n THEN n ELSE pool.n
      /\ dispatched' = dispatched
  BY <1>1 DEF SaveAcquire, Rec
<1>5. pool \in Pools /\ None \notin Task
  BY DEF LeaseIInv, TypeOK, CampPoolAssumption
<1>6. CommandsNamed' /\ ViewCurrent' /\ SaveChecked'
  BY <1>1, <1>2 DEF LeaseIInv, CommandsNamed, ViewCurrent, SaveChecked, Rec, Moved, Same
<1>7. \A s \in Slot : pool'.leasedBy[s] = IF s = n THEN t ELSE pool.leasedBy[s]
  BY <1>4, <1>5 DEF Pools
<1>8. AwaitingOnce'
  <2>1. \A q \in Proc, u \in Task : Awaiting(q, u)' => Awaiting(q, u) /\ q # p
    BY <1>2 DEF Awaiting, Rec, Moved, Same
  <2>2. \A q \in Proc, u \in Task : Awaiting(q, u)' => u # t
    BY <1>1, <1>3, <2>1 DEF LeaseIInv, AwaitingOnce
  <2> QED BY <1>4, <1>7, <2>1, <2>2 DEF LeaseIInv, AwaitingOnce
<1>9. LeaseInv'
  <2>1. \A s \in Slot : pool.leasedBy[s] # t
    BY <1>1, <1>3 DEF LeaseIInv, AwaitingOnce
  <2>2. \A s \in Slot : pool'.branch[s] = IF s = n THEN t ELSE pool.branch[s]
    BY <1>4, <1>5 DEF Pools
  <2> QED BY <1>1, <1>4, <1>5, <1>7, <2>1, <2>2 DEF LeaseIInv, LeaseInv, Pools
<1>10. HoldersDispatched'
  BY <1>1, <1>3, <1>4, <1>7 DEF LeaseIInv, HoldersDispatched, AwaitingOnce
<1> QED BY <1>6, <1>8, <1>9, <1>10 DEF LeaseIInv

\* SaveStrike and SaveDiscard: the lease of the slot ends.
LEMMA ReturnStep ==
  ASSUME LeaseIInv, TypeOK', NEW p \in Proc, proc[p].at = "save", proc[p].sect # "acquire",
         pool'.n = pool.n,
         pool'.leasedBy = [pool.leasedBy EXCEPT ![proc[p].slot] = None],
         \A s \in Slot \ {proc[p].slot} : pool'.branch[s] = pool.branch[s],
         dispatched' = dispatched,
         NEW a \in {"idle", "close", "reset"},
         NEW x, NEW t, NEW n, Moved(p, a, x, t, n),
         a # "idle" => x = proc[p].sect /\ t = proc[p].task /\ n = proc[p].slot
  PROVE  LeaseIInv'
<1>1. /\ lock = p /\ proc[p].view = pool
      /\ \A q \in Proc \ {p} : proc[q].at \notin {"work", "save"}
      /\ proc[p].slot \in Slot /\ proc[p].task \in Task
  BY SaveFrame
<1>2. pool.leasedBy[proc[p].slot] = proc[p].task
  BY DEF LeaseIInv, SaveChecked, Rec
<1>3. \A s \in Slot : pool'.leasedBy[s] = IF s = proc[p].slot THEN None ELSE pool.leasedBy[s]
  BY <1>1 DEF LeaseIInv, TypeOK, Pools
<1>4. CommandsNamed' /\ ViewCurrent' /\ SaveChecked'
  BY <1>1 DEF LeaseIInv, CommandsNamed, ViewCurrent, SaveChecked, Rec, Moved, Same
<1>5. None \notin Task
  BY DEF CampPoolAssumption
<1>6. LeaseInv' /\ HoldersDispatched'
  BY <1>1, <1>3 DEF LeaseIInv, LeaseInv, HoldersDispatched
<1>7. AwaitingOnce'
  <2>1. ASSUME NEW q \in Proc, NEW u \in Task, Awaiting(q, u)'
        PROVE  Awaiting(q, u) \/ (q = p /\ u = proc[p].task)
    <3>1. CASE q = p
      BY <2>1, <3>1 DEF Awaiting, Rec, Moved
    <3>2. CASE q # p
      <4>1. Same(q)
        BY <3>2 DEF Moved
      <4> QED BY <2>1, <4>1 DEF Awaiting, Rec, Same
    <3> QED BY <3>1, <3>2
  <2>2. \A q \in Proc : ~Awaiting(q, proc[p].task)
    BY <1>1, <1>2 DEF LeaseIInv, AwaitingOnce
  <2>3. \A s \in Slot : pool'.leasedBy[s] # proc[p].task
    BY <1>1, <1>2, <1>3, <1>5 DEF LeaseIInv, LeaseInv
  <2>4. proc[p].task \in dispatched
    BY <1>1, <1>2, <1>5 DEF LeaseIInv, HoldersDispatched
  <2> QED BY <1>3, <1>5, <2>1, <2>2, <2>3, <2>4 DEF LeaseIInv, AwaitingOnce
<1> QED BY <1>4, <1>6, <1>7 DEF LeaseIInv

LEMMA SaveStrikeStep ==
  ASSUME LeaseIInv, TypeOK', NEW p \in Proc, SaveStrike(p)
  PROVE  LeaseIInv'
<1>1. proc[p].view = pool /\ pool \in Pools
  BY SaveFrame DEF SaveStrike, In, LeaseIInv, TypeOK
<1>2. /\ pool'.n = pool.n
      /\ pool'.leasedBy = [pool.leasedBy EXCEPT ![proc[p].slot] = None]
      /\ pool'.branch = pool.branch
  BY <1>1 DEF SaveStrike, Rec, Pools
<1>3. \/ Moved(p, "idle", "none", None, 0)
      \/ Moved(p, "close", proc[p].sect, proc[p].task, proc[p].slot)
  <2>1. Finish(p) => Moved(p, "idle", "none", None, 0)
    BY DEF Finish, Goto, IdleProc, Moved, Same, LeaseIInv, TypeOK
  <2> QED BY <2>1, LeaveMoved DEF SaveStrike, GiveUp, At
<1> QED BY <1>2, <1>3, ReturnStep DEF SaveStrike, In

LEMMA SaveDiscardStep ==
  ASSUME LeaseIInv, TypeOK', NEW p \in Proc, SaveDiscard(p)
  PROVE  LeaseIInv'
<1>1. proc[p].view = pool /\ pool \in Pools
  BY SaveFrame DEF SaveDiscard, In, LeaseIInv, TypeOK
<1>2. /\ pool'.n = pool.n
      /\ pool'.leasedBy = [pool.leasedBy EXCEPT ![proc[p].slot] = None]
      /\ pool'.branch = [pool.branch EXCEPT ![proc[p].slot] = None]
  BY <1>1 DEF SaveDiscard, Rec, Pools
<1>3. Moved(p, "reset", proc[p].sect, proc[p].task, proc[p].slot)
  BY LeaveMoved DEF SaveDiscard, At
<1>4. \A s \in Slot \ {proc[p].slot} : pool'.branch[s] = pool.branch[s]
  BY <1>1, <1>2 DEF Pools
<1> QED BY <1>2, <1>3, <1>4, ReturnStep DEF SaveDiscard, In

\* Every step keeps the lease invariant.
LEMMA LeaseStep ==
  ASSUME LeaseIInv, TypeOK', [Next]_vars
  PROVE  LeaseIInv'
<1>0. CASE UNCHANGED vars
  BY <1>0, StaysKeeps DEF Same, vars, procVars
<1>1. ASSUME NEW p \in Proc, NEW t \in Task, Dispatch(p, t)
      PROVE  LeaseIInv'
  BY <1>1, DispatchStep
<1>2. ASSUME NEW p \in Proc, NEW t \in Task, Redispatch(p, t)
      PROVE  LeaseIInv'
  <2>1. Moved(p, "resolve", "discard", t, slotOf[t])
    BY <1>2 DEF Redispatch, Command, IdleProc, Moved, Same, Goto, Rec, LeaseIInv, TypeOK, Procs
  <2>2. slotOf[t] \in Slot
    BY <1>2 DEF Redispatch, LeaseIInv, TypeOK, Slot, NoSlot
  <2>3. MayMove(p, "resolve", "discard", t, slotOf[t])
    BY <2>2 DEF MayMove
  <2> QED BY <1>2, <2>1, <2>3, Keeps DEF Redispatch
<1>3. ASSUME NEW p \in Proc, NEW t \in Task, NEW c \in {"strike", "discard"}, BeginStrike(p, t, c)
      PROVE  LeaseIInv'
  <2>1. Moved(p, "reused", "none", t, slotOf[t])
    BY <1>3 DEF BeginStrike, Command, IdleProc, Moved, Same, Goto, Rec, LeaseIInv, TypeOK, Procs
  <2>2. slotOf[t] \in Slot
    BY <1>3 DEF BeginStrike, LeaseIInv, TypeOK, Slot, NoSlot
  <2>3. MayMove(p, "reused", "none", t, slotOf[t])
    BY <2>2 DEF MayMove
  <2> QED BY <1>3, <2>1, <2>3, Keeps DEF BeginStrike
<1>4. ASSUME NEW p \in Proc, NEW t \in Task, BeginLand(p, t)
      PROVE  LeaseIInv'
  <2>1. Moved(p, "resolve", "strike", t, slotOf[t])
    BY <1>4 DEF BeginLand, Command, IdleProc, Moved, Same, Goto, Rec, LeaseIInv, TypeOK, Procs
  <2>2. slotOf[t] \in Slot
    BY <1>4 DEF BeginLand, LeaseIInv, TypeOK, Slot, NoSlot
  <2>3. MayMove(p, "resolve", "strike", t, slotOf[t])
    BY <2>2 DEF MayMove
  <2> QED BY <1>4, <2>1, <2>3, Keeps DEF BeginLand
<1>5. ASSUME NEW p \in Proc, AskReused(p)
      PROVE  LeaseIInv'
  <2>1. \/ Moved(p, "enter", "retire", proc[p].task, proc[p].slot)
        \/ Moved(p, "resolve", "strike", proc[p].task, proc[p].slot)
    BY <1>5 DEF AskReused, Section, Moved, Same, Goto, Rec, LeaseIInv, TypeOK, Procs
  <2> QED BY <1>5, <2>1, Keeps, Own DEF AskReused, Rec, MayMove, Awaiting
<1>6. ASSUME NEW p \in Proc, Resolve(p)
      PROVE  LeaseIInv'
  <2>1. \/ Moved(p, "merge", proc[p].sect, proc[p].task, proc[p].slot)
        \/ Moved(p, "enter", proc[p].sect, proc[p].task, proc[p].slot)
    <3> DEFINE r == [proc[p] EXCEPT !.branch = pool.branch[proc[p].slot],
                                    !.pr = proc[p].cmd \in {"strike", "discard"}
                                           /\ prHead[proc[p].task] # {}
                                           /\ pool.branch[proc[p].slot] \in merged]
               x == IF r.cmd = "land" THEN [r EXCEPT !.at = "merge"] ELSE Section(r, r.sect)
    <3>1. proc[p] \in Procs /\ proc \in [Proc -> Procs]
      BY DEF LeaseIInv, TypeOK
    <3>2. /\ r.sect = proc[p].sect /\ r.task = proc[p].task /\ r.slot = proc[p].slot
          /\ r = [r EXCEPT !.at = r.at]
      BY <3>1 DEF Procs
    <3>3. proc' = [proc EXCEPT ![p] = x]
      BY <1>6 DEF Resolve, Goto, Rec
    <3>5. DOMAIN r = {"at", "cmd", "sect", "task", "slot", "branch", "pr", "tab", "view"}
      BY <3>1 DEF Procs
    <3> HIDE DEF r
    <3>4. /\ x.at \in {"merge", "enter"} /\ x.sect = proc[p].sect /\ x.task = proc[p].task
          /\ x.slot = proc[p].slot
      BY <3>2, <3>5 DEF Section
    <3> HIDE DEF x
    <3> QED BY <3>1, <3>3, <3>4 DEF Moved, Same
  <2>2. proc[p].at = "resolve" /\ pool' = pool /\ lock' = lock /\ dispatched' = dispatched
    BY <1>6 DEF Resolve, Rec
  <2>3. proc[p].task \in Task /\ proc[p].slot \in Slot /\ proc[p].sect # "acquire"
    BY <2>2, Own
  <2>4. MayMove(p, "merge", proc[p].sect, proc[p].task, proc[p].slot)
    BY <2>3 DEF MayMove
  <2>5. MayMove(p, "enter", proc[p].sect, proc[p].task, proc[p].slot)
    BY <2>3 DEF MayMove
  <2> QED BY <2>1, <2>2, <2>4, <2>5, Keeps
<1>7. ASSUME NEW p \in Proc, Merge(p)
      PROVE  LeaseIInv'
  <2>1. Moved(p, "enter", "strike", proc[p].task, proc[p].slot)
    BY <1>7 DEF Merge, Section, Moved, Same, Goto, Rec, LeaseIInv, TypeOK, Procs
  <2> QED BY <1>7, <2>1, Keeps, Own DEF Merge, Rec, MayMove, Awaiting
<1>8. ASSUME NEW p \in Proc, MergeRefused(p)
      PROVE  LeaseIInv'
  BY <1>8, FinishKeeps DEF MergeRefused, Rec
<1>9. ASSUME NEW p \in Proc, Enter(p)
      PROVE  LeaseIInv'
  <2>1. Moved(p, "work", proc[p].sect, proc[p].task, proc[p].slot) /\ proc'[p].view = pool
    BY <1>9 DEF Enter, Moved, Same, Goto, Rec, LeaseIInv, TypeOK, Procs
  <2> QED BY <1>9, <2>1, Keeps, Own DEF Enter, Rec, MayMove, Awaiting
<1>10. ASSUME NEW p \in Proc, AcquireWork(p)
      PROVE  LeaseIInv'
  BY <1>10, AcquireWorkStep
<1>11. ASSUME NEW p \in Proc, StrikeWork(p)
      PROVE  LeaseIInv'
  <2>1. Moved(p, "save", proc[p].sect, proc[p].task, proc[p].slot) /\ proc'[p].view = proc[p].view
    BY <1>11 DEF StrikeWork, In, Moved, Same, Goto, Rec, LeaseIInv, TypeOK, Procs
  <2>2. lock = p /\ proc[p].view = pool
    BY <1>11 DEF StrikeWork, In, LeaseIInv, ViewCurrent, Rec
  <2> QED BY <1>11, <2>1, <2>2, Keeps, Own DEF StrikeWork, In, Owner, Rec, MayMove, Awaiting
<1>12. ASSUME NEW p \in Proc, StrikeDiscardWork(p)
      PROVE  LeaseIInv'
  <2>1. Moved(p, "save", proc[p].sect, proc[p].task, proc[p].slot) /\ proc'[p].view = proc[p].view
    BY <1>12 DEF StrikeDiscardWork, In, Moved, Same, Goto, Rec, LeaseIInv, TypeOK, Procs
  <2>2. lock = p /\ proc[p].view = pool
    BY <1>12 DEF StrikeDiscardWork, In, LeaseIInv, ViewCurrent, Rec
  <2> QED BY <1>12, <2>1, <2>2, Keeps, Own DEF StrikeDiscardWork, In, Owner, Rec, MayMove, Awaiting
<1>13. ASSUME NEW p \in Proc, DiscardWork(p)
      PROVE  LeaseIInv'
  <2>1. Moved(p, "save", proc[p].sect, proc[p].task, proc[p].slot) /\ proc'[p].view = proc[p].view
    BY <1>13 DEF DiscardWork, In, Moved, Same, Goto, Rec, LeaseIInv, TypeOK, Procs
  <2>2. lock = p /\ proc[p].view = pool
    BY <1>13 DEF DiscardWork, In, LeaseIInv, ViewCurrent, Rec
  <2> QED BY <1>13, <2>1, <2>2, Keeps, Own DEF DiscardWork, In, Owner, Rec, MayMove, Awaiting
<1>14. ASSUME NEW p \in Proc, AcquireFails(p)
      PROVE  LeaseIInv'
  BY <1>14, GiveUpKeeps DEF AcquireFails, In, Rec
<1>15. ASSUME NEW p \in Proc, StrikeRefused(p)
      PROVE  LeaseIInv'
  BY <1>15, GiveUpKeeps DEF StrikeRefused, In, Rec
<1>16. ASSUME NEW p \in Proc, DiscardCut(p)
      PROVE  LeaseIInv'
  BY <1>16, GiveUpKeeps DEF DiscardCut, In, Rec
<1>17. ASSUME NEW p \in Proc, DiscardRefused(p)
      PROVE  LeaseIInv'
  BY <1>17, GiveUpKeeps DEF DiscardRefused, In, Rec
<1>18. ASSUME NEW p \in Proc, Prune(p)
      PROVE  LeaseIInv'
  BY <1>18, GiveUpKeeps DEF Prune, In, Rec
<1>19. ASSUME NEW p \in Proc, RetireRefused(p)
      PROVE  LeaseIInv'
  BY <1>19, GiveUpKeeps DEF RetireRefused, In, Rec
<1>20. ASSUME NEW p \in Proc, StrikeNotLeased(p)
      PROVE  LeaseIInv'
  BY <1>20, GiveUpKeeps, LeaveKeeps DEF StrikeNotLeased, In, Rec
<1>21. ASSUME NEW p \in Proc, RetireWork(p)
      PROVE  LeaseIInv'
  BY <1>21, LeaveKeeps DEF RetireWork, In, Rec
<1>22. ASSUME NEW p \in Proc, SaveAcquire(p)
      PROVE  LeaseIInv'
  BY <1>22, SaveAcquireStep
<1>23. ASSUME NEW p \in Proc, SaveStrike(p)
      PROVE  LeaseIInv'
  BY <1>23, SaveStrikeStep
<1>24. ASSUME NEW p \in Proc, SaveDiscard(p)
      PROVE  LeaseIInv'
  BY <1>24, SaveDiscardStep
<1>25. ASSUME NEW p \in Proc, Reset(p)
      PROVE  LeaseIInv'
  <2>1. Moved(p, "enter", "acquire", proc[p].task, 0)
    BY <1>25 DEF Reset, Section, Moved, Same, Goto, Rec, LeaseIInv, TypeOK, Procs
  <2> QED BY <1>25, <2>1, Keeps, Own DEF Reset, Rec, MayMove, Awaiting
<1>26. ASSUME NEW p \in Proc, Record(p)
      PROVE  LeaseIInv'
  <2>1. Moved(p, "launch", proc[p].sect, proc[p].task, proc[p].slot)
    BY <1>26 DEF Record, Moved, Same, Goto, Rec, LeaseIInv, TypeOK, Procs
  <2> QED BY <1>26, <2>1, Keeps, Own DEF Record, Rec, MayMove, Awaiting
<1>27. ASSUME NEW p \in Proc, RecordFails(p)
      PROVE  LeaseIInv'
  <2>1. Moved(p, "enter", "strike", proc[p].task, proc[p].slot)
    BY <1>27 DEF RecordFails, Section, Moved, Same, Goto, Rec, LeaseIInv, TypeOK, Procs
  <2> QED BY <1>27, <2>1, Keeps, Own DEF RecordFails, Rec, MayMove, Awaiting
<1>28. ASSUME NEW p \in Proc, Launch(p)
      PROVE  LeaseIInv'
  <2>1. Moved(p, "idle", "none", None, 0)
    BY <1>28 DEF Launch, IdleProc, Moved, Same, Rec, LeaseIInv, TypeOK, Procs
  <2> QED BY <1>28, <2>1, Keeps DEF Launch, Rec, MayMove, Awaiting
<1>29. ASSUME NEW p \in Proc, Close(p)
      PROVE  LeaseIInv'
  <2>1. \/ Moved(p, "enter", "prune", proc[p].task, proc[p].slot)
        \/ Finish(p)
    <3>1. Goto(p, [Section(proc[p], "prune") EXCEPT !.tab = FALSE]) \/ Finish(p)
      BY <1>29 DEF Close, AfterClose, Rec
    <3>2. CASE Goto(p, [Section(proc[p], "prune") EXCEPT !.tab = FALSE])
      BY <3>2 DEF Section, Moved, Same, Goto, LeaseIInv, TypeOK, Procs
    <3> QED BY <3>1, <3>2
  <2>2. CASE Finish(p)
    BY <1>29, <2>2, FinishKeeps DEF Close, Rec
  <2>3. CASE Moved(p, "enter", "prune", proc[p].task, proc[p].slot)
    BY <1>29, <2>3, Keeps, Own DEF Close, Rec, MayMove, Awaiting
  <2> QED BY <2>1, <2>2, <2>3
<1>30. ASSUME NEW p \in Proc, CloseFails(p)
      PROVE  LeaseIInv'
  <2>1. \/ Moved(p, "enter", "prune", proc[p].task, proc[p].slot)
        \/ Finish(p)
    <3>1. Goto(p, [Section(proc[p], "prune") EXCEPT !.tab = FALSE]) \/ Finish(p)
      BY <1>30 DEF CloseFails, AfterClose, Rec
    <3>2. CASE Goto(p, [Section(proc[p], "prune") EXCEPT !.tab = FALSE])
      BY <3>2 DEF Section, Moved, Same, Goto, LeaseIInv, TypeOK, Procs
    <3> QED BY <3>1, <3>2
  <2>2. CASE Finish(p)
    BY <1>30, <2>2, FinishKeeps DEF CloseFails, Rec
  <2>3. CASE Moved(p, "enter", "prune", proc[p].task, proc[p].slot)
    BY <1>30, <2>3, Keeps, Own DEF CloseFails, Rec, MayMove, Awaiting
  <2> QED BY <2>1, <2>2, <2>3
<1>31. ASSUME NEW p \in Proc, Crash(p)
      PROVE  LeaseIInv'
  BY <1>31, FinishKeeps DEF Crash
<1>32. ASSUME NEW t \in Task, Edit(t)
      PROVE  LeaseIInv'
  <2>1. UNCHANGED procVars
    BY <1>32 DEF Edit
  <2> QED BY <2>1, StaysKeeps DEF Same, procVars
<1>33. ASSUME NEW t \in Task, Rebase(t)
      PROVE  LeaseIInv'
  <2>1. UNCHANGED procVars
    BY <1>33 DEF Rebase
  <2> QED BY <2>1, StaysKeeps DEF Same, procVars
<1>34. ASSUME NEW t \in Task, Ship(t)
      PROVE  LeaseIInv'
  <2>1. UNCHANGED procVars
    BY <1>34 DEF Ship
  <2> QED BY <2>1, StaysKeeps DEF Same, procVars
<1>35. ASSUME NEW t \in Task, Die(t)
      PROVE  LeaseIInv'
  <2>1. \A q \in Proc : Same(q)
    BY <1>35 DEF Die, Same, LeaseIInv, TypeOK, Procs
  <2> QED BY <1>35, <2>1, StaysKeeps DEF Die
<1>36. ASSUME NEW t \in Task, NEW c \in Commit, CommitWork(t, c)
      PROVE  LeaseIInv'
  <2>1. UNCHANGED procVars
    BY <1>36 DEF CommitWork
  <2> QED BY <2>1, StaysKeeps DEF Same, procVars
<1>37. ASSUME NEW t \in Task, NEW c \in Commit, MergePR(t, c)
      PROVE  LeaseIInv'
  <2>1. UNCHANGED procVars
    BY <1>37 DEF MergePR
  <2> QED BY <2>1, StaysKeeps DEF Same, procVars
<1> QED BY <1>0, <1>1, <1>2, <1>3, <1>4, <1>5, <1>6, <1>7, <1>8, <1>9, <1>10, <1>11, <1>12, <1>13, <1>14, <1>15, <1>16, <1>17, <1>18, <1>19, <1>20, <1>21, <1>22, <1>23, <1>24, <1>25, <1>26, <1>27, <1>28, <1>29, <1>30, <1>31, <1>32, <1>33, <1>34, <1>35, <1>36, <1>37
       DEF Next, Begin, Step, Locked, World

-----------------------------------------------------------------------------

\* The inductive invariant: besides the lease table, what every command inside a locked
\* section, or on its way to one, knows of the pool holds whatever the others do.
THEOREM Inductive == Spec => []LeaseIInv
<1>1. Init => LeaseIInv
  <2> SUFFICES ASSUME Init PROVE LeaseIInv
    OBVIOUS
  <2>1. TypeOK
    BY IdleType DEF Init, TypeOK, Pools, EmptyPool, Worktrees
  <2>2. \A p \in Proc : proc[p].at = "idle" /\ proc[p].sect = "none"
    BY DEF Init, IdleProc
  <2>3. \A s \in Slot : pool.leasedBy[s] = None
    BY DEF Init, EmptyPool
  <2> QED BY <2>1, <2>2, <2>3 DEF LeaseIInv, CommandsNamed, LeaseInv, ViewCurrent, SaveChecked,
                AwaitingOnce, Awaiting, HoldersDispatched, Rec
<1>2. LeaseIInv /\ [Next]_vars => LeaseIInv'
  BY TypeStep, LeaseStep DEF LeaseIInv
<1> QED BY <1>1, <1>2, PTL DEF Spec

\* Type correctness: every command, whatever stale record or pool it acts on, keeps the
\* whole state in its types.
THEOREM TypeCorrect == Spec => []TypeOK
<1>1. LeaseIInv => TypeOK
  BY DEF LeaseIInv
<1> QED BY <1>1, Inductive, PTL

\* The pool of camps is right for any number of tasks, slots and concurrent commands,
\* dying anywhere: a task leases at most one slot, recorded on its own branch.
THEOREM LeaseCorrect == Spec => []LeaseInv
<1>1. LeaseIInv => LeaseInv
  BY DEF LeaseIInv
<1> QED BY <1>1, Inductive, PTL

-----------------------------------------------------------------------------
(* The pool implements CampLease: the saves of the three sections are its  *)
(* steps, and no other step touches pool.json.                             *)

LEMMA PoolFrame ==
  ASSUME [Next]_vars,
         ~ \E p \in Proc : SaveAcquire(p) \/ SaveStrike(p) \/ SaveDiscard(p)
  PROVE  pool' = pool
<1>1. CASE UNCHANGED vars
  BY <1>1 DEF vars, procVars
<1>2. ASSUME NEW p \in Proc, Begin(p)
      PROVE  pool' = pool
  BY <1>2 DEF Begin, Dispatch, Redispatch, BeginLand, BeginStrike
<1>3. ASSUME NEW p \in Proc, Locked(p)
      PROVE  pool' = pool
  BY <1>3 DEF Locked, AcquireWork, AcquireFails, StrikeWork, StrikeDiscardWork, StrikeRefused,
              StrikeNotLeased, DiscardWork, DiscardCut, DiscardRefused, Prune, RetireWork,
              RetireRefused
<1>4. ASSUME NEW p \in Proc, Step(p), ~Locked(p)
      PROVE  pool' = pool
  BY <1>4 DEF Step, AskReused, Resolve, Merge, MergeRefused, Enter, Reset, Record, RecordFails,
              Launch, Close, CloseFails, Crash
<1>5. ASSUME NEW t \in Task, World(t)
      PROVE  pool' = pool
  BY <1>5 DEF World, Edit, Rebase, Die, CommitWork, Ship, MergePR, procVars
<1> QED BY <1>1, <1>2, <1>3, <1>4, <1>5 DEF Next

\* SaveAcquire grants the slot to a task that leases none.
LEMMA SaveAcquireGrants ==
  ASSUME LeaseIInv, NEW p \in Proc, SaveAcquire(p)
  PROVE  /\ proc[p].task \in Task /\ proc[p].slot \in Slot
         /\ pool.leasedBy[proc[p].slot] = None
         /\ \A x \in Slot : pool.leasedBy[x] # proc[p].task
         /\ pool'.leasedBy = [pool.leasedBy EXCEPT ![proc[p].slot] = proc[p].task]
<1>1. proc[p].view = pool /\ proc[p].slot \in Slot /\ proc[p].task \in Task
  BY SaveFrame DEF SaveAcquire, In
<1>2. Awaiting(p, proc[p].task) /\ pool.leasedBy[proc[p].slot] = None
  BY DEF SaveAcquire, In, Awaiting, Rec, LeaseIInv, SaveChecked
<1>3. \A x \in Slot : pool.leasedBy[x] # proc[p].task
  BY <1>1, <1>2 DEF LeaseIInv, AwaitingOnce
<1> QED BY <1>1, <1>2, <1>3 DEF SaveAcquire, Rec

\* SaveStrike and SaveDiscard return the slot of the task the command is for.
LEMMA SaveReturns ==
  ASSUME LeaseIInv, NEW p \in Proc, SaveStrike(p) \/ SaveDiscard(p)
  PROVE  /\ lock = p /\ proc[p].slot \in Slot /\ proc[p].task \in Task
         /\ pool.leasedBy[proc[p].slot] = proc[p].task
         /\ pool'.leasedBy = [pool.leasedBy EXCEPT ![proc[p].slot] = None]
         /\ lock' = None
<1>1. proc[p].at = "save" /\ proc[p].sect # "acquire"
  BY DEF SaveStrike, SaveDiscard, In
<1>2. lock = p /\ proc[p].view = pool /\ proc[p].slot \in Slot /\ proc[p].task \in Task
  BY <1>1, SaveFrame
<1>3. pool.leasedBy[proc[p].slot] = proc[p].task
  BY <1>1 DEF LeaseIInv, SaveChecked, Rec
<1>4. pool \in Pools
  BY DEF LeaseIInv, TypeOK
<1>5. pool'.leasedBy = [pool.leasedBy EXCEPT ![proc[p].slot] = None]
  BY <1>2, <1>4 DEF SaveStrike, SaveDiscard, Rec, Pools
<1>6. lock' = None
  BY DEF SaveStrike, SaveDiscard, GiveUp, Leave, Unlock
<1> QED BY <1>2, <1>3, <1>5, <1>6

\* The pool implements the table of leases: each save of pool.json is a Grant or a Return
\* of CampLease, and every other step of every command leaves the leases as they are.
THEOREM LeaseRefines == Spec => LeaseSpec
<1>1. Init => Lease!Init
  BY DEF Init, EmptyPool, Lease!Init
<1>2. LeaseIInv /\ [Next]_vars => [Lease!Next]_(pool.leasedBy)
  <2> SUFFICES ASSUME LeaseIInv, [Next]_vars
               PROVE  [Lease!Next]_(pool.leasedBy)
    OBVIOUS
  <2>1. ASSUME NEW p \in Proc, SaveAcquire(p)
        PROVE  Lease!Next
    BY <2>1, SaveAcquireGrants DEF Lease!Next, Lease!Grant
  <2>2. ASSUME NEW p \in Proc, SaveStrike(p) \/ SaveDiscard(p)
        PROVE  Lease!Next
    BY <2>2, SaveReturns DEF Lease!Next, Lease!Return, CampPoolAssumption
  <2> QED BY <2>1, <2>2, PoolFrame
<1> QED BY <1>1, <1>2, Inductive, PTL DEF Spec, LeaseSpec, Lease!Spec

\* Only a command for the task that holds a lease ends it, under the lock.
THEOREM LeaseEnds == Spec => LeaseEndsByOwner
<1> DEFINE A == \A s \in Slot :
          pool.leasedBy[s] # None /\ pool'.leasedBy[s] # pool.leasedBy[s] =>
             /\ pool'.leasedBy[s] = None
             /\ lock \in Proc /\ Rec(lock).task = pool.leasedBy[s] /\ lock' = None
<1>1. LeaseIInv /\ [Next]_vars => [A]_vars
  <2> SUFFICES ASSUME LeaseIInv, [Next]_vars
               PROVE  A
    OBVIOUS
  <2>0. pool.leasedBy \in [Slot -> Task \cup {None}]
    BY DEF LeaseIInv, TypeOK, Pools
  <2>1. ASSUME NEW p \in Proc, SaveAcquire(p)
        PROVE  A
    BY <2>0, <2>1, SaveAcquireGrants
  <2>2. ASSUME NEW p \in Proc, SaveStrike(p) \/ SaveDiscard(p)
        PROVE  A
    BY <2>0, <2>2, SaveReturns DEF Rec
  <2> QED BY <2>1, <2>2, PoolFrame
<1> QED BY <1>1, Inductive, PTL DEF Spec, LeaseEndsByOwner, A

-----------------------------------------------------------------------------
(* The work in the camps, and the camps of others.                         *)

\* What command q carries after the step is what record r carries.
Alike(q, r) ==
    /\ proc'[q].at = r.at /\ proc'[q].sect = r.sect /\ proc'[q].cmd = r.cmd
    /\ proc'[q].task = r.task /\ proc'[q].slot = r.slot
    /\ proc'[q].branch = r.branch /\ proc'[q].pr = r.pr

\* What one record r of a command says that CommandShape asks for.
Shaped(r) ==
    /\ r.pr => r.branch \in merged
    /\ r.at \in {"reused", "merge", "reset"} \/ r.sect = "discard" => ~r.pr
    /\ r.sect = "discard" => r.cmd = "redispatch"

\* The record r is that of a command on its way to lease a camp.
Leasing(r) == r.at = "reset" \/ (r.sect = "acquire" /\ r.at \in {"enter", "work", "save"})

\* A command only sets out to lease a camp for a task that is new, or that gives up its own.
AwaitsAnew ==
    \A q \in Proc, u \in Task : Awaiting(q, u)' =>
        \/ Awaiting(q, u) \/ u \notin dispatched
        \/ /\ proc[q].at = "save" /\ proc[q].sect = "discard"
           /\ \E s \in Slot : pool.leasedBy[s] = u

LEMMA MoveShape ==
  ASSUME TypeOK, TypeOK', CommandShape, merged \subseteq merged', NEW p \in Proc, NEW r,
         Alike(p, r), \A q \in Proc \ {p} : Alike(q, proc[q]), Shaped(r),
         r.sect = "discard" /\ r.at \in {"enter", "work"} =>
            Overlapped(p) \/ r.branch = pool'.branch[r.slot],
         Leasing(r) => \/ Awaiting(p, r.task) \/ r.task \notin dispatched
                       \/ /\ proc[p].at = "save" /\ proc[p].sect = "discard"
                          /\ \E s \in Slot : pool.leasedBy[s] = r.task
  PROVE  CommandShape' /\ ResolvedAlone' /\ AwaitsAnew
<1>1. CommandShape'
  BY DEF CommandShape, Alike, Rec, Shaped
<1>2. ResolvedAlone'
  <2>1. DOMAIN proc = Proc /\ DOMAIN proc' = Proc
    BY DEF TypeOK
  <2>2. \A q \in Proc \ {p} : Overlapped(q)'
    BY <2>1 DEF Overlapped
  <2>3. Overlapped(p) => Overlapped(p)'
    BY <2>1 DEF Overlapped
  <2> QED BY <2>2, <2>3 DEF ResolvedAlone, Alike, Rec
<1>3. AwaitsAnew
  BY DEF AwaitsAnew, Awaiting, Alike, Rec, Leasing
<1> QED BY <1>1, <1>2, <1>3

\* A step in which no command moves.
LEMMA RestShape ==
  ASSUME TypeOK, TypeOK', CommandShape, ResolvedAlone, merged \subseteq merged', pool' = pool,
         \A q \in Proc : Alike(q, proc[q])
  PROVE  CommandShape' /\ ResolvedAlone' /\ AwaitsAnew
<1>1. CommandShape'
  BY DEF CommandShape, Alike, Rec
<1>2. ResolvedAlone'
  BY DEF ResolvedAlone, Alike, Rec, Overlapped, TypeOK
<1>3. AwaitsAnew
  BY DEF AwaitsAnew, Awaiting, Alike, Rec
<1> QED BY <1>1, <1>2, <1>3

\* A command that goes to record r, every field of which is at hand.
LEMMA GotoAlike ==
  ASSUME TypeOK, NEW p \in Proc, NEW r, Goto(p, r)
  PROVE  Alike(p, r) /\ \A q \in Proc \ {p} : Alike(q, proc[q])
  BY DEF Goto, Alike, TypeOK

LEMMA FinishShape ==
  ASSUME TypeOK, TypeOK', CommandShape, merged' = merged, NEW p \in Proc, Finish(p)
  PROVE  CommandShape' /\ ResolvedAlone' /\ AwaitsAnew
<1>1. Shaped(IdleProc) /\ ~Leasing(IdleProc) /\ IdleProc.sect # "discard"
  BY DEF Shaped, Leasing, IdleProc
<1> QED BY <1>1, GotoAlike, MoveShape DEF Finish

\* The command returns from its section.
LEMMA LeaveShape ==
  ASSUME TypeOK, TypeOK', CommandShape, merged' = merged, NEW p \in Proc,
         NEW a \in {"close", "record"}, Leave(p, a)
  PROVE  CommandShape' /\ ResolvedAlone' /\ AwaitsAnew
<1> DEFINE r == [proc[p] EXCEPT !.at = a, !.view = EmptyPool]
<1>1. /\ r.at = a /\ r.sect = proc[p].sect /\ r.cmd = proc[p].cmd /\ r.branch = proc[p].branch
      /\ r.pr = proc[p].pr
  BY DEF TypeOK, Procs
<1>2. Goto(p, r)
  BY DEF Leave
<1> HIDE DEF r
<1>3. Shaped(r) /\ ~Leasing(r) /\ r.at \notin {"enter", "work"}
  BY <1>1 DEF CommandShape, Shaped, Rec, Leasing
<1> QED BY <1>2, <1>3, GotoAlike, MoveShape

\* Every step keeps what the commands carry, and none sets out to lease a second camp.
LEMMA ShapeStep ==
  ASSUME LeaseIInv, TypeOK', CommandShape, ResolvedAlone, [Next]_vars
  PROVE  CommandShape' /\ ResolvedAlone' /\ AwaitsAnew
<1>0. CASE UNCHANGED vars
  <2>1. proc' = proc /\ pool' = pool /\ merged' = merged
    BY <1>0 DEF vars, procVars, gitVars
  <2> QED BY <2>1, RestShape DEF Alike, LeaseIInv
<1>1. ASSUME NEW p \in Proc, NEW t \in Task, Dispatch(p, t)
      PROVE  CommandShape' /\ ResolvedAlone' /\ AwaitsAnew
  <2> DEFINE r == Section(Command(t, "dispatch"), "acquire")
  <2>1. Goto(p, r)
    BY <1>1 DEF Dispatch, Rec
  <2>2. r.at = "enter" /\ r.sect = "acquire" /\ r.task = t /\ r.pr = FALSE
    BY <1>1 DEF Section, Command, IdleProc
  <2>3. pool' = pool /\ merged' = merged
    BY <1>1 DEF Dispatch, gitVars
  <2> HIDE DEF r
  <2>4. Shaped(r)
    BY <1>1, <2>2, <2>3 DEF Dispatch, In, CommandShape, Shaped, Rec
  <2>5. Leasing(r) => Awaiting(p, r.task) \/ r.task \notin dispatched
    BY <1>1, <2>2, Own DEF Dispatch, In, Leasing, Awaiting, Rec
  <2>6. r.sect = "discard" /\ r.at \in {"enter", "work"} =>
           Overlapped(p) \/ r.branch = pool'.branch[r.slot]
    BY <1>1, <2>2, <2>3 DEF Dispatch, In, ResolvedAlone, Rec
  <2> QED BY <2>1, <2>3, <2>4, <2>5, <2>6, GotoAlike, MoveShape DEF LeaseIInv
<1>2. ASSUME NEW p \in Proc, NEW t \in Task, Redispatch(p, t)
      PROVE  CommandShape' /\ ResolvedAlone' /\ AwaitsAnew
  <2> DEFINE r == [Command(t, "redispatch") EXCEPT !.at = "resolve", !.sect = "discard"]
  <2>1. Goto(p, r)
    BY <1>2 DEF Redispatch, Rec
  <2>2. /\ r.at = "resolve" /\ r.sect = "discard" /\ r.cmd = "redispatch" /\ r.pr = FALSE
    BY <1>2 DEF Section, Command, IdleProc
  <2>3. pool' = pool /\ merged' = merged
    BY <1>2 DEF Redispatch, gitVars
  <2> HIDE DEF r
  <2>4. Shaped(r)
    BY <1>2, <2>2, <2>3 DEF Redispatch, In, CommandShape, Shaped, Rec
  <2>5. Leasing(r) => Awaiting(p, r.task) \/ r.task \notin dispatched
    BY <1>2, <2>2, Own DEF Redispatch, In, Leasing, Awaiting, Rec
  <2>6. r.sect = "discard" /\ r.at \in {"enter", "work"} =>
           Overlapped(p) \/ r.branch = pool'.branch[r.slot]
    BY <1>2, <2>2, <2>3 DEF Redispatch, In, ResolvedAlone, Rec
  <2> QED BY <2>1, <2>3, <2>4, <2>5, <2>6, GotoAlike, MoveShape DEF LeaseIInv
<1>3. ASSUME NEW p \in Proc, NEW t \in Task, NEW c \in {"strike", "discard"}, BeginStrike(p, t, c)
      PROVE  CommandShape' /\ ResolvedAlone' /\ AwaitsAnew
  <2> DEFINE r == [Command(t, c) EXCEPT !.at = "reused"]
  <2>1. Goto(p, r)
    BY <1>3 DEF BeginStrike, Rec
  <2>2. r.at = "reused" /\ r.sect = "none" /\ r.pr = FALSE
    BY <1>3 DEF Section, Command, IdleProc
  <2>3. pool' = pool /\ merged' = merged
    BY <1>3 DEF BeginStrike, gitVars
  <2> HIDE DEF r
  <2>4. Shaped(r)
    BY <1>3, <2>2, <2>3 DEF BeginStrike, In, CommandShape, Shaped, Rec
  <2>5. Leasing(r) => Awaiting(p, r.task) \/ r.task \notin dispatched
    BY <1>3, <2>2, Own DEF BeginStrike, In, Leasing, Awaiting, Rec
  <2>6. r.sect = "discard" /\ r.at \in {"enter", "work"} =>
           Overlapped(p) \/ r.branch = pool'.branch[r.slot]
    BY <1>3, <2>2, <2>3 DEF BeginStrike, In, ResolvedAlone, Rec
  <2> QED BY <2>1, <2>3, <2>4, <2>5, <2>6, GotoAlike, MoveShape DEF LeaseIInv
<1>4. ASSUME NEW p \in Proc, NEW t \in Task, BeginLand(p, t)
      PROVE  CommandShape' /\ ResolvedAlone' /\ AwaitsAnew
  <2> DEFINE r == [Command(t, "land") EXCEPT !.at = "resolve", !.sect = "strike"]
  <2>1. Goto(p, r)
    BY <1>4 DEF BeginLand, Rec
  <2>2. r.at = "resolve" /\ r.sect = "strike" /\ r.pr = FALSE
    BY <1>4 DEF Section, Command, IdleProc
  <2>3. pool' = pool /\ merged' = merged
    BY <1>4 DEF BeginLand, gitVars
  <2> HIDE DEF r
  <2>4. Shaped(r)
    BY <1>4, <2>2, <2>3 DEF BeginLand, In, CommandShape, Shaped, Rec
  <2>5. Leasing(r) => Awaiting(p, r.task) \/ r.task \notin dispatched
    BY <1>4, <2>2, Own DEF BeginLand, In, Leasing, Awaiting, Rec
  <2>6. r.sect = "discard" /\ r.at \in {"enter", "work"} =>
           Overlapped(p) \/ r.branch = pool'.branch[r.slot]
    BY <1>4, <2>2, <2>3 DEF BeginLand, In, ResolvedAlone, Rec
  <2> QED BY <2>1, <2>3, <2>4, <2>5, <2>6, GotoAlike, MoveShape DEF LeaseIInv
<1>5. ASSUME NEW p \in Proc, AskReused(p)
      PROVE  CommandShape' /\ ResolvedAlone' /\ AwaitsAnew
  <2> DEFINE r == IF SlotReused(pool, proc[p].slot, proc[p].task)
                   THEN [Section(proc[p], "retire") EXCEPT !.branch = proc[p].task]
                   ELSE [proc[p] EXCEPT !.at = "resolve", !.sect = "strike"]
  <2>1. Goto(p, r)
    BY <1>5 DEF AskReused, Rec
  <2>2. r.at \in {"enter", "resolve"} /\ r.sect \in {"retire", "strike"} /\ r.pr = proc[p].pr
    BY <1>5 DEF Section, LeaseIInv, TypeOK, Procs
  <2>3. pool' = pool /\ merged' = merged
    BY <1>5 DEF AskReused, gitVars
  <2> HIDE DEF r
  <2>4. Shaped(r)
    BY <1>5, <2>2, <2>3 DEF AskReused, In, CommandShape, Shaped, Rec
  <2>5. Leasing(r) => Awaiting(p, r.task) \/ r.task \notin dispatched
    BY <1>5, <2>2, Own DEF AskReused, In, Leasing, Awaiting, Rec
  <2>6. r.sect = "discard" /\ r.at \in {"enter", "work"} =>
           Overlapped(p) \/ r.branch = pool'.branch[r.slot]
    BY <1>5, <2>2, <2>3 DEF AskReused, In, ResolvedAlone, Rec
  <2> QED BY <2>1, <2>3, <2>4, <2>5, <2>6, GotoAlike, MoveShape DEF LeaseIInv
<1>6. ASSUME NEW p \in Proc, Resolve(p)
      PROVE  CommandShape' /\ ResolvedAlone' /\ AwaitsAnew
  <2> DEFINE b == pool.branch[proc[p].slot]
             e == proc[p].cmd \in {"strike", "discard"}
                  /\ prHead[proc[p].task] # {} /\ b \in merged
             x == [proc[p] EXCEPT !.branch = b, !.pr = e]
             r == IF x.cmd = "land" THEN [x EXCEPT !.at = "merge"] ELSE Section(x, x.sect)
  <2>1. Goto(p, r)
    BY <1>6 DEF Resolve, Rec
  <2>2. /\ x.sect = proc[p].sect /\ x.cmd = proc[p].cmd /\ x.branch = b /\ x.slot = proc[p].slot
        /\ x.pr => b \in merged /\ x.cmd \in {"strike", "discard"}
        /\ DOMAIN x = {"at", "cmd", "sect", "task", "slot", "branch", "pr", "tab", "view"}
    <3>1. proc[p] \in Procs
      BY DEF LeaseIInv, TypeOK
    <3>2. e => b \in merged /\ proc[p].cmd \in {"strike", "discard"}
      OBVIOUS
    <3> HIDE DEF e, b
    <3> QED BY <3>1, <3>2 DEF Procs
  <2> HIDE DEF x
  <2>3. /\ r.at = IF x.cmd = "land" THEN "merge" ELSE "enter"
        /\ r.sect = x.sect /\ r.cmd = x.cmd /\ r.branch = b /\ r.slot = x.slot /\ r.pr = x.pr
    BY <2>2 DEF Section
  <2>4. pool' = pool /\ merged' = merged
    BY <1>6 DEF Resolve, gitVars
  <2> HIDE DEF r
  <2>5. Shaped(r)
    BY <2>2, <2>3 DEF CommandShape, Shaped, Rec
  <2>6. ~Leasing(r)
    BY <1>6, <2>2, <2>3, Own DEF Resolve, Rec, Leasing
  <2> QED BY <2>1, <2>2, <2>3, <2>4, <2>5, <2>6, GotoAlike, MoveShape DEF LeaseIInv
<1>7. ASSUME NEW p \in Proc, Merge(p)
      PROVE  CommandShape' /\ ResolvedAlone' /\ AwaitsAnew
  <2> DEFINE r == [Section(proc[p], "strike") EXCEPT !.branch = None]
  <2>1. Goto(p, r) /\ merged' = merged
    BY <1>7 DEF Merge, Rec
  <2>2. r.at = "enter" /\ r.sect = "strike" /\ r.pr = proc[p].pr
    BY DEF Section, LeaseIInv, TypeOK, Procs
  <2> HIDE DEF r
  <2>3. Shaped(r) /\ ~Leasing(r)
    BY <1>7, <2>2 DEF Merge, Rec, CommandShape, Shaped, Leasing
  <2> QED BY <2>1, <2>2, <2>3, GotoAlike, MoveShape DEF LeaseIInv
<1>8. ASSUME NEW p \in Proc, MergeRefused(p)
      PROVE  CommandShape' /\ ResolvedAlone' /\ AwaitsAnew
  BY <1>8, FinishShape DEF MergeRefused, GiveUp, gitVars, LeaseIInv
<1>9. ASSUME NEW p \in Proc, Enter(p)
      PROVE  CommandShape' /\ ResolvedAlone' /\ AwaitsAnew
  <2> DEFINE r == [proc[p] EXCEPT !.at = "work", !.view = pool]
  <2>1. Goto(p, r)
    BY <1>9 DEF Enter, Rec
  <2>2. /\ r.at = "work" /\ r.sect = proc[p].sect /\ r.cmd = proc[p].cmd /\ r.task = proc[p].task
        /\ r.slot = proc[p].slot /\ r.branch = proc[p].branch /\ r.pr = proc[p].pr
    BY <1>9 DEF LeaseIInv, TypeOK, Procs
  <2>3. pool' = pool /\ merged' = merged
    BY <1>9 DEF Enter, gitVars
  <2> HIDE DEF r
  <2>4. Shaped(r)
    BY <1>9, <2>2, <2>3 DEF Enter, In, CommandShape, Shaped, Rec
  <2>5. Leasing(r) => Awaiting(p, r.task) \/ r.task \notin dispatched
    BY <1>9, <2>2, Own DEF Enter, In, Leasing, Awaiting, Rec
  <2>6. r.sect = "discard" /\ r.at \in {"enter", "work"} =>
           Overlapped(p) \/ r.branch = pool'.branch[r.slot]
    BY <1>9, <2>2, <2>3 DEF Enter, In, ResolvedAlone, Rec
  <2> QED BY <2>1, <2>3, <2>4, <2>5, <2>6, GotoAlike, MoveShape DEF LeaseIInv
<1>10. ASSUME NEW p \in Proc, AcquireWork(p)
      PROVE  CommandShape' /\ ResolvedAlone' /\ AwaitsAnew
  <2>1. PICK s \in Slot : Goto(p, [proc[p] EXCEPT !.at = "save", !.slot = s])
    BY <1>10 DEF AcquireWork, Rec
  <2> DEFINE r == [proc[p] EXCEPT !.at = "save", !.slot = s]
  <2>2. /\ r.at = "save" /\ r.sect = "acquire" /\ r.cmd = proc[p].cmd /\ r.task = proc[p].task
        /\ r.branch = proc[p].branch /\ r.pr = proc[p].pr
    BY <1>10 DEF AcquireWork, In, Rec, LeaseIInv, TypeOK, Procs
  <2>3. merged' = merged /\ Goto(p, r)
    BY <1>10, <2>1 DEF AcquireWork
  <2> HIDE DEF r
  <2>4. Shaped(r) /\ Awaiting(p, r.task)
    BY <1>10, <2>2 DEF AcquireWork, In, CommandShape, Shaped, Rec, Awaiting
  <2> QED BY <2>1, <2>2, <2>3, <2>4, GotoAlike, MoveShape DEF LeaseIInv
<1>11. ASSUME NEW p \in Proc, StrikeWork(p)
      PROVE  CommandShape' /\ ResolvedAlone' /\ AwaitsAnew
  <2> DEFINE r == [proc[p] EXCEPT !.at = "save"]
  <2>1. Goto(p, r)
    BY <1>11 DEF StrikeWork, Rec
  <2>2. /\ r.at = "save" /\ r.sect = proc[p].sect /\ r.cmd = proc[p].cmd /\ r.task = proc[p].task
        /\ r.slot = proc[p].slot /\ r.branch = proc[p].branch /\ r.pr = proc[p].pr
    BY <1>11 DEF LeaseIInv, TypeOK, Procs
  <2>3. pool' = pool /\ merged' = merged
    BY <1>11 DEF StrikeWork, gitVars
  <2> HIDE DEF r
  <2>4. Shaped(r)
    BY <1>11, <2>2, <2>3 DEF StrikeWork, In, CommandShape, Shaped, Rec
  <2>5. Leasing(r) => Awaiting(p, r.task) \/ r.task \notin dispatched
    BY <1>11, <2>2, Own DEF StrikeWork, In, Leasing, Awaiting, Rec
  <2>6. r.sect = "discard" /\ r.at \in {"enter", "work"} =>
           Overlapped(p) \/ r.branch = pool'.branch[r.slot]
    BY <1>11, <2>2, <2>3 DEF StrikeWork, In, ResolvedAlone, Rec
  <2> QED BY <2>1, <2>3, <2>4, <2>5, <2>6, GotoAlike, MoveShape DEF LeaseIInv
<1>12. ASSUME NEW p \in Proc, StrikeDiscardWork(p)
      PROVE  CommandShape' /\ ResolvedAlone' /\ AwaitsAnew
  <2> DEFINE r == [proc[p] EXCEPT !.at = "save"]
  <2>1. Goto(p, r)
    BY <1>12 DEF StrikeDiscardWork, Rec
  <2>2. /\ r.at = "save" /\ r.sect = proc[p].sect /\ r.cmd = proc[p].cmd /\ r.task = proc[p].task
        /\ r.slot = proc[p].slot /\ r.branch = proc[p].branch /\ r.pr = proc[p].pr
    BY <1>12 DEF LeaseIInv, TypeOK, Procs
  <2>3. pool' = pool /\ merged' = merged
    BY <1>12 DEF StrikeDiscardWork, gitVars
  <2> HIDE DEF r
  <2>4. Shaped(r)
    BY <1>12, <2>2, <2>3 DEF StrikeDiscardWork, In, CommandShape, Shaped, Rec
  <2>5. Leasing(r) => Awaiting(p, r.task) \/ r.task \notin dispatched
    BY <1>12, <2>2, Own DEF StrikeDiscardWork, In, Leasing, Awaiting, Rec
  <2>6. r.sect = "discard" /\ r.at \in {"enter", "work"} =>
           Overlapped(p) \/ r.branch = pool'.branch[r.slot]
    BY <1>12, <2>2, <2>3 DEF StrikeDiscardWork, In, ResolvedAlone, Rec
  <2> QED BY <2>1, <2>3, <2>4, <2>5, <2>6, GotoAlike, MoveShape DEF LeaseIInv
<1>13. ASSUME NEW p \in Proc, DiscardWork(p)
      PROVE  CommandShape' /\ ResolvedAlone' /\ AwaitsAnew
  <2> DEFINE r == [proc[p] EXCEPT !.at = "save"]
  <2>1. Goto(p, r)
    BY <1>13 DEF DiscardWork, Rec
  <2>2. /\ r.at = "save" /\ r.sect = proc[p].sect /\ r.cmd = proc[p].cmd /\ r.task = proc[p].task
        /\ r.slot = proc[p].slot /\ r.branch = proc[p].branch /\ r.pr = proc[p].pr
    BY <1>13 DEF LeaseIInv, TypeOK, Procs
  <2>3. pool' = pool /\ merged' = merged
    BY <1>13 DEF DiscardWork, gitVars
  <2> HIDE DEF r
  <2>4. Shaped(r)
    BY <1>13, <2>2, <2>3 DEF DiscardWork, In, CommandShape, Shaped, Rec
  <2>5. Leasing(r) => Awaiting(p, r.task) \/ r.task \notin dispatched
    BY <1>13, <2>2, Own DEF DiscardWork, In, Leasing, Awaiting, Rec
  <2>6. r.sect = "discard" /\ r.at \in {"enter", "work"} =>
           Overlapped(p) \/ r.branch = pool'.branch[r.slot]
    BY <1>13, <2>2, <2>3 DEF DiscardWork, In, ResolvedAlone, Rec
  <2> QED BY <2>1, <2>3, <2>4, <2>5, <2>6, GotoAlike, MoveShape DEF LeaseIInv
<1>14. ASSUME NEW p \in Proc, AcquireFails(p)
      PROVE  CommandShape' /\ ResolvedAlone' /\ AwaitsAnew
  BY <1>14, FinishShape DEF AcquireFails, GiveUp, gitVars, LeaseIInv
<1>15. ASSUME NEW p \in Proc, StrikeRefused(p)
      PROVE  CommandShape' /\ ResolvedAlone' /\ AwaitsAnew
  BY <1>15, FinishShape DEF StrikeRefused, GiveUp, gitVars, LeaseIInv
<1>16. ASSUME NEW p \in Proc, DiscardCut(p)
      PROVE  CommandShape' /\ ResolvedAlone' /\ AwaitsAnew
  BY <1>16, FinishShape DEF DiscardCut, GiveUp, gitVars, LeaseIInv
<1>17. ASSUME NEW p \in Proc, DiscardRefused(p)
      PROVE  CommandShape' /\ ResolvedAlone' /\ AwaitsAnew
  BY <1>17, FinishShape DEF DiscardRefused, GiveUp, gitVars, LeaseIInv
<1>18. ASSUME NEW p \in Proc, Prune(p)
      PROVE  CommandShape' /\ ResolvedAlone' /\ AwaitsAnew
  BY <1>18, FinishShape DEF Prune, GiveUp, gitVars, LeaseIInv
<1>19. ASSUME NEW p \in Proc, RetireRefused(p)
      PROVE  CommandShape' /\ ResolvedAlone' /\ AwaitsAnew
  BY <1>19, FinishShape DEF RetireRefused, GiveUp, gitVars, LeaseIInv
<1>31. ASSUME NEW p \in Proc, Crash(p)
      PROVE  CommandShape' /\ ResolvedAlone' /\ AwaitsAnew
  BY <1>31, FinishShape DEF Crash, GiveUp, gitVars, LeaseIInv
<1>20. ASSUME NEW p \in Proc, StrikeNotLeased(p)
      PROVE  CommandShape' /\ ResolvedAlone' /\ AwaitsAnew
  BY <1>20, FinishShape, LeaveShape DEF StrikeNotLeased, GiveUp, gitVars, LeaseIInv
<1>21. ASSUME NEW p \in Proc, RetireWork(p)
      PROVE  CommandShape' /\ ResolvedAlone' /\ AwaitsAnew
  BY <1>21, FinishShape, LeaveShape DEF RetireWork, GiveUp, gitVars, LeaseIInv
<1>22. ASSUME NEW p \in Proc, SaveAcquire(p)
      PROVE  CommandShape' /\ ResolvedAlone' /\ AwaitsAnew
  BY <1>22, FinishShape, LeaveShape DEF SaveAcquire, GiveUp, gitVars, LeaseIInv
<1>23. ASSUME NEW p \in Proc, SaveStrike(p)
      PROVE  CommandShape' /\ ResolvedAlone' /\ AwaitsAnew
  BY <1>23, FinishShape, LeaveShape DEF SaveStrike, GiveUp, gitVars, LeaseIInv
<1>24. ASSUME NEW p \in Proc, SaveDiscard(p)
      PROVE  CommandShape' /\ ResolvedAlone' /\ AwaitsAnew
  <2> DEFINE r == [proc[p] EXCEPT !.at = "reset", !.view = EmptyPool]
  <2>1. Goto(p, r) /\ merged' = merged
    BY <1>24 DEF SaveDiscard, Leave, gitVars
  <2>2. /\ r.at = "reset" /\ r.sect = proc[p].sect /\ r.cmd = proc[p].cmd /\ r.task = proc[p].task
        /\ r.branch = proc[p].branch /\ r.pr = proc[p].pr
    BY DEF LeaseIInv, TypeOK, Procs
  <2>3. \E s \in Slot : pool.leasedBy[s] = proc[p].task
    BY <1>24, SaveReturns
  <2> HIDE DEF r
  <2>4. Shaped(r)
    BY <1>24, <2>2 DEF SaveDiscard, In, CommandShape, Shaped, Rec
  <2> QED BY <1>24, <2>1, <2>2, <2>3, <2>4, GotoAlike, MoveShape DEF SaveDiscard, In, Rec, LeaseIInv
<1>25. ASSUME NEW p \in Proc, Reset(p)
      PROVE  CommandShape' /\ ResolvedAlone' /\ AwaitsAnew
  <2> DEFINE r == [Section(proc[p], "acquire") EXCEPT !.slot = NoSlot, !.branch = None]
  <2>1. Goto(p, r)
    BY <1>25 DEF Reset, Rec
  <2>2. r.at = "enter" /\ r.sect = "acquire" /\ r.task = proc[p].task /\ r.pr = proc[p].pr
    BY <1>25 DEF Section, LeaseIInv, TypeOK, Procs
  <2>3. pool' = pool /\ merged' = merged
    BY <1>25 DEF Reset, gitVars
  <2> HIDE DEF r
  <2>4. Shaped(r)
    BY <1>25, <2>2, <2>3 DEF Reset, In, CommandShape, Shaped, Rec
  <2>5. Leasing(r) => Awaiting(p, r.task) \/ r.task \notin dispatched
    BY <1>25, <2>2, Own DEF Reset, In, Leasing, Awaiting, Rec
  <2>6. r.sect = "discard" /\ r.at \in {"enter", "work"} =>
           Overlapped(p) \/ r.branch = pool'.branch[r.slot]
    BY <1>25, <2>2, <2>3 DEF Reset, In, ResolvedAlone, Rec
  <2> QED BY <2>1, <2>3, <2>4, <2>5, <2>6, GotoAlike, MoveShape DEF LeaseIInv
<1>26. ASSUME NEW p \in Proc, Record(p)
      PROVE  CommandShape' /\ ResolvedAlone' /\ AwaitsAnew
  <2> DEFINE r == [proc[p] EXCEPT !.at = "launch"]
  <2>1. Goto(p, r)
    BY <1>26 DEF Record, Rec
  <2>2. /\ r.at = "launch" /\ r.sect = proc[p].sect /\ r.cmd = proc[p].cmd /\ r.task = proc[p].task
        /\ r.slot = proc[p].slot /\ r.branch = proc[p].branch /\ r.pr = proc[p].pr
    BY <1>26 DEF LeaseIInv, TypeOK, Procs
  <2>3. pool' = pool /\ merged' = merged
    BY <1>26 DEF Record, gitVars
  <2> HIDE DEF r
  <2>4. Shaped(r)
    BY <1>26, <2>2, <2>3 DEF Record, In, CommandShape, Shaped, Rec
  <2>5. Leasing(r) => Awaiting(p, r.task) \/ r.task \notin dispatched
    BY <1>26, <2>2, Own DEF Record, In, Leasing, Awaiting, Rec
  <2>6. r.sect = "discard" /\ r.at \in {"enter", "work"} =>
           Overlapped(p) \/ r.branch = pool'.branch[r.slot]
    BY <1>26, <2>2, <2>3 DEF Record, In, ResolvedAlone, Rec
  <2> QED BY <2>1, <2>3, <2>4, <2>5, <2>6, GotoAlike, MoveShape DEF LeaseIInv
<1>27. ASSUME NEW p \in Proc, RecordFails(p)
      PROVE  CommandShape' /\ ResolvedAlone' /\ AwaitsAnew
  <2> DEFINE r == [Section(proc[p], "strike") EXCEPT !.cmd = "undo"]
  <2>1. Goto(p, r)
    BY <1>27 DEF RecordFails, Rec
  <2>2. /\ r.at = "enter" /\ r.sect = "strike" /\ r.pr = proc[p].pr /\ r.branch = proc[p].branch
    BY <1>27 DEF Section, LeaseIInv, TypeOK, Procs
  <2>3. pool' = pool /\ merged' = merged
    BY <1>27 DEF RecordFails, gitVars
  <2> HIDE DEF r
  <2>4. Shaped(r)
    BY <1>27, <2>2, <2>3 DEF RecordFails, In, CommandShape, Shaped, Rec
  <2>5. Leasing(r) => Awaiting(p, r.task) \/ r.task \notin dispatched
    BY <1>27, <2>2, Own DEF RecordFails, In, Leasing, Awaiting, Rec
  <2>6. r.sect = "discard" /\ r.at \in {"enter", "work"} =>
           Overlapped(p) \/ r.branch = pool'.branch[r.slot]
    BY <1>27, <2>2, <2>3 DEF RecordFails, In, ResolvedAlone, Rec
  <2> QED BY <2>1, <2>3, <2>4, <2>5, <2>6, GotoAlike, MoveShape DEF LeaseIInv
<1>28. ASSUME NEW p \in Proc, Launch(p)
      PROVE  CommandShape' /\ ResolvedAlone' /\ AwaitsAnew
  <2>1. Alike(p, IdleProc) /\ \A q \in Proc \ {p} : Alike(q, proc[q])
    BY <1>28 DEF Launch, Alike, LeaseIInv, TypeOK, Procs
  <2>2. Shaped(IdleProc) /\ ~Leasing(IdleProc) /\ IdleProc.sect # "discard"
    BY DEF Shaped, Leasing, IdleProc
  <2> QED BY <1>28, <2>1, <2>2, MoveShape DEF Launch, gitVars, LeaseIInv
<1>29. ASSUME NEW p \in Proc, Close(p)
      PROVE  CommandShape' /\ ResolvedAlone' /\ AwaitsAnew
  <2> DEFINE r == [Section(proc[p], "prune") EXCEPT !.tab = FALSE]
  <2>1. (Goto(p, r) \/ Finish(p)) /\ pool' = pool /\ merged' = merged
    BY <1>29 DEF Close, AfterClose, Rec, gitVars
  <2>2. r.at = "enter" /\ r.sect = "prune" /\ r.pr = proc[p].pr /\ r.branch = proc[p].branch
    BY DEF Section, LeaseIInv, TypeOK, Procs
  <2> HIDE DEF r
  <2>3. Shaped(r) /\ ~Leasing(r)
    BY <2>2 DEF CommandShape, Shaped, Rec, Leasing
  <2>4. CASE Goto(p, r)
    BY <2>1, <2>2, <2>3, <2>4, GotoAlike, MoveShape DEF LeaseIInv
  <2>5. CASE Finish(p)
    BY <2>1, <2>5, FinishShape DEF LeaseIInv
  <2> QED BY <2>1, <2>4, <2>5
<1>30. ASSUME NEW p \in Proc, CloseFails(p)
      PROVE  CommandShape' /\ ResolvedAlone' /\ AwaitsAnew
  <2> DEFINE r == [Section(proc[p], "prune") EXCEPT !.tab = FALSE]
  <2>1. (Goto(p, r) \/ Finish(p)) /\ pool' = pool /\ merged' = merged
    BY <1>30 DEF CloseFails, AfterClose, Rec, gitVars
  <2>2. r.at = "enter" /\ r.sect = "prune" /\ r.pr = proc[p].pr /\ r.branch = proc[p].branch
    BY DEF Section, LeaseIInv, TypeOK, Procs
  <2> HIDE DEF r
  <2>3. Shaped(r) /\ ~Leasing(r)
    BY <2>2 DEF CommandShape, Shaped, Rec, Leasing
  <2>4. CASE Goto(p, r)
    BY <2>1, <2>2, <2>3, <2>4, GotoAlike, MoveShape DEF LeaseIInv
  <2>5. CASE Finish(p)
    BY <2>1, <2>5, FinishShape DEF LeaseIInv
  <2> QED BY <2>1, <2>4, <2>5
<1>32. ASSUME NEW t \in Task, Edit(t)
      PROVE  CommandShape' /\ ResolvedAlone' /\ AwaitsAnew
  <2>1. proc' = proc /\ pool' = pool /\ merged \subseteq merged'
    BY <1>32 DEF Edit, procVars
  <2> QED BY <2>1, RestShape DEF Alike, LeaseIInv
<1>33. ASSUME NEW t \in Task, Rebase(t)
      PROVE  CommandShape' /\ ResolvedAlone' /\ AwaitsAnew
  <2>1. proc' = proc /\ pool' = pool /\ merged \subseteq merged'
    BY <1>33 DEF Rebase, procVars
  <2> QED BY <2>1, RestShape DEF Alike, LeaseIInv
<1>34. ASSUME NEW t \in Task, Ship(t)
      PROVE  CommandShape' /\ ResolvedAlone' /\ AwaitsAnew
  <2>1. proc' = proc /\ pool' = pool /\ merged \subseteq merged'
    BY <1>34 DEF Ship, procVars
  <2> QED BY <2>1, RestShape DEF Alike, LeaseIInv
<1>35. ASSUME NEW t \in Task, NEW c \in Commit, CommitWork(t, c)
      PROVE  CommandShape' /\ ResolvedAlone' /\ AwaitsAnew
  <2>1. proc' = proc /\ pool' = pool /\ merged \subseteq merged'
    BY <1>35 DEF CommitWork, procVars
  <2> QED BY <2>1, RestShape DEF Alike, LeaseIInv
<1>36. ASSUME NEW t \in Task, NEW c \in Commit, MergePR(t, c)
      PROVE  CommandShape' /\ ResolvedAlone' /\ AwaitsAnew
  <2>1. proc' = proc /\ pool' = pool /\ merged \subseteq merged'
    BY <1>36 DEF MergePR, procVars
  <2> QED BY <2>1, RestShape DEF Alike, LeaseIInv
<1>37. ASSUME NEW t \in Task, Die(t)
      PROVE  CommandShape' /\ ResolvedAlone' /\ AwaitsAnew
  <2>1. \A q \in Proc : Alike(q, proc[q])
    BY <1>37 DEF Die, Alike, LeaseIInv, TypeOK, Procs
  <2> QED BY <1>37, <2>1, RestShape DEF Die, gitVars, LeaseIInv
<1> QED BY <1>0, <1>1, <1>2, <1>3, <1>4, <1>5, <1>6, <1>7, <1>8, <1>9, <1>10, <1>11, <1>12, <1>13, <1>14, <1>15, <1>16, <1>17, <1>18, <1>19, <1>20, <1>21, <1>22, <1>23, <1>24, <1>25, <1>26, <1>27, <1>28, <1>29, <1>30, <1>31, <1>32, <1>33, <1>34, <1>35, <1>36, <1>37
       DEF Next, Begin, Step, Locked, World

\* A branch left on a struck slot stays one nobody leases a camp for.
LEMMA StruckStep ==
  ASSUME LeaseIInv, StruckForGood, AwaitsAnew, [Next]_vars
  PROVE  StruckForGood'
<1>0. dispatched \subseteq dispatched'
  <2>1. ASSUME NEW p \in Proc, Begin(p)
        PROVE  dispatched \subseteq dispatched'
    BY <2>1 DEF Begin, Dispatch, Redispatch, BeginLand, BeginStrike
  <2>2. ASSUME NEW p \in Proc, Locked(p)
        PROVE  dispatched' = dispatched
    BY <2>2 DEF Locked, AcquireWork, AcquireFails, SaveAcquire, StrikeWork, StrikeDiscardWork,
                StrikeRefused, StrikeNotLeased, SaveStrike, DiscardWork, DiscardCut,
                DiscardRefused, SaveDiscard, Prune, RetireWork, RetireRefused
  <2>3. ASSUME NEW p \in Proc, Step(p), ~Locked(p)
        PROVE  dispatched' = dispatched
    BY <2>3 DEF Step, AskReused, Resolve, Merge, MergeRefused, Enter, Reset, Record, RecordFails,
                Launch, Close, CloseFails, Crash
  <2>4. ASSUME NEW t \in Task, World(t)
        PROVE  dispatched' = dispatched
    BY <2>4 DEF World, Edit, Rebase, Die, CommitWork, Ship, MergePR, procVars
  <2> QED BY <2>1, <2>2, <2>3, <2>4 DEF Next, vars, procVars
<1>1. dispatched \subseteq Task /\ None \notin Task /\ pool \in Pools
  BY DEF LeaseIInv, TypeOK
<1>2. CASE pool' = pool
  BY <1>0, <1>1, <1>2 DEF StruckForGood, AwaitsAnew
<1>3. ASSUME NEW p \in Proc, SaveAcquire(p)
      PROVE  StruckForGood'
  <2> DEFINE n == proc[p].slot
             t == proc[p].task
  <2>1. /\ n \in Slot /\ t \in Task /\ pool'.leasedBy = [pool.leasedBy EXCEPT ![n] = t]
        /\ pool'.branch = [pool.branch EXCEPT ![n] = t]
    BY <1>3, SaveAcquireGrants, SaveFrame DEF SaveAcquire, In, Rec
  <2>2. Awaiting(p, t)
    BY <1>3 DEF SaveAcquire, In, Awaiting, Rec
  <2>3. /\ \A s \in Slot : pool'.leasedBy[s] = IF s = n THEN t ELSE pool.leasedBy[s]
        /\ \A s \in Slot : pool'.branch[s] = IF s = n THEN t ELSE pool.branch[s]
    BY <1>1, <2>1 DEF Pools
  <2> QED BY <1>0, <1>1, <2>1, <2>2, <2>3 DEF StruckForGood, AwaitsAnew
<1>4. ASSUME NEW p \in Proc, SaveStrike(p)
      PROVE  StruckForGood'
  <2> DEFINE n == proc[p].slot
             t == proc[p].task
  <2>1. /\ n \in Slot /\ t \in Task /\ pool.leasedBy[n] = t
        /\ pool'.leasedBy = [pool.leasedBy EXCEPT ![n] = None]
    BY <1>4, SaveReturns
  <2>2. pool'.branch = pool.branch /\ proc[p].sect = "strike"
    BY <1>1, <1>4, SaveFrame DEF SaveStrike, In, Rec, Pools
  <2>3. \A q \in Proc : ~(proc[q].at = "save" /\ proc[q].sect = "discard")
    BY <1>4, <2>2, SaveFrame DEF SaveStrike, In, Rec
  <2>4. \A s \in Slot : pool'.leasedBy[s] = IF s = n THEN None ELSE pool.leasedBy[s]
    BY <1>1, <2>1 DEF Pools
  <2>5. /\ pool.branch[n] = t /\ t \in dispatched
        /\ \A x \in Slot : pool.leasedBy[x] = t => x = n
        /\ \A q \in Proc : ~Awaiting(q, t)
    BY <1>1, <2>1 DEF LeaseIInv, LeaseInv, HoldersDispatched, AwaitingOnce
  <2>6. \A q \in Proc, u \in Task : Awaiting(q, u)' => Awaiting(q, u) \/ u \notin dispatched
    BY <2>3 DEF AwaitsAnew
  <2> QED BY <1>0, <1>1, <2>1, <2>2, <2>4, <2>5, <2>6 DEF StruckForGood
<1>5. ASSUME NEW p \in Proc, SaveDiscard(p)
      PROVE  StruckForGood'
  <2> DEFINE n == proc[p].slot
             t == proc[p].task
  <2>1. /\ n \in Slot /\ t \in Task /\ pool.leasedBy[n] = t
        /\ pool'.leasedBy = [pool.leasedBy EXCEPT ![n] = None]
        /\ proc[p].view = pool
    BY <1>5, SaveReturns, SaveFrame DEF SaveDiscard, In
  <2>2. pool'.branch = [pool.branch EXCEPT ![n] = None]
    BY <1>1, <1>5, <2>1 DEF SaveDiscard, Rec, Pools
  <2>3. /\ \A s \in Slot : pool'.leasedBy[s] = IF s = n THEN None ELSE pool.leasedBy[s]
        /\ \A s \in Slot : pool'.branch[s] = IF s = n THEN None ELSE pool.branch[s]
    BY <1>1, <2>1, <2>2 DEF Pools
  <2> QED BY <1>0, <1>1, <2>1, <2>3 DEF StruckForGood, AwaitsAnew
<1> QED BY <1>2, <1>3, <1>4, <1>5, PoolFrame

-----------------------------------------------------------------------------
(* What the steps do to git.                                               *)

\* The steps that touch a worktree, a branch, the base or GitHub; the others leave all of
\* it as it is.
GitStep(p) == \/ Merge(p) \/ AcquireWork(p) \/ AcquireFails(p) \/ StrikeDiscardWork(p)
              \/ DiscardWork(p) \/ DiscardCut(p) \/ Prune(p) \/ RetireWork(p)

LEMMA GitFrame ==
  ASSUME [Next]_vars, ~ \E p \in Proc : GitStep(p), ~ \E t \in Task : World(t)
  PROVE  UNCHANGED <<gitVars, owed>>
<1>1. CASE UNCHANGED vars
  BY <1>1 DEF vars
<1>2. ASSUME NEW p \in Proc, Begin(p)
      PROVE  UNCHANGED <<gitVars, owed>>
  BY <1>2 DEF Begin, Dispatch, Redispatch, BeginLand, BeginStrike
<1>3. ASSUME NEW p \in Proc, Locked(p), ~GitStep(p)
      PROVE  UNCHANGED <<gitVars, owed>>
  BY <1>3 DEF Locked, GitStep, SaveAcquire, StrikeWork, StrikeRefused, StrikeNotLeased, SaveStrike,
              DiscardRefused, SaveDiscard, RetireRefused
<1>4. ASSUME NEW p \in Proc, Step(p), ~Locked(p), ~GitStep(p)
      PROVE  UNCHANGED <<gitVars, owed>>
  BY <1>4 DEF Step, GitStep, AskReused, Resolve, MergeRefused, Enter, Reset, Record, RecordFails,
              Launch, Close, CloseFails, Crash
<1> QED BY <1>1, <1>2, <1>3, <1>4 DEF Next

\* Merged pull requests stay merged, and only a squash merge adds one.
LEMMA MergedGrows ==
  ASSUME [Next]_vars
  PROVE  merged \subseteq merged'
<1>1. ASSUME NEW p \in Proc, GitStep(p)
      PROVE  merged' = merged
  BY <1>1 DEF GitStep, Merge, AcquireWork, AcquireFails, StrikeDiscardWork, DiscardWork, DiscardCut,
              Prune, RetireWork
<1>2. ASSUME NEW t \in Task, World(t)
      PROVE  merged \subseteq merged'
  BY <1>2 DEF World, Edit, Rebase, Die, CommitWork, Ship, MergePR, gitVars
<1> QED BY <1>1, <1>2, GitFrame DEF gitVars

\* The three steps that delete a branch, and what each has made sure of.
LEMMA Deletes ==
  ASSUME LeaseIInv, CommandShape, ResolvedAlone, WorkShape, [Next]_vars, NEW b \in refs \ refs'
  PROVE  \E p \in Proc :
           \/ /\ DiscardWork(p) /\ lock = p /\ proc[p].cmd = "redispatch" /\ b = proc[p].branch
              /\ CheckedOut(b) \subseteq {proc[p].slot}
              /\ b = proc[p].task \/ Overlapped(p)
           \/ /\ Prune(p) /\ pool.leasedBy[proc[p].slot] = None /\ pool.branch[proc[p].slot] = b
              /\ CheckedOut(b) \subseteq {proc[p].slot}
              /\ tip[b] \subseteq content \/ b \in merged
           \/ /\ RetireWork(p) /\ b = proc[p].task /\ CheckedOut(b) = {} /\ tip[b] \subseteq content
<1>1. ~ \E t \in Task : World(t)
  BY DEF World, Edit, Rebase, Die, CommitWork, Ship, MergePR, gitVars
<1>2. PICK p \in Proc : GitStep(p)
  BY <1>1, GitFrame DEF gitVars
<1>3. DiscardWork(p) \/ Prune(p) \/ RetireWork(p)
  BY <1>2 DEF GitStep, Merge, AcquireWork, AcquireFails, StrikeDiscardWork, DiscardCut
<1>4. base \subseteq content
  BY DEF WorkShape
<1>5. CASE DiscardWork(p)
  <2>1. lock = p /\ proc[p].view = pool /\ proc[p].sect = "discard" /\ proc[p].at = "work"
    BY <1>5 DEF DiscardWork, In, LeaseIInv, ViewCurrent, Rec
  <2>2. proc[p].cmd = "redispatch" /\ proc[p].slot \in Slot /\ proc[p].task \in Task
    BY <2>1, Own DEF CommandShape, Rec
  <2>3. b = proc[p].branch /\ CheckedOut(b) \subseteq {proc[p].slot}
    BY <1>5 DEF DiscardWork, Rec
  <2>4. pool.branch[proc[p].slot] = proc[p].task
    BY <1>5, <2>1, <2>2 DEF DiscardWork, Owner, Rec, LeaseIInv, LeaseInv, CampPoolAssumption
  <2>5. b = proc[p].task \/ Overlapped(p)
    BY <2>1, <2>3, <2>4 DEF ResolvedAlone, Rec
  <2> QED BY <1>5, <2>1, <2>2, <2>3, <2>5
<1>6. CASE Prune(p)
  <2>1. proc[p].view = pool
    BY <1>6 DEF Prune, In, LeaseIInv, ViewCurrent, Rec
  <2>2. /\ b = proc[p].branch /\ CheckedOut(b) \subseteq {proc[p].slot}
        /\ pool.leasedBy[proc[p].slot] = None /\ pool.branch[proc[p].slot] = b
        /\ Prunable(b, proc[p].slot, proc[p].pr)
    BY <1>6, <2>1 DEF Prune, DeleteBranch, Rec
  <2>3. tip[b] \subseteq content \/ b \in merged
    BY <1>4, <2>2 DEF Prunable, CommandShape, Rec
  <2> QED BY <1>6, <2>2, <2>3
<1>7. CASE RetireWork(p)
  BY <1>4, <1>7 DEF RetireWork, DeleteBranch, Rec
<1> QED BY <1>3, <1>5, <1>6, <1>7

\* A detached worktree is on no branch.
LEMMA Detached ==
  ASSUME NEW w \in Worktrees, NEW rev
  PROVE  DetachAt(w, rev).on = None
  BY DEF DetachAt, Worktrees

\* Every worktree stays on a branch that exists, and what lands in the base is owed no more.
LEMMA WorkShapeStep ==
  ASSUME LeaseIInv, TypeOK', WorkShape, [Next]_vars
  PROVE  WorkShape'
<1> DEFINE OnBranch == \A s \in Slot : wt[s].on # None => wt[s].made /\ wt[s].on \in refs
<1>0. TypeOK /\ OnBranch /\ base \subseteq content /\ owed \cap content = {}
  BY DEF LeaseIInv, WorkShape
<1>1. ASSUME NEW p \in Proc, Merge(p)
      PROVE  WorkShape'
  BY <1>0, <1>1 DEF Merge, WorkShape
<1>2. ASSUME NEW p \in Proc, AcquireWork(p)
      PROVE  WorkShape'
  <2>1. PICK s \in Slot : wt' = [wt EXCEPT ![s] = Checkout(s, proc[p].task)]
    BY <1>2 DEF AcquireWork, Rec
  <2>2. refs' = refs \cup {proc[p].task} /\ UNCHANGED <<base, content, owed>>
    BY <1>2 DEF AcquireWork, Rec
  <2> QED BY <1>0, <2>1, <2>2 DEF WorkShape, Checkout, TypeOK, Worktrees
<1>3. ASSUME NEW p \in Proc, AcquireFails(p)
      PROVE  WorkShape'
  <2>1. \A s \in Slot : wt'[s] = wt[s] \/ wt'[s].on = None
    BY <1>0, <1>3, Detached DEF AcquireFails, TypeOK
  <2> QED BY <1>0, <1>3, <2>1 DEF WorkShape, AcquireFails
<1>4. ASSUME NEW p \in Proc, Wipe(p)
      PROVE  \A s \in Slot : \/ wt'[s] = wt[s] /\ s # proc[p].slot
                             \/ wt'[s].on = None /\ s = proc[p].slot
  BY <1>0, <1>4 DEF Wipe, DetachAt, TypeOK, Worktrees, Rec
<1>5. ASSUME NEW p \in Proc, StrikeDiscardWork(p) \/ DiscardCut(p)
      PROVE  WorkShape'
  BY <1>0, <1>4, <1>5 DEF WorkShape, StrikeDiscardWork, DiscardCut
<1>6. ASSUME NEW p \in Proc, DiscardWork(p)
      PROVE  WorkShape'
  <2> DEFINE b == proc[p].branch
  <2>1. /\ CheckedOut(b) \subseteq {proc[p].slot} /\ refs' = refs \ {b} /\ owed' \subseteq owed
        /\ Wipe(p) /\ UNCHANGED <<base, content>>
    BY <1>6 DEF DiscardWork, Rec
  <2>2. \A s \in Slot \ {proc[p].slot} : wt[s].on = None \/ wt[s].on # b
    BY <1>0, <2>1 DEF CheckedOut
  <2> QED BY <1>0, <1>4, <2>1, <2>2 DEF WorkShape
<1>7. ASSUME NEW b \in Task, DeleteBranch(b, CheckedOut(b)), UNCHANGED <<base, content, owed>>
      PROVE  WorkShape'
  <2>1. \A s \in Slot : (wt'[s] = wt[s] /\ s \notin CheckedOut(b)) \/ wt'[s].on = None
    BY <1>0, <1>7, Detached DEF DeleteBranch, TypeOK
  <2> QED BY <1>0, <1>7, <2>1 DEF WorkShape, DeleteBranch, CheckedOut
<1>8. ASSUME NEW p \in Proc, Prune(p)
      PROVE  WorkShape'
  <2>1. CASE UNCHANGED <<refs, tip, wt>>
    BY <1>0, <1>8, <2>1 DEF Prune, WorkShape
  <2>2. CASE proc[p].branch \in refs /\ DeleteBranch(proc[p].branch, CheckedOut(proc[p].branch))
    BY <1>0, <1>7, <1>8, <2>2 DEF Prune, TypeOK
  <2> QED BY <1>8, <2>1, <2>2 DEF Prune, Rec
<1>9. ASSUME NEW p \in Proc, RetireWork(p)
      PROVE  WorkShape'
  <2> DEFINE b == proc[p].task
  <2>1. CASE UNCHANGED <<refs, tip, wt>>
    BY <1>0, <1>9, <2>1 DEF RetireWork, WorkShape
  <2>2. CASE b \in refs /\ CheckedOut(b) = {} /\ DeleteBranch(b, {})
    <3>1. DeleteBranch(b, CheckedOut(b)) /\ b \in Task
      BY <1>0, <2>2 DEF TypeOK
    <3> QED BY <1>7, <1>9, <3>1 DEF RetireWork
  <2> QED BY <1>9, <2>1, <2>2 DEF RetireWork, Rec
<1>10. ASSUME NEW t \in Task, World(t)
       PROVE  WorkShape'
  <2>1. CASE Edit(t)
    <3>1. soldier[t] \in Slot /\ wt' = [wt EXCEPT ![soldier[t]].dirty = TRUE]
      BY <1>0, <2>1 DEF Edit, TypeOK
    <3>2. \A s \in Slot : wt'[s].on = wt[s].on /\ wt'[s].made = wt[s].made
      BY <1>0, <3>1 DEF TypeOK, Worktrees
    <3> QED BY <1>0, <2>1, <3>2 DEF Edit, WorkShape
  <2>4. ASSUME NEW c \in Commit, CommitWork(t, c)
        PROVE  WorkShape'
    <3> DEFINE s == soldier[t]
    <3>1. s \in Slot /\ c \notin content /\ owed' \subseteq owed \cup {c}
      BY <1>0, <2>4 DEF CommitWork, TypeOK, Known
    <3>2. \/ wt' = [wt EXCEPT ![s].rev = @ \cup {c}, ![s].dirty = FALSE]
          \/ wt' = [wt EXCEPT ![s].dirty = FALSE]
      BY <2>4 DEF CommitWork
    <3>3. \A x \in Slot : wt'[x].on = wt[x].on /\ wt'[x].made = wt[x].made
      <4> HIDE DEF s
      <4> QED BY <1>0, <3>1, <3>2 DEF TypeOK, Worktrees
    <3> QED BY <1>0, <2>4, <3>1, <3>3 DEF CommitWork, WorkShape
  <2>2. CASE Rebase(t) \/ Die(t) \/ Ship(t)
    BY <1>0, <2>2 DEF Rebase, Die, Ship, WorkShape, gitVars
  <2>3. ASSUME NEW c \in Commit, MergePR(t, c)
        PROVE  WorkShape'
    BY <1>0, <2>3 DEF MergePR, WorkShape
  <2> QED BY <1>10, <2>1, <2>2, <2>3, <2>4 DEF World
<1>11. CASE UNCHANGED <<gitVars, owed>>
  BY <1>0, <1>11 DEF WorkShape, gitVars
<1> QED BY <1>1, <1>2, <1>3, <1>5, <1>6, <1>8, <1>9, <1>10, <1>11, GitFrame DEF GitStep

\* Commits stay on some branch if each branch stays with its commits, or is owed nothing.
LEMMA TipsKept ==
  ASSUME NoWorkLost, owed' \subseteq owed,
         \A b \in refs : \/ b \in refs' /\ tip[b] \subseteq tip'[b]
                         \/ tip[b] \cap owed' = {}
  PROVE  NoWorkLost'
  BY DEF NoWorkLost

\* Until a pull request is merged, every step keeps the commits that are owed.
LEMMA CommitsStep ==
  ASSUME LeaseIInv, TypeOK', CommandShape, ResolvedAlone, WorkShape, CommitsKept, [Next]_vars
  PROVE  CommitsKept'
<1> SUFFICES ASSUME merged' = {} PROVE NoWorkLost'
  BY DEF CommitsKept
<1>0. /\ TypeOK /\ merged = {} /\ NoWorkLost /\ base \subseteq content /\ owed \cap content = {}
      /\ \A s \in Slot : wt[s].on # None => wt[s].on \in refs
  BY MergedGrows DEF LeaseIInv, CommitsKept, WorkShape
<1>1. ASSUME NEW t \in Task, World(t)
      PROVE  NoWorkLost'
  <2>1. CASE Edit(t) \/ Die(t) \/ Ship(t)
    BY <1>0, <2>1 DEF Edit, Die, Ship, gitVars, NoWorkLost
  <2>2. CASE Rebase(t)
    <3>1. refs' = refs /\ owed' = owed /\ \A b \in Task : tip[b] \subseteq tip'[b]
      BY <1>0, <2>2 DEF Rebase, TypeOK
    <3> QED BY <1>0, <3>1, TipsKept DEF TypeOK
  <2>3. ASSUME NEW c \in Commit, CommitWork(t, c)
        PROVE  NoWorkLost'
    <3> DEFINE b == wt[soldier[t]].on
    <3>1. soldier[t] \in Slot /\ refs' = refs
      BY <1>0, <2>3 DEF CommitWork, TypeOK
    <3>2. CASE b = None
      BY <1>0, <2>3, <3>1, <3>2 DEF CommitWork, NoWorkLost
    <3>3. CASE b # None
      <4>1. /\ b \in refs /\ owed' = owed \cup {c}
            /\ \A x \in Task : tip'[x] = IF x = b THEN tip[x] \cup {c} ELSE tip[x]
        BY <1>0, <2>3, <3>1, <3>3 DEF CommitWork, TypeOK
      <4>2. refs \subseteq Task
        BY <1>0 DEF TypeOK
      <4>3. ASSUME NEW d \in owed' PROVE \E x \in refs' : d \in tip'[x]
        <5>1. CASE d = c
          BY <3>1, <4>1, <4>2, <5>1
        <5>2. CASE d \in owed
          <6>1. PICK x \in refs : d \in tip[x]
            BY <1>0, <5>2 DEF NoWorkLost
          <6> QED BY <3>1, <4>1, <4>2, <6>1
        <5> QED BY <4>1, <5>1, <5>2
      <4> QED BY <4>3 DEF NoWorkLost
    <3> QED BY <3>2, <3>3
  <2>4. ASSUME NEW c \in Commit, MergePR(t, c)
        PROVE  NoWorkLost'
    BY <2>4 DEF MergePR
  <2> QED BY <1>1, <2>1, <2>2, <2>3, <2>4 DEF World
<1>2. ASSUME NEW p \in Proc, DiscardWork(p)
      PROVE  NoWorkLost'
  <2> DEFINE b == proc[p].branch
  <2>1. /\ refs' = refs \ {b} /\ tip' = [tip EXCEPT ![b] = {}] /\ b \in Task
        /\ owed' \subseteq owed \ tip[b]
    BY <1>0, <1>2 DEF DiscardWork, Rec, TypeOK
  <2> QED BY <1>0, <2>1, TipsKept DEF TypeOK
<1>3. ASSUME NEW p \in Proc, Prune(p) \/ RetireWork(p)
      PROVE  NoWorkLost'
  <2>1. owed' = owed
    BY <1>3 DEF Prune, RetireWork
  <2>2. \A b \in refs : b \in refs' => tip'[b] = tip[b]
    BY <1>0, <1>3 DEF Prune, RetireWork, DeleteBranch, TypeOK
  <2>3. ASSUME NEW b \in refs \ refs' PROVE tip[b] \subseteq content
    <3>1. lock = p /\ proc[p].sect # "discard"
      BY <1>3 DEF Prune, RetireWork, In, LeaseIInv, ViewCurrent, Rec
    <3>2. \A q \in Proc : ~(DiscardWork(q) /\ lock = q)
      BY <3>1 DEF DiscardWork, In
    <3> QED BY <1>0, <3>2, Deletes
  <2> QED BY <1>0, <2>1, <2>2, <2>3, TipsKept
<1>4. ASSUME NEW p \in Proc, AcquireWork(p)
      PROVE  NoWorkLost'
  <2>1. /\ proc[p].task \notin refs /\ refs \subseteq refs' /\ owed' = owed
        /\ \A b \in refs : tip'[b] = tip[b]
    BY <1>0, <1>4 DEF AcquireWork, Rec, TypeOK
  <2> QED BY <1>0, <2>1, TipsKept
<1>5. ASSUME NEW p \in Proc, Merge(p) \/ AcquireFails(p) \/ StrikeDiscardWork(p) \/ DiscardCut(p)
      PROVE  NoWorkLost'
  <2>1. refs' = refs /\ tip' = tip /\ owed' \subseteq owed
    BY <1>5 DEF Merge, AcquireFails, StrikeDiscardWork, DiscardCut
  <2> QED BY <1>0, <2>1, TipsKept
<1>6. CASE UNCHANGED <<gitVars, owed>>
  BY <1>0, <1>6 DEF NoWorkLost, gitVars
<1> QED BY <1>1, <1>2, <1>3, <1>4, <1>5, <1>6, GitFrame DEF GitStep

-----------------------------------------------------------------------------

\* The invariant behind the work in the camps is inductive.
LEMMA WorkInductive == Spec => []WorkIInv
<1>1. Init => CommandShape /\ StruckForGood /\ ResolvedAlone /\ WorkShape /\ CommitsKept
  BY DEF Init, IdleProc, EmptyPool, CommandShape, StruckForGood, ResolvedAlone, WorkShape,
         CommitsKept, NoWorkLost, Rec
<1>2. /\ LeaseIInv /\ LeaseIInv'
      /\ CommandShape /\ StruckForGood /\ ResolvedAlone /\ WorkShape /\ CommitsKept
      /\ [Next]_vars
      => (CommandShape /\ StruckForGood /\ ResolvedAlone /\ WorkShape /\ CommitsKept)'
  <2> SUFFICES ASSUME LeaseIInv, LeaseIInv', CommandShape, StruckForGood, ResolvedAlone, WorkShape,
                      CommitsKept, [Next]_vars
               PROVE  (CommandShape /\ StruckForGood /\ ResolvedAlone /\ WorkShape /\ CommitsKept)'
    OBVIOUS
  <2>1. TypeOK'
    BY DEF LeaseIInv
  <2> QED BY <2>1, ShapeStep, StruckStep, WorkShapeStep, CommitsStep
<1>3. LeaseIInv /\ CommandShape /\ StruckForGood /\ ResolvedAlone /\ WorkShape /\ CommitsKept
      => WorkIInv
  BY DEF WorkIInv
<1> QED BY <1>1, <1>2, <1>3, Inductive, PTL DEF Spec

\* However the commands of any number of tasks interleave and wherever they die, a commit a
\* soldier made on a branch is in the base, thrown away by a discard that reports it, or
\* still on a branch: for as long as no branch is pruned on the word of a merged pull
\* request.
THEOREM CommitsSafe == Spec => []CommitsKept
<1>1. WorkIInv => CommitsKept
  BY DEF WorkIInv
<1> QED BY <1>1, WorkInductive, PTL

\* Where nothing ships, no pull request ever merges, and no commit is ever lost.
THEOREM NoCommitLost == ASSUME "ship" \notin Activity PROVE Spec => []NoWorkLost
<1> DEFINE Unmerged == merged = {}
<1>1. Init => Unmerged
  BY DEF Init
<1>2. Unmerged /\ [Next]_vars => Unmerged'
  <2> SUFFICES ASSUME merged = {}, [Next]_vars PROVE merged' = {}
    OBVIOUS
  <2>1. ASSUME NEW p \in Proc, GitStep(p)
        PROVE  merged' = merged
    BY <2>1 DEF GitStep, Merge, AcquireWork, AcquireFails, StrikeDiscardWork, DiscardWork,
                DiscardCut, Prune, RetireWork
  <2>2. ASSUME NEW t \in Task, World(t)
        PROVE  merged' = merged
    BY <2>2 DEF World, Edit, Rebase, Die, CommitWork, gitVars
  <2> QED BY <2>1, <2>2, GitFrame DEF gitVars
<1>3. CommitsKept /\ Unmerged => NoWorkLost
  BY DEF CommitsKept
<1> HIDE DEF Unmerged
<1> QED BY <1>1, <1>2, <1>3, CommitsSafe, PTL DEF Spec

\* Branches with commits the base lacks are deleted by a redispatch, which discards them,
\* or once their pull request is merged, and by no strike, prune or stale retirement else.
THEOREM UnshippedSafe == Spec => UnshippedKept
<1> DEFINE A == \A b \in refs \ refs' :
          \/ tip[b] \subseteq content
          \/ b \in merged
          \/ /\ lock # None /\ Rec(lock).cmd = "redispatch"
             /\ Rec(lock).task = b \/ (Rec(lock).branch = b /\ Overlapped(lock))
<1>1. WorkIInv /\ [Next]_vars => [A]_vars
  <2> SUFFICES ASSUME WorkIInv, [Next]_vars, NEW b \in refs \ refs'
               PROVE  \/ tip[b] \subseteq content
                      \/ b \in merged
                      \/ /\ lock # None /\ Rec(lock).cmd = "redispatch"
                         /\ Rec(lock).task = b \/ (Rec(lock).branch = b /\ Overlapped(lock))
    BY DEF A
  <2>1. None \notin Proc
    BY DEF CampPoolAssumption
  <2> QED BY <2>1, Deletes DEF WorkIInv, Rec
<1> QED BY <1>1, WorkInductive, PTL DEF Spec, UnshippedKept, A

\* Of a step of command p: a worktree it changes is of a slot its task leases, or nobody's.
LEMMA WorktreeOwn ==
  ASSUME LeaseIInv, [Next]_vars, NEW p \in Proc, GitStep(p), NEW s \in Slot,
         pool.leasedBy[s] \notin {None, proc[p].task}, ~Prune(p), ~RetireWork(p)
  PROVE  wt'[s] = wt[s]
<1>1. TypeOK
  BY DEF LeaseIInv
<1>2. proc[p].at = "work" => proc[p].view = pool
  BY DEF LeaseIInv, ViewCurrent, Rec
<1>3. CASE AcquireWork(p)
  <2>1. PICK x \in Slot : /\ x \in Usable(pool) \/ x = pool.n + 1
                          /\ wt' = [wt EXCEPT ![x] = Checkout(x, proc[p].task)]
    BY <1>2, <1>3 DEF AcquireWork, In, Rec
  <2>2. pool.leasedBy[x] = None
    BY <1>1, <2>1 DEF Usable, LeaseIInv, LeaseInv, TypeOK, Pools
  <2> QED BY <1>1, <2>1, <2>2 DEF TypeOK
<1>4. CASE AcquireFails(p)
  BY <1>2, <1>4 DEF AcquireFails, In, Rec, Usable
<1>5. CASE StrikeDiscardWork(p) \/ DiscardWork(p) \/ DiscardCut(p)
  <2>1. Wipe(p) /\ pool.leasedBy[proc[p].slot] = proc[p].task
    BY <1>2, <1>5 DEF StrikeDiscardWork, DiscardWork, DiscardCut, In, Rec, Owner
  <2> QED BY <1>1, <2>1 DEF Wipe, Rec, TypeOK
<1> QED BY <1>3, <1>4, <1>5 DEF GitStep, Merge

\* A command never dismantles the camp of another task: not its worktree, and its branch
\* only where a redispatch resolved it before another command moved that camp.
THEOREM ForeignCampSafe == Spec => ForeignCampUntouched
<1> DEFINE A == \A p \in DOMAIN proc, s \in Slot :
          LET owner == pool.leasedBy[s]
          IN proc'[p] # proc[p] /\ owner \notin {None, Rec(p).task, proc'[p].task} =>
             /\ wt'[s] = wt[s]
             /\ owner \in refs \ refs' =>
                   Rec(p).cmd = "redispatch" /\ Overlapped(p) /\ wt[s].on # owner
<1>1. WorkIInv /\ [Next]_vars => [A]_vars
  <2> SUFFICES ASSUME WorkIInv, [Next]_vars, NEW p \in Proc, NEW s \in Slot,
                      proc'[p] # proc[p],
                      pool.leasedBy[s] \notin {None, proc[p].task, proc'[p].task}
               PROVE  /\ wt'[s] = wt[s]
                      /\ pool.leasedBy[s] \in refs \ refs' =>
                            /\ proc[p].cmd = "redispatch" /\ Overlapped(p)
                            /\ wt[s].on # pool.leasedBy[s]
    BY DEF A, WorkIInv, LeaseIInv, TypeOK, Rec
  <2> DEFINE owner == pool.leasedBy[s]
  <2>0. LeaseIInv /\ TypeOK /\ WorkShape /\ StruckForGood /\ CommandShape /\ ResolvedAlone
    BY DEF WorkIInv, LeaseIInv
  <2>1. CASE ~ \E q \in Proc : GitStep(q)
    <3>1. CASE \E t \in Task : World(t)
      <4>1. CASE \E t \in Task : Die(t)
        BY <4>1 DEF Die, gitVars
      <4>2. CASE ~ \E t \in Task : Die(t)
        BY <3>1, <4>2 DEF World, Edit, Rebase, CommitWork, Ship, MergePR, procVars
      <4> QED BY <4>1, <4>2
    <3>2. CASE ~ \E t \in Task : World(t)
      BY <2>1, <3>2, GitFrame DEF gitVars
    <3> QED BY <3>1, <3>2
  <2>2. ASSUME NEW q \in Proc, GitStep(q)
        PROVE  /\ wt'[s] = wt[s]
               /\ owner \in refs \ refs' =>
                     proc[p].cmd = "redispatch" /\ Overlapped(p) /\ wt[s].on # owner
    <3>1. q = p
      <4>1. \E r : Goto(q, r)
        BY <2>2 DEF GitStep, Merge, AcquireWork, AcquireFails, StrikeDiscardWork, DiscardWork,
                    DiscardCut, Prune, RetireWork, GiveUp, Finish, Leave
      <4> QED BY <2>0, <4>1 DEF Goto, TypeOK
    <3>2. pool.leasedBy[s] \notin {None, proc[p].task}
      OBVIOUS
    <3>3. wt'[s] = wt[s]
      <4>1. CASE Prune(p)
        <5>1. proc[p].view = pool
          BY <2>0, <4>1 DEF Prune, In, LeaseIInv, ViewCurrent, Rec
        <5>2. \/ wt' = wt
              \/ /\ CheckedOut(proc[p].branch) \subseteq {proc[p].slot}
                 /\ pool.leasedBy[proc[p].slot] = None
                 /\ DeleteBranch(proc[p].branch, CheckedOut(proc[p].branch))
          BY <4>1, <5>1 DEF Prune, Rec
        <5> QED BY <3>2, <5>2 DEF DeleteBranch
      <4>2. CASE RetireWork(p)
        <5>1. wt' = wt \/ DeleteBranch(proc[p].task, {})
          BY <4>2 DEF RetireWork, Rec
        <5> QED BY <5>1 DEF DeleteBranch
      <4> QED BY <2>0, <2>2, <3>1, <3>2, <4>1, <4>2, WorktreeOwn
    <3>4. ASSUME owner \in refs \ refs'
          PROVE  proc[p].cmd = "redispatch" /\ Overlapped(p) /\ wt[s].on # owner
      <4>1. PICK c \in Proc :
              \/ /\ DiscardWork(c) /\ lock = c /\ proc[c].cmd = "redispatch"
                 /\ owner = proc[c].branch /\ CheckedOut(owner) \subseteq {proc[c].slot}
                 /\ owner = proc[c].task \/ Overlapped(c)
              \/ /\ Prune(c) /\ pool.leasedBy[proc[c].slot] = None
                 /\ pool.branch[proc[c].slot] = owner
              \/ /\ RetireWork(c) /\ owner = proc[c].task
        BY <2>0, <3>4, Deletes
      <4>2. c = p
        <5>1. \E r : Goto(c, r)
          BY <4>1 DEF DiscardWork, Prune, RetireWork, GiveUp, Finish, Leave
        <5> QED BY <2>0, <5>1 DEF Goto, TypeOK
      <4>3. ~RetireWork(p) \/ owner # proc[p].task
        BY <3>2
      <4>4. CASE Prune(p) /\ pool.leasedBy[proc[p].slot] = None
                 /\ pool.branch[proc[p].slot] = owner
        <5>1. proc[p].slot \in Slot
          BY <2>0, <4>4, Own DEF Prune, In, Rec
        <5> QED BY <2>0, <3>2, <4>4, <5>1 DEF StruckForGood
      <4>5. CASE /\ DiscardWork(p) /\ proc[p].cmd = "redispatch"
                 /\ CheckedOut(owner) \subseteq {proc[p].slot}
                 /\ owner = proc[p].task \/ Overlapped(p)
        <5>1. pool.leasedBy[proc[p].slot] = proc[p].task
          BY <2>0, <4>5 DEF DiscardWork, In, Owner, Rec, LeaseIInv, ViewCurrent
        <5>2. s # proc[p].slot
          BY <3>2, <5>1
        <5>3. wt[s].on # owner
          BY <2>0, <3>2, <4>5, <5>2 DEF WorkShape, CheckedOut
        <5> QED BY <3>2, <4>5, <5>3
      <4> QED BY <3>2, <4>1, <4>2, <4>4, <4>5
    <3> QED BY <3>3, <3>4
  <2> QED BY <2>1, <2>2
<1> QED BY <1>1, WorkInductive, PTL DEF Spec, ForeignCampUntouched, A
=============================================================================
