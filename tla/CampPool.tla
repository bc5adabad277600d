------------------------------ MODULE CampPool ------------------------------
(***************************************************************************)
(* The pool of camps of one project (internal/camp) and the vx commands    *)
(* that lease, land, strike, discard and prune them.  A camp is a git      *)
(* worktree in a numbered slot; pool.json says which task leases which     *)
(* slot, and every section that rewrites it runs under the flock           *)
(* pool.lock: take the lock and load (Enter), act on git, save (Save...).  *)
(* A command may die between any two of its steps.  A branch is named      *)
(* after its task ("vexillum/<task>"), so a branch is a task here; a       *)
(* revision is the set of commits reachable from it.                       *)
(***************************************************************************)
EXTENDS Naturals, FiniteSets

CONSTANTS Task,      \* task ids, and the names of their branches
          Commit,    \* commits anybody may make
          Proc,      \* vx commands running at the same time
          Activity,  \* what the general and the soldiers do: commands, editing, shipping
          MaxSlots,  \* bound: slots the pool may grow to
          None

ASSUME CampPoolAssumption ==
    /\ None \notin Task
    /\ None \notin Proc
    /\ Activity \subseteq {"dispatch", "redispatch", "strike", "discard", "land", "edit", "ship"}
    /\ MaxSlots \in Nat

Slot == 1..MaxSlots
NoSlot == 0

VARIABLES lock,        \* the process holding pool.lock, or None
          pool,        \* pool.json: the number of slots, who leases each, the branch each is on
          proc,        \* where each running command is
          slotOf,      \* the camp slot a task's record names (NoSlot: none)
          dispatched,  \* the tasks vx dispatch has created
          soldier,     \* the slot the live soldier of a task works in
          interrupted, \* the tasks recorded interrupted: their soldier is gone
          wt,          \* the worktree in each slot
          refs,        \* the task branches that exist
          tip,         \* the revision a branch points at
          base,        \* the branch the project checkout is on
          content,     \* the commits whose content the base has (squash merges too)
          prHead,      \* the head of a task's pull request ({}: none)
          merged,      \* the tasks whose pull request is merged, and the base pulled
          owed         \* history: the commits made on a branch that the base does not have
                       \* and no discard has reported as thrown away

procVars == <<lock, pool, proc, slotOf, dispatched>>
gitVars  == <<wt, refs, tip, base, content, prHead, merged>>
vars     == <<procVars, soldier, interrupted, gitVars, owed>>

Cmd  == {"none", "dispatch", "redispatch", "strike", "discard", "land", "undo"}
Sect == {"none", "acquire", "strike", "discard", "retire", "prune"}
At   == {"idle", "reused", "resolve", "merge", "enter", "work", "save",
         "reset", "record", "launch", "close"}

Pools == [n : 0..MaxSlots, leasedBy : [Slot -> Task \cup {None}],
          branch : [Slot -> Task \cup {None}]]
EmptyPool == [n |-> 0, leasedBy |-> [s \in Slot |-> None], branch |-> [s \in Slot |-> None]]

Procs == [at : At, cmd : Cmd, sect : Sect, task : Task \cup {None}, slot : 0..MaxSlots,
          branch : Task \cup {None}, pr : BOOLEAN,
          tab : BOOLEAN, view : Pools]
IdleProc == [at |-> "idle", cmd |-> "none", sect |-> "none", task |-> None,
             slot |-> NoSlot, branch |-> None, pr |-> FALSE, tab |-> FALSE, view |-> EmptyPool]

Worktrees == [made : BOOLEAN, on : Task \cup {None}, rev : SUBSET Commit, dirty : BOOLEAN]

Init ==
    /\ lock = None
    /\ pool = EmptyPool
    /\ proc = [p \in Proc |-> IdleProc]
    /\ slotOf = [t \in Task |-> NoSlot]
    /\ dispatched = {}
    /\ soldier = [t \in Task |-> NoSlot] /\ interrupted = {}
    /\ wt = [s \in Slot |-> [made |-> FALSE, on |-> None, rev |-> {}, dirty |-> FALSE]]
    /\ refs = {} /\ tip = [t \in Task |-> {}]
    /\ base = {} /\ content = {}
    /\ prHead = [t \in Task |-> {}] /\ merged = {}
    /\ owed = {}

-----------------------------------------------------------------------------
(* Reading pool.json and git.                                              *)

\* HEAD of the worktree in slot s.
Head(s) == IF wt[s].on = None THEN wt[s].rev ELSE tip[wt[s].on]

CheckedOut(b) == {s \in Slot : wt[s].made /\ wt[s].on = b}

\* A slot that is merely clean.
UsableLeased(v) == {s \in 1..v.n : wt[s].made /\ ~wt[s].dirty}
\* The slots Acquire may reuse: idle, and a worktree git can read and calls clean.
Usable(v) == {s \in 1..v.n : v.leasedBy[s] = None /\ wt[s].made /\ ~wt[s].dirty}

\* The slot of a task's record now belongs to somebody else.
SlotReused(v, s, t) ==
    /\ s \in 1..v.n
    /\ \/ v.leasedBy[s] \notin {None, t}
       \/ v.leasedBy[s] = None /\ v.branch[s] # t

\* revLanded: an ancestor of the base always proves it, a merged pull request or
\* the content check may prove it for a revision the base has the content of.
MayBeLanded(rev)  == rev \subseteq content
MayBeRefused(rev) == ~(rev \subseteq base)

-----------------------------------------------------------------------------
(* A command's way through its steps.                                      *)

Goto(p, r)   == proc' = [proc EXCEPT ![p] = r]
Finish(p)    == Goto(p, IdleProc)
Section(r, s) == [r EXCEPT !.at = "enter", !.sect = s]
Unlock       == lock' = None
\* The command returns from a locked section to step a, forgetting the pool it loaded.
Leave(p, a)  == Unlock /\ Goto(p, [proc[p] EXCEPT !.at = a, !.view = EmptyPool])
GiveUp(p)    == Unlock /\ Finish(p)

In(p, a, s) == proc[p].at = a /\ proc[p].sect = s
Rec(p) == proc[p]

Command(t, c) == [IdleProc EXCEPT !.cmd = c, !.task = t, !.slot = slotOf[t],
                              !.tab = c \in {"strike", "discard", "land"} /\ soldier[t] # NoSlot]

\* vx dispatch of a new task: camp.Acquire first, then the record.
Dispatch(p, t) ==
    /\ Rec(p).at = "idle" /\ t \notin dispatched
    /\ dispatched' = dispatched \cup {t}
    /\ Goto(p, Section(Command(t, "dispatch"), "acquire"))
    /\ UNCHANGED <<lock, pool, slotOf, soldier, interrupted, gitVars, owed>>

\* vx redispatch of a task recorded as interrupted.
Redispatch(p, t) ==
    /\ Rec(p).at = "idle" /\ t \in interrupted /\ slotOf[t] # NoSlot
    /\ Goto(p, [Command(t, "redispatch") EXCEPT !.at = "resolve", !.sect = "discard"])
    /\ UNCHANGED <<lock, pool, slotOf, dispatched, soldier, interrupted, gitVars, owed>>

\* vx strike, with or without --discard, of a task that has a camp on record.
BeginStrike(p, t, c) ==
    /\ Rec(p).at = "idle" /\ slotOf[t] # NoSlot /\ c \in {"strike", "discard"}
    /\ Goto(p, [Command(t, c) EXCEPT !.at = "reused"])
    /\ UNCHANGED <<lock, pool, slotOf, dispatched, soldier, interrupted, gitVars, owed>>

\* vx land of a mission that is not shipped.
BeginLand(p, t) ==
    /\ Rec(p).at = "idle" /\ slotOf[t] # NoSlot
    /\ Goto(p, [Command(t, "land") EXCEPT !.at = "resolve", !.sect = "strike"])
    /\ UNCHANGED <<lock, pool, slotOf, dispatched, soldier, interrupted, gitVars, owed>>

\* runStrike asks, without the lock, whether the slot is still the task's.
AskReused(p) ==
    /\ Rec(p).at = "reused"
    /\ Goto(p, IF SlotReused(pool, Rec(p).slot, Rec(p).task)
               THEN [Section(Rec(p), "retire") EXCEPT !.branch = Rec(p).task]
               ELSE [Rec(p) EXCEPT !.at = "resolve", !.sect = "strike"])
    /\ UNCHANGED <<lock, pool, slotOf, dispatched, soldier, interrupted, gitVars, owed>>

\* camp.Resolve: the branch the pool records for the slot, whoever holds it; strike then
\* asks GitHub whether the pull request of that branch merged.
Resolve(p) ==
    /\ Rec(p).at = "resolve"
    /\ LET b == pool.branch[Rec(p).slot]
           r == [Rec(p) EXCEPT !.branch = b,
                               !.pr = Rec(p).cmd \in {"strike", "discard"}
                                      /\ prHead[Rec(p).task] # {} /\ b \in merged]
       IN Goto(p, IF r.cmd = "land" THEN [r EXCEPT !.at = "merge"] ELSE Section(r, r.sect))
    /\ UNCHANGED <<lock, pool, slotOf, dispatched, soldier, interrupted, gitVars, owed>>

\* camp.Land without the pool lock: a fast-forward of the project checkout.
Landable(b) == b \in refs /\ ~(tip[b] \subseteq base) /\ base \subseteq tip[b]
Merge(p) ==
    /\ Rec(p).at = "merge" /\ Landable(Rec(p).branch)
    /\ base' = tip[Rec(p).branch]
    /\ content' = content \cup tip[Rec(p).branch]
    /\ owed' = owed \ content'
    /\ Goto(p, [Section(Rec(p), "strike") EXCEPT !.branch = None])
    /\ UNCHANGED <<lock, pool, slotOf, dispatched, soldier, interrupted, wt, refs, tip, prHead, merged>>

\* Nothing ahead, not a fast-forward, or a dirty project checkout.
MergeRefused(p) ==
    /\ Rec(p).at = "merge"
    /\ Finish(p)
    /\ UNCHANGED <<lock, pool, slotOf, dispatched, soldier, interrupted, gitVars, owed>>

-----------------------------------------------------------------------------
(* The sections under pool.lock.                                           *)

\* Without the lock.
EnterUnlocked(p) ==
    /\ Rec(p).at = "enter"
    /\ lock' = p
    /\ Goto(p, [Rec(p) EXCEPT !.at = "work", !.view = pool])
    /\ UNCHANGED <<pool, slotOf, dispatched, soldier, interrupted, gitVars, owed>>
\* lockPool and loadPool.
Enter(p) ==
    /\ Rec(p).at = "enter" /\ lock = None
    /\ lock' = p
    /\ Goto(p, [Rec(p) EXCEPT !.at = "work", !.view = pool])
    /\ UNCHANGED <<pool, slotOf, dispatched, soldier, interrupted, gitVars, owed>>

Checkout(s, b) == [wt[s] EXCEPT !.made = TRUE, !.on = b, !.rev = {}, !.dirty = FALSE]
DetachAt(w, rev) == [w EXCEPT !.on = None, !.rev = rev]

\* Acquire reuses the first usable slot, or adds a worktree: branch t starts at the base.
AcquireWork(p) ==
    /\ In(p, "work", "acquire") /\ Rec(p).task \notin refs
    /\ \E s \in Slot :
          LET t == Rec(p).task
              v == Rec(p).view
          IN
          /\ \/ s \in Usable(v) /\ \A x \in Usable(v) : s <= x
             \/ Usable(v) = {} /\ s = v.n + 1 /\ ~wt[s].made
          /\ wt' = [wt EXCEPT ![s] = Checkout(s, t)]
          /\ refs' = refs \cup {t}
          /\ tip' = [tip EXCEPT ![t] = base]
          /\ Goto(p, [Rec(p) EXCEPT !.at = "save", !.slot = s])
    /\ UNCHANGED <<lock, pool, slotOf, dispatched, soldier, interrupted, base, content, prHead,
                   merged, owed>>

\* The branch exists already, so every clean idle slot is detached in vain, or
\* git worktree add fails (its path is taken, or for a reason of its own).
AcquireFails(p) ==
    /\ In(p, "work", "acquire")
    /\ LET v == Rec(p).view
       IN /\ Rec(p).task \in refs \/ Usable(v) = {}
          /\ wt' = [s \in Slot |-> IF s \in Usable(v) THEN DetachAt(wt[s], base) ELSE wt[s]]
    /\ GiveUp(p)
    /\ UNCHANGED <<pool, slotOf, dispatched, soldier, interrupted, refs, tip, base, content, prHead,
                   merged, owed>>

SaveAcquire(p) ==
    /\ In(p, "save", "acquire")
    /\ LET r == Rec(p)
       IN pool' = [n |-> IF r.slot > r.view.n THEN r.slot ELSE r.view.n,
                   leasedBy |-> [r.view.leasedBy EXCEPT ![r.slot] = r.task],
                   branch |-> [r.view.branch EXCEPT ![r.slot] = r.task]]
    /\ Leave(p, "record")
    /\ UNCHANGED <<slotOf, dispatched, soldier, interrupted, gitVars, owed>>

\* The caller's word for it, and the check the sections make.
OwnerTrusted(p) == Rec(p).task
Owner(p) == Rec(p).view.leasedBy[Rec(p).slot]

\* Reset, clean, and detach from the task's branch.
Wipe(p) == wt' = [wt EXCEPT ![Rec(p).slot] = [DetachAt(@, base) EXCEPT !.dirty = FALSE]]

\* StrikeWith without --discard: the slot is the task's, clean and landed.
StrikeWork(p) ==
    /\ In(p, "work", "strike") /\ Rec(p).cmd # "discard"
    /\ Owner(p) = Rec(p).task
    /\ ~wt[Rec(p).slot].dirty /\ MayBeLanded(Head(Rec(p).slot))
    /\ Goto(p, [Rec(p) EXCEPT !.at = "save"])
    /\ UNCHANGED <<lock, pool, slotOf, dispatched, soldier, interrupted, gitVars, owed>>

\* StrikeWith --discard: report what is thrown away, reset, detach from the branch.
StrikeDiscardWork(p) ==
    /\ In(p, "work", "strike") /\ Rec(p).cmd = "discard"
    /\ Owner(p) = Rec(p).task
    /\ owed' = owed \ Head(Rec(p).slot)
    /\ Wipe(p)
    /\ Goto(p, [Rec(p) EXCEPT !.at = "save"])
    /\ UNCHANGED <<lock, pool, slotOf, dispatched, soldier, interrupted, refs, tip, base, content,
                   prHead, merged>>

StrikeRefused(p) ==
    /\ In(p, "work", "strike")
    /\ \/ Owner(p) \notin {None, Rec(p).task}
       \/ /\ Owner(p) = Rec(p).task /\ Rec(p).cmd # "discard"
          /\ wt[Rec(p).slot].dirty \/ MayBeRefused(Head(Rec(p).slot))
    /\ GiveUp(p)
    /\ UNCHANGED <<pool, slotOf, dispatched, soldier, interrupted, gitVars, owed>>

\* ErrNotLeased: released by an earlier strike, carry on to the pane.
StrikeNotLeased(p) ==
    /\ In(p, "work", "strike") /\ Owner(p) = None
    /\ IF Rec(p).cmd = "undo" THEN GiveUp(p) ELSE Leave(p, "close")
    /\ UNCHANGED <<pool, slotOf, dispatched, soldier, interrupted, gitVars, owed>>

\* A strike leaves the branch in the slot's entry.
SaveStrike(p) ==
    /\ In(p, "save", "strike")
    /\ pool' = [Rec(p).view EXCEPT !.leasedBy[Rec(p).slot] = None]
    /\ IF Rec(p).cmd = "undo" THEN GiveUp(p) ELSE Leave(p, "close")
    /\ UNCHANGED <<slotOf, dispatched, soldier, interrupted, gitVars, owed>>

\* camp.Discard: reset, clean, detach, delete the branch the pool named, whatever it holds.
DiscardWork(p) ==
    /\ In(p, "work", "discard") /\ Owner(p) = Rec(p).task
    /\ LET b == Rec(p).branch
       IN /\ b \in refs /\ CheckedOut(b) \subseteq {Rec(p).slot}
          /\ owed' = owed \ (tip[b] \cup Head(Rec(p).slot))
          /\ refs' = refs \ {b}
          /\ tip' = [tip EXCEPT ![b] = {}]
    /\ Wipe(p)
    /\ Goto(p, [Rec(p) EXCEPT !.at = "save"])
    /\ UNCHANGED <<lock, pool, slotOf, dispatched, soldier, interrupted, base, content, prHead,
                   merged>>

\* git branch -D fails, or the command dies before it: the slot stays leased.
DiscardCut(p) ==
    /\ In(p, "work", "discard") /\ Owner(p) = Rec(p).task
    /\ owed' = owed \ Head(Rec(p).slot)
    /\ Wipe(p)
    /\ GiveUp(p)
    /\ UNCHANGED <<pool, slotOf, dispatched, soldier, interrupted, refs, tip, base, content, prHead, merged>>

DiscardRefused(p) ==
    /\ In(p, "work", "discard") /\ Owner(p) # Rec(p).task
    /\ GiveUp(p)
    /\ UNCHANGED <<pool, slotOf, dispatched, soldier, interrupted, gitVars, owed>>

\* The lease is kept for the camp acquired next.
SaveDiscardLeased(p) ==
    /\ In(p, "save", "discard")
    /\ pool' = [Rec(p).view EXCEPT !.branch[Rec(p).slot] = None]
    /\ Leave(p, "reset")
    /\ UNCHANGED <<slotOf, dispatched, soldier, interrupted, gitVars, owed>>
\* The tab redispatch closes is the dead soldier's: nothing is left to close.
SaveDiscard(p) ==
    /\ In(p, "save", "discard")
    /\ pool' = [Rec(p).view EXCEPT !.leasedBy[Rec(p).slot] = None,
                                   !.branch[Rec(p).slot] = None]
    /\ Leave(p, "reset")
    /\ UNCHANGED <<slotOf, dispatched, soldier, interrupted, gitVars, owed>>

\* Delete branch b, which HEAD of any worktree in S detaches from at the same commit.
DeleteBranch(b, S) ==
    /\ refs' = refs \ {b}
    /\ tip' = [tip EXCEPT ![b] = {}]
    /\ wt' = [s \in Slot |-> IF s \in S THEN DetachAt(wt[s], tip[b]) ELSE wt[s]]

\* Landed is what the worktree's HEAD says, whatever the branch holds.
PrunableByHead(b, s, pr) == Head(s) \subseteq base
\* What lets Prune delete the branch of slot s: an ancestor of the base, or a merged
\* pull request that the HEAD of the camp's worktree was part of.
Prunable(b, s, pr) ==
    \/ tip[b] \subseteq base
    \/ pr /\ Head(s) \subseteq prHead[b]

Prune(p) ==
    /\ In(p, "work", "prune")
    /\ LET r == Rec(p)
           b == r.branch
       IN \/ /\ r.view.leasedBy[r.slot] = None /\ r.view.branch[r.slot] = b
             /\ b \in refs /\ CheckedOut(b) \subseteq {r.slot}
             /\ Prunable(b, r.slot, r.pr)
             /\ DeleteBranch(b, CheckedOut(b))
          \/ UNCHANGED <<refs, tip, wt>>
    /\ GiveUp(p)
    /\ UNCHANGED <<pool, slotOf, dispatched, soldier, interrupted, base, content, prHead, merged,
                   owed>>

\* RetireStale: the slot is another task's, so only the stale task's own branch is
\* dealt with.  A branch that is gone passes; git refuses to delete one checked out.
RetireWork(p) ==
    /\ In(p, "work", "retire")
    /\ SlotReused(Rec(p).view, Rec(p).slot, Rec(p).task)
    /\ LET t == Rec(p).task
       IN /\ t \in refs /\ Rec(p).cmd # "discard" => MayBeLanded(tip[t])
          /\ IF t \in refs /\ tip[t] \subseteq base /\ CheckedOut(t) = {}
             THEN DeleteBranch(t, {})
             ELSE UNCHANGED <<refs, tip, wt>>
    /\ Leave(p, "close")
    /\ UNCHANGED <<pool, slotOf, dispatched, soldier, interrupted, base, content, prHead, merged,
                   owed>>

RetireRefused(p) ==
    /\ In(p, "work", "retire")
    /\ LET t == Rec(p).task
       IN \/ ~SlotReused(Rec(p).view, Rec(p).slot, t)
          \/ t \in refs /\ Rec(p).cmd # "discard" /\ MayBeRefused(tip[t])
    /\ GiveUp(p)
    /\ UNCHANGED <<pool, slotOf, dispatched, soldier, interrupted, gitVars, owed>>

-----------------------------------------------------------------------------
(* The steps after a section.                                              *)

\* updateRedispatchReset: the record forgets the old camp before a new one is acquired.
Reset(p) ==
    /\ Rec(p).at = "reset"
    /\ slotOf' = [slotOf EXCEPT ![Rec(p).task] = NoSlot]
    /\ interrupted' = interrupted \ {Rec(p).task}
    /\ Goto(p, [Section(Rec(p), "acquire") EXCEPT !.slot = NoSlot, !.branch = None])
    /\ UNCHANGED <<lock, pool, dispatched, soldier, gitVars, owed>>

\* acquireAndRunInHerdr saves the camp on the record.
Record(p) ==
    /\ Rec(p).at = "record"
    /\ slotOf' = [slotOf EXCEPT ![Rec(p).task] = Rec(p).slot]
    /\ Goto(p, [Rec(p) EXCEPT !.at = "launch"])
    /\ UNCHANGED <<lock, pool, dispatched, soldier, interrupted, gitVars, owed>>

\* That save failed: the slot just leased is struck again.
RecordFails(p) ==
    /\ Rec(p).at = "record"
    /\ Goto(p, [Section(Rec(p), "strike") EXCEPT !.cmd = "undo"])
    /\ UNCHANGED <<lock, pool, slotOf, dispatched, soldier, interrupted, gitVars, owed>>

\* soldier.RunInHerdr opens a new tab in the camp, which no command running now names.
Launch(p) ==
    /\ Rec(p).at = "launch"
    /\ soldier' = [soldier EXCEPT ![Rec(p).task] = Rec(p).slot]
    /\ interrupted' = interrupted \ {Rec(p).task}
    /\ proc' = [q \in Proc |-> IF q = p THEN IdleProc
                               ELSE [proc[q] EXCEPT !.tab = @ /\ proc[q].task # Rec(p).task]]
    /\ UNCHANGED <<lock, pool, slotOf, dispatched, gitVars, owed>>

AfterClose(p) ==
    IF Rec(p).sect = "strike" /\ Rec(p).cmd \in {"strike", "discard"}
    THEN Goto(p, [Section(Rec(p), "prune") EXCEPT !.tab = FALSE])
    ELSE Finish(p)

\* TabClose of the tab the loaded record names, then the record: closeStruckTask closes an
\* interrupted task, recordLanded a landed one, and a task that was running when it was
\* struck turns interrupted once its pane is found gone.
Close(p) ==
    /\ Rec(p).at = "close"
    /\ LET t == Rec(p).task
       IN /\ soldier' = [soldier EXCEPT ![t] = IF Rec(p).tab THEN NoSlot ELSE @]
          /\ interrupted' = IF Rec(p).tab /\ Rec(p).cmd # "land"
                            THEN interrupted \cup {t} ELSE interrupted \ {t}
    /\ AfterClose(p)
    /\ UNCHANGED <<lock, pool, slotOf, dispatched, gitVars, owed>>

\* herdr could not close it (PaneCloseError): the strike stands and the pane stays.
CloseFails(p) ==
    /\ Rec(p).at = "close"
    /\ interrupted' = interrupted \ {Rec(p).task}
    /\ AfterClose(p)
    /\ UNCHANGED <<lock, pool, slotOf, dispatched, soldier, gitVars, owed>>

\* The command dies, or a save fails: flock lets go, whatever git did stays.
Crash(p) ==
    /\ Rec(p).at # "idle"
    /\ lock' = IF lock = p THEN None ELSE lock
    /\ Finish(p)
    /\ UNCHANGED <<pool, slotOf, dispatched, soldier, interrupted, gitVars, owed>>

-----------------------------------------------------------------------------
(* Soldiers, and what happens on GitHub.                                   *)

Edit(t) ==
    /\ soldier[t] # NoSlot /\ ~wt[soldier[t]].dirty
    /\ wt' = [wt EXCEPT ![soldier[t]].dirty = TRUE]
    /\ UNCHANGED <<procVars, soldier, interrupted, refs, tip, base, content, prHead, merged, owed>>

\* A commit nothing refers to any more stands for a new one.
Known == content \cup base \cup owed \cup (UNION {tip[t] \cup prHead[t] : t \in Task})
                 \cup (UNION {wt[s].rev : s \in Slot})

\* A commit lands on whatever the worktree is on.
CommitWork(t, c) ==
    /\ soldier[t] # NoSlot /\ c \notin Known
    /\ LET s == soldier[t]
           b == wt[s].on
       IN IF b = None
          THEN /\ wt' = [wt EXCEPT ![s].rev = @ \cup {c}, ![s].dirty = FALSE]
               /\ UNCHANGED <<tip, owed>>
          ELSE /\ wt' = [wt EXCEPT ![s].dirty = FALSE]
               /\ tip' = [tip EXCEPT ![b] = @ \cup {c}]
               /\ owed' = owed \cup {c}
    /\ UNCHANGED <<procVars, soldier, interrupted, refs, base, content, prHead, merged>>

\* The soldier rebases its branch, which makes it a fast-forward of the base again.
Rebase(t) ==
    /\ soldier[t] # NoSlot /\ ~wt[soldier[t]].dirty /\ wt[soldier[t]].on # None
    /\ tip' = [tip EXCEPT ![wt[soldier[t]].on] = @ \cup base]
    /\ UNCHANGED <<procVars, soldier, interrupted, wt, refs, base, content, prHead, merged, owed>>

\* The soldier's pane is gone, and the sentinel has recorded its task as interrupted.
Die(t) ==
    /\ soldier[t] # NoSlot
    /\ soldier' = [soldier EXCEPT ![t] = NoSlot]
    /\ interrupted' = interrupted \cup {t}
    /\ proc' = [q \in Proc |-> [proc[q] EXCEPT !.tab = @ /\ proc[q].task # t]]
    /\ UNCHANGED <<lock, pool, slotOf, dispatched, gitVars, owed>>

\* vx ship pushes the branch and opens its pull request.
Ship(t) ==
    /\ t \in refs \ merged /\ ~(tip[t] \subseteq base)
    /\ prHead' = [prHead EXCEPT ![t] = tip[t]]
    /\ UNCHANGED <<procVars, soldier, interrupted, wt, refs, tip, base, content, merged, owed>>

\* The pull request is squash-merged as commit c and the general pulls the base.
MergePR(t, c) ==
    /\ prHead[t] # {} /\ t \notin merged /\ c \notin Known
    /\ base' = base \cup {c}
    /\ content' = content \cup prHead[t] \cup {c}
    /\ merged' = merged \cup {t}
    /\ owed' = owed \ content'
    /\ UNCHANGED <<procVars, soldier, interrupted, wt, refs, tip, prHead>>

-----------------------------------------------------------------------------

Locked(p) == \/ AcquireWork(p) \/ AcquireFails(p) \/ SaveAcquire(p)
               \/ StrikeWork(p) \/ StrikeDiscardWork(p) \/ StrikeRefused(p)
               \/ StrikeNotLeased(p) \/ SaveStrike(p)
               \/ DiscardWork(p) \/ DiscardCut(p) \/ DiscardRefused(p) \/ SaveDiscard(p)
               \/ Prune(p) \/ RetireWork(p) \/ RetireRefused(p)

Begin(p) == \E t \in Task : \/ "dispatch" \in Activity /\ Dispatch(p, t)
                            \/ "redispatch" \in Activity /\ Redispatch(p, t)
                            \/ "land" \in Activity /\ BeginLand(p, t)
                            \/ \E c \in {"strike", "discard"} \cap Activity : BeginStrike(p, t, c)

Step(p) == \/ AskReused(p) \/ Resolve(p) \/ Merge(p) \/ MergeRefused(p) \/ Enter(p)
           \/ Locked(p)
           \/ Reset(p) \/ Record(p) \/ RecordFails(p) \/ Launch(p) \/ Close(p)
           \/ CloseFails(p) \/ Crash(p)

World(t) == \/ "edit" \in Activity /\ Edit(t)
            \/ Rebase(t) \/ Die(t)
            \/ \E c \in Commit : CommitWork(t, c)
            \/ "ship" \in Activity /\ (Ship(t) \/ \E c \in Commit : MergePR(t, c))

Next == \/ \E p \in Proc : Begin(p) \/ Step(p)
        \/ \E t \in Task : World(t)

Spec == Init /\ [][Next]_vars

-----------------------------------------------------------------------------
(* Properties.                                                             *)

TypeOK ==
    /\ lock \in Proc \cup {None}
    /\ pool \in Pools
    /\ proc \in [Proc -> Procs]
    /\ slotOf \in [Task -> 0..MaxSlots]
    /\ dispatched \subseteq Task
    /\ soldier \in [Task -> 0..MaxSlots]
    /\ interrupted \subseteq Task
    /\ wt \in [Slot -> Worktrees]
    /\ refs \subseteq Task
    /\ tip \in [Task -> SUBSET Commit]
    /\ base \subseteq Commit /\ content \subseteq Commit
    /\ prHead \in [Task -> SUBSET Commit] /\ merged \subseteq Task
    /\ owed \subseteq Commit

\* A running command is for a task, it resolves a camp on its way to a strike or a
\* discard only, and unless it is about to Acquire one it names a slot.
CommandsNamed ==
    \A p \in Proc : Rec(p).at # "idle" =>
        /\ Rec(p).task \in Task
        /\ Rec(p).at = "resolve" => Rec(p).sect # "acquire"
        /\ ~(Rec(p).sect = "acquire" /\ Rec(p).at \in {"enter", "work"}) => Rec(p).slot \in Slot

\* A task leases at most one slot, and a leased slot is one the pool counts, recorded
\* on the branch of the task that leases it: what Acquire, Strike and Discard rely on
\* when they rewrite pool.json, however the commands interleave and wherever they die.
LeaseInv ==
    \A s \in Slot : pool.leasedBy[s] # None =>
        /\ s <= pool.n
        /\ pool.branch[s] = pool.leasedBy[s]
        /\ \A x \in Slot : pool.leasedBy[x] = pool.leasedBy[s] => x = s

(* Why LeaseInv holds.                                                     *)

\* p is on its way to lease a camp for t.
Awaiting(p, t) ==
    /\ Rec(p).task = t
    /\ \/ Rec(p).at = "reset"
       \/ Rec(p).sect = "acquire" /\ Rec(p).at \in {"enter", "work", "save"}

\* Only the holder of the lock is inside a section, and the pool it loaded is the pool.
ViewCurrent == \A p \in Proc : Rec(p).at \in {"work", "save"} => lock = p /\ Rec(p).view = pool

\* What a section checked of its slot still holds when it saves.
SaveChecked ==
    \A p \in Proc : Rec(p).at = "save" =>
        /\ Rec(p).sect \in {"acquire", "strike", "discard"}
        /\ Rec(p).sect = "acquire" => pool.leasedBy[Rec(p).slot] = None
        /\ Rec(p).sect # "acquire" => pool.leasedBy[Rec(p).slot] = Rec(p).task

\* At most one command is about to lease a camp for a task, and the task has none yet.
AwaitingOnce ==
    \A p \in Proc, t \in Task : Awaiting(p, t) =>
        /\ t \in dispatched
        /\ \A s \in Slot : pool.leasedBy[s] # t
        /\ \A q \in Proc : Awaiting(q, t) => q = p

HoldersDispatched == \A s \in Slot : pool.leasedBy[s] \in dispatched \cup {None}

LeaseIInv == /\ TypeOK /\ CommandsNamed /\ LeaseInv
             /\ ViewCurrent /\ SaveChecked /\ AwaitingOnce /\ HoldersDispatched

\* No commit a soldier made on a branch is lost: the base has its content, a discard
\* threw it away, or some branch still holds it.
NoWorkLost == owed \subseteq UNION {tip[t] : t \in refs}

\* NoWorkLost, for as long as no pull request is merged: a prune on the word of a merged
\* one deletes what was committed to its branch after the merge too (see UnshippedKept).
CommitsKept == merged = {} => NoWorkLost

\* Another command may be running beside p.
Overlapped(p) == \E q \in DOMAIN proc : q # p

\* A branch with commits the base lacks is only deleted by a redispatch, which discards
\* it, or once its own pull request is merged: no strike, prune or stale retirement else.
\* (Where commands overlap it is the branch the redispatch resolved: a second redispatch
\* of the same task may have leased the slot meanwhile, and Discard tests only the lease.)
UnshippedKept ==
    [][\A b \in refs \ refs' :
          \/ tip[b] \subseteq content
          \/ b \in merged
          \/ /\ lock # None /\ Rec(lock).cmd = "redispatch"
             /\ Rec(lock).task = b \/ (Rec(lock).branch = b /\ Overlapped(lock))]_vars

\* A command never dismantles the camp of another task: it changes neither the worktree
\* of a slot leased to another task nor deletes the branch such a slot was leased on.
\* (Where commands overlap, the branch a redispatch resolved may have become the branch of
\* a camp elsewhere; git then spares it for as long as that camp has it checked out.)
ForeignCampUntouched ==
    [][\A p \in DOMAIN proc, s \in Slot :
          LET owner == pool.leasedBy[s]
          IN proc'[p] # proc[p] /\ owner \notin {None, Rec(p).task, proc'[p].task} =>
             /\ wt'[s] = wt[s]
             /\ owner \in refs \ refs' =>
                   Rec(p).cmd = "redispatch" /\ Overlapped(p) /\ wt[s].on # owner]_vars

\* Only a command for the task that holds a lease ends it, from inside the section the
\* lock guards, however stale the record and the camp it resolved have become.
LeaseEndsByOwner ==
    [][\A s \in Slot :
          pool.leasedBy[s] # None /\ pool'.leasedBy[s] # pool.leasedBy[s] =>
             /\ pool'.leasedBy[s] = None
             /\ lock \in Proc /\ Rec(lock).task = pool.leasedBy[s] /\ lock' = None]_vars

\* The pool implements the table of leases of CampLease.
Lease == INSTANCE CampLease WITH owner <- pool.leasedBy
LeaseSpec == Lease!Spec

(* Why the work and the camps of others are safe.                          *)

\* A merged pull request is the one of the branch the command carries; a redispatch, and
\* a command that is still to name its branch, carry none.
CommandShape ==
    \A p \in Proc :
        /\ Rec(p).pr => Rec(p).branch \in merged
        /\ Rec(p).at \in {"reused", "merge", "reset"} \/ Rec(p).sect = "discard" => ~Rec(p).pr
        /\ Rec(p).sect = "discard" => Rec(p).cmd = "redispatch"

\* A branch the pool still names on a slot that was struck is of a task that leases no
\* camp, nor is about to.
StruckForGood ==
    \A s \in Slot : pool.leasedBy[s] = None /\ pool.branch[s] # None =>
        /\ pool.branch[s] \in dispatched
        /\ \A x \in Slot : pool.leasedBy[x] # pool.branch[s]
        /\ \A p \in Proc : ~Awaiting(p, pool.branch[s])

\* The branch a redispatch resolved is still the slot's, unless another command ran.
ResolvedAlone ==
    \A p \in Proc : Rec(p).sect = "discard" /\ Rec(p).at \in {"enter", "work"} =>
        Overlapped(p) \/ Rec(p).branch = pool.branch[Rec(p).slot]

\* Worktrees are on branches that exist, and what the base has is not owed.
WorkShape ==
    /\ \A s \in Slot : wt[s].on # None => wt[s].made /\ wt[s].on \in refs
    /\ base \subseteq content /\ owed \cap content = {}

WorkIInv == LeaseIInv /\ CommandShape /\ StruckForGood /\ ResolvedAlone /\ WorkShape /\ CommitsKept

(* What the sources say, and the code does not do.                         *)

\* landUsage (cli/land.go): vx land fast-forwards the checkout to the mission's branch.
LandsOwnBranch ==
    [][\A p \in Proc : Merge(p) => Rec(p).branch = Rec(p).task]_vars
=============================================================================
