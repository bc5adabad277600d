-------------------------- MODULE WakeQueue_proof --------------------------
(***************************************************************************)
(* Proofs about WakeQueue, for every set of tasks and of listeners: types; *)
(* that no wake is lost as long as no task settles twice, whatever fails,  *)
(* dies, is slow, is purged and is put back; that no wake is told twice as *)
(* long as no listener dies or is taken for dead; and that no wake is lost *)
(* where tasks settle again, as long as every delivery succeeds.           *)
(***************************************************************************)
EXTENDS WakeQueue, TLAPS

USE WakeQueueAssumption

\* File is left unexpanded: what is proved holds of any set of numbers above 0.
LEMMA FileNames == \A f \in File : f \in Nat /\ f # 0
  BY DEF File

\* The record of one listener.
ProcRecord(at, names, back, held, cur) ==
  [at |-> at, names |-> names, back |-> back, held |-> held, cur |-> cur]
IsProc(r)  == r = ProcRecord(r.at, r.names, r.back, r.held, r.cur)
IsClaim(c) == c = [f |-> c.f, task |-> c.task, st |-> c.st, id |-> c.id]

LEMMA ProcFields ==
  ASSUME TypeOK, NEW p \in Proc
  PROVE  IsProc(proc[p]) /\ IsClaim(proc[p].cur) /\ proc = [q \in Proc |-> proc[q]]
  BY DEF TypeOK, Procs, Claims, ProcRecord, IsProc, IsClaim

-----------------------------------------------------------------------------
(* What each way of changing a listener's record makes of it.               *)
LEMMA AtTo ==
  ASSUME NEW r, IsProc(r), NEW x, NEW s, s = [r EXCEPT !.at = x]
  PROVE  s = ProcRecord(x, r.names, r.back, r.held, r.cur)
  BY DEF IsProc, ProcRecord
LEMMA RequeuedTo ==
  ASSUME NEW r, IsProc(r), NEW c, NEW s, s = Requeued(r, c)
  PROVE  s = ProcRecord(r.at, IF r.at = "back" THEN r.names \cup {c.task} ELSE r.names,
                        r.back \ {c}, r.held, NoClaim)
  BY DEF IsProc, ProcRecord, Requeued
LEMMA CurTo ==
  ASSUME NEW r, IsProc(r), NEW x, NEW s, s = [r EXCEPT !.cur = x]
  PROVE  s = ProcRecord(r.at, r.names, r.back, r.held, x)
  BY DEF IsProc, ProcRecord
LEMMA NamesTo ==
  ASSUME NEW r, IsProc(r), NEW x, NEW s, s = [r EXCEPT !.names = r.names \ {x}]
  PROVE  s = ProcRecord(r.at, r.names \ {x}, r.back, r.held, r.cur)
  BY DEF IsProc, ProcRecord
LEMMA AtCurTo ==
  ASSUME NEW r, IsProc(r), NEW x, NEW c, NEW s, s = [r EXCEPT !.at = x, !.cur = c]
  PROVE  s = ProcRecord(x, r.names, r.back, r.held, c)
  BY DEF IsProc, ProcRecord
LEMMA KeptTo ==
  ASSUME NEW r, IsProc(r), NEW s,
         s = [r EXCEPT !.at = "claim", !.cur = NoClaim, !.held = r.held \cup {r.cur}]
  PROVE  s = ProcRecord("claim", r.names, r.back, r.held \cup {r.cur}, NoClaim)
  BY DEF IsProc, ProcRecord
LEMMA PurgedTo ==
  ASSUME NEW r, IsProc(r), NEW b, NEW s,
         s = [r EXCEPT !.at = "release", !.cur = NoClaim, !.back = b]
  PROVE  s = ProcRecord("release", r.names, b, r.held, NoClaim)
  BY DEF IsProc, ProcRecord
LEMMA FailedTo ==
  ASSUME NEW r, IsProc(r), NEW s, s = [r EXCEPT !.at = "release", !.back = r.held, !.held = {}]
  PROVE  s = ProcRecord("release", r.names, r.held, {}, r.cur)
  BY DEF IsProc, ProcRecord
LEMMA DroppedTo ==
  ASSUME NEW r, IsProc(r), NEW c, NEW s, s = [r EXCEPT !.held = r.held \ {c}]
  PROVE  s = ProcRecord(r.at, r.names, r.back, r.held \ {c}, r.cur)
  BY DEF IsProc, ProcRecord

-----------------------------------------------------------------------------
(* What a listener may remember where it is, and what is known of its claims. *)
Real(c) == c.f \in File /\ c.task \in Task
Shaped(r) ==
  /\ r \in Procs
  /\ \A c \in r.back \cup r.held : Real(c)
  /\ r.at \in {"idle", "claim", "commit"} => r.cur = NoClaim
  /\ r.at = "take" => r.cur.f = 0 /\ r.cur.task \in Task
  /\ r.at = "judge" => Real(r.cur)
  /\ r.at \in {"back", "release"} => r.cur = NoClaim \/ Real(r.cur)
TypeIInv ==
  /\ TypeOK
  /\ \A p \in Proc : Shaped(proc[p])
  /\ \A f \in File : Exists(f) => file[f].task \in Task
  /\ tick # NoTick => tick.task \in Task /\ tick.st \in Status

\* A step of a listener from record r to s remembers no claim it did not remember ...
Recalls(r, s) ==
  \A c \in s.back \cup s.held \cup {s.cur} :
     c.f \in File => c \in r.back \cup r.held \cup {r.cur}
\* ... holds nothing it did not hold or has just judged, and is not told anything.
Holds(r, s) ==
  /\ \A c \in s.held : c \in r.held \/ (r.at = "judge" /\ c = r.cur)
  /\ s.at # "judge"
  /\ s.at = "commit" => r.at = "commit" /\ s.held \subseteq r.held
Moves(p, s) == proc' = [proc EXCEPT ![p] = s] /\ Shaped(s)
Quiet(p) == \E s : Moves(p, s) /\ Recalls(proc[p], s) /\ Holds(proc[p], s)

LEMMA Idle == Shaped(IdleProc) /\ \A r : Recalls(r, IdleProc) /\ Holds(r, IdleProc)
  BY FileNames DEF Shaped, IdleProc, NoClaim, Procs, Claims, Id, Recalls, Holds

LEMMA NoClaimTyped == NoClaim \in Claims /\ NoClaim.f = 0 /\ 0 \notin File
  BY FileNames DEF NoClaim, Claims, Id

At == {"idle", "back", "claim", "take", "judge", "deliver", "commit", "release"}
LEMMA RecordTyped ==
  ASSUME NEW at \in At, NEW names \in SUBSET Task, NEW back \in SUBSET Claims,
         NEW held \in SUBSET Claims, NEW cur \in Claims, NEW s,
         s = ProcRecord(at, names, back, held, cur)
  PROVE  /\ s \in Procs
         /\ s.at = at /\ s.names = names /\ s.back = back /\ s.held = held /\ s.cur = cur
  BY DEF Procs, At, ProcRecord

LEMMA KeepQuiet ==
  ASSUME TypeIInv, NEW p \in Proc, Keep(p)
  PROVE  Quiet(p)
<1> PICK r : r = proc[p]
  OBVIOUS
<1> PICK s : s = [r EXCEPT !.at = "claim", !.cur = NoClaim, !.held = r.held \cup {r.cur}]
  OBVIOUS
<1>1. proc' = [proc EXCEPT ![p] = s] /\ r.at = "judge"
  BY Zenon DEF Keep, Goto
<1>2. s = ProcRecord("claim", r.names, r.back, r.held \cup {r.cur}, NoClaim)
  BY KeptTo, ProcFields DEF TypeIInv
<1>3. Shaped(r)
  BY DEF TypeIInv
<1>4. /\ r.names \in SUBSET Task /\ r.back \in SUBSET Claims
      /\ r.held \cup {r.cur} \in SUBSET Claims
  BY <1>3 DEF Shaped, Procs
<1>5. /\ s \in Procs /\ s.at = "claim" /\ s.back = r.back
      /\ s.held = r.held \cup {r.cur} /\ s.cur = NoClaim
  BY <1>2, <1>4, RecordTyped, NoClaimTyped DEF At
<1>6. Shaped(s)
  BY <1>1, <1>3, <1>5 DEF Shaped
<1>7. Recalls(r, s) /\ Holds(r, s)
  BY <1>1, <1>5, NoClaimTyped DEF Recalls, Holds
<1> QED BY <1>1, <1>6, <1>7 DEF Quiet, Moves

LEMMA DiscardQuiet ==
  ASSUME TypeIInv, NEW p \in Proc, Discard(p)
  PROVE  Quiet(p)
<1> PICK r : r = proc[p]
  OBVIOUS
<1>r. Shaped(r) /\ IsProc(r) /\ IsClaim(r.cur)
  BY ProcFields DEF TypeIInv
<1> PICK s : s = [r EXCEPT !.at = "claim", !.cur = NoClaim]
  OBVIOUS
<1>1. proc' = [proc EXCEPT ![p] = s] /\ r.at = "judge"
  BY Zenon DEF Discard, Goto
<1>2. s = ProcRecord("claim", r.names, r.back, r.held, NoClaim)
  BY <1>1, <1>r, AtCurTo
<1>3. /\ r.names \in SUBSET Task /\ r.back \in SUBSET Claims
      /\ r.held \in SUBSET Claims /\ NoClaim \in Claims
  BY <1>r, <1>1, NoClaimTyped DEF Shaped, Procs
<1>4. /\ s \in Procs /\ s.at = "claim" /\ s.back = r.back
      /\ s.held = r.held /\ s.cur = NoClaim
  BY <1>2, <1>3, <1>1, RecordTyped DEF At
<1>5. Shaped(s)
  BY <1>1, <1>r, <1>4 DEF Shaped
<1>6. Recalls(r, s) /\ Holds(r, s)
  BY <1>1, <1>r, <1>4, NoClaimTyped DEF Recalls, Holds
<1> QED BY <1>1, <1>5, <1>6 DEF Quiet, Moves

LEMMA FailsQuiet ==
  ASSUME TypeIInv, NEW p \in Proc, DeliverFails(p)
  PROVE  Quiet(p)
<1> PICK r : r = proc[p]
  OBVIOUS
<1>r. Shaped(r) /\ IsProc(r) /\ IsClaim(r.cur)
  BY ProcFields DEF TypeIInv
<1> PICK s : s = [r EXCEPT !.at = "release", !.back = r.held, !.held = {}]
  OBVIOUS
<1>1. proc' = [proc EXCEPT ![p] = s] /\ r.at = "claim"
  BY Zenon DEF DeliverFails, Goto
<1>2. s = ProcRecord("release", r.names, r.held, {}, r.cur)
  BY <1>1, <1>r, FailedTo
<1>3. /\ r.names \in SUBSET Task /\ r.held \in SUBSET Claims
      /\ {} \in SUBSET Claims /\ r.cur \in Claims
  BY <1>r, <1>1, NoClaimTyped DEF Shaped, Procs
<1>4. /\ s \in Procs /\ s.at = "release" /\ s.back = r.held
      /\ s.held = {} /\ s.cur = r.cur
  BY <1>2, <1>3, <1>1, RecordTyped DEF At
<1>5. Shaped(s)
  BY <1>1, <1>r, <1>4 DEF Shaped
<1>6. Recalls(r, s) /\ Holds(r, s)
  BY <1>1, <1>r, <1>4, NoClaimTyped DEF Recalls, Holds
<1> QED BY <1>1, <1>5, <1>6 DEF Quiet, Moves

LEMMA NothingQuiet ==
  ASSUME TypeIInv, NEW p \in Proc, NothingHeld(p) \/ Die(p)
  PROVE  Quiet(p)
<1>1. proc' = [proc EXCEPT ![p] = IdleProc]
  BY Zenon DEF NothingHeld, Die, Goto
<1> QED BY <1>1, Idle DEF Quiet, Moves

LEMMA PurgeQuiet ==
  ASSUME TypeIInv, NEW p \in Proc, Purge(p)
  PROVE  Quiet(p)
<1> PICK r : r = proc[p]
  OBVIOUS
<1>r. Shaped(r) /\ IsProc(r) /\ IsClaim(r.cur)
  BY ProcFields DEF TypeIInv
<1>1. CASE file[r.cur.f].wake.stale
  <2> PICK s : s = [r EXCEPT !.at = "claim", !.cur = NoClaim]
    OBVIOUS
  <2>1. proc' = [proc EXCEPT ![p] = s] /\ r.at = "judge"
    BY Zenon, <1>1 DEF Purge, Goto
  <2>2. s = ProcRecord("claim", r.names, r.back, r.held, NoClaim)
    BY <2>1, <1>r, AtCurTo
  <2>3. /\ r.names \in SUBSET Task /\ r.back \in SUBSET Claims
        /\ r.held \in SUBSET Claims /\ NoClaim \in Claims /\ "claim" \in At
    BY <1>r, <2>1, NoClaimTyped DEF Shaped, Procs, At, Real
  <2>4. /\ s \in Procs /\ s.at = "claim" /\ s.back = r.back
        /\ s.held = r.held /\ s.cur = NoClaim
    BY <2>2, <2>3, RecordTyped
  <2>5. Shaped(s)
    BY <2>1, <1>r, <2>4 DEF Shaped, Real
  <2>6. Recalls(r, s) /\ Holds(r, s)
    BY <2>1, <1>r, <2>4, NoClaimTyped DEF Recalls, Holds
  <2> QED BY <2>1, <2>5, <2>6 DEF Quiet, Moves
<1>2. CASE ~file[r.cur.f].wake.stale
  <2> PICK s : s = [r EXCEPT !.at = "release", !.cur = NoClaim, !.back = {r.cur}]
    OBVIOUS
  <2>1. proc' = [proc EXCEPT ![p] = s] /\ r.at = "judge"
    BY Zenon, <1>2 DEF Purge, Goto
  <2>2. s = ProcRecord("release", r.names, {r.cur}, r.held, NoClaim)
    BY <2>1, <1>r, PurgedTo
  <2>3. /\ r.names \in SUBSET Task /\ {r.cur} \in SUBSET Claims
        /\ r.held \in SUBSET Claims /\ NoClaim \in Claims /\ "release" \in At
    BY <1>r, <2>1, NoClaimTyped DEF Shaped, Procs, At, Real
  <2>4. /\ s \in Procs /\ s.at = "release" /\ s.back = {r.cur}
        /\ s.held = r.held /\ s.cur = NoClaim
    BY <2>2, <2>3, RecordTyped
  <2>5. Shaped(s)
    BY <2>1, <1>r, <2>4 DEF Shaped, Real
  <2>6. Recalls(r, s) /\ Holds(r, s)
    BY <2>1, <1>r, <2>4, NoClaimTyped DEF Recalls, Holds
  <2> QED BY <2>1, <2>5, <2>6 DEF Quiet, Moves
<1> QED BY <1>1, <1>2

LEMMA AllBackQuiet ==
  ASSUME TypeIInv, NEW p \in Proc, AllBack(p)
  PROVE  Quiet(p)
<1> PICK r : r = proc[p]
  OBVIOUS
<1>r. Shaped(r) /\ IsProc(r) /\ IsClaim(r.cur)
  BY ProcFields DEF TypeIInv
<1>1. CASE r.at = "back" \/ p \in Purger
  <2> PICK s : s = [r EXCEPT !.at = "claim"]
    OBVIOUS
  <2>1. proc' = [proc EXCEPT ![p] = s] /\ r.cur = NoClaim
    BY Zenon, <1>1 DEF AllBack, Goto
  <2>2. s = ProcRecord("claim", r.names, r.back, r.held, r.cur)
    BY <2>1, <1>r, AtTo
  <2>3. /\ r.names \in SUBSET Task /\ r.back \in SUBSET Claims
        /\ r.held \in SUBSET Claims /\ r.cur \in Claims /\ "claim" \in At
    BY <1>r, <2>1, NoClaimTyped DEF Shaped, Procs, At, Real
  <2>4. /\ s \in Procs /\ s.at = "claim" /\ s.back = r.back
        /\ s.held = r.held /\ s.cur = r.cur
    BY <2>2, <2>3, RecordTyped
  <2>5. Shaped(s)
    BY <2>1, <1>r, <2>4 DEF Shaped, Real
  <2>6. Recalls(r, s) /\ Holds(r, s)
    BY <2>1, <1>r, <2>4, NoClaimTyped DEF Recalls, Holds
  <2> QED BY <2>1, <2>5, <2>6 DEF Quiet, Moves
<1>2. CASE ~(r.at = "back" \/ p \in Purger)
  <2>1. proc' = [proc EXCEPT ![p] = IdleProc]
    BY Zenon, <1>2 DEF AllBack, Goto
  <2> QED BY <2>1, Idle DEF Quiet, Moves
<1> QED BY <1>1, <1>2

LEMMA PickQuiet ==
  ASSUME TypeIInv, NEW p \in Proc, Pick(p)
  PROVE  Quiet(p)
<1> PICK r : r = proc[p]
  OBVIOUS
<1>r. Shaped(r) /\ IsProc(r) /\ IsClaim(r.cur)
  BY ProcFields DEF TypeIInv
<1>t. r.at = "claim" /\ r.cur = NoClaim
  BY <1>r DEF Pick, Shaped
<1>c. r.cur.f = 0 /\ r.cur.st = "none" /\ r.cur.id = 0
  BY <1>t DEF NoClaim
<1>p. PICK t \in r.names :
       proc' = [proc EXCEPT ![p] =
         IF p \in Purger /\ ~pending[t].stale
         THEN [r EXCEPT !.names = r.names \ {t}]
         ELSE [r EXCEPT !.at = "take", !.names = r.names \ {t}, !.cur.task = t]]
  BY Zenon DEF Pick, Goto
<1>d. t \in Task
  BY <1>r DEF Shaped, Procs
<1>1. CASE p \in Purger /\ ~pending[t].stale
  <2> PICK s : s = [r EXCEPT !.names = r.names \ {t}]
    OBVIOUS
  <2>1. proc' = [proc EXCEPT ![p] = s] /\ r.at = "claim"
    BY Zenon, <1>p, <1>1 DEF Pick, Goto
  <2> PICK rest : rest = r.names \ {t}
    OBVIOUS
  <2>2. s = ProcRecord(r.at, rest, r.back, r.held, r.cur)
    BY <2>1, <1>r, <1>t, NamesTo
  <2>3. /\ rest \in SUBSET Task /\ r.back \in SUBSET Claims
        /\ r.held \in SUBSET Claims /\ r.cur \in Claims /\ r.at \in At
    BY <1>r, <2>1, <1>t, NoClaimTyped DEF Shaped, Procs, At, Real
  <2>4. /\ s \in Procs /\ s.at = r.at /\ s.back = r.back
        /\ s.held = r.held /\ s.cur = r.cur
    BY <2>2, <2>3 DEF ProcRecord, Procs, At
  <2>5. Shaped(s)
    BY <2>1, <1>r, <1>t, <2>4 DEF Shaped, Real
  <2>6. Recalls(r, s) /\ Holds(r, s)
    BY <2>1, <1>r, <1>t, <2>4, NoClaimTyped DEF Recalls, Holds
  <2> QED BY <2>1, <2>5, <2>6 DEF Quiet, Moves
<1>2. CASE ~(p \in Purger /\ ~pending[t].stale)
  <2>n. PICK rest : rest = r.names \ {t}
    OBVIOUS
  <2>s. PICK s : s = [r EXCEPT !.at = "take", !.names = rest, !.cur.task = t]
    OBVIOUS
  <2>1. proc' = [proc EXCEPT ![p] = s] /\ r.at = "claim"
    BY Zenon, <2>s, <2>n, <1>p, <1>2 DEF Pick, Goto
  <2>k. PICK c : c = [f |-> r.cur.f, task |-> t, st |-> r.cur.st, id |-> r.cur.id]
    OBVIOUS
  <2>c. c \in Claims /\ c.f = 0 /\ c.task = t
    BY <2>k, <1>d, <1>c DEF Claims, Id
  <2>2. s = ProcRecord("take", rest, r.back, r.held, c)
    BY <1>r, <2>s, <2>k DEF IsProc, IsClaim, ProcRecord
  <2>3. /\ rest \in SUBSET Task /\ r.back \in SUBSET Claims
        /\ r.held \in SUBSET Claims /\ c \in Claims /\ "take" \in At
    BY <1>r, <2>n, <2>c DEF Shaped, Procs, At
  <2>4. /\ s \in Procs /\ s.at = "take" /\ s.back = r.back
        /\ s.held = r.held /\ s.cur = c
    BY <2>2, <2>3 DEF ProcRecord, Procs, At
  <2>5. Shaped(s)
    BY <2>1, <1>r, <1>t, <1>c, <1>d, <2>c, <2>4 DEF Shaped, Real
  <2>6. Recalls(r, s) /\ Holds(r, s)
    BY <2>1, <1>r, <1>t, <1>c, <1>d, <2>c, <2>4, NoClaimTyped DEF Recalls, Holds
  <2> QED BY <2>1, <2>5, <2>6 DEF Quiet, Moves
<1> QED BY <1>1, <1>2

LEMMA StatQuiet ==
  ASSUME TypeIInv, NEW p \in Proc, Stat(p)
  PROVE  Quiet(p)
<1> PICK r : r = proc[p]
  OBVIOUS
<1>r. Shaped(r) /\ IsProc(r) /\ IsClaim(r.cur)
  BY ProcFields DEF TypeIInv
<1> PICK c \in r.back :
       proc' = [proc EXCEPT ![p] = IF pending[c.task] # NoWake THEN Requeued(r, c)
                                   ELSE [r EXCEPT !.cur = c]]
  BY Zenon DEF Stat, Goto
<1>c. c \in Claims /\ Real(c)
  BY <1>r DEF Shaped, Procs
<1>n. r.at \in {"back", "release"}
  BY DEF Stat
<1>1. CASE pending[c.task] # NoWake
  <2> PICK s : s = Requeued(r, c)
    OBVIOUS
  <2>1. proc' = [proc EXCEPT ![p] = s] /\ r.cur = NoClaim
    BY Zenon, <1>1 DEF Stat, Goto
  <2>2. s = ProcRecord(r.at, (IF r.at = "back" THEN r.names \cup {c.task} ELSE r.names), r.back \ {c}, r.held, NoClaim)
    BY <2>1, <1>r, <1>c, <1>n, RequeuedTo
  <2>3. /\ (IF r.at = "back" THEN r.names \cup {c.task} ELSE r.names) \in SUBSET Task /\ r.back \ {c} \in SUBSET Claims
        /\ r.held \in SUBSET Claims /\ NoClaim \in Claims /\ r.at \in At
    BY <1>r, <2>1, <1>c, <1>n, NoClaimTyped DEF Shaped, Procs, At, Real
  <2>4. /\ s \in Procs /\ s.at = r.at /\ s.back = r.back \ {c}
        /\ s.held = r.held /\ s.cur = NoClaim
    BY <2>2, <2>3, RecordTyped
  <2>5. Shaped(s)
    BY <2>1, <1>r, <1>c, <1>n, <2>4 DEF Shaped, Real
  <2>6. Recalls(r, s) /\ Holds(r, s)
    BY <2>1, <1>r, <1>c, <1>n, <2>4, NoClaimTyped DEF Recalls, Holds
  <2> QED BY <2>1, <2>5, <2>6 DEF Quiet, Moves
<1>2. CASE ~(pending[c.task] # NoWake)
  <2> PICK s : s = [r EXCEPT !.cur = c]
    OBVIOUS
  <2>1. proc' = [proc EXCEPT ![p] = s] /\ r.cur = NoClaim
    BY Zenon, <1>2 DEF Stat, Goto
  <2>2. s = ProcRecord(r.at, r.names, r.back, r.held, c)
    BY <2>1, <1>r, <1>c, <1>n, CurTo
  <2>3. /\ r.names \in SUBSET Task /\ r.back \in SUBSET Claims
        /\ r.held \in SUBSET Claims /\ c \in Claims /\ r.at \in At
    BY <1>r, <2>1, <1>c, <1>n, NoClaimTyped DEF Shaped, Procs, At, Real
  <2>4. /\ s \in Procs /\ s.at = r.at /\ s.back = r.back
        /\ s.held = r.held /\ s.cur = c
    BY <2>2, <2>3, RecordTyped
  <2>5. Shaped(s)
    BY <2>1, <1>r, <1>c, <1>n, <2>4 DEF Shaped, Real
  <2>6. Recalls(r, s) /\ Holds(r, s)
    BY <2>1, <1>r, <1>c, <1>n, <2>4, NoClaimTyped DEF Recalls, Holds
  <2> QED BY <2>1, <2>5, <2>6 DEF Quiet, Moves
<1> QED BY <1>1, <1>2

LEMMA PutBackQuiet ==
  ASSUME TypeIInv, NEW p \in Proc, PutBack(p)
  PROVE  Quiet(p)
<1> PICK r : r = proc[p]
  OBVIOUS
<1>r. Shaped(r) /\ IsProc(r) /\ IsClaim(r.cur)
  BY ProcFields DEF TypeIInv
<1>c. r.cur \in Claims /\ Real(r.cur)
  BY <1>r DEF Shaped, Procs, PutBack
<1>n. r.at \in {"back", "release"}
  BY DEF PutBack
<1> PICK s : s = Requeued(r, r.cur)
  OBVIOUS
<1>1. proc' = [proc EXCEPT ![p] = s]
  BY Zenon DEF PutBack, Goto
<1>2. s = ProcRecord(r.at, (IF r.at = "back" THEN r.names \cup {r.cur.task} ELSE r.names), r.back \ {r.cur}, r.held, NoClaim)
  BY <1>1, <1>r, <1>c, <1>n, RequeuedTo
<1>3. /\ (IF r.at = "back" THEN r.names \cup {r.cur.task} ELSE r.names) \in SUBSET Task /\ r.back \ {r.cur} \in SUBSET Claims
      /\ r.held \in SUBSET Claims /\ NoClaim \in Claims /\ r.at \in At
  BY <1>r, <1>1, <1>c, <1>n, NoClaimTyped DEF Shaped, Procs, At, Real
<1>4. /\ s \in Procs /\ s.at = r.at /\ s.back = r.back \ {r.cur}
      /\ s.held = r.held /\ s.cur = NoClaim
  BY <1>2, <1>3, RecordTyped
<1>5. Shaped(s)
  BY <1>1, <1>r, <1>c, <1>n, <1>4 DEF Shaped, Real
<1>6. Recalls(r, s) /\ Holds(r, s)
  BY <1>1, <1>r, <1>c, <1>n, <1>4, NoClaimTyped DEF Recalls, Holds
<1> QED BY <1>1, <1>5, <1>6 DEF Quiet, Moves

LEMMA CommitQuiet ==
  ASSUME TypeIInv, NEW p \in Proc, Commit(p)
  PROVE  Quiet(p)
<1> PICK r : r = proc[p]
  OBVIOUS
<1>r. Shaped(r) /\ IsProc(r) /\ IsClaim(r.cur)
  BY ProcFields DEF TypeIInv
<1>n. r.at = "commit"
  BY DEF Commit
<1> PICK c \in r.held :
       proc' = [proc EXCEPT ![p] = IF r.held = {c} THEN IdleProc
                                   ELSE [r EXCEPT !.held = r.held \ {c}]]
  BY Zenon DEF Commit, Goto
<1>1. CASE r.held = {c}
  BY <1>1, Idle DEF Quiet, Moves
<1>2. CASE r.held # {c}
  <2> PICK s : s = [r EXCEPT !.held = r.held \ {c}]
    OBVIOUS
  <2>1. proc' = [proc EXCEPT ![p] = s] /\ r.at = "commit"
    BY Zenon, <1>2 DEF Commit, Goto
  <2> PICK rest : rest = r.held \ {c}
    OBVIOUS
  <2>2. s = ProcRecord(r.at, r.names, r.back, rest, r.cur)
    BY <2>1, <1>r, <1>n, DroppedTo
  <2>3. /\ r.names \in SUBSET Task /\ r.back \in SUBSET Claims
        /\ rest \in SUBSET Claims /\ r.cur \in Claims /\ r.at \in At
    BY <1>r, <2>1, <1>n, NoClaimTyped DEF Shaped, Procs, At, Real
  <2>4. /\ s \in Procs /\ s.at = r.at /\ s.back = r.back
        /\ s.held = rest /\ s.cur = r.cur
    BY <2>2, <2>3 DEF ProcRecord, Procs, At
  <2>5. Shaped(s)
    BY <2>1, <1>r, <1>n, <2>4 DEF Shaped, Real
  <2>6. Recalls(r, s) /\ Holds(r, s)
    BY <2>1, <1>r, <1>n, <2>4, NoClaimTyped DEF Recalls, Holds
  <2> QED BY <2>1, <2>5, <2>6 DEF Quiet, Moves
<1> QED BY <1>1, <1>2

LEMMA DeliverMoves ==
  ASSUME TypeIInv, NEW p \in Proc, Deliver(p)
  PROVE  \E s : /\ Moves(p, s) /\ Recalls(proc[p], s)
                /\ s.at = "commit" /\ s.held = proc[p].held
<1> PICK r : r = proc[p]
  OBVIOUS
<1>r. Shaped(r) /\ IsProc(r) /\ IsClaim(r.cur)
  BY ProcFields DEF TypeIInv
<1> PICK s : s = [r EXCEPT !.at = "commit"]
  OBVIOUS
<1>1. proc' = [proc EXCEPT ![p] = s] /\ r.at = "claim"
  BY Zenon DEF Deliver, Goto
<1>2. s = ProcRecord("commit", r.names, r.back, r.held, r.cur)
  BY <1>1, <1>r, AtTo
<1>3. /\ r.names \in SUBSET Task /\ r.back \in SUBSET Claims
      /\ r.held \in SUBSET Claims /\ r.cur \in Claims
  BY <1>r DEF Shaped, Procs
<1>4. /\ s \in Procs /\ s.at = "commit" /\ s.back = r.back
      /\ s.held = r.held /\ s.cur = r.cur
  BY <1>2, <1>3, RecordTyped DEF At
<1>5. Shaped(s)
  BY <1>1, <1>r, <1>4 DEF Shaped
<1>6. Recalls(r, s)
  BY <1>4 DEF Recalls
<1> QED BY <1>1, <1>4, <1>5, <1>6 DEF Moves

LEMMA ListMoves ==
  ASSUME TypeIInv, NEW p \in Proc, List(p)
  PROVE  \E s : /\ Moves(p, s) /\ s.at = "back" /\ s.held = {} /\ s.cur = NoClaim
                /\ \A c \in s.back : c.task = file[c.f].task
<1>n. PICK names : names = {t \in Task : pending[t] # NoWake}
  OBVIOUS
<1>b. PICK back : back = {Claim(f) : f \in {g \in File : Abandoned(g)}}
  OBVIOUS
<1>s. PICK s : s = [IdleProc EXCEPT !.at = "back", !.names = names, !.back = back]
  OBVIOUS
<1>1. proc' = [proc EXCEPT ![p] = s]
  BY Zenon, <1>n, <1>b, <1>s DEF List, Goto
<1>2. s = ProcRecord("back", names, back, {}, NoClaim)
  BY <1>s DEF IdleProc, ProcRecord
<1>3. ASSUME NEW c \in back
      PROVE  c \in Claims /\ Real(c) /\ c.task = file[c.f].task
  <2> PICK f \in File : Abandoned(f) /\ c = Claim(f)
    BY <1>b
  <2>1. file[f] \in Files /\ file[f].task \in Task
    BY DEF Abandoned, TypeIInv, TypeOK
  <2>2. file[f].wake \in Wakes
    BY <2>1 DEF Files
  <2> QED BY <2>1, <2>2 DEF Claim, Claims, Real, Wakes
<1>4. names \in SUBSET Task /\ back \in SUBSET Claims
  BY <1>3, <1>n
<1>5. /\ s \in Procs /\ s.at = "back" /\ s.back = back /\ s.held = {} /\ s.cur = NoClaim
  BY <1>2, <1>4, NoClaimTyped DEF ProcRecord, Procs
<1>6. Shaped(s)
  BY <1>3, <1>5 DEF Shaped
<1> QED BY <1>1, <1>3, <1>5, <1>6 DEF Moves

\* A claim that is lost to another listener is no claim; one that is won is of a wake
\* that was pending, under a name nobody remembers.
Takes(p, f, s) ==
  LET t == proc[p].cur.task
  IN /\ t \in Task /\ Fresh(f) /\ pending[t] # NoWake
     /\ file' = [file EXCEPT ![f] = [task |-> t, wake |-> pending[t], by |-> p]]
     /\ pending' = [pending EXCEPT ![t] = NoWake]
     /\ s.at = "judge" /\ s.back = proc[p].back /\ s.held = proc[p].held
     /\ s.cur.f = f /\ s.cur.task = t /\ s.cur.st = pending[t].st
     /\ s.cur = [f |-> f, task |-> t, st |-> pending[t].st, id |-> pending[t].id]

LEMMA TakeMoves ==
  ASSUME TypeIInv, NEW p \in Proc, Take(p)
  PROVE  \/ Quiet(p) /\ UNCHANGED <<pending, file>>
         \/ \E f \in File : \E s : Moves(p, s) /\ Takes(p, f, s)
<1>x. PICK r : r = proc[p]
  OBVIOUS
<1>r. Shaped(r) /\ IsProc(r) /\ IsClaim(r.cur) /\ r.at = "take"
  BY <1>x, ProcFields DEF TypeIInv, Take
<1>1. CASE pending[r.cur.task] = NoWake
  <2>s. PICK s : s = [r EXCEPT !.at = "claim", !.cur = NoClaim]
    OBVIOUS
  <2>1. proc' = [proc EXCEPT ![p] = s] /\ UNCHANGED <<pending, file>>
    BY Zenon, <1>x, <1>1, <2>s DEF Take, Goto
  <2>2. s = ProcRecord("claim", r.names, r.back, r.held, NoClaim)
    BY <2>s, <1>r, AtCurTo
  <2>3. /\ r.names \in SUBSET Task /\ r.back \in SUBSET Claims
        /\ r.held \in SUBSET Claims
    BY <1>r DEF Shaped, Procs
  <2>4. /\ s \in Procs /\ s.at = "claim" /\ s.back = r.back
        /\ s.held = r.held /\ s.cur = NoClaim
    BY <2>2, <2>3, RecordTyped, NoClaimTyped DEF At
  <2>5. Shaped(s)
    BY <1>r, <2>4 DEF Shaped
  <2>6. Recalls(r, s) /\ Holds(r, s)
    BY <2>4, NoClaimTyped DEF Recalls, Holds
  <2> QED BY <1>x, <2>1, <2>5, <2>6 DEF Quiet, Moves
<1>2. CASE pending[r.cur.task] # NoWake
  <2>t. PICK t : t = r.cur.task
    OBVIOUS
  <2>w. t \in Task /\ pending[t] \in Wakes
    BY <1>r, <2>t DEF Shaped, TypeIInv, TypeOK
  <2>f. PICK f \in File : Fresh(f) /\ TakeAside(p, f)
    BY Zenon, <1>x, <1>2 DEF Take
  <2>c. PICK c : c = [f |-> f, task |-> t, st |-> pending[t].st, id |-> pending[t].id]
    OBVIOUS
  <2>d. c \in Claims /\ c.f = f /\ c.task = t /\ c.st = pending[t].st
    BY <2>c, <2>w DEF Claims, Wakes
  <2>s. PICK s : s = [r EXCEPT !.at = "judge", !.cur = c]
    OBVIOUS
  <2>1. /\ proc' = [proc EXCEPT ![p] = s]
        /\ file' = [file EXCEPT ![f] = [task |-> t, wake |-> pending[t], by |-> p]]
        /\ pending' = [pending EXCEPT ![t] = NoWake]
    BY Zenon, <1>x, <2>t, <2>c, <2>s, <2>f DEF TakeAside, Goto
  <2>2. s = ProcRecord("judge", r.names, r.back, r.held, c)
    BY <2>s, <1>r, AtCurTo
  <2>3. /\ r.names \in SUBSET Task /\ r.back \in SUBSET Claims
        /\ r.held \in SUBSET Claims
    BY <1>r DEF Shaped, Procs
  <2>4. /\ s \in Procs /\ s.at = "judge" /\ s.back = r.back
        /\ s.held = r.held /\ s.cur = c
    BY <2>2, <2>3, <2>d, RecordTyped DEF At
  <2>5. Shaped(s)
    BY <1>r, <2>4, <2>d, <2>w DEF Shaped, Real
  <2>6. Takes(p, f, s)
    BY <1>x, <1>2, <2>c, <2>t, <2>w, <2>f, <2>d, <2>1, <2>4 DEF Takes
  <2> QED BY <2>f, <2>1, <2>5, <2>6 DEF Moves
<1> QED BY <1>1, <1>2

-----------------------------------------------------------------------------
(* Types: what one listener's step leaves of the records and of the files.  *)
LEMMA MovesTyped ==
  ASSUME TypeIInv, NEW p \in Proc, NEW s, Moves(p, s)
  PROVE  proc' \in [Proc -> Procs] /\ \A q \in Proc : Shaped(proc'[q])
  BY DEF TypeIInv, TypeOK, Moves, Shaped

\* No file appears, and what one holds does not change.
Thins ==
  /\ file' \in [File -> Files]
  /\ \A f \in File : file'[f] = NoFile
                     \/ (file'[f] # NoFile /\ file[f] # NoFile
                         /\ file'[f].task = file[f].task /\ file'[f].wake = file[f].wake)

LEMMA NoFileTyped == NoFile \in Files /\ NoWake \in Wakes /\ NoFile.task = None
                     /\ NoWake.st = "none" /\ NoWake.stale = FALSE
  BY DEF NoFile, Files, NoWake, Wakes, Id

LEMMA RemovedThins ==
  ASSUME TypeIInv, NEW f, file' = Removed(f) \/ UNCHANGED file
  PROVE  Thins
  BY NoFileTyped DEF Thins, Removed, TypeIInv, TypeOK

LEMMA ThinsTyped ==
  ASSUME TypeIInv, Thins
  PROVE  \A f \in File : Exists(f)' => Exists(f) /\ file'[f].task \in Task
  BY DEF Thins, TypeIInv, Exists

\* The steps of a listener that only forget: what they are, and what they leave alone.
Forgets(p) ==
  \/ Stat(p) \/ AllBack(p) \/ Pick(p) \/ Keep(p) \/ Discard(p) \/ Purge(p)
  \/ NothingHeld(p) \/ DeliverFails(p) \/ Commit(p) \/ Die(p)

LEMMA DieThins ==
  ASSUME TypeIInv, NEW p \in Proc, Die(p)
  PROVE  Thins
<1>1. file' = [f \in File |-> IF file[f].by = p THEN [file[f] EXCEPT !.by = None] ELSE file[f]]
  BY DEF Die
<1>2. ASSUME NEW f \in File, file[f].by = p
      PROVE  /\ file'[f] = [task |-> file[f].task, wake |-> file[f].wake, by |-> None]
             /\ file[f] # NoFile
  <2>1. file[f] \in Files
    BY DEF TypeIInv, TypeOK
  <2>2. file'[f] = [file[f] EXCEPT !.by = None]
    BY <1>1, <1>2
  <2>3. file[f] # NoFile
    BY <1>2, WakeQueueAssumption DEF NoFile
  <2> QED BY <2>1, <2>2, <2>3 DEF Files
<1>3. ASSUME NEW f \in File
      PROVE  /\ file'[f] \in Files
             /\ file'[f] = NoFile
                \/ (file'[f] # NoFile /\ file[f] # NoFile
                    /\ file'[f].task = file[f].task /\ file'[f].wake = file[f].wake)
  <2>1. file[f] \in Files
    BY DEF TypeIInv, TypeOK
  <2>2. CASE file[f].by = p
    <3>1. file'[f] = [task |-> file[f].task, wake |-> file[f].wake, by |-> None]
      BY <1>2, <2>2
    <3>2. file'[f] \in Files
      BY <2>1, <3>1 DEF Files
    <3>3. file'[f].task = file[f].task /\ file'[f].wake = file[f].wake
      BY <3>1
    <3> QED BY <3>2, <3>3, <1>2, <2>2
  <2>3. CASE file[f].by # p
    BY <1>1, <2>1, <2>3
  <2> QED BY <2>2, <2>3
<1> QED BY <1>1, <1>3 DEF Thins

LEMMA ForgetsThins ==
  ASSUME TypeIInv, NEW p \in Proc, Forgets(p)
  PROVE  /\ Thins /\ Quiet(p)
         /\ UNCHANGED <<status, gone, tick, pending, settles, unheard, told>>
         /\ deaths' \in 0..MaxDeaths
<1>d. deaths \in 0..MaxDeaths
  BY DEF TypeIInv, TypeOK
<1>1. CASE Stat(p)
  <2>1. \E c : file' = Removed(c) \/ UNCHANGED file
    BY <1>1 DEF Stat
  <2> QED BY <1>1, <1>d, <2>1, RemovedThins, StatQuiet DEF Stat
<1>2. CASE AllBack(p)
  BY <1>2, <1>d, RemovedThins, AllBackQuiet DEF AllBack
<1>3. CASE Pick(p)
  BY <1>3, <1>d, RemovedThins, PickQuiet DEF Pick
<1>4. CASE Keep(p)
  BY <1>4, <1>d, RemovedThins, KeepQuiet DEF Keep
<1>5. CASE Discard(p)
  BY <1>5, <1>d, RemovedThins, DiscardQuiet DEF Discard
<1>6. CASE Purge(p)
  <2>1. \E c : file' = Removed(c) \/ UNCHANGED file
    BY <1>6 DEF Purge
  <2> QED BY <1>6, <1>d, <2>1, RemovedThins, PurgeQuiet DEF Purge
<1>7. CASE NothingHeld(p)
  BY <1>7, <1>d, RemovedThins, NothingQuiet DEF NothingHeld
<1>8. CASE DeliverFails(p)
  BY <1>8, <1>d, RemovedThins, FailsQuiet DEF DeliverFails
<1>9. CASE Commit(p)
  <2>1. \E c : file' = Removed(c)
    BY <1>9 DEF Commit
  <2> QED BY <1>9, <1>d, <2>1, RemovedThins, CommitQuiet DEF Commit
<1>10. CASE Die(p)
  <2>1. deaths < MaxDeaths /\ deaths' = deaths + 1
        /\ UNCHANGED <<status, gone, tick, pending, settles, unheard, told>>
    BY <1>10 DEF Die
  <2> QED BY <1>10, <1>d, <2>1, DieThins, NothingQuiet
<1> QED BY <1>1, <1>2, <1>3, <1>4, <1>5, <1>6, <1>7, <1>8, <1>9, <1>10 DEF Forgets

LEMMA ForgetsTyped ==
  ASSUME TypeIInv, NEW p \in Proc, Forgets(p)
  PROVE  TypeIInv'
<1>1. /\ Thins /\ UNCHANGED <<status, gone, tick, pending, settles, unheard, told>>
      /\ deaths' \in 0..MaxDeaths
  BY ForgetsThins
<1>2. proc' \in [Proc -> Procs] /\ \A q \in Proc : Shaped(proc'[q])
  BY ForgetsThins, MovesTyped DEF Quiet
<1>3. \A f \in File : Exists(f)' => file'[f].task \in Task
  BY <1>1, ThinsTyped
<1>4. TypeOK'
  BY <1>1, <1>2 DEF TypeIInv, TypeOK, Thins
<1>5. (tick # NoTick => tick.task \in Task /\ tick.st \in Status)'
  BY <1>1 DEF TypeIInv
<1> QED BY <1>2, <1>3, <1>4, <1>5 DEF TypeIInv

\* A claim put back: its file is gone, and its wake waits if the file was still there.
PutsBack(p) ==
  LET c == proc[p].cur
  IN /\ Real(c)
     /\ \/ ~Exists(c.f) /\ UNCHANGED <<pending, file>>
        \/ /\ Exists(c.f) /\ file' = Removed(c.f)
           /\ pending' = [pending EXCEPT ![c.task] = file[c.f].wake]
     /\ UNCHANGED <<status, gone, tick, deaths, settles, unheard, told>>

LEMMA PutBackMoves ==
  ASSUME TypeIInv, NEW p \in Proc, PutBack(p)
  PROVE  Quiet(p) /\ PutsBack(p) /\ Thins
<1>1. Real(proc[p].cur)
  BY DEF PutBack, TypeIInv, Shaped
<1>2. PutsBack(p)
  BY <1>1 DEF PutBack, PutsBack
<1>3. \E f : file' = Removed(f) \/ UNCHANGED file
  BY <1>2 DEF PutsBack
<1> QED BY <1>2, <1>3, PutBackQuiet, RemovedThins

LEMMA ListenerTyped ==
  ASSUME TypeIInv, NEW p \in Proc, PutBack(p) \/ List(p) \/ Take(p) \/ Deliver(p)
  PROVE  TypeIInv'
<1>t. (tick # NoTick => tick.task \in Task /\ tick.st \in Status)' /\ tick' \in Changes
  BY DEF TypeIInv, TypeOK, PutBack, List, Take, Deliver
<1>1. CASE PutBack(p)
  <2>1. Quiet(p) /\ PutsBack(p) /\ Thins
    BY <1>1, PutBackMoves
  <2>2. proc' \in [Proc -> Procs] /\ \A q \in Proc : Shaped(proc'[q])
    BY <2>1, MovesTyped DEF Quiet
  <2>3. \A f \in File : Exists(f)' => file'[f].task \in Task
    BY <2>1, ThinsTyped
  <2>4. pending' \in [Task -> Wakes]
    BY <2>1 DEF PutsBack, TypeIInv, TypeOK, Files, Real
  <2>5. TypeOK'
    BY <2>1, <2>2, <2>4, <1>t DEF PutsBack, TypeIInv, TypeOK, Thins
  <2> QED BY <2>2, <2>3, <2>5, <1>t DEF TypeIInv
<1>2. CASE List(p)
  <2>2. proc' \in [Proc -> Procs] /\ \A q \in Proc : Shaped(proc'[q])
    BY <1>2, ListMoves, MovesTyped
  <2>3. UNCHANGED <<status, gone, tick, pending, file, deaths, settles, unheard, told>>
    BY <1>2 DEF List
  <2>4. TypeOK'
    BY <2>2, <2>3 DEF TypeIInv, TypeOK
  <2> QED BY <2>2, <2>3, <2>4, <1>t DEF TypeIInv, Exists
<1>3. CASE Take(p)
  <2>1. UNCHANGED <<status, gone, tick, deaths, settles, unheard, told>>
    BY <1>3 DEF Take
  <2>2. proc' \in [Proc -> Procs] /\ \A q \in Proc : Shaped(proc'[q])
    BY <1>3, TakeMoves, MovesTyped DEF Quiet
  <2>3. CASE UNCHANGED <<pending, file>>
    <3>1. TypeOK'
      BY <2>1, <2>2, <2>3 DEF TypeIInv, TypeOK
    <3> QED BY <2>2, <2>3, <3>1, <1>t DEF TypeIInv, Exists
  <2>4. ASSUME NEW f \in File, NEW s, Takes(p, f, s)
        PROVE  TypeIInv'
    <3> PICK t : t = proc[p].cur.task
      OBVIOUS
    <3> PICK x : x = [task |-> t, wake |-> pending[t], by |-> p]
      OBVIOUS
    <3>1. /\ t \in Task
          /\ file' = [file EXCEPT ![f] = x]
          /\ pending' = [pending EXCEPT ![t] = NoWake]
      BY <2>4 DEF Takes
    <3>2. x \in Files /\ x.task = t
      BY <3>1 DEF TypeIInv, TypeOK, Files
    <3>3. /\ file' \in [File -> Files]
          /\ \A g \in File : file'[g] = IF g = f THEN x ELSE file[g]
      BY <3>1, <3>2 DEF TypeIInv, TypeOK
    <3>4. \A g \in File : Exists(g)' => file'[g].task \in Task
      BY <3>1, <3>2, <3>3 DEF TypeIInv, Exists
    <3>5. pending' \in [Task -> Wakes]
      BY <3>1, NoFileTyped DEF TypeIInv, TypeOK
    <3>6. TypeOK'
      BY <2>1, <2>2, <3>3, <3>5 DEF TypeIInv, TypeOK
    <3> QED BY <2>2, <3>4, <3>6, <1>t DEF TypeIInv
  <2> QED BY <1>3, <2>3, <2>4, TakeMoves
<1>4. CASE Deliver(p)
  <2>1. /\ UNCHANGED <<status, gone, tick, pending, file, deaths, settles>>
        /\ told' = told \cup {c.id : c \in proc[p].held}
        /\ unheard' \subseteq unheard
    BY <1>4 DEF Deliver
  <2>2. proc' \in [Proc -> Procs] /\ \A q \in Proc : Shaped(proc'[q])
    BY <1>4, DeliverMoves, MovesTyped
  <2>3. \A c \in proc[p].held : c.id \in Id
    BY DEF TypeIInv, TypeOK, Procs, Claims
  <2>4. told' \subseteq Id
    BY <2>1, <2>3 DEF TypeIInv, TypeOK
  <2>5. TypeOK'
    BY <2>1, <2>2, <2>4 DEF TypeIInv, TypeOK
  <2> QED BY <2>1, <2>2, <2>5, <1>t DEF TypeIInv, Exists
<1> QED BY <1>1, <1>2, <1>3, <1>4

-----------------------------------------------------------------------------
(* Types: what the sentinel and the commander do.                           *)
Outside == \/ \E t \in Task : Reprompt(t) \/ Retire(t) \/ \E s \in Status : Settle(t, s)
           \/ RecordWake \/ WakeSkipped \/ Age

LEMMA OutsideTyped ==
  ASSUME TypeIInv, Outside
  PROVE  TypeIInv'
<1>p. UNCHANGED <<proc, deaths>>
  BY DEF Outside, Reprompt, Retire, Settle, RecordWake, WakeSkipped, Age
<1>n. NoTick \in Changes
  BY DEF NoTick, Changes, Id
<1>1. ASSUME NEW t \in Task, Reprompt(t) \/ Retire(t)
      PROVE  TypeIInv'
  <2>1. status' \in [Task -> Status \cup {"running"}] /\ gone' \subseteq Task /\ unheard' \subseteq Task
        /\ UNCHANGED <<tick, pending, file, settles, told>>
    BY <1>1 DEF Reprompt, Retire, TypeIInv, TypeOK
  <2>2. TypeOK'
    BY <2>1, <1>p DEF TypeIInv, TypeOK
  <2> QED BY <2>1, <2>2, <1>p DEF TypeIInv, Exists
<1>2. ASSUME NEW t \in Task, NEW s \in Status, Settle(t, s)
      PROVE  TypeIInv'
  <2>1. settles' \in Id /\ settles + 1 \in Id
    BY <1>2 DEF Settle, Id, TypeIInv, TypeOK
  <2>2. tick' \in Changes /\ tick'.task \in Task /\ tick'.st \in Status
    BY <1>2, <2>1 DEF Settle, Changes
  <2>3. /\ status' \in [Task -> Status \cup {"running"}]
        /\ UNCHANGED <<gone, pending, file, unheard, told>>
    BY <1>2 DEF Settle, TypeIInv, TypeOK
  <2>4. TypeOK'
    BY <2>1, <2>2, <2>3, <1>p DEF TypeIInv, TypeOK
  <2> QED BY <2>2, <2>3, <2>4, <1>p DEF TypeIInv, Exists
<1>3. CASE RecordWake
  <2>1. PICK w : w = [st |-> tick.st, id |-> tick.id, stale |-> FALSE]
    OBVIOUS
  <2>2. w \in Wakes /\ tick.task \in Task
    BY <1>3, <2>1 DEF RecordWake, TypeIInv, TypeOK, Changes, Wakes
  <2>3. pending' = [pending EXCEPT ![tick.task] = w]
    BY <1>3, <2>1 DEF RecordWake, Written
  <2>4. /\ tick' = NoTick /\ unheard' \subseteq unheard \cup {tick.task}
        /\ UNCHANGED <<status, gone, file, settles, told>>
    BY <1>3 DEF RecordWake
  <2>w. pending' \in [Task -> Wakes]
    BY <2>2, <2>3 DEF TypeIInv, TypeOK
  <2>5. TypeOK'
    BY <2>2, <2>4, <2>w, <1>p, <1>n DEF TypeIInv, TypeOK
  <2> QED BY <2>4, <2>5, <1>p DEF TypeIInv, Exists
<1>4. CASE WakeSkipped
  <2>1. tick' = NoTick /\ UNCHANGED <<status, gone, pending, file, settles, unheard, told>>
    BY <1>4 DEF WakeSkipped
  <2>2. TypeOK'
    BY <2>1, <1>p, <1>n DEF TypeIInv, TypeOK
  <2> QED BY <2>1, <2>2, <1>p DEF TypeIInv, Exists
<1>5. CASE Age
  <2>1. pending' \in [Task -> Wakes]
    BY <1>5, NoFileTyped DEF Age, TypeIInv, TypeOK, Wakes
  <2>2. ASSUME NEW f \in File, file[f] # NoFile
        PROVE  file'[f] \in Files /\ file'[f].task = file[f].task
    <3>1. file[f] \in Files /\ file[f].wake \in Wakes
      BY DEF TypeIInv, TypeOK, Files
    <3>2. file'[f] = [file[f] EXCEPT !.wake.stale = TRUE]
      BY <1>5, <2>2 DEF Age
    <3>3. file'[f] = [file[f] EXCEPT !.wake = [file[f].wake EXCEPT !.stale = TRUE]]
      BY <3>2
    <3>4. PICK w : w = [file[f].wake EXCEPT !.stale = TRUE]
      OBVIOUS
    <3>5. w \in Wakes
      BY <3>1, <3>4 DEF Wakes
    <3>6. file'[f] = [file[f] EXCEPT !.wake = w]
      BY <3>3, <3>4
    <3> QED BY <3>1, <3>5, <3>6 DEF Files
  <2>3. file' \in [File -> Files] /\ \A f \in File : file'[f] # NoFile => file[f] # NoFile
    BY <1>5, <2>2, NoFileTyped DEF Age
  <2>4. UNCHANGED <<status, gone, tick, settles, told>> /\ unheard' = {}
    BY <1>5 DEF Age
  <2>5. TypeOK'
    BY <2>1, <2>3, <2>4, <1>p DEF TypeIInv, TypeOK
  <2> QED BY <2>2, <2>3, <2>4, <2>5, <1>p DEF TypeIInv, Exists
<1> QED BY <1>1, <1>2, <1>3, <1>4, <1>5 DEF Outside

LEMMA NextCases ==
  ASSUME Next
  PROVE  \/ Outside
         \/ \E p \in Proc : Forgets(p) \/ PutBack(p) \/ List(p) \/ Take(p) \/ Deliver(p)
  BY DEF Next, Step, Outside, Forgets

LEMMA TypesInit == Init => TypeIInv
<1> SUFFICES ASSUME Init PROVE TypeIInv
  OBVIOUS
<1>1. NoTick \in Changes
  BY DEF NoTick, Changes, Id
<1>2. 0 \in Id
  BY DEF Id
<1>3. TypeOK
  BY <1>1, <1>2, Idle, NoFileTyped DEF Init, TypeOK, Shaped
<1> QED BY <1>3, Idle DEF Init, TypeIInv, Exists

LEMMA TypesNext == TypeIInv /\ [Next]_vars => TypeIInv'
<1> SUFFICES ASSUME TypeIInv, [Next]_vars PROVE TypeIInv'
  OBVIOUS
<1>1. CASE UNCHANGED vars
  BY <1>1 DEF vars, TypeIInv, TypeOK, Exists
<1>2. CASE Next
  BY <1>2, NextCases, OutsideTyped, ForgetsTyped, ListenerTyped
<1> QED BY <1>1, <1>2

\* Types hold whatever listeners race, fail, die, are slow, purge and put back.
THEOREM TypesHold == Spec => []TypeOK
<1>1. Spec => []TypeIInv
  BY TypesInit, TypesNext, PTL DEF Spec
<1>2. TypeIInv => TypeOK
  BY DEF TypeIInv
<1> QED BY <1>1, <1>2, PTL

-----------------------------------------------------------------------------
(* Nothing is lost, where a task settles once: one that runs again could    *)
(* find the wake of its earlier stop put back over the newer one.           *)

\* Every wake and every claim tells what its task became.
Settled == \A t \in unheard : status[t] # "running" /\ t \notin gone
PendingTrue == \A t \in Task : pending[t] # NoWake =>
                  pending[t].st = status[t] /\ status[t] # "running"
FileTrue == \A f \in File : file[f] # NoFile =>
               file[f].wake.st = status[file[f].task] /\ status[file[f].task] # "running"
TellsTrue(c) == c.st = status[c.task] /\ status[c.task] # "running"
HeldTrue == \A q \in Proc :
               /\ \A c \in proc[q].held : TellsTrue(c)
               /\ proc[q].at = "judge" => TellsTrue(proc[q].cur)
\* A claim a listener remembers is of the file it claimed, or of none.
Recall(r) == r.back \cup r.held \cup {r.cur}
Linked == \A q \in Proc : \A c \in Recall(proc[q]) :
             c.f \in File /\ file[c.f] # NoFile => file[c.f].task = c.task
\* What is committed was told.
ToldOver == \A q \in Proc : proc[q].at = "commit" =>
               \A c \in proc[q].held : file[c.f] # NoFile => c.task \notin unheard
\* A change the sentinel has yet to record has no wake anywhere.
Ticking == tick # NoTick =>
              /\ status[tick.task] = tick.st
              /\ pending[tick.task] = NoWake /\ tick.task \notin unheard
              /\ \A f \in File : file[f].task # tick.task
FreshOnly == \A t \in unheard : ~pending[t].stale
                                /\ \A f \in File : file[f].task = t => ~file[f].wake.stale

Truth == Settled /\ PendingTrue /\ FileTrue /\ HeldTrue /\ Ticking /\ FreshOnly
LossIInv == TypeIInv /\ Truth /\ Linked /\ ToldOver /\ NoWakeLost

LEMMA LossInit == Init => LossIInv
<1> SUFFICES ASSUME Init PROVE LossIInv
  OBVIOUS
<1>1. TypeIInv
  BY TypesInit
<1>2. Truth
  BY DEF Init, Truth, Settled, PendingTrue, FileTrue, HeldTrue, Ticking, FreshOnly, IdleProc
<1>3. Linked
  BY NoClaimTyped DEF Init, Linked, Recall, IdleProc
<1>4. ToldOver /\ NoWakeLost
  BY DEF Init, ToldOver, NoWakeLost, IdleProc
<1> QED BY <1>1, <1>2, <1>3, <1>4 DEF LossIInv

\* A listener that remembers no more, while files only go, keeps its claims linked, true
\* and told.
LEMMA QuietLinked ==
  ASSUME LossIInv, NEW p \in Proc, Quiet(p), Thins, UNCHANGED status, unheard' \subseteq unheard
  PROVE  Linked' /\ HeldTrue' /\ ToldOver' /\ FileTrue'
<1> PICK s : Moves(p, s) /\ Recalls(proc[p], s) /\ Holds(proc[p], s)
  BY DEF Quiet
<1>1. \A q \in Proc : proc'[q] = IF q = p THEN s ELSE proc[q]
  BY DEF Moves, LossIInv, TypeIInv, TypeOK
<1>2. Linked'
  BY <1>1 DEF Linked, LossIInv, Recall, Recalls, Thins
<1>3. HeldTrue'
  BY <1>1 DEF HeldTrue, TellsTrue, LossIInv, Truth, Holds
<1>4. \A q \in Proc : \A c \in proc[q].held : c.f \in File
  BY DEF LossIInv, TypeIInv, Shaped, Real
<1>5. ToldOver'
  BY <1>1, <1>4 DEF ToldOver, LossIInv, Holds, Thins
<1>6. FileTrue'
  BY DEF FileTrue, LossIInv, Truth, Thins
<1> QED BY <1>2, <1>3, <1>5, <1>6

\* The files that listeners remove: told, stale, of a task that is gone, or of one whose
\* wake waits as well.
LEMMA Spares ==
  ASSUME LossIInv, NEW p \in Proc, Forgets(p), NEW f \in File, file[f] # NoFile, file'[f] = NoFile
  PROVE  file[f].task \notin unheard \/ file[f].wake.stale \/ pending[file[f].task] # NoWake
<1>f. file \in [File -> Files]
  BY DEF LossIInv, TypeIInv, TypeOK
<1>1. CASE Stat(p)
  <2>1. PICK c \in proc[p].back : pending[c.task] # NoWake /\ file' = Removed(c.f)
    BY <1>1 DEF Stat
  <2>2. c.f = f
    BY <2>1, <1>f DEF Removed
  <2>3. file[f].task = c.task
    BY <2>2 DEF LossIInv, Linked, Recall
  <2> QED BY <2>1, <2>3
<1>2. CASE AllBack(p) \/ Pick(p) \/ Keep(p) \/ NothingHeld(p) \/ DeliverFails(p)
  BY <1>2 DEF AllBack, Pick, Keep, NothingHeld, DeliverFails
<1>3. CASE Discard(p)
  <2> PICK c : c = proc[p].cur
    OBVIOUS
  <2>1. /\ file' = Removed(c.f) /\ proc[p].at = "judge"
        /\ Exists(c.f) => MayBeOld(c)
    BY <1>3 DEF Discard
  <2>2. c.f = f
    BY <2>1, <1>f DEF Removed
  <2>3. file[f].task = c.task /\ TellsTrue(c)
    BY <2>1, <2>2 DEF LossIInv, Linked, Recall, Truth, HeldTrue
  <2>4. MayBeOld(c)
    BY <2>1, <2>2 DEF Exists
  <2> QED BY <2>2, <2>3, <2>4 DEF MayBeOld, TellsTrue, LossIInv, Truth, Settled
<1>4. CASE Purge(p)
  BY <1>4, <1>f DEF Purge, Removed
<1>5. CASE Commit(p)
  <2>1. PICK c \in proc[p].held : file' = Removed(c.f)
    BY <1>5 DEF Commit
  <2>2. c.f = f
    BY <2>1, <1>f DEF Removed
  <2>3. c.task \notin unheard /\ file[f].task = c.task
    BY <1>5, <2>2 DEF Commit, LossIInv, ToldOver, Linked, Recall
  <2> QED BY <2>3
<1>6. CASE Die(p)
  <2>1. file'[f] = IF file[f].by = p THEN [file[f] EXCEPT !.by = None] ELSE file[f]
    BY <1>6 DEF Die
  <2>2. file[f].task \in Task /\ file[f] \in Files
    BY <1>f DEF LossIInv, TypeIInv, Exists
  <2>3. file'[f].task = file[f].task
    BY <2>1, <2>2 DEF Files
  <2> QED BY <2>2, <2>3, NoFileTyped, WakeQueueAssumption
<1> QED BY <1>1, <1>2, <1>3, <1>4, <1>5, <1>6 DEF Forgets

LEMMA ForgetsLoss ==
  ASSUME LossIInv, NEW p \in Proc, Forgets(p)
  PROVE  LossIInv'
<1>1. /\ Thins /\ Quiet(p)
      /\ UNCHANGED <<status, gone, tick, pending, settles, unheard, told>>
  BY ForgetsThins DEF LossIInv
<1>2. TypeIInv'
  BY ForgetsTyped DEF LossIInv
<1>3. Linked' /\ HeldTrue' /\ ToldOver' /\ FileTrue'
  BY <1>1, QuietLinked
<1>4. Settled' /\ PendingTrue'
  BY <1>1 DEF LossIInv, Truth, Settled, PendingTrue
<1>5. Ticking'
  BY <1>1, NoFileTyped, WakeQueueAssumption DEF LossIInv, TypeIInv, Truth, Ticking, Thins
<1>6. FreshOnly'
  <2>1. ASSUME NEW t \in unheard, NEW f \in File, file'[f].task = t
        PROVE  ~file'[f].wake.stale
    <3>1. t \in Task
      BY DEF LossIInv, TypeIInv, TypeOK
    <3>2. file'[f] # NoFile
      BY <2>1, <3>1, NoFileTyped, WakeQueueAssumption
    <3>3. file[f].task = t /\ file'[f].wake = file[f].wake
      BY <1>1, <2>1, <3>2 DEF Thins
    <3> QED BY <3>3 DEF LossIInv, Truth, FreshOnly
  <2> QED BY <1>1, <2>1 DEF LossIInv, Truth, FreshOnly
<1>7. ASSUME NEW t \in unheard
      PROVE  \/ pending[t].st = status[t] /\ ~pending[t].stale
             \/ \E f \in File : file'[f].task = t /\ file'[f].wake.st = status[t] /\ ~file'[f].wake.stale
  <2>t. t \in Task
    BY DEF LossIInv, TypeIInv, TypeOK
  <2>1. CASE pending[t] # NoWake
    BY <2>1, <2>t DEF LossIInv, Truth, PendingTrue, FreshOnly
  <2>2. CASE pending[t] = NoWake
    <3>1. pending[t].st # status[t]
      BY <2>2, <2>t, NoFileTyped, WakeQueueAssumption DEF LossIInv, TypeIInv, TypeOK
    <3>2. PICK f \in File : file[f].task = t /\ file[f].wake.st = status[t] /\ ~file[f].wake.stale
      BY <3>1 DEF LossIInv, NoWakeLost
    <3>3. file[f] # NoFile
      BY <3>2, <2>t, NoFileTyped, WakeQueueAssumption
    <3>4. file'[f] # NoFile
      BY <2>2, <3>2, <3>3, Spares
    <3> QED BY <1>1, <3>2, <3>4 DEF Thins
  <2> QED BY <2>1, <2>2
<1>8. NoWakeLost'
  BY <1>1, <1>7 DEF NoWakeLost
<1> QED BY <1>2, <1>3, <1>4, <1>5, <1>6, <1>8 DEF LossIInv, Truth

LEMMA PutBackLoss ==
  ASSUME LossIInv, NEW p \in Proc, PutBack(p)
  PROVE  LossIInv'
<1>1. Quiet(p) /\ PutsBack(p) /\ Thins
  BY PutBackMoves DEF LossIInv
<1>2. TypeIInv'
  BY ListenerTyped DEF LossIInv
<1>u. UNCHANGED <<status, gone, tick, deaths, settles, unheard, told>>
  BY <1>1 DEF PutsBack
<1>3. Linked' /\ HeldTrue' /\ ToldOver' /\ FileTrue'
  BY <1>1, <1>u, QuietLinked
<1>4. PICK c : c = proc[p].cur /\ Real(c)
  BY <1>1 DEF PutsBack
<1>5. CASE ~Exists(c.f)
  <2>1. UNCHANGED <<pending, file>>
    BY <1>1, <1>4, <1>5 DEF PutsBack
  <2>2. Truth' /\ NoWakeLost'
    BY <2>1, <1>u, <1>3 DEF LossIInv, Truth, Settled, PendingTrue, Ticking, FreshOnly, NoWakeLost
  <2> QED BY <1>2, <1>3, <2>2 DEF LossIInv
<1>6. CASE Exists(c.f)
  <2>1. /\ file' = Removed(c.f) /\ file[c.f] # NoFile
        /\ pending' = [pending EXCEPT ![c.task] = file[c.f].wake]
    BY <1>1, <1>4, <1>6 DEF PutsBack, Exists
  <2>2. file[c.f].task = c.task /\ c.task \in Task /\ c.f \in File
    BY <1>4, <2>1 DEF LossIInv, Linked, Recall, Real
  <2>3. file[c.f].wake.st = status[c.task] /\ status[c.task] # "running"
    BY <2>1, <2>2 DEF LossIInv, Truth, FileTrue
  <2>4. c.task \in unheard => ~file[c.f].wake.stale
    BY <2>2 DEF LossIInv, Truth, FreshOnly
  <2>5. /\ \A t \in Task : pending'[t] = IF t = c.task THEN file[c.f].wake ELSE pending[t]
        /\ \A f \in File : file'[f] = IF f = c.f THEN NoFile ELSE file[f]
    BY <2>1, <2>2 DEF Removed, LossIInv, TypeIInv, TypeOK
  <2>6. Settled' /\ PendingTrue'
    BY <1>u, <2>3, <2>5 DEF LossIInv, Truth, Settled, PendingTrue
  <2>7. Ticking'
    BY <1>u, <2>2, <2>5, NoFileTyped, WakeQueueAssumption
       DEF LossIInv, TypeIInv, Truth, Ticking
  <2>u. unheard \subseteq Task
    BY DEF LossIInv, TypeIInv, TypeOK
  <2>8. FreshOnly'
    BY <1>u, <2>u, <2>4, <2>5, NoFileTyped DEF LossIInv, Truth, FreshOnly
  <2>9. NoWakeLost'
    <3>1. ASSUME NEW t \in unheard
          PROVE  \/ pending'[t].st = status[t] /\ ~pending'[t].stale
                 \/ \E f \in File : /\ file'[f].task = t /\ file'[f].wake.st = status[t]
                                    /\ ~file'[f].wake.stale
      <4>1. CASE t = c.task
        BY <4>1, <2>u, <2>3, <2>4, <2>5
      <4>2. CASE t # c.task
        BY <4>2, <2>u, <2>2, <2>5 DEF LossIInv, NoWakeLost
      <4> QED BY <4>1, <4>2
    <3> QED BY <3>1, <1>u DEF NoWakeLost
  <2> QED BY <1>2, <1>3, <2>6, <2>7, <2>8, <2>9 DEF LossIInv, Truth
<1> QED BY <1>5, <1>6

LEMMA ListLoss ==
  ASSUME LossIInv, NEW p \in Proc, List(p)
  PROVE  LossIInv'
<1> PICK s : /\ Moves(p, s) /\ s.at = "back" /\ s.held = {} /\ s.cur = NoClaim
             /\ \A c \in s.back : c.task = file[c.f].task
  BY ListMoves DEF LossIInv
<1>1. \A q \in Proc : proc'[q] = IF q = p THEN s ELSE proc[q]
  BY DEF Moves, LossIInv, TypeIInv, TypeOK
<1>2. TypeIInv'
  BY ListenerTyped DEF LossIInv
<1>3. UNCHANGED <<status, gone, tick, pending, file, deaths, settles, unheard, told>>
  BY DEF List
<1>4. Linked'
  BY <1>1, <1>3, NoClaimTyped DEF Linked, LossIInv, Recall
<1>5. HeldTrue' /\ ToldOver'
  BY <1>1, <1>3 DEF HeldTrue, TellsTrue, ToldOver, LossIInv, Truth
<1>6. /\ Settled' /\ PendingTrue' /\ FileTrue' /\ Ticking' /\ FreshOnly' /\ NoWakeLost'
  BY <1>3 DEF LossIInv, Truth, Settled, PendingTrue, FileTrue, Ticking, FreshOnly, NoWakeLost
<1> QED BY <1>2, <1>4, <1>5, <1>6 DEF LossIInv, Truth

LEMMA TakeLoss ==
  ASSUME LossIInv, NEW p \in Proc, Take(p)
  PROVE  LossIInv'
<1>1. TypeIInv'
  BY ListenerTyped DEF LossIInv
<1>u. UNCHANGED <<status, gone, tick, deaths, settles, unheard, told>>
  BY DEF Take
<1>2. CASE Quiet(p) /\ UNCHANGED <<pending, file>>
  <2>1. Thins
    BY <1>2, RemovedThins DEF LossIInv
  <2>2. Linked' /\ HeldTrue' /\ ToldOver' /\ FileTrue'
    BY <1>u, <1>2, <2>1, QuietLinked
  <2>3. Settled' /\ PendingTrue' /\ Ticking' /\ FreshOnly' /\ NoWakeLost'
    BY <1>u, <1>2 DEF LossIInv, Truth, Settled, PendingTrue, Ticking, FreshOnly, NoWakeLost
  <2> QED BY <1>1, <2>2, <2>3 DEF LossIInv, Truth
<1>3. ASSUME NEW f \in File, NEW s, Moves(p, s), Takes(p, f, s)
      PROVE  LossIInv'
  <2>t. PICK t : t = proc[p].cur.task
    OBVIOUS
  <2>x. PICK x : x = [task |-> t, wake |-> pending[t], by |-> p]
    OBVIOUS
  <2>1. /\ t \in Task /\ Fresh(f) /\ pending[t] # NoWake
        /\ file' = [file EXCEPT ![f] = x]
        /\ pending' = [pending EXCEPT ![t] = NoWake]
        /\ s.at = "judge" /\ s.back = proc[p].back /\ s.held = proc[p].held
        /\ s.cur.f = f /\ s.cur.task = t /\ s.cur.st = pending[t].st
    BY <1>3, <2>t, <2>x DEF Takes
  <2>2. x.task = t /\ x.wake = pending[t] /\ x # NoFile
    BY <2>1, <2>x, NoFileTyped, WakeQueueAssumption
  <2>3. /\ \A g \in File : file'[g] = IF g = f THEN x ELSE file[g]
        /\ \A u \in Task : pending'[u] = IF u = t THEN NoWake ELSE pending[u]
        /\ \A q \in Proc : proc'[q] = IF q = p THEN s ELSE proc[q]
    BY <1>3, <2>1 DEF Moves, LossIInv, TypeIInv, TypeOK
  <2>4. file[f] = NoFile /\ \A q \in Proc : \A c \in Recall(proc[q]) : c.f # f
    BY <2>1 DEF Fresh, Exists, Remembered, Recall
  <2>5. pending[t].st = status[t] /\ status[t] # "running"
    BY <2>1 DEF LossIInv, Truth, PendingTrue
  <2>6. Linked'
    <3>1. ASSUME NEW q \in Proc, NEW c \in Recall(proc'[q]), c.f \in File, file'[c.f] # NoFile
          PROVE  file'[c.f].task = c.task
      <4>1. CASE c \in Recall(proc[q])
        BY <3>1, <4>1, <2>3, <2>4 DEF LossIInv, Linked
      <4>2. CASE c \notin Recall(proc[q])
        <5>1. q = p /\ c = s.cur
          BY <3>1, <4>2, <2>1, <2>3 DEF Recall
        <5> QED BY <5>1, <2>1, <2>2, <2>3
      <4> QED BY <4>1, <4>2
    <3> QED BY <3>1 DEF Linked
  <2>7. HeldTrue'
    BY <1>u, <2>1, <2>3, <2>5 DEF HeldTrue, TellsTrue, LossIInv, Truth
  <2>8. ToldOver'
    <3>1. ASSUME NEW q \in Proc, proc'[q].at = "commit", NEW c \in proc'[q].held, file'[c.f] # NoFile
          PROVE  c.task \notin unheard
      <4>1. q # p /\ proc'[q] = proc[q]
        BY <3>1, <2>1, <2>3
      <4>2. c.f # f /\ c.f \in File
        BY <3>1, <4>1, <2>4 DEF Recall, LossIInv, TypeIInv, Shaped, Real
      <4> QED BY <3>1, <4>1, <4>2, <2>3 DEF LossIInv, ToldOver
    <3> QED BY <3>1, <1>u DEF ToldOver
  <2>9. FileTrue'
    BY <1>u, <2>2, <2>3, <2>5 DEF FileTrue, LossIInv, Truth
  <2>10. Settled' /\ PendingTrue'
    BY <1>u, <2>3 DEF Settled, PendingTrue, LossIInv, Truth
  <2>11. Ticking'
    BY <1>u, <2>1, <2>2, <2>3 DEF Ticking, LossIInv, TypeIInv, Truth
  <2>w. unheard \subseteq Task
    BY DEF LossIInv, TypeIInv, TypeOK
  <2>12. FreshOnly'
    BY <1>u, <2>w, <2>2, <2>3, NoFileTyped DEF FreshOnly, LossIInv, Truth
  <2>13. NoWakeLost'
    <3>1. ASSUME NEW u \in unheard
          PROVE  \/ pending'[u].st = status[u] /\ ~pending'[u].stale
                 \/ \E g \in File : /\ file'[g].task = u /\ file'[g].wake.st = status[u]
                                    /\ ~file'[g].wake.stale
      <4>1. CASE u = t
        <5>1. file'[f].task = u /\ file'[f].wake.st = status[u] /\ ~file'[f].wake.stale
          BY <4>1, <2>2, <2>3, <2>5 DEF LossIInv, Truth, FreshOnly
        <5> QED BY <5>1
      <4>2. CASE u # t
        <5>1. CASE pending[u].st = status[u] /\ ~pending[u].stale
          BY <4>2, <5>1, <2>w, <2>3
        <5>2. CASE ~(pending[u].st = status[u] /\ ~pending[u].stale)
          <6>1. PICK g \in File : /\ file[g].task = u /\ file[g].wake.st = status[u]
                                  /\ ~file[g].wake.stale
            BY <5>2 DEF LossIInv, NoWakeLost
          <6>2. g # f
            BY <6>1, <2>w, <2>4, NoFileTyped, WakeQueueAssumption
          <6> QED BY <6>1, <6>2, <2>3
        <5> QED BY <5>1, <5>2
      <4> QED BY <4>1, <4>2
    <3> QED BY <3>1, <1>u DEF NoWakeLost
  <2> QED BY <1>1, <2>6, <2>7, <2>8, <2>9, <2>10, <2>11, <2>12, <2>13 DEF LossIInv, Truth
<1> QED BY <1>2, <1>3, TakeMoves DEF LossIInv

LEMMA DeliverLoss ==
  ASSUME LossIInv, NEW p \in Proc, Deliver(p)
  PROVE  LossIInv'
<1> PICK s : /\ Moves(p, s) /\ Recalls(proc[p], s)
             /\ s.at = "commit" /\ s.held = proc[p].held
  BY DeliverMoves DEF LossIInv
<1>1. \A q \in Proc : proc'[q] = IF q = p THEN s ELSE proc[q]
  BY DEF Moves, LossIInv, TypeIInv, TypeOK
<1>2. TypeIInv'
  BY ListenerTyped DEF LossIInv
<1>3. /\ UNCHANGED <<status, gone, tick, pending, file, deaths, settles>>
      /\ unheard' = unheard \ {c.task : c \in {d \in proc[p].held : d.st = status[d.task]}}
  BY DEF Deliver
<1>4. unheard' \subseteq unheard /\ \A c \in proc[p].held : c.task \notin unheard'
  BY <1>3 DEF LossIInv, Truth, HeldTrue, TellsTrue
<1>5. Linked'
  BY <1>1, <1>3 DEF Linked, LossIInv, Recall, Recalls
<1>6. HeldTrue'
  BY <1>1, <1>3 DEF HeldTrue, TellsTrue, LossIInv, Truth
<1>7. ToldOver'
  BY <1>1, <1>3, <1>4 DEF ToldOver, LossIInv
<1>8. Settled' /\ PendingTrue' /\ FileTrue' /\ Ticking' /\ FreshOnly' /\ NoWakeLost'
  BY <1>3, <1>4 DEF LossIInv, Truth, Settled, PendingTrue, FileTrue, Ticking, FreshOnly, NoWakeLost
<1> QED BY <1>2, <1>5, <1>6, <1>7, <1>8 DEF LossIInv, Truth

LEMMA SettleLoss ==
  ASSUME LossIInv, NEW t \in Task, NEW x \in Status, Settle(t, x)
  PROVE  LossIInv'
<1>1. TypeIInv'
  BY OutsideTyped DEF Outside, LossIInv
<1>2. /\ tick = NoTick /\ status[t] = "running" /\ t \notin gone
      /\ status' = [status EXCEPT ![t] = x]
      /\ tick'.task = t /\ tick'.st = x
      /\ UNCHANGED <<gone, pending, file, proc, deaths, unheard, told>>
  BY DEF Settle
<1>3. \A u \in Task : status'[u] = IF u = t THEN x ELSE status[u]
  BY <1>2 DEF LossIInv, TypeIInv, TypeOK
<1>4. t \notin unheard /\ pending[t] = NoWake /\ x # "running"
  BY <1>2, WakeQueueAssumption DEF LossIInv, Truth, Settled, PendingTrue
<1>5. \A f \in File : file[f].task # t
  BY <1>2, NoFileTyped, WakeQueueAssumption DEF LossIInv, Truth, FileTrue
<1>u. unheard \subseteq Task
  BY DEF LossIInv, TypeIInv, TypeOK
<1>6. Settled' /\ PendingTrue'
  BY <1>u, <1>2, <1>3, <1>4 DEF LossIInv, Truth, Settled, PendingTrue
<1>7. FileTrue'
  BY <1>2, <1>3, <1>5 DEF LossIInv, TypeIInv, Exists, Truth, FileTrue
<1>8. HeldTrue'
  <2>1. ASSUME NEW c, c.task \in Task, TellsTrue(c)
        PROVE  TellsTrue(c)'
    BY <1>2, <1>3, <2>1 DEF TellsTrue
  <2>2. \A q \in Proc : /\ \A c \in proc[q].held : c.task \in Task
                        /\ proc[q].at = "judge" => proc[q].cur.task \in Task
    BY DEF LossIInv, TypeIInv, Shaped, Real
  <2> QED BY <1>2, <2>1, <2>2 DEF LossIInv, Truth, HeldTrue
<1>9. Ticking'
  BY <1>2, <1>3, <1>4, <1>5 DEF Ticking
<1>10. FreshOnly' /\ Linked' /\ ToldOver'
  BY <1>2 DEF LossIInv, Truth, FreshOnly, Linked, ToldOver
<1>11. NoWakeLost'
  BY <1>u, <1>2, <1>3, <1>4 DEF LossIInv, NoWakeLost
<1> QED BY <1>1, <1>6, <1>7, <1>8, <1>9, <1>10, <1>11 DEF LossIInv, Truth

LEMMA RecordLoss ==
  ASSUME LossIInv, RecordWake
  PROVE  LossIInv'
<1>1. TypeIInv'
  BY OutsideTyped DEF Outside, LossIInv
<1>t. PICK t : t = tick.task
  OBVIOUS
<1>w. PICK w : w = [st |-> tick.st, id |-> tick.id, stale |-> FALSE]
  OBVIOUS
<1>2. /\ tick # NoTick /\ tick' = NoTick
      /\ pending' = [pending EXCEPT ![t] = w]
      /\ unheard' = IF status[t] = tick.st /\ t \notin gone THEN unheard \cup {t} ELSE unheard
      /\ UNCHANGED <<status, gone, file, proc, deaths, settles, told>>
  BY <1>t, <1>w DEF RecordWake, Written
<1>3. /\ t \in Task /\ status[t] = tick.st /\ status[t] # "running"
      /\ \A f \in File : file[f].task # t
  BY <1>t, <1>2, WakeQueueAssumption DEF LossIInv, TypeIInv, Truth, Ticking
<1>4. w.st = status[t] /\ w.stale = FALSE
  BY <1>w, <1>3
<1>5. \A u \in Task : pending'[u] = IF u = t THEN w ELSE pending[u]
  BY <1>2, <1>3 DEF LossIInv, TypeIInv, TypeOK
<1>u. unheard \subseteq Task
  BY DEF LossIInv, TypeIInv, TypeOK
<1>6. Settled' /\ PendingTrue'
  BY <1>2, <1>3, <1>4, <1>5 DEF LossIInv, Truth, Settled, PendingTrue
<1>7. FileTrue' /\ HeldTrue' /\ Linked' /\ Ticking'
  BY <1>2 DEF LossIInv, Truth, FileTrue, HeldTrue, TellsTrue, Linked, Ticking
<1>8. ToldOver'
  <2>1. \A q \in Proc : \A c \in proc[q].held :
           file[c.f] # NoFile => c.f \in File /\ file[c.f].task = c.task
    BY DEF LossIInv, Linked, Recall, TypeIInv, Shaped, Real
  <2> QED BY <1>2, <1>3, <2>1 DEF LossIInv, ToldOver
<1>9. FreshOnly'
  BY <1>u, <1>2, <1>3, <1>4, <1>5 DEF LossIInv, Truth, FreshOnly
<1>10. NoWakeLost'
  <2>1. ASSUME NEW u \in unheard'
        PROVE  \/ pending'[u].st = status[u] /\ ~pending'[u].stale
               \/ \E g \in File : /\ file[g].task = u /\ file[g].wake.st = status[u]
                                  /\ ~file[g].wake.stale
    <3>1. CASE u = t
      BY <3>1, <1>3, <1>4, <1>5
    <3>2. CASE u # t
      BY <3>2, <2>1, <1>u, <1>2, <1>5 DEF LossIInv, NoWakeLost
    <3> QED BY <3>1, <3>2
  <2> QED BY <1>2, <2>1 DEF NoWakeLost
<1> QED BY <1>1, <1>6, <1>7, <1>8, <1>9, <1>10 DEF LossIInv, Truth

LEMMA AgeLoss ==
  ASSUME LossIInv, Age
  PROVE  LossIInv'
<1>1. TypeIInv'
  BY OutsideTyped DEF Outside, LossIInv
<1>2. unheard' = {} /\ UNCHANGED <<status, gone, tick, proc, deaths, settles, told>>
  BY DEF Age
<1>3. ASSUME NEW t \in Task
      PROVE  /\ pending[t] = NoWake => pending'[t] = NoWake
             /\ pending[t] # NoWake => pending'[t].st = pending[t].st
  BY DEF Age, LossIInv, TypeIInv, TypeOK, Wakes
<1>4. ASSUME NEW f \in File
      PROVE  /\ file[f] = NoFile => file'[f] = NoFile
             /\ file[f] # NoFile => /\ file'[f].task = file[f].task
                                    /\ file'[f].wake.st = file[f].wake.st
  <2>1. file[f] = NoFile => file'[f] = NoFile
    BY DEF Age
  <2>2. ASSUME file[f] # NoFile
        PROVE  file'[f].task = file[f].task /\ file'[f].wake.st = file[f].wake.st
    <3>1. file[f] \in Files /\ file[f].wake \in Wakes
      BY DEF LossIInv, TypeIInv, TypeOK, Files
    <3>2. file'[f] = [file[f] EXCEPT !.wake = [file[f].wake EXCEPT !.stale = TRUE]]
      BY <2>2 DEF Age
    <3>3. file'[f].task = file[f].task /\ file'[f].wake = [file[f].wake EXCEPT !.stale = TRUE]
      BY <3>1, <3>2 DEF Files
    <3> QED BY <3>1, <3>3 DEF Wakes
  <2> QED BY <2>1, <2>2
<1>5. Settled' /\ FreshOnly' /\ NoWakeLost' /\ ToldOver'
  BY <1>2 DEF Settled, FreshOnly, NoWakeLost, ToldOver
<1>6. PendingTrue' /\ FileTrue'
  BY <1>2, <1>3, <1>4 DEF LossIInv, Truth, PendingTrue, FileTrue
<1>7. HeldTrue'
  BY <1>2 DEF LossIInv, Truth, HeldTrue, TellsTrue
<1>8. Linked'
  BY <1>2, <1>4 DEF LossIInv, Linked
<1>9. Ticking'
  BY <1>2, <1>3, <1>4, NoFileTyped, WakeQueueAssumption DEF LossIInv, TypeIInv, Truth, Ticking
<1> QED BY <1>1, <1>5, <1>6, <1>7, <1>8, <1>9 DEF LossIInv, Truth

LEMMA OutsideLoss ==
  ASSUME LossIInv, Outside, "reprompt" \notin Event
  PROVE  LossIInv'
<1>1. TypeIInv'
  BY OutsideTyped DEF LossIInv
<1>2. ASSUME NEW t \in Task, Retire(t)
      PROVE  LossIInv'
  <2>1. /\ unheard' = unheard \ {t} /\ gone' = gone \cup {t}
        /\ UNCHANGED <<status, tick, pending, file, proc, deaths, settles, told>>
    BY <1>2 DEF Retire
  <2>2. Truth'
    BY <2>1 DEF LossIInv, Truth, Settled, PendingTrue, FileTrue, HeldTrue, TellsTrue,
                Ticking, FreshOnly
  <2>3. Linked' /\ ToldOver' /\ NoWakeLost'
    BY <2>1 DEF LossIInv, Linked, ToldOver, NoWakeLost
  <2> QED BY <1>1, <2>2, <2>3 DEF LossIInv
<1>3. CASE WakeSkipped
  <2>1. /\ tick' = NoTick
        /\ UNCHANGED <<status, gone, pending, file, proc, deaths, settles, unheard, told>>
    BY <1>3 DEF WakeSkipped
  <2>2. Truth'
    BY <2>1 DEF LossIInv, Truth, Settled, PendingTrue, FileTrue, HeldTrue, TellsTrue,
                Ticking, FreshOnly
  <2>3. Linked' /\ ToldOver' /\ NoWakeLost'
    BY <2>1 DEF LossIInv, Linked, ToldOver, NoWakeLost
  <2> QED BY <1>1, <2>2, <2>3 DEF LossIInv
<1> QED BY <1>2, <1>3, SettleLoss, RecordLoss, AgeLoss DEF Outside, Reprompt

\* As long as no task runs again, a wake that is still news is on disk until a listener
\* has handed it on (claim.go, wake.go): however many listen, fail, die, are taken for
\* dead while they deliver, purge and put back.
THEOREM NothingLost == ASSUME "reprompt" \notin Event
                       PROVE  Spec => []NoWakeLost
<1>1. Init => LossIInv
  BY LossInit
<1>2. LossIInv /\ [Next]_vars => LossIInv'
  <2> SUFFICES ASSUME LossIInv, [Next]_vars PROVE LossIInv'
    OBVIOUS
  <2>1. CASE UNCHANGED vars
    <3>1. TypeIInv'
      BY <2>1, TypesNext DEF LossIInv
    <3>2. Truth'
      BY <2>1 DEF vars, LossIInv, Truth, Settled, PendingTrue, FileTrue, HeldTrue, TellsTrue,
                  Ticking, FreshOnly
    <3>3. Linked' /\ ToldOver' /\ NoWakeLost'
      BY <2>1 DEF vars, LossIInv, Linked, ToldOver, NoWakeLost
    <3> QED BY <3>1, <3>2, <3>3 DEF LossIInv
  <2>2. CASE Next
    BY <2>2, NextCases, OutsideLoss, ForgetsLoss, PutBackLoss, ListLoss, TakeLoss, DeliverLoss
  <2> QED BY <2>1, <2>2
<1>3. LossIInv => NoWakeLost
  BY DEF LossIInv
<1> QED BY <1>1, <1>2, <1>3, PTL DEF Spec

-----------------------------------------------------------------------------
(* Told once, as long as no listener dies and none is taken for dead: every *)
(* claimed file is remembered by the one listener that claimed it, the      *)
(* numbers of all wakes on disk differ, and no listener that has yet to     *)
(* deliver remembers one that was told.                                     *)

\* What a listener remembers where it is.
Tidy(p, r) ==
  /\ r.at = "idle" => r.held = {}
  /\ r.at \notin {"back", "release"} => r.back = {}
  /\ r.at = "release" /\ p \notin Purger => r.held = {}
  /\ r.at \in {"back", "release"} => r.cur = NoClaim \/ r.cur \in r.back
  /\ r.at = "judge" => r.cur \notin r.back \cup r.held
  /\ r.back \cap r.held = {}

Number == 1..settles
Numbered ==
  /\ told \subseteq Number
  /\ \A t \in Task : pending[t] # NoWake => pending[t].id \in Number \ told
  /\ \A t, u \in Task : t # u /\ pending[t] # NoWake /\ pending[u] # NoWake
                           => pending[t].id # pending[u].id
  /\ \A f \in File : file[f] # NoFile => file[f].wake.id \in Number
  /\ \A f, g \in File : f # g /\ file[f] # NoFile /\ file[g] # NoFile
                           => file[f].wake.id # file[g].wake.id
  /\ \A f \in File, t \in Task : file[f] # NoFile /\ pending[t] # NoWake
                           => file[f].wake.id # pending[t].id
TickNumbered ==
  tick # NoTick =>
    /\ tick.id \in Number \ told
    /\ \A t \in Task : pending[t] # NoWake => pending[t].id # tick.id
    /\ \A f \in File : file[f] # NoFile => file[f].wake.id # tick.id
Owned ==
  /\ \A f \in File : file[f] # NoFile =>
        file[f].by \in Proc /\ \E c \in Recall(proc[file[f].by]) : c.f = f
  /\ \A p \in Proc : \A c \in Recall(proc[p]) : c.f \in File =>
        file[c.f] # NoFile /\ file[c.f].by = p /\ c = Claim(c.f)
  /\ \A p \in Proc : Tidy(p, proc[p])
Untold == \A p \in Proc : proc[p].at # "commit" =>
             \A c \in Recall(proc[p]) : c.f \in File => c.id \notin told

Tell == Numbered /\ TickNumbered /\ Owned /\ Untold
TellIInv == TypeIInv /\ (deaths = 0 => Tell)

\* A step of listener p after which it remembers its claims except those in d, whose
\* files it removed.
LetsGo(p, d) ==
  /\ \A c \in d : c.f \in File /\ c \in Recall(proc[p])
  /\ \A f \in File : file'[f] = IF \E c \in d : c.f = f THEN NoFile ELSE file[f]
  /\ \A c : c.f \in File => (c \in Recall(proc'[p]) <=> c \in Recall(proc[p]) /\ c \notin d)
  /\ Tidy(p, proc'[p])
  /\ \A q \in Proc : q # p => proc'[q] = proc[q]

\* A listener that delivered forgets what it told before it does anything else.
Unsaid(p) == proc[p].at = "commit" /\ proc'[p].at # "commit" =>
                \A c \in Recall(proc'[p]) : c.f \notin File

LEMMA FieldsOf ==
  ASSUME NEW at, NEW names, NEW back, NEW held, NEW cur, NEW s,
         s = ProcRecord(at, names, back, held, cur)
  PROVE  s.at = at /\ s.back = back /\ s.held = held /\ s.cur = cur
  BY DEF ProcRecord

LEMMA GoneTo ==
  ASSUME TypeIInv, NEW p \in Proc, NEW s, proc' = [proc EXCEPT ![p] = s]
  PROVE  proc'[p] = s /\ \A q \in Proc : q # p => proc'[q] = proc[q]
  BY DEF TypeIInv, TypeOK

LEMMA GoesOn ==
  ASSUME TypeIInv, NEW p \in Proc, NEW r, r = proc[p], NEW s, proc' = [proc EXCEPT ![p] = s],
         UNCHANGED file, Tidy(p, s),
         \A c : c.f \in File => (c \in Recall(s) <=> c \in Recall(r))
  PROVE  LetsGo(p, {}) /\ proc'[p] = s
<1>1. proc'[p] = s /\ \A q \in Proc : q # p => proc'[q] = proc[q]
  BY GoneTo
<1>2. \A f \in File : file'[f] = IF \E c \in {} : c.f = f THEN NoFile ELSE file[f]
  OBVIOUS
<1>3. Tidy(p, proc'[p]) /\ Recall(proc'[p]) = Recall(s)
  BY <1>1
<1> QED BY <1>1, <1>2, <1>3 DEF LetsGo

LEMMA LeavesOne ==
  ASSUME TypeIInv, NEW p \in Proc, NEW r, r = proc[p], NEW s, proc' = [proc EXCEPT ![p] = s],
         NEW e \in Recall(r), e.f \in File, file' = Removed(e.f), Tidy(p, s),
         \A c : c.f \in File => (c \in Recall(s) <=> c \in Recall(r) /\ c # e)
  PROVE  LetsGo(p, {e}) /\ proc'[p] = s
<1>1. proc'[p] = s /\ \A q \in Proc : q # p => proc'[q] = proc[q]
  BY GoneTo
<1>2. \A f \in File : file'[f] = IF \E c \in {e} : c.f = f THEN NoFile ELSE file[f]
  BY DEF TypeIInv, TypeOK, Removed
<1>3. Tidy(p, proc'[p]) /\ Recall(proc'[p]) = Recall(s)
  BY <1>1
<1> QED BY <1>1, <1>2, <1>3 DEF LetsGo

LEMMA IdleTidy ==
  ASSUME NEW p PROVE Tidy(p, IdleProc) /\ \A c \in Recall(IdleProc) : c.f \notin File
  BY NoClaimTyped DEF IdleProc, Tidy, Recall

LEMMA IdleGo ==
  ASSUME TypeIInv, NEW p \in Proc, proc' = [proc EXCEPT ![p] = IdleProc], UNCHANGED file,
         proc[p].back = {}, proc[p].held = {}, proc[p].cur = NoClaim
  PROVE  LetsGo(p, {}) /\ proc'[p].at = "idle"
<1>1. \A c \in Recall(proc[p]) : c.f \notin File
  BY NoClaimTyped DEF Recall
<1>2. LetsGo(p, {}) /\ proc'[p] = IdleProc
  BY <1>1, IdleTidy, GoesOn
<1> QED BY <1>2 DEF IdleProc

LEMMA KeepGo ==
  ASSUME TypeIInv, NEW p \in Proc, Tidy(p, proc[p]), Keep(p)
  PROVE  LetsGo(p, {}) /\ proc'[p].at = "claim"
<1> PICK r : r = proc[p]
  OBVIOUS
<1>r. Shaped(r) /\ IsProc(r) /\ Tidy(p, r)
  BY ProcFields DEF TypeIInv
<1> PICK s : s = [r EXCEPT !.at = "claim", !.cur = NoClaim, !.held = r.held \cup {r.cur}]
  OBVIOUS
<1>1. proc' = [proc EXCEPT ![p] = s] /\ r.at = "judge" /\ UNCHANGED file
  BY Zenon DEF Keep, Goto
<1>2. s = ProcRecord("claim", r.names, r.back, r.held \cup {r.cur}, NoClaim)
  BY <1>r, KeptTo
<1>3. s.at = "claim" /\ s.back = r.back /\ s.held = r.held \cup {r.cur} /\ s.cur = NoClaim
  BY <1>2, FieldsOf
<1>4. Tidy(p, s)
  BY <1>1, <1>3, <1>r DEF Tidy
<1>5. \A c : c.f \in File => (c \in Recall(s) <=> c \in Recall(r))
  BY <1>3, NoClaimTyped DEF Recall
<1>6. LetsGo(p, {}) /\ proc'[p] = s
  BY <1>1, <1>4, <1>5, GoesOn
<1> QED BY <1>3, <1>6

\* The claim is dropped: it is no news, or it is purged.
Dropped(r) == [r EXCEPT !.at = "claim", !.cur = NoClaim]

LEMMA DropGo ==
  ASSUME TypeIInv, NEW p \in Proc, Tidy(p, proc[p]), NEW r, r = proc[p], r.at = "judge",
         NEW s, s = Dropped(r),
         proc' = [proc EXCEPT ![p] = s], file' = Removed(r.cur.f)
  PROVE  LetsGo(p, {r.cur}) /\ proc'[p].at = "claim"
<1>r. Shaped(r) /\ IsProc(r) /\ Tidy(p, r)
  BY ProcFields DEF TypeIInv
<1> PICK e : e = r.cur
  OBVIOUS
<1>2. s = ProcRecord("claim", r.names, r.back, r.held, NoClaim)
  BY <1>r, AtCurTo DEF Dropped
<1>3. s.at = "claim" /\ s.back = r.back /\ s.held = r.held /\ s.cur = NoClaim
  BY <1>2, FieldsOf
<1>4. Tidy(p, s)
  BY <1>3, <1>r DEF Tidy
<1>5. \A c : c.f \in File => (c \in Recall(s) <=> c \in Recall(r) /\ c # e)
  BY <1>3, <1>r, NoClaimTyped DEF Recall, Tidy
<1>6. e.f \in File /\ e \in Recall(r) /\ file' = Removed(e.f)
  BY <1>r DEF Shaped, Real, Recall
<1>7. LetsGo(p, {e}) /\ proc'[p] = s
  BY <1>4, <1>5, <1>6, LeavesOne
<1> QED BY <1>3, <1>7

LEMMA DiscardGo ==
  ASSUME TypeIInv, NEW p \in Proc, Tidy(p, proc[p]), Discard(p)
  PROVE  LetsGo(p, {proc[p].cur}) /\ proc'[p].at = "claim"
<1> PICK r : r = proc[p]
  OBVIOUS
<1> PICK s : s = Dropped(r)
  OBVIOUS
<1>1. proc' = [proc EXCEPT ![p] = s] /\ r.at = "judge" /\ file' = Removed(r.cur.f)
  BY Zenon DEF Discard, Goto, Dropped
<1> QED BY <1>1, DropGo

LEMMA PurgeGo ==
  ASSUME TypeIInv, NEW p \in Proc, Tidy(p, proc[p]), Purge(p)
  PROVE  \E d : LetsGo(p, d)
<1> PICK r : r = proc[p]
  OBVIOUS
<1>r. Shaped(r) /\ IsProc(r) /\ Tidy(p, r)
  BY ProcFields DEF TypeIInv
<1>1. CASE file[r.cur.f].wake.stale
  <2> PICK s : s = Dropped(r)
    OBVIOUS
  <2>1. proc' = [proc EXCEPT ![p] = s] /\ r.at = "judge" /\ file' = Removed(r.cur.f)
    BY Zenon, <1>1 DEF Purge, Goto, Dropped
  <2> QED BY <2>1, DropGo
<1>2. CASE ~file[r.cur.f].wake.stale
  <2> PICK s : s = [r EXCEPT !.at = "release", !.cur = NoClaim, !.back = {r.cur}]
    OBVIOUS
  <2>1. proc' = [proc EXCEPT ![p] = s] /\ r.at = "judge" /\ p \in Purger /\ UNCHANGED file
    BY Zenon, <1>2 DEF Purge, Goto
  <2>2. s = ProcRecord("release", r.names, {r.cur}, r.held, NoClaim)
    BY <1>r, PurgedTo
  <2>3. s.at = "release" /\ s.back = {r.cur} /\ s.held = r.held /\ s.cur = NoClaim
    BY <2>2, FieldsOf
  <2>4. Tidy(p, s)
    BY <2>1, <2>3, <1>r DEF Tidy
  <2>5. \A c : c.f \in File => (c \in Recall(s) <=> c \in Recall(r))
    BY <2>1, <2>3, <1>r, NoClaimTyped DEF Recall, Tidy
  <2>6. LetsGo(p, {}) /\ proc'[p] = s
    BY <2>1, <2>4, <2>5, GoesOn
  <2> QED BY <2>3, <2>6
<1> QED BY <1>1, <1>2

LEMMA AllBackGo ==
  ASSUME TypeIInv, NEW p \in Proc, Tidy(p, proc[p]), AllBack(p)
  PROVE  LetsGo(p, {}) /\ proc'[p].at \in {"claim", "idle"}
<1> PICK r : r = proc[p]
  OBVIOUS
<1>r. Shaped(r) /\ IsProc(r) /\ Tidy(p, r)
  BY ProcFields DEF TypeIInv
<1>b. /\ r.cur = NoClaim /\ r.back = {} /\ UNCHANGED file
      /\ r.at \in {"back", "release"}
  BY DEF AllBack
<1>1. CASE r.at = "back" \/ p \in Purger
  <2> PICK s : s = [r EXCEPT !.at = "claim"]
    OBVIOUS
  <2>1. proc' = [proc EXCEPT ![p] = s]
    BY Zenon, <1>1 DEF AllBack, Goto
  <2>2. s = ProcRecord("claim", r.names, r.back, r.held, r.cur)
    BY <1>r, AtTo
  <2>3. s.at = "claim" /\ s.back = r.back /\ s.held = r.held /\ s.cur = r.cur
    BY <2>2, FieldsOf
  <2>4. Tidy(p, s)
    BY <1>b, <2>3 DEF Tidy
  <2>5. Recall(s) = Recall(r)
    BY <2>3 DEF Recall
  <2>6. LetsGo(p, {}) /\ proc'[p] = s
    BY <1>b, <2>1, <2>4, <2>5, GoesOn
  <2> QED BY <2>3, <2>6
<1>2. CASE ~(r.at = "back" \/ p \in Purger)
  <2>1. proc' = [proc EXCEPT ![p] = IdleProc]
    BY Zenon, <1>2 DEF AllBack, Goto
  <2>2. r.held = {}
    BY <1>r, <1>b, <1>2 DEF Tidy
  <2> QED BY <1>b, <2>1, <2>2, IdleGo
<1> QED BY <1>1, <1>2

LEMMA PickGo ==
  ASSUME TypeIInv, NEW p \in Proc, Tidy(p, proc[p]), Pick(p)
  PROVE  /\ LetsGo(p, {})
         /\ proc'[p].at \in {"claim", "take"}
         /\ proc'[p].at = "take" /\ p \in Purger => \E t \in Task : pending[t].stale
<1> PICK r : r = proc[p]
  OBVIOUS
<1>r. Shaped(r) /\ IsProc(r) /\ IsClaim(r.cur) /\ Tidy(p, r)
  BY ProcFields DEF TypeIInv
<1>t. r.at = "claim" /\ r.cur = NoClaim /\ r.back = {} /\ UNCHANGED file
  BY <1>r DEF Pick, Shaped, Tidy
<1>p. PICK t \in r.names :
       proc' = [proc EXCEPT ![p] =
         IF p \in Purger /\ ~pending[t].stale
         THEN [r EXCEPT !.names = r.names \ {t}]
         ELSE [r EXCEPT !.at = "take", !.names = r.names \ {t}, !.cur.task = t]]
  BY Zenon DEF Pick, Goto
<1>n. PICK rest : rest = r.names \ {t}
  OBVIOUS
<1>1. CASE p \in Purger /\ ~pending[t].stale
  <2>s. PICK s : s = [r EXCEPT !.names = r.names \ {t}]
    OBVIOUS
  <2>1. proc' = [proc EXCEPT ![p] = s]
    BY Zenon, <2>s, <1>p, <1>1
  <2>2. s = ProcRecord(r.at, r.names \ {t}, r.back, r.held, r.cur)
    BY <2>s, <1>r, NamesTo
  <2>3. s.at = r.at /\ s.back = r.back /\ s.held = r.held /\ s.cur = r.cur
    BY <2>2, FieldsOf
  <2>4. Tidy(p, s) /\ Recall(s) = Recall(r)
    BY <1>t, <2>3 DEF Tidy, Recall
  <2>5. LetsGo(p, {}) /\ proc'[p] = s
    BY <1>t, <2>1, <2>4, GoesOn
  <2> QED BY <1>t, <2>3, <2>5
<1>2. CASE ~(p \in Purger /\ ~pending[t].stale)
  <2>s. PICK s : s = [r EXCEPT !.at = "take", !.names = rest, !.cur.task = t]
    OBVIOUS
  <2>1. proc' = [proc EXCEPT ![p] = s]
    BY Zenon, <2>s, <1>n, <1>p, <1>2
  <2>k. PICK c : c = [f |-> r.cur.f, task |-> t, st |-> r.cur.st, id |-> r.cur.id]
    OBVIOUS
  <2>2. s = ProcRecord("take", rest, r.back, r.held, c)
    BY <1>r, <2>s, <2>k DEF IsProc, IsClaim, ProcRecord
  <2>3. s.at = "take" /\ s.back = r.back /\ s.held = r.held /\ s.cur = c
    BY <2>2, FieldsOf
  <2>c. c.f = 0
    BY <1>t, <2>k, NoClaimTyped
  <2>4. Tidy(p, s)
    BY <1>t, <2>3 DEF Tidy
  <2>5. \A x : x.f \in File => (x \in Recall(s) <=> x \in Recall(r))
    BY <1>t, <2>3, <2>c, NoClaimTyped DEF Recall
  <2>6. LetsGo(p, {}) /\ proc'[p] = s
    BY <1>t, <2>1, <2>4, <2>5, GoesOn
  <2>7. t \in Task
    BY <1>r DEF Shaped, Procs
  <2> QED BY <1>2, <2>3, <2>6, <2>7
<1> QED BY <1>1, <1>2

\* One claim less to put back, and its file with it: restore found a newer wake, or put it back.
LEMMA RequeuedGo ==
  ASSUME TypeIInv, NEW p \in Proc, NEW r, r = proc[p], Tidy(p, r), NEW e \in r.back,
         r.at \in {"back", "release"}, r.cur = NoClaim \/ r.cur = e,
         NEW s, s = Requeued(r, e), proc' = [proc EXCEPT ![p] = s], file' = Removed(e.f)
  PROVE  LetsGo(p, {e})
<1>r. Shaped(r) /\ IsProc(r)
  BY ProcFields DEF TypeIInv
<1>2. s = ProcRecord(r.at, (IF r.at = "back" THEN r.names \cup {e.task} ELSE r.names),
                     r.back \ {e}, r.held, NoClaim)
  BY <1>r, RequeuedTo
<1>3. s.at = r.at /\ s.back = r.back \ {e} /\ s.held = r.held /\ s.cur = NoClaim
  BY <1>2, FieldsOf
<1>4. Tidy(p, s)
  BY <1>3 DEF Tidy
<1>5. \A c : c.f \in File => (c \in Recall(s) <=> c \in Recall(r) /\ c # e)
  BY <1>3, NoClaimTyped DEF Recall, Tidy
<1>6. e.f \in File /\ e \in Recall(r)
  BY <1>r DEF Shaped, Real, Recall
<1> QED BY <1>4, <1>5, <1>6, LeavesOne

LEMMA StatGo ==
  ASSUME TypeIInv, NEW p \in Proc, Tidy(p, proc[p]), Stat(p)
  PROVE  \E d : LetsGo(p, d)
<1> PICK r : r = proc[p]
  OBVIOUS
<1>r. Shaped(r) /\ IsProc(r) /\ Tidy(p, r)
  BY ProcFields DEF TypeIInv
<1>b. r.cur = NoClaim /\ r.at \in {"back", "release"}
  BY DEF Stat
<1>p. PICK c \in r.back :
       IF pending[c.task] # NoWake
       THEN file' = Removed(c.f) /\ proc' = [proc EXCEPT ![p] = Requeued(r, c)]
       ELSE proc' = [proc EXCEPT ![p] = [r EXCEPT !.cur = c]] /\ UNCHANGED file
  BY Zenon DEF Stat, Goto
<1>1. CASE pending[c.task] # NoWake
  <2> PICK s : s = Requeued(r, c)
    OBVIOUS
  <2>1. proc' = [proc EXCEPT ![p] = s] /\ file' = Removed(c.f)
    BY <1>1, <1>p
  <2> QED BY <1>r, <1>b, <2>1, RequeuedGo
<1>2. CASE pending[c.task] = NoWake
  <2>s. PICK s : s = [r EXCEPT !.cur = c]
    OBVIOUS
  <2>1. proc' = [proc EXCEPT ![p] = s] /\ UNCHANGED file
    BY <1>2, <1>p, <2>s
  <2>2. s = ProcRecord(r.at, r.names, r.back, r.held, c)
    BY <2>s, <1>r, CurTo
  <2>3. s.at = r.at /\ s.back = r.back /\ s.held = r.held /\ s.cur = c
    BY <2>2, FieldsOf
  <2>4. Tidy(p, s)
    BY <1>r, <1>b, <2>3 DEF Tidy
  <2>5. \A x : x.f \in File => (x \in Recall(s) <=> x \in Recall(r))
    BY <1>b, <2>3, NoClaimTyped DEF Recall
  <2>6. LetsGo(p, {}) /\ proc'[p] = s
    BY <2>1, <2>4, <2>5, GoesOn
  <2> QED BY <1>b, <2>3, <2>6
<1> QED BY <1>1, <1>2

LEMMA PutBackGo ==
  ASSUME TypeIInv, NEW p \in Proc, Tidy(p, proc[p]), PutBack(p), Exists(proc[p].cur.f)
  PROVE  LetsGo(p, {proc[p].cur})
<1> PICK r : r = proc[p]
  OBVIOUS
<1>r. Tidy(p, r) /\ r.at \in {"back", "release"} /\ r.cur \in r.back
  BY DEF PutBack, Tidy
<1> PICK e \in r.back : e = r.cur
  BY <1>r
<1> PICK s : s = Requeued(r, e)
  OBVIOUS
<1>1. proc' = [proc EXCEPT ![p] = s] /\ file' = Removed(e.f)
  BY Zenon DEF PutBack, Goto
<1> QED BY <1>r, <1>1, RequeuedGo

LEMMA NothingGo ==
  ASSUME TypeIInv, NEW p \in Proc, Tidy(p, proc[p]), NothingHeld(p)
  PROVE  LetsGo(p, {}) /\ proc'[p].at = "idle"
<1>1. proc' = [proc EXCEPT ![p] = IdleProc] /\ UNCHANGED file
  BY Zenon DEF NothingHeld, Goto
<1>2. proc[p].back = {} /\ proc[p].held = {} /\ proc[p].cur = NoClaim
  BY DEF NothingHeld, Tidy, TypeIInv, Shaped
<1> QED BY <1>1, <1>2, IdleGo

LEMMA FailsGo ==
  ASSUME TypeIInv, NEW p \in Proc, Tidy(p, proc[p]), DeliverFails(p)
  PROVE  LetsGo(p, {})
<1> PICK r : r = proc[p]
  OBVIOUS
<1>r. Shaped(r) /\ IsProc(r) /\ Tidy(p, r)
  BY ProcFields DEF TypeIInv
<1> PICK s : s = [r EXCEPT !.at = "release", !.back = r.held, !.held = {}]
  OBVIOUS
<1>1. proc' = [proc EXCEPT ![p] = s] /\ r.at = "claim" /\ UNCHANGED file
  BY Zenon DEF DeliverFails, Goto
<1>2. s = ProcRecord("release", r.names, r.held, {}, r.cur)
  BY <1>r, FailedTo
<1>3. s.at = "release" /\ s.back = r.held /\ s.held = {} /\ s.cur = r.cur
  BY <1>2, FieldsOf
<1>4. r.back = {} /\ r.cur = NoClaim
  BY <1>1, <1>r DEF Tidy, Shaped
<1>5. Tidy(p, s) /\ Recall(s) = Recall(r)
  BY <1>3, <1>4 DEF Tidy, Recall
<1>6. LetsGo(p, {}) /\ proc'[p] = s
  BY <1>1, <1>5, GoesOn
<1> QED BY <1>3, <1>6

\* The claim is committed, and others are held.
Shrunk(r, c) == [r EXCEPT !.held = r.held \ {c}]

LEMMA CommitGo ==
  ASSUME TypeIInv, NEW p \in Proc, Tidy(p, proc[p]), Commit(p)
  PROVE  /\ Unsaid(p) /\ proc'[p].at \in {"idle", "commit"}
         /\ \E c \in proc[p].held : LetsGo(p, {c})
<1> PICK r : r = proc[p]
  OBVIOUS
<1>r. Shaped(r) /\ IsProc(r) /\ Tidy(p, r)
  BY ProcFields DEF TypeIInv
<1>n. r.at = "commit" /\ r.back = {} /\ r.cur = NoClaim
  BY <1>r DEF Commit, Tidy, Shaped
<1>p. PICK c \in r.held :
        /\ file' = Removed(c.f)
        /\ proc' = [proc EXCEPT ![p] = IF r.held = {c} THEN IdleProc ELSE Shrunk(r, c)]
  BY Zenon DEF Commit, Goto, Shrunk
<1>f. file' = Removed(c.f)
  BY <1>p
<1>c. c.f \in File /\ c \in Recall(r)
  BY <1>r DEF Shaped, Real, Recall
<1>1. CASE r.held = {c}
  <2>1. proc' = [proc EXCEPT ![p] = IdleProc]
    BY <1>1, <1>p
  <2>2. \A x : x.f \in File => (x \in Recall(IdleProc) <=> x \in Recall(r) /\ x # c)
    BY <1>1, <1>n, IdleTidy, NoClaimTyped DEF Recall
  <2>3. LetsGo(p, {c}) /\ proc'[p] = IdleProc
    BY <1>p, <1>c, <2>1, <2>2, IdleTidy, LeavesOne
  <2>4. proc'[p].at = "idle"
    BY <2>3 DEF IdleProc
  <2> QED BY <2>3, <2>4, IdleTidy DEF Unsaid
<1>2. CASE r.held # {c}
  <2> PICK s : s = Shrunk(r, c)
    OBVIOUS
  <2>1. proc' = [proc EXCEPT ![p] = s]
    BY <1>2, <1>p
  <2>2. s = ProcRecord(r.at, r.names, r.back, r.held \ {c}, r.cur)
    BY <1>r, DroppedTo DEF Shrunk
  <2>3. s.at = r.at /\ s.back = r.back /\ s.held = r.held \ {c} /\ s.cur = r.cur
    BY <2>2, FieldsOf
  <2>4. Tidy(p, s)
    BY <1>n, <2>3 DEF Tidy
  <2>5. \A x : x.f \in File => (x \in Recall(s) <=> x \in Recall(r) /\ x # c)
    BY <1>n, <2>3, NoClaimTyped DEF Recall
  <2>6. LetsGo(p, {c}) /\ proc'[p] = s
    BY <1>f, <1>c, <2>1, <2>4, <2>5, LeavesOne
  <2> QED BY <1>n, <2>3, <2>6 DEF Unsaid
<1> QED BY <1>1, <1>2

\* The files of the claims that are let go are the listener's own, and nobody else's.
LEMMA LetsGoOwned ==
  ASSUME TypeIInv, Owned, NEW p \in Proc, NEW d, LetsGo(p, d)
  PROVE  Owned'
<1>1. ASSUME NEW f \in File, file'[f] # NoFile
      PROVE  file'[f].by \in Proc /\ \E c \in Recall(proc'[file'[f].by]) : c.f = f
  <2>1. file'[f] = file[f] /\ ~ \E e \in d : e.f = f
    BY <1>1 DEF LetsGo
  <2>2. PICK c \in Recall(proc[file[f].by]) : file[f].by \in Proc /\ c.f = f
    BY <1>1, <2>1 DEF Owned
  <2>3. c \in Recall(proc'[file[f].by])
    BY <2>1, <2>2 DEF LetsGo
  <2> QED BY <2>1, <2>2, <2>3
<1>2. ASSUME NEW q \in Proc, NEW c \in Recall(proc'[q]), c.f \in File
      PROVE  file'[c.f] # NoFile /\ file'[c.f].by = q /\ c = Claim(c.f)'
  <2>1. c \in Recall(proc[q]) /\ (q = p => c \notin d)
    BY <1>2 DEF LetsGo
  <2>2. file[c.f] # NoFile /\ file[c.f].by = q /\ c = Claim(c.f)
    BY <1>2, <2>1 DEF Owned
  <2>3. ASSUME NEW e \in d, e.f = c.f
        PROVE  FALSE
    <3>1. e \in Recall(proc[p]) /\ e.f \in File
      BY DEF LetsGo
    <3>2. file[e.f].by = p /\ e = Claim(e.f)
      BY <3>1 DEF Owned
    <3> QED BY <2>1, <2>2, <2>3, <3>2
  <2>4. file'[c.f] = file[c.f]
    BY <1>2, <2>3 DEF LetsGo
  <2> QED BY <2>2, <2>4 DEF Claim
<1>3. \A q \in Proc : Tidy(q, proc'[q])
  BY DEF LetsGo, Owned
<1> QED BY <1>1, <1>2, <1>3 DEF Owned

LEMMA LetsGoUntold ==
  ASSUME Untold, NEW p \in Proc, NEW d, LetsGo(p, d), UNCHANGED told,
         Unsaid(p)
  PROVE  Untold'
<1>1. ASSUME NEW q \in Proc, proc'[q].at # "commit", NEW c \in Recall(proc'[q]), c.f \in File
      PROVE  c.id \notin told
  <2>1. CASE q = p
    <3>1. c \in Recall(proc[q])
      BY <1>1, <2>1 DEF LetsGo
    <3>2. proc[q].at # "commit"
      BY <1>1, <2>1 DEF Unsaid
    <3> QED BY <1>1, <3>1, <3>2 DEF Untold
  <2>2. CASE q # p
    <3>1. proc'[q] = proc[q]
      BY <1>1, <2>2 DEF LetsGo
    <3> QED BY <1>1, <3>1 DEF Untold
  <2> QED BY <2>1, <2>2
<1> QED BY <1>1 DEF Untold

\* Numbers stay apart while files only go.
LEMMA FewerNumbered ==
  ASSUME Numbered, TickNumbered, \A f \in File : file'[f] = NoFile \/ file'[f] = file[f],
         UNCHANGED <<told, settles, pending, tick>>
  PROVE  Numbered' /\ TickNumbered'
<1>1. Number' = Number
  BY DEF Number
<1>2. \A f \in File : file'[f] # NoFile => file[f] # NoFile /\ file'[f] = file[f]
  OBVIOUS
<1>3. Numbered'
  BY <1>1, <1>2 DEF Numbered
<1>4. TickNumbered'
  BY <1>1, <1>2 DEF TickNumbered
<1> QED BY <1>3, <1>4

LEMMA LetsGoTell ==
  ASSUME TypeIInv, Tell, NEW p \in Proc, NEW d, LetsGo(p, d),
         Unsaid(p),
         UNCHANGED <<told, settles, pending, tick>>
  PROVE  Tell'
<1>1. \A f \in File : file'[f] = NoFile \/ file'[f] = file[f]
  BY DEF LetsGo
<1> QED BY <1>1, LetsGoOwned, LetsGoUntold, FewerNumbered DEF Tell

LEMMA ForgetsTell ==
  ASSUME TypeIInv, Tell, NEW p \in Proc, Forgets(p), deaths' = 0
  PROVE  Tell'
<1>1. UNCHANGED <<told, settles, pending, tick>>
  BY ForgetsThins
<1>2. Tidy(p, proc[p])
  BY DEF Tell, Owned
<1>3. ~Die(p)
  BY DEF Die, TypeIInv, TypeOK
<1>4. \E d : LetsGo(p, d) /\ Unsaid(p)
  <2>1. CASE Commit(p)
    BY <2>1, <1>2, CommitGo
  <2>2. CASE ~Commit(p)
    <3>1. proc[p].at # "commit"
      BY <2>2, <1>3 DEF Forgets, Stat, AllBack, Pick, Keep, Discard, Purge, NothingHeld,
                        DeliverFails
    <3>2. \E d : LetsGo(p, d)
      BY <2>2, <1>2, <1>3, StatGo, AllBackGo, PickGo, KeepGo, DiscardGo, PurgeGo, NothingGo,
         FailsGo DEF Forgets
    <3> QED BY <3>1, <3>2 DEF Unsaid
  <2> QED BY <2>1, <2>2
<1> QED BY <1>1, <1>4, LetsGoTell

LEMMA PutBackTell ==
  ASSUME TypeIInv, Tell, NEW p \in Proc, PutBack(p)
  PROVE  Tell'
<1>e. PICK e : e = proc[p].cur
  OBVIOUS
<1>1. Tidy(p, proc[p]) /\ e \in Recall(proc[p]) /\ e.f \in File /\ e.task \in Task
  BY <1>e DEF PutBack, Tell, Owned, Recall, TypeIInv, Shaped, Real
<1>2. file[e.f] # NoFile /\ e = Claim(e.f)
  BY <1>1 DEF Tell, Owned
<1>3. LetsGo(p, {e})
  BY <1>e, <1>1, <1>2, PutBackGo DEF Exists
<1>4. /\ pending' = [pending EXCEPT ![e.task] = file[e.f].wake]
      /\ UNCHANGED <<tick, settles, told>>
  BY <1>e, <1>2 DEF PutBack, Exists
<1>5. \A t \in Task : pending'[t] = IF t = e.task THEN file[e.f].wake ELSE pending[t]
  BY <1>4 DEF TypeIInv, TypeOK
<1>6. /\ file'[e.f] = NoFile
      /\ \A f \in File : f # e.f => file'[f] = file[f]
  BY <1>1, <1>3 DEF LetsGo
<1>7. file[e.f].wake.id \in Number \ told
  <2>1. file[e.f].wake.id = e.id
    BY <1>2 DEF Claim
  <2>2. e.id \notin told
    BY <1>1 DEF PutBack, Tell, Untold
  <2> QED BY <1>1, <1>2, <2>1, <2>2 DEF Tell, Numbered
<1>n. Number' = Number
  BY <1>4 DEF Number
<1>8. Numbered'
  <2>1. \A t, u \in Task : t # u /\ pending'[t] # NoWake /\ pending'[u] # NoWake
                             => pending'[t].id # pending'[u].id
    BY <1>1, <1>2, <1>5 DEF Tell, Numbered
  <2>2. \A f \in File, t \in Task : file'[f] # NoFile /\ pending'[t] # NoWake
                             => file'[f].wake.id # pending'[t].id
    BY <1>1, <1>2, <1>5, <1>6 DEF Tell, Numbered
  <2>3. \A t \in Task : pending'[t] # NoWake => pending'[t].id \in Number \ told
    BY <1>5, <1>7 DEF Tell, Numbered
  <2>4. /\ \A f \in File : file'[f] # NoFile => file'[f].wake.id \in Number
        /\ \A f, g \in File : f # g /\ file'[f] # NoFile /\ file'[g] # NoFile
                           => file'[f].wake.id # file'[g].wake.id
    BY <1>6 DEF Tell, Numbered
  <2>5. told' \subseteq Number
    BY <1>4 DEF Tell, Numbered
  <2> QED BY <1>4, <1>n, <2>1, <2>2, <2>3, <2>4, <2>5 DEF Numbered
<1>9. TickNumbered'
  BY <1>n, <1>1, <1>2, <1>4, <1>5, <1>6 DEF Tell, TickNumbered
<1>u. Unsaid(p)
  BY DEF Unsaid, PutBack
<1> QED BY <1>3, <1>u, <1>4, <1>8, <1>9, LetsGoOwned, LetsGoUntold DEF Tell

LEMMA ListGo ==
  ASSUME TypeIInv, Tell, NEW p \in Proc, List(p), "slow" \notin Event
  PROVE  LetsGo(p, {}) /\ proc'[p].at = "back" /\ proc'[p].back = {}
<1>1. \A f \in File : ~Abandoned(f)
  BY WakeQueueAssumption DEF Abandoned, Exists, Tell, Owned
<1>n. PICK names : names = {t \in Task : pending[t] # NoWake}
  OBVIOUS
<1>b. {Claim(f) : f \in {g \in File : Abandoned(g)}} = {}
  BY <1>1
<1>s. PICK s : s = [IdleProc EXCEPT !.at = "back", !.names = names, !.back = {}]
  OBVIOUS
<1>2. proc' = [proc EXCEPT ![p] = s]
  BY Zenon, <1>n, <1>b, <1>s DEF List, Goto
<1>3. s.at = "back" /\ s.back = {} /\ s.held = {} /\ s.cur = NoClaim
  BY <1>s DEF IdleProc
<1>4. proc[p].back = {} /\ proc[p].held = {} /\ proc[p].cur = NoClaim
  BY DEF List, Tell, Owned, Tidy, TypeIInv, Shaped
<1>5. Tidy(p, s) /\ Recall(s) = Recall(proc[p])
  BY <1>3, <1>4 DEF Tidy, Recall
<1>6. UNCHANGED <<pending, file, told, settles, tick>>
  BY DEF List
<1>7. LetsGo(p, {}) /\ proc'[p] = s
  BY <1>2, <1>5, <1>6, GoesOn
<1> QED BY <1>3, <1>7

LEMMA ListTell ==
  ASSUME TypeIInv, Tell, NEW p \in Proc, List(p), "slow" \notin Event
  PROVE  Tell'
<1>1. UNCHANGED <<told, settles, pending, tick>> /\ Unsaid(p)
  BY DEF List, Unsaid
<1> QED BY <1>1, ListGo, LetsGoTell

LEMMA DeliverGo ==
  ASSUME TypeIInv, Tell, NEW p \in Proc, Deliver(p)
  PROVE  LetsGo(p, {}) /\ proc'[p].at = "commit" /\ UNCHANGED file
<1> PICK r : r = proc[p]
  OBVIOUS
<1>r. Shaped(r) /\ IsProc(r) /\ Tidy(p, r)
  BY ProcFields DEF TypeIInv, Tell, Owned
<1> PICK s : s = [r EXCEPT !.at = "commit"]
  OBVIOUS
<1>1. proc' = [proc EXCEPT ![p] = s] /\ r.at = "claim" /\ UNCHANGED file
  BY Zenon DEF Deliver, Goto
<1>2. s = ProcRecord("commit", r.names, r.back, r.held, r.cur)
  BY <1>r, AtTo
<1>3. s.at = "commit" /\ s.back = r.back /\ s.held = r.held /\ s.cur = r.cur
  BY <1>2, FieldsOf
<1>4. Tidy(p, s) /\ Recall(s) = Recall(r)
  BY <1>1, <1>r, <1>3 DEF Tidy, Recall
<1>5. LetsGo(p, {}) /\ proc'[p] = s
  BY <1>1, <1>4, GoesOn
<1> QED BY <1>1, <1>3, <1>5

LEMMA DeliverTell ==
  ASSUME TypeIInv, Tell, NEW p \in Proc, Deliver(p)
  PROVE  Tell'
<1> PICK r : r = proc[p]
  OBVIOUS
<1>r. Shaped(r)
  BY DEF TypeIInv
<1>5. LetsGo(p, {}) /\ proc'[p].at = "commit" /\ UNCHANGED file
  BY DeliverGo
<1>6. UNCHANGED <<pending, settles, tick>> /\ told' = told \cup {c.id : c \in r.held}
  BY DEF Deliver
<1>n. Number' = Number
  BY <1>6 DEF Number
<1>7. ASSUME NEW c \in r.held
      PROVE  /\ c.f \in File /\ file[c.f] # NoFile /\ file[c.f].by = p
             /\ file[c.f].wake.id = c.id
  <2>1. c.f \in File /\ c \in Recall(proc[p])
    BY <1>r DEF Shaped, Real, Recall
  <2> QED BY <2>1 DEF Tell, Owned, Claim
<1>8. told' \subseteq Number
  BY <1>6, <1>7 DEF Tell, Numbered
<1>9. \A t \in Task : pending[t] # NoWake => pending[t].id \notin told'
  BY <1>6, <1>7 DEF Tell, Numbered
<1>10. tick # NoTick => tick.id \notin told'
  BY <1>6, <1>7 DEF Tell, TickNumbered
<1>11. Numbered' /\ TickNumbered'
  BY <1>5, <1>n, <1>6, <1>8, <1>9, <1>10 DEF Tell, Numbered, TickNumbered
<1>12. Untold'
  <2>1. ASSUME NEW q \in Proc, proc'[q].at # "commit", NEW c \in Recall(proc'[q]), c.f \in File
        PROVE  c.id \notin told'
    <3>1. q # p /\ proc'[q] = proc[q]
      BY <2>1, <1>5 DEF LetsGo
    <3>2. c.id \notin told
      BY <2>1, <3>1 DEF Tell, Untold
    <3>3. file[c.f] # NoFile /\ file[c.f].by = q /\ file[c.f].wake.id = c.id
      BY <2>1, <3>1 DEF Tell, Owned, Claim
    <3>4. \A e \in r.held : e.id # c.id
      BY <2>1, <3>1, <3>3, <1>7 DEF Tell, Numbered
    <3> QED BY <3>2, <3>4, <1>6
  <2> QED BY <2>1 DEF Untold
<1> QED BY <1>5, <1>11, <1>12, LetsGoOwned DEF Tell

LEMMA TakeNone ==
  ASSUME TypeIInv, NEW p \in Proc, Tidy(p, proc[p]), Take(p), pending[proc[p].cur.task] = NoWake
  PROVE  LetsGo(p, {}) /\ proc'[p].at = "claim" /\ UNCHANGED <<pending, file>>
<1>r. PICK r : r = proc[p]
  OBVIOUS
<1>q. Shaped(r) /\ IsProc(r) /\ Tidy(p, r) /\ r.at = "take"
  BY <1>r, ProcFields DEF TypeIInv, Take
<1>s. PICK s : s = [r EXCEPT !.at = "claim", !.cur = NoClaim]
  OBVIOUS
<1>1. proc' = [proc EXCEPT ![p] = s] /\ UNCHANGED <<pending, file>>
  BY Zenon, <1>r, <1>s DEF Take, Goto
<1>2. s = ProcRecord("claim", r.names, r.back, r.held, NoClaim)
  BY <1>s, <1>q, AtCurTo
<1>3. s.at = "claim" /\ s.back = r.back /\ s.held = r.held /\ s.cur = NoClaim
  BY <1>2, FieldsOf
<1>4. Tidy(p, s)
  BY <1>q, <1>3 DEF Tidy
<1>5. \A c : c.f \in File => (c \in Recall(s) <=> c \in Recall(r))
  BY <1>q, <1>3, NoClaimTyped DEF Recall, Shaped
<1>6. LetsGo(p, {}) /\ proc'[p] = s
  BY <1>r, <1>1, <1>4, <1>5, GoesOn
<1> QED BY <1>1, <1>3, <1>6

LEMMA TakeWins ==
  ASSUME TypeIInv, NEW p \in Proc, Take(p), pending[proc[p].cur.task] # NoWake
  PROVE  \E f \in File : \E s : Moves(p, s) /\ Takes(p, f, s)
<1>1. PICK f : TakeAside(p, f)
  BY Zenon DEF Take
<1>2. pending' = [pending EXCEPT ![proc[p].cur.task] = NoWake] /\ proc[p].cur.task \in Task
  BY <1>1 DEF TakeAside, Shaped, TypeIInv, Take
<1>3. ~ UNCHANGED pending
  BY <1>2 DEF TypeIInv, TypeOK
<1> QED BY <1>3, TakeMoves

LEMMA TakeTell ==
  ASSUME TypeIInv, Tell, NEW p \in Proc, Take(p)
  PROVE  Tell'
<1>u. UNCHANGED <<told, settles, tick>>
  BY DEF Take
<1>n. Number' = Number
  BY <1>u DEF Number
<1>r. PICK r : r = proc[p]
  OBVIOUS
<1>q. Shaped(r) /\ IsProc(r) /\ Tidy(p, r) /\ r.at = "take"
  BY <1>r, ProcFields DEF TypeIInv, Tell, Owned, Take
<1>1. CASE pending[r.cur.task] = NoWake
  <2>1. Unsaid(p) /\ Tidy(p, proc[p])
    BY <1>r, <1>q DEF Unsaid
  <2> QED BY <1>r, <1>u, <1>1, <2>1, TakeNone, LetsGoTell
<1>2. ASSUME NEW f \in File, NEW s, Moves(p, s), Takes(p, f, s)
      PROVE  Tell'
  <2>t. PICK t : t = r.cur.task
    OBVIOUS
  <2>x. PICK x : x = [task |-> t, wake |-> pending[t], by |-> p]
    OBVIOUS
  <2>1. /\ t \in Task /\ Fresh(f) /\ pending[t] # NoWake
        /\ file' = [file EXCEPT ![f] = x]
        /\ pending' = [pending EXCEPT ![t] = NoWake]
        /\ s.at = "judge" /\ s.back = r.back /\ s.held = r.held
        /\ s.cur = [f |-> f, task |-> t, st |-> pending[t].st, id |-> pending[t].id]
    BY <1>r, <1>2, <2>t, <2>x DEF Takes
  <2>2. x.task = t /\ x.wake = pending[t] /\ x.by = p /\ x # NoFile
    BY <2>1, <2>x, NoFileTyped, WakeQueueAssumption
  <2>3. /\ \A g \in File : file'[g] = IF g = f THEN x ELSE file[g]
        /\ \A u \in Task : pending'[u] = IF u = t THEN NoWake ELSE pending[u]
        /\ \A q \in Proc : proc'[q] = IF q = p THEN s ELSE proc[q]
    BY <1>2, <2>1 DEF Moves, TypeIInv, TypeOK
  <2>4. file[f] = NoFile /\ \A q \in Proc : \A c \in Recall(proc[q]) : c.f # f
    BY <2>1 DEF Fresh, Exists, Remembered, Recall
  <2>5. Recall(s) = r.back \cup r.held \cup {s.cur} /\ r.cur.f \notin File
    BY <1>q, <2>1, FileNames DEF Recall, Shaped
  <2>6. pending[t].id \in Number \ told
    BY <2>1 DEF Tell, Numbered
  <2>7. Numbered'
    <3>1. \A g \in File : file'[g] # NoFile =>
             \/ g = f /\ file'[g].wake.id = pending[t].id
             \/ g # f /\ file[g] # NoFile /\ file'[g] = file[g]
      BY <2>2, <2>3
    <3>2. \A u \in Task : pending'[u] # NoWake =>
             u # t /\ pending[u] # NoWake /\ pending'[u] = pending[u]
      BY <2>3
    <3>3. \A g \in File : file'[g] # NoFile => file'[g].wake.id \in Number
      BY <2>6, <3>1 DEF Tell, Numbered
    <3>4. \A g, h \in File : g # h /\ file'[g] # NoFile /\ file'[h] # NoFile
                           => file'[g].wake.id # file'[h].wake.id
      BY <2>1, <3>1 DEF Tell, Numbered
    <3>5. \A g \in File, u \in Task : file'[g] # NoFile /\ pending'[u] # NoWake
                           => file'[g].wake.id # pending'[u].id
      BY <2>1, <3>1, <3>2 DEF Tell, Numbered
    <3>6. /\ \A u \in Task : pending'[u] # NoWake => pending'[u].id \in Number \ told
          /\ \A u, v \in Task : u # v /\ pending'[u] # NoWake /\ pending'[v] # NoWake
                           => pending'[u].id # pending'[v].id
      BY <3>2 DEF Tell, Numbered
    <3>7. told' \subseteq Number
      BY <1>u DEF Tell, Numbered
    <3> QED BY <1>u, <1>n, <3>3, <3>4, <3>5, <3>6, <3>7 DEF Numbered
  <2>8. TickNumbered'
    BY <1>u, <1>n, <2>1, <2>2, <2>3 DEF Tell, TickNumbered
  <2>9. ASSUME NEW g \in File, file'[g] # NoFile
        PROVE  file'[g].by \in Proc /\ \E c \in Recall(proc'[file'[g].by]) : c.f = g
    <3>1. CASE g = f
      BY <3>1, <2>1, <2>2, <2>3, <2>5
    <3>2. CASE g # f
      <4>1. file'[g] = file[g]
        BY <3>2, <2>3
      <4>2. PICK c \in Recall(proc[file[g].by]) : file[g].by \in Proc /\ c.f = g
        BY <2>9, <4>1 DEF Tell, Owned
      <4>3. CASE file[g].by = p
        BY <1>r, <4>1, <4>2, <4>3, <2>3, <2>5 DEF Recall
      <4>4. CASE file[g].by # p
        BY <4>1, <4>2, <4>4, <2>3
      <4> QED BY <4>3, <4>4
    <3> QED BY <3>1, <3>2
  <2>10. ASSUME NEW q \in Proc, NEW c \in Recall(proc'[q]), c.f \in File
         PROVE  /\ file'[c.f] # NoFile /\ file'[c.f].by = q /\ c = Claim(c.f)'
                /\ proc'[q].at # "commit" => c.id \notin told
    <3>1. CASE q = p /\ c = s.cur
      <4>1. c.f = f /\ c.id = pending[t].id
        BY <3>1, <2>1
      <4>2. file'[c.f] = x
        BY <4>1, <2>3
      <4>3. c = Claim(c.f)'
        BY <3>1, <4>1, <4>2, <2>1, <2>2 DEF Claim
      <4> QED BY <3>1, <4>1, <4>2, <4>3, <2>2, <2>6
    <3>2. CASE ~(q = p /\ c = s.cur)
      <4>1. c \in Recall(proc[q]) /\ (proc'[q].at # "commit" => proc[q].at # "commit")
        BY <3>2, <2>10, <1>r, <1>q, <2>3, <2>5 DEF Recall
      <4>2. file'[c.f] = file[c.f]
        BY <4>1, <2>4, <2>3, <2>10
      <4>3. file[c.f] # NoFile /\ file[c.f].by = q /\ c = Claim(c.f)
        BY <2>10, <4>1 DEF Tell, Owned
      <4>4. proc'[q].at # "commit" => c.id \notin told
        BY <2>10, <4>1 DEF Tell, Untold
      <4> QED BY <4>2, <4>3, <4>4 DEF Claim
    <3> QED BY <3>1, <3>2
  <2>11. \A q \in Proc : Tidy(q, proc'[q])
    <3>1. s.cur \notin s.back \cup s.held
      BY <1>r, <2>1, <2>4 DEF Recall
    <3>2. Tidy(p, s)
      BY <1>q, <2>1, <3>1 DEF Tidy
    <3> QED BY <2>3, <3>2 DEF Tell, Owned
  <2>12. Owned'
    BY <2>9, <2>10, <2>11 DEF Owned
  <2>13. Untold'
    BY <1>u, <2>10 DEF Untold
  <2> QED BY <2>7, <2>8, <2>12, <2>13 DEF Tell
<1> QED BY <1>r, <1>1, <1>2, TakeWins

LEMMA AgeFiles ==
  ASSUME TypeIInv, Age
  PROVE  /\ \A f \in File : file[f] = NoFile => file'[f] = NoFile
         /\ \A f \in File : file[f] # NoFile =>
               /\ file'[f].task = file[f].task /\ file'[f].by = file[f].by
               /\ file'[f].wake.st = file[f].wake.st /\ file'[f].wake.id = file[f].wake.id
         /\ \A t \in Task : pending[t] = NoWake => pending'[t] = NoWake
         /\ \A t \in Task : pending[t] # NoWake =>
               pending'[t].st = pending[t].st /\ pending'[t].id = pending[t].id
<1>1. ASSUME NEW f \in File, file[f] # NoFile
      PROVE  /\ file'[f].task = file[f].task /\ file'[f].by = file[f].by
             /\ file'[f].wake.st = file[f].wake.st /\ file'[f].wake.id = file[f].wake.id
  <2>1. file[f] \in Files /\ file[f].wake \in Wakes
    BY DEF TypeIInv, TypeOK, Files
  <2>2. file'[f] = [file[f] EXCEPT !.wake = [file[f].wake EXCEPT !.stale = TRUE]]
    BY <1>1 DEF Age
  <2>3. /\ file'[f].task = file[f].task /\ file'[f].by = file[f].by
        /\ file'[f].wake = [file[f].wake EXCEPT !.stale = TRUE]
    BY <2>1, <2>2 DEF Files
  <2> QED BY <2>1, <2>3 DEF Wakes
<1>2. ASSUME NEW t \in Task
      PROVE  /\ pending[t] = NoWake => pending'[t] = NoWake
             /\ pending[t] # NoWake => pending'[t].st = pending[t].st /\ pending'[t].id = pending[t].id
  BY DEF Age, TypeIInv, TypeOK, Wakes
<1> QED BY <1>1, <1>2 DEF Age

LEMMA AgeTell ==
  ASSUME TypeIInv, Tell, Age
  PROVE  Tell'
<1>1. UNCHANGED <<status, gone, tick, proc, deaths, settles, told>>
  BY DEF Age
<1>n. Number' = Number
  BY <1>1 DEF Number
<1>2. /\ \A f \in File : file'[f] # NoFile =>
            /\ file[f] # NoFile /\ file'[f].by = file[f].by
            /\ file'[f].wake.id = file[f].wake.id
      /\ \A t \in Task : pending'[t] # NoWake =>
            pending[t] # NoWake /\ pending'[t].id = pending[t].id
  BY AgeFiles
<1>3. Numbered' /\ TickNumbered'
  BY <1>1, <1>n, <1>2 DEF Tell, Numbered, TickNumbered
<1>4. \A f \in File : file[f] # NoFile => file'[f] # NoFile /\ Claim(f)' = Claim(f)
  <2>1. \A f \in File : file[f] # NoFile => file'[f] # NoFile
    <3>1. ASSUME NEW f \in File, file[f] # NoFile
          PROVE  file'[f] # NoFile
      <4>1. file'[f].by \in Proc
        BY <3>1, AgeFiles DEF Tell, Owned
      <4> QED BY <4>1, WakeQueueAssumption DEF NoFile
    <3> QED BY <3>1
  <2> QED BY <2>1, AgeFiles DEF Claim
<1>5. Owned'
  <2>1. ASSUME NEW f \in File, file'[f] # NoFile
        PROVE  file'[f].by \in Proc /\ \E c \in Recall(proc'[file'[f].by]) : c.f = f
    BY <2>1, <1>1, <1>2 DEF Tell, Owned
  <2>2. ASSUME NEW q \in Proc, NEW c \in Recall(proc'[q]), c.f \in File
        PROVE  file'[c.f] # NoFile /\ file'[c.f].by = q /\ c = Claim(c.f)'
    <3>1. file[c.f] # NoFile /\ file[c.f].by = q /\ c = Claim(c.f)
      BY <2>2, <1>1 DEF Tell, Owned
    <3> QED BY <2>2, <3>1, <1>2, <1>4
  <2>3. \A q \in Proc : Tidy(q, proc'[q])
    BY <1>1 DEF Tell, Owned
  <2> QED BY <2>1, <2>2, <2>3 DEF Owned
<1>6. Untold'
  BY <1>1 DEF Tell, Untold
<1> QED BY <1>3, <1>5, <1>6 DEF Tell

\* What the sentinel and the commander do touches no claim.
LEMMA OutsideTell ==
  ASSUME TypeIInv, Tell, Outside
  PROVE  Tell'
<1>1. CASE Age
  BY <1>1, AgeTell
<1>2. CASE ~Age
  <2>1. UNCHANGED <<file, proc, told>>
    BY <1>2 DEF Outside, Reprompt, Retire, Settle, RecordWake, WakeSkipped
  <2>2. Owned' /\ Untold'
    BY <2>1 DEF Tell, Owned, Untold, Claim
  <2>3. ASSUME NEW t \in Task, Reprompt(t) \/ Retire(t)
        PROVE  Tell'
    <3>1. UNCHANGED <<tick, pending, settles>>
      BY <2>3 DEF Reprompt, Retire
    <3>2. Numbered' /\ TickNumbered'
      BY <2>1, <3>1 DEF Tell, Numbered, TickNumbered, Number
    <3> QED BY <2>2, <3>2 DEF Tell
  <2>4. CASE WakeSkipped
    <3>1. UNCHANGED <<pending, settles>> /\ tick' = NoTick
      BY <2>4 DEF WakeSkipped
    <3>2. Numbered' /\ TickNumbered'
      BY <2>1, <3>1 DEF Tell, Numbered, TickNumbered, Number
    <3> QED BY <2>2, <3>2 DEF Tell
  <2>5. ASSUME NEW t \in Task, NEW x \in Status, Settle(t, x)
        PROVE  Tell'
    <3>1. /\ UNCHANGED pending /\ settles' = settles + 1
          /\ tick'.id = settles + 1
      BY <2>5 DEF Settle
    <3>2. settles \in Nat
      BY DEF TypeIInv, TypeOK, Id
    <3>3. Number' = Number \cup {settles + 1} /\ settles + 1 \notin Number
      BY <3>1, <3>2 DEF Number
    <3>4. Numbered'
      BY <2>1, <3>1, <3>3 DEF Tell, Numbered
    <3>5. settles + 1 \notin told
      BY <3>3 DEF Tell, Numbered
    <3>6. TickNumbered'
      BY <2>1, <3>1, <3>3, <3>5 DEF Tell, Numbered, TickNumbered
    <3> QED BY <2>2, <3>4, <3>6 DEF Tell
  <2>6. CASE RecordWake
    <3>t. PICK t : t = tick.task
      OBVIOUS
    <3>w. PICK w : w = [st |-> tick.st, id |-> tick.id, stale |-> FALSE]
      OBVIOUS
    <3>1. /\ tick # NoTick /\ tick' = NoTick /\ UNCHANGED settles
          /\ pending' = [pending EXCEPT ![t] = w]
      BY <2>6, <3>t, <3>w DEF RecordWake, Written
    <3>2. t \in Task /\ w.id = tick.id
      BY <3>1, <3>t, <3>w DEF TypeIInv
    <3>3. \A u \in Task : pending'[u] = IF u = t THEN w ELSE pending[u]
      BY <3>1 DEF TypeIInv, TypeOK
    <3>n. Number' = Number
      BY <3>1 DEF Number
    <3>4. \A u \in Task : pending'[u] # NoWake =>
             \/ u = t /\ pending'[u].id = tick.id
             \/ u # t /\ pending[u] # NoWake /\ pending'[u] = pending[u]
      BY <3>2, <3>3
    <3>5. \A u, v \in Task : u # v /\ pending'[u] # NoWake /\ pending'[v] # NoWake
                           => pending'[u].id # pending'[v].id
      BY <3>1, <3>4 DEF Tell, Numbered, TickNumbered
    <3>6. \A g \in File, u \in Task : file[g] # NoFile /\ pending'[u] # NoWake
                           => file[g].wake.id # pending'[u].id
      BY <3>1, <3>4 DEF Tell, Numbered, TickNumbered
    <3>7. \A u \in Task : pending'[u] # NoWake => pending'[u].id \in Number \ told
      BY <3>1, <3>4 DEF Tell, Numbered, TickNumbered
    <3>8. Numbered'
      BY <2>1, <3>n, <3>5, <3>6, <3>7 DEF Tell, Numbered
    <3>9. TickNumbered'
      BY <3>1 DEF TickNumbered
    <3> QED BY <2>2, <3>8, <3>9 DEF Tell
  <2> QED BY <1>2, <2>3, <2>4, <2>5, <2>6 DEF Outside
<1> QED BY <1>1, <1>2

LEMMA TellInit == Init => TellIInv
<1> SUFFICES ASSUME Init PROVE TellIInv
  OBVIOUS
<1>1. TypeIInv
  BY TypesInit
<1>2. Numbered /\ TickNumbered
  BY DEF Init, Numbered, TickNumbered
<1>3. \A p \in Proc : proc[p] = IdleProc
  BY DEF Init
<1>4. Owned
  BY <1>3, IdleTidy DEF Init, Owned
<1>5. Untold
  BY <1>3, IdleTidy DEF Untold
<1> QED BY <1>1, <1>2, <1>4, <1>5 DEF TellIInv, Tell

LEMMA TellNext ==
  ASSUME "slow" \notin Event, TellIInv, [Next]_vars
  PROVE  TellIInv'
<1>1. TypeIInv'
  BY TypesNext DEF TellIInv
<1>2. ASSUME deaths' = 0
      PROVE  Tell'
  <2>1. CASE UNCHANGED vars
    <3>1. Tell
      BY <1>2, <2>1 DEF vars, TellIInv
    <3> QED BY <2>1, <3>1 DEF vars, Tell, Numbered, TickNumbered, Owned, Untold, Number, Claim
  <2>2. CASE Outside
    <3>1. deaths = 0
      BY <1>2, <2>2 DEF Outside, Reprompt, Retire, Settle, RecordWake, WakeSkipped, Age
    <3> QED BY <2>2, <3>1, OutsideTell DEF TellIInv
  <2>3. ASSUME NEW p \in Proc, Forgets(p)
        PROVE  Tell'
    <3>1. deaths = 0
      <4>1. UNCHANGED deaths \/ deaths' = deaths + 1
        BY <2>3 DEF Forgets, Stat, AllBack, Pick, Keep, Discard, Purge, NothingHeld,
                    DeliverFails, Commit, Die
      <4> QED BY <1>2, <4>1 DEF TellIInv, TypeIInv, TypeOK
    <3> QED BY <1>2, <2>3, <3>1, ForgetsTell DEF TellIInv
  <2>4. ASSUME NEW p \in Proc, PutBack(p) \/ List(p) \/ Take(p) \/ Deliver(p)
        PROVE  Tell'
    <3>1. deaths = 0
      BY <1>2, <2>4 DEF PutBack, List, Take, Deliver
    <3> QED BY <2>4, <3>1, PutBackTell, ListTell, TakeTell, DeliverTell DEF TellIInv
  <2> QED BY <2>1, <2>2, <2>3, <2>4, NextCases
<1> QED BY <1>1, <1>2 DEF TellIInv

\* Of the listeners that race for a wake one renames it, and what it renamed it alone
\* hands on, and once: no wake is told twice while nobody has died, and none is so slow
\* that its claims are taken for abandoned (claim.go).
THEOREM ToldAtMostOnce == ASSUME "slow" \notin Event
                          PROVE  Spec => ToldOnce
<1>1. Init => TellIInv
  BY TellInit
<1>2. TellIInv /\ [Next]_vars => TellIInv'
  BY TellNext
<1>3. TellIInv /\ [Next]_vars => [~ToldAgain]_vars
  <2> SUFFICES ASSUME TellIInv, ToldAgain PROVE FALSE
    OBVIOUS
  <2>1. PICK p \in Proc : Deliver(p) /\ deaths = 0 /\ \E c \in proc[p].held : c.id \in told
    BY DEF ToldAgain, TellIInv, TypeIInv, TypeOK
  <2>2. PICK c \in proc[p].held : c.id \in told
    BY <2>1
  <2>3. c \in Recall(proc[p]) /\ c.f \in File /\ proc[p].at # "commit"
    BY <2>1 DEF Recall, TellIInv, TypeIInv, Shaped, Real, Deliver
  <2> QED BY <2>1, <2>2, <2>3 DEF TellIInv, Tell, Untold
<1> QED BY <1>1, <1>2, <1>3, PTL DEF Spec, ToldOnce

-----------------------------------------------------------------------------
(* Nothing is lost where tasks do run again, as long as deliveries succeed: *)
(* then no claim is put back, and no older wake over a newer one.           *)

Calm == /\ Event \cap {"fail", "die", "slow"} = {}
        /\ Purger = {} \/ "age" \notin Event

\* The news of task t is pending, or in the file of a listener that has yet to tell it.
Alive(t) ==
  \/ pending[t].st = status[t] /\ ~pending[t].stale
  \/ \E f \in File : /\ file[f].task = t /\ file[f].wake.st = status[t] /\ ~file[f].wake.stale
                     /\ proc[file[f].by].at # "commit"
NewsAlive   == \A t \in unheard : status[t] # "running" /\ t \notin gone /\ Alive(t)
TickUnheard == tick # NoTick => tick.task \notin unheard
\* Nothing is put back and the purge finds nothing.
NoneBack == \A p \in Proc : /\ proc[p].back = {} /\ proc[p].at # "release"
                            /\ p \in Purger => proc[p].at \notin {"take", "judge"}
NoneStale == Purger # {} => \A t \in Task : ~pending[t].stale
NewsIInv == TellIInv /\ deaths = 0 /\ NewsAlive /\ TickUnheard /\ NoneBack /\ NoneStale

LEMMA NewsFile ==
  ASSUME NewsIInv, NEW t \in unheard, NEW f \in File, file[f].task = t
  PROVE  t \in Task /\ file[f] # NoFile /\ file[f].by \in Proc
<1>1. t \in Task
  BY DEF NewsIInv, TellIInv, TypeIInv, TypeOK
<1>2. file[f] # NoFile
  BY <1>1, NoFileTyped, WakeQueueAssumption
<1> QED BY <1>1, <1>2 DEF NewsIInv, TellIInv, Tell, Owned

\* The news stays alive when the files that go are told, or no news.
LEMMA NewsStays ==
  ASSUME NewsIInv, NEW p \in Proc, NEW d, LetsGo(p, d),
         UNCHANGED <<status, gone, pending>>, unheard' \subseteq unheard,
         \A t \in unheard' : \A f \in File :
            file[f].task = t /\ file[f].wake.st = status[t] /\ ~file[f].wake.stale
            /\ proc[file[f].by].at # "commit"
            => file'[f] = file[f] /\ (file[f].by = p => proc'[p].at # "commit")
  PROVE  NewsAlive'
<1>1. ASSUME NEW t \in unheard'
      PROVE  Alive(t)'
  <2>0. Alive(t)
    BY DEF NewsIInv, NewsAlive
  <2>1. CASE pending[t].st = status[t] /\ ~pending[t].stale
    BY <2>1 DEF Alive
  <2>2. CASE ~(pending[t].st = status[t] /\ ~pending[t].stale)
    <3>1. PICK f \in File : /\ file[f].task = t /\ file[f].wake.st = status[t]
                            /\ ~file[f].wake.stale /\ proc[file[f].by].at # "commit"
      BY <2>0, <2>2 DEF Alive
    <3>2. file'[f] = file[f] /\ (file[f].by = p => proc'[p].at # "commit")
      BY <3>1
    <3>3. file[f].by \in Proc
      BY <3>1, NewsFile
    <3>4. proc'[file[f].by].at # "commit"
      BY <3>1, <3>2, <3>3 DEF LetsGo
    <3> QED BY <3>1, <3>2, <3>4 DEF Alive
  <2> QED BY <2>1, <2>2
<1> QED BY <1>1 DEF NewsIInv, NewsAlive

\* The listener's step itself: nothing to put back, and nothing for the purge.
LEMMA CalmGo ==
  ASSUME NewsIInv, NEW p \in Proc, NEW d, LetsGo(p, d),
         proc'[p].at # "release", proc'[p].at = "back" => proc'[p].back = {},
         p \in Purger => proc'[p].at \notin {"take", "judge"}
  PROVE  NoneBack'
<1>1. proc'[p].back = {}
  BY DEF LetsGo, Tidy
<1>2. \A q \in Proc : q # p => proc'[q] = proc[q]
  BY DEF LetsGo
<1> QED BY <1>1, <1>2 DEF NewsIInv, NoneBack

LEMMA ForgetsNews ==
  ASSUME Calm, NewsIInv, NEW p \in Proc, Forgets(p)
  PROVE  NewsAlive' /\ TickUnheard' /\ NoneBack' /\ NoneStale' /\ deaths' = 0
<1>t. TypeIInv /\ Owned /\ Tidy(p, proc[p]) /\ Tell
  BY DEF NewsIInv, TellIInv, Tell, Owned
<1>u. UNCHANGED <<status, gone, tick, pending, settles, unheard, told>>
  BY <1>t, ForgetsThins
<1>b. /\ proc[p].back = {} /\ proc[p].at # "release"
      /\ p \in Purger => proc[p].at \notin {"take", "judge"}
  BY DEF NewsIInv, NoneBack
<1>s. TickUnheard' /\ NoneStale'
  BY <1>u DEF NewsIInv, TickUnheard, NoneStale
<1>n. ~Stat(p) /\ ~Purge(p) /\ ~DeliverFails(p) /\ ~Die(p)
  BY <1>b DEF Stat, Purge, DeliverFails, Die, Calm
<1>d. deaths' = 0
  BY <1>n DEF NewsIInv, Forgets, AllBack, Pick, Keep, Discard, NothingHeld, Commit
<1>1. CASE AllBack(p) \/ Pick(p) \/ Keep(p) \/ NothingHeld(p)
  <2>1. /\ LetsGo(p, {}) /\ proc'[p].at \in {"claim", "idle", "take"}
        /\ p \in Purger => proc'[p].at # "take"
    <3>1. CASE AllBack(p) \/ Keep(p) \/ NothingHeld(p)
      BY <3>1, <1>t, AllBackGo, KeepGo, NothingGo
    <3>2. CASE Pick(p)
      BY <3>2, <1>t, PickGo DEF NewsIInv, NoneStale
    <3> QED BY <1>1, <3>1, <3>2
  <2>2. \A f \in File : file'[f] = file[f]
    BY <2>1 DEF LetsGo
  <2>3. NewsAlive'
    BY <1>u, <2>1, <2>2, NewsStays
  <2>4. NoneBack'
    BY <2>1, CalmGo
  <2> QED BY <1>s, <1>d, <2>3, <2>4
<1>2. CASE Discard(p)
  <2>c. PICK c : c = proc[p].cur
    OBVIOUS
  <2>1. LetsGo(p, {c}) /\ proc'[p].at = "claim" /\ (Exists(c.f) => MayBeOld(c))
    BY <1>2, <1>t, <2>c, DiscardGo DEF Discard
  <2>2. c.f \in File /\ c \in Recall(proc[p])
    BY <2>1 DEF LetsGo
  <2>3. file[c.f] # NoFile /\ c = Claim(c.f)
    BY <2>2, <1>t DEF Owned
  <2>4. c.task = file[c.f].task /\ c.st = file[c.f].wake.st
    BY <2>3 DEF Claim
  <2>5. MayBeOld(c)
    BY <2>1, <2>3 DEF Exists
  <2>6. ASSUME NEW t \in unheard, NEW f \in File,
               file[f].task = t, file[f].wake.st = status[t], ~file[f].wake.stale
        PROVE  file'[f] = file[f]
    <3>1. f # c.f
      BY <2>4, <2>5, <2>6 DEF MayBeOld, NewsIInv, NewsAlive
    <3> QED BY <3>1, <2>1 DEF LetsGo
  <2>7. NewsAlive'
    BY <1>u, <2>1, <2>6, NewsStays
  <2>8. NoneBack'
    BY <2>1, CalmGo
  <2> QED BY <1>s, <1>d, <2>7, <2>8
<1>3. CASE Commit(p)
  <2>1. PICK c \in proc[p].held : LetsGo(p, {c})
    BY <1>3, <1>t, CommitGo
  <2>2. proc'[p].at \in {"idle", "commit"} /\ proc[p].at = "commit"
    BY <1>3, <1>t, CommitGo DEF Commit
  <2>3. c.f \in File /\ c \in Recall(proc[p])
    BY <2>1 DEF LetsGo
  <2>4. file[c.f].by = p
    BY <2>3, <1>t DEF Owned
  <2>5. \A f \in File : proc[file[f].by].at # "commit" => file'[f] = file[f] /\ file[f].by # p
    BY <2>1, <2>2, <2>4 DEF LetsGo
  <2>6. NewsAlive'
    BY <1>u, <2>1, <2>5, NewsStays
  <2>7. NoneBack'
    BY <2>1, <2>2, CalmGo
  <2> QED BY <1>s, <1>d, <2>6, <2>7
<1> QED BY <1>n, <1>1, <1>2, <1>3 DEF Forgets

LEMMA ListNews ==
  ASSUME Calm, NewsIInv, NEW p \in Proc, List(p)
  PROVE  NewsAlive' /\ TickUnheard' /\ NoneBack' /\ NoneStale' /\ deaths' = 0
<1>1. UNCHANGED <<status, gone, tick, pending, file, deaths, unheard>>
  BY DEF List
<1>2. LetsGo(p, {}) /\ proc'[p].at = "back" /\ proc'[p].back = {}
  BY ListGo DEF Calm, NewsIInv, TellIInv
<1>3. NewsAlive'
  BY <1>1, <1>2, NewsStays
<1>4. NoneBack'
  BY <1>2, CalmGo
<1> QED BY <1>1, <1>3, <1>4 DEF NewsIInv, TickUnheard, NoneStale

\* What a listener claimed and holds is all it has in files when it delivers.
LEMMA DeliverNews ==
  ASSUME Calm, NewsIInv, NEW p \in Proc, Deliver(p)
  PROVE  NewsAlive' /\ TickUnheard' /\ NoneBack' /\ NoneStale' /\ deaths' = 0
<1>t. TypeIInv /\ Owned /\ Tidy(p, proc[p]) /\ Tell
  BY DEF NewsIInv, TellIInv, Tell, Owned
<1>1. /\ UNCHANGED <<status, gone, tick, pending, file, deaths>>
      /\ unheard' = unheard \ {c.task : c \in {d \in proc[p].held : d.st = status[d.task]}}
      /\ proc[p].at = "claim"
  BY DEF Deliver
<1>2. LetsGo(p, {}) /\ proc'[p].at = "commit"
  BY <1>t, DeliverGo
<1>3. proc[p].back = {} /\ proc[p].cur = NoClaim
  BY <1>1, <1>t DEF Tidy, TypeIInv, Shaped
<1>4. ASSUME NEW t \in unheard', NEW f \in File, file[f].task = t, file[f].wake.st = status[t]
      PROVE  file[f].by # p
  <2>1. t \in unheard /\ file[f] # NoFile
    BY <1>1, <1>4, NewsFile
  <2>2. SUFFICES ASSUME file[f].by = p PROVE FALSE
    OBVIOUS
  <2>3. PICK c \in Recall(proc[p]) : c.f = f
    BY <1>t, <2>1, <2>2 DEF Owned
  <2>4. c = Claim(f)
    BY <1>t, <2>3 DEF Owned
  <2>5. c.task = t /\ c.st = status[c.task]
    BY <1>4, <2>4 DEF Claim
  <2>6. c \in proc[p].held
    BY <1>3, <2>3, NoClaimTyped DEF Recall
  <2> QED BY <1>1, <2>5, <2>6
<1>5. NewsAlive'
  BY <1>1, <1>2, <1>4, NewsStays
<1>6. NoneBack'
  BY <1>2, CalmGo
<1> QED BY <1>1, <1>5, <1>6 DEF NewsIInv, TickUnheard, NoneStale

LEMMA TakeNews ==
  ASSUME Calm, NewsIInv, NEW p \in Proc, Take(p)
  PROVE  NewsAlive' /\ TickUnheard' /\ NoneBack' /\ NoneStale' /\ deaths' = 0
<1>t. TypeIInv /\ Tidy(p, proc[p])
  BY DEF NewsIInv, TellIInv, Tell, Owned
<1>u. UNCHANGED <<status, gone, tick, deaths, unheard>> /\ proc[p].at = "take"
  BY DEF Take
<1>1. CASE pending[proc[p].cur.task] = NoWake
  <2>1. LetsGo(p, {}) /\ proc'[p].at = "claim" /\ UNCHANGED <<pending, file>>
    BY <1>t, <1>1, TakeNone
  <2>2. NewsAlive'
    BY <1>u, <2>1, NewsStays
  <2>3. NoneBack'
    BY <2>1, CalmGo
  <2> QED BY <1>u, <2>1, <2>2, <2>3 DEF NewsIInv, TickUnheard, NoneStale
<1>2. CASE pending[proc[p].cur.task] # NoWake
  <2> PICK f \in File : \E s : Moves(p, s) /\ Takes(p, f, s)
    BY <1>t, <1>2, TakeWins
  <2> PICK s : Moves(p, s) /\ Takes(p, f, s)
    OBVIOUS
  <2>t. PICK t : t = proc[p].cur.task
    OBVIOUS
  <2>x. PICK x : x = [task |-> t, wake |-> pending[t], by |-> p]
    OBVIOUS
  <2>1. /\ t \in Task /\ Fresh(f) /\ pending[t] # NoWake
        /\ file' = [file EXCEPT ![f] = x]
        /\ pending' = [pending EXCEPT ![t] = NoWake]
        /\ s.at = "judge" /\ s.back = proc[p].back
    BY <2>t, <2>x DEF Takes
  <2>2. x.task = t /\ x.wake = pending[t] /\ x.by = p
    BY <2>x
  <2>3. /\ \A g \in File : file'[g] = IF g = f THEN x ELSE file[g]
        /\ \A u \in Task : pending'[u] = IF u = t THEN NoWake ELSE pending[u]
        /\ \A q \in Proc : proc'[q] = IF q = p THEN s ELSE proc[q]
    BY <1>t, <2>1 DEF Moves, TypeIInv, TypeOK
  <2>4. file[f] = NoFile
    BY <2>1 DEF Fresh, Exists
  <2>5. ASSUME NEW u \in unheard
        PROVE  Alive(u)'
    <3>0. Alive(u) /\ u \in Task
      BY <1>t DEF NewsIInv, NewsAlive, TypeIInv, TypeOK
    <3>1. CASE pending[u].st = status[u] /\ ~pending[u].stale
      <4>1. CASE u = t
        <5>1. /\ file'[f].task = u /\ file'[f].wake.st = status[u] /\ ~file'[f].wake.stale
              /\ proc'[file'[f].by].at # "commit"
          BY <3>1, <4>1, <2>1, <2>2, <2>3
        <5> QED BY <1>u, <5>1 DEF Alive
      <4>2. CASE u # t
        BY <1>u, <3>0, <3>1, <4>2, <2>3 DEF Alive
      <4> QED BY <4>1, <4>2
    <3>2. CASE ~(pending[u].st = status[u] /\ ~pending[u].stale)
      <4>1. PICK g \in File : /\ file[g].task = u /\ file[g].wake.st = status[u]
                              /\ ~file[g].wake.stale /\ proc[file[g].by].at # "commit"
        BY <3>0, <3>2 DEF Alive
      <4>2. file[g] # NoFile /\ file[g].by \in Proc
        BY <4>1, NewsFile
      <4>3. file'[g] = file[g]
        BY <4>2, <2>3, <2>4
      <4>4. proc'[file[g].by].at # "commit"
        BY <4>1, <4>2, <2>1, <2>3
      <4> QED BY <1>u, <4>1, <4>3, <4>4 DEF Alive
    <3> QED BY <3>1, <3>2
  <2>6. NewsAlive'
    BY <1>u, <2>5 DEF NewsIInv, NewsAlive
  <2>7. NoneBack'
    <3>1. p \notin Purger
      BY <1>u DEF NewsIInv, NoneBack
    <3> QED BY <3>1, <2>1, <2>3 DEF NewsIInv, NoneBack
  <2>8. NoneStale'
    BY <2>3, NoFileTyped DEF NewsIInv, NoneStale
  <2> QED BY <1>u, <2>6, <2>7, <2>8 DEF NewsIInv, TickUnheard
<1> QED BY <1>1, <1>2

LEMMA OutsideNews ==
  ASSUME Calm, NewsIInv, Outside
  PROVE  NewsAlive' /\ TickUnheard' /\ NoneBack' /\ NoneStale' /\ deaths' = 0
<1>t. TypeIInv
  BY DEF NewsIInv, TellIInv
<1>p. UNCHANGED <<proc, deaths>>
  BY DEF Outside, Reprompt, Retire, Settle, RecordWake, WakeSkipped, Age
<1>b. NoneBack' /\ deaths' = 0
  BY <1>p DEF NewsIInv, NoneBack
<1>1. ASSUME NEW t \in Task, Reprompt(t) \/ Retire(t)
      PROVE  NewsAlive' /\ TickUnheard' /\ NoneStale'
  <2>1. /\ unheard' = unheard \ {t} /\ UNCHANGED <<tick, pending, file>>
        /\ \A u \in Task : u # t => status'[u] = status[u]
        /\ gone' \subseteq gone \cup {t}
    BY <1>1, <1>t DEF Reprompt, Retire, TypeIInv, TypeOK
  <2>2. ASSUME NEW u \in unheard'
        PROVE  status'[u] # "running" /\ u \notin gone' /\ Alive(u)'
    <3>1. u \in unheard /\ u \in Task /\ u # t
      BY <2>1, <1>t DEF TypeIInv, TypeOK
    <3>2. status'[u] = status[u] /\ u \notin gone' /\ status[u] # "running" /\ Alive(u)
      BY <2>1, <3>1 DEF NewsIInv, NewsAlive
    <3> QED BY <1>p, <2>1, <3>2 DEF Alive
  <2> QED BY <2>1, <2>2 DEF NewsAlive, NewsIInv, TickUnheard, NoneStale
<1>2. ASSUME NEW t \in Task, NEW x \in Status, Settle(t, x)
      PROVE  NewsAlive' /\ TickUnheard' /\ NoneStale'
  <2>1. /\ status[t] = "running" /\ tick'.task = t
        /\ UNCHANGED <<gone, pending, file, unheard>>
        /\ \A u \in Task : u # t => status'[u] = status[u]
    BY <1>2, <1>t DEF Settle, TypeIInv, TypeOK
  <2>2. t \notin unheard
    BY <2>1 DEF NewsIInv, NewsAlive
  <2>3. ASSUME NEW u \in unheard'
        PROVE  status'[u] # "running" /\ u \notin gone' /\ Alive(u)'
    <3>1. u \in unheard /\ u \in Task /\ u # t
      BY <2>1, <2>2, <1>t DEF TypeIInv, TypeOK
    <3>2. status'[u] = status[u] /\ u \notin gone' /\ status[u] # "running" /\ Alive(u)
      BY <2>1, <3>1 DEF NewsIInv, NewsAlive
    <3> QED BY <1>p, <2>1, <3>2 DEF Alive
  <2> QED BY <2>1, <2>2, <2>3 DEF NewsAlive, NewsIInv, TickUnheard, NoneStale
<1>3. CASE RecordWake
  <2>t. PICK t : t = tick.task
    OBVIOUS
  <2>w. PICK w : w = [st |-> tick.st, id |-> tick.id, stale |-> FALSE]
    OBVIOUS
  <2>1. /\ tick # NoTick /\ tick' = NoTick
        /\ pending' = [pending EXCEPT ![t] = w]
        /\ unheard' = IF status[t] = tick.st /\ t \notin gone THEN unheard \cup {t} ELSE unheard
        /\ UNCHANGED <<status, gone, file>>
    BY <1>3, <2>t, <2>w DEF RecordWake, Written
  <2>2. t \in Task /\ tick.st # "running" /\ t \notin unheard
    BY <1>t, <2>t, <2>1, WakeQueueAssumption DEF TypeIInv, NewsIInv, TickUnheard
  <2>3. \A u \in Task : pending'[u] = IF u = t THEN w ELSE pending[u]
    BY <1>t, <2>1 DEF TypeIInv, TypeOK
  <2>4. w.st = tick.st /\ w.stale = FALSE
    BY <2>w
  <2>5. ASSUME NEW u \in unheard'
        PROVE  status'[u] # "running" /\ u \notin gone' /\ Alive(u)'
    <3>1. CASE u = t
      BY <2>1, <2>2, <2>3, <2>4, <2>5, <3>1 DEF Alive
    <3>2. CASE u # t
      <4>1. u \in unheard /\ u \in Task
        BY <2>1, <2>5, <3>2, <1>t DEF TypeIInv, TypeOK
      <4>2. status[u] # "running" /\ u \notin gone /\ Alive(u) /\ pending'[u] = pending[u]
        BY <2>3, <3>2, <4>1 DEF NewsIInv, NewsAlive
      <4> QED BY <1>p, <2>1, <4>2 DEF Alive
    <3> QED BY <3>1, <3>2
  <2>6. NoneStale'
    BY <2>3, <2>4 DEF NewsIInv, NoneStale
  <2> QED BY <1>b, <2>1, <2>5, <2>6 DEF NewsAlive, TickUnheard
<1>4. CASE WakeSkipped
  <2>1. tick' = NoTick /\ UNCHANGED <<status, gone, pending, file, unheard>>
    BY <1>4 DEF WakeSkipped
  <2> QED BY <1>p, <1>b, <2>1 DEF NewsIInv, NewsAlive, Alive, TickUnheard, NoneStale
<1>5. CASE Age
  <2>1. unheard' = {} /\ Purger = {} /\ UNCHANGED tick
    BY <1>5 DEF Age, Calm
  <2> QED BY <1>b, <2>1 DEF NewsAlive, TickUnheard, NoneStale
<1> QED BY <1>b, <1>1, <1>2, <1>3, <1>4, <1>5 DEF Outside

\* A task that runs again and settles again is heard of, too: as long as no delivery
\* fails, no listener dies or is taken for dead, and nothing is purged, a wake that is
\* still news is on disk until a listener has handed it on (claim.go, wake.go).
THEOREM NothingLostAgain == ASSUME Calm
                            PROVE  Spec => []NoWakeLost
<1>1. Init => NewsIInv
  <2> SUFFICES ASSUME Init PROVE NewsIInv
    OBVIOUS
  <2>1. TellIInv /\ deaths = 0
    BY TellInit DEF Init
  <2>2. NewsAlive /\ TickUnheard /\ NoneBack /\ NoneStale
    BY NoFileTyped DEF Init, NewsAlive, TickUnheard, NoneBack, NoneStale, IdleProc
  <2> QED BY <2>1, <2>2 DEF NewsIInv
<1>2. NewsIInv /\ [Next]_vars => NewsIInv'
  <2> SUFFICES ASSUME NewsIInv, [Next]_vars PROVE NewsIInv'
    OBVIOUS
  <2>1. TellIInv'
    BY TellNext DEF Calm, NewsIInv
  <2>2. NewsAlive' /\ TickUnheard' /\ NoneBack' /\ NoneStale' /\ deaths' = 0
    <3>1. CASE UNCHANGED vars
      BY <3>1 DEF vars, NewsIInv, NewsAlive, Alive, TickUnheard, NoneBack, NoneStale
    <3>2. ASSUME NEW p \in Proc, PutBack(p) PROVE FALSE
      BY <3>2 DEF PutBack, NewsIInv, NoneBack, TellIInv, Tell, Owned, Tidy
    <3>3. CASE Next
      BY <3>2, <3>3, NextCases, OutsideNews, ForgetsNews, ListNews, TakeNews, DeliverNews
    <3> QED BY <3>1, <3>3
  <2> QED BY <2>1, <2>2 DEF NewsIInv
<1>3. NewsIInv => NoWakeLost
  BY DEF NewsIInv, NewsAlive, Alive, NoWakeLost
<1> QED BY <1>1, <1>2, <1>3, PTL DEF Spec
=============================================================================
