--------------------------- MODULE Mission_proof ---------------------------
(***************************************************************************)
(* Proofs about what a mission depends on besides its record: the answers  *)
(* to its soldier (Answers), the shipping of its work (Ship), its terminal *)
(* (HcTerminals); for every set of commands, questions, harnesses, fix     *)
(* rounds, review attempts, commits, tasks and terminals.                  *)
(***************************************************************************)
EXTENDS Answers, Ship, HcTerminals, TLAPS

-----------------------------------------------------------------------------
(* Answers: what a soldier's tool takes from its answer file was meant for  *)
(* the question it asks, and was not withdrawn.                             *)

USE AnswersAssumption

\* A decide that has written its answer, or got further.
Wrote == {"wait", "record", "ok", "gone"}
ByFile == {h \in heard : h.via = "file"}

DecideTypes == /\ decide = [d \in Decider |-> decide[d]]
               /\ \A d \in Decider : decide[d] = [at |-> decide[d].at, copy |-> decide[d].copy,
                                                  plan |-> decide[d].plan]
Counted == /\ asked \in Nat /\ qfile \in 0..asked /\ screen.q \in 0..asked
           /\ screen = [kind |-> screen.kind, q |-> screen.q]

\* The tool takes an answer only while its question is on the screen and on file.
TakingOpen == taking # NoAnswer =>
                /\ screen.kind = "ask" /\ taking.q = screen.q
                /\ taking.by \in Decider /\ decide[taking.by].at \in Wrote
                /\ taking.q = decide[taking.by].copy.q
AskOnFile == IF screen.kind = "ask" THEN qfile = screen.q /\ screen.q > 0 ELSE qfile = 0
\* An answer on file is that of a decide that has written it.
Author == afile # NoAnswer => /\ afile.by \in Decider /\ decide[afile.by].at \in Wrote
                              /\ afile.q = decide[afile.by].copy.q
\* An answer that was heard was the decide's own, and its question is over.
HeardOver == \A h \in ByFile : /\ h.by \in Decider /\ decide[h.by].at \in Wrote
                               /\ h.q = h.meant /\ h.meant = decide[h.by].copy.q
                               /\ h.q \in 1..asked /\ qfile # h.q

\* Only a Pi soldier asks by file, and only the others are answered by keys.
KeyStep == {"look", "press", "field", "type"}
ByHarness == /\ harness \in Harness
             /\ screen.kind = "ask" => harness = "pi"
             /\ screen.kind = "modal" => harness # "pi"
             /\ rec.kind = "modal" => harness # "pi"
KeysElsewhere == \A d \in Decider : decide[d].at \in KeyStep => harness # "pi"

AnswersIInv == /\ ByHarness /\ KeysElsewhere /\ DecideTypes /\ Counted
               /\ TakingOpen /\ AskOnFile /\ Author /\ HeardOver

LEMMA AnswersStart == AnswersInit => AnswersIInv
  BY DEF AnswersInit, AnswersIInv, ByHarness, KeysElsewhere, KeyStep, NoDecision, DecideTypes,
         Counted, TakingOpen, AskOnFile, Author, HeardOver,
         ByFile, NoAnswer, Begun

-----------------------------------------------------------------------------
(* The soldier.                                                             *)
LEMMA SoldierStep ==
  ASSUME AnswersIInv, Soldier
  PROVE  AnswersIInv'
<1> USE DEF AnswersIInv, ByHarness, KeysElsewhere, DecideTypes, Counted, TakingOpen, AskOnFile,
            Author, HeardOver, ByFile, NoAnswer, Outside, files
<1>1. ASSUME NEW kind \in Screens[harness], Asks(kind)
      PROVE  AnswersIInv'
  BY <1>1 DEF Asks, Screens
<1>2. CASE AnsweredThere
  BY <1>2 DEF AnsweredThere, Closes
<1>3. CASE ReadsAnswer
  BY <1>3 DEF ReadsAnswer, Addressed
<1>4. CASE TakesAnswer
  BY <1>4 DEF TakesAnswer, Closes
<1>5. CASE Restarts
  BY <1>5 DEF Restarts, Closes
<1> QED BY <1>1, <1>2, <1>3, <1>4, <1>5 DEF Soldier

-----------------------------------------------------------------------------
(* A decide: one that goes from a step to the next keeps what it has.       *)
LEMMA DecideStays ==
  ASSUME AnswersIInv, NEW d \in Decider, NEW a, Turns(d, a), harness' = harness,
         decide[d].at \in Wrote => a \in Wrote,
         a \in KeyStep => harness # "pi"
  PROVE  /\ DecideTypes' /\ KeysElsewhere'
         /\ \A c \in Decider : decide'[c].copy = decide[c].copy
         /\ \A c \in Decider : decide[c].at \in Wrote => decide'[c].at \in Wrote
  BY DEF AnswersIInv, DecideTypes, KeysElsewhere, Turns

\* What the invariant says besides is kept by a step that leaves the soldier, its
\* files and the record alone.
LEMMA RestStays ==
  ASSUME AnswersIInv, Still, UNCHANGED files,
         \A c \in Decider : decide'[c].copy = decide[c].copy,
         \A c \in Decider : decide[c].at \in Wrote => decide'[c].at \in Wrote
  PROVE  ByHarness' /\ Counted' /\ TakingOpen' /\ AskOnFile' /\ Author' /\ HeardOver'
  BY DEF AnswersIInv, Still, files, pane, ByHarness, Counted, TakingOpen, AskOnFile, Author,
         HeardOver, ByFile, NoAnswer

\* The steps that do not touch the pane: they turn to another step.
LEMMA TurnKeeps ==
  ASSUME AnswersIInv, NEW d \in Decider, NEW a, Turns(d, a), Still, UNCHANGED files,
         decide[d].at \in Wrote => a \in Wrote,
         a \in KeyStep => harness # "pi"
  PROVE  AnswersIInv'
  BY DecideStays, RestStays DEF Still, AnswersIInv

LEMMA DecideStepKeeps ==
  ASSUME AnswersIInv, NEW d \in Decider, DecideStep(d) \/ Dies(d)
  PROVE  AnswersIInv'
<1> DEFINE at == decide[d].at
<1>1. CASE LoadBlocked(d)
  <2>1. DecideTypes' /\ KeysElsewhere'
    BY <1>1 DEF LoadBlocked, FirstStep, AnswersIInv, DecideTypes, KeysElsewhere, KeyStep, Still,
                ByHarness
  <2>2. at \notin Wrote
    BY <1>1 DEF LoadBlocked, Stands, Wrote
  <2>3. /\ \A c \in Decider \ {d} : decide'[c] = decide[c]
        /\ UNCHANGED <<harness, rec, heard, screen, asked, taking, qfile, afile>>
    BY <1>1 DEF LoadBlocked, Still, files, pane, AnswersIInv, DecideTypes
  <2> QED BY <2>1, <2>2, <2>3 DEF AnswersIInv, ByHarness, Counted, TakingOpen, AskOnFile, Author,
                                  HeardOver, ByFile, NoAnswer
<1>2. CASE Unresolved(d)
  BY <1>2, TurnKeeps DEF Unresolved, Stands, Wrote, KeyStep
<1>3. CASE Reread(d)
  BY <1>3, TurnKeeps DEF Reread, Stands, Wrote, KeyStep
<1>4. CASE Write(d)
  <2>1. /\ DecideTypes' /\ KeysElsewhere' /\ decide'[d].at = "wait"
        /\ \A c \in Decider : decide'[c].copy = decide[c].copy
        /\ \A c \in Decider : decide[c].at \in Wrote => decide'[c].at \in Wrote
    BY <1>4 DEF Write, Stands, Still, Turns, AnswersIInv, DecideTypes, KeysElsewhere, Wrote, KeyStep
  <2> QED BY <1>4, <2>1 DEF Write, Still, pane, Copy, AnswersIInv, ByHarness, Counted, TakingOpen,
                            AskOnFile, Author, HeardOver, ByFile, NoAnswer, Wrote
<1>5. CASE Consumed(d)
  BY <1>5, TurnKeeps DEF Consumed, Stands, Wrote, KeyStep
<1>6. CASE TimesOut(d)
  <2>1. /\ afile' = NoAnswer /\ taking = NoAnswer /\ qfile = decide[d].copy.q
        /\ UNCHANGED <<harness, rec, heard, screen, asked, taking, qfile>>
    BY <1>6 DEF TimesOut, WithdrawnFile, Still, pane, Copy
  <2>2. /\ DecideTypes' /\ KeysElsewhere'
        /\ \A c \in Decider : decide'[c].copy = decide[c].copy
        /\ \A c \in Decider \ {d} : decide'[c].at = decide[c].at
    BY <1>6, <2>1 DEF TimesOut, Turns, AnswersIInv, DecideTypes, KeysElsewhere, KeyStep
  <2>3. \A h \in ByFile : h.by # d
    BY <2>1 DEF AnswersIInv, HeardOver
  <2>4. HeardOver'
    BY <2>1, <2>2, <2>3 DEF AnswersIInv, HeardOver, ByFile
  <2> QED BY <2>1, <2>2, <2>4 DEF AnswersIInv, ByHarness, Counted, TakingOpen, AskOnFile, Author
<1>7. CASE LookAt(d)
  <2>1. CASE \E a \in {"prompt", "refused"} : Turns(d, a)
    BY <1>7, <2>1, TurnKeeps DEF LookAt, Stands, Wrote, KeyStep
  <2>2. CASE \E plan \in PlanFor(screen.kind) :
               decide' = [decide EXCEPT ![d] = [@ EXCEPT !.at = "press", !.plan = plan]]
    <3>1. at = "look" /\ Still /\ UNCHANGED files
      BY <1>7 DEF LookAt, Stands
    <3> PICK plan \in PlanFor(screen.kind) :
               decide' = [decide EXCEPT ![d] = [@ EXCEPT !.at = "press", !.plan = plan]]
      BY <2>2
    <3>3. /\ decide'[d] = [at |-> "press", copy |-> decide[d].copy, plan |-> plan]
          /\ \A c \in Decider \ {d} : decide'[c] = decide[c]
          /\ DecideTypes'
      <4> SUFFICES ASSUME NEW r, r = decide[d], NEW n, n = [r EXCEPT !.at = "press", !.plan = plan],
                          decide' = [decide EXCEPT ![d] = n]
                   PROVE  /\ decide'[d] = [at |-> "press", copy |-> decide[d].copy, plan |-> plan]
                          /\ \A c \in Decider \ {d} : decide'[c] = decide[c]
                          /\ DecideTypes'
        BY Zenon
      <4>1. r = [at |-> r.at, copy |-> r.copy, plan |-> r.plan]
        BY DEF AnswersIInv, DecideTypes
      <4>2. n = [at |-> "press", copy |-> r.copy, plan |-> plan]
        BY <4>1
      <4> QED BY <4>2 DEF AnswersIInv, DecideTypes
    <3>4. harness # "pi"
      BY <3>1 DEF AnswersIInv, KeysElsewhere, KeyStep
    <3>2. /\ DecideTypes' /\ KeysElsewhere'
          /\ \A c \in Decider : decide'[c].copy = decide[c].copy
          /\ \A c \in Decider : decide[c].at \in Wrote => decide'[c].at \in Wrote
      BY <3>1, <3>3, <3>4 DEF Still, AnswersIInv, DecideTypes, KeysElsewhere, Wrote, KeyStep
    <3> QED BY <3>1, <3>2, RestStays DEF AnswersIInv
  <2> QED BY <1>7, <2>1, <2>2 DEF LookAt
<1>8. CASE Press(d) \/ FieldOpens(d) \/ Type(d)
  <2>1. at \in KeyStep /\ screen.kind # "ask" /\ taking = NoAnswer
    BY <1>8 DEF Press, FieldOpens, Type, Stands, KeyStep, AnswersIInv, KeysElsewhere, ByHarness,
                TakingOpen
  <2>2. /\ UNCHANGED <<harness, rec, asked, qfile, afile, taking>>
        /\ screen' = screen \/ screen' = [screen EXCEPT !.kind = "field"]
                             \/ screen' = [kind |-> "working", q |-> 0]
        /\ \/ heard' = heard
           \/ \E h : h.via = "keys" /\ heard' = heard \cup {h}
    BY <1>8, <2>1 DEF Press, FieldOpens, Type, Still, pane, files, Closes, Hears
  <2>3. \E a \in {"field", "type", "refused", "record"} : Turns(d, a)
    BY <1>8 DEF Press, FieldOpens, Type
  <2>4. /\ DecideTypes' /\ KeysElsewhere'
        /\ \A c \in Decider : decide'[c].copy = decide[c].copy
        /\ \A c \in Decider : decide[c].at \in Wrote => decide'[c].at \in Wrote
    <3>1. harness # "pi" /\ at \notin Wrote
      BY <2>1 DEF AnswersIInv, KeysElsewhere, KeyStep, Wrote
    <3>2. PICK a \in {"field", "type", "refused", "record"} : Turns(d, a)
      BY <2>3
    <3>3. /\ decide[d].at \in Wrote => a \in Wrote
          /\ a \in KeyStep => harness # "pi"
          /\ harness' = harness
      BY <3>1, <2>2
    <3> QED BY <3>2, <3>3, DecideStays
  <2>5. ByFile' = ByFile
    BY <2>2 DEF ByFile
  <2>6. /\ screen'.kind \in {screen.kind, "field", "working"} /\ screen'.q \in 0..asked
        /\ screen' = [kind |-> screen'.kind, q |-> screen'.q]
    <3>1. screen = [kind |-> screen.kind, q |-> screen.q] /\ asked \in Nat /\ screen.q \in 0..asked
      BY DEF AnswersIInv, Counted
    <3>2. CASE screen' = [screen EXCEPT !.kind = "field"]
      BY <3>1, <3>2
    <3>3. CASE screen' \in {screen, [kind |-> "working", q |-> 0]}
      BY <3>1, <3>3
    <3> QED BY <2>2, <3>2, <3>3
  <2>7. ByHarness' /\ Counted' /\ AskOnFile' /\ TakingOpen' /\ screen'.kind # "ask"
    BY <2>1, <2>2, <2>6 DEF AnswersIInv, ByHarness, Counted, AskOnFile, TakingOpen, NoAnswer
  <2> QED BY <2>2, <2>4, <2>5, <2>7 DEF AnswersIInv, Author, HeardOver, NoAnswer
<1>9. CASE PromptSent(d)
  <2>1. /\ screen' = screen /\ taking' = taking
        \/ /\ screen.kind # "ask" /\ screen' = [kind |-> "working", q |-> 0]
           /\ taking' = NoAnswer
    BY <1>9 DEF PromptSent, Closes, Waiting
  <2>2. UNCHANGED <<harness, rec, asked, qfile, afile>> /\ at = "prompt"
    BY <1>9 DEF PromptSent, files, Stands
  <2>3. ByFile' = ByFile
    BY <1>9 DEF PromptSent, ByFile
  <2>4. /\ DecideTypes' /\ KeysElsewhere'
        /\ \A c \in Decider : decide'[c].copy = decide[c].copy
        /\ \A c \in Decider : decide[c].at \in Wrote => decide'[c].at \in Wrote
    <3>1. \E a \in {"refused", "record"} : Turns(d, a)
      BY <1>9 DEF PromptSent
    <3> QED BY <2>2, <3>1, DecideStays DEF Wrote, KeyStep
  <2>5. ByHarness' /\ Counted' /\ AskOnFile'
    BY <2>1, <2>2 DEF AnswersIInv, ByHarness, Counted, AskOnFile
  <2>6. TakingOpen' /\ Author'
    BY <2>1, <2>2, <2>4 DEF AnswersIInv, TakingOpen, Author
  <2> QED BY <2>2, <2>3, <2>4, <2>5, <2>6 DEF AnswersIInv, HeardOver
<1>10. CASE Record(d)
  <2>1. UNCHANGED <<harness, heard, screen, asked, taking, qfile, afile>>
    BY <1>10 DEF Record, pane, files
  <2>2. rec'.kind = "modal" => harness # "pi"
    <3>1. CASE rec' = [rec EXCEPT !.blocked = FALSE, !.answered = TRUE]
      BY <3>1 DEF AnswersIInv, ByHarness
    <3>2. CASE rec' = [blocked |-> TRUE, kind |-> KindOf(screen), q |-> screen.q, answered |-> FALSE]
      BY <3>2 DEF AnswersIInv, ByHarness, KindOf
    <3> QED BY <1>10, <3>1, <3>2 DEF Record
  <2>3. /\ DecideTypes' /\ KeysElsewhere'
        /\ \A c \in Decider : decide'[c].copy = decide[c].copy
        /\ \A c \in Decider : decide[c].at \in Wrote => decide'[c].at \in Wrote
    BY <1>10, <2>1, DecideStays DEF Record, Wrote, KeyStep
  <2> QED BY <2>1, <2>2, <2>3 DEF AnswersIInv, ByHarness, Counted, TakingOpen, AskOnFile, Author,
                                  HeardOver, ByFile
<1>11. CASE Dies(d)
  BY <1>11, TurnKeeps DEF Dies, Wrote, KeyStep
<1> QED
  BY <1>1, <1>2, <1>3, <1>4, <1>5, <1>6, <1>7, <1>8, <1>9, <1>10, <1>11 DEF DecideStep

LEMMA RecordKeeps ==
  ASSUME AnswersIInv, RecordsBlocked \/ Dismisses
  PROVE  AnswersIInv'
<1>1. UNCHANGED <<harness, screen, asked, taking, qfile, afile, decide, heard>>
  BY DEF RecordsBlocked, Dismisses, pane, files
<1>2. rec'.kind = "modal" => harness # "pi"
  <2>1. CASE RecordsBlocked
    BY <2>1 DEF RecordsBlocked, KindOf, AnswersIInv, ByHarness
  <2>2. CASE Dismisses
    BY <2>2 DEF Dismisses, AnswersIInv, ByHarness
  <2> QED BY <2>1, <2>2
<1> QED BY <1>1, <1>2 DEF AnswersIInv, ByHarness, KeysElsewhere, DecideTypes, Counted, TakingOpen,
                          AskOnFile, Author, HeardOver, ByFile

LEMMA AnswersStep ==
  ASSUME AnswersIInv, [AnswersNext]_answersVars
  PROVE  AnswersIInv'
<1>1. CASE UNCHANGED answersVars
  BY <1>1 DEF answersVars, AnswersIInv, ByHarness, KeysElsewhere, DecideTypes, Counted, TakingOpen,
              AskOnFile, Author, HeardOver, ByFile
<1> QED BY <1>1, SoldierStep, RecordKeeps, DecideStepKeeps DEF AnswersNext

-----------------------------------------------------------------------------
(* The theorems.                                                            *)

\* However old the record or the file, what a Pi soldier takes from its file answers
\* the question it asks, which is the one the general was shown (pi_ask.go, ask_user.ts).
THEOREM FileAnswered == AnswersSpec => []FileAnswersTheShown
<1>1. AnswersInit => AnswersIInv
  BY AnswersStart
<1>2. AnswersIInv /\ [AnswersNext]_answersVars => AnswersIInv'
  BY AnswersStep
<1>3. AnswersIInv => FileAnswersTheShown
  BY DEF AnswersIInv, HeardOver, ByFile, FileAnswersTheShown
<1> QED BY <1>1, <1>2, <1>3, PTL DEF AnswersSpec

\* An answer that was reported as refused or withdrawn has not been heard, and is not
\* heard later (piask.go WaitConsumed, Withdraw).
THEOREM RefusedUnheard == AnswersSpec => []RefusedIsUnheard
<1>1. AnswersInit => AnswersIInv
  BY AnswersStart
<1>2. AnswersIInv /\ [AnswersNext]_answersVars => AnswersIInv'
  BY AnswersStep
<1>3. AnswersIInv => RefusedIsUnheard
  BY DEF AnswersIInv, HeardOver, ByFile, RefusedIsUnheard, Stands, Wrote
<1> QED BY <1>1, <1>2, <1>3, PTL DEF AnswersSpec

-----------------------------------------------------------------------------
(* Ships: a ship takes nobody's commits off the remote branch, pushes what  *)
(* its review judged, and a land merges a head whose checks were green.     *)

HIDE AnswersAssumption
USE ShipAssumption

-----------------------------------------------------------------------------
(* Branches: only which commits they hold matters below.                    *)
LEMMA AppendHolds ==
  ASSUME NEW s \in Seq(Nat), NEW x \in Nat
  PROVE  Append(s, x) \in Seq(Nat) /\ ToSet(Append(s, x)) = ToSet(s) \cup {x}
<1> PICK t : t = Append(s, x)
  OBVIOUS
<1>1. /\ t \in Seq(Nat) /\ Len(t) = Len(s) + 1 /\ t[Len(s) + 1] = x
      /\ \A i \in 1 .. Len(s) : t[i] = s[i]
  OBVIOUS
<1>2. DOMAIN t = 1 .. Len(s) + 1 /\ DOMAIN s = 1 .. Len(s) /\ Len(s) \in Nat
  BY <1>1
<1>3. ToSet(t) \subseteq ToSet(s) \cup {x}
  BY <1>1, <1>2 DEF ToSet
<1>4. ToSet(s) \subseteq ToSet(t)
  BY <1>1, <1>2 DEF ToSet
<1>5. x \in ToSet(t)
  BY <1>1, <1>2 DEF ToSet
<1> QED BY <1>1, <1>3, <1>4, <1>5

LEMMA FrontHolds ==
  ASSUME NEW s \in Seq(Nat), s # <<>>
  PROVE  Front(s) \in Seq(Nat) /\ ToSet(Front(s)) \subseteq ToSet(s)
<1> PICK t : t = SubSeq(s, 1, Len(s) - 1)
  OBVIOUS
<1>1. Len(s) \in Nat /\ Len(s) > 0
  OBVIOUS
<1>n. PICK n \in Nat : n = Len(s) - 1
  BY <1>1
<1>e. \A i \in 1 .. n : s[i] \in Nat
  BY <1>1, <1>n
<1>f. t = SubSeq(s, 1, n)
  BY <1>n
<1>2. /\ t \in Seq(Nat) /\ Len(t) = Len(s) - 1
      /\ \A i \in 1 .. Len(s) - 1 : t[i] = s[i]
  <2>1. Len(t) = n /\ \A i \in 1 .. n : t[i] = s[i]
    BY <1>1, <1>n, <1>f
  <2>2. t \in Seq(Nat)
    BY <1>1, <1>n, <1>e, <1>f
  <2> QED BY <2>1, <2>2, <1>n
<1>3. DOMAIN t = 1 .. Len(s) - 1 /\ DOMAIN s = 1 .. Len(s)
  BY <1>1, <1>2
<1> QED BY <1>1, <1>2, <1>3 DEF Front, ToSet

LEMMA PrefixHolds ==
  ASSUME NEW s \in Seq(Nat), NEW t \in Seq(Nat), IsPrefix(s, t)
  PROVE  ToSet(s) \subseteq ToSet(t)
<1>1. Len(s) \in Nat /\ Len(t) \in Nat /\ Len(s) <= Len(t)
      /\ SubSeq(s, 1, Len(s)) = SubSeq(t, 1, Len(s))
  BY DEF IsPrefix
<1>2. ASSUME NEW i \in 1 .. Len(s)
      PROVE  s[i] = t[i] /\ i \in 1 .. Len(t)
  <2>1. SubSeq(s, 1, Len(s))[i] = s[i] /\ SubSeq(t, 1, Len(s))[i] = t[i]
    BY <1>1
  <2> QED BY <1>1, <2>1
<1>3. DOMAIN t = 1 .. Len(t) /\ DOMAIN s = 1 .. Len(s)
  OBVIOUS
<1> QED BY <1>2, <1>3 DEF ToSet

LEMMA ConstantsHold ==
  /\ NoSHA \in Seq(Nat) /\ ToSet(NoSHA) = {0}
  /\ <<>> \in Seq(Nat) /\ ToSet(<<>>) = {}
  /\ <<1>> \in Seq(Nat) /\ ToSet(<<1>>) = {1}
  BY DEF NoSHA, ToSet

-----------------------------------------------------------------------------
(* The invariant.                                                           *)
Ats == {"idle", "look", "lint", "tests", "review", "verdict", "fix", "stage", "docs", "text",
        "head", "push", "tip", "force", "record", "open", "save"}
Ships == [at : Ats, shipped : BOOLEAN, pushed : Seq(Nat), existing : BOOLEAN, round : Nat,
          attempt : Nat, target : Seq(Nat), head : Seq(Nat), touched : BOOLEAN]
\* A ship that stands here has the verdict of a review ahead of it or behind it.
Judged == {"verdict", "docs", "text", "head", "push", "tip", "force"}

ShipTypes ==
  /\ task \in [status : {"done", "running", "shipped"}, pushed : Seq(Nat)]
  /\ made \in Nat /\ foreign \subseteq 1 .. made
  /\ proc \in [Shipper -> Ships]
  /\ land \in [at : {"idle", "checks", "merge"}, head : Seq(Nat)]
  /\ pr \in [state : {"none", "open", "closed", "merged"}, merged : Seq(Nat)]

\* Commits that were made, and those of them that were ever in the camp.
Made(s) == s \in Seq(Nat) /\ ToSet(s) \subseteq 0 .. made
Own(s) == Made(s) /\ ToSet(s) \cap foreign = {}

\* What is pushed is judged by commits that were in the camp.
OwnInv ==
  /\ Own(camp) /\ Own(task.pushed) /\ Made(origin) /\ Made(land.head)
  /\ \A p \in Shipper : Own(proc[p].pushed) /\ Own(proc[p].head)
ReviewedInv ==
  \A p \in Shipper : proc[p].at \in Judged /\ ~proc[p].touched => camp = proc[p].target
\* A head the land looks at that is off the remote does not come back: only somebody
\* else's commit on top of it keeps it the camp's branch.
LandInv ==
  /\ land.at # "idle" /\ land.head # origin /\ camp = land.head => ToSet(origin) \cap foreign # {}
  /\ land.at = "merge" /\ land.head = origin => origin \in green

ShipIInv == ShipTypes /\ OwnInv /\ ReviewedInv /\ LandInv /\ MergedVerified

LEMMA RestingShip == Resting \in Ships /\ Resting.at = "idle"
                     /\ Resting.pushed = NoSHA /\ Resting.head = <<>>
  BY ConstantsHold DEF Resting, Ships, Ats

LEMMA ShipInitial == ShipInit => ShipIInv
<1> SUFFICES ASSUME ShipInit PROVE ShipIInv
  OBVIOUS
<1>1. ShipTypes
  BY RestingShip, ConstantsHold DEF ShipInit, ShipTypes, NoLand
<1>k. made = 1 /\ foreign = {} /\ 0 .. 1 = {0, 1}
  BY DEF ShipInit
<1>o. Own(<<1>>) /\ Own(NoSHA) /\ Own(<<>>)
  BY <1>k, ConstantsHold DEF Own, Made
<1>2. OwnInv
  BY <1>o, RestingShip DEF ShipInit, OwnInv, Own, NoLand
<1>3. ReviewedInv /\ LandInv /\ MergedVerified
  BY RestingShip DEF ShipInit, ReviewedInv, LandInv, MergedVerified, Judged, NoLand
<1> QED BY <1>1, <1>2, <1>3 DEF ShipIInv

\* When at most one commit is made, which is the only one that may become somebody
\* else's, what was known and own stays so.
LEMMA OwnStays ==
  ASSUME ShipTypes, made' \in {made, made + 1}, foreign' \subseteq foreign \cup {made'},
         foreign' \subseteq foreign \/ made' = made + 1, NEW s
  PROVE  /\ Made(s) => s \in Seq(Nat) /\ ToSet(s) \subseteq 0 .. made'
         /\ Own(s) => ToSet(s) \cap foreign' = {}
  BY DEF ShipTypes, Made, Own

\* What a step of a ship makes of its record.
Stays(r, s) ==
  /\ s.pushed \in {r.pushed, task.pushed, NoSHA}
  /\ s.head \in {r.head, camp, <<>>}
  /\ s.at \in Judged /\ ~s.touched =>
       s.target = camp \/ (r.at \in Judged /\ ~r.touched /\ s.target = r.target)
StepsOn(p) == \E s \in Ships : proc' = [proc EXCEPT ![p] = s] /\ Stays(proc[p], s)

LEMMA RefusesOn ==
  ASSUME NEW p \in Shipper, Refuses(p)
  PROVE  StepsOn(p)
  BY RestingShip DEF Refuses, Set, StepsOn, Stays, Judged

LEMMA GoesOn ==
  ASSUME ShipTypes, NEW p \in Shipper, NEW x \in Ats, Goes(p, x),
         x \in Judged => proc[p].at \in Judged
  PROVE  StepsOn(p)
<1>r. PICK r \in Ships : r = proc[p]
  BY DEF ShipTypes
<1>s. PICK s : s = [r EXCEPT !.at = x]
  OBVIOUS
<1>1. proc' = [proc EXCEPT ![p] = s]
  BY <1>r, <1>s DEF Goes, Set
<1>2. s \in Ships /\ s.at = x /\ s.pushed = r.pushed /\ s.head = r.head /\ s.target = r.target
      /\ s.touched = r.touched
  BY <1>s DEF Ships
<1> QED BY <1>r, <1>1, <1>2 DEF StepsOn, Stays

\* A ship that takes in what it reads: its next record is the given one.
LEMMA MovesOn ==
  ASSUME ShipTypes, NEW p \in Shipper, NEW x \in Ats,
         Set(p, [proc[p] EXCEPT !.at = x, !.attempt = 0]),
         x \in Judged => proc[p].at \in Judged
  PROVE  StepsOn(p)
<1>r. PICK r \in Ships : r = proc[p]
  BY DEF ShipTypes
<1>s. PICK s : s = [r EXCEPT !.at = x, !.attempt = 0]
  OBVIOUS
<1>1. proc' = [proc EXCEPT ![p] = s]
  BY <1>r, <1>s DEF Set
<1>2. s \in Ships /\ s.at = x /\ s.pushed = r.pushed /\ s.head = r.head /\ s.target = r.target
      /\ s.touched = r.touched
  BY <1>s DEF Ships
<1> QED BY <1>r, <1>1, <1>2 DEF StepsOn, Stays

\* A ship that takes in what it reads: its next record is the given one.
LEMMA SetOn ==
  ASSUME ShipTypes, NEW p \in Shipper, NEW s \in Ships, Set(p, s), Stays(proc[p], s)
  PROVE  StepsOn(p)
  BY DEF Set, StepsOn

LEMMA LoadOn ==
  ASSUME ShipTypes, NEW p \in Shipper, Load(p)
  PROVE  StepsOn(p)
<1>s. PICK s : s = [Resting EXCEPT !.at = "look", !.shipped = (task.status = "shipped"),
                                   !.pushed = task.pushed]
  OBVIOUS
<1>1. Set(p, s)
  BY <1>s DEF Load
<1>2. task.pushed \in Seq(Nat) /\ (task.status = "shipped") \in BOOLEAN
  BY DEF ShipTypes
<1>3. s \in Ships /\ s.at = "look" /\ s.pushed = task.pushed /\ s.head = <<>>
  BY <1>s, <1>2, RestingShip DEF Ships, Ats
<1> QED BY <1>1, <1>3, SetOn DEF Stays, Judged

LEMMA LookUpOn ==
  ASSUME ShipTypes, NEW p \in Shipper, LookUp(p)
  PROVE  StepsOn(p)
<1>1. CASE Set(p, [proc[p] EXCEPT !.at = "lint", !.existing = TRUE])
  <2>r. PICK r \in Ships : r = proc[p]
    BY DEF ShipTypes
  <2>s. PICK s : s = [r EXCEPT !.at = "lint", !.existing = TRUE]
    OBVIOUS
  <2>1. s \in Ships /\ s.at = "lint" /\ s.pushed = r.pushed /\ s.head = r.head
    BY <2>s DEF Ships, Ats
  <2> QED BY <1>1, <2>r, <2>s, <2>1, SetOn DEF Stays, Judged
<1>2. CASE Goes(p, "lint")
  BY <1>2, GoesOn DEF Ats, Judged
<1>3. CASE Refuses(p)
  BY <1>3, RefusesOn
<1> QED BY <1>1, <1>2, <1>3 DEF LookUp

LEMMA ChecksOn ==
  ASSUME ShipTypes, NEW p \in Shipper, Lint(p) \/ Tests(p) \/ Docs(p) \/ Text(p) \/ RemoteTip(p) \/ Die(p)
  PROVE  StepsOn(p)
<1>1. CASE Refuses(p)
  BY <1>1, RefusesOn
<1>2. CASE Goes(p, "tests") \/ Goes(p, "review")
  BY <1>2, GoesOn DEF Ats, Judged
<1>3. CASE (At(p, "docs") /\ Goes(p, "text")) \/ (At(p, "text") /\ Goes(p, "head"))
           \/ (At(p, "tip") /\ Goes(p, "force"))
  BY <1>3, GoesOn DEF Ats, Judged, At
<1> QED BY <1>1, <1>2, <1>3 DEF Lint, Tests, Docs, Text, Check, RemoteTip, Die

LEMMA StartReviewOn ==
  ASSUME ShipTypes, camp \in Seq(Nat), NEW p \in Shipper, StartReview(p)
  PROVE  StepsOn(p)
<1>r. PICK r \in Ships : r = proc[p]
  BY DEF ShipTypes
<1>x. PICK x \in {"docs", "verdict"} : x = IF camp = <<>> THEN "docs" ELSE "verdict"
  OBVIOUS
<1>s. PICK s : s = [r EXCEPT !.at = x, !.target = camp, !.attempt = 1, !.touched = FALSE]
  OBVIOUS
<1>1. Set(p, s)
  BY <1>r, <1>x, <1>s DEF StartReview
<1>2. s \in Ships /\ s.pushed = r.pushed /\ s.head = r.head /\ s.target = camp
  BY <1>s DEF Ships, Ats
<1> QED BY <1>r, <1>1, <1>2, SetOn DEF Stays

LEMMA VerdictOn ==
  ASSUME ShipTypes, NEW p \in Shipper, Verdict(p)
  PROVE  StepsOn(p)
<1>r. PICK r \in Ships : r = proc[p] /\ r.at = "verdict"
  BY DEF ShipTypes, Verdict, At
<1>1. CASE Set(p, [proc[p] EXCEPT !.at = "docs", !.attempt = 0])
  BY <1>1, <1>r, MovesOn DEF Ats, Judged
<1>2. CASE Set(p, FixOrDone(p))
  <2>1. CASE proc[p].round < MaxRounds
    BY <1>2, <2>1, MovesOn DEF FixOrDone, Ats, Judged
  <2>2. CASE ~(proc[p].round < MaxRounds)
    BY <1>2, <2>2, RefusesOn DEF FixOrDone, Refuses
  <2> QED BY <2>1, <2>2
<1>3. CASE Set(p, AgainOrDone(p))
  <2>1. CASE proc[p].attempt < MaxAttempts
    <3>n. PICK n \in Nat : n = r.attempt + 1
      BY DEF Ships
    <3>s. PICK s : s = [r EXCEPT !.attempt = n]
      OBVIOUS
    <3>1. Set(p, s)
      BY <1>3, <1>r, <2>1, <3>n, <3>s DEF AgainOrDone
    <3>2. s \in Ships /\ s.at = r.at /\ s.pushed = r.pushed /\ s.head = r.head
          /\ s.target = r.target /\ s.touched = r.touched
      BY <3>s DEF Ships
    <3> QED BY <1>r, <3>1, <3>2, SetOn DEF Stays
  <2>2. CASE ~(proc[p].attempt < MaxAttempts)
    BY <1>3, <2>2, RefusesOn DEF AgainOrDone, Refuses
  <2> QED BY <2>1, <2>2
<1>4. CASE Refuses(p)
  BY <1>4, RefusesOn
<1> QED BY <1>1, <1>2, <1>3, <1>4 DEF Verdict

LEMMA ReadHeadOn ==
  ASSUME ShipTypes, camp \in Seq(Nat), NEW p \in Shipper, ReadHead(p)
  PROVE  StepsOn(p)
<1>r. PICK r \in Ships : r = proc[p] /\ r.at = "head"
  BY DEF ShipTypes, ReadHead, At
<1>s. PICK s : s = [r EXCEPT !.at = "push", !.head = camp]
  OBVIOUS
<1>1. Set(p, s)
  BY <1>r, <1>s DEF ReadHead
<1>2. s \in Ships /\ s.at = "push" /\ s.pushed = r.pushed /\ s.head = camp
      /\ s.target = r.target /\ s.touched = r.touched
  BY <1>s DEF Ships, Ats
<1> QED BY <1>r, <1>1, <1>2, SetOn DEF Stays, Judged

\* The remote branch is left alone or becomes the camp's, whose review is behind it, over
\* nobody else's commits.
Pushes(p) ==
  \/ UNCHANGED origin
  \/ /\ origin' = camp /\ ToSet(origin) \cap foreign = {}
     /\ proc[p].at \in Judged

LEMMA PushOn ==
  ASSUME ShipIInv, NEW p \in Shipper, Push(p) \/ ForcePush(p)
  PROVE  StepsOn(p) /\ Pushes(p)
<1>t. ShipTypes
  BY DEF ShipIInv
<1>j. proc[p].at \in Judged
  BY DEF Push, ForcePush, At, Judged
<1>1. StepsOn(p)
  <2>1. CASE Refuses(p)
    BY <2>1, RefusesOn
  <2>2. CASE Goes(p, "record")
    BY <1>t, <2>2, GoesOn DEF Ats, Judged
  <2>3. CASE Goes(p, "tip")
    BY <1>t, <1>j, <2>3, GoesOn DEF Ats
  <2> QED BY <2>1, <2>2, <2>3 DEF Push, ForcePush
<1>2. CASE UNCHANGED origin
  BY <1>1, <1>2 DEF Pushes
<1>3. CASE Push(p) /\ IsPrefix(origin, camp) /\ origin' = camp
  <2>1. ToSet(origin) \subseteq ToSet(camp)
    BY <1>3, PrefixHolds DEF ShipIInv, OwnInv, Own, Made
  <2> QED BY <1>1, <1>3, <1>j, <2>1 DEF Pushes, ShipIInv, OwnInv, Own
<1>4. CASE ForcePush(p) /\ LeaseHolds(p) /\ origin' = camp
  BY <1>1, <1>4, <1>j DEF Pushes, LeaseHolds, ShipIInv, OwnInv, Own
<1> QED BY <1>2, <1>3, <1>4 DEF Push, ForcePush

LEMMA RecordOn ==
  ASSUME ShipTypes, NEW p \in Shipper, RecordPushed(p) \/ RecordShipped(p) \/ OpenPR(p)
  PROVE  StepsOn(p)
<1>1. CASE Goes(p, "open") \/ Goes(p, "save")
  BY <1>1, GoesOn DEF Ats, Judged
<1>2. CASE Refuses(p)
  BY <1>2, RefusesOn
<1> QED BY <1>1, <1>2 DEF RecordPushed, RecordShipped, OpenPR, Refuses

LEMMA FixerOn ==
  ASSUME ShipTypes, NEW p \in Shipper, FixerRuns(p)
  PROVE  StepsOn(p)
<1>1. CASE Goes(p, "stage")
  BY <1>1, GoesOn DEF Ats, Judged
<1>2. CASE Refuses(p)
  BY <1>2, RefusesOn
<1> QED BY <1>1, <1>2 DEF FixerRuns

\* The steps of a ship that make no commit keep the invariant.
LEMMA StepKeeps ==
  ASSUME ShipIInv, NEW p \in Shipper, StepsOn(p), Pushes(p),
         UNCHANGED <<camp, foreign, made, land, green>>,
         task' \in [status : {"done", "running", "shipped"}, pushed : Seq(Nat)],
         task'.pushed \in {task.pushed, proc[p].head},
         pr' \in [state : {"none", "open", "closed", "merged"}, merged : Seq(Nat)],
         pr'.merged = pr.merged
  PROVE  ShipIInv'
<1>s. PICK s \in Ships : proc' = [proc EXCEPT ![p] = s] /\ Stays(proc[p], s)
  BY DEF StepsOn
<1>1. \A q \in Shipper : proc'[q] = IF q = p THEN s ELSE proc[q]
  BY <1>s DEF ShipIInv, ShipTypes
<1>2. ShipTypes'
  BY <1>s DEF ShipIInv, ShipTypes
<1>o. \A x : Own(x)' <=> Own(x)
  BY DEF Own, Made
<1>k. \A x : Made(x)' <=> Made(x)
  BY DEF Made
<1>c. Own(NoSHA) /\ Own(<<>>)
  <2>1. made \in Nat /\ foreign \subseteq 1 .. made
    BY DEF ShipIInv, ShipTypes
  <2> QED BY <2>1, ConstantsHold DEF Own, Made
<1>3. Own(camp) /\ Own(task.pushed) /\ Own(proc[p].head) /\ Own(proc[p].pushed)
      /\ Made(origin) /\ Made(land.head)
  BY DEF ShipIInv, OwnInv
<1>4. Own(s.pushed) /\ Own(s.head)
  BY <1>s, <1>c, <1>3 DEF Stays
<1>5. Made(origin') /\ Own(task'.pushed)
  BY <1>3 DEF Pushes, Own
<1>6. \A q \in Shipper : Own(proc'[q].pushed) /\ Own(proc'[q].head)
  BY <1>1, <1>4 DEF ShipIInv, OwnInv
<1>7. OwnInv'
  <2>1. (Own(camp) /\ Own(task.pushed) /\ Made(origin) /\ Made(land.head))'
    BY <1>3, <1>5, <1>o, <1>k
  <2>2. (\A q \in Shipper : Own(proc[q].pushed) /\ Own(proc[q].head))'
    BY <1>6, <1>o
  <2> QED BY <2>1, <2>2 DEF OwnInv
<1>8. ReviewedInv'
  BY <1>s, <1>1 DEF ReviewedInv, ShipIInv, Stays
<1>9. LandInv'
  BY DEF LandInv, ShipIInv, Pushes
<1>10. MergedVerified'
  BY DEF MergedVerified, ShipIInv
<1> QED BY <1>2, <1>7, <1>8, <1>9, <1>10 DEF ShipIInv

LEMMA ShipStepKeeps ==
  ASSUME ShipIInv, NEW p \in Shipper, ShipStep(p) \/ Die(p), ~FixCommit(p)
  PROVE  ShipIInv'
<1>t. /\ ShipTypes /\ camp \in Seq(Nat) /\ task.pushed \in Seq(Nat) /\ proc[p].head \in Seq(Nat)
      /\ task \in [status : {"done", "running", "shipped"}, pushed : Seq(Nat)]
      /\ pr \in [state : {"none", "open", "closed", "merged"}, merged : Seq(Nat)]
  BY DEF ShipIInv, ShipTypes, OwnInv, Own, Made
<1>1. CASE \/ Load(p) \/ LookUp(p) \/ Lint(p) \/ Tests(p) \/ StartReview(p) \/ Verdict(p)
           \/ Docs(p) \/ Text(p) \/ ReadHead(p) \/ RemoteTip(p) \/ Die(p) \/ FixerRuns(p)
  <2>1. StepsOn(p)
    BY <1>t, <1>1, LoadOn, LookUpOn, ChecksOn, StartReviewOn, VerdictOn, ReadHeadOn, FixerOn
  <2>2. UNCHANGED <<task, camp, origin, pr, green, foreign, made, land>>
    BY <1>1 DEF Load, LookUp, Lint, Tests, StartReview, Verdict, Docs, Text, Check, ReadHead,
                RemoteTip, Die, FixerRuns, world
  <2>3. Pushes(p)
    BY <2>2 DEF Pushes
  <2> QED BY <1>t, <2>1, <2>2, <2>3, StepKeeps
<1>2. CASE Push(p) \/ ForcePush(p)
  <2>1. UNCHANGED <<task, camp, pr, green, foreign, made, land>>
    BY <1>2 DEF Push, ForcePush
  <2> QED BY <1>t, <1>2, <2>1, PushOn, StepKeeps
<1>3. CASE RecordPushed(p)
  <2>1. /\ UNCHANGED <<camp, origin, pr, green, foreign, made, land>>
        /\ task' \in {task, [task EXCEPT !.pushed = proc[p].head]}
    BY <1>3 DEF RecordPushed
  <2>2. /\ task' \in [status : {"done", "running", "shipped"}, pushed : Seq(Nat)]
        /\ task'.pushed \in {task.pushed, proc[p].head}
    BY <1>t, <2>1
  <2> QED BY <1>t, <1>3, <2>1, <2>2, RecordOn, StepKeeps DEF Pushes
<1>4. CASE RecordShipped(p)
  <2>1. /\ UNCHANGED <<camp, origin, pr, green, foreign, made, land>>
        /\ task' \in {task, [status |-> "shipped", pushed |-> proc[p].head]}
    BY <1>4 DEF RecordShipped
  <2>2. /\ task' \in [status : {"done", "running", "shipped"}, pushed : Seq(Nat)]
        /\ task'.pushed \in {task.pushed, proc[p].head}
    BY <1>t, <2>1
  <2> QED BY <1>t, <1>4, <2>1, <2>2, RecordOn, StepKeeps DEF Pushes
<1>5. CASE OpenPR(p)
  <2>1. /\ UNCHANGED <<task, camp, origin, green, foreign, made, land>>
        /\ pr' \in {pr, [pr EXCEPT !.state = "open"]}
    BY <1>5 DEF OpenPR
  <2>2. /\ pr' \in [state : {"none", "open", "closed", "merged"}, merged : Seq(Nat)]
        /\ pr'.merged = pr.merged
    BY <1>t, <2>1
  <2> QED BY <1>t, <1>5, <2>1, <2>2, RecordOn, StepKeeps DEF Pushes
<1> QED BY <1>1, <1>2, <1>3, <1>4, <1>5 DEF ShipStep

-----------------------------------------------------------------------------
(* A commit in the camp, the soldier's or the fixer's.                      *)
CampMoves ==
  /\ made' = made + 1 /\ foreign' \subseteq foreign
  /\ camp' \in Seq(Nat) /\ made' \in ToSet(camp')
  /\ ToSet(camp') \subseteq 0 .. made' /\ ToSet(camp') \cap foreign' = {}
  /\ UNCHANGED <<task, origin, pr, green, land>>
  /\ proc' \in [Shipper -> Ships]
  /\ \A q \in Shipper : /\ proc'[q].pushed = proc[q].pushed /\ proc'[q].head = proc[q].head
                        /\ proc'[q].at \in Judged => proc'[q].touched

LEMMA CampKeeps ==
  ASSUME ShipIInv, CampMoves
  PROVE  ShipIInv'
<1>t. ShipTypes /\ made \in Nat /\ foreign \subseteq 1 .. made
  BY DEF ShipIInv, ShipTypes
<1>1. ShipTypes'
  <2>1. made' \in Nat /\ foreign' \subseteq 1 .. made'
    BY <1>t DEF CampMoves
  <2> QED BY <1>t, <2>1 DEF ShipTypes, CampMoves
<1>2. \A s : (Made(s) => Made(s)') /\ (Own(s) => Own(s)')
  <2> TAKE s
  <2>1. Made(s) => Made(s)'
    BY <1>t DEF Made, CampMoves
  <2>2. Own(s) => ToSet(s) \cap foreign' = {}
    BY DEF Own, CampMoves
  <2> QED BY <2>1, <2>2 DEF Own
<1>3. Own(camp)'
  BY DEF CampMoves, Own, Made
<1>4. OwnInv'
  <2>1. (Own(task.pushed) /\ Made(origin) /\ Made(land.head))'
    BY <1>2 DEF CampMoves, ShipIInv, OwnInv
  <2>2. (\A q \in Shipper : Own(proc[q].pushed) /\ Own(proc[q].head))'
    BY <1>2 DEF CampMoves, ShipIInv, OwnInv
  <2> QED BY <1>3, <2>1, <2>2 DEF OwnInv
<1>5. camp' # land.head
  BY <1>t DEF CampMoves, ShipIInv, OwnInv, Made
<1>6. LandInv'
  BY <1>5 DEF CampMoves, ShipIInv, LandInv
<1>7. ReviewedInv' /\ MergedVerified'
  BY DEF CampMoves, ShipIInv, ReviewedInv, MergedVerified
<1> QED BY <1>1, <1>4, <1>6, <1>7 DEF ShipIInv

LEMMA TouchMarks ==
  ASSUME ShipTypes, NEW ps \in SUBSET Shipper
  PROVE  /\ Touch(ps) \in [Shipper -> Ships]
         /\ \A q \in Shipper : /\ Touch(ps)[q].pushed = proc[q].pushed
                               /\ Touch(ps)[q].head = proc[q].head
                               /\ q \in ps /\ Touch(ps)[q].at \in Judged => Touch(ps)[q].touched
<1>1. ASSUME NEW q \in Shipper
      PROVE  /\ Touch(ps)[q] \in Ships
             /\ Touch(ps)[q].pushed = proc[q].pushed
             /\ Touch(ps)[q].head = proc[q].head
             /\ q \in ps /\ Touch(ps)[q].at \in Judged => Touch(ps)[q].touched
  <2>r. PICK r \in Ships : r = proc[q]
    BY DEF ShipTypes
  <2>1. CASE q \in ps /\ r.at # "idle"
    <3>s. PICK s : s = [r EXCEPT !.touched = TRUE]
      OBVIOUS
    <3>1. Touch(ps)[q] = s
      BY <2>r, <2>1, <3>s DEF Touch
    <3>2. s \in Ships /\ s.pushed = r.pushed /\ s.head = r.head /\ s.touched
      BY <3>s DEF Ships
    <3> QED BY <2>r, <3>1, <3>2
  <2>2. CASE ~(q \in ps /\ r.at # "idle")
    <3>1. Touch(ps)[q] = r
      BY <2>r, <2>2 DEF Touch
    <3> QED BY <2>r, <2>2, <3>1 DEF Judged
  <2> QED BY <2>1, <2>2
<1>2. Touch(ps) = [q \in Shipper |-> Touch(ps)[q]]
  BY DEF Touch
<1> QED BY <1>1, <1>2

LEMMA SoldierKeeps ==
  ASSUME ShipIInv, Commits \/ Amends \/ Integrates
  PROVE  ShipIInv'
<1>t. /\ ShipTypes /\ made \in Nat /\ foreign \subseteq 1 .. made /\ camp \in Seq(Nat)
      /\ ToSet(camp) \subseteq 0 .. made /\ ToSet(camp) \cap foreign = {}
      /\ origin \in Seq(Nat) /\ ToSet(origin) \subseteq 0 .. made
  BY DEF ShipIInv, ShipTypes, OwnInv, Own, Made
<1>1. ASSUME NEW b \in Seq(Nat), SoldierLeaves(Append(b, made + 1)), foreign' \subseteq foreign,
             ToSet(b) \subseteq 0 .. made, ToSet(b) \cap foreign' = {}
      PROVE  ShipIInv'
  <2>1. Append(b, made + 1) \in Seq(Nat) /\ ToSet(Append(b, made + 1)) = ToSet(b) \cup {made + 1}
    BY <1>t, AppendHolds
  <2>2. /\ camp' = Append(b, made + 1) /\ made' = made + 1 /\ proc' = Touch(Shipper)
        /\ UNCHANGED <<task, origin, pr, green, land>>
    BY <1>1 DEF SoldierLeaves
  <2>3. made' \notin foreign' /\ 0 .. made \subseteq 0 .. made' /\ made' \in 0 .. made'
    BY <1>t, <1>1, <2>2
  <2>4. CampMoves
    BY <1>t, <1>1, <2>1, <2>2, <2>3, TouchMarks DEF CampMoves
  <2> QED BY <2>4, CampKeeps
<1>2. CASE Commits
  BY <1>t, <1>1, <1>2 DEF Commits
<1>3. CASE Amends
  <2>1. Front(camp) \in Seq(Nat) /\ ToSet(Front(camp)) \subseteq ToSet(camp)
    BY <1>t, <1>3, FrontHolds DEF Amends
  <2> QED BY <1>t, <1>1, <1>3, <2>1 DEF Amends
<1>4. CASE Integrates
  BY <1>t, <1>1, <1>4 DEF Integrates
<1> QED BY <1>2, <1>3, <1>4

LEMMA FixCommitKeeps ==
  ASSUME ShipIInv, NEW p \in Shipper, FixCommit(p)
  PROVE  ShipIInv'
<1>t. /\ ShipTypes /\ made \in Nat /\ foreign \subseteq 1 .. made /\ camp \in Seq(Nat)
      /\ ToSet(camp) \subseteq 0 .. made /\ ToSet(camp) \cap foreign = {}
  BY DEF ShipIInv, ShipTypes, OwnInv, Own, Made
<1>1. CASE dirty /\ made < MaxCommit
  <2>r. PICK r \in Ships : r = proc[p]
    BY <1>t DEF ShipTypes
  <2>n. PICK n \in Nat : n = r.round + 1
    BY DEF Ships
  <2>s. PICK s : s = [r EXCEPT !.at = "lint", !.round = n]
    OBVIOUS
  <2>1. s \in Ships /\ s.at = "lint" /\ s.pushed = r.pushed /\ s.head = r.head
    BY <2>s DEF Ships, Ats
  <2>2. NextRound(proc[p]) = s
    BY <2>r, <2>n, <2>s DEF NextRound
  <2>3. /\ camp' = Append(camp, made + 1) /\ made' = made + 1
        /\ proc' = [Touch(Shipper \ {p}) EXCEPT ![p] = s]
        /\ UNCHANGED <<task, origin, pr, green, foreign, land>>
    BY <1>1, <2>2 DEF FixCommit
  <2>4. camp' \in Seq(Nat) /\ ToSet(camp') = ToSet(camp) \cup {made + 1}
    BY <1>t, <2>3, AppendHolds
  <2>5. made' \notin foreign /\ 0 .. made \subseteq 0 .. made' /\ made' \in 0 .. made'
    BY <1>t, <2>3
  <2>6. PICK touched : touched = Touch(Shipper \ {p})
    OBVIOUS
  <2>7. /\ touched \in [Shipper -> Ships]
        /\ \A q \in Shipper : /\ touched[q].pushed = proc[q].pushed /\ touched[q].head = proc[q].head
                              /\ q # p /\ touched[q].at \in Judged => touched[q].touched
    BY <1>t, <2>6, TouchMarks
  <2>8. /\ proc' \in [Shipper -> Ships]
        /\ \A q \in Shipper : proc'[q] = IF q = p THEN s ELSE touched[q]
    BY <2>1, <2>3, <2>6, <2>7
  <2>9. \A q \in Shipper : /\ proc'[q].pushed = proc[q].pushed /\ proc'[q].head = proc[q].head
                           /\ proc'[q].at \in Judged => proc'[q].touched
    BY <2>r, <2>1, <2>7, <2>8 DEF Judged
  <2>10. CampMoves
    BY <1>t, <2>3, <2>4, <2>5, <2>8, <2>9 DEF CampMoves
  <2> QED BY <2>10, CampKeeps
<1>2. CASE ~(dirty /\ made < MaxCommit)
  <2>1. Refuses(p) /\ UNCHANGED <<task, camp, origin, pr, green, foreign, made, land>>
    BY <1>2 DEF FixCommit
  <2>2. StepsOn(p) /\ Pushes(p)
    BY <2>1, RefusesOn DEF Pushes
  <2>3. /\ task \in [status : {"done", "running", "shipped"}, pushed : Seq(Nat)]
        /\ pr \in [state : {"none", "open", "closed", "merged"}, merged : Seq(Nat)]
    BY <1>t DEF ShipTypes
  <2> QED BY <2>1, <2>2, <2>3, StepKeeps
<1> QED BY <1>1, <1>2

-----------------------------------------------------------------------------
(* Everybody else.                                                          *)
LEMMA WorldKeeps ==
  ASSUME ShipIInv,
         \/ Prompt \/ Edits \/ Stops \/ Settles \/ ChecksPass \/ CloseOrReopen
         \/ View \/ SeeChecks \/ Merge
  PROVE  ShipIInv'
<1>t. ShipTypes
  BY DEF ShipIInv
<1>1. UNCHANGED <<camp, origin, foreign, made, proc>>
  BY DEF Prompt, Edits, Stops, Settles, ChecksPass, CloseOrReopen, View, SeeChecks, Merge
<1>o. \A x : Own(x)' <=> Own(x)
  BY <1>1 DEF Own, Made
<1>k. \A x : Made(x)' <=> Made(x)
  BY <1>1 DEF Made
<1>c. ToSet(<<>>) \subseteq 0 .. made /\ <<>> \in Seq(Nat) /\ origin \in Seq(Nat)
  BY ConstantsHold DEF ShipIInv, OwnInv, Made
<1>2. /\ task' \in [status : {"done", "running", "shipped"}, pushed : Seq(Nat)]
      /\ task'.pushed = task.pushed
  BY <1>t DEF ShipTypes, Prompt, Edits, Stops, Settles, ChecksPass, CloseOrReopen, View,
              SeeChecks, Merge
<1>3. /\ land' \in [at : {"idle", "checks", "merge"}, head : Seq(Nat)]
      /\ land'.head \in {land.head, origin, <<>>}
  <2>1. land \in [at : {"idle", "checks", "merge"}, head : Seq(Nat)]
    BY <1>t DEF ShipTypes
  <2>2. CASE Prompt \/ Edits \/ Stops \/ Settles \/ ChecksPass \/ CloseOrReopen
    BY <2>1, <2>2 DEF Prompt, Edits, Stops, Settles, ChecksPass, CloseOrReopen
  <2>3. CASE View
    BY <1>c, <2>3 DEF View
  <2>4. CASE SeeChecks
    <3>1. land' = [land EXCEPT !.at = "merge"] \/ land' = NoLand
      BY <2>4 DEF SeeChecks
    <3>2. CASE land' = [land EXCEPT !.at = "merge"]
      BY <2>1, <3>2
    <3>3. CASE land' = NoLand
      <4>1. land' = [at |-> "idle", head |-> <<>>]
        BY <3>3 DEF NoLand
      <4>2. <<>> \in Seq(Nat)
        BY <1>c
      <4> QED BY <4>1, <4>2
    <3> QED BY <3>1, <3>2, <3>3
  <2>5. CASE Merge
    BY <1>c, <2>5 DEF Merge, NoLand
  <2> QED BY <2>2, <2>3, <2>4, <2>5
<1>4. pr' \in [state : {"none", "open", "closed", "merged"}, merged : Seq(Nat)]
  <2>1. pr \in [state : {"none", "open", "closed", "merged"}, merged : Seq(Nat)]
    BY <1>t DEF ShipTypes
  <2>2. CASE Merge
    BY <1>c, <2>1, <2>2 DEF Merge
  <2>3. CASE CloseOrReopen
    <3>1. PICK x \in {"open", "closed"} : pr' = [pr EXCEPT !.state = x]
      BY <2>3 DEF CloseOrReopen
    <3> QED BY <2>1, <3>1
  <2>4. CASE Prompt \/ Edits \/ Stops \/ Settles \/ ChecksPass \/ View \/ SeeChecks
    BY <2>1, <2>4 DEF Prompt, Edits, Stops, Settles, ChecksPass, View, SeeChecks
  <2> QED BY <2>2, <2>3, <2>4
<1>5. ShipTypes'
  BY <1>t, <1>1, <1>2, <1>3, <1>4 DEF ShipTypes
<1>6. OwnInv'
  <2>1. Made(land'.head)
    BY <1>3, <1>c DEF ShipIInv, OwnInv, Made
  <2>2. (Own(camp) /\ Own(task.pushed) /\ Made(origin) /\ Made(land.head))'
    BY <1>1, <1>2, <2>1, <1>o, <1>k DEF ShipIInv, OwnInv
  <2>3. (\A q \in Shipper : Own(proc[q].pushed) /\ Own(proc[q].head))'
    BY <1>1, <1>o DEF ShipIInv, OwnInv
  <2> QED BY <2>2, <2>3 DEF OwnInv
<1>7. ReviewedInv'
  BY <1>1 DEF ShipIInv, ReviewedInv
<1>8. LandInv'
  <2>1. CASE Prompt \/ Edits \/ Stops \/ Settles \/ ChecksPass \/ CloseOrReopen
    BY <2>1, <1>1 DEF ShipIInv, LandInv, Prompt, Edits, Stops, Settles, ChecksPass, CloseOrReopen
  <2>2. CASE View
    BY <2>2, <1>1 DEF ShipIInv, LandInv, View
  <2>3. CASE SeeChecks
    <3>1. /\ land.at = "checks" /\ UNCHANGED green
          /\ \/ land'.head = land.head /\ land'.at = "merge" /\ origin \in green
             \/ land'.at = "idle"
      BY <2>3, <1>t DEF SeeChecks, ShipTypes, NoLand
    <3> QED BY <3>1, <1>1 DEF ShipIInv, LandInv
  <2>4. CASE Merge
    BY <2>4 DEF LandInv, Merge, NoLand
  <2> QED BY <2>1, <2>2, <2>3, <2>4
<1>9. MergedVerified'
  <2>1. CASE Merge
    BY <2>1 DEF ShipIInv, LandInv, MergedVerified, Merge, HeadMatches
  <2>2. CASE ~Merge
    <3>1. pr'.merged = pr.merged /\ green \subseteq green'
      BY <2>2, <1>t DEF ShipTypes, Prompt, Edits, Stops, Settles, ChecksPass, CloseOrReopen, View,
              SeeChecks
    <3> QED BY <3>1 DEF ShipIInv, MergedVerified
  <2> QED BY <2>1, <2>2
<1> QED BY <1>5, <1>6, <1>7, <1>8, <1>9 DEF ShipIInv

LEMMA OthersKeep ==
  ASSUME ShipIInv, OthersPush
  PROVE  ShipIInv'
<1>t. ShipTypes /\ made \in Nat /\ foreign \subseteq 1 .. made
  BY DEF ShipIInv, ShipTypes
<1>1. /\ origin' = Append(origin, made + 1) /\ foreign' = foreign \cup {made + 1}
      /\ made' = made + 1
      /\ UNCHANGED <<task, working, camp, dirty, pr, green, proc, land>>
  BY DEF OthersPush
<1>2. origin' \in Seq(Nat) /\ ToSet(origin') = ToSet(origin) \cup {made + 1}
  BY <1>t, <1>1, AppendHolds DEF ShipIInv, OwnInv, Made
<1>3. 0 .. made \subseteq 0 .. made' /\ made' \in 0 .. made' /\ made' \notin 0 .. made
      /\ made' \in Nat /\ foreign' \subseteq 1 .. made'
  BY <1>t, <1>1
<1>4. \A s : (Made(s) => Made(s)') /\ (Own(s) => Own(s)')
  <2> TAKE s
  <2>1. Made(s) => Made(s)'
    BY <1>3 DEF Made
  <2>2. Own(s) => ToSet(s) \cap foreign' = {}
    BY <1>1, <1>3 DEF Own, Made
  <2> QED BY <2>1, <2>2 DEF Own
<1>5. ShipTypes'
  BY <1>t, <1>1, <1>3 DEF ShipTypes
<1>6. OwnInv'
  <2>1. Made(origin)'
    BY <1>1, <1>2, <1>3 DEF Made, ShipIInv, OwnInv
  <2>2. (Own(camp) /\ Own(task.pushed) /\ Made(land.head))'
    BY <1>1, <1>4 DEF ShipIInv, OwnInv
  <2>3. (\A q \in Shipper : Own(proc[q].pushed) /\ Own(proc[q].head))'
    BY <1>1, <1>4 DEF ShipIInv, OwnInv
  <2> QED BY <2>1, <2>2, <2>3 DEF OwnInv
<1>7. origin' # land.head
  BY <1>1, <1>2, <1>3 DEF ShipIInv, OwnInv, Made
<1>8. LandInv'
  BY <1>1, <1>2, <1>7 DEF LandInv
<1>9. ReviewedInv' /\ MergedVerified'
  BY <1>1 DEF ShipIInv, ReviewedInv, MergedVerified
<1> QED BY <1>5, <1>6, <1>8, <1>9 DEF ShipIInv

LEMMA ShipNextKeeps == ShipIInv /\ [ShipNext]_shipVars => ShipIInv'
<1> SUFFICES ASSUME ShipIInv, [ShipNext]_shipVars PROVE ShipIInv'
  OBVIOUS
<1>1. CASE UNCHANGED shipVars
  BY <1>1 DEF shipVars, ShipIInv, ShipTypes, OwnInv, Own, Made, ReviewedInv, LandInv,
              MergedVerified
<1>2. CASE ShipNext
  <2>1. ASSUME NEW p \in Shipper, ShipStep(p) \/ Die(p)
        PROVE  ShipIInv'
    BY <2>1, ShipStepKeeps, FixCommitKeeps
  <2> QED BY <1>2, <2>1, SoldierKeeps, WorldKeeps, OthersKeep DEF ShipNext
<1> QED BY <1>1, <1>2

LEMMA ShipAlways == ShipSpec => []ShipIInv
  BY ShipInitial, ShipNextKeeps, PTL DEF ShipSpec

-----------------------------------------------------------------------------
(* The theorems.                                                            *)

\* How the remote branch moves: by a push of a ship, which is the one that steps, or by
\* somebody else, when no ship does.
LEMMA RemoteMoves ==
  ASSUME ShipIInv, ShipNext
  PROVE  \/ UNCHANGED origin
         \/ \E p \in Shipper : Pushes(p) /\ UNCHANGED camp /\ \A q \in Shipper : Steps(q) => q = p
         \/ UNCHANGED proc /\ ToSet(origin) \subseteq ToSet(origin')
<1>1. ASSUME NEW p \in Shipper, Push(p) \/ ForcePush(p)
      PROVE  Pushes(p) /\ UNCHANGED camp /\ \A q \in Shipper : Steps(q) => q = p
  <2>1. Pushes(p) /\ StepsOn(p)
    BY <1>1, PushOn
  <2>2. UNCHANGED camp
    BY <1>1 DEF Push, ForcePush
  <2>3. \A q \in Shipper : q # p => proc'[q] = proc[q]
    BY <2>1 DEF StepsOn, ShipIInv, ShipTypes
  <2> QED BY <2>1, <2>2, <2>3 DEF Steps
<1>2. ASSUME NEW p \in Shipper, ShipStep(p) \/ Die(p), ~(Push(p) \/ ForcePush(p))
      PROVE  UNCHANGED origin
  BY <1>2 DEF ShipStep, Die, Load, LookUp, Lint, Tests, StartReview, Verdict, Docs, Text, Check,
              ReadHead, RemoteTip, FixerRuns, FixCommit, RecordPushed, OpenPR, RecordShipped,
              world
<1>3. CASE OthersPush
  <2>1. origin \in Seq(Nat) /\ made \in Nat
    BY DEF ShipIInv, OwnInv, Made, ShipTypes
  <2>2. ToSet(origin') = ToSet(origin) \cup {made + 1} /\ UNCHANGED proc
    BY <1>3, <2>1, AppendHolds DEF OthersPush
  <2> QED BY <2>2
<1>4. CASE \/ Prompt \/ Commits \/ Amends \/ Integrates \/ Edits \/ Stops \/ Settles
           \/ ChecksPass \/ CloseOrReopen \/ View \/ SeeChecks \/ Merge
  BY <1>4 DEF Prompt, Commits, Amends, Integrates, SoldierLeaves, Edits, Stops, Settles,
              ChecksPass, CloseOrReopen, View, SeeChecks, Merge
<1> QED BY <1>1, <1>2, <1>3, <1>4 DEF ShipNext

\* Whatever was pushed while the tribunal ran and whatever an earlier ship recorded, no
\* ship takes somebody else's commits off the remote branch (ship_push.go pushShipBranch).
THEOREM ForeignStays == ShipSpec => ForeignKept
<1>1. ASSUME ShipIInv, [ShipNext]_shipVars, NEW p \in Shipper, Steps(p)
      PROVE  ToSet(origin) \cap foreign \subseteq ToSet(origin')
  <2>1. ShipNext
    BY <1>1 DEF Steps, shipVars
  <2> QED BY <1>1, <2>1, RemoteMoves DEF Pushes
<1>2. ShipIInv /\ [ShipNext]_shipVars
        => [\A p \in Shipper : Steps(p) => ToSet(origin) \cap foreign \subseteq ToSet(origin')]_shipVars
  BY <1>1
<1> QED BY <1>2, ShipAlways, PTL DEF ShipSpec, ForeignKept

\* What a ship pushes is what its last review judged, however many rounds it took, unless
\* somebody else committed to the camp meanwhile (tribunal.go runReview, ship.go runShip).
THEOREM ReviewedPushed == ShipSpec => PushesTheReviewed
<1>1. ASSUME ShipIInv, [ShipNext]_shipVars, NEW p \in Shipper, Steps(p), origin' # origin
      PROVE  proc[p].touched \/ origin' = proc[p].target
  <2>1. ShipNext
    BY <1>1 DEF Steps, shipVars
  <2>2. Pushes(p)
    BY <1>1, <2>1, RemoteMoves DEF Steps
  <2> QED BY <1>1, <2>2 DEF Pushes, ShipIInv, ReviewedInv
<1>2. ShipIInv /\ [ShipNext]_shipVars
        => [\A p \in Shipper : Steps(p) /\ origin' # origin =>
              proc[p].touched \/ origin' = proc[p].target]_shipVars
  BY <1>1
<1> QED BY <1>2, ShipAlways, PTL DEF ShipSpec, PushesTheReviewed

\* A land merges a head only if its checks were green, whatever is pushed between its
\* look, the checks and the merge (land.go mergeShippedPR, ghpr.MergeShipped).
THEOREM MergesVerified == ShipSpec => []MergedVerified
<1>1. ShipIInv => MergedVerified
  BY DEF ShipIInv
<1> QED BY <1>1, ShipAlways, PTL

-----------------------------------------------------------------------------
(* Terminals: what is sent for a task goes to its own terminal.             *)

HIDE ShipAssumption
USE HcAssumption

Lives      == {"none", "live", "finished", "gone"}
Runs       == {"shell", "agent", "dialog", "exited"}
Words      == {"unknown", "idle", "working", "blocked"}
Naming     == {"bind", "check", "label"}
Launching  == {"launch", "start", "notready", "named"}
Following  == {"prompt", "look", "keys", "probe"}
CallStages == {"none", "rm"} \cup Naming \cup Launching \cup Following
HcStatus   == {"pending", "running", "blocked", "done", "failed", "lost"}
Terms      == [life : Lives, task : Names, name : {Nowhere} \cup Names, run : Runs, word : Words,
               in : BOOLEAN, moved : BOOLEAN]
TabRecord   == [status : HcStatus, tab : {Nowhere} \cup Address, name : Names]
CallRec  == [at : CallStages, name : Names, cache : {Nowhere} \cup Address]
HcTypes    == /\ term \in [Address -> Terms]
              /\ hcRec \in [HcTask -> TabRecord]
              /\ call \in [HcTask -> CallRec]
              /\ watch \in [Names -> {Nowhere} \cup Address]
\* A tab on record is a terminal of that task, and every terminal is on record.
TabsOwned  == /\ \A k \in HcTask : LET a == hcRec[k].tab IN
                    a # Nowhere => /\ term[a].life \in {"live", "finished"}
                                   /\ term[a].task \in {k, Slug} /\ term[a].name \in {Nowhere, k, Slug}
              /\ \A k, j \in HcTask : hcRec[k].tab = hcRec[j].tab /\ k # j => hcRec[k].tab = Nowhere
              /\ \A a \in Address : term[a].life \in {"live", "finished"} => \E k \in HcTask : hcRec[k].tab = a
NamesOwned == \A k \in HcTask : call[k].name \in {k, Slug} /\ hcRec[k].name \in {k, Slug}
\* No two live terminals carry one name, nor will they once it is put.
NamesOnce  == /\ \A a, b \in Address : Alive(a) /\ Alive(b) /\ term[a].name = term[b].name =>
                    a = b \/ term[a].name = Nowhere
              /\ \A k \in HcTask : CallAt(k, "label") => Labelled(call[k].name) \subseteq {hcRec[k].tab}
              /\ \A k, j \in HcTask : CallAt(k, "label") /\ CallAt(j, "label") => k = j
\* The terminal of task k is there, is bound to it, and carries the name n.
Home(k, n) == /\ Alive(hcRec[k].tab) /\ term[hcRec[k].tab].task = k /\ term[hcRec[k].tab].name = n
\* So it is for task k with a record r while its command is at c.
HomeOf(k, r, c) ==
    /\ c.at \in Naming => Alive(r.tab)
    /\ c.at \in {"check", "label"} => term[r.tab].task = k
    /\ c.at \in Launching \cup Following => Home(k, c.name)
    /\ c.at \in Following => r.name = c.name
    /\ c.at \in {"look", "probe"} => c.cache = r.tab
    /\ c.at = "none" /\ r.status \in {"running", "blocked", "done"} => Home(k, r.name)
    /\ c.at = "rm" => r.tab # Nowhere /\ r.status \notin Followed
    /\ r.status = "pending" => c.at = "none" /\ r.tab = Nowhere
CallHome(k) == HomeOf(k, hcRec[k], call[k])
CallsHome  == \A k \in HcTask : CallHome(k)
HcIInv     == HcTypes /\ TabsOwned /\ NamesOwned /\ NamesOnce /\ CallsHome /\ ReachesOwn

LEMMA HcStart == HcInit => HcIInv
<1> SUFFICES ASSUME HcInit PROVE HcIInv
  OBVIOUS
<1>1. NoTerm \in Terms /\ NoCall \in CallRec /\ NewTask \in TabRecord
  BY DEF CallRec, TabRecord, NoTerm, NoCall, NewTask, Terms, Lives, Runs, Words, CallStages, HcStatus, Names
<1>2. HcTypes
  BY <1>1 DEF HcInit, HcTypes
<1>3. TabsOwned /\ NamesOwned /\ NamesOnce /\ ReachesOwn
  BY DEF HcInit, TabsOwned, NamesOwned, NamesOnce, ReachesOwn, NoTerm, NoCall, NewTask, Alive, CallAt
<1>4. CallsHome
  BY DEF HcInit, CallsHome, CallHome, HomeOf, NoCall, NewTask, Naming, Launching, Following
<1> QED BY <1>2, <1>3, <1>4 DEF HcIInv

\* A name leads home when nobody else's terminal carries it.
LEMMA LeadsHome ==
  ASSUME HcIInv, NEW k \in HcTask, NEW n \in Names, Home(k, n), NEW c, NEW a \in Address, Resolves(n, c, a)
  PROVE  a = hcRec[k].tab /\ Alive(a) /\ term[a].task = k
<1>1. Alive(a) /\ term[a].name = n
  BY DEF Resolves, Cached, Labelled
<1>2. hcRec[k].tab \in Address /\ n # Nowhere
  BY DEF HcIInv, HcTypes, TabRecord, Home, Alive, Names, Nowhere
<1> QED BY <1>1, <1>2 DEF HcIInv, NamesOnce, Home

LEMMA FoundAtHome ==
  ASSUME HcIInv, NEW k \in HcTask, NEW n \in Names, Home(k, n), NEW c
  PROVE  ~NotFound(n, c)
<1>1. hcRec[k].tab \in Labelled(n)
  BY DEF Labelled, Home, HcIInv, HcTypes, TabRecord, Alive
<1> QED BY <1>1 DEF NotFound

\* Steps that leave every terminal in its place.
Placed == \A a \in Address : /\ term'[a].life = term[a].life /\ term'[a].task = term[a].task
                             /\ term'[a].name = term[a].name
LEMMA SoftStep ==
  ASSUME HcIInv, HcTypes', Placed, ReachesOwn',
         \A j \in HcTask : /\ hcRec'[j].tab = hcRec[j].tab
                           /\ hcRec'[j].name \in {j, Slug} /\ call'[j].name \in {j, Slug}
                           /\ call'[j].at = "label" =>
                                 \/ call'[j] = call[j]
                                 \/ /\ Labelled(call'[j].name) \subseteq {hcRec[j].tab}
                                    /\ \A i \in HcTask \ {j} : call[i].at # "label" /\ call'[i] = call[i],
         \A j \in HcTask : (hcRec'[j] = hcRec[j] /\ call'[j] = call[j]) \/ CallHome(j)'
  PROVE  HcIInv'
<1>1. HcTypes /\ TabsOwned /\ NamesOnce /\ CallsHome
  BY DEF HcIInv
<1>2. \A a \in Address : Alive(a)' <=> Alive(a)
  BY DEF Alive, Placed
<1>3. \A j \in HcTask : hcRec[j].tab \in {Nowhere} \cup Address
  BY <1>1 DEF HcTypes, TabRecord
<1>4. \A j \in HcTask : \A n : hcRec'[j] = hcRec[j] => (Home(j, n)' <=> Home(j, n))
  BY <1>2, <1>3 DEF Home, Placed, Alive
<1>5. TabsOwned'
  BY <1>1, <1>3 DEF TabsOwned, Placed
<1>6. \A n \in Names : Labelled(n)' = Labelled(n)
  BY <1>2 DEF Labelled, Placed
<1>7. NamesOnce'
  <2>1. \A j \in HcTask : call'[j].name \in Names /\ call[j].name \in Names
    BY <1>1 DEF HcTypes, CallRec
  <2>2. \A j \in HcTask : CallAt(j, "label")' => Labelled(call'[j].name) \subseteq {hcRec[j].tab}
    BY <1>1 DEF NamesOnce, CallAt
  <2>3. \A j, i \in HcTask : CallAt(j, "label")' /\ CallAt(i, "label")' => j = i
    BY <1>1 DEF NamesOnce, CallAt
  <2> QED BY <1>1, <1>2, <1>6, <2>1, <2>2, <2>3 DEF NamesOnce, Placed
<1>8. ASSUME NEW j \in HcTask, hcRec'[j] = hcRec[j], call'[j] = call[j] PROVE CallHome(j)'
  <2>1. CallHome(j) /\ hcRec[j].tab \in {Nowhere} \cup Address
    BY <1>1, <1>3 DEF CallsHome
  <2>2. \A n : Home(j, n)' <=> Home(j, n)
    BY <1>4, <1>8
  <2>3. /\ Alive(hcRec[j].tab)' <=> Alive(hcRec[j].tab)
        /\ Alive(hcRec[j].tab) => term'[hcRec[j].tab].task = term[hcRec[j].tab].task
    BY <1>2, <1>8, <2>1 DEF Alive, Placed
  <2> QED BY <1>8, <2>1, <2>2, <2>3 DEF CallHome, HomeOf, Naming
<1>9. NamesOwned'
  BY DEF NamesOwned
<1> QED BY <1>5, <1>7, <1>8, <1>9 DEF HcIInv, CallsHome

\* Of one task.
LEMMA OneStep ==
  ASSUME HcIInv, NEW k \in HcTask, NEW r \in TabRecord, NEW c \in CallRec,
         hcRec' = [hcRec EXCEPT ![k] = r], call' = [call EXCEPT ![k] = c],
         term' \in [Address -> Terms], watch' \in [Names -> {Nowhere} \cup Address],
         Placed, ReachesOwn', HomeOf(k, r, c),
         r.tab = hcRec[k].tab, r.name \in {k, Slug}, c.name \in {k, Slug},
         c.at = "label" => \/ c = call[k]
                           \/ /\ Labelled(c.name) \subseteq {hcRec[k].tab}
                              /\ \A i \in HcTask \ {k} : call[i].at # "label"
  PROVE  HcIInv'
<1>1. HcTypes /\ NamesOwned
  BY DEF HcIInv
<1>2. HcTypes'
  BY <1>1 DEF HcTypes
<1>3. /\ hcRec'[k] = r /\ call'[k] = c
      /\ \A j \in HcTask \ {k} : hcRec'[j] = hcRec[j] /\ call'[j] = call[j]
  BY <1>1 DEF HcTypes
<1>4. \A j \in HcTask : /\ hcRec'[j].tab = hcRec[j].tab
                        /\ hcRec'[j].name \in {j, Slug} /\ call'[j].name \in {j, Slug}
  BY <1>1, <1>3 DEF NamesOwned
<1>5. \A j \in HcTask : call'[j].at = "label" =>
         \/ call'[j] = call[j]
         \/ /\ Labelled(call'[j].name) \subseteq {hcRec[j].tab}
            /\ \A i \in HcTask \ {j} : call[i].at # "label" /\ call'[i] = call[i]
  BY <1>3
<1>6. CallHome(k)'
  <2>1. r.tab \in {Nowhere} \cup Address
    BY DEF TabRecord
  <2>2. /\ Alive(r.tab) => Alive(r.tab)' /\ term'[r.tab].task = term[r.tab].task
        /\ \A n : Home(k, n) => Home(k, n)'
    BY <1>3, <2>1 DEF Alive, Home, Placed
  <2>3. c.at \in {"check", "label"} => Alive(r.tab)
    BY DEF HomeOf, Naming
  <2>4. HomeOf(k, r, c)'
    BY <1>3, <2>2, <2>3 DEF HomeOf
  <2> QED BY <1>3, <2>4 DEF CallHome
<1> QED BY <1>2, <1>3, <1>4, <1>5, <1>6, SoftStep

\* An agent, and what it is told.
LEMMA AgentStep ==
  ASSUME HcIInv, NEW a \in Address, Report(a) \/ TakeText(a) \/ EndTurn(a) \/ AgentExits(a)
  PROVE  HcIInv'
<1>1. HcTypes /\ NamesOwned /\ ReachesOwn /\ UNCHANGED <<hcRec, call, watch, strayed>>
  BY DEF HcIInv, Report, TakeText, EndTurn, AgentExits
<1>2. term' \in [Address -> Terms] /\ Placed
  <2>1. term[a] \in Terms
    BY <1>1 DEF HcTypes
  <2> DEFINE Alike(t) == /\ t \in Terms /\ t.life = term[a].life
                         /\ t.task = term[a].task /\ t.name = term[a].name
             Puts(t) == term' = [term EXCEPT ![a] = t]
  <2>2. \E t : Alike(t) /\ Puts(t)
    <3>1. CASE Report(a)
      <4> DEFINE t == [term[a] EXCEPT !.word = "idle", !.moved = TRUE]
      <4>1. Alike(t)
        BY <2>1 DEF Terms, Words
      <4>2. Puts(t)
        BY <1>1, <3>1 DEF Report, HcTypes
      <4> QED BY <4>1, <4>2
    <3>2. CASE TakeText(a)
      <4> DEFINE t == [term[a] EXCEPT !.in = FALSE, !.word = "working", !.moved = TRUE]
      <4>1. Alike(t)
        BY <2>1 DEF Terms, Words
      <4>2. Puts(t)
        BY <1>1, <3>2 DEF TakeText, HcTypes
      <4> QED BY <4>1, <4>2
    <3>3. CASE EndTurn(a)
      <4>1. PICK w \in {"idle", "blocked"} : term' = [term EXCEPT ![a].word = w, ![a].moved = TRUE]
        BY <3>3 DEF EndTurn
      <4> DEFINE t == [term[a] EXCEPT !.word = w, !.moved = TRUE]
      <4>2. Alike(t)
        BY <2>1 DEF Terms, Words
      <4>3. Puts(t)
        BY <1>1, <4>1 DEF HcTypes
      <4> QED BY <4>2, <4>3
    <3>4. CASE AgentExits(a)
      <4> DEFINE t == [term[a] EXCEPT !.run = "exited"]
      <4>1. Alike(t)
        BY <2>1 DEF Terms, Runs
      <4>2. Puts(t)
        BY <1>1, <3>4 DEF AgentExits, HcTypes
      <4> QED BY <4>1, <4>2
    <3> QED BY <3>1, <3>2, <3>3, <3>4
  <2> QED BY <1>1, <2>2 DEF HcTypes, Placed
<1>3. HcTypes'
  BY <1>1, <1>2 DEF HcTypes
<1> QED BY <1>1, <1>2, <1>3, SoftStep DEF NamesOwned, ReachesOwn

\* What is known of a task whose command is under way.
LEMMA AtHome ==
  ASSUME HcIInv, NEW k \in HcTask
  PROVE  /\ hcRec[k] \in TabRecord /\ call[k] \in CallRec /\ HomeOf(k, hcRec[k], call[k])
         /\ term \in [Address -> Terms] /\ watch \in [Names -> {Nowhere} \cup Address]
         /\ hcRec[k].name \in {k, Slug} /\ call[k].name \in {k, Slug}
         /\ hcRec \in [HcTask -> TabRecord] /\ call \in [HcTask -> CallRec]
         /\ k \in Names /\ Slug \in Names
         /\ NoCall \in CallRec /\ NoCall.name = Slug /\ NoCall.at = "none"
         /\ strayed = {}
<1>1. NoCall \in CallRec /\ NoCall.name = Slug /\ NoCall.at = "none"
  BY DEF NoCall, CallRec, CallStages, Names
<1> QED BY <1>1 DEF HcIInv, HcTypes, NamesOwned, CallsHome, CallHome, Names, ReachesOwn

\* A command that gives up.
LEMMA FailStep ==
  ASSUME HcIInv, NEW k \in HcTask, Fails(k), UNCHANGED <<term, watch, strayed>>
  PROVE  HcIInv'
<1> DEFINE r == [hcRec[k] EXCEPT !.status = "failed"]
<1>1. r \in TabRecord /\ r.tab = hcRec[k].tab /\ r.name = hcRec[k].name /\ r.status = "failed"
  BY AtHome DEF TabRecord, HcStatus
<1>2. hcRec' = [hcRec EXCEPT ![k] = r] /\ call' = [call EXCEPT ![k] = NoCall]
  BY AtHome DEF Fails, Records, EndsCall, Calls
<1>3. HomeOf(k, r, NoCall)
  BY <1>1, AtHome DEF HomeOf, Naming, Launching, Following
<1>4. Placed /\ ReachesOwn'
  BY AtHome DEF Placed, ReachesOwn
<1> HIDE DEF r
<1> QED BY <1>1, <1>2, <1>3, <1>4, AtHome, OneStep

\* What a step makes of the record and the command of its task.
Turn(k, r, c) == /\ hcRec' = [hcRec EXCEPT ![k] = r] /\ call' = [call EXCEPT ![k] = c]
                 /\ r \in TabRecord /\ c \in CallRec
                 /\ r.tab = hcRec[k].tab /\ r.name \in {k, Slug} /\ c.name \in {k, Slug}
                 /\ c.at # "label"
LEMMA TurnStep ==
  ASSUME HcIInv, NEW k \in HcTask, NEW r, NEW c, Turn(k, r, c), HomeOf(k, r, c),
         term' \in [Address -> Terms], watch' \in [Names -> {Nowhere} \cup Address], Placed,
         strayed' = strayed
  PROVE  HcIInv'
<1>1. ReachesOwn'
  BY AtHome DEF ReachesOwn
<1> QED BY <1>1, OneStep DEF Turn

LEMMA TypeLaunchStep ==
  ASSUME HcIInv, NEW k \in HcTask, TypeLaunch(k)
  PROVE  HcIInv'
<1> DEFINE a == hcRec[k].tab
           c == [call[k] EXCEPT !.at = "start"]
<1>1. call[k].at = "launch" /\ Home(k, call[k].name) /\ a \in Address
  BY AtHome DEF TypeLaunch, CallAt, HomeOf, Launching, Home, Alive, TabRecord
<1>2. PICK run \in {"agent", "dialog", "exited"} : term' = [term EXCEPT ![a].run = run]
  BY <1>1 DEF TypeLaunch, Home
<1>3. call' = [call EXCEPT ![k] = c] /\ UNCHANGED <<hcRec, watch>> /\ Sent(k, a)
  BY <1>1 DEF TypeLaunch, Calls, Home
<1>4. strayed' = strayed
  BY <1>1, <1>3 DEF Sent, Home
<1>5. [term[a] EXCEPT !.run = run] \in Terms
  <2>1. term[a] \in Terms /\ run \in Runs
    BY <1>1, AtHome DEF Runs
  <2> QED BY <2>1 DEF Terms
<1>6. term' \in [Address -> Terms] /\ Placed
  BY <1>1, <1>2, <1>5, AtHome DEF Placed, Terms
<1>7. Turn(k, hcRec[k], c)
  BY <1>3, AtHome DEF Turn, CallRec, CallStages, Launching
<1>8. HomeOf(k, hcRec[k], c)
  BY <1>1, AtHome DEF HomeOf, CallRec, Naming, Launching, Following
<1> HIDE DEF c
<1> QED BY <1>3, <1>4, <1>6, <1>7, <1>8, AtHome, TurnStep

LEMMA StartedStep ==
  ASSUME HcIInv, NEW k \in HcTask, Started(k)
  PROVE  HcIInv'
<1>1. CASE Fails(k)
  BY <1>1, FailStep DEF Started
<1>2. ASSUME NEW s \in {"named", "notready"}, Calls(k, [call[k] EXCEPT !.at = s]), UNCHANGED hcRec
      PROVE  HcIInv'
  <2> DEFINE c == [call[k] EXCEPT !.at = s]
  <2>1. call[k].at = "start" /\ UNCHANGED <<term, watch, strayed>>
    BY DEF Started, CallAt
  <2>2. Turn(k, hcRec[k], c)
    BY <1>2, AtHome DEF Turn, CallRec, CallStages, Launching, Calls
  <2>3. HomeOf(k, hcRec[k], c)
    BY <1>2, <2>1, AtHome DEF HomeOf, CallRec, Naming, Launching, Following
  <2> HIDE DEF c
  <2> QED BY <2>1, <2>2, <2>3, AtHome, TurnStep DEF Placed
<1> QED BY <1>1, <1>2 DEF Started

LEMMA DismissStep ==
  ASSUME HcIInv, NEW k \in HcTask, DismissDialog(k)
  PROVE  HcIInv'
<1>1. call[k].at = "notready" /\ Home(k, call[k].name)
  BY AtHome DEF DismissDialog, CallAt, HomeOf, Launching
<1>2. PICK a \in Address : /\ Resolves(call[k].name, call[k].cache, a)
                           /\ term' = [term EXCEPT ![a].run = "agent"] /\ Sent(k, a)
                           /\ Calls(k, [call[k] EXCEPT !.cache = a])
  BY DEF DismissDialog
<1> DEFINE c == [call[k] EXCEPT !.cache = a]
<1>3. a = hcRec[k].tab /\ term[a].task = k
  BY <1>1, <1>2, AtHome, LeadsHome
<1>4. strayed' = strayed /\ UNCHANGED <<hcRec, watch>>
  BY <1>2, <1>3 DEF Sent, DismissDialog
<1>5. [term[a] EXCEPT !.run = "agent"] \in Terms
  BY AtHome DEF Terms, Runs
<1>6. term' \in [Address -> Terms] /\ Placed
  BY <1>2, <1>5, AtHome DEF Placed, Terms
<1>7. Turn(k, hcRec[k], c)
  BY <1>1, <1>2, <1>4, AtHome DEF Turn, CallRec, Calls
<1>8. HomeOf(k, hcRec[k], c)
  BY <1>1, AtHome DEF HomeOf, CallRec, Naming, Launching, Following
<1> HIDE DEF c
<1> QED BY <1>4, <1>6, <1>7, <1>8, AtHome, TurnStep

LEMMA AwaitStep ==
  ASSUME HcIInv, NEW k \in HcTask, AwaitReady(k)
  PROVE  HcIInv'
<1>1. CASE Fails(k)
  BY <1>1, FailStep DEF AwaitReady
<1>2. ASSUME NEW a \in Address, Calls(k, [call[k] EXCEPT !.at = "named", !.cache = a]), UNCHANGED hcRec
      PROVE  HcIInv'
  <2> DEFINE c == [call[k] EXCEPT !.at = "named", !.cache = a]
  <2>1. call[k].at = "notready" /\ UNCHANGED <<term, watch, strayed>>
    BY DEF AwaitReady, CallAt
  <2>2. Turn(k, hcRec[k], c)
    BY <1>2, AtHome DEF Turn, CallRec, CallStages, Launching, Calls
  <2>3. HomeOf(k, hcRec[k], c)
    BY <2>1, AtHome DEF HomeOf, CallRec, Naming, Launching, Following
  <2> HIDE DEF c
  <2> QED BY <2>1, <2>2, <2>3, AtHome, TurnStep DEF Placed
<1> QED BY <1>1, <1>2 DEF AwaitReady

LEMMA RecordNameStep ==
  ASSUME HcIInv, NEW k \in HcTask, RecordName(k)
  PROVE  HcIInv'
<1> DEFINE r == [hcRec[k] EXCEPT !.name = call[k].name]
           c == [call[k] EXCEPT !.at = "prompt"]
<1>1. call[k].at = "named" /\ UNCHANGED <<term, watch, strayed>>
  BY DEF RecordName, CallAt
<1>2. Turn(k, r, c)
  BY AtHome DEF RecordName, Turn, CallRec, TabRecord, CallStages, Following, Calls
<1>3. HomeOf(k, r, c)
  BY <1>1, AtHome DEF HomeOf, CallRec, TabRecord, Naming, Launching, Following
<1> HIDE DEF r, c
<1> QED BY <1>1, <1>2, <1>3, AtHome, TurnStep DEF Placed

\* Prompts: a task whose turn is over has its terminal.
LEMMA RepromptStep ==
  ASSUME HcIInv, NEW k \in HcTask, Reprompt(k) \/ Decides(k)
  PROVE  HcIInv'
<1>1. PICK s \in {"prompt", "keys"}, st \in {"running", "blocked"} :
        /\ call' = [call EXCEPT ![k] = [NoCall EXCEPT !.at = s, !.name = hcRec[k].name]]
        /\ hcRec' = [hcRec EXCEPT ![k].status = st]
  <2>1. CASE Reprompt(k)
    BY <2>1 DEF Reprompt, Calls, Records
  <2>2. CASE Decides(k)
    <3>1. hcRec' = [hcRec EXCEPT ![k].status = "blocked"]
      BY <2>2, AtHome DEF Decides, TabRecord
    <3> QED BY <2>2, <3>1 DEF Decides, Calls
  <2> QED BY <2>1, <2>2
<1> DEFINE r == [hcRec[k] EXCEPT !.status = st]
           c == [NoCall EXCEPT !.at = s, !.name = hcRec[k].name]
<1>2. Home(k, hcRec[k].name) /\ UNCHANGED <<term, watch, strayed>>
  BY AtHome DEF Reprompt, Decides, CallAt, HomeOf
<1>3. /\ r \in TabRecord /\ r.tab = hcRec[k].tab /\ r.name = hcRec[k].name /\ r.status = st
      /\ c \in CallRec /\ c.name = hcRec[k].name /\ c.at = s
  BY AtHome DEF TabRecord, HcStatus, CallRec, CallStages, Following
<1>4. Turn(k, r, c)
  BY <1>1, <1>3, AtHome DEF Turn
<1>5. HomeOf(k, r, c)
  BY <1>2, <1>3 DEF HomeOf, Naming, Launching, Following
<1> HIDE DEF r, c
<1> QED BY <1>2, <1>4, <1>5, AtHome, TurnStep DEF Placed

LEMMA SendStep ==
  ASSUME HcIInv, NEW k \in HcTask, SendText(k)
  PROVE  HcIInv'
<1>1. call[k].at = "prompt" /\ Home(k, call[k].name)
  BY AtHome DEF SendText, CallAt, HomeOf, Following
<1>2. CASE Fails(k) /\ UNCHANGED <<term, strayed>>
  BY <1>2, FailStep DEF SendText
<1>3. ASSUME NEW a \in Address, Writable(call[k].name, call[k].cache, a),
             term' = [term EXCEPT ![a].in = TRUE, ![a].moved = FALSE], Sent(k, a),
             Calls(k, [call[k] EXCEPT !.at = "look", !.cache = a]), UNCHANGED hcRec
      PROVE  HcIInv'
  <2> DEFINE c == [call[k] EXCEPT !.at = "look", !.cache = a]
             t == [term[a] EXCEPT !.in = TRUE, !.moved = FALSE]
  <2>1. a = hcRec[k].tab /\ term[a].task = k
    BY <1>1, <1>3, AtHome, LeadsHome DEF Writable
  <2>2. strayed' = strayed /\ watch' = watch
    BY <1>3, <2>1 DEF Sent, SendText
  <2>3. t \in Terms /\ t.life = term[a].life /\ t.task = term[a].task /\ t.name = term[a].name
    <3>1. term[a] \in Terms
      BY AtHome
    <3> QED BY <3>1 DEF Terms
  <2>4. term' = [term EXCEPT ![a] = t]
    BY <1>3, AtHome
  <2>5. term' \in [Address -> Terms] /\ Placed
    BY <2>3, <2>4, AtHome DEF Placed
  <2>6. Turn(k, hcRec[k], c)
    BY <1>3, AtHome DEF Turn, CallRec, CallStages, Following, Calls
  <2>7. HomeOf(k, hcRec[k], c)
    BY <1>1, <2>1, AtHome DEF HomeOf, CallRec, Naming, Launching, Following
  <2> HIDE DEF c
  <2> QED BY <2>2, <2>5, <2>6, <2>7, AtHome, TurnStep
<1> QED BY <1>1, <1>2, <1>3 DEF SendText

LEMMA LookStep ==
  ASSUME HcIInv, NEW k \in HcTask, LookAfter(k) \/ Stalled(k)
  PROVE  HcIInv'
<1>1. call[k].at = "look" /\ Home(k, call[k].name) /\ hcRec[k].name = call[k].name
      /\ UNCHANGED <<term, watch, strayed>>
  BY AtHome DEF LookAfter, Stalled, CallAt, HomeOf, Following
<1>2. CASE Fails(k)
  BY <1>1, <1>2, FailStep
<1>3. ASSUME EndsCall(k), Records(k, "done") \/ UNCHANGED hcRec PROVE HcIInv'
  <2>1. PICK st \in HcStatus : st # "pending" /\ hcRec' = [hcRec EXCEPT ![k].status = st]
    <3>1. hcRec[k].status \in HcStatus /\ hcRec[k].status # "pending"
      BY <1>1, AtHome DEF TabRecord, HomeOf
    <3>2. UNCHANGED hcRec => hcRec' = [hcRec EXCEPT ![k].status = hcRec[k].status]
      BY AtHome DEF TabRecord
    <3> QED BY <1>3, <3>1, <3>2 DEF Records, HcStatus
  <2> DEFINE r == [hcRec[k] EXCEPT !.status = st]
  <2>2. r \in TabRecord /\ r.tab = hcRec[k].tab /\ r.name = hcRec[k].name /\ r.status = st
    BY AtHome DEF TabRecord
  <2>3. Turn(k, r, NoCall)
    BY <1>3, <2>1, <2>2, AtHome DEF Turn, EndsCall, Calls
  <2>4. HomeOf(k, r, NoCall)
    BY <1>1, <2>1, <2>2, AtHome DEF HomeOf, Naming, Launching, Following
  <2> HIDE DEF r
  <2> QED BY <1>1, <2>3, <2>4, AtHome, TurnStep DEF Placed
<1>4. ASSUME Calls(k, [call[k] EXCEPT !.at = "prompt"]), UNCHANGED hcRec PROVE HcIInv'
  <2> DEFINE c == [call[k] EXCEPT !.at = "prompt"]
  <2>1. Turn(k, hcRec[k], c)
    BY <1>4, AtHome DEF Turn, CallRec, CallStages, Following, Calls
  <2>2. HomeOf(k, hcRec[k], c)
    BY <1>1, AtHome DEF HomeOf, CallRec, Naming, Launching, Following
  <2> HIDE DEF c
  <2> QED BY <1>1, <2>1, <2>2, AtHome, TurnStep DEF Placed
<1> QED BY <1>2, <1>3, <1>4 DEF LookAfter, Stalled

LEMMA KeysStep ==
  ASSUME HcIInv, NEW k \in HcTask, PressKeys(k)
  PROVE  HcIInv'
<1>1. call[k].at = "keys" /\ Home(k, call[k].name) /\ UNCHANGED <<hcRec, watch>>
  BY AtHome DEF PressKeys, CallAt, HomeOf, Following
<1>2. ~NotFound(call[k].name, call[k].cache)
  BY <1>1, AtHome, FoundAtHome
<1>3. PICK a \in Address :
        /\ Writable(call[k].name, call[k].cache, a)
        /\ term' = IF term[a].word = "blocked" THEN [term EXCEPT ![a].word = "working", ![a].moved = TRUE]
                   ELSE term
        /\ Sent(k, a)
        /\ Calls(k, [call[k] EXCEPT !.at = "probe", !.cache = a])
  BY <1>2 DEF PressKeys
<1> DEFINE c == [call[k] EXCEPT !.at = "probe", !.cache = a]
           t == [term[a] EXCEPT !.word = "working", !.moved = TRUE]
<1>4. a = hcRec[k].tab /\ term[a].task = k
  BY <1>1, <1>3, AtHome, LeadsHome DEF Writable
<1>5. strayed' = strayed
  BY <1>3, <1>4 DEF Sent
<1>6. t \in Terms /\ t.life = term[a].life /\ t.task = term[a].task /\ t.name = term[a].name
  <2>1. term[a] \in Terms
    BY AtHome
  <2> QED BY <2>1 DEF Terms, Words
<1>7. term' = [term EXCEPT ![a] = t] \/ term' = term
  BY <1>3, AtHome
<1>8. term' \in [Address -> Terms] /\ Placed
  BY <1>6, <1>7, AtHome DEF Placed
<1>9. Turn(k, hcRec[k], c)
  BY <1>1, <1>3, AtHome DEF Turn, CallRec, CallStages, Following, Calls
<1>10. HomeOf(k, hcRec[k], c)
  BY <1>1, <1>4, AtHome DEF HomeOf, CallRec, Naming, Launching, Following
<1> HIDE DEF c
<1> QED BY <1>1, <1>5, <1>8, <1>9, <1>10, AtHome, TurnStep

LEMMA ProbeStep ==
  ASSUME HcIInv, NEW k \in HcTask, Probes(k)
  PROVE  HcIInv'
<1>1. call[k].at = "probe" /\ Home(k, call[k].name) /\ hcRec[k].name = call[k].name
      /\ UNCHANGED <<term, watch>> /\ EndsCall(k)
  BY AtHome DEF Probes, CallAt, HomeOf, Following
<1>2. ~NotFound(call[k].name, call[k].cache)
  BY <1>1, AtHome, FoundAtHome
<1>3. PICK a \in Address :
        /\ Resolves(call[k].name, call[k].cache, a) /\ Sent(k, a)
        /\ Records(k, IF term[a].word \in DOMAIN StatusOf THEN StatusOf[term[a].word] ELSE "running")
  BY <1>2 DEF Probes
<1>4. a = hcRec[k].tab /\ term[a].task = k
  BY <1>1, <1>3, AtHome, LeadsHome
<1>5. strayed' = strayed
  BY <1>3, <1>4 DEF Sent
<1>6. PICK st \in {"done", "blocked", "running"} : hcRec' = [hcRec EXCEPT ![k].status = st]
  <2>1. term[a].word \in DOMAIN StatusOf => StatusOf[term[a].word] \in {"done", "blocked"}
    BY DEF StatusOf
  <2> QED BY <1>3, <2>1 DEF Records
<1> DEFINE r == [hcRec[k] EXCEPT !.status = st]
<1>7. r \in TabRecord /\ r.tab = hcRec[k].tab /\ r.name = hcRec[k].name /\ r.status = st
  BY AtHome DEF TabRecord, HcStatus
<1>8. Turn(k, r, NoCall)
  BY <1>1, <1>6, <1>7, AtHome DEF Turn, EndsCall, Calls
<1>9. HomeOf(k, r, NoCall)
  BY <1>1, <1>6, <1>7, AtHome DEF HomeOf, Naming, Launching, Following
<1> HIDE DEF r
<1> QED BY <1>1, <1>5, <1>8, <1>9, AtHome, TurnStep DEF Placed

\* The sentinel.
LEMMA ReadStep ==
  ASSUME HcIInv, NEW k \in HcTask, ReadStatus(k)
  PROVE  HcIInv'
<1>1. hcRec[k].status = "running" /\ UNCHANGED <<term, call>>
  BY DEF ReadStatus
<1>2. Named(k) => Home(k, hcRec[k].name)
  BY <1>1, AtHome DEF Named, CallAt, HomeOf, CallRec, CallStages, Naming, Launching, Following, Followed
<1>3. strayed' = strayed
  <2>1. ASSUME NEW a \in Address, Resolves(hcRec[k].name, watch[hcRec[k].name], a), Named(k), Sent(k, a)
        PROVE  strayed' = strayed
    <3>1. term[a].task = k
      BY <1>2, <2>1, AtHome, LeadsHome
    <3> QED BY <2>1, <3>1 DEF Sent
  <2> QED BY <2>1 DEF ReadStatus
<1>4. PICK st \in {"running", "done", "blocked", "lost"} : hcRec' = [hcRec EXCEPT ![k].status = st]
  <2>1. UNCHANGED hcRec => hcRec' = [hcRec EXCEPT ![k].status = "running"]
    BY <1>1, AtHome DEF TabRecord
  <2> QED BY <2>1 DEF ReadStatus, Records, StatusOf
<1>5. watch' \in [Names -> {Nowhere} \cup Address]
  <2>1. hcRec[k].name \in Names
    BY AtHome DEF TabRecord
  <2> QED BY <2>1, AtHome DEF ReadStatus
<1> DEFINE r == [hcRec[k] EXCEPT !.status = st]
<1>6. r \in TabRecord /\ r.tab = hcRec[k].tab /\ r.name = hcRec[k].name /\ r.status = st
  BY AtHome DEF TabRecord, HcStatus
<1>7. HomeOf(k, r, call[k])
  BY <1>1, <1>6, AtHome DEF HomeOf, Followed
<1>8. call' = [call EXCEPT ![k] = call[k]] /\ hcRec' = [hcRec EXCEPT ![k] = r]
  BY <1>1, <1>4, AtHome
<1>9. Placed /\ ReachesOwn' /\ term' \in [Address -> Terms]
  BY <1>1, <1>3, AtHome DEF Placed, ReachesOwn
<1> HIDE DEF r
<1> QED BY <1>5, <1>6, <1>7, <1>8, <1>9, AtHome, OneStep

\* A name is put where nobody else has it, one command at a time.
LEMMA CheckStep ==
  ASSUME HcIInv, HcEvent \subseteq {"exit"}, NEW k \in HcTask, CheckName(k)
  PROVE  HcIInv'
<1>1. call[k].at = "check" /\ UNCHANGED <<term, watch, strayed>>
      /\ \A o \in HcTask \ {k} : call[o].at # "label"
  BY DEF CheckName, CallAt
<1>2. CASE Fails(k)
  BY <1>1, <1>2, FailStep
<1>3. CASE Calls(k, [call[k] EXCEPT !.name = k]) /\ UNCHANGED hcRec
  <2> DEFINE c == [call[k] EXCEPT !.name = k]
  <2>1. Turn(k, hcRec[k], c)
    BY <1>1, <1>3, AtHome DEF Turn, CallRec, Calls
  <2>2. HomeOf(k, hcRec[k], c)
    BY <1>1, AtHome DEF HomeOf, CallRec, Naming, Launching, Following
  <2> HIDE DEF c
  <2> QED BY <1>1, <2>1, <2>2, AtHome, TurnStep DEF Placed
<1>4. CASE /\ ~Taken(call[k].name, hcRec[k].tab)
           /\ Calls(k, [call[k] EXCEPT !.at = "label"]) /\ UNCHANGED hcRec
  <2> DEFINE c == [call[k] EXCEPT !.at = "label"]
  <2>1. c \in CallRec /\ c.name = call[k].name /\ c.at = "label"
    BY AtHome DEF CallRec, CallStages, Naming
  <2>2. HomeOf(k, hcRec[k], c)
    BY <1>1, <2>1, AtHome DEF HomeOf, Naming, Launching, Following
  <2>3. Labelled(c.name) \subseteq {hcRec[k].tab}
    BY <1>4, <2>1 DEF Taken
  <2>4. /\ hcRec' = [hcRec EXCEPT ![k] = hcRec[k]] /\ call' = [call EXCEPT ![k] = c]
        /\ Placed /\ ReachesOwn'
    BY <1>1, <1>4, AtHome DEF Calls, Placed, ReachesOwn
  <2> HIDE DEF c
  <2> QED BY <1>1, <2>1, <2>2, <2>3, <2>4, AtHome, OneStep
<1> QED BY <1>1, <1>2, <1>3, <1>4 DEF CheckName

\* Steps that move the terminal of one task: what nobody else's record names.
LEMMA MoveStep ==
  ASSUME HcIInv, NEW k \in HcTask, NEW a \in Address, NEW t \in Terms, NEW r \in TabRecord, NEW c \in CallRec,
         term' = [term EXCEPT ![a] = t],
         hcRec' = [hcRec EXCEPT ![k] = r], call' = [call EXCEPT ![k] = c], UNCHANGED <<watch, strayed>>,
         \A j \in HcTask \ {k} : hcRec[j].tab # a,
         hcRec[k].tab \in {a, Nowhere}, r.tab \in {a, Nowhere},
         r.name \in {k, Slug}, c.name \in {k, Slug}, c.at # "label",
         t.task \in {k, Slug}, t.name \in {Nowhere, k, Slug},
         r.tab = a <=> t.life \in {"live", "finished"},
         t.life = "live" /\ t.name # Nowhere =>
            \/ Alive(a) /\ term[a].name = t.name
            \/ Labelled(t.name) \subseteq {a} /\ \A j \in HcTask \ {k} : call[j].at # "label",
         HomeOf(k, r, c)'
  PROVE  HcIInv'
<1>1. HcTypes /\ TabsOwned /\ NamesOwned /\ NamesOnce /\ CallsHome /\ ReachesOwn
  BY DEF HcIInv
<1>2. /\ hcRec'[k] = r /\ call'[k] = c /\ term'[a] = t
      /\ \A j \in HcTask \ {k} : hcRec'[j] = hcRec[j] /\ call'[j] = call[j]
      /\ \A b \in Address \ {a} : term'[b] = term[b]
  BY <1>1 DEF HcTypes
<1>3. HcTypes'
  BY <1>1 DEF HcTypes
<1>4. \A j \in HcTask : hcRec[j].tab \in {Nowhere} \cup Address
  BY <1>1 DEF HcTypes, TabRecord
<1>5. a # Nowhere
  BY DEF Address, Nowhere
<1>6. TabsOwned'
  <2>1. ASSUME NEW j \in HcTask, hcRec'[j].tab # Nowhere
        PROVE  LET b == hcRec'[j].tab IN
               /\ term'[b].life \in {"live", "finished"}
               /\ term'[b].task \in {j, Slug} /\ term'[b].name \in {Nowhere, j, Slug}
    <3>1. CASE j = k
      BY <1>2, <2>1, <3>1
    <3>2. CASE j # k
      <4>1. hcRec'[j].tab = hcRec[j].tab /\ hcRec[j].tab \in Address \ {a}
        BY <1>2, <1>4, <2>1, <3>2
      <4> QED BY <1>1, <1>2, <2>1, <4>1 DEF TabsOwned
    <3> QED BY <3>1, <3>2
  <2>2. \A i, j \in HcTask : hcRec'[i].tab = hcRec'[j].tab /\ i # j => hcRec'[i].tab = Nowhere
    BY <1>1, <1>2 DEF TabsOwned
  <2>3. ASSUME NEW b \in Address, term'[b].life \in {"live", "finished"}
        PROVE  \E j \in HcTask : hcRec'[j].tab = b
    <3>1. CASE b = a
      BY <1>2, <2>3, <3>1
    <3>2. CASE b # a
      <4>1. PICK j \in HcTask : hcRec[j].tab = b
        BY <1>1, <1>2, <2>3, <3>2 DEF TabsOwned
      <4>2. j # k
        BY <3>2, <4>1, <1>4 DEF Address, Nowhere
      <4> QED BY <1>2, <4>1, <4>2
    <3> QED BY <3>1, <3>2
  <2> QED BY <2>1, <2>2, <2>3 DEF TabsOwned
<1>7. NamesOwned'
  BY <1>1, <1>2 DEF NamesOwned
<1>8. \A b \in Address \ {a} : Alive(b)' <=> Alive(b)
  BY <1>2 DEF Alive
<1>9. NamesOnce'
  <2>1. \A b \in Address \ {a} : Alive(b) /\ Alive(a)' /\ term[b].name = t.name => t.name = Nowhere
    <3>1. ASSUME NEW b \in Address \ {a}, Alive(b), Alive(a)', term[b].name = t.name, t.name # Nowhere
          PROVE  FALSE
      <4>1. t.life = "live" /\ b \in Labelled(t.name)
        BY <1>2, <3>1 DEF Alive, Labelled
      <4>2. ~(Alive(a) /\ term[a].name = t.name)
        BY <1>1, <3>1 DEF NamesOnce
      <4> QED BY <3>1, <4>1, <4>2
    <3> QED BY <3>1
  <2>2. \A b, d \in Address : Alive(b)' /\ Alive(d)' /\ term'[b].name = term'[d].name =>
           b = d \/ term'[b].name = Nowhere
    BY <1>1, <1>2, <1>8, <2>1 DEF NamesOnce
  <2>3. ASSUME NEW j \in HcTask, CallAt(j, "label")'
        PROVE  /\ j # k /\ CallAt(j, "label")
               /\ \A b \in Address : Alive(b)' /\ term'[b].name = call'[j].name => b = hcRec'[j].tab
    <3>1. j # k /\ call'[j] = call[j] /\ hcRec'[j] = hcRec[j] /\ CallAt(j, "label")
      BY <1>2, <2>3 DEF CallAt
    <3>2. Labelled(call[j].name) \subseteq {hcRec[j].tab} /\ call[j].name \in Names
      BY <1>1, <3>1 DEF NamesOnce, HcTypes, CallRec
    <3>3. call[j].name # Nowhere
      BY <3>2 DEF Names, Nowhere
    <3>4. ~(Alive(a)' /\ t.name = call[j].name)
      <4>1. ~(Alive(a) /\ term[a].name = call[j].name)
        BY <3>1, <3>2 DEF Labelled
      <4> QED BY <1>2, <3>1, <3>3, <4>1 DEF Alive, CallAt
    <3>5. ASSUME NEW b \in Address, Alive(b)', term'[b].name = call[j].name PROVE b \in Labelled(call[j].name)
      BY <1>2, <1>8, <3>4, <3>5 DEF Labelled
    <3> QED BY <3>1, <3>2, <3>5
  <2> QED BY <1>1, <2>2, <2>3 DEF NamesOnce, Labelled
<1>10. CallsHome'
  <2>1. ASSUME NEW j \in HcTask, j # k PROVE CallHome(j)'
    <3>1. hcRec'[j] = hcRec[j] /\ call'[j] = call[j] /\ CallHome(j) /\ hcRec[j].tab \in ({Nowhere} \cup Address) \ {a}
      BY <1>1, <1>2, <1>4, <2>1 DEF CallsHome
    <3>2. hcRec[j].tab # Nowhere => term'[hcRec[j].tab] = term[hcRec[j].tab]
      BY <1>2, <3>1
    <3>3. Alive(hcRec[j].tab) => Alive(hcRec[j].tab)' /\ term'[hcRec[j].tab] = term[hcRec[j].tab]
      BY <1>2, <3>1, <3>2 DEF Alive
    <3>4. \A n : Home(j, n) => Home(j, n)'
      BY <3>1, <3>3 DEF Home
    <3>5. call[j].at \in {"check", "label"} => Alive(hcRec[j].tab)
      BY <3>1 DEF CallHome, HomeOf, Naming
    <3> QED BY <3>1, <3>3, <3>4, <3>5 DEF CallHome, HomeOf
  <2>2. CallHome(k)'
    BY <1>2 DEF CallHome
  <2> QED BY <2>1, <2>2 DEF CallsHome
<1>11. ReachesOwn'
  BY <1>1 DEF ReachesOwn
<1> QED BY <1>3, <1>6, <1>7, <1>9, <1>10, <1>11 DEF HcIInv

LEMMA CreateStep ==
  ASSUME HcIInv, NEW k \in HcTask, CreateTab(k)
  PROVE  HcIInv'
<1>1. PICK a \in Address :
        /\ term[a].life = "none"
        /\ term' = [term EXCEPT ![a] = [NoTerm EXCEPT !.life = "live"]]
        /\ hcRec' = [hcRec EXCEPT ![k] = [status |-> "running", tab |-> a, name |-> Slug]]
  BY DEF CreateTab
<1> DEFINE t == [NoTerm EXCEPT !.life = "live"]
           r == [status |-> "running", tab |-> a, name |-> Slug]
           c == [NoCall EXCEPT !.at = "bind"]
<1>2. t \in Terms /\ t.life = "live" /\ t.task = Slug /\ t.name = Nowhere
  BY DEF NoTerm, Terms, Lives, Runs, Words, Names
<1>3. r \in TabRecord /\ r.tab = a /\ r.name = Slug /\ r.status = "running"
  BY DEF TabRecord, HcStatus, Names
<1>4. c \in CallRec /\ c.at = "bind" /\ c.name = Slug
  BY DEF NoCall, CallRec, CallStages, Naming, Names
<1>5. /\ term' = [term EXCEPT ![a] = t] /\ hcRec' = [hcRec EXCEPT ![k] = r]
      /\ call' = [call EXCEPT ![k] = c] /\ UNCHANGED <<watch, strayed>> /\ hcRec[k].tab = Nowhere
  BY <1>1 DEF CreateTab, Calls
<1> HIDE DEF t, r, c
<1>6. \A j \in HcTask : hcRec[j].tab # a
  <2>1. a # Nowhere
    BY DEF Address, Nowhere
  <2> QED BY <1>1, <2>1 DEF HcIInv, TabsOwned
<1>7. HomeOf(k, r, c)'
  <2>1. term'[a] = t
    BY <1>5, AtHome
  <2>2. Alive(a)'
    BY <1>2, <2>1 DEF Alive, Address, Nowhere
  <2>3. Alive(r.tab)'
    BY <1>3, <2>2
  <2> QED BY <1>3, <1>4, <2>3 DEF HomeOf, Naming, Launching, Following
<1> QED BY <1>2, <1>3, <1>4, <1>5, <1>6, <1>7, MoveStep

\* What is known of the tab that the record of a task names.
LEMMA OwnTab ==
  ASSUME HcIInv, NEW k \in HcTask, hcRec[k].tab # Nowhere
  PROVE  /\ hcRec[k].tab \in Address /\ term[hcRec[k].tab] \in Terms
         /\ term[hcRec[k].tab].life \in {"live", "finished"}
         /\ term[hcRec[k].tab].task \in {k, Slug} /\ term[hcRec[k].tab].name \in {Nowhere, k, Slug}
         /\ \A j \in HcTask \ {k} : hcRec[j].tab # hcRec[k].tab
<1>1. hcRec[k].tab \in Address
  BY AtHome DEF TabRecord
<1> QED BY <1>1, AtHome DEF HcIInv, TabsOwned

LEMMA BindStep ==
  ASSUME HcIInv, NEW k \in HcTask, BindTask(k)
  PROVE  HcIInv'
<1>a. PICK a, r, n : a = hcRec[k].tab /\ r = hcRec[k] /\ n = call[k].name
  OBVIOUS
<1>b. PICK t, c : t = [term[a] EXCEPT !.task = k] /\ c = [call[k] EXCEPT !.at = "check"]
  OBVIOUS
<1>1. call[k].at = "bind" /\ Alive(a) /\ Known(a) /\ a # Nowhere
  BY <1>a, AtHome DEF BindTask, CallAt, HomeOf, Naming, Alive, Known
<1>2. a \in Address /\ term[a] \in Terms /\ term[a].name \in {Nowhere, k, Slug}
      /\ \A j \in HcTask \ {k} : hcRec[j].tab # a
  BY <1>a, <1>1, OwnTab
<1>3. t \in Terms /\ t.life = "live" /\ t.task = k /\ t.name = term[a].name
  BY <1>b, <1>1, <1>2, AtHome DEF Terms, Alive
<1>4. c \in CallRec /\ c.at = "check" /\ c.name = n
  BY <1>a, <1>b, AtHome DEF CallRec, CallStages, Naming
<1>5. /\ term' = [term EXCEPT ![a] = t] /\ hcRec' = [hcRec EXCEPT ![k] = r]
      /\ call' = [call EXCEPT ![k] = c] /\ UNCHANGED <<watch, strayed>>
  BY <1>a, <1>b, <1>1, AtHome DEF BindTask, Calls
<1>7. r \in TabRecord /\ r.name \in {k, Slug} /\ n \in {k, Slug} /\ r.tab = a
  BY <1>a, AtHome
<1>6. HomeOf(k, r, c)'
  <2>1. term'[a] = t
    BY <1>2, <1>5, AtHome
  <2>2. Alive(r.tab)' /\ term'[r.tab].task = k
    BY <1>1, <1>3, <1>7, <2>1 DEF Alive
  <2>3. r.status # "pending"
    BY <1>a, <1>1, AtHome DEF HomeOf
  <2> QED BY <1>4, <2>2, <2>3 DEF HomeOf, Naming, Launching, Following
<1> QED BY <1>a, <1>1, <1>2, <1>3, <1>4, <1>5, <1>6, <1>7, MoveStep

LEMMA LabelStep ==
  ASSUME HcIInv, NEW k \in HcTask, LabelName(k)
  PROVE  HcIInv'
<1>a. PICK a, r, n : a = hcRec[k].tab /\ r = hcRec[k] /\ n = call[k].name
  OBVIOUS
<1>b. PICK t, c : t = [term[a] EXCEPT !.name = n] /\ c = [call[k] EXCEPT !.at = "launch", !.cache = a]
  OBVIOUS
<1>1. call[k].at = "label" /\ Alive(a) /\ Known(a) /\ a # Nowhere /\ term[a].task = k
  BY <1>a, AtHome DEF LabelName, CallAt, HomeOf, Naming, Alive, Known
<1>2. a \in Address /\ term[a] \in Terms
      /\ \A j \in HcTask \ {k} : hcRec[j].tab # a
  BY <1>a, <1>1, OwnTab
<1>7. r \in TabRecord /\ r.name \in {k, Slug} /\ n \in {k, Slug} /\ n \in Names /\ r.tab = a
  BY <1>a, AtHome
<1>3. t \in Terms /\ t.life = "live" /\ t.task = k /\ t.name = n
  BY <1>b, <1>1, <1>2, <1>7 DEF Terms, Alive
<1>4. c \in CallRec /\ c.at = "launch" /\ c.name = n
  BY <1>a, <1>b, <1>2, AtHome DEF CallRec, CallStages, Launching
<1>5. /\ term' = [term EXCEPT ![a] = t] /\ hcRec' = [hcRec EXCEPT ![k] = r]
      /\ call' = [call EXCEPT ![k] = c] /\ UNCHANGED <<watch, strayed>>
  BY <1>a, <1>b, <1>1, AtHome DEF LabelName, Calls
<1>6. HomeOf(k, r, c)'
  <2>1. term'[a] = t /\ hcRec'[k] = r
    BY <1>2, <1>5, AtHome
  <2>2. Alive(a)' /\ term'[a].task = k /\ term'[a].name = n
    BY <1>1, <1>3, <2>1 DEF Alive
  <2>3. Home(k, c.name)'
    BY <1>4, <1>7, <2>1, <2>2 DEF Home
  <2>4. r.status # "pending"
    BY <1>a, <1>1, AtHome DEF HomeOf
  <2> QED BY <1>4, <2>3, <2>4 DEF HomeOf, Naming, Launching, Following
<1>8. Labelled(t.name) \subseteq {a} /\ \A j \in HcTask \ {k} : call[j].at # "label"
  BY <1>a, <1>1, <1>3 DEF HcIInv, NamesOnce, CallAt
<1> QED BY <1>a, <1>1, <1>2, <1>3, <1>4, <1>5, <1>6, <1>7, <1>8, MoveStep

\* A tab is killed, by strike or by hand.
LEMMA FinishStep ==
  ASSUME HcIInv, NEW k \in HcTask, hcRec[k].tab # Nowhere, call[k].at = "none",
         hcRec[k].status \in {"done", "failed", "lost"}, NEW c \in CallRec,
         c.at = "rm" \/ (c = call[k] /\ hcRec[k].status # "done"),
         c.name \in {k, Slug},
         term' = IF Alive(hcRec[k].tab) THEN [term EXCEPT ![hcRec[k].tab].life = "finished"] ELSE term,
         call' = [call EXCEPT ![k] = c], UNCHANGED <<hcRec, watch, strayed>>
  PROVE  HcIInv'
<1>a. PICK a, r : a = hcRec[k].tab /\ r = hcRec[k]
  OBVIOUS
<1>b. PICK t : t = [term[a] EXCEPT !.life = "finished"]
  OBVIOUS
<1>1. a \in Address /\ a # Nowhere /\ term[a] \in Terms /\ term[a].life \in {"live", "finished"}
      /\ term[a].task \in {k, Slug} /\ term[a].name \in {Nowhere, k, Slug}
      /\ \A j \in HcTask \ {k} : hcRec[j].tab # a
  BY <1>a, OwnTab
<1>2. t \in Terms /\ t.life = "finished" /\ t.task = term[a].task /\ t.name = term[a].name
  BY <1>b, <1>1 DEF Terms, Lives
<1>3. term' = [term EXCEPT ![a] = t]
  <2>1. CASE Alive(a)
    BY <1>a, <1>b, <2>1
  <2>2. CASE ~Alive(a)
    <3>1. term[a].life = "finished"
      BY <1>1, <2>2 DEF Alive
    <3>2. t = term[a]
      BY <1>b, <1>1, <3>1 DEF Terms
    <3> QED BY <1>a, <2>2, <3>2, <1>1, AtHome
  <2> QED BY <2>1, <2>2
<1>4. HomeOf(k, r, c)'
  BY <1>a DEF HomeOf, Naming, Launching, Following, Followed
<1>5. r \in TabRecord /\ r.tab = a /\ r.name \in {k, Slug} /\ hcRec' = [hcRec EXCEPT ![k] = r]
  BY <1>a, AtHome
<1>6. c.at # "label"
  OBVIOUS
<1>7. /\ t.life # "live" /\ (r.tab = a <=> t.life \in {"live", "finished"})
      /\ t.task \in {k, Slug} /\ t.name \in {Nowhere, k, Slug}
      /\ hcRec[k].tab \in {a, Nowhere} /\ r.tab \in {a, Nowhere}
  BY <1>a, <1>1, <1>2, <1>5
<1> QED BY <1>1, <1>2, <1>3, <1>4, <1>5, <1>6, <1>7, MoveStep

LEMMA KillStep ==
  ASSUME HcIInv, HcEvent \subseteq {"exit"}, NEW k \in HcTask, Kill(k)
  PROVE  HcIInv'
<1> DEFINE c == [NoCall EXCEPT !.at = "rm"]
<1>1. c \in CallRec /\ c.at = "rm" /\ c.name = Slug
  BY DEF NoCall, CallRec, CallStages, Names
<1>2. call[k].at = "none" /\ hcRec[k].tab # Nowhere /\ hcRec[k].status \notin Followed
  BY DEF Kill, CallAt
<1>3. hcRec[k].status \in {"done", "failed", "lost"}
  BY <1>2, AtHome DEF HomeOf, TabRecord, HcStatus, Followed
<1>4. /\ term' = IF Alive(hcRec[k].tab) THEN [term EXCEPT ![hcRec[k].tab].life = "finished"] ELSE term
      /\ call' = [call EXCEPT ![k] = c] /\ UNCHANGED <<hcRec, watch, strayed>>
  BY DEF Kill, Calls
<1> HIDE DEF c
<1> QED BY <1>1, <1>2, <1>3, <1>4, FinishStep

LEMMA CloseStep ==
  ASSUME HcIInv, HcEvent \subseteq {"exit"}, NEW a \in Address, PersonCloses(a)
  PROVE  HcIInv'
<1>1. PICK k \in HcTask : hcRec[k].tab = a
  BY DEF PersonCloses, Alive, HcIInv, TabsOwned
<1>2. a # Nowhere /\ Alive(a)
  BY DEF PersonCloses, Alive
<1>3. term[a].task = k
  BY <1>1, <1>2, OwnTab DEF PersonCloses
<1>4. hcRec[k].status \in {"failed", "lost"} /\ call[k].at = "none"
  BY <1>3 DEF PersonCloses, CallAt
<1>5. /\ term' = [term EXCEPT ![a].life = "finished"]
      /\ call' = [call EXCEPT ![k] = call[k]] /\ UNCHANGED <<hcRec, watch, strayed>>
  BY AtHome DEF PersonCloses
<1> QED BY <1>1, <1>2, <1>4, <1>5, AtHome, FinishStep

LEMMA RemoveStep ==
  ASSUME HcIInv, NEW k \in HcTask, RemoveTab(k)
  PROVE  HcIInv'
<1> DEFINE a == hcRec[k].tab
           t == [NoTerm EXCEPT !.life = "gone"]
<1>1. call[k].at = "rm" /\ a # Nowhere /\ hcRec[k].status \notin Followed
  BY AtHome DEF RemoveTab, CallAt, HomeOf
<1>2. a \in Address /\ \A j \in HcTask \ {k} : hcRec[j].tab # a
  BY <1>1, OwnTab
<1>3. t \in Terms /\ t.life = "gone" /\ t.task = Slug /\ t.name = Nowhere
  BY DEF NoTerm, Terms, Lives, Runs, Words, Names
<1>4. NewTask \in TabRecord /\ NewTask.tab = Nowhere /\ NewTask.name = Slug /\ NewTask.status = "pending"
  BY DEF NewTask, TabRecord, HcStatus, Names
<1>5. /\ term' = [term EXCEPT ![a] = t] /\ hcRec' = [hcRec EXCEPT ![k] = NewTask]
      /\ call' = [call EXCEPT ![k] = NoCall] /\ UNCHANGED <<watch, strayed>>
  BY <1>1 DEF RemoveTab, EndsCall, Calls
<1>6. HomeOf(k, NewTask, NoCall)'
  BY <1>4, AtHome DEF HomeOf, Naming, Launching, Following
<1> HIDE DEF t
<1> QED BY <1>1, <1>2, <1>3, <1>4, <1>5, <1>6, AtHome, MoveStep

LEMMA HcStep ==
  ASSUME HcIInv, HcEvent \subseteq {"exit"}, [HcNext]_hcVars
  PROVE  HcIInv'
<1>1. CASE UNCHANGED hcVars
  BY <1>1 DEF hcVars, HcIInv, HcTypes, TabsOwned, NamesOwned, NamesOnce, CallsHome, CallHome, HomeOf, Home,
              Alive, Labelled, CallAt, ReachesOwn
<1>2. ASSUME NEW k \in HcTask,
             Dispatch(k) \/ Prompting(k) \/ Answering(k) \/ Kill(k) \/ RemoveTab(k) \/ ReadStatus(k)
      PROVE  HcIInv'
  BY <1>2, CreateStep, BindStep, CheckStep, LabelStep, TypeLaunchStep, StartedStep, DismissStep, AwaitStep,
     RecordNameStep, RepromptStep, SendStep, LookStep, KeysStep, ProbeStep, KillStep, RemoveStep, ReadStep
     DEF Dispatch, Prompting, Answering
<1>3. ASSUME NEW a \in Address,
             Report(a) \/ TakeText(a) \/ EndTurn(a) \/ AgentExits(a) \/ PersonCloses(a)
      PROVE  HcIInv'
  BY <1>3, AgentStep, CloseStep
<1> QED BY <1>1, <1>2, <1>3 DEF HcNext

\* However names are reused after a strike, what is sent for a task, and what the sentinel
\* reads for it, is sent to and read from the terminal started for it, as long as no two
\* dispatches check a name at once, nobody closes the terminal of a task that goes on, and
\* no task is struck while it is followed (hc.go: terminal, AgentStart).
THEOREM OwnReached == HcEvent \subseteq {"exit"} => (HcSpec => []ReachesOwn)
<1> SUFFICES ASSUME HcEvent \subseteq {"exit"} PROVE HcSpec => []ReachesOwn
  OBVIOUS
<1>1. HcInit => HcIInv
  BY HcStart
<1>2. HcIInv /\ [HcNext]_hcVars => HcIInv'
  BY HcStep
<1>3. HcIInv => ReachesOwn
  BY DEF HcIInv
<1> QED BY <1>1, <1>2, <1>3, PTL DEF HcSpec
=============================================================================
