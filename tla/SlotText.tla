------------------------------ MODULE SlotText ------------------------------
(***************************************************************************)
(* The block vexillum keeps in a user's AGENTS.md or CLAUDE.md             *)
(* (internal/slot: slot.go, scan.go; internal/cli: setup_project.go,       *)
(* applySlot): found by its markers, written, replaced and repaired in a   *)
(* file that is the user's.  A file is its lines; a line is a marker, the  *)
(* fence of a code block, or text.  The hash in a BEGIN marker is here the *)
(* body it is of.                                                          *)
(***************************************************************************)
EXTENDS Naturals, Sequences, FiniteSets

CONSTANTS MineText,    \* lines the user writes
          MaxLines,    \* bound: lines of the file before the first run
          MaxEdits,    \* bound: changes the user makes after that
          MaxLength,   \* bound: lines of a file a run looks at
          MaxTemplate  \* bound: templates, of older and newer binaries

ASSUME SlotAssumption ==
    /\ MaxLines \in Nat /\ MaxEdits \in Nat /\ MaxLength \in Nat /\ MaxTemplate \in Nat \ {0}
    /\ \A v \in 1..MaxTemplate : v \notin MineText

\* Lines: their kind, and what they say.
Blank        == <<"text", <<>>>>
Fence        == <<"fence", <<>>>>
EndLine      == <<"end", <<>>>>
BeginLine(b) == <<"begin", b>>
Mine(m)      == <<"text", <<m>>>>
TemplateLine(v) == <<"text", <<v>>>>
TemplateBody(v) == <<TemplateLine(v)>>

VARIABLES text,      \* the file
          template,  \* of the installed binary
          slotRun,   \* the run under way, with the backups it made: of the body, of the whole file
          done,      \* how the last run ended, until something changes
          edits

slotVars == <<text, template, slotRun, done, edits>>

-----------------------------------------------------------------------------
(* Reading.                                                                 *)

\* parse: markers count outside code blocks only.
Fenced(d, n) == Cardinality({k \in 1..n : d[k][1] = "fence"}) % 2 = 1
Markers(d) == {n \in DOMAIN d : d[n][1] \in {"begin", "end"} /\ ~Fenced(d, n)}
\* pairs: a BEGIN and the END that is the next marker; a marker of no pair is an orphan.
Pairs(d)   == LET ms == Markers(d) IN
              {p \in ms \X ms : /\ p[1] < p[2] /\ d[p[1]][1] = "begin" /\ d[p[2]][1] = "end"
                                /\ ~\E n \in ms : p[1] < n /\ n < p[2]}
Orphans(d) == LET ps == Pairs(d) IN {n \in Markers(d) : ~\E p \in ps : n \in {p[1], p[2]}}
First(d)   == LET ps == Pairs(d) IN CHOOSE p \in ps : \A q \in ps : p[1] <= q[1]

\* canonical: trailing blank lines do not count.
Canonical(b) == LET last == {n \in DOMAIN b : b[n] # Blank} IN
                IF last = {} THEN <<>> ELSE SubSeq(b, 1, CHOOSE n \in last : \A m \in last : m <= n)
Body(d)      == LET p == First(d) IN Canonical(SubSeq(d, p[1] + 1, p[2] - 1))

\* inspect
SlotState(d) ==
    CASE Markers(d) = {} -> "absent"
      [] Markers(d) # {} /\ (Cardinality(Pairs(d)) # 1 \/ Orphans(d) # {}) -> "malformed"
      [] OTHER ->
           LET vouched == d[First(d)[1]][2]
               body == Body(d) IN
           CASE body = TemplateBody(template) /\ vouched = body -> "current"
             [] (body = TemplateBody(template)) # (vouched = body) -> "stale"
             [] OTHER -> "drifted"

-----------------------------------------------------------------------------
(* Writing.                                                                 *)

Block(b) == <<BeginLine(b)>> \o b \o <<EndLine>>

\* appendBlock: after one blank line, or alone.
Append1(d, b) == IF \A n \in DOMAIN d : d[n] = Blank THEN Block(b)
                 ELSE IF d[Len(d)] = Blank THEN d \o Block(b) ELSE d \o <<Blank>> \o Block(b)
\* Upsert, of a file that is not malformed, with force if it must be.
Upsert(d, b) == IF Pairs(d) = {} THEN Append1(d, b)
                ELSE LET p == First(d) IN
                     SubSeq(d, 1, p[1] - 1) \o Block(b) \o SubSeq(d, p[2] + 1, Len(d))

\* Repair: all pairs but the first go, with what they hold and one blank line before
\* them (tidyRange), and the lines of orphans.
Doubled(d) == UNION {(p[1]..p[2]) \cup {n \in {p[1] - 1} : d[n] = Blank} :
                        p \in {q \in Pairs(d) : q # First(d)}}
\* (A change of the code: orphans stay.)
CutPairs(d) == Doubled(d)
\* (A change of the code: an orphan BEGIN takes the text up to the next marker with it.)
CutText(d) == Orphans(d) \cup Doubled(d) \cup
                 {n \in DOMAIN d : d[n][1] = "text" /\ \E o \in Orphans(d) :
                    o < n /\ d[o][1] = "begin" /\ ~\E k \in Markers(d) : o < k /\ k < n}
Cut(d) == Orphans(d) \cup Doubled(d)
\* The lines of d that N numbers, in their order.
Nth(N, k) == CHOOSE n \in N : Cardinality({m \in N : m <= n}) = k
Picked(d, N) == [k \in 1..Cardinality(N) |-> d[Nth(N, k)]]
Repair(d) == LET cut == Cut(d) IN Picked(d, DOMAIN d \ cut)

-----------------------------------------------------------------------------
(* A run: applySlot.                                                        *)

NoSlotRun == [at |-> "none", force |-> FALSE, content |-> <<>>,
              body |-> <<>>, file |-> <<>>, same |-> TRUE]
SlotInit ==
    /\ text \in UNION {[1..n -> {Mine(m) : m \in MineText} \cup {Blank, Fence}] : n \in 0..MaxLines}
    /\ template = 1 /\ slotRun = NoSlotRun
    /\ done = "none" /\ edits = 0

\* slotPlan
Plan(upgrade, force) ==
    LET st == SlotState(text) IN
    CASE st \in {"absent", "stale"}    -> "write"
      [] st = "drifted" /\ force       -> "write"
      [] st = "malformed" /\ upgrade   -> "repair"
      [] OTHER                         -> "nothing"
InspectFile ==
    /\ slotRun.at = "none" /\ Len(text) <= MaxLength
    /\ \E upgrade \in BOOLEAN, force \in BOOLEAN :
          /\ force => upgrade
          /\ LET plan == Plan(upgrade, force) IN
             IF plan = "nothing" THEN done' = "nothing" /\ UNCHANGED slotRun
             ELSE /\ slotRun' = [NoSlotRun EXCEPT !.at = plan, !.force = force, !.content = text]
                  /\ done' = "none"
    /\ UNCHANGED <<text, template, edits>>

\* The repairs are asked about; the whole file is saved before they count.
ConfirmRepair ==
    /\ slotRun.at = "repair"
    /\ slotRun' = [slotRun EXCEPT !.at = "write", !.file = slotRun.content, !.content = Repair(slotRun.content)]
    /\ UNCHANGED <<text, template, done, edits>>
DeclineRepair ==
    /\ slotRun.at = "repair" /\ slotRun' = NoSlotRun
    /\ UNCHANGED <<text, template, done, edits>>

\* A body the user edited is saved before it is replaced, which takes --force ...
SaveBody ==
    /\ slotRun.at = "write" /\ SlotState(slotRun.content) = "drifted" /\ slotRun.force
    /\ slotRun' = [slotRun EXCEPT !.at = "saved", !.body = Body(slotRun.content)]
    /\ UNCHANGED <<text, template, done, edits>>
\* ... without, only the repaired markers are written.
WriteMarkers ==
    /\ slotRun.at = "write" /\ SlotState(slotRun.content) = "drifted" /\ ~slotRun.force
    /\ text' = slotRun.content /\ slotRun' = NoSlotRun
    /\ UNCHANGED <<template, done, edits>>
WriteBlock ==
    /\ slotRun.at = "saved" \/ (slotRun.at = "write" /\ SlotState(slotRun.content) # "drifted")
    /\ text' = IF SlotState(slotRun.content) = "current" THEN slotRun.content
               ELSE Upsert(slotRun.content, TemplateBody(template))
    /\ slotRun' = NoSlotRun /\ done' = "written"
    /\ UNCHANGED <<template, edits>>
\* The run fails, or is killed.
RunStops ==
    /\ slotRun.at # "none" /\ slotRun' = NoSlotRun
    /\ UNCHANGED <<text, template, done, edits>>

\* The user inserts a line, deletes one, or pastes the block a second time; at any time.
Changes(d) == /\ edits < MaxEdits /\ edits' = edits + 1 /\ text' = d /\ done' = "none"
              /\ slotRun' = [slotRun EXCEPT !.same = slotRun.at = "none"]
              /\ UNCHANGED template
InsertLine == \E n \in 0..Len(text), l \in {Mine(m) : m \in MineText} \cup {Fence} :
                 Changes(SubSeq(text, 1, n) \o <<l>> \o SubSeq(text, n + 1, Len(text)))
DeleteLine == \E n \in DOMAIN text :
                 Changes(SubSeq(text, 1, n - 1) \o SubSeq(text, n + 1, Len(text)))
PasteBlock == /\ Pairs(text) # {}
              /\ Changes(text \o <<Blank>> \o SubSeq(text, First(text)[1], First(text)[2]))
NewTemplate ==
    /\ slotRun.at = "none" /\ template < MaxTemplate
    /\ template' = template + 1 /\ done' = "none"
    /\ UNCHANGED <<text, slotRun, edits>>

SlotNext ==
    \/ InspectFile \/ ConfirmRepair \/ DeclineRepair \/ SaveBody \/ WriteMarkers \/ WriteBlock
    \/ RunStops \/ InsertLine \/ DeleteLine \/ PasteBlock \/ NewTemplate
SlotSpec == SlotInit /\ [][SlotNext]_slotVars

-----------------------------------------------------------------------------
(* Properties *)

Lines(d)  == {d[n] : n \in DOMAIN d}
Mines     == {Mine(m) : m \in MineText}
Writing   == WriteMarkers \/ WriteBlock

\* A run loses no line of the user's: each is still in the file, or in the backup this
\* run made before it wrote; and what is outside the blocks keeps its order, repaired or
\* not (upgrade: a malformed block "is not touched until you confirm the repairs it lists;
\* the file is saved ... first"; Upsert: "User content is never reordered").
InBlocks(d)  == UNION {p[1]..p[2] : p \in Pairs(d)}
OutsideBlocks(d) == LET in == InBlocks(d) IN Picked(d, {n \in DOMAIN d \ in : d[n] \in Mines \cup {Fence}})
LinesKept ==
    [][Writing /\ slotRun.same =>
          /\ Lines(text) \cap Mines \subseteq
                Lines(text') \cup Lines(slotRun.body) \cup Lines(slotRun.file)
          /\ OutsideBlocks(text') = OutsideBlocks(text)]_slotVars

\* Whatever the user made of the markers: once a run has written the block, with the
\* repairs that took, the next run finds it, and finds it current; unless the file ends
\* inside a code block: the block is appended there, and the next run does not see it.
Open(d) == Fenced(d, Len(d))
WrittenIsFound == done = "written" /\ ~Open(text) => SlotState(text) = "current"
=============================================================================
