---------------------------- MODULE ManagedFiles ----------------------------
(***************************************************************************)
(* What vx init and vx upgrade keep in a user's project (internal/cli:     *)
(* setup_project.go; internal/install: skills.go; internal/piwake): copies *)
(* of the skills and of the Pi wake extension, which the user may edit,    *)
(* link, remove or commit.  config.json holds the hash of what vexillum    *)
(* last wrote of each: that tells a copy to refresh from one to leave      *)
(* alone.  A run inspects everything, asks, then writes file after file    *)
(* and saves the hashes last.  A hash is here the content it is of.        *)
(***************************************************************************)
EXTENDS Naturals, FiniteSets

CONSTANTS Skill,        \* names of the skills
          Paged,        \* those of them with a second file besides SKILL.md
          SetupEvent,   \* what else may happen: a run that fails between two writes (an error, a
                        \* kill), a user who changes files while a run is under way
          MaxBinary,   \* bound: versions of the binary
          MaxChanges    \* bound: changes the user makes

ASSUME ManagedAssumption ==
    /\ SetupEvent \subseteq {"fails", "meanwhile"} /\ "wake" \notin Skill /\ Paged \subseteq Skill
    /\ MaxBinary \in Nat \ {0} /\ MaxChanges \in Nat

WakeFile == "wake"
Item == Skill \cup {WakeFile}
Part(i) == IF i \in Paged THEN 1..2 ELSE 1..1

VARIABLES version,  \* of the installed binary, and of the texts embedded in it
          disk,     \* the content of each file of each item: 0, a version, or a user's text
          linked,   \* the items that are symlinks
          config,   \* config.json: whether it is there, the content recorded of each item
          lacking,  \* vexillum's other files and entries the project does not have
          backup,   \* .vexillum/backups: each item as it was last saved
          run,      \* the run under way
          mine,     \* history: what the user left an item as, with no run under way
          forced,   \* history: the times it was saved and overwritten since (2: more)
          changes

managedVars == <<version, disk, linked, config, lacking, backup, run, mine, forced, changes>>
userVars == <<version, linked, mine, changes>>

Nothing     == <<>>
Gone(i)     == [p \in Part(i) |-> 0]
Template(i) == [p \in Part(i) |-> version]
Other       == {"models", "hook"}
NoRun == [at |-> "none", plan |-> [i \in Item |-> "done"], on |-> WakeFile, part |-> 1,
          hash |-> [i \in Item |-> Nothing], dirty |-> FALSE]
ManagedInit ==
    /\ version = 1 /\ disk = [i \in Item |-> Gone(i)] /\ linked = {}
    /\ config = [there |-> FALSE, hash |-> [i \in Item |-> Nothing]]
    /\ lacking = Other /\ backup = [i \in Item |-> Nothing]
    /\ run = NoRun
    /\ mine = [i \in Item |-> Nothing] /\ forced = [i \in Item |-> 0] /\ changes = 0

-----------------------------------------------------------------------------
(* Inspection: nothing is written.                                          *)

\* InspectSkill, piwake.Inspect
StateOf(i) == IF disk[i][1] = 0 THEN "missing"
              ELSE IF disk[i] = Template(i) THEN "current"
              ELSE IF disk[i] = config.hash[i] THEN "stale" ELSE "edited"

\* inspectSkills, inspectPiWake: what the run does with an item.  An upgrade brings
\* a missing skill back when asked to, or when none is installed.
Options == {o \in [kind : {"init", "upgrade"}, force : BOOLEAN, skills : {"ask", "yes", "no"}] :
               o.force => o.kind = "upgrade"}
Writes == {"install", "refresh", "overwrite"}
Wanted(i, o) == \/ i = WakeFile \/ o.kind = "init" \/ o.skills = "yes"
                \/ \A s \in Skill : StateOf(s) = "missing"
Act(i, o) ==
    LET st == StateOf(i) IN
    IF i \in Skill /\ o.skills = "no" THEN IF st = "current" THEN "note" ELSE "done"
    ELSE IF i \in Skill /\ i \in linked /\ st # "missing" THEN "done"
    ELSE CASE st = "missing" /\ Wanted(i, o)     -> "install"
           [] st = "stale" /\ o.kind = "upgrade" -> "refresh"
           [] st = "edited" /\ o.force           -> "overwrite"
           [] st = "current"                     -> "note"
           [] OTHER                              -> "done"
HasWork(plan) == ~config.there \/ lacking # {} \/ \E i \in Item : plan[i] \in Writes

\* runInit, runUpgrade, runProjectSetup: with nothing to write, the run is over.
Inspect ==
    /\ run.at = "none"
    /\ \E o \in Options :
          LET plan == [i \in Item |-> Act(i, o)] IN
          /\ o.kind = "upgrade" => config.there
          /\ HasWork(plan)
          /\ run' = [NoRun EXCEPT !.at = IF o.skills = "ask" THEN "ask" ELSE "consent",
                                  !.plan = plan, !.hash = config.hash]
    /\ UNCHANGED <<userVars, disk, config, lacking, backup, forced>>

\* consent, and the question about the skills to install, which is asked later on.
Installs(r) == {i \in Skill : r.plan[i] = "install"}
Consent ==
    /\ run.at \in {"ask", "consent"}
    /\ \/ run' = [run EXCEPT !.at = "own"]
       \/ run.at = "ask" /\ run' = [run EXCEPT !.at = "own",
                                     !.plan = [i \in Item |-> IF i \in Installs(run) THEN "done" ELSE @[i]]]
       \/ run' = NoRun
    /\ UNCHANGED <<userVars, disk, config, lacking, backup, forced>>

-----------------------------------------------------------------------------
(* apply, after consent.                                                    *)

\* config.json and models.json are created if they are missing.
WriteOwn ==
    /\ run.at = "own"
    /\ config' = [config EXCEPT !.there = TRUE] /\ lacking' = lacking \ {"models"}
    /\ run' = [run EXCEPT !.at = "items"]
    /\ UNCHANGED <<userVars, disk, backup, forced>>

\* applySkills goes through the skills, each to its last file, applyPiWake comes after.
Turn(i) == /\ run.at = "items" /\ (run.part > 1 => run.on = i)
           /\ i = WakeFile => \A s \in Skill : run.plan[s] = "done"
Recorded(i, h) == [at |-> run.at, on |-> WakeFile, part |-> 1,
                   plan |-> [run.plan EXCEPT ![i] = "done"],
                   hash |-> [run.hash EXCEPT ![i] = h], dirty |-> run.dirty \/ run.hash[i] # h]

\* BackupSkill, piwake.Backup: an earlier backup is replaced.
\* (A change of the code: it is not saved.)
SaveNothing(i) ==
    /\ Turn(i) /\ run.plan[i] = "overwrite"
    /\ run' = [run EXCEPT !.plan[i] = "refresh"]
    /\ forced' = [forced EXCEPT ![i] = IF mine[i] = Nothing \/ @ = 2 THEN @ ELSE @ + 1]
    /\ UNCHANGED <<userVars, disk, config, lacking, backup>>
SaveBackup(i) ==
    /\ Turn(i) /\ run.plan[i] = "overwrite"
    /\ backup' = [backup EXCEPT ![i] = disk[i]]
    /\ run' = [run EXCEPT !.plan[i] = "refresh"]
    /\ forced' = [forced EXCEPT ![i] = IF mine[i] = Nothing \/ @ = 2 THEN @ ELSE @ + 1]
    /\ UNCHANGED <<userVars, disk, config, lacking>>

\* InstallSkill, piwake.Install: each file is replaced at once; then the hash of a
\* skill is taken from what is there (installedHash).  Neither writes through a link.
InstallFile(i) ==
    LET d == [disk[i] EXCEPT ![run.part] = version] IN
    /\ Turn(i) /\ run.plan[i] \in {"install", "refresh"}
    /\ IF i \in linked THEN run' = NoRun /\ UNCHANGED disk
       ELSE /\ disk' = [disk EXCEPT ![i] = d]
            /\ run' = IF run.part + 1 \in Part(i) THEN [run EXCEPT !.part = @ + 1, !.on = i]
                      ELSE Recorded(i, d)
    /\ UNCHANGED <<userVars, config, lacking, backup, forced>>

\* A copy that is current: config.json shall know.
NoteCurrent(i) ==
    /\ Turn(i) /\ run.plan[i] = "note"
    /\ run' = Recorded(i, IF i = WakeFile THEN Template(i) ELSE disk[i])
    /\ UNCHANGED <<userVars, disk, config, lacking, backup, forced>>

Apply(i) == SaveBackup(i) \/ InstallFile(i) \/ NoteCurrent(i)
ApplySkills == \E s \in Skill : Apply(s)
ApplyPiWake == Apply(WakeFile)

\* The entries in the user's own settings are merged into what is there now; then the
\* hashes are saved.
MergeHook ==
    /\ run.at = "items" /\ \A i \in Item : run.plan[i] = "done"
    /\ lacking' = lacking \ {"hook"} /\ run' = [run EXCEPT !.at = "save"]
    /\ UNCHANGED <<userVars, disk, config, backup, forced>>
SaveConfig ==
    /\ run.at = "save"
    /\ config' = IF run.dirty THEN [config EXCEPT !.hash = run.hash] ELSE config
    /\ run' = NoRun
    /\ UNCHANGED <<userVars, disk, lacking, backup, forced>>

RunFails ==
    /\ "fails" \in SetupEvent /\ run.at \in {"own", "items", "save"}
    /\ run' = NoRun
    /\ UNCHANGED <<userVars, disk, config, lacking, backup, forced>>

-----------------------------------------------------------------------------
(* The user.                                                                *)

MayChange == changes < MaxChanges /\ (run.at = "none" \/ "meanwhile" \in SetupEvent)
UserText      == MaxBinary + changes + 1
\* A change made while a run is under way may be lost: nothing is claimed of it.
LeavesCopy(i, d) ==
    /\ MayChange
    /\ disk' = [disk EXCEPT ![i] = d]
    /\ mine' = [mine EXCEPT ![i] = IF run.at = "none" /\ d # Gone(i) THEN d ELSE Nothing]
    /\ forced' = [forced EXCEPT ![i] = 0]
    /\ changes' = changes + 1
    /\ UNCHANGED <<version, config, lacking, backup, run>>
EditCopy(i)    == /\ disk[i][1] # 0
              /\ \E p \in Part(i) : LeavesCopy(i, [disk[i] EXCEPT ![p] = UserText])
              /\ UNCHANGED linked
RemoveCopy(i)  == disk[i][1] # 0 /\ LeavesCopy(i, Gone(i)) /\ linked' = linked \ {i}
LinkOwn(i) == i \notin linked /\ LeavesCopy(i, [p \in Part(i) |-> UserText]) /\ linked' = linked \cup {i}

\* A newer binary is installed; the project loses a file of vexillum's.
NewBinary ==
    /\ run.at = "none" /\ version < MaxBinary
    /\ version' = version + 1
    /\ UNCHANGED <<disk, linked, config, lacking, backup, run, mine, forced, changes>>
LoseOwn ==
    /\ MayChange /\ \E o \in Other : lacking' = lacking \cup {o}
    /\ changes' = changes + 1
    /\ UNCHANGED <<version, disk, linked, config, backup, run, mine, forced>>

ManagedNext ==
    \/ Inspect \/ Consent \/ WriteOwn \/ MergeHook \/ SaveConfig \/ RunFails
    \/ ApplySkills \/ ApplyPiWake
    \/ \E i \in Item : EditCopy(i) \/ RemoveCopy(i) \/ LinkOwn(i)
    \/ NewBinary \/ LoseOwn
ManagedSpec == ManagedInit /\ [][ManagedNext]_managedVars

-----------------------------------------------------------------------------
(* Properties *)

\* What a user left a copy as stays, however runs fail and binaries change, until an
\* upgrade is forced; the first one saves it, and only a second one may replace what
\* was saved (upgrade: "Overwrite what you edited ... A backup is saved first").
EditsKept ==
    \A i \in Item : mine[i] # Nothing =>
        \/ disk[i] = mine[i]
        \/ forced[i] > 0 /\ backup[i] = mine[i]
        \/ forced[i] > 1
=============================================================================
