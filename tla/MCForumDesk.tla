---------------------------- MODULE MCForumDesk ----------------------------
(* Layout issues and the files of messages, on small instances.  The two     *)
(* share no state that either reads, so one behaviour exercises one of them: *)
(* their state spaces are added, not multiplied.                             *)
EXTENDS LayoutTray, ReviewFiles

VARIABLE part

InPart(p, next, rest) == part = p /\ next /\ UNCHANGED <<part, rest>>

DeskInit == part \in {"issues", "files"} /\ TrayInit /\ FilesInit
DeskNext == \/ InPart("issues", TrayNext, filesVars)
            \/ InPart("files", FilesNext, trayVars)
DeskSpec == /\ DeskInit /\ [][DeskNext]_<<part, trayVars, filesVars>>
            /\ WF_trayVars(InPart("issues", Audit(Latest, TRUE, TRUE), filesVars))
=============================================================================
