----------------------------- MODULE LayoutTray -----------------------------
(* The layout issues of one review session: the browser audits the artifact  *)
(* and reports a pass, the hub keeps what the passes found as issues, the    *)
(* user queues some of them as one prompt, and only a conclusive pass on a   *)
(* newer version retires an issue.  Several tabs may show several versions   *)
(* of the artifact, so a pass may be late.                                   *)
EXTENDS Naturals, FiniteSets, Sequences, FiniteSetsExt

CONSTANTS Issue,        \* issues the artifact may have, in one viewport class
          Request,      \* prompts tagged layout-warnings
          MaxVersion,   \* bound: versions of the artifact
          MaxStamps,    \* maxLayoutStamps
          TrayEvent     \* what may happen in this run

ASSUME TrayAssumption == MaxVersion \in Nat \ {0} /\ MaxStamps \in Nat \ {0}

VARIABLES
    shows,      \* the artifact: the issues of each version so far
    tray,       \* the layout inbox, in memory
    trayFile,   \* layout.json
    request,    \* where each prompt is and which issues it carries
    asked       \* history: issues a sent prompt carried

trayVars == <<shows, tray, trayFile, request, asked>>

--------------------------------------------------------------------------
(* An issue.  `seen` is SeenRev, `end` EndRev, `before` Before. *)

Selectable == {"fresh", "persisting", "regressed"}
Outstanding == {"awaiting-fix", "awaiting-check"}
Unknown == [st |-> "absent", before |-> "fresh", seen |-> 0, end |-> 0]

\* layoutInbox.sight: one finding of a pass of revision rev.
Sight(is, rev, settled) ==
    CASE is.st = "absent" -> [Unknown EXCEPT !.st = "fresh", !.seen = rev]
      [] is.st = "resolved" -> IF rev < is.end THEN is
                               ELSE [is EXCEPT !.st = "regressed", !.seen = rev, !.end = 0]
      [] is.st = "dismissed" -> IF rev <= is.end THEN is
                                ELSE [is EXCEPT !.st = "fresh", !.seen = rev, !.end = 0]
      [] is.st \in Outstanding ->
           IF rev <= is.seen THEN is
           ELSE IF settled THEN [is EXCEPT !.st = "persisting", !.seen = rev]
           ELSE [is EXCEPT !.st = "awaiting-check"]
      [] OTHER -> IF rev < is.seen THEN is ELSE [is EXCEPT !.seen = rev]

\* A slip: a pass of the very version that showed the issue retires it.
MissSame(is, rev, settled) ==
    IF is.st \notin Selectable \cup Outstanding \/ rev < is.seen THEN is
    ELSE IF settled THEN [is EXCEPT !.st = "resolved", !.end = rev, !.before = "fresh"]
    ELSE IF is.st = "awaiting-fix" THEN [is EXCEPT !.st = "awaiting-check"] ELSE is

\* A slip: an issue that was queued is left to its request.
MissQueued(is, rev, settled) ==
    IF is.st \notin Selectable \/ rev <= is.seen \/ ~settled THEN is
    ELSE [is EXCEPT !.st = "resolved", !.end = rev, !.before = "fresh"]

\* The loop of layoutInbox.record over the issues a pass did not find.
Miss(is, rev, settled) ==
    IF is.st \notin Selectable \cup Outstanding \/ rev <= is.seen THEN is
    ELSE IF settled THEN [is EXCEPT !.st = "resolved", !.end = rev, !.before = "fresh"]
    ELSE IF is.st = "awaiting-fix" THEN [is EXCEPT !.st = "awaiting-check"] ELSE is

--------------------------------------------------------------------------
Version == 1..MaxVersion
Latest == Len(shows)

\* tray.past is history: the latest version a settled pass showed the issue in,
\* and the version of the pass that resolved it.
TrayInit ==
    /\ shows \in {<<S>> : S \in SUBSET Issue}
    /\ tray = [revision |-> 0, stamps |-> <<>>, issue |-> [x \in Issue |-> Unknown],
               past |-> [x \in Issue |-> [proved |-> 0, retired |-> 0]]]
    /\ trayFile = tray
    /\ request = [r \in Request |-> [at |-> "none", ids |-> {}]]
    /\ asked = {}

\* saveLayoutState: a layout.json that cannot be written is only logged; a
\* server that dies before it is written leaves the same file.  That a release
\* is lost so is an event of its own.
SaveTray(event) == trayFile' = tray' \/ (event \in TrayEvent /\ UNCHANGED trayFile)

\* The artifact is edited: issues come and go.
EditPage == /\ Latest < MaxVersion
            /\ \E S \in SUBSET Issue : shows' = Append(shows, S)
            /\ UNCHANGED <<tray, trayFile, request, asked>>

\* layoutInbox.revisionFor: versions are numbered as they are first reported.
\* A stamp is [v |-> version, rev |-> its number]; the oldest are forgotten.
Known(v) == \E i \in DOMAIN tray.stamps : tray.stamps[i].v = v
RevOf(v) == IF Known(v)
              THEN (CHOOSE s \in {tray.stamps[i] : i \in DOMAIN tray.stamps} : s.v = v).rev
              ELSE tray.revision + 1
Stamped(v) ==
    IF Known(v) THEN tray.stamps
    ELSE LET all == Append(tray.stamps, [v |-> v, rev |-> tray.revision + 1])
         IN  IF Len(all) > MaxStamps THEN Tail(all) ELSE all

\* The first pass of a version comes before those of later ones, but for "late".
InOrder(v) ==
    \/ "late" \in TrayEvent \/ Known(v)
    \/ \A i \in DOMAIN tray.stamps : tray.stamps[i].v < v

\* Hub.RecordLayoutAudit, layoutInbox.record: a pass of version v, settled when
\* complete with target presence complete.  Widths differ within a viewport
\* class, so that any pass finds some of what the version can show; one for
\* another class only numbers the version.
Audit(v, settled, sameClass) ==
    /\ v <= Latest /\ InOrder(v)
    /\ \E found \in SUBSET shows[v] :
         LET rev == RevOf(v)
             after(x) == IF ~sameClass THEN tray.issue[x]
                         ELSE IF x \in found THEN Sight(tray.issue[x], rev, settled)
                         ELSE Miss(tray.issue[x], rev, settled)
             sighted(x) == sameClass /\ x \in found
             past(x) ==
               LET h == tray.past[x]
               IN  [proved |-> IF sighted(x) /\ settled THEN Max({v, h.proved}) ELSE h.proved,
                    retired |-> IF after(x).st = "resolved" /\ tray.issue[x].st # "resolved"
                                  THEN v ELSE h.retired]
         IN  tray' = [revision |-> Max({rev, tray.revision}), stamps |-> Stamped(v),
                      issue |-> [x \in Issue |-> after(x)], past |-> [x \in Issue |-> past(x)]]
    /\ SaveTray("unsaved")
    /\ UNCHANGED <<shows, request, asked>>

\* pick, markQueued: those of the ones asked for that can be queued now.
Pickable(ids) == {x \in ids : tray.issue[x].st \in Selectable}
\* composeLayoutPrompt: as many of them as one prompt holds, and it is an error
\* when that is none.
Composed(S) == (SUBSET S) \ {{}}
\* Hub.QueueLayoutIssues: pick, compose, commit of the queue, markQueued.
QueueIssues(r, ids) ==
    /\ request[r].at = "none"
    /\ \E picked \in Composed(Pickable(ids)) :
        /\ request' = [request EXCEPT ![r] = [at |-> "queued", ids |-> picked]]
        /\ tray' = [tray EXCEPT !.issue = [x \in Issue |->
                      IF x \in picked
                        THEN [tray.issue[x] EXCEPT !.before = tray.issue[x].st, !.st = "awaiting-fix"]
                        ELSE tray.issue[x]]]
        /\ SaveTray("unsaved")
        /\ UNCHANGED <<shows, asked>>

\* Hub.DismissLayoutIssue: silenced for the newest version that was reported.
Dismiss(x) ==
    /\ tray.issue[x].st \in Selectable
    /\ tray' = [tray EXCEPT !.issue[x].st = "dismissed", !.issue[x].end = tray.revision,
                            !.issue[x].before = "fresh"]
    /\ SaveTray("unsaved")
    /\ UNCHANGED <<shows, request, asked>>

\* unreferencedLayoutIDs: what no prompt still pending carries.
PendingAt == {"queued", "sent"}
Unreferenced(r) ==
    {x \in request[r].ids :
        \A q \in Request \ {r} : request[q].at \in PendingAt => x \notin request[q].ids}

\* A slip: an issue that was queued again is not put back.
ReleasedFresh(r) ==
    [x \in Issue |->
        IF x \in Unreferenced(r) /\ tray.issue[x].st = "awaiting-fix"
             /\ tray.issue[x].before = "fresh"
          THEN [tray.issue[x] EXCEPT !.st = "fresh"] ELSE tray.issue[x]]

\* Hub.releaseLayout, layoutInbox.release.
Released(r) ==
    [x \in Issue |->
        IF x \in Unreferenced(r) /\ tray.issue[x].st \in Outstanding
          THEN [tray.issue[x] EXCEPT !.st = tray.issue[x].before, !.before = "fresh"]
          ELSE tray.issue[x]]

\* Hub.RemoveQueued.
Withdraw(r) ==
    /\ request[r].at = "queued"
    /\ request' = [request EXCEPT ![r] = [at |-> "none", ids |-> {}]]
    /\ tray' = [tray EXCEPT !.issue = Released(r)]
    /\ SaveTray("unreleased")
    /\ UNCHANGED <<shows, asked>>

\* Hub.Send: everything that is queued.  Hub.Ack.
SendRequests ==
    LET out == {r \in Request : request[r].at = "queued"}
    IN  /\ out # {}
        /\ request' = [r \in Request |-> IF r \in out THEN [request[r] EXCEPT !.at = "sent"]
                                         ELSE request[r]]
        /\ asked' = asked \cup UNION {request[r].ids : r \in out}
        /\ UNCHANGED <<shows, tray, trayFile>>
AckRequests ==
    /\ \E r \in Request : request[r].at = "sent"
    /\ request' = [r \in Request |-> IF request[r].at = "sent" THEN [at |-> "none", ids |-> {}]
                                     ELSE request[r]]
    /\ UNCHANGED <<shows, tray, trayFile, asked>>

\* The server stops; the next one loads what was saved.
ReloadTray == /\ "unsaved" \in TrayEvent
              /\ tray' = trayFile
              /\ UNCHANGED <<shows, trayFile, request, asked>>

TrayNext ==
    \/ EditPage \/ SendRequests \/ AckRequests \/ ReloadTray
    \/ \E v \in Version, settled, sameClass \in BOOLEAN : Audit(v, settled, sameClass)
    \/ \E r \in Request : Withdraw(r) \/ \E ids \in SUBSET Issue : QueueIssues(r, ids)
    \/ \E x \in Issue : Dismiss(x)

--------------------------------------------------------------------------
(* Properties. *)

\* A resolved issue was retired by a pass of a newer version than any that a
\* conclusive pass showed it in, however late and from however many tabs the
\* passes come (layout.go record, sight).
RetiredByNewer ==
    \A x \in Issue : tray.issue[x].st = "resolved" => tray.past[x].retired > tray.past[x].proved

\* An issue that waits for a fix has a prompt on its way, or was sent in one:
\* withdrawing prompts, in any order and with issues in several of them, never
\* leaves it waiting for nobody (hub.go RemoveQueued, layout.go release).
RequestOut ==
    \A x \in Issue : tray.issue[x].st \in Outstanding =>
        x \in asked \/ \E r \in Request : request[r].at \in PendingAt /\ x \in request[r].ids

\* An issue the artifact no longer has is not in the tray for ever, whatever
\* was queued, withdrawn or found by late passes of older versions.
RepairedRetires ==
    \A x \in Issue :
        [](Latest = MaxVersion /\ x \notin shows[Latest] =>
             <>(tray.issue[x].st \in {"absent", "resolved", "dismissed"}))
=============================================================================
