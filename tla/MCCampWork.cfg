CONSTANTS
    Task = {t1, t2}
    MaxSlots = 1
    None = None
    Commit = {c1, c2, c3}
    Proc = {p1}
    Activity = {"dispatch", "strike", "discard", "edit", "ship"}
    WorkCommit = {w1}
    WorkProc = {q1, q2}
    WorkActivity = {"dispatch", "redispatch", "strike"}
    LandActivity = {"dispatch", "strike", "land"}
SYMMETRY Symmetry
SPECIFICATION MCSpec
CHECK_DEADLOCK FALSE
INVARIANT CommitsKept
PROPERTY UnshippedKept
PROPERTY ForeignCampUntouched
