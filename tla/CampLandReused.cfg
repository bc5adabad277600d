CONSTANTS
    Task = {t1, t2}
    Commit = {c1}
    Proc = {p1, p2}
    MaxSlots = 1
    Activity = {"dispatch", "strike", "land"}
    StrikeActivity = {"dispatch", "strike", "land"}
    RedispatchActivity = {"dispatch", "land"}
    None = None
SYMMETRY Symmetry
SPECIFICATION MCSpec
CHECK_DEADLOCK FALSE
PROPERTY LandsOwnBranch
