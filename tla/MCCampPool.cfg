CONSTANTS
    Task = {t1, t2}
    Commit = {}
    Proc = {p1, p2}
    MaxSlots = 2
    Activity = {"dispatch", "redispatch", "strike"}
    StrikeActivity = {"dispatch", "strike"}
    RedispatchActivity = {"dispatch", "redispatch"}
    None = None
SYMMETRY Symmetry
SPECIFICATION MCSpec
CHECK_DEADLOCK FALSE
INVARIANT LeaseIInv
PROPERTY LeaseEndsByOwner
PROPERTY LeaseSpec
