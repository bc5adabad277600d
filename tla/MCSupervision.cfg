SPECIFICATION SupervisionSpec
CONSTANTS
    Proc = {c1}
    c1 = c1
    Event = {"hand", "death", "outage", "error", "kill", "crash"}
    Pause = {"hand", "pause", "error"}
    MaxTurns = 2
    MaxCommands = 2
INVARIANT AmendmentKept
INVARIANT LostIsLost
PROPERTY ClosedStays
PROPERTY LifecycleSpec
PROPERTY EveryStopTold
PROPERTY WorkNoticed
CHECK_DEADLOCK FALSE
