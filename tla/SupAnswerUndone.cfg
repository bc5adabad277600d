SPECIFICATION Spec
CONSTANTS
    Proc = {c1}
    c1 = c1
    Event = {"hand", "overtaken"}
    MaxTurns = 2
    MaxCommands = 2
INVARIANT AmendmentKept
CHECK_DEADLOCK FALSE
