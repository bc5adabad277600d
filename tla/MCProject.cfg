CONSTANTS
    Pane = {n1, n2}
    NoPane = None
    Announcer = {a1, a2}
    Wake = {v1}
    MaxMoves = 2
    Skill = {"forum", "muster"}
    Paged = {"forum"}
    SetupEvent = {"fails", "meanwhile"}
    MaxBinary = 2
    MaxChanges = 1
    MineText = {l1, l2}
    MaxLines = 2
    MaxEdits = 2
    MaxLength = 8
    MaxTemplate = 2
SPECIFICATION ProjectSpec
CHECK_DEADLOCK FALSE
INVARIANT EntriesKept
INVARIANT WakesTheCommander
INVARIANT EditsKept
INVARIANT WrittenIsFound
PROPERTY LinesKept
PROPERTY WakesDelivered
