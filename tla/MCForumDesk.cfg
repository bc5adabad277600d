CONSTANTS
    Issue = {x1}
    Request = {r1, r2}
    MaxVersion = 3
    MaxStamps = 3
    TrayEvent = {"unsaved"}
    Message = {m1, m2}
    Image = {i1, i2}
    MaxStaged = 1
    MaxTranscript = 2
    MaxScene = 2
    FilesEvent = {"die"}
SPECIFICATION DeskSpec
CHECK_DEADLOCK FALSE
INVARIANT RetiredByNewer
INVARIANT RequestOut
INVARIANT FilesKept
PROPERTY RepairedRetires
