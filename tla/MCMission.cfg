CONSTANTS
    Decider = {d1, d2}
    MaxQuestions = 3
    Harness = {"claude", "opencode", "pi"}
    Shipper = {s1}
    MaxRounds = 1
    MaxAttempts = 2
    MaxCommit = 3
    HcTask = {k1, k2}
    Slug = slug
    HcEvent = {"exit"}
    MaxTerminals = 2
SPECIFICATION MissionSpec
CHECK_DEADLOCK FALSE
INVARIANT FileAnswersTheShown
 
INVARIANT MergedVerified
INVARIANT ReachesOwn
PROPERTY ForeignKept
PROPERTY PushesTheReviewed
