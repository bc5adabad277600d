CONSTANTS
    Decider = {d1}
    MaxQuestions = 2
    Harness = {"opencode"}
    Shipper = {}
    MaxRounds = 0
    MaxAttempts = 1
    MaxCommit = 1
    HcTask = {}
    Slug = slug
    HcEvent = {}
    MaxTerminals = 0
SPECIFICATION MissionSpec
CHECK_DEADLOCK FALSE
INVARIANT KeysAnswerTheShown
