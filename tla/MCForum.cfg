CONSTANTS
    Session = {s1}
    Prompt = {m1, m2}
    Agent = {a1}
    Listener = listener
    None = None
    Event = {"restart", "lost", "fail", "answer", "stop", "end", "outside", "agent", "die"}
    MaxQueued = 2
    MaxRead = 1
    MaxFailures = 1
    Round = {"restart", "lost", "fail", "answer", "stop", "end", "outside"}
    Rival = {"lost", "die", "agent"}
SPECIFICATION ForumSpec
CHECK_DEADLOCK FALSE
INVARIANT BellsRing
INVARIANT WaitHonest
PROPERTY MailboxSpec
PROPERTY RoundsGetThrough
