CONSTANTS
    Server = {p1, p2}
    Asker = {c1, c2}
    Build = {b1, b2}
    OtherTongue = {}
    NoServer = None
    ServerEvent = {"idle", "stop", "die", "mute"}
    MaxStops = 1
    Sentinel = {q1, q2, q3}
    Poller = {w1, w2}
    NoSentinel = None
    MaxBuild = 2
    MaxCrashes = 1
    Await = {1, 2}
    Owner = {o1, o2}
    Reaper = 9
    Ear = {e1, e2, e3}
    Opener = {f1, f2}
    NoEar = None
    MaxHalts = 1
SPECIFICATION ProcessSpec
CHECK_DEADLOCK FALSE
INVARIANT OneOfEach
INVARIANT RecordTrue
INVARIANT NewestKept
PROPERTY ForumServed
PROPERTY SentinelWatched
