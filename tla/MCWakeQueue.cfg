CONSTANTS
    Task = {t1, t2}
    Status = {"blocked", "done"}
    Proc = {p1, p2}
    Purger = {}
    Event = {"reprompt"}
    MaxSettles = 2
    MaxDeaths = 0
    MaxFiles = 6
    None = None
    Fault = {"reprompt", "fail", "die", "age", "crash"}
    FaultPurger = p3
    FaultTask = t1
SPECIFICATION QueueSpec
CHECK_DEADLOCK FALSE
 
PROPERTY WakesHeard
PROPERTY ToldOnce
