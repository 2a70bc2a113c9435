SPECIFICATION MCSpec
CONSTANTS
    s1 = s1
    q1 = q1
    q2 = q2
    w1 = w1
    w2 = w2
    src1 = src1
    src2 = src2
    Sleeps <- OneSleep
    Requests <- OneRequest
    Horizon = 2
    MaxResets = 1
    MayShutDown = TRUE
    Pollers <- TwoPollers
    Sources <- TwoSources
    MaxWaits = 1
    Requesters = {r1}
    Cells = {c1}
    NumWorkers = 2
    Capacity = 2
    MaxRequests = 3
    MaxCycles = 3
    NoCell = NoCell
INVARIANTS
    TimersKept
    BandSealed
    TasksClaimed
    RuntimeSettled
PROPERTIES
    PromisesKept
CHECK_DEADLOCK FALSE
