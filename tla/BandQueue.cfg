SPECIFICATION MCSpec
CONSTANTS
    r1 = r1
    r2 = r2
    IDX_NONE = IDX_NONE
    Requesters <- OneRequester
    NumWorkers = 2
    RingSlots = 1
    ChunkLen = 1
    MaxChunks = 1
    ReturnEvery = 16
    TaskEntries <- OddTasks
    MaxRequests = 2
    CanShutDown = TRUE
INVARIANTS
    AllAccounted
    NothingStranded
PROPERTIES
    KeepsPromise
    AllLeave
CHECK_DEADLOCK FALSE
