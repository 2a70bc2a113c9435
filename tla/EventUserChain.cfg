SPECIFICATION MCSpec
CONSTANTS
    EVENT_ENTRIES = 2
    EVENTS_PER_QUE = 2
    Slots = {s1, s2}
    NoEntry = NoEntry
    NoSub = NoSub
    Classes <- MCClasses
    Producers = {p1, p2}
    Forms <- MCFormsVal
    Masks <- MCMasksOne
    Scenes <- ChainScenes
    MaxAttach = 2
    MaxPosts = 3
    MaxReplies = 2
    MaxToggles = 1
    Ops = {"close", "cancel"}
    MaxCallers = 1
SYMMETRY ActorSymmetry
INVARIANTS
    BurstOwnsQueue
    NoLostWake
    OneDrainPass
    EndAfterLast
PROPERTY
    ReplyAfterPosts
CHECK_DEADLOCK FALSE
