SPECIFICATION MCSpec
CONSTANTS
    EVENT_ENTRIES = 2
    EVENTS_PER_QUE = 3
    Slots = {s1, s2, s3}
    NoEntry = NoEntry
    NoSub = NoSub
    Classes <- MCClasses
    Producers = {p1}
    Forms <- MCFormsAll
    Masks <- MCMasksBoth
    Scenes <- RingScenes
    MaxAttach = 2
    MaxPosts = 5
    MaxReplies = 0
    MaxToggles = 1
    Ops = {"close", "cancel"}
    MaxCallers = 1
SYMMETRY ActorSymmetry
INVARIANTS
    TypeOK
    RingSound
    SlotsSound
    MonitorInOrder
    ClassesNotLost
PROPERTY
    GateHolds
CHECK_DEADLOCK FALSE
