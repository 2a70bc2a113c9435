SPECIFICATION MCFairSpec
CONSTANTS
    EVENT_ENTRIES = 2
    EVENTS_PER_QUE = 2
    Slots = {s1, s2}
    NoEntry = NoEntry
    NoSub = NoSub
    Classes <- MCClasses
    Producers = {p1}
    Forms <- MCFormsVal
    Masks <- MCMasksOne
    Scenes <- LiveScenes
    MaxAttach = 2
    MaxPosts = 3
    MaxReplies = 2
    MaxToggles = 1
    Ops = {"close", "exit"}
    MaxCallers = 1
PROPERTIES
    ValueDelivered
    RepliesReleased
    EndReported
CHECK_DEADLOCK FALSE
