SPECIFICATION MCSpec
CONSTANTS
    s1 = s1
    s2 = s2
    p1 = p1
    p2 = p2
    Subs <- TwoSubs
    Records <- OneRecord
    Credits = 1
    MayFail = TRUE
    Replies = 1
    Posts = 2
    Producers <- TwoProducers
    Capacity = 2
    Watermark = 1
    MaxPosts = 3
INVARIANTS
    OutboxSound
    GateSound
PROPERTIES
    OutboxServes
CHECK_DEADLOCK FALSE
