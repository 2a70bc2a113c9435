SPECIFICATION MCSpec
CONSTANTS
    EVENT_ENTRIES = 2
    EVENTS_PER_QUE = 3
    Slots = {t1, t2, t3}
    NoEntry = NoEntry
    NoSub = NoSub
    Classes = {c1}
    Producers = {p1, p2}
    MaxAttach = 2
    MaxPosts = 3
    MaxToggles = 1
    Parts = {"readers", "freed", "listed", "two", "one"}
    w1 = w1
    w2 = w2
    r1 = r1
    r2 = r2
    s1 = s1
    s2 = s2
    Writers = {w1, w2}
    Readers = {r1, r2}
    Subs = {1, 2, 3}
    Fields = {1, 2}
    RING = 1
    Cap = 2
    Subscriptions = {s1, s2}
    Replies = {y1}
    Limit = 1
    Pipelined = {}
    Kinds = {"data", "finish", "bad"}
    MaxFrames = 3
SYMMETRY Interchangeable
INVARIANTS
    ReadersSound
    MapsSound
    ListCoherent
    WireOrder
    FramesKept
    PathSettled
CHECK_DEADLOCK FALSE
