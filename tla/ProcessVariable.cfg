SPECIFICATION MCSpec
CONSTANTS
    u1 = u1
    u2 = u2
    m1 = m1
    m2 = m2
    g1 = g1
    g2 = g2
    x1 = x1
    x2 = x2
    x3 = x3
    Setters <- TwoSetters
    Monitors <- TwoMonitors
    Getters <- TwoGetters
    Writes <- ThreeWrites
    MAX_SIMUL_WRITE_IO = 1
    MaxSets = 3
INVARIANTS
    HeldGoFirst
    NoneStranded
    MonitorsServed
PROPERTIES
    WritesEnd
CHECK_DEADLOCK FALSE
