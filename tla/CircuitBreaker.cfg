SPECIFICATION FairSpec
CONSTANTS
    a1 = a1
    a2 = a2
    c1 = c1
    c2 = c2
    c3 = c3
    Servers <- TwoServers
    Channels <- ThreeChannels
    Hosts <- TwoOnOne
    Window = 2
    FailureThreshold = 2
    InitialCooldown = 3
    MaxCooldown = 10
    ProbeTimeout = 3
    PenaltyDuration = 1
    MaxBreakers = 1
INVARIANTS
    OneProbe
PROPERTIES
    NotGivenUp
