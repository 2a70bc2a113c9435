SPECIFICATION MCSpec
CONSTANTS
    NumSeq = 2
    MaxSaves = 3
    MaxSeqs = 4
    MaxCrashes = 2
    MaxLosses = 2
    MaxDamage = 1
    MaxErrors = 2
INVARIANTS
    BootFindsNewest
PROPERTIES
    NewestSlotKept
CHECK_DEADLOCK FALSE
