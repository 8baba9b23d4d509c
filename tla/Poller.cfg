SPECIFICATION FairSpec
CONSTANTS
    r1 = r1
    r2 = r2
    Rwas = {r1}
    None = none
    Patches <- FinalizePatches
    PageLimit = 2
    InitialLookback = 1
    Retention = 1
    MaxLedger = 4
    MaxEvents = 3
    MaxFaults = 1
INVARIANTS
    TypeOK
    CursorCoversRows
    NeverStoredTwice
    PromotedUnlessInterrupted
PROPERTY
    EveryEventLands
CHECK_DEADLOCK FALSE
