SPECIFICATION FairSpec
CONSTANTS
    Effects = {e1, e2}
    Slots = {1, 2}
    MaxAttempts = 2
    MaxCrashes = 1
    MaxStalls = 1
    MaxFaults = 1
    MaxDefers = 1
    MaxControls = 1
    MaxTroubles = 4
INVARIANTS
    RowsTellTheTruth
PROPERTIES
    RefinesContract
    EffectsSettle
CHECK_DEADLOCK FALSE
