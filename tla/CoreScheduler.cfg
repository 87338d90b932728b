SPECIFICATION Spec
CONSTANTS
    Turns = {t1, t2}
    NoLease = NoLease
    Barriers = {b1, b2}
    MaxGeneration = 3
INVARIANTS
    SchedulerSound
PROPERTIES
    OnlyTeardownReleases
    RefinesSlot
SYMMETRY Symmetry
