SPECIFICATION FairSpec
CONSTANTS
    Closers = {reset, shutdown}
    MaxTurns = 3
INVARIANTS
    SideSlotSafe
PROPERTIES
    CancellationsEnd
    CancelledNeverSucceeds
