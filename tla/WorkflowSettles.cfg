SPECIFICATION FairSpec
CONSTANTS
    Nodes = {"b"}
    Sink = "b"
    ProducerDeps <- MCSinkDeps
    CheckerDeps <- MCSinkDeps
    MaxCommands = 1
    MaxResolves = 1
    MaxFaults = 1
    MaxRejections = 1
    MaxCrashes = 1
INVARIANTS
    RunningOwnsSlot
PROPERTIES
    ControlSettles
CHECK_DEADLOCK FALSE
