SPECIFICATION Spec
CONSTANTS
    Nodes = {"a", "b"}
    Sink = "b"
    ProducerDeps <- MCSinkDeps
    CheckerDeps <- MCSinkDeps
    MaxCommands = 2
    MaxResolves = 0
    MaxFaults = 1
    MaxRejections = 0
    MaxCrashes = 1
INVARIANTS
    EndedIsOver
    PausedRunsNothing
    CandidateKept
CHECK_DEADLOCK FALSE
