SPECIFICATION ImpatientSpec
CONSTANTS
    NoTicket = NoTicket
    MaxClaims = 3
INVARIANTS
    GateSound
PROPERTIES
    SuccessorSafe
    InstallsAreCurrent
    GateNeverPinned
CHECK_DEADLOCK FALSE
