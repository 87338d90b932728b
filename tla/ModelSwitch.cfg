SPECIFICATION Spec
CONSTANTS
    NoTicket = NoTicket
    MaxClaims = 2
    Scopes = {s1}
    Endpoints = {e1, e2}
    Handlers = {h1, h2}
    MaxRequests = 2
    MaxChanges = 1
INVARIANTS
    DraftsHonoured
PROPERTIES
    UsesGate
    SwitchSeesWhatUserSaw
SYMMETRY Symmetry
CHECK_DEADLOCK FALSE
