SPECIFICATION Spec
CONSTANTS
    NoLease = NoLease
    Turns = {m1, m2, p1, b1}
    Messages = {m1, m2}
    Background = {b1}
    Injectable = {m1, m2}
    Controls = {"interrupt", "reset", "shutdown"}
    MaxArrivals = 1
    MaxControls = 1
    MaxRounds = 1
    MaxDreams = 0
    MaxTriggers = 1
INVARIANTS
    SoleResident
    NothingLeftOpen
PROPERTIES
    ShutdownFinal
    RefinesLedger
SYMMETRY Symmetry
