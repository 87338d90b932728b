SPECIFICATION FairSpec
CONSTANTS
    NoLease = NoLease
    Turns = {m1, b1}
    Messages = {m1}
    Background = {b1}
    Injectable = {m1}
    Controls = {"interrupt", "reset", "compact"}
    MaxArrivals = 2
    MaxControls = 1
    MaxRounds = 1
    MaxDreams = 1
    MaxTriggers = 1
INVARIANTS
    OneWriter
    InterruptAimed
    NoLostWakeup
PROPERTIES
    ServesEveryone
    EverythingEnds
CHECK_DEADLOCK FALSE
