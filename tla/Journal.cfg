SPECIFICATION Spec
CONSTANTS
    Item = {a, act}
    Active = act
    Specs = {1, 2}
    Legacy = {1}
    MaxSeq = 3
    MaxFaults = 1
    MaxLosses = 2
    MaxRots = 1
INVARIANTS
    Recoverable
PROPERTIES
    RefinesDialogue
    RefusedKeepsFiles
CHECK_DEADLOCK FALSE
