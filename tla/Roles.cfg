SPECIFICATION FairSpec
CONSTANTS
    AttemptLimit = 3
    MaxExits = 2
    MaxFaults = 3
    MaxStalls = 1
INVARIANTS
    RowsAgree
PROPERTIES
    RecoveryIsSafe
    RefinesRoleContract
    AssignmentsEnd
CHECK_DEADLOCK FALSE
