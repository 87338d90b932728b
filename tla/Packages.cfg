SPECIFICATION PackageFairSpec
CONSTANTS
    MaxJobs = 2
    MaxChats = 5
    Scopes = {chat, group}
INVARIANTS
    NewsKept
PROPERTIES
    NoEcho
    CompletionReachesPal
CHECK_DEADLOCK FALSE
