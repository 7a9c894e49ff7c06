SPECIFICATION FairRepairSpec
CONSTANTS
    s1 = s1
    s2 = s2
    s3 = s3
    c1 = c1
    Server = {s1, s2, s3}
    Nil = Nil
    Command = {c1}
    PromptService = TRUE
    MaxTerm = 3
    MaxIndex = 3
    MaxRestarts = 0
    MaxInFlight = 1
INVARIANTS
    LogMatching
    StateMachineSafety
    NextIndexInLog
PROPERTIES
    StartedIsCommitted
CHECK_DEADLOCK FALSE
