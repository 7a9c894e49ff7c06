SPECIFICATION FairSpec
CONSTANTS
    Server = {s1, s2}
    Nil = Nil
    Command = {c1}
    PromptService = FALSE
    MaxTerm = 2
    MaxIndex = 0
    MaxRestarts = 0
    MaxInFlight = 2
PROPERTIES
    LockIsReleased
CHECK_DEADLOCK FALSE
