SPECIFICATION PromptSpec
CONSTANTS
    Server = {s1, s2, s3}
    Nil = Nil
    Command = {c1}
    PromptService = TRUE
    MaxTerm = 4
    MaxIndex = 1
    MaxRestarts = 1
    MaxInFlight = 1
VIEW PromptView
SYMMETRY Symmetry
INVARIANTS
    OneLeaderPerTerm
    StateMachineSafety
    LeaderCompleteness
CHECK_DEADLOCK FALSE
