SPECIFICATION Spec
CONSTANTS
    Server = {s1, s2, s3}
    Nil = Nil
    Command = {c1}
    PromptService = FALSE
    MaxTerm = 2
    MaxIndex = 0
    MaxRestarts = 0
    MaxInFlight = 2
SYMMETRY Symmetry
VIEW View
INVARIANTS
    OneLeaderPerTerm
CHECK_DEADLOCK FALSE
