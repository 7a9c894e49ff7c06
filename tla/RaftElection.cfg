SPECIFICATION Spec
CONSTANTS
    Server = {s1, s2, s3}
    Nil = Nil
    Command = {c1}
    PromptService = FALSE
    MaxTerm = 2
    MaxIndex = 1
    MaxRestarts = 1
    MaxInFlight = 1
CONSTRAINT EntriesInFirstTerm
SYMMETRY Symmetry
VIEW View
INVARIANTS
    TypeOK
    OneWinnerPerTerm
PROPERTIES
    VotesAreFinal
CHECK_DEADLOCK FALSE
