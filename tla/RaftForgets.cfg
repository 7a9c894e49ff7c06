SPECIFICATION PromptSnapshotSpec
CONSTANTS
    Server = {s1, s2, s3}
    Nil = Nil
    Command = {c1}
    PromptService = TRUE
    maxraftstates = {3}
    Overlap = TRUE
    PromptServer = TRUE
    MaxTerm = 2
    MaxIndex = 3
    MaxRestarts = 0
    MaxInFlight = 2
CONSTRAINT LateHeartbeats
SYMMETRY SnapshotSymmetry
VIEW SnapshotView
INVARIANTS
    StateMachineSafety
CHECK_DEADLOCK FALSE
