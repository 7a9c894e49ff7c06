SPECIFICATION PromptSnapshotSpec
CONSTANTS
    Server = {s1, s2, s3}
    Nil = Nil
    Command = {c1}
    PromptService = TRUE
    maxraftstates <- NeverOrTwo
    Overlap = FALSE
    PromptServer = TRUE
    MaxTerm = 2
    MaxIndex = 3
    MaxRestarts = 1
    MaxInFlight = 2
CONSTRAINT Scope
SYMMETRY SnapshotSymmetry
VIEW SnapshotView
INVARIANTS
    SnapshotTypeOK
    StateMachineSafety
    StoresAgree
    SnapshotReachesLog
    DeliveredOnMajority
    NoPanic
PROPERTIES
    CommittedIsFinal
CHECK_DEADLOCK FALSE
