SPECIFICATION Spec
CONSTANTS
    Server = {s1, s2}
    Client = {c1, c2}
    Key = {k1}
    Method = {"Get", "Append"}
    Nil = Nil
    Partitions = FALSE
    MaxOps = 2
    MaxCalls = 3
    MaxRestarts = 1
CONSTRAINT CallsAndCrashes
SYMMETRY Symmetry
INVARIANTS
    TypeOK
    StoreIsReplay
    AppendsOnceInOrder
    AcknowledgedIsExecuted
    ReadsAreCurrent
CHECK_DEADLOCK FALSE
