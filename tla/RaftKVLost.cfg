SPECIFICATION Spec
CONSTANTS
    Server = {s1, s2}
    Client = {c1}
    Key = {k1}
    Method = {"Append"}
    Nil = Nil
    Partitions = TRUE
    MaxOps = 2
    MaxCalls = 3
    MaxRestarts = 0
SYMMETRY Symmetry
INVARIANTS
    AcknowledgedIsExecuted
CHECK_DEADLOCK FALSE
