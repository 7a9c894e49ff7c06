SPECIFICATION FairSpec
CONSTANTS
    Server = {s1, s2}
    Client = {c1}
    Key = {k1}
    Method = {"Append"}
    Nil = Nil
    Partitions = FALSE
    MaxOps = 1
    MaxCalls = 1
    MaxRestarts = 0
PROPERTIES
    CallsReturn
CHECK_DEADLOCK FALSE
