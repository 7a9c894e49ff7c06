SPECIFICATION Spec
CONSTANTS
    k1 = k1
    k2 = k2
    k3 = k3
    k4 = k4
    d1 = d1
    d2 = d2
    d3 = d3
    b1 = b1
    b2 = b2
    Key = {k1, k2, k3, k4}
    Data = {d1, d2, d3}
    Blank = Blank
    Nil = Nil
    Bucket = {b1, b2}
    Separated = {k4}
    hash <- hashes
    keylen <- keylens
    datlen <- datlens
    PTR_MAX = 2
    UnlinkAtomic = TRUE
    MaxCrashes = 1
SYMMETRY Symmetry
CONSTRAINT Scope
INVARIANTS
    TypeOK
    FindEnds
PROPERTIES
    ImplementsMap
CHECK_DEADLOCK FALSE
