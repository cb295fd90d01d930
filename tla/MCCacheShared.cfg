SPECIFICATION Spec
CONSTANTS
    NoKey = NoKey
    k1 = k1
    k2 = k2
    k3 = k3
    Keys <- MCFewKeys
    SameUrl <- MCFewKeys
    MaxSize = 1
    DefaultTtl = 300
    UseControl = TRUE
    Controls <- MCControls
    Readers = {g}
    Writers = {p, q}
    Invalidators = {x}
SYMMETRY MCSymmetry
INVARIANTS
    TypeOK
    NeverWaitsForItself
    InvalidationIsComplete
    SizeBoundedAlone
PROPERTIES
    FreshLeavesForAReason
