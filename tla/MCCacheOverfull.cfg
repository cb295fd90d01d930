SPECIFICATION Spec
CONSTANTS
    NoKey = NoKey
    k1 = k1
    k2 = k2
    k3 = k3
    Keys <- MCKeys
    SameUrl <- MCSameUrl
    MaxSize = 2
    DefaultTtl = 300
    UseControl = TRUE
    Controls <- MCControls
    Readers = {}
    Writers = {p, q}
    Invalidators = {}
INVARIANTS
    SizeBounded
