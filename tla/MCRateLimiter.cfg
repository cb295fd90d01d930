SPECIFICATION FairStartsSpec
CONSTANTS
    a = a
    b = b
    c = c
    d = d
    e = e
    Nobody = Nobody
    Tasks <- MCTasks
    Permits = 3
    Spaced <- MCSpaced
    Interval <- MCInterval
    Longest = 2
INVARIANTS
    LimiterInv
PROPERTIES
    StartsAreSpaced
    NoOvertaking
    IsPermitPool
    NoStarvation
