SPECIFICATION FairSpec
CHECK_DEADLOCK FALSE
CONSTANTS
    r1 = r1
    r2 = r2
    r3 = r3
    s1 = s1
    u = u
    v = v
    U = U
    Nobody = Nobody
    Tasks = {r1, r2, r3}
    Signals = {s1}
    Spellings <- MCSpellings
    Canonical <- MCCanonical
    Config <- MCConfig
    Replies <- MCReplies
    Permits = 1
    Spaced <- MCSpaced
    Interval <- MCInterval
    Longest = 1
INVARIANTS
    TypeOK
    PermitForTheWholeLifecycle
    CacheSound
    DeliveredIsClean
    CancelledLeavesNoTrace
    RetriesAreSpent
PROPERTIES
    UsesLimiterAsSpecified
    EverySendReturns
    AbortedNeverConnects
