SPECIFICATION FairSpec
CHECK_DEADLOCK FALSE
CONSTANTS
    None = None
    Calls <- MCCalls
    Hosts <- MCHosts
    Patterns <- MCPatterns
    Literals <- MCLiterals
    Pages <- MCPages
    Addresses <- MCAddresses
    Answers <- MCAnswers
    Statuses <- MCStatuses
INVARIANTS
    TypeOK
    DialedWereVetted
    TargetStaysInScope
    EveryAddressIsTried
PROPERTIES
    CallEnds
