SPECIFICATION FairSpec
CHECK_DEADLOCK FALSE
CONSTANTS
    None = None
    Configurations <- MCConfigurations
    Locations <- MCLocations
    Statuses <- MCStatuses
    Addresses <- MCAddresses
    Hosts <- MCHosts
    Patterns <- MCPatterns
    Literals <- MCLiterals
    Pages <- MCPages
INVARIANTS
    TypeOK
    EveryConnectIsPinned
    PinIsStable
    ChainNeverDowngrades
    CredentialsStayHome
    ChainIsAcceptable
    WaitsFollowTheSchedule
PROPERTIES
    WalkEnds
    IsExchange
