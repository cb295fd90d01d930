SPECIFICATION Spec
CHECK_DEADLOCK FALSE
CONSTANTS
    Unset = Unset
    Blank = Blank
    Malformed = Malformed
    None = None
    Pieces <- MCPieces
    BuilderCalls <- MCBuilderCalls
    RequestCalls <- MCRequestCalls
    MaxCalls = 3
    Vias = {"send", "stream", "build_request", "build"}
    Schemes = {"http", "https"}
    Home = "home"
    Away = "away"
    Certificates <- MCCertificates
    Environments <- MCEnvironments
    MaxExchanges = 2
INVARIANTS
    TypeOK
    
    NothingForbiddenIsSent
    PinsAreEnforced
    
