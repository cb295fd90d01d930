SPECIFICATION Spec
CHECK_DEADLOCK FALSE
CONSTANTS
    Unset = Unset
    Blank = Blank
    Malformed = Malformed
    None = None
    Pieces <- MCPieces
    BuilderCalls <- MCBuilderCalls
    RequestCalls <- MCRequestCalls
    MaxCalls = 1
    Vias = {"send"}
    Schemes = {"https"}
    Home = "home"
    Away = "away"
    Certificates <- MCCertificates
    Environments <- MCEnvironments
    MaxExchanges = 1
INVARIANT
    ExplicitServesEveryRequest
