SPECIFICATION Spec
CHECK_DEADLOCK FALSE
CONSTANTS
    None = None
    Calls <- MCRetargeted
    Hosts <- MCHosts
    Patterns <- MCPatterns
    Literals <- MCLiterals
    Pages <- MCPages
    Addresses <- MCAddresses
    Answers <- MCAnswers
    Statuses <- MCStatuses
INVARIANT
    EveryConnectionIsVetted
