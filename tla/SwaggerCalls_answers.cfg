SPECIFICATION FairSpec
CONSTANTS
    MaxSubmissions = 2
    MaxPages       = 2
    MaxRedirects   = 1
    Operations <- ThreeOperations
    Clients    <- EveryClient
    Keys       <- OneKey
    QueryKeys  <- OneKey
    Codes      <- TwoCodes
    Length     = 2
INVARIANTS ThrobberTells ShownTogether RequestAsFilled
PROPERTIES CallsSettle PromiseSpec
