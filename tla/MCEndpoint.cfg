CONSTANTS
    Addrs <- MCAddrs
    Opts <- MCOpts
SPECIFICATION EndpointFairSpec
INVARIANTS
    EndpointSettles
    ReplaceKeepsServing
PROPERTIES
    ReloadEnds
CHECK_DEADLOCK FALSE
