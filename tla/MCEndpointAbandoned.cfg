CONSTANTS
    Addrs <- MCAddrs
    Opts <- MCOpts
SPECIFICATION EndpointSpec
INVARIANTS
    OldEndpointRestored
CHECK_DEADLOCK FALSE
