CONSTANTS
    N = 3
    Slow <- MCSlow
SPECIFICATION FairSpec
INVARIANTS
    TypeOK
    AtomicSwitch
    ResourcesReleased
PROPERTIES
    NoSwitchAfterRelease
    FollowsTransitionTable
    ExecuteReturns
