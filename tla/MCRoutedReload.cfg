CONSTANTS
    t1 = t1
    t2 = t2
    c1 = c1
    c2 = c2
    Tags <- MCTags
    PolicyTag = "P"
    Conns <- MCConns
    MaxGen = 2
SYMMETRY Symmetry
SPECIFICATION Spec
INVARIANTS
    PublishedSound
    DrainingInUse
CHECK_DEADLOCK FALSE
