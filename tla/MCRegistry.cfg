CONSTANTS
    Gens <- MCGens
    Ids <- MCIds
    Tags <- MCTags
    IdOf <- MCIdOf
    TagsOf <- MCTagsOf
    g0 = g0
    g1 = g1
    g2 = g2
    g3 = g3
    a = a
    b = b
    InitialGen = g0
    NoGen = NoGen
    MaxRefs = 2
    YieldsDuringSwap = FALSE
SPECIFICATION FairSpec
INVARIANTS
    TypeOK
    ReferencesSound
    GenerationsSound
    ReloadAccountsForAll

    
CHECK_DEADLOCK FALSE
