SPECIFICATION PlanSpec
CONSTANTS
    GroupBits = 2
    HostOf <- MCHostOf
    CidrOf <- MCCidrOf
    ConfigFiles <- MCConfigFiles
    RuleSetFiles <- MCRuleSetFiles
    Requests <- MCRequests
    CurrentFiles <- MCCurrentFiles
INVARIANTS
    LoadedIsBuildable
    ReparseStable
    ItemsKept
    RoutesAsWritten
    DiffAccountsForAll
    
