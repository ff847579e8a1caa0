SPECIFICATION Spec
CONSTANTS
    Versions = {1, 2, 3}
    Config <- MCConfig
    EditPath <- MCEditPath
    MainPath = "main"
    Reloads = {1, 2}
    MaxFaults = 1
    Off = Off
INVARIANTS
    QuietAgreement
    
    RestFollowsDisk

    
CHECK_DEADLOCK FALSE
