\* types.cpp:133 against a name that contains the key of another service.
SPECIFICATION Spec
CONSTANTS
    Tuples <- NameTuples
    Packets <- FlixPackets
    RuleSets <- OpenRules
    Hosts <- MCHosts
    NoHost = ""
    Apps <- AppType
    LowerCase <- MCLower
    AppOf <- MCAppOf
    MaxConnections = 1
    IdleLimit = 1
    CleanupInterval = 4
    MaxPackets = 4
    MaxTime = 3
INVARIANTS LongestKeyWins
