\* types.h:189 against a blocked flow that goes on sending.
SPECIFICATION HSpec
CONSTANTS
    Tuples <- NameTuples
    Packets <- NamePackets
    RuleSets <- NameRules
    Hosts <- MCHosts
    NoHost = ""
    Apps <- AppType
    LowerCase <- MCLower
    AppOf <- MCAppOf
    MaxConnections = 1
    IdleLimit = 1
    CleanupInterval = 4
    MaxPackets = 4
    MaxTime = 3
PROPERTIES OnceBlockedAlwaysBlocked
