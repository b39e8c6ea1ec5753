\* Five flows compete for a table of two entries; options of every kind.
SPECIFICATION RunSpec
CONSTANTS
    Tuples <- TwoTuples
    Packets <- TwoPackets
    Options <- TwoOptions
    RuleSets <- TwoRuleSets
    Hosts <- TwoHosts
    NoHost = ""
    Apps <- TwoApps
    LowerCase <- MCLower
    AppOf <- MCAppOf
    MaxConnections = 2
    IdleLimit = 0
    CleanupInterval = 3
    MaxPackets = 4
    MaxTime = 1
INVARIANTS
    TypeOK MatchingEntriesBlocked ForwardedIsAllowed AppFitsName CountersAgree
    EnginesAgree ReportAddsUp
PROPERTIES BlockedIsFinal LifecycleForward
