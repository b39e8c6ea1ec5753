\* Rules that change, are cleared, saved, loaded and lost, with and without a
\* thread that reads them
SPECIFICATION RunSpec
CONSTANTS
    f1 = f1
    Checkers = {f1}
    IPs <- MCIPs
    Ports <- MCPorts
    Apps <- MCApps
    AppName <- AppTypeToString
    Names <- MCNames
    Wilds <- MCWilds
    Lower <- MCLower
    Queries <- MCQueries
    NoFile = NoFile
    MaxRules = 2
INVARIANTS
    TypeOK
    VerdictExplained
PROPERTIES
    RestoredAsSaved
