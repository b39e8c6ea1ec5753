\* types.h:156 against a handshake whose SYN-ACK travels in the other direction.
SPECIFICATION HSpec
CONSTANTS
    Tuples <- ShakeTuples
    Packets <- ShakePackets
    RuleSets <- OpenRules
    Hosts <- MCHosts
    NoHost = ""
    Apps <- AppType
    LowerCase <- MCLower
    AppOf <- MCAppOf
    MaxConnections = 2
    IdleLimit = 1
    CleanupInterval = 4
    MaxPackets = 4
    MaxTime = 1
INVARIANTS HandshakeEstablishes
