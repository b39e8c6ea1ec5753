\* One load balancer that spreads two flows over two fast path threads, which
\* compete for one output slot; six packets of one flow fill every queue.
SPECIFICATION FairSpec
CONSTANTS
    NumLBs = 1
    FPsPerLB = 2
    Flows = {0, 1}
    Hash <- HashByValue
    Junk = Junk
    Captures <- OrderCaptures
    LBCap = 1
    FPCap = 1
    OutCap = 1
PROPERTIES ImplementsPacketFilter Termination
