\* Two LBs with two FPs each, one flow of each hash value.
SPECIFICATION FairSpec
CONSTANTS
    NumLBs = 2
    FPsPerLB = 2
    Flows = {0, 1, 2, 3}
    Hash <- HashByValue
    Junk = Junk
    Captures <- SpreadCaptures
    LBCap = 1
    FPCap = 1
    OutCap = 1
INVARIANTS NoIdleFP
