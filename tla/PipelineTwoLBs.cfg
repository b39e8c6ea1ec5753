\* Two load balancers with one fast path thread each.
SPECIFICATION Spec
CONSTANTS
    NumLBs = 2
    FPsPerLB = 1
    Flows = {0, 1}
    Hash <- HashByValue
    Junk = Junk
    Captures <- TwoFlowCaptures
    LBCap = 1
    FPCap = 1
    OutCap = 1
INVARIANTS TypeOK Conservation NoPushIntoShutQueue LossOnlyByTimeout ReportConsistent
