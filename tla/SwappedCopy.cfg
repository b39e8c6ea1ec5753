\* A capture of two records from a host of the other byte order.
SPECIFICATION CopySpec
CONSTANTS
    Frames <- MCFrames
    Requests <- NoRequests
    Captures <- SwappedCaptures
INVARIANTS OutputIsCapture
CHECK_DEADLOCK FALSE
