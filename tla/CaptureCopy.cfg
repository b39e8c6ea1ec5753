\* Requests of every kind, whole, cut at every byte and with any one steering
\* byte changed; captures of two and three records in both byte orders, cut at
\* every byte or damaged; both engines.
SPECIFICATION CopySpec
CONSTANTS
    Frames <- MCFrames
    Requests <- MCRequests
    Captures <- MCCaptures
INVARIANTS
    InBounds OffsetsAgree WellFormedIsFound CutHelloHasNoName LabelsAreWhole
    ReadsWhatWasCaptured NativeOutputIsCapture
PROPERTIES InspectsFrames EveryStepAdvances CopyEnds
\* The program ends when the capture does.
CHECK_DEADLOCK FALSE
