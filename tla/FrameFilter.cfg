\* The filter on every kind of frame.
SPECIFICATION Spec
CONSTANTS
    Frames <- MCFrames
    TargetIp = 1
    TargetPort = 1521
    NoEndpoint = NoEndpoint
INVARIANTS
    TypeOK
    PayloadExact
    TargetIsSecond
