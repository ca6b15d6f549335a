\* The two threads, the pool and the queue: safety, liveness, and the refinement
\* of the bounded pipe.  Three buffers and four frames: some buffer is used again.
SPECIFICATION FairSpec
CONSTANTS
    Buffers = {b1, b2, b3}
    PoolHead = PoolHead
    Null = Null
    Lens = {0, 1}
    MaxFrames = 4
    MaxFailures = 2
    SpuriousWakeups = {"queue"}
INVARIANTS
    TypeOK
    OneOwner
    ListDelGetsAnElement
    NoLostWakeup
    NoMutualWait
    NoNullPacket
    ParsedInOrder
PROPERTIES
    HandedOverIsFrozen
    CaptureResumes
    BuffersComeBack
    ImplementsPipe
