\* The pool's wait may return without a signal, as POSIX allows.
SPECIFICATION Spec
CONSTANTS
    Buffers = {b1, b2}
    PoolHead = PoolHead
    Null = Null
    Lens = {0, 1}
    MaxFrames = 3
    MaxFailures = 0
    SpuriousWakeups = {"pool", "queue"}
SYMMETRY BufferSymmetry
INVARIANT ListDelGetsAnElement
