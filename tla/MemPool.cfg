\* The pool with three buffers and one clone at a time.
SPECIFICATION Spec
CONSTANTS
    b1 = b1
    b2 = b2
    b3 = b3
    Memory <- ThreeBuffers
    Clones = {c1}
    FreeHead = FreeHead
    UseHead = UseHead
    Null = Null
    Poison = Poison
INVARIANTS
    TypeOK
    ListsIntact
    CloneTestIsRight
PROPERTY ImplementsStack
