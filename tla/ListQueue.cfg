\* The list queue with three consumers and room for three nodes.
SPECIFICATION FairSpec
CONSTANTS
    Nodes = {n1, n2, n3}
    Packets = {p1, p2}
    Consumers = {c1, c2, c3}
    Null = Null
INVARIANTS
    TypeOK
    ListIntact
    SignalsCover
    AbortReachesOne
PROPERTY ImplementsQueue
