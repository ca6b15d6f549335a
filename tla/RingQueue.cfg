\* The ring queue with three places.
SPECIFICATION FairSpec
CONSTANTS
    MaxSize = 3
    Packets = {p1, p2}
    Null = Null
INVARIANTS
    TypeOK
    PlacesApart
    NobodyOversleeps
PROPERTIES
    ProducerResumes
    ImplementsFifo
