\* The parser with two clients, lost and repeated packets.
SPECIFICATION Spec
CONSTANTS
    MAX_SESS_NODE = 2
    NoEndpoint = NoEndpoint
    Server = Server
    Clients = {c1, c2}
SYMMETRY ClientSymmetry
INVARIANTS
    TypeOK
    DecodedAsNegotiated
    OpenIsTracked
    ReportNamesSender
PROPERTIES
    ImplementsSessions
