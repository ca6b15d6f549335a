\* Which session makes room for a new one.
SPECIFICATION Spec
CONSTANTS
    MAX_SESS_NODE = 2
    NoEndpoint = NoEndpoint
    Server = Server
    Clients = {c1, c2}
SYMMETRY ClientSymmetry
PROPERTY EmptySlotFirst
