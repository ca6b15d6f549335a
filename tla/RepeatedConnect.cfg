\* A CONNECT that is seen again after the ACCEPT.
SPECIFICATION Spec
CONSTANTS
    MAX_SESS_NODE = 2
    NoEndpoint = NoEndpoint
    Server = Server
    Clients = {c1, c2}
SYMMETRY ClientSymmetry
INVARIANT NegotiatedVersionStays
