\* What tns_connect_handle looks up in the parsed descriptor.
SPECIFICATION Spec
CONSTANTS
    MAX_SESS_NODE = 2
    NoEndpoint = NoEndpoint
    Server = Server
    Clients = {c1, c2}
SYMMETRY ClientSymmetry
INVARIANT ItemsOfObjects
