CONSTANTS
    x = x
    y = y
    k = k
    c = c
    d = d
    s = s
    w = w
    p = p
    None = None
    Ctxs = {x, y}
    Conns = {k}
    Certs = {c, d}
    Stores = {s}
    Wraps = {w}
    Peer <- MCPeer
    MaxMade = 5

SPECIFICATION Spec
SYMMETRY Symmetry
CHECK_DEADLOCK FALSE

INVARIANTS
    TypeOK
    Balance
    NoDangling
    CallbackContext
    NoStuckGarbage
