CONSTANTS
    c1 = c1
    c2 = c2
    i1 = i1
    i2 = i2
    s1 = s1
    s2 = s2
    a = a
    b = b
    Chunks = {c1, c2}
    MaxChunks = 3
    Ivs = {i1, i2}
    Aads = {a, b}
    Srcs = {s1, s2}
    Partial = {s2}
    MaxPieces = 2
    None = None

SPECIFICATION Spec
SYMMETRY Symmetry

INVARIANTS
    TypeOK
    DigestOfWrites
    RoundTrip
