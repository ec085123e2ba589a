SPECIFICATION Spec
CONSTANTS
    p1 = p1
    p2 = p2
    t = t
    d = d
    e = e
    z = z
    b = b
    h = h
    text = text
    data = data
    zero = zero
    None = None
    Procs = {p1, p2}
    Segs = {t, d, e, z}
    Users <- MCUsers
    Kind <- MCKind
    Block <- MCBlock
    Child <- MCChild
    Pages = {q1, q2}
    Swaps = {x1}
    Highwater = 1
    Headroom = 2
    Word = 8

CONSTRAINT Intact
SYMMETRY Perms
CHECK_DEADLOCK FALSE
INVARIANTS
    TypeOK
    DataIsRight
    CacheIsRight
    RefExact
