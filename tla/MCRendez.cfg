CONSTANTS
    p1 = p1
    p2 = p2
    p3 = p3
    t1 = t1
    t2 = t2
    k1 = k1
    Intr = Intr
    None = None
    Procs = {p1, p2, p3}
    Tags = {t1, t2}
    Posters = {k1}
    Notes = 2
SPECIFICATION Spec
INVARIANTS
    ListExact
PROPERTIES
    ValuesExchanged
SYMMETRY Perms
