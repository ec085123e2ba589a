CONSTANTS
    p1 = p1
    p2 = p2
    p3 = p3
    m1 = m1
    None = None
    Procs = {p1, p2, p3}
    Mounts = {m1}
    Mortal = {m1}
    Notes = 1
    Tagfls = 10
    Tagend = 11
SPECIFICATION FewSpec
ACTION_CONSTRAINT Few
PROPERTIES
    CallsReturn
    NotedCallsReturn
