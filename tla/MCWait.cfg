CONSTANTS
    b = b
    s1 = s1
    s2 = s2
    None = None
    Procs = {b, s1, s2}
    Boot = b
    Zombies = 2
    MaxPid = 5
SPECIFICATION FairSpec
CHECK_DEADLOCK FALSE
INVARIANTS
    RecordsMine
    ChildrenCounted
PROPERTIES
    WaitReturns
