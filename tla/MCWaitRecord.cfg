CONSTANTS
    b = b
    s1 = s1
    s2 = s2
    None = None
    Procs = {b, s1, s2}
    Boot = b
    Zombies = 128
    MaxPid = 3
SPECIFICATION Spec
CHECK_DEADLOCK FALSE
INVARIANTS
    RecordThere
