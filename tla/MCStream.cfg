SPECIFICATION FairSpec
CONSTANTS
    w1 = w1
    w2 = w2
    r = r
    h = h
    None = None
    Writers = {w1, w2}
    Readers = {r}
    Hangers = {h}
    Streamhi = 2
    Streambhi = 4
    WriteSizes = {1, 3}
    ReadSizes = {3}
    Messages = 1
    Interrupts = 1
    Hangups = 1

CHECK_DEADLOCK FALSE
INVARIANTS
    TypeOK
    ReaderWoken
PROPERTIES
    InOrder
    ReadReturns
