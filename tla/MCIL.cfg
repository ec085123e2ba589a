SPECIFICATION Spec
CONSTANTS
    Starts <- MCStarts
    Window = 2
    Messages <- MCMessages
    Most = 3
    Room = 2

CHECK_DEADLOCK FALSE
INVARIANTS
    TypeOK
    PrefixDelivered
    Agreement
    NothingLost
PROPERTIES
    OnlyOtherEndCloses
