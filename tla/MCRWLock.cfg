CONSTANTS
  Users = {p1, p2, p3, p4}
SPECIFICATION RWSpec
INVARIANTS
  KWillBeReleased
PROPERTIES
  WritersExclude
  EveryoneGetsIn
