CONSTANTS
  Procs = {p1, p2, p3, p4}
  None = None
SPECIFICATION Spec
INVARIANTS
  TypeOK
  MutualExclusion
  NoLostWaiter
PROPERTY
  EveryWaiterServed
  FirstComeFirstServed
