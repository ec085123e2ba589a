CONSTANTS
  p1 = p1
  p2 = p2
  p3 = p3
  r1 = r1
  r2 = r2
  None = None
  Procs = {p1, p2, p3}
  Machs = {m1}
  Rends = {r1, r2}
  Sleeper <- TwoDevices
  Alive = {p1, p2}
  Posters = {p2, p3}
  Mortals = {p2}
SPECIFICATION Spec
INVARIANTS
  WakeupState
  QueueExact
  NoLostWakeup
