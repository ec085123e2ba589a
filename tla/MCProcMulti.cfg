CONSTANTS
  p1 = p1
  p2 = p2
  p3 = p3
  r1 = r1
  r2 = r2
  None = None
  Procs = {p1, p2, p3}
  Machs = {m1, m2}
  Rends = {r1}
  Sleeper <- OneSleeper
  Alive = {p1, p2}
  Posters = {}
  Mortals = {}
SPECIFICATION Spec
INVARIANTS
  OneProcessor
  NobodyForgotten
PROPERTIES
  SleepReturns
