SPECIFICATION Spec
CONSTANTS
  Instances = {i1}
  Cycles = {c1}
  Limit = 2
  MaxEvents = 4
  Steps = {1}
  MaxFaults = 1
  i1 = i1
  c1 = c1
SYMMETRY CyclesAreAlike
INVARIANT NoEventsSkipped
CHECK_DEADLOCK FALSE
