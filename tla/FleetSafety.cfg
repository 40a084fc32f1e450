SPECIFICATION Spec
CONSTANTS
  Instances = {i1}
  Cycles = {c1, c2}
  Limit = 3
  MaxEvents = 4
  Steps = {0, 1}
  MaxFaults = 1
  i1 = i1
  c1 = c1
  c2 = c2
SYMMETRY CyclesAreAlike
INVARIANTS TypeOK QuietDrainIsComplete TotalNeverOvercounts WatermarkIsIngested OneBatchIsComplete
CHECK_DEADLOCK FALSE
