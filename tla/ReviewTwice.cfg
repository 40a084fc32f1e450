SPECIFICATION Spec
CONSTANTS
  Archived = {a1}
  Restores = {}
  Resolves = {e1, e2}
  IrantiValue = IrantiValue
  Void = Void
  PoolSize = 2
  MaxWrites = 0
  MaxFaults = 0
  a1 = a1
  e1 = e1
  e2 = e2
INVARIANT SecondResolutionFails
