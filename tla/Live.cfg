SPECIFICATION MCSpec
CONSTANTS
  Archived = {a1}
  Restores = {1, 2}
  Resolves = {3}
  IrantiValue = IrantiValue
  Void = Void
  PoolSize = 2
  MaxWrites = 1
  MaxFaults = 1
  a1 = a1
INVARIANT TypeOK
PROPERTIES
  EventuallyMirrored
  OperatorIsAnswered
  FactStaysInForce
  DecisionIsInForce
CHECK_DEADLOCK FALSE
