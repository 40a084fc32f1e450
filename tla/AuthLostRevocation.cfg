SPECIFICATION Spec
CONSTANTS
  KeyIds = {k1, k2}
  Requests = {r1, r2}
  CliSecret = cli
  NoSecret = NoSecret
  Serialised = FALSE
  MaxFaults = 0
  k1 = k1
  k2 = k2
  cli = cli
  r1 = r1
  r2 = r2
PROPERTY RevokedStaysRevoked
CHECK_DEADLOCK FALSE
