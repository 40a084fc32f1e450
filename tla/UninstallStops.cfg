SPECIFICATION Spec
CONSTANTS
  AutoPorts = {1}
  OtherPort = 3
  NoPort = NoPort
  Srvs = {s1, s2}
  Cmds = {c1, c2}
  Tabs = {}
  Nobody = Nobody
  Commands = {"start", "uninstall"}
  s1 = s1
  s2 = s2
  c1 = c1
  c2 = c2
INVARIANT UninstallContinues
CHECK_DEADLOCK FALSE
