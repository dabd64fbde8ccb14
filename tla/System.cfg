SPECIFICATION SysSpec
CONSTANTS
  v1 = v1
  v2 = v2
  n1 = n1
  n2 = n2
  oda = oda
  Volumes = {v1, v2}
  Nodes = {n1, n2}
  Devices = {oda}
  MaxFaults = 1
  Mortal = {n1}
  Ready = {"accessible"}
  NodesOutliveMachines = TRUE
  Char <- MCChar
  Dash = "-"
  Name <- MCName
  Handle <- MCHandle
  MaxName = 3
  Eligible <- MCEligible
INVARIANTS SysTypeOK MountedOnOneNode RightVolume DeletedUnused
PROPERTIES DeviceHeld
CHECK_DEADLOCK FALSE
