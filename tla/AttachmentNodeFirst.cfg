SPECIFICATION Spec
CONSTANTS
  Volumes = {v1}
  Nodes = {n1, n2}
  Devices = {oda}
  MaxFaults = 0
  NodesOutliveMachines = FALSE
INVARIANTS SingleAttach
CHECK_DEADLOCK FALSE
