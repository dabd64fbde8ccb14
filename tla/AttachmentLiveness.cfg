SPECIFICATION FairSpec
CONSTANTS
  Volumes = {v1}
  Nodes = {n1, n2}
  Devices = {oda}
  MaxFaults = 2
  NodesOutliveMachines = TRUE
PROPERTIES DetachCompletes AttachCompletes
CHECK_DEADLOCK FALSE
