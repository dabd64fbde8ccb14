SPECIFICATION Spec
CONSTANTS
  Volumes = {v1, v2}
  Nodes = {n1, n2}
  Devices = {oda, odb}
  MaxFaults = 2
  NodesOutliveMachines = TRUE
SYMMETRY Symmetry
INVARIANTS TypeOK SingleAttach PublishContextHolds DistinctDevices NoDanglingAttachment
PROPERTIES DetachOnlyRequested ImplementsLease
CHECK_DEADLOCK FALSE
