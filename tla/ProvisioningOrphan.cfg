SPECIFICATION Spec
CONSTANTS
  pa = pa
  pb = pb
  pz = pz
  n1 = n1
  n2 = n2
  n3 = n3
  n4 = n4
  GiB = 4
  MaxInt64 = 63
  Nodes = {n1, n2, n3, n4}
  Labels <- MCLabels
  Pools = {pa, pb, pz}
  ExistingPools = {pa, pb}
  Requests <- MCRequests
  WaitSteps = 5
  MaxFaults = 0
INVARIANTS NoOrphan
CHECK_DEADLOCK FALSE
