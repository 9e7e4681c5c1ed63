SPECIFICATION Spec
CONSTANTS
  k1 = k1
  k2 = k2
  k3 = k3
  None = None
  Keys = {k1, k2, k3}
  Resources = {"webhooks", "surface_webhooks", "charges"}
  Times = {0, 1, 2}
  Start = 1
  End = 2
  DefaultSize = 2
  MaxPageSize = 2
  MaxInt32 = 3
  MaxChanges = 1
  MaxFaults = 2
SYMMETRY KeySymmetry
INVARIANTS
  TypeOK
  ProvedWalkIsComplete
PROPERTIES
  EvidenceIsTrue
  RightPageIsProved
