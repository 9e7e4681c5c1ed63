SPECIFICATION Spec
CONSTANTS
  a1 = a1
  a2 = a2
  p = p
  Addresses = {a1, a2, p}
  Private = {p}
  MaxTime = 1
  MaxChanges = 1
  MaxFaults = 1
SYMMETRY AddressSymmetry
INVARIANTS
  TypeOK
  ReadyIsEarned
  SteadyWorldIsJudgedRight
