SPECIFICATION Spec
CONSTANTS
  Readers = {q1, q2}
  MaxGenerations = 3
  None = None
SYMMETRY ReaderSymmetry
INVARIANTS
  TypeOK
  PrintedIsOneKey
  ReadyIsPublished
  PrintedIsFresh
  LeftoversAreCrashes
