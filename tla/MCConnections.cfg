\* The map of 4 rows and 2 columns, and the check in 3 chunks.
SPECIFICATION Spec
CONSTANTS
  N = 4
  Nk = 2
  HashSize = 64
  Element <- Elements42
  Chunks = 3
  NONE = NONE
  Problems <- TwoColumnProblems
INVARIANTS
  TypeOK
  MapComplete
  ErrorsExact
