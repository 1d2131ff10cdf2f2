\* Verdicts, errors and progress of plookups and permutations.
SPECIFICATION Spec
CONSTANTS
  N = 6
  Chunks = 4
  NONE = NONE
  Problems <- SelectedProblems
INVARIANTS
  VerdictExact
  FirstFailure
  ErrorsCount
  ProgressComplete
  CyclicExact
