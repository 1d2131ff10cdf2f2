\* What a plookup without selectors compares.
SPECIFICATION Spec
CONSTANTS
  N = 6
  Chunks = 4
  NONE = NONE
  Problems <- UnselectedProblems
INVARIANT
  UnselectedMeansColumns
