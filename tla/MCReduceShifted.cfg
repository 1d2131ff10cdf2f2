CONSTANTS
  Count = 3
  N = 2
  Values = {0, 1}
  Programs <- MCShiftedPrograms
  Column <- MCColumn
  Scalar <- MCScalar
SPECIFICATION Spec
INVARIANT OperandsPreserved
