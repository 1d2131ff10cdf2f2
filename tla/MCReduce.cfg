CONSTANTS
  Count = 3
  N = 2
  Values = {0, 1}
  Programs <- MCPrograms
  Column <- MCColumn
  Scalar <- MCScalar
SPECIFICATION Spec
INVARIANTS
  NoAliasOperand
  ValuesPreserved
