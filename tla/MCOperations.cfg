\* Compile and evaluate every tree, at two rows, in the field of 3 elements.
SPECIFICATION OperationsSpec
CONSTANTS
  Nodes <- MCNodes
  Height <- MCHeight
  Trees <- MCTrees
  RowCount = 2
  Leaf <- MCLeaf
  IsExpLeaf <- MCIsExpLeaf
  Prime = 3
INVARIANTS
  OperationsTypeOK
  UsedBefore
  EvaluatesTree
  DependenciesExact
