CONSTANTS
  Count = 3
  Programs <- MCPrograms
SPECIFICATION FairSpec
INVARIANTS
  Topological
  OrderComplete
  RejectionExact
PROPERTY Terminates
