CONSTANTS
  Count = 3
  N = 2
  Cpus = 2
  GROUP_NONE = GROUP_NONE
  Programs <- MCPrograms
  Column <- MCColumn
  Scalar <- MCScalar
  Contents <- MCContents
  Zero = 0
  Op <- MCOp
  Identities <- MCIdentities
SPECIFICATION FairSpec
INVARIANTS
  PlanIsSound
  ProgramEvaluated
PROPERTY ImplementsVerifier
