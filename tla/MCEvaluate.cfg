CONSTANTS
  Count = 3
  N = 2
  Cpus = 2
  Column <- MCColumn
  Scalar <- MCScalar
  Plans <- MCPlans
  Modes = {"compute", "load", "skip"}
  Contents <- MCContents
  Zero = 0
  Op <- MCOp
  Identities <- MCIdentities
SPECIFICATION Spec
INVARIANTS
  NeverAborts
  NoRace
  EquationsHold
  VerdictExact
  AllCounted
  FirstRowReported
