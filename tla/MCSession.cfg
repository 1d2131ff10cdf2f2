\* Any sequence of runs of two programs on three inputs, with any options, and kills.
SPECIFICATION SessionSpec
CONSTANTS
  RunPrograms = {"short", "long"}
  Counts <- MCCount
  Length = 2
  Inputs = {"valid", "invalid", "wrong"}
  Truth <- MCTruth
  Page = 3
  NoFile = NoFile
INVARIANTS
  TypeOK
  VerdictTrue
  SavedFileIsTrue
  VerifyExact
PROPERTIES
  OverwriteNeedsOption
