\* Two threads.  The server stops if its process crashes.
SPECIFICATION FairSpec
CONSTANTS
  N = 4
  Names <- MCNames
  PilReferences <- MCPilReferences
  ColumnValue <- MCColumnValue
  PilPublics <- MCPilPublics
  PublicsFile <- MCPublicsFile
  NULL = NULL
  Workers = {1, 2}
  Requests <- MCRequests
  Field = {0, 1}
  Malformed = Malformed
  Failed = Failed
  MaxCount = 3
  Word = 16
INVARIANTS
  TypeOK
  PublicsExact
PROPERTIES
  ImplementsBrowse
  Answered
CHECK_DEADLOCK FALSE
