CONSTANTS
  Count = 4
  Cpus = 2
  GROUP_NONE = GROUP_NONE
  Graphs <- MCGraphs
SPECIFICATION Spec
INVARIANTS
  GroupsClosed
  GroupsMinimal
  OneCpuEach
  NoIdleCpu
