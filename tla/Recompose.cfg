CONSTANTS
  File <- MCFile
  Module <- MCModule
  Node <- MCNode
  Home <- MCHome
  Dist <- MCDist
  NoDist = "none"
  DevOnly <- MCDevOnly
  FileTypes <- MCFileTypes
  Imports <- MCImports
  Root = 11
  Above <- MCAbove
  Segment <- MCSegment
  Ports <- MCPorts
  EntryNames = {1, 3}
  MainFiles = {3}
  Schemas = {2}
  External = {3}
SPECIFICATION PlanSpec
CHECK_DEADLOCK FALSE
INVARIANTS
  SccCorrect
  LayersSound
  FileOrderSound
  PhasesRelaxed
  FailsOnlyOn
  NothingDropped
