CONSTANTS
  Name <- MCName
  NoName = "none"
  Sources <- MCSources
  Edits <- MCEdits
  MaxEdits = 3
SPECIFICATION Spec
CHECK_DEADLOCK FALSE
INVARIANTS
  TableFresh
PROPERTIES
  SkipsHarmless
  BystandersKept
  MoveKeepsSymbols
  DecoratorsKept
