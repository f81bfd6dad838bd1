CONSTANTS
  Name <- MCName
  NoName = "none"
  Key <- MCKey
  Documents <- MCDocuments
  Edits <- MCEdits
  MaxEdits = 3
SPECIFICATION Spec
CHECK_DEADLOCK FALSE
INVARIANTS
  TypeOK
  IndexFresh
PROPERTIES
  SkipsHarmless
  MovesConserve
  ScopeConfined
