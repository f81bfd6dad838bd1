CONSTANTS
  t1 = t1
  t2 = t2
  ttl = ttl
  enrichments = enrichments
  NoBundle = NoBundle
  Threads <- MCThreads
  Order <- MCOrder
  ReadOrder <- MCOrder
  OnDemand = {}
  IfAny = {enrichments}
  Lenient = {enrichments}
  Rows = {}
  Unhashed = {}
  Derived = {ttl, enrichments}
  MaxTexts = 2
  Filled <- MCFilled
  Nodes <- MCNodes
  Layers = {}
  MaxRuns = 2
SPECIFICATION FairSpec
CHECK_DEADLOCK FALSE
INVARIANTS
  ToldReadsRelease
PROPERTIES
  ChangesAnnounced
