CONSTANTS
  ttl = ttl
  jsonld = jsonld
  blobs = blobs
  embeddings = embeddings
  xrefs = xrefs
  rustItems = rustItems
  Order <- MCOrder
  OnDemand = {jsonld}
  IfAny = {embeddings}
  Rows = {rustItems}
  Unhashed = {blobs}
  Derived = {ttl, jsonld, blobs, xrefs, rustItems}
  MaxTexts = 2
  Filled <- MCFilled
  Nodes <- MCNodes
  Layers = {}
  MaxRuns = 3
SPECIFICATION EmitSpec
CHECK_DEADLOCK FALSE
INVARIANTS
  ReleasedIsWhole
  CrashIsCaught
  NoStaleJsonld
