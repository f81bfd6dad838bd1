CONSTANTS
  c1 = c1
  c2 = c2
  k1 = k1
  k2 = k2
  v1 = v1
  v2 = v2
  Absent = Absent
  BadJson = BadJson
  BadUtf8 = BadUtf8
  MaxPuts = 3
  Clients <- MCClients
  Keys <- MCKeys
  Values <- MCValues
SPECIFICATION Spec
SYMMETRY Symmetry
CHECK_DEADLOCK FALSE
INVARIANTS
  WritersApart
  PublishedWhole
PROPERTIES
  ImplementsAtomicCache
