CONSTANTS
  c1 = c1
  c2 = c2
  s1 = s1
  s2 = s2
  s3 = s3
  k1 = k1
  k2 = k2
  k3 = k3
  Walk <- MCWalk
  Unreadable = {s2}
  Keys = {k1, k2, k3}
  KeyOf <- MCKeyOf
  Texts = {good, poor}
  Absent = Absent
  BadUtf8 = BadUtf8
  MaxRuns = 3
SPECIFICATION Spec
CHECK_DEADLOCK FALSE
INVARIANTS
  OneEntryEach
  CountsAreLosses
  PublishedIsValid
  TextPerContent
  NoRepeatedCall
