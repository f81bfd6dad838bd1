CONSTANTS
  w1 = w1
  w2 = w2
  kDup = kDup
  kOwn = kOwn
  good1 = good1
  good2 = good2
  bad = bad
  Absent = Absent
  Unreadable = Unreadable
  NoThread = NoThread
  NumRecords = 5
  MaxRuns = 2
  Workers <- MCWorkers
  Eligible <- MCEligible
  Decodable <- MCDecodable
  Keys <- MCKeys
  KeyOf <- MCKeyOf
  Texts <- MCTexts
  Valid <- MCValid
SPECIFICATION Spec
SYMMETRY Symmetry
CHECK_DEADLOCK FALSE
INVARIANTS
  TallyComplete
