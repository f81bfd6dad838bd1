CONSTANTS
  server1 = server1
  server2 = server2
  call1 = call1
  call2 = call2
  call3 = call3
  Process = {server1, server2}
  Thread = {call1, call2, call3}
  HomeOf <- MCHomeOf
  MaxGen = 3
  KeyOf <- MCKeyOf
  MaxFaults = 1
  NoKey = "none"
SPECIFICATION Spec
INVARIANTS
  PartialOnlyOn
PROPERTY LockedOutOnlyOn
