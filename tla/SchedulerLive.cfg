SPECIFICATION FairSpec
CONSTANTS
  Ids = {1, 2}
  Controllers = {alice, bob}
  Principals = {"p", "q"}
  PrincipalOf <- MCPrincipalOf
  PoolOf <- MCPoolOf
  Backends = {1}
  BackendPool <- MCBackendPool
  Groups = {"gpu"}
  GroupOf <- MCGroupOf1
  Slots <- MCSlots
  Bodies = {big}
  ModelOf <- MCModelOf
  Fits <- MCFits1
  Cost <- MCCost1
  Requests <- MCRequests2
  Reports = {"ended", "not-sent", "uncertain"}
  Drains = {TRUE, FALSE}
  Resolves = {1}
  Times = {0, 2}
  LeaseMs = 1
  UsPerMs = 1
  MaxJobs = 2
  MaxQueued = 2
  MaxActive = 2
  MaxReceipts = 2
  MaxGuards = 1
  MaxU64 = 1000
  MaxFaults = 1
  None = none
  alice = alice
  bob = bob
  carol = carol
  big = big
  small = small
PROPERTIES
  Decided
  Retired
