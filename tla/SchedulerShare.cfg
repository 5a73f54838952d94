SPECIFICATION Spec
CONSTANTS
  Ids = {1, 2, 3}
  Controllers = {alice, bob, carol}
  Principals = {"p", "q"}
  PrincipalOf <- MCPrincipalOf
  PoolOf <- MCPoolOf
  Backends = {1, 2}
  BackendPool <- MCBackendPool
  Groups = {"gpu", "cpu"}
  GroupOf <- MCGroupOf2
  Slots <- MCSlots
  Bodies = {big, small}
  ModelOf <- MCModelOf
  Fits <- MCFits2
  Cost <- MCCost2
  Requests <- MCRequests3
  Reports = {"ended"}
  Drains = {}
  Resolves = {}
  Times = {0, 1}
  LeaseMs = 9
  UsPerMs = 1
  MaxJobs = 3
  MaxQueued = 2
  MaxActive = 1
  MaxReceipts = 3
  MaxGuards = 1
  MaxU64 = 1000
  MaxFaults = 0
  None = none
  alice = alice
  bob = bob
  carol = carol
  big = big
  small = small
INVARIANTS
  TypeOK
  AllocationBounds
  RefundsCovered
  NoCatchUp
