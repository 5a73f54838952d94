SPECIFICATION FairSpec
CONSTANTS
  Bodies = {"b1"}
  MaxAttempts = 1
  MaxPrompts = 1
  MaxFaults = 2
  MaxTries = 1
  Routes = {"direct", "homelab"}
  DiskFaults = TRUE
CHECK_DEADLOCK FALSE
INVARIANTS
  HoldRecorded
PROPERTIES
  GatewayReturns
  RuntimeReturns
