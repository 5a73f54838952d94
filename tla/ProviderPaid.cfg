SPECIFICATION Spec
CONSTANTS
  Bodies = {"b1"}
  MaxAttempts = 2
  MaxPrompts = 2
  MaxFaults = 2
  MaxTries = 1
  Routes = {"direct", "homelab"}
  DiskFaults = FALSE
CHECK_DEADLOCK FALSE
INVARIANTS
  ZeroMeansUnsent
  EverySendPaidOnce
  NoSecondSend
  DeliveredRecoverable
  SlotTruth
PROPERTIES
  ImplementsPaidCalls
