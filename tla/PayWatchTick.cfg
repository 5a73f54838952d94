SPECIFICATION WatchSpec
CONSTANTS
  Endpoints = {e1, e2}
  Honest = {e2}
  First = e1
  Indexes = {"enrol"}
  Kinds = {"credit", "dust", "void"}
  MaxTx = 2
  MaxSlot = 2
  MaxTicks = 2
  MaxCrash = 2
CHECK_DEADLOCK FALSE
INVARIANTS
  CursorLosesNothing
  AuditEventsRetained
  TickIdsUnique
