SPECIFICATION RailSpec
CONSTANTS
  Endpoints = {e1}
  Honest = {e1}
  First = e1
  Indexes = {"enrol", "book"}
  Kinds = {"credit", "poison"}
  MaxTx = 2
  MaxSlot = 2
  MaxTicks = 2
  MaxCrash = 0
  Ids = {1, 2, 3}
  MaxFaults = 1
  MaxOthers = 1
  MinTickSlots = 1
  SignedMemos = FALSE
INVARIANTS
  ReceiptMeansDecided
  CreditedOnce
PROPERTIES
  ImplementsWatch
CHECK_DEADLOCK FALSE
