SPECIFICATION RailLiveSpec
CONSTANTS
  Endpoints = {e1}
  Honest = {e1}
  First = e1
  Indexes = {"enrol", "book"}
  Kinds = {"credit"}
  MaxTx = 1
  MaxSlot = 2
  MaxTicks = 2
  MaxCrash = 1
  Ids = {1, 2, 3}
  MaxFaults = 1
  MaxOthers = 0
  MinTickSlots = 1
  SignedMemos = TRUE
PROPERTIES
  TickSettles
  LandedIsReceipted
CHECK_DEADLOCK FALSE
