SPECIFICATION WayOutSpec
CONSTANTS
  Endpoints = {e1}
  Honest = {e1}
  First = e1
  Indexes = {"enrol"}
  Kinds = {"credit"}
  MaxTx = 1
  MaxSlot = 2
  MaxTicks = 2
  MaxCrash = 1
PROPERTIES
  WayOut
CHECK_DEADLOCK FALSE
