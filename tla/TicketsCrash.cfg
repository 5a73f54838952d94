SPECIFICATION Spec
CONSTANTS
  Requests = {r1}
  Threads = {t1, t2}
  MaxTickets = 2
  MaxLive = 2
  PerDay = 2
  MemberDay = 2
  MemberTotal = 3
  Ceiling = 3
  MaxDay = 1
  MaxResets = 1
  MaxFaults = 1
INVARIANTS
  TypeOK
  NeverUnder
  OneCall
  AnswerRetained
PROPERTIES
  CalledIsClosed
CHECK_DEADLOCK FALSE
