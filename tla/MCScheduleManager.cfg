SPECIFICATION Spec
CONSTANTS
  Showings = {a}
  MaxId = 3
  MaxOps = 2
  MaxFaults = 1
  MailMax = 2
CHECK_DEADLOCK FALSE
INVARIANTS
  TypeOK
  CopyCatchesUp
PROPERTIES
  NothingLeftBehind
  TimersCatchUp
