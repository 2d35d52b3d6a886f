SPECIFICATION Spec
CONSTANTS
  MaxSessions = 2
  MaxFiles = 2
  MaxSize = 2
  MailMax = 1
INVARIANTS
  TypeOK
  ChainIsIndexed
  ChainIsHistory
  TunedIsReadable
PROPERTIES
  TuningEnds
  ReadReturns
