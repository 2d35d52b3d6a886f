SPECIFICATION Spec
CONSTANTS
  MaxFaults = 2
  MailMax = 2
INVARIANTS
  TypeOK
  RestoredWhenConnected
  AsleepIsDisconnected
PROPERTIES
  SleepReturns
  EventuallyRestored
