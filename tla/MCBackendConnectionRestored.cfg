SPECIFICATION Safe
CONSTANTS
  MaxFaults = 2
  MailMax = 3
INVARIANTS
  RestoredIsUsable
