SPECIFICATION Spec
CONSTANTS
  LB = LB
  RB = RB
  CO = CO
  Other = Other
  BufferSize = 9
  Fields <- MCFields
  MaxFields = 2
  MaxQueue = 1
  Supported = {1, 2}
  Versions = {1, 3}
INVARIANTS
  TypeOK
PROPERTIES
  ImplementsFieldStream
