SPECIFICATION Spec
CONSTANTS
  Size = 4
  MaxRead = 4
  MaxTodo = 3
  RcvBuf = 2
  Persist = FALSE
INVARIANTS
  TypeOK
  InStep
  AnswerIsOwn
  RoomForTheRest
PROPERTIES
  CallsReturn
