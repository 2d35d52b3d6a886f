CONSTANTS
  Clients = {pvr, live}
  Resident = {pvr}
  Handlers = {h1, h2}
  Events = {status}
  QueueMax = 1
  Dispatcher = Dispatcher
  NoOne = NoOne
SPECIFICATION Spec
INVARIANTS TypeOK NoCallbackAfterRevoke TableOfLiveHandlers NoLostWakeup
PROPERTIES RevokeReturns ImplementsMailboxes
