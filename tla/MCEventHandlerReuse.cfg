CONSTANTS
  Clients = {pvr, live}
  Resident = {pvr}
  Handlers = {h1, h2}
  Events = {status, chain}
  QueueMax = 1
  Dispatcher = Dispatcher
  NoOne = NoOne
SPECIFICATION Safe
SYMMETRY HandlerSymmetry
INVARIANT OnlyRegisteredEvents
