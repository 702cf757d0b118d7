\* Two clients, three requests in all, every put empty.
CONSTANTS
  c1 = c1
  c2 = c2
  Clients = {c1, c2}
  Radix = 16
  Menu <- McMenu
  Slashed = {13}
  Unwritable = {}
  Unreadable = {14}
  Unremovable = {14}
  InitFiles <- McInitFiles
  InitLocal <- McInitLocal
  MaxInodes = 5
  MaxRequests = 3
  Cuts = {0, 2}
SPECIFICATION Spec
CHECK_DEADLOCK FALSE
INVARIANTS
  TypeOK
  InStep
  AnswersItsRequest
PROPERTIES
  RequestsAnswered
  ImplementsService
