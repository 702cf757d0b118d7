\* Puts with payloads of the lengths that the byte order tells apart.
CONSTANTS
  c1 = c1
  c2 = c2
  Clients = {c1, c2}
  Radix = 16
  Menu <- McMenu
  Slashed = {12}
  Unwritable = {}
  Unreadable = {}
  Unremovable = {}
  InitFiles <- McInitFiles
  InitLocal <- McInitLocal
  MaxInodes = 6
  MaxRequests = 3
  Cuts = {0, 5}
SPECIFICATION Spec
CHECK_DEADLOCK FALSE
INVARIANTS
  NoSlashedFile
PROPERTIES
  OnlyAnswers
  ServerFollowsClient
  ClientNoticesDeath
