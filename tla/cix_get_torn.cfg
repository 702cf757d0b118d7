\* A get and a put of the same file.
CONSTANTS
  c1 = c1
  c2 = c2
  Clients = {c1, c2}
  Radix = 16
  Menu <- McGetPut
  Slashed = {12}
  Unwritable = {}
  Unreadable = {}
  Unremovable = {}
  InitFiles <- McServerData
  InitLocal <- McLocalEmpty
  MaxInodes = 4
  MaxRequests = 3
  Cuts = {}
SPECIFICATION Spec
CHECK_DEADLOCK FALSE
INVARIANT GotWholeFile
