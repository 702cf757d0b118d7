\* A put of Radix bytes.
CONSTANTS
  c1 = c1
  c2 = c2
  Clients = {c1}
  Radix = 16
  Menu <- McPutBlock
  Slashed = {12}
  Unwritable = {}
  Unreadable = {}
  Unremovable = {}
  InitFiles <- McNoFiles
  InitLocal <- McLocalBlock
  MaxInodes = 4
  MaxRequests = 3
  Cuts = {}
SPECIFICATION Spec
CHECK_DEADLOCK FALSE
INVARIANT AckedPutStored
