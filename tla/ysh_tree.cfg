\* The inode graph while nobody removes "." or "..".
CONSTANTS
  Names <- McNames
  Words = {"%"}
  Removable <- McNames
  Inodes <- McInodes
  Statuses = {0, 2}
  MaxDepth = 2
  MaxWords = 1
SPECIFICATION Spec
CHECK_DEADLOCK FALSE
INVARIANTS
  TypeOK
  OneNameEach
  DotsAgree
  PathLeadsBack
  RootNumberAlone
PROPERTIES
  RemovedStaysRemoved
  ImplementsTree
