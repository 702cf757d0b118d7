\* keyvalue on up to three operands of at most three lines.
CONSTANTS
  Keys = {1, 2}
  Values = {1, 2}
  Filenames = {"a", "b"}
  CommandLines <- McCommandLines
  MaxLines = 3
SPECIFICATION Spec
CHECK_DEADLOCK FALSE
INVARIANTS
  TypeOK
  LastAssignmentCounts
  AnswersFollowLines
  StatusTells
PROPERTIES
  EndsOnFiles
