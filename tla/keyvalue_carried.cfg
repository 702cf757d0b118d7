\* keyvalue on two operands of at most two lines.
CONSTANTS
  Keys = {1, 2}
  Values = {1, 2}
  Filenames = {"a", "b"}
  CommandLines <- McCommandLines
  MaxLines = 2
SPECIFICATION HSpec
CHECK_DEADLOCK FALSE
INVARIANT AnswersFollowAllOperands
