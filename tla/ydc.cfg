\* Numbers of up to two digits in base 4, three of them on the stack.
CONSTANTS
  Base = 4
  Literals <- McLiterals
  MaxDepth = 3
  MaxDigits = 2
  MaxExponent = 1
SPECIFICATION Spec
CHECK_DEADLOCK FALSE
INVARIANTS
  TypeOK
  QuotientRight
  ArithRight
  TrimmedKept
PROPERTIES
  DivisionEnds
  ImplementsDivision
