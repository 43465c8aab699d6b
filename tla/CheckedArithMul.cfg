CONSTANTS
  W = 2
  Digits = {0, 1, 2, 3}
  Width = {8}
SPECIFICATION Spec
INVARIANT MulExact
CHECK_DEADLOCK FALSE
