CONSTANTS
  W = 2
  Digits = {0, 1, 2, 3}
  Width = {2, 3, 4, 7, 8}
SPECIFICATION Spec
INVARIANTS WrapsExactly DividesExactly SignedExactly ChecksExactly
CHECK_DEADLOCK FALSE
