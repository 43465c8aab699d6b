CONSTANTS
  W = 2
  Digits = {0, 1, 2, 3}
  Width = {3, 8}
SPECIFICATION Spec
INVARIANTS DivModExact SarExact CheckedMulReverts
CHECK_DEADLOCK FALSE
