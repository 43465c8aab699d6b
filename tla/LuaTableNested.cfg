CONSTANTS
  MaxArrayIndex = 9
  MaxArrayHoleGrowth = 1
  MaxInt = 4
  Str = {x}
  Value = {v}
  nil = nil
  Traversal = {p, q}
SPECIFICATION Spec
INVARIANT LoopNeverFails
CHECK_DEADLOCK FALSE
