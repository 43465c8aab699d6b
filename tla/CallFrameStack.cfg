CONSTANTS
  s1 = s1
  s2 = s2
  f1 = f1
  f2 = f2
  a = a
  b = b
  c = c
  nil = nil
  NoFn = NoFn
  State = {s1, s2}
  Code <- MCCode
  Fn = {f1, f2}
  SegId = {a, b, c}
  FramesPerSegment = 2
  CallStackSize <- MCCallStackSize
  MaxPCalls = 2
SPECIFICATION Spec
SYMMETRY Perms
INVARIANTS SegmentsOwned SegmentsExact FrameKnowsDepth
PROPERTIES PCallRestoresDepth ImplementsFrameStack
CHECK_DEADLOCK FALSE
