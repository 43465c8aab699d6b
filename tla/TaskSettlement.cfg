CONSTANTS
  p = p
  w = w
  res = res
  Agent <- MCAgent
  resolver = res
  NoAgent = NoAgent
  Receipt = {r1}
  ZeroRef = ZeroRef
  Value = {3}
  Count = {0, 2}
  Pct = {50, 101}
  MaxTasks = 2
  MaxTime = 1
SYMMETRY Perms
SPECIFICATION Spec
INVARIANTS EscrowCoversTasks PaysInFull ReceiptAgrees
PROPERTIES OutcomeIsFair ReceiptFinal
