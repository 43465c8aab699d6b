CONSTANTS
  Value = {0, 1}
  nil = 0
  NLocals = 2
  NReg = 6
  MaxUpvalues = 2
SPECIFICATION FullSpec
INVARIANT ClosureSeesVariable
