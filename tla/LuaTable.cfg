CONSTANTS
  MaxArrayIndex = 9
  MaxArrayHoleGrowth = 1
  MaxInt = 4
  Str = {x}
  Value = {v}
  nil = nil
  Traversal = {p}
SPECIFICATION Spec
INVARIANTS KeysIndexed LoopVisitsOnce LoopNeverFails
PROPERTIES OneHome RawSetChangesOneKey InsertShifts ImplementsTable
