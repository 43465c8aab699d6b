CONSTANT Files <- MCFiles
SPECIFICATION Spec
INVARIANT AttributesKept
CHECK_DEADLOCK FALSE
