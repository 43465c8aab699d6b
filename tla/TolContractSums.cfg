CONSTANTS
    Modulus = 16
    MaxCalls = 2
    Checked <- MCChecked
    Lowered <- MCLowered
    Compiled <- MCCompiled
    Ran <- MCRan
    MeansCreated <- MCMeansCreated
    MeansInvoked <- MCMeansInvoked
    Programs <- CalledSums
SPECIFICATION Spec
INVARIANT LoweredMeansSource
CHECK_DEADLOCK FALSE
