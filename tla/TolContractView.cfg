CONSTANTS
    Modulus = 16
    MaxCalls = 2
    Checked <- MCChecked
    Lowered <- MCLowered
    Compiled <- MCCompiled
    Ran <- MCRan
    MeansCreated <- MCMeansCreated
    MeansInvoked <- MCMeansInvoked
    Programs <- ViewDeletes
SPECIFICATION Spec
INVARIANT ReadOnlyIsReadOnly
CHECK_DEADLOCK FALSE
