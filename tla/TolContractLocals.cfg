CONSTANTS
    Modulus = 16
    MaxCalls = 2
    Checked <- MCChecked
    Lowered <- MCLowered
    Compiled <- MCCompiled
    Ran <- MCRan
    MeansCreated <- MCMeansCreated
    MeansInvoked <- MCMeansInvoked
    Programs <- LateLocals
SPECIFICATION Spec
INVARIANT AcceptedIsCompiled
CHECK_DEADLOCK FALSE
