CONSTANTS
    Modulus = 16
    MaxCalls = 2
    Checked <- MCChecked
    Lowered <- MCLowered
    Compiled <- MCCompiled
    Ran <- MCRan
    MeansCreated <- MCMeansCreated
    MeansInvoked <- MCMeansInvoked
    Programs <- MCPrograms
SPECIFICATION Spec
INVARIANTS AcceptedIsCompiled LoweredMeansSource ReadOnlyIsReadOnly EffectsAreDeclared GasIsBounded
PROPERTIES ImmutablesStay
CHECK_DEADLOCK FALSE
