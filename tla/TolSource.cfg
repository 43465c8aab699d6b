CONSTANT Files <- MCFiles
SPECIFICATION Spec
INVARIANT LossReported
INVARIANT RoundTrip
INVARIANT DocsKept
INVARIANT FollowsGrammar
PROPERTY Terminates
CHECK_DEADLOCK FALSE
