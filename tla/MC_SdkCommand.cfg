\* Both commands, every early error, every outcome of the review, and every
\* order of Execute and the data-server goroutine.
CONSTANTS
    MaxCommits <- MCMaxCommits
SPECIFICATION Spec
INVARIANT TypeOK
INVARIANT CommitsCounted
INVARIANT NilReturnMeansSuccess
PROPERTY ExecuteReturnsWhenStopSeesServer
\* Execute's return ends the process, so a returned Execute is a final state.
CHECK_DEADLOCK FALSE
