\* Does Execute always return, whatever the order of its goroutines?
CONSTANTS
    MaxCommits <- MCMaxCommits
SPECIFICATION Spec
PROPERTY ExecuteReturns
CHECK_DEADLOCK FALSE
