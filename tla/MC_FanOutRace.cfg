CONSTANTS
    a1 = a1
    a2 = a2
    a3 = a3
    Orig = Orig
    Nil = Nil
    Analyzers <- MCAnalyzers
    Disabled <- MCDisabled
    NilSettings <- MCNilSettings
    Timeout = TRUE
SPECIFICATION Spec
\* One call of concurrentRequest: it returns and its goroutines end.
CHECK_DEADLOCK FALSE
INVARIANT OwnSettings
