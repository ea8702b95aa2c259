\* Every stdin of up to three lines, an over-long one included, every cb
\* result, with or without a cancellation.  Watch returns and the run stops
\* there.
CONSTANTS
    MaxLines <- MCMaxLines
SPECIFICATION Spec
INVARIANT TypeOK
INVARIANT EveryEventHandled
PROPERTY EventsEventuallyHandled
PROPERTY ImplementsEventStream
CHECK_DEADLOCK FALSE
