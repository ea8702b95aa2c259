\* Every stdin of up to three lines: does Watch keep consuming its input
\* while it watches, as the event source it implements promises?
CONSTANTS
    MaxLines <- MCMaxLines
SPECIFICATION Spec
PROPERTY ImplementsFairEventStream
CHECK_DEADLOCK FALSE
