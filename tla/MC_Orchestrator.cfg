CONSTANTS
    e1 = e1
    e2 = e2
    c1 = c1
    c2 = c2
    NoEvent = NoEvent
    Events <- MCEvents
    Pushes <- MCPushes
    Comments <- MCComments
    ExitOnError = TRUE
SYMMETRY MCSymmetry
SPECIFICATION Spec
INVARIANT TypeOK
INVARIANT NoUnsafeRepost
INVARIANT NoLostComment
PROPERTY StatusMonotonic
