\* One registered analyzer and one unknown name; every combination of the
\* server's config, the organization default and the repository file.
\* One resolution: the run stops when the analyzers are dispatched.
CONSTANTS
    a1 = a1
    u = u
    k1 = k1
    k2 = k2
    x = x
    y = y
    NoSettings = NoSettings
    Nil = Nil
    Analyzers <- MCAnalyzers
    Unknown <- MCUnknown
    Keys <- MCKeys
    Scalars <- MCScalars
    LayerSettings <- MCLayerSettings
SPECIFICATION Spec
CHECK_DEADLOCK FALSE
INVARIANT LayerPrecedence
