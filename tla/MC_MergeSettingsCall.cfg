\* Two keys, two scalars, mappings two levels deep: every pair of settings.
\* One call of mergeSettings returns: the run stops after the merge.
\* Expected: MergeIsDeepOverlay is violated (the merge is shallow).
CONSTANTS
    k1 = k1
    k2 = k2
    x = x
    y = y
    NoSettings = NoSettings
    Keys <- MCKeys
    Scalars <- MCScalars
SYMMETRY MCSymmetry
SPECIFICATION Spec
INVARIANT MergeIsDeepOverlay
CHECK_DEADLOCK FALSE
