----------------------- MODULE MC_MergeSettingsCall ------------------------
EXTENDS MergeSettingsCall, TLC

CONSTANTS k1, k2, x, y

MCKeys == {k1, k2}
MCScalars == {x, y}

MCSymmetry == Permutations(MCKeys) \cup Permutations(MCScalars)

=============================================================================
