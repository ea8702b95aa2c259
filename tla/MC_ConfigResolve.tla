------------------------- MODULE MC_ConfigResolve --------------------------
EXTENDS ConfigResolve, TLC

CONSTANTS a1, u, k1, k2, x, y

MCAnalyzers == {a1}
MCUnknown == {u}
MCKeys == {k1, k2}
MCScalars == {x, y}

\* No settings, two conflicting scalars under one key, and a nested mapping
\* under that key: enough for a layer to override, hide or extend another.
MCLayerSettings ==
    {NoSettings, [k \in {k1} |-> x], [k \in {k1} |-> y],
     [k \in {k1} |-> [j \in {k2} |-> x]]}

=============================================================================
