--------------------------- MODULE SettingsMerge ---------------------------
(***************************************************************************)
(* The free-form analyzer settings of src/server/server.go and their deep *)
(* merge, mergeSettings / mergeMaps.  A settings value is a scalar or a   *)
(* mapping from keys to values; NoSettings is a nil map[string]interface{}.*)
(* The values of the model nest mappings two levels deep, so the code's   *)
(* recursion is unfolded to that depth: one operator per level, each       *)
(* taking the level below as a parameter.  The recursion is guarded by the *)
(* type assertion v.(map[string]interface{}), which the values yaml.v2     *)
(* decodes never pass below the top level (IsStringMap).                   *)
(***************************************************************************)
EXTENDS Naturals, Sequences

CONSTANTS
    Keys,        \* the settings keys the YAML layers use
    Scalars,     \* scalar settings values (model values)
    NoSettings   \* a nil settings map

ASSUME SettingsMergeAssumption ==
    /\ NoSettings \notin Scalars
    /\ "map" \notin Scalars

\* A value is a nested mapping when it is not a scalar.
IsMap(v) == v \notin Scalars

\* The nested mappings whose Go type is map[string]interface{}.  Every layer
\* of settings comes from yaml.Unmarshal (server.go:327, and the server's own
\* configuration file): yaml.v2 gives the Settings field its declared type
\* but decodes every mapping nested in it as map[interface{}]interface{}.
StringKeyedMaps == {}

\* v.(map[string]interface{}) succeeds.
IsStringMap(v) == v \in StringKeyedMaps

EmptyMap == [k \in {} |-> NoSettings]

MapsOver(V) == UNION {[D -> V] : D \in SUBSET Keys}

\* Mappings nested at most two levels deep: the bounded universe of settings.
Maps1 == MapsOver(Scalars)
Settings == MapsOver(Scalars \cup Maps1)

\* A scalar is not a mapping, and a nil map is no settings value.
ASSUME ValueShapeAssumption ==
    /\ Scalars \cap Maps1 = {}
    /\ NoSettings \notin Settings

\* Ranging over a nil map in Go visits no key.
AsMap(m) == IF m = NoSettings THEN EmptyMap ELSE m

\* One level of mergeMaps: merged starts as a copy of global; each key of
\* local overwrites it, except that two nested values under one key that
\* both pass the map[string]interface{} assertion are merged by the
\* recursive call, Sub.
MergeLevel(global, local, Sub(_, _)) ==
    [k \in DOMAIN global \cup DOMAIN local |->
        IF k \notin DOMAIN local THEN global[k]
        ELSE IF IsStringMap(local[k]) /\ k \in DOMAIN global /\ IsStringMap(global[k])
             THEN Sub(global[k], local[k])
             ELSE local[k]]

\* Below the deepest level of the universe: a nested mapping holds scalars
\* only, so the innermost call never reaches this.
BelowDepth(global, local) == local

\* mergeMaps on two nested mappings (values are scalars).
mergeMapsInner(global, local) == MergeLevel(global, local, BelowDepth)

\* mergeMaps on two settings maps, its recursive call on nested mappings.
mergeMaps(global, local) == MergeLevel(global, local, mergeMapsInner)

\* A nil side leaves the other one as it is (nil included).
mergeSettings(global, local) ==
    IF local = NoSettings THEN global
    ELSE IF global = NoSettings THEN local
    ELSE mergeMaps(global, local)

-----------------------------------------------------------------------------
(* The reference: a settings tree as the set of its nodes, each a path of *)
(* keys with the scalar found there or "map".  A tree is fixed by its     *)
(* nodes, empty nested mappings included.                                  *)
Kind(v) == IF IsMap(v) THEN "map" ELSE v

\* The nodes of a tree: each key with its kind, and below a nested mapping
\* the nodes Sub gives it, under that key.
NodesLevel(t, Sub(_)) ==
    UNION {{<<<<k>>, Kind(t[k])>>} \cup
           {<<<<k>> \o n[1], n[2]>> : n \in IF IsMap(t[k]) THEN Sub(t[k]) ELSE {}}
           : k \in DOMAIN t}

NoNodes(t) == {}

\* The nodes of a nested mapping (its values are scalars), and of a tree.
NodesInner(t) == NodesLevel(t, NoNodes)
Nodes(t) == NodesLevel(t, NodesInner)

Paths(t) == {n[1] : n \in Nodes(t)}

KindAt(t, p) == (CHOOSE n \in Nodes(t) : n[1] = p)[2]

ProperPrefixes(p) == {SubSeq(p, 1, i) : i \in 1..(Len(p) - 1)}

\* The deep overlay of the spec (4.3, 9): every node of the overlay, and every
\* node of the base that the overlay neither has nor hides under a scalar.
OverlayNodes(g, l) ==
    Nodes(l) \cup
    {n \in Nodes(g) : /\ n[1] \notin Paths(l)
                      /\ \A q \in ProperPrefixes(n[1]) :
                            q \notin Paths(l) \/ KindAt(l, q) = "map"}

=============================================================================
