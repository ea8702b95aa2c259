------------------------- MODULE SettingsMergeProofs -----------------------
(***************************************************************************)
(* Lemmas about the settings merge of src/server/server.go                 *)
(* (SettingsMerge): what mergeMaps and mergeSettings return, and that the  *)
(* merge keeps every node of the local layer.                              *)
(***************************************************************************)
EXTENDS SettingsMerge, SequenceTheorems, TLAPS

\* A mapping over V: a function from some keys to V.
LEMMA MapsOverIntro ==
  ASSUME NEW V, NEW D \in SUBSET Keys, NEW f \in [D -> V]
  PROVE  f \in MapsOver(V)
  BY DEF MapsOver

LEMMA MapsOverElim ==
  ASSUME NEW V, NEW f \in MapsOver(V)
  PROVE  /\ DOMAIN f \subseteq Keys
         /\ f \in [DOMAIN f -> V]
  BY DEF MapsOver

\* Ranging over a nil map sees an empty one.
LEMMA AsMapType ==
  ASSUME NEW s \in Settings \cup {NoSettings}
  PROVE  AsMap(s) \in Settings
  <1>1. EmptyMap \in [{} -> Scalars \cup Maps1]
    BY DEF EmptyMap
  <1>2. QED
    BY <1>1, MapsOverIntro DEF AsMap, Settings

\* No value yaml.v2 decodes passes the map[string]interface{} assertion, so
\* mergeMaps takes every key local sets as it is.
LEMMA MergeAtLocalKey ==
  ASSUME NEW g, NEW l, NEW k \in DOMAIN l
  PROVE  /\ k \in DOMAIN mergeMaps(g, l)
         /\ mergeMaps(g, l)[k] = l[k]
  BY DEF mergeMaps, MergeLevel, IsStringMap, StringKeyedMaps

\* mergeMaps on settings maps returns a settings map.
LEMMA MergeType ==
  ASSUME NEW g \in Settings, NEW l \in Settings
  PROVE  mergeMaps(g, l) \in Settings
  <1>1. DOMAIN g \subseteq Keys /\ g \in [DOMAIN g -> Scalars \cup Maps1]
        /\ DOMAIN l \subseteq Keys /\ l \in [DOMAIN l -> Scalars \cup Maps1]
    BY MapsOverElim DEF Settings
  <1>2. mergeMaps(g, l) \in [DOMAIN g \cup DOMAIN l -> Scalars \cup Maps1]
    BY <1>1 DEF mergeMaps, MergeLevel, IsStringMap, StringKeyedMaps
  <1>3. QED
    BY <1>1, <1>2, MapsOverIntro DEF Settings

\* mergeSettings returns a settings map, or nil when both sides are nil.
LEMMA MergeSettingsType ==
  ASSUME NEW g \in Settings \cup {NoSettings}, NEW l \in Settings \cup {NoSettings}
  PROVE  mergeSettings(g, l) \in Settings \cup {NoSettings}
  BY MergeType DEF mergeSettings


\* The nodes one key of a tree contributes.
KeyNodes(t, k, Sub(_)) ==
    {<<<<k>>, Kind(t[k])>>} \cup
    {<<<<k>> \o n[1], n[2]>> : n \in IF IsMap(t[k]) THEN Sub(t[k]) ELSE {}}

LEMMA NodesByKey ==
  ASSUME NEW t, NEW Sub(_)
  PROVE  NodesLevel(t, Sub) = UNION {KeyNodes(t, k, Sub) : k \in DOMAIN t}
  BY DEF NodesLevel, KeyNodes

\* The merge keeps every node of the local layer: every key local sets keeps
\* its value, nested mapping and all.
LEMMA NodesKept ==
  ASSUME NEW g \in Settings, NEW l \in Settings
  PROVE  Nodes(l) \subseteq Nodes(mergeMaps(g, l))
  <1> DEFINE M == mergeMaps(g, l)
  <1>1. SUFFICES ASSUME NEW k \in DOMAIN l
                 PROVE  KeyNodes(l, k, NodesInner) \subseteq
                        UNION {KeyNodes(M, j, NodesInner) : j \in DOMAIN M}
    BY NodesByKey DEF Nodes
  <1>2. k \in DOMAIN M /\ M[k] = l[k]
    BY MergeAtLocalKey
  <1>3. KeyNodes(l, k, NodesInner) = KeyNodes(M, k, NodesInner)
    BY <1>2 DEF KeyNodes
  <1>4. QED
    BY <1>2, <1>3


\* mergeSettings keeps every node of a non-nil local layer.
LEMMA MergeSettingsKeepsLocal ==
  ASSUME NEW g \in Settings \cup {NoSettings}, NEW l \in Settings
  PROVE  /\ mergeSettings(g, l) \in Settings
         /\ Nodes(l) \subseteq Nodes(AsMap(mergeSettings(g, l)))
  <1>1. l # NoSettings
    BY ValueShapeAssumption
  <1>2. CASE g = NoSettings
    BY <1>1, <1>2 DEF mergeSettings, AsMap
  <1>3. CASE g # NoSettings
    <2>1. mergeSettings(g, l) = mergeMaps(g, l)
      BY <1>1, <1>3 DEF mergeSettings
    <2>2. mergeMaps(g, l) \in Settings
      BY <1>3, MergeType
    <2>3. AsMap(mergeMaps(g, l)) = mergeMaps(g, l)
      BY <2>2, ValueShapeAssumption DEF AsMap
    <2>4. QED
      BY <1>3, <2>1, <2>2, <2>3, NodesKept
  <1>4. QED
    BY <1>2, <1>3

=============================================================================
