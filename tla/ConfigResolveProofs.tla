------------------------- MODULE ConfigResolveProofs -----------------------
(***************************************************************************)
(* Proofs about the configuration an event's analyzers run with           *)
(* (ConfigResolve): the type invariant, that the server's and the          *)
(* organization's disabled flags are obeyed, and that every setting of     *)
(* the repository's .lookout.yml reaches the analyzer, for every set of    *)
(* analyzers, every layer and every settings value of the universe.        *)
(***************************************************************************)
EXTENDS ConfigResolve, SettingsMergeProofs

\* The repository layer getConfig returns when it succeeds.
RepoLayer == IF repoIn.kind = "ok" THEN parseConfig(repoIn.yaml) ELSE Nil

\* Past getConfig, repoConf is the parsed file, or nil when there is none.
RepoRead ==
    pc \in {"org", "merge", "dispatch"} \/ Resolved =>
        repoIn.kind \in {"ok", "no_content"} /\ repoConf = RepoLayer

\* Past getOrgConfig, orgConf is the parsed organization default.
OrgRead ==
    pc \in {"merge", "dispatch"} \/ Resolved =>
        orgIn.kind = "ok" /\ orgConf = parseConfig(orgIn.yaml)

\* Past mergeConfigs, conf is the merge of the two layers.
Merged ==
    pc = "dispatch" \/ Resolved => conf = mergeConfigs(orgConf, repoConf)

\* After the dispatch, the contacted analyzers and their settings are what
\* concurrentRequest's loop computed from conf.
Dispatched ==
    Resolved =>
        /\ contacted = {a \in Analyzers : ~(defaults[a].disabled \/ conf[a].disabled)}
        /\ settingsOf = [a \in Analyzers |->
                            mergeSettings(defaults[a].settings, conf[a].settings)]

IInv == TypeOK /\ RepoRead /\ OrgRead /\ Merged /\ Dispatched


-----------------------------------------------------------------------------
(* Lemmas about parseConfig and mergeConfigs.                              *)

\* A layer's entry for an analyzer has the shape of a merged one.
LEMMA AnalyzerConfigType ==
  AnalyzerConfig \subseteq [disabled : BOOLEAN, settings : Settings \cup {NoSettings}]
  BY ConfigResolveAssumption DEF AnalyzerConfig

\* parseConfig gives every registered analyzer its entry of the file, or
\* its own config.
LEMMA ParseConfigType ==
  ASSUME defaults \in [Analyzers -> AnalyzerConfig], NEW yaml \in YamlConfig
  PROVE  /\ parseConfig(yaml) \in ConfMap
         /\ \A a \in Analyzers \cap DOMAIN yaml : parseConfig(yaml)[a] = yaml[a]
  <1>1. yaml \in [DOMAIN yaml -> AnalyzerConfig]
    BY DEF YamlConfig
  <1>2. QED
    BY <1>1, AnalyzerConfigType DEF parseConfig, ConfMap

\* mergeConfigs over a parsed organization layer keeps its entries, the
\* disabled flags included, and merges the repository's settings under
\* each of them.
LEMMA MergeConfigsType ==
  ASSUME NEW global \in ConfMap, NEW local \in ConfMap \cup {Nil}
  PROVE  /\ mergeConfigs(global, local) \in ConfMap
         /\ local = Nil => mergeConfigs(global, local) = global
         /\ local # Nil =>
              \A a \in Analyzers :
                 mergeConfigs(global, local)[a] =
                    [global[a] EXCEPT !.settings =
                        mergeMaps(AsMap(global[a].settings), AsMap(local[a].settings))]
  <1>1. global # Nil
    BY NilAssumption
  <1>2. CASE local = Nil
    BY <1>1, <1>2 DEF mergeConfigs
  <1>3. CASE local # Nil
    <2>1. \A a \in Analyzers :
             mergeMaps(AsMap(global[a].settings), AsMap(local[a].settings))
                \in Settings
      BY <1>3, AsMapType, MergeType DEF ConfMap
    <2>2. mergeConfigs(global, local) =
             [a \in Analyzers |->
                [global[a] EXCEPT !.settings =
                   mergeMaps(AsMap(global[a].settings), AsMap(local[a].settings))]]
      BY <1>1, <1>3 DEF mergeConfigs, ConfMap
    <2>3. QED
      BY <1>3, <2>1, <2>2 DEF ConfMap
  <1>4. QED
    BY <1>2, <1>3

-----------------------------------------------------------------------------
(* The inductive invariant.                                                *)

LEMMA IInvInit == Init => IInv
  <1> SUFFICES ASSUME Init PROVE IInv
    OBVIOUS
  <1>1. settingsOf \in [Analyzers -> Settings \cup {NoSettings}]
    BY DEF Init
  <1>2. TypeOK
    BY <1>1 DEF Init, TypeOK
  <1>3. QED
    BY <1>2 DEF Init, IInv, RepoRead, OrgRead, Merged, Dispatched, Resolved

\* Once the organization layer has been read, it is a parsed configuration.
LEMMA OrgLayerType ==
  ASSUME TypeOK, OrgRead, pc \in {"merge", "dispatch"}
  PROVE  orgConf \in ConfMap
  <1>1. orgIn.kind = "ok" /\ orgConf = parseConfig(orgIn.yaml)
    BY DEF OrgRead
  <1>2. orgIn.yaml \in YamlConfig
    BY <1>1 DEF TypeOK, OrgInput
  <1>3. QED
    BY <1>1, <1>2, ParseConfigType DEF TypeOK

\* Each step sets the variables of its own stage; the staged facts about
\* the earlier stages carry over because their variables are unchanged.
LEMMA IInvStep == IInv /\ [Next]_vars => IInv'
  <1> SUFFICES ASSUME IInv, [Next]_vars PROVE IInv'
    OBVIOUS
  <1>0. TypeOK /\ RepoRead /\ OrgRead /\ Merged /\ Dispatched
    BY DEF IInv
  <1>1. CASE GetConfig
    <2>1. UNCHANGED <<defaults, repoIn, orgIn, orgConf, conf, contacted, settingsOf>>
      BY <1>1 DEF GetConfig
    <2>2. pc = "repo"
      BY <1>1 DEF GetConfig
    <2>3. TypeOK' /\ RepoRead'
      <3>1. CASE repoIn.kind \in {"fetch_error", "scan_error", "unparsable"}
        BY <1>0, <1>1, <2>1, <3>1 DEF GetConfig, TypeOK, RepoRead, Resolved
      <3>2. CASE repoIn.kind = "no_content"
        BY <1>0, <1>1, <2>1, <3>2 DEF GetConfig, TypeOK, RepoRead, Resolved,
           RepoLayer
      <3>3. CASE repoIn.kind = "ok"
        <4>1. repoIn.yaml \in YamlConfig
          BY <1>0, <3>3 DEF TypeOK, RepoInput
        <4>2. parseConfig(repoIn.yaml) \in ConfMap
          BY <1>0, <4>1, ParseConfigType DEF TypeOK
        <4>3. repoConf' = parseConfig(repoIn.yaml) /\ pc' = "org"
          BY <1>1, <3>3 DEF GetConfig
        <4>4. RepoLayer' = parseConfig(repoIn.yaml)
          BY <2>1, <3>3 DEF RepoLayer, parseConfig
        <4>5. QED
          BY <1>0, <1>1, <2>1, <3>3, <4>2, <4>3, <4>4 DEF GetConfig, TypeOK,
             RepoRead
      <3>4. QED
        BY <1>0, <3>1, <3>2, <3>3 DEF TypeOK, RepoInput
    <2>4. pc' \in {"org", "done"} /\ (pc' = "done" => err')
      BY <1>1 DEF GetConfig
    <2>5. QED
      BY <2>3, <2>4 DEF IInv, OrgRead, Merged, Dispatched, Resolved
  <1>2. CASE GetOrgConfig
    <2>1. UNCHANGED <<defaults, repoIn, orgIn, repoConf, conf, contacted, settingsOf>>
      BY <1>2 DEF GetOrgConfig
    <2>2. pc' \in {"merge", "done"} /\ (pc' = "done" => err')
      BY <1>2 DEF GetOrgConfig
    <2>3. RepoRead'
      <3>1. RepoRead /\ pc = "org"
        BY <1>0, <1>2 DEF GetOrgConfig
      <3>2. repoIn.kind \in {"ok", "no_content"} /\ repoConf = RepoLayer
        BY <3>1 DEF RepoRead
      <3>3. RepoLayer' = RepoLayer
        BY <2>1 DEF RepoLayer, parseConfig
      <3>4. QED
        BY <2>1, <3>2, <3>3 DEF RepoRead
    <2>4. TypeOK' /\ OrgRead'
      <3>1. CASE orgIn.kind \in {"db_error", "unparsable"}
        BY <1>0, <1>2, <2>1, <3>1 DEF GetOrgConfig, TypeOK, OrgRead, Resolved
      <3>2. CASE orgIn.kind = "ok"
        <4>1. orgIn.yaml \in YamlConfig
          BY <1>0, <3>2 DEF TypeOK, OrgInput
        <4>2. parseConfig(orgIn.yaml) \in ConfMap
          BY <1>0, <4>1, ParseConfigType DEF TypeOK
        <4>3. orgConf' = parseConfig(orgIn.yaml) /\ pc' = "merge"
          BY <1>2, <3>2 DEF GetOrgConfig
        <4>4. parseConfig(orgIn.yaml)' = parseConfig(orgIn.yaml)
          BY <2>1 DEF parseConfig
        <4>5. QED
          BY <1>0, <1>2, <2>1, <3>2, <4>2, <4>3, <4>4 DEF GetOrgConfig, TypeOK,
             OrgRead
      <3>3. QED
        BY <1>0, <3>1, <3>2 DEF TypeOK, OrgInput
    <2>5. QED
      BY <2>2, <2>3, <2>4 DEF IInv, Merged, Dispatched, Resolved
  <1>3. CASE MergeConfigs
    <2>1. UNCHANGED <<defaults, repoIn, orgIn, repoConf, orgConf, contacted,
                      settingsOf, err>>
      BY <1>3 DEF MergeConfigs
    <2>2. pc = "merge" /\ pc' = "dispatch" /\ conf' = mergeConfigs(orgConf, repoConf)
      BY <1>3 DEF MergeConfigs
    <2>3. orgConf \in ConfMap /\ repoConf \in ConfMap \cup {Nil}
      BY <1>0, <2>2, OrgLayerType DEF TypeOK
    <2>4. TypeOK'
      BY <1>0, <2>1, <2>2, <2>3, MergeConfigsType DEF TypeOK
    <2>5. RepoLayer' = RepoLayer /\ parseConfig(orgIn.yaml)' = parseConfig(orgIn.yaml)
      BY <2>1 DEF RepoLayer, parseConfig
    <2>6. RepoRead' /\ OrgRead'
      BY <1>0, <2>1, <2>2, <2>5 DEF RepoRead, OrgRead, Resolved
    <2>7. Merged' /\ Dispatched'
      BY <2>1, <2>2 DEF Merged, Dispatched, Resolved, mergeConfigs
    <2>8. QED
      BY <2>4, <2>6, <2>7 DEF IInv
  <1>4. CASE Dispatch
    <2>1. UNCHANGED <<defaults, repoIn, orgIn, repoConf, orgConf, conf, err>>
      BY <1>4 DEF Dispatch
    <2>2. /\ pc = "dispatch" /\ pc' = "done"
          /\ contacted' = {a \in Analyzers : ~(defaults[a].disabled \/ conf[a].disabled)}
          /\ settingsOf' = [a \in Analyzers |->
                              mergeSettings(defaults[a].settings, conf[a].settings)]
      BY <1>4 DEF Dispatch
    <2>3. conf \in ConfMap
      <3>1. orgConf \in ConfMap /\ repoConf \in ConfMap \cup {Nil}
        BY <1>0, <2>2, OrgLayerType DEF TypeOK
      <3>2. conf = mergeConfigs(orgConf, repoConf)
        BY <1>0, <2>2 DEF Merged
      <3>3. QED
        BY <3>1, <3>2, MergeConfigsType
    <2>4. \A a \in Analyzers :
             mergeSettings(defaults[a].settings, conf[a].settings)
                \in Settings \cup {NoSettings}
      <3>1. SUFFICES ASSUME NEW a \in Analyzers
                     PROVE  mergeSettings(defaults[a].settings, conf[a].settings)
                               \in Settings \cup {NoSettings}
        OBVIOUS
      <3>2. defaults[a].settings \in Settings \cup {NoSettings}
        BY <1>0, AnalyzerConfigType DEF TypeOK
      <3>3. conf[a].settings \in Settings \cup {NoSettings}
        BY <2>3 DEF ConfMap
      <3>4. QED
        BY <3>2, <3>3, MergeSettingsType
    <2>5. TypeOK'
      BY <1>0, <2>1, <2>2, <2>4 DEF TypeOK
    <2>6. RepoLayer' = RepoLayer /\ parseConfig(orgIn.yaml)' = parseConfig(orgIn.yaml)
      BY <2>1 DEF RepoLayer, parseConfig
    <2>7. RepoRead' /\ OrgRead' /\ Merged'
      BY <1>0, <2>1, <2>2, <2>6 DEF RepoRead, OrgRead, Merged, Resolved
    <2>8. Dispatched'
      BY <2>1, <2>2 DEF Dispatched, Resolved
    <2>9. QED
      BY <2>5, <2>7, <2>8 DEF IInv
  <1>5. CASE UNCHANGED vars
    <2>1. RepoLayer' = RepoLayer /\ parseConfig(orgIn.yaml)' = parseConfig(orgIn.yaml)
      BY <1>5 DEF vars, RepoLayer, parseConfig
    <2>2. QED
      BY <1>0, <1>5, <2>1 DEF vars, IInv, TypeOK, RepoRead, OrgRead, Merged,
         Dispatched, Resolved
  <1>6. QED
    BY <1>1, <1>2, <1>3, <1>4, <1>5 DEF Next

-----------------------------------------------------------------------------
(* The theorems.                                                           *)

\* The resolution's staged facts hold in every reachable state.
THEOREM InductiveInvariant == Spec => []IInv
  BY IInvInit, IInvStep, PTL DEF Spec

\* getConfig, getOrgConfig, mergeConfigs and concurrentRequest's loop only
\* ever produce configuration maps and settings values of their types.
THEOREM TypeCorrect == Spec => []TypeOK
  <1>1. IInv => TypeOK
    BY DEF IInv
  <1>2. QED
    BY InductiveInvariant, <1>1, PTL

\* The merged configuration keeps the organization layer's disabled flag of
\* every analyzer, and the organization layer keeps the file's entry.
LEMMA ConfDisabled ==
  ASSUME IInv, Resolved, NEW a \in Analyzers
  PROVE  /\ conf[a].disabled = orgConf[a].disabled
         /\ a \in DOMAIN orgIn.yaml => orgConf[a] = orgIn.yaml[a]
  <1>1. TypeOK /\ OrgRead /\ RepoRead /\ Merged
    BY DEF IInv
  <1>2. orgIn.kind = "ok" /\ orgConf = parseConfig(orgIn.yaml)
    BY <1>1 DEF OrgRead
  <1>3. orgIn.yaml \in YamlConfig
    BY <1>1, <1>2 DEF TypeOK, OrgInput
  <1>4. orgConf \in ConfMap
        /\ (a \in DOMAIN orgIn.yaml => orgConf[a] = orgIn.yaml[a])
    BY <1>1, <1>2, <1>3, ParseConfigType DEF TypeOK
  <1>5. repoConf \in ConfMap \cup {Nil} /\ conf = mergeConfigs(orgConf, repoConf)
    BY <1>1 DEF TypeOK, Merged
  <1>6. conf[a].disabled = orgConf[a].disabled
    <2>1. CASE repoConf = Nil
      BY <1>4, <1>5, <2>1, MergeConfigsType
    <2>2. CASE repoConf # Nil
      <3>1. conf[a] = [orgConf[a] EXCEPT !.settings =
                         mergeMaps(AsMap(orgConf[a].settings),
                                   AsMap(repoConf[a].settings))]
        BY <1>4, <1>5, <2>2, MergeConfigsType
      <3>2. orgConf[a] \in [disabled : BOOLEAN, settings : Settings \cup {NoSettings}]
        BY <1>4 DEF ConfMap
      <3>3. QED
        BY <3>1, <3>2
    <2>3. QED
      BY <2>1, <2>2
  <1>7. QED
    BY <1>4, <1>6

\* An analyzer that the server's own config or the organization default
\* disables is never contacted (concurrentRequest skips it), whatever the
\* repository's .lookout.yml says: mergeConfigs keeps the organization's
\* flag and reads only the repository's settings.
THEOREM DisabledLayersObeyed == Spec => []UpperLayersDisable
  <1>1. IInv => UpperLayersDisable
    <2> SUFFICES ASSUME IInv, Resolved, NEW a \in Analyzers,
                        \/ defaults[a].disabled
                        \/ a \in DOMAIN orgIn.yaml /\ orgIn.yaml[a].disabled
                 PROVE  a \notin contacted
      BY DEF UpperLayersDisable
    <2>1. contacted = {b \in Analyzers : ~(defaults[b].disabled \/ conf[b].disabled)}
      BY DEF IInv, Dispatched
    <2>2. defaults[a].disabled \/ conf[a].disabled
      BY ConfDisabled
    <2>3. QED
      BY <2>1, <2>2
  <1>2. QED
    BY InductiveInvariant, <1>1, PTL

\* The settings the merged configuration gives an analyzer named by the
\* repository's file: the organization's merged under the file's.
LEMMA ConfSettings ==
  ASSUME IInv, Resolved, repoIn.kind = "ok",
         NEW a \in DOMAIN repoIn.yaml \cap Analyzers
  PROVE  /\ repoIn.yaml[a].settings \in Settings \cup {NoSettings}
         /\ orgConf[a].settings \in Settings \cup {NoSettings}
         /\ conf[a].settings = mergeMaps(AsMap(orgConf[a].settings),
                                         AsMap(repoIn.yaml[a].settings))
  <1>1. TypeOK /\ OrgRead /\ RepoRead /\ Merged
    BY DEF IInv
  <1>2. repoIn.yaml \in YamlConfig /\ repoConf = parseConfig(repoIn.yaml)
    BY <1>1 DEF TypeOK, RepoInput, RepoRead, RepoLayer
  <1>3. repoConf \in ConfMap /\ repoConf[a] = repoIn.yaml[a]
    BY <1>1, <1>2, ParseConfigType DEF TypeOK
  <1>4. repoConf # Nil
    BY <1>3, NilAssumption
  <1>5. orgConf \in ConfMap
    <2>1. orgIn.kind = "ok" /\ orgConf = parseConfig(orgIn.yaml)
      BY <1>1 DEF OrgRead
    <2>2. QED
      BY <1>1, <2>1, ParseConfigType DEF TypeOK, OrgInput
  <1>6. conf[a] = [orgConf[a] EXCEPT !.settings =
                     mergeMaps(AsMap(orgConf[a].settings),
                               AsMap(repoConf[a].settings))]
    BY <1>1, <1>3, <1>4, <1>5, MergeConfigsType DEF Merged
  <1>7. orgConf[a] \in [disabled : BOOLEAN, settings : Settings \cup {NoSettings}]
    BY <1>5 DEF ConfMap
  <1>8. repoIn.yaml[a].settings \in Settings \cup {NoSettings}
    BY <1>3 DEF ConfMap
  <1>9. QED
    BY <1>3, <1>6, <1>7, <1>8

\* Every setting the repository's .lookout.yml gives an analyzer reaches the
\* settings of that analyzer's request: mergeConfigs merges the organization
\* default under it and concurrentRequest merges the server's config under
\* the result, each keeping every node of the upper layer.
THEOREM RepoSettingsReachAnalyzer == Spec => []RepoSettingsWin
  <1>1. IInv => RepoSettingsWin
    <2> SUFFICES ASSUME IInv, Resolved, repoIn.kind = "ok",
                        NEW a \in DOMAIN repoIn.yaml \cap Analyzers
                 PROVE  Nodes(AsMap(repoIn.yaml[a].settings))
                           \subseteq Nodes(AsMap(settingsOf[a]))
      BY DEF RepoSettingsWin
    <2> DEFINE R == AsMap(repoIn.yaml[a].settings)
               M == mergeMaps(AsMap(orgConf[a].settings), R)
    <2>1. R \in Settings /\ AsMap(orgConf[a].settings) \in Settings
      BY ConfSettings, AsMapType
    <2>2. Nodes(R) \subseteq Nodes(M) /\ M \in Settings
      BY <2>1, NodesKept, MergeType
    <2>3. settingsOf[a] = mergeSettings(defaults[a].settings, M)
      BY ConfSettings DEF IInv, Dispatched
    <2>4. defaults[a].settings \in Settings \cup {NoSettings}
      BY AnalyzerConfigType DEF IInv, TypeOK
    <2>5. Nodes(M) \subseteq Nodes(AsMap(settingsOf[a]))
      BY <2>2, <2>3, <2>4, MergeSettingsKeepsLocal
    <2>6. QED
      BY <2>2, <2>5
  <1>2. QED
    BY InductiveInvariant, <1>1, PTL

=============================================================================
