--------------------------- MODULE ConfigResolve ---------------------------
(***************************************************************************)
(* The configuration an event's analyzers run with (src/server/server.go): *)
(* HandleReview / HandlePush call getConfig (the repository .lookout.yml), *)
(* then getOrgConfig (the organization default from the DB), both parsed   *)
(* by parseConfig over the server's registered analyzers, merge them with  *)
(* mergeConfigs, and concurrentRequest derives from the result which       *)
(* analyzers it contacts and with which settings.  One resolution.         *)
(***************************************************************************)
EXTENDS SettingsMerge

CONSTANTS
    Analyzers,       \* the keys of s.analyzers
    Unknown,         \* analyzer names a YAML file may name but the server lacks
    LayerSettings,   \* the settings a config layer may give an analyzer
    Nil              \* a nil map[string]AnalyzerConfig

ASSUME ConfigResolveAssumption ==
    /\ Analyzers \cap Unknown = {}
    /\ LayerSettings \subseteq Settings \cup {NoSettings}
    /\ Nil \notin Scalars

VARIABLES
    defaults,   \* a.Config of each registered analyzer
    repoIn,     \* what GetFiles returns for ^\.lookout\.yml$ at Head
    orgIn,      \* what organizationOp.Config returns
    repoConf,   \* getConfig's result
    orgConf,    \* getOrgConfig's result
    conf,       \* mergeConfigs(orgConf, repoConf)
    contacted,  \* the analyzers concurrentRequest starts a goroutine for
    settingsOf, \* the settings each goroutine's send receives
    pc,
    err         \* the resolution returned an error (fatal for the event)

vars == <<defaults, repoIn, orgIn, repoConf, orgConf, conf, contacted, settingsOf,
         pc, err>>

\* The fields of lookout.AnalyzerConfig the resolution reads.
AnalyzerConfig == [disabled: BOOLEAN, settings: LayerSettings]

\* A parsed Config{Analyzers}: a later entry of one name replaces an earlier one.
YamlConfig == UNION {[D -> AnalyzerConfig] : D \in SUBSET (Analyzers \cup Unknown)}

RepoInput == [kind: {"ok"}, yaml: YamlConfig] \cup
             [kind: {"fetch_error", "scan_error", "no_content", "unparsable"}]
OrgInput == [kind: {"ok"}, yaml: YamlConfig] \cup [kind: {"db_error", "unparsable"}]

ConfMap == [Analyzers -> [disabled: BOOLEAN, settings: Settings \cup {NoSettings}]]

\* A map[string]AnalyzerConfig the code has made is not a nil one.
ASSUME NilAssumption == Nil \notin ConfMap

TypeOK ==
    /\ defaults \in [Analyzers -> AnalyzerConfig]
    /\ repoIn \in RepoInput /\ orgIn \in OrgInput
    /\ repoConf \in ConfMap \cup {Nil}
    /\ orgConf \in ConfMap \cup {Nil}
    /\ conf \in ConfMap \cup {Nil}
    /\ contacted \subseteq Analyzers
    /\ settingsOf \in [Analyzers -> Settings \cup {NoSettings}]
    /\ pc \in {"repo", "org", "merge", "dispatch", "done"}
    /\ err \in BOOLEAN

Init ==
    /\ defaults \in [Analyzers -> AnalyzerConfig]
    /\ repoIn \in RepoInput
    /\ orgIn \in OrgInput
    /\ repoConf = Nil /\ orgConf = Nil /\ conf = Nil
    /\ contacted = {}
    /\ settingsOf = [a \in Analyzers |-> NoSettings]
    /\ pc = "repo"
    /\ err = FALSE

-----------------------------------------------------------------------------
(* Mutant: the check that the name is a registered analyzer dropped.      *)
parseConfigKeepUnknown(yaml) ==
    [a \in Analyzers \cup DOMAIN yaml |->
        IF a \in DOMAIN yaml THEN yaml[a] ELSE defaults[a]]

\* Start from every registered analyzer's own config; an entry of the file
\* naming a registered analyzer replaces it whole; other names are dropped.
parseConfig(yaml) ==
    [a \in Analyzers |-> IF a \in DOMAIN yaml THEN yaml[a] ELSE defaults[a]]

\* Fetching, scanning or parsing the file fails: the event fails.  An absent
\* or empty file is no repository layer (nil).
GetConfig ==
    /\ pc = "repo"
    /\ \/ /\ repoIn.kind \in {"fetch_error", "scan_error", "unparsable"}
          /\ err' = TRUE /\ pc' = "done"
          /\ UNCHANGED repoConf
       \/ /\ repoIn.kind = "no_content"
          /\ repoConf' = Nil /\ pc' = "org"
          /\ UNCHANGED err
       \/ /\ repoIn.kind = "ok"
          /\ repoConf' = parseConfig(repoIn.yaml) /\ pc' = "org"
          /\ UNCHANGED err
    /\ UNCHANGED <<defaults, repoIn, orgIn, orgConf, conf, contacted, settingsOf>>

\* The organization default is always parsed, the empty string included.
GetOrgConfig ==
    /\ pc = "org"
    /\ \/ /\ orgIn.kind \in {"db_error", "unparsable"}
          /\ err' = TRUE /\ pc' = "done"
          /\ UNCHANGED orgConf
       \/ /\ orgIn.kind = "ok"
          /\ orgConf' = parseConfig(orgIn.yaml) /\ pc' = "merge"
          /\ UNCHANGED err
    /\ UNCHANGED <<defaults, repoIn, orgIn, repoConf, conf, contacted, settingsOf>>

(* Mutant: the local entry replaces the global one, settings merged.       *)
mergeConfigsLocalWins(global, local) ==
    IF local = Nil THEN global
    ELSE IF global = Nil THEN local
    ELSE [k \in DOMAIN global \cup DOMAIN local |->
            IF k \in DOMAIN local /\ k \in DOMAIN global
            THEN [local[k] EXCEPT !.settings =
                     mergeMaps(AsMap(global[k].settings), AsMap(local[k].settings))]
            ELSE IF k \in DOMAIN local THEN local[k] ELSE global[k]]

(* Mutant: the settings merged with the layers swapped.                    *)
mergeConfigsSwapped(global, local) ==
    IF local = Nil THEN global
    ELSE IF global = Nil THEN local
    ELSE [k \in DOMAIN global \cup DOMAIN local |->
            IF k \in DOMAIN local /\ k \in DOMAIN global
            THEN [global[k] EXCEPT !.settings =
                     mergeMaps(AsMap(local[k].settings), AsMap(global[k].settings))]
            ELSE IF k \in DOMAIN local THEN local[k] ELSE global[k]]

\* A name both layers have keeps the global entry with the settings merged;
\* only the settings of the local entry are used.
mergeConfigs(global, local) ==
    IF local = Nil THEN global
    ELSE IF global = Nil THEN local
    ELSE [k \in DOMAIN global \cup DOMAIN local |->
            IF k \in DOMAIN local /\ k \in DOMAIN global
            THEN [global[k] EXCEPT !.settings =
                     mergeMaps(AsMap(global[k].settings), AsMap(local[k].settings))]
            ELSE IF k \in DOMAIN local THEN local[k] ELSE global[k]]

MergeConfigs ==
    /\ pc = "merge"
    /\ conf' = mergeConfigs(orgConf, repoConf)
    /\ pc' = "dispatch"
    /\ UNCHANGED <<defaults, repoIn, orgIn, repoConf, orgConf, contacted, settingsOf, err>>

(* Mutant: only the merged configuration's flag is read.                   *)
DispatchIgnoreDefault ==
    /\ pc = "dispatch"
    /\ contacted' = {a \in Analyzers : ~conf[a].disabled}
    /\ settingsOf' = [a \in Analyzers |->
                         mergeSettings(defaults[a].settings, conf[a].settings)]
    /\ pc' = "done"
    /\ UNCHANGED <<defaults, repoIn, orgIn, repoConf, orgConf, conf, err>>

\* concurrentRequest's loop: skip an analyzer disabled by its own config or
\* by conf; each goroutine's send gets mergeSettings(a.Config.Settings,
\* conf[name].Settings).
Dispatch ==
    /\ pc = "dispatch"
    /\ contacted' = {a \in Analyzers : ~(defaults[a].disabled \/ conf[a].disabled)}
    /\ settingsOf' = [a \in Analyzers |->
                         mergeSettings(defaults[a].settings, conf[a].settings)]
    /\ pc' = "done"
    /\ UNCHANGED <<defaults, repoIn, orgIn, repoConf, orgConf, conf, err>>

Next == GetConfig \/ GetOrgConfig \/ MergeConfigs \/ Dispatch

Spec == Init /\ [][Next]_vars

-----------------------------------------------------------------------------
(* The resolution of the spec (4.3): defaults, then the organization layer, *)
(* then the repository layer when present; a layer naming an analyzer       *)
(* deep-merges its settings over the lower layers and may disable it.       *)
RefLayer(base, yaml) ==
    [a \in Analyzers |->
        IF a \in DOMAIN yaml
        THEN [disabled |-> base[a].disabled \/ yaml[a].disabled,
              settings |-> mergeSettings(base[a].settings, yaml[a].settings)]
        ELSE base[a]]

RefResolved ==
    LET withOrg == RefLayer(defaults, orgIn.yaml)
    IN  IF repoIn.kind = "ok" THEN RefLayer(withOrg, repoIn.yaml) ELSE withOrg

Resolved == pc = "done" /\ ~err

(* An analyzer the server's own config or the organization default disables *)
(* is not contacted, whatever the repository's .lookout.yml says.           *)
UpperLayersDisable ==
    Resolved =>
        \A a \in Analyzers :
            defaults[a].disabled
            \/ (a \in DOMAIN orgIn.yaml /\ orgIn.yaml[a].disabled)
            => a \notin contacted

(* Every setting the repository's .lookout.yml gives an analyzer reaches    *)
(* that analyzer's send: the organization default and the server's config   *)
(* are merged under it, never over it.                                      *)
RepoSettingsWin ==
    Resolved /\ repoIn.kind = "ok" =>
        \A a \in DOMAIN repoIn.yaml \cap Analyzers :
            a \in contacted =>
                Nodes(AsMap(repoIn.yaml[a].settings)) \subseteq Nodes(AsMap(settingsOf[a]))

(* An analyzer is contacted exactly when no layer disables it (spec 4.3:    *)
(* effective disabled = any-layer-disabled; scenario 8.1: a repository      *)
(* .lookout.yml disabling B means B is not contacted).                      *)
AnyLayerDisables ==
    Resolved =>
        \A a \in Analyzers : (a \notin contacted) = RefResolved[a].disabled

(* A contacted analyzer's settings are the layers deep-merged in the order  *)
(* defaults, organization, repository (spec 4.3).                           *)
LayerPrecedence ==
    Resolved =>
        \A a \in Analyzers :
            a \in contacted /\ ~RefResolved[a].disabled =>
                Nodes(AsMap(settingsOf[a])) = Nodes(AsMap(RefResolved[a].settings))


=============================================================================
