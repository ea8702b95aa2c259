------------------------- MODULE MergeSettingsCall -------------------------
(***************************************************************************)
(* One call mergeSettings(a.Config.Settings, conf[name].Settings), as each *)
(* fan-out goroutine makes it (src/server/server.go:384), over every pair  *)
(* of settings of the bounded universe.                                    *)
(***************************************************************************)
EXTENDS SettingsMerge

VARIABLES global, local, merged, done

vars == <<global, local, merged, done>>

Input == Settings \cup {NoSettings}

TypeOK ==
    /\ global \in Input /\ local \in Input
    /\ merged \in Input
    /\ done \in BOOLEAN

Init ==
    /\ global \in Input
    /\ local \in Input
    /\ merged = NoSettings
    /\ done = FALSE

Merge ==
    /\ ~done
    /\ merged' = mergeSettings(global, local)
    /\ done' = TRUE
    /\ UNCHANGED <<global, local>>

Spec == Init /\ [][Merge]_vars

-----------------------------------------------------------------------------
(* The merged settings are the deep overlay the spec defines (4.3, 9):     *)
(* every key the repository layer sets wins, every nested key of the lower *)
(* layer it does not hide survives, and the result is nil only when both   *)
(* inputs are nil.  mergeMaps fails it: its recursion needs nested values  *)
(* of type map[string]interface{}, and yaml.v2 decodes none, so a nested   *)
(* mapping of the repository replaces the lower one whole.                 *)
MergeIsDeepOverlay ==
    done =>
        /\ Nodes(AsMap(merged)) = OverlayNodes(AsMap(global), AsMap(local))
        /\ (merged = NoSettings) = (global = NoSettings /\ local = NoSettings)

=============================================================================
