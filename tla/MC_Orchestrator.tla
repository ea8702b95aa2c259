-------------------------- MODULE MC_Orchestrator --------------------------
(* Two events and two distinct comments: enough for one event to be        *)
(* redelivered after the other and for a batch to be posted in part; one  *)
(* is a review and one a push, so the events are not symmetric.           *)
EXTENDS Orchestrator, TLC

CONSTANTS e1, e2, c1, c2

MCEvents == {e1, e2}
MCComments == {c1, c2}
MCPushes == {e2}
MCSymmetry == Permutations(MCComments)
=============================================================================
