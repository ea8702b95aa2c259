----------------------------- MODULE MC_FanOut -----------------------------
(* Three analyzers: one disabled (its nil is pushed by the main loop), one *)
(* whose settings convert to a nil struct, and one that writes its own.    *)
EXTENDS FanOut, TLC

CONSTANTS a1, a2, a3

MCAnalyzers == {a1, a2, a3}
MCDisabled == {a3}
MCNilSettings == {a2}
=============================================================================
