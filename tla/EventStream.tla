---------------------------- MODULE EventStream ----------------------------
(***************************************************************************)
(* What an event source promises its caller (spec 6, "Event source"):      *)
(* Watch(ctx, cb) goes through its input in order, calls cb exactly once   *)
(* for each event and for nothing else, and stops watching only when the   *)
(* context is cancelled or when cb ends the watch (the stop sentinel or an *)
(* error).  How lines reach the loop is left out: this is the abstract     *)
(* specification the JSON watcher (Watcher.tla) is shown to implement.     *)
(***************************************************************************)
EXTENDS Naturals, Sequences

CONSTANTS
    Kinds,        \* what an input item can be
    EventKinds    \* the items that are events and go to cb

VARIABLES
    input,      \* the whole input
    next,       \* how many items of the input have been consumed
    calls,      \* the positions of the items passed to cb, in call order
    watching,   \* Watch has not returned
    cancelled   \* the caller cancelled the context

avars == <<input, next, calls, watching, cancelled>>

Init ==
    /\ input \in Seq(Kinds)
    /\ next = 0
    /\ calls = <<>>
    /\ watching = TRUE
    /\ cancelled = FALSE

(* The next item is consumed: an event goes to cb, which may end the watch; *)
(* any other item is skipped.                                               *)
Consume ==
    /\ watching /\ next < Len(input)
    /\ next' = next + 1
    /\ IF input[next + 1] \in EventKinds
          THEN /\ calls' = Append(calls, next + 1)
               /\ watching' \in BOOLEAN
          ELSE UNCHANGED <<calls, watching>>
    /\ UNCHANGED <<input, cancelled>>

Cancel ==
    /\ ~cancelled
    /\ cancelled' = TRUE
    /\ UNCHANGED <<input, next, calls, watching>>

(* A cancelled watch returns.                                               *)
EndOnCancel ==
    /\ watching /\ cancelled
    /\ watching' = FALSE
    /\ UNCHANGED <<input, next, calls, cancelled>>

Next == Consume \/ Cancel \/ EndOnCancel

Spec == Init /\ [][Next]_avars

(* Progress: while it watches, the source keeps consuming its input (and,  *)
(* once cancelled, returns or keeps consuming).                             *)
FairSpec == Spec /\ WF_avars(Consume) /\ WF_avars(Consume \/ EndOnCancel)

=============================================================================
