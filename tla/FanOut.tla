------------------------------- MODULE FanOut -------------------------------
(***************************************************************************)
(* Server.concurrentRequest (src/server/server.go) with the `send' closure *)
(* of HandleReview / HandlePush: one goroutine per enabled analyzer, the   *)
(* buffered commentsCh, the unbuffered errCh, the collector's select, the  *)
(* group context cancelled by the deferred cancel() or by the caller, and  *)
(* the per-analyzer timeout.  The closure writes the analyzer's settings   *)
(* into the shared event (e.Configuration) before the RPC marshals it.    *)
(***************************************************************************)
EXTENDS Naturals, Sequences, FiniteSets

CONSTANTS
    Analyzers,    \* the keys of s.analyzers
    Disabled,     \* a.Config.Disabled || conf[name].Disabled
    NilSettings,  \* analyzers whose merged settings give pb.ToStruct = nil
    Timeout,      \* analyzerReviewTimeout / analyzerPushTimeout > 0
    Orig,         \* the event's Configuration before the fan-out
    Nil           \* a nil *AnalyzerComments on commentsCh

ASSUME FanOutAssumption ==
    /\ IsFiniteSet(Analyzers)
    /\ Disabled \subseteq Analyzers
    /\ NilSettings \subseteq Analyzers
    /\ Timeout \in BOOLEAN
    /\ Orig \notin Analyzers
    /\ Nil \notin Analyzers

VARIABLES
    pc,          \* goroutine of each analyzer ("idle": never spawned)
    outcome,     \* what send returned to the goroutine
    cfg,         \* e.Configuration, shared by all goroutines
    sent,        \* the Configuration each analyzer's RPC carried
    commentsCh,  \* buffered channel of *AnalyzerComments
    main,        \* the goroutine running concurrentRequest
    cancelled,   \* the group context is done
    exitOnError  \* s.exitOnError, fixed for the server's lifetime

vars == <<pc, outcome, cfg, sent, commentsCh, main, cancelled, exitOnError>>

N == Cardinality(Analyzers)

(* Mutant: an unbuffered commentsCh.                                      *)
CommentsChUnbuffered == 0

(* make(chan *lookout.AnalyzerComments, len(s.analyzers))                  *)
CommentsChCap == N

Task == {"idle", "start", "call", "inflight", "senderr", "result", "done"}
Outcome == {"none", "comments", "empty", "error"}
Main == [pc: {"spawn", "collect", "returned"}, spawned: SUBSET Analyzers,
         recv: 0..N, collected: SUBSET Analyzers, err: BOOLEAN]

TypeOK ==
    /\ pc \in [Analyzers -> Task]
    /\ outcome \in [Analyzers -> Outcome]
    /\ cfg \in Analyzers \cup {Orig}
    /\ sent \in [Analyzers -> Analyzers \cup {Orig, Nil}]
    /\ commentsCh \in Seq(Analyzers \cup {Nil})
    /\ Len(commentsCh) <= CommentsChCap
    /\ main \in Main
    /\ cancelled \in BOOLEAN
    /\ exitOnError \in BOOLEAN

Init ==
    /\ pc = [a \in Analyzers |-> "idle"]
    /\ outcome = [a \in Analyzers |-> "none"]
    /\ cfg = Orig
    /\ sent = [a \in Analyzers |-> Nil]
    /\ commentsCh = <<>>
    /\ main = [pc |-> "spawn", spawned |-> {}, recv |-> 0,
               collected |-> {}, err |-> FALSE]
    /\ cancelled = FALSE
    /\ exitOnError \in BOOLEAN

-----------------------------------------------------------------------------
(* The range loop over s.analyzers, in Go's random map order: a disabled  *)
(* analyzer gets a nil pushed by the main goroutine (blocking while the   *)
(* buffer is full), an enabled one gets its goroutine.                    *)
Spawn(a) ==
    /\ main.pc = "spawn" /\ a \notin main.spawned
    /\ \/ /\ a \in Disabled
          /\ Len(commentsCh) < CommentsChCap
          /\ commentsCh' = Append(commentsCh, Nil)
          /\ UNCHANGED pc
       \/ /\ a \notin Disabled
          /\ pc' = [pc EXCEPT ![a] = "start"]
          /\ UNCHANGED commentsCh
    /\ main' = [main EXCEPT !.spawned = @ \cup {a}]
    /\ UNCHANGED <<outcome, cfg, sent, cancelled, exitOnError>>

EndSpawn ==
    /\ main.pc = "spawn" /\ main.spawned = Analyzers
    /\ main' = [main EXCEPT !.pc = "collect"]
    /\ UNCHANGED <<pc, outcome, cfg, sent, commentsCh, cancelled, exitOnError>>

(* Mutant: the `if st != nil' guard dropped, a nil struct dereferenced.  *)
WriteConfigurationNoNilCheck(a) ==
    /\ pc[a] = "start"
    /\ cfg' = IF a \in NilSettings THEN Nil ELSE a
    /\ pc' = [pc EXCEPT ![a] = "call"]
    /\ UNCHANGED <<outcome, sent, commentsCh, main, cancelled, exitOnError>>

(* send, up to the RPC: mergeSettings, pb.ToStruct and, when the struct is *)
(* not nil, the write e.Configuration = *st on the shared event.           *)
WriteConfiguration(a) ==
    /\ pc[a] = "start"
    /\ cfg' = IF a \in NilSettings THEN cfg ELSE a
    /\ pc' = [pc EXCEPT ![a] = "call"]
    /\ UNCHANGED <<outcome, sent, commentsCh, main, cancelled, exitOnError>>

(* a.NotifyReviewEvent(ctx, &e.ReviewEvent) marshals the shared event.    *)
Call(a) ==
    /\ pc[a] = "call"
    /\ sent' = [sent EXCEPT ![a] = cfg]
    /\ pc' = [pc EXCEPT ![a] = "inflight"]
    /\ UNCHANGED <<outcome, cfg, commentsCh, main, cancelled, exitOnError>>

(* After send: an error goes to errCh under exitOnError, and the deferred *)
(* push of the result (nil on error or no comments) follows.              *)
AfterSend(a, o) ==
    /\ outcome' = [outcome EXCEPT ![a] = o]
    /\ pc' = [pc EXCEPT ![a] = IF o = "error" /\ exitOnError
                                  THEN "senderr" ELSE "result"]

(* The analyzer answers: comments, no comments, or an RPC error.          *)
Reply(a) ==
    /\ pc[a] = "inflight"
    /\ \E o \in {"comments", "empty", "error"} : AfterSend(a, o)
    /\ UNCHANGED <<cfg, sent, commentsCh, main, cancelled, exitOnError>>

(* The call's context is done: its own deadline (when a timeout is set)   *)
(* or the group context; the RPC returns DeadlineExceeded / Canceled.     *)
Abort(a) ==
    /\ pc[a] = "inflight"
    /\ Timeout \/ cancelled
    /\ AfterSend(a, "error")
    /\ UNCHANGED <<cfg, sent, commentsCh, main, cancelled, exitOnError>>

(* defer func() { commentsCh <- result }()                                 *)
PushResult(a) ==
    /\ pc[a] = "result"
    /\ Len(commentsCh) < CommentsChCap
    /\ commentsCh' = Append(commentsCh,
                            IF outcome[a] = "comments" THEN a ELSE Nil)
    /\ pc' = [pc EXCEPT ![a] = "done"]
    /\ UNCHANGED <<outcome, cfg, sent, main, cancelled, exitOnError>>

(* The collector's select, case cs := <-commentsCh.                        *)
CollectResult ==
    /\ main.pc = "collect" /\ main.recv < N
    /\ commentsCh # <<>>
    /\ commentsCh' = Tail(commentsCh)
    /\ main' = [main EXCEPT !.recv = @ + 1,
                   !.collected = IF Head(commentsCh) = Nil THEN @
                                 ELSE @ \cup {Head(commentsCh)}]
    /\ UNCHANGED <<pc, outcome, cfg, sent, cancelled, exitOnError>>

(* The collector's select, case err := <-errCh: a rendezvous with one     *)
(* goroutine blocked on errCh <- err; return runs the deferred cancel().  *)
CollectError(a) ==
    /\ main.pc = "collect" /\ main.recv < N
    /\ pc[a] = "senderr"
    /\ pc' = [pc EXCEPT ![a] = "result"]
    /\ main' = [main EXCEPT !.pc = "returned", !.err = TRUE]
    /\ cancelled' = TRUE
    /\ UNCHANGED <<outcome, cfg, sent, commentsCh, exitOnError>>

(* Mutant: the collector loop stops one receipt short.                    *)
CollectDoneOffByOne ==
    /\ main.pc = "collect" /\ main.recv = N - 1
    /\ main' = [main EXCEPT !.pc = "returned"]
    /\ cancelled' = TRUE
    /\ UNCHANGED <<pc, outcome, cfg, sent, commentsCh, exitOnError>>

(* All len(s.analyzers) results received: return, and the deferred        *)
(* cancel() cancels the group context.                                    *)
CollectDone ==
    /\ main.pc = "collect" /\ main.recv = N
    /\ main' = [main EXCEPT !.pc = "returned"]
    /\ cancelled' = TRUE
    /\ UNCHANGED <<pc, outcome, cfg, sent, commentsCh, exitOnError>>

(* The caller of HandleEvent cancels the root context.                     *)
RootCancel ==
    /\ ~cancelled
    /\ cancelled' = TRUE
    /\ UNCHANGED <<pc, outcome, cfg, sent, commentsCh, main, exitOnError>>

Collector == CollectResult \/ CollectDone \/ \E a \in Analyzers : CollectError(a)

Next ==
    \/ \E a \in Analyzers :
          \/ Spawn(a)
          \/ WriteConfiguration(a)
          \/ Call(a)
          \/ Reply(a)
          \/ Abort(a)
          \/ PushResult(a)
    \/ EndSpawn
    \/ Collector
    \/ RootCancel

(* Goroutines and the collector are scheduled by the Go runtime; an RPC   *)
(* whose context is done returns.  An analyzer need never answer (Reply   *)
(* has no fairness) and the caller need never cancel.                     *)
Fairness ==
    /\ \A a \in Analyzers :
          /\ WF_vars(Spawn(a))
          /\ WF_vars(WriteConfiguration(a))
          /\ WF_vars(Call(a))
          /\ WF_vars(Abort(a))
          /\ WF_vars(PushResult(a))
    /\ WF_vars(EndSpawn)
    /\ WF_vars(Collector)

Spec == Init /\ [][Next]_vars /\ Fairness

-----------------------------------------------------------------------------
(* The Configuration the RPC of analyzer a should carry: its own merged    *)
(* settings, or the event's own when they convert to a nil struct.         *)
Expected(a) == IF a \in NilSettings THEN Orig ELSE a

(* Each analyzer receives its own settings (spec 4.5: each task computes   *)
(* mergedSettings and invokes send with them), although every goroutine   *)
(* writes them into the one shared event before its RPC reads it.          *)
OwnSettings ==
    \A a \in Analyzers : sent[a] \in {Nil, Expected(a)}

(* A fan-out that returns without error returns the comments of exactly    *)
(* the analyzers that produced some: no result is dropped by the counting  *)
(* of len(s.analyzers) receipts, disabled analyzers' nils included, and no *)
(* analyzer answers after the count is complete.  This holds whatever      *)
(* exitOnError is: an error it swallows becomes a nil result.              *)
ResultComplete ==
    main.pc = "returned" /\ ~main.err =>
        main.collected = {a \in Analyzers : outcome[a] = "comments"}

(* A fan-out that returns without error (always so when exitOnError is    *)
(* unset) returns only after every goroutine it started has finished: no  *)
(* RPC is left in flight.                                                  *)
NoStragglers ==
    main.pc = "returned" /\ ~main.err =>
        \A a \in Analyzers : pc[a] \in {"idle", "done"}

(* concurrentRequest returns, when every RPC has a deadline: no goroutine  *)
(* or the main loop is left blocked on a channel.                          *)
CollectorReturns == <>(main.pc = "returned")

(* Every goroutine the fan-out starts eventually finishes (spec 4.5: after *)
(* the first error the stragglers observe the cancelled context and end).  *)
TasksTerminate ==
    \A a \in Analyzers : (pc[a] = "start") ~> (pc[a] = "done")


=============================================================================
