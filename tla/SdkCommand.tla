---------------------------- MODULE SdkCommand -----------------------------
(***************************************************************************)
(* The lookout-sdk review and push commands (cmd/lookout-sdk): Execute     *)
(* opens the repository, resolves the two revisions, parses the config,    *)
(* builds the data service, starts the data                              *)
(* server in a goroutine that reports on the one-slot channel stopCh,      *)
(* dials the analyzer, for push walks the log from the head to the base,   *)
(* runs HandleReview or HandlePush, stops the data server and returns      *)
(* what the data server goroutine reported.                                *)
(*                                                                         *)
(* The goroutine assigns grpcSrv and stopDataServer reads it with no       *)
(* synchronisation between them: a racy read may return the value before   *)
(* the goroutine's write even after that write (Go memory model), so      *)
(* StopDataServer may see nil whenever the server was not there before    *)
(* the goroutine was started -- that is, always.                           *)
(***************************************************************************)
EXTENDS Naturals, Sequences

CONSTANT MaxCommits   \* longest log from the head revision the model walks

ASSUME SdkAssumption == MaxCommits \in Nat \ {0}

VARIABLES
    cmd,       \* "review" or "push"
    pc,        \* where Execute is
    ret,       \* what Execute returned
    logLen,    \* commits reachable from the head revision, head included
    base,      \* position of the base revision in that log (logLen + 1: absent)
    nxt,       \* position of the next commit log.Next() returns
    commits,   \* the push event's commit count
    handled,   \* result of HandleReview / HandlePush
    stopSaw,   \* what stopDataServer read from grpcSrv
    srvPc,     \* where the data-server goroutine is
    grpcSrv,   \* the grpc.Server the goroutine built, and its state
    out,       \* what startDataServer returned, before it is sent
    stopCh     \* the buffered channel stopCh (capacity 1)

vars == <<cmd, pc, ret, logLen, base, nxt, commits, handled, stopSaw,
          srvPc, grpcSrv, out, stopCh>>

\* Execute's results: nil; its own early errors; HandleReview's error; and
\* what startDataServer returns: a start-up error (proxy server or
\* listener) or grpc.ErrServerStopped.
Result == {"nil", "err", "handleErr", "startErr", "stopped"}

TypeOK ==
    /\ cmd \in {"review", "push"}
    /\ pc \in {"open", "refs", "config", "handler", "spawn", "analyzer",
               "walk", "uuid", "handle", "stop", "wait", "returned"}
    /\ ret \in Result \cup {"none"}
    /\ logLen \in 1..MaxCommits /\ base \in 1..MaxCommits + 1
    /\ nxt \in 1..MaxCommits + 1 /\ commits \in 0..MaxCommits
    /\ handled \in {"none", "ok", "err"}
    /\ stopSaw \in {"none", "nil", "srv"}
    /\ srvPc \in {"idle", "proxy", "listen", "serve", "serving", "send", "done"}
    /\ grpcSrv \in {"nil", "created", "serving", "stopped"}
    /\ out \in Result \cup {"none"}
    /\ stopCh \in Seq(Result) /\ Len(stopCh) <= 1

Init ==
    /\ cmd \in {"review", "push"}
    /\ pc = "open" /\ ret = "none"
    /\ logLen = 1 /\ base = 1 /\ nxt = 1 /\ commits = 0
    /\ handled = "none" /\ stopSaw = "none"
    /\ srvPc = "idle" /\ grpcSrv = "nil" /\ out = "none"
    /\ stopCh = <<>>

\* Execute returns an error early (the data server goroutine, if started,
\* is left as it is).
Fail ==
    /\ pc' = "returned" /\ ret' = "err"

Main == <<pc, ret, logLen, base, nxt, commits, handled, stopSaw>>
Goroutine == <<srvPc, grpcSrv, out, stopCh>>

-----------------------------------------------------------------------------
(* Execute, in order.                                                      *)

\* openRepository: PlainOpenWithOptions succeeds or Execute returns its error.
OpenRepository ==
    /\ pc = "open"
    /\ \/ pc' = "refs" /\ UNCHANGED ret
       \/ Fail
    /\ UNCHANGED <<cmd, logLen, base, nxt, commits, handled, stopSaw>>
    /\ UNCHANGED Goroutine

\* resolveRefs: both revisions resolve (the base is somewhere in the head's
\* log, or not in it at all), or Execute returns the error.
ResolveRefs ==
    /\ pc = "refs"
    /\ \/ /\ pc' = "config"
          /\ \E n \in 1..MaxCommits, b \in 1..MaxCommits + 1 :
                b <= n + 1 /\ logLen' = n /\ base' = b
          /\ UNCHANGED ret
       \/ Fail /\ UNCHANGED <<logLen, base>>
    /\ UNCHANGED <<cmd, nxt, commits, handled, stopSaw>>
    /\ UNCHANGED Goroutine

\* parseConfig: an empty or valid --config-json, or its parse error.
ParseConfig ==
    /\ pc = "config"
    /\ \/ pc' = "handler" /\ UNCHANGED ret
       \/ Fail
    /\ UNCHANGED <<cmd, logLen, base, nxt, commits, handled, stopSaw>>
    /\ UNCHANGED Goroutine

\* makeDataServerHandler: the bblfsh address must resolve, or Execute
\* returns its error; a failed dial of bblfshd only wraps the data service
\* in noBblfshService, which the model does not tell apart.
MakeDataServerHandler ==
    /\ pc = "handler"
    /\ \/ pc' = "spawn" /\ UNCHANGED ret
       \/ Fail
    /\ UNCHANGED <<cmd, logLen, base, nxt, commits, handled, stopSaw>>
    /\ UNCHANGED Goroutine

\* go func() { stopCh <- startDataServer() }()
SpawnDataServer ==
    /\ pc = "spawn"
    /\ pc' = "analyzer" /\ srvPc' = "proxy"
    /\ UNCHANGED <<cmd, ret, logLen, base, nxt, commits, handled, stopSaw>>
    /\ UNCHANGED <<grpcSrv, out, stopCh>>

\* analyzer(): the address resolves and the blocking dial succeeds, or
\* Execute returns.  A push command then walks the log.
Analyzer ==
    /\ pc = "analyzer"
    /\ \/ /\ pc' = (IF cmd = "push" THEN "walk" ELSE "uuid")
          /\ UNCHANGED ret
       \/ Fail
    /\ UNCHANGED <<cmd, logLen, base, nxt, commits, handled, stopSaw>>
    /\ UNCHANGED Goroutine

(* Mutant: the loop has no io.EOF case: past the end of the log Next    *)
(* returns a nil commit and commit.Hash panics.                          *)
WalkLogNoEOF ==
    /\ pc = "walk"
    /\ \/ nxt > logLen /\ pc' = "panicked" /\ UNCHANGED <<ret, nxt, commits>>
       \/ nxt <= logLen /\ Fail /\ UNCHANGED <<nxt, commits>>
       \/ nxt <= logLen /\ nxt = base /\ pc' = "uuid"
          /\ UNCHANGED <<ret, nxt, commits>>
       \/ /\ nxt <= logLen /\ nxt # base
          /\ commits' = commits + 1 /\ nxt' = nxt + 1
          /\ UNCHANGED <<pc, ret>>
    /\ UNCHANGED <<cmd, logLen, base, handled, stopSaw>>
    /\ UNCHANGED Goroutine

(* Mutant: commits++ before the comparison with the base, counting it.   *)
WalkLogCountBase ==
    /\ pc = "walk"
    /\ \/ nxt > logLen /\ Fail /\ UNCHANGED <<nxt, commits>>
       \/ nxt <= logLen /\ Fail /\ UNCHANGED <<nxt, commits>>
       \/ /\ nxt <= logLen /\ nxt = base /\ pc' = "uuid"
          /\ commits' = commits + 1 /\ UNCHANGED <<ret, nxt>>
       \/ /\ nxt <= logLen /\ nxt # base
          /\ commits' = commits + 1 /\ nxt' = nxt + 1
          /\ UNCHANGED <<pc, ret>>
    /\ UNCHANGED <<cmd, logLen, base, handled, stopSaw>>
    /\ UNCHANGED Goroutine

\* One iteration of push's loop over log.Next(): io.EOF (the base is not an
\* ancestor of the head) or another error returns; the base commit ends
\* the walk; any other commit is counted.
WalkLog ==
    /\ pc = "walk"
    /\ \/ nxt > logLen /\ Fail /\ UNCHANGED <<nxt, commits>>
       \/ nxt <= logLen /\ Fail /\ UNCHANGED <<nxt, commits>>
       \/ nxt <= logLen /\ nxt = base /\ pc' = "uuid"
          /\ UNCHANGED <<ret, nxt, commits>>
       \/ /\ nxt <= logLen /\ nxt # base
          /\ commits' = commits + 1 /\ nxt' = nxt + 1
          /\ UNCHANGED <<pc, ret>>
    /\ UNCHANGED <<cmd, logLen, base, handled, stopSaw>>
    /\ UNCHANGED Goroutine

\* uuid.NewV4 can fail.
NewID ==
    /\ pc = "uuid"
    /\ \/ pc' = "handle" /\ UNCHANGED ret
       \/ Fail
    /\ UNCHANGED <<cmd, logLen, base, nxt, commits, handled, stopSaw>>
    /\ UNCHANGED Goroutine

\* srv.HandleReview / srv.HandlePush with ExitOnError: the analyzer's
\* error, or the event's, comes back as err.
Handle ==
    /\ pc = "handle"
    /\ pc' = "stop" /\ handled' \in {"ok", "err"}
    /\ UNCHANGED <<cmd, ret, logLen, base, nxt, commits, stopSaw>>
    /\ UNCHANGED Goroutine

(* Mutant: stopDataServer returns without calling GracefulStop.           *)
StopDataServerNoStop ==
    /\ pc = "stop"
    /\ \/ stopSaw' = "nil"
       \/ grpcSrv # "nil" /\ stopSaw' = "srv"
    /\ IF handled = "err"
          THEN pc' = "returned" /\ ret' = "handleErr"
          ELSE pc' = "wait" /\ UNCHANGED ret
    /\ UNCHANGED <<cmd, logLen, base, nxt, commits, handled>>
    /\ UNCHANGED <<grpcSrv, srvPc, out, stopCh>>

(* Mutant: Execute stops the data server and waits on stopCh without     *)
(* returning HandleReview's error first.                                  *)
StopDataServerIgnoresHandleErr ==
    /\ pc = "stop"
    /\ \/ /\ stopSaw' = "nil"
          /\ UNCHANGED grpcSrv
       \/ /\ grpcSrv # "nil" /\ stopSaw' = "srv"
          /\ grpcSrv' = "stopped"
    /\ pc' = "wait" /\ UNCHANGED ret
    /\ UNCHANGED <<cmd, logLen, base, nxt, commits, handled>>
    /\ UNCHANGED <<srvPc, out, stopCh>>

\* stopDataServer(): if grpcSrv == nil return; grpcSrv.GracefulStop().  The
\* read races with the goroutine's assignment and may see nil.  Then
\* Execute returns HandleReview's error if there is one.
StopDataServer ==
    /\ pc = "stop"
    /\ \/ /\ stopSaw' = "nil"
          /\ UNCHANGED grpcSrv
       \/ /\ grpcSrv # "nil" /\ stopSaw' = "srv"
          /\ grpcSrv' = "stopped"
    /\ IF handled = "err"
          THEN pc' = "returned" /\ ret' = "handleErr"
          ELSE pc' = "wait" /\ UNCHANGED ret
    /\ UNCHANGED <<cmd, logLen, base, nxt, commits, handled>>
    /\ UNCHANGED <<srvPc, out, stopCh>>

\* return <-stopCh
ReceiveStop ==
    /\ pc = "wait" /\ stopCh # <<>>
    /\ pc' = "returned" /\ ret' = Head(stopCh) /\ stopCh' = Tail(stopCh)
    /\ UNCHANGED <<cmd, logLen, base, nxt, commits, handled, stopSaw>>
    /\ UNCHANGED <<srvPc, grpcSrv, out>>

-----------------------------------------------------------------------------
(* startDataServer, in the goroutine.  Its first step, resolving the      *)
(* bblfsh address, cannot fail here: makeDataServerHandler resolved the   *)
(* same address before the goroutine was started.                         *)

\* grpcSrv, err = NewBblfshProxyServer(addr); an error returns at once.
NewProxyServer ==
    /\ srvPc = "proxy"
    /\ \/ srvPc' = "listen" /\ grpcSrv' = "created" /\ UNCHANGED out
       \/ srvPc' = "send" /\ out' = "startErr" /\ UNCHANGED grpcSrv
    /\ UNCHANGED stopCh /\ UNCHANGED Main /\ UNCHANGED cmd

\* pb.Listen(c.DataServer) fails, for one, when the port is taken.
Listen ==
    /\ srvPc = "listen"
    /\ \/ srvPc' = "serve" /\ UNCHANGED out
       \/ srvPc' = "send" /\ out' = "startErr"
    /\ UNCHANGED <<grpcSrv, stopCh>> /\ UNCHANGED Main /\ UNCHANGED cmd

\* grpcSrv.Serve(lis): on a server already stopped it returns
\* ErrServerStopped; otherwise it serves until GracefulStop.
Serve ==
    /\ srvPc = "serve"
    /\ IF grpcSrv = "stopped"
          THEN srvPc' = "send" /\ out' = "stopped" /\ UNCHANGED grpcSrv
          ELSE srvPc' = "serving" /\ grpcSrv' = "serving" /\ UNCHANGED out
    /\ UNCHANGED stopCh /\ UNCHANGED Main /\ UNCHANGED cmd

\* GracefulStop makes a serving Serve return nil.
ServeReturns ==
    /\ srvPc = "serving" /\ grpcSrv = "stopped"
    /\ srvPc' = "send" /\ out' = "nil"
    /\ UNCHANGED <<grpcSrv, stopCh>> /\ UNCHANGED Main /\ UNCHANGED cmd

\* stopCh <- startDataServer(): the channel has room for the one result.
SendResult ==
    /\ srvPc = "send" /\ Len(stopCh) < 1
    /\ stopCh' = Append(stopCh, out) /\ srvPc' = "done"
    /\ UNCHANGED <<grpcSrv, out>> /\ UNCHANGED Main /\ UNCHANGED cmd

-----------------------------------------------------------------------------
Next ==
    \/ OpenRepository \/ ResolveRefs \/ ParseConfig \/ MakeDataServerHandler
    \/ SpawnDataServer \/ Analyzer \/ WalkLog \/ NewID \/ Handle
    \/ StopDataServer \/ ReceiveStop
    \/ NewProxyServer \/ Listen \/ Serve \/ ServeReturns \/ SendResult

(* Both goroutines are runnable whenever their step is enabled and the Go *)
(* scheduler runs each eventually.                                         *)
Fairness ==
    /\ WF_vars(OpenRepository) /\ WF_vars(ResolveRefs) /\ WF_vars(ParseConfig)
    /\ WF_vars(MakeDataServerHandler) /\ WF_vars(SpawnDataServer)
    /\ WF_vars(Analyzer) /\ WF_vars(WalkLog) /\ WF_vars(NewID)
    /\ WF_vars(Handle) /\ WF_vars(StopDataServer) /\ WF_vars(ReceiveStop)
    /\ WF_vars(NewProxyServer) /\ WF_vars(Listen) /\ WF_vars(Serve)
    /\ WF_vars(ServeReturns) /\ WF_vars(SendResult)

Spec == Init /\ [][Next]_vars /\ Fairness

-----------------------------------------------------------------------------
(* push's walk over the log: HandlePush is only reached when the base is an *)
(* ancestor of the head, and the event carries the number of commits after *)
(* the base up to and including the head.                                  *)
CommitsCounted ==
    (cmd = "push" /\ pc \in {"handle", "stop", "wait"}) =>
        /\ base <= logLen
        /\ commits = base - 1

(* When stopDataServer sees the server the goroutine built, Execute        *)
(* returns: GracefulStop ends Serve, or Serve on the stopped server        *)
(* returns at once, and either way the goroutine's result reaches stopCh.  *)
ExecuteReturnsWhenStopSeesServer ==
    [](stopSaw # "nil") => <>(pc = "returned")

(* Execute returns, whatever the order of its goroutines (what a CLI that  *)
(* is run once per event needs).                                           *)
ExecuteReturns ==
    <>(pc = "returned")

(* Execute exits with success only when the review or push succeeded and *)
(* stopDataServer saw and stopped the server: a nil from <-stopCh is the  *)
(* goroutine's Serve ended by that GracefulStop, and HandleReview's error *)
(* is returned before the wait.  Under the racy nil read of grpcSrv the   *)
(* command never reports success.                                          *)
NilReturnMeansSuccess ==
    pc = "returned" /\ ret = "nil" => handled = "ok" /\ stopSaw = "srv"

(* A command whose review or push succeeded and whose data server started *)
(* does not report grpc.ErrServerStopped.                                  *)
NoSpuriousStopError ==
    pc = "returned" => ret # "stopped"

=============================================================================
