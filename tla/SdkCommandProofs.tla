------------------------- MODULE SdkCommandProofs --------------------------
(***************************************************************************)
(* Proofs about the lookout-sdk review and push commands (SdkCommand):     *)
(* the type invariant, push's commit count and the meaning of a nil exit   *)
(* hold in every reachable state, for every MaxCommits.                    *)
(***************************************************************************)
EXTENDS SdkCommand, TLAPS

\* ResolveRefs puts the base in the head's log or one past its end.
BaseInLog == base <= logLen + 1

\* Until the analyzer is dialled, the walk has not started.
BeforeWalk ==
    pc \in {"open", "refs", "config", "handler", "spawn", "analyzer"} =>
        nxt = 1 /\ commits = 0

\* During push's walk every commit before the next one was counted, and the
\* base has not been passed.
Walking ==
    pc = "walk" => cmd = "push" /\ nxt <= base /\ commits = nxt - 1

\* A push past its walk stopped at the base.
Walked ==
    cmd = "push" /\ pc \in {"uuid", "handle", "stop", "wait"} =>
        nxt = base /\ base <= logLen /\ commits = base - 1

\* The goroutine reaches its send with what startDataServer returned.
SentResult ==
    srvPc = "send" => out \in Result

\* The data-server goroutine is started by SpawnDataServer and not before.
GoroutineNotStarted ==
    pc \in {"open", "refs", "config", "handler", "spawn"} => srvPc = "idle"

\* stopCh holds nothing, or the one result of a goroutine that is done.
ChannelHoldsOut ==
    stopCh # <<>> => srvPc = "done" /\ stopCh = <<out>>

\* Until Serve ends, startDataServer has returned nothing.
NoResultYet ==
    srvPc \in {"idle", "proxy", "listen", "serve", "serving"} => out = "none"

\* Execute is past HandleReview when it stops the server, and waits on
\* stopCh only after a successful one.
HandledBeforeWait ==
    /\ pc = "stop" => handled \in {"ok", "err"}
    /\ pc = "wait" => handled = "ok"

\* stopDataServer reads grpcSrv once, as Execute's last step but the wait.
NotYetStopped ==
    pc \notin {"wait", "returned"} => stopSaw = "none"

\* Only stopDataServer's GracefulStop stops the server, and only a stopped
\* server makes Serve return nil.
StoppedBySdk ==
    /\ grpcSrv = "stopped" => stopSaw = "srv"
    /\ out = "nil" => grpcSrv = "stopped"

IInv ==
    /\ TypeOK /\ BaseInLog /\ BeforeWalk /\ Walking /\ Walked
    /\ SentResult /\ GoroutineNotStarted /\ ChannelHoldsOut
    /\ NoResultYet /\ HandledBeforeWait /\ NotYetStopped /\ StoppedBySdk
    /\ NilReturnMeansSuccess


-----------------------------------------------------------------------------
\* Init establishes the inductive invariant.
LEMMA IInvInit == Init => IInv
  <1> SUFFICES ASSUME Init PROVE IInv
    OBVIOUS
  <1>1. stopCh \in Seq(Result) /\ Len(stopCh) <= 1
    BY DEF Init
  <1>2. 1 \in 1..MaxCommits /\ 1 \in 1..MaxCommits + 1 /\ 0 \in 0..MaxCommits
    BY SdkAssumption
  <1>3. TypeOK
    BY <1>1, <1>2 DEF Init, TypeOK, Result
  <1>4. QED
    BY <1>3 DEF Init, IInv, BaseInLog, BeforeWalk, Walking, Walked,
               SentResult, GoroutineNotStarted, ChannelHoldsOut, NoResultYet,
               HandledBeforeWait, NotYetStopped, StoppedBySdk,
               NilReturnMeansSuccess

\* Every step of Execute or of the data-server goroutine keeps it.
LEMMA IInvStep == IInv /\ [Next]_vars => IInv'
  <1> SUFFICES ASSUME IInv, [Next]_vars PROVE IInv'
    OBVIOUS
  <1> USE SdkAssumption
      DEF IInv, TypeOK, Result, BaseInLog, BeforeWalk, Walking, Walked,
          SentResult, GoroutineNotStarted, ChannelHoldsOut, NoResultYet,
          HandledBeforeWait, NotYetStopped, StoppedBySdk,
          NilReturnMeansSuccess, Fail, Main, Goroutine
  <1>1. CASE OpenRepository
    BY <1>1 DEF OpenRepository
  <1>2. CASE ResolveRefs
    BY <1>2 DEF ResolveRefs
  <1>3. CASE ParseConfig
    BY <1>3 DEF ParseConfig
  <1>4. CASE MakeDataServerHandler
    BY <1>4 DEF MakeDataServerHandler
  <1>5. CASE SpawnDataServer
    BY <1>5 DEF SpawnDataServer
  <1>6. CASE Analyzer
    BY <1>6 DEF Analyzer
  <1>7. CASE WalkLog
    BY <1>7 DEF WalkLog
  <1>8. CASE NewID
    BY <1>8 DEF NewID
  <1>9. CASE Handle
    BY <1>9 DEF Handle
  <1>10. CASE StopDataServer
    <2>1. pc = "stop" /\ stopSaw = "none" /\ grpcSrv # "stopped"
          /\ handled \in {"ok", "err"}
      BY <1>10 DEF StopDataServer
    <2>2. CASE stopSaw' = "nil" /\ UNCHANGED grpcSrv
      BY <1>10, <2>1, <2>2 DEF StopDataServer
    <2>3. CASE grpcSrv # "nil" /\ stopSaw' = "srv" /\ grpcSrv' = "stopped"
      BY <1>10, <2>1, <2>3 DEF StopDataServer
    <2>4. QED
      BY <1>10, <2>2, <2>3 DEF StopDataServer
  <1>11. CASE ReceiveStop
    BY <1>11 DEF ReceiveStop
  <1>12. CASE NewProxyServer
    BY <1>12 DEF NewProxyServer
  <1>13. CASE Listen
    BY <1>13 DEF Listen
  <1>14. CASE Serve
    BY <1>14 DEF Serve
  <1>15. CASE ServeReturns
    BY <1>15 DEF ServeReturns
  <1>16. CASE SendResult
    <2>1. stopCh = <<>>
      BY <1>16 DEF SendResult
    <2>2. stopCh' = <<out>> /\ out \in Result \cup {"none"}
      BY <1>16, <2>1 DEF SendResult
    <2>3. out \in Result
      BY <1>16 DEF SendResult, SentResult
    <2>4. stopCh' \in Seq(Result) /\ Len(stopCh') <= 1
      BY <2>2, <2>3
    <2>5. ChannelHoldsOut'
      BY <1>16, <2>2 DEF SendResult
    <2>6. QED
      BY <1>16, <2>4, <2>5 DEF SendResult
  <1>17. CASE UNCHANGED vars
    BY <1>17 DEF vars
  <1>18. QED
    BY <1>1, <1>2, <1>3, <1>4, <1>5, <1>6, <1>7, <1>8, <1>9, <1>10, <1>11,
       <1>12, <1>13, <1>14, <1>15, <1>16, <1>17 DEF Next


\* The inductive invariant holds in every state of a run.
THEOREM InductiveInvariant == Spec => []IInv
  BY IInvInit, IInvStep, PTL DEF Spec

\* Every variable of Execute and of the data-server goroutine keeps its type.
THEOREM TypeCorrect == Spec => []TypeOK
  <1>1. IInv => TypeOK
    BY DEF IInv
  <1>2. QED
    BY InductiveInvariant, <1>1, PTL

\* push's walk of the log: HandlePush is only reached when the base is in
\* the head's log, with the count of the commits above the base.
THEOREM PushCountsCommits == Spec => []CommitsCounted
  <1>1. IInv => CommitsCounted
    BY DEF IInv, Walked, CommitsCounted
  <1>2. QED
    BY InductiveInvariant, <1>1, PTL

\* Execute exits with success only when HandleReview / HandlePush
\* succeeded and stopDataServer saw and stopped the data server, under every
\* interleaving of Execute and the goroutine.
THEOREM NilExitMeansSuccess == Spec => []NilReturnMeansSuccess
  <1>1. IInv => NilReturnMeansSuccess
    BY DEF IInv
  <1>2. QED
    BY InductiveInvariant, <1>1, PTL

=============================================================================
