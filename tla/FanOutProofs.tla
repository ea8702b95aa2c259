--------------------------- MODULE FanOutProofs ----------------------------
(***************************************************************************)
(* Proofs about Server.concurrentRequest (FanOut): the type invariant, and *)
(* that a fan-out returning without error has collected the comments of    *)
(* exactly the analyzers that produced some and left no goroutine running, *)
(* for every finite set of analyzers.                                      *)
(*                                                                         *)
(* The argument counts: every analyzer contributes exactly one value to    *)
(* commentsCh (a nil from the main loop when disabled, the deferred push   *)
(* of its goroutine otherwise), and the collector has received main.recv   *)
(* of them.  When it has received len(s.analyzers), every analyzer has     *)
(* contributed and the channel is empty.                                   *)
(***************************************************************************)
EXTENDS FanOut, FiniteSetTheorems, SequenceTheorems, TLAPS

\* The values on a channel.
Items(s) == {s[i] : i \in 1..Len(s)}

\* The values on commentsCh.
ChanItems == Items(commentsCh)

\* The analyzers that have put their one value on commentsCh.
Pushed == (main.spawned \cap Disabled) \cup {a \in Analyzers : pc[a] = "done"}

\* A disabled analyzer never gets a goroutine.
DisabledIdle == \A a \in Disabled : pc[a] = "idle" /\ outcome[a] = "none"

\* No goroutine runs for an analyzer the range loop has not reached.
Unspawned == \A a \in Analyzers \ main.spawned : pc[a] = "idle"

\* Every value put on commentsCh is either on it or received.
Counted == Cardinality(Pushed) = main.recv + Len(commentsCh)

\* The comments received or on the channel are those of the analyzers that
\* produced comments and pushed them.
CommentsAccounted ==
    main.collected \cup (ChanItems \ {Nil}) =
        {a \in Pushed : outcome[a] = "comments"}

\* The collector returns without error only after len(s.analyzers) receipts.
CleanReturn == main.pc = "returned" /\ ~main.err => main.recv = N

IInv ==
    /\ TypeOK /\ DisabledIdle /\ Unspawned /\ Counted /\ CommentsAccounted
    /\ CleanReturn


-----------------------------------------------------------------------------
(* Lemmas about the channel operations.                                    *)

\* A send appends one value to the channel.
LEMMA ItemsAppend ==
  ASSUME NEW S, NEW s \in Seq(S), NEW x \in S
  PROVE  /\ Append(s, x) \in Seq(S)
         /\ Len(Append(s, x)) = Len(s) + 1
         /\ Items(Append(s, x)) = Items(s) \cup {x}
  <1>1. PICK n \in Nat : n = Len(s)
    BY LenProperties
  <1>2. /\ Append(s, x) \in Seq(S)
        /\ Len(Append(s, x)) = n + 1
        /\ \A i \in 1..n : Append(s, x)[i] = s[i]
        /\ Append(s, x)[n + 1] = x
    BY <1>1, AppendProperties
  <1>3. 1..(n + 1) = (1..n) \cup {n + 1}
    BY <1>1
  <1>4. QED
    BY <1>1, <1>2, <1>3 DEF Items

\* A receive takes the head off a non-empty channel.
LEMMA ItemsTail ==
  ASSUME NEW S, NEW s \in Seq(S), s # << >>
  PROVE  /\ Head(s) \in S
         /\ Tail(s) \in Seq(S)
         /\ Len(Tail(s)) = Len(s) - 1
         /\ Items(s) = {Head(s)} \cup Items(Tail(s))
  <1>1. PICK n \in Nat : n = Len(s)
    BY LenProperties
  <1>2. n # 0
    BY <1>1, EmptySeq
  <1>3. /\ Head(s) \in S /\ Tail(s) \in Seq(S) /\ Len(Tail(s)) = n - 1
        /\ \A i \in 1..(n - 1) : Tail(s)[i] = s[i + 1]
    BY <1>1, HeadTailProperties
  <1>4. Head(s) = s[1]
    BY <1>1, <1>2
  <1>5. 1..n = {1} \cup {i + 1 : i \in 1..(n - 1)}
    BY <1>1, <1>2
  <1>6. QED
    BY <1>1, <1>3, <1>4, <1>5 DEF Items

\* The analyzers that have pushed form a finite set of analyzers.
LEMMA PushedFinite ==
  ASSUME NEW P \in SUBSET Analyzers
  PROVE  IsFiniteSet(P) /\ Cardinality(P) \in Nat /\ Cardinality(P) <= N
  BY FanOutAssumption, FS_Subset, FS_CardinalityType DEF N

\* len(s.analyzers), the capacity of commentsCh, is a natural number.
LEMMA NType == N \in Nat
  BY FanOutAssumption, FS_CardinalityType DEF N

\* Adding an analyzer that had not pushed adds one to the count.
LEMMA PushOne ==
  ASSUME NEW P \in SUBSET Analyzers, NEW a \in Analyzers, a \notin P
  PROVE  Cardinality(P \cup {a}) = Cardinality(P) + 1
  BY PushedFinite, FS_AddElement


-----------------------------------------------------------------------------
(* The inductive invariant: Init establishes it, and each step keeps it.   *)

LEMMA IInvInit == Init => IInv
  <1> SUFFICES ASSUME Init PROVE IInv
    OBVIOUS
  <1>1. N \in Nat
    BY NType
  <1>2. Pushed = {} /\ ChanItems = {} /\ Len(commentsCh) = 0
    BY DEF Init, Pushed, ChanItems, Items
  <1>3. Cardinality(Pushed) = 0
    BY <1>2, FS_EmptySet
  <1>4. TypeOK
    <2>1. commentsCh \in Seq(Analyzers \cup {Nil})
          /\ Len(commentsCh) <= CommentsChCap
      BY <1>1, <1>2 DEF Init, CommentsChCap
    <2>2. main \in Main
      BY <1>1 DEF Init, Main
    <2>3. /\ pc \in [Analyzers -> Task] /\ outcome \in [Analyzers -> Outcome]
          /\ sent \in [Analyzers -> Analyzers \cup {Orig, Nil}]
      BY DEF Init, Task, Outcome
    <2>4. QED
      BY <2>1, <2>2, <2>3 DEF Init, TypeOK
  <1>5. QED
    BY <1>2, <1>3, <1>4, FanOutAssumption
    DEF Init, IInv, DisabledIdle, Unspawned, Counted, CommentsAccounted,
        CleanReturn

\* The range loop pushes a disabled analyzer's nil, or starts a goroutine.
LEMMA SpawnStep ==
  ASSUME IInv, NEW a \in Analyzers, Spawn(a) PROVE IInv'
  <1>1. a \notin main.spawned /\ pc[a] = "idle" /\ a \notin Pushed
    BY DEF Spawn, IInv, Unspawned, Pushed
  <1>2. main' = [main EXCEPT !.spawned = @ \cup {a}] /\ main' \in Main
    BY DEF Spawn, IInv, TypeOK, Main
  <1>3. Pushed \subseteq Analyzers /\ Pushed' \subseteq Analyzers
    BY <1>2 DEF Pushed, IInv, TypeOK, Main
  <1>4. CASE a \in Disabled
    <2>1. /\ Len(commentsCh) < CommentsChCap
          /\ commentsCh' = Append(commentsCh, Nil)
          /\ UNCHANGED <<pc, outcome, cfg, sent, cancelled, exitOnError>>
      BY <1>4 DEF Spawn
    <2>2. /\ commentsCh' \in Seq(Analyzers \cup {Nil})
          /\ Len(commentsCh') = Len(commentsCh) + 1
          /\ ChanItems' = ChanItems \cup {Nil}
      BY <2>1, ItemsAppend DEF IInv, TypeOK, ChanItems
    <2>3. Pushed' = Pushed \cup {a}
      BY <1>2, <1>4, <2>1 DEF Pushed
    <2>4. Counted'
      <3>1. Cardinality(Pushed') = Cardinality(Pushed) + 1
        BY <1>1, <1>3, <2>3, PushOne
      <3>2. main'.recv = main.recv /\ main.recv \in Nat
        BY <1>2, NType DEF IInv, TypeOK, Main
      <3>4. Len(commentsCh) \in Nat
        BY LenProperties DEF IInv, TypeOK
      <3>3. QED
        BY <2>2, <3>1, <3>2, <3>4 DEF Counted, IInv
    <2>5. outcome[a] = "none"
      BY <1>4 DEF IInv, DisabledIdle
    <2>6. CommentsAccounted'
      BY <1>2, <2>1, <2>2, <2>3, <2>5 DEF CommentsAccounted, IInv
    <2>7. Len(commentsCh') <= CommentsChCap
      BY <2>1, <2>2, NType, LenProperties DEF CommentsChCap, IInv, TypeOK
    <2>8. TypeOK'
      BY <1>2, <2>1, <2>2, <2>7 DEF IInv, TypeOK
    <2>9. QED
      BY <1>2, <2>1, <2>4, <2>6, <2>8
      DEF IInv, DisabledIdle, Unspawned, CleanReturn
  <1>5. CASE a \notin Disabled
    <2>1. /\ pc' = [pc EXCEPT ![a] = "start"]
          /\ UNCHANGED <<commentsCh, outcome, cfg, sent, cancelled, exitOnError>>
      BY <1>5 DEF Spawn
    <2>2. Pushed' = Pushed
      BY <1>1, <1>2, <1>5, <2>1 DEF Pushed, IInv, TypeOK
    <2>3. TypeOK'
      BY <1>2, <2>1 DEF IInv, TypeOK, Task
    <2>4. QED
      BY <1>1, <1>2, <1>5, <2>1, <2>2, <2>3
      DEF IInv, DisabledIdle, Unspawned, Counted, CommentsAccounted,
          CleanReturn, ChanItems, TypeOK
  <1>6. QED
    BY <1>4, <1>5


\* A step of one goroutine between spawning and pushing its result, which
\* may record what send returned, leaves the count and the comments alone.
LEMMA LocalStep ==
  ASSUME IInv, NEW a \in Analyzers, NEW t \in Task \ {"idle", "done"},
         NEW o \in Outcome, pc[a] \notin {"idle", "done"},
         pc' = [pc EXCEPT ![a] = t], outcome' = [outcome EXCEPT ![a] = o],
         cfg' \in Analyzers \cup {Orig},
         sent' \in [Analyzers -> Analyzers \cup {Orig, Nil}],
         cancelled' \in BOOLEAN,
         UNCHANGED <<commentsCh, main, exitOnError>>
  PROVE  IInv'
  <1>1. a \notin Disabled /\ a \in main.spawned
    BY DEF IInv, DisabledIdle, Unspawned
  <1>2. Pushed' = Pushed /\ a \notin Pushed
    BY <1>1 DEF Pushed, IInv, TypeOK
  <1>3. TypeOK'
    BY DEF IInv, TypeOK
  <1>4. DisabledIdle' /\ Unspawned'
    BY <1>1 DEF IInv, DisabledIdle, Unspawned, TypeOK
  <1>5. CommentsAccounted'
    BY <1>2 DEF IInv, CommentsAccounted, ChanItems, TypeOK
  <1>6. QED
    BY <1>2, <1>3, <1>4, <1>5 DEF IInv, Counted, CleanReturn

\* send writes the analyzer's settings into the shared event.
LEMMA WriteConfigurationStep ==
  ASSUME IInv, NEW a \in Analyzers, WriteConfiguration(a) PROVE IInv'
  <1>1. outcome' = [outcome EXCEPT ![a] = outcome[a]]
    BY DEF WriteConfiguration, IInv, TypeOK
  <1>2. cfg' \in Analyzers \cup {Orig}
    BY DEF WriteConfiguration, IInv, TypeOK
  <1>3. QED
    BY <1>1, <1>2, LocalStep DEF WriteConfiguration, IInv, TypeOK, Task,
       Outcome

\* The RPC marshals the shared event.
LEMMA CallStep ==
  ASSUME IInv, NEW a \in Analyzers, Call(a) PROVE IInv'
  <1>1. outcome' = [outcome EXCEPT ![a] = outcome[a]]
    BY DEF Call, IInv, TypeOK
  <1>2. sent' \in [Analyzers -> Analyzers \cup {Orig, Nil}]
    BY DEF Call, IInv, TypeOK
  <1>3. QED
    BY <1>1, <1>2, LocalStep DEF Call, IInv, TypeOK, Task, Outcome

\* The analyzer answers, or the call's context is done.
LEMMA AfterSendStep ==
  ASSUME IInv, NEW a \in Analyzers, NEW o \in {"comments", "empty", "error"},
         pc[a] = "inflight", AfterSend(a, o),
         UNCHANGED <<cfg, sent, commentsCh, main, cancelled, exitOnError>>
  PROVE  IInv'
  <1>1. (IF o = "error" /\ exitOnError THEN "senderr" ELSE "result")
          \in Task \ {"idle", "done"}
    BY DEF Task
  <1>2. QED
    BY <1>1, LocalStep DEF AfterSend, IInv, TypeOK, Outcome

LEMMA ReplyStep ==
  ASSUME IInv, NEW a \in Analyzers, Reply(a) PROVE IInv'
  BY AfterSendStep DEF Reply

LEMMA AbortStep ==
  ASSUME IInv, NEW a \in Analyzers, Abort(a) PROVE IInv'
  BY AfterSendStep DEF Abort


\* The deferred push of the goroutine's result.
LEMMA PushResultStep ==
  ASSUME IInv, NEW a \in Analyzers, PushResult(a) PROVE IInv'
  <1> DEFINE x == IF outcome[a] = "comments" THEN a ELSE Nil
  <1>1. a \notin Disabled /\ a \in main.spawned /\ a \notin Pushed
    BY DEF PushResult, IInv, DisabledIdle, Unspawned, Pushed
  <1>2. /\ Len(commentsCh) < CommentsChCap
        /\ commentsCh' = Append(commentsCh, x)
        /\ pc' = [pc EXCEPT ![a] = "done"]
        /\ UNCHANGED <<outcome, cfg, sent, main, cancelled, exitOnError>>
    BY DEF PushResult
  <1>3. /\ commentsCh' \in Seq(Analyzers \cup {Nil})
        /\ Len(commentsCh') = Len(commentsCh) + 1
        /\ ChanItems' = ChanItems \cup {x}
    BY <1>2, ItemsAppend DEF IInv, TypeOK, ChanItems
  <1>4. Pushed' = Pushed \cup {a} /\ Pushed \subseteq Analyzers
    <2>1. main'.spawned = main.spawned /\ main.spawned \subseteq Analyzers
      BY <1>2 DEF IInv, TypeOK, Main
    <2>2. {b \in Analyzers : pc'[b] = "done"} =
          {b \in Analyzers : pc[b] = "done"} \cup {a}
      BY <1>2 DEF IInv, TypeOK
    <2>3. QED
      BY <2>1, <2>2 DEF Pushed
  <1>5. Counted'
    <2>1. Cardinality(Pushed') = Cardinality(Pushed) + 1
      BY <1>1, <1>4, PushOne
    <2>2. Len(commentsCh) \in Nat /\ main.recv \in Nat
      BY LenProperties, NType DEF IInv, TypeOK, Main
    <2>3. main'.recv = main.recv
      BY <1>2
    <2>4. QED
      BY <1>3, <2>1, <2>2, <2>3 DEF Counted, IInv
  <1>6. CommentsAccounted'
    <2>1. a # Nil
      BY FanOutAssumption
    <2>2. QED
      BY <1>2, <1>3, <1>4, <2>1 DEF CommentsAccounted, IInv
  <1>7. TypeOK'
    <2>1. Len(commentsCh') <= CommentsChCap
      BY <1>2, <1>3, NType, LenProperties DEF CommentsChCap, IInv, TypeOK
    <2>2. QED
      BY <1>2, <1>3, <2>1 DEF IInv, TypeOK, Task
  <1>8. QED
    BY <1>1, <1>2, <1>5, <1>6, <1>7
    DEF IInv, DisabledIdle, Unspawned, CleanReturn, TypeOK

\* The collector receives one value from commentsCh.
LEMMA CollectResultStep ==
  ASSUME IInv, CollectResult PROVE IInv'
  <1> DEFINE h == Head(commentsCh)
  <1>1. /\ main.pc = "collect" /\ main.recv < N /\ commentsCh # << >>
        /\ commentsCh' = Tail(commentsCh)
        /\ main' = [main EXCEPT !.recv = @ + 1,
                       !.collected = IF h = Nil THEN @ ELSE @ \cup {h}]
        /\ UNCHANGED <<pc, outcome, cfg, sent, cancelled, exitOnError>>
    BY DEF CollectResult
  <1>2. /\ h \in Analyzers \cup {Nil}
        /\ commentsCh' \in Seq(Analyzers \cup {Nil})
        /\ Len(commentsCh') = Len(commentsCh) - 1
        /\ ChanItems = {h} \cup ChanItems'
    BY <1>1, ItemsTail DEF IInv, TypeOK, ChanItems
  <1>3. /\ main'.recv = main.recv + 1 /\ main'.pc = main.pc
        /\ main'.err = main.err /\ main'.spawned = main.spawned
        /\ main'.collected = IF h = Nil THEN main.collected
                             ELSE main.collected \cup {h}
    BY <1>1 DEF IInv, TypeOK, Main
  <1>4. main' \in Main
    <2>1. main.recv + 1 \in 0..N
      BY <1>1, NType DEF IInv, TypeOK, Main
    <2>2. main'.collected \in SUBSET Analyzers
      BY <1>2, <1>3 DEF IInv, TypeOK, Main
    <2>3. QED
      BY <1>1, <1>3, <2>1, <2>2 DEF IInv, TypeOK, Main
  <1>5. Pushed' = Pushed
    BY <1>1, <1>3 DEF Pushed
  <1>6. Counted'
    <2>1. Len(commentsCh) \in Nat /\ main.recv \in Nat
      BY LenProperties, NType DEF IInv, TypeOK, Main
    <2>2. QED
      BY <1>2, <1>3, <1>5, <2>1 DEF Counted, IInv
  <1>7. CommentsAccounted'
    BY <1>1, <1>2, <1>3, <1>5 DEF CommentsAccounted, IInv
  <1>8. TypeOK'
    <2>1. Len(commentsCh') <= CommentsChCap
      BY <1>2, LenProperties, NType DEF IInv, TypeOK, CommentsChCap
    <2>2. QED
      BY <1>1, <1>2, <1>4, <2>1 DEF IInv, TypeOK
  <1>9. QED
    BY <1>1, <1>3, <1>6, <1>7, <1>8
    DEF IInv, DisabledIdle, Unspawned, CleanReturn


\* The collector takes an error from errCh and returns it.
LEMMA CollectErrorStep ==
  ASSUME IInv, NEW a \in Analyzers, CollectError(a) PROVE IInv'
  <1>1. a \notin Disabled /\ a \in main.spawned /\ a \notin Pushed
    BY DEF CollectError, IInv, DisabledIdle, Unspawned, Pushed
  <1>2. /\ main' = [main EXCEPT !.pc = "returned", !.err = TRUE]
        /\ main' \in Main
        /\ main'.spawned = main.spawned /\ main'.recv = main.recv
        /\ main'.collected = main.collected /\ main'.err
    BY DEF CollectError, IInv, TypeOK, Main
  <1>3. Pushed' = Pushed
    BY <1>1, <1>2 DEF CollectError, Pushed, IInv, TypeOK
  <1>4. TypeOK'
    BY <1>2 DEF CollectError, IInv, TypeOK, Task
  <1>5. QED
    BY <1>1, <1>2, <1>3, <1>4
    DEF CollectError, IInv, DisabledIdle, Unspawned, Counted,
        CommentsAccounted, CleanReturn, ChanItems, TypeOK

\* All len(s.analyzers) values received: the collector returns.
LEMMA CollectDoneStep ==
  ASSUME IInv, CollectDone PROVE IInv'
  <1>1. /\ main' = [main EXCEPT !.pc = "returned"] /\ main' \in Main
        /\ main'.spawned = main.spawned /\ main'.recv = N
        /\ main'.recv = main.recv /\ main'.collected = main.collected
    BY DEF CollectDone, IInv, TypeOK, Main
  <1>2. Pushed' = Pushed
    BY <1>1 DEF CollectDone, Pushed
  <1>3. QED
    BY <1>1, <1>2
    DEF CollectDone, IInv, TypeOK, DisabledIdle, Unspawned, Counted,
        CommentsAccounted, CleanReturn, ChanItems

\* The range loop ends.
LEMMA EndSpawnStep ==
  ASSUME IInv, EndSpawn PROVE IInv'
  <1>1. /\ main' = [main EXCEPT !.pc = "collect"] /\ main' \in Main
        /\ main'.spawned = main.spawned /\ main'.recv = main.recv
        /\ main'.collected = main.collected
    BY DEF EndSpawn, IInv, TypeOK, Main
  <1>2. Pushed' = Pushed
    BY <1>1 DEF EndSpawn, Pushed
  <1>3. QED
    BY <1>1, <1>2
    DEF EndSpawn, IInv, TypeOK, DisabledIdle, Unspawned, Counted,
        CommentsAccounted, CleanReturn, ChanItems

LEMMA IInvStep == IInv /\ [Next]_vars => IInv'
  <1> SUFFICES ASSUME IInv, [Next]_vars PROVE IInv'
    OBVIOUS
  <1>1. ASSUME NEW a \in Analyzers,
               \/ Spawn(a) \/ WriteConfiguration(a) \/ Call(a)
               \/ Reply(a) \/ Abort(a) \/ PushResult(a)
        PROVE  IInv'
    BY <1>1, SpawnStep, WriteConfigurationStep, CallStep, ReplyStep,
       AbortStep, PushResultStep
  <1>2. CASE EndSpawn
    BY <1>2, EndSpawnStep
  <1>3. CASE Collector
    BY <1>3, CollectResultStep, CollectDoneStep, CollectErrorStep
    DEF Collector
  <1>4. CASE RootCancel
    BY <1>4 DEF RootCancel, IInv, TypeOK, DisabledIdle, Unspawned, Counted,
       CommentsAccounted, CleanReturn, ChanItems, Pushed
  <1>5. CASE UNCHANGED vars
    BY <1>5 DEF vars, IInv, TypeOK, DisabledIdle, Unspawned, Counted,
       CommentsAccounted, CleanReturn, ChanItems, Pushed
  <1>6. QED
    BY <1>1, <1>2, <1>3, <1>4, <1>5 DEF Next

-----------------------------------------------------------------------------
(* After len(s.analyzers) receipts every analyzer has contributed and the *)
(* channel is empty.                                                       *)
LEMMA AllPushed ==
  ASSUME IInv, main.recv = N
  PROVE  Pushed = Analyzers /\ ChanItems = {}
  <1>1. Pushed \subseteq Analyzers
    BY DEF Pushed, IInv, TypeOK, Main
  <1>2. IsFiniteSet(Pushed) /\ Cardinality(Pushed) <= N
    BY <1>1, PushedFinite
  <1>3. Len(commentsCh) = 0
    BY <1>2, NType, LenProperties DEF IInv, Counted, TypeOK
  <1>4. Cardinality(Pushed) = N
    BY <1>3, NType DEF IInv, Counted
  <1>5. Pushed = Analyzers
    BY <1>1, <1>4, FanOutAssumption, FS_Subset DEF N
  <1>6. QED
    BY <1>3, <1>5 DEF ChanItems, Items

\* Spec => []IInv.
THEOREM InductiveInvariant == Spec => []IInv
  BY IInvInit, IInvStep, PTL DEF Spec

\* The channel, the goroutines' states and the collector's record keep
\* their types; in particular commentsCh never holds more than
\* len(s.analyzers) values.
THEOREM TypeCorrect == Spec => []TypeOK
  <1>1. IInv => TypeOK
    BY DEF IInv
  <1>2. QED
    BY InductiveInvariant, <1>1, PTL

\* A fan-out that returns without error has collected the comments of
\* exactly the analyzers that produced some, for any set of analyzers and
\* either value of exitOnError.
THEOREM CollectsAllComments == Spec => []ResultComplete
  <1>1. IInv => ResultComplete
    <2> SUFFICES ASSUME IInv, main.pc = "returned", ~main.err
                 PROVE  main.collected = {a \in Analyzers : outcome[a] = "comments"}
      BY DEF ResultComplete
    <2>1. Pushed = Analyzers /\ ChanItems = {}
      BY AllPushed DEF IInv, CleanReturn
    <2>2. QED
      BY <2>1 DEF IInv, CommentsAccounted
  <1>2. QED
    BY InductiveInvariant, <1>1, PTL

\* A fan-out that returns without error leaves no goroutine running.
THEOREM NoGoroutineOutlives == Spec => []NoStragglers
  <1>1. IInv => NoStragglers
    <2> SUFFICES ASSUME IInv, main.pc = "returned", ~main.err,
                        NEW a \in Analyzers
                 PROVE  pc[a] \in {"idle", "done"}
      BY DEF NoStragglers
    <2>1. a \in Pushed
      BY AllPushed DEF IInv, CleanReturn
    <2>2. QED
      BY <2>1 DEF Pushed, IInv, DisabledIdle
  <1>2. QED
    BY InductiveInvariant, <1>1, PTL

=============================================================================
