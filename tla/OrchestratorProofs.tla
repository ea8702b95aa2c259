------------------------- MODULE OrchestratorProofs -------------------------
(***************************************************************************)
(* Proofs about the orchestrator, for every set of events and comments and *)
(* both values of ExitOnError.                                             *)
(***************************************************************************)
EXTENDS Orchestrator, TLAPS

(* The handler's stage determines where the stored status stands, and a   *)
(* comment handed to the poster but missing from the ledger is always      *)
(* covered by the "posting" marker or by a terminal status.                *)
Exposed ==
    \A e \in Events :
        delivered[e] \ ledger[e] # {} => store[e] \in {"posting"} \cup Terminal

HandlerInv ==
    /\ h.pc # "idle" => h.ev \in Events /\ store[h.ev] \in {"new", "posting"}
    /\ h.pc \in {"analyze", "post"} /\ ~h.safe => store[h.ev] = "new"
    /\ h.pc \in {"posting", "saving"} => store[h.ev] = "posting"
    /\ h.pc = "saving" => h.batch \subseteq delivered[h.ev]

IInv ==
    /\ TypeOK
    /\ NoLostComment
    /\ Exposed
    /\ HandlerInv
    /\ NoUnsafeRepost
-----------------------------------------------------------------------------
(* The type invariant holds initially and is preserved by every step.      *)
LEMMA TypeInit == Init => TypeOK
  BY DEF Init, TypeOK, Handler, Idle, EventStatus, AnalysisStatus, Stage

LEMMA TypeStep == TypeOK /\ [Next]_vars => TypeOK'
  <1> SUFFICES ASSUME TypeOK, [Next]_vars PROVE TypeOK'
    OBVIOUS
  <1> USE DEF TypeOK, Handler, Idle, EventStatus, AnalysisStatus, Stage,
              Terminal
  <1>1. ASSUME NEW e \in Events, HandleEvent(e) PROVE TypeOK'
    <2>1. SaveEvent(store[e]) \in EventStatus
      BY DEF SaveEvent
    <2>2. CASE /\ store' = [store EXCEPT ![e] = SaveEvent(store[e])]
               /\ IF store'[e] \in Terminal
                     THEN UNCHANGED h
                     ELSE h' = [Idle EXCEPT !.ev = e, !.pc = "analyze",
                                            !.safe = (store'[e] = "posting")]
               /\ UNCHANGED <<up, ledger, delivered, provider>>
      <3>1. store' \in [Events -> EventStatus]
        BY <2>1, <2>2
      <3>2. h' \in Handler
        <4>1. CASE store'[e] \in Terminal
          BY <2>2, <4>1
        <4>2. CASE store'[e] \notin Terminal
          <5>1. h' = [Idle EXCEPT !.ev = e, !.pc = "analyze",
                                  !.safe = (store'[e] = "posting")]
            BY <2>2, <4>2, Zenon
          <5>2. QED
            BY <5>1
        <4>3. QED
          BY <4>1, <4>2
      <3>3. QED
        BY <2>2, <3>1, <3>2
    <2>3. CASE /\ UNCHANGED <<store, h, ledger, delivered, provider>>
               /\ up' = FALSE
      BY <2>3
    <2>4. QED
      BY <1>1, <2>2, <2>3 DEF HandleEvent
  <1>2. CASE HandleReview \/ HandlePush
    BY <1>2 DEF HandleReview, HandlePush, Analyze
  <1>3. CASE PostFilter
    <2> DEFINE fresh == h.batch \ ledger[h.ev]
    <2>1. CASE /\ h' = [h EXCEPT !.pc = "finish", !.err = TRUE]
               /\ provider' = [provider EXCEPT ![h.ev] = "error"]
               /\ UNCHANGED <<store, ledger, delivered, up>>
      BY <2>1
    <2>2. CASE /\ h' = [h EXCEPT !.pc = "finish", !.batch = {}]
               /\ provider' = [provider EXCEPT ![h.ev] = "success"]
               /\ UNCHANGED <<store, ledger, delivered, up>>
      BY <2>2
    <2>3. CASE /\ store' = [store EXCEPT ![h.ev] = "posting"]
               /\ h' = [h EXCEPT !.pc = "posting", !.batch = fresh]
               /\ UNCHANGED <<provider, ledger, delivered, up>>
      BY <2>3
    <2>4. QED
      BY <1>3, <2>1, <2>2, <2>3 DEF PostFilter
  <1>4. CASE Post
    <2>1. CASE /\ delivered' = [delivered EXCEPT ![h.ev] = @ \cup h.batch]
               /\ h' = [h EXCEPT !.pc = "saving"]
               /\ UNCHANGED <<provider, store, ledger, up>>
      BY <2>1
    <2>2. ASSUME NEW sent \in SUBSET h.batch,
                 /\ delivered' = [delivered EXCEPT ![h.ev] = @ \cup sent]
                 /\ h' = [h EXCEPT !.pc = "finish", !.err = TRUE]
                 /\ provider' = [provider EXCEPT ![h.ev] = "error"]
                 /\ UNCHANGED <<store, ledger, up>>
          PROVE TypeOK'
      BY <2>2
    <2>3. QED
      BY <1>4, <2>1, <2>2 DEF Post
  <1>5. CASE SaveComments
    <2>1. PICK saved \in SUBSET h.batch :
                 ledger' = [ledger EXCEPT ![h.ev] = @ \cup saved]
      BY <1>5 DEF SaveComments
    <2>2. QED
      BY <1>5, <2>1 DEF SaveComments
  <1>6. CASE Finish
    BY <1>6 DEF Finish
  <1>7. CASE Crash
    BY <1>7 DEF Crash
  <1>8. CASE Restart
    BY <1>8 DEF Restart
  <1>9. CASE UNCHANGED vars
    BY <1>9 DEF vars
  <1>10. QED
    BY <1>1, <1>2, <1>3, <1>4, <1>5, <1>6, <1>7, <1>8, <1>9 DEF Next

(* Type correctness of the orchestrator: every reachable state has the     *)
(* shapes the code's maps and the handler's locals can take.               *)
THEOREM TypeCorrect == Spec => []TypeOK
  BY TypeInit, TypeStep, PTL DEF Spec

-----------------------------------------------------------------------------
LEMMA IInvInit == Init => IInv
  BY TypeInit DEF Init, IInv, NoLostComment, Exposed, HandlerInv,
                  NoUnsafeRepost, Idle

LEMMA IInvStep == IInv /\ [Next]_vars => IInv'
  <1> SUFFICES ASSUME IInv, [Next]_vars PROVE IInv'
    OBVIOUS
  <1>0. TypeOK'
    BY TypeStep DEF IInv
  <1> USE DEF IInv, TypeOK, Handler, Idle, EventStatus, AnalysisStatus,
              Stage, Terminal, NoLostComment, Exposed, HandlerInv,
              NoUnsafeRepost
  <1>1. ASSUME NEW e \in Events, HandleEvent(e) PROVE IInv'
    <2>1. CASE /\ store' = [store EXCEPT ![e] = SaveEvent(store[e])]
               /\ store'[e] \in Terminal
               /\ UNCHANGED <<h, up, ledger, delivered, provider>>
      BY <1>0, <2>1 DEF SaveEvent
    <2>2. CASE /\ store' = [store EXCEPT ![e] = SaveEvent(store[e])]
               /\ store'[e] \notin Terminal
               /\ h' = [Idle EXCEPT !.ev = e, !.pc = "analyze",
                                     !.safe = (store'[e] = "posting")]
               /\ UNCHANGED <<up, ledger, delivered, provider>>
      <3>1. store'[e] \in {"new", "posting"} /\ store' \in [Events -> EventStatus]
        BY <2>2 DEF SaveEvent
      <3>2. Exposed'
        <4>1. SUFFICES ASSUME NEW x \in Events,
                              delivered[x] \ ledger[x] # {}
                       PROVE  store'[x] \in {"posting"} \cup Terminal
          BY <2>2
        <4>2. store[x] \in {"posting"} \cup Terminal
          BY <4>1
        <4>3. QED
          BY <2>2, <4>2 DEF SaveEvent
      <3>3. (NoLostComment /\ HandlerInv /\ NoUnsafeRepost)'
        BY <2>2, <3>1
      <3>4. QED
        BY <1>0, <3>2, <3>3
    <2>3. CASE /\ UNCHANGED <<store, h, ledger, delivered, provider>>
               /\ up' = FALSE
      BY <1>0, <2>3
    <2>4. QED
      BY <1>1, <2>1, <2>2, <2>3 DEF HandleEvent
  <1>2. CASE HandleReview \/ HandlePush
    <2>0. h.pc = "analyze"
      BY <1>2 DEF HandleReview, HandlePush, Analyze
    <2>1. CASE /\ h' = [h EXCEPT !.pc = "finish", !.err = TRUE]
               /\ UNCHANGED <<provider, store, ledger, delivered, up>>
      BY <1>0, <2>0, <2>1
    <2>2. ASSUME NEW result \in SUBSET Comments,
                 /\ provider' = [provider EXCEPT ![h.ev] = "pending"]
                 /\ h' = [h EXCEPT !.pc = "post", !.batch = result]
                 /\ UNCHANGED <<store, ledger, delivered, up>>
          PROVE IInv'
      BY <1>0, <2>0, <2>2
    <2>3. CASE /\ provider' = [provider EXCEPT ![h.ev] = "pending"]
               /\ h' = [h EXCEPT !.pc = "finish", !.err = TRUE]
               /\ UNCHANGED <<store, ledger, delivered, up>>
      BY <1>0, <2>0, <2>3
    <2>4. QED
      BY <1>2, <2>1, <2>2, <2>3 DEF HandleReview, HandlePush, Analyze
  <1>3. CASE PostFilter
    <2> DEFINE fresh == h.batch \ ledger[h.ev]
    <2>0. h.pc = "post" /\ h.ev \in Events
      BY <1>3 DEF PostFilter
    <2>1. CASE /\ h' = [h EXCEPT !.pc = "finish", !.err = TRUE]
               /\ provider' = [provider EXCEPT ![h.ev] = "error"]
               /\ UNCHANGED <<store, ledger, delivered, up>>
      BY <1>0, <2>0, <2>1
    <2>2. CASE /\ h' = [h EXCEPT !.pc = "finish", !.batch = {}]
               /\ provider' = [provider EXCEPT ![h.ev] = "success"]
               /\ UNCHANGED <<store, ledger, delivered, up>>
      BY <1>0, <2>0, <2>2
    <2>3. CASE /\ store' = [store EXCEPT ![h.ev] = "posting"]
               /\ h' = [h EXCEPT !.pc = "posting", !.batch = fresh]
               /\ UNCHANGED <<provider, ledger, delivered, up>>
      <3>1. ~h.safe => fresh \cap delivered[h.ev] = {}
        BY <2>0
      <3>2. QED
        BY <1>0, <2>0, <2>3, <3>1
    <2>4. QED
      BY <1>3, <2>1, <2>2, <2>3 DEF PostFilter
  <1>4. CASE Post
    <2>0. h.pc = "posting" /\ h.ev \in Events
      BY <1>4 DEF Post
    <2>1. CASE /\ delivered' = [delivered EXCEPT ![h.ev] = @ \cup h.batch]
               /\ h' = [h EXCEPT !.pc = "saving"]
               /\ UNCHANGED <<provider, store, ledger, up>>
      BY <1>0, <2>0, <2>1
    <2>2. ASSUME NEW sent \in SUBSET h.batch,
                 /\ delivered' = [delivered EXCEPT ![h.ev] = @ \cup sent]
                 /\ h' = [h EXCEPT !.pc = "finish", !.err = TRUE]
                 /\ provider' = [provider EXCEPT ![h.ev] = "error"]
                 /\ UNCHANGED <<store, ledger, up>>
          PROVE IInv'
      BY <1>0, <2>0, <2>2
    <2>3. QED
      BY <1>4, <2>1, <2>2 DEF Post
  <1>5. CASE SaveComments
    BY <1>0, <1>5 DEF SaveComments
  <1>6. CASE Finish
    BY <1>0, <1>6 DEF Finish
  <1>7. CASE Crash
    BY <1>0, <1>7 DEF Crash
  <1>8. CASE Restart
    BY <1>0, <1>8 DEF Restart
  <1>9. CASE UNCHANGED vars
    BY <1>0, <1>9 DEF vars
  <1>10. QED
    BY <1>1, <1>2, <1>3, <1>4, <1>5, <1>6, <1>7, <1>8, <1>9 DEF Next

(* At-most-once posting across crashes: in every reachable state, a Post   *)
(* about to run outside safePosting mode carries no comment the poster     *)
(* already received for that event.                                        *)
THEOREM SafePosting == Spec => []NoUnsafeRepost
  <1>1. IInv => NoUnsafeRepost
    BY DEF IInv
  <1>2. QED
    BY IInvInit, IInvStep, <1>1, PTL DEF Spec

(* The comment ledger only ever holds comments the poster was handed.     *)
THEOREM LedgerSound == Spec => []NoLostComment
  <1>1. IInv => NoLostComment
    BY DEF IInv
  <1>2. QED
    BY IInvInit, IInvStep, <1>1, PTL DEF Spec

(* The stored event status only moves forward, for every number of events *)
(* and comments: no step of the handler, no crash and no redelivery moves *)
(* an event back or out of a terminal status.                              *)
THEOREM StatusMonotonicity == Spec => StatusMonotonic
  <1>1. IInv /\ [Next]_vars => [\A e \in Events : StatusStep(store[e], store'[e])]_vars
    <2> SUFFICES ASSUME IInv, [Next]_vars
                 PROVE  \A e \in Events : StatusStep(store[e], store'[e])
      OBVIOUS
    <2> USE DEF IInv, TypeOK, Handler, HandlerInv, StatusStep, Terminal
    <2>1. ASSUME NEW e \in Events, HandleEvent(e)
          PROVE  \A x \in Events : StatusStep(store[x], store'[x])
      BY <2>1 DEF HandleEvent, SaveEvent
    <2>2. CASE PostFilter
      BY <2>2 DEF PostFilter
    <2>3. CASE Finish
      BY <2>3 DEF Finish
    <2>4. CASE HandleReview \/ HandlePush \/ Post \/ SaveComments \/ Crash
             \/ Restart \/ UNCHANGED vars
      BY <2>4 DEF HandleReview, HandlePush, Analyze, Post, SaveComments, Crash,
                 Restart, vars
    <2>5. QED
      BY <2>1, <2>2, <2>3, <2>4 DEF Next
  <1>2. QED
    BY IInvInit, IInvStep, <1>1, PTL DEF Spec, StatusMonotonic
=============================================================================
