---------------------------- MODULE Orchestrator ----------------------------
(***************************************************************************)
(* The event orchestration engine of lookout (src/server/server.go): one   *)
(* HandleEvent invocation at a time (the JSON watcher calls its callback   *)
(* synchronously), each split into the steps between which the process may *)
(* crash or a store / poster call may fail:                                *)
(*                                                                         *)
(*   HandleEvent:  eventOp.Save, early returns on processed / failed       *)
(*   HandleReview: Validate, getConfig, getOrgConfig, status(pending),     *)
(*                 concurrentRequest                                       *)
(*   post:         Dedup + Filter(commentOp.Posted), UpdateStatus(posting) *)
(*                 poster.Post, commentOp.Save per comment                 *)
(*   HandleReview: status(success) / status(error)                         *)
(*   HandleEvent:  eventOp.UpdateStatus(processed | failed), return        *)
(*                                                                         *)
(* The event store and the comment ledger are the persistence contracts   *)
(* (EventOperator, CommentOperator); they survive a crash.  `delivered' is *)
(* the provider's side: every comment the Poster has been handed.          *)
(***************************************************************************)
EXTENDS FiniteSets

CONSTANTS
    Events,       \* InternalIDs of the events the provider can deliver
    Pushes,       \* those of them that are *lookout.PushEvent (the rest: reviews)
    Comments,     \* comments up to dedup equivalence: (file, line, text)
    ExitOnError,  \* Options.ExitOnError
    NoEvent       \* the handler is not running any event

ASSUME OrchestratorAssumption ==
    /\ ExitOnError \in BOOLEAN
    /\ Pushes \subseteq Events
    /\ NoEvent \notin Events

VARIABLES
    store,      \* EventOperator: InternalID -> models.EventStatus ("none": no row)
    ledger,     \* CommentOperator: InternalID -> comments saved as posted
    delivered,  \* provider side: InternalID -> comments handed to Poster.Post
    provider,   \* provider side: last Poster.Status of each event
    up,         \* the watcher (and the process) is running
    h           \* the HandleEvent invocation in progress

vars == <<store, ledger, delivered, provider, up, h>>

EventStatus == {"none", "new", "posting", "processed", "failed"}
Terminal == {"processed", "failed"}
AnalysisStatus == {"none", "pending", "success", "error"}
Stage == {"idle", "analyze", "post", "posting", "saving", "finish"}

Handler == [ev: Events \cup {NoEvent}, pc: Stage, safe: BOOLEAN,
            batch: SUBSET Comments, err: BOOLEAN]

Idle == [ev |-> NoEvent, pc |-> "idle", safe |-> FALSE,
         batch |-> {}, err |-> FALSE]

TypeOK ==
    /\ store \in [Events -> EventStatus]
    /\ ledger \in [Events -> SUBSET Comments]
    /\ delivered \in [Events -> SUBSET Comments]
    /\ provider \in [Events -> AnalysisStatus]
    /\ up \in BOOLEAN
    /\ h \in Handler

Init ==
    /\ store = [e \in Events |-> "none"]
    /\ ledger = [e \in Events |-> {}]
    /\ delivered = [e \in Events |-> {}]
    /\ provider = [e \in Events |-> "none"]
    /\ up = TRUE
    /\ h = Idle

-----------------------------------------------------------------------------
(* MemEventOperator.Save: creates the row at "new" on first sight and      *)
(* returns the current status.                                             *)
SaveEvent(s) == IF s = "none" THEN "new" ELSE s

(* Mutant: HandleEvent without the early return on a failed event, i.e. *)
(* a retry policy for failed events (the TODO above the check).           *)
HandleEventRetryFailed(e) ==
    /\ up /\ h.pc = "idle"
    /\ store' = [store EXCEPT ![e] = SaveEvent(store[e])]
    /\ IF store'[e] = "processed"
          THEN UNCHANGED h
          ELSE h' = [Idle EXCEPT !.ev = e, !.pc = "analyze",
                                 !.safe = (store'[e] = "posting")]
    /\ UNCHANGED <<up, ledger, delivered, provider>>

(* HandleEvent up to the type switch.  The provider delivers event e (a    *)
(* first delivery or a redelivery).  A failed eventOp.Save returns the     *)
(* error whatever ExitOnError says, and the watcher returns it.            *)
HandleEvent(e) ==
    /\ up /\ h.pc = "idle"
    /\ \/ /\ store' = [store EXCEPT ![e] = SaveEvent(store[e])]
          /\ IF store'[e] \in Terminal
                THEN UNCHANGED h
                ELSE h' = [Idle EXCEPT !.ev = e, !.pc = "analyze",
                                       !.safe = (store'[e] = "posting")]
          /\ UNCHANGED up
       \/ /\ UNCHANGED <<store, h>>
          /\ up' = FALSE
    /\ UNCHANGED <<ledger, delivered, provider>>

(* What HandleReview and HandlePush share until concurrentRequest         *)
(* returns: Validate, getConfig and getOrgConfig may fail before any       *)
(* status is posted; otherwise status(pending) is posted and the analyzers *)
(* return some set of comments, or, under ExitOnError, the first analyzer  *)
(* error.                                                                  *)
Analyze ==
    /\ up /\ h.pc = "analyze"
    /\ \/ h' = [h EXCEPT !.pc = "finish", !.err = TRUE]
          /\ UNCHANGED provider
       \/ /\ provider' = [provider EXCEPT ![h.ev] = "pending"]
          /\ \/ \E result \in SUBSET Comments :
                   h' = [h EXCEPT !.pc = "post", !.batch = result]
             \/ /\ ExitOnError
                /\ h' = [h EXCEPT !.pc = "finish", !.err = TRUE]
    /\ UNCHANGED <<store, ledger, delivered, up>>

(* The type switch of HandleEvent sends a review to HandleReview ...       *)
HandleReview == h.ev \notin Pushes /\ Analyze

(* ... and a push to HandlePush.                                           *)
HandlePush == h.ev \in Pushes /\ Analyze

(* Mutant: post without UpdateStatus(posting) before poster.Post.        *)
PostFilterNoMarker ==
    /\ up /\ h.pc = "post"
    /\ LET fresh == h.batch \ ledger[h.ev] IN
       \/ /\ fresh = {}
          /\ h' = [h EXCEPT !.pc = "finish", !.batch = {}]
          /\ provider' = [provider EXCEPT ![h.ev] = "success"]
       \/ /\ fresh # {}
          /\ h' = [h EXCEPT !.pc = "posting", !.batch = fresh]
          /\ UNCHANGED provider
    /\ UNCHANGED <<store, ledger, delivered, up>>

(* Mutant: the comments are saved in the ledger before they are posted.   *)
PostFilterSaveFirst ==
    /\ up /\ h.pc = "post"
    /\ LET fresh == h.batch \ ledger[h.ev] IN
       \/ /\ fresh = {}
          /\ h' = [h EXCEPT !.pc = "finish", !.batch = {}]
          /\ provider' = [provider EXCEPT ![h.ev] = "success"]
          /\ UNCHANGED <<store, ledger>>
       \/ /\ fresh # {}
          /\ store' = [store EXCEPT ![h.ev] = "posting"]
          /\ ledger' = [ledger EXCEPT ![h.ev] = @ \cup fresh]
          /\ h' = [h EXCEPT !.pc = "posting", !.batch = fresh]
          /\ UNCHANGED provider
    /\ UNCHANGED <<delivered, up>>

(* post, up to the call of the poster: Dedup, then Filter through          *)
(* commentOp.Posted (which may fail); nothing left means success without   *)
(* posting; otherwise UpdateStatus(posting) (which may fail) before Post.  *)
(* Each error return makes HandleReview post status(error); both calls    *)
(* are made only for a non-empty batch.                                    *)
PostFilter ==
    /\ up /\ h.pc = "post"
    /\ LET fresh == h.batch \ ledger[h.ev] IN
       \/ /\ h.batch # {}
          /\ h' = [h EXCEPT !.pc = "finish", !.err = TRUE]
          /\ provider' = [provider EXCEPT ![h.ev] = "error"]
          /\ UNCHANGED store
       \/ /\ fresh = {}
          /\ h' = [h EXCEPT !.pc = "finish", !.batch = {}]
          /\ provider' = [provider EXCEPT ![h.ev] = "success"]
          /\ UNCHANGED store
       \/ /\ fresh # {}
          /\ store' = [store EXCEPT ![h.ev] = "posting"]
          /\ h' = [h EXCEPT !.pc = "posting", !.batch = fresh]
          /\ UNCHANGED provider
    /\ UNCHANGED <<ledger, delivered, up>>

(* poster.Post(ctx, e, comments, safe).  A failing poster may already have *)
(* posted some of the comments; post returns its error and HandleReview    *)
(* posts status(error).                                                    *)
Post ==
    /\ up /\ h.pc = "posting"
    /\ \/ /\ delivered' = [delivered EXCEPT ![h.ev] = @ \cup h.batch]
          /\ h' = [h EXCEPT !.pc = "saving"]
          /\ UNCHANGED provider
       \/ \E sent \in SUBSET h.batch :
             /\ delivered' = [delivered EXCEPT ![h.ev] = @ \cup sent]
             /\ h' = [h EXCEPT !.pc = "finish", !.err = TRUE]
             /\ provider' = [provider EXCEPT ![h.ev] = "error"]
    /\ UNCHANGED <<store, ledger, up>>

(* The loop of commentOp.Save calls after a successful Post: a failing     *)
(* Save is only logged.  Then HandleReview posts status(success).          *)
SaveComments ==
    /\ up /\ h.pc = "saving"
    /\ \E saved \in SUBSET h.batch :
          ledger' = [ledger EXCEPT ![h.ev] = @ \cup saved]
    /\ provider' = [provider EXCEPT ![h.ev] = "success"]
    /\ h' = [h EXCEPT !.pc = "finish"]
    /\ UNCHANGED <<store, delivered, up>>

(* Mutant: the analysis status (lookout.SuccessAnalysisStatus) is stored *)
(* in place of the event status.                                          *)
FinishStoresAnalysisStatus ==
    /\ up /\ h.pc = "finish"
    /\ store' = [store EXCEPT ![h.ev] = IF h.err THEN "error" ELSE "success"]
    /\ up' = ~(ExitOnError /\ h.err)
    /\ h' = Idle
    /\ UNCHANGED <<ledger, delivered, provider>>

(* HandleEvent after the handler returns: UpdateStatus(processed | failed) *)
(* whose failure is only logged; under ExitOnError the error is returned   *)
(* and the watcher stops.                                                  *)
Finish ==
    /\ up /\ h.pc = "finish"
    /\ \/ store' = [store EXCEPT ![h.ev] = IF h.err THEN "failed"
                                                    ELSE "processed"]
       \/ UNCHANGED store
    /\ up' = ~(ExitOnError /\ h.err)
    /\ h' = Idle
    /\ UNCHANGED <<ledger, delivered, provider>>

(* The process dies between any two steps; only the stores survive.        *)
Crash ==
    /\ up
    /\ up' = FALSE
    /\ h' = Idle
    /\ UNCHANGED <<store, ledger, delivered, provider>>

(* The operator starts lookoutd again.                                     *)
Restart ==
    /\ ~up
    /\ up' = TRUE
    /\ UNCHANGED <<store, ledger, delivered, provider, h>>

Next ==
    \/ \E e \in Events : HandleEvent(e)
    \/ HandleReview
    \/ HandlePush
    \/ PostFilter
    \/ Post
    \/ SaveComments
    \/ Finish
    \/ Crash
    \/ Restart

Spec == Init /\ [][Next]_vars

-----------------------------------------------------------------------------
(* At-most-once posting across crashes: the poster is handed a comment it  *)
(* already received for the same event only in a safePosting run.  A      *)
(* non-safe Post (status read as new) never repeats a delivered comment:   *)
(* the "posting" marker written before Post and the ledger written after   *)
(* it must between them cover every crash and every failed Save.           *)
NoUnsafeRepost ==
    h.pc = "posting" /\ ~h.safe => h.batch \cap delivered[h.ev] = {}

(* The ledger never records a comment the poster was not handed: a comment *)
(* filtered out by commentOp.Posted was really posted, so none is lost     *)
(* when post fails or the process crashes between ledger and poster.       *)
NoLostComment ==
    \A e \in Events : ledger[e] \subseteq delivered[e]

(* The stored event status only moves forward along                        *)
(* new -> (posting ->) processed | failed; a terminal status is never left *)
(* by any later redelivery of the event.                                   *)
StatusStep(s, t) ==
    \/ s = t
    \/ <<s, t>> \in {<<"none", "new">>, <<"new", "posting">>,
                     <<"new", "processed">>, <<"new", "failed">>,
                     <<"posting", "processed">>, <<"posting", "failed">>}

StatusMonotonic ==
    [][\A e \in Events : StatusStep(store[e], store'[e])]_vars

(* Once an event is stored as processed or failed and no handler runs it,  *)
(* the status last shown on the provider is not "pending": every path     *)
(* that posted status(pending) also posts success or error.               *)
ProviderStatusSettled ==
    \A e \in Events :
        store[e] \in Terminal /\ h.ev # e => provider[e] # "pending"

=============================================================================
