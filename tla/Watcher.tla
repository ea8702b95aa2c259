------------------------------ MODULE Watcher ------------------------------
(***************************************************************************)
(* The JSON event watcher (src/provider/json/watcher.go): Watch starts a  *)
(* reader goroutine that scans stdin line by line into the one-slot       *)
(* channel `lines', and loops on a select between ctx.Done() and a line;  *)
(* handleInput turns a line into an event and calls cb (HandleEvent)      *)
(* synchronously.  A line is abstracted to what handleInput tells apart.  *)
(***************************************************************************)
EXTENDS Naturals, Sequences

CONSTANTS
    MaxLines   \* the longest stdin the model feeds the scanner

ASSUME WatcherAssumption == MaxLines \in Nat

\* "" ; a line json.Unmarshal rejects, or with no, an unknown or a
\* malformed "event" (each is logged and skipped); a review; a push; a line
\* longer than bufio.MaxScanTokenSize (64 KiB), on which Scan fails.
LineKind == {"empty", "malformed", "review", "push", "toolong"}

\* What cb (HandleEvent) returns: nil, an error, or lookout.NoErrStopWatcher.
CbResult == {"ok", "err", "stop"}

VARIABLES
    stdin,      \* the whole input, a sequence of lines
    scanned,    \* the lines scanner.Scan() has returned
    held,       \* the line the reader goroutine is sending (0: none)
    reader,     \* the reader goroutine: "scan", "send" or "done"
    lines,      \* make(chan string, 1): positions of buffered lines
    taken,      \* the lines the select loop has received
    delivered,  \* the positions of the lines passed to cb, in call order
    main,       \* Watch: "loop" or "returned"
    result,     \* what Watch returned
    ctxDone     \* ctx.Done() is closed

vars == <<stdin, scanned, held, reader, lines, taken, delivered, main, result, ctxDone>>

LinesCap == 1

TypeOK ==
    /\ stdin \in Seq(LineKind) /\ Len(stdin) <= MaxLines
    /\ scanned \in 0..Len(stdin) /\ taken \in 0..Len(stdin)
    /\ held \in 0..Len(stdin)
    /\ reader \in {"scan", "send", "done"}
    /\ lines \in Seq(1..Len(stdin)) /\ Len(lines) <= LinesCap
    /\ delivered \in Seq(1..Len(stdin))
    /\ main \in {"loop", "returned"}
    /\ result \in {"none", "nil", "err", "ctx"}
    /\ ctxDone \in BOOLEAN

Init ==
    /\ stdin \in UNION {[1..n -> LineKind] : n \in 0..MaxLines}
    /\ scanned = 0 /\ held = 0 /\ reader = "scan"
    /\ lines = <<>> /\ taken = 0 /\ delivered = <<>>
    /\ main = "loop" /\ result = "none" /\ ctxDone = FALSE

-----------------------------------------------------------------------------
(* Mutant: the scanner misses the last line of the input.                 *)
ScanDropLast ==
    /\ reader = "scan"
    /\ IF scanned < Len(stdin) - 1 /\ stdin[scanned + 1] # "toolong"
       THEN scanned' = scanned + 1 /\ held' = scanned + 1 /\ reader' = "send"
       ELSE reader' = "done" /\ UNCHANGED <<scanned, held>>
    /\ UNCHANGED <<stdin, lines, taken, delivered, main, result, ctxDone>>

\* for w.scanner.Scan(): the next line, or the end of the input, a read
\* error or bufio.ErrTooLong, each of which ends the goroutine without a
\* word to the loop.
Scan ==
    /\ reader = "scan"
    /\ IF scanned < Len(stdin) /\ stdin[scanned + 1] # "toolong"
       THEN scanned' = scanned + 1 /\ held' = scanned + 1 /\ reader' = "send"
       ELSE reader' = "done" /\ UNCHANGED <<scanned, held>>
    /\ UNCHANGED <<stdin, lines, taken, delivered, main, result, ctxDone>>

(* Mutant: the send made without waiting for the slot to free up.        *)
SendIgnoreFull ==
    /\ reader = "send"
    /\ lines' = Append(lines, held)
    /\ held' = 0 /\ reader' = "scan"
    /\ UNCHANGED <<stdin, scanned, taken, delivered, main, result, ctxDone>>

\* lines <- w.scanner.Text(): blocks while the slot is full, whether or not
\* anyone will ever receive again.
Send ==
    /\ reader = "send"
    /\ Len(lines) < LinesCap
    /\ lines' = Append(lines, held)
    /\ held' = 0 /\ reader' = "scan"
    /\ UNCHANGED <<stdin, scanned, taken, delivered, main, result, ctxDone>>

\* case <-ctx.Done(): return ctx.Err()
SelectDone ==
    /\ main = "loop" /\ ctxDone
    /\ main' = "returned" /\ result' = "ctx"
    /\ UNCHANGED <<stdin, scanned, held, reader, lines, taken, delivered, ctxDone>>

IsEvent(k) == k \in {"review", "push"}

(* Mutant: the "push" case of handleInput's switch missing.                *)
HandleInputNoPush(line, r) ==
    IF stdin[line] = "review"
    THEN /\ delivered' = Append(delivered, line)
         /\ IF r = "ok" THEN UNCHANGED <<main, result>>
            ELSE main' = "returned" /\ result' = IF r = "stop" THEN "nil" ELSE "err"
    ELSE UNCHANGED <<delivered, main, result>>

(* Mutant: an unusable line's unmarshal error returned, not only logged.  *)
HandleInputReturnsParseError(line, r) ==
    IF IsEvent(stdin[line])
    THEN /\ delivered' = Append(delivered, line)
         /\ IF r = "ok" THEN UNCHANGED <<main, result>>
            ELSE main' = "returned" /\ result' = IF r = "stop" THEN "nil" ELSE "err"
    ELSE IF stdin[line] = "malformed"
         THEN main' = "returned" /\ result' = "err" /\ UNCHANGED delivered
         ELSE UNCHANGED <<delivered, main, result>>

\* handleInput: an empty or unusable line returns nil; an event is passed to
\* cb, whose nil keeps the loop going, whose NoErrStopWatcher makes Watch
\* return nil, and whose other errors Watch returns.
HandleInput(line, r) ==
    IF IsEvent(stdin[line])
    THEN /\ delivered' = Append(delivered, line)
         /\ IF r = "ok" THEN UNCHANGED <<main, result>>
            ELSE main' = "returned" /\ result' = IF r = "stop" THEN "nil" ELSE "err"
    ELSE UNCHANGED <<delivered, main, result>>

\* case line := <-lines, then handleInput; cb's result is its input from
\* the orchestrator.
SelectLine ==
    /\ main = "loop" /\ lines # <<>>
    /\ lines' = Tail(lines)
    /\ taken' = taken + 1
    /\ \E r \in CbResult : HandleInput(Head(lines), r)
    /\ UNCHANGED <<stdin, scanned, held, reader, ctxDone>>

\* The caller cancels Watch's context (lookoutd shutting down).
Cancel ==
    /\ ~ctxDone
    /\ ctxDone' = TRUE
    /\ UNCHANGED <<stdin, scanned, held, reader, lines, taken, delivered, main, result>>

Next == Scan \/ Send \/ SelectDone \/ SelectLine \/ Cancel

(* The reader runs whenever it can (the input is a finite stream that     *)
(* ends), and the select loop takes any ready case.  Cancel is the        *)
(* caller's and is never forced.                                          *)
Fairness ==
    /\ WF_vars(Scan) /\ WF_vars(Send)
    /\ WF_vars(SelectDone \/ SelectLine)

Spec == Init /\ [][Next]_vars /\ Fairness

-----------------------------------------------------------------------------
Handled == {delivered[i] : i \in 1..Len(delivered)}

(* cb is called once for every review or push line the loop has received, *)
(* in the order of the input, and never for another line: the reader, the  *)
(* one-slot channel and the select hand lines over without loss or reorder.*)
EveryEventHandled ==
    /\ \A i \in 1..Len(delivered) :
          delivered[i] <= taken /\ IsEvent(stdin[delivered[i]])
    /\ \A i, j \in 1..Len(delivered) : i < j => delivered[i] < delivered[j]
    /\ \A p \in 1..taken : IsEvent(stdin[p]) => p \in Handled

\* The lines the scanner can return: those before the first over-long one.
Readable == {p \in 1..Len(stdin) : \A q \in 1..p : stdin[q] # "toolong"}

(* While Watch is neither cancelled nor stopped by cb, every event the     *)
(* scanner can read eventually reaches cb.                                 *)
EventsEventuallyHandled ==
    ([]~ctxDone /\ [](main = "loop")) =>
        <>(\A p \in Readable : IsEvent(stdin[p]) => p \in Handled)

(* Once Watch has returned, its reader goroutine ends (spec 5: no blocking *)
(* without observing the context).                                         *)
ReaderStops == (main = "returned") ~> (reader = "done")

-----------------------------------------------------------------------------
(* The refinement mapping: the event source's input is stdin, an item is   *)
(* consumed when the select loop receives its line, and the source watches *)
(* until Watch returns.                                                    *)
Source == INSTANCE EventStream
              WITH Kinds <- LineKind, EventKinds <- {"review", "push"},
                   input <- stdin, next <- taken, calls <- delivered,
                   watching <- (main = "loop"), cancelled <- ctxDone

(* Watch implements the event source of spec 6: every step of the reader,  *)
(* the channel and the select loop is a step of the source or leaves it    *)
(* unchanged, so cb sees the input's events in order, once each.           *)
ImplementsEventStream == Source!Spec

(* ... including its progress: while Watch watches, it keeps consuming its *)
(* input until the input is exhausted (spec 6: cb is driven per event).   *)
ImplementsFairEventStream == Source!FairSpec

=============================================================================
