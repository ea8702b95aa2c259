--------------------------- MODULE WatcherProofs ---------------------------
(***************************************************************************)
(* Proofs about the JSON watcher, for every length of stdin: every line    *)
(* the select loop receives is the next line of the input, so cb sees the  *)
(* events in order, once each, and Watch implements the event source.      *)
(***************************************************************************)
EXTENDS Watcher, SequenceTheorems, TLAPS

\* 1 when the reader goroutine holds a scanned line it has not sent yet.
InFlight == IF reader = "send" THEN 1 ELSE 0

(* Every scanned line is received, buffered or held, and the one-slot      *)
(* buffer always holds the line right after the last one received.         *)
Pipeline ==
    /\ scanned = taken + Len(lines) + InFlight
    /\ Len(lines) = 1 => lines[1] = taken + 1
    /\ reader = "send" => held = scanned

IInv ==
    /\ TypeOK
    /\ Pipeline
    /\ EveryEventHandled

-----------------------------------------------------------------------------
(* A sequence of length at most one, the contents of the one-slot channel, *)
(* is empty or holds exactly one element.                                  *)
LEMMA OneSlot ==
  ASSUME NEW S, NEW s \in Seq(S), Len(s) <= 1
  PROVE  \/ s = <<>> /\ Len(s) = 0
         \/ s # <<>> /\ Len(s) = 1
  <1>1. Len(s) \in Nat
    BY LenProperties
  <1>2. CASE Len(s) = 0
    BY <1>2, EmptySeq
  <1>3. CASE Len(s) # 0
    <2>1. ASSUME NEW n \in Nat, n # 0, n <= 1 PROVE n = 1
      BY <2>1
    <2>2. QED
      BY <1>1, <1>3, <2>1, EmptySeq
  <1>4. QED
    BY <1>2, <1>3

(* A sequence of length one has an empty tail: receiving the buffered     *)
(* line empties the one-slot channel.                                       *)
LEMMA SingleTail ==
  ASSUME NEW S, NEW s \in Seq(S), Len(s) = 1
  PROVE  Tail(s) = <<>>
  <1>1. Tail(s) \in Seq(S) /\ Len(Tail(s)) = 0
    BY HeadTailProperties, EmptySeq
  <1>2. SUFFICES ASSUME Tail(s) # <<>> PROVE FALSE
    OBVIOUS
  <1>3. Len(Tail(s)) \in Nat \ {0}
    BY <1>1, <1>2, EmptySeq
  <1>4. QED
    BY <1>1, <1>3

(* Appending the line after the last one received to cb's calls keeps the *)
(* calls bounded by the received count and strictly increasing, and adds  *)
(* that line to the set of handled lines.                                  *)
LEMMA AppendKeepsHandover ==
  ASSUME NEW d \in Seq(Nat), NEW t \in Nat,
         \A i \in 1..Len(d) : d[i] <= t,
         \A i, j \in 1..Len(d) : i < j => d[i] < d[j]
  PROVE  /\ \A i \in 1..Len(Append(d, t + 1)) : Append(d, t + 1)[i] <= t + 1
         /\ \A i, j \in 1..Len(Append(d, t + 1)) :
               i < j => Append(d, t + 1)[i] < Append(d, t + 1)[j]
         /\ {Append(d, t + 1)[i] : i \in 1..Len(Append(d, t + 1))}
               = {d[i] : i \in 1..Len(d)} \cup {t + 1}
  <1> DEFINE e == Append(d, t + 1)
  <1>1. PICK n \in Nat : n = Len(d)
    BY LenProperties
  <1>2. /\ Len(e) = n + 1
        /\ \A i \in 1..n : e[i] = d[i]
        /\ e[n + 1] = t + 1
    BY <1>1, AppendProperties
  <1>3. \A i \in 1..Len(e) : e[i] <= t + 1
    BY <1>1, <1>2
  <1>4. \A i, j \in 1..Len(e) : i < j => e[i] < e[j]
    BY <1>1, <1>2
  <1>5. {e[i] : i \in 1..Len(e)} = {d[i] : i \in 1..Len(d)} \cup {t + 1}
    BY <1>1, <1>2
  <1>6. QED
    BY <1>3, <1>4, <1>5

LEMMA IInvInit == Init => IInv
  <1> SUFFICES ASSUME Init PROVE IInv
    OBVIOUS
  <1>1. PICK n \in 0..MaxLines : stdin \in [1..n -> LineKind]
    BY DEF Init
  <1>2. stdin \in Seq(LineKind) /\ Len(stdin) = n
    BY <1>1
  <1>3. TypeOK
    <2>1. stdin \in Seq(LineKind) /\ Len(stdin) <= MaxLines
      BY <1>1, <1>2, WatcherAssumption
    <2>2. lines \in Seq(1..Len(stdin)) /\ Len(lines) <= LinesCap
      BY DEF Init, LinesCap
    <2>3. delivered \in Seq(1..Len(stdin))
      BY DEF Init
    <2>4. /\ scanned \in 0..Len(stdin) /\ taken \in 0..Len(stdin)
          /\ held \in 0..Len(stdin)
      BY <1>2 DEF Init
    <2>5. QED
      BY <2>1, <2>2, <2>3, <2>4 DEF Init, TypeOK
  <1>4. Pipeline /\ EveryEventHandled
    BY DEF Init, Pipeline, InFlight, EveryEventHandled
  <1>5. QED
    BY <1>3, <1>4 DEF IInv

(* A step that leaves the input, the received count and cb's calls alone  *)
(* preserves the hand-over property.                                       *)
LEMMA HandledUnchanged ==
  ASSUME EveryEventHandled, UNCHANGED <<stdin, taken, delivered>>
  PROVE  EveryEventHandled'
  BY DEF EveryEventHandled, Handled, IsEvent

LEMMA IInvStep == IInv /\ [Next]_vars => IInv'
  <1> SUFFICES ASSUME IInv, [Next]_vars PROVE IInv'
    OBVIOUS
  <1> USE DEF IInv, TypeOK, Pipeline, InFlight, LinesCap
  <1>1. CASE Scan
    <2>1. CASE scanned < Len(stdin) /\ stdin[scanned + 1] # "toolong"
      <3>1. scanned' = scanned + 1 /\ held' = scanned + 1 /\ reader' = "send"
        BY <1>1, <2>1 DEF Scan
      <3>2. UNCHANGED <<stdin, lines, taken, delivered, main, result, ctxDone>>
        BY <1>1 DEF Scan
      <3>3. reader = "scan"
        BY <1>1 DEF Scan
      <3>4. TypeOK' /\ Pipeline'
        BY <2>1, <3>1, <3>2, <3>3
      <3>5. QED
        BY <3>2, <3>4, HandledUnchanged
    <2>2. CASE ~(scanned < Len(stdin) /\ stdin[scanned + 1] # "toolong")
      <3>1. reader' = "done" /\ UNCHANGED <<scanned, held>>
        BY <1>1, <2>2 DEF Scan
      <3>2. UNCHANGED <<stdin, lines, taken, delivered, main, result, ctxDone>>
        BY <1>1 DEF Scan
      <3>3. reader = "scan"
        BY <1>1 DEF Scan
      <3>4. TypeOK' /\ Pipeline'
        BY <3>1, <3>2, <3>3
      <3>5. QED
        BY <3>2, <3>4, HandledUnchanged
    <2>3. QED
      BY <2>1, <2>2
  <1>2. CASE Send
    <2>0. Len(lines) < 1
      BY <1>2 DEF Send
    <2>1. lines = <<>> /\ reader = "send"
      BY <1>2, <2>0, OneSlot DEF Send
    <2>2. lines' = <<held>> /\ held' = 0 /\ reader' = "scan"
      BY <1>2, <2>1 DEF Send
    <2>3. UNCHANGED <<stdin, scanned, taken, delivered, main, result, ctxDone>>
      BY <1>2 DEF Send
    <2>4. TypeOK' /\ Pipeline'
      BY <2>1, <2>2, <2>3
    <2>5. QED
      BY <2>3, <2>4, HandledUnchanged
  <1>3. CASE SelectDone
    <2>1. UNCHANGED <<stdin, scanned, held, reader, lines, taken, delivered, ctxDone>>
      BY <1>3 DEF SelectDone
    <2>2. main' = "returned" /\ result' = "ctx"
      BY <1>3 DEF SelectDone
    <2>3. TypeOK' /\ Pipeline'
      BY <2>1, <2>2
    <2>4. QED
      BY <2>1, <2>3, HandledUnchanged
  <1>4. CASE SelectLine
    <2>0. lines # <<>> /\ main = "loop"
      BY <1>4 DEF SelectLine
    <2>1. Len(lines) = 1 /\ Head(lines) = taken + 1
      <3>1. Len(lines) = 1
        BY <2>0, OneSlot
      <3>2. QED
        BY <3>1
    <2>2. taken + 1 \in 1..Len(stdin)
      BY <2>0, <2>1, HeadTailProperties
    <2>3. lines' = <<>>
      BY <1>4, <2>1, SingleTail DEF SelectLine
    <2>4. taken' = taken + 1 /\ UNCHANGED <<stdin, scanned, held, reader, ctxDone>>
      BY <1>4 DEF SelectLine
    <2>5. PICK r \in CbResult : HandleInput(taken + 1, r)
      BY <1>4, <2>1 DEF SelectLine
    <2>6. \/ delivered' = Append(delivered, taken + 1) /\ IsEvent(stdin[taken + 1])
          \/ delivered' = delivered /\ ~IsEvent(stdin[taken + 1])
      BY <2>5 DEF HandleInput
    <2>7. main' \in {"loop", "returned"} /\ result' \in {"none", "nil", "err", "ctx"}
      BY <2>5 DEF HandleInput
    <2>8. delivered' \in Seq(1..Len(stdin))
      <3>1. Append(delivered, taken + 1) \in Seq(1..Len(stdin))
        BY <2>2, AppendProperties
      <3>2. QED
        BY <2>6, <3>1
    <2>9. lines' \in Seq(1..Len(stdin)) /\ Len(lines') = 0
      BY <2>3, EmptySeq
    <2>10. TypeOK'
      BY <2>2, <2>4, <2>7, <2>8, <2>9
    <2>11. Pipeline'
      <3>1. scanned = taken + 1 + InFlight
        BY <2>1
      <3>2. InFlight' = InFlight /\ scanned' = scanned /\ held' = held
        BY <2>4
      <3>3. scanned' = taken' + Len(lines') + InFlight'
        BY <2>4, <2>9, <3>1, <3>2
      <3>4. QED
        BY <2>4, <2>9, <3>2, <3>3
    <2>12. delivered \in Seq(Nat) /\ taken \in Nat
      BY SeqMonotonic
    <2>13. EveryEventHandled'
      <3>1. CASE delivered' = Append(delivered, taken + 1) /\ IsEvent(stdin[taken + 1])
        <4>1. /\ \A i \in 1..Len(delivered') : delivered'[i] <= taken'
              /\ \A i, j \in 1..Len(delivered') : i < j => delivered'[i] < delivered'[j]
              /\ Handled' = Handled \cup {taken + 1}
          <5>1. /\ \A i \in 1..Len(delivered) : delivered[i] <= taken
                /\ \A i, j \in 1..Len(delivered) : i < j => delivered[i] < delivered[j]
            BY DEF EveryEventHandled
          <5>2. /\ \A i \in 1..Len(Append(delivered, taken + 1)) :
                      Append(delivered, taken + 1)[i] <= taken + 1
                /\ \A i, j \in 1..Len(Append(delivered, taken + 1)) :
                      i < j => Append(delivered, taken + 1)[i] < Append(delivered, taken + 1)[j]
                /\ {Append(delivered, taken + 1)[i] : i \in 1..Len(Append(delivered, taken + 1))}
                      = {delivered[i] : i \in 1..Len(delivered)} \cup {taken + 1}
            BY <2>12, <5>1, AppendKeepsHandover
          <5>3. QED
            BY <2>4, <3>1, <5>2 DEF Handled
        <4>2. \A i \in 1..Len(delivered') : IsEvent(stdin'[delivered'[i]])
          <5>1. PICK n \in Nat : n = Len(delivered)
            BY LenProperties
          <5>2. /\ Len(delivered') = n + 1
                /\ \A i \in 1..n : delivered'[i] = delivered[i]
                /\ delivered'[n + 1] = taken + 1
            BY <2>2, <3>1, <5>1, AppendProperties
          <5>3. \A i \in 1..n : IsEvent(stdin[delivered[i]])
            BY <5>1 DEF EveryEventHandled
          <5>4. QED
            BY <2>4, <3>1, <5>2, <5>3
        <4>3. \A p \in 1..taken' : IsEvent(stdin'[p]) => p \in Handled'
          <5>1. \A p \in 1..taken : IsEvent(stdin[p]) => p \in Handled
            BY DEF EveryEventHandled
          <5>2. QED
            BY <2>4, <4>1, <5>1
        <4>4. QED
          BY <4>1, <4>2, <4>3 DEF EveryEventHandled
      <3>2. CASE delivered' = delivered /\ ~IsEvent(stdin[taken + 1])
        <4>1. Handled' = Handled
          BY <3>2 DEF Handled
        <4>2. \A i \in 1..Len(delivered) : delivered[i] <= taken /\ IsEvent(stdin[delivered[i]])
          BY DEF EveryEventHandled
        <4>3. \A i, j \in 1..Len(delivered) : i < j => delivered[i] < delivered[j]
          BY DEF EveryEventHandled
        <4>4. \A p \in 1..taken : IsEvent(stdin[p]) => p \in Handled
          BY DEF EveryEventHandled
        <4>5. \A p \in 1..taken + 1 : IsEvent(stdin[p]) => p \in Handled
          BY <3>2, <4>4
        <4>6. QED
          BY <2>4, <2>12, <3>2, <4>1, <4>2, <4>3, <4>5 DEF EveryEventHandled
      <3>3. QED
        BY <2>6, <3>1, <3>2
    <2>14. QED
      BY <2>10, <2>11, <2>13
  <1>5. CASE Cancel
    <2>1. UNCHANGED <<stdin, scanned, held, reader, lines, taken, delivered, main, result>>
          /\ ctxDone' = TRUE
      BY <1>5 DEF Cancel
    <2>2. QED
      BY <2>1, HandledUnchanged
  <1>6. CASE UNCHANGED vars
    BY <1>6, HandledUnchanged DEF vars
  <1>7. QED
    BY <1>1, <1>2, <1>3, <1>4, <1>5, <1>6 DEF Next

(* Every reachable state of the reader, the channel and the select loop    *)
(* satisfies the pipeline invariant.                                       *)
THEOREM PipelineInvariant == Spec => []IInv
  BY IInvInit, IInvStep, PTL DEF Spec

(* The watcher is well typed in every reachable state.                     *)
THEOREM TypeCorrect == Spec => []TypeOK
  BY PipelineInvariant, PTL DEF IInv

(* cb is called once for each event line the loop has received, in input   *)
(* order, and for no other line, whatever the interleaving of the reader   *)
(* goroutine, the one-slot channel, cancellation and cb's results.        *)
THEOREM EventsHandledInOrder == Spec => []EveryEventHandled
  BY PipelineInvariant, PTL DEF IInv

-----------------------------------------------------------------------------
(* Refinement: under the mapping of Watcher.tla's Source, the initial     *)
(* state is one of the event source's, and every step of the reader, the *)
(* channel and the select loop is a step of the event source or leaves   *)
(* its variables alone.                                                    *)
LEMMA RefinementInit == Init => Source!Init
  <1> SUFFICES ASSUME Init PROVE Source!Init
    OBVIOUS
  <1>1. PICK n \in 0..MaxLines : stdin \in [1..n -> LineKind]
    BY DEF Init
  <1>2. stdin \in Seq(LineKind)
    BY <1>1
  <1>3. QED
    BY <1>2 DEF Init, Source!Init

LEMMA RefinementStep == IInv /\ [Next]_vars => [Source!Next]_Source!avars
  <1> SUFFICES ASSUME IInv, [Next]_vars PROVE [Source!Next]_Source!avars
    OBVIOUS
  <1>1. CASE Scan \/ Send
    BY <1>1 DEF Scan, Send, Source!avars
  <1>2. CASE SelectDone
    <2>1. Source!EndOnCancel
      BY <1>2 DEF SelectDone, Source!EndOnCancel
    <2>2. QED
      BY <2>1 DEF Source!Next
  <1>3. CASE Cancel
    <2>1. Source!Cancel
      BY <1>3 DEF Cancel, Source!Cancel
    <2>2. QED
      BY <2>1 DEF Source!Next
  <1>4. CASE SelectLine
    <2>0. lines # <<>> /\ main = "loop" /\ lines \in Seq(1..Len(stdin))
      BY <1>4 DEF SelectLine, IInv, TypeOK
    <2>1. Len(lines) = 1 /\ Head(lines) = taken + 1
      <3>1. Len(lines) = 1
        BY <2>0, OneSlot DEF IInv, TypeOK, LinesCap
      <3>2. QED
        BY <3>1 DEF IInv, Pipeline
    <2>2. taken + 1 \in 1..Len(stdin) /\ taken \in Nat
      BY <2>0, <2>1, HeadTailProperties DEF IInv, TypeOK
    <2>3. taken' = taken + 1 /\ UNCHANGED <<stdin, ctxDone>>
      BY <1>4 DEF SelectLine
    <2>4. PICK r \in CbResult : HandleInput(taken + 1, r)
      BY <1>4, <2>1 DEF SelectLine
    <2>5. CASE IsEvent(stdin[taken + 1])
      <3>1. delivered' = Append(delivered, taken + 1) /\ main' \in {"loop", "returned"}
        BY <2>4, <2>5 DEF HandleInput, IInv, TypeOK
      <3>2. Source!Consume
        BY <2>0, <2>2, <2>3, <2>5, <3>1 DEF Source!Consume, IsEvent
      <3>3. QED
        BY <3>2 DEF Source!Next
    <2>6. CASE ~IsEvent(stdin[taken + 1])
      <3>1. UNCHANGED <<delivered, main>>
        BY <2>4, <2>6 DEF HandleInput
      <3>2. Source!Consume
        BY <2>0, <2>2, <2>3, <2>6, <3>1 DEF Source!Consume, IsEvent
      <3>3. QED
        BY <3>2 DEF Source!Next
    <2>7. QED
      BY <2>5, <2>6
  <1>5. CASE UNCHANGED vars
    BY <1>5 DEF vars, Source!avars
  <1>6. QED
    BY <1>1, <1>2, <1>3, <1>4, <1>5 DEF Next

(* Watch implements the event source of spec 6: every behaviour of the    *)
(* reader goroutine, the lines channel and the select loop, mapped to the *)
(* input, the received count, cb's calls and whether Watch still runs, is *)
(* a behaviour of EventStream (the property run watcher checks as         *)
(* ImplementsEventStream).                                                 *)
THEOREM WatchImplementsEventStream == Spec => ImplementsEventStream
  <1>1. Spec => []IInv
    BY PipelineInvariant
  <1>2. QED
    BY <1>1, RefinementInit, RefinementStep, PTL
       DEF Spec, ImplementsEventStream, Source!Spec

=============================================================================
