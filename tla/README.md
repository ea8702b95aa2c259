# Formal model of lookout's event orchestrator

This directory holds TLA+ models of the lookout server (`src/server/server.go`),
its in-memory stores (`src/store/memory.go`), its JSON event watcher
(`src/provider/json/watcher.go`) and the lookout-sdk `review` and `push`
commands (`src/cmd/lookout-sdk/`). TLC configurations check the models on small
instances. Two proof modules check, with TLAPS and for every instance, the
orchestrator's central safety properties and the watcher's hand-over
invariant and its refinement of an abstract event source.

## 1. The system and its parts

lookout takes code-review events (a pull request was updated, which gives a
*review event*; a branch was pushed, which gives a *push event*) from a
provider. It fans each event out to a set of analyzers over gRPC and posts the
comments they return back to the provider.

| Part | Code | State | Operations |
|------|------|-------|------------|
| Watcher | `provider/json/watcher.go` | reader goroutine, one-slot `lines` channel, ctx | `Watch`, `handleInput` |
| Orchestrator | `server.go` `HandleEvent`, `HandleReview`, `HandlePush`, `post`, `status` | the event being handled | save, skip, analyse, post, finish |
| Event store | `store/memory.go` `MemEventOperator` | status per event ID (`new`, `posting`, `processed`, `failed`) | `Save`, `UpdateStatus` |
| Comment ledger | `store/memory.go` `MemCommentOperator` | set of posted comments per review | `Save`, `Posted` |
| Config resolver | `server.go` `getConfig`, `parseConfig`, `getOrgConfig`, `mergeConfigs`, `mergeSettings`, `mergeMaps` | none (pure) | layer merge |
| Fan-out | `server.go` `concurrentRequest` plus the `send` closures | goroutines, `commentsCh`, `errCh`, group ctx, shared `e.Configuration` | spawn, RPC, push, collect |
| Poster | `Poster` interface (`LogPoster` in src/) | comments the provider received, status shown | `Post`, `Status` |
| lookout-sdk CLI | `cmd/lookout-sdk/event.go`, `review.go`, `push.go` | Execute's step, the data-server goroutine, `grpcSrv`, `stopCh` | open, resolve, build data service, start server, dial analyzer, walk log, handle, stop, receive |
| GitHub transport, dummy analyzer | `provider/github/token_transport.go`, `cmd/dummy` | none relevant | construction and wiring |

How the parts interact: `Watch` reads a line, parses it into an event and calls
`HandleEvent` synchronously. `HandleEvent` saves the event (a new ID is stored
as `new`) and skips it if its status is terminal (`processed` or `failed`). A
status of `posting` means an earlier run crashed while posting, so the event is
handled in *safe posting* mode. For a review or a push event the orchestrator
resolves the configuration, shows `pending` to the provider, and calls every
enabled analyzer concurrently. It then posts the comments through `post`:

1. filter out what the ledger already holds;
2. mark the event `posting`;
3. call `Poster.Post`;
4. record every posted comment in the ledger;
5. show `success` to the provider.

Finally `HandleEvent` stores `processed` or `failed`. Under `ExitOnError` an
error is also returned to `Watch`, which stops.

The behaviours that make this hard:

- **Crash recovery.** The process may die at any point. The `posting` marker
  and the ledger must make the rerun of a redelivered event post nothing twice
  outside safe mode.
- **Partial failures.** Every store, poster and RPC call can fail. Several of
  those failures are only logged (`server.go:156`, `:527`).
- **Goroutine interleavings.** In the fan-out the goroutines share the event
  and two channels, and face a deadline and group cancellation.
- **Redelivery.** The same event may be delivered again.

## 2. Modules and correspondence with the code

### `Orchestrator.tla`: the store protocol of `HandleEvent` and `post`

**Variables.**

- `store[e]` is the `MemEventOperator` status of event `e`.
- `ledger[e]` is the set of comments `MemCommentOperator` holds for `e`.
- `delivered[e]` is the set of comments the poster has received for `e`. It is
  history: a provider cannot un-post a comment.
- `provider[e]` is the analysis status the provider last showed.
- `up` says whether lookoutd is running.
- `h` is the handler's local state: the event it is handling, its stage, the
  `safe` flag, the current batch of comments, and whether it returns an error.

Comments are model values. An analysis result is any subset of them.

**Actions.** Each action is one handler stage, containing every store call of
that stage.

| Action | Code |
|--------|------|
| `HandleEvent(e)` | `Save`, the terminal-status skips, `safePosting := status = posting`; a failed `Save` stops the watcher (`server.go:111-147`) |
| `HandleReview`, `HandlePush` | the type switch: the two handlers share one body, `Analyze` (the pending status, configuration and validation errors, and the fan-out as one step returning any result or, under ExitOnError, an error; `server.go:169-228`, `:231-289`). `Pushes` says which events are pushes |
| `PostFilter` | the `Posted` filter, `Status` on an error, the early return when nothing is fresh, and `UpdateStatus(posting)` (`server.go:491-514`) |
| `Post` | `Poster.Post` succeeds, or fails after delivering any part of the batch (`:516-522`) |
| `SaveComments` | the ledger loop, where each `Save` may fail and is only logged, then `status(success)` (`:524-539`) |
| `Finish` | the final `UpdateStatus(processed or failed)`, whose failure is only logged, then the return of the error (`:149-166`) |

`Crash` and `Restart` are the environment: lookoutd dies anywhere and the
provider redelivers. The stores are taken as durable. That is the contract the
`posting` marker is designed for. The in-memory implementation loses them, and
this is recorded as a hazard.

### `FanOut.tla`: one call of `concurrentRequest`

**Variables.**

- `pc[a]` is the goroutine of analyzer `a`.
- `outcome[a]` is what `send` returned.
- `cfg` is the shared `e.Configuration`.
- `sent[a]` is the configuration analyzer `a`'s RPC marshalled.
- `commentsCh` is a sequence bounded by `len(s.analyzers)`.
- `main` is the collector: its stage, the goroutines it spawned, the number of
  results it received, the analyzers collected, and whether it returned an
  error.
- `cancelled` is the group context.
- `exitOnError` is `s.exitOnError`. It is chosen at the start and never
  changes, so one run covers both server configurations.

**Actions.**

| Action | Code |
|--------|------|
| `Spawn(a)` | the range loop; a disabled analyzer's nil is pushed by the main goroutine (`server.go:369-376`) |
| `WriteConfiguration(a)` | `mergeSettings`, `ToStruct`, `e.Configuration = *st` (`:193-202`) |
| `Call(a)` | the RPC marshalling `&e.ReviewEvent` |
| `Reply(a)` and `Abort(a)` | the analyzer answers; the deadline or the group context ends the RPC |
| `AfterSend(a, o)` | a helper for the ExitOnError branch of `errCh <- err` (`:377-412`) |
| `PushResult(a)` | the deferred `commentsCh <- result` |
| `CollectResult`, `CollectError(a)`, `CollectDone` | the collector's select and the deferred `cancel()` (`:416-429`) |
| `RootCancel` | the caller cancelling the root context |

`errCh` is unbuffered, so `CollectError(a)` is a rendezvous with a goroutine in
state `senderr`.

**Fairness.** Weak fairness is assumed for every goroutine step and for the
collector, because the Go scheduler runs runnable goroutines. It is assumed for
`Abort` because an RPC whose context is done returns. There is no fairness on
`Reply`: an analyzer need not answer. There is none on `RootCancel` either.

### `OrchestratorProofs.tla`, `FanOutProofs.tla`, `SettingsMergeProofs.tla`, `ConfigResolveProofs.tla`: TLAPS proofs

They prove the safety properties of `Orchestrator`, `FanOut`, the settings
merge and the configuration resolution for every value of the constants. See section 4.

### `SettingsMerge.tla` and `MergeSettingsCall.tla`: the settings merge

`SettingsMerge` holds operators only.

- A settings value is a scalar (a model value) or a function from a set of
  keys to values. `NoSettings` is a nil map.
- `Settings` is every mapping at most two levels deep.
- `mergeMaps` and `mergeSettings` translate `server.go:458-489`. The code's
  `mergeMaps` calls itself on two nested maps. The values of the model nest at
  most two levels deep, so the recursion is unfolded to that depth.
  `MergeLevel(global, local, Sub)` is one level of the loop, taking the call
  one level down as the parameter `Sub`. `mergeMaps` is
  `MergeLevel(_, _, mergeMapsInner)`, and `mergeMapsInner` is the level whose
  values are scalars, so it never makes a call. On every value of `Settings`
  this is exactly the recursive function. The module declares no `RECURSIVE`
  operator, so the proof modules can use it.
- The recursion is guarded by two type assertions, `v.(map[string]interface{})`
  (`server.go:476`, `:479`), modelled as `IsStringMap`. Every layer of
  settings comes from `yaml.Unmarshal` (`server.go:327`, and the server's
  configuration file). yaml.v2 gives the `Settings` field its declared type
  `map[string]interface{}`, but it decodes every mapping nested inside it as
  `map[interface{}]interface{}`. So no nested value passes the assertion:
  `StringKeyedMaps` is empty, and in every run the merge replaces each key the
  local layer sets whole. The recursive branch is kept as the code writes it.
- `ValueShapeAssumption`: a scalar is not a nested mapping, and a nil map is
  not a settings value. TLC evaluates it on every run that extends the module.
- The reference definition is a tree as the set of its nodes, each a path with
  the scalar found there or "map" (`Nodes`, unfolded the same way).
  `OverlayNodes(g, l)` states the spec's rule (4.3, 9): every node of `l`, and
  every node of `g` that `l` neither has nor hides under a scalar.

`MergeSettingsCall` is one call of `mergeSettings`, on every pair of inputs.
Its property `MergeIsDeepOverlay` is the spec's deep overlay. TLC finds it
false of the code (run `settings_merge`).

### `ConfigResolve.tla`: `getConfig`, `getOrgConfig`, `parseConfig`, `mergeConfigs`, and the analyzer choice

**Variables.**

- `defaults`: each registered analyzer's own `a.Config`.
- `repoIn`: what `GetFiles` gives. It can be an error, a scan error, no
  content, an unparsable file, or a parsed `Config`.
- `orgIn`: what `OrganizationOperator.Config` gives. It can be a DB error, an
  unparsable value, or a parsed `Config`.
- `repoConf`, `orgConf` and `conf`: the three maps of the code.
- `contacted` and `settingsOf`: what `concurrentRequest` does with them.

A parsed `Config` is a function from names to the fields the resolution reads,
`disabled` and `settings`. A later list entry of one name replaces an earlier
one, so a function loses nothing.

**Actions.**

| Action | Code |
|--------|------|
| `GetConfig` | `server.go:291-323` |
| `GetOrgConfig` | `:346-359` |
| `MergeConfigs` | `:189` and `:251` |
| `Dispatch` | the range loop's disabled test and `mergeSettings(a.Config.Settings, conf[name].Settings)` (`:369-384`) |

`parseConfig` (`:325-344`) and `mergeConfigs` (`:431-456`) are operators.

**Reference.** `RefResolved` is the spec's resolution, against which the
violation runs compare the code:

1. start from the defaults;
2. apply the organization layer, then the repository layer when present;
3. a layer naming an analyzer deep-merges its settings and may disable it.

### `Watcher.tla`: `Watch` and `handleInput`

**Variables.**

- `stdin`: the input, a sequence of line kinds. `empty` is `""`. `malformed`
  covers unparsable JSON and a missing, unknown or malformed `event`. `toolong`
  is a line the scanner cannot hold. The other kinds are `review` and `push`.
- The reader goroutine: `scanned`, `held` and `reader`.
- `lines`: the one-slot channel.
- The select loop: `taken`, `main` and `result`.
- `delivered`: the lines handed to `cb`, in order.
- `ctxDone`.

`cb`'s result (nil, an error, or `NoErrStopWatcher`) is chosen
nondeterministically.

**Actions.**

| Action | Code |
|--------|------|
| `Scan` | the scanner loop (`watcher.go:36-40`); `Scan()` is false at the end of the input and on a line over 64 KiB (`toolong`, `bufio.ErrTooLong`), and the goroutine then ends |
| `Send` | `lines <- text`, which blocks while the slot is full |
| `SelectDone` | the `ctx.Done()` case |
| `SelectLine` with `HandleInput` | the line case and `handleInput` (`:46-56`, `:62-105`) |
| `Cancel` | the caller |

**Fairness.** Weak fairness holds for the reader, which consumes a finite
input, and for the select loop, which takes any ready case. There is none on
`Cancel`.

### `EventStream.tla`: what an event source promises (spec 6)

An abstract specification with no code behind it: an input, a count of
consumed items, the positions handed to `cb` and whether `Watch` still runs.
`Consume` takes the next item and calls `cb` for an event, which may end the
watch; `Cancel` and `EndOnCancel` model the context. `FairSpec` adds weak
fairness on consuming: a running source keeps going through its input.

`Watcher.tla` instantiates it as `Source` with the refinement mapping
`input <- stdin`, `next <- taken`, `calls <- delivered`,
`watching <- (main = "loop")`, `cancelled <- ctxDone`. The reader's `Scan` and
`Send` are stutters of the abstract source; `SelectLine` is `Consume`,
`SelectDone` is `EndOnCancel`. `ImplementsEventStream` (`Source!Spec`) holds;
`ImplementsFairEventStream` (`Source!FairSpec`) does not (run
`watcher_too_long`).

### `SdkCommand.tla`: `ReviewCommand.Execute` and `PushCommand.Execute`

The two commands are the same code up to the push log walk, so one module
models both, with `cmd` chosen at the start.

**Main goroutine.** `pc` walks `OpenRepository`, `ResolveRefs`, `ParseConfig`,
`MakeDataServerHandler`, `SpawnDataServer`, `Analyzer`, then `WalkLog` for
push, then `NewID`, `Handle`, `StopDataServer` and `ReceiveStop`. Each step that
can fail has a `Fail` disjunct, which returns an error (`review.go:30-57`).
`ResolveRefs` chooses the head's log length `logLen` and the base's position
`base` in it (`logLen + 1`: not an ancestor). `WalkLog` is one iteration of
push's loop (`push.go:72-88`). `Handle` stands for `HandleReview` or
`HandlePush` with an ok or err result. Their inside is `Orchestrator.tla`'s.

**Data-server goroutine.** `NewProxyServer` assigns `grpcSrv`
(`event.go:144`). Then come `Listen`, and `Serve`: on a stopped server it
returns `grpc.ErrServerStopped`, otherwise it serves. `ServeReturns` is
`Serve` returning nil after `GracefulStop`. `SendResult` is
`stopCh <- startDataServer()` on the one-slot channel. The data service's
answers to the analyzer are not modelled. That includes the
`noBblfshService` wrapper a failed bblfshd dial puts around it
(`event.go:111`, `:236-260`), which is one conditional per request.

**The race.** `stopDataServer` reads `grpcSrv` (`event.go:160`) with no
synchronisation with the goroutine's write. Under the Go memory model the racy
read may return nil even after the write, so `StopDataServer` may always see
nil, and sees the server only once it exists. `stopSaw` records what it read.

**Fairness.** Weak fairness on every step of both goroutines: each is
runnable whenever its step is enabled.

### `SdkCommandProofs.tla`: TLAPS proofs about `SdkCommand`

It proves the type invariant, the commit count and the meaning of a nil exit
for every `MaxCommits`. See section 4.

## 3. Runs

| Run | cfg | Checks | Result |
|-----|-----|--------|--------|
| orchestrator_safety | `MC_Orchestrator.cfg` | `TypeOK`, `NoUnsafeRepost`, `NoLostComment`, `StatusMonotonic` | pass |
| fanout | `MC_FanOut.cfg` | `TypeOK`, `ResultComplete`, `NoStragglers`, `CollectorReturns` | pass, for both values of the server's `exitOnError` (a state variable fixed at the start): a return without error carries exactly the analyzers' comments, and no goroutine outlives it; the call always returns |
| fanout_settings_race | `MC_FanOutRace.cfg` | `OwnSettings` | violation: analyzer a2 receives a1's settings through the shared `e.Configuration` |
| fanout_goroutine_leak | `MC_FanOutLeak.cfg` | `TasksTerminate` | violation: a second failing goroutine blocks forever on the unbuffered `errCh` after the collector returned |
| settings_merge | `MC_MergeSettingsCall.cfg` | `MergeIsDeepOverlay` | violation: global `k1: {k1: x}` merged with local `k1: {}` gives `k1: {}`. The nested key of the lower layer is lost, because the yaml-decoded nested mappings fail the `map[string]interface{}` assertion and `mergeMaps` never recurses (spec 4.3, 9) |
| config_resolve | `MC_ConfigResolve.cfg` | `TypeOK`, `UpperLayersDisable`, `RepoSettingsWin` | pass: an analyzer disabled by the server or the organization is never contacted, and every setting in `.lookout.yml` reaches the analyzer |
| config_repo_disable | `MC_ConfigAnyLayerDisables.cfg` | `AnyLayerDisables` | violation: `disabled: true` in `.lookout.yml` is dropped by `mergeConfigs` (spec 4.3, scenario 8.1) |
| config_layer_order | `MC_ConfigLayerPrecedence.cfg` | `LayerPrecedence` | violation: when a `.lookout.yml` exists but does not name the analyzer, the server default `k1: x` wins over the organization's `k1: y` |
| watcher | `MC_Watcher.cfg` | `TypeOK`, `EveryEventHandled`, `EventsEventuallyHandled`, `ImplementsEventStream` | pass: each received review or push line reaches `cb` once, in input order; without cancellation or a stopping `cb`, every event before the first over-long line does; `Watch` refines `EventStream` |
| watcher_too_long | `MC_WatcherTooLong.cfg` | `ImplementsFairEventStream` | violation: on `stdin = <<toolong>>` the reader ends on `bufio.ErrTooLong` without a word, and `Watch` neither consumes the rest of its input nor returns |
| sdk_command | `MC_SdkCommand.cfg` | `TypeOK`, `CommitsCounted`, `NilReturnMeansSuccess`, `ExecuteReturnsWhenStopSeesServer` | pass: push reports the commits after the base up to the head and reaches `HandlePush` only for an ancestor base; `Execute` exits with nil only after a successful review or push whose server `stopDataServer` saw and stopped; whenever `stopDataServer` sees the server, `Execute` returns |
| sdk_command_hang | `MC_SdkCommandHang.cfg` | `ExecuteReturns` | violation: `stopDataServer` reads `grpcSrv` as nil, `Serve` is never stopped, and `Execute` blocks on `<-stopCh` forever |

The properties:

- `NoUnsafeRepost`: a Post outside safe mode never carries a comment the
  provider already has.
- `NoLostComment`: the ledger is a subset of what was delivered.
- `StatusMonotonic`: the stored status only moves
  `new -> posting -> processed/failed` or `new -> processed/failed`.
- `ResultComplete`: a return without error carries the comments of exactly the
  analyzers that produced some.
- `NoStragglers`: a return without error (always the case without
  ExitOnError) comes only after every goroutine finished.
- `CollectorReturns`: when every RPC has a deadline the collector always
  returns, even with the disabled analyzers' nils in the buffer.
- `NilReturnMeansSuccess`: a nil exit of `Execute` means that `HandleReview`
  or `HandlePush` succeeded and that `stopDataServer` saw and stopped the
  server. A nil reaches `stopCh` only from a `Serve` ended by that
  `GracefulStop`, and `Execute` waits only after a successful handler. Under
  the racy nil read the command never reports success. A dropped
  `if err != nil { return err }` breaks it.

**Bounds.**

- *Orchestrator: 2 events (a review and a push) and 2 comments, with symmetry
  over the comments.* Two
  comments allow a partial post, a partial ledger save, and a rerun whose fresh
  batch is a strict subset. Two events interleave a crash of one with the
  handling of the other. The model is finite without a counter because `h` is
  reset on crash and every redelivery is the same event. Every crash point and
  every failure branch is reached.
- *FanOut: 3 analyzers, one disabled and one whose settings convert to nil.*
  This is the smallest case with a disabled nil in the buffer, a nil-settings
  race, and two failing goroutines competing for `errCh`.
- *Settings: two keys and two scalars, at depth 2.* This is every
  scalar/mapping conflict, a nested key that survives, and an empty mapping
  that hides nothing. The settings `ConfigResolve` gives a layer are a subset:
  none, two conflicting scalars under one key, and a nested mapping under that
  key.
- *ConfigResolve: one registered analyzer and one unknown name*, with every
  combination of the three layers: 56,440 initial states. The merge is
  computed per name, so a second registered analyzer adds nothing.
- *Watcher: every stdin of up to 3 lines.* This is the smallest input in which
  the reader holds one line while another waits in the slot after a skipped
  line, and in which an over-long line hides a later event.
- *SdkCommand: a head log of up to 3 commits.* The base can be the head, one
  or two commits back, or missing. Both commands take every early error, and
  the two goroutines take every order. The race needs no data bound at all.

**Stated, and false of the code, without a run of their own.** Three more
properties state what the code should do. TLC finds each false on the
instances above, and each is listed as a hazard:

- `ProviderStatusSettled` (`Orchestrator.tla`): an analyzer error under
  ExitOnError stores `failed` but leaves the provider at `pending`
  (`server.go:215`).
- `ReaderStops` (`Watcher.tla`): `Watch` returns with a line in the slot, and
  the reader blocks forever on its next send (`watcher.go:38`).
- `NoSpuriousStopError` (`SdkCommand.tla`): `GracefulStop` lands between
  `NewBblfshProxyServer` and `Serve`, and a successful review exits with
  `grpc.ErrServerStopped` (`event.go:156`).

## 4. What is proved

`OrchestratorProofs.tla` proves four theorems for all sets `Events` and
`Comments` and both values of `ExitOnError`. It assumes only
`OrchestratorAssumption`.

- `TypeCorrect`: `Spec => []TypeOK`.
- `SafePosting`: `Spec => []NoUnsafeRepost`.
- `LedgerSound`: `Spec => []NoLostComment`.
- `StatusMonotonicity`: `Spec => StatusMonotonic`, derived from the inductive
  invariant.

`NoUnsafeRepost` is not inductive by itself. The inductive invariant `IInv`
adds two conjuncts.

- *`Exposed`.* An event with a delivered comment outside the ledger has status
  `posting` or a terminal status. The marker is written before any Post, and a
  status only moves forward. A rerun therefore sees `posting` (and is safe) or
  is skipped.
- *`HandlerInv`.*
  - A running handler's event is stored as `new` or `posting`.
  - In the analyze and post stages, an unsafe handler's event is `new`.
  - In the posting and saving stages the event is `posting`.
  - In the saving stage the batch is already delivered.

An unsafe handler therefore works on a `new` event. By `Exposed`, every comment
delivered for that event is already in the ledger, and the filter
`batch \ ledger` has removed it. TLC checked `IInv` as an invariant on the
`MC_Orchestrator` instance for both values of `ExitOnError` before the proof was
written. The step proof has one case per action and one step per conjunct that
the action can disturb.

`WatcherProofs.tla` proves, for every length of stdin (assuming only
`WatcherAssumption`):

- `PipelineInvariant`: `Spec => []IInv`.
- `TypeCorrect`: `Spec => []TypeOK`.
- `EventsHandledInOrder`: `Spec => []EveryEventHandled`.
- `WatchImplementsEventStream`: `Spec => ImplementsEventStream`, the
  refinement.

`EveryEventHandled` is not inductive alone. It needs to know that the line the
select loop receives is the next one. `Pipeline` states this: the lines
scanned equal those received, plus the one in the slot, plus the one the
reader holds; the slot holds line `taken + 1`; and a held line is the last
scanned. With it, `SelectLine` appends exactly `taken + 1` to `delivered`, which
keeps it increasing and complete. The lemma `AppendKeepsHandover` carries
that step. The refinement rests on the same invariant: `SelectLine` is
`Consume` because the received line `taken + 1` is within the input.
`RefinementInit` and `RefinementStep` are the two refinement obligations, and
PTL combines them with `PipelineInvariant`.

A note for the reader of the proofs: Z3 does not reliably do arithmetic on
`Len(s)` terms. The lemmas `OneSlot`, `SingleTail` and `AppendKeepsHandover`
name the length as a `Nat` before reasoning about it.

`FanOutProofs.tla` proves, for every finite set of analyzers, every choice of
disabled and nil-settings analyzers, both values of `Timeout` and both values
of `exitOnError` (assuming only `FanOutAssumption`):

- `InductiveInvariant`: `Spec => []IInv`.
- `TypeCorrect`: `Spec => []TypeOK`; in particular `commentsCh` never holds
  more than `len(s.analyzers)` values, so no send on it is lost.
- `CollectsAllComments`: `Spec => []ResultComplete`.
- `NoGoroutineOutlives`: `Spec => []NoStragglers`.

The argument is a count. `Pushed` is the set of analyzers that have put their
one value on `commentsCh`: the disabled ones the range loop has reached, and
the goroutines that are done. The invariant `Counted` says
`Cardinality(Pushed) = main.recv + Len(commentsCh)`. `CommentsAccounted` says
that the comments collected, together with those still buffered, are those of
the analyzers in `Pushed` whose outcome is comments. `DisabledIdle` and
`Unspawned` make each push add an analyzer that was not in `Pushed` (lemma
`PushOne`, from `FS_AddElement`). `CleanReturn` says a return without error
comes after `len(s.analyzers)` receipts. From these, lemma `AllPushed` shows
that `Pushed` is all analyzers and the channel is empty at such a return
(`FS_Subset`: a subset of the same cardinality is the set). No analyzer can
then be in flight, and none can change its outcome. The lemmas `ItemsAppend`
and `ItemsTail` give what a send and a receive do to the channel's contents.
There is one lemma per action. `LocalStep` covers the four goroutine steps
between spawn and push. TLC checked `IInv` on the `MC_FanOut` instance (and
with two disabled analyzers) before the proof was written.

`SdkCommandProofs.tla` proves, for every `MaxCommits` (assuming only
`SdkAssumption`):

- `InductiveInvariant`: `Spec => []IInv`.
- `TypeCorrect`: `Spec => []TypeOK`; `stopCh` never holds more than its one
  slot.
- `PushCountsCommits`: `Spec => []CommitsCounted`.
- `NilExitMeansSuccess`: `Spec => []NilReturnMeansSuccess`.

`IInv` adds the following to the properties:

- `BaseInLog`: the base is in the head's log or one past it.
- `BeforeWalk`, `Walking` and `Walked`: the walk starts at the head with no
  commit counted; while walking it has counted every commit before the next
  and not passed the base; after it, the position is the base and the base is
  in the log.
- `SentResult`, `GoroutineNotStarted` and `ChannelHoldsOut`: the goroutine
  reaches its send with a result, starts only at `SpawnDataServer`, and
  `stopCh` is empty or holds exactly that result.

- `NoResultYet`: until `Serve` ends, the goroutine has no result.
- `HandledBeforeWait`: `Execute` reaches `stopDataServer` after the handler,
  and waits on `stopCh` only after a successful one.
- `NotYetStopped`: `stopDataServer` has read nothing before Execute's stop
  step.
- `StoppedBySdk`: a stopped server was stopped by `stopDataServer`, which saw
  it, and `Serve` returns nil only on a stopped server.

`NilReturnMeansSuccess` is not inductive alone. `ReceiveStop` returns the
head of `stopCh`, and the invariant must say where a nil there comes from.
`ChannelHoldsOut` makes it the goroutine's `out`. `StoppedBySdk` traces
`out = nil` back to `GracefulStop` and to `stopSaw = "srv"`.
`HandledBeforeWait` gives the successful handler. `NoResultYet` and
`NotYetStopped` keep `StoppedBySdk` true across `NewProxyServer`, `Serve` and
the nil branch of `StopDataServer`. TLC checked `IInv` on the `MC_SdkCommand` instance before
the proof was written.

`SettingsMergeProofs.tla` holds lemmas about the merge, for every set of
keys and scalars (assuming `SettingsMergeAssumption` and
`ValueShapeAssumption`):

- `MergeAtLocalKey`: `mergeMaps` takes every key the local layer sets as it
  is. No yaml-decoded value passes the assertion.
- `MergeType` and `MergeSettingsType`: the merge returns a settings value.
- `NodesKept`: every node of the local layer is a node of `mergeMaps(g, l)`.
  `MergeSettingsKeepsLocal` states the same for `mergeSettings`.

Nothing is proved of `MergeIsDeepOverlay`, which is false of the code.

`ConfigResolveProofs.tla` proves, for every set of analyzers, every layer and
every settings value of the universe (assuming `ConfigResolveAssumption` and
`NilAssumption`, which says a map the code has made is not nil):

- `InductiveInvariant`: `Spec => []IInv`.
- `TypeCorrect`: `Spec => []TypeOK`.
- `DisabledLayersObeyed`: `Spec => []UpperLayersDisable`.
- `RepoSettingsReachAnalyzer`: `Spec => []RepoSettingsWin`.

`IInv` records what each stage has computed:

- `RepoRead`: past `getConfig`, `repoConf` is the parsed file, or nil when
  there is none.
- `OrgRead`: past `getOrgConfig`, `orgConf` is the parsed organization
  default.
- `Merged`: past `mergeConfigs`, `conf` is the merge of the two.
- `Dispatched`: after the loop, `contacted` and `settingsOf` are what it
  computed from `conf`.

The lemma `MergeConfigsType` is the core of both properties. A merged entry is
the organization's entry with only its settings replaced. So
`conf[a].disabled` is the organization's flag (`ConfDisabled`), and the
repository's `disabled: false` cannot re-enable an analyzer. The repository's
settings sit on top of two merges. `NodesKept` keeps them through
`mergeConfigs`, and `MergeSettingsKeepsLocal` keeps them through the loop's
`mergeSettings`. TLC checked `IInv` on the `MC_ConfigResolve` instance before
the proof was written.

**Only model-checked:**

- the liveness properties (`CollectorReturns`, `TasksTerminate` (which fails),
  `EventsEventuallyHandled`, `ImplementsFairEventStream` (which fails),
  `ExecuteReturnsWhenStopSeesServer` and `ExecuteReturns` (which fails)),
  since TLAPS does not handle liveness under fairness or `ENABLED`;
- the violated properties of the `violation` runs, which no theorem can
  state.

The merge lemmas are proved only for settings nested two levels deep, the
depth of the model's `Settings`. They hold at every depth, since the merge
never recurses on yaml-decoded values. Stating them for every depth would need
a recursive universe of settings, which the provers cannot induct over.

## 5. Not modelled (yet), and the plan

- **`MemCommentOperator` on push events.** Its type assertion panics on a push
  event with comments (`memory.go:60`, `:68`). The model's ledger is the
  `CommentOperator` contract, which holds for both kinds. The panic is listed
  as a hazard.
- **Concurrent `HandleEvent`.** There is none: the watcher calls the handler
  synchronously, one event at a time.
- **`noBblfshService`** (`event.go:236-260`). The lookout-sdk data service's
  refusal of UAST requests after a failed bblfshd dial is one conditional per
  request, within a unit test's reach.
- **The GitHub transport and the dummy analyzer.** They are construction-time
  wiring and formatting, with no state to check.
- **`c.repo.Log`'s unchecked error** (`push.go:72`). When `Log` fails, the nil
  iterator panics. The model takes `Log` to succeed, because the head was
  resolved just before. This is listed as a hazard.
- **The data service and the scanners.** Their code is not under `src/`.
