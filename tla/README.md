# A TLA+ verification of tramuthus

The repository holds a family of Go programs that record market bars, derive a
phase angle from them with a Hilbert-transform filter, and turn the angle into
simulated trades (`DSE_JEH`, the *runtime*), plus the services that feed it
(`Fin_FeedSat_1`), the collector that stored the bars it replays
(`Bar_Sequence_Lab`), provers and viewers. This directory is its verification
project: what can be modelled of that code in TLA+, the TLC configurations that
check it on small instances, and theorems that hold for every instance.

Contents: [1 Inventory](#1-inventory), [2 Modules](#2-modules-and-the-code-they-translate),
[3 Runs](#3-what-the-runs-check), [4 Bounds](#4-bounds), [5 Fairness](#5-fairness),
[6 Proofs](#6-what-is-proved), [7 Findings](#7-findings),
[8 Limits](#8-what-is-not-modelled-and-why), [9 Plan](#9-plan).

## 1. Inventory

All paths are under `src/`. "Status" says what this project does with it today.

### DSE_JEH, the runtime

One process, three kinds of goroutines: *main* (`Application.Run`), the *source*
(bars in, one `Pipeline.Process` call after another) and gRPC handlers. Main and
source meet only in channels (`sourceErrors`, the cancelled context), in the
reservoir's mutex and on the evidence bus, where both publish.

| component | state it keeps | operations | what makes it correct | hard part |
|---|---|---|---|---|
| Phase policy (`internal/services/phase_transition.go`, `dynamic_execution.go`) | none | displacement, boundary facts, policy fold | every boundary the signal passes is seen once, in order | modular arithmetic, half circles, arcs that start or end on a boundary |
| `execution.CapitalReservoir` | cash, positions, profit, sequence number, started/ended | Start, RecordExecution, Mark, End, AllocationCapacity | no capital appears or disappears; the stored events replay to the memory | a store write may fail, or succeed without an acknowledgement |
| `execution.Account`, finance formulas | capital, quantity, entry and peak price of one symbol | ApplyConfirmed, sizing, trailing stop | profit accumulates, quantity alternates between 0 and a purchase | two bookkeepings of one position (account and reservoir) |
| `app.Pipeline` | per symbol: retained phase, strategy state, account | Process, StartReservoir, EndReservoir | account and reservoir agree; a symbol in LIQUIDATE is flat; a held position is above its stop | a bar is many writes, each may fail; main may end the reservoir in between |
| `app.Application` and the sources | lifecycle status, the select's stage, evidence streams | start, select, shutdown | an orderly stop stores RUN_END; cancellation ends the run | two goroutines, cancellation anywhere, `select` picking freely |
| Admission and analytical coordination | last sequence number and close per symbol, history length | Admit, AcceptedBarIndex | duplicates and gaps are rejected, 64 bars before the first phase | the mapper numbers a bar before admission sees it; a gap never closes again |
| Online and offline input | attempts, backoff, sequence counters; none offline | subscribe, map, reconnect; read, map, replay | every bar the other side keeps is admitted once, in time order | a reconnect repeats bars; the satellite's queue drops them; stored copies |
| Evidence bus | subscribers, publication number | Publish, Subscribe | one goroutine's publications arrive in order, none twice | the number is taken outside the lock, full buffers drop |
| Counters, terminal, configuration, JEH solver, trace and phase writers | counters; filter registers | – | – | floating point; not modelled beyond what they return |

### Bar_Sequence_Lab

| component | state it keeps | operations | what makes it correct | hard part |
|---|---|---|---|---|
| Bar sequence collector (`generator/`) | sessions and readers, ingest channel, three bounded stages per partition, sequence authority, JSONL file, Mongo documents | stream, dispatch, number, transfer, persist, shut down | each store holds a prefix of what was numbered; a loss is counted; the stored documents replay | a stage refuses instead of blocking; two stores written one after the other with retries; readers that outlive their session |
| Phase angle series generator, viewer | – | a batch over stored bars; read-only pages | – | not modelled |

### Fin_FeedSat_1

| component | state it keeps | operations | what makes it correct | hard part |
|---|---|---|---|---|
| Feed ingestion (`internal/ingestion`) | windows, breaker, subscriptions, model path | Run's loop, gap fill on goroutines of its own, Subscribe, fan-out | a bar is offered to the models or the path is marked; the breaker ends at the source's state | live and REST bars of one minute race; three writers of the breaker |
| Model host (`internal/modelhost`) | inbox, discontinuity, the engines' last commit | dispatch, poll the path, gate, commit | nothing is committed past a loss, nothing backwards | the loss is noticed by another goroutine than the one that commits; one engine commits ahead of the others |
| Stage transition hub (`internal/stagetransition`) | last state and number per stage, subscribers, drop counter | report, publish, subscribe, close | what a subscriber holds can be put in order and shows the stage | numbered under one lock, published outside it; closed channels |
| Feed server and market feeds | subscriptions, sessions | StreamBars, TriggerGapFill, websocket and REST sources | windows first, then the queue that was subscribed before | bars in both, bars in neither |
| Adaptive, pricing and volume engines | filter states | floating-point estimation | – | not modelled beyond "commits or fails" |

### The rest

Provers (`DSE_JEH_provers`, `DSE_TransSat_1_worker`), a semantics catalogue and
its tooling, and web viewers: sequential replays, tables and read-only front
ends.

`PROJECT.json` lists every component with its status and, under `hazards`, each
place where this code can go wrong in a way a unit test would hardly reach, with
the property that covers it, or why none does.

## 2. Modules and the code they translate

```
DSE_JEH
PhasePolicy ──────┬── PhaseTrack ── MCPhaseTrack
SymbolAccount ────┤
                  ├── DynamicPipeline ──┬── MCDynamicPipeline
RunLedger         │                     └── ApplicationRun ── MCApplicationRun
   ▲ implemented  │
CapitalReservoir ─┴── MCCapitalReservoir

Admission ──┬── OnlineAdmission ── MCOnlineAdmission      (with Fin_FeedSat_1)
            └── OfflineReplay ── MCBarCollector           (with Bar_Sequence_Lab)
BarCollector ──┘      │
   ▼ implements       │
ObservationLog  (two instances: the file, the collection)

EvidenceBus ──────┬── MCFanouts
StageTransition ──┘
   ▼ both implement
PublishedFeed

FeedIngestion ── ModelHost ── MCModelHost

CapitalReservoirProofs ──┐
PhasePolicyProofs ───────┼── ApplicationRunProofs   (DynamicPipeline, ApplicationRun)
                         └── PhaseTrackProofs       (PhasePolicyProofs only)
BarCollectorProofs (with OfflineReplay)   FanoutProofs   OnlineAdmissionProofs   ModelHostProofs
```

### The runtime's trading path

**PhasePolicy** (pure operators). `ShortestCircularDisplacement`,
`DeriveBoundaryFacts`, `EvaluateBoundaryPolicy`, `EvaluateDynamicExecution` and
`StateForPhase` keep the names of the Go functions. Angles are whole degrees;
the governed expression `crossed && forward`, which the code runs through an
expression engine, is taken by what it evaluates to.

**PhaseTrack** drives PhasePolicy with any sequence of angles and keeps an
odometer beside it: the unwrapped angle, and how often each boundary was
counted. `phase` and `state` are `pipelineEntity.priorPhase` and `.state`; the
other variables are history variables no action's guard reads, except that
`unwrapped` is kept within the bound.

**RunLedger** (abstract). What the collection `capital_reservoir_events`
promises to whoever replays it: RUN_START first, each document's balance chained
to the one before, each symbol bought only when flat and sold only in full, at
most one RUN_END and nothing after it. Its only state is the stored documents.

**CapitalReservoir**. `cash`, `realizedPnL`, `sequence`, `started`, `ended` and
`positions` are the fields of the Go struct (a symbol absent from the map is
`NoPosition`); `ledger` is the external collection, `closing` the totals of its
RUN_END. Each operation holds the mutex from start to end and so is one action:

| action | code |
|---|---|
| `Start`, `End` | `Start`, `End` with their document, write and flags |
| `RecordExecution` | checks (`Recordable`), document (`FlowEvent`), write (`Persist`), memory (`ApplyFlow`) |
| `Mark`, `AllocationCapacity` | same names |

A write is `Persist(event, ok)`: acknowledged, lost, or stored with the
acknowledgement lost; the unique index on the sequence number is
`NextSequenceFree`. `Allocation` and `Liquidation` add what the reservoir relies
on its caller for and does not check: buy only a flat symbol, sell only all of
it. That callers keep to it is a property of DynamicPipeline.

**SymbolAccount** (pure operators): `ApplyConfirmed` and the checks before it,
sizing, trailing peak and stop of `finance.go`.

**DynamicPipeline**. `Pipeline.Process` in the OFFLINE configuration with a
reservoir. `entities[s]` holds the retained phase, the strategy state and the
number of valid bars so far; `accounts[s]` the account; `worker` is where
Process stands. Process runs on the source goroutine and meets main only at the
reservoir's mutex, so a worker step ends exactly where Process takes it:

| action | code |
|---|---|
| `ReceiveBar` | Process from `Mark` to the end of Dynamic Execution, with traces 1 to 4 and the phase record |
| `Allocate`, `HoldOrSafetyLiquidate`, `Liquidate` | the three branches of the action loop, each with its sizing or stop check and, through `Execute`, the fill, `ApplyConfirmed` and trace 7 |
| `Record` | the end of `execute`: `RecordExecution` on the reservoir |
| `Settle` | after the loop: capital result and trace 8 |
| `StartReservoir`, `EndReservoir` | same names, called by main |

`Duties` is the list of outcomes the action loop reacts to on one bar, including
the one trailing check made after the loop when no action ran; `ActingAmong`
picks from a bar's outcomes the ones the loop has a branch for.

**ApplicationRun** puts the application around it: `lifecycle` is the runtime's
status, `main` the place `Application.Run` has reached, `source` the source
goroutine and the content of `sourceErrors`, `cancelled` the context, `streams`
the open evidence subscriptions. `Listen`, `StartRun`, `SelectCancelled`,
`SelectSourceResult`, `SelectServeError`, `Drain` and `Stop` are Run and
shutdown; `EmitBar`, `ProcessBar` and `SourceReturns` the source, with what it
may put in `sourceErrors` as `SourceResults`; `Cancel`, `OpenStream` and
`CloseStream` the surroundings. An error that wraps `context.Canceled` is handled
as a completion, so `SourceResults` counts it as one. Bars come in the replay's order,
symbol by symbol (`ReplayPosition`).

### What the collector stores and the runtime replays

**ObservationLog** (abstract). Per partition a log that is only appended to, and
a store that holds at every moment a prefix of it; one write adds at most a
batch. No holes, nothing taken back, partitions independent.

**BarCollector**. One collection run. The state is that of the Go program:
`ingest` the engine's channel; `ingress`, `ready`, `persist` the three stages of
a partition with their closed flags; `numbering`, `moving`, `batch` what the
three goroutines hold in their hands; `nextNo`, `lastTime`, `seen` the sequence
authority; `jsonl` and `mongo` the lines and documents, copies included;
`critical`, `droppedValid`, `unknown`, `persisted` the counters. `log` and
`taken` are history variables.

| actions | code |
|---|---|
| `StartSession`, `ServerAnswers`, `ReaderReceives`, `ReaderSends`, `ReaderEnds`, `SessionEnds`, `SourceReturns` | `Stream.Run`, `session` (dial; `authenticate` and `subscribe`, which wait for the server; the loop) and its reader goroutine, the goroutine of `Engine.Run` that closes ingest |
| `DispatchLive`, `StopDispatching`, `CancelRun`, `JoinSource`, `DispatchDrained`, `CloseIngress`, `JoinPartitions` | `Engine.Run` from its select to its end; `Dispatch` is `dispatch` and `Partition.Accept` |
| `SequencePop/Push/Ends`, `TransferPop/Push/Ends` | `sequenceLoop`, `transferLoop`, with `Stage.Push` that refuses when full |
| `PersistReceive/Flush/Ends`, `WriteJsonl`, `JsonlFails`, `WriteMongo`, `MongoFails` | `persistLoop`, `flush` and the writers' `WriteBatch` |

A message is its symbol, its time and its `payload`, which stands for message type
and values: a bar (`b`) and its correction (`u`) share symbol and time and differ in
payload. `DuplicateKey` is the key the authority remembers, and all three are in it.
A session between its dial and the server's last answer is `reader = "handshake"`;
nothing in the program ends it there.

`JsonlFails` has the two outcomes the code has: only the sync failed, and the
lines are there already; or writing broke off, and `bufio.Writer` repeats the
error for ever (`jsonlBroken`). `MongoFails` stores any part of the batch first.
A send on the closed ingest channel is `phase = "panicked"`.

**Admission** (pure operators): `Verdict` and `Admit` of the admitter.

**OfflineReplay** puts the two programs together: what a collection holds at any
moment of a collection run is read as `Repository.ReadAll` sorts it and fed to
`Admit` with the identity `MapObservation` gives. `ReadAll` places a document by
its rank among its symbol's documents; copies share a number, and since they are
alike their order shows nowhere.

### What the satellite sends and the runtime admits

**OnlineAdmission**. `window`, `accepting` and `queue` are the satellite's side
(window store, a bar between window and fan-out, the subscription's channel;
`window` holds each symbol's bars as a sequence in the order the store keeps);
`link`, `attempt`, `toCatchUp`, `sending`, `sent` the stream and the consumer's
loop; `mapped` and `admitted` the mapper's counters and the admitter. A bar is its
symbol, minute, kind (a finished bar `b`, an update `u`, which is unfinished, a
backfilled one) and reading; what the consumer knows it by, its snapshot id, covers
all but the kind (`Event`). The live source may bring any of its bars at any time,
late or twice, because updates are subscribed too and an old session's reader is
not awaited; the historical source any of its own, newer ones included.
`AddToWindow` alone decides what is taken. `newest`, `lossy` and `disturbed` are
history.

| actions | code |
|---|---|
| `AcceptLive`, `AcceptBackfill`, `FanOut` | `Pipeline.accept` from the loop, `GapFill`'s `Add`, with `WindowStore.Add` and `shouldReplace`, and `fanout` |
| `OpenStream`, `ReadWindow`, `CaughtUp`, `SkipUnfinished`, `SendCatchUp`, `SendLive` | `StreamBars`, each send with `Mapper.Map` and `Admit` at the other end (`Receive`) |
| `StreamBreaks`, `BackoffEnds`, `ConsumerStops` | `Consumer.Stream` |

### The two fan-outs

**PublishedFeed** (abstract). Numbers in the order of issue; a subscriber may
miss any publication and may see those of two publishers swapped, but sees one
publisher's in order and none twice.

**EvidenceBus**. `Publish` in the steps between which another goroutine can
come: `TakeNumber`, `ReadLock`, one `Offer` per subscriber, `ReadUnlock`; the
gRPC side as `SubscribeRuntimeEvidence`, `StreamSends`, `StreamEnds`.

**StageTransition**. A report is `ReadState` (by the caller), `Consider` (the
detector under its lock), `Snapshot`, one `Deliver`, `Drop` or `SendOnClosed` per
subscriber, `EndPublish`; `Unsubscribe` and `CloseHub` unregister under the lock
and close the channels after it (`CloseChannel`). `fact` is the state a stage is
in, `log`, `handed` and `since` are history.

### From a bar to the models

**FeedIngestion**, for one symbol. `RunAccepts`, `RunFansOut`, `RunObserves` and
`RunTicks` are the loop of `Pipeline.Run` (a bar, then the state of the source);
`TriggerGapFill`, `MarksRecovering`, `Fetches`, `FetchFails`, `AddsFetched`,
`MarksHealthy` are `GapFill` on the recovery goroutine or a request's;
`HealthChanges`, `Reports` and `LiveBar` the websocket source, whose reader may
outlive its session and then be late. The source reports its state, whether its last
pong was slow and whether three pings in a row failed; what `CircuitBreaker.Observe`
makes of the three is `Observed`. Nothing but another pong takes a slow one back, not
even a new session. `ShouldReplace` and `FanoutModel` keep the code's
names. A bar is its minute, its reading and whether it was backfilled.

**ModelHost** adds `SubscribeModelBars`, `Dispatch` and `RefreshPathStatus` (the
dispatcher goroutine), `HandleBar`, `ProcessVolume` and `StepEngines` (the
worker). `Gate` is what the readiness check can be relied on for: two bars in the
window and a minute after the last joint commit. Everything else it looks at
is read at other moments by other goroutines, so it may say either. The latch for
a proven missing bar (`host.go:617-625`) is not there: it asks for an interface that,
as its comment says (`host.go:68`), only a test's source implements.

Definitions commented as *faulty variants* are not part of any specification.
Each is a plausible bug in one definition; substituting it makes the property
named in `PROJECT.json` "mutants" fail, which shows that the property depends on
that code.

## 3. What the runs check

| run | module | shows |
|---|---|---|
| phase_track | MCPhaseTrack | any sequence of ten awkward angles over about two turns either way: facts equal a walk degree by degree, crossings add up to what the continuous signal did, and a forward-only signal's state is the quadrant it is in |
| reservoir | MCCapitalReservoir | any order of the reservoir's operations with every write free to fail either way: capital conserved, memory tracks the stored documents, RUN_END's totals are those of a replay, and the documents implement RunLedger |
| pipeline | MCDynamicPipeline | two symbols trading from the capital of one, RUN_END at any moment, any write failing either way: account and reservoir agree, confirmed purchases are affordable, LIQUIDATE is flat, HOLD_AND_TRAIL is above its stop, and the reservoir is only asked for what its guarantees rest on |
| application | MCApplicationRun | cancellation at any step, gRPC failure, subscribers: RUN_END is stored by every orderly stop and covers the confirmed fills of a run nobody cancelled, a cancelled run ends, a returned source leads to RUN_END |
| collector | MCBarCollector | three messages (a repeated one, a corrected one, a late one and an unknown symbol among them) through stages of one place, cancellation at any moment, one failing write: each store implements ObservationLog, Mongo trails the file by a batch, a line's flags follow from the lines before it, a loss is counted, and an offline replay of whatever is stored admits every document |
| collector_shutdown | MCBarCollector | two partitions, two sessions whose readers may outlive them: a shutdown that has begun ends, as long as a server does not leave a handshake unanswered for ever |
| fanouts | MCFanouts | the bus with two publishers and two streams, the hub with two reporters and a subscriber that comes and goes: both implement PublishedFeed, and the hub's promises to its readers |
| online | MCOnlineAdmission | live bars late, twice and updated, gap fills, a window and a queue that overflow, a broken stream and a second attempt: what admission takes, and what a repetition does to its symbol |
| feed | MCModelHost | loop, fillers, dispatcher and worker around queues of one place: no bar missed unexplained, nothing committed past a loss or backwards, the loss reaches the worker, the breaker settles at what the settled source reports |
| drain, stop, collector_loss | MCApplicationRun, MCBarCollector | the three findings of section 7; TLC finds a counterexample in each |

Some of what the properties say needs a word.

- `MemoryTracksLedger` allows the store to be one document ahead. That is the
  document stored without acknowledgement; from then on the index refuses every
  further write, because memory reuses the number.
- `AccountsMatchReservoir` excepts the fill that is between the two
  bookkeepings: `execute` changes the account first, stores trace 7, and only
  then calls the reservoir.
- `FlatInLiquidate` has no counterpart for DISREGARD and ALLOCATE: a reverse
  crossing changes no state, so a position can sit there untrailed until the
  next forward crossing. That is the code's behaviour (`NO_TRANSITION`), and
  TLC refutes the wider statement.
- `OrderlyStopStoresRunEnd` excepts the one case in which RUN_END cannot be
  stored at all: a write under the cancelled context that the store kept.

- `MongoTrailsByABatch` compares with what the file *acknowledged* (`persisted`);
  a file whose sync failed may already hold a batch more, which is repeated.
- `ShutdownEnds` excepts a JSONL writer that has kept an error, whose batch is
  retried for ever, and the panic of a reader that sends on the closed channel. Its
  hypothesis is about the server: `authenticate` and `subscribe` read with neither a
  deadline nor an eye on the context (`generator/internal/alpaca/stream.go:100`), so a
  server that goes silent there keeps the source, and `srcWG.Wait`, for good.
- `FileExplainsItself` calls a line a duplicate when the same message stands before
  it. A corrected bar of a time that is in the file already is none.
- `RejectionIsFinal` is not a virtue: a bar repeated by a reconnect is a
  duplicate that has used a number, and its symbol is analysed no further in the
  run. The property says that this, and nothing worse, happens.
- `FirstStreamAscends` and `HolesComeFromTheQueue` speak of the first stream and of
  symbols that are not `disturbed`: since the stream began, each bar the window took
  of them was a finished one from the live source and later than all before. A late,
  updated, replaced or backfilled bar is admitted under the next number wherever its
  minute lies, since admission compares numbers only; without the condition TLC
  refutes both.
- `BreakerSettles` has two parts because the breaker need not end where the source
  does: a source that is healthy again after a slow pong stays failed for the breaker
  until the next pong, and a server need not send one.
- `MissesAreExplained` names the ways a live bar misses the models without the
  path being marked: the host had not subscribed yet; the minute came late; a
  REST bar with the same values was faster, so that the live one counts as the
  same generation (and a REST bar is never model-eligible). In the last case a
  minute produces no decision event at all, not even a skip, although
  `Fin_FeedSat_1/docs/design/Fin_FeedSat_1_P03_ADAPTIVE_MODEL_HOST_083126.md:15` asks for exactly one.
- `DroppedTellsLoss` and `HubCatchesUp` say what holds as long as no send has hit
  a closed channel. `SendOnClosed` is reachable: `Publish` sends after it has
  released the lock under which `Unsubscribe` and `Close` run.

Deadlock is checked in the runs of the runtime's trading path. Where such a run
really is over, `Finished` and `Returned` name the final states. The other runs
say `CHECK_DEADLOCK FALSE`: a collection run that is joined, a consumer that has
ended, a process that panicked and a source that has used up its bounded input
have no next step.

## 4. Bounds

| bound | value | why it is enough |
|---|---|---|
| `MaxAngle` | 800 degrees | a little over two turns both ways, so every boundary is passed more than once |
| `MaxSequence` | 5 (reservoir), 100 (elsewhere, never reached) | RUN_START, three flows and RUN_END, or four flows: both symbols bought, one sold and bought again; writes that are not acknowledged do not count |
| `MaxBars` of the pipeline | 6 (pipeline), 4 (application), less in the findings | eligibility bar, initial state, and a full ALLOCATE, HOLD, LIQUIDATE cycle of one symbol with bars of the other in between |
| `MaxStreams` | 1 | one subscriber is enough to hold GracefulStop |
| symbols | 2, with `SymbolCount` 1 | two symbols share the capital of one, so the common cash runs out |
| prices | 0 and two or three positive ones | gain, loss, a fall below the stop; 0 stands for any close that is finite and not positive, which admission lets through |
| `Phases` | one angle per quadrant, or ten | with one per quadrant each half-circle step crosses two boundaries; the ten lie on, beside and between boundaries |
| `EligibilityBar` | 1 or 2 (the code: 64) | below, at and after eligibility; only the comparison matters |
| `AllocationPct`, `Risk` | 75, 50 | whole shares with a remainder; a stop a bar can pass |

| `BufferCapacity`, `FlushCount` | 1; 2, and 1 in two runs | a stage refuses the second bar that waits; a full and a partial batch |
| `MaxObservations` | 3, 2 in the shutdown run | one bar in each stage and hand while a third is refused; a repetition, a correction and a regression of one symbol; two symbols, in a partition each, in the shutdown run only (the theorems on files and stores hold for any symbols) |
| `MaxSessions` | 1, 2 in the shutdown run | a second session while the reader of the first still holds a bar |
| `MaxFaults` | 1, 0 for the finding | a failing write at any place of any batch; repetitions are what one failure causes |
| `MaxBars`, `TargetBars` of the collector | 0; 3 and 1 in the shutdown run | no limit; both limits within reach |
| `MaxPublications`, `MaxChanges` | 3, 1 | two publishers overtake one another while a third publication fills a channel; a state that goes there and back within a stale reading |
| `StreamBuffer`, `SubscriberBuffer` | 1 | the second publication that waits is dropped |
| `LiveBars`, `FilledBars` (online) | three minutes of one symbol, one of them also as an update, one of another symbol; two backfilled ones, another reading of a minute and a newer minute | a minute evicted, one in the window, one queued, one dropped; late, twice, replaced; two symbols in one queue |
| `FinalizedOnly` | TRUE (the consumer's default) | unfinished bars are kept out at both places, and stay in the window; the proofs take either value |
| `LastMinute` | 3 (feed) | one bar committed, one waiting, one lost |
| `WindowLimit`, `Queue`, `LiveQueue`, `ModelQueue`, `Inbox` | 2, 1, 1, 1, 1 | each of them overflows; a live bar meets the window's edge |
| `Attempts`, `MaxBars` of the stream | 2, 3 | a reconnect and the last attempt; a limit that ends a stream that works |
| `MaxFlaps`, `MaxRequests`, `Readings` | 3, 1, two | a whole outage and a reader of the session before it; a fill while another runs; a corrected bar |

With a queue of one place, `fanout`'s two selects (take the oldest out, put the
new one in) leave no room for the reader to matter between them: it either takes
the oldest bar itself, which is `SendLive` before `FanOut`, or finds nothing.
`FanOut` is therefore one step.

The feed run is a sum of four loads, chosen at the start and then fixed:
sessions that break and recover ("outages"), the same with one minute and with
slow pongs and failing pings before the host subscribes ("pongs"), a requested gap
fill while the session holds ("request"), and a third minute with all the host does ("bars").
Each load cuts what the others explore: in the first three the host takes bars from
its path at most, and the market produces one or two minutes. `LossReachesHost` is
asked of the last load only, where fairness of the host is assumed.

The reservoir and pipeline runs use symmetry over the two symbols: nothing in
those modules distinguishes them. Their properties are safety properties only.
The other runs order their symbols or check liveness, and use none.

## 5. Fairness

`FairSpec` assumes weak fairness of `MainStep`, `ProcessBar` and
`SourceReturns`: the Go scheduler runs both goroutines, every loop over stored
bars is finite, and a write returns. Nothing is assumed of bars, cancellation,
gRPC failures or subscriptions. `PatientSpec` adds that a subscriber eventually
hangs up. It is needed: the `stop` run shows what happens without it.

`CollectorFairness` (collector_shutdown): every goroutine of engine and
partitions runs, a session that is past its handshake ends once it is cancelled, a
cancelled source returns, a flush timer fires, and a store that failed works again
(`MaxFaults` bounds the failures). Readers, deliveries, cancellation and the server's
answers get none; nor does the end of a session nobody cancelled.

`StageFairness` (fanouts): weak fairness of every call of the hub, since nothing
in it waits, and strong fairness of the ticker's reading of each polled stage.
The reading is one case of a loop that is met again and again but not always
enabled: the ticker is busy with a report in between. The bus promises safety
only and gets no fairness.

`FeedFairness` (feed): weak fairness of the loop and of each filler (a REST call
has a deadline), strong fairness of `RunTicks`, one case of a select that bars
can keep from being enabled all the time but not from recurring.
`HostFairness` is weak fairness of dispatcher, path poll and worker. The source
owes nothing: `BreakerSettles` has the settled report as its hypothesis.

## 6. What is proved

Eight modules of proofs, all for every value of the constants. They state every
invariant, every action property and every refinement that a passing run checks;
what is left to TLC alone is liveness. The assumptions are the named ones of the
modules: `ReservoirAssumption`, `PipelineAssumption` and `ApplicationAssumption`
(finitely many symbols, naturals, percentages within 0..100, a symbol for "none",
every whole share count up to the symbol's capital a quantity), `CollectorAssumption`, `BusAssumption`,
`StageAssumption`, `OnlineAssumption`, `FeedAssumption` and `HostAssumption`
(capacities positive, selected members of their sets).

**CapitalReservoirProofs**, about `ReservoirSpec`:

- `ReservoirTypeCorrect`: `[]ReservoirTypeOK`. The part with content is that cash
  stays a natural number.
- `MemoryAlwaysTracksLedger`: `[]MemoryTracksLedger`.
- `ReservoirImplementsLedger`: `LedgerSpec`, the refinement of RunLedger.
- `CashIsConserved`: `[]CashConservation`; `RunEndAlwaysReconciles`:
  `[]RunEndReconciles`.

`MemoryTracksLedger` is not inductive. The invariant that is, `ReservoirInv`,
adds two parts. `LedgerNumbered` says document *i* carries number *i*; without
it the unique index says nothing about how long the ledger is, and the step in
which a reused number is refused cannot be shown. `PositionsTradable` says a
held quantity is one that could have been bought; without it a full sale would
not map to an Inflow step. Lemmas say what appending one document does to
`Balance`, `Opened`, `Closed`, `HoldsNothing` and `Holds`. The refinement then
follows step by step: an acknowledged write, or one stored without
acknowledgement, is the abstract step of its kind; everything else is a stutter.

The two properties about money are sums, over the positions and over the stored
documents, and a sum is a fold. What a fold computes is shown without induction
over an operator: if a claim about the subsets of a finite set were false, it
would be false of a smallest one, which gives adding one summand
(`SumOfZeros` and the lemmas around it). With that, one purchase or sale moves
one summand and the cash by the same amount. `RunEndReconciles` is not inductive:
`MoneyInv` adds `FlowsMatchMemory`, which says that as long as store and memory
are level the profit is the one a replay finds, and that a held position has
exactly one purchase in the documents that no sale follows, at its cost.

**PhasePolicyProofs**, about the pure operators, and **PhaseTrackProofs**, about
PhaseTrack's `Spec`, for any set of angles and any number of bars:

- `FactsByRank`: the facts of a transition are the boundaries it encounters, each
  once, in the order of their distances, in the transition's direction.
- `LastOutcomeDecides`: what the fold over a transition's facts leaves is decided
  by its last fact alone, and by none that is not forward.
- `FactsAlwaysMatchDegreeWalk`, `CrossingsAlwaysMatchOdometer`,
  `ForwardStateAlwaysMatches`: `[]FactsMatchDegreeWalk`,
  `[]NetCrossingsMatchOdometer`, `[]ForwardStateMatchesQuadrant`.

`TrackInv` is the three properties together with `Wrapped`, which says that the
phase is the odometer modulo a full circle. Without it a step's boundaries
cannot be located on the unwrapped line. The arc of a step is at most half a
circle, so it meets a boundary at most once; that is what turns ranks of
distances into the degrees of a walk. The recursive fold of outcomes is a
function on `0..n`, and the claim about it is shown of the least number at which
it could fail (`LeastNumber`).

**ApplicationRunProofs**, first about `PipelineSpec` of DynamicPipeline:

- `BookkeepingsAgree`: `[]AccountsMatchReservoir`.
- `PurchasesStayAffordable`: `[]ConfirmedPurchaseIsAffordable`.
- `ContractHonoured`: `HonoursReservoirContract`, so the reservoir's invariant and
  refinement hold inside the pipeline.
- `PipelineImplementsLedger`: `LedgerSpec`.
- `PipelineConservesCash`: `[]CashConservation`; `PipelineRunEndReconciles`:
  `[]RunEndReconciles`; `ProfitsAlwaysAgree`: `[]RealizedProfitAgrees`.
- `PipelineTypes`: `[]PipelineTypeOK`; `FlatWhileInLiquidate`: `[]FlatInLiquidate`;
  `AlwaysHeldAboveStop`: `[]HeldAboveStop`.

The inductive invariant, `PipelineInv`, is `ReservoirInv`, the type of the
accounts (their cash is never negative either), `AccountsMatchReservoir`, and
`FillsConfirmed`, which is what makes it inductive: a fill in flight is already
on the account, is a purchase of a symbol the reservoir holds nothing of and can
pay for, or a sale of exactly what it holds. It says nothing of entities or
duties, and neither does `ProfitInv` (the accounts' profits add up to the
reservoir's, but for the fill in flight): the theorems about money hold for every
sequence of actions Dynamic Execution could order, a stronger statement than the
run checks. `AllocationWithinBasis` is the arithmetic behind affordability.

`FlatInLiquidate` and `HeldAboveStop` do rest on what was ordered, and neither is
inductive: a bar moves the state first and acts on it later. `PhaseInv` adds
`DutiesFit`, which relates what is pending to the state it was derived with: while
duties are left, the last of them is the one the state asks for (the sale in
LIQUIDATE, the stop check in HOLD_AND_TRAIL); when none is left, the symbol is flat
or above its stop at the close of the bar. `LastOutcomeDecides` supplies the tie
between state and last duty when a bar comes in.

Then about `Spec` of ApplicationRun:

- `RunKeepsBooks`, `RunHonoursContract`, `RunImplementsLedger`: the three above
  for the whole application, because both goroutines only take pipeline steps;
  in the same way `RunConservesCash`, `RunEndTotalsReconcile` and
  `RunKeepsSymbolsSettled` (the types, `FlatInLiquidate`, `HeldAboveStop`).
- `OrderlyStopEnds`: `[]OrderlyStopStoresRunEnd`, and `RunEndIsComplete`:
  `[]RunEndCoversConfirmedFills`, both under the hypothesis
  `WriteResults = {TRUE}`: only writes under a cancelled context may fail.

`OrderlyStopEnds` rests on `ClosingTracked` (a reservoir that ended has stored
RUN_END, and one that stored it has ended or is behind the store) and on a store
that is ahead staying ahead. `RunEndIsComplete` rests on `UncancelledInv`: as
long as nobody cancelled, memory and store are level, RUN_END waits for the
source, and a fill in flight is about to be recorded, which cannot be refused.

**BarCollectorProofs**, about `CollectorSpec`, for any number of partitions, any
stage capacity and batch size, and any failing writes:

- `FileFollowsNumbering`, `DocumentsFollowNumbering`: the two refinements of
  ObservationLog.
- `EveryFileExplainsItself`: `[]FileExplainsItself`; `MongoTrails`:
  `[]MongoTrailsByABatch`; `EveryLossIsCritical`: `[]LossIsCritical`.
- `EveryReplayAdmitsAll`: `[]ReplayAdmitsEveryDocument`, across the two programs.

A store that holds a prefix is not an inductive statement: the next write must
continue it. `CollectorInv` therefore says where everything between log and store
is. The batch, stage 3, the hand of transferLoop, stage 2 and the hand of
sequenceLoop are *consecutive slices of the log* (`Slices`); a refused push ends
the line at that place (`Entering`, `Passing`) and never cuts a piece out of it;
and each store holds the log up to the batch plus some first part of the batch,
the part a failed write has left (`Written`). The refinement follows with
`Prefix(w + j)` as witness. `NumberInv` says of the log what FileExplainsItself
says of a file (numbers ascend and are complete, `lastTime` and `seen` are those
of the last and of all entries); every prefix inherits it. `LossInv` counts: as
long as `critical` is 0, what was taken is in the log or in stage 1, what is in
the log is acknowledged or in the line (`NothingMissing`), and each loop has
ended only on a closed and empty stage (`EndedInOrder`).

The replay needs no invariant of its own. The documents of a symbol are, as a
set, some first part of the log's, so by `NumberInv` their numbers are 1, 2, ...
without a gap and a number belongs to one bar (`ContiguousStore`); ranks order
them (`ReadAllReads`); so each document read carries the next number or is a copy
of the one before (`Steps`), which `Admit` admits or calls a duplicate
(`AdmittedNext`). `ReplayEnters` follows for the whole sequence by the least
number at which it could fail.

**FanoutProofs**, about `BusSpec` and `StageSpec`, for any publishers,
subscribers and buffers:

- `EvidenceBusIsAFeed`, `TransitionHubIsAFeed`: both refine PublishedFeed.
  `NoEvidenceTwice`: no number reaches a stream twice.
- `HubCanBeReconstructed`: `[]ReconstructionMatchesDetector`;
  `DroppedCounterTellsLoss`: `[]DroppedTellsLoss`.

What makes the feeds inductive is `OffersAreNewer` and `EventsAreNewer`: what a
publisher still has to offer a subscriber is newer than everything of its own
that subscriber was handed. `LogChains` ties the numbers of a key to the
detector's memory; `NothingForgotten` says that an event is in a registered
subscriber's channel or on its way to it, unless one was dropped.

**OnlineAdmissionProofs**, about `OnlineSpec`, whatever the satellite sends:

- `AdmissionAlwaysContiguous`: `[]AdmissionIsContiguous`; `RejectionSilences`:
  `RejectionIsFinal`.
- `NothingMissingBeforeRejection`: until its first rejection every number the
  mapper gave a symbol is admitted; `OnlyRepetitionsAreRejected`: what is rejected
  first is an event admitted before.

- `FirstStreamAlwaysAscends`: `[]FirstStreamAscends`; `OnlyTheQueueMakesHoles`:
  `[]HolesComeFromTheQueue`, both under the hypothesis `Queue < WindowLimit`.

The invariant of the first four is `InStep`: mapper and admission are level until
the first rejection and never again after it. The other two rest on `StreamInv`.
Whatever the sources bring, a window is a sequence of ascending minutes up to the
newest that was accepted (`WindowsKept`). An undisturbed symbol is followed through
the first stream (`Streamed`): what it gained since is the end of its window, and the
queue holds what came last (`Source`, `Queued`); what is admitted ascends and lies
before what is still sent of the window (`Ascending`, `Sending`); a bar still due
through the queue repeats one of those or is later than all of them (`Repeats`); and
unless the queue dropped one, no bar of the window that the stream wants is missing
from all three (`Covered`, `Gapless`). A bar that is disturbing ends the claim for its
symbol and must leave it intact for the others (`OtherBars`). The hypothesis is the
satellite's configuration (`Fin_FeedSat_1/internal/config/config.go:43`: a queue of
16, a window of 64), and it is needed: with both at 1, TLC finds a bar that the
window evicts between the subscription and the reading of the window while the
queue drops nothing.

**ModelHostProofs**, about `ModelSpec`:

- `VolumeStaysCausal`: `[]VolumeIsCausal`; `NothingPastALoss`:
  `[]NoCommitPastLoss`; `NoUnexplainedMiss`: `[]MissesAreExplained`.

`PathInv` orders the whole path: minutes ascend from commits through hand and
inbox to the queue (`PathAscends`), and a lost minute lies ahead of all that can
still be committed, either because the worker is latched or because the path is
marked and the queue ends before it (`LossIsAhead`). `OfferInv` says that a live
bar in the window has been through Run or is in its hand.

Only model-checked is liveness under fairness, which is out of the prover's reach:
`CancelledRunEnds` and `SourceResultLeadsToRunEnd` (application), `ShutdownEnds`
(collector), `HubCatchesUp` (fanouts), `LossReachesHost` and `BreakerSettles`
(feed). The three statements of documents in section 7 are refuted, not proved.
Recursive definitions are functions over an interval, so that the provers keep
their arithmetic; where a theorem says what one computes, it exhibits a table that
satisfies the definition and refutes a least place at which another would differ.

## 7. Findings

Three places where a document says something else than what the code does.

1. *Cancellation does not drain* (run `drain`). On cancellation `Run` calls
   `shutdown` at once and `shutdown` never waits for the source goroutine
   (`DSE_JEH/internal/app/application.go:202`), so the application reaches STOPPED
   while a bar it accepted is between two of its actions. The plan and the
   runtime report say accepted work drains before the stop
   (`DSE_JEH/docs/DSE_JEH_TRANS_SAT_1_IMPLEMENTATION_PLAN_V0_2_091326.md:796`,
   `DSE_JEH/docs/DSE_JEH_TRANS_SAT_1_GO_SERVER_RUNTIME_IMPLEMENTATION_REPORT_2026-09-13.md:123`).
2. *Shutdown may not reach STOPPED* (run `stop`). `GracefulStop`
   (`application.go:258`) waits for evidence streams, which return only when
   their own client leaves; the plan (line 516) says shutdown reaches STOPPED.

3. *An accepted observation can vanish* (run `collector_loss`). When stage 2
   refuses a numbered observation, `sequenceLoop` returns with it in its hand and
   closes stage 2 while stage 1 still holds others
   (`Bar_Sequence_Lab/generator/internal/pipeline/partition.go:81`);
   `transferLoop` does the same at stage 3. The design plan
   (`generator/docs/BAR_SEQUENCE_LAB_GENERATOR_DESIGN_IMPLEMENTATION_PLAN_V0_1_091026.md:710`,
   also line 340) says that every accepted valid observation is persisted or still
   pending and visible. What does hold is `LossIsCritical`: the loss is counted.

## 8. What is not modelled, and why

The map covers a small share of the repository's lines, and that will stay so.
Half of the implementation is generated protobuf code, another large piece is the
semantics catalogue (one table of descriptions); neither has behaviour to model.
Most of the rest is floating-point estimation (the adaptive, pricing and volume
engines, the JEH solver), parsing and validation of configurations, encoding, and
read-only services and pages. What keeps state, runs concurrently, retries or
recovers is modelled.

- Floating point. Money, prices and quantities are naturals, angles whole
  degrees. Rounding of `floor(basis*pct/price)*price` is outside the models;
  `ConfirmedPurchaseIsAffordable` is the exact-arithmetic claim.
- Counters, terminal output, document and event wording: nothing in the modelled
  parts reads them back. Evidence publication is a module of its own
  (EvidenceBus) and is left out of the pipeline, which it cannot hold up.
- The pipeline without a reservoir. ApplicationRun has the OFFLINE source, the
  governed run of documents and tests; the ONLINE one is OnlineAdmission, up to
  the admitted bar.
- `pipeline.go:111` (an initialised entity without a retained phase) cannot be
  reached, because the phase appears with the bar that makes a symbol eligible
  and is then always present. Admission's checks of a bar's fields are left out.
- A write under a context that was just cancelled may still succeed: the models
  let it go either way.
- OnlineAdmission: the wire form of a bar, and any order the sources keep among
  their bars. A late finished bar for a minute the window has evicted may come back
  into it, as in the code.
- FeedIngestion: window eviction (it is in OnlineAdmission), the end of the live
  source and the shutdown of `Run`, a missing REST source, and bars that are not
  final. The first session is on at the start; a reader of an earlier session is
  late only once a second session is possible.
- FeedIngestion: a session whose pong was slow, or whose third ping failed, ends in the
  code; in the model it may go on. How slow a pong is, and the first two failed pings,
  are not told apart.
- ModelHost: what the engines compute, the decision events and their own
  fan-out, the health report. `ResetSymbol` and the detector's `ResetEntity` have
  no caller in the program, and a backfilled bar is made model-eligible only by
  tests.
- The collector's heartbeats and decoding decide only when a session ends and
  what a bar is; statistics and high-water marks are not read back. A last JSONL line
  that a failed write has torn is left out: lines are in the file or not, and a
  reader has to skip such a piece.
- Configuration parsing, viewers, provers, catalogues, the phase angle series
  generator: no state, or a sequential batch with pure input and output.

## 9. Plan

What is left, in order of importance:

1. The decision events of the model host: what of a commit reaches a subscriber
   of theirs, composed with ModelHost.
2. The provers' strategy engine compared with PhasePolicy over the bounded angles
   of `phase_track`.
3. The safety halves of the liveness properties as theorems: in which states of a
   collector's shutdown, of a cancelled run and of the hub a step is possible at
   all, so that only fairness is left to TLC.
4. Gating of the numeric engines as far as it is control.
