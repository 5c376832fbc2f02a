# Verification of flowctl-sdk

This directory holds TLA+ models of the Go packages under `src/pkg`, the TLC
configurations that check them on small instances, and proofs that hold for every
instance.  `PROJECT.json` is the index: the components, the runs, the lines each
definition models, the hazards of the code and the properties aimed at them.

## The system

flowctl-sdk is a library for pipelines of three kinds of components, each a gRPC
server of its own that a control plane (flowctl, not part of the repository) wires
together: a **source** produces a stream of events, a **processor** turns events into
events, a **consumer** ends the pipeline, usually by writing to a database.

| Component | Code | State it keeps | Operations | Talks to |
|---|---|---|---|---|
| consumer service | `pkg/consumer/service.go` | stop channel, counters; per stream: counts, summaries, one receiving and one callback goroutine | `Consume`, `Stop`, `GetInfo`, `HealthCheck` | the client that streams events; the user's `OnEvent` |
| consumer `Run` | `pkg/consumer/consumer.go` | none after start-up | start-up, registration, heartbeats, shutdown | gRPC server, control plane, signals |
| source | `pkg/source` | `started`, `streaming`, stop channel; per stream: derived context, watcher, the producer's channels | `OnProduce`, `OnProduceStream`, `Start`, `Stop`, `StreamEvents` | the client that reads; the user's producer; controller, health, metrics |
| processor | `pkg/processor` | `started`, stop channel, handler registry | `RegisterHandler`, `Start`, `Stop`, `Process` | the client on both directions of its stream; the user's handlers; controller, health, metrics |
| controller | `pkg/flowctl/controller.go` | connection, heartbeat flag and channel, custom metrics | `Register`, `Start`, `Stop`, `UpdateMetrics` | control plane; reads metrics and health |
| health server | `pkg/flowctl/health.go` | status, listener, HTTP server | `Start`, `Stop`, `SetHealth`, `GetHealth`, four HTTP paths | probes |
| metrics | `pkg/flowctl/metrics.go` | counters, latency, custom values | increments, `GetMetrics`, `Reset` | source, processor, controller, health |
| reporter | `pkg/component/reporter.go` | connection, service id | `Register`, `Heartbeat`, `StartHeartbeatLoop`, `ReportChunk...` | a second control plane API |
| PostgreSQL sink | `pkg/consumer/sinks/postgresql` | connection pool | `InsertEvent`, `InsertBatch`, `GetStats`, `Close` | called from a consumer's callback |
| Stellar runner | `pkg/stellar` | none after start-up | `Run`, `RunTransform` | builds a processor from a ledger function |
| contract extractors | `pkg/stellar/processors` | none | ledger to events, ledger to invocations | called from the runner |

Examples, generated protocol code and the control plane itself are outside.

### What is hard in it

* **Consumer.**  Three goroutines per stream share nothing but two channels of one
  slot, and both selects give cancellation, stop and result the same chance.  The
  response is the only evidence the upstream has that its events are durable: it must
  never be early, never count an event that was not processed, never acknowledge a
  stream that had nothing for this consumer.  What must hold: `AckSound`, `AckDurable`,
  `OneInOrder`, `CountersAgree`, `ImplementsDrain`, `StopReturns`,
  `StopReachesCallback`, `DrainCompletes`.
* **Source.**  The end of a stream is the meeting of four events in any order: the
  producer closes its channel, leaves (or fails to leave) a terminal result, the
  client cancels, the source stops.  What must hold: the status is one that something
  on the stream justifies (`OutcomeJustified`), a client cannot make the source
  unhealthy (`HealthJustified`), streams end (`CancelEndsStream`, `StreamsEnd`), one at
  a time (`OneStream`), and the metrics add up (`MetricsAgree`).  What all of it amounts to
  for the clients is an abstract specification of its own (`ImplementsExclusive`).
* **Lifecycle.**  `Start` has eight steps of which five can fail, `Stop` undoes them,
  and the mutex covers only the flag at the top of each.  What must hold:
  `ReleasedAtRest`, `ReadyServes`, `OneHeartbeat`, `HeartbeatsEnd`, `CallsReturn`.
* **Processor.**  `Process` blocks in `Recv` and looks at the stop channel only between
  events; errors of handlers race cancellations; counts are raised one by one, before
  sends, and heartbeats read them at any time.  What must hold: `StatusJustified`,
  `MetricsAgree`, `ReportsAgree`, `StopBounded`, `EndsWithClient`, `StopReturns`.
* **PostgreSQL sink.**  A transaction whose rollback is skipped keeps a connection
  until the context of the stream ends; the pool has a limit; the answer to a commit
  can be lost; a client sends again what it was not told is stored.  What must hold:
  `AllOrNothing`, `RetriesAccounted`, `EndFrees`, `WaitEnds`.
* **Contract extractors.**  Two programs read one ledger with indexes of their own;
  call trees are walked recursively; wide integers are put together from limbs; a
  state change takes its values from before or after the operation, and is sent under a
  key as it is printed, with values as they are decoded.  What must hold:
  `EventsNumbered`, `CallsAreEdges`, `ArgumentsExact`, `ChangesReplay`,
  `ProcessorsAgree`.

The `hazards` of `PROJECT.json` name each of these at its line.

## Modules

| Module | Models | Used by |
|---|---|---|
| `Tallies` | the total of a count that streams keep each for itself, as a cardinality | `Consumer`, `SourceStream`, `PostgresSink` |
| `TallyProofs` | lemmas about totals | the other modules of proofs |
| `BoundedDrain` | what a consumer promises: events settled one at a time in order, acknowledged only when all are, at most one more durable after a refusal | `Consumer` (refinement) |
| `Consumer` | `Consume`, `Stop`, and the shutdown of `Run` | runs, `MCConsumer`, `ConsumerProofs` |
| `MCConsumer` | symmetry of the streams for TLC | `ConsumerTwoStreams.cfg` |
| `ConsumerProofs` | theorems about `Consumer` | |
| `ExclusiveStream` | what a source promises: one stream served at a time and another turned away only meanwhile, complete only when every event was delivered, nothing after that, and none served at rest | `SourceStream` (refinement) |
| `SourceStream` | `StreamEvents`, `streamWithResult`, `failStream`, `streamStatus`, the end of `Start`, the part of `Stop` that concerns streams | runs, `MCSourceStream`, `SourceStreamProofs` |
| `MCSourceStream` | symmetry of the streams for TLC | `SourceStreams.cfg` |
| `SourceStreamProofs` | theorems about `SourceStream` | |
| `Lifecycle` | `Start` and `Stop` of a source or processor with `Controller` and `HealthServer` | runs, `LifecycleProofs` |
| `LifecycleProofs` | theorems about `Lifecycle` | |
| `Processor` | `Process`, `processAndSend`, the handler registry, the counters and the heartbeats that report them | runs, `ProcessorProofs` |
| `ProcessorProofs` | theorems about `Processor` | |
| `PostgresSink` | `New`, `InsertEvent`, `InsertBatch`, `Close` over a pool and its transactions, the callback of `examples/postgresql-consumer`, and clients that retry | runs, `PostgresSinkProofs` |
| `PostgresSinkProofs` | theorems about `PostgresSink` | |
| `Loops` | a loop that counts, as a recursive function | `ContractEvents` |
| `LoopProofs` | lemmas about such loops, trees, sequences and two's complement | `LedgerProofs` |
| `ContractEvents` | operators: the contract events of a transaction | `ContractInvocations` |
| `ContractInvocations` | operators: its invocations, with arguments, calls, diagnostics and state changes | `LedgerProcessing` |
| `LedgerProcessing` | the handler `stellar.Run` registers and the two `EventsFromLedger` reading one ledger | `MCLedgerProcessing` |
| `MCLedgerProcessing` | the transactions for TLC | `LedgerProcessing.cfg` |
| `LedgerProofs` | theorems about `LedgerProcessing` | |

`Consumer`, `SourceStream` and `Processor` are the three kinds of component a pipeline is
made of; `Lifecycle` has the steps of `Start` and `Stop` that a source and a processor
share, so that the other modules only have those that concern streams.
`PostgresSink` is what a `Commit` of `Consumer` is made of, and `LedgerProcessing` is
what a handler of `Processor` does with one event; neither repeats the loop around it.

### Consumer

`pc[s]` is the place of the loop of `Consume` on stream `s`: `top` (line 75), `recv`
(the first select), `got` (line 94, before the check), `checked` (the check returned
nil: what follows no longer looks at `stopCh` or the context), `handle` (the second
select), `handled` (line 128), `done`.  A read of shared state and the use of what was
read are separate steps wherever another goroutine can come between them; what is
local to the loop (classifying the result, filtering, counting) is one step with the
check before it or after it.  `receiver` and `inbox` are the goroutine in `Recv` and the
channel `received`; `inflight` and `done` the callback goroutine and its channel.
`sent` is never shortened: `rcvd` says how much of it `Recv` has returned.

The user's `OnEvent` is `Commit`, `HandlerOk`, `HandlerFails`: it makes its event durable
at some point, returns nil only after that (the contract at lines 53-56), may fail
before or after it, and honours its context eventually, not at once.  It is not assumed
to stop before it commits.  The process can end at any time (`Exit`), which stands for
the return of `main` and for each `log.Fatalf` of `Run`.  The counters `successCount` and
`errorCount` always change with `eventsConsumed` and `eventsFailed` and are not
variables of their own.  The texts of errors and summaries are left out; the limit on
summaries is the constant `SummaryLimit` (8 in the code, 1 where TLC must reach it).

### SourceStream

`pc[s]` follows `StreamEvents`; `handler` says which of the two kinds of producer is
registered, and the legacy loop and `streamWithResult` share the actions whose code is
the same.  The context given to the producer is `ctxErr` (legacy) or `derivedErr`; the
watcher goroutine is `watching`.  The producer is user code that may do whatever the
code looks for: nil events, no result, two results, an end without being bounded, and
every kind of error, also kinds that wrap a context error.  `said` records it, so that a
property can ask whether a status is justified.  A nil terminal result is `"nil"`.  A
producer that runs after its stream returned is not followed any further: its channels
are garbage (`Forget`).  `phase` is the source's: `starting` is the time in which `Serve`
runs and `Start` has not yet set the health.  Between `Send` and the next
round of the loop the stream is at `sent` and then at `counted`: the two increments are
steps of their own, so that other streams and a reader of the counts come in between.
`Stop` is `Stop`, `StopHealth`, `BeginDrain` (the controller has stopped, and `GracefulStop`
refuses new streams) and `Drained`.  Only one `Start` and one `Stop` happen here; more of
them are the subject of `Lifecycle`.

### Lifecycle

`pc[t]` is the next step of the call that goroutine `t` makes; a failed step of `Start` goes
to `fail`, which is the deferred function.  `Controller.Stop` and `HealthServer.Stop` are
shared by `Stop` and the deferred function.  Every statement that reads or writes something
a second call can touch is a step of its own: the flag, the status, the health listener, the
dial, the registration, the heartbeat flag (these two under the controller's mutex), the
listener, the server, and in `Controller.Stop` the look at `conn`, its `Close`, and its
reset, which are not under the mutex.  `flowctl`, fixed at the start, is whether there is a
controller.  Simplifications: all calls of `Start` get one context; `Endpoint` is a fixed
port, so that a second listener is an error; whether a port is free and whether the control
plane accepts a registration is a choice at each try; a stream is a Boolean (`busy` while
its server accepts new ones, `draining` once the server is stopped); and the end of a stream
may make any component unhealthy, though only a source does that (`failStream`).  A panic
ends the process (`panicked`).

The accept loop of either server can end with an error at any time (`ServeFails`,
`HealthServeFails`).  The code only logs it (source.go:197-199, health.go:185-187): the status
stays as it is, the streams that were accepted go on, and a later `HealthServer.Start` finds
the field set and starts nothing.  `ReadyServes` therefore does not say that a component which
reads as ready accepts connections; it says that its servers were started and not stopped,
and that such an error is the one way in which the endpoint is not bound.

The control plane may leave a call without an answer.  `Waits` names the two calls of
`Start` that then last as long as their context, the dial with `WithBlock` and
`RegisterComponent`, and `Unanswered` is the same for a heartbeat, which the closing of the
connection also ends.

### Processor

`pc[s]` follows one `Process` call: `select` (the select at the top of the loop), `recv` (in
`Recv`, where neither the stop channel nor the context is looked at), `find` (the registry
lookup), `handle` (in the user's handler), `tally` (the handler returned, the processed
count is not raised yet), `judge` (between that count and the next), `send` (after the
success count, in `Send`), `ended`.  The counters have a mutex each increment takes for
itself, so that every increment is a step and other streams and heartbeats come in between.
`done` records what became of each event, and exists only for the properties, as does
`late`.  A message is of one of `Types` or `Unreadable`: over the receive limit, or not
decodable.  `Recv` then has an error though the context is alive (`RecvErrors`), and
`Process` returns it like any other (processor.go:236-238).  A handler returns an output,
nil, an error, or an error that is the end of a context; a `Send` fails when its stream has
ended or the output cannot be encoded.  `Stop` is `Stop`, `StopController`, `Drained`; its
other steps and those of `Start` are in `Lifecycle`.  The processing latency is left out.

### PostgresSink

A callback makes one call at a time.  `begin` and `acquire` wait for a connection of the
pool, `prepare`, `insert` and `exec` hold one.  What the code asks of `database/sql` is
modelled as that package promises it: a wait ends with its context; a transaction keeps
its connection until it is committed or rolled back; the end of its context rolls it
back.  A call that is executing when its context ends holds its connection until it
fails.  The loop of `InsertBatch` declares an `err` of its own (postgresql.go:188), so that
the deferred rollback does not see a failed insert: `StmtExecFails` counts the connection
in `leaked`, and `ContextRollback` gives it back.  An event that the database refuses is a
member of `Bad`; an answer that does not arrive is `AnswerLost`.  The
callback is the `OnEvent` of `examples/postgresql-consumer/main.go`: it parses the payload
(`UnmarshalFails`) and calls `InsertBatch`; `InsertEvent` is what another program may call.

`sent`, `failed` and `acked` are the client's side: which events it sent on which stream,
whether the stream has an error to report, and whether the response has arrived
(`Acknowledge`, which may be lost with the stream, `StreamEnds`).  A client sends an event
again, on another stream, once every stream that had it has ended without telling that it
was stored (`Sends`); the first callback may still be running then.  `table` counts the rows
by the stream that wrote them, so that `RetriesAccounted` can say whose duplicate a row is.
An `InsertBatch` of no events returns nil without a transaction and changes nothing.

### Ledgers

`LedgerProcessing` reads a ledger transaction by transaction, as the loops of both
`EventsFromLedger` do, and applies to each the operators of `ContractEvents` and
`ContractInvocations`.  The two processors are separate programs; they read in step here
so that their outputs can be compared.  The ledger changes of a transaction are not an
input but follow from what its operations write to `store`, so that a state before an
operation is the one the last operation left.  A handler drops everything found when the
reader fails, and crashes when `contract_invocation` meets an event of a version 3 meta
without a contract id (contract_invocation_processor.go:199).

The abstractions: symbols, strings, hashes and addresses are numbers or model values, `""` is
the empty string where the code tests for it; a limb is less than `Limb` (any even number),
which is 2^64 in the code; a value that cannot be decoded has the type `error`; a
transaction has at most one Soroban operation, as the network demands; the version of the
meta is 3, 4, or 0 for those that `GetTransactionEvents` does not know (`Readable`), where
`contract_events` finds nothing and says nothing.

Conversions are modelled by what they do to a value, and by what they lose:

* `ConvertScValToJSON` makes a string of a symbol, a number of a wide integer, and one
  constant of every contract instance (helpers.go:256-263).  The error of an item stays in its
  vector or map.  A map is kept by the texts of its keys (`Shown`): of entries whose keys
  print alike the last one stays (helpers.go:230-248).
* `Text` is what `%v` prints of a decoded value: a `u32`, a symbol and a string of the same
  characters print alike (`Bare`), at any depth.
* The `Name` of a state change is the contract and that text
  (contract_invocation_processor.go:450-465).  The durability of the entry is not part of it.
* `Decode` drops the error of a value that is not decoded, and what was not there is decoded
  to nil as well (lines 467-469); `JsonEncode` makes the empty string of nil
  (convert.go:119-129), which is also what a void is sent as.

## Runs

| Run | Instance | Shows |
|---|---|---|
| `consumer_one_stream` | 1 stream, up to 3 events of 2 types of which 1 is an input type, 1 summary, fairness | `TypeOK`, `AckSound`, `AckDurable`, `OneInOrder`, `ImplementsDrain`, `StopReturns`, `StopReachesCallback`, `DrainCompletes` |
| `consumer_two_streams` | 2 streams of up to 1 event, every type accepted | `CountersAgree` with shared counters and one stop; the other invariants are proved for any number of streams |
| `consumer_reaped` | 1 stream, 1 event | **violated**: `ReapedOnReturn` |
| `source_stream` | 1 stream, all 9 kinds of error, up to 2 events, a buffer of 1, fairness | `TypeOK`, `OutcomeJustified`, `HealthJustified`, `CancelEndsStream`, `StreamsEnd` |
| `source_streams` | 2 streams, up to 1 event each, contract breaches and cancellations | `OneStream`, `MetricsAgree`, `ImplementsExclusive` |
| `source_health` | 1 stream, 1 event, 1 kind of error | **violated**: `FailureShowsInHealth` |
| `lifecycle` | 2 callers, any number of calls, fairness | `TypeOK`, `ReleasedAtRest`, `ReadyServes`, `OneHeartbeat`, `HeartbeatsEnd`, `CallsReturn` |
| `processor` | 2 streams, up to 2 messages in all, each an event of a type that may have a handler or one that cannot be read, 1 kind of context error, fairness | `TypeOK`, `StatusJustified`, `MetricsAgree`, `ReportsAgree`, `StopBounded`, `EndsWithClient`, `StopReturns` |
| `postgres_sink` | 2 streams, a pool of 2, 3 batches (one empty, one with a refused event) and a single event, each sent at most once on a stream and again on the other, fairness | `TypeOK`, `AllOrNothing`, `RetriesAccounted`, `EndFrees`, `WaitEnds` |
| `ledger_processing` | every ledger of up to 2 of 475 transactions, limbs of 2 bits (`Limb = 4`), nesting up to 2 | `EventsNumbered`, `CallsAreEdges`, `ArgumentsExact`, `ChangesReplay`, `ProcessorsAgree` |
| `lifecycle_readiness` | 2 callers | **violated**: `NoStaleReadiness` |
| `lifecycle_retry` | 1 caller | **violated**: `FailedStartRetries` |

**Bounds.**  `MaxEvents`, `MaxHandlers` and `MaxTxs` are the only bounds on behaviours, and
`MaxNesting` bounds the depth of values and of trees of calls.  In the consumer, three
events are enough for an event before and one after the one of interest, with a filtered one
among them, and a third failure is beyond the limit of one summary.  Two events and a buffer
of one let a producer block, close with an event buffered, and lose the last one.  Two
streams suffice for what streams share (a counter, a flag, a stop); two callers for every
overlap of two calls.  A `Lifecycle` component may be started and stopped any number of
times: its state is finite without a bound (a second `Stop` panics, and no more than two
heartbeat goroutines exist before that).  Two events reach every step of a processor twice
in one stream or once in two at the same time.  The sink needs no bound: a client sends an
event once on a stream, and what two streams can send uses up a pool of two with failed
batches, of one stream or of both, still leaves one to wait, and has every event sent again
after each way in which its first stream can end.  Two transactions suffice for what a
ledger carries from one to the next: an index and an entry that was written.  The 475
transactions cover every pair of event lists and a meta that cannot be read, every
authorization tree of up to three nodes and deeper ones with a node below, every wide
integer of two limbs (and of four, in its highest and lowest), integers inside vectors and
maps, maps whose keys print alike, undecodable arguments, and writes to eight entries: of
two contracts, under two keys that print alike, in two durabilities, under a map, under a
key that is not decoded, a contract instance, and one that is no contract data; alone and
after a write to one of them in the same transaction.

**Deadlock** is not checked anywhere: a client may never send, a process may have ended,
a caller may never call.

### Fairness

* The loop of `Consume`, of `StreamEvents`, the watcher and the heartbeat goroutine take
  a step if they can (`WF`): the Go scheduler is fair, and their steps do not block once
  enabled.  A select with two ready cases may prefer either for ever; no property
  relies on its choice.
* `Recv` returns what has arrived, and an error once its context has ended; `Send` fails
  once its stream has ended: gRPC promises both.
* A callback is assumed to honour its context, and nothing else; `DrainCompletes` has
  as its hypothesis that callbacks return.  `StreamsEnd` has as its hypothesis that clients
  keep reading, because nothing in the source ends a `Send` that waits for its client.
* A dial with `WithBlock` returns for sure only when its context ends, `RegisterComponent`
  and a heartbeat only when their context or their connection does.  No step that waits for
  the control plane is fair (`Waits`, `Unanswered`): `CallsReturn` excludes a `Start` that
  waits in the dial or in `RegisterComponent`, `HeartbeatsEnd` a loop whose heartbeat is
  unanswered on a connection that stays open.  `CallsReturn` assumes that streams end, and
  `SourceStream` and `Processor` say when they do.
* The steps of one `Process` call are one sequence (`Advances`), which is fair as a whole.  A
  handler of the processor is only known to return, and a `Send` to get through, once the
  context of the stream has ended.  `EndsWithClient` and `StopReturns` have the end of the
  clients as their hypothesis: nothing in the processor ends a `Recv` or a handler.
* `database/sql` and the database answer, with success or an error; the end of a context is
  an answer too.  No stream has to end, so that a wait for a connection may last.
* Clients, producers, signals, the transport's failures, and whether anyone calls `Start`
  or `Stop` have no fairness.

## What the violated runs show

* `consumer_reaped`: both selects of `Consume` return on cancellation without waiting for
  the callback (service.go:121-127).  A client that retries at once can meet the first
  attempt still writing.  The plan in `docs/bounded-drain-remediation.md:47-48` asks for
  the opposite.  What the code does guarantee is proved: at most the one event in flight
  becomes durable after a refusal (`ImplementsDrain`), and the callback's context ends
  (`StopReachesCallback`).
* `source_health`: `Serve` runs before `Start` sets the status (source.go:196, 203), so that a
  failure in between is overwritten.  `docs/modernization-plan.md:42` asks that health does
  not stay healthy after an unrecoverable failure.
* `lifecycle_readiness`: a `Stop` that overtakes the end of a `Start` leaves the status
  HEALTHY (and, in longer behaviours, a server that serves) on a stopped component.
  `docs/bounded-drain-remediation.md:97-98` excludes a stale readiness signal.
* `lifecycle_retry`: `stopHeartbeat` is made once (controller.go:52).  A `Start` that fails
  after the heartbeats began closes it; the next one that fails there closes it again
  and panics.  `pkg/source/health_test.go:30-36` starts a source again after a `Start`
  that failed, without a controller.  The same is true of `stopCh` when a component is
  started, stopped, started and stopped (`CallStopAgain`), which nothing promises.

### What the code does without a promise to the contrary

Seen while modelling, in the model as the code has it, and not the subject of a run:

* The result of a fee-bump transaction has no `Results` of its own: `Successful` is false for
  its invocations (contract_invocation_processor.go:127) though `contract_events` sends their
  events; `ProcessorsAgree` makes the exception.  A `ContractCall` is always `Successful`
  (line 326).
* A state change does not name its entry: two entries whose keys print alike, or that differ in
  their durability, have one name; an entry restored from the archive gives no change; a
  value that is not decoded is sent as none; and all contract instances are sent as one
  constant.  `ChangesReplay` is therefore about the entries that have a name of their own and
  were not restored (`Told`), and ends in what the values of the network are decoded to
  (`Stored`), not in those values.  Map keys that print alike are merged (helpers.go:244).
* The error that ends an accept loop is only logged, and the status stays HEALTHY
  (source.go:197-199, health.go:185-187); `ReadyServes` names the case.
* The table of the sink has no unique key: a stream that is cut after its callback has
  committed and is sent again makes a duplicate.  `RetriesAccounted` says that nothing else
  does.
* A meta of a version that `GetTransactionEvents` does not know gives no events and no error
  (contract_events.go:101-105).
* The transaction index counts from 0 in one processor and from 1 in the other.
* A handler's error ends its stream (processor.go:240-242), while `docs/QUICKSTART.md:266`
  says that it is logged and that processing continues.  `StatusJustified` states what the
  code does: an event that failed is the last of its stream, and its status is not OK.
* `New` of the sink does not close its pool when `Ping` or the schema fails
  (postgresql.go:57-66).
* A stream that had as many failed batches as the pool has connections waits for its own end
  in the next one; `WaitEnds` makes the exception, and `EndFrees` says that it ends.

## Proofs

Every safety property of the passing runs is a theorem for all values of the constants. TLC
checked them on the instances of the runs before they were proved.

**`ConsumerProofs`**, for any sets of streams and types, any bound on events and any
limit on summaries (`ConsumerAssumption`):

| Theorem | Statement |
|---|---|
| `TypeCorrect` | `Spec => []TypeOK` |
| `Invariance` | `Spec => []IInv` |
| `AckSoundness` | `Spec => []AckSound` |
| `AckDurability` | `Spec => []AckDurable` |
| `Ordering` | `Spec => []OneInOrder` |
| `CountersAddUp` | `Spec => []CountersAgree` |
| `Refinement` | `Spec => ImplementsDrain`: the consumer implements `BoundedDrain` |

None of the first four properties is inductive.  That an acknowledgement is exact needs to
know, long before it is sent, what the counters add up to while a result is still in
`done` or an event in `inbox`.  `IInv` says it in five parts per stream: where the
receiving goroutine can be relative to the loop (`RecvInv`), where the callback can be
(`CallbackInv`: the one that runs is for the last event received), which callbacks have
returned (`HistoryInv`), what was counted (`CountInv`), and what a returned status means
(`OutcomeInv`).  The step is proved per goroutine (`ClientInv`, `ReceiverInv`, `LoopInv`,
`CallbackStepInv`), once for the stream that moves and, by `Frame`, for all others; the
returns of the loop share `ReturnInv`.  Counts are related to sets of positions by the
cardinality theorems of the library.  The refinement maps each step to a step of
`BoundedDrain` or to a stutter, from `IInv` before and after.  `CountersAgree` is about a
sum over all streams.  A sum by recursion is beyond the prover, so `Tallies` defines it as
the number of units counted, `<<s, 1>>`, `<<s, 2>>` and so on, and `TallyProofs` proves
that it goes up and down by one with any of its parts; `CountersInv` adds that the units
are finite in number.

**`SourceStreamProofs`**, for any streams, kinds of errors and bounds (`SourceAssumption`):

| Theorem | Statement |
|---|---|
| `TypeCorrect` | `Spec => []TypeOK` |
| `OneStreamServed` | `Spec => []OneStream` |
| `OutcomesJustified` | `Spec => []OutcomeJustified` |
| `HealthIsJustified` | `Spec => []HealthJustified` |
| `MetricsAddUp` | `Spec => []MetricsAgree` |
| `Refinement` | `Spec => ImplementsExclusive`: the source implements `ExclusiveStream` |

`OneStream` is inductive with the flag it rests on (`OneStreamInv`).  `OutcomeJustified` is
about the end of a stream, and has to be prepared from its beginning (`StreamInv`): every
event produced is in the channel, in the hand of the loop or with the client (`CountInv`);
what the loop can find wrong, the producer did, and while the loop has not looked at all
of it nothing else is said of the producer (`SaidInv`), which is what makes an OK complete;
the derived context ends only with the stream's or the source (`ContextInv`).  Each way out
of the loop is one of two (`Returns`): a status that `Fits`, or a failure that the producer is to
blame for (`Blames`).  `ReturnInv` proves both once, `LoopInv` and `ProducerInv` the steps in
between, and `StepFrame` leaves the other streams alone.  The other two theorems use the
same two ways: a step that raises the errors or makes the source unhealthy is a failure the
producer is to blame for (`FailureBlamed`); `MetricsInv` has the errors between the streams
that failed and those that were to blame and have ended.

In the refinement a stream is served while it is `Live`, sealed when its channel is closed,
complete when its status is OK and cut by any other; the gate closes with `GracefulStop`.
Each step is one of `ExclusiveStream` or a stutter, under the invariants above.  `TurnAway`
is why `OneStreamInv` has the flag set exactly while a stream is served: a flag left behind
would turn clients away for ever.  `Complete` takes from `OutcomeInv`, after the step, that
everything was delivered; `Deliver` from `CountInv` that there is something to deliver;
`Produce` and `Seal` that a running producer belongs to a stream that is served
(`ProducerServed`).  The place of a step that does not return is one of `Onward`, so that
only `Release` ends the service of a stream (`ServesOn`).

**`LifecycleProofs`**, for any set of callers, with a controller and without:

| Theorem | Statement |
|---|---|
| `TypeCorrect` | `Spec => []TypeOK` |
| `HeartbeatIsOne` | `Spec => []OneHeartbeat` |
| `RestIsReleased` | `Spec => []ReleasedAtRest` |
| `ReadinessServes` | `Spec => []ReadyServes` |

`OneHeartbeat` holds for calls that overlap in any way, because the flag that allows a
heartbeat and the channel that ends it change together (`BeatsInv`).  The other two are
about calls made one after the other.  `At(p)` says what a component holds when its only
call is at step `p`: whether it serves or has ceased to (`ServersAt`), listens for probes
and reads as ready (`HealthAt`), has a connection (`ConnAt`) and heartbeats (`BeatsAt`).
`OneCall` says that at most one call runs, and that `At` holds where it is, until calls
overlap or the process panics.  Each step of a caller leads from the `At` of its place to
that of the next (`CallAt`, `StartingAt`, `StoppingAt`), those of other goroutines keep it
wherever the caller is (`OthersAt`), and `Moves` makes a step of `OneCall` of that.  Both
properties follow from `At`; `ReadyServes` also holds after a panic, which changes nothing
it is about.

**`ProcessorProofs`**, for any streams, types, kinds of context errors, sets of input
types and bounds (`ProcessorAssumption`):

| Theorem | Statement |
|---|---|
| `TypeCorrect` | `Spec => []TypeOK` |
| `StopLetsOneThrough` | `Spec => []StopBounded` |
| `StatusesJustified` | `Spec => []StatusJustified` |
| `MetricsAddUp` | `Spec => []MetricsAgree` |
| `ReportsTrue` | `Spec => []ReportsAgree` |

`StopBounded` needs to know that a stream which took its late event is not in `Recv` again
(`LateInv`).  `StatusJustified` is strengthened by what holds before a `Process` call
returns: it has no status, and dealt with no event that failed (`StreamInv`); a step
preserves it for the stream that moves, and `Frame` for the others.  A `Recv` that fails
leaves the message it could not read as the one after the last event (`Refused`).
`MetricsAgree` relates three numbers to the cardinalities of sets of events over all
streams; it is inductive once the sets are known to be finite (`MetricsInv`), because every
step moves one stream (`AtGoto`) and finishes one event (`FatedFinish`).  `ReportsAgree`
follows from the counts only growing and from `MetricsInv`, which at every moment puts no
more successes than processed events among them (`SuccessProcessed`).

**`PostgresSinkProofs`**, for any streams, batches and pool (`SinkAssumption`):

| Theorem | Statement |
|---|---|
| `TypeCorrect` | `Spec => []TypeOK` |
| `BatchesAtomic` | `Spec => []AllOrNothing` |
| `RetriesCounted` | `Spec => []RetriesAccounted` |

The rows of a call are those of one batch, of one event, or none, from its start to its
end (`JobInv`).  Every step rests, acknowledges, begins a call or ends one (`Steps`), and each
of the four has a lemma.  `StreamInv` says where the row of an event is: an event that was sent
on a stream is stored once, or in the call that runs, or lost with an error the stream has to
report (`RowInv`); an acknowledged stream has ended and is idle.  `RetryInv` is what `Sends`
gives and nothing takes back: of two streams that had one event, one ended without having told
that it was stored.  `RetriesAccounted` follows from the two.  In `TypeOK` the range of
`leaked` is not a matter of one assignment: that no stream leaves more connections than
the pool has follows from the limit on all that are in use, by running calls and by
forgotten transactions together (`PoolInv`); each step takes one that is free, gives back,
or hands one from a call to a forgotten transaction (`PoolSteps`).

**`LedgerProofs`**, for any set of transactions that the network can have, with lists,
values and trees of any length (`TransactionsAssumption`, `LimbAssumption`,
`ContractsAssumption`, `KeysAssumption`, `ValueAssumption`, `NestingAssumption`):

| Theorem | Statement |
|---|---|
| `EventsNumberedTheorem` | `Spec => []EventsNumbered` |
| `ProcessorsAgreeTheorem` | `Spec => []ProcessorsAgree` |
| `ChangesReplayTheorem` | `Spec => []ChangesReplay` |
| `ArgumentsExactTheorem` | `Spec => []ArgumentsExact` |
| `CallsAreEdgesTheorem` | `Spec => []CallsAreEdges` |

These are about what loops compute.  `Loops` writes a loop that counts as a recursive
function on `0..n`, which the prover can reason about if it knows that the function exists.
The library proves that with an operator as a parameter; `LoopProofs` proves it for loops
whose round is a function on a set (`IteratesExist`), by an induction on the rounds that
speaks of a set of numbers (`SetInduction`).  Each loop of the model then has one lemma that
gives its rounds (`ContractOnlyRounds`, `InvocationRounds`, `StateChangeRounds`,
`StoryRounds`), and what a loop computes is proved by `BoundedInduction` over them.

`EventsInv` says of what was read so far that every transaction is one of `Txs` under its
own number (`LedgerRead`), and that the events are made of those of the ledger, with the
number of their transaction (`EventsRead`); without the last, the events of a new
transaction could not be told from the old ones.  The numbering itself is proved for one
transaction, round by round: the index of an event is the number of those before it, and
what an operation adds is as many as it emitted.  `AgreeInv` adds that every invocation is
the one `ProcessContractInvocation` makes of an operation of its transaction
(`InvocationsRead`), and that what is sent is the conversion of what was found (`Sent`);
then the two processors are compared on one transaction.  `ReplayInv` adds `StoryInv`: for
every key that is told of, the replay of the changes found so far, as they are sent, is at
what the value that the store has now is decoded to.  One write moves the store and the
replay together, because the change it makes has the value before it and the value after it
(`StoryStep`); a write to another entry is one under another name (`TellsApart`), which is
what `Told` asks for; a transaction is such steps one after the other, and the replay of a
longer list goes on from that of the shorter (`ReplayMore`).  `ArgumentsExact` follows from
`AgreeInv` (`AgreeArguments`), by what `ConvertScValToJSON` makes of one value.  Values
nest, so the function exists level by level: every value has a level (`Levels`), a level is
part of the next (`LevelsGrow`), and a decoding of one level gives that of the next
(`DecodingExists`).  The decoded items of a value are decoded from its items
(`ItemsDecoded`), so that what holds of one value holds at every depth inside an argument
(`InsideExact`).  What is made of an integer is two's complement, kept limb by limb
(`SignedStep`, `TwoLimbs`, `FourLimbs`).

`CallsAreEdges` compares the calls that a recursion collects with the edges of the trees,
which are defined by paths and by the order of paths.  It too follows from `AgreeInv`
(`AgreeCalls`).  The two are related by a `Walk`: an enumeration of paths, each before the
next, with the call that belongs to each.  A list of calls that is walked in this sense has
as many calls as there are edges, and each stands where its path has its number
(`WalkOrder`).  Walks are put together as the code puts its list together: two of them, when
every path of the first comes before those of the second (`JoinWalk`), a walk of each
subtree, with the number of the subtree before its paths (`UnderWalk`), and one after the
other (`FlattenWalk`).  `VisitWalk` then proves for every visit of a node, which is what
`processAuthorizationTree` is called with (`Visit`), that its calls are a walk of the edges
under it, when those of the visits below are.  The trees have levels, and `TreeInduction`
makes a fact of every tree out of such a step; `RecursionExists` gives in the same way the
recursive functions of a tree, `Paths` and `ProcessAuthorizationTree`.  The entries of an
invocation are walked like the subtrees of one node (`EntriesWalk`), whose contract is the
one that is called (`Forest`): this is why one order runs over all of them.

A `CASE` whose guards overlap does not say which of them is taken, unlike the code's `switch`.
Where the order matters the models have an `IF` (`Change`, `HandlerStatus`); the guards of
every other `CASE` exclude each other.

**Only model-checked**: liveness, which is outside the prover's reach (`StopReturns`,
`StopReachesCallback`, `DrainCompletes`, `CancelEndsStream`, `StreamsEnd`,
`HeartbeatsEnd`, `CallsReturn`, `EndsWithClient`, `EndFrees`, `WaitEnds`).

## Not modelled

* **Reporter** (`pkg/component`): a client without state of its own but a service id; each
  method normalises a request, sends it and returns the error.  Its heartbeat loop has the
  shape of the controller's.
* **Configuration** (YAML, environment, the interval arithmetic of `Run`'s ticker): pure
  conversion before anything runs.
* The contents of registrations, of heartbeats except their counts, and of HTTP responses;
  the health status a heartbeat looks up (`docs/QUICKSTART.md:335`, controller.go:351).
* Of the metrics: latency, custom counters and gauges, and `Reset`, which nothing calls.
* `GetStats` of the sink; `GetInfo` and `HealthCheck` everywhere, which only read.
* Of the extractors: TTL extensions and the fallback to diagnostic events, which are always
  empty in the code; the decoding of XDR and protobuf; texts and formats.
* Interfaces, constants and helpers shared by the packages, the examples, logging.

## Plan

What is left: `ControlPlane`, the reporter with chunk states under retry, and the interval
arithmetic of `Run`'s ticker.
