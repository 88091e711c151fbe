# TLA+ verification of the Ainur orchestrator

This directory specifies, model-checks and partly proves the orchestrator of
the Ainur repository (`src/orchestrator/api`): the service that stores agents,
tasks, bids and results, forwards them to the Temporal chain through a
transactional outbox, and mirrors the chain's events back into its database.
The other crates of the repository are types (`crates/ainur-core`), an echo
agent and its WASM host, a web console, and an empty submodule for the chain.

## 1. The system

| Component | State | Operations | Interacts with |
|---|---|---|---|
| Outbox worker (`chain.rs` `run_outbox`) | table `outbound_extrinsics`; an open transaction with a row lock; the client connection | fetch a pending row, submit, wait for finality, write the outcome, reconnect | API (enqueues), chain, replay (writes the same rows) |
| Replay worker (`run_chain_replay`) | tables `chain_events`, `chain_cursors`; locals `last_cursor`, `max_cursor` | subscribe, skip, handle, record, move the cursor | chain, application tables, outbox rows |
| Event handlers and backfill (`run_chain_replay`, `backfill_once`) | ids in `agents`, `tasks`, `outbound_extrinsics` | insert the chain's agent or task, link the outbox row by `tx_hash`, adopt, repair | outbox, replay |
| HTTP handlers (`main.rs`) | none of their own: several storage calls per request | `register_agent`, `submit_task`, `submit_bid`, `submit_result`, `execute_task_local`, `enqueue_outbox`, `request_faucet` | storage, execution engine, outbox |
| Storage (`storage.rs`) | in-memory maps or Postgres | CRUD, sink of chain events | everything above |
| Schema (`migrations/`) | columns, keys, types | decides which statements are accepted | storage, handlers |
| Execution engine, WASM runtime, echo agent | linear memory of a guest | `execute` | `execute_task_local` |
| Web console and wallet | React state | sign and send, display | API, chain |

What is hard here: several processes and several tasks of one process share
tables without a common lock; a transaction stays open over a network wait of
arbitrary length; a process may die, a session be lost or a reply disappear
between any two statements; workers that meet a database error end and are not
restarted; the event of an extrinsic races the commit of its hash; SQL errors
are ignored in the event handlers, and any statement may meet one, if only because
the pool, of which the outbox keeps a connection while it waits for the chain, has
none left; a handler's writes are separate statements, and the client may hang up, or the
process die and come back on the other backend, between them; a payload is
checked by one function when it is queued and read by another, much later;
the WASM host and its guest share a memory but no convention. `PROJECT.json` lists each of these
hazards at its line with the properties that address it.

What makes each part correct:

* outbox: what a row reports happened on the chain; a job is executed once
  unless an attempt was abandoned; outcomes are final; pending rows get one;
* replay: nothing at or before the cursor is lost silently; the cursor moves
  forward; every finalized event is ingested;
* handlers and backfill: a row shows the ids of its own extrinsic, and gets
  them; what the one table mirrors the other accounts for;
* API: what is acknowledged is stored; intents have their subject and can be
  turned into a call; a completed task stays completed and has its result;
* execution engine: a task's output is what the agent makes of its input.

## 2. Modules

| Module | Models | Role |
|---|---|---|
| `Outbox` | `run_outbox`, `record_outbound_extrinsic`, the chain's pool, faults | specification, properties, inductive invariant |
| `OutboxAbs` | what the outbox promises its clients | abstract specification |
| `OutboxProofs` | | theorems about `Outbox` |
| `ChainReplay` | the loop of `run_chain_replay` on the Postgres sink | specification, properties, inductive invariant |
| `ReplayAbs` | what the replay promises the readers of its tables | abstract specification |
| `ChainReplayProofs` | | theorems about `ChainReplay` |
| `Schema` | the migrations | which statements Postgres accepts |
| `Bridge` | handlers of `AgentRegistered`, `TaskCreated`, `BidSubmitted`, `TaskCompleted`; `backfill_once`; failing statements | extends `Outbox`: the composition on shared tables; properties, inductive invariant |
| `BridgeProofs` | | theorems about `Bridge`, on top of `OutboxProofs` |
| `OutboxPayload` | `decode_payload` and the fields `submit_extrinsic` reads | operators |
| `OrchestratorApi` | the writing HTTP handlers on both backends, restarts | extends `OutboxPayload` and `Schema`; properties, inductive invariant |
| `OrchestratorApiProofs` | | theorems about `OrchestratorApi` and `OutboxPayload` |
| `WasmEngine` | engine selection, `LocalEchoEngine`, `CognitionWasmEngine::execute`, the guest `echo-wasm` | specification |
| `WasmEngineProofs` | | what the WASM engine answers, for every input |
| `MC*` | | instances for TLC (symmetry sets, block bodies) |

Operators whose comment begins with *Mutant* are broken variants of the
definition that follows them. Nothing uses them; `PROJECT.json` pairs each with
the property that detects it, which shows that the property can fail.

### Outbox

A row is `[status, retry_count, tx_hash, created_at]`; `pc[w]` says where worker
`w` is in the loop. `tx[w] = "open"` is the transaction with its row lock, and
`"broken"` a session the server has dropped while the worker still awaits the
chain. `FetchJob` is the `SELECT ... FOR UPDATE SKIP LOCKED`; `SubmitAccepted`,
`SubmitFails`, `WatchFinalized` and `WatchFails` are the ways `submit_extrinsic`
goes; `RecordFinalized` and `RecordFailure` are UPDATE and COMMIT, one step
because nobody sees the row between them; `RecordOnBrokenSession` is the UPDATE
on a lost session, which ends the task. Faults: `ConnectionError` (rolled back,
reconnected), `OutcomeUnknown` (an error `is_connection_err` does not
recognise), `SessionLost`, `WorkerExits` (`?` or a panic), `CommitReplyLost`,
`Crash`. The history variable `orphans` collects extrinsics whose worker gave
them up; properties mention it, no guard does.

The chain is external: an extrinsic in the pool succeeds, is reverted, or leaves
the pool. Hashes of submissions are distinct, as nonce or checkpoint differ.

### ChainReplay

An event is its position and whether `is_supported`. The worker's locals are
per replica; all replicas share `chain_events` and the one row of
`chain_cursors`. A new subscription starts at the finalized head. `missed` and
`dropped` are histories of what the worker let go by.

`ReplayAbs` is the replay as a reader of `chain_events` and `chain_cursors` sees
it: finalized events are mirrored one at a time or given up, and the cursor is
set to a mirrored event before which nothing is missing. It maps `finalized` to
`Supported`, `mirror` to `chain_events` and `given_up` to `missed \cup dropped`.

### Bridge

`Bridge` extends `Outbox` with the log of successful extrinsics (the position is
the id the chain assigns), the replay's handler split into its statements
(tables, link, adopt, record) and the backfill. After a restart the worker may
handle events over, also recorded ones, because the cursor is written once per
block; how far back it really goes is the subject of `ChainReplay`. A statement changes its table
only if `Schema` accepts it. In the code as it is, the INSERTs into `agents` and
`tasks`, the adopting UPDATEs and `patch_pending_with_ids` are all rejected.

Bids and results share one call in the model: the handlers of `BidSubmitted` and
`TaskCompleted` both begin with a SELECT of the task by its chain id and end
there, since no task has one. `TaskMatched` has a handler but `is_supported` does
not let it through.

Any statement of the replay and of the backfill may fail, for whatever reason; a
pool that has no connection within `acquire_timeout` is one. The code decides what
follows: a handler ignores the error and goes on (`StatementFails`), after a first
SELECT it ends; recording an event or the cursor ends the task for good, with or
without its effect (`ReplayExits`); a round of the backfill is abandoned
(`BackfillFails`), its UPDATE ignored (`BackfillRow`). When `as_event` does not
match, the handler is left out and the event recorded all the same
(`HandlerSkipped`). `MaxReplayFaults` bounds them, with the restarts, missed events
and missing correlations. The histories `overtaken`, `lost` and `skipped` name the
events whose UPDATE of the row came too early, had no hash, or did not take place;
an event that is handled again, with success, leaves them.

### OutboxPayload and OrchestratorApi

`OutboxPayload` gives each field of the seven calls a role and says what
`decode_payload` (`Accepts`) and `submit_extrinsic` (`Reads`) demand of a value in
that role. A value is a number, a string that is within its cap and well formed
or not, or absent. The two functions differ: `decode_payload` drops the error of
`get_u64`, and does not parse an address.

In `OrchestratorApi` each request is a handler that makes one storage call per
step. Tables are kept per backend. `backend` is chosen as `from_config` does, at
the first start and at every `Restart`, where Postgres keeps its tables, memory
loses them, running handlers are dropped and `served` remembers who answered a
request. `ClientHangsUp` drops a handler at an await, `StatementFails` fails a
statement, with or without its effect. A task's budget is a u128: Postgres
refuses what is no i64, memory stores it, and `json!` panics on what is no u64;
the widths are the constants `I64_SIZE` and `U64_SIZE`. The lookups of chain ids by
`submit_bid` and `submit_result` change nothing, always fail and put 0 into the
payload. The in-memory sink keeps no intents although the API answers `queued`;
`AckIsStored` says so. `enqueue_outbox` takes any of `Intents`.

### WasmEngine

One task: `HostWrites`, `GuestRefuses` or `GuestExecutes`, `HostReads` on a linear
memory that is a sequence of bytes; `Pack`, `OutPtr`, `OutLen` are the packed result
and its casts. The guest takes the host's address for an index into a slice at its
heap base. Its allocator grows the memory before the first bytes are copied, so
what lies behind the initial memory is the guest's own heap: `GuestExecutes` takes
any bytes for it, and an output written over it may break the guest (it returns or
traps) but never fails for lack of memory. wasmtime's memory and `__heap_base` are
external.

## 3. Runs

| Run | Bounds | Shows |
|---|---|---|
| `outbox_safety` | 2 jobs, 2 workers, 4 hashes, 2 faults | type, `FinalizedIsOnChain`, `SingleSubmission`, `NoPhantomFailure`, `RetriesUnused`, `NobodyStuck`, `TerminalRows`, refinement of `OutboxAbs` |
| `outbox_live` | 3 hashes, 1 fault | `PendingResolved` under fairness |
| `replay_two` | 2 replicas, 3 blocks of at most 2 events, 1 fault | `CursorOnRecorded`, `NoSilentSkip`, `MirrorIsFinalized`, refinement of `ReplayAbs` |
| `replay_one` | 1 replica, 2 faults | `CursorMonotone`, `NoReapply`, `EventuallyIngested` |
| `bridge_safety` | 2 jobs, 1 worker, 2 hashes, 1 outbox and 1 replay fault, batch of 1 | `ChainIdCorrect`, `UnlinkedIsExplained`, `MirrorReconciles`, `IdsAreFinal`, refinement of `Outbox` |
| `api` | both backends, 3 requests, 2 tasks, 1 agent, 3 budgets, 1 failing statement, 1 restart | `AckIsStored`, `OutboxHasSubject`, `TaskOfResultCompleted`, `HandlersQueueCalls`, `QueuedFailsOnNumber`, `UnbackedOnlyByFailure`, `StatusNeverRegresses` |

Why these bounds: two workers, two jobs and two faults are what a lost update
takes (one fault loses the lock, a second worker completes the row, the first
writes); four hashes allow each job a duplicate. Three blocks let a gap lie
between an ingested and a later one. In `bridge_safety` two hashes allow two jobs
that land, or a job that lands twice, and the one replay fault falls on any
statement, decoding or moment between two events; a batch of 1 only makes the rounds
of the backfill as short as they can be, since what it repairs is nothing
(`BackfillIsIdle`). Three requests allow a submitter and two
handlers that interleave on its task, the restart falls anywhere between them;
budgets 1, 4 and 8 against widths 4 and 8 lie inside an i64, inside a u64 only,
and beyond both; the intents are one that becomes a call, one without its number,
one whose number is too large, and one whose level is refused. `CHECK_DEADLOCK FALSE` everywhere: the systems may come to rest, with
nothing enqueued, every request answered, or all workers ended. Symmetry is used
in safety runs only.

Runs that end in a violation state what a document, a comment or a test says and
the code does not do:

| Run | Statement | What happens |
|---|---|---|
| `outbox_retry` | failed submissions are retried, `dead` after 5 (`README.md:9,54` of the API) | only `pending` rows are selected: a failed row stays failed |
| `replay_gap` | on restart, replay from the cursor (`orchestrator-storage.md:20`) | blocks finalized during the restart are never read |
| `bridge_id` | a finalized registration surfaces its id (`tests/outbox_chain.rs:142`) | the event overtakes the commit of `tx_hash`, the backfill cannot repair it |
| `bridge_tables` | `AgentRegistered` goes to `agents`, `TaskCreated` to `tasks` (`README.md:11,12` of the API, `tests/outbox_chain.rs:97`) | the one statement sets `updated_at`, which `agents` lacks; the other's `ON CONFLICT (chain_task_id)` has no unique key and binds text to a UUID |
| `wasm_echo` | `execute` returns the guest's output, and the guest is the EchoAgent (`wasm-rust/src/lib.rs:44`, `echo-wasm/src/lib.rs:4`) | host and guest count addresses from different origins: the answer is zeros |
| `api_tx` | all writes of an operation in one transaction (`orchestrator-storage.md:29`) | a task is completed without a result |

## 4. Fairness

`outbox_live`, `replay_one` and `bridge_id` assume weak fairness of each worker
task (tokio runs a task that can run; `connect_client` and the replay's connect
loop retry until they succeed) and, for the outbox, that the chain decides the
fate of an extrinsic in its pool. Clients, block production and faults are not
fair. Nothing assumes that a worker that has ended is started again, so the
liveness properties excuse the case that all have ended.

## 5. Proofs

`OutboxProofs` proves for all finite or infinite sets of jobs, workers and
hashes and every `MAX_RETRIES` and `MaxFaults`, from `OutboxAssumption` only
(`MAX_RETRIES` is positive, `None` is neither a job nor a hash):

`TypeCorrect`, `FinalizedCorrect`, `RetryPolicyUnused`,
`NoDuplicateWithoutFault`, `FailureIsObserved`, `WorkGoesOn`, `OutcomesAreFinal`
and `OutboxImplementsAbs`.

All rest on `IndInv`. `FinalizedIsOnChain` alone is not inductive: that the hash
written belongs to the row's job needs `WatchShape`, that the row is still the
worker's to write needs `TxShape`, `LockExclusive` and `LockedIsPending` (a
locked row is pending and unchanged since it was read, which also gives
`RetriesUnused`). The heart is `Accounted`: an extrinsic that has landed or may
land is watched under a lock, recorded as its row's outcome, or detached. Two
live extrinsics of one job that are both not detached would then need two locks
on one row, a lock on a finalized row, or two hashes in one row: this is
`SingleSubmission`. One lemma per action shows that it preserves `IndInv`;
`NextInv` combines them. For the refinement each action is shown to be a step of
`OutboxAbs` or a stutter. `WorkGoesOn` is the part of `PendingResolved` that does
not need fairness: no lock outlives the transaction of its worker (`TxShape`),
what a worker waits for exists (`WatchShape`), and among available rows there is
an oldest, because creation times are natural numbers.

`ChainReplayProofs` proves for any set of workers, any block bodies and any
number of blocks and faults, from `ReplayAssumption` only: `TypeCorrect`,
`MirrorCorrect`, `CursorCorrect`, `NothingSkipped` and `ReplayImplementsMirror`;
and, if there is at most
one worker, `CursorAdvances` and `NeverReapplied`. That last condition is a
hypothesis of the two theorems, and a necessary one: two replicas overwrite each
other's cursor.

`NoSilentSkip` speaks of the cursor in the table, which a worker overwrites with
a local value, so the invariant must follow the locals. `AllCovered` says that
every supported event is ingested, missed or dropped if it is at or before the
cursor in the table or a `last_cursor`, or is behind what a worker reads next
(`Behind`). A flush is then safe because `max_cursor` is `last_cursor` or an
event of the block just finished (`CursorShape`), and everything before the end
of that block is behind the worker. `LocalShape` ties `block` and `next` to the
chain, so that a newly finalized block is behind nobody. For one worker
`CursorKnown` is added: past `last_chain_cursor` its `last_cursor` is what the
table holds, so a cursor that is flushed only when it has advanced (`Advanced`)
never moves back.

For `ReplayImplementsMirror` the steps fall into four groups with a lemma each: a
new block only adds later events (`FinalizeExtends`), what a worker records was in
its hand and supported (`RecordIngests`), what it lets go by is not mirrored at
that moment (`LossGivesUp`), and what it flushes satisfies the promise
(`FlushSetsCursor`, from `FlushCovered`). All other steps, crashes included, change
nothing a reader sees.

`BridgeProofs` proves for any jobs, workers, hashes and batch sizes and any
number of faults, from `OutboxAssumption` and `BridgeAssumption` (the batch is not
empty, `None` and jobs are no numbers):
`BridgeImplementsOutbox`, hence `OutboxGuaranteesKept`, and `BridgeTypeCorrect`,
`IdsCorrect`, `UnlinkedExplained`, `MirrorAccounted` and `IdsStay`. By transitivity
with the proofs of `Outbox`, `BridgeImplementsAbs`. Two theorems say for every
execution what the runs `bridge_tables` and `bridge_id` show in one:
`TablesNeverLinked` (no agent and no task ever has a chain id) and
`BackfillIsIdle` (no round of the backfill changes anything).

The crux is `HashIsFinal`: a hash is committed together with `finalized`, so the
handlers' UPDATE by `tx_hash`, which takes no lock, only finds rows that are
finalized and final; it is a stutter of `Outbox`, and `IndInv` of `Outbox` carries
over. `IdsShape` and `LogShape` (an extrinsic is in the log once) give
`ChainIdCorrect`, and `IdsStay`: an event handled again finds the row that already
shows its id, since two events of one row would be two places of one hash in the
log. `UnlinkedIsExplained` speaks of rows that may become finalized
after their event was handled; `HandledShape` therefore says of every handled
event that the row of its job had the hash already, which a later write cannot
disturb (lemma `Finality`), unless the event is in one of the three histories.
`MirrorReconciles` is `Accounted` of the outbox seen from the other table: an event
in the log is that of a live extrinsic. `NoChainRow` and the lemma `Rejected` show that the
schema refuses the statements that would fill `agents` and `tasks`.

`OrchestratorApiProofs` proves for any requests, tasks, agents, budgets, intents
and widths and any number of faults and restarts, from `ApiAssumption` and
`WidthAssumption`: `TypeCorrect`, `AckCorrect`, `SubjectStored`,
`ResultsHaveTask`, `HandlersCorrect`, `FailsOnNumber`, `NoRegress` and
`UnbackedKnown`; `DecodeNearlyEnough`, which compares the two readers of a payload
on any input; and `PostgresStoresNoResult`: since `ON CONFLICT (task_id)` names no
unique key of `results`, no result is ever stored in Postgres and no
`submit_result` or `execute_task_local` is ever answered ok there.

`AckIsStored` looks at the end of a handler, so the invariant says where each
handler is: `Label` (which requests can be at a label), `Progress` (what is stored
by then) and `ServedNow` (a running handler is served by the running process, so
that a restart that changes the backend cannot make it answer for the other
tables). `UniqueTasks` and `Created` keep `insert_task` from resetting a completed
task: nobody can complete one before its own request has stored it. `Queued`
says that the rows of the outbox were validated. The effects of a request are
stable (`EffectStable`) because no step removes a row, but for `Restart` in memory.
`UnbackedOnlyByFailure` is inductive relative to `IndInv`: only `upsert_task`
completes a task, its request is `Unlucky` from then on (`CompletedBy`) and stays so
until its result is stored (`UnluckyStep`), and results are replaced only by
results of the same task (`ResultStays`).

`WasmEngineProofs` proves `WasmAnswersZeros` for any bytes and sizes under `Layout`:
the heap base is not within the first page (the stack, of a megabyte, comes
first), the module's memory reaches it, a page is less than 2^31, some byte is not
0, and a run of zeros is not JSON. Whatever the input and whatever the guest finds
on its heap, the engine answers a run of zeros or an error, and as many zeros as
the input has bytes if input and output lie in the memory the guest started with
(`Inside`); the bytes of the input have no influence. The invariant `WasmInv`
follows the first page of the memory: behind the input it is zero when the host has
written, and stays so, because the guest reads and writes from the heap base on.
`DivMod` and `Unpack` show that the packing of address and length is not to blame.

Only model-checked: `PendingResolved` and `EventuallyIngested`, because the prover
does not do fairness and `ENABLED`. The statements of the violation runs are false
and have no theorem; where the failure is general, a theorem says so
(`RetryPolicyUnused`, `TablesNeverLinked`, `BackfillIsIdle`,
`PostgresStoresNoResult`, `WasmAnswersZeros`).

## 6. Not modelled

* Read-only endpoints, metrics and logging, deployment scripts, the web pages
  and the wallet: no state of theirs outlives a request or a page.
* `crates/ainur-core`: declarations of types, traits, constants and errors.
* Start-up other than the choice of backend and engine; the size of the pool, whose
  effect is a statement that fails.
* `InMemoryStorage::update_chain_cursor`: a cursor that is lost at every restart,
  beside events that are not kept at all.
* The INSERTs into `bids` and `results` and the UPDATE of `tasks` of the handlers of
  `BidSubmitted` and `TaskCompleted`: behind a SELECT that finds no task
  (`TablesNeverLinked`).
* Text: identifiers, hashes and JSON are reduced to what a check tells apart;
  the wording of errors and the SCALE encoding of calls are left out. The `as u32`
  truncation of two payload numbers, which the chain would have to notice, is
  too.
* Durations (poll interval, backoff, 3 s reconnect, `acquire_timeout`) only delay
  steps.
* The chain is an empty submodule: it is modelled from how `chain.rs` uses it.

## 7. Plan

Done: the outbox with its abstract specification, the replay, the bridge of the
two with the backfill and failing statements, the schema, the API with restarts and
payloads, the WASM memory protocol; proofs about all of them, among them the
refinements of `OutboxAbs`, `Outbox` and `ReplayAbs`.

Left: liveness of the API (every request is answered) would only restate that
each handler is a finite sequence of calls. Several replay workers in `Bridge`, as in
`ChainReplay`, would show that two processes that handle one event twice do no more
harm than one that is restarted.
