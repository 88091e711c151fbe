--------------------------- MODULE OrchestratorApi ---------------------------
(***************************************************************************)
(* The HTTP handlers of the orchestrator that write: each request runs its *)
(* handler, one storage call at a time, concurrently with the others.      *)
(* Between two calls other requests run, a statement may fail, and the     *)
(* client may hang up, upon which axum drops the handler where it awaits.  *)
(*                                                                         *)
(* The process may die and be started again.  Each start chooses the       *)
(* backend: PostgresStorage, or InMemoryStorage when there is no database  *)
(* url or Postgres cannot be reached.  Postgres keeps its tables, memory   *)
(* does not.  The chain bridge is compiled in.                             *)
(***************************************************************************)
EXTENDS OutboxPayload, FiniteSets, Schema

CONSTANTS
    Requests,     \* the requests; each one's id also names the rows it creates
    Tasks,        \* task ids: UUIDs
    Agents,       \* agent ids
    Budgets,      \* values of max_budget, a u128
    Intents,      \* bodies of POST /v1/outbox: a call and its payload
    I64_SIZE,     \* 2^63 in the code: max_cost is stored as an i64
    MaxFaults,    \* bound on failed statements
    MaxRestarts,  \* bound on restarts of the process
    None

ASSUME ApiAssumption ==
    /\ Budgets \subseteq Nat
    /\ \A i \in Intents : i.call \in Calls /\ i.payload \in Payload(i.call)
    /\ I64_SIZE \in Nat /\ I64_SIZE <= U64_SIZE
    /\ MaxFaults \in Nat
    /\ MaxRestarts \in Nat
    /\ None \notin {"ok", "error"}

VARIABLES
    backend,   \* the Storage and ChainEventSink of AppState
    agents,    \* per backend: registered agents
    tasks,     \* per backend: task id -> status of the stored task
    bids,      \* per backend: stored bids
    results,   \* per backend: stored results
    outbox,    \* requests with a row in outbound_extrinsics, in Postgres
    pc,        \* the storage call each request makes next
    req,       \* the request: its kind and what it names
    snapshot,  \* local `task`: the status read by get_task
    served,    \* the backend that serves the request; "gone" if memory was lost since
    resp,      \* the answer: ok, error, or None
    corr,      \* the answer carries a correlation id
    faults,
    restarts

tableVars == <<agents, tasks, bids, results, outbox>>
processVars == <<backend, served, restarts>>
vars == <<tableVars, processVars, pc, req, snapshot, resp, corr, faults>>

Backends == {"memory", "postgres"}

Status == {"absent", "pending", "completed"}

\* The agent of a result that execute_task_local stores
LocalAgent == "local-echo"

\* Bodies: "refused" by from_submission or the handler's own checks (for
\* execute_task_local: the engine fails), or "good".  An agent's id or label, and
\* an address, may exceed its cap in the payload ("long"); an address may not be
\* one ("no_account").
Request ==
         [kind : {"register_agent"}, agent : Agents, body : {"refused", "long", "good"}]
    \cup [kind : {"submit_task"}, task : Tasks, body : {"refused", "good"}, budget : Budgets]
    \cup [kind : {"submit_bid", "submit_result"}, task : Tasks, agent : Agents,
          body : {"refused", "good"}]
    \cup [kind : {"execute_task_local"}, task : Tasks, agent : {LocalAgent},
          body : {"refused", "good"}]
    \cup [kind : {"request_faucet"}, body : {"refused", "long", "no_account", "good"}]
    \cup [kind : {"enqueue_outbox"}, body : {"refused", "good"}, intent : Intents]

NoRequest == [kind |-> "none"]

PC == {"new", "register_agent", "insert_task", "get_task", "insert_bid", "upsert_task",
       "insert_result", "record_outbound_extrinsic", "done", "dropped"}

\* Stored bids and results: the row's id, the task and the agent
Stored == [id : Requests, task : Tasks, agent : Agents \cup {LocalAgent}]

TypeOK ==
    /\ backend \in Backends
    /\ agents \in [Backends -> SUBSET Agents]
    /\ tasks \in [Backends -> [Tasks -> Status]]
    /\ bids \in [Backends -> SUBSET Stored]
    /\ results \in [Backends -> SUBSET Stored]
    /\ outbox \in SUBSET Requests
    /\ pc \in [Requests -> PC]
    /\ req \in [Requests -> Request \cup {NoRequest}]
    /\ snapshot \in [Requests -> Status]
    /\ served \in [Requests -> Backends \cup {"gone", None}]
    /\ resp \in [Requests -> {None, "ok", "error"}]
    /\ corr \in [Requests -> BOOLEAN]
    /\ faults \in Nat
    /\ restarts \in Nat

NoTasks == [t \in Tasks |-> "absent"]

\* The first start, on an empty database
Init ==
    /\ backend \in Backends
    /\ agents = [b \in Backends |-> {}]
    /\ tasks = [b \in Backends |-> NoTasks]
    /\ bids = [b \in Backends |-> {}]
    /\ results = [b \in Backends |-> {}]
    /\ outbox = {}
    /\ pc = [r \in Requests |-> "new"]
    /\ req = [r \in Requests |-> NoRequest]
    /\ snapshot = [r \in Requests |-> "absent"]
    /\ served = [r \in Requests |-> None]
    /\ resp = [r \in Requests |-> None]
    /\ corr = [r \in Requests |-> FALSE]
    /\ faults = 0
    /\ restarts = 0

-----------------------------------------------------------------------------
(* The intents the handlers build.                                          *)

CallOf(q) ==
    CASE q.kind = "register_agent" -> "register_agent"
      [] q.kind = "submit_task"    -> "create_task"
      [] q.kind = "submit_bid"     -> "submit_bid"
      [] q.kind = "submit_result"  -> "submit_result"
      [] q.kind = "request_faucet" -> "transfer_allow_death"
      [] q.kind = "enqueue_outbox" -> q.intent.call

\* Mutant: the budget, a u128, goes into the payload as a string
PayloadOfBudgetText(q) ==
    CASE q.kind = "register_agent" ->
            [did |-> Text(q.body # "long", TRUE), capabilities |-> Text(TRUE, TRUE),
             metadata |-> Text(q.body # "long", TRUE), verification_level |-> Text(TRUE, TRUE)]
      [] q.kind = "submit_task" ->
            [spec_hash |-> Text(TRUE, TRUE), budget |-> Text(TRUE, TRUE),
             deadline |-> Number(0), verification_level |-> Text(TRUE, TRUE)]
      [] q.kind = "submit_bid" ->
            [task_id |-> Number(0), agent_id |-> Number(0), commitment |-> Text(TRUE, TRUE),
             estimated_duration |-> Number(0)]
      [] q.kind = "submit_result" ->
            [task_id |-> Number(0), agent_id |-> Number(0), result_hash |-> Text(TRUE, TRUE),
             proof |-> Text(TRUE, TRUE)]
      [] q.kind = "request_faucet" ->
            [address |-> Text(q.body # "long", q.body # "no_account"), amount |-> Number(0)]
      [] q.kind = "enqueue_outbox" -> q.intent.payload

\* The ids a bid and a result name are looked up in chain_task_id and
\* chain_agent_id: the one SELECT binds text to a UUID column and fails, the other
\* column is never written (see Bridge), and both errors count as 0.  Deadline,
\* duration and amount are u64, of which the value does not matter here.
PayloadOf(q) ==
    CASE q.kind = "register_agent" ->
            [did |-> Text(q.body # "long", TRUE), capabilities |-> Text(TRUE, TRUE),
             metadata |-> Text(q.body # "long", TRUE), verification_level |-> Text(TRUE, TRUE)]
      [] q.kind = "submit_task" ->
            [spec_hash |-> Text(TRUE, TRUE), budget |-> Number(q.budget),
             deadline |-> Number(0), verification_level |-> Text(TRUE, TRUE)]
      [] q.kind = "submit_bid" ->
            [task_id |-> Number(0), agent_id |-> Number(0), commitment |-> Text(TRUE, TRUE),
             estimated_duration |-> Number(0)]
      [] q.kind = "submit_result" ->
            [task_id |-> Number(0), agent_id |-> Number(0), result_hash |-> Text(TRUE, TRUE),
             proof |-> Text(TRUE, TRUE)]
      [] q.kind = "request_faucet" ->
            [address |-> Text(q.body # "long", q.body # "no_account"), amount |-> Number(0)]
      [] q.kind = "enqueue_outbox" -> q.intent.payload

-----------------------------------------------------------------------------
(* The handlers.                                                            *)

Row(r) == [id |-> r, task |-> req[r].task, agent |-> req[r].agent]

Goto(r, label) == pc' = [pc EXCEPT ![r] = label] /\ UNCHANGED <<resp, corr>>

\* The handler returns; withCorr: the answer carries a correlation id
Answer(r, what, withCorr) ==
    /\ pc' = [pc EXCEPT ![r] = "done"]
    /\ resp' = [resp EXCEPT ![r] = what]
    /\ corr' = [corr EXCEPT ![r] = withCorr]

\* No request has been given the fresh UUID t
Fresh(t) == \A r \in Requests : req[r].kind = "submit_task" => req[r].task # t

FirstCall(kind) ==
    CASE kind = "register_agent" -> "register_agent"
      [] kind = "submit_task" -> "insert_task"
      [] kind \in {"enqueue_outbox", "request_faucet"} -> "record_outbound_extrinsic"
      [] OTHER -> "get_task"

\* A request arrives.  The handlers that read the task first refuse a bad body
\* after that, the others at once.
Arrive(r, q) ==
    /\ pc[r] = "new"
    /\ q.kind = "submit_task" => Fresh(q.task)
    /\ req' = [req EXCEPT ![r] = q]
    /\ served' = [served EXCEPT ![r] = backend]
    /\ IF q.body = "refused" /\ FirstCall(q.kind) # "get_task"
       THEN Answer(r, "error", FALSE)
       ELSE Goto(r, FirstCall(q.kind))
    /\ UNCHANGED <<tableVars, backend, restarts, snapshot, faults>>

\* storage.register_agent
RegisterAgent(r) ==
    /\ pc[r] = "register_agent"
    /\ agents' = [agents EXCEPT ![backend] = @ \cup {req[r].agent}]
    /\ Goto(r, "record_outbound_extrinsic")
    /\ UNCHANGED <<tasks, bids, results, outbox, processVars, req, snapshot, faults>>

SetTask(r, status) == tasks' = [tasks EXCEPT ![backend][req[r].task] = status]

\* Mutant: a status of its own for a new task
InsertTaskCreated(r) ==
    /\ pc[r] = "insert_task"
    /\ SetTask(r, "created")
    /\ Goto(r, "record_outbound_extrinsic")
    /\ UNCHANGED <<agents, bids, results, outbox, processVars, req, snapshot, faults>>

\* storage.insert_task.  Postgres takes only what fits an i64; memory takes any
\* budget, and building the payload then panics on one that JSON cannot hold: the
\* task is stored and the connection closed without an answer.
InsertTask(r) ==
    /\ pc[r] = "insert_task"
    /\ IF backend = "postgres" /\ req[r].budget >= I64_SIZE
       THEN Answer(r, "error", FALSE) /\ UNCHANGED tasks
       ELSE /\ SetTask(r, "pending")
            /\ Goto(r, IF req[r].budget < U64_SIZE THEN "record_outbound_extrinsic"
                       ELSE "dropped")
    /\ UNCHANGED <<agents, bids, results, outbox, processVars, req, snapshot, faults>>

\* Mutant: the task is not looked up first
GetTaskUnchecked(r) ==
    /\ pc[r] = "get_task"
    /\ Goto(r, IF req[r].kind = "submit_bid" THEN "insert_bid" ELSE "upsert_task")
    /\ snapshot' = [snapshot EXCEPT ![r] = tasks[backend][req[r].task]]
    /\ UNCHANGED <<tableVars, processVars, req, faults>>

\* storage.get_task, then from_submission (submit_bid, submit_result) or the
\* execution engine (execute_task_local)
GetTask(r) ==
    /\ pc[r] = "get_task"
    /\ IF tasks[backend][req[r].task] = "absent" \/ req[r].body = "refused"
       THEN Answer(r, "error", FALSE)
       ELSE Goto(r, IF req[r].kind = "submit_bid" THEN "insert_bid" ELSE "upsert_task")
    /\ snapshot' = [snapshot EXCEPT ![r] = tasks[backend][req[r].task]]
    /\ UNCHANGED <<tableVars, processVars, req, faults>>

\* Another row of the table has the same task and agent, and the table says
\* they are unique.  Of bids only: an INSERT INTO results is never accepted.
Duplicate(r) ==
    /\ backend = "postgres"
    /\ {"task_id", "agent_id"} \in UniqueKeys("bids")
    /\ \E b \in bids[backend] : b.task = req[r].task /\ b.agent = req[r].agent

AddBid(r) == bids' = [bids EXCEPT ![backend] = @ \cup {Row(r)}]

\* Mutant: the handler goes on after the statement failed
InsertBidUnchecked(r) ==
    /\ pc[r] = "insert_bid"
    /\ IF Duplicate(r) THEN UNCHANGED bids ELSE AddBid(r)
    /\ Goto(r, "record_outbound_extrinsic")
    /\ UNCHANGED <<agents, tasks, results, outbox, processVars, req, snapshot, faults>>

\* Mutant: submit_bid writes back the task with the status of submit_result
InsertBidCompletes(r) ==
    /\ pc[r] = "insert_bid"
    /\ IF Duplicate(r)
       THEN Answer(r, "error", FALSE) /\ UNCHANGED <<tasks, bids>>
       ELSE Goto(r, "record_outbound_extrinsic") /\ AddBid(r) /\ SetTask(r, "completed")
    /\ UNCHANGED <<agents, results, outbox, processVars, req, snapshot, faults>>

\* storage.insert_bid
InsertBid(r) ==
    /\ pc[r] = "insert_bid"
    /\ IF Duplicate(r)
       THEN Answer(r, "error", FALSE) /\ UNCHANGED bids
       ELSE Goto(r, "record_outbound_extrinsic") /\ AddBid(r)
    /\ UNCHANGED <<agents, tasks, results, outbox, processVars, req, snapshot, faults>>

\* Mutant: execute_task_local leaves the status as it read it
UpsertSnapshot(r) ==
    /\ pc[r] = "upsert_task"
    /\ SetTask(r, IF req[r].kind = "execute_task_local" THEN snapshot[r] ELSE "completed")
    /\ Goto(r, "insert_result")
    /\ UNCHANGED <<agents, bids, results, outbox, processVars, req, snapshot, faults>>

\* storage.upsert_task, with the task as it was read but for the status
UpsertTask(r) ==
    /\ pc[r] = "upsert_task"
    /\ SetTask(r, "completed")
    /\ Goto(r, "insert_result")
    /\ UNCHANGED <<agents, bids, results, outbox, processVars, req, snapshot, faults>>

\* INSERT INTO results ... ON CONFLICT (task_id), in Postgres
ResultAccepted ==
    \/ backend = "memory"
    \/ AcceptsInsert("results",
            {"id", "task_id", "agent_id", "output_base64", "completed_at", "proof",
             "stored_json", "created_at"},
            {"task_id"}, "uuid")

\* storage.insert_result; execute_task_local does not enqueue.  In memory the
\* results are keyed by their own id, in Postgres one replaces the task's other.
InsertResult(r) ==
    /\ pc[r] = "insert_result"
    /\ IF ResultAccepted
       THEN /\ results' = [results EXCEPT ![backend] =
                    {s \in @ : backend = "memory" \/ s.task # req[r].task} \cup {Row(r)}]
            /\ IF req[r].kind = "execute_task_local"
               THEN Answer(r, "ok", FALSE)
               ELSE Goto(r, "record_outbound_extrinsic")
       ELSE Answer(r, "error", FALSE) /\ UNCHANGED results
    /\ UNCHANGED <<agents, tasks, bids, outbox, processVars, req, snapshot, faults>>

\* enqueue_outbox and the faucet report what goes wrong with the outbox; the other
\* handlers log it and answer without a correlation id
EnqueueFailed(r) ==
    Answer(r, IF req[r].kind \in {"enqueue_outbox", "request_faucet"} THEN "error" ELSE "ok",
           FALSE)

\* validate_outbox_payload
Valid(r) == DecodePayload(CallOf(req[r]), PayloadOf(req[r]))

\* validate_outbox_payload and chain::record_outbound_extrinsic.  The in-memory
\* sink keeps nothing.
RecordOutboundExtrinsic(r) ==
    /\ pc[r] = "record_outbound_extrinsic"
    /\ IF Valid(r)
       THEN /\ Answer(r, "ok", TRUE)
            /\ outbox' = IF backend = "postgres" THEN outbox \cup {r} ELSE outbox
       ELSE EnqueueFailed(r) /\ UNCHANGED outbox
    /\ UNCHANGED <<agents, tasks, bids, results, processVars, req, snapshot, faults>>

HandlerStep(r) ==
    \/ RegisterAgent(r)
    \/ InsertTask(r)
    \/ GetTask(r)
    \/ InsertBid(r)
    \/ UpsertTask(r)
    \/ InsertResult(r)
    \/ RecordOutboundExtrinsic(r)

-----------------------------------------------------------------------------
(* What may go wrong.                                                       *)

InFlight(r) == pc[r] \notin {"new", "done", "dropped"}

\* The client hangs up: the handler is dropped at its await
ClientHangsUp(r) ==
    /\ InFlight(r)
    /\ pc' = [pc EXCEPT ![r] = "dropped"]
    /\ UNCHANGED <<tableVars, processVars, req, snapshot, resp, corr, faults>>

\* A statement fails, or takes effect and its reply is lost
StatementFails(r) ==
    /\ backend = "postgres"
    /\ faults < MaxFaults
    /\ faults' = faults + 1
    /\ InFlight(r)
    /\ IF pc[r] = "record_outbound_extrinsic" THEN EnqueueFailed(r)
       ELSE Answer(r, "error", FALSE)
    /\ \/ UNCHANGED tableVars
       \/ /\ pc[r] = "register_agent"
          /\ agents' = [agents EXCEPT ![backend] = @ \cup {req[r].agent}]
          /\ UNCHANGED <<tasks, bids, results, outbox>>
       \/ /\ pc[r] = "insert_task"
          /\ req[r].budget < I64_SIZE
          /\ SetTask(r, "pending")
          /\ UNCHANGED <<agents, bids, results, outbox>>
       \/ /\ pc[r] = "insert_bid"
          /\ ~Duplicate(r)
          /\ AddBid(r)
          /\ UNCHANGED <<agents, tasks, results, outbox>>
       \/ /\ pc[r] = "upsert_task"
          /\ SetTask(r, "completed")
          /\ UNCHANGED <<agents, bids, results, outbox>>
       \/ /\ pc[r] = "record_outbound_extrinsic"
          /\ Valid(r)
          /\ outbox' = outbox \cup {r}
          /\ UNCHANGED <<agents, tasks, bids, results>>
    /\ UNCHANGED <<processVars, req, snapshot>>

\* The process dies and is started again: from_config chooses the backend anew
Restart ==
    /\ restarts < MaxRestarts
    /\ restarts' = restarts + 1
    /\ backend' \in Backends
    /\ agents' = [agents EXCEPT !["memory"] = {}]
    /\ tasks' = [tasks EXCEPT !["memory"] = NoTasks]
    /\ bids' = [bids EXCEPT !["memory"] = {}]
    /\ results' = [results EXCEPT !["memory"] = {}]
    /\ pc' = [r \in Requests |-> IF InFlight(r) THEN "dropped" ELSE pc[r]]
    /\ served' = [r \in Requests |-> IF served[r] = "memory" THEN "gone" ELSE served[r]]
    /\ UNCHANGED <<outbox, req, snapshot, resp, corr, faults>>

-----------------------------------------------------------------------------
Next ==
    \/ \E r \in Requests, q \in Request : Arrive(r, q)
    \/ \E r \in Requests : HandlerStep(r)
    \/ \E r \in Requests : ClientHangsUp(r)
    \/ \E r \in Requests : StatementFails(r)
    \/ Restart

Spec == Init /\ [][Next]_vars

-----------------------------------------------------------------------------
(* Properties.                                                              *)

\* What request r asked for is stored in backend b
Effect(r, b) ==
    CASE req[r].kind = "register_agent" -> req[r].agent \in agents[b]
      [] req[r].kind = "submit_task" -> tasks[b][req[r].task] # "absent"
      [] req[r].kind = "submit_bid" -> Row(r) \in bids[b]
      [] req[r].kind \in {"submit_result", "execute_task_local"} ->
            /\ tasks[b][req[r].task] = "completed"
            /\ \E s \in results[b] : s.task = req[r].task
      [] OTHER -> TRUE

\* A client that was answered ok by Postgres finds what it stored ever after, and
\* its intent in the outbox if it was given a correlation id, whatever other
\* requests did meanwhile and however often the process died, started on memory
\* and came back.  What memory answered for is there until the process dies; its
\* sink answers `queued` and keeps nothing.
AckIsStored ==
    \A r \in Requests : (resp[r] = "ok" /\ served[r] \in Backends) =>
        /\ Effect(r, served[r])
        /\ served[r] = "postgres" /\ corr[r] => r \in outbox

\* An extrinsic is enqueued only for what is stored: the handlers enqueue last,
\* so no failure, hang-up or restart leaves an intent without its subject.
OutboxHasSubject == \A r \in outbox : Effect(r, "postgres")

\* Bids and results refer to tasks of their own backend, and the task of a stored
\* result is completed, although a restart may change the backend under a client
\* that works on a task.
TaskOfResultCompleted ==
    \A b \in Backends :
        /\ \A x \in bids[b] : tasks[b][x.task] # "absent"
        /\ \A s \in results[b] : tasks[b][s.task] = "completed"

\* What register_agent, submit_task, submit_bid and submit_result queue,
\* submit_extrinsic can turn into a call: their rows never fail for their form.
\* decode_payload would not notice a number of the wrong form.
HandlersQueueCalls ==
    \A r \in outbox : req[r].kind \notin {"enqueue_outbox", "request_faucet"} =>
        BuildsCall(CallOf(req[r]), PayloadOf(req[r]))

\* A row that was validated and cannot be turned into a call lacks a number, or
\* names no account: nothing else passes decode_payload and fails later.
QueuedFailsOnNumber ==
    \A r \in outbox :
        LET call == CallOf(req[r])
            p == PayloadOf(req[r])
        IN  \/ BuildsCall(call, p)
            \/ \E f \in Fields(call) :
                    \/ Role(call)[f] = "number" /\ ~AsU64(p[f])
                    \/ Role(call)[f] = "account" /\ ~p[f].parses

\* docs/operations/orchestrator-storage.md: a completed task cannot move back to
\* pending, although every handler writes back a task it read earlier.  In
\* Postgres a restart does not change that.
StatusNeverRegresses ==
    [][\A b \in Backends, t \in Tasks : (b = "postgres" \/ restarts' = restarts) =>
            /\ tasks[b][t] = "completed" => tasks'[b][t] = "completed"
            /\ tasks[b][t] = "pending" => tasks'[b][t] # "absent"]_vars

\* A request that completes its task, and was not told that it succeeded
Unlucky(r) ==
    /\ req[r].kind \in {"submit_result", "execute_task_local"}
    /\ pc[r] \in {"insert_result", "dropped"} \/ resp[r] = "error"

\* upsert_task and insert_result are two statements, so a task may be completed and
\* have no result.  But then some request for that task, on the same backend, is
\* between the two, was dropped or was told of an error: no bid, no other
\* request's result and no change of the backend brings it about, and a client
\* that waits for its answer never takes such a task for a success of its own.
UnbackedOnlyByFailure ==
    \A b \in Backends, t \in Tasks : tasks[b][t] = "completed" =>
        \/ \E s \in results[b] : s.task = t
        \/ \E r \in Requests : Unlucky(r) /\ req[r].task = t /\ served[r] = b

\* docs/operations/orchestrator-storage.md: all writes of an operation are inside
\* one transaction, so a task is not left completed without its result once
\* nobody is working on it.  The code violates it.
CompletedHasResult ==
    (\A r \in Requests : ~InFlight(r)) =>
        \A b \in Backends, t \in Tasks :
            tasks[b][t] = "completed" => \E s \in results[b] : s.task = t

-----------------------------------------------------------------------------
(* The inductive invariant behind the properties, in named parts.           *)

\* The kinds of request that can be at a label, and who has been answered
Label(r) ==
    /\ pc[r] = "new" <=> req[r].kind = "none"
    /\ pc[r] = "register_agent" => req[r].kind = "register_agent"
    /\ pc[r] = "insert_task" => req[r].kind = "submit_task"
    /\ pc[r] = "get_task" =>
            req[r].kind \in {"submit_bid", "submit_result", "execute_task_local"}
    /\ pc[r] = "insert_bid" => req[r].kind = "submit_bid"
    /\ pc[r] \in {"upsert_task", "insert_result"} =>
            req[r].kind \in {"submit_result", "execute_task_local"}
    /\ pc[r] = "record_outbound_extrinsic" => req[r].kind # "execute_task_local"
    /\ pc[r] # "done" => resp[r] = None

\* Handlers that are running are served by the process that is running
ServedNow(r) == InFlight(r) => served[r] = backend

\* What a handler has done when it comes to a label
Progress(r) ==
    /\ pc[r] \in {"insert_bid", "upsert_task"} => tasks[backend][req[r].task] # "absent"
    /\ pc[r] = "insert_result" => tasks[backend][req[r].task] = "completed"
    /\ pc[r] = "record_outbound_extrinsic" =>
            /\ Effect(r, backend)
            /\ req[r].kind = "submit_task" => req[r].budget < U64_SIZE

\* Two submitted tasks have two UUIDs
UniqueTasks ==
    \A r, s \in Requests :
        (req[r].kind = "submit_task" /\ req[s].kind = "submit_task" /\ r # s) =>
            req[r].task # req[s].task

\* A stored task is one that a request before it has submitted
Created ==
    \A b \in Backends, t \in Tasks : tasks[b][t] # "absent" =>
        \E r \in Requests : /\ req[r].kind = "submit_task"
                            /\ req[r].task = t
                            /\ pc[r] # "insert_task"

\* What is in the outbox was validated
Queued(r) ==
    /\ pc[r] = "done"
    /\ req[r].kind \notin {"none", "execute_task_local"}
    /\ Valid(r)
    /\ req[r].kind = "submit_task" => req[r].budget < U64_SIZE

IndInv ==
    /\ TypeOK
    /\ \A r \in Requests : Label(r) /\ ServedNow(r) /\ Progress(r)
    /\ UniqueTasks
    /\ Created
    /\ \A r \in outbox : Queued(r)
    /\ AckIsStored
    /\ OutboxHasSubject
    /\ TaskOfResultCompleted

=============================================================================
