------------------------------- MODULE Bridge -------------------------------
(***************************************************************************)
(* How the ids the chain assigns come back to the orchestrator: the outbox *)
(* of Outbox together with the event handlers of chain::run_chain_replay   *)
(* and the worker chain::run_outbox_backfill, on the tables the three      *)
(* share.                                                                  *)
(*                                                                         *)
(* Each extrinsic that succeeds emits one event the handlers know; its     *)
(* place in the log of finalized events is also the id the chain assigns   *)
(* to the agent or the task it creates.  The subscription and the cursor   *)
(* are the subject of ChainReplay: here the replay worker handles the log  *)
(* in order, may start events over after a restart and may miss one.       *)
(*                                                                         *)
(* Any statement of the replay and of the backfill may fail: the session   *)
(* is lost, or the pool has no connection within acquire_timeout.  What    *)
(* follows depends on the statement: `let _ =` goes on, `if let Ok` leaves *)
(* the handler, `?` ends the task or the round.                            *)
(***************************************************************************)
EXTENDS Outbox, Sequences, FiniteSets, FiniteSetsExt, Schema

CONSTANTS
    BACKFILL_LIMIT,  \* LIMIT of the backfill query, 50 in the code
    MaxReplayFaults  \* bound on the replay worker's faults

\* submit_bid stands for submit_result too: the handlers of BidSubmitted and of
\* TaskCompleted both look up the task by its chain id first and end there if no
\* task has it, so that neither reaches its INSERT (into bids, results) nor its
\* UPDATE of tasks.  TaskMatched is not an event is_supported lets through.
Calls == {"register_agent", "create_task", "submit_bid"}

ASSUME BridgeAssumption ==
    /\ BACKFILL_LIMIT \in Nat \ {0}
    /\ MaxReplayFaults \in Nat
    /\ None \notin Nat
    /\ Jobs \cap Nat = {}

VARIABLES
    call,          \* column call of outbound_extrinsics
    log,           \* the chain: hashes of the successful extrinsics, in order
    ids,           \* columns chain_task_id, chain_agent_id of outbound_extrinsics
    agents,        \* table agents
    tasks,         \* table tasks: the columns id and chain_task_id
    chain_events,  \* table chain_events: position in the log, correlation_id
    rpc,           \* where the replay worker is in its event loop
    rpos,          \* the event it handles, or handles next
    rcorr,         \* local `correlation`: the extrinsic's hash, or None
    overtaken,     \* history: events whose handler found no row with their hash
    lost,          \* history: events the replay missed or could not correlate
    skipped,       \* history: events whose handler did not do its UPDATE of
                   \* outbound_extrinsics: it failed, or the event did not decode
    bf,            \* the backfill worker: correlation ids it has yet to look up
    rfaults        \* number of faults of the replay worker so far

bridgeVars == <<call, log, ids, agents, tasks, chain_events, rpc, rpos, rcorr, overtaken,
                lost, skipped, bf, rfaults>>
replayVars == <<rpc, rpos, rcorr, overtaken, lost, skipped, rfaults>>
tableVars == <<call, ids, agents, tasks, chain_events>>
allVars == <<vars, bridgeVars>>

\* exited: run_chain_replay returned Err, and nothing restarts the task
RPC == {"idle", "tables", "link", "adopt", "record", "exited"}

\* All extrinsics are signed by one account
Account == "alice"

BridgeTypeOK ==
    /\ TypeOK
    /\ call \in [Jobs -> Calls \cup {None}]
    /\ log \in Seq(Hashes)
    /\ ids \in [Jobs -> [task : Nat \cup {None}, agent : Nat \cup {None}]]
    /\ \A a \in agents : /\ a.id \in Jobs \cup Nat
                         /\ a.chain_agent_id \in Nat \cup {None}
                         /\ a.account_address \in {Account, None}
    /\ \A t \in tasks : t.id \in Jobs \cup Nat /\ t.chain_task_id \in Nat \cup {None}
    /\ \A e \in chain_events : e.pos \in 1..Len(log) /\ e.correlation \in Hashes \cup {None}
    /\ rpc \in RPC
    /\ rpos \in 1..Len(log) + 1
    /\ rcorr \in Hashes \cup {None}
    /\ overtaken \cup lost \cup skipped \subseteq 1..Len(log)
    /\ bf \subseteq Jobs \cup Hashes
    /\ rfaults \in Nat

BridgeInit ==
    /\ Init
    /\ call = [j \in Jobs |-> None]
    /\ log = <<>>
    /\ ids = [j \in Jobs |-> [task |-> None, agent |-> None]]
    /\ agents = {}
    /\ tasks = {}
    /\ chain_events = {}
    /\ rpc = "idle"
    /\ rpos = 1
    /\ rcorr = None
    /\ overtaken = {}
    /\ lost = {}
    /\ skipped = {}
    /\ bf = {}
    /\ rfaults = 0

-----------------------------------------------------------------------------
(* The API enqueues a job.  POST /v1/agents and /v1/tasks also keep a row   *)
(* of their own, without chain id; POST /v1/outbox does not.                *)
Enqueue(j, c) ==
    /\ RecordOutboundExtrinsic(j)
    /\ call' = [call EXCEPT ![j] = c]
    /\ \/ UNCHANGED <<agents, tasks>>
       \/ /\ c = "register_agent"
          /\ agents' = agents \cup {[id |-> j, chain_agent_id |-> None,
                                     account_address |-> None]}
          /\ UNCHANGED tasks
       \/ /\ c = "create_task"
          /\ tasks' = tasks \cup {[id |-> j, chain_task_id |-> None]}
          /\ UNCHANGED agents
    /\ UNCHANGED <<log, ids, chain_events, replayVars, bf>>

\* The chain decides an extrinsic; a success enters the log of events
Land(h) ==
    /\ ChainStep(h)
    /\ log' = IF ext'[h].state = "success" THEN Append(log, h) ELSE log
    /\ UNCHANGED <<tableVars, replayVars, bf>>

-----------------------------------------------------------------------------
(* The replay worker's handlers.                                            *)

\* The call whose event the worker has in hand
CallOf(n) == call[ext[log[n]].job]

\* SELECT id FROM tasks WHERE chain_task_id = ..., at the top of the handlers of
\* BidSubmitted and TaskCompleted
TaskKnown == \E t \in tasks : t.chain_task_id # None

\* The next event, with the hash of its extrinsic
Deliver ==
    /\ rpc = "idle"
    /\ rpos <= Len(log)
    /\ rcorr' = log[rpos]
    /\ rpc' = "tables"
    /\ UNCHANGED <<vars, log, tableVars, rpos, overtaken, lost, skipped, bf, rfaults>>

\* INSERT INTO agents ... ON CONFLICT (id) DO UPDATE; an error is ignored
UpsertAgent(n) ==
    agents' = IF AcceptsInsert("agents",
                    {"id", "label", "chain_agent_id", "account_address", "updated_at"},
                    {"id"}, "text")
              THEN {a \in agents : a.id # n} \cup
                    {[id |-> n, chain_agent_id |-> n, account_address |-> Account]}
              ELSE agents

\* INSERT INTO tasks ... ON CONFLICT (chain_task_id), the id bound as a string;
\* an error is ignored
InsertTask(n) ==
    tasks' = IF AcceptsInsert("tasks",
                    {"id", "requester_id", "description", "status", "updated_at",
                     "stored_json", "chain_task_id"},
                    {"chain_task_id"}, "text")
             THEN {t \in tasks : t.chain_task_id # n} \cup {[id |-> n, chain_task_id |-> n]}
             ELSE tasks

\* The first statement of the handler
ApplyTables ==
    /\ rpc = "tables"
    /\ LET c == CallOf(rpos) IN
        /\ IF c = "register_agent" THEN UpsertAgent(rpos) ELSE UNCHANGED agents
        /\ IF c = "create_task" THEN InsertTask(rpos) ELSE UNCHANGED tasks
        /\ rpc' = IF c = "submit_bid" /\ ~TaskKnown THEN "record" ELSE "link"
    /\ UNCHANGED <<vars, call, log, ids, chain_events, rpos, rcorr, overtaken, lost, skipped,
                   bf, rfaults>>

\* Mutant: the rows are found by the signing account instead of the hash
LinkAnyRow(h) == IF h = None THEN {} ELSE {j \in Jobs : outbound[j].tx_hash # None}

\* Mutant: WHERE tx_hash = $1 AND status = 'pending'
LinkPendingRow(h) ==
    IF h = None THEN {}
    ELSE {j \in Jobs : outbound[j].tx_hash = h /\ outbound[j].status = "pending"}

\* The rows UPDATE outbound_extrinsics ... WHERE tx_hash = $1 finds.  It does not
\* see, nor wait for, what the outbox worker has not committed.
LinkedRows(h) == IF h = None THEN {} ELSE {j \in Jobs : outbound[j].tx_hash = h}

\* Mutant: the ids are written and the row is made pending again
SetLinkedPending(h) ==
    outbound' = [j \in Jobs |-> IF j \in LinkedRows(h)
                                THEN [outbound[j] EXCEPT !.status = "pending"]
                                ELSE outbound[j]]

\* SET status = 'finalized' WHERE tx_hash = $1
SetLinkedFinalized(h) ==
    outbound' = [j \in Jobs |-> IF j \in LinkedRows(h)
                                THEN [outbound[j] EXCEPT !.status = "finalized"]
                                ELSE outbound[j]]

\* The ids the event carries: the one just assigned, or, for a bid, those of the
\* task and the agent it names
EventIds(n) ==
    CASE CallOf(n) = "register_agent" -> {[task |-> None, agent |-> n]}
      [] CallOf(n) = "create_task"    -> {[task |-> n, agent |-> None]}
      [] OTHER -> [task  : {t.chain_task_id : t \in tasks} \ {None}, agent : 1..n]

\* UPDATE outbound_extrinsics SET chain_agent_id / chain_task_id, status.  With the
\* row there, whatever kept an earlier handling of the event from it is made good.
Link ==
    /\ rpc = "link"
    /\ SetLinkedFinalized(rcorr)
    /\ \E v \in EventIds(rpos) :
        ids' = [j \in Jobs |->
                    IF j \notin LinkedRows(rcorr) THEN ids[j]
                    ELSE [task |-> IF v.task = None THEN ids[j].task ELSE v.task,
                          agent |-> IF v.agent = None THEN ids[j].agent ELSE v.agent]]
    /\ IF rcorr # None /\ \E j \in Jobs : outbound[j].tx_hash = rcorr
       THEN /\ overtaken' = overtaken \ {rpos}
            /\ lost' = lost \ {rpos}
            /\ skipped' = skipped \ {rpos}
       ELSE /\ overtaken' = overtaken \cup {rpos}
            /\ UNCHANGED <<lost, skipped>>
    /\ rpc' = "adopt"
    /\ UNCHANGED <<now, workerVars, chainVars, faults, call, log, agents, tasks, chain_events,
                   rpos, rcorr, bf, rfaults>>

\* UPDATE agents SET chain_agent_id, updated_at WHERE account_address = $2 AND
\* chain_agent_id IS NULL.  The corresponding UPDATE of tasks (ORDER BY ... LIMIT)
\* is not valid SQL for Postgres, and patch_pending_with_ids binds one value where
\* its statements use $2: both always fail.  Errors are ignored.
Adopt ==
    /\ rpc = "adopt"
    /\ agents' = IF /\ CallOf(rpos) = "register_agent"
                    /\ AcceptsUpdate("agents",
                            {"chain_agent_id", "updated_at", "account_address"})
                 THEN {IF a.account_address = Account /\ a.chain_agent_id = None
                       THEN [a EXCEPT !.chain_agent_id = rpos] ELSE a : a \in agents}
                 ELSE agents
    /\ rpc' = "record"
    /\ UNCHANGED <<vars, call, log, ids, tasks, chain_events, rpos, rcorr, overtaken, lost,
                   skipped, bf, rfaults>>

\* Mutant: the next position is taken from the number of events handled
RecordSkips ==
    /\ rpc = "record"
    /\ chain_events' = chain_events \cup {[pos |-> rpos, correlation |-> rcorr]}
    /\ rpc' = "idle"
    /\ rpos' = rpos + 1 + Cardinality(chain_events')
    /\ rcorr' = None
    /\ UNCHANGED <<vars, call, log, ids, agents, tasks, overtaken, lost, skipped, bf, rfaults>>

\* INSERT INTO chain_events ... ON CONFLICT DO NOTHING
RecordEvent ==
    chain_events' = IF \E e \in chain_events : e.pos = rpos THEN chain_events
                    ELSE chain_events \cup {[pos |-> rpos, correlation |-> rcorr]}

Record ==
    /\ rpc = "record"
    /\ RecordEvent
    /\ rpc' = "idle"
    /\ rpos' = rpos + 1
    /\ rcorr' = None
    /\ UNCHANGED <<vars, call, log, ids, agents, tasks, overtaken, lost, skipped, bf, rfaults>>

ReplayStep ==
    \/ Deliver
    \/ ApplyTables
    \/ Link
    \/ Adopt
    \/ Record

-----------------------------------------------------------------------------
(* The backfill worker.                                                     *)

\* The correlation ids, and the hashes, of rows that lack one of the two ids
Unlinked ==
    LET rows == {j \in Jobs : /\ outbound[j].status \in {"pending", "failed", "finalized"}
                              /\ ids[j].task = None \/ ids[j].agent = None}
    IN  rows \cup ({outbound[j].tx_hash : j \in rows} \ {None})

\* SELECT ... UNION ... LIMIT 50
BackfillSelect ==
    /\ bf = {}
    /\ Unlinked # {}
    /\ IF Cardinality(Unlinked) <= BACKFILL_LIMIT THEN bf' = Unlinked
       ELSE \E S \in kSubset(BACKFILL_LIMIT, Unlinked) : bf' = S
    /\ UNCHANGED <<vars, log, tableVars, replayVars>>

\* The payload of chain_events is the Debug text of the event's fields, a named
\* composite: its first comma-separated part is not a number
RenderedPayload(n) == [form |-> "debug", first |-> n]

\* extract_first_u64 parses a list of numbers, "[n, ...]"
ExtractFirstU64(payload) == IF payload.form = "list" THEN payload.first ELSE None

\* Mutant: the UPDATE also writes an id it did not find
BackfillRowClears(corr) ==
    /\ corr \in bf
    /\ ids' = [j \in Jobs |-> IF j = corr THEN [task |-> None, agent |-> None] ELSE ids[j]]
    /\ bf' = bf \ {corr}
    /\ UNCHANGED <<vars, call, log, agents, tasks, chain_events, replayVars>>

\* UPDATE outbound_extrinsics ... WHERE correlation_id = corr AND the id IS NULL,
\* for each event whose correlation_id (a hash) is corr; an error is ignored
BackfillRow(corr) ==
    /\ corr \in bf
    /\ LET events == {e \in chain_events : e.correlation = corr}
           found(c) == {ExtractFirstU64(RenderedPayload(e.pos)) :
                            e \in {x \in events : CallOf(x.pos) \in c}} \ {None}
           fill(old, c) == IF old = None /\ found(c) # {} THEN Max(found(c)) ELSE old
       IN  \/ ids' = [j \in Jobs |->
                        IF j # corr THEN ids[j]
                        ELSE [task |-> fill(ids[j].task, {"create_task", "submit_bid"}),
                              agent |-> fill(ids[j].agent, {"register_agent"})]]
           \/ UNCHANGED ids
    /\ bf' = bf \ {corr}
    /\ UNCHANGED <<vars, call, log, agents, tasks, chain_events, replayVars>>

BackfillStep == BackfillSelect \/ \E corr \in bf : BackfillRow(corr)

\* A SELECT fails: `?` ends the round.  The next one starts with another SELECT.
BackfillFails ==
    /\ bf # {}
    /\ bf' = {}
    /\ UNCHANGED <<vars, log, tableVars, replayVars>>

-----------------------------------------------------------------------------
(* Faults of the replay worker.                                             *)

ReplayFault == rfaults < MaxReplayFaults /\ rfaults' = rfaults + 1

\* A restart.  The cursor is written once per block, so the worker may also start
\* over with events it has recorded since.
ReplayRestarts ==
    /\ ReplayFault
    /\ rpos' \in 1..rpos
    /\ rpc' = "idle"
    /\ rcorr' = None
    /\ UNCHANGED <<vars, log, tableVars, overtaken, lost, skipped, bf>>

\* The event was finalized while the worker was away, or did not decode
ReplayMisses ==
    /\ ReplayFault
    /\ rpc = "idle"
    /\ rpos <= Len(log)
    /\ rpos' = rpos + 1
    /\ lost' = lost \cup {rpos}
    /\ UNCHANGED <<vars, log, tableVars, rpc, rcorr, overtaken, skipped, bf>>

\* block.extrinsics() fails: the event is handled without a correlation
CorrelationFails ==
    /\ ReplayFault
    /\ rpc = "idle"
    /\ rpos <= Len(log)
    /\ rcorr' = None
    /\ rpc' = "tables"
    /\ lost' = lost \cup {rpos}
    /\ UNCHANGED <<vars, log, tableVars, rpos, overtaken, skipped, bf>>

\* as_event returns an error or another event: the handler is left out altogether
HandlerSkipped ==
    /\ ReplayFault
    /\ rpc = "tables"
    /\ rpc' = "record"
    /\ skipped' = skipped \cup {rpos}
    /\ UNCHANGED <<vars, log, tableVars, rpos, rcorr, overtaken, lost, bf>>

\* A statement of a handler fails.  The error is ignored, and the handler goes on
\* to its next statement, but for a first SELECT, which it ends with.
StatementFails ==
    /\ ReplayFault
    /\ \/ /\ rpc = "tables"
          /\ rpc' = IF CallOf(rpos) = "submit_bid" THEN "record" ELSE "link"
          /\ UNCHANGED skipped
       \/ /\ rpc = "link" /\ rcorr # None
          /\ rpc' = "adopt"
          /\ skipped' = skipped \cup {rpos}
       \/ /\ rpc = "adopt"
          /\ rpc' = "record"
          /\ UNCHANGED skipped
    /\ UNCHANGED <<vars, log, tableVars, rpos, rcorr, overtaken, lost, bf>>

\* The event or, between events, the cursor cannot be written or read, or it is
\* written but the reply is lost: `?` ends run_chain_replay, and only a restart of
\* the process starts it again
ReplayExits ==
    /\ ReplayFault
    /\ \/ rpc = "record" /\ (RecordEvent \/ UNCHANGED chain_events)
       \/ rpc = "idle" /\ UNCHANGED chain_events
    /\ rpc' = "exited"
    /\ UNCHANGED <<vars, call, log, ids, agents, tasks, rpos, rcorr, overtaken, lost, skipped,
                   bf>>

-----------------------------------------------------------------------------
OutboxWorkerStep(w) == WorkerStep(w) /\ UNCHANGED bridgeVars

BridgeNext ==
    \/ \E j \in Jobs, c \in Calls : Enqueue(j, c)
    \/ \E w \in Workers : OutboxWorkerStep(w)
    \/ \E w \in Workers : FaultStep(w) /\ UNCHANGED bridgeVars
    \/ \E h \in Hashes : Land(h)
    \/ ReplayStep
    \/ BackfillStep
    \/ BackfillFails
    \/ ReplayRestarts \/ ReplayMisses \/ CorrelationFails
    \/ HandlerSkipped \/ StatementFails \/ ReplayExits

BridgeSpec == BridgeInit /\ [][BridgeNext]_allVars

\* As in Outbox; the replay and backfill tasks are run too
BridgeFairness ==
    /\ \A w \in Workers : WF_allVars(OutboxWorkerStep(w))
    /\ \A h \in Hashes : WF_allVars(Land(h))
    /\ WF_allVars(ReplayStep)
    /\ WF_allVars(BackfillStep)

FairBridgeSpec == BridgeSpec /\ BridgeFairness

-----------------------------------------------------------------------------
(* Properties.                                                              *)

\* A row shows the id of the agent or task that its own extrinsic created, never
\* one that another job, or another submission of the same job, created.
ChainIdCorrect ==
    \A j \in Jobs : call[j] \in {"register_agent", "create_task"} =>
        \A n \in {ids[j].task, ids[j].agent} \ {None} :
            log[n] = outbound[j].tx_hash /\ ext[log[n]].job = j

\* A finalized row whose event was mirrored shows the event's id, unless the replay
\* overtook the outbox worker, between finalization on the chain and the commit of
\* tx_hash, or missed the event, could not correlate it, or lost the very UPDATE of
\* the row to an error; and nothing has made it handle the event again since.  A
\* failure of the handler's other statements, a crash before the event is recorded
\* and several extrinsics of one job cost no row its id.
UnlinkedIsExplained ==
    \A e \in chain_events, j \in Jobs :
        (/\ outbound[j].status = "finalized"
         /\ outbound[j].tx_hash = log[e.pos]
         /\ call[j] \in {"register_agent", "create_task"}
         /\ e.pos \notin overtaken \cup lost \cup skipped) =>
            ids[j].task = e.pos \/ ids[j].agent = e.pos

\* The two tables can be reconciled: an extrinsic whose event is in chain_events is the
\* one its job's row names, or its worker is about to write that row, or it is one of
\* those a fault made its worker abandon.  No reconnection, lost session or restart of
\* either side leaves an event that the outbox has otherwise forgotten, nor one whose
\* row says `failed` or names another submission.
MirrorReconciles ==
    \A e \in chain_events :
        LET h == log[e.pos] IN
            \/ outbound[ext[h].job].tx_hash = h
            \/ \E w \in Workers : /\ tx[w] = "open" /\ Watching(w)
                                  /\ hash[w] = h /\ job[w] = ext[h].job
            \/ Detached(h)

\* An id that a row has shown never changes, although a restart makes the replay
\* handle events over and one job may have several extrinsics: the UPDATE finds a
\* row by the hash it keeps for good.
IdsAreFinal ==
    [][\A j \in Jobs :
            /\ ids[j].task # None => ids'[j].task = ids[j].task
            /\ ids[j].agent # None => ids'[j].agent = ids[j].agent]_allVars

\* The replay's writes to outbound_extrinsics change nothing the outbox relies
\* on: together they behave as the outbox alone does.
ImplementsOutbox == Spec

-----------------------------------------------------------------------------
(* The inductive invariant behind the properties, in named parts.           *)

\* A row has a hash only once it is finalized: the two are written together
HashIsFinal == \A j \in Jobs : outbound[j].tx_hash # None => outbound[j].status = "finalized"

\* The log holds successful extrinsics, each of them once
LogShape ==
    /\ \A n \in 1..Len(log) : ext[log[n]].state = "success"
    /\ \A m, n \in 1..Len(log) : log[m] = log[n] => m = n

\* A row has a call from the moment it is inserted, and no ids before that
RowShape ==
    \A j \in Jobs :
        IF outbound[j].status = "absent" THEN ids[j] = [task |-> None, agent |-> None]
        ELSE call[j] \in Calls

\* No agent and no task has a chain id, so a bid's handler ends at its first SELECT
NoChainRow ==
    /\ \A a \in agents : a.chain_agent_id = None
    /\ \A t \in tasks : t.chain_task_id = None

\* The worker has an event in hand, with its hash unless it was lost
ReplayShape ==
    rpc \notin {"idle", "exited"} =>
        /\ rpos \in 1..Len(log)
        /\ rcorr = log[rpos] \/ (rcorr = None /\ rpos \in lost)
        /\ rpc \in {"link", "adopt"} => CallOf(rpos) # "submit_bid"

\* An id in a row is the position of the extrinsic whose hash the row shows
IdsShape ==
    \A j \in Jobs : \A n \in {ids[j].task, ids[j].agent} \ {None} :
        n \in 1..Len(log) /\ log[n] = outbound[j].tx_hash

\* The events whose handler is past its UPDATE of outbound_extrinsics
Handled == {e.pos : e \in chain_events} \cup
           (IF rpc \in {"adopt", "record"} THEN {rpos} ELSE {})

\* That UPDATE found the row of the event's job and gave it the id
HandledShape ==
    \A n \in Handled \ (overtaken \cup lost \cup skipped) : CallOf(n) # "submit_bid" =>
        LET j == ext[log[n]].job IN
            outbound[j].tx_hash = log[n] /\ n \in {ids[j].task, ids[j].agent}

BridgeInv ==
    /\ IndInv
    /\ BridgeTypeOK
    /\ HashIsFinal
    /\ LogShape
    /\ RowShape
    /\ NoChainRow
    /\ ReplayShape
    /\ IdsShape
    /\ HandledShape

-----------------------------------------------------------------------------
\* tests/outbox_chain.rs: once an agent registration is finalized its row
\* surfaces the chain id; what the replay missed the backfill fills in.  The
\* code violates it.
FinalizedSurfacesId ==
    \A j \in Jobs :
        (outbound[j].status = "finalized" /\ call[j] = "register_agent") ~>
            ids[j].agent # None

\* README.md of the API: AgentRegistered goes to the agents table, with its
\* chain_agent_id, and TaskCreated to the tasks table, with its chain_task_id;
\* tests/outbox_chain.rs expects the latter.  The code violates both.
EventsReachTables ==
    \A e \in chain_events :
        /\ CallOf(e.pos) = "create_task" => \E t \in tasks : t.chain_task_id = e.pos
        /\ CallOf(e.pos) = "register_agent" => \E a \in agents : a.chain_agent_id = e.pos

=============================================================================
