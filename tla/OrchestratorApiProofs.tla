------------------------ MODULE OrchestratorApiProofs ------------------------
(***************************************************************************)
(* Theorems about OrchestratorApi: for any requests, tasks, agents,        *)
(* budgets and intents, and any number of faults and restarts.             *)
(***************************************************************************)
EXTENDS OrchestratorApi, TLAPS

-----------------------------------------------------------------------------
(* Payloads.                                                                *)

\* The fields of every call have roles the two readers know.
LEMMA RolesKnown ==
    ASSUME NEW call \in Calls, NEW f \in Fields(call)
    PROVE  Role(call)[f] \in {"text", "optional", "hash", "level", "account", "amount", "number"}
  BY DEF Calls, Fields, Role

\* For every payload whatsoever: what decode_payload accepts, submit_extrinsic
\* turns into a call, unless a number is missing or an address is not one.
THEOREM DecodeNearlyEnough ==
    ASSUME NEW call, NEW p, DecodePayload(call, p)
    PROVE  \/ BuildsCall(call, p)
           \/ \E f \in Fields(call) :
                \/ Role(call)[f] = "number" /\ ~AsU64(p[f])
                \/ Role(call)[f] = "account" /\ ~p[f].parses
  <1>1. call \in Calls
    BY DEF DecodePayload
  <1>2. SUFFICES ASSUME NEW f \in Fields(call), ~Reads(Role(call)[f], p[f])
                 PROVE  \/ Role(call)[f] = "number" /\ ~AsU64(p[f])
                        \/ Role(call)[f] = "account" /\ ~p[f].parses
    BY DEF BuildsCall
  <1>3. Accepts(Role(call)[f], p[f])
    BY DEF DecodePayload
  <1>4. QED
    BY <1>1, <1>2, <1>3, RolesKnown DEF Accepts, Reads

\* The handlers' own payloads have a number wherever one is needed.
LEMMA HandlerPayload ==
    ASSUME NEW q,
           q.kind \in {"register_agent", "submit_task", "submit_bid", "submit_result"},
           q.kind = "submit_task" => q.budget \in Nat /\ q.budget < U64_SIZE,
           DecodePayload(CallOf(q), PayloadOf(q))
    PROVE  BuildsCall(CallOf(q), PayloadOf(q))
  <1> DEFINE c == CallOf(q)
             p == PayloadOf(q)
  <1>1. SUFFICES \A f \in Fields(c) :
            (Role(c)[f] = "number" => AsU64(p[f])) /\ Role(c)[f] # "account"
    BY DecodeNearlyEnough
  <1>2. \A n \in Nat : n < U64_SIZE => AsU64(Number(n))
    BY DEF AsU64, Number
  <1>3. AsU64(Number(0))
    BY <1>2, WidthAssumption
  <1>4. CASE q.kind = "register_agent"
    <2>1. c = "register_agent"
      BY <1>4 DEF CallOf
    <2>2. QED
      BY <2>1 DEF Fields, Role
  <1>5. CASE q.kind = "submit_task"
    <2>1. c = "create_task"
      BY <1>5 DEF CallOf
    <2>2. p.budget = Number(q.budget) /\ p.deadline = Number(0)
      BY <1>5 DEF PayloadOf
    <2>3. QED
      BY <1>2, <1>3, <1>5, <2>1, <2>2 DEF Fields, Role
  <1>6. CASE q.kind = "submit_bid"
    <2>1. c = "submit_bid"
      BY <1>6 DEF CallOf
    <2>2. p.task_id = Number(0) /\ p.agent_id = Number(0) /\ p.estimated_duration = Number(0)
      BY <1>6 DEF PayloadOf
    <2>3. QED
      BY <1>2, <1>3, <1>6, <2>1, <2>2 DEF Fields, Role
  <1>7. CASE q.kind = "submit_result"
    <2>1. c = "submit_result"
      BY <1>7 DEF CallOf
    <2>2. p.task_id = Number(0) /\ p.agent_id = Number(0)
      BY <1>7 DEF PayloadOf
    <2>3. QED
      BY <1>2, <1>3, <1>7, <2>1, <2>2 DEF Fields, Role
  <1>8. QED
    BY <1>4, <1>5, <1>6, <1>7

-----------------------------------------------------------------------------
(* Requests and stored data.                                                *)

\* What each kind of request names.
LEMMA RequestShape ==
    ASSUME NEW q \in Request
    PROVE  /\ q.kind = "register_agent" => q.agent \in Agents
           /\ q.kind = "submit_task" => q.task \in Tasks /\ q.budget \in Nat
           /\ q.kind \in {"submit_bid", "submit_result", "execute_task_local"} =>
                q.task \in Tasks /\ q.agent \in Agents \cup {LocalAgent}
           /\ q.kind \in {"register_agent", "submit_task", "submit_bid", "submit_result",
                          "execute_task_local", "request_faucet", "enqueue_outbox"}
  BY ApiAssumption DEF Request

\* What backend b holds in the next state when nothing of it is lost
Grows(b) ==
    /\ agents[b] \subseteq agents'[b]
    /\ \A t \in Tasks : /\ tasks[b][t] = "completed" => tasks'[b][t] = "completed"
                        /\ tasks[b][t] # "absent" => tasks'[b][t] # "absent"
    /\ bids[b] \subseteq bids'[b]
    /\ \A s \in results[b] : \E x \in results'[b] : x.task = s.task

\* Request r's acknowledgement is honoured (a conjunct of AckIsStored)
Ack(r) ==
    (resp[r] = "ok" /\ served[r] \in Backends) =>
        /\ Effect(r, served[r])
        /\ served[r] = "postgres" /\ corr[r] => r \in outbox

\* What is stored stays stored while the backend grows.
LEMMA EffectStable ==
    ASSUME TypeOK, NEW r \in Requests, NEW b \in Backends, Grows(b), req'[r] = req[r],
           req[r].kind # "none", Effect(r, b)
    PROVE  Effect(r, b)'
  <1>1. req[r] \in Request
    BY DEF TypeOK, NoRequest
  <1>2. CASE req[r].kind = "register_agent"
    BY <1>2 DEF Effect, Grows
  <1>3. CASE req[r].kind = "submit_task"
    BY <1>1, <1>3, RequestShape DEF Effect, Grows
  <1>4. CASE req[r].kind = "submit_bid"
    BY <1>4 DEF Effect, Grows, Row
  <1>5. CASE req[r].kind \in {"submit_result", "execute_task_local"}
    BY <1>1, <1>5, RequestShape DEF Effect, Grows
  <1>6. CASE req[r].kind \in {"request_faucet", "enqueue_outbox"}
    BY <1>6 DEF Effect
  <1>7. QED
    BY <1>1, <1>2, <1>3, <1>4, <1>5, <1>6, RequestShape

-----------------------------------------------------------------------------
(* A step of one request.                                                   *)

\* The tables after a step of r: nothing is lost, r creates no task but its own,
\* and a new bid or result has its task
Tables(r) ==
    /\ agents' \in [Backends -> SUBSET Agents]
    /\ tasks' \in [Backends -> [Tasks -> Status]]
    /\ bids' \in [Backends -> SUBSET Stored]
    /\ results' \in [Backends -> SUBSET Stored]
    /\ \A b \in Backends : Grows(b)
    /\ \A b \in Backends, t \in Tasks : (tasks[b][t] = "absent" /\ tasks'[b][t] # "absent") =>
            req[r].kind = "submit_task" /\ t = req[r].task
    /\ \A b \in Backends : \A x \in bids'[b] \ bids[b] : tasks'[b][x.task] # "absent"
    /\ \A b \in Backends : \A x \in results'[b] \ results[b] : tasks'[b][x.task] = "completed"

\* A step of r leaves the other requests and the process alone
OwnStep(r) ==
    /\ backend' = backend /\ served' = served /\ restarts' = restarts
    /\ req' = req
    /\ \A s \in Requests \ {r} : pc'[s] = pc[s] /\ resp'[s] = resp[s] /\ corr'[s] = corr[s]
    /\ Tables(r)
    /\ outbox \subseteq outbox' /\ outbox' \subseteq outbox \cup {r}

\* The others keep their part of the invariant.
LEMMA OthersKeep ==
    ASSUME IndInv, NEW r \in Requests, OwnStep(r), NEW s \in Requests \ {r}
    PROVE  Label(s)' /\ ServedNow(s)' /\ Progress(s)' /\ Ack(s)'
  <1>1. /\ pc'[s] = pc[s] /\ req'[s] = req[s] /\ served'[s] = served[s]
        /\ resp'[s] = resp[s] /\ corr'[s] = corr[s] /\ backend' = backend
    BY DEF OwnStep
  <1>2. Label(s) /\ ServedNow(s) /\ Progress(s) /\ TypeOK
    BY DEF IndInv
  <1>3. Label(s)'
    BY <1>1, <1>2 DEF Label
  <1>4. ServedNow(s)'
    BY <1>1, <1>2 DEF ServedNow, InFlight
  <1>5. Grows(backend) /\ backend \in Backends
    BY <1>2 DEF OwnStep, Tables, TypeOK
  <1>6. req[s].kind # "none" => req[s] \in Request
    BY <1>2 DEF TypeOK, NoRequest
  <1>7. Progress(s)'
    <2>1. CASE pc[s] \in {"insert_bid", "upsert_task", "insert_result"}
      BY <1>1, <1>2, <1>5, <1>6, <2>1, RequestShape DEF Progress, Grows, Label
    <2>2. CASE pc[s] = "record_outbound_extrinsic"
      <3>1. req[s].kind # "none" /\ Effect(s, backend)
        BY <1>2, <2>2 DEF Label, Progress
      <3>2. Effect(s, backend)'
        BY <1>1, <1>2, <1>5, <3>1, EffectStable
      <3>3. QED
        BY <1>1, <1>2, <2>2, <3>2 DEF Progress
    <2>3. QED
      BY <1>1, <2>1, <2>2 DEF Progress
  <1>8. Ack(s)'
    <2>1. SUFFICES ASSUME resp[s] = "ok", served[s] \in Backends
                   PROVE  /\ Effect(s, served[s])'
                          /\ served[s] = "postgres" /\ corr[s] => s \in outbox'
      BY <1>1 DEF Ack, Effect
    <2>2. Effect(s, served[s]) /\ (served[s] = "postgres" /\ corr[s] => s \in outbox)
      BY <2>1 DEF IndInv, AckIsStored
    <2>3. req[s].kind # "none"
      BY <1>2, <2>1, ApiAssumption DEF Label
    <2>4. Effect(s, served[s])'
      BY <1>1, <1>2, <2>1, <2>2, <2>3, EffectStable DEF OwnStep, Tables
    <2>5. QED
      BY <2>2, <2>4 DEF OwnStep
  <1>9. QED
    BY <1>3, <1>4, <1>7, <1>8

\* A step of r keeps the invariant if it keeps r's own part of it.
LEMMA Assemble ==
    ASSUME IndInv, TypeOK', NEW r \in Requests, OwnStep(r), InFlight(r),
           Label(r)', ServedNow(r)', Progress(r)', Ack(r)',
           pc'[r] # "insert_task",
           r \in outbox' => Queued(r)' /\ Effect(r, "postgres")'
    PROVE  IndInv'
  <1>1. TypeOK /\ req' = req /\ Tables(r)
    BY DEF IndInv, OwnStep
  <1>2. \A s \in Requests : Label(s)' /\ ServedNow(s)' /\ Progress(s)' /\ Ack(s)'
    BY OthersKeep
  <1>3. UniqueTasks'
    BY <1>1 DEF IndInv, UniqueTasks
  <1>4. Created'
    <2>1. SUFFICES ASSUME NEW b \in Backends, NEW t \in Tasks, tasks'[b][t] # "absent"
                   PROVE  \E s \in Requests : /\ req[s].kind = "submit_task"
                                              /\ req[s].task = t
                                              /\ pc'[s] # "insert_task"
      BY <1>1 DEF Created
    <2>2. CASE tasks[b][t] = "absent"
      BY <1>1, <2>1, <2>2 DEF Tables
    <2>3. CASE tasks[b][t] # "absent"
      <3>1. PICK s \in Requests : /\ req[s].kind = "submit_task"
                                  /\ req[s].task = t
                                  /\ pc[s] # "insert_task"
        BY <2>3 DEF IndInv, Created
      <3>2. pc'[s] # "insert_task"
        BY <3>1 DEF OwnStep
      <3>3. QED
        BY <3>1, <3>2
    <2>4. QED
      BY <2>2, <2>3
  <1>5. \A s \in outbox' : s \in Requests /\ Queued(s)' /\ Effect(s, "postgres")'
    <2>1. SUFFICES ASSUME NEW s \in outbox \ {r}
                   PROVE  s \in Requests /\ Queued(s)' /\ Effect(s, "postgres")'
      BY DEF OwnStep
    <2>2. s \in Requests /\ Queued(s) /\ Effect(s, "postgres")
      BY <1>1 DEF IndInv, OutboxHasSubject, TypeOK
    <2>3. Queued(s)'
      BY <1>1, <2>2 DEF OwnStep, Queued, Valid
    <2>4. Effect(s, "postgres")'
      BY <1>1, <2>2, EffectStable DEF Queued, Tables, Backends
    <2>5. QED
      BY <2>2, <2>3, <2>4
  <1>6. AckIsStored'
    BY <1>2 DEF AckIsStored, Ack
  <1>7. TaskOfResultCompleted'
    <2>1. SUFFICES ASSUME NEW b \in Backends
                   PROVE  /\ \A x \in bids'[b] : tasks'[b][x.task] # "absent"
                          /\ \A x \in results'[b] : tasks'[b][x.task] = "completed"
      BY DEF TaskOfResultCompleted
    <2>2. Grows(b) /\ TaskOfResultCompleted
      BY <1>1 DEF Tables, IndInv
    <2>3. \A x \in bids[b] \cup results[b] : x.task \in Tasks
      BY <1>1 DEF TypeOK, Stored
    <2>4. ASSUME NEW x \in bids'[b]
          PROVE  tasks'[b][x.task] # "absent"
      <3>1. CASE x \in bids[b]
        BY <2>2, <2>3, <3>1 DEF Grows, TaskOfResultCompleted
      <3>2. QED
        BY <1>1, <3>1 DEF Tables
    <2>5. ASSUME NEW x \in results'[b]
          PROVE  tasks'[b][x.task] = "completed"
      <3>1. CASE x \in results[b]
        BY <2>2, <2>3, <3>1 DEF Grows, TaskOfResultCompleted
      <3>2. QED
        BY <1>1, <3>1 DEF Tables
    <2>6. QED
      BY <2>4, <2>5
  <1>8. QED
    BY <1>2, <1>3, <1>4, <1>5, <1>6, <1>7 DEF IndInv, OutboxHasSubject

-----------------------------------------------------------------------------
(* What the storage calls do to the tables.                                 *)

\* The tables stay as they are.
LEMMA TablesSame ==
    ASSUME TypeOK, NEW r \in Requests, UNCHANGED <<agents, tasks, bids, results>>
    PROVE  Tables(r)
  BY DEF TypeOK, Tables, Grows

\* storage.register_agent
LEMMA TablesAgent ==
    ASSUME TypeOK, NEW r \in Requests, req[r] \in Request, req[r].kind = "register_agent",
           agents' = [agents EXCEPT ![backend] = @ \cup {req[r].agent}],
           UNCHANGED <<tasks, bids, results, req, backend>>
    PROVE  Tables(r) /\ Effect(r, backend)'
  <1>1. req[r].agent \in Agents /\ backend \in Backends
    BY RequestShape DEF TypeOK
  <1>2. Effect(r, backend)'
    BY <1>1 DEF TypeOK, Effect
  <1>3. agents' \in [Backends -> SUBSET Agents]
    BY <1>1 DEF TypeOK
  <1>4. \A b \in Backends : agents[b] \subseteq agents'[b]
    BY <1>1 DEF TypeOK
  <1>5. QED
    BY <1>2, <1>3, <1>4 DEF TypeOK, Tables, Grows

\* The task to be inserted is new, for its UUID is nobody else's.
LEMMA NewTask ==
    ASSUME IndInv, NEW r \in Requests, req[r] \in Request, pc[r] = "insert_task"
    PROVE  /\ req[r].kind = "submit_task" /\ req[r].task \in Tasks /\ backend \in Backends
           /\ tasks[backend][req[r].task] = "absent"
  <1>1. req[r].kind = "submit_task" /\ req[r].task \in Tasks /\ backend \in Backends
    BY RequestShape DEF IndInv, Label, TypeOK
  <1>2. \A s \in Requests : (req[s].kind = "submit_task" /\ req[s].task = req[r].task) => s = r
    BY <1>1 DEF IndInv, UniqueTasks
  <1>3. QED
    BY <1>1, <1>2 DEF IndInv, Created

\* storage.insert_task
LEMMA TablesTask ==
    ASSUME IndInv, NEW r \in Requests, req[r] \in Request, pc[r] = "insert_task",
           SetTask(r, "pending"), UNCHANGED <<agents, bids, results, req, backend>>
    PROVE  Tables(r) /\ Effect(r, backend)'
  <1>1. TypeOK
    BY DEF IndInv
  <1>2. /\ req[r].kind = "submit_task" /\ req[r].task \in Tasks /\ backend \in Backends
        /\ tasks[backend][req[r].task] = "absent"
    BY NewTask
  <1>3. /\ tasks' \in [Backends -> [Tasks -> Status]]
        /\ tasks'[backend][req[r].task] = "pending"
        /\ \A b \in Backends, t \in Tasks :
              (b # backend \/ t # req[r].task) => tasks'[b][t] = tasks[b][t]
    BY <1>1, <1>2 DEF TypeOK, SetTask, Status
  <1>4. QED
    BY <1>1, <1>2, <1>3 DEF TypeOK, Tables, Grows, Effect

\* storage.upsert_task
LEMMA TablesUpsert ==
    ASSUME IndInv, NEW r \in Requests, req[r] \in Request, pc[r] = "upsert_task",
           SetTask(r, "completed"), UNCHANGED <<agents, bids, results, req, backend>>
    PROVE  Tables(r) /\ tasks'[backend][req[r].task] = "completed"
  <1>1. TypeOK /\ Label(r) /\ Progress(r)
    BY DEF IndInv
  <1>2. req[r].task \in Tasks /\ backend \in Backends /\ tasks[backend][req[r].task] # "absent"
    BY <1>1, RequestShape DEF Label, TypeOK, Progress
  <1>3. /\ tasks' \in [Backends -> [Tasks -> Status]]
        /\ tasks'[backend][req[r].task] = "completed"
        /\ \A b \in Backends, t \in Tasks :
              (b # backend \/ t # req[r].task) => tasks'[b][t] = tasks[b][t]
    BY <1>1, <1>2 DEF TypeOK, SetTask, Status
  <1>4. QED
    BY <1>1, <1>2, <1>3 DEF TypeOK, Tables, Grows

\* storage.insert_bid
LEMMA TablesBid ==
    ASSUME IndInv, NEW r \in Requests, req[r] \in Request, pc[r] = "insert_bid",
           AddBid(r), UNCHANGED <<agents, tasks, results, req, backend>>
    PROVE  Tables(r) /\ Effect(r, backend)'
  <1>1. TypeOK /\ Label(r) /\ Progress(r)
    BY DEF IndInv
  <1>2. /\ req[r].kind = "submit_bid" /\ backend \in Backends
        /\ tasks[backend][req[r].task] # "absent"
    BY <1>1 DEF Label, TypeOK, Progress
  <1>3. Row(r) \in Stored /\ Row(r).task = req[r].task
    BY <1>2, RequestShape DEF Row, Stored
  <1>4. /\ bids' \in [Backends -> SUBSET Stored]
        /\ bids'[backend] = bids[backend] \cup {Row(r)}
        /\ \A b \in Backends : b # backend => bids'[b] = bids[b]
    BY <1>1, <1>2, <1>3 DEF TypeOK, AddBid
  <1>5. Effect(r, backend)'
    BY <1>2, <1>4 DEF Effect, Row
  <1>6. QED
    BY <1>1, <1>2, <1>3, <1>4, <1>5 DEF TypeOK, Tables, Grows

\* storage.insert_result
LEMMA TablesResult ==
    ASSUME IndInv, NEW r \in Requests, req[r] \in Request, pc[r] = "insert_result",
           results' = [results EXCEPT ![backend] =
                    {s \in @ : backend = "memory" \/ s.task # req[r].task} \cup {Row(r)}],
           UNCHANGED <<agents, tasks, bids, req, backend>>
    PROVE  Tables(r) /\ Effect(r, backend)'
  <1>1. TypeOK /\ Label(r) /\ Progress(r)
    BY DEF IndInv
  <1>2. /\ req[r].kind \in {"submit_result", "execute_task_local"} /\ backend \in Backends
        /\ tasks[backend][req[r].task] = "completed"
    BY <1>1 DEF Label, TypeOK, Progress
  <1>3. Row(r) \in Stored /\ Row(r).task = req[r].task
    BY <1>2, RequestShape DEF Row, Stored
  <1>4. /\ results' \in [Backends -> SUBSET Stored]
        /\ results'[backend] = {s \in results[backend] :
                backend = "memory" \/ s.task # req[r].task} \cup {Row(r)}
        /\ \A b \in Backends : b # backend => results'[b] = results[b]
    BY <1>1, <1>2, <1>3 DEF TypeOK
  <1>5. Row(r) \in results'[backend]
    BY <1>4
  <1>6. \A s \in results[backend] : \E x \in results'[backend] : x.task = s.task
    BY <1>3, <1>4, <1>5
  <1>7. Effect(r, backend)'
    BY <1>2, <1>3, <1>5 DEF Effect
  <1>8. \A b \in Backends : Grows(b)
    BY <1>1, <1>4, <1>6 DEF Grows
  <1>9. QED
    BY <1>1, <1>2, <1>3, <1>4, <1>7, <1>8 DEF TypeOK, Tables

-----------------------------------------------------------------------------
(* The two ways a handler's step ends.                                      *)

\* What is known of a request whose handler runs.
LEMMA Running ==
    ASSUME IndInv, NEW r \in Requests, InFlight(r)
    PROVE  /\ TypeOK /\ Label(r) /\ Progress(r) /\ r \notin outbox
           /\ req[r].kind # "none" /\ req[r] \in Request
           /\ served[r] = backend /\ backend \in Backends /\ resp[r] = None
  <1>1. TypeOK /\ Label(r) /\ Progress(r) /\ ServedNow(r)
    BY DEF IndInv
  <1>2. req[r].kind # "none" /\ resp[r] = None /\ served[r] = backend
    BY <1>1 DEF Label, ServedNow, InFlight
  <1>3. r \notin outbox
    BY DEF IndInv, Queued, InFlight
  <1>4. QED
    BY <1>1, <1>2, <1>3 DEF TypeOK, NoRequest

\* It goes on to the next call, or is dropped.
LEMMA GoesOn ==
    ASSUME IndInv, NEW r \in Requests, InFlight(r), Tables(r),
           UNCHANGED <<processVars, req, outbox>>,
           snapshot' \in [Requests -> Status], faults' \in Nat,
           NEW l \in {"insert_bid", "upsert_task", "insert_result",
                      "record_outbound_extrinsic", "dropped"},
           Goto(r, l),
           l = "insert_bid" => req[r].kind = "submit_bid",
           l \in {"upsert_task", "insert_result"} =>
                req[r].kind \in {"submit_result", "execute_task_local"},
           l = "record_outbound_extrinsic" => req[r].kind # "execute_task_local",
           Progress(r)'
    PROVE  IndInv'
  <1>1. /\ TypeOK /\ req[r].kind # "none" /\ served[r] = backend /\ resp[r] = None
        /\ r \notin outbox
    BY Running
  <1>2. /\ pc' \in [Requests -> PC] /\ pc'[r] = l
        /\ \A s \in Requests \ {r} : pc'[s] = pc[s]
        /\ UNCHANGED <<resp, corr>>
    BY <1>1 DEF Goto, TypeOK, PC
  <1>3. TypeOK'
    BY <1>1, <1>2 DEF TypeOK, Tables, processVars
  <1>4. OwnStep(r)
    BY <1>2 DEF OwnStep, processVars
  <1>5. Label(r)'
    BY <1>1, <1>2 DEF Label
  <1>6. ServedNow(r)'
    BY <1>1 DEF ServedNow, processVars
  <1>7. Ack(r)'
    BY <1>1, <1>2, ApiAssumption DEF Ack
  <1>8. QED
    BY <1>1, <1>2, <1>3, <1>4, <1>5, <1>6, <1>7, Assemble

\* It returns.
LEMMA Answers ==
    ASSUME IndInv, NEW r \in Requests, InFlight(r), Tables(r),
           UNCHANGED <<processVars, req>>,
           outbox \subseteq outbox', outbox' \subseteq outbox \cup {r},
           snapshot' \in [Requests -> Status], faults' \in Nat,
           NEW w \in {"ok", "error"}, NEW c \in BOOLEAN, Answer(r, w, c),
           w = "ok" => Effect(r, backend)' /\ (backend = "postgres" /\ c => r \in outbox'),
           r \in outbox' => /\ backend = "postgres" /\ Effect(r, backend)' /\ Valid(r)
                            /\ req[r].kind # "execute_task_local"
                            /\ req[r].kind = "submit_task" => req[r].budget < U64_SIZE
    PROVE  IndInv'
  <1>1. /\ TypeOK /\ req[r].kind # "none" /\ served[r] = backend /\ resp[r] = None
        /\ backend \in Backends
    BY Running
  <1>2. /\ pc' \in [Requests -> PC] /\ pc'[r] = "done"
        /\ resp' \in [Requests -> {None, "ok", "error"}] /\ resp'[r] = w
        /\ corr' \in [Requests -> BOOLEAN] /\ corr'[r] = c
        /\ \A s \in Requests \ {r} : pc'[s] = pc[s] /\ resp'[s] = resp[s] /\ corr'[s] = corr[s]
    BY <1>1 DEF Answer, TypeOK, PC
  <1>3. TypeOK'
    BY <1>1, <1>2 DEF TypeOK, Tables, processVars
  <1>4. OwnStep(r)
    BY <1>2 DEF OwnStep, processVars
  <1>5. Label(r)'
    BY <1>1, <1>2 DEF Label
  <1>6. ServedNow(r)'
    BY <1>2 DEF ServedNow, InFlight
  <1>7. Progress(r)'
    BY <1>2 DEF Progress
  <1>8. backend' = backend /\ served'[r] = backend
    BY <1>1 DEF processVars
  <1>9. Ack(r)'
    <2>1. CASE w = "ok"
      BY <1>1, <1>2, <1>8, <2>1 DEF Ack, Effect
    <2>2. CASE w = "error"
      BY <1>2, <2>2 DEF Ack
    <2>3. QED
      BY <2>1, <2>2
  <1>10. r \in outbox' => Queued(r)' /\ Effect(r, "postgres")'
    BY <1>1, <1>2, <1>8 DEF Queued, Valid
  <1>11. QED
    BY <1>2, <1>3, <1>4, <1>5, <1>6, <1>7, <1>9, <1>10, Assemble

-----------------------------------------------------------------------------
(* One lemma per action.                                                    *)

LEMMA RegisterAgentInv ==
    ASSUME IndInv, NEW r \in Requests, RegisterAgent(r)
    PROVE  IndInv'
  <1>1. InFlight(r) /\ pc[r] = "register_agent"
    BY DEF RegisterAgent, InFlight
  <1>2. TypeOK /\ req[r] \in Request /\ req[r].kind = "register_agent"
    BY <1>1, Running DEF Label
  <1>3. Tables(r) /\ Effect(r, backend)'
    BY <1>2, TablesAgent DEF RegisterAgent, processVars
  <1>4. Progress(r)'
    BY <1>2, <1>3 DEF RegisterAgent, Goto, Progress, TypeOK, processVars
  <1>5. QED
    BY <1>1, <1>2, <1>3, <1>4, GoesOn DEF RegisterAgent, TypeOK

LEMMA InsertTaskInv ==
    ASSUME IndInv, NEW r \in Requests, InsertTask(r)
    PROVE  IndInv'
  <1>1. InFlight(r) /\ pc[r] = "insert_task"
    BY DEF InsertTask, InFlight
  <1>2. /\ TypeOK /\ req[r] \in Request /\ req[r].kind = "submit_task" /\ r \notin outbox
        /\ req[r].budget \in Nat
    BY <1>1, Running, RequestShape DEF Label
  <1>3. CASE backend = "postgres" /\ req[r].budget >= I64_SIZE
    <2>1. Tables(r)
      BY <1>2, <1>3, TablesSame DEF InsertTask
    <2>2. QED
      BY <1>1, <1>2, <1>3, <2>1, Answers DEF InsertTask, TypeOK
  <1>4. CASE ~(backend = "postgres" /\ req[r].budget >= I64_SIZE)
    <2>1. Tables(r) /\ Effect(r, backend)'
      BY <1>1, <1>2, <1>4, TablesTask DEF InsertTask, processVars
    <2>2. CASE req[r].budget < U64_SIZE
      <3>1. Goto(r, "record_outbound_extrinsic")
        BY <1>4, <2>2 DEF InsertTask
      <3>2. Progress(r)'
        BY <1>2, <2>1, <2>2, <3>1 DEF InsertTask, Goto, Progress, TypeOK, processVars
      <3>3. QED
        BY <1>1, <1>2, <2>1, <3>1, <3>2, GoesOn DEF InsertTask, TypeOK
    <2>3. CASE ~(req[r].budget < U64_SIZE)
      <3>1. Goto(r, "dropped")
        BY <1>4, <2>3 DEF InsertTask
      <3>2. Progress(r)'
        BY <1>2, <3>1 DEF Goto, Progress, TypeOK
      <3>3. QED
        BY <1>1, <1>2, <2>1, <3>1, <3>2, GoesOn DEF InsertTask, TypeOK
    <2>4. QED
      BY <2>2, <2>3
  <1>5. QED
    BY <1>3, <1>4

LEMMA GetTaskInv ==
    ASSUME IndInv, NEW r \in Requests, GetTask(r)
    PROVE  IndInv'
  <1>1. InFlight(r) /\ pc[r] = "get_task"
    BY DEF GetTask, InFlight
  <1>2. /\ TypeOK /\ req[r] \in Request /\ r \notin outbox /\ backend \in Backends
        /\ req[r].kind \in {"submit_bid", "submit_result", "execute_task_local"}
        /\ req[r].task \in Tasks
    BY <1>1, Running, RequestShape DEF Label
  <1>3. Tables(r)
    BY <1>2, TablesSame DEF GetTask, tableVars
  <1>4. snapshot' \in [Requests -> Status]
    BY <1>2 DEF GetTask, TypeOK
  <1>5. CASE tasks[backend][req[r].task] = "absent" \/ req[r].body = "refused"
    BY <1>1, <1>2, <1>3, <1>4, <1>5, Answers DEF GetTask, TypeOK, tableVars
  <1>6. CASE ~(tasks[backend][req[r].task] = "absent" \/ req[r].body = "refused")
    <2> DEFINE l == IF req[r].kind = "submit_bid" THEN "insert_bid" ELSE "upsert_task"
    <2>1. Goto(r, l)
      BY <1>6 DEF GetTask
    <2>2. pc'[r] = l
      BY <1>2, <2>1 DEF Goto, TypeOK
    <2>3. Progress(r)'
      BY <1>6, <2>2 DEF GetTask, Progress, tableVars, processVars
    <2>4. QED
      BY <1>1, <1>2, <1>3, <1>4, <2>1, <2>3, GoesOn DEF GetTask, TypeOK, tableVars
  <1>7. QED
    BY <1>5, <1>6

LEMMA InsertBidInv ==
    ASSUME IndInv, NEW r \in Requests, InsertBid(r)
    PROVE  IndInv'
  <1>1. InFlight(r) /\ pc[r] = "insert_bid"
    BY DEF InsertBid, InFlight
  <1>2. TypeOK /\ req[r] \in Request /\ req[r].kind = "submit_bid" /\ r \notin outbox
    BY <1>1, Running DEF Label
  <1>3. CASE Duplicate(r)
    <2>1. Tables(r)
      BY <1>2, <1>3, TablesSame DEF InsertBid
    <2>2. QED
      BY <1>1, <1>2, <1>3, <2>1, Answers DEF InsertBid, TypeOK
  <1>4. CASE ~Duplicate(r)
    <2>1. Tables(r) /\ Effect(r, backend)'
      BY <1>1, <1>2, <1>4, TablesBid DEF InsertBid, processVars
    <2>2. Goto(r, "record_outbound_extrinsic")
      BY <1>4 DEF InsertBid
    <2>3. Progress(r)'
      BY <1>2, <2>1, <2>2 DEF InsertBid, Goto, Progress, TypeOK, processVars
    <2>4. QED
      BY <1>1, <1>2, <2>1, <2>2, <2>3, GoesOn DEF InsertBid, TypeOK
  <1>5. QED
    BY <1>3, <1>4

LEMMA UpsertTaskInv ==
    ASSUME IndInv, NEW r \in Requests, UpsertTask(r)
    PROVE  IndInv'
  <1>1. InFlight(r) /\ pc[r] = "upsert_task"
    BY DEF UpsertTask, InFlight
  <1>2. /\ TypeOK /\ req[r] \in Request
        /\ req[r].kind \in {"submit_result", "execute_task_local"}
    BY <1>1, Running DEF Label
  <1>3. Tables(r) /\ tasks'[backend][req[r].task] = "completed"
    BY <1>1, <1>2, TablesUpsert DEF UpsertTask, processVars
  <1>4. Progress(r)'
    BY <1>2, <1>3 DEF UpsertTask, Goto, Progress, TypeOK, processVars
  <1>5. QED
    BY <1>1, <1>2, <1>3, <1>4, GoesOn DEF UpsertTask, TypeOK

LEMMA InsertResultInv ==
    ASSUME IndInv, NEW r \in Requests, InsertResult(r)
    PROVE  IndInv'
  <1>1. InFlight(r) /\ pc[r] = "insert_result"
    BY DEF InsertResult, InFlight
  <1>2. /\ TypeOK /\ req[r] \in Request /\ r \notin outbox
        /\ req[r].kind \in {"submit_result", "execute_task_local"}
    BY <1>1, Running DEF Label
  <1>3. CASE ResultAccepted
    <2>1. Tables(r) /\ Effect(r, backend)'
      BY <1>1, <1>2, <1>3, TablesResult DEF InsertResult, processVars
    <2>2. CASE req[r].kind = "execute_task_local"
      BY <1>1, <1>2, <1>3, <2>1, <2>2, Answers DEF InsertResult, TypeOK
    <2>3. CASE req[r].kind = "submit_result"
      <3>1. Goto(r, "record_outbound_extrinsic")
        BY <1>3, <2>3 DEF InsertResult
      <3>2. Progress(r)'
        BY <1>2, <2>1, <2>3, <3>1 DEF InsertResult, Goto, Progress, TypeOK, processVars
      <3>3. QED
        BY <1>1, <1>2, <2>1, <2>3, <3>1, <3>2, GoesOn DEF InsertResult, TypeOK
    <2>4. QED
      BY <1>2, <2>2, <2>3
  <1>4. CASE ~ResultAccepted
    <2>1. Tables(r)
      BY <1>2, <1>4, TablesSame DEF InsertResult
    <2>2. QED
      BY <1>1, <1>2, <1>4, <2>1, Answers DEF InsertResult, TypeOK
  <1>5. QED
    BY <1>3, <1>4

LEMMA RecordOutboundExtrinsicInv ==
    ASSUME IndInv, NEW r \in Requests, RecordOutboundExtrinsic(r)
    PROVE  IndInv'
  <1>1. InFlight(r) /\ pc[r] = "record_outbound_extrinsic"
    BY DEF RecordOutboundExtrinsic, InFlight
  <1>2. /\ TypeOK /\ r \notin outbox /\ backend \in Backends
        /\ req[r].kind \notin {"none", "execute_task_local"}
        /\ req[r].kind = "submit_task" => req[r].budget < U64_SIZE
        /\ Effect(r, backend)
    BY <1>1, Running DEF Label, Progress
  <1>3. Tables(r)
    BY <1>2, TablesSame DEF RecordOutboundExtrinsic
  <1>4. Effect(r, backend)'
    BY <1>2 DEF RecordOutboundExtrinsic, Effect, Row, processVars
  <1>5. CASE Valid(r)
    BY <1>1, <1>2, <1>3, <1>4, <1>5, Answers DEF RecordOutboundExtrinsic, TypeOK
  <1>6. CASE ~Valid(r)
    <2>1. PICK w \in {"ok", "error"} : Answer(r, w, FALSE)
      BY <1>6 DEF RecordOutboundExtrinsic, EnqueueFailed
    <2>2. QED
      BY <1>1, <1>2, <1>3, <1>4, <1>6, <2>1, Answers DEF RecordOutboundExtrinsic, TypeOK
  <1>7. QED
    BY <1>5, <1>6

LEMMA ClientHangsUpInv ==
    ASSUME IndInv, NEW r \in Requests, ClientHangsUp(r)
    PROVE  IndInv'
  <1>1. InFlight(r) /\ Goto(r, "dropped")
    BY DEF ClientHangsUp, Goto
  <1>2. TypeOK
    BY DEF IndInv
  <1>3. Tables(r)
    BY <1>2, TablesSame DEF ClientHangsUp, tableVars
  <1>4. Progress(r)'
    BY <1>1, <1>2 DEF Goto, Progress, TypeOK
  <1>5. QED
    BY <1>1, <1>2, <1>3, <1>4, GoesOn DEF ClientHangsUp, TypeOK, tableVars

\* Whether or not the statement took effect.
LEMMA StatementFailsInv ==
    ASSUME IndInv, NEW r \in Requests, StatementFails(r)
    PROVE  IndInv'
  <1>1. InFlight(r) /\ backend = "postgres" /\ UNCHANGED <<processVars, req, snapshot>>
    BY DEF StatementFails
  <1>2. /\ TypeOK /\ r \notin outbox /\ backend \in Backends /\ req[r] \in Request
        /\ Label(r) /\ Progress(r)
    BY <1>1, Running
  <1>3. snapshot' \in [Requests -> Status] /\ faults' \in Nat
    BY <1>1, <1>2 DEF StatementFails, TypeOK
  <1>4. CASE pc[r] = "record_outbound_extrinsic"
    <2>1. /\ req[r].kind # "execute_task_local"
          /\ req[r].kind = "submit_task" => req[r].budget < U64_SIZE
          /\ Effect(r, backend)
      BY <1>2, <1>4 DEF Label, Progress
    <2>2. PICK w \in {"ok", "error"} : Answer(r, w, FALSE)
      BY <1>4 DEF StatementFails, EnqueueFailed
    <2>3. /\ UNCHANGED <<agents, tasks, bids, results>>
          /\ outbox \subseteq outbox' /\ outbox' \subseteq outbox \cup {r}
          /\ r \in outbox' => Valid(r)
      BY <1>2, <1>4 DEF StatementFails, tableVars
    <2>4. Tables(r)
      BY <1>2, <2>3, TablesSame
    <2>5. Effect(r, backend)'
      BY <1>1, <2>1, <2>3 DEF Effect, Row, processVars
    <2>6. QED
      BY <1>1, <1>2, <1>3, <2>1, <2>2, <2>3, <2>4, <2>5, Answers
  <1>5. CASE pc[r] # "record_outbound_extrinsic"
    <2>1. Answer(r, "error", FALSE) /\ UNCHANGED outbox
      BY <1>5 DEF StatementFails, tableVars
    <2>2. Tables(r)
      <3>1. CASE UNCHANGED tableVars
        BY <1>2, <3>1, TablesSame DEF tableVars
      <3>2. CASE /\ pc[r] = "register_agent"
                 /\ agents' = [agents EXCEPT ![backend] = @ \cup {req[r].agent}]
                 /\ UNCHANGED <<tasks, bids, results, outbox>>
        BY <1>1, <1>2, <3>2, TablesAgent DEF Label, processVars
      <3>3. CASE /\ pc[r] = "insert_task"
                 /\ SetTask(r, "pending")
                 /\ UNCHANGED <<agents, bids, results, outbox>>
        BY <1>1, <1>2, <3>3, TablesTask DEF processVars
      <3>4. CASE /\ pc[r] = "insert_bid"
                 /\ AddBid(r)
                 /\ UNCHANGED <<agents, tasks, results, outbox>>
        BY <1>1, <1>2, <3>4, TablesBid DEF processVars
      <3>5. CASE /\ pc[r] = "upsert_task"
                 /\ SetTask(r, "completed")
                 /\ UNCHANGED <<agents, bids, results, outbox>>
        BY <1>1, <1>2, <3>5, TablesUpsert DEF processVars
      <3>6. QED
        BY <1>5, <3>1, <3>2, <3>3, <3>4, <3>5 DEF StatementFails
    <2>3. QED
      BY <1>1, <1>2, <1>3, <2>1, <2>2, Answers
  <1>6. QED
    BY <1>4, <1>5

LEMMA ArriveInv ==
    ASSUME IndInv, NEW r \in Requests, NEW q \in Request, Arrive(r, q)
    PROVE  IndInv'
  <1>1. TypeOK /\ pc[r] = "new" /\ req[r].kind = "none" /\ resp[r] = None
    BY DEF IndInv, Arrive, Label
  <1>2. UNCHANGED <<agents, tasks, bids, results, outbox, backend, restarts, snapshot, faults>>
    BY DEF Arrive, tableVars
  <1>3. /\ req' \in [Requests -> Request \cup {NoRequest}] /\ req'[r] = q
        /\ served' \in [Requests -> Backends \cup {"gone", None}] /\ served'[r] = backend
        /\ \A s \in Requests \ {r} : req'[s] = req[s] /\ served'[s] = served[s]
    BY <1>1 DEF Arrive, TypeOK
  <1>4. q.kind \in {"register_agent", "submit_task", "submit_bid", "submit_result",
                    "execute_task_local", "request_faucet", "enqueue_outbox"}
    BY RequestShape
  <1>5. FirstCall(q.kind) \in PC \ {"new", "done", "dropped"}
    BY <1>4 DEF FirstCall, PC
  <1>6. /\ pc' \in [Requests -> PC] /\ pc'[r] \in {"done", FirstCall(q.kind)}
        /\ resp' \in [Requests -> {None, "ok", "error"}] /\ resp'[r] \in {None, "error"}
        /\ corr' \in [Requests -> BOOLEAN]
        /\ pc'[r] # "done" => resp'[r] = None
        /\ \A s \in Requests \ {r} : pc'[s] = pc[s] /\ resp'[s] = resp[s] /\ corr'[s] = corr[s]
    BY <1>1, <1>5 DEF Arrive, Answer, Goto, TypeOK, PC
  <1>7. TypeOK'
    BY <1>1, <1>2, <1>3, <1>6 DEF TypeOK
  <1>8. Label(r)'
    BY <1>3, <1>4, <1>6 DEF Label, FirstCall
  <1>9. ServedNow(r)'
    BY <1>2, <1>3 DEF ServedNow
  <1>10. Progress(r)'
    <2>1. pc'[r] \notin {"insert_bid", "upsert_task", "insert_result"}
      BY <1>4, <1>6 DEF FirstCall
    <2>2. pc'[r] = "record_outbound_extrinsic" => q.kind \in {"enqueue_outbox", "request_faucet"}
      BY <1>4, <1>6 DEF FirstCall
    <2>3. QED
      BY <1>3, <2>1, <2>2 DEF Progress, Effect
  <1>11. Ack(r)'
    BY <1>6, ApiAssumption DEF Ack
  <1>12. \A s \in Requests \ {r}, b \in Backends : Effect(s, b) => Effect(s, b)'
    BY <1>2, <1>3 DEF Effect, Row
  <1>13. ASSUME NEW s \in Requests \ {r}
         PROVE  Label(s)' /\ ServedNow(s)' /\ Progress(s)' /\ Ack(s)'
    <2>1. Label(s) /\ ServedNow(s) /\ Progress(s) /\ Ack(s) /\ backend \in Backends
      BY <1>1 DEF IndInv, AckIsStored, Ack, TypeOK
    <2>2. Label(s)'
      BY <1>3, <1>6, <2>1 DEF Label
    <2>3. ServedNow(s)'
      BY <1>2, <1>3, <1>6, <2>1 DEF ServedNow, InFlight
    <2>4. Effect(s, backend) => Effect(s, backend)'
      BY <1>2, <1>3 DEF Effect, Row
    <2>5. Progress(s)'
      BY <1>2, <1>3, <1>6, <2>1, <2>4 DEF Progress, Effect
    <2>6. Ack(s)'
      BY <1>2, <1>3, <1>6, <1>12, <2>1 DEF Ack, Effect
    <2>7. QED
      BY <2>2, <2>3, <2>5, <2>6
  <1>14. UniqueTasks'
    BY <1>3 DEF IndInv, UniqueTasks, Arrive, Fresh
  <1>15. Created'
    <2>1. SUFFICES ASSUME NEW b \in Backends, NEW t \in Tasks, tasks[b][t] # "absent"
                   PROVE  \E s \in Requests : /\ req'[s].kind = "submit_task"
                                              /\ req'[s].task = t
                                              /\ pc'[s] # "insert_task"
      BY <1>2 DEF Created
    <2>2. PICK s \in Requests : /\ req[s].kind = "submit_task"
                                /\ req[s].task = t
                                /\ pc[s] # "insert_task"
      BY <2>1 DEF IndInv, Created
    <2>3. s # r
      BY <1>1, <2>2
    <2>4. QED
      BY <1>3, <1>6, <2>2, <2>3
  <1>16. \A s \in outbox : s # r /\ s \in Requests /\ Queued(s) /\ Effect(s, "postgres")
    BY <1>1 DEF IndInv, Queued, OutboxHasSubject, TypeOK
  <1>17. \A s \in outbox' : Queued(s)' /\ Effect(s, "postgres")'
    <2>1. SUFFICES ASSUME NEW s \in outbox
                   PROVE  Queued(s)' /\ Effect(s, "postgres")'
      BY <1>2
    <2>2. Queued(s)'
      BY <1>3, <1>6, <1>16 DEF Queued, Valid
    <2>3. QED
      BY <1>12, <1>16, <2>2 DEF Backends
  <1>18. TaskOfResultCompleted'
    BY <1>2 DEF IndInv, TaskOfResultCompleted
  <1>19. AckIsStored'
    BY <1>11, <1>13 DEF AckIsStored, Ack
  <1>20. QED
    BY <1>7, <1>8, <1>9, <1>10, <1>13, <1>14, <1>15, <1>17, <1>18, <1>19
    DEF IndInv, OutboxHasSubject

LEMMA RestartInv ==
    ASSUME IndInv, Restart
    PROVE  IndInv'
  <1>1. TypeOK
    BY DEF IndInv
  <1>2. UNCHANGED <<outbox, req, snapshot, resp, corr, faults>> /\ backend' \in Backends
    BY DEF Restart
  <1>3. /\ pc' \in [Requests -> PC]
        /\ \A r \in Requests : pc'[r] = IF InFlight(r) THEN "dropped" ELSE pc[r]
    BY <1>1 DEF Restart, TypeOK, PC
  <1>4. /\ served' \in [Requests -> Backends \cup {"gone", None}]
        /\ \A r \in Requests : served'[r] \in {served[r], "gone"} /\ served'[r] # "memory"
    BY <1>1 DEF Restart, TypeOK
  <1>5. /\ agents' \in [Backends -> SUBSET Agents] /\ tasks' \in [Backends -> [Tasks -> Status]]
        /\ bids' \in [Backends -> SUBSET Stored] /\ results' \in [Backends -> SUBSET Stored]
    BY <1>1 DEF Restart, TypeOK, NoTasks, Status, Backends
  <1>6. /\ agents'["postgres"] = agents["postgres"] /\ tasks'["postgres"] = tasks["postgres"]
        /\ bids'["postgres"] = bids["postgres"] /\ results'["postgres"] = results["postgres"]
    BY <1>1 DEF Restart, TypeOK, Backends
  <1>7. /\ bids'["memory"] = {} /\ results'["memory"] = {}
        /\ \A t \in Tasks : tasks'["memory"][t] = "absent"
    BY <1>1 DEF Restart, TypeOK, Backends, NoTasks
  <1>8. TypeOK'
    BY <1>1, <1>2, <1>3, <1>4, <1>5 DEF TypeOK, Restart
  <1>9. \A r \in Requests : Effect(r, "postgres") => Effect(r, "postgres")'
    BY <1>2, <1>6 DEF Effect, Row
  <1>10. ASSUME NEW r \in Requests
         PROVE  Label(r)' /\ ServedNow(r)' /\ Progress(r)' /\ Ack(r)'
    <2>1. Label(r) /\ Ack(r)
      BY DEF IndInv, AckIsStored, Ack
    <2>2. pc'[r] \in {"new", "done", "dropped"}
      BY <1>3 DEF InFlight
    <2>3. Label(r)'
      BY <1>2, <1>3, <2>1, <2>2 DEF Label, InFlight
    <2>4. ServedNow(r)' /\ Progress(r)'
      BY <2>2 DEF ServedNow, InFlight, Progress
    <2>5. served'[r] \in Backends => served[r] = "postgres" /\ served'[r] = "postgres"
      BY <1>4 DEF Backends
    <2>6. Ack(r)'
      BY <1>2, <1>9, <2>1, <2>5 DEF Ack, Backends, Effect
    <2>7. QED
      BY <2>3, <2>4, <2>6
  <1>11. UniqueTasks'
    BY <1>2 DEF IndInv, UniqueTasks
  <1>12. Created'
    <2>1. SUFFICES ASSUME NEW t \in Tasks, tasks["postgres"][t] # "absent"
                   PROVE  \E s \in Requests : /\ req[s].kind = "submit_task"
                                              /\ req[s].task = t
                                              /\ pc'[s] # "insert_task"
      BY <1>2, <1>6, <1>7 DEF Created, Backends
    <2>2. QED
      BY <1>3, <2>1 DEF IndInv, Created, Backends
  <1>13. \A r \in outbox : r \in Requests /\ Queued(r) /\ Effect(r, "postgres")
    BY <1>1 DEF IndInv, OutboxHasSubject, TypeOK
  <1>14. \A r \in outbox' : Queued(r)' /\ Effect(r, "postgres")'
    <2>1. SUFFICES ASSUME NEW r \in outbox
                   PROVE  Queued(r)' /\ Effect(r, "postgres")'
      BY <1>2
    <2>2. Queued(r)'
      BY <1>2, <1>3, <1>13 DEF Queued, Valid, InFlight
    <2>3. QED
      BY <1>9, <1>13, <2>2
  <1>15. TaskOfResultCompleted'
    BY <1>6, <1>7 DEF IndInv, TaskOfResultCompleted, Backends
  <1>16. AckIsStored'
    BY <1>10 DEF AckIsStored, Ack
  <1>17. QED
    BY <1>8, <1>10, <1>11, <1>12, <1>14, <1>15, <1>16 DEF IndInv, OutboxHasSubject

-----------------------------------------------------------------------------
(* Invariance.                                                              *)

LEMMA InitInv == Init => IndInv
  <1>1. SUFFICES ASSUME Init
                 PROVE  IndInv
    OBVIOUS
  <1>2. TypeOK
    BY <1>1 DEF Init, TypeOK, NoTasks, Status, PC
  <1>3. \A r \in Requests : /\ pc[r] = "new" /\ req[r].kind = "none" /\ resp[r] = None
    BY <1>1 DEF Init, NoRequest
  <1>4. \A r \in Requests : Label(r) /\ ServedNow(r) /\ Progress(r)
    BY <1>3 DEF Label, ServedNow, Progress, InFlight
  <1>5. \A b \in Backends, t \in Tasks : tasks[b][t] = "absent"
    BY <1>1 DEF Init, NoTasks
  <1>6. UniqueTasks /\ Created
    BY <1>3, <1>5 DEF UniqueTasks, Created
  <1>7. AckIsStored
    BY <1>3, ApiAssumption DEF AckIsStored
  <1>8. TaskOfResultCompleted /\ outbox = {}
    BY <1>1 DEF Init, TaskOfResultCompleted
  <1>9. QED
    BY <1>2, <1>4, <1>6, <1>7, <1>8 DEF IndInv, OutboxHasSubject

\* Steps that leave everything as it is.
LEMMA StutterInv ==
    ASSUME IndInv, UNCHANGED vars
    PROVE  IndInv'
  <1>1. /\ UNCHANGED <<agents, tasks, bids, results, outbox>>
        /\ UNCHANGED <<backend, served, restarts, pc, req, snapshot, resp, corr, faults>>
    BY DEF vars, tableVars, processVars
  <1>2. QED
    BY <1>1 DEF IndInv, TypeOK, Label, ServedNow, InFlight, Progress, UniqueTasks, Created,
                Queued, Valid, AckIsStored, OutboxHasSubject, TaskOfResultCompleted, Effect, Row

\* Every step keeps the invariant.
LEMMA NextInv ==
    ASSUME IndInv, [Next]_vars
    PROVE  IndInv'
  <1>1. CASE \E r \in Requests : HandlerStep(r)
    BY <1>1, RegisterAgentInv, InsertTaskInv, GetTaskInv, InsertBidInv, UpsertTaskInv,
       InsertResultInv, RecordOutboundExtrinsicInv DEF HandlerStep
  <1>2. QED
    BY <1>1, ArriveInv, ClientHangsUpInv, StatementFailsInv, RestartInv, StutterInv DEF Next

\* The inductive invariant holds in every reachable state.
THEOREM Invariance == Spec => []IndInv
  BY InitInv, NextInv, PTL DEF Spec

-----------------------------------------------------------------------------
(* The theorems.                                                            *)

\* The handlers keep their tables and locals well typed.
THEOREM TypeCorrect == Spec => []TypeOK
  <1>1. IndInv => TypeOK
    BY DEF IndInv
  <1>2. QED
    BY <1>1, Invariance, PTL

\* What a client was told is stored is stored, ever after in Postgres and until the
\* process dies in memory, with its intent if it was given a correlation id.
THEOREM AckCorrect == Spec => []AckIsStored
  <1>1. IndInv => AckIsStored
    BY DEF IndInv
  <1>2. QED
    BY <1>1, Invariance, PTL

\* No row of the outbox without the agent, task, bid or result it is about.
THEOREM SubjectStored == Spec => []OutboxHasSubject
  <1>1. IndInv => OutboxHasSubject
    BY DEF IndInv
  <1>2. QED
    BY <1>1, Invariance, PTL

\* Bids and results have their task, and the task of a result is completed.
THEOREM ResultsHaveTask == Spec => []TaskOfResultCompleted
  <1>1. IndInv => TaskOfResultCompleted
    BY DEF IndInv
  <1>2. QED
    BY <1>1, Invariance, PTL

\* The rows of the four handlers can be turned into calls, whatever the width of a
\* u64 and whatever budgets are submitted.
THEOREM HandlersCorrect == Spec => []HandlersQueueCalls
  <1>1. IndInv => HandlersQueueCalls
    <2>1. SUFFICES ASSUME IndInv, NEW r \in outbox,
                          req[r].kind \notin {"enqueue_outbox", "request_faucet"}
                   PROVE  BuildsCall(CallOf(req[r]), PayloadOf(req[r]))
      BY DEF HandlersQueueCalls
    <2>2. Queued(r) /\ TypeOK /\ r \in Requests
      BY <2>1 DEF IndInv, TypeOK
    <2>3. req[r] \in Request
      BY <2>2 DEF Queued, TypeOK, NoRequest
    <2>4. QED
      BY <2>1, <2>2, <2>3, RequestShape, HandlerPayload DEF Queued, Valid
  <1>2. QED
    BY <1>1, Invariance, PTL

\* Any other row fails only on a number or an address.
THEOREM FailsOnNumber == Spec => []QueuedFailsOnNumber
  <1>1. IndInv => QueuedFailsOnNumber
    BY DecodeNearlyEnough DEF IndInv, Queued, Valid, QueuedFailsOnNumber
  <1>2. QED
    BY <1>1, Invariance, PTL

\* A write to tasks moves a status forwards, even one that rests on an old read.
LEMMA StatusStep ==
    ASSUME IndInv, [Next]_vars, NEW b \in Backends, NEW t \in Tasks,
           b = "postgres" \/ restarts' = restarts
    PROVE  /\ tasks[b][t] = "completed" => tasks'[b][t] = "completed"
           /\ tasks[b][t] = "pending" => tasks'[b][t] # "absent"
  <1>1. TypeOK
    BY DEF IndInv
  <1>2. CASE tasks' = tasks
    BY <1>2
  <1>3. ASSUME NEW r \in Requests, pc[r] = "insert_task", SetTask(r, "pending")
        PROVE  /\ tasks[b][t] = "completed" => tasks'[b][t] = "completed"
               /\ tasks[b][t] = "pending" => tasks'[b][t] # "absent"
    <2>1. InFlight(r)
      BY <1>3 DEF InFlight
    <2>2. req[r].task \in Tasks /\ backend \in Backends /\ tasks[backend][req[r].task] = "absent"
      BY <1>3, <2>1, Running, NewTask
    <2>3. (b # backend \/ t # req[r].task) => tasks'[b][t] = tasks[b][t]
      BY <1>1, <1>3, <2>2 DEF SetTask, TypeOK
    <2>4. QED
      BY <2>2, <2>3
  <1>4. ASSUME NEW r \in Requests, SetTask(r, "completed")
        PROVE  /\ tasks[b][t] = "completed" => tasks'[b][t] = "completed"
               /\ tasks[b][t] = "pending" => tasks'[b][t] # "absent"
    BY <1>1, <1>4 DEF SetTask, TypeOK
  <1>5. CASE Restart
    <2>1. restarts' # restarts
      BY <1>1, <1>5 DEF Restart, TypeOK
    <2>2. b = "postgres"
      BY <2>1
    <2>3. QED
      BY <1>1, <1>5, <2>2 DEF Restart, TypeOK, Backends
  <1>6. ASSUME NEW r \in Requests, HandlerStep(r)
        PROVE  \/ tasks' = tasks
               \/ pc[r] = "insert_task" /\ SetTask(r, "pending")
               \/ SetTask(r, "completed")
    BY <1>6 DEF HandlerStep, RegisterAgent, InsertTask, GetTask, InsertBid, UpsertTask,
                InsertResult, RecordOutboundExtrinsic, tableVars
  <1>7. ASSUME NEW r \in Requests, StatementFails(r)
        PROVE  \/ tasks' = tasks
               \/ pc[r] = "insert_task" /\ SetTask(r, "pending")
               \/ SetTask(r, "completed")
    BY <1>7 DEF StatementFails, tableVars
  <1>8. CASE UNCHANGED vars
    BY <1>8 DEF vars, tableVars
  <1>9. CASE \E r \in Requests, q \in Request : Arrive(r, q)
    BY <1>9 DEF Arrive, tableVars
  <1>10. CASE \E r \in Requests : ClientHangsUp(r)
    BY <1>10 DEF ClientHangsUp, tableVars
  <1>11. QED
    BY <1>2, <1>3, <1>4, <1>5, <1>6, <1>7, <1>8, <1>9, <1>10 DEF Next

\* A completed task stays completed and a stored one stays stored.
THEOREM NoRegress == Spec => StatusNeverRegresses
  <1>1. IndInv /\ [Next]_vars =>
            [\A b \in Backends, t \in Tasks : (b = "postgres" \/ restarts' = restarts) =>
                /\ tasks[b][t] = "completed" => tasks'[b][t] = "completed"
                /\ tasks[b][t] = "pending" => tasks'[b][t] # "absent"]_vars
    BY StatusStep
  <1>2. QED
    BY <1>1, Invariance, PTL DEF Spec, StatusNeverRegresses

-----------------------------------------------------------------------------
(* Completed tasks without a result.                                        *)

\* What a step does to a request that has not been told of a success: it stays
\* one, or its result is stored, or it was served by a memory that is gone.
LEMMA UnluckyStep ==
    ASSUME IndInv, [Next]_vars, NEW r \in Requests, Unlucky(r)
    PROVE  \/ Unlucky(r)' /\ req'[r] = req[r] /\ served'[r] = served[r]
           \/ \E s \in results'[served[r]] : s.task = req[r].task
           \/ Restart /\ served[r] = "memory"
  <1>1. TypeOK /\ Label(r) /\ pc[r] # "new"
    BY DEF IndInv, Label, Unlucky
  <1>2. pc[r] = "insert_result" \/ ~InFlight(r)
    BY <1>1, ApiAssumption DEF Unlucky, Label, InFlight
  <1>3. ASSUME NEW q \in Requests, q # r,
               HandlerStep(q) \/ ClientHangsUp(q) \/ StatementFails(q)
                    \/ \E x \in Request : Arrive(q, x)
        PROVE  Unlucky(r)' /\ req'[r] = req[r] /\ served'[r] = served[r]
    <2>1. /\ pc'[r] = pc[r] /\ resp'[r] = resp[r] /\ req'[r] = req[r]
          /\ served'[r] = served[r]
      BY <1>1, <1>3 DEF HandlerStep, RegisterAgent, InsertTask, GetTask, InsertBid,
         UpsertTask, InsertResult, RecordOutboundExtrinsic, ClientHangsUp, StatementFails,
         Arrive, EnqueueFailed, Goto, Answer, processVars, TypeOK
    <2>2. QED
      BY <2>1 DEF Unlucky
  <1>4. CASE HandlerStep(r)
    <2>1. InsertResult(r)
      BY <1>2, <1>4 DEF HandlerStep, RegisterAgent, InsertTask, GetTask, InsertBid,
         UpsertTask, RecordOutboundExtrinsic, InFlight
    <2>2. served[r] = backend /\ backend \in Backends
      BY <2>1, Running DEF InsertResult, InFlight
    <2>3. CASE ResultAccepted
      <3>1. Row(r) \in results'[backend]
        BY <1>1, <2>1, <2>2, <2>3 DEF InsertResult, TypeOK
      <3>2. QED
        BY <2>2, <3>1 DEF Row
    <2>4. CASE ~ResultAccepted
      BY <1>1, <2>1, <2>4 DEF InsertResult, Answer, Unlucky, TypeOK, processVars
    <2>5. QED
      BY <2>3, <2>4
  <1>5. CASE ClientHangsUp(r)
    BY <1>1, <1>5 DEF ClientHangsUp, Unlucky, TypeOK, processVars
  <1>6. CASE StatementFails(r)
    <2>1. pc[r] = "insert_result"
      BY <1>2, <1>6 DEF StatementFails
    <2>2. QED
      BY <1>1, <1>6, <2>1 DEF StatementFails, Answer, Unlucky, TypeOK, processVars
  <1>7. CASE Restart /\ served[r] # "memory"
    BY <1>1, <1>7 DEF Restart, Unlucky, InFlight, TypeOK
  <1>8. ~\E x \in Request : Arrive(r, x)
    BY <1>1 DEF Arrive
  <1>9. CASE UNCHANGED vars
    BY <1>9 DEF vars, processVars, Unlucky
  <1>10. QED
    BY <1>3, <1>4, <1>5, <1>6, <1>7, <1>8, <1>9 DEF Next

\* A task that has a result keeps one, but for the loss of the memory.
LEMMA ResultStays ==
    ASSUME IndInv, [Next]_vars, NEW b \in Backends, NEW t, NEW s \in results[b], s.task = t
    PROVE  (\E x \in results'[b] : x.task = t) \/ (Restart /\ b = "memory")
  <1>1. TypeOK
    BY DEF IndInv
  <1>2. CASE results' = results
    BY <1>2
  <1>3. ASSUME NEW r \in Requests, InsertResult(r)
        PROVE  \E x \in results'[b] : x.task = t
    <2>1. CASE results' = [results EXCEPT ![backend] =
                    {x \in @ : backend = "memory" \/ x.task # req[r].task} \cup {Row(r)}]
      <3>1. Row(r).task = req[r].task
        BY DEF Row
      <3>2. s \in results'[b] \/ (Row(r) \in results'[b] /\ t = req[r].task)
        BY <1>1, <2>1 DEF TypeOK
      <3>3. QED
        BY <3>1, <3>2
    <2>2. QED
      BY <1>2, <1>3, <2>1 DEF InsertResult
  <1>4. CASE Restart /\ b # "memory"
    BY <1>1, <1>4 DEF Restart, TypeOK
  <1>5. ASSUME NEW r \in Requests, HandlerStep(r), ~InsertResult(r)
        PROVE  results' = results
    BY <1>5 DEF HandlerStep, RegisterAgent, InsertTask, GetTask, InsertBid, UpsertTask,
                RecordOutboundExtrinsic, tableVars
  <1>6. CASE \/ UNCHANGED vars
             \/ \E r \in Requests : ClientHangsUp(r) \/ StatementFails(r)
             \/ \E r \in Requests, q \in Request : Arrive(r, q)
    BY <1>2, <1>6 DEF vars, ClientHangsUp, StatementFails, Arrive, tableVars
  <1>7. QED
    BY <1>2, <1>3, <1>4, <1>5, <1>6 DEF Next

\* Only upsert_task completes a task, and its request is Unlucky from then on.
LEMMA CompletedBy ==
    ASSUME IndInv, [Next]_vars, NEW b \in Backends, NEW t \in Tasks,
           tasks[b][t] # "completed", tasks'[b][t] = "completed"
    PROVE  \E r \in Requests : Unlucky(r)' /\ req'[r].task = t /\ served'[r] = b
  <1>1. TypeOK
    BY DEF IndInv
  <1>2. ASSUME NEW r \in Requests, pc[r] = "insert_task", SetTask(r, "pending")
        PROVE  FALSE
    <2>1. InFlight(r)
      BY <1>2 DEF InFlight
    <2>2. req[r].task \in Tasks /\ backend \in Backends
      BY <1>2, <2>1, Running, NewTask
    <2>3. QED
      BY <1>1, <1>2, <2>2 DEF SetTask, TypeOK
  <1>3. ASSUME NEW r \in Requests, UpsertTask(r) \/ StatementFails(r),
               pc[r] = "upsert_task", SetTask(r, "completed")
        PROVE  Unlucky(r)' /\ req'[r].task = t /\ served'[r] = b
    <2>1. InFlight(r)
      BY <1>3 DEF InFlight
    <2>2. /\ req[r].kind \in {"submit_result", "execute_task_local"}
          /\ served[r] = backend /\ backend \in Backends
      BY <1>3, <2>1, Running DEF Label
    <2>3. b = backend /\ t = req[r].task
      BY <1>1, <1>3, <2>2 DEF SetTask, TypeOK
    <2>4. req' = req /\ served' = served
      BY <1>3 DEF UpsertTask, StatementFails, processVars
    <2>5. pc'[r] = "insert_result" \/ resp'[r] = "error"
      BY <1>1, <1>3 DEF UpsertTask, StatementFails, Goto, Answer, TypeOK
    <2>6. QED
      BY <2>2, <2>3, <2>4, <2>5 DEF Unlucky
  <1>4. ~Restart
    BY <1>1 DEF Restart, NoTasks, TypeOK, Backends
  <1>5. ASSUME NEW r \in Requests, HandlerStep(r)
        PROVE  \/ pc[r] = "insert_task" /\ SetTask(r, "pending")
               \/ UpsertTask(r) /\ pc[r] = "upsert_task" /\ SetTask(r, "completed")
    BY <1>5 DEF HandlerStep, RegisterAgent, InsertTask, GetTask, InsertBid, UpsertTask,
                InsertResult, RecordOutboundExtrinsic, tableVars
  <1>6. ASSUME NEW r \in Requests, StatementFails(r)
        PROVE  \/ pc[r] = "insert_task" /\ SetTask(r, "pending")
               \/ pc[r] = "upsert_task" /\ SetTask(r, "completed")
    BY <1>6 DEF StatementFails, tableVars
  <1>7. tasks' # tasks
    OBVIOUS
  <1>8. ~UNCHANGED vars
    BY <1>7 DEF vars, tableVars
  <1>9. ~\E r \in Requests : ClientHangsUp(r) \/ \E q \in Request : Arrive(r, q)
    BY <1>7 DEF ClientHangsUp, Arrive, tableVars
  <1>10. QED
    BY <1>2, <1>3, <1>4, <1>5, <1>6, <1>8, <1>9 DEF Next

\* A completed task has a result, or a request whose client knows it may not.
THEOREM UnbackedKnown == Spec => []UnbackedOnlyByFailure
  <1>1. Init => UnbackedOnlyByFailure
    BY DEF Init, UnbackedOnlyByFailure, NoTasks
  <1>2. IndInv /\ UnbackedOnlyByFailure /\ [Next]_vars => UnbackedOnlyByFailure'
    <2>1. SUFFICES ASSUME IndInv, UnbackedOnlyByFailure, [Next]_vars,
                          NEW b \in Backends, NEW t \in Tasks, tasks'[b][t] = "completed"
                   PROVE  \/ \E s \in results'[b] : s.task = t
                          \/ \E r \in Requests :
                                Unlucky(r)' /\ req'[r].task = t /\ served'[r] = b
      BY DEF UnbackedOnlyByFailure
    <2>2. CASE tasks[b][t] # "completed"
      BY <2>1, <2>2, CompletedBy
    <2>3. ~(Restart /\ b = "memory")
      BY <2>1 DEF Restart, NoTasks, IndInv, TypeOK, Backends
    <2>4. CASE \E s \in results[b] : s.task = t
      BY <2>1, <2>3, <2>4, ResultStays
    <2>5. CASE \E r \in Requests : Unlucky(r) /\ req[r].task = t /\ served[r] = b
      BY <2>1, <2>3, <2>5, UnluckyStep
    <2>6. QED
      BY <2>1, <2>2, <2>4, <2>5 DEF UnbackedOnlyByFailure
  <1>3. QED
    BY <1>1, <1>2, Invariance, PTL DEF Spec

-----------------------------------------------------------------------------
(* Postgres never stores a result.                                          *)

\* ON CONFLICT (task_id) names no unique key of results.
LEMMA ResultsRejected == backend = "postgres" => ~ResultAccepted
  BY DEF ResultAccepted, AcceptsInsert, UniqueKeys

\* On Postgres insert_result is rejected every time: no result is ever stored, and
\* no submit_result and no execute_task_local is answered ok.  What the client
\* sees is an error and a completed task.
THEOREM PostgresStoresNoResult ==
    Spec => [](/\ results["postgres"] = {}
               /\ \A r \in Requests :
                    (/\ served[r] = "postgres"
                     /\ req[r].kind \in {"submit_result", "execute_task_local"})
                        => resp[r] # "ok")
  <1> DEFINE Empty == results["postgres"] = {}
             NoAck == \A r \in Requests :
                        (/\ served[r] = "postgres"
                         /\ req[r].kind \in {"submit_result", "execute_task_local"})
                            => resp[r] # "ok"
  <1>1. Init => Empty
    BY DEF Init, Backends
  <1>2. IndInv /\ Empty /\ [Next]_vars => Empty'
    <2>1. SUFFICES ASSUME IndInv, Empty, [Next]_vars PROVE Empty'
      OBVIOUS
    <2>2. CASE results' = results
      BY <2>1, <2>2
    <2>3. ASSUME NEW r \in Requests, InsertResult(r) PROVE Empty'
      <3>1. CASE backend = "postgres"
        BY <2>2, <2>3, <3>1, ResultsRejected DEF InsertResult
      <3>2. CASE backend # "postgres"
        <4>1. results'["postgres"] = results["postgres"]
          BY <2>1, <2>3, <3>2 DEF InsertResult, IndInv, TypeOK, Backends
        <4>2. QED
          BY <2>1, <4>1
      <3>3. QED
        BY <3>1, <3>2
    <2>4. CASE Restart
      BY <2>1, <2>4 DEF Restart, IndInv, TypeOK, Backends
    <2>5. ASSUME NEW r \in Requests, HandlerStep(r), ~InsertResult(r)
          PROVE  results' = results
      BY <2>5 DEF HandlerStep, RegisterAgent, InsertTask, GetTask, InsertBid, UpsertTask,
                  RecordOutboundExtrinsic, tableVars
    <2>6. CASE \/ UNCHANGED vars
               \/ \E r \in Requests : ClientHangsUp(r) \/ StatementFails(r)
               \/ \E r \in Requests, q \in Request : Arrive(r, q)
      BY <2>2, <2>6 DEF vars, ClientHangsUp, StatementFails, Arrive, tableVars
    <2>7. QED
      BY <2>1, <2>2, <2>3, <2>4, <2>5, <2>6 DEF Next
  <1>3. IndInv /\ Empty => NoAck
    <2>1. SUFFICES ASSUME IndInv, Empty, NEW r \in Requests, served[r] = "postgres",
                          req[r].kind \in {"submit_result", "execute_task_local"},
                          resp[r] = "ok"
                   PROVE  FALSE
      OBVIOUS
    <2>2. Effect(r, "postgres")
      BY <2>1 DEF IndInv, AckIsStored, Backends
    <2>3. QED
      BY <2>1, <2>2 DEF Effect
  <1>4. QED
    BY <1>1, <1>2, <1>3, Invariance, PTL DEF Spec

=============================================================================
