------------------------------- MODULE Schema -------------------------------
(***************************************************************************)
(* What the migrations of the orchestrator say about the statements the    *)
(* code sends: the columns and the unique keys of each table, and the type *)
(* of its id.  Postgres rejects a statement that names a column the table  *)
(* does not have, an ON CONFLICT target that is not a unique key, and text *)
(* bound to a UUID column.                                                 *)
(***************************************************************************)

\* Columns(table) is stated up to the columns some statement names
Columns(table) ==
    CASE table = "agents" ->
            {"id", "label", "created_at", "chain_agent_id", "account_address"}
      [] table = "tasks" ->
            {"id", "client_task_id", "requester_id", "description", "task_type",
             "input_base64", "max_budget", "deadline", "status", "created_at",
             "updated_at", "stored_json", "chain_task_id", "result_hash",
             "matched_agent"}
      [] table = "bids" ->
            {"id", "task_id", "agent_id", "value", "quality_score", "completion_time",
             "created_at", "stored_json"}
      [] table = "results" ->
            {"id", "task_id", "agent_id", "output_base64", "completed_at", "proof",
             "created_at", "stored_json", "chain_task_id"}

\* PRIMARY KEY and UNIQUE of the migrations, all of them applied
UniqueKeys(table) ==
    CASE table = "agents"  -> {{"id"}}
      [] table = "tasks"   -> {{"id"}}
      [] table = "bids"    -> {{"id"}, {"task_id", "agent_id"}}
      [] table = "results" -> {{"id"}, {"task_id", "agent_id"}}

\* The type of the id column
IdType(table) == IF table = "agents" THEN "text" ELSE "uuid"

\* Does Postgres accept an UPDATE of table that names these columns?
AcceptsUpdate(table, names) == names \subseteq Columns(table)

\* Does it accept an INSERT into table that names these columns, with ON CONFLICT
\* (target) and a Rust value of type bound for the id?
AcceptsInsert(table, names, target, bound) ==
    /\ names \subseteq Columns(table)
    /\ target \in UniqueKeys(table)
    /\ bound = IdType(table)

=============================================================================
