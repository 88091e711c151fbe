-------------------------- MODULE MCOrchestratorApi --------------------------
(* Instances of OrchestratorApi for TLC.                                    *)
EXTENDS OrchestratorApi, TLC

\* One request for each way a row may fare: it becomes a call, is refused, lacks a
\* number, has one that is too large
MCIntents ==
    {[call |-> "allocate_task", payload |-> [task_id |-> v]] :
        v \in {Absent, Number(1), Number(U64_SIZE)}}
    \cup {[call |-> "create_task",
           payload |-> [spec_hash |-> Text(TRUE, TRUE), budget |-> Number(1),
                        deadline |-> Number(1), verification_level |-> Text(TRUE, FALSE)]]}

\* Used for safety only
Symmetry == Permutations(Requests) \cup Permutations(Tasks) \cup Permutations(Agents)

=============================================================================
