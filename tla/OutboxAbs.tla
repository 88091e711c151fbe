------------------------------ MODULE OutboxAbs ------------------------------
(***************************************************************************)
(* What the outbox promises its clients, without workers, transactions,    *)
(* retries or faults: an intent that was enqueued is reported `finalized`  *)
(* or `failed` at most once and for good, and it is reported `finalized`   *)
(* only when an extrinsic that carries it has succeeded on the chain.      *)
(* That it is reported at all is PendingResolved of Outbox: this module    *)
(* states safety only.  The promise does not exclude that an intent        *)
(* reported `failed` lands as well: the outbox delivers at least once and  *)
(* its failure report is only what the worker observed.                    *)
(***************************************************************************)
CONSTANT Jobs

VARIABLES
    reported,  \* the status a client reads for each correlation id
    landed     \* the jobs some extrinsic has executed on the chain

absVars == <<reported, landed>>

AbsInit ==
    /\ reported = [j \in Jobs |-> "absent"]
    /\ landed = {}

Report(j, old, new) ==
    /\ reported[j] = old
    /\ reported' = [reported EXCEPT ![j] = new]
    /\ UNCHANGED landed

Enqueue(j) == Report(j, "absent", "pending")

\* Only what was enqueued lands, and it never un-lands
Land(j) ==
    /\ reported[j] # "absent"
    /\ landed' = landed \cup {j}
    /\ UNCHANGED reported

Finalize(j) == j \in landed /\ Report(j, "pending", "finalized")

Fail(j) == Report(j, "pending", "failed")

AbsNext == \E j \in Jobs : Enqueue(j) \/ Land(j) \/ Finalize(j) \/ Fail(j)

AbsSpec == AbsInit /\ [][AbsNext]_absVars

=============================================================================
