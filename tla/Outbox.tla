------------------------------- MODULE Outbox -------------------------------
(***************************************************************************)
(* The transactional outbox of the orchestrator: the table                 *)
(* outbound_extrinsics, the workers that run chain::run_outbox against it  *)
(* and the Temporal chain they submit to.                                  *)
(*                                                                         *)
(* A worker opens a database transaction, locks the oldest pending row     *)
(* (FOR UPDATE SKIP LOCKED), submits an extrinsic, waits until the chain   *)
(* has finalized it, writes the outcome and commits.  The transaction is   *)
(* open, and the row locked, all that time.  Every orchestrator process    *)
(* runs one worker; several processes may share one database.              *)
(*                                                                         *)
(* The worker sleeps (poll interval, backoff) between iterations; time is  *)
(* not modelled, and the metrics counters, which only feed the logs and    *)
(* the Prometheus exporter, are left out.                                  *)
(***************************************************************************)
EXTENDS Integers

CONSTANTS
    Jobs,         \* correlation ids: fresh UUIDs, the primary key of the table
    Workers,      \* the outbox workers, one per orchestrator process
    Hashes,       \* extrinsic hashes; their number bounds the submissions
    MAX_RETRIES,  \* 5 in the code
    MaxFaults,    \* bound on the environment's faults (see Fault)
    None          \* SQL NULL, Rust None

ASSUME OutboxAssumption ==
    /\ MAX_RETRIES \in Nat \ {0}
    /\ MaxFaults \in Nat
    /\ None \notin Jobs
    /\ None \notin Hashes

VARIABLES
    outbound,  \* outbound_extrinsics: correlation id -> row
    now,       \* the database clock behind created_at DEFAULT now()
    pc,        \* where each worker is in run_outbox
    tx,        \* the worker's open database transaction, which holds a row lock
    job,       \* local `job`: the row the worker fetched
    retry,     \* local `retry_count`, as read with the row
    hash,      \* local `hash`: of the extrinsic the worker is watching
    ext,       \* the chain: extrinsic hash -> the job it carries and its fate
    orphans,   \* history: accepted extrinsics abandoned before their outcome was known
    faults     \* number of faults so far

dbVars == <<outbound, now>>
workerVars == <<pc, tx, job, retry, hash>>
chainVars == <<ext, orphans>>
vars == <<outbound, now, pc, tx, job, retry, hash, ext, orphans, faults>>

(***************************************************************************)
(* Types.  The row is reduced to the columns the worker reads or writes;   *)
(* "absent" stands for a correlation id that has no row.                   *)
(***************************************************************************)
RowStatus == {"absent", "pending", "finalized", "failed", "dead"}

Row == [status      : RowStatus,
        retry_count : Nat,
        tx_hash     : Hashes \cup {None},
        created_at  : Nat]

NoRow == [status |-> "absent", retry_count |-> 0, tx_hash |-> None,
          created_at |-> 0]

\* connect: connect_client's loop; poll: fetching a job; submit and watch: the
\* two halves of submit_extrinsic; record_ok, record_err: its outcome is known;
\* exited: run_outbox returned Err or panicked, and nothing restarts the task
PC == {"connect", "poll", "submit", "watch", "record_ok", "record_err", "exited"}

InTx(w) == pc[w] \in {"submit", "watch", "record_ok", "record_err"}

Watching(w) == pc[w] \in {"watch", "record_ok"}

\* "none": no transaction; "open": the row is locked; "broken": the session was
\* lost, so the server rolled back and released the lock, and the worker, which
\* is awaiting the chain, does not know it yet
TxState == {"none", "open", "broken"}

\* An extrinsic in the pool is finalized with success or with a dispatch error,
\* or it leaves the pool (dropped, invalid, usurped)
ExtState == {"unused", "pool", "success", "reverted", "gone"}

NoExt == [job |-> None, state |-> "unused"]

TypeOK ==
    /\ outbound \in [Jobs -> Row]
    /\ now \in Nat
    /\ pc \in [Workers -> PC]
    /\ tx \in [Workers -> TxState]
    /\ job \in [Workers -> Jobs \cup {None}]
    /\ retry \in [Workers -> Nat]
    /\ hash \in [Workers -> Hashes \cup {None}]
    /\ ext \in [Hashes -> [job : Jobs \cup {None}, state : ExtState]]
    /\ orphans \in SUBSET Hashes
    /\ faults \in Nat

Init ==
    /\ outbound = [j \in Jobs |-> NoRow]
    /\ now = 0
    /\ pc = [w \in Workers |-> "connect"]
    /\ tx = [w \in Workers |-> "none"]
    /\ job = [w \in Workers |-> None]
    /\ retry = [w \in Workers |-> 0]
    /\ hash = [w \in Workers |-> None]
    /\ ext = [h \in Hashes |-> NoExt]
    /\ orphans = {}
    /\ faults = 0

-----------------------------------------------------------------------------
(* The API's side: record_outbound_extrinsic inserts a pending row.         *)
(* Every caller passes a fresh UUID, so ON CONFLICT (correlation_id) never  *)
(* finds a row.                                                             *)
RecordOutboundExtrinsic(j) ==
    /\ outbound[j].status = "absent"
    /\ outbound' = [outbound EXCEPT ![j] =
                        [NoRow EXCEPT !.status = "pending", !.created_at = now]]
    /\ now' = now + 1
    /\ UNCHANGED <<workerVars, chainVars, faults>>

-----------------------------------------------------------------------------
(* The worker.                                                              *)

\* connect_client: retries every 3s until the node answers
ConnectClient(w) ==
    /\ pc[w] = "connect"
    /\ pc' = [pc EXCEPT ![w] = "poll"]
    /\ UNCHANGED <<dbVars, tx, job, retry, hash, chainVars, faults>>

\* Mutant: the row is selected without FOR UPDATE
LockedNever(j) == FALSE

Locked(j) == \E w \in Workers : tx[w] = "open" /\ job[w] = j

\* Mutants: the worker also picks up failed rows; the status is not tested
AvailableFailed(j) == outbound[j].status \in {"pending", "failed"} /\ ~Locked(j)
AvailableAny(j) == outbound[j].status # "absent" /\ ~Locked(j)

\* The rows SELECT ... WHERE status = 'pending' ... SKIP LOCKED may return
Available(j) == outbound[j].status = "pending" /\ ~Locked(j)

\* The row ORDER BY created_at ASC LIMIT 1 picks
Oldest(j) ==
    /\ Available(j)
    /\ \A k \in Jobs : Available(k) => outbound[j].created_at <= outbound[k].created_at

\* BEGIN; SELECT ... ORDER BY created_at ASC FOR UPDATE SKIP LOCKED LIMIT 1
FetchJob(w) ==
    /\ pc[w] = "poll"
    /\ \E j \in Jobs :
        /\ Oldest(j)
        /\ job' = [job EXCEPT ![w] = j]
        /\ retry' = [retry EXCEPT ![w] = outbound[j].retry_count]
    /\ pc' = [pc EXCEPT ![w] = "submit"]
    /\ tx' = [tx EXCEPT ![w] = "open"]
    /\ UNCHANGED <<dbVars, hash, chainVars, faults>>

\* The node accepts an extrinsic that carries j; each has a hash of its own,
\* because the account nonce or the mortality checkpoint differs
Accept(h, j) ==
    /\ ext[h] = NoExt
    /\ ext' = [ext EXCEPT ![h] = [job |-> j, state |-> "pool"]]

\* sign_and_submit_then_watch_default returns: the extrinsic is in the pool
SubmitAccepted(w) ==
    /\ pc[w] = "submit"
    /\ \E h \in Hashes :
        /\ Accept(h, job[w])
        /\ hash' = [hash EXCEPT ![w] = h]
    /\ pc' = [pc EXCEPT ![w] = "watch"]
    /\ UNCHANGED <<dbVars, tx, job, retry, orphans, faults>>

\* submit_extrinsic fails before the node has accepted anything, with an error
\* is_connection_err does not recognise: a payload field is missing, the node
\* rejects the transaction
SubmitFails(w) ==
    /\ pc[w] = "submit"
    /\ pc' = [pc EXCEPT ![w] = "record_err"]
    /\ UNCHANGED <<dbVars, tx, job, retry, hash, chainVars, faults>>

\* Mutant: wait_for_in_block instead of wait_for_finalized_success
WatchInBlock(w) ==
    /\ pc[w] = "watch"
    /\ pc' = [pc EXCEPT ![w] = "record_ok"]
    /\ UNCHANGED <<dbVars, tx, job, retry, hash, chainVars, faults>>

\* wait_for_finalized_success returns Ok
WatchFinalized(w) ==
    /\ pc[w] = "watch"
    /\ ext[hash[w]].state = "success"
    /\ pc' = [pc EXCEPT ![w] = "record_ok"]
    /\ UNCHANGED <<dbVars, tx, job, retry, hash, chainVars, faults>>

\* Mutant: a timeout of the worker's own is taken for a failure
WatchTimesOut(w) ==
    /\ pc[w] = "watch"
    /\ pc' = [pc EXCEPT ![w] = "record_err"]
    /\ hash' = [hash EXCEPT ![w] = None]
    /\ UNCHANGED <<dbVars, tx, job, retry, chainVars, faults>>

\* wait_for_finalized_success returns an error: the dispatch failed, or the
\* extrinsic left the pool.  The code sets no timeout of its own.
WatchFails(w) ==
    /\ pc[w] = "watch"
    /\ ext[hash[w]].state \in {"reverted", "gone"}
    /\ pc' = [pc EXCEPT ![w] = "record_err"]
    /\ hash' = [hash EXCEPT ![w] = None]
    /\ UNCHANGED <<dbVars, tx, job, retry, chainVars, faults>>

\* Mutant: the transaction is neither committed nor rolled back
ReleaseLeaks(w, next) ==
    /\ pc' = [pc EXCEPT ![w] = next]
    /\ UNCHANGED <<tx, job, retry, hash>>

Release(w, next) ==
    /\ pc' = [pc EXCEPT ![w] = next]
    /\ tx' = [tx EXCEPT ![w] = "none"]
    /\ job' = [job EXCEPT ![w] = None]
    /\ retry' = [retry EXCEPT ![w] = 0]
    /\ hash' = [hash EXCEPT ![w] = None]

\* The extrinsic w was watching, if any, is abandoned
Orphan(w) == IF Watching(w) THEN orphans \cup {hash[w]} ELSE orphans

\* UPDATE ... SET status = 'finalized', retry_count + 1, tx_hash = $2
WriteFinalized(w) ==
    outbound' = [outbound EXCEPT
        ![job[w]].status = "finalized",
        ![job[w]].retry_count = @ + 1,
        ![job[w]].tx_hash = hash[w]]

\* Mutant: a failed row is reported with a status of its own
NextStatusRetrying(retry_count) ==
    IF retry_count + 1 > MAX_RETRIES THEN "dead" ELSE "retrying"

NextStatus(retry_count) ==
    IF retry_count + 1 > MAX_RETRIES THEN "dead" ELSE "failed"

\* UPDATE ... SET status = $3, retry_count + 1, last_error = $2
WriteFailure(w) ==
    outbound' = [outbound EXCEPT
        ![job[w]].status = NextStatus(retry[w]),
        ![job[w]].retry_count = @ + 1]

\* Mutant: the outcome is written by a statement outside the transaction
RecordOutsideTx(w) ==
    /\ pc[w] = "record_ok"
    /\ WriteFinalized(w)
    /\ Release(w, "poll")
    /\ UNCHANGED <<now, chainVars, faults>>

\* UPDATE and COMMIT of a successful submission; then sleep and poll again
RecordFinalized(w) ==
    /\ pc[w] = "record_ok"
    /\ tx[w] = "open"
    /\ WriteFinalized(w)
    /\ Release(w, "poll")
    /\ UNCHANGED <<now, chainVars, faults>>

\* UPDATE and COMMIT of a failed submission; then back off and poll again
RecordFailure(w) ==
    /\ pc[w] = "record_err"
    /\ tx[w] = "open"
    /\ WriteFailure(w)
    /\ Release(w, "poll")
    /\ UNCHANGED <<now, chainVars, faults>>

\* The UPDATE fails because the session is gone: `?` ends run_outbox
RecordOnBrokenSession(w) ==
    /\ pc[w] \in {"record_ok", "record_err"}
    /\ tx[w] = "broken"
    /\ Release(w, "exited")
    /\ orphans' = Orphan(w)
    /\ UNCHANGED <<dbVars, ext, faults>>

WorkerStep(w) ==
    \/ ConnectClient(w)
    \/ FetchJob(w)
    \/ SubmitAccepted(w)
    \/ SubmitFails(w)
    \/ WatchFinalized(w)
    \/ WatchFails(w)
    \/ RecordFinalized(w)
    \/ RecordFailure(w)
    \/ RecordOnBrokenSession(w)

-----------------------------------------------------------------------------
(* The chain (external): what the code in src/ relies on.                   *)

ChainStep(h) ==
    /\ ext[h].state = "pool"
    /\ \E s \in {"success", "reverted", "gone"} :
            ext' = [ext EXCEPT ![h].state = s]
    /\ UNCHANGED <<dbVars, workerVars, orphans, faults>>

-----------------------------------------------------------------------------
(* Faults.  Each counts against MaxFaults.                                  *)

Fault == faults < MaxFaults /\ faults' = faults + 1

\* is_connection_err: roll back, leave the job pending, reconnect.  When the
\* submission itself is cut off the node may have accepted it.  Rolling back a
\* broken session fails, and `?` ends the worker.
ConnectionError(w) ==
    /\ Fault
    /\ pc[w] \in {"submit", "watch"}
    /\ \/ /\ orphans' = Orphan(w)
          /\ UNCHANGED ext
       \/ /\ pc[w] = "submit"
          /\ \E h \in Hashes :
                /\ Accept(h, job[w])
                /\ orphans' = orphans \cup {h}
    /\ Release(w, IF tx[w] = "open" THEN "connect" ELSE "exited")
    /\ UNCHANGED dbVars

\* An error is_connection_err does not recognise hides the outcome: a request
\* timeout at submission, a finality timeout, a failure to fetch the events of
\* the finalized block.  The worker goes on to record a failure.
OutcomeUnknown(w) ==
    /\ Fault
    /\ \/ /\ pc[w] = "submit"
          /\ \E h \in Hashes :
                /\ Accept(h, job[w])
                /\ orphans' = orphans \cup {h}
       \/ /\ pc[w] = "watch"
          /\ orphans' = Orphan(w)
          /\ UNCHANGED ext
    /\ pc' = [pc EXCEPT ![w] = "record_err"]
    /\ hash' = [hash EXCEPT ![w] = None]
    /\ UNCHANGED <<dbVars, tx, job, retry>>

\* The database session of an open transaction is lost while the worker awaits
\* the chain
SessionLost(w) ==
    /\ Fault
    /\ tx[w] = "open"
    /\ tx' = [tx EXCEPT ![w] = "broken"]
    /\ UNCHANGED <<dbVars, pc, job, retry, hash, chainVars>>

\* A statement or the COMMIT fails and `?` ends run_outbox; or truncating the
\* error text at byte 512 panics inside a multi-byte character.  Either way the
\* transaction is dropped, which rolls it back.
WorkerExits(w) ==
    /\ Fault
    /\ pc[w] \in {"poll", "record_ok", "record_err"}
    /\ Release(w, "exited")
    /\ orphans' = Orphan(w)
    /\ UNCHANGED <<dbVars, ext>>

\* COMMIT takes effect but its reply is lost: the worker ends all the same
CommitReplyLost(w) ==
    /\ Fault
    /\ tx[w] = "open"
    /\ \/ pc[w] = "record_ok" /\ WriteFinalized(w)
       \/ pc[w] = "record_err" /\ WriteFailure(w)
    /\ Release(w, "exited")
    /\ UNCHANGED <<now, chainVars>>

\* The orchestrator process dies and is restarted (systemd, Restart=always)
Crash(w) ==
    /\ Fault
    /\ Release(w, "connect")
    /\ orphans' = Orphan(w)
    /\ UNCHANGED <<dbVars, ext>>

FaultStep(w) ==
    \/ ConnectionError(w)
    \/ OutcomeUnknown(w)
    \/ SessionLost(w)
    \/ WorkerExits(w)
    \/ CommitReplyLost(w)
    \/ Crash(w)

-----------------------------------------------------------------------------
Next ==
    \/ \E j \in Jobs : RecordOutboundExtrinsic(j)
    \/ \E w \in Workers : WorkerStep(w)
    \/ \E h \in Hashes : ChainStep(h)
    \/ \E w \in Workers : FaultStep(w)

Spec == Init /\ [][Next]_vars

\* A worker task that can run is run (tokio), and the chain decides the fate of
\* every extrinsic in its pool.  Clients and faults are not fair.
Fairness ==
    /\ \A w \in Workers : WF_vars(WorkerStep(w))
    /\ \A h \in Hashes : WF_vars(ChainStep(h))

FairSpec == Spec /\ Fairness

-----------------------------------------------------------------------------
(* Properties.                                                              *)

\* An extrinsic that has landed, or still may
Live(h) == ext[h].state \in {"pool", "success"}

\* Nobody will record what becomes of h: its worker gave it up, or is watching
\* it for a transaction the database has already rolled back
Detached(h) ==
    \/ h \in orphans
    \/ \E w \in Workers : Watching(w) /\ hash[w] = h /\ tx[w] = "broken"

\* A row is `finalized` only with the hash of an extrinsic that carries the
\* row's own job and that the chain finalized with success (the UPDATE of
\* run_outbox, whichever worker, crash or reconnection came before it).
FinalizedIsOnChain ==
    \A j \in Jobs : outbound[j].status = "finalized" =>
        /\ outbound[j].tx_hash \in Hashes
        /\ ext[outbound[j].tx_hash] = [job |-> j, state |-> "success"]

\* The chain never executes a job twice unless one of the two submissions was
\* abandoned by a connection error, a lost session, a crash or an error that
\* hides the outcome.  So FOR UPDATE SKIP LOCKED is enough to keep the workers
\* of several processes apart, and each abandoned attempt is what makes the
\* outbox at-least-once.
SingleSubmission ==
    \A g, h \in Hashes :
        (g # h /\ Live(g) /\ Live(h) /\ ext[g].job = ext[h].job) =>
            Detached(g) \/ Detached(h)

\* A row is marked `failed` while an extrinsic of its job lands only when that
\* extrinsic had been abandoned: otherwise the worker reports what it saw.
NoPhantomFailure ==
    \A h \in Hashes :
        (Live(h) /\ ~Detached(h)) => outbound[ext[h].job].status # "failed"

\* The retry machinery is never used: the worker selects `pending` rows only
\* and a failure makes the row `failed`, so no row is ever attempted to a
\* recorded outcome twice and none becomes `dead`, whatever MAX_RETRIES is.
RetriesUnused ==
    \A j \in Jobs :
        /\ outbound[j].status # "dead"
        /\ outbound[j].retry_count = IF outbound[j].status \in {"finalized", "failed"}
                                     THEN 1 ELSE 0

\* What a client has read as final stays: no step changes a row that is
\* finalized, failed or dead, not even the late write of a worker that lost its
\* session while another worker completed the row.
TerminalRows ==
    [][\A j \in Jobs : outbound[j].status \in {"finalized", "failed", "dead"} =>
            outbound'[j] = outbound[j]]_vars

\* What PendingResolved rests on: nobody waits for something nobody will do.  A
\* pending row can be fetched, or is locked by a worker that is in its
\* transaction; a worker that polls finds an oldest row if there is any; one that
\* watches has an extrinsic the chain knows; one that records has a transaction
\* to commit, or one whose loss it will notice.
NobodyStuck ==
    /\ \A j \in Jobs : outbound[j].status = "pending" =>
            Available(j) \/ \E w \in Workers : tx[w] = "open" /\ InTx(w) /\ job[w] = j
    /\ (\E j \in Jobs : Available(j)) => \E j \in Jobs : Oldest(j)
    /\ \A w \in Workers :
            /\ pc[w] = "watch" => hash[w] \in Hashes /\ ext[hash[w]].state # "unused"
            /\ pc[w] \in {"record_ok", "record_err"} => tx[w] # "none"

\* A pending row is brought to an outcome, unless every worker has ended with an
\* error that nothing restarts.
PendingResolved ==
    \A j \in Jobs :
        outbound[j].status = "pending" ~>
            \/ outbound[j].status \in {"finalized", "failed", "dead"}
            \/ \A w \in Workers : pc[w] = "exited"

-----------------------------------------------------------------------------
(* The inductive invariant behind the properties, in named parts.           *)

\* A transaction is open, or broken, exactly while a worker holds a job
TxShape ==
    \A w \in Workers :
        /\ tx[w] = "none" <=> ~InTx(w)
        /\ InTx(w) => job[w] \in Jobs /\ outbound[job[w]].status # "absent"

\* No two open transactions hold the same row
LockExclusive ==
    \A v, w \in Workers :
        (tx[v] = "open" /\ tx[w] = "open" /\ job[v] = job[w]) => v = w

\* A locked row is still pending and as it was when the worker read it
LockedIsPending ==
    \A w \in Workers : tx[w] = "open" =>
        /\ outbound[job[w]].status = "pending"
        /\ outbound[job[w]].retry_count = retry[w]

\* The extrinsic a worker watches carries the worker's job
WatchShape ==
    \A w \in Workers : Watching(w) =>
        /\ hash[w] \in Hashes
        /\ ext[hash[w]].job = job[w]
        /\ ext[hash[w]].state # "unused"
        /\ pc[w] = "record_ok" => ext[hash[w]].state = "success"

\* Every extrinsic carries a job that was enqueued
ExtShape ==
    \A h \in Hashes : ext[h].state # "unused" =>
        /\ ext[h].job \in Jobs
        /\ outbound[ext[h].job].status # "absent"

\* An extrinsic that may count is watched under a lock, recorded, or detached
Accounted ==
    \A h \in Hashes : Live(h) =>
        \/ Detached(h)
        \/ \E w \in Workers : tx[w] = "open" /\ Watching(w) /\ hash[w] = h
        \/ /\ outbound[ext[h].job].status = "finalized"
           /\ outbound[ext[h].job].tx_hash = h

IndInv ==
    /\ TypeOK
    /\ TxShape
    /\ LockExclusive
    /\ LockedIsPending
    /\ WatchShape
    /\ ExtShape
    /\ FinalizedIsOnChain
    /\ RetriesUnused
    /\ Accounted

-----------------------------------------------------------------------------
\* The README of the API: a failed submission is tried again and only after
\* MAX_RETRIES failures given up as `dead`.  The code violates it.
FailedIsRetried ==
    \A j \in Jobs : outbound[j].status = "failed" ~> outbound[j].status # "failed"

\* The outbox keeps the promise of OutboxAbs
Reported == [j \in Jobs |-> outbound[j].status]
Landed == {j \in Jobs : \E h \in Hashes : ext[h] = [job |-> j, state |-> "success"]}

Abs == INSTANCE OutboxAbs WITH reported <- Reported, landed <- Landed

\* The outbox, with its workers, faults and retries, implements OutboxAbs: each
\* step of the worker or the chain is a step a client can account for, or none.
ImplementsAbs == Abs!AbsSpec

=============================================================================
