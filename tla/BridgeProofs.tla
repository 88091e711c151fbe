---------------------------- MODULE BridgeProofs ----------------------------
(***************************************************************************)
(* Proofs about Bridge, for any number of jobs, workers, submissions and   *)
(* faults, and every batch size of the backfill.                           *)
(*                                                                         *)
(* The event handlers write outbound_extrinsics behind the outbox worker's *)
(* back.  They change only rows that have a hash, and such a row is        *)
(* finalized already, so Bridge implements Outbox and everything           *)
(* OutboxProofs shows still holds.  The ids the handlers write are then    *)
(* correct because a finalized row and a successful extrinsic are final.   *)
(***************************************************************************)
EXTENDS Bridge, OutboxProofs

\* No worker changes a row that is absent or finalized, nor the job or the
\* success of an extrinsic; a hash is written together with `finalized`
LEMMA WorkerFrame ==
    ASSUME IndInv, HashIsFinal, NEW w \in Workers, WorkerStep(w) \/ FaultStep(w)
    PROVE  /\ \A j \in Jobs : outbound[j].status \in {"absent", "finalized"}
                                => outbound'[j] = outbound[j]
           /\ \A j \in Jobs : outbound[j].status # "absent" => outbound'[j].status # "absent"
           /\ \A h \in Hashes : ext[h].state # "unused" => ext'[h] = ext[h]
           /\ HashIsFinal'
<1>1. \/ UNCHANGED outbound
      \/ tx[w] = "open" /\ pc[w] = "record_ok" /\ WriteFinalized(w)
      \/ tx[w] = "open" /\ pc[w] = "record_err" /\ WriteFailure(w)
  BY DEF WorkerStep, FaultStep, dbVars, ConnectClient, FetchJob, SubmitAccepted,
      SubmitFails, WatchFinalized, WatchFails, RecordFinalized, RecordFailure,
      RecordOnBrokenSession, ConnectionError, OutcomeUnknown, SessionLost, WorkerExits,
      CommitReplyLost, Crash
<1>2. UNCHANGED ext \/ \E h \in Hashes : Accept(h, job[w])
  BY DEF WorkerStep, FaultStep, chainVars, ConnectClient, FetchJob, SubmitAccepted,
      SubmitFails, WatchFinalized, WatchFails, RecordFinalized, RecordFailure,
      RecordOnBrokenSession, ConnectionError, OutcomeUnknown, SessionLost, WorkerExits,
      CommitReplyLost, Crash
<1>3. \A h \in Hashes : ext[h].state # "unused" => ext'[h] = ext[h]
  BY <1>2 DEF Accept, NoExt, IndInv, TypeOK
<1>4. tx[w] = "open" => job[w] \in Jobs /\ outbound[job[w]].status = "pending"
  BY DEF IndInv, TxShape, InTx, LockedIsPending
<1>5. CASE UNCHANGED outbound
  BY <1>3, <1>5 DEF HashIsFinal
<1>6. CASE tx[w] = "open" /\ WriteFinalized(w)
  BY <1>3, <1>4, <1>6 DEF WriteFinalized, HashIsFinal, IndInv, TypeOK, Row
<1>7. CASE tx[w] = "open" /\ WriteFailure(w)
  <2>1. outbound[job[w]].tx_hash = None
    BY <1>4, <1>7 DEF HashIsFinal
  <2> QED
    BY <1>3, <1>4, <1>7, <2>1 DEF WriteFailure, NextStatus, HashIsFinal, IndInv, TypeOK, Row
<1> QED BY <1>1, <1>5, <1>6, <1>7

\* What the handlers and the backfill find: the INSERT into agents names a column
\* the table lacks, the one into tasks a conflict target that is no key, and the
\* adopting UPDATE of agents the same missing column
LEMMA Rejected ==
    /\ ~AcceptsInsert("agents",
            {"id", "label", "chain_agent_id", "account_address", "updated_at"}, {"id"}, "text")
    /\ ~AcceptsUpdate("agents", {"chain_agent_id", "updated_at", "account_address"})
    /\ ~AcceptsInsert("tasks",
            {"id", "requester_id", "description", "status", "updated_at", "stored_json",
             "chain_task_id"}, {"chain_task_id"}, "text")
<1>1. "updated_at" \notin Columns("agents")
  BY DEF Columns
<1>2. "text" # IdType("tasks")
  BY DEF IdType
<1> QED BY <1>1, <1>2 DEF AcceptsInsert, AcceptsUpdate

\* A finalized row shows the extrinsic that carries its own job, so a row with a
\* hash is the row of the job that extrinsic carries
LEMMA RowOfHash ==
    ASSUME BridgeInv, NEW j \in Jobs, outbound[j].tx_hash # None
    PROVE  /\ outbound[j].status = "finalized"
           /\ outbound[j].tx_hash \in Hashes
           /\ ext[outbound[j].tx_hash].job = j
<1>1. outbound[j].status = "finalized" /\ FinalizedIsOnChain
  BY DEF BridgeInv, HashIsFinal, IndInv
<1>2. /\ outbound[j].tx_hash \in Hashes
      /\ ext[outbound[j].tx_hash] = [job |-> j, state |-> "success"]
  BY <1>1 DEF FinalizedIsOnChain
<1> QED BY <1>1, <1>2

\* An event in the log is that of a job with a row and a call
LEMMA EventOfLog ==
    ASSUME BridgeInv, NEW n \in 1..Len(log)
    PROVE  /\ log[n] \in Hashes
           /\ ext[log[n]].state = "success"
           /\ ext[log[n]].job \in Jobs
           /\ outbound[ext[log[n]].job].status # "absent"
           /\ CallOf(n) \in Calls
<1>1. log[n] \in Hashes /\ ext[log[n]].state = "success"
  BY DEF BridgeInv, BridgeTypeOK, LogShape
<1> QED BY <1>1 DEF BridgeInv, IndInv, ExtShape, RowShape, CallOf

\* The UPDATE by tx_hash changes nothing of what the outbox sees
LEMMA LinkInvisible ==
    ASSUME BridgeInv, NEW h, SetLinkedFinalized(h)
    PROVE  UNCHANGED outbound
<1>1. ASSUME NEW j \in Jobs, j \in LinkedRows(h)
      PROVE  [outbound[j] EXCEPT !.status = "finalized"] = outbound[j]
  <2>1. outbound[j].tx_hash # None
    BY <1>1 DEF LinkedRows
  <2>2. outbound[j].status = "finalized" /\ outbound[j] \in Row
    BY <2>1, RowOfHash DEF BridgeInv, IndInv, TypeOK
  <2> QED BY <2>2 DEF Row
<1>2. outbound' = [j \in Jobs |-> outbound[j]]
  BY <1>1 DEF SetLinkedFinalized
<1> QED BY <1>2 DEF BridgeInv, IndInv, TypeOK

\* The parts of the invariant about the outbox and the log survive every step of
\* the replay and of the backfill
LEMMA Kept ==
    ASSUME BridgeInv, UNCHANGED <<vars, log, call>>
    PROVE  /\ (IndInv /\ HashIsFinal /\ LogShape)'
           /\ \A n : CallOf(n)' = CallOf(n)
<1>1. IndInv'
  BY NextInv DEF BridgeInv
<1>2. (HashIsFinal /\ LogShape)'
  BY DEF BridgeInv, HashIsFinal, LogShape, vars
<1> QED BY <1>1, <1>2 DEF CallOf, vars

\* The initial state satisfies every part
LEMMA BridgeInitInv == BridgeInit => BridgeInv
<1> SUFFICES ASSUME BridgeInit PROVE BridgeInv
  OBVIOUS
<1> USE BridgeAssumption DEF BridgeInit
<1>1. IndInv /\ TypeOK
  BY InitInv DEF IndInv
<1>2. BridgeTypeOK
  BY <1>1 DEF BridgeTypeOK, RPC
<1>3. HashIsFinal
  BY DEF HashIsFinal, Init, NoRow
<1>4. LogShape /\ NoChainRow /\ ReplayShape
  BY DEF LogShape, NoChainRow, ReplayShape
<1>5. RowShape /\ IdsShape
  BY DEF RowShape, IdsShape, Init, NoRow
<1>6. HandledShape
  BY DEF HandledShape, Handled
<1> QED BY <1>1, <1>2, <1>3, <1>4, <1>5, <1>6 DEF BridgeInv

-----------------------------------------------------------------------------
(* The API, the outbox and the chain.                                       *)

\* Events that are handled are in the log
LEMMA HandledInLog == BridgeInv => Handled \subseteq 1..Len(log)
BY DEF BridgeInv, BridgeTypeOK, ReplayShape, Handled

\* What the replay has done stays true as long as finalized rows, the job and the
\* success of extrinsics, and the calls of rows do not change and the log only grows
LEMMA Finality ==
    ASSUME BridgeInv, UNCHANGED <<ids, chain_events, replayVars>>,
           \A j \in Jobs : outbound[j].status = "finalized" => outbound'[j] = outbound[j],
           \A j \in Jobs : outbound[j].status # "absent" => call'[j] = call[j],
           \A h \in Hashes : ext[h].state = "success" => ext'[h] = ext[h],
           Len(log) \in Nat, Len(log') \in Nat, Len(log) <= Len(log'),
           \A n \in 1..Len(log) : log'[n] = log[n]
    PROVE  (ReplayShape /\ IdsShape /\ HandledShape)'
<1>1. ASSUME NEW n \in 1..Len(log)
      PROVE  /\ n \in 1..Len(log')
             /\ log'[n] = log[n]
             /\ ext'[log'[n]] = ext[log[n]]
             /\ CallOf(n)' = CallOf(n)
  BY EventOfLog DEF CallOf
<1>2. ReplayShape'
  BY <1>1 DEF BridgeInv, ReplayShape, replayVars
<1>3. IdsShape'
  <2> SUFFICES ASSUME NEW j \in Jobs, NEW n \in {ids[j].task, ids[j].agent} \ {None}
               PROVE  n \in 1..Len(log') /\ log'[n] = outbound'[j].tx_hash
    BY DEF IdsShape
  <2>1. n \in 1..Len(log) /\ log[n] = outbound[j].tx_hash
    BY DEF BridgeInv, IdsShape
  <2>2. outbound[j].tx_hash # None
    BY <2>1, EventOfLog, OutboxAssumption
  <2> QED BY <1>1, <2>1, <2>2, RowOfHash
<1>4. HandledShape'
  <2>1. Handled' = Handled
    BY DEF Handled, replayVars
  <2> SUFFICES ASSUME NEW n \in Handled \ (overtaken \cup lost \cup skipped),
                      CallOf(n)' # "submit_bid"
               PROVE  LET j == ext'[log'[n]].job IN
                        outbound'[j].tx_hash = log'[n] /\ n \in {ids[j].task, ids[j].agent}
    BY <2>1 DEF HandledShape, replayVars
  <2> DEFINE j == ext[log[n]].job
  <2>2. n \in 1..Len(log)
    BY HandledInLog
  <2>3. CallOf(n) # "submit_bid" /\ ext'[log'[n]] = ext[log[n]] /\ log'[n] = log[n]
    BY <1>1, <2>2
  <2>4. outbound[j].tx_hash = log[n] /\ n \in {ids[j].task, ids[j].agent}
    BY <2>3 DEF BridgeInv, HandledShape
  <2>5. j \in Jobs /\ outbound[j].tx_hash # None
    BY <2>2, <2>4, EventOfLog, OutboxAssumption
  <2>6. outbound'[j] = outbound[j]
    BY <2>5, RowOfHash
  <2> QED BY <2>3, <2>4, <2>6
<1> QED BY <1>2, <1>3, <1>4

\* A step of an outbox worker, or a fault of one
LEMMA WorkerInv ==
    ASSUME BridgeInv, NEW w \in Workers, WorkerStep(w) \/ FaultStep(w), UNCHANGED bridgeVars
    PROVE  BridgeInv'
<1>1. IndInv' /\ TypeOK'
  <2>1. Next
    BY DEF Next
  <2> QED BY <2>1, NextInv DEF BridgeInv, IndInv
<1>2. /\ \A j \in Jobs : outbound[j].status \in {"absent", "finalized"}
                                => outbound'[j] = outbound[j]
      /\ \A j \in Jobs : outbound[j].status # "absent" => outbound'[j].status # "absent"
      /\ \A h \in Hashes : ext[h].state # "unused" => ext'[h] = ext[h]
      /\ HashIsFinal'
  BY WorkerFrame DEF BridgeInv
<1>3. BridgeTypeOK'
  BY <1>1 DEF BridgeInv, BridgeTypeOK, bridgeVars
<1>4. LogShape'
  BY <1>2, EventOfLog DEF BridgeInv, LogShape, bridgeVars
<1>5. (RowShape /\ NoChainRow)'
  BY <1>2 DEF BridgeInv, RowShape, NoChainRow, bridgeVars
<1>6. (ReplayShape /\ IdsShape /\ HandledShape)'
  <2>1. Len(log) \in Nat
    BY DEF BridgeInv, BridgeTypeOK
  <2> QED BY <1>2, <2>1, Finality DEF bridgeVars, replayVars
<1> QED BY <1>1, <1>2, <1>3, <1>4, <1>5, <1>6 DEF BridgeInv

\* The API enqueues a job
LEMMA EnqueueInv ==
    ASSUME BridgeInv, NEW j \in Jobs, NEW c \in Calls, Enqueue(j, c)
    PROVE  BridgeInv'
<1>0. /\ RecordOutboundExtrinsic(j)
      /\ outbound[j].status = "absent"
      /\ outbound'[j].status = "pending" /\ outbound'[j].tx_hash = None
      /\ \A k \in Jobs : k # j => outbound'[k] = outbound[k]
      /\ UNCHANGED ext
  BY DEF Enqueue, RecordOutboundExtrinsic, NoRow, chainVars, BridgeInv, IndInv, TypeOK
<1>1. IndInv' /\ TypeOK'
  <2>1. Next
    BY <1>0 DEF Next
  <2> QED BY <2>1, NextInv DEF BridgeInv, IndInv
<1>2. BridgeTypeOK'
  BY <1>1 DEF BridgeInv, BridgeTypeOK, Enqueue, replayVars
<1>3. HashIsFinal' /\ RowShape'
  BY <1>0 DEF BridgeInv, HashIsFinal, RowShape, Enqueue, BridgeTypeOK
<1>4. (LogShape /\ NoChainRow)'
  BY <1>0 DEF BridgeInv, LogShape, NoChainRow, Enqueue, replayVars
<1>5. (ReplayShape /\ IdsShape /\ HandledShape)'
  <2>1. Len(log) \in Nat /\ UNCHANGED <<log, ids, chain_events, replayVars>>
    BY DEF BridgeInv, BridgeTypeOK, Enqueue
  <2>2. \A k \in Jobs : outbound[k].status # "absent" => call'[k] = call[k]
    BY <1>0 DEF BridgeInv, BridgeTypeOK, Enqueue
  <2> QED BY <1>0, <2>1, <2>2, Finality
<1> QED BY <1>1, <1>2, <1>3, <1>4, <1>5 DEF BridgeInv

\* The chain decides an extrinsic: one that enters the log was in the pool, so it
\* is not there yet
LEMMA LandInv ==
    ASSUME BridgeInv, NEW h \in Hashes, Land(h)
    PROVE  BridgeInv'
<1>0. /\ UNCHANGED outbound
      /\ ext[h].state = "pool"
      /\ \A g \in Hashes : g # h => ext'[g] = ext[g]
      /\ UNCHANGED <<call, ids, agents, tasks, chain_events, replayVars, bf>>
  BY DEF Land, ChainStep, dbVars, tableVars, BridgeInv, IndInv, TypeOK
<1>1. IndInv' /\ TypeOK'
  <2>1. Next
    BY DEF Next, Land
  <2> QED BY <2>1, NextInv DEF BridgeInv, IndInv
<1>2. log \in Seq(Hashes) /\ Len(log) \in Nat
  BY DEF BridgeInv, BridgeTypeOK
<1>3. /\ log' \in Seq(Hashes) /\ Len(log') \in Nat /\ Len(log) <= Len(log')
      /\ \A n \in 1..Len(log) : log'[n] = log[n]
  BY <1>2 DEF Land
<1>4. \A n \in 1..Len(log') :
            n \in 1..Len(log) \/ (n = Len(log) + 1 /\ log'[n] = h /\ ext'[h].state = "success")
  BY <1>2 DEF Land
<1>5. BridgeTypeOK'
  BY <1>0, <1>1, <1>2, <1>3 DEF BridgeInv, BridgeTypeOK, replayVars
<1>6. LogShape'
  <2>1. \A n \in 1..Len(log) : log[n] # h /\ log[n] \in Hashes /\ ext[log[n]].state = "success"
    BY <1>0, EventOfLog
  <2>2. \A n \in 1..Len(log') : ext'[log'[n]].state = "success"
    BY <1>0, <1>3, <1>4, <2>1
  <2>3. \A m, n \in 1..Len(log') : log'[m] = log'[n] => m = n
    BY <1>3, <1>4, <2>1 DEF BridgeInv, LogShape
  <2> QED BY <2>2, <2>3 DEF LogShape
<1>7. (HashIsFinal /\ RowShape /\ NoChainRow)'
  BY <1>0 DEF BridgeInv, HashIsFinal, RowShape, NoChainRow, replayVars
<1>8. (ReplayShape /\ IdsShape /\ HandledShape)'
  BY <1>0, <1>2, <1>3, Finality
<1> QED BY <1>1, <1>5, <1>6, <1>7, <1>8 DEF BridgeInv

-----------------------------------------------------------------------------
(* The replay worker.                                                       *)

\* The worker takes up the next event, with or without its hash
LEMMA DeliverInv ==
    ASSUME BridgeInv, Deliver \/ CorrelationFails
    PROVE  BridgeInv'
<1>0. /\ UNCHANGED <<vars, log, tableVars, rpos, overtaken, skipped, bf>>
      /\ rpc = "idle" /\ rpos <= Len(log) /\ rpc' = "tables"
      /\ \/ rcorr' = log[rpos] /\ UNCHANGED <<lost, rfaults>>
         \/ rcorr' = None /\ lost' = lost \cup {rpos} /\ rfaults' = rfaults + 1
  BY DEF Deliver, CorrelationFails, ReplayFault
<1>1. UNCHANGED <<call, ids, agents, tasks, chain_events>>
  BY <1>0 DEF tableVars
<1>2. (IndInv /\ HashIsFinal /\ LogShape)' /\ \A n : CallOf(n)' = CallOf(n)
  BY <1>0, <1>1, Kept
<1>3. rpos \in 1..Len(log) /\ log[rpos] \in Hashes
  <2>1. rpos \in 1..Len(log)
    BY <1>0 DEF BridgeInv, BridgeTypeOK
  <2> QED BY <2>1, EventOfLog
<1>4. BridgeTypeOK'
  BY <1>0, <1>1, <1>2, <1>3 DEF BridgeInv, BridgeTypeOK, IndInv, RPC
<1>5. (RowShape /\ NoChainRow /\ IdsShape)'
  BY <1>0, <1>1 DEF BridgeInv, RowShape, NoChainRow, IdsShape, vars
<1>6. ReplayShape'
  BY <1>0, <1>3 DEF ReplayShape
<1>7. HandledShape'
  <2>1. Handled' = Handled
    BY <1>0, <1>1 DEF Handled
  <2> QED BY <1>0, <1>1, <1>2, <2>1 DEF BridgeInv, HandledShape, vars
<1> QED BY <1>2, <1>4, <1>5, <1>6, <1>7 DEF BridgeInv

\* The worker starts events over, or misses one
LEMMA LeaveInv ==
    ASSUME BridgeInv, ReplayRestarts \/ ReplayMisses
    PROVE  BridgeInv'
<1>0. /\ UNCHANGED <<vars, log, tableVars, overtaken, skipped, bf>>
      /\ rpc' = "idle" /\ rcorr' \in {rcorr, None} /\ rfaults' = rfaults + 1
      /\ \/ rpos' \in 1..rpos /\ UNCHANGED lost
         \/ rpos <= Len(log) /\ rpos' = rpos + 1 /\ lost' = lost \cup {rpos}
  BY DEF ReplayRestarts, ReplayMisses, ReplayFault
<1>1. UNCHANGED <<call, ids, agents, tasks, chain_events>>
  BY <1>0 DEF tableVars
<1>2. (IndInv /\ HashIsFinal /\ LogShape)' /\ \A n : CallOf(n)' = CallOf(n)
  BY <1>0, <1>1, Kept
<1>3. BridgeTypeOK'
  BY <1>0, <1>1, <1>2 DEF BridgeInv, BridgeTypeOK, IndInv, RPC
<1>4. (RowShape /\ NoChainRow /\ IdsShape /\ ReplayShape)'
  BY <1>0, <1>1
  DEF BridgeInv, RowShape, NoChainRow, IdsShape, ReplayShape, vars
<1>5. HandledShape'
  <2>1. Handled' \subseteq Handled
    BY <1>0, <1>1 DEF Handled
  <2> QED BY <1>0, <1>1, <1>2, <2>1 DEF BridgeInv, HandledShape, vars
<1> QED BY <1>2, <1>3, <1>4, <1>5 DEF BridgeInv

\* The handler's first statement changes no table; a bid's handler ends with it
LEMMA ApplyTablesInv ==
    ASSUME BridgeInv, ApplyTables
    PROVE  BridgeInv'
<1>0. /\ UNCHANGED <<vars, call, log, ids, agents, tasks, chain_events, rpos, rcorr, overtaken,
                     lost, skipped, bf, rfaults>>
      /\ rpc = "tables"
      /\ rpc' = IF CallOf(rpos) = "submit_bid" THEN "record" ELSE "link"
  BY Rejected DEF ApplyTables, UpsertAgent, InsertTask, TaskKnown, BridgeInv, NoChainRow
<1>2. (IndInv /\ HashIsFinal /\ LogShape)' /\ \A n : CallOf(n)' = CallOf(n)
  BY <1>0, Kept
<1>3. BridgeTypeOK'
  BY <1>0, <1>2 DEF BridgeInv, BridgeTypeOK, IndInv, RPC
<1>4. (RowShape /\ NoChainRow /\ IdsShape)'
  BY <1>0 DEF BridgeInv, RowShape, NoChainRow, IdsShape, vars
<1>5. ReplayShape'
  BY <1>0, <1>2 DEF BridgeInv, ReplayShape
<1>6. HandledShape'
  <2>1. \A n \in Handled' : n \in Handled \/ CallOf(n) = "submit_bid"
    BY <1>0 DEF Handled
  <2> QED BY <1>0, <1>2, <2>1 DEF BridgeInv, HandledShape, vars
<1> QED BY <1>2, <1>3, <1>4, <1>5, <1>6 DEF BridgeInv

\* Adopting changes no table either
LEMMA AdoptInv ==
    ASSUME BridgeInv, Adopt
    PROVE  BridgeInv'
<1>0. /\ UNCHANGED <<vars, call, log, ids, agents, tasks, chain_events, rpos, rcorr, overtaken,
                     lost, skipped, bf, rfaults>>
      /\ rpc = "adopt" /\ rpc' = "record"
  BY Rejected DEF Adopt
<1>2. (IndInv /\ HashIsFinal /\ LogShape)' /\ \A n : CallOf(n)' = CallOf(n)
  BY <1>0, Kept
<1>3. BridgeTypeOK'
  BY <1>0, <1>2 DEF BridgeInv, BridgeTypeOK, IndInv, RPC
<1>4. (RowShape /\ NoChainRow /\ IdsShape)'
  BY <1>0 DEF BridgeInv, RowShape, NoChainRow, IdsShape, vars
<1>5. ReplayShape'
  BY <1>0 DEF BridgeInv, ReplayShape
<1>6. HandledShape'
  <2>1. Handled' = Handled
    BY <1>0 DEF Handled
  <2> QED BY <1>0, <1>2, <2>1 DEF BridgeInv, HandledShape, vars
<1> QED BY <1>2, <1>3, <1>4, <1>5, <1>6 DEF BridgeInv

\* The event is recorded and the worker goes on to the next
LEMMA RecordInv ==
    ASSUME BridgeInv, Record
    PROVE  BridgeInv'
<1>0. /\ UNCHANGED <<vars, call, log, ids, agents, tasks, overtaken, lost, skipped, bf,
                     rfaults>>
      /\ rpc = "record" /\ rpc' = "idle" /\ rpos' = rpos + 1 /\ rcorr' = None
      /\ \/ UNCHANGED chain_events
         \/ chain_events' = chain_events \cup {[pos |-> rpos, correlation |-> rcorr]}
  BY DEF Record, RecordEvent
<1>1. rpos \in 1..Len(log)
  BY <1>0 DEF BridgeInv, ReplayShape
<1>2. (IndInv /\ HashIsFinal /\ LogShape)' /\ \A n : CallOf(n)' = CallOf(n)
  BY <1>0, Kept
<1>3. BridgeTypeOK'
  <2>1. \A e \in chain_events' : e.pos \in 1..Len(log) /\ e.correlation \in Hashes \cup {None}
    BY <1>0, <1>1 DEF BridgeInv, BridgeTypeOK
  <2> QED BY <1>0, <1>1, <1>2, <2>1 DEF BridgeInv, BridgeTypeOK, IndInv, RPC
<1>4. (RowShape /\ NoChainRow /\ IdsShape /\ ReplayShape)'
  BY <1>0
  DEF BridgeInv, RowShape, NoChainRow, IdsShape, ReplayShape, vars
<1>5. HandledShape'
  <2>1. Handled' \subseteq Handled
    BY <1>0 DEF Handled
  <2> QED BY <1>0, <1>2, <2>1 DEF BridgeInv, HandledShape, vars
<1> QED BY <1>2, <1>3, <1>4, <1>5 DEF BridgeInv

\* The handler is left out, or one of its statements fails: past the UPDATE of
\* outbound_extrinsics the event counts as skipped unless that UPDATE was done
LEMMA HandlerFailsInv ==
    ASSUME BridgeInv, HandlerSkipped \/ StatementFails
    PROVE  BridgeInv'
<1>0. /\ UNCHANGED <<vars, log, tableVars, rpos, rcorr, overtaken, lost, bf>>
      /\ rfaults' = rfaults + 1
      /\ rpc \in {"tables", "link", "adopt"}
      /\ rpc' \in {"link", "adopt", "record"}
      /\ rpc' \in {"link", "adopt"} => CallOf(rpos) # "submit_bid"
      /\ \/ skipped' = skipped \cup {rpos}
         \/ /\ UNCHANGED skipped
            /\ rpc' = "link" \/ rpc = "adopt" \/ CallOf(rpos) = "submit_bid"
  BY DEF HandlerSkipped, StatementFails, ReplayFault, BridgeInv, ReplayShape
<1>1. UNCHANGED <<call, ids, agents, tasks, chain_events>>
  BY <1>0 DEF tableVars
<1>2. (IndInv /\ HashIsFinal /\ LogShape)' /\ \A n : CallOf(n)' = CallOf(n)
  BY <1>0, <1>1, Kept
<1>3. ReplayShape' /\ rpos \in 1..Len(log)
  BY <1>0, <1>2 DEF BridgeInv, ReplayShape
<1>4. BridgeTypeOK'
  BY <1>0, <1>1, <1>2, <1>3 DEF BridgeInv, BridgeTypeOK, IndInv, RPC
<1>5. (RowShape /\ NoChainRow /\ IdsShape)'
  BY <1>0, <1>1 DEF BridgeInv, RowShape, NoChainRow, IdsShape, vars
<1>6. HandledShape'
  <2>1. \A n \in Handled' : n \in Handled \/ n \in skipped' \/ CallOf(n) = "submit_bid"
    BY <1>0, <1>1 DEF Handled
  <2>2. skipped \subseteq skipped'
    BY <1>0
  <2> QED BY <1>0, <1>1, <1>2, <2>1, <2>2 DEF BridgeInv, HandledShape, vars
<1> QED BY <1>2, <1>3, <1>4, <1>5, <1>6 DEF BridgeInv

\* The event's or the cursor's own statement fails and ends the worker
LEMMA ReplayExitsInv ==
    ASSUME BridgeInv, ReplayExits
    PROVE  BridgeInv'
<1>0. /\ UNCHANGED <<vars, call, log, ids, agents, tasks, rpos, rcorr, overtaken, lost, skipped,
                     bf>>
      /\ rpc' = "exited" /\ rfaults' = rfaults + 1
      /\ \/ UNCHANGED chain_events
         \/ /\ rpc = "record"
            /\ chain_events' = chain_events \cup {[pos |-> rpos, correlation |-> rcorr]}
  BY DEF ReplayExits, RecordEvent, ReplayFault
<1>1. (IndInv /\ HashIsFinal /\ LogShape)' /\ \A n : CallOf(n)' = CallOf(n)
  BY <1>0, Kept
<1>2. BridgeTypeOK'
  <2>1. \A e \in chain_events' : e.pos \in 1..Len(log) /\ e.correlation \in Hashes \cup {None}
    BY <1>0 DEF BridgeInv, BridgeTypeOK, ReplayShape
  <2> QED BY <1>0, <1>1, <2>1 DEF BridgeInv, BridgeTypeOK, IndInv, RPC
<1>3. (RowShape /\ NoChainRow /\ IdsShape /\ ReplayShape)'
  BY <1>0 DEF BridgeInv, RowShape, NoChainRow, IdsShape, ReplayShape, vars
<1>4. HandledShape'
  <2>1. Handled' \subseteq Handled
    BY <1>0 DEF Handled
  <2> QED BY <1>0, <1>1, <2>1 DEF BridgeInv, HandledShape, vars
<1> QED BY <1>1, <1>2, <1>3, <1>4 DEF BridgeInv

\* The rows the UPDATE by tx_hash finds are final and show the hash of the event in
\* hand; it writes the event's position into one of their columns
LEMMA LinkWrites ==
    ASSUME BridgeInv, Link
    PROVE  /\ rpos \in 1..Len(log)
           /\ rcorr = log[rpos] \/ (rcorr = None /\ rpos \in lost)
           /\ Len(log) \in Nat
           /\ \A j \in LinkedRows(rcorr) : /\ j \in Jobs
                                           /\ outbound[j].tx_hash = log[rpos]
                                           /\ outbound[j].status = "finalized"
           /\ ids' \in [Jobs -> [task : Nat \cup {None}, agent : Nat \cup {None}]]
           /\ \A j \in Jobs : j \notin LinkedRows(rcorr) => ids'[j] = ids[j]
           /\ \A j \in LinkedRows(rcorr) : /\ rpos \in {ids'[j].task, ids'[j].agent}
                                           /\ ids'[j].task \in {ids[j].task, rpos}
                                           /\ ids'[j].agent \in {ids[j].agent, rpos}
<1> DEFINE L == LinkedRows(rcorr)
<1>1. /\ rpos \in 1..Len(log)
      /\ rcorr = log[rpos] \/ (rcorr = None /\ rpos \in lost)
      /\ CallOf(rpos) \in {"register_agent", "create_task"}
      /\ Len(log) \in Nat
  <2>1. /\ rpos \in 1..Len(log)
        /\ rcorr = log[rpos] \/ (rcorr = None /\ rpos \in lost)
        /\ CallOf(rpos) # "submit_bid"
    BY DEF Link, BridgeInv, ReplayShape
  <2> QED BY <2>1, EventOfLog DEF Calls, BridgeInv, BridgeTypeOK
<1>2. ids \in [Jobs -> [task : Nat \cup {None}, agent : Nat \cup {None}]]
  BY DEF BridgeInv, BridgeTypeOK
<1>3. L \subseteq Jobs
  BY DEF LinkedRows
<1>4. ASSUME NEW j \in L
      PROVE  outbound[j].tx_hash = log[rpos] /\ outbound[j].status = "finalized"
  <2>1. outbound[j].tx_hash = rcorr /\ rcorr # None
    BY DEF LinkedRows
  <2> QED BY <1>1, <1>3, <2>1, RowOfHash
<1>5. PICK v \in EventIds(rpos) :
        ids' = [j \in Jobs |->
                    IF j \notin L THEN ids[j]
                    ELSE [task |-> IF v.task = None THEN ids[j].task ELSE v.task,
                          agent |-> IF v.agent = None THEN ids[j].agent ELSE v.agent]]
  BY DEF Link
<1>6. v = [task |-> None, agent |-> rpos] \/ v = [task |-> rpos, agent |-> None]
  BY <1>1, <1>5 DEF EventIds
<1>7. rpos # None /\ rpos \in Nat
  BY <1>1, BridgeAssumption
<1> HIDE DEF L
<1>8. CASE v = [task |-> None, agent |-> rpos]
  <2>1. ids' = [j \in Jobs |-> IF j \notin L THEN ids[j]
                               ELSE [task |-> ids[j].task, agent |-> rpos]]
    BY <1>5, <1>7, <1>8
  <2> QED BY <1>1, <1>2, <1>3, <1>4, <1>7, <2>1 DEF L
<1>9. CASE v = [task |-> rpos, agent |-> None]
  <2>1. ids' = [j \in Jobs |-> IF j \notin L THEN ids[j]
                               ELSE [task |-> rpos, agent |-> ids[j].agent]]
    BY <1>5, <1>7, <1>9
  <2> QED BY <1>1, <1>2, <1>3, <1>4, <1>7, <2>1 DEF L
<1> QED BY <1>6, <1>8, <1>9

\* The position goes into the row of the event's own job and into no other, or the
\* event counts as overtaken
LEMMA LinkInv ==
    ASSUME BridgeInv, Link
    PROVE  BridgeInv'
<1> DEFINE L == LinkedRows(rcorr)
<1>0. /\ rpc = "link" /\ rpc' = "adopt"
      /\ UNCHANGED <<now, workerVars, chainVars, faults, call, log, agents, tasks,
                     chain_events, rpos, rcorr, bf, rfaults>>
      /\ overtaken' \subseteq overtaken \cup {rpos}
      /\ lost' \subseteq lost /\ skipped' \subseteq skipped
      /\ \A n : n # rpos => /\ n \in overtaken' <=> n \in overtaken
                            /\ n \in lost' <=> n \in lost
                            /\ n \in skipped' <=> n \in skipped
      /\ rpos \notin overtaken' => rcorr # None /\ \E j \in Jobs : outbound[j].tx_hash = rcorr
      /\ rcorr = None => lost' = lost
  BY DEF Link
<1>1. UNCHANGED vars
  <2>1. UNCHANGED outbound
    BY LinkInvisible DEF Link
  <2> QED BY <1>0, <2>1 DEF vars, workerVars, chainVars
<1>2. (IndInv /\ HashIsFinal /\ LogShape)' /\ \A n : CallOf(n)' = CallOf(n)
  BY <1>0, <1>1, Kept
<1>3. /\ rpos \in 1..Len(log)
      /\ rcorr = log[rpos] \/ (rcorr = None /\ rpos \in lost)
      /\ CallOf(rpos) # "submit_bid"
      /\ Len(log) \in Nat
  BY <1>0, LinkWrites DEF BridgeInv, ReplayShape
<1>5. ASSUME NEW j \in Jobs, j \in L
      PROVE  outbound[j].tx_hash = log[rpos] /\ outbound[j].status = "finalized"
  BY <1>5, LinkWrites
<1>9. /\ ids' \in [Jobs -> [task : Nat \cup {None}, agent : Nat \cup {None}]]
      /\ \A j \in Jobs : j \notin L => ids'[j] = ids[j]
      /\ \A j \in L : rpos \in {ids'[j].task, ids'[j].agent}
      /\ \A j \in L : {ids'[j].task, ids'[j].agent}
                            \subseteq {ids[j].task, ids[j].agent, rpos}
  BY LinkWrites
<1> HIDE DEF L
<1>10. BridgeTypeOK'
  BY <1>0, <1>2, <1>3, <1>9 DEF BridgeInv, BridgeTypeOK, IndInv, RPC
<1>11. (NoChainRow)' /\ ReplayShape'
  BY <1>0, <1>2, <1>3
  DEF BridgeInv, NoChainRow, ReplayShape
<1>12. RowShape'
  BY <1>0, <1>1, <1>5, <1>9 DEF BridgeInv, RowShape, vars
<1>13. IdsShape'
  <2> SUFFICES ASSUME NEW j \in Jobs, NEW n \in {ids'[j].task, ids'[j].agent} \ {None}
               PROVE  n \in 1..Len(log) /\ log[n] = outbound[j].tx_hash
    BY <1>0, <1>1 DEF IdsShape, vars
  <2>1. n \in {ids[j].task, ids[j].agent} \/ (n = rpos /\ j \in L)
    BY <1>9
  <2> QED BY <1>3, <1>5, <2>1 DEF BridgeInv, IdsShape
<1>14. HandledShape'
  <2>1. \A n \in Handled' : n \in Handled \/ n = rpos
    BY <1>0 DEF Handled
  <2> SUFFICES ASSUME NEW n \in Handled', n \notin overtaken', n \notin lost', n \notin skipped',
                      CallOf(n) # "submit_bid"
               PROVE  /\ outbound[ext[log[n]].job].tx_hash = log[n]
                      /\ n \in {ids'[ext[log[n]].job].task, ids'[ext[log[n]].job].agent}
    BY <1>0, <1>1, <1>2 DEF HandledShape, vars
  <2>2. CASE n = rpos
    <3>1. rcorr = log[rpos] /\ log[rpos] \in Hashes
      BY <1>0, <1>3, <2>2, EventOfLog
    <3>2. PICK j \in Jobs : outbound[j].tx_hash = rcorr
      BY <1>0, <2>2
    <3>3. ext[log[rpos]].job = j
      BY <3>1, <3>2, RowOfHash, OutboxAssumption
    <3>4. j \in L
      BY <3>1, <3>2, OutboxAssumption DEF L, LinkedRows
    <3> QED BY <1>9, <2>2, <3>1, <3>2, <3>3, <3>4
  <2>3. CASE n # rpos
    <3>1. n \in Handled /\ n \notin overtaken \cup lost \cup skipped
      BY <1>0, <2>1, <2>3
    <3>2. n \in 1..Len(log)
      BY <3>1, HandledInLog
    <3> DEFINE j == ext[log[n]].job
    <3>3. j \in Jobs /\ outbound[j].tx_hash = log[n] /\ n \in {ids[j].task, ids[j].agent}
      BY <3>1, <3>2, EventOfLog DEF BridgeInv, HandledShape
    <3>4. j \notin L
      BY <1>3, <1>5, <2>3, <3>2, <3>3 DEF BridgeInv, LogShape
    <3> QED BY <1>9, <3>3, <3>4
  <2> QED BY <2>2, <2>3
<1> QED BY <1>2, <1>10, <1>11, <1>12, <1>13, <1>14 DEF BridgeInv

-----------------------------------------------------------------------------
(* The backfill.                                                            *)

\* The events' payloads never parse, so the repair writes nothing
LEMMA BackfillWritesNothing ==
    ASSUME BridgeInv, NEW corr, BackfillRow(corr)
    PROVE  UNCHANGED ids
<1> DEFINE found(c) == {ExtractFirstU64(RenderedPayload(e.pos)) :
                e \in {x \in {e \in chain_events : e.correlation = corr} : CallOf(x.pos) \in c}}
                    \ {None}
           fill(old, c) == IF old = None /\ found(c) # {} THEN Max(found(c)) ELSE old
<1>1. \A n : ExtractFirstU64(RenderedPayload(n)) = None
  BY DEF ExtractFirstU64, RenderedPayload
<1>2. \A c : found(c) = {}
  BY <1>1
<1> HIDE DEF found
<1>3. \A old, c : fill(old, c) = old
  BY <1>2
<1>4. \/ UNCHANGED ids
      \/ ids' = [j \in Jobs |-> IF j # corr THEN ids[j]
                ELSE [task |-> fill(ids[j].task, {"create_task", "submit_bid"}),
                      agent |-> fill(ids[j].agent, {"register_agent"})]]
  BY DEF BackfillRow, found
<1> HIDE DEF fill
<1>5. \/ UNCHANGED ids
      \/ ids' = [j \in Jobs |-> IF j # corr THEN ids[j]
                ELSE [task |-> ids[j].task, agent |-> ids[j].agent]]
  BY <1>3, <1>4
<1> QED BY <1>5 DEF BridgeInv, BridgeTypeOK

\* A round of the backfill only changes what it has yet to look up
LEMMA BackfillFrame ==
    ASSUME BridgeInv, BackfillStep \/ BackfillFails
    PROVE  UNCHANGED <<vars, log, call, ids, agents, tasks, chain_events, replayVars>>
<1>1. CASE BackfillSelect \/ BackfillFails
  BY <1>1 DEF BackfillSelect, BackfillFails, tableVars
<1>2. ASSUME NEW corr \in bf, BackfillRow(corr)
      PROVE  UNCHANGED <<vars, log, call, ids, agents, tasks, chain_events, replayVars>>
  BY <1>2, BackfillWritesNothing DEF BackfillRow
<1> QED BY <1>1, <1>2 DEF BackfillStep

\* What it has yet to look up are correlation ids and hashes
LEMMA BackfillInv ==
    ASSUME BridgeInv, BackfillStep \/ BackfillFails
    PROVE  BridgeInv'
<1>1. UNCHANGED <<vars, log, call, ids, agents, tasks, chain_events, replayVars>>
  BY BackfillFrame
<1>2. bf' \subseteq Jobs \cup Hashes
  <2>1. Unlinked \subseteq Jobs \cup Hashes
    BY DEF Unlinked, BridgeInv, IndInv, TypeOK, Row
  <2>2. CASE BackfillSelect
    BY <2>1, <2>2 DEF BackfillSelect, kSubset
  <2> QED
    BY <2>2 DEF BackfillStep, BackfillRow, BackfillFails, BridgeInv, BridgeTypeOK
<1>3. (IndInv /\ HashIsFinal /\ LogShape)' /\ \A n : CallOf(n)' = CallOf(n)
  BY <1>1, Kept
<1>4. BridgeTypeOK'
  BY <1>1, <1>2, <1>3 DEF BridgeInv, BridgeTypeOK, IndInv, replayVars
<1>5. (RowShape /\ NoChainRow /\ IdsShape)'
  BY <1>1 DEF BridgeInv, RowShape, NoChainRow, IdsShape, vars,
      replayVars
<1>6. ReplayShape'
  BY <1>1, <1>3 DEF BridgeInv, ReplayShape, replayVars
<1>7. HandledShape'
  <2>1. Handled' = Handled
    BY <1>1 DEF Handled, replayVars
  <2> QED BY <1>1, <1>3, <2>1 DEF BridgeInv, HandledShape, vars, replayVars
<1> QED BY <1>3, <1>4, <1>5, <1>6, <1>7 DEF BridgeInv

-----------------------------------------------------------------------------
(* The theorems.                                                            *)

\* A step that changes nothing
LEMMA BridgeStutterInv ==
    ASSUME BridgeInv, UNCHANGED allVars
    PROVE  BridgeInv'
<1>1. UNCHANGED <<vars, log, call, ids, agents, tasks, chain_events, rpc, rpos, rcorr,
                  overtaken, lost, skipped, bf, rfaults>>
  BY DEF allVars, bridgeVars
<1>2. (IndInv /\ HashIsFinal /\ LogShape)' /\ \A n : CallOf(n)' = CallOf(n)
  BY <1>1, Kept
<1>3. BridgeTypeOK'
  BY <1>1, <1>2 DEF BridgeInv, BridgeTypeOK, IndInv
<1>4. (RowShape /\ NoChainRow /\ IdsShape)'
  BY <1>1 DEF BridgeInv, RowShape, NoChainRow, IdsShape, vars
<1>5. ReplayShape'
  BY <1>1, <1>2 DEF BridgeInv, ReplayShape
<1>6. HandledShape'
  <2>1. Handled' = Handled
    BY <1>1 DEF Handled
  <2> QED BY <1>1, <1>2, <2>1 DEF BridgeInv, HandledShape, vars
<1> QED BY <1>2, <1>3, <1>4, <1>5, <1>6 DEF BridgeInv

\* Every step preserves the invariant
LEMMA BridgeNextInv == BridgeInv /\ [BridgeNext]_allVars => BridgeInv'
<1> SUFFICES ASSUME BridgeInv, [BridgeNext]_allVars PROVE BridgeInv'
  OBVIOUS
<1>1. CASE UNCHANGED allVars
  BY <1>1, BridgeStutterInv
<1>2. ASSUME NEW j \in Jobs, NEW c \in Calls, Enqueue(j, c) PROVE BridgeInv'
  BY <1>2, EnqueueInv
<1>3. ASSUME NEW w \in Workers,
             OutboxWorkerStep(w) \/ (FaultStep(w) /\ UNCHANGED bridgeVars)
      PROVE  BridgeInv'
  BY <1>3, WorkerInv DEF OutboxWorkerStep
<1>4. ASSUME NEW h \in Hashes, Land(h) PROVE BridgeInv'
  BY <1>4, LandInv
<1>5. CASE ReplayStep
  BY <1>5, DeliverInv, ApplyTablesInv, LinkInv, AdoptInv, RecordInv DEF ReplayStep
<1>6. CASE BackfillStep \/ BackfillFails
  BY <1>6, BackfillInv
<1>7. CASE \/ ReplayRestarts \/ ReplayMisses \/ CorrelationFails
           \/ HandlerSkipped \/ StatementFails \/ ReplayExits
  BY <1>7, LeaveInv, DeliverInv, HandlerFailsInv, ReplayExitsInv
<1> QED BY <1>1, <1>2, <1>3, <1>4, <1>5, <1>6, <1>7 DEF BridgeNext

\* The invariant holds throughout
THEOREM BridgeInvariance == BridgeSpec => []BridgeInv
<1> QED BY BridgeInitInv, BridgeNextInv, PTL DEF BridgeSpec

\* The tables, the log and the workers keep their types
THEOREM BridgeTypeCorrect == BridgeSpec => []BridgeTypeOK
<1>1. BridgeInv => BridgeTypeOK
  BY DEF BridgeInv
<1> QED BY <1>1, BridgeInvariance, PTL

\* The handlers and the backfill write the outbox worker's table without its
\* lock, and yet every behaviour of the whole is one of the outbox alone
THEOREM BridgeImplementsOutbox == BridgeSpec => ImplementsOutbox
<1>1. BridgeInit => Init
  BY DEF BridgeInit
<1>2. BridgeInv /\ [BridgeNext]_allVars => [Next]_vars
  <2> SUFFICES ASSUME BridgeInv, [BridgeNext]_allVars PROVE Next \/ UNCHANGED vars
    OBVIOUS
  <2>1. CASE UNCHANGED allVars
    BY <2>1 DEF allVars
  <2>2. ASSUME NEW j \in Jobs, NEW c \in Calls, Enqueue(j, c) PROVE Next
    BY <2>2 DEF Enqueue, Next
  <2>3. ASSUME NEW w \in Workers, OutboxWorkerStep(w) \/ FaultStep(w) PROVE Next
    BY <2>3 DEF OutboxWorkerStep, Next
  <2>4. ASSUME NEW h \in Hashes, Land(h) PROVE Next
    BY <2>4 DEF Land, Next
  <2>5. CASE Link
    <3>1. UNCHANGED outbound
      BY <2>5, LinkInvisible DEF Link
    <3> QED BY <2>5, <3>1 DEF Link, vars, workerVars, chainVars
  <2>6. CASE (ReplayStep /\ ~Link) \/ BackfillStep \/ BackfillFails
    BY <2>6 DEF ReplayStep, Deliver, ApplyTables, Adopt, Record, BackfillStep, BackfillSelect, BackfillRow, BackfillFails
  <2>7. CASE \/ ReplayRestarts \/ ReplayMisses \/ CorrelationFails
             \/ HandlerSkipped \/ StatementFails \/ ReplayExits
    BY <2>7 DEF ReplayRestarts, ReplayMisses, CorrelationFails, HandlerSkipped,
        StatementFails, ReplayExits
  <2> QED BY <2>1, <2>2, <2>3, <2>4, <2>5, <2>6, <2>7 DEF BridgeNext
<1> QED BY <1>1, <1>2, BridgeInvariance, PTL DEF BridgeSpec, ImplementsOutbox, Spec

\* So what OutboxProofs shows of the outbox alone holds beside the replay and the
\* backfill too
THEOREM OutboxGuaranteesKept ==
    BridgeSpec => [](FinalizedIsOnChain /\ SingleSubmission /\ NoPhantomFailure /\ NobodyStuck)
                    /\ TerminalRows
<1> QED BY BridgeImplementsOutbox, FinalizedCorrect, NoDuplicateWithoutFault,
          FailureIsObserved, WorkGoesOn, OutcomesAreFinal, PTL DEF ImplementsOutbox

\* A row shows the id its own extrinsic was given
THEOREM IdsCorrect == BridgeSpec => []ChainIdCorrect
<1>1. BridgeInv => ChainIdCorrect
  <2> SUFFICES ASSUME BridgeInv, NEW j \in Jobs,
                      NEW n \in {ids[j].task, ids[j].agent} \ {None}
               PROVE  log[n] = outbound[j].tx_hash /\ ext[log[n]].job = j
    BY DEF ChainIdCorrect
  <2>1. n \in 1..Len(log) /\ log[n] = outbound[j].tx_hash
    BY DEF BridgeInv, IdsShape
  <2>2. outbound[j].tx_hash # None
    BY <2>1, EventOfLog, OutboxAssumption
  <2> QED BY <2>1, <2>2, RowOfHash
<1> QED BY <1>1, BridgeInvariance, PTL

\* Of a mirrored event whose row has no id the last handling was too early, came
\* without a correlation, or lost the very UPDATE; or it never was handled: there is
\* no other way to lose an id, whichever statements fail and however often the
\* replay starts over
THEOREM UnlinkedExplained == BridgeSpec => []UnlinkedIsExplained
<1>1. BridgeInv => UnlinkedIsExplained
  <2> SUFFICES ASSUME BridgeInv, NEW e \in chain_events, NEW j \in Jobs,
                      outbound[j].status = "finalized",
                      outbound[j].tx_hash = log[e.pos],
                      call[j] \in {"register_agent", "create_task"},
                      e.pos \notin overtaken \cup lost \cup skipped
               PROVE  ids[j].task = e.pos \/ ids[j].agent = e.pos
    BY DEF UnlinkedIsExplained
  <2>1. e.pos \in 1..Len(log) /\ e.pos \in Handled
    BY DEF BridgeInv, BridgeTypeOK, Handled
  <2>2. ext[log[e.pos]].job = j
    BY <2>1, EventOfLog, RowOfHash, OutboxAssumption
  <2>3. CallOf(e.pos) # "submit_bid"
    BY <2>2 DEF CallOf
  <2> QED BY <2>1, <2>2, <2>3 DEF BridgeInv, HandledShape
<1> QED BY <1>1, BridgeInvariance, PTL

\* Every mirrored event can be traced to its job's row, to a worker that holds the row
\* and watches the extrinsic, or to a fault that made its worker abandon it
THEOREM MirrorAccounted == BridgeSpec => []MirrorReconciles
<1>1. BridgeInv => MirrorReconciles
  <2> SUFFICES ASSUME BridgeInv, NEW e \in chain_events
               PROVE  LET h == log[e.pos] IN
                        \/ outbound[ext[h].job].tx_hash = h
                        \/ \E w \in Workers : /\ tx[w] = "open" /\ Watching(w)
                                              /\ hash[w] = h /\ job[w] = ext[h].job
                        \/ Detached(h)
    BY DEF MirrorReconciles
  <2> DEFINE h == log[e.pos]
  <2>1. h \in Hashes /\ Live(h)
    BY EventOfLog DEF BridgeInv, BridgeTypeOK, Live
  <2>2. \A w \in Workers : Watching(w) /\ hash[w] = h => job[w] = ext[h].job
    BY DEF BridgeInv, IndInv, WatchShape
  <2>3. \/ Detached(h)
        \/ \E w \in Workers : tx[w] = "open" /\ Watching(w) /\ hash[w] = h
        \/ outbound[ext[h].job].tx_hash = h
    BY <2>1 DEF BridgeInv, IndInv, Accounted
  <2> QED BY <2>2, <2>3
<1> QED BY <1>1, BridgeInvariance, PTL

\* A row keeps the id it has shown: of two events that write into one row both have
\* the row's hash, and the log holds an extrinsic once
THEOREM IdsStay == BridgeSpec => IdsAreFinal
<1> DEFINE Same(j) == /\ ids[j].task # None => ids'[j].task = ids[j].task
                      /\ ids[j].agent # None => ids'[j].agent = ids[j].agent
<1>1. BridgeInv /\ [BridgeNext]_allVars => [\A j \in Jobs : Same(j)]_allVars
  <2> SUFFICES ASSUME BridgeInv, BridgeNext, NEW j \in Jobs PROVE Same(j)
    OBVIOUS
  <2>1. CASE UNCHANGED ids
    BY <2>1
  <2>2. CASE Link
    <3>1. CASE j \notin LinkedRows(rcorr)
      BY <2>2, <3>1, LinkWrites
    <3>2. CASE j \in LinkedRows(rcorr)
      <4>1. /\ rpos \in 1..Len(log)
            /\ outbound[j].tx_hash = log[rpos]
            /\ ids'[j].task \in {ids[j].task, rpos}
            /\ ids'[j].agent \in {ids[j].agent, rpos}
        BY <2>2, <3>2, LinkWrites
      <4>2. \A n \in {ids[j].task, ids[j].agent} \ {None} : n = rpos
        <5>1. /\ \A n \in {ids[j].task, ids[j].agent} \ {None} :
                    n \in 1..Len(log) /\ log[n] = outbound[j].tx_hash
              /\ \A m, n \in 1..Len(log) : log[m] = log[n] => m = n
          BY DEF BridgeInv, IdsShape, LogShape
        <5> QED BY <4>1, <5>1
      <4> QED BY <4>1, <4>2
    <3> QED BY <3>1, <3>2
  <2>3. CASE BackfillStep \/ BackfillFails
    <3>1. UNCHANGED ids
      BY <2>3, BackfillFrame
    <3> QED BY <3>1
  <2>4. CASE ~Link /\ ~BackfillStep /\ ~BackfillFails
    <3>1. UNCHANGED ids
      BY <2>4 DEF BridgeNext, Enqueue, OutboxWorkerStep, bridgeVars, Land, tableVars, ReplayStep,
          Deliver, ApplyTables, Adopt, Record, ReplayRestarts, ReplayMisses,
          CorrelationFails, HandlerSkipped, StatementFails, ReplayExits
    <3> QED BY <3>1
  <2> QED BY <2>2, <2>3, <2>4
<1> QED BY <1>1, BridgeInvariance, PTL DEF BridgeSpec, IdsAreFinal

\* Beside the replay and the backfill the outbox still keeps the promise of
\* OutboxAbs: a client needs to know of none of the three
THEOREM BridgeImplementsAbs == BridgeSpec => ImplementsAbs
<1> QED BY BridgeImplementsOutbox, OutboxImplementsAbs, PTL DEF ImplementsOutbox

\* Not now and then but never does a chain id reach agents or tasks: the statements
\* that should write it are all refused by the schema
THEOREM TablesNeverLinked ==
    BridgeSpec => [](/\ \A a \in agents : a.chain_agent_id = None
                     /\ \A t \in tasks : t.chain_task_id = None)
<1>1. BridgeInv => /\ \A a \in agents : a.chain_agent_id = None
                   /\ \A t \in tasks : t.chain_task_id = None
  BY DEF BridgeInv, NoChainRow
<1> QED BY <1>1, BridgeInvariance, PTL

\* No round of the backfill ever repairs a row
THEOREM BackfillIsIdle ==
    BridgeSpec => [][BackfillStep => UNCHANGED <<vars, tableVars>>]_allVars
<1>1. BridgeInv => [BackfillStep => UNCHANGED <<vars, tableVars>>]_allVars
  BY BackfillFrame DEF tableVars
<1> QED BY <1>1, BridgeInvariance, PTL

=============================================================================
