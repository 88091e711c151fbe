---------------------------- MODULE OutboxProofs ----------------------------
(***************************************************************************)
(* Proofs about Outbox, for any number of jobs, workers, submissions,      *)
(* retries and faults.  Each step of the worker, the chain or the          *)
(* environment preserves IndInv; the properties follow from IndInv.        *)
(***************************************************************************)
EXTENDS Outbox, WellFoundedInduction, TLAPS

\* The initial state satisfies every part of the inductive invariant
LEMMA InitInv == Init => IndInv
BY DEF Init, IndInv, TypeOK, TxShape, LockExclusive, LockedIsPending,
    WatchShape, ExtShape, FinalizedIsOnChain, RetriesUnused, Accounted, InTx,
    Watching, Live, NoRow, Row, RowStatus, PC, TxState, NoExt, ExtState

\* A pending row is inserted: no worker holds it and no extrinsic carries it
LEMMA RecordOutboundExtrinsicInv ==
    ASSUME NEW j \in Jobs, IndInv, RecordOutboundExtrinsic(j)
    PROVE  IndInv'
<1>1. TypeOK'
  <2>1. [NoRow EXCEPT !.status = "pending", !.created_at = now] \in Row
    BY DEF IndInv, TypeOK, NoRow, Row, RowStatus
  <2> QED
    BY <2>1 DEF IndInv, RecordOutboundExtrinsic, workerVars, chainVars,
        TypeOK
<1>2. (TxShape /\ LockExclusive /\ LockedIsPending)'
  BY DEF IndInv, RecordOutboundExtrinsic, workerVars, TxShape,
      LockExclusive, LockedIsPending, InTx
<1>3. (WatchShape /\ ExtShape)'
  BY DEF IndInv, RecordOutboundExtrinsic, workerVars, chainVars, Watching,
      WatchShape, ExtShape
<1>4. (FinalizedIsOnChain /\ RetriesUnused)'
  BY DEF IndInv, RecordOutboundExtrinsic, chainVars, NoRow,
      FinalizedIsOnChain, RetriesUnused
<1>5. Accounted'
  BY DEF IndInv, RecordOutboundExtrinsic, workerVars, chainVars, Watching,
      Live, Detached, Accounted
<1> QED BY <1>1, <1>2, <1>3, <1>4, <1>5 DEF IndInv

\* The worker holds nothing before or after
LEMMA ConnectClientInv ==
    ASSUME NEW w \in Workers, IndInv, ConnectClient(w)
    PROVE  IndInv'
<1>1. TypeOK'
  BY DEF IndInv, ConnectClient, dbVars, chainVars, TypeOK, PC
<1>2. (TxShape /\ LockExclusive /\ LockedIsPending)'
  BY DEF IndInv, ConnectClient, dbVars, TxShape, LockExclusive,
      LockedIsPending, InTx
<1>3. (WatchShape /\ ExtShape)'
  BY DEF IndInv, ConnectClient, dbVars, chainVars, Watching, WatchShape,
      ExtShape
<1>4. (FinalizedIsOnChain /\ RetriesUnused)'
  BY DEF IndInv, ConnectClient, dbVars, chainVars, FinalizedIsOnChain,
      RetriesUnused
<1>5. Accounted'
  BY DEF IndInv, ConnectClient, dbVars, chainVars, Watching, Live, Detached,
      Accounted
<1> QED BY <1>1, <1>2, <1>3, <1>4, <1>5 DEF IndInv

\* SKIP LOCKED keeps the lock exclusive; the row is pending
LEMMA FetchJobInv ==
    ASSUME NEW w \in Workers, IndInv, FetchJob(w)
    PROVE  IndInv'
<1>1. TypeOK'
  BY DEF IndInv, FetchJob, dbVars, chainVars, TypeOK, Row, PC, TxState
<1>2. (TxShape /\ LockExclusive /\ LockedIsPending)'
  BY DEF IndInv, FetchJob, dbVars, Locked, Available, Oldest, TypeOK, TxShape,
      LockExclusive, LockedIsPending, InTx
<1>3. (WatchShape /\ ExtShape)'
  BY DEF IndInv, FetchJob, dbVars, chainVars, Watching, WatchShape, ExtShape
<1>4. (FinalizedIsOnChain /\ RetriesUnused)'
  BY DEF IndInv, FetchJob, dbVars, chainVars, FinalizedIsOnChain,
      RetriesUnused
<1>5. Accounted'
  BY DEF IndInv, FetchJob, dbVars, chainVars, Watching, Live, Detached,
      Accounted
<1> QED BY <1>1, <1>2, <1>3, <1>4, <1>5 DEF IndInv

\* The new extrinsic is watched: under the lock, or detached with it
LEMMA SubmitAcceptedInv ==
    ASSUME NEW w \in Workers, IndInv, SubmitAccepted(w)
    PROVE  IndInv'
<1>0. PICK h \in Hashes : Accept(h, job[w]) /\ hash' = [hash EXCEPT ![w] = h]
  BY DEF SubmitAccepted
<1>1. TypeOK'
  BY <1>0 DEF IndInv, SubmitAccepted, dbVars, Accept, TypeOK, PC, ExtState
<1>2. (TxShape /\ LockExclusive /\ LockedIsPending)'
  BY <1>0 DEF IndInv, SubmitAccepted, dbVars, TxShape, LockExclusive,
      LockedIsPending, InTx
<1>3. (WatchShape /\ ExtShape)'
  BY <1>0 DEF IndInv, SubmitAccepted, dbVars, NoExt, Accept, TypeOK,
      TxShape, InTx, Watching, WatchShape, ExtShape
<1>4. (FinalizedIsOnChain /\ RetriesUnused)'
  BY <1>0 DEF IndInv, SubmitAccepted, dbVars, NoExt, Accept,
      FinalizedIsOnChain, RetriesUnused
<1>5. Accounted'
  <2>1. SUFFICES ASSUME NEW g \in Hashes, Live(g)', ~Detached(g)'
                 PROVE  \/ \E v \in Workers : (tx[v] = "open" /\ Watching(v) /\ hash[v] = g)'
                        \/ (outbound[ext[g].job].status = "finalized"
                                /\ outbound[ext[g].job].tx_hash = g)'
    BY DEF Accounted
  <2>2. CASE g = h
    BY <1>0, <2>1, <2>2 DEF IndInv, SubmitAccepted, TypeOK, TxState,
        TxShape, InTx, Watching, Detached
  <2>3. CASE g # h
    <3>1. Live(g) /\ ext'[g] = ext[g]
      BY <1>0, <2>1, <2>3 DEF Accept, Live, IndInv
    <3>2. ~Detached(g)
      BY <1>0, <2>1, <2>3 DEF IndInv, SubmitAccepted, Detached, Watching
    <3>3. \A v \in Workers : Watching(v) => v # w
      BY DEF SubmitAccepted, Watching
    <3> QED
      BY <1>0, <3>1, <3>2, <3>3 DEF IndInv, Accounted, SubmitAccepted,
          dbVars, Watching
  <2> QED BY <2>2, <2>3
<1> QED BY <1>1, <1>2, <1>3, <1>4, <1>5 DEF IndInv

\* Nothing was accepted
LEMMA SubmitFailsInv ==
    ASSUME NEW w \in Workers, IndInv, SubmitFails(w)
    PROVE  IndInv'
<1>1. TypeOK'
  BY DEF IndInv, SubmitFails, dbVars, chainVars, TypeOK, PC
<1>2. (TxShape /\ LockExclusive /\ LockedIsPending)'
  BY DEF IndInv, SubmitFails, dbVars, TxShape, LockExclusive,
      LockedIsPending, InTx
<1>3. (WatchShape /\ ExtShape)'
  BY DEF IndInv, SubmitFails, dbVars, chainVars, Watching, WatchShape,
      ExtShape
<1>4. (FinalizedIsOnChain /\ RetriesUnused)'
  BY DEF IndInv, SubmitFails, dbVars, chainVars, FinalizedIsOnChain,
      RetriesUnused
<1>5. Accounted'
  BY DEF IndInv, SubmitFails, dbVars, chainVars, Watching, Live, Detached,
      Accounted
<1> QED BY <1>1, <1>2, <1>3, <1>4, <1>5 DEF IndInv

\* The watched extrinsic has succeeded
LEMMA WatchFinalizedInv ==
    ASSUME NEW w \in Workers, IndInv, WatchFinalized(w)
    PROVE  IndInv'
<1>1. TypeOK'
  BY DEF IndInv, WatchFinalized, dbVars, chainVars, TypeOK, PC
<1>2. (TxShape /\ LockExclusive /\ LockedIsPending)'
  BY DEF IndInv, WatchFinalized, dbVars, TxShape, LockExclusive,
      LockedIsPending, InTx
<1>3. (WatchShape /\ ExtShape)'
  BY DEF IndInv, WatchFinalized, dbVars, chainVars, Watching, WatchShape,
      ExtShape
<1>4. (FinalizedIsOnChain /\ RetriesUnused)'
  BY DEF IndInv, WatchFinalized, dbVars, chainVars, FinalizedIsOnChain,
      RetriesUnused
<1>5. Accounted'
  BY DEF IndInv, WatchFinalized, dbVars, chainVars, Watching, Live,
      Detached, Accounted
<1> QED BY <1>1, <1>2, <1>3, <1>4, <1>5 DEF IndInv

\* The extrinsic given up can no longer land
LEMMA WatchFailsInv ==
    ASSUME NEW w \in Workers, IndInv, WatchFails(w)
    PROVE  IndInv'
<1>1. TypeOK'
  BY DEF IndInv, WatchFails, dbVars, chainVars, TypeOK, PC
<1>2. (TxShape /\ LockExclusive /\ LockedIsPending)'
  BY DEF IndInv, WatchFails, dbVars, TxShape, LockExclusive,
      LockedIsPending, InTx
<1>3. (WatchShape /\ ExtShape)'
  BY DEF IndInv, WatchFails, dbVars, chainVars, TypeOK, Watching,
      WatchShape, ExtShape
<1>4. (FinalizedIsOnChain /\ RetriesUnused)'
  BY DEF IndInv, WatchFails, dbVars, chainVars, FinalizedIsOnChain,
      RetriesUnused
<1>5. Accounted'
  BY DEF IndInv, WatchFails, dbVars, chainVars, Watching, Live, Detached,
      Accounted
<1> QED BY <1>1, <1>2, <1>3, <1>4, <1>5 DEF IndInv

\* The watched extrinsic becomes the recorded one
LEMMA RecordFinalizedInv ==
    ASSUME NEW w \in Workers, IndInv, RecordFinalized(w)
    PROVE  IndInv'
<1>1. TypeOK'
  BY DEF IndInv, RecordFinalized, WriteFinalized, TypeOK, Row, TxShape
<1>2. (TxShape /\ LockExclusive /\ LockedIsPending)'
  BY DEF IndInv, RecordFinalized, Release, WriteFinalized, TypeOK, TxShape,
      LockExclusive, LockedIsPending, InTx
<1>3. (WatchShape /\ ExtShape)'
  BY DEF IndInv, RecordFinalized, chainVars, Release, WriteFinalized,
      TypeOK, Watching, WatchShape, ExtShape
<1>4. (FinalizedIsOnChain /\ RetriesUnused)'
  BY DEF IndInv, RecordFinalized, chainVars, WriteFinalized, TypeOK,
      Watching, FinalizedIsOnChain, RetriesUnused, LockedIsPending,
      WatchShape
<1>5. Accounted'
  BY DEF IndInv, RecordFinalized, chainVars, Release, WriteFinalized,
      TypeOK, Watching, Live, Detached, WatchShape, ExtShape,
      LockedIsPending, Accounted
<1> QED BY <1>1, <1>2, <1>3, <1>4, <1>5 DEF IndInv

\* The worker watches nothing; the row was pending with no retries
LEMMA RecordFailureInv ==
    ASSUME NEW w \in Workers, IndInv, RecordFailure(w)
    PROVE  IndInv'
<1>1. TypeOK'
  BY DEF IndInv, RecordFailure, WriteFailure, TypeOK, Row, TxShape
<1>2. (TxShape /\ LockExclusive /\ LockedIsPending)'
  BY DEF IndInv, RecordFailure, Release, NextStatus, WriteFailure, TypeOK,
      TxShape, LockExclusive, LockedIsPending, InTx
<1>3. (WatchShape /\ ExtShape)'
  BY DEF IndInv, RecordFailure, chainVars, Release, NextStatus,
      WriteFailure, TypeOK, Watching, WatchShape, ExtShape
<1>4. (FinalizedIsOnChain /\ RetriesUnused)'
  BY OutboxAssumption DEF IndInv, RecordFailure, chainVars, NextStatus,
      WriteFailure, TypeOK, FinalizedIsOnChain, RetriesUnused,
      LockedIsPending
<1>5. Accounted'
  BY DEF IndInv, RecordFailure, chainVars, Release, WriteFailure, TypeOK,
      Watching, Live, Detached, ExtShape, LockedIsPending, Accounted
<1> QED BY <1>1, <1>2, <1>3, <1>4, <1>5 DEF IndInv

\* The row is left alone; the extrinsic becomes an orphan
LEMMA RecordOnBrokenSessionInv ==
    ASSUME NEW w \in Workers, IndInv, RecordOnBrokenSession(w)
    PROVE  IndInv'
<1>1. TypeOK'
  BY DEF IndInv, RecordOnBrokenSession, dbVars, Release, Orphan, WatchShape,
      TypeOK, PC, TxState
<1>2. (TxShape /\ LockExclusive /\ LockedIsPending)'
  BY DEF IndInv, RecordOnBrokenSession, dbVars, Release, TypeOK, TxShape,
      LockExclusive, LockedIsPending, InTx
<1>3. (WatchShape /\ ExtShape)'
  BY DEF IndInv, RecordOnBrokenSession, dbVars, Watching, Release, TypeOK,
      WatchShape, ExtShape
<1>4. (FinalizedIsOnChain /\ RetriesUnused)'
  BY DEF IndInv, RecordOnBrokenSession, dbVars, FinalizedIsOnChain,
      RetriesUnused
<1>5. Accounted'
  BY DEF IndInv, RecordOnBrokenSession, dbVars, Watching, Release, Orphan,
      Live, Detached, Accounted
<1> QED BY <1>1, <1>2, <1>3, <1>4, <1>5 DEF IndInv

\* The chain decides an extrinsic of the pool
LEMMA ChainStepInv ==
    ASSUME NEW h \in Hashes, IndInv, ChainStep(h)
    PROVE  IndInv'
<1>1. TypeOK'
  BY DEF IndInv, ChainStep, dbVars, workerVars, TypeOK, ExtState
<1>2. (TxShape /\ LockExclusive /\ LockedIsPending)'
  BY DEF IndInv, ChainStep, dbVars, workerVars, TxShape, LockExclusive,
      LockedIsPending, InTx
<1>3. (WatchShape /\ ExtShape)'
  BY DEF IndInv, ChainStep, dbVars, workerVars, Watching, WatchShape,
      ExtShape
<1>4. (FinalizedIsOnChain /\ RetriesUnused)'
  BY DEF IndInv, ChainStep, dbVars, FinalizedIsOnChain, RetriesUnused
<1>5. Accounted'
  BY DEF IndInv, ChainStep, dbVars, workerVars, Watching, Live, Detached,
      Accounted
<1> QED BY <1>1, <1>2, <1>3, <1>4, <1>5 DEF IndInv

\* The lock is released; whatever was accepted becomes an orphan
LEMMA ConnectionErrorInv ==
    ASSUME NEW w \in Workers, IndInv, ConnectionError(w)
    PROVE  IndInv'
<1>a. ASSUME NEW h \in Hashes, pc[w] = "submit", Accept(h, job[w]),
             orphans' = orphans \cup {h}
      PROVE  IndInv'
  <2>1. TypeOK'
    BY <1>a DEF IndInv, ConnectionError, dbVars, Accept, Release, Fault,
        TypeOK, PC, TxState, ExtState
  <2>2. (TxShape /\ LockExclusive /\ LockedIsPending)'
    BY <1>a DEF IndInv, ConnectionError, dbVars, Release, TypeOK, TxShape,
        LockExclusive, LockedIsPending, InTx
  <2>3. (WatchShape /\ ExtShape)'
    BY <1>a DEF IndInv, ConnectionError, dbVars, Watching, NoExt, Accept,
        Release, WatchShape, TxShape, InTx, ExtShape
  <2>4. (FinalizedIsOnChain /\ RetriesUnused)'
    BY <1>a DEF IndInv, ConnectionError, dbVars, NoExt, Accept,
        FinalizedIsOnChain, RetriesUnused
  <2>5. Accounted'
    BY <1>a DEF IndInv, ConnectionError, dbVars, Watching, Accept,
        Release, Live, Detached, Accounted
  <2> QED BY <2>1, <2>2, <2>3, <2>4, <2>5 DEF IndInv
<1>b. ASSUME orphans' = Orphan(w), UNCHANGED ext
      PROVE  IndInv'
  <2>1. TypeOK'
    BY <1>b DEF IndInv, ConnectionError, dbVars, Release, Orphan, Fault,
        WatchShape, TypeOK, PC, TxState
  <2>2. (TxShape /\ LockExclusive /\ LockedIsPending)'
    BY <1>b DEF IndInv, ConnectionError, dbVars, Release, TypeOK, TxShape,
        LockExclusive, LockedIsPending, InTx
  <2>3. (WatchShape /\ ExtShape)'
    BY <1>b DEF IndInv, ConnectionError, dbVars, Watching, Release,
        WatchShape, TypeOK, ExtShape
  <2>4. (FinalizedIsOnChain /\ RetriesUnused)'
    BY <1>b DEF IndInv, ConnectionError, dbVars, FinalizedIsOnChain,
        RetriesUnused
  <2>5. Accounted'
    BY <1>b DEF IndInv, ConnectionError, dbVars, Watching, Release,
        Orphan, Live, Detached, Accounted
  <2> QED BY <2>1, <2>2, <2>3, <2>4, <2>5 DEF IndInv
<1> QED BY <1>a, <1>b DEF ConnectionError

\* The lock is kept; whatever was accepted becomes an orphan
LEMMA OutcomeUnknownInv ==
    ASSUME NEW w \in Workers, IndInv, OutcomeUnknown(w)
    PROVE  IndInv'
<1>a. ASSUME NEW h \in Hashes, pc[w] = "submit", Accept(h, job[w]),
             orphans' = orphans \cup {h}
      PROVE  IndInv'
  <2>1. TypeOK'
    BY <1>a DEF IndInv, OutcomeUnknown, dbVars, Accept, Fault, TypeOK, PC,
        ExtState
  <2>2. (TxShape /\ LockExclusive /\ LockedIsPending)'
    BY <1>a DEF IndInv, OutcomeUnknown, dbVars, TxShape, LockExclusive,
        LockedIsPending, InTx
  <2>3. (WatchShape /\ ExtShape)'
    BY <1>a DEF IndInv, OutcomeUnknown, dbVars, Watching, NoExt, Accept,
        WatchShape, TxShape, InTx, ExtShape
  <2>4. (FinalizedIsOnChain /\ RetriesUnused)'
    BY <1>a DEF IndInv, OutcomeUnknown, dbVars, NoExt, Accept,
        FinalizedIsOnChain, RetriesUnused
  <2>5. Accounted'
    BY <1>a DEF IndInv, OutcomeUnknown, dbVars, Watching, Accept, Live,
        Detached, Accounted
  <2> QED BY <2>1, <2>2, <2>3, <2>4, <2>5 DEF IndInv
<1>b. ASSUME orphans' = Orphan(w), UNCHANGED ext
      PROVE  IndInv'
  <2>1. TypeOK'
    BY <1>b DEF IndInv, OutcomeUnknown, dbVars, Orphan, Fault, WatchShape,
        TypeOK, PC
  <2>2. (TxShape /\ LockExclusive /\ LockedIsPending)'
    BY <1>b DEF IndInv, OutcomeUnknown, dbVars, TxShape, LockExclusive,
        LockedIsPending, InTx
  <2>3. (WatchShape /\ ExtShape)'
    BY <1>b DEF IndInv, OutcomeUnknown, dbVars, Watching, WatchShape,
        TypeOK, ExtShape
  <2>4. (FinalizedIsOnChain /\ RetriesUnused)'
    BY <1>b DEF IndInv, OutcomeUnknown, dbVars, FinalizedIsOnChain,
        RetriesUnused
  <2>5. Accounted'
    BY <1>b DEF IndInv, OutcomeUnknown, dbVars, Watching, Orphan, Live,
        Detached, Accounted
  <2> QED BY <2>1, <2>2, <2>3, <2>4, <2>5 DEF IndInv
<1> QED BY <1>a, <1>b DEF OutcomeUnknown

\* The lock is gone and the watched extrinsic detached
LEMMA SessionLostInv ==
    ASSUME NEW w \in Workers, IndInv, SessionLost(w)
    PROVE  IndInv'
<1>1. TypeOK'
  BY DEF IndInv, SessionLost, dbVars, chainVars, Fault, TypeOK, TxState
<1>2. (TxShape /\ LockExclusive /\ LockedIsPending)'
  BY DEF IndInv, SessionLost, dbVars, TxShape, LockExclusive,
      LockedIsPending, InTx
<1>3. (WatchShape /\ ExtShape)'
  BY DEF IndInv, SessionLost, dbVars, chainVars, Watching, WatchShape,
      ExtShape
<1>4. (FinalizedIsOnChain /\ RetriesUnused)'
  BY DEF IndInv, SessionLost, dbVars, chainVars, FinalizedIsOnChain,
      RetriesUnused
<1>5. Accounted'
  BY DEF IndInv, SessionLost, dbVars, chainVars, Watching, Live, Detached,
      Accounted
<1> QED BY <1>1, <1>2, <1>3, <1>4, <1>5 DEF IndInv

\* The lock is released and the watched extrinsic becomes an orphan
LEMMA WorkerExitsInv ==
    ASSUME NEW w \in Workers, IndInv, WorkerExits(w)
    PROVE  IndInv'
<1>1. TypeOK'
  BY DEF IndInv, WorkerExits, dbVars, Release, Orphan, Fault, WatchShape,
      TypeOK, PC, TxState
<1>2. (TxShape /\ LockExclusive /\ LockedIsPending)'
  BY DEF IndInv, WorkerExits, dbVars, Release, TypeOK, TxShape,
      LockExclusive, LockedIsPending, InTx
<1>3. (WatchShape /\ ExtShape)'
  BY DEF IndInv, WorkerExits, dbVars, Watching, Release, TypeOK, WatchShape,
      ExtShape
<1>4. (FinalizedIsOnChain /\ RetriesUnused)'
  BY DEF IndInv, WorkerExits, dbVars, FinalizedIsOnChain, RetriesUnused
<1>5. Accounted'
  BY DEF IndInv, WorkerExits, dbVars, Watching, Release, Orphan, Live,
      Detached, Accounted
<1> QED BY <1>1, <1>2, <1>3, <1>4, <1>5 DEF IndInv

\* As RecordFinalized or RecordFailure
LEMMA CommitReplyLostInv ==
    ASSUME NEW w \in Workers, IndInv, CommitReplyLost(w)
    PROVE  IndInv'
<1>1. CASE pc[w] = "record_ok" /\ WriteFinalized(w)
  <2>1. TypeOK'
    BY <1>1 DEF IndInv, CommitReplyLost, WriteFinalized, TypeOK, Row,
        TxShape
  <2>2. (TxShape /\ LockExclusive /\ LockedIsPending)'
    BY <1>1 DEF IndInv, CommitReplyLost, Release, WriteFinalized, TypeOK,
        TxShape, LockExclusive, LockedIsPending, InTx
  <2>3. (WatchShape /\ ExtShape)'
    BY <1>1 DEF IndInv, CommitReplyLost, chainVars, Release,
        WriteFinalized, TypeOK, Watching, WatchShape, ExtShape
  <2>4. (FinalizedIsOnChain /\ RetriesUnused)'
    BY <1>1 DEF IndInv, CommitReplyLost, chainVars, WriteFinalized,
        RetriesUnused, TypeOK, Watching, FinalizedIsOnChain,
        LockedIsPending, WatchShape
  <2>5. Accounted'
    BY <1>1 DEF IndInv, CommitReplyLost, chainVars, Release,
        WriteFinalized, TypeOK, Watching, Live, Detached, WatchShape,
        ExtShape, LockedIsPending, Accounted
  <2> QED BY <2>1, <2>2, <2>3, <2>4, <2>5 DEF IndInv
<1>2. CASE pc[w] = "record_err" /\ WriteFailure(w)
  <2>1. TypeOK'
    BY <1>2 DEF IndInv, CommitReplyLost, WriteFailure, TypeOK, Row,
        TxShape
  <2>2. (TxShape /\ LockExclusive /\ LockedIsPending)'
    BY <1>2 DEF IndInv, CommitReplyLost, Release, WriteFailure,
        NextStatus, TypeOK, TxShape, LockExclusive, LockedIsPending, InTx
  <2>3. (WatchShape /\ ExtShape)'
    BY <1>2 DEF IndInv, CommitReplyLost, chainVars, Release, WriteFailure,
        NextStatus, TypeOK, Watching, WatchShape, ExtShape
  <2>4. (FinalizedIsOnChain /\ RetriesUnused)'
    BY OutboxAssumption, <1>2 DEF IndInv, CommitReplyLost, chainVars,
        WriteFailure, NextStatus, RetriesUnused, TypeOK,
        FinalizedIsOnChain, LockedIsPending
  <2>5. Accounted'
    BY <1>2 DEF IndInv, CommitReplyLost, chainVars, Release, WriteFailure,
        TypeOK, Watching, Live, Detached, ExtShape, LockedIsPending,
        Accounted
  <2> QED BY <2>1, <2>2, <2>3, <2>4, <2>5 DEF IndInv
<1> QED BY <1>1, <1>2 DEF CommitReplyLost

\* The lock is released and the watched extrinsic becomes an orphan
LEMMA CrashInv ==
    ASSUME NEW w \in Workers, IndInv, Crash(w)
    PROVE  IndInv'
<1>1. TypeOK'
  BY DEF IndInv, Crash, dbVars, Release, Orphan, Fault, WatchShape, TypeOK,
      PC, TxState
<1>2. (TxShape /\ LockExclusive /\ LockedIsPending)'
  BY DEF IndInv, Crash, dbVars, Release, TypeOK, TxShape, LockExclusive,
      LockedIsPending, InTx
<1>3. (WatchShape /\ ExtShape)'
  BY DEF IndInv, Crash, dbVars, Watching, Release, TypeOK, WatchShape,
      ExtShape
<1>4. (FinalizedIsOnChain /\ RetriesUnused)'
  BY DEF IndInv, Crash, dbVars, FinalizedIsOnChain, RetriesUnused
<1>5. Accounted'
  BY DEF IndInv, Crash, dbVars, Watching, Release, Orphan, Live, Detached,
      Accounted
<1> QED BY <1>1, <1>2, <1>3, <1>4, <1>5 DEF IndInv

-----------------------------------------------------------------------------
\* Every step of the specification preserves the inductive invariant
LEMMA NextInv == IndInv /\ [Next]_vars => IndInv'
<1> SUFFICES ASSUME IndInv, [Next]_vars PROVE IndInv'
  OBVIOUS
<1>1. CASE UNCHANGED vars
  BY <1>1 DEF vars, IndInv, TypeOK, TxShape, LockExclusive, LockedIsPending,
    WatchShape, ExtShape, FinalizedIsOnChain, RetriesUnused, Accounted, InTx,
    Watching, Live, Detached
<1>2. ASSUME NEW j \in Jobs, RecordOutboundExtrinsic(j) PROVE IndInv'
  BY <1>2, RecordOutboundExtrinsicInv
<1>3. ASSUME NEW w \in Workers, WorkerStep(w) PROVE IndInv'
  BY <1>3, ConnectClientInv, FetchJobInv, SubmitAcceptedInv, SubmitFailsInv,
    WatchFinalizedInv, WatchFailsInv, RecordFinalizedInv, RecordFailureInv,
    RecordOnBrokenSessionInv DEF WorkerStep
<1>4. ASSUME NEW h \in Hashes, ChainStep(h) PROVE IndInv'
  BY <1>4, ChainStepInv
<1>5. ASSUME NEW w \in Workers, FaultStep(w) PROVE IndInv'
  BY <1>5, ConnectionErrorInv, OutcomeUnknownInv, SessionLostInv, WorkerExitsInv,
    CommitReplyLostInv, CrashInv DEF FaultStep
<1> QED BY <1>1, <1>2, <1>3, <1>4, <1>5 DEF Next

\* IndInv holds in every reachable state of the outbox
THEOREM IndInvHolds == Spec => []IndInv
<1> QED BY InitInv, NextInv, PTL DEF Spec

\* The table, the workers and the chain keep their types
THEOREM TypeCorrect == Spec => []TypeOK
<1>1. IndInv => TypeOK
  BY DEF IndInv
<1> QED BY <1>1, IndInvHolds, PTL

\* A row is finalized only with the hash of a successful extrinsic of its own job
THEOREM FinalizedCorrect == Spec => []FinalizedIsOnChain
<1>1. IndInv => FinalizedIsOnChain
  BY DEF IndInv
<1> QED BY <1>1, IndInvHolds, PTL

\* No row is retried to a second outcome and none becomes dead, for every
\* MAX_RETRIES: the retry policy of run_outbox is dead code
THEOREM RetryPolicyUnused == Spec => []RetriesUnused
<1>1. IndInv => RetriesUnused
  BY DEF IndInv
<1> QED BY <1>1, IndInvHolds, PTL

\* Without an abandoned attempt no job is submitted twice.  Of two extrinsics of
\* one job neither of which is detached, both are watched under the row's lock
\* (then by one worker, hence they are one), or both recorded (one again), or
\* one is watched while the row is pending and the other recorded in it.
THEOREM NoDuplicateWithoutFault == Spec => []SingleSubmission
<1>1. IndInv => SingleSubmission
  <2> SUFFICES ASSUME IndInv, NEW g \in Hashes, NEW h \in Hashes, g # h,
                      Live(g), Live(h), ext[g].job = ext[h].job,
                      ~Detached(g), ~Detached(h)
               PROVE  FALSE
    BY DEF SingleSubmission
  <2> DEFINE Held(x) == \E w \in Workers : tx[w] = "open" /\ Watching(w) /\ hash[w] = x
             Recorded(x) == /\ outbound[ext[x].job].status = "finalized"
                            /\ outbound[ext[x].job].tx_hash = x
  <2>1. (Held(g) \/ Recorded(g)) /\ (Held(h) \/ Recorded(h))
    BY DEF IndInv, Accounted
  <2>2. ~(Held(g) /\ Held(h))
    BY DEF IndInv, LockExclusive, WatchShape
  <2>3. ~(Recorded(g) /\ Recorded(h))
    OBVIOUS
  <2>4. ASSUME NEW x \in Hashes, Held(x) PROVE outbound[ext[x].job].status = "pending"
    BY <2>4 DEF IndInv, LockedIsPending, WatchShape
  <2> QED BY <2>1, <2>2, <2>3, <2>4
<1> QED BY <1>1, IndInvHolds, PTL

\* A row is not failed while an extrinsic of its job that was never abandoned
\* has landed or may land
THEOREM FailureIsObserved == Spec => []NoPhantomFailure
<1>1. IndInv => NoPhantomFailure
  BY DEF IndInv, NoPhantomFailure, Accounted, LockedIsPending, WatchShape
<1> QED BY <1>1, IndInvHolds, PTL

\* Among the rows that can be fetched there is an oldest one
LEMMA OldestExists ==
    ASSUME TypeOK, NEW j \in Jobs, Available(j)
    PROVE  \E k \in Jobs : Oldest(k)
<1> DEFINE T == {outbound[k].created_at : k \in {i \in Jobs : Available(i)}}
<1>1. T \subseteq Nat /\ T # {}
  BY DEF TypeOK, Row
<1> DEFINE R == OpToRel(<, Nat)
<1>r. IsWellFoundedOn(R, Nat) /\ \A x, y \in Nat : y < x => <<y, x>> \in R
  <2>1. IsWellFoundedOn(R, Nat)
    BY NatLessThanWellFounded
  <2>2. \A x, y \in Nat : y < x => <<y, x>> \in R
    BY DEF OpToRel
  <2> QED
    BY <2>1, <2>2
<1> HIDE DEF R, T
<1>2. PICK x \in T : \A y \in T : ~(<<y, x>> \in R)
  BY <1>1, <1>r, WFMin
<1>3. ASSUME NEW y \in T PROVE x <= y
  <2>1. x \in Nat /\ y \in Nat
    BY <1>1
  <2>2. ~(y < x)
    BY <1>2, <1>r, <2>1, Zenon
  <2> QED
    BY <2>1, <2>2
<1>4. PICK k \in Jobs : Available(k) /\ outbound[k].created_at = x
  BY <1>2 DEF T
<1> QED
  BY <1>3, <1>4 DEF Oldest, T

\* No lock outlives its worker's transaction, and every worker that is running can
\* go on, or waits for the chain
THEOREM WorkGoesOn == Spec => []NobodyStuck
<1>1. IndInv => NobodyStuck
  <2> SUFFICES ASSUME IndInv PROVE NobodyStuck
    OBVIOUS
  <2>1. ASSUME NEW j \in Jobs, outbound[j].status = "pending", ~Available(j)
        PROVE  \E w \in Workers : tx[w] = "open" /\ InTx(w) /\ job[w] = j
    BY <2>1 DEF Available, Locked, IndInv, TxShape
  <2>2. ASSUME NEW w \in Workers
        PROVE  /\ pc[w] = "watch" => hash[w] \in Hashes /\ ext[hash[w]].state # "unused"
               /\ pc[w] \in {"record_ok", "record_err"} => tx[w] # "none"
    BY DEF IndInv, TxShape, WatchShape, InTx, Watching
  <2> QED
    BY <2>1, <2>2, OldestExists DEF NobodyStuck, IndInv
<1> QED BY <1>1, IndInvHolds, PTL

\* A row with an outcome is never written again
THEOREM OutcomesAreFinal == Spec => TerminalRows
<1> DEFINE Stable == \A j \in Jobs : outbound[j].status \in {"finalized", "failed", "dead"}
                        => outbound'[j] = outbound[j]
<1>1. IndInv /\ [Next]_vars => [Stable]_vars
  <2> SUFFICES ASSUME IndInv, Next PROVE Stable
    OBVIOUS
  <2>1. ASSUME NEW k \in Jobs, RecordOutboundExtrinsic(k) PROVE Stable
    BY <2>1 DEF RecordOutboundExtrinsic, IndInv, TypeOK
  <2>2. ASSUME NEW w \in Workers, tx[w] = "open", WriteFinalized(w) \/ WriteFailure(w)
        PROVE  Stable
    BY <2>2 DEF WriteFinalized, WriteFailure, IndInv, TypeOK, LockedIsPending
  <2>3. ASSUME NEW w \in Workers, WorkerStep(w) PROVE Stable
    BY <2>2, <2>3 DEF WorkerStep, dbVars, ConnectClient, FetchJob, SubmitAccepted,
        SubmitFails, WatchFinalized, WatchFails, RecordFinalized, RecordFailure,
        RecordOnBrokenSession
  <2>4. ASSUME NEW h \in Hashes, ChainStep(h) PROVE Stable
    BY <2>4 DEF ChainStep, dbVars
  <2>5. ASSUME NEW w \in Workers, FaultStep(w) PROVE Stable
    BY <2>2, <2>5 DEF FaultStep, dbVars, ConnectionError, OutcomeUnknown, SessionLost,
        WorkerExits, CommitReplyLost, Crash
  <2> QED BY <2>1, <2>3, <2>4, <2>5 DEF Next
<1> QED BY <1>1, IndInvHolds, PTL DEF Spec, TerminalRows

-----------------------------------------------------------------------------
(* The refinement: every step of the outbox is a step of OutboxAbs, or none. *)

\* A step that leaves the table alone, and the chain alone but for an extrinsic
\* that enters the pool, is invisible to the client
LEMMA Invisible ==
    ASSUME IndInv, UNCHANGED outbound,
           UNCHANGED ext \/ \E h \in Hashes, j \in Jobs \cup {None} : Accept(h, j)
    PROVE  UNCHANGED Abs!absVars
<1>1. Reported' = Reported
  BY DEF Reported
<1>2. Landed' = Landed
  <2>1. CASE UNCHANGED ext
    BY <2>1 DEF Landed
  <2>2. ASSUME NEW h \in Hashes, NEW k \in Jobs \cup {None}, Accept(h, k)
        PROVE  Landed' = Landed
    <3>1. ext[h].state = "unused" /\ ext'[h].state = "pool"
      BY <2>2 DEF Accept, NoExt, IndInv, TypeOK
    <3>2. \A g \in Hashes : g # h => ext'[g] = ext[g]
      BY <2>2 DEF Accept, IndInv, TypeOK
    <3>3. ASSUME NEW j \in Jobs
          PROVE  (\E g \in Hashes : ext'[g] = [job |-> j, state |-> "success"])
                    <=> (\E g \in Hashes : ext[g] = [job |-> j, state |-> "success"])
      BY <3>1, <3>2
    <3> QED BY <3>3 DEF Landed
  <2> QED BY <2>1, <2>2
<1> QED BY <1>1, <1>2 DEF Abs!absVars

\* Committing a success is Finalize: the extrinsic the worker watched landed
LEMMA FinalizedIsFinalize ==
    ASSUME IndInv, NEW w \in Workers, pc[w] = "record_ok", tx[w] = "open",
           WriteFinalized(w), UNCHANGED ext
    PROVE  Abs!Finalize(job[w])
<1>1. job[w] \in Jobs /\ outbound[job[w]].status = "pending"
  BY DEF IndInv, TxShape, InTx, LockedIsPending
<1>2. job[w] \in Landed
  <2>1. /\ hash[w] \in Hashes
        /\ ext[hash[w]].job = job[w]
        /\ ext[hash[w]].state = "success"
    BY DEF IndInv, WatchShape, Watching
  <2>2. ext[hash[w]] = [job |-> job[w], state |-> "success"]
    BY <2>1 DEF IndInv, TypeOK
  <2> QED BY <1>1, <2>1, <2>2 DEF Landed
<1>3. Reported' = [Reported EXCEPT ![job[w]] = "finalized"]
  <2>1. outbound'[job[w]].status = "finalized"
    BY <1>1 DEF WriteFinalized, IndInv, TypeOK, Row
  <2>2. \A j \in Jobs : j # job[w] => outbound'[j] = outbound[j]
    BY <1>1 DEF WriteFinalized, IndInv, TypeOK
  <2> QED BY <1>1, <2>1, <2>2 DEF Reported
<1>4. Landed' = Landed
  BY DEF Landed
<1> QED BY <1>1, <1>2, <1>3, <1>4 DEF Abs!Finalize, Abs!Report, Reported

\* Committing a failure is Fail: the row had no retries, so it is never dead
LEMMA FailureIsFail ==
    ASSUME IndInv, NEW w \in Workers, pc[w] = "record_err", tx[w] = "open",
           WriteFailure(w), UNCHANGED ext
    PROVE  Abs!Fail(job[w])
<1>1. job[w] \in Jobs /\ outbound[job[w]].status = "pending"
  BY DEF IndInv, TxShape, InTx, LockedIsPending
<1>2. NextStatus(retry[w]) = "failed"
  BY <1>1, OutboxAssumption DEF IndInv, LockedIsPending, RetriesUnused, NextStatus
<1>3. Reported' = [Reported EXCEPT ![job[w]] = "failed"]
  <2>1. outbound'[job[w]].status = "failed"
    BY <1>1, <1>2 DEF WriteFailure, IndInv, TypeOK, Row
  <2>2. \A j \in Jobs : j # job[w] => outbound'[j] = outbound[j]
    BY <1>1 DEF WriteFailure, IndInv, TypeOK
  <2> QED BY <1>1, <2>1, <2>2 DEF Reported
<1>4. Landed' = Landed
  BY DEF Landed
<1> QED BY <1>1, <1>3, <1>4 DEF Abs!Fail, Abs!Report, Reported

\* Inserting a row is Enqueue
LEMMA RecordIsEnqueue ==
    ASSUME IndInv, NEW j \in Jobs, RecordOutboundExtrinsic(j)
    PROVE  Abs!Enqueue(j)
<1>1. Reported' = [Reported EXCEPT ![j] = "pending"]
  BY DEF Reported, RecordOutboundExtrinsic, NoRow, IndInv, TypeOK
<1>2. Landed' = Landed
  BY DEF Landed, RecordOutboundExtrinsic, chainVars
<1> QED BY <1>1, <1>2 DEF Abs!Enqueue, Abs!Report, Reported, RecordOutboundExtrinsic

\* An extrinsic that succeeds is Land of its job, which was enqueued; one that
\* fails is invisible
LEMMA ChainIsLand ==
    ASSUME IndInv, NEW h \in Hashes, ChainStep(h)
    PROVE  Abs!Land(ext[h].job) \/ UNCHANGED Abs!absVars
<1>1. PICK s \in {"success", "reverted", "gone"} : ext' = [ext EXCEPT ![h].state = s]
  BY DEF ChainStep
<1>2. ext[h].job \in Jobs /\ outbound[ext[h].job].status # "absent"
  BY DEF ChainStep, IndInv, ExtShape
<1>3. ext[h].state = "pool" /\ UNCHANGED outbound
  BY DEF ChainStep, dbVars
<1>4. \A g \in Hashes : g # h => ext'[g] = ext[g]
  BY <1>1 DEF IndInv, TypeOK
<1>5. ext'[h] = [job |-> ext[h].job, state |-> s]
  BY <1>1 DEF IndInv, TypeOK
<1>6. CASE s = "success"
  <2>1. Landed' = Landed \cup {ext[h].job}
    <3>1. ASSUME NEW j \in Jobs, j # ext[h].job
          PROVE  (\E g \in Hashes : ext'[g] = [job |-> j, state |-> "success"])
                    <=> (\E g \in Hashes : ext[g] = [job |-> j, state |-> "success"])
      BY <1>3, <1>4, <1>5, <3>1
    <3>2. \E g \in Hashes : ext'[g] = [job |-> ext[h].job, state |-> "success"]
      BY <1>5, <1>6
    <3> QED BY <1>2, <3>1, <3>2 DEF Landed
  <2> QED BY <1>2, <1>3, <2>1 DEF Abs!Land, Reported
<1>7. CASE s # "success"
  <2>1. ASSUME NEW j \in Jobs
        PROVE  (\E g \in Hashes : ext'[g] = [job |-> j, state |-> "success"])
                  <=> (\E g \in Hashes : ext[g] = [job |-> j, state |-> "success"])
    BY <1>3, <1>4, <1>5, <1>7
  <2> QED BY <1>3, <2>1 DEF Abs!absVars, Landed, Reported
<1> QED BY <1>6, <1>7

\* The outbox implements OutboxAbs: an outcome is reported once, `finalized` only
\* for a job that landed, and only what was enqueued lands
THEOREM OutboxImplementsAbs == Spec => ImplementsAbs
<1>1. Init => Abs!AbsInit
  BY DEF Init, Abs!AbsInit, Reported, Landed, NoRow, NoExt
<1>2. IndInv /\ [Next]_vars => [Abs!AbsNext]_(Abs!absVars)
  <2> SUFFICES ASSUME IndInv, [Next]_vars
               PROVE  Abs!AbsNext \/ UNCHANGED Abs!absVars
    OBVIOUS
  <2>1. CASE UNCHANGED vars
    BY <2>1, Invisible DEF vars
  <2>2. ASSUME NEW j \in Jobs, RecordOutboundExtrinsic(j) PROVE Abs!AbsNext
    BY <2>2, RecordIsEnqueue DEF Abs!AbsNext
  <2>3. ASSUME NEW w \in Workers, tx[w] = "open", UNCHANGED ext,
               \/ pc[w] = "record_ok" /\ WriteFinalized(w)
               \/ pc[w] = "record_err" /\ WriteFailure(w)
        PROVE  Abs!AbsNext
    <3>1. job[w] \in Jobs
      BY <2>3 DEF IndInv, TxShape, InTx
    <3> QED BY <2>3, <3>1, FinalizedIsFinalize, FailureIsFail DEF Abs!AbsNext
  <2>4. ASSUME NEW w \in Workers, WorkerStep(w)
        PROVE  Abs!AbsNext \/ UNCHANGED Abs!absVars
    <3>0. job[w] \in Jobs \cup {None}
      BY DEF IndInv, TypeOK
    <3>1. CASE RecordFinalized(w) \/ RecordFailure(w)
      BY <2>3, <3>1 DEF RecordFinalized, RecordFailure, chainVars
    <3>2. CASE ~(RecordFinalized(w) \/ RecordFailure(w))
      <4>1. /\ UNCHANGED outbound
            /\ UNCHANGED ext \/ \E h \in Hashes : Accept(h, job[w])
        BY <2>4, <3>2 DEF WorkerStep, dbVars, chainVars, ConnectClient, FetchJob,
            SubmitAccepted, SubmitFails, WatchFinalized, WatchFails,
            RecordOnBrokenSession
      <4> QED BY <3>0, <4>1, Invisible
    <3> QED BY <3>1, <3>2
  <2>5. ASSUME NEW h \in Hashes, ChainStep(h)
        PROVE  Abs!AbsNext \/ UNCHANGED Abs!absVars
    <3>1. ext[h].job \in Jobs
      BY <2>5 DEF ChainStep, IndInv, ExtShape
    <3> QED BY <2>5, <3>1, ChainIsLand DEF Abs!AbsNext
  <2>6. ASSUME NEW w \in Workers, FaultStep(w)
        PROVE  Abs!AbsNext \/ UNCHANGED Abs!absVars
    <3>0. job[w] \in Jobs \cup {None}
      BY DEF IndInv, TypeOK
    <3>1. CASE CommitReplyLost(w)
      BY <2>3, <3>1 DEF CommitReplyLost, chainVars
    <3>2. CASE ~CommitReplyLost(w)
      <4>1. /\ UNCHANGED outbound
            /\ UNCHANGED ext \/ \E h \in Hashes : Accept(h, job[w])
        BY <2>6, <3>2 DEF FaultStep, dbVars, chainVars, ConnectionError,
            OutcomeUnknown, SessionLost, WorkerExits, Crash
      <4> QED BY <3>0, <4>1, Invisible
    <3> QED BY <3>1, <3>2
  <2> QED BY <2>1, <2>2, <2>4, <2>5, <2>6 DEF Next
<1> QED BY <1>1, <1>2, IndInvHolds, PTL DEF Spec, ImplementsAbs, Abs!AbsSpec

=============================================================================
