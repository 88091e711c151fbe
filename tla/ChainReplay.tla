----------------------------- MODULE ChainReplay -----------------------------
(***************************************************************************)
(* The replay worker chain::run_chain_replay on the Postgres sink: it      *)
(* subscribes to finalized blocks, applies every supported event to the    *)
(* application tables, mirrors it in chain_events and keeps the position   *)
(* of the last one in chain_cursors.                                       *)
(*                                                                         *)
(* An event is its position <<block number, index in the block>> and its   *)
(* kind.  What the handlers write is the subject of Bridge; here a handler *)
(* only marks its event as applied.                                        *)
(***************************************************************************)
EXTENDS Integers, Sequences

CONSTANTS
    Replicas,   \* the replay workers, one per orchestrator process
    Bodies,     \* the event lists a block may have
    MaxEvents,  \* bound on the events of a block
    MaxBlocks,  \* bound on the length of the chain
    MaxFaults,  \* bound on the environment's faults
    None

Kinds == {"supported", "other"}  \* is_supported(pallet, variant), or not

ASSUME ReplayAssumption ==
    /\ Bodies \subseteq Seq(Kinds)
    /\ MaxEvents \in Nat /\ \A b \in Bodies : Len(b) <= MaxEvents
    /\ MaxBlocks \in Nat
    /\ MaxFaults \in Nat
    /\ None \notin Nat \X Nat

VARIABLES
    chain,         \* the finalized blocks; block n is chain[n]
    chain_events,  \* table chain_events: the primary keys of its rows
    cursor,        \* table chain_cursors: the only row, or None
    applied,       \* history: the events whose handler has run
    missed,        \* history: events of blocks no subscription delivers
    dropped,       \* history: events delivered but not fetched or not decoded
    pc,            \* where each worker is in run_chain_replay
    next,          \* the subscription: the next block it delivers
    block,         \* local `block`: the number of the block in hand
    idx,           \* the index of the event in hand
    last_cursor,   \* local `last_cursor`
    max_cursor,    \* local `max_cursor`
    faults

dbVars == <<chain_events, cursor, applied>>
lossVars == <<missed, dropped>>
localVars == <<next, block, idx, last_cursor, max_cursor>>
vars == <<chain, chain_events, cursor, applied, missed, dropped, pc, next, block,
          idx, last_cursor, max_cursor, faults>>

Position == Nat \X Nat

\* exited: run_chain_replay returned Err, and nothing restarts the task
PC == {"connect", "subscribe", "load", "next", "fetch", "event", "record", "flush",
       "exited"}

TypeOK ==
    /\ chain \in Seq(Bodies)
    /\ chain_events \in SUBSET Position
    /\ cursor \in Position \cup {None}
    /\ applied \in SUBSET Position
    /\ missed \in SUBSET Position
    /\ dropped \in SUBSET Position
    /\ pc \in [Replicas -> PC]
    /\ next \in [Replicas -> Nat]
    /\ block \in [Replicas -> Nat]
    /\ idx \in [Replicas -> Nat]
    /\ last_cursor \in [Replicas -> Position]
    /\ max_cursor \in [Replicas -> Position]
    /\ faults \in Nat

Init ==
    /\ chain = <<>>
    /\ chain_events = {}
    /\ cursor = None
    /\ applied = {}
    /\ missed = {}
    /\ dropped = {}
    /\ pc = [r \in Replicas |-> "connect"]
    /\ next = [r \in Replicas |-> 0]
    /\ block = [r \in Replicas |-> 0]
    /\ idx = [r \in Replicas |-> 0]
    /\ last_cursor = [r \in Replicas |-> <<0, 0>>]
    /\ max_cursor = [r \in Replicas |-> <<0, 0>>]
    /\ faults = 0

-----------------------------------------------------------------------------
AtOrBefore(e, c) == e[1] < c[1] \/ (e[1] = c[1] /\ e[2] <= c[2])

\* The events of block n; event.index() counts from 0
EventsOf(n) == {<<n, i - 1>> : i \in 1..Len(chain[n])}

KindOf(e) == chain[e[1]][e[2] + 1]

Supported == {e \in UNION {EventsOf(n) : n \in 1..Len(chain)} : KindOf(e) = "supported"}

\* The events among S that the worker should have mirrored and has not
Lost(S) == (S \cap Supported) \ chain_events

\* The event in hand
Event(r) == <<block[r], idx[r]>>

Goto(r, label) == pc' = [pc EXCEPT ![r] = label]

-----------------------------------------------------------------------------
(* The chain (external): one more block is finalized.                       *)
FinalizeBlock ==
    /\ Len(chain) < MaxBlocks
    /\ \E b \in Bodies : chain' = Append(chain, b)
    /\ UNCHANGED <<dbVars, lossVars, pc, localVars, faults>>

-----------------------------------------------------------------------------
(* The worker.                                                              *)

\* from_url, retried every 3s
Connect(r) ==
    /\ pc[r] = "connect"
    /\ Goto(r, "subscribe")
    /\ UNCHANGED <<chain, dbVars, lossVars, localVars, faults>>

\* Mutant: the subscription starts after the head
SubscribeAfterHead(r) ==
    /\ pc[r] = "subscribe"
    /\ next' = [next EXCEPT ![r] = Len(chain) + 1]
    /\ missed' = missed \cup Lost(UNION {EventsOf(n) : n \in 1..Len(chain) - 1})
    /\ Goto(r, "load")
    /\ UNCHANGED <<chain, dbVars, dropped, block, idx, last_cursor, max_cursor, faults>>

\* subscribe_finalized delivers the finalized head and what follows it; the
\* blocks before the head, wherever the cursor is, are never delivered
Subscribe(r) ==
    /\ pc[r] = "subscribe"
    /\ next' = [next EXCEPT ![r] = IF chain = <<>> THEN 1 ELSE Len(chain)]
    /\ missed' = missed \cup Lost(UNION {EventsOf(n) : n \in 1..Len(chain) - 1})
    /\ Goto(r, "load")
    /\ UNCHANGED <<chain, dbVars, dropped, block, idx, last_cursor, max_cursor, faults>>

\* Mutant: the cursor is not loaded
LoadCursorNever(r) ==
    /\ pc[r] = "load"
    /\ last_cursor' = [last_cursor EXCEPT ![r] = <<0, 0>>]
    /\ Goto(r, "next")
    /\ UNCHANGED <<chain, dbVars, lossVars, next, block, idx, max_cursor, faults>>

\* last_cursor = sink.last_chain_cursor().await?.unwrap_or((0, 0))
LoadCursor(r) ==
    /\ pc[r] = "load"
    /\ last_cursor' = [last_cursor EXCEPT ![r] =
                            IF cursor = None THEN <<0, 0>> ELSE cursor]
    /\ Goto(r, "next")
    /\ UNCHANGED <<chain, dbVars, lossVars, next, block, idx, max_cursor, faults>>

\* blocks.next() yields a block
NextBlock(r) ==
    /\ pc[r] = "next"
    /\ next[r] <= Len(chain)
    /\ block' = [block EXCEPT ![r] = next[r]]
    /\ next' = [next EXCEPT ![r] = next[r] + 1]
    /\ max_cursor' = [max_cursor EXCEPT ![r] = last_cursor[r]]
    /\ Goto(r, "fetch")
    /\ UNCHANGED <<chain, dbVars, lossVars, idx, last_cursor, faults>>

\* block.events()
FetchEvents(r) ==
    /\ pc[r] = "fetch"
    /\ idx' = [idx EXCEPT ![r] = 0]
    /\ Goto(r, "event")
    /\ UNCHANGED <<chain, dbVars, lossVars, next, block, last_cursor, max_cursor, faults>>

HasEvent(r) == pc[r] = "event" /\ idx[r] < Len(chain[block[r]])

\* Mutant: no comparison with the cursor
SeenNever(r) == FALSE

\* The cursor skip: this event was ingested before
Seen(r) == AtOrBefore(Event(r), last_cursor[r])

\* The two `continue`s of the event loop
SkipEvent(r) ==
    /\ HasEvent(r)
    /\ Seen(r) \/ KindOf(Event(r)) = "other"
    /\ idx' = [idx EXCEPT ![r] = idx[r] + 1]
    /\ UNCHANGED <<chain, dbVars, lossVars, pc, next, block, last_cursor, max_cursor,
                   faults>>

\* Mutant: the event is recorded although its handler has not run
ApplyNothing(r) ==
    /\ HasEvent(r)
    /\ ~Seen(r)
    /\ KindOf(Event(r)) = "supported"
    /\ Goto(r, "record")
    /\ UNCHANGED <<chain, dbVars, lossVars, localVars, faults>>

\* The handler of a supported event writes the application tables
ApplyEvent(r) ==
    /\ HasEvent(r)
    /\ ~Seen(r)
    /\ KindOf(Event(r)) = "supported"
    /\ applied' = applied \cup {Event(r)}
    /\ Goto(r, "record")
    /\ UNCHANGED <<chain, chain_events, cursor, lossVars, localVars, faults>>

\* INSERT INTO chain_events ... ON CONFLICT DO NOTHING; max_cursor moves on
RecordChainEvent(r) ==
    /\ pc[r] = "record"
    /\ chain_events' = chain_events \cup {Event(r)}
    /\ max_cursor' = [max_cursor EXCEPT ![r] = Event(r)]
    /\ idx' = [idx EXCEPT ![r] = idx[r] + 1]
    /\ Goto(r, "event")
    /\ UNCHANGED <<chain, cursor, applied, lossVars, next, block, last_cursor, faults>>

\* Mutant: the cursor is written after every block
AdvancedAlways(r) == TRUE

Advanced(r) == ~AtOrBefore(max_cursor[r], last_cursor[r])

\* The event loop ends; the cursor is written only if it has moved
EndBlock(r) ==
    /\ pc[r] = "event"
    /\ ~HasEvent(r)
    /\ Goto(r, IF Advanced(r) THEN "flush" ELSE "next")
    /\ UNCHANGED <<chain, dbVars, lossVars, localVars, faults>>

\* Mutant: the row names the event before the last one handled, so that the last is
\* handled again after a restart: event_index as i32 - 1
UpdateChainCursorBefore(r) ==
    /\ pc[r] = "flush"
    /\ cursor' = <<max_cursor[r][1], max_cursor[r][2] - 1>>
    /\ last_cursor' = [last_cursor EXCEPT ![r] = max_cursor[r]]
    /\ Goto(r, "next")
    /\ UNCHANGED <<chain, chain_events, applied, lossVars, next, block, idx, max_cursor,
                   faults>>

\* update_chain_cursor: the row is overwritten, whatever it holds
UpdateChainCursor(r) ==
    /\ pc[r] = "flush"
    /\ cursor' = max_cursor[r]
    /\ last_cursor' = [last_cursor EXCEPT ![r] = max_cursor[r]]
    /\ Goto(r, "next")
    /\ UNCHANGED <<chain, chain_events, applied, lossVars, next, block, idx, max_cursor,
                   faults>>

ReplayStep(r) ==
    \/ Connect(r)
    \/ Subscribe(r)
    \/ LoadCursor(r)
    \/ NextBlock(r)
    \/ FetchEvents(r)
    \/ SkipEvent(r)
    \/ ApplyEvent(r)
    \/ RecordChainEvent(r)
    \/ EndBlock(r)
    \/ UpdateChainCursor(r)

-----------------------------------------------------------------------------
(* Faults.  Each counts against MaxFaults.                                  *)

Fault == faults < MaxFaults /\ faults' = faults + 1

\* subscribe_finalized fails, or the subscription ends or yields an error:
\* reconnect
SubscriptionEnds(r) ==
    /\ Fault
    /\ pc[r] \in {"subscribe", "next"}
    /\ Goto(r, "connect")
    /\ UNCHANGED <<chain, dbVars, lossVars, localVars>>

\* block.events() fails: the block is dropped with a warning
FetchFails(r) ==
    /\ Fault
    /\ pc[r] = "fetch"
    /\ dropped' = dropped \cup Lost(EventsOf(block[r]))
    /\ Goto(r, "next")
    /\ UNCHANGED <<chain, dbVars, missed, localVars>>

\* An event does not decode: it, and perhaps more of the block, is dropped
DecodeFails(r) ==
    /\ Fault
    /\ HasEvent(r)
    /\ \E k \in idx[r] + 1..Len(chain[block[r]]) :
        /\ dropped' = dropped \cup Lost({<<block[r], i>> : i \in idx[r]..k - 1})
        /\ idx' = [idx EXCEPT ![r] = k]
    /\ UNCHANGED <<chain, dbVars, missed, pc, next, block, last_cursor, max_cursor>>

\* Mutant: update_chain_cursor deletes the row before it inserts the new one
SinkFailsBetween(r) ==
    /\ Fault
    /\ \/ /\ pc[r] \in {"load", "record", "flush"}
          /\ UNCHANGED <<chain_events, cursor>>
       \/ /\ pc[r] = "flush"
          /\ cursor' = None
          /\ UNCHANGED chain_events
    /\ Goto(r, "exited")
    /\ UNCHANGED <<chain, applied, lossVars, localVars>>

\* A statement of the sink fails, or only its reply is lost: `?` ends the worker
SinkFails(r) ==
    /\ Fault
    /\ \/ /\ pc[r] \in {"load", "record", "flush"}
          /\ UNCHANGED <<chain_events, cursor>>
       \/ /\ pc[r] = "record"
          /\ chain_events' = chain_events \cup {Event(r)}
          /\ UNCHANGED cursor
       \/ /\ pc[r] = "flush"
          /\ cursor' = max_cursor[r]
          /\ UNCHANGED chain_events
    /\ Goto(r, "exited")
    /\ UNCHANGED <<chain, applied, lossVars, localVars>>

\* The process dies and is restarted
Crash(r) ==
    /\ Fault
    /\ Goto(r, "connect")
    /\ UNCHANGED <<chain, dbVars, lossVars, localVars>>

FaultStep(r) ==
    \/ SubscriptionEnds(r)
    \/ FetchFails(r)
    \/ DecodeFails(r)
    \/ SinkFails(r)
    \/ Crash(r)

-----------------------------------------------------------------------------
Next ==
    \/ FinalizeBlock
    \/ \E r \in Replicas : ReplayStep(r)
    \/ \E r \in Replicas : FaultStep(r)

Spec == Init /\ [][Next]_vars

\* A replay task that can run is run.  The chain need not grow.
Fairness == \A r \in Replicas : WF_vars(ReplayStep(r))

FairSpec == Spec /\ Fairness

-----------------------------------------------------------------------------
(* Properties.                                                              *)

Reached(e) == cursor # None /\ AtOrBefore(e, cursor)

\* The cursor only ever names an event that was applied and mirrored, so the
\* event it points at is never lost by a crash between the two statements.
CursorOnRecorded == cursor # None => cursor \in chain_events \cap applied

\* Every supported event at or before the persisted cursor was applied and then
\* mirrored, unless the worker let it go by: the blocks finalized while it was
\* not subscribed, a block it could not fetch, an event it could not decode.
\* Crashes between apply, record and flush, and a second replica writing the
\* same tables, lose nothing.
NoSilentSkip ==
    \A e \in Supported : Reached(e) => e \in (chain_events \cap applied) \cup missed \cup dropped

\* Only what the chain has finalized, and only supported events, are applied
\* or mirrored.
MirrorIsFinalized == chain_events \subseteq applied /\ applied \subseteq Supported

\* With one replica the persisted cursor never moves back.
CursorMonotone ==
    [][cursor # None => cursor' # None /\ AtOrBefore(cursor, cursor')]_cursor

\* With one replica an event at or before the persisted cursor is never applied
\* again: the local last_cursor is never behind the table.
NoReapply ==
    [][\A r \in Replicas :
            (pc[r] = "event" /\ pc'[r] = "record") => ~Reached(Event(r))]_vars

\* Every finalized supported event is applied and mirrored or let go by, unless
\* every worker has ended with an error.
EventuallyIngested ==
    \A n \in 1..MaxBlocks, i \in 0..MaxEvents - 1 :
        <<n, i>> \in Supported ~>
            \/ <<n, i>> \in chain_events \cup missed \cup dropped
            \/ \A r \in Replicas : pc[r] = "exited"

-----------------------------------------------------------------------------
(* The inductive invariant behind the safety properties, in named parts.    *)

\* Ingested, or let go by
Covered(e) == e \in chain_events \cup missed \cup dropped

\* Every supported event at or before position c is covered
CoveredUpTo(c) == \A e \in Supported : AtOrBefore(e, c) => Covered(e)

\* A worker has left event e behind: it is before what the worker reads next
Behind(r, e) ==
    \/ pc[r] \in {"load", "next", "flush"} /\ e[1] < next[r]
    \/ pc[r] \in {"fetch", "event", "record"} /\ e[1] < block[r]
    \/ pc[r] \in {"event", "record"} /\ e[1] = block[r] /\ e[2] < idx[r]

\* The locals are consistent with each other and with the chain
LocalShape ==
    \A r \in Replicas :
        /\ pc[r] \in {"load", "next"} => next[r] \in 1..Len(chain) + 1
        /\ pc[r] \in {"fetch", "event", "record", "flush"} =>
                block[r] \in 1..Len(chain) /\ next[r] = block[r] + 1
        /\ pc[r] = "event" => idx[r] <= Len(chain[block[r]])
        /\ pc[r] = "record" => Event(r) \in Supported \cap applied

\* The cursors name the origin or a mirrored event; max_cursor is last_cursor or
\* an event of the block in hand that was passed; it is flushed only if later
CursorShape ==
    \A r \in Replicas :
        /\ last_cursor[r] \in {<<0, 0>>} \cup chain_events
        /\ max_cursor[r] \in {<<0, 0>>} \cup chain_events
        /\ pc[r] \in {"fetch", "event", "record", "flush"} =>
                \/ max_cursor[r] = last_cursor[r]
                \/ /\ pc[r] # "fetch"
                   /\ max_cursor[r][1] = block[r]
                   /\ pc[r] \in {"event", "record"} => max_cursor[r][2] < idx[r]
        /\ pc[r] = "flush" => Advanced(r)

\* Nothing behind a worker, or at or before a cursor, was lost silently
AllCovered ==
    /\ cursor # None => CoveredUpTo(cursor)
    /\ \A r \in Replicas :
        /\ CoveredUpTo(last_cursor[r])
        /\ \A e \in Supported : Behind(r, e) => Covered(e)

IndInv ==
    /\ TypeOK
    /\ MirrorIsFinalized
    /\ CursorOnRecorded
    /\ LocalShape
    /\ CursorShape
    /\ AllCovered

\* The only replica knows the cursor in the table
CursorKnown ==
    \A r \in Replicas :
        pc[r] \in {"next", "fetch", "event", "record", "flush"} =>
            last_cursor[r] = IF cursor = None THEN <<0, 0>> ELSE cursor

-----------------------------------------------------------------------------
\* The replay keeps the promise of ReplayAbs
Mirror == INSTANCE ReplayAbs WITH
    finalized <- Supported,
    mirror    <- chain_events,
    given_up  <- missed \cup dropped

\* The workers of any number of replicas, with their faults, implement ReplayAbs:
\* each step mirrors one finalized event, gives up events that are not mirrored,
\* sets the cursor where nothing before it is missing at that moment, or is none
\* of the reader's business.
ImplementsMirror == Mirror!AbsSpec

-----------------------------------------------------------------------------
\* docs/operations/orchestrator-storage.md: on restart the worker replays from
\* the cursor to ensure convergence.  So, from the first event it mirrored up to
\* the cursor, it should lack only events it had in hand and dropped.  The code
\* violates it: the new subscription starts at the head of the chain.
ReplaysFromCursor ==
    \A e \in Supported :
        (Reached(e) /\ \E f \in chain_events : AtOrBefore(f, e)) =>
            e \in chain_events \cup dropped

=============================================================================
