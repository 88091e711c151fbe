------------------------------ MODULE ReplayAbs ------------------------------
(***************************************************************************)
(* What the replay promises those who read its tables, without workers,    *)
(* subscriptions or faults: a mirror of the chain's finalized events and a *)
(* cursor.  Up to the cursor the mirror is complete but for events that    *)
(* were given up.  The promise does not say that nothing is given up, nor  *)
(* that the cursor only moves forward: several replicas share it.          *)
(***************************************************************************)
EXTENDS Integers

CONSTANT None

VARIABLES
    finalized,  \* positions <<block, index>> of the finalized supported events
    mirror,     \* those in chain_events
    given_up,   \* those some worker let go by
    cursor      \* the position in chain_cursors, or None

absVars == <<finalized, mirror, given_up, cursor>>

Before(e, f) == e[1] < f[1] \/ (e[1] = f[1] /\ e[2] < f[2])

AbsInit ==
    /\ finalized = {}
    /\ mirror = {}
    /\ given_up = {}
    /\ cursor = None

\* New events come after all that are finalized
Finalize ==
    /\ finalized \subseteq finalized'
    /\ \A e \in finalized' \ finalized, f \in finalized : Before(f, e)
    /\ UNCHANGED <<mirror, given_up, cursor>>

\* One event at a time, and none that is not finalized
Ingest ==
    /\ \E e \in finalized : mirror' = mirror \cup {e}
    /\ UNCHANGED <<finalized, given_up, cursor>>

\* Nothing is given up that is in the mirror
GiveUp ==
    /\ given_up \subseteq given_up'
    /\ given_up' \ given_up \subseteq finalized \ mirror
    /\ UNCHANGED <<finalized, mirror, cursor>>

\* The cursor is set to an event of the mirror up to which nothing is missing
SetCursor ==
    /\ cursor' \in mirror
    /\ \A e \in finalized : e \in mirror \cup given_up \/ Before(cursor', e)
    /\ UNCHANGED <<finalized, mirror, given_up>>

AbsNext == Finalize \/ Ingest \/ GiveUp \/ SetCursor

AbsSpec == AbsInit /\ [][AbsNext]_absVars

=============================================================================
