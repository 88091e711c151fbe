------------------------------ MODULE MCOutbox ------------------------------
(* Instances of Outbox for TLC.                                             *)
EXTENDS Outbox, TLC

\* Jobs, workers and hashes are interchangeable.  Used for safety only.
Symmetry == Permutations(Jobs) \cup Permutations(Workers) \cup Permutations(Hashes)

=============================================================================
