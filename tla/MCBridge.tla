------------------------------ MODULE MCBridge ------------------------------
(* Instances of Bridge for TLC.                                             *)
EXTENDS Bridge, TLC

\* Jobs and hashes are interchangeable.  Used for safety only.
Symmetry == Permutations(Jobs) \cup Permutations(Hashes)

=============================================================================
