---------------------------- MODULE MCChainReplay ----------------------------
(* Instances of ChainReplay for TLC.                                        *)
EXTENDS ChainReplay, TLC

\* An empty block, one whose first event is not supported, one with two
\* supported events
MCBodies == {<<>>, <<"other", "supported">>, <<"supported", "supported">>}

Symmetry == Permutations(Replicas)

=============================================================================
