---------------------------- MODULE MCWasmEngine ----------------------------
(* An instance of WasmEngine for TLC.                                       *)
EXTENDS WasmEngine

\* The only JSON object among the inputs
MCJson == {<<1, 1>>}

=============================================================================
