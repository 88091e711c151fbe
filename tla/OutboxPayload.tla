---------------------------- MODULE OutboxPayload ----------------------------
(***************************************************************************)
(* The payload of an outbox row is read twice: by chain::decode_payload    *)
(* when it is queued, and by chain::submit_extrinsic when it is sent, which *)
(* may be much later and in another process.  This module says what each   *)
(* of the two demands of a field.                                          *)
(***************************************************************************)
EXTENDS Integers

CONSTANT U64_SIZE  \* 2^64 in the code

ASSUME WidthAssumption == U64_SIZE \in Nat \ {0}

\* A JSON value as the two readers see it: a number; a string (or a list of
\* strings), which is within its length cap or not and, where it is parsed (hash,
\* level, account), well formed or not; or nothing of use
Absent == [type |-> "absent"]
Number(n) == [type |-> "number", n |-> n]
Text(capped, parses) == [type |-> "string", capped |-> capped, parses |-> parses]

Value == {Absent} \cup [type : {"number"}, n : Nat]
                  \cup [type : {"string"}, capped : BOOLEAN, parses : BOOLEAN]

Calls == {"register_agent", "create_task", "submit_bid", "reveal_bid", "allocate_task",
          "submit_result", "transfer_allow_death"}

\* The fields of each call and what they hold
Role(call) ==
    CASE call = "register_agent" ->
            [did |-> "text", capabilities |-> "text", metadata |-> "optional",
             verification_level |-> "level"]
      [] call = "create_task" ->
            [spec_hash |-> "hash", budget |-> "number", deadline |-> "number",
             verification_level |-> "level"]
      [] call = "submit_bid" ->
            [task_id |-> "number", agent_id |-> "number", commitment |-> "hash",
             estimated_duration |-> "number"]
      [] call = "reveal_bid" ->
            [task_id |-> "number", agent_id |-> "number", cost |-> "number",
             nonce |-> "hash"]
      [] call = "allocate_task" -> [task_id |-> "number"]
      [] call = "submit_result" ->
            [task_id |-> "number", agent_id |-> "number", result_hash |-> "hash",
             proof |-> "optional"]
      [] call = "transfer_allow_death" -> [address |-> "account", amount |-> "amount"]

Fields(call) == DOMAIN Role(call)

Payload(call) == [Fields(call) -> Value]

\* serde_json's as_u64 finds a number
AsU64(v) == v.type = "number" /\ v.n < U64_SIZE

\* Mutant: the verification level is not checked when the row is queued
AcceptsAnyLevel(role, v) ==
    CASE role = "text"     -> v.type = "string" /\ v.capped
      [] role = "optional" -> v.type = "string" => v.capped
      [] role = "hash"     -> v.type = "string" /\ v.parses
      [] role = "account"  -> v.type = "string" /\ v.capped
      [] role = "amount"   -> AsU64(v)
      [] OTHER -> TRUE

\* What decode_payload demands of a field.  It calls get_u64 for the numbers and
\* drops the result.
Accepts(role, v) ==
    CASE role = "text"     -> v.type = "string" /\ v.capped
      [] role = "optional" -> v.type = "string" => v.capped
      [] role = "hash"     -> v.type = "string" /\ v.parses
      [] role = "level"    -> v.type = "string" => v.parses
      [] role = "account"  -> v.type = "string" /\ v.capped
      [] role = "amount"   -> AsU64(v)
      [] role = "number"   -> TRUE

\* What submit_extrinsic needs of a field to build the call
Reads(role, v) ==
    CASE role = "text"     -> v.type = "string"
      [] role = "optional" -> TRUE
      [] role = "hash"     -> v.type = "string" /\ v.parses
      [] role = "level"    -> v.type = "string" => v.parses
      [] role = "account"  -> v.type = "string" /\ v.parses
      [] role \in {"amount", "number"} -> AsU64(v)

\* decode_payload, validate_outbox_payload
DecodePayload(call, p) ==
    /\ call \in Calls
    /\ \A f \in Fields(call) : Accepts(Role(call)[f], p[f])

\* submit_extrinsic, up to the call it sends
BuildsCall(call, p) ==
    /\ DecodePayload(call, p)
    /\ \A f \in Fields(call) : Reads(Role(call)[f], p[f])

=============================================================================
