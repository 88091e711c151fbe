----------------------------- MODULE WasmEngine -----------------------------
(***************************************************************************)
(* The execution engine behind execute_task_local, local or WASM.  In the  *)
(* latter the host, CognitionWasmEngine::execute, and the guest, echo-wasm, *)
(* hand each other a task's input and output through linear memory.        *)
(* Every task gets a fresh instance, whose memory is zero but for the      *)
(* guest's data and stack (at addresses neither side touches here).        *)
(* Addresses start at 0: the byte at address a is memory[a + 1].           *)
(***************************************************************************)
EXTENDS Integers, Sequences, SequencesExt

CONSTANTS
    Bytes,      \* bytes of inputs, among them 0
    MaxInput,   \* bound on the length of an input
    Json,       \* inputs that are JSON objects; a run of zeros is none
    HEAP_BASE,  \* the linker's __heap_base in the guest
    MEMORY,     \* initial size of the linear memory, past the heap base
    PAGE,       \* 64 KiB
    U32_SIZE,   \* 2^32
    Error       \* Err(AgentError::Runtime(..))

VARIABLES
    engine,  \* the engine of AppState
    pc,      \* write, call, read: the three parts of the host's execute; done
    input,   \* ctx.input
    memory,  \* the instance's linear memory
    ret,     \* what the guest's execute returned
    output   \* what the host's execute returned

vars == <<engine, pc, input, memory, ret, output>>

Zeros(n) == [i \in 1..n |-> 0]

\* from_config: the WASM engine is used if it is asked for and its module loads
SelectEngine(kind, module) == IF kind = "wasm" /\ module = "loads" THEN "wasm" ELSE "local"

Init ==
    /\ \E kind \in {"local", "wasm"}, module \in {"not set", "fails", "loads"} :
            engine = SelectEngine(kind, module)
    /\ pc = "write"
    /\ input \in BoundedSeq(Bytes, MaxInput)
    /\ memory = Zeros(MEMORY)
    /\ ret = 0
    /\ output = Error

\* EchoAgent::execute: an object gets an annotation, what is not JSON is returned
\* unchanged.  JSON that is no object is written anew; it is left out here.
Echo(in) == IF in \in Json THEN in \o <<CHOOSE b \in Bytes : b # 0>> ELSE in

\* memory with bytes put at address a
Put(mem, a, bytes) ==
    [i \in DOMAIN mem |-> IF i \in a + 1 .. a + Len(bytes) THEN bytes[i - a] ELSE mem[i]]

\* The n bytes at address a
Get(mem, a, n) == SubSeq(mem, a + 1, a + n)

Fails == pc' = "done" /\ output' = Error

\* (len << 32) | ptr, and the two casts to i32 that undo it
Pack(ptr, len) == len * U32_SIZE + ptr
AsI32(x) == IF x >= U32_SIZE \div 2 THEN x - U32_SIZE ELSE x
OutPtr(r) == AsI32(r % U32_SIZE)
OutLen(r) == AsI32((r \div U32_SIZE) % U32_SIZE)

\* LocalEchoEngine::execute
LocalExecutes ==
    /\ pc = "write"
    /\ engine = "local"
    /\ pc' = "done"
    /\ output' = Echo(input)
    /\ UNCHANGED <<engine, input, memory, ret>>

\* memory.write at offset 0
HostWrites ==
    /\ pc = "write"
    /\ engine = "wasm"
    /\ IF Len(input) <= Len(memory)
       THEN /\ memory' = Put(memory, 0, input)
            /\ pc' = "call"
            /\ UNCHANGED output
       ELSE Fails /\ UNCHANGED memory
    /\ UNCHANGED <<engine, input, ret>>

\* The guest returns r to the host
Returns(r) == pc' = "read" /\ ret' = r /\ UNCHANGED output

\* The guest's `mem` is the PAGE bytes from the heap base on, and ptr = 0 an index
\* into it: an input that is longer is refused
GuestRefuses ==
    /\ pc = "call"
    /\ Len(input) > PAGE
    /\ Returns(-1)
    /\ UNCHANGED <<engine, input, memory>>

\* The allocator takes its heap from memory.grow, at least a page of it, before the
\* first bytes are copied (to_vec): behind the initial memory lies the guest's own
\* live heap, with any bytes, and nothing traps there.  Output written over that
\* heap may break what is freed afterwards (output, ctx.input): the call returns
\* all the same, or traps.
GuestExecutes ==
    /\ pc = "call"
    /\ Len(input) <= PAGE
    /\ \E heap \in [1..PAGE -> Bytes] :
        LET end == Len(input)
            grown == memory \o heap
            out == Echo(Get(grown, HEAP_BASE, end))
        IN  IF end + Len(out) <= PAGE
            THEN /\ memory' = Put(grown, HEAP_BASE + end, out)
                 /\ \/ Returns(Pack(end, Len(out)))
                    \/ /\ HEAP_BASE + end + Len(out) > Len(memory)
                       /\ Fails /\ UNCHANGED ret
            ELSE Returns(-1) /\ UNCHANGED memory
    /\ UNCHANGED <<engine, input>>

\* memory.read at the address the guest returned
HostReads ==
    /\ pc = "read"
    /\ LET p == OutPtr(ret)
           n == OutLen(ret)
       IN  IF p >= 0 /\ n >= 0 /\ p + n <= Len(memory)
           THEN pc' = "done" /\ output' = Get(memory, p, n)
           ELSE Fails
    /\ UNCHANGED <<engine, input, memory, ret>>

Next == LocalExecutes \/ HostWrites \/ GuestRefuses \/ GuestExecutes \/ HostReads

Spec == Init /\ [][Next]_vars

\* runtimes/wasm-rust/src/lib.rs: execute returns `the resulting output bytes` of
\* the guest, and echo-wasm is the `Reference EchoAgent compiled to WASM`: what the
\* engine returns is what EchoAgent makes of the input.  The code violates it: the
\* two sides count addresses from different origins.
WasmEchoes == pc = "done" => output \in {Error, Echo(input)}

=============================================================================
