--------------------------- MODULE WasmEngineProofs ---------------------------
(***************************************************************************)
(* What the WASM engine answers, for every input: the run wasm_echo shows  *)
(* one input that is not echoed, the theorem says that none is but zeros.  *)
(***************************************************************************)
EXTENDS WasmEngine, SequenceTheorems, TLAPS

\* How a module is laid out: the heap base lies behind the stack, of a megabyte,
\* and so behind the first page.  No run of zeros is JSON.
Layout ==
    /\ {MaxInput, HEAP_BASE, MEMORY, PAGE, U32_SIZE} \subseteq Nat
    /\ PAGE <= HEAP_BASE
    /\ HEAP_BASE <= MEMORY
    /\ PAGE < U32_SIZE \div 2
    /\ \E b \in Bytes : b # 0
    /\ \A n \in Nat : Zeros(n) \notin Json

\* The guest's input and output lie before the end of the memory it started with
Inside == 2 * Len(input) <= PAGE /\ HEAP_BASE + 2 * Len(input) <= MEMORY

\* What the WASM engine answers instead: nothing but zeros or an error, and exactly as
\* many zeros as the input has bytes when the guest stays inside its first memory.  No
\* byte of the input, of the guest's heap or of its output ever reaches the caller.
ZerosOrError ==
    pc = "done" /\ engine = "wasm" =>
        /\ output = Error \/ \E n \in 0 .. PAGE : output = Zeros(n)
        /\ Inside => output = Zeros(Len(input))

\* What the guest's execute may have returned, with an output of n bytes behind the
\* input or none
Returned ==
    \/ ret = -1 /\ ~Inside
    \/ \E n \in Nat : /\ Len(input) + n <= PAGE
                      /\ ret = Pack(Len(input), n)
                      /\ Inside => n = Len(input)

\* Before the host writes, before the guest runs, before the host reads: what lies
\* between the input and the end of the first page is zero all along
WasmInv ==
    /\ input \in Seq(Bytes)
    /\ pc \in {"write", "call", "read", "done"}
    /\ pc = "write" => memory = Zeros(MEMORY)
    /\ pc = "call" => /\ engine = "wasm"
                      /\ Len(input) <= MEMORY
                      /\ memory = Put(Zeros(MEMORY), 0, input)
    /\ pc = "read" => /\ engine = "wasm"
                      /\ memory \in Seq(Bytes \cup {0})
                      /\ PAGE <= Len(memory)
                      /\ \A i \in Len(input) + 1 .. PAGE : memory[i] = 0
                      /\ Returned
    /\ ZerosOrError

-----------------------------------------------------------------------------
\* The two halves of a packed number, for any base
LEMMA DivMod ==
    ASSUME NEW a \in Nat, NEW b \in Nat, NEW u \in Nat, b < u
    PROVE  (a * u + b) % u = b /\ (a * u + b) \div u = a
<1> DEFINE x == a * u + b
           q == x \div u
           m == x % u
<1>1. m \in Nat /\ m < u /\ q \in Nat /\ x = q * u + m
  BY SMT
<1> HIDE DEF q, m
<1>2. (a - q) * u = m - b
  BY <1>1, SMT
<1>3. a - q < 1 /\ a - q > -1
  BY <1>1, <1>2, SMT
<1> QED
  BY <1>1, <1>3, SMT DEF q, m

\* The host undoes the guest's packing
LEMMA Unpack ==
    ASSUME Layout, NEW p \in Nat, NEW n \in Nat, p <= PAGE, n <= PAGE
    PROVE  OutPtr(Pack(p, n)) = p /\ OutLen(Pack(p, n)) = n
<1>1. U32_SIZE \in Nat /\ p < U32_SIZE \div 2 /\ n < U32_SIZE \div 2
  BY DEF Layout
<1>2. p < U32_SIZE /\ n < U32_SIZE
  BY <1>1
<1>3. Pack(p, n) % U32_SIZE = p /\ Pack(p, n) \div U32_SIZE = n
  BY <1>1, <1>2, DivMod DEF Pack
<1>4. n % U32_SIZE = n
  BY <1>1, <1>2
<1> QED
  BY <1>1, <1>3, <1>4 DEF OutPtr, OutLen, AsI32

\* The guest's -1 is refused
LEMMA UnpackError ==
    ASSUME Layout
    PROVE  OutPtr(-1) < 0
<1>1. U32_SIZE \in Nat /\ U32_SIZE > 1
  BY DEF Layout
<1>2. (-1) % U32_SIZE = U32_SIZE - 1
  BY <1>1
<1> QED
  BY <1>1, <1>2 DEF OutPtr, AsI32

\* Writing keeps the length of the memory and what is outside the bytes written
LEMMA PutSeq ==
    ASSUME NEW S, NEW mem \in Seq(S), NEW a \in Nat, NEW bytes \in Seq(S),
           NEW m, m = Put(mem, a, bytes)
    PROVE  /\ m \in Seq(S)
           /\ Len(m) = Len(mem)
           /\ \A i \in 1..Len(mem) : i \notin a + 1 .. a + Len(bytes) => m[i] = mem[i]
<1>1. DOMAIN mem = 1..Len(mem) /\ Len(mem) \in Nat /\ Len(bytes) \in Nat
  OBVIOUS
<1>2. \A i \in 1..Len(mem) : i \in a + 1 .. a + Len(bytes) => bytes[i - a] \in S
  BY <1>1
<1>3. m \in [1..Len(mem) -> S]
  BY <1>1, <1>2 DEF Put
<1> QED
  BY <1>1, <1>3 DEF Put

\* Zeros is a sequence
LEMMA ZerosSeq ==
    ASSUME NEW n \in Nat
    PROVE  Zeros(n) \in Seq({0}) /\ Len(Zeros(n)) = n /\ \A i \in 1..n : Zeros(n)[i] = 0
BY DEF Zeros

\* A stretch of zeros reads as zeros
LEMMA GetZeros ==
    ASSUME NEW S, NEW mem \in Seq(S), NEW a \in Nat, NEW n \in Nat, a + n <= Len(mem),
           \A i \in a + 1 .. a + n : mem[i] = 0
    PROVE  Get(mem, a, n) = Zeros(n)
<1>1. /\ Get(mem, a, n) \in Seq(S)
      /\ Len(Get(mem, a, n)) = n
      /\ \A i \in 1..n : Get(mem, a, n)[i] = mem[a + i]
  BY DEF Get
<1>2. ASSUME NEW i \in 1..n PROVE Get(mem, a, n)[i] = Zeros(n)[i]
  <2>1. a + i \in a + 1 .. a + n
    OBVIOUS
  <2>2. mem[a + i] = 0
    BY <2>1
  <2> QED
    BY <1>1, <2>2, ZerosSeq
<1>3. Len(Zeros(n)) = n /\ Zeros(n) \in Seq({0})
  BY ZerosSeq
<1> QED
  BY <1>1, <1>2, <1>3, SeqEqual

\* What EchoAgent makes of bytes is bytes
LEMMA EchoSeq ==
    ASSUME Layout, NEW in \in Seq(Bytes \cup {0})
    PROVE  Echo(in) \in Seq(Bytes \cup {0})
<1> DEFINE b == CHOOSE x \in Bytes : x # 0
<1>1. b \in Bytes
  BY DEF Layout
<1> HIDE DEF b
<1>2. <<b>> \in Seq(Bytes \cup {0})
  BY <1>1
<1>3. in \o <<b>> \in Seq(Bytes \cup {0})
  BY <1>2
<1> QED
  BY <1>3 DEF Echo, b

-----------------------------------------------------------------------------
\* A fresh instance
LEMMA InitInv ==
    ASSUME Layout, Init
    PROVE  WasmInv
<1>1. PICK m \in 0..MaxInput : input \in [1..m -> Bytes]
  BY DEF Init, BoundedSeq, SeqOf
<1>2. input \in Seq(Bytes)
  BY <1>1 DEF Layout
<1> QED
  BY <1>2 DEF Init, WasmInv, ZerosOrError

\* The host writes the input at address 0, in front of the heap base if it fits
LEMMA HostWritesInv ==
    ASSUME Layout, WasmInv, HostWrites
    PROVE  WasmInv'
<1>1. /\ Len(input) \in Nat /\ MEMORY \in Nat /\ Len(memory) = MEMORY
      /\ PAGE \in Nat /\ HEAP_BASE \in Nat
  BY ZerosSeq DEF Layout, WasmInv, HostWrites
<1>2. CASE Len(input) <= Len(memory)
  BY <1>1, <1>2 DEF WasmInv, HostWrites, ZerosOrError
<1>3. CASE ~(Len(input) <= Len(memory))
  <2>1. ~Inside
    BY <1>1, <1>3 DEF Inside
  <2> QED
    BY <1>3, <2>1 DEF WasmInv, HostWrites, Fails, ZerosOrError, Inside
<1> QED
  BY <1>2, <1>3

\* What the guest finds: the input in front, zeros behind it
LEMMA WrittenMemory ==
    ASSUME Layout, WasmInv, pc = "call"
    PROVE  /\ Len(input) \in Nat
           /\ memory \in Seq(Bytes \cup {0})
           /\ Len(memory) = MEMORY
           /\ \A i \in Len(input) + 1 .. MEMORY : memory[i] = 0
<1>1. /\ input \in Seq(Bytes \cup {0}) /\ Len(input) \in Nat
      /\ MEMORY \in Nat /\ memory = Put(Zeros(MEMORY), 0, input)
  BY DEF WasmInv, Layout
<1>2. Zeros(MEMORY) \in Seq(Bytes \cup {0}) /\ Len(Zeros(MEMORY)) = MEMORY
  BY <1>1, ZerosSeq
<1>3. /\ memory \in Seq(Bytes \cup {0})
      /\ Len(memory) = MEMORY
      /\ \A i \in 1..MEMORY : i \notin 0 + 1 .. 0 + Len(input) => memory[i] = Zeros(MEMORY)[i]
  BY <1>1, <1>2, PutSeq
<1>4. \A i \in Len(input) + 1 .. MEMORY : i \in 1..MEMORY /\ i \notin 0 + 1 .. 0 + Len(input)
  BY <1>1
<1> QED
  BY <1>1, <1>3, <1>4, ZerosSeq

\* The guest refuses what is longer than a page
LEMMA GuestRefusesInv ==
    ASSUME Layout, WasmInv, GuestRefuses
    PROVE  WasmInv'
<1>1. /\ pc = "call" /\ pc' = "read" /\ ret' = -1 /\ engine = "wasm"
      /\ UNCHANGED <<engine, input, memory, output>>
      /\ Len(input) \in Nat /\ Len(input) > PAGE /\ PAGE \in Nat
      /\ MEMORY \in Nat /\ PAGE <= MEMORY
  BY DEF GuestRefuses, Returns, WasmInv, Layout
<1>2. ~Inside
  BY <1>1 DEF Inside
<1>3. Returned' /\ ZerosOrError'
  BY <1>1, <1>2 DEF Returned, Inside, ZerosOrError
<1>4. /\ memory \in Seq(Bytes \cup {0}) /\ PAGE <= Len(memory)
      /\ \A i \in Len(input) + 1 .. PAGE : memory[i] = 0
  BY <1>1, WrittenMemory
<1> QED
  BY <1>1, <1>3, <1>4 DEF WasmInv

\* The guest reads and writes from the heap base on: what lies in front keeps its
\* zeros, whatever the guest finds on its heap
LEMMA GuestExecutesInv ==
    ASSUME Layout, WasmInv, GuestExecutes
    PROVE  WasmInv'
<1> DEFINE end == Len(input)
           at == HEAP_BASE + end
<1>0. /\ pc = "call" /\ engine = "wasm" /\ end \in Nat /\ end <= PAGE
      /\ PAGE \in Nat /\ MEMORY \in Nat /\ HEAP_BASE \in Nat
      /\ PAGE <= HEAP_BASE /\ HEAP_BASE <= MEMORY
      /\ input \in Seq(Bytes)
      /\ UNCHANGED <<engine, input>>
  BY DEF WasmInv, GuestExecutes, Layout
<1>1. /\ memory \in Seq(Bytes \cup {0})
      /\ Len(memory) = MEMORY
      /\ \A i \in end + 1 .. MEMORY : memory[i] = 0
  BY <1>0, WrittenMemory
<1>2. PICK heap \in [1..PAGE -> Bytes] :
        LET grown == memory \o heap
            out == Echo(Get(grown, HEAP_BASE, end))
        IN  IF end + Len(out) <= PAGE
            THEN /\ memory' = Put(grown, HEAP_BASE + end, out)
                 /\ \/ Returns(Pack(end, Len(out)))
                    \/ /\ HEAP_BASE + end + Len(out) > Len(memory)
                       /\ Fails /\ UNCHANGED ret
            ELSE Returns(-1) /\ UNCHANGED memory
  BY DEF GuestExecutes
<1> DEFINE grown == memory \o heap
           out == Echo(Get(grown, HEAP_BASE, end))
<1>3. /\ grown \in Seq(Bytes \cup {0})
      /\ Len(grown) = MEMORY + PAGE
      /\ \A i \in 1..MEMORY : grown[i] = memory[i]
  <2>1. heap \in Seq(Bytes \cup {0}) /\ Len(heap) = PAGE
    BY <1>0
  <2>2. /\ memory \o heap \in Seq(Bytes \cup {0})
        /\ Len(memory \o heap) = Len(memory) + Len(heap)
        /\ \A i \in 1..Len(memory) + Len(heap) :
              (memory \o heap)[i] = IF i <= Len(memory) THEN memory[i] ELSE heap[i - Len(memory)]
    BY <1>1, <2>1, ConcatProperties
  <2>3. \A i \in 1..MEMORY : i \in 1..Len(memory) + Len(heap) /\ i <= Len(memory)
    BY <1>0, <1>1, <2>1
  <2> QED
    BY <1>1, <2>1, <2>2, <2>3
<1>4. out \in Seq(Bytes \cup {0}) /\ Len(out) \in Nat
  <2>1. Get(grown, HEAP_BASE, end) \in Seq(Bytes \cup {0})
    <3> HIDE DEF grown
    <3> QED
      BY <1>0, <1>3 DEF Get
  <2> HIDE DEF grown
  <2>2. Echo(Get(grown, HEAP_BASE, end)) \in Seq(Bytes \cup {0})
    BY <2>1, EchoSeq
  <2> QED
    BY <2>2
<1>5. Inside => Len(out) = end
  <2> SUFFICES ASSUME Inside PROVE Len(out) = end
    OBVIOUS
  <2>1. HEAP_BASE + 2 * end <= MEMORY /\ 2 * end <= PAGE
    BY DEF Inside
  <2>2. \A i \in HEAP_BASE + 1 .. HEAP_BASE + end : i \in end + 1 .. MEMORY /\ i \in 1..MEMORY
    BY <1>0, <2>1
  <2>3. \A i \in HEAP_BASE + 1 .. HEAP_BASE + end : grown[i] = 0
    BY <1>1, <1>3, <2>2
  <2>4. HEAP_BASE + end <= Len(grown)
    BY <1>0, <1>3, <2>1
  <2>5. Get(grown, HEAP_BASE, end) = Zeros(end)
    <3> HIDE DEF grown
    <3> QED
      BY <1>0, <1>3, <2>3, <2>4, GetZeros
  <2>6. Zeros(end) \notin Json /\ Len(Zeros(end)) = end
    BY <1>0, ZerosSeq DEF Layout
  <2> QED
    BY <2>5, <2>6 DEF Echo
<1> HIDE DEF out
<1>6. CASE end + Len(out) <= PAGE
  <2>1. memory' = Put(grown, at, out)
    BY <1>2, <1>6 DEF out
  <2>2. /\ memory' \in Seq(Bytes \cup {0})
        /\ Len(memory') = Len(grown)
        /\ \A i \in 1..Len(grown) : i \notin at + 1 .. at + Len(out) => memory'[i] = grown[i]
    <3> HIDE DEF grown
    <3>1. at \in Nat
      BY <1>0
    <3> HIDE DEF at
    <3> QED
      BY <1>3, <1>4, <2>1, <3>1, PutSeq
  <2>3. \A i \in end + 1 .. PAGE :
            /\ i \in 1..Len(grown) /\ i \notin at + 1 .. at + Len(out)
            /\ i \in 1..MEMORY /\ i \in end + 1 .. MEMORY
    BY <1>0, <1>3, <1>4
  <2>4. \A i \in end + 1 .. PAGE : memory'[i] = 0
    BY <1>1, <1>3, <2>2, <2>3
  <2>5. PAGE <= Len(memory')
    BY <1>0, <1>3, <2>2
  <2>6. CASE Returns(Pack(end, Len(out)))
    <3>1. Returned'
      BY <1>0, <1>4, <1>5, <1>6, <2>6 DEF Returns, Returned, Inside
    <3> QED
      BY <1>0, <2>2, <2>4, <2>5, <2>6, <3>1 DEF WasmInv, Returns, ZerosOrError
  <2>7. CASE HEAP_BASE + end + Len(out) > Len(memory) /\ Fails
    <3>1. ~Inside
      BY <1>0, <1>1, <1>4, <1>5, <2>7 DEF Inside
    <3> QED
      BY <1>0, <2>7, <3>1 DEF WasmInv, Fails, ZerosOrError, Inside
  <2> QED
    BY <1>2, <1>6, <2>6, <2>7 DEF out
<1>7. CASE ~(end + Len(out) <= PAGE)
  <2>1. Returns(-1) /\ UNCHANGED memory
    BY <1>2, <1>7 DEF out
  <2>2. ~Inside
    BY <1>0, <1>5, <1>7 DEF Inside
  <2>3. Returned'
    BY <1>0, <2>1, <2>2 DEF Returned, Returns, Inside
  <2> QED
    BY <1>0, <1>1, <2>1, <2>3 DEF WasmInv, Returns, ZerosOrError
<1> QED
  BY <1>6, <1>7

\* The host takes the index for an address, in front of the heap base
LEMMA HostReadsInv ==
    ASSUME Layout, WasmInv, HostReads
    PROVE  WasmInv'
<1>0. /\ pc = "read" /\ engine = "wasm" /\ input \in Seq(Bytes) /\ Len(input) \in Nat
      /\ pc' = "done" /\ UNCHANGED <<engine, input>> /\ PAGE \in Nat
      /\ memory \in Seq(Bytes \cup {0}) /\ Len(memory) \in Nat /\ PAGE <= Len(memory)
      /\ \A i \in Len(input) + 1 .. PAGE : memory[i] = 0
      /\ Returned
  BY DEF WasmInv, HostReads, Layout, Fails
<1>1. CASE ret = -1 /\ ~Inside
  <2>1. OutPtr(ret) < 0 /\ OutPtr(ret) \in Int
    BY <1>1, UnpackError DEF OutPtr, AsI32, Layout
  <2>2. output' = Error
    BY <2>1 DEF HostReads, Fails
  <2> QED
    BY <1>0, <1>1, <2>2 DEF WasmInv, ZerosOrError, Inside
<1>2. ASSUME NEW n \in Nat, Len(input) + n <= PAGE, ret = Pack(Len(input), n),
             Inside => n = Len(input)
      PROVE  WasmInv'
  <2>1. OutPtr(ret) = Len(input) /\ OutLen(ret) = n
    BY <1>0, <1>2, Unpack
  <2>2. output' = Get(memory, Len(input), n)
    BY <1>0, <1>2, <2>1 DEF HostReads
  <2>3. \A i \in Len(input) + 1 .. Len(input) + n : memory[i] = 0
    BY <1>0, <1>2
  <2>4. output' = Zeros(n)
    <3>1. Len(input) + n <= Len(memory)
      BY <1>0, <1>2
    <3>2. Get(memory, Len(input), n) = Zeros(n)
      BY <1>0, <2>3, <3>1, GetZeros
    <3> QED
      BY <2>2, <3>2
  <2>5. n \in 0 .. PAGE
    BY <1>0, <1>2
  <2> QED
    BY <1>0, <1>2, <2>4, <2>5 DEF WasmInv, ZerosOrError, Inside
<1> QED
  BY <1>0, <1>1, <1>2 DEF Returned

\* Whatever the bytes of the input and of the guest's heap, CognitionWasmEngine with
\* the guest echo-wasm (runtimes/wasm-rust/src/lib.rs, agents/foundation/echo-wasm)
\* answers a run of zeros or an error, and exactly as many zeros as the input has
\* bytes if input and output lie in the memory the guest started with: it never
\* echoes an input that has a byte other than 0.
THEOREM WasmAnswersZeros ==
    ASSUME Layout
    PROVE  Spec => []ZerosOrError
<1>1. Init => WasmInv
  BY InitInv
<1>2. WasmInv /\ [Next]_vars => WasmInv'
  <2> SUFFICES ASSUME WasmInv, [Next]_vars PROVE WasmInv'
    OBVIOUS
  <2>1. CASE LocalExecutes
    BY <2>1 DEF LocalExecutes, WasmInv, ZerosOrError
  <2>2. CASE UNCHANGED vars
    BY <2>2 DEF vars, WasmInv, Returned, Inside, ZerosOrError
  <2> QED
    BY <2>1, <2>2, HostWritesInv, GuestRefusesInv, GuestExecutesInv, HostReadsInv DEF Next
<1>3. WasmInv => ZerosOrError
  BY DEF WasmInv
<1> QED
  BY <1>1, <1>2, <1>3, PTL DEF Spec

===============================================================================
