------------------------- MODULE MemoryFramesProofs -------------------------
(***************************************************************************)
(* Proofs about MemoryFrames, for every word size, memory limit, price of  *)
(* memory, gas limit and operand, and any number of frames and             *)
(* instructions.                                                           *)
(***************************************************************************)
EXTENDS MemoryFrames, TLAPS

-----------------------------------------------------------------------------
(* Words and their price                                                   *)

\* Division by the bytes of a word has one quotient.
LEMMA WordsUnique ==
    ASSUME NEW n \in Nat, NEW r \in Nat, r < WordBytes
    PROVE  (n * WordBytes + r) \div WordBytes = n
<1> DEFINE a == n * WordBytes + r
           q == a \div WordBytes
<1>1. WordBytes \in Nat /\ WordBytes > 0
    BY MemoryAssumption
<1>2. a \in Nat /\ q \in Int
    BY <1>1
<1>3. q * WordBytes <= a /\ a < q * WordBytes + WordBytes
    BY <1>1, <1>2, SMT
<1> HIDE DEF q
<1>4. ASSUME q < n PROVE FALSE
    <2>1. (n - q - 1) * WordBytes >= 0
        BY <1>1, <1>2, <1>4, SMT
    <2>2. n * WordBytes >= q * WordBytes + WordBytes
        BY <1>1, <1>2, <2>1, SMT
    <2> QED
        BY <1>1, <1>2, <1>3, <2>2, SMT
<1>5. ASSUME q > n PROVE FALSE
    <2>1. (q - n - 1) * WordBytes >= 0
        BY <1>1, <1>2, <1>5, SMT
    <2>2. q * WordBytes >= n * WordBytes + WordBytes
        BY <1>1, <1>2, <2>1, SMT
    <2> QED
        BY <1>1, <1>2, <1>3, <2>2, SMT
<1>6. q = n
    BY <1>2, <1>4, <1>5
<1> QED
    BY <1>6 DEF q

\* num_words rounds a length up to words.
LEMMA NumWordsCovers ==
    ASSUME NEW len \in Nat, len <= MemoryLimit
    PROVE  /\ NumWords(len) \in Nat
           /\ NumWords(len) * WordBytes >= len
           /\ NumWords(len) * WordBytes < len + WordBytes
<1> DEFINE a == len + (WordBytes - 1)
           q == a \div WordBytes
<1>1. WordBytes \in Nat /\ WordBytes > 0 /\ MemoryLimit \in Nat /\ MaxUsize \in Nat
    BY MemoryAssumption
<1>2. a \in Nat /\ q \in Nat
    BY <1>1
<1>3. q * WordBytes <= a /\ a < q * WordBytes + WordBytes
    BY <1>1, <1>2, SMT
<1>4. NumWords(len) = q
    BY <1>1, LimitAssumption DEF NumWords, SaturatingSum
<1> HIDE DEF q
<1> QED
    BY <1>1, <1>2, <1>3, <1>4

\* A length of whole words is as many words.
LEMMA NumWordsExact ==
    ASSUME NEW n \in Nat, n * WordBytes <= MaxUsize
    PROVE  NumWords(n * WordBytes) = n
<1>1. WordBytes \in Nat /\ WordBytes > 0 /\ MaxUsize \in Nat /\ n * WordBytes \in Nat
    BY MemoryAssumption
<1>2. CASE n * WordBytes > MaxUsize - (WordBytes - 1)
    <2> DEFINE r == MaxUsize - n * WordBytes
    <2>1. r \in Nat /\ r < WordBytes /\ MaxUsize = n * WordBytes + r
        BY <1>1, <1>2
    <2> HIDE DEF r
    <2> QED
        BY <1>2, <2>1, WordsUnique DEF NumWords, SaturatingSum
<1>3. CASE ~(n * WordBytes > MaxUsize - (WordBytes - 1))
    <2>1. WordBytes - 1 \in Nat /\ WordBytes - 1 < WordBytes
        BY <1>1
    <2> QED
        BY <1>3, <2>1, WordsUnique DEF NumWords, SaturatingSum
<1> QED
    BY <1>2, <1>3

\* Whole words leave no remainder.
LEMMA WordsWhole ==
    ASSUME NEW n \in Nat
    PROVE  (n * WordBytes) % WordBytes = 0
<1>1. WordBytes \in Nat /\ WordBytes > 0 /\ n * WordBytes \in Nat
    BY MemoryAssumption
<1>2. (n * WordBytes + 0) \div WordBytes = n
    BY <1>1, WordsUnique
<1>3. n * WordBytes = WordBytes * ((n * WordBytes) \div WordBytes) + ((n * WordBytes) % WordBytes)
    BY <1>1, SMT
<1> QED
    BY <1>1, <1>2, <1>3, SMT

\* The price of memory is a number, and no memory is free.
LEMMA MemoryGasInt ==
    /\ \A w \in Nat : MemoryGas(w) \in Int
    /\ MemoryGasForLen(0) = 0
    /\ 0 % WordBytes = 0
<1>1. ASSUME NEW w \in Nat PROVE MemoryGas(w) \in Int
    <2>1. w * w \in Nat /\ WordGas * w \in Nat
        BY MemoryAssumption
    <2> QED
        BY <2>1, MemoryAssumption DEF MemoryGas
<1>2. NumWords(0) = 0
    <2>1. 0 * WordBytes = 0 /\ 0 <= MaxUsize
        BY MemoryAssumption
    <2> QED
        BY <2>1, NumWordsExact
<1>3. MemoryGas(0) = 0
    BY MemoryAssumption DEF MemoryGas
<1>4. 0 % WordBytes = 0
    BY MemoryAssumption
<1> QED
    BY <1>1, <1>2, <1>3, <1>4 DEF MemoryGasForLen
-----------------------------------------------------------------------------
(* The memory of the running frame                                         *)

Mem == [buffer : Seq(Nat), checkpoints : Seq(Nat), last_checkpoint : Nat]
FrameType ==
    [kind : {"call", "create"}, input : Seq(Nat), limit : Nat, gas : Int,
     return_data_buffer : Seq(Nat), out : [offset : Nat, len : Nat]]

\* A memory of so many bytes is whole words, paid for with the gas from limit to gas.
Paid(len, limit, gas) == len % WordBytes = 0 /\ limit - gas = MemoryGasForLen(len)

\* Where the memory of the n-th frame ends, as EndsAt.
EndOf(m, fs, n) == IF n = Len(fs) THEN Len(m.buffer) ELSE m.checkpoints[n + 1]

\* The frames' memories lie in the buffer one after the other, each paid for by
\* its frame; and a frame that waits for a call has memory for its output.
Laid(m, fs, n) ==
    LET len == EndOf(m, fs, n) - m.checkpoints[n]
    IN  /\ len >= 0
        /\ Paid(len, fs[n].limit, fs[n].gas)
        /\ n < Len(fs) /\ fs[n + 1].kind = "call" /\ fs[n].out.len # 0 =>
               fs[n].out.offset + fs[n].out.len <= len

Layout(m, fs) ==
    /\ m \in Mem
    /\ fs \in Seq(FrameType)
    /\ Len(m.checkpoints) = Len(fs)
    /\ m.last_checkpoint = IF fs = << >> THEN 0 ELSE m.checkpoints[Len(fs)]
    /\ Len(m.buffer) < MemoryLimit + WordBytes
    /\ \A n \in 1 .. Len(fs) : Laid(m, fs, n)

MemoryInv == Layout(memory, frames) /\ NeverOutOfBounds

\* What an instruction of the running frame may do to the memory before it ends:
\* stretch it, and change bytes.
Stretched(m) ==
    /\ m \in Mem
    /\ m.checkpoints = memory.checkpoints
    /\ m.last_checkpoint = memory.last_checkpoint
    /\ Len(m.buffer) >= Len(memory.buffer)
    /\ Len(m.buffer) < MemoryLimit + WordBytes

Reached(i) ==
    /\ i \in [memory : Mem, gas : Int, ok : BOOLEAN]
    /\ Stretched(i.memory)
    /\ Paid(MemoryLen(i.memory), Interpreter.limit, i.gas)

\* An instruction starts with the memory as it is.
LEMMA InstructionReached ==
    ASSUME MemoryInv, frames # << >>
    PROVE  /\ Reached(Instruction)
           /\ Interpreter \in FrameType
           /\ Len(frames) \in Nat \ {0}
<1>1. Len(frames) \in Nat \ {0} /\ frames[Len(frames)] \in FrameType
    BY DEF MemoryInv, Layout
<1>2. Interpreter = frames[Len(frames)]
    BY DEF Interpreter, Last
<1>3. Laid(memory, frames, Len(frames))
    BY <1>1 DEF MemoryInv, Layout
<1>4. MemoryLen(memory) = EndOf(memory, frames, Len(frames)) - memory.checkpoints[Len(frames)]
    BY DEF MemoryInv, Layout, MemoryLen, EndOf
<1>5. Stretched(memory)
    BY DEF MemoryInv, Layout, Stretched, Mem
<1> QED
    BY <1>1, <1>2, <1>3, <1>4, <1>5 DEF Reached, Instruction, Laid, FrameType, Stretched

\* An instruction that cannot go on has done what it had done.
LEMMA StopReached ==
    ASSUME NEW i, Reached(i)
    PROVE  LET k == [i EXCEPT !.ok = FALSE]
           IN  Reached(k) /\ k.ok = FALSE
<1> DEFINE k == [i EXCEPT !.ok = FALSE]
<1>1. i \in [memory : Mem, gas : Int, ok : BOOLEAN]
    BY DEF Reached
<1>2. k \in [memory : Mem, gas : Int, ok : BOOLEAN] /\ k.memory = i.memory /\ k.gas = i.gas
    BY <1>1
<1>3. k.ok = FALSE
    BY <1>1
<1> HIDE DEF k
<1>4. Reached(k)
    BY <1>2 DEF Reached
<1> QED
    BY <1>3, <1>4 DEF k

\* SharedMemory::resize to more than there is.
LEMMA ResizeStretches ==
    ASSUME NEW m \in Mem, NEW size \in Nat, size >= MemoryLen(m)
    PROVE  /\ Resize(m, size) \in Mem
           /\ Resize(m, size).checkpoints = m.checkpoints
           /\ Resize(m, size).last_checkpoint = m.last_checkpoint
           /\ Len(Resize(m, size).buffer) = m.last_checkpoint + size
<1> DEFINE n == m.last_checkpoint + size
           b == m.buffer
           r == IF n <= Len(b) THEN SubSeq(b, 1, n) ELSE b \o Zeros(n - Len(b))
<1>1. n \in Nat /\ b \in Seq(Nat) /\ n >= Len(b) /\ Len(b) \in Nat
    BY DEF Mem, MemoryLen
<1>4. r \in Seq(Nat) /\ Len(r) = n
    <2>1. CASE n <= Len(b)
        BY <1>1, <2>1
    <2>2. CASE ~(n <= Len(b))
        <3> DEFINE z == Zeros(n - Len(b))
        <3>1. n - Len(b) \in Nat
            BY <1>1, <2>2
        <3>2. z \in Seq(Nat) /\ Len(z) = n - Len(b)
            BY <3>1 DEF Zeros
        <3>3. r = b \o z
            BY <2>2
        <3> HIDE DEF z, r, n, b
        <3>4. b \o z \in Seq(Nat) /\ Len(b \o z) = Len(b) + Len(z)
            BY <1>1, <3>2
        <3> QED
            BY <1>1, <3>1, <3>2, <3>3, <3>4
    <2> QED
        BY <2>1, <2>2
<1>5. Resize(m, size) = [m EXCEPT !.buffer = r]
    BY DEF Resize
<1> HIDE DEF r
<1> QED
    BY <1>4, <1>5 DEF Mem

\* interpreter::resize_memory: the words there are, and no others, are paid for.
LEMMA ResizeMemoryReached ==
    ASSUME MemoryInv, NEW i, Reached(i), frames # << >>,
           NEW size \in Nat, size > MemoryLen(i.memory), ~LimitReached(i.memory, size)
    PROVE  LET k == ResizeMemory(i, size)
           IN  /\ Reached(k)
               /\ k.ok => size <= MemoryLen(k.memory)
<1> DEFINE words == NumWords(size)
           m == i.memory
           cost == MemoryGas(words) - MemoryGasForLen(MemoryLen(m))
           r == Resize(m, words * WordBytes)
<1>1. m \in Mem /\ m.last_checkpoint \in Nat /\ Len(m.buffer) \in Nat /\ WordBytes \in Nat
    BY MemoryAssumption DEF Reached, Stretched, Mem
<1>2. m.last_checkpoint + size <= MemoryLimit
    BY <1>1, MemoryAssumption, LimitAssumption DEF LimitReached, SaturatingSum
<1>3. words \in Nat /\ words * WordBytes >= size /\ words * WordBytes < size + WordBytes
    BY <1>1, <1>2, NumWordsCovers, MemoryAssumption
<1> HIDE DEF words
<1>4. words * WordBytes \in Nat
    BY <1>1, <1>3
<1>5. /\ r \in Mem /\ r.checkpoints = m.checkpoints /\ r.last_checkpoint = m.last_checkpoint
      /\ Len(r.buffer) = m.last_checkpoint + words * WordBytes
    <2>1. words * WordBytes >= MemoryLen(m)
        BY <1>1, <1>3, <1>4 DEF MemoryLen
    <2> QED
        BY <1>1, <1>4, <2>1, ResizeStretches
<1>6. MemoryLen(r) = words * WordBytes
    BY <1>1, <1>4, <1>5 DEF MemoryLen
<1>7. MemoryGasForLen(MemoryLen(r)) = MemoryGas(words) /\ MemoryLen(r) % WordBytes = 0
    <2>1. words * WordBytes <= MaxUsize
        BY <1>1, <1>2, <1>3, <1>4, MemoryAssumption, LimitAssumption
    <2> QED
        BY <1>3, <1>6, <2>1, NumWordsExact, WordsWhole DEF MemoryGasForLen
<1>8. Stretched(r)
    <2> HIDE DEF r
    <2>1. Len(memory.buffer) \in Nat /\ Len(memory.buffer) <= Len(m.buffer)
        BY DEF MemoryInv, Layout, Mem, Reached, Stretched
    <2>2. Len(m.buffer) <= m.last_checkpoint + words * WordBytes
        BY <1>1, <1>3, <1>4 DEF MemoryLen
    <2>3. m.checkpoints = memory.checkpoints /\ m.last_checkpoint = memory.last_checkpoint
        BY DEF Reached, Stretched
    <2> DEFINE w == words * WordBytes
    <2>4. w \in Nat /\ w < size + WordBytes /\ Len(r.buffer) = m.last_checkpoint + w
        BY <1>3, <1>4, <1>5
    <2>5. Len(memory.buffer) <= m.last_checkpoint + w
        BY <1>1, <2>1, <2>2, <1>4
    <2> HIDE DEF w
    <2>6. Len(r.buffer) < MemoryLimit + WordBytes
        BY <1>1, <1>2, <2>4, MemoryAssumption
    <2> QED
        BY <1>5, <2>3, <2>4, <2>5, <2>6 DEF Stretched
<1>9. /\ MemoryGas(words) \in Int /\ i.gas \in Int /\ Interpreter.limit \in Int
      /\ Interpreter.limit - i.gas = MemoryGasForLen(MemoryLen(m))
    BY <1>3, MemoryGasInt, InstructionReached DEF Reached, Paid, FrameType
<1>10. CASE cost > i.gas
    <2>1. ResizeMemory(i, size) = [i EXCEPT !.ok = FALSE]
        BY <1>10 DEF ResizeMemory, words
    <2> QED
        BY <2>1, StopReached
<1>11. CASE ~(cost > i.gas)
    <2>1. ResizeMemory(i, size) = [i EXCEPT !.gas = @ - cost, !.memory = r]
        BY <1>11 DEF ResizeMemory, words
    <2> DEFINE k == [memory |-> r, gas |-> i.gas - cost, ok |-> i.ok]
    <2>2. ResizeMemory(i, size) = k
        BY <2>1 DEF Reached
    <2>3. Paid(MemoryLen(r), Interpreter.limit, i.gas - cost) /\ i.gas - cost \in Int
        BY <1>7, <1>9 DEF Paid
    <2> HIDE DEF r, cost
    <2>4. Reached(k)
        BY <2>3, <1>5, <1>8 DEF Reached
    <2> QED
        BY <2>2, <2>4, <1>3, <1>6
<1> QED
    BY <1>10, <1>11

\* resize_memory! and the operands before it: an access that can go on has the
\* memory it needs.
LEMMA AccessReached ==
    ASSUME MemoryInv, NEW i, Reached(i), frames # << >>,
           NEW offset \in Nat, NEW len \in Nat
    PROVE  LET k == Access(i, offset, len)
           IN  /\ Reached(k)
               /\ k.ok => i.ok
               /\ k.ok => Reachable(k, offset, len)
               /\ k.ok => len <= MaxUsize /\ (len # 0 => offset <= MaxUsize)
<1>1. i.memory \in Mem /\ i.memory.last_checkpoint \in Nat /\ Len(i.memory.buffer) \in Nat
    BY DEF Reached, Stretched, Mem
<1>2. Reached([i EXCEPT !.ok = FALSE]) /\ [i EXCEPT !.ok = FALSE].ok = FALSE
    BY StopReached
<1>3. CASE ~FitsUsize(len)
    BY <1>2, <1>3 DEF Access
<1>4. CASE FitsUsize(len) /\ len = 0
    BY <1>4, MemoryAssumption DEF Access, Reachable, FitsUsize
<1>5. CASE FitsUsize(len) /\ len # 0 /\ ~FitsUsize(offset)
    BY <1>2, <1>5 DEF Access
<1>6. CASE FitsUsize(len) /\ len # 0 /\ FitsUsize(offset)
    <2> DEFINE size == SaturatingSum(offset, len)
    <2>1. /\ size \in Nat /\ MaxUsize \in Nat /\ MemoryLimit \in Nat
          /\ size = offset + len \/ size = MaxUsize
          /\ size <= offset + len
          /\ size < MaxUsize => size = offset + len
          /\ len <= MaxUsize /\ offset <= MaxUsize
        BY <1>6, MemoryAssumption DEF SaturatingSum, FitsUsize
    <2>2. Access(i, offset, len) = Expand(i, offset, len)
        BY <1>6 DEF Access
    <2> HIDE DEF size
    <2>3. CASE ~i.ok
        BY <1>1, <2>1, <2>2, <2>3 DEF Expand, Reached
    <2>4. CASE i.ok /\ size <= MemoryLen(i.memory)
        <3>1. size < MaxUsize \/ size = offset + len
            <4>1. MemoryLen(i.memory) < MaxUsize
                BY <1>1, LimitAssumption, MemoryAssumption DEF Reached, Stretched, MemoryLen
            <4> QED
                BY <2>1, <2>4, <4>1, <1>1 DEF MemoryLen
        <3> QED
            BY <1>1, <2>1, <2>2, <2>4, <3>1 DEF Expand, size, Reachable, InBounds
    <2>5. CASE i.ok /\ ~(size <= MemoryLen(i.memory)) /\ LimitReached(i.memory, size)
        BY <1>2, <2>2, <2>5 DEF Expand, size
    <2>6. CASE i.ok /\ ~(size <= MemoryLen(i.memory)) /\ ~LimitReached(i.memory, size)
        <3>1. Expand(i, offset, len) = ResizeMemory(i, size)
            BY <2>6 DEF Expand, size
        <3>2. size > MemoryLen(i.memory)
            BY <1>1, <2>1, <2>6 DEF MemoryLen
        <3>3. size = offset + len
            BY <1>1, <2>1, <2>6, MemoryAssumption, LimitAssumption
            DEF LimitReached, SaturatingSum
        <3>4. Reached(ResizeMemory(i, size))
              /\ (ResizeMemory(i, size).ok => size <= MemoryLen(ResizeMemory(i, size).memory))
            BY <2>1, <2>6, <3>2, ResizeMemoryReached
        <3> QED
            BY <2>1, <2>2, <2>6, <3>1, <3>3, <3>4 DEF Reachable, InBounds
    <2> QED
        BY <2>3, <2>4, <2>5, <2>6
<1> QED
    BY <1>3, <1>4, <1>5, <1>6
-----------------------------------------------------------------------------
(* Bytes                                                                   *)

\* The smaller and the larger of two numbers.
LEMMA PairMinMax ==
    ASSUME NEW a \in Nat, NEW b \in Nat
    PROVE  /\ Min({a, b}) \in Nat /\ Min({a, b}) <= a /\ Min({a, b}) <= b
           /\ Max({a, b}) \in Nat /\ Max({a, b}) >= a /\ Max({a, b}) >= b
<1>1. PICK x \in {a, b} : \A y \in {a, b} : x <= y
    <2>1. CASE a <= b
        BY <2>1
    <2>2. CASE ~(a <= b)
        BY <2>2
    <2> QED
        BY <2>1, <2>2
<1>2. Min({a, b}) \in {a, b} /\ \A y \in {a, b} : Min({a, b}) <= y
    BY <1>1, Zenon DEF Min
<1>3. PICK z \in {a, b} : \A y \in {a, b} : z >= y
    <2>1. CASE a <= b
        BY <2>1
    <2>2. CASE ~(a <= b)
        BY <2>2
    <2> QED
        BY <2>1, <2>2
<1>4. Max({a, b}) \in {a, b} /\ \A y \in {a, b} : Max({a, b}) >= y
    BY <1>3, Zenon DEF Max
<1> QED
    BY <1>2, <1>4

\* A function on an initial segment is a sequence.
LEMMA FunctionBytes ==
    ASSUME NEW n \in Nat, NEW f \in [1 .. n -> Nat]
    PROVE  f \in Seq(Nat) /\ Len(f) = n
OBVIOUS

\* A part of a sequence is one.
LEMMA PartBytes ==
    ASSUME NEW s \in Seq(Nat), NEW from \in Nat \ {0}, NEW to \in 0 .. Len(s)
    PROVE  SubSeq(s, from, to) \in Seq(Nat)
OBVIOUS

\* k is m with other bytes.
Rewritten(m, k) ==
    /\ k \in Mem
    /\ k.checkpoints = m.checkpoints /\ k.last_checkpoint = m.last_checkpoint
    /\ Len(k.buffer) = Len(m.buffer)

\* SharedMemory::set.
LEMMA SetBytesRewrites ==
    ASSUME NEW m \in Mem, NEW offset \in Nat, NEW value \in Seq(Nat)
    PROVE  Rewritten(m, SetBytes(m, offset, value))
<1> DEFINE at == m.last_checkpoint + offset
           b == [i \in DOMAIN m.buffer |->
                    IF i \in at + 1 .. at + Len(value) THEN value[i - at] ELSE m.buffer[i]]
<1>1. m.buffer \in Seq(Nat) /\ at \in Nat /\ Len(value) \in Nat /\ Len(m.buffer) \in Nat
    BY DEF Mem
<1>2. DOMAIN m.buffer = 1 .. Len(m.buffer)
    BY <1>1
<1>3. ASSUME NEW i \in 1 .. Len(m.buffer)
      PROVE  b[i] \in Nat
    <2>1. CASE i \in at + 1 .. at + Len(value)
        <3>1. i - at \in 1 .. Len(value)
            BY <1>1, <2>1
        <3> QED
            BY <1>2, <2>1, <3>1
    <2>2. CASE i \notin at + 1 .. at + Len(value)
        BY <1>1, <1>2, <2>2
    <2> QED
        BY <2>1, <2>2
<1>4. b \in Seq(Nat) /\ Len(b) = Len(m.buffer)
    <2>1. b \in [1 .. Len(m.buffer) -> Nat]
        BY <1>2, <1>3
    <2> HIDE DEF b
    <2> QED
        BY <1>1, <2>1, FunctionBytes
<1>5. SetBytes(m, offset, value) = [m EXCEPT !.buffer = b]
    BY DEF SetBytes
<1> HIDE DEF b
<1> QED
    BY <1>4, <1>5 DEF Rewritten, Mem

\* SharedMemory::slice, also of an empty range.
LEMMA SliceBytes ==
    ASSUME NEW m \in Mem, NEW offset \in Nat, NEW len \in Nat
    PROVE  Slice(m, offset, len) \in Seq(Nat)
<1>1. m.buffer \in Seq(Nat) /\ m.last_checkpoint \in Nat /\ Len(m.buffer) \in Nat
    BY DEF Mem
<1>2. CASE InBounds(m, offset, len)
    <2> DEFINE from == m.last_checkpoint + offset + 1
               to == m.last_checkpoint + offset + len
    <2>1. from \in Nat \ {0} /\ to \in 0 .. Len(m.buffer)
        BY <1>1, <1>2 DEF InBounds, MemoryLen
    <2>2. SubSeq(m.buffer, from, to) \in Seq(Nat)
        <3> HIDE DEF from, to
        <3> QED
            BY <1>1, <2>1, PartBytes
    <2> QED
        BY <1>2, <2>2 DEF Slice
<1>3. CASE ~InBounds(m, offset, len)
    BY <1>3 DEF Slice
<1> QED
    BY <1>2, <1>3

\* SharedMemory::set_data.
LEMMA SetDataRewrites ==
    ASSUME NEW m \in Mem, NEW offset \in Nat, NEW from \in Nat, NEW len \in Nat,
           NEW data \in Seq(Nat)
    PROVE  Rewritten(m, SetData(m, offset, from, len, data))
<1>1. \A n \in Nat : Zeros(n) \in Seq(Nat)
    BY DEF Zeros
<1>2. CASE from >= Len(data)
    BY <1>1, <1>2, SetBytesRewrites DEF SetData
<1>3. CASE ~(from >= Len(data))
    <2> DEFINE to == IF from + len < Len(data) THEN from + len ELSE Len(data)
               copied == SubSeq(data, from + 1, to)
               k == SetBytes(m, offset, copied)
    <2>1. to \in Nat /\ to <= Len(data) /\ to >= from /\ to - from <= len
        BY <1>3
    <2>2. copied \in Seq(Nat) /\ Len(copied) = to - from
        <3> HIDE DEF to
        <3> QED
            BY <1>3, <2>1
    <2>3. Rewritten(m, k)
        BY <2>2, SetBytesRewrites
    <2>4. Len(copied) \in Nat /\ len - Len(copied) \in Nat
        BY <2>1, <2>2
    <2> HIDE DEF copied, k
    <2>7. k \in Mem /\ offset + Len(copied) \in Nat
        BY <2>3, <2>4 DEF Rewritten
    <2>8. Zeros(len - Len(copied)) \in Seq(Nat)
        BY <2>4, <1>1, Zenon
    <2>5. Rewritten(k, SetBytes(k, offset + Len(copied), Zeros(len - Len(copied))))
        BY <2>7, <2>8, SetBytesRewrites, Zenon
    <2>6. SetData(m, offset, from, len, data)
              = SetBytes(k, offset + Len(copied), Zeros(len - Len(copied)))
        BY <1>3 DEF SetData, k, copied
    <2> QED
        BY <2>3, <2>5, <2>6 DEF Rewritten
<1> QED
    BY <1>2, <1>3
-----------------------------------------------------------------------------
(* The layout of the frames' memories                                      *)

\* A sequence with one element more.
LEMMA Pushed ==
    ASSUME NEW S, NEW s \in Seq(S), NEW x \in S
    PROVE  /\ Append(s, x) \in Seq(S) /\ Append(s, x) # << >>
           /\ Len(Append(s, x)) = Len(s) + 1 /\ Append(s, x)[Len(s) + 1] = x
           /\ \A n \in 1 .. Len(s) : Append(s, x)[n] = s[n]
OBVIOUS

\* A sequence with one element less.
LEMMA Popped ==
    ASSUME NEW S, NEW s \in Seq(S), s # << >>
    PROVE  /\ Front(s) \in Seq(S) /\ Len(Front(s)) = Len(s) - 1
           /\ Front(s) = << >> <=> Len(s) = 1
           /\ \A n \in 1 .. Len(s) - 1 : Front(s)[n] = s[n]
<1>1. Len(s) \in Nat /\ Len(s) >= 1
    OBVIOUS
<1>2. Front(s) \in Seq(S) /\ Len(Front(s)) = Len(s) - 1
    <2>1. \A i \in 1 .. Len(s) - 1 : s[i] \in S
        BY <1>1
    <2>2. SubSeq(s, 1, Len(s) - 1) \in Seq(S)
        BY <1>1, <2>1
    <2>3. Len(SubSeq(s, 1, Len(s) - 1)) = Len(s) - 1
        BY SMTT(40), <1>1
    <2> QED
        BY <2>2, <2>3 DEF Front
<1>3. \A n \in 1 .. Len(s) - 1 : Front(s)[n] = s[n]
    BY <1>1 DEF Front
<1>4. Front(s) = << >> <=> Len(s) = 1
    BY <1>1, <1>2
<1> QED
    BY <1>2, <1>3, <1>4

\* The running frame's memory may grow and its bytes change, as long as it pays.
LEMMA LayoutTop ==
    ASSUME NEW m, NEW fs, Layout(m, fs), fs # << >>,
           NEW k \in Mem, k.checkpoints = m.checkpoints, k.last_checkpoint = m.last_checkpoint,
           Len(k.buffer) >= Len(m.buffer), Len(k.buffer) < MemoryLimit + WordBytes,
           NEW gs \in Seq(FrameType), Len(gs) = Len(fs),
           \A n \in 1 .. Len(fs) - 1 : gs[n] = fs[n],
           gs[Len(fs)].kind = fs[Len(fs)].kind,
           Paid(MemoryLen(k), gs[Len(fs)].limit, gs[Len(fs)].gas)
    PROVE  Layout(k, gs)
<1>1. /\ Len(fs) \in Nat \ {0} /\ Len(m.buffer) \in Nat /\ Len(k.buffer) \in Nat
      /\ gs # << >> /\ m.checkpoints \in Seq(Nat)
      /\ m.last_checkpoint = m.checkpoints[Len(fs)] /\ m.last_checkpoint \in Nat
    BY DEF Layout, Mem
<1>2. ASSUME NEW n \in 1 .. Len(gs) PROVE Laid(k, gs, n)
    <2>1. CASE n = Len(fs)
        <3>1. EndOf(k, gs, n) - k.checkpoints[n] = MemoryLen(k)
            BY <1>1, <2>1 DEF EndOf, MemoryLen
        <3>2. MemoryLen(k) >= 0
            <4>1. Laid(m, fs, n)
                BY <2>1, <1>1 DEF Layout
            <4> QED
                BY <1>1, <2>1, <4>1 DEF Laid, EndOf, MemoryLen
        <3> QED
            BY <1>1, <2>1, <3>1, <3>2 DEF Laid
    <2>2. CASE n # Len(fs)
        <3>1. n \in 1 .. Len(fs) - 1 /\ Laid(m, fs, n) /\ gs[n] = fs[n]
            BY <1>1, <2>2 DEF Layout
        <3>2. EndOf(k, gs, n) = EndOf(m, fs, n)
            BY <2>2 DEF EndOf
        <3>3. gs[n + 1].kind = fs[n + 1].kind
            BY <1>1, <3>1
        <3> QED
            BY <3>1, <3>2, <3>3 DEF Laid
    <2> QED
        BY <2>1, <2>2
<1> QED
    BY <1>1, <1>2 DEF Layout

\* SharedMemory::new_context for a frame that the running frame opens.
LEMMA LayoutOpens ==
    ASSUME NEW m, NEW fs, Layout(m, fs), NEW f \in FrameType, f.gas = f.limit,
           fs # << >> /\ f.kind = "call" /\ fs[Len(fs)].out.len # 0 =>
               fs[Len(fs)].out.offset + fs[Len(fs)].out.len <= MemoryLen(m)
    PROVE  Layout(NewContext(m), Append(fs, f))
<1> DEFINE k == NewContext(m)
           gs == Append(fs, f)
           L == Len(fs)
<1>1. /\ L \in Nat /\ Len(m.buffer) \in Nat /\ fs \in Seq(FrameType)
      /\ m.checkpoints \in Seq(Nat) /\ Len(m.checkpoints) = L /\ m \in Mem
    BY DEF Layout, Mem
<1>2. /\ k \in Mem /\ k.buffer = m.buffer /\ k.last_checkpoint = Len(m.buffer)
      /\ k.checkpoints = Append(m.checkpoints, Len(m.buffer))
    <2> DEFINE c == Append(m.checkpoints, Len(m.buffer))
    <2>1. c \in Seq(Nat)
        BY <1>1
    <2>2. k = [m EXCEPT !.checkpoints = c, !.last_checkpoint = Len(m.buffer)]
        BY DEF NewContext
    <2> HIDE DEF c, k
    <2> QED
        BY <1>1, <2>1, <2>2 DEF c, Mem
<1>3. /\ Len(k.checkpoints) = L + 1 /\ k.checkpoints[L + 1] = Len(m.buffer)
      /\ \A n \in 1 .. L : k.checkpoints[n] = m.checkpoints[n]
    BY <1>1, <1>2, Pushed
<1>4. /\ gs \in Seq(FrameType) /\ Len(gs) = L + 1 /\ gs[L + 1] = f /\ gs # << >>
      /\ \A n \in 1 .. L : gs[n] = fs[n]
    BY <1>1, Pushed
<1> HIDE DEF k, gs
<1>5. ASSUME NEW n \in 1 .. Len(gs) PROVE Laid(k, gs, n)
    <2>1. CASE n = L + 1
        <3>1. EndOf(k, gs, n) - k.checkpoints[n] = 0
            BY <1>1, <1>2, <1>3, <1>4, <2>1 DEF EndOf
        <3>2. Paid(0, f.limit, f.gas)
            BY MemoryGasInt DEF Paid, FrameType
        <3> QED
            BY <1>1, <1>4, <2>1, <3>1, <3>2 DEF Laid
    <2>2. CASE n # L + 1
        <3>1. n \in 1 .. L /\ Laid(m, fs, n) /\ gs[n] = fs[n]
            BY <1>1, <1>4, <2>2 DEF Layout
        <3>2. EndOf(k, gs, n) = EndOf(m, fs, n) /\ k.checkpoints[n] = m.checkpoints[n]
            BY <1>1, <1>2, <1>3, <1>4, <3>1 DEF EndOf
        <3>3. CASE n < L
            <4>1. gs[n + 1] = fs[n + 1]
                BY <1>1, <1>4, <3>1, <3>3
            <4> QED
                BY <3>1, <3>2, <3>3, <4>1 DEF Laid
        <3>4. CASE n = L
            <4>1. EndOf(m, fs, n) - m.checkpoints[n] = MemoryLen(m) /\ fs # << >>
                BY <1>1, <3>1, <3>4 DEF EndOf, MemoryLen, Layout
            <4>2. gs[n + 1] = f
                BY <1>4, <3>4
            <4> QED
                BY <3>1, <3>2, <3>4, <4>1, <4>2 DEF Laid
        <3> QED
            BY <1>1, <3>1, <3>3, <3>4
    <2> QED
        BY <2>1, <2>2
<1>6. Layout(k, gs)
    BY <1>1, <1>2, <1>3, <1>4, <1>5 DEF Layout
<1> QED
    BY <1>6 DEF k, gs

\* SharedMemory::free_context when the running frame ends: its caller's memory is
\* the running frame's again, and has room for the output of a call.
LEMMA LayoutCloses ==
    ASSUME NEW m, NEW fs, Layout(m, fs), fs # << >>
    PROVE  /\ Layout(FreeContext(m), Front(fs))
           /\ Front(fs) # << >> /\ fs[Len(fs)].kind = "call" /\ Last(Front(fs)).out.len # 0 =>
                  Last(Front(fs)).out.offset + Last(Front(fs)).out.len
                      <= MemoryLen(FreeContext(m))
<1> DEFINE k == FreeContext(m)
           gs == Front(fs)
           L == Len(fs)
<1>1. /\ L \in Nat \ {0} /\ Len(m.buffer) \in Nat /\ fs \in Seq(FrameType)
      /\ m.checkpoints \in Seq(Nat) /\ Len(m.checkpoints) = L /\ m \in Mem
      /\ m.checkpoints # << >> /\ m.buffer \in Seq(Nat)
    BY DEF Layout, Mem
<1>2. m.checkpoints[L] \in Nat /\ m.checkpoints[L] <= Len(m.buffer)
    <2>1. Laid(m, fs, L)
        BY <1>1 DEF Layout
    <2> QED
        BY <1>1, <2>1 DEF Laid, EndOf
<1>3. /\ gs \in Seq(FrameType) /\ Len(gs) = L - 1 /\ (gs = << >> <=> L = 1)
      /\ \A n \in 1 .. L - 1 : gs[n] = fs[n]
    BY <1>1, Popped
<1> DEFINE rest == Front(m.checkpoints)
<1>4. /\ rest \in Seq(Nat) /\ Len(rest) = L - 1 /\ (rest = << >> <=> L = 1)
      /\ \A n \in 1 .. L - 1 : rest[n] = m.checkpoints[n]
    BY <1>1, Popped
<1> DEFINE b == SubSeq(m.buffer, 1, m.checkpoints[L])
<1>5. b \in Seq(Nat) /\ Len(b) = m.checkpoints[L]
    BY <1>1, <1>2
<1>6. k = [buffer |-> b, checkpoints |-> rest,
           last_checkpoint |-> IF rest = << >> THEN 0 ELSE Last(rest)]
    BY <1>1 DEF FreeContext, Last
<1> HIDE DEF b, rest, gs
<1>7. /\ k \in Mem /\ Len(k.buffer) = m.checkpoints[L] /\ k.checkpoints = rest
      /\ k.last_checkpoint = IF gs = << >> THEN 0 ELSE rest[L - 1]
    BY <1>1, <1>3, <1>4, <1>5, <1>6 DEF Mem, Last
<1> HIDE DEF k
<1>8. ASSUME NEW n \in 1 .. Len(gs)
      PROVE  /\ EndOf(k, gs, n) = EndOf(m, fs, n) /\ k.checkpoints[n] = m.checkpoints[n]
             /\ Laid(k, gs, n)
    <2>1. n \in 1 .. L - 1 /\ Laid(m, fs, n) /\ gs[n] = fs[n]
        BY <1>1, <1>3 DEF Layout
    <2>2. EndOf(k, gs, n) = EndOf(m, fs, n) /\ k.checkpoints[n] = m.checkpoints[n]
        <3>1. CASE n = L - 1
            <4>1. n + 1 = L /\ n # L /\ n = Len(gs)
                BY <1>1, <1>3, <3>1
            <4> QED
                BY <1>4, <1>7, <2>1, <4>1 DEF EndOf
        <3>2. CASE n # L - 1
            <4>1. n + 1 \in 1 .. L - 1 /\ n # L /\ n # Len(gs)
                BY <1>1, <1>3, <2>1, <3>2
            <4> QED
                BY <1>4, <1>7, <2>1, <4>1 DEF EndOf
        <3> QED
            BY <3>1, <3>2
    <2>3. n < Len(gs) => n < L /\ gs[n + 1] = fs[n + 1]
        <3>1. n < Len(gs) => n < L /\ n + 1 \in 1 .. L - 1
            BY <1>1, <1>3, <2>1
        <3> QED
            BY <1>3, <3>1
    <2> QED
        BY <2>1, <2>2, <2>3 DEF Laid
<1>9. Layout(k, gs)
    <2>1. Len(k.buffer) < MemoryLimit + WordBytes
        BY <1>1, <1>2, <1>7, MemoryAssumption DEF Layout
    <2>2. k.last_checkpoint = IF gs = << >> THEN 0 ELSE k.checkpoints[Len(gs)]
        BY <1>3, <1>7
    <2> QED
        BY <1>3, <1>4, <1>7, <1>8, <2>1, <2>2 DEF Layout
<1>10. ASSUME gs # << >>, fs[L].kind = "call", Last(gs).out.len # 0
       PROVE  Last(gs).out.offset + Last(gs).out.len <= MemoryLen(k)
    <2>1. Last(gs) = fs[L - 1] /\ L - 1 \in 1 .. Len(gs) /\ L - 1 \in 1 .. L /\ L - 1 + 1 = L
        BY <1>1, <1>3, <1>10 DEF Last
    <2>2. Laid(m, fs, L - 1)
        BY <2>1 DEF Layout
    <2>3. EndOf(m, fs, L - 1) - m.checkpoints[L - 1] = MemoryLen(k)
        <3>1. MemoryLen(k) = m.checkpoints[L] - rest[L - 1]
            BY <1>7, <1>10 DEF MemoryLen
        <3>2. rest[L - 1] = m.checkpoints[L - 1]
            BY <1>4, <2>1, <1>3
        <3>3. EndOf(m, fs, L - 1) = m.checkpoints[L]
            <4>1. L - 1 # L
                BY <1>1
            <4> QED
                BY <2>1, <4>1 DEF EndOf
        <3> QED
            BY <3>1, <3>2, <3>3
    <2> QED
        BY <1>10, <2>1, <2>2, <2>3, <1>1 DEF Laid
<1> QED
    BY <1>9, <1>10 DEF k, gs
-----------------------------------------------------------------------------
(* Instructions                                                            *)

\* gs are the frames, the running one with this gas and otherwise perhaps changed.
Updated(gs, gas) ==
    /\ gs \in Seq(FrameType)
    /\ Len(gs) = Len(frames)
    /\ \A n \in 1 .. Len(frames) - 1 : gs[n] = frames[n]
    /\ gs[Len(frames)].kind = Interpreter.kind
    /\ gs[Len(frames)].limit = Interpreter.limit
    /\ gs[Len(frames)].gas = gas

\* The running frame has its new gas.
LEMMA GasUpdated ==
    ASSUME MemoryInv, frames # << >>, NEW gas \in Int
    PROVE  Updated([frames EXCEPT ![Len(frames)].gas = gas], gas)
<1> DEFINE L == Len(frames)
           f == [frames[L] EXCEPT !.gas = gas]
<1>1. L \in Nat \ {0} /\ frames \in Seq(FrameType) /\ frames[L] \in FrameType
    BY DEF MemoryInv, Layout
<1>2. f \in FrameType /\ f.kind = frames[L].kind /\ f.limit = frames[L].limit /\ f.gas = gas
    BY <1>1 DEF FrameType
<1>3. [frames EXCEPT ![Len(frames)].gas = gas] = [frames EXCEPT ![L] = f]
    BY <1>1
<1> HIDE DEF f
<1> QED
    BY <1>1, <1>2, <1>3 DEF Updated, Interpreter, Last

\* The running frame has its new gas and range for the output.
LEMMA OutUpdated ==
    ASSUME MemoryInv, frames # << >>, NEW gas \in Int, NEW out \in [offset : Nat, len : Nat],
           NEW data \in Seq(Nat)
    PROVE  /\ Updated([frames EXCEPT ![Len(frames)].gas = gas, ![Len(frames)].out = out], gas)
           /\ [frames EXCEPT ![Len(frames)].gas = gas,
                             ![Len(frames)].out = out][Len(frames)].out = out
           /\ LET f == [Interpreter EXCEPT !.gas = gas, !.out = out]
              IN  /\ Updated(Append(Front(frames), [f EXCEPT !.return_data_buffer = data]), gas)
                  /\ f.out = out
<1> DEFINE L == Len(frames)
           f == [frames[L] EXCEPT !.gas = gas, !.out = out]
           g == [f EXCEPT !.return_data_buffer = data]
<1>1. /\ L \in Nat \ {0} /\ frames \in Seq(FrameType) /\ frames[L] \in FrameType
      /\ Interpreter = frames[L]
    BY DEF MemoryInv, Layout, Interpreter, Last
<1>2. /\ f \in FrameType /\ f.kind = frames[L].kind /\ f.limit = frames[L].limit /\ f.gas = gas
      /\ f.out = out
    BY <1>1 DEF FrameType
<1>3. /\ g \in FrameType /\ g.kind = frames[L].kind /\ g.limit = frames[L].limit /\ g.gas = gas
    <2> HIDE DEF f
    <2> QED
        BY <1>2 DEF FrameType
<1>4. [frames EXCEPT ![Len(frames)].gas = gas, ![Len(frames)].out = out] = [frames EXCEPT ![L] = f]
    BY <1>1
<1>5. Front(frames) \in Seq(FrameType) /\ Len(Front(frames)) = L - 1
      /\ \A n \in 1 .. L - 1 : Front(frames)[n] = frames[n]
    BY <1>1, Popped
<1> HIDE DEF f, g
<1>6. Updated([frames EXCEPT ![L] = f], gas) /\ [frames EXCEPT ![L] = f][L] = f
    BY <1>1, <1>2 DEF Updated
<1>7. Updated(Append(Front(frames), g), gas)
    <2> DEFINE p == Front(frames)
               q == Append(p, g)
    <2>1. /\ q \in Seq(FrameType) /\ Len(q) = L - 1 + 1 /\ q[L - 1 + 1] = g
          /\ \A n \in 1 .. L - 1 : q[n] = p[n]
        BY <1>3, <1>5, Pushed
    <2>2. L - 1 + 1 = L
        BY <1>1
    <2> HIDE DEF q
    <2> QED
        BY <1>1, <1>3, <1>5, <2>1, <2>2 DEF Updated, q
<1> QED
    BY <1>1, <1>2, <1>4, <1>6, <1>7 DEF f, g

\* What an instruction leaves to its frame.
LEMMA TopLayout ==
    ASSUME MemoryInv, frames # << >>, NEW i, Reached(i), NEW m, Rewritten(i.memory, m),
           NEW gs, Updated(gs, i.gas)
    PROVE  Layout(m, gs) /\ MemoryLen(m) = MemoryLen(i.memory)
<1>1. MemoryLen(m) = MemoryLen(i.memory)
    BY DEF Rewritten, MemoryLen
<1>2. Paid(MemoryLen(m), gs[Len(frames)].limit, gs[Len(frames)].gas)
    BY <1>1 DEF Reached, Updated
<1>3. Layout(memory, frames)
    BY DEF MemoryInv
<1>4. /\ m \in Mem /\ m.checkpoints = memory.checkpoints
      /\ m.last_checkpoint = memory.last_checkpoint
      /\ Len(m.buffer) >= Len(memory.buffer) /\ Len(m.buffer) < MemoryLimit + WordBytes
    BY DEF Rewritten, Reached, Stretched
<1>5. gs[Len(frames)].kind = frames[Len(frames)].kind
    BY DEF Updated, Interpreter, Last
<1> QED
    BY <1>1, <1>2, <1>3, <1>4, <1>5, LayoutTop DEF Updated

\* An instruction that went through and stays inside the memory it reached.
LEMMA ContinuesInv ==
    ASSUME MemoryInv, frames # << >>, NEW i, Reached(i), NEW m, Rewritten(i.memory, m),
           memory' = m, frames' = [frames EXCEPT ![Len(frames)].gas = i.gas],
           unreachable' # "range"
    PROVE  MemoryInv'
<1>1. Updated([frames EXCEPT ![Len(frames)].gas = i.gas], i.gas)
    BY GasUpdated DEF Reached
<1>2. Layout(m, [frames EXCEPT ![Len(frames)].gas = i.gas])
    BY <1>1, TopLayout
<1> QED
    BY <1>2 DEF MemoryInv, NeverOutOfBounds

\* f is the frame with the output of a call as its return data.
Answered(caller, f) ==
    \E data \in Seq(Nat) : f = [caller EXCEPT !.return_data_buffer = data]

\* insert_call_outcome and insert_create_outcome: the output goes to memory that
\* is there.
LEMMA InsertOutcomeLayout ==
    ASSUME NEW m \in Mem, NEW caller \in FrameType, NEW kind, NEW result,
           NEW output \in Seq(Nat),
           kind = "call" /\ caller.out.len # 0 =>
               caller.out.offset + caller.out.len <= MemoryLen(m)
    PROVE  LET o == InsertOutcome(m, caller, kind, result, output)
           IN  /\ Rewritten(m, o.memory)
               /\ o.unreachable = ""
               /\ Answered(caller, o.caller)
<1> DEFINE kept == IF kind = "create" /\ result # "revert" THEN << >> ELSE output
           target_len == Min({caller.out.len, Len(output)})
           writes == kind = "call" /\ result # "halt" /\ target_len # 0
           o == InsertOutcome(m, caller, kind, result, output)
<1>1. /\ caller.out.offset \in Nat /\ caller.out.len \in Nat /\ Len(output) \in Nat
      /\ m.last_checkpoint \in Nat /\ Len(m.buffer) \in Nat
    BY DEF FrameType, Mem
<1>2. target_len \in Nat /\ target_len <= caller.out.len /\ target_len <= Len(output)
    BY <1>1, PairMinMax
<1>3. kept \in Seq(Nat)
    OBVIOUS
<1>4. o = [memory |-> IF writes THEN SetBytes(m, caller.out.offset, SubSeq(output, 1, target_len))
                      ELSE m,
           unreachable |-> Outside(writes /\ ~InBounds(m, caller.out.offset, target_len)),
           caller |-> [caller EXCEPT !.return_data_buffer = kept]]
    BY DEF InsertOutcome
<1> HIDE DEF target_len, kept, o
<1>5. SubSeq(output, 1, target_len) \in Seq(Nat)
    BY <1>1, <1>2, PartBytes
<1>6. Rewritten(m, o.memory)
    <2>1. Rewritten(m, SetBytes(m, caller.out.offset, SubSeq(output, 1, target_len)))
        BY <1>1, <1>5, SetBytesRewrites
    <2>2. Rewritten(m, m)
        BY DEF Rewritten
    <2> QED
        BY <1>4, <2>1, <2>2
<1>7. ASSUME writes PROVE InBounds(m, caller.out.offset, target_len)
    <2>1. caller.out.len # 0
        BY <1>1, <1>2, <1>7
    <2>2. caller.out.offset + caller.out.len <= MemoryLen(m)
        BY <1>7, <2>1
    <2> QED
        BY <1>1, <1>2, <2>2 DEF InBounds, MemoryLen
<1>8. o.unreachable = ""
    BY <1>4, <1>7 DEF Outside
<1>9. Answered(caller, o.caller)
    BY <1>3, <1>4 DEF Answered
<1> QED
    BY <1>6, <1>8, <1>9 DEF o

\* A frame ends, and its caller goes on.
LEMMA EndsInv ==
    ASSUME MemoryInv, frames # << >>, NEW i, Reached(i), NEW result, NEW output \in Seq(Nat),
           Ends(i.memory, result, output)
    PROVE  MemoryInv'
<1> DEFINE gs == [frames EXCEPT ![Len(frames)].gas = i.gas]
           freed == FreeContext(i.memory)
           callers == Front(frames)
           L == Len(frames)
<1>1. Updated(gs, i.gas)
    BY GasUpdated DEF Reached
<1>2. Layout(i.memory, gs)
    <2>1. Rewritten(i.memory, i.memory)
        BY DEF Rewritten, Reached
    <2> QED
        BY <1>1, <2>1, TopLayout
<1>3. L \in Nat \ {0} /\ frames \in Seq(FrameType) /\ gs \in Seq(FrameType) /\ Len(gs) = L
    BY <1>1 DEF MemoryInv, Layout, Updated
<1>4. gs # << >> /\ gs[Len(gs)].kind = Interpreter.kind
    BY <1>1, <1>3 DEF Updated
<1>5. Front(gs) = callers
    <2>1. /\ Front(gs) \in Seq(FrameType) /\ Len(Front(gs)) = L - 1
          /\ \A n \in 1 .. L - 1 : Front(gs)[n] = gs[n]
        BY <1>3, <1>4, Popped
    <2>2. /\ callers \in Seq(FrameType) /\ Len(callers) = L - 1
          /\ \A n \in 1 .. L - 1 : callers[n] = frames[n]
        BY <1>3, Popped
    <2>3. \A n \in 1 .. L - 1 : Front(gs)[n] = callers[n]
        BY <1>1, <2>1, <2>2 DEF Updated
    <2> HIDE DEF gs, callers
    <2> QED
        BY <2>1, <2>2, <2>3
<1> HIDE DEF gs
<1>6. /\ Layout(freed, callers)
      /\ callers # << >> /\ Interpreter.kind = "call" /\ Last(callers).out.len # 0 =>
             Last(callers).out.offset + Last(callers).out.len <= MemoryLen(freed)
    BY <1>2, <1>4, <1>5, LayoutCloses
<1>7. CASE callers = << >>
    <2>1. memory' = freed /\ frames' = callers /\ unreachable' = unreachable
        BY <1>7 DEF Ends
    <2> QED
        BY <1>6, <2>1 DEF MemoryInv, NeverOutOfBounds
<1>8. CASE callers # << >>
    <2> DEFINE o == InsertOutcome(freed, Last(callers), Interpreter.kind, result, output)
    <2>1. memory' = o.memory /\ frames' = Append(Front(callers), o.caller)
          /\ unreachable' = o.unreachable
        BY <1>8 DEF Ends
    <2> HIDE DEF callers, freed
    <2>2. /\ callers \in Seq(FrameType) /\ Len(callers) \in Nat \ {0} /\ freed \in Mem
          /\ Last(callers) \in FrameType /\ Last(callers) = callers[Len(callers)]
        BY <1>6, <1>8 DEF Layout, Last
    <2>3. /\ Rewritten(freed, o.memory) /\ o.unreachable = ""
          /\ Answered(Last(callers), o.caller)
        BY <1>6, <1>8, <2>2, InsertOutcomeLayout
    <2> HIDE DEF o
    <2>4. /\ o.caller \in FrameType /\ o.caller.kind = Last(callers).kind
          /\ o.caller.limit = Last(callers).limit /\ o.caller.gas = Last(callers).gas
        BY <2>2, <2>3 DEF FrameType, Answered
    <2> DEFINE hs == Append(Front(callers), o.caller)
               K == Len(callers)
    <2>5. /\ hs \in Seq(FrameType) /\ Len(hs) = K /\ hs[K] = o.caller
          /\ \A n \in 1 .. K - 1 : hs[n] = callers[n]
        <3>1. /\ Front(callers) \in Seq(FrameType) /\ Len(Front(callers)) = K - 1
              /\ \A n \in 1 .. K - 1 : Front(callers)[n] = callers[n]
            BY <1>8, <2>2, Popped
        <3>2. /\ hs \in Seq(FrameType) /\ Len(hs) = K - 1 + 1 /\ hs[K - 1 + 1] = o.caller
              /\ \A n \in 1 .. K - 1 : hs[n] = Front(callers)[n]
            BY <2>4, <3>1, Pushed
        <3>3. K - 1 + 1 = K
            BY <2>2
        <3> HIDE DEF hs
        <3> QED
            BY <3>1, <3>2, <3>3
    <2> HIDE DEF hs
    <2>6. Layout(o.memory, hs)
        <3>1. Laid(freed, callers, K)
            BY <1>6, <2>2 DEF Layout
        <3>2. MemoryLen(freed) = EndOf(freed, callers, K) - freed.checkpoints[K]
            BY <1>6, <1>8 DEF MemoryLen, EndOf, Layout
        <3>3. Paid(MemoryLen(o.memory), hs[K].limit, hs[K].gas)
            BY <2>2, <2>3, <2>4, <2>5, <3>1, <3>2 DEF Laid, Rewritten, MemoryLen
        <3>4. Len(freed.buffer) \in Nat /\ Len(freed.buffer) < MemoryLimit + WordBytes
            BY <1>6 DEF Layout, Mem
        <3>5. /\ o.memory \in Mem /\ o.memory.checkpoints = freed.checkpoints
              /\ o.memory.last_checkpoint = freed.last_checkpoint
              /\ Len(o.memory.buffer) >= Len(freed.buffer)
              /\ Len(o.memory.buffer) < MemoryLimit + WordBytes
            <4>1. /\ o.memory \in Mem /\ o.memory.checkpoints = freed.checkpoints
                  /\ o.memory.last_checkpoint = freed.last_checkpoint
                  /\ Len(o.memory.buffer) = Len(freed.buffer)
                BY <2>3 DEF Rewritten
            <4> QED
                BY <3>4, <4>1
        <3>6. hs[K].kind = callers[K].kind
            BY <2>2, <2>4, <2>5
        <3>7. Layout(freed, callers)
            BY <1>6
        <3> QED
            BY <1>8, <2>5, <3>3, <3>5, <3>6, <3>7, LayoutTop
    <2> QED
        BY <2>1, <2>3, <2>6 DEF hs, MemoryInv, NeverOutOfBounds
<1> QED
    BY <1>7, <1>8
\* A frame opens another.
LEMMA OpensInv ==
    ASSUME MemoryInv, frames # << >>, NEW i, Reached(i), NEW gs, Updated(gs, i.gas),
           NEW f \in FrameType, f.gas = f.limit,
           f.kind = "call" /\ gs[Len(frames)].out.len # 0 =>
               gs[Len(frames)].out.offset + gs[Len(frames)].out.len <= MemoryLen(i.memory),
           memory' = NewContext(i.memory), frames' = Append(gs, f),
           UNCHANGED unreachable
    PROVE  MemoryInv'
<1>1. Rewritten(i.memory, i.memory)
    BY DEF Rewritten, Reached
<1>2. Layout(i.memory, gs)
    BY <1>1, TopLayout
<1>3. Len(gs) = Len(frames)
    BY DEF Updated
<1>4. Layout(NewContext(i.memory), Append(gs, f))
    BY <1>2, <1>3, LayoutOpens
<1> QED
    BY <1>4 DEF MemoryInv, NeverOutOfBounds

\* An instruction that fails, and Halt.
LEMMA FailsInv ==
    ASSUME MemoryInv, frames # << >>, NEW i, Reached(i),
           Fails(i) \/ Ends(i.memory, "halt", << >>)
    PROVE  MemoryInv'
<1>1. << >> \in Seq(Nat)
    OBVIOUS
<1> QED
    BY <1>1, EndsInv DEF Fails

\* The access of an instruction.
LEMMA InstructionAccess ==
    ASSUME MemoryInv, frames # << >>, NEW offset \in Nat, NEW len \in Nat
    PROVE  LET i == Access(Instruction, offset, len)
           IN  /\ Reached(i) /\ i.memory \in Mem
               /\ i.ok => Reachable(i, offset, len)
               /\ Bytes(i, offset, len) \in Seq(Nat)
<1> DEFINE i == Access(Instruction, offset, len)
<1>1. Reached(i) /\ (i.ok => Reachable(i, offset, len))
    BY InstructionReached, AccessReached
<1> HIDE DEF i
<1>2. i.memory \in Mem
    BY <1>1 DEF Reached
<1>3. Bytes(i, offset, len) \in Seq(Nat)
    BY <1>2, SliceBytes DEF Bytes
<1> QED
    BY <1>1, <1>2, <1>3 DEF i

\* get_memory_input_and_out_ranges.
LEMMA CallRangesReached ==
    ASSUME MemoryInv, frames # << >>,
           NEW offset \in Nat, NEW len \in Nat, NEW out_offset \in Nat, NEW out_len \in Nat
    PROVE  LET r == CallRanges(offset, len, out_offset, out_len)
           IN  /\ Reached(r.i) /\ r.i.memory \in Mem /\ r.i.gas \in Int
               /\ r.input \in Seq(Nat) /\ r.out \in [offset : Nat, len : Nat]
               /\ r.i.ok /\ r.out.len # 0 => r.out.offset + r.out.len <= MemoryLen(r.i.memory)
<1> DEFINE in == Access(Instruction, offset, len)
           i == IF in.ok THEN Access(in, out_offset, out_len) ELSE in
           out == [offset |-> IF out_len = 0 THEN MaxUsize ELSE out_offset, len |-> out_len]
           input == IF in.ok THEN Bytes(in, offset, len) ELSE << >>
           r == CallRanges(offset, len, out_offset, out_len)
<1>1. Reached(in) /\ Bytes(in, offset, len) \in Seq(Nat)
    BY InstructionAccess
<1>2. r = [i |-> i, input |-> input, out |-> out]
    BY DEF CallRanges
<1>3. input \in Seq(Nat) /\ out \in [offset : Nat, len : Nat]
    BY <1>1, MemoryAssumption
<1> HIDE DEF in
<1>4. /\ Reached(Access(in, out_offset, out_len))
      /\ Access(in, out_offset, out_len).ok =>
             Reachable(Access(in, out_offset, out_len), out_offset, out_len)
    BY <1>1, AccessReached
<1>5. Reached(i) /\ (i.ok => Reachable(i, out_offset, out_len))
    BY <1>1, <1>4
<1> HIDE DEF i, input
<1>6. i.ok /\ out.len # 0 => out.offset + out.len <= MemoryLen(i.memory)
    BY <1>5 DEF Reachable, InBounds
<1>7. i.memory \in Mem /\ i.gas \in Int
    BY <1>5 DEF Reached
<1> HIDE DEF out, r
<1> QED
    BY <1>2, <1>3, <1>5, <1>6, <1>7 DEF r

\* MLOAD and the other readers.
LEMMA ReadsInv ==
    ASSUME MemoryInv, NEW offset \in Nat, NEW len \in Nat, Reads(offset, len)
    PROVE  MemoryInv'
<1> DEFINE i == Access(Instruction, offset, len)
<1>1. frames # << >> /\ Reached(i) /\ i.memory \in Mem /\ (i.ok => Reachable(i, offset, len))
    BY InstructionAccess DEF Reads, Steps
<1>2. \/ Fails(i)
      \/ i.ok /\ Continues(i, Bytes(i, offset, len))
         /\ unreachable' = Outside(~Reachable(i, offset, len))
    BY DEF Reads
<1> HIDE DEF i
<1>3. Rewritten(i.memory, i.memory)
    BY <1>1 DEF Rewritten
<1>4. CASE Fails(i)
    BY <1>1, <1>4, FailsInv
<1>5. CASE ~Fails(i)
    BY <1>1, <1>2, <1>3, <1>5, ContinuesInv DEF Continues, Outside
<1> QED
    BY <1>4, <1>5

\* An instruction that writes inside the memory it reached, or fails.
LEMMA WritesInv ==
    ASSUME MemoryInv, frames # << >>, NEW i, Reached(i), NEW m, Rewritten(i.memory, m),
           NEW missed, i.ok => ~missed,
           \/ Fails(i)
           \/ i.ok /\ Continues([i EXCEPT !.memory = m], << >>) /\ unreachable' = Outside(missed)
    PROVE  MemoryInv'
<1>1. CASE Fails(i)
    BY <1>1, FailsInv
<1>2. CASE ~Fails(i)
    <2>1. [i EXCEPT !.memory = m].memory = m /\ [i EXCEPT !.memory = m].gas = i.gas
        BY DEF Reached
    <2> QED
        BY <1>2, <2>1, ContinuesInv DEF Continues, Outside
<1> QED
    BY <1>1, <1>2

\* MSTORE and MSTORE8.
LEMMA StoresInv ==
    ASSUME MemoryInv, NEW offset \in Nat, NEW value \in Seq(Nat), Stores(offset, value)
    PROVE  MemoryInv'
<1> DEFINE i == Access(Instruction, offset, Len(value))
           m == SetBytes(i.memory, offset, value)
<1>1. frames # << >> /\ Len(value) \in Nat
    <2>1. Steps
        BY DEF Stores
    <2>2. Len(value) \in Nat
        OBVIOUS
    <2> QED
        BY <2>1, <2>2, Zenon DEF Steps
<1>2. Reached(i) /\ i.memory \in Mem /\ (i.ok => Reachable(i, offset, Len(value)))
    BY <1>1, InstructionAccess
<1>3. \/ Fails(i)
      \/ /\ i.ok /\ Continues([i EXCEPT !.memory = m], << >>)
         /\ unreachable' = Outside(~Reachable(i, offset, Len(value)))
    BY DEF Stores
<1>4. Rewritten(i.memory, m)
    BY <1>2, SetBytesRewrites
<1> HIDE DEF i, m
<1> QED
    BY <1>1, <1>2, <1>3, <1>4, WritesInv

\* MSIZE.
LEMMA MsizeInv ==
    ASSUME MemoryInv, Msize
    PROVE  MemoryInv'
<1>1. frames # << >>
    BY DEF Msize, Steps
<1>2. Reached(Instruction) /\ Instruction.memory = memory
    BY <1>1, InstructionReached DEF Instruction
<1>3. Rewritten(memory, memory)
    BY <1>2 DEF Reached, Rewritten
<1> QED
    BY <1>1, <1>2, <1>3, ContinuesInv DEF Msize, Continues, MemoryInv, NeverOutOfBounds

\* MCOPY: memory up to the end of the later range holds both.
LEMMA McopyInv ==
    ASSUME MemoryInv, NEW dst \in Nat, NEW src \in Nat, NEW len \in Nat, Mcopy(dst, src, len)
    PROVE  MemoryInv'
<1> DEFINE i == McopyRange(Instruction, dst, src, len)
           m == IF len = 0 THEN i.memory ELSE CopyWithin(i.memory, dst, src, len)
           missed == len # 0 /\ ~(InBounds(i.memory, src, len) /\ InBounds(i.memory, dst, len))
           far == Max({dst, src})
<1>1. frames # << >>
    BY DEF Mcopy, Steps
<1>2. far \in Nat /\ far >= dst /\ far >= src
    BY PairMinMax
<1> HIDE DEF far
<1>3. Reached(i) /\ (i.ok => len = 0 \/ InBounds(i.memory, far, len))
    <2>1. CASE len # 0 /\ ~(FitsUsize(dst) /\ FitsUsize(src))
        BY <1>1, <2>1, InstructionReached, StopReached DEF McopyRange
    <2>2. CASE ~(len # 0 /\ ~(FitsUsize(dst) /\ FitsUsize(src)))
        <3>1. i = Access(Instruction, far, len)
            BY <2>2 DEF McopyRange, far
        <3>2. /\ Reached(Access(Instruction, far, len))
              /\ Access(Instruction, far, len).ok => Reachable(Access(Instruction, far, len), far, len)
            BY <1>1, <1>2, InstructionAccess
        <3> QED
            BY <3>1, <3>2 DEF Reachable
    <2> QED
        BY <2>1, <2>2
<1>4. \/ Fails(i)
      \/ i.ok /\ Continues([i EXCEPT !.memory = m], << >>) /\ unreachable' = Outside(missed)
    BY DEF Mcopy
<1> HIDE DEF i
<1>5. i.memory \in Mem
    BY <1>3 DEF Reached
<1>6. i.ok => ~missed
    <2>1. MemoryLen(i.memory) \in Int
        BY <1>5 DEF Mem, MemoryLen
    <2> QED
        BY <1>2, <1>3, <2>1 DEF InBounds
<1>7. Rewritten(i.memory, m)
    <2>1. Rewritten(i.memory, i.memory)
        BY <1>5 DEF Rewritten
    <2>2. Rewritten(i.memory, CopyWithin(i.memory, dst, src, len))
        BY <1>5, SliceBytes, SetBytesRewrites DEF CopyWithin
    <2> QED
        BY <2>1, <2>2
<1> HIDE DEF m
<1> QED
    BY <1>1, <1>3, <1>4, <1>6, <1>7, WritesInv

\* CALLDATACOPY and its kin.
LEMMA DataCopyInv ==
    ASSUME MemoryInv, NEW offset \in Nat, NEW from \in Nat, NEW len \in Nat,
           DataCopy(offset, from, len)
    PROVE  MemoryInv'
<1> DEFINE i == Access(Instruction, offset, len)
           m == IF len = 0 THEN i.memory
                ELSE SetData(i.memory, offset, Saturated(from), len, Interpreter.input)
<1>1. frames # << >>
    BY DEF DataCopy, Steps
<1>2. Reached(i) /\ i.memory \in Mem /\ (i.ok => Reachable(i, offset, len))
    BY <1>1, InstructionAccess
<1>3. \/ Fails(i)
      \/ /\ i.ok /\ Continues([i EXCEPT !.memory = m], << >>)
         /\ unreachable' = Outside(~Reachable(i, offset, len))
    BY DEF DataCopy
<1>4. Rewritten(i.memory, m)
    <2>1. Saturated(from) \in Nat /\ Interpreter.input \in Seq(Nat)
        BY <1>1, InstructionReached, MemoryAssumption DEF Saturated, FrameType
    <2>2. Rewritten(i.memory, i.memory)
        BY <1>2 DEF Rewritten
    <2> QED
        BY <1>2, <2>1, <2>2, SetDataRewrites
<1> HIDE DEF i, m
<1> QED
    BY <1>1, <1>2, <1>3, <1>4, WritesInv

\* RETURNDATACOPY.
LEMMA ReturnDataCopyInv ==
    ASSUME MemoryInv, NEW offset \in Nat, NEW from \in Nat, NEW len \in Nat,
           ReturnDataCopy(offset, from, len)
    PROVE  MemoryInv'
<1> DEFINE data == Interpreter.return_data_buffer
           data_end == SaturatingSum(Saturated(from), len)
           i == IF ~FitsUsize(len) \/ data_end > Len(data)
                THEN [Instruction EXCEPT !.ok = FALSE]
                ELSE Access(Instruction, offset, len)
           m == IF len = 0 THEN i.memory
                ELSE SetBytes(i.memory, offset, SubSeq(data, from + 1, data_end))
           m0 == IF i.ok THEN m ELSE i.memory
<1>1. frames # << >>
    BY DEF ReturnDataCopy, Steps
<1>2. Reached(i) /\ (i.ok => Reachable(i, offset, len) /\ data_end <= Len(data))
    <2>1. CASE ~FitsUsize(len) \/ data_end > Len(data)
        BY <1>1, <2>1, InstructionReached, StopReached
    <2>2. CASE FitsUsize(len) /\ ~(data_end > Len(data))
        <3>1. data_end <= Len(data)
            <4>1. data_end \in Nat /\ Len(data) \in Nat
                BY <1>1, <2>2, InstructionReached, MemoryAssumption
                DEF Saturated, SaturatingSum, FitsUsize, FrameType
            <4> QED
                BY <2>2, <4>1
        <3>2. i = Access(Instruction, offset, len)
            BY <2>2
        <3>3. /\ Reached(Access(Instruction, offset, len))
              /\ Access(Instruction, offset, len).ok =>
                     Reachable(Access(Instruction, offset, len), offset, len)
            BY <1>1, InstructionAccess
        <3> QED
            BY <3>1, <3>2, <3>3
    <2> QED
        BY <2>1, <2>2
<1>3. \/ Fails(i)
      \/ /\ i.ok /\ Continues([i EXCEPT !.memory = m], << >>)
         /\ unreachable' = Outside(~Reachable(i, offset, len))
    BY DEF ReturnDataCopy
<1> HIDE DEF i
<1>4. i.memory \in Mem /\ Rewritten(i.memory, i.memory)
    BY <1>2 DEF Reached, Rewritten
<1>5. ASSUME i.ok PROVE Rewritten(i.memory, m)
    <2>1. data \in Seq(Nat) /\ data_end \in Nat /\ from + 1 \in Nat \ {0}
        <3>1. data \in Seq(Nat)
            BY <1>1, InstructionReached DEF FrameType
        <3>2. Saturated(from) \in Nat /\ Saturated(from) <= MaxUsize
            BY MemoryAssumption DEF Saturated, FitsUsize
        <3>3. data_end \in Nat
            BY <3>2, MemoryAssumption DEF SaturatingSum
        <3> QED
            BY <3>1, <3>3
    <2>2. data_end \in 0 .. Len(data)
        BY <1>2, <1>5, <2>1
    <2> HIDE DEF data, data_end
    <2>3. SubSeq(data, from + 1, data_end) \in Seq(Nat)
        BY <2>1, <2>2, PartBytes
    <2> QED
        BY <1>4, <2>3, SetBytesRewrites
<1>6. Rewritten(i.memory, m0)
    BY <1>4, <1>5
<1>7. \/ Fails(i)
      \/ /\ i.ok /\ Continues([i EXCEPT !.memory = m0], << >>)
         /\ unreachable' = Outside(~Reachable(i, offset, len))
    BY <1>3
<1> HIDE DEF m0
<1> QED
    BY <1>1, <1>2, <1>6, <1>7, WritesInv

\* RETURN and REVERT.
LEMMA ReturnsInv ==
    ASSUME MemoryInv, NEW result, NEW offset \in Nat, NEW len \in Nat,
           Returns(result, offset, len)
    PROVE  MemoryInv'
<1> DEFINE i == Access(Instruction, offset, len)
<1>1. frames # << >>
    BY DEF Returns, Steps
<1>2. Reached(i) /\ Bytes(i, offset, len) \in Seq(Nat)
    BY <1>1, InstructionAccess
<1>3. Fails(i) \/ Ends(i.memory, result, Bytes(i, offset, len))
    BY DEF Returns
<1> HIDE DEF i
<1> QED
    BY <1>1, <1>2, <1>3, FailsInv, EndsInv

\* CREATE and CREATE2.
LEMMA CreateInv ==
    ASSUME MemoryInv, NEW offset \in Nat, NEW len \in Nat, NEW gas \in Nat,
           Create(offset, len, gas)
    PROVE  MemoryInv'
<1> DEFINE i == Access(Instruction, offset, len)
           gs == [frames EXCEPT ![Len(frames)].gas = i.gas]
           f == Frame("create", << >>, gas)
<1>1. frames # << >>
    BY DEF Create, Steps
<1>2. Reached(i)
    BY <1>1, InstructionAccess
<1>3. \/ Fails(i)
      \/ /\ memory' = NewContext(i.memory) /\ frames' = Append(gs, f)
         /\ UNCHANGED unreachable
    BY DEF Create
<1> HIDE DEF i
<1>4. Updated(gs, i.gas)
    BY <1>1, <1>2, GasUpdated DEF Reached
<1>5. f \in FrameType /\ f.gas = f.limit /\ f.kind # "call"
    BY MemoryAssumption DEF Frame, FrameType
<1> HIDE DEF gs, f
<1>6. CASE Fails(i)
    BY <1>1, <1>2, <1>6, FailsInv
<1>7. CASE ~Fails(i)
    BY <1>1, <1>2, <1>3, <1>4, <1>5, <1>7, OpensInv
<1> QED
    BY <1>6, <1>7

\* CALL and its variants.
LEMMA CallInv ==
    ASSUME MemoryInv, NEW offset \in Nat, NEW len \in Nat,
           NEW out_offset \in Nat, NEW out_len \in Nat, NEW gas \in Nat,
           Call(offset, len, out_offset, out_len, gas)
    PROVE  MemoryInv'
<1> DEFINE r == CallRanges(offset, len, out_offset, out_len)
           i == r.i
           gs == [frames EXCEPT ![Len(frames)].gas = i.gas, ![Len(frames)].out = r.out]
           f == Frame("call", r.input, gas)
<1>1. frames # << >>
    BY DEF Call, Steps
<1>2. /\ Reached(i) /\ i.gas \in Int
      /\ r.input \in Seq(Nat) /\ r.out \in [offset : Nat, len : Nat]
      /\ i.ok /\ r.out.len # 0 => r.out.offset + r.out.len <= MemoryLen(i.memory)
    BY <1>1, CallRangesReached
<1>3. \/ Fails(i)
      \/ /\ i.ok /\ memory' = NewContext(i.memory) /\ frames' = Append(gs, f)
         /\ UNCHANGED unreachable
    BY DEF Call
<1> HIDE DEF r
<1>4. Updated(gs, i.gas) /\ gs[Len(frames)].out = r.out
    <2>1. << >> \in Seq(Nat)
        OBVIOUS
    <2> QED
        BY <1>1, <1>2, <2>1, OutUpdated
<1>5. f \in FrameType /\ f.gas = f.limit
    BY <1>2, MemoryAssumption DEF Frame, FrameType
<1> HIDE DEF gs, f, i
<1>6. CASE Fails(i)
    BY <1>1, <1>2, <1>6, FailsInv
<1>7. CASE ~Fails(i)
    BY <1>1, <1>2, <1>3, <1>4, <1>5, <1>7, OpensInv
<1> QED
    BY <1>6, <1>7

\* EXTCALL and its kin.
LEMMA ExtCallInv ==
    ASSUME MemoryInv, NEW offset \in Nat, NEW len \in Nat, NEW gas \in Nat,
           ExtCall(offset, len, gas)
    PROVE  MemoryInv'
<1> DEFINE i == Access(Instruction, offset, len)
           input == Bytes(i, offset, len)
           out == [offset |-> 0, len |-> 0]
           gs == [frames EXCEPT ![Len(frames)].gas = i.gas, ![Len(frames)].out = out]
           f == Frame("call", input, gas)
<1>1. frames # << >>
    BY DEF ExtCall, Steps
<1>2. Reached(i) /\ input \in Seq(Nat)
    BY <1>1, InstructionAccess
<1>3. \/ Fails(i)
      \/ unreachable' = "sentinel" /\ UNCHANGED <<memory, frames>>
      \/ /\ memory' = NewContext(i.memory) /\ frames' = Append(gs, f)
         /\ UNCHANGED unreachable
    BY DEF ExtCall
<1> HIDE DEF i, input
<1>4. Updated(gs, i.gas) /\ gs[Len(frames)].out.len = 0
    <2>1. << >> \in Seq(Nat) /\ out \in [offset : Nat, len : Nat] /\ i.gas \in Int /\ out.len = 0
        BY <1>2 DEF Reached
    <2> HIDE DEF out
    <2> QED
        BY <1>1, <2>1, OutUpdated
<1>5. f \in FrameType /\ f.gas = f.limit
    BY <1>2, MemoryAssumption DEF Frame, FrameType
<1> HIDE DEF gs, f
<1>6. CASE Fails(i)
    BY <1>1, <1>2, <1>6, FailsInv
<1>7. CASE unreachable' = "sentinel" /\ UNCHANGED <<memory, frames>>
    BY <1>7 DEF MemoryInv, NeverOutOfBounds
<1>8. CASE memory' = NewContext(i.memory) /\ frames' = Append(gs, f) /\ UNCHANGED unreachable
    BY <1>1, <1>2, <1>4, <1>5, <1>8, OpensInv
<1> QED
    BY <1>3, <1>6, <1>7, <1>8

\* A call answered at once.
LEMMA CallAnsweredInv ==
    ASSUME MemoryInv, NEW offset \in Nat, NEW len \in Nat,
           NEW out_offset \in Nat, NEW out_len \in Nat, NEW result, NEW output \in Seq(Nat),
           CallAnswered(offset, len, out_offset, out_len, result, output)
    PROVE  MemoryInv'
<1> DEFINE r == CallRanges(offset, len, out_offset, out_len)
           i == r.i
           caller == [Interpreter EXCEPT !.gas = i.gas, !.out = r.out]
           o == InsertOutcome(i.memory, caller, "call", result, output)
<1>1. frames # << >>
    BY DEF CallAnswered, Steps
<1>2. /\ Reached(i) /\ i.gas \in Int /\ i.memory \in Mem
      /\ r.input \in Seq(Nat) /\ r.out \in [offset : Nat, len : Nat]
      /\ i.ok /\ r.out.len # 0 => r.out.offset + r.out.len <= MemoryLen(i.memory)
    BY <1>1, CallRangesReached
<1>3. \/ Fails(i)
      \/ /\ i.ok /\ memory' = o.memory /\ frames' = Append(Front(frames), o.caller)
         /\ unreachable' = o.unreachable
    BY DEF CallAnswered
<1> HIDE DEF r, i
<1>4. CASE Fails(i)
    BY <1>1, <1>2, <1>4, FailsInv
<1>5. CASE i.ok /\ memory' = o.memory /\ frames' = Append(Front(frames), o.caller)
           /\ unreachable' = o.unreachable
    <2>1. caller \in FrameType /\ caller.out = r.out
        BY <1>1, <1>2, InstructionReached DEF FrameType
    <2>2. /\ Rewritten(i.memory, o.memory) /\ o.unreachable = "" /\ Answered(caller, o.caller)
        <3>1. caller.out.len # 0 => caller.out.offset + caller.out.len <= MemoryLen(i.memory)
            BY <1>2, <1>5, <2>1
        <3>2. i.memory \in Mem /\ caller \in FrameType
            BY <1>2, <2>1
        <3> HIDE DEF caller
        <3> QED
            BY <3>1, <3>2, InsertOutcomeLayout, Zenon
    <2>3. PICK data \in Seq(Nat) : o.caller = [caller EXCEPT !.return_data_buffer = data]
        BY <2>2 DEF Answered
    <2>4. Updated(Append(Front(frames), o.caller), i.gas)
        <3> HIDE DEF o
        <3> QED
            BY <1>1, <1>2, <2>3, OutUpdated
    <2> HIDE DEF o
    <2>5. Layout(o.memory, Append(Front(frames), o.caller))
        BY <1>1, <1>2, <2>2, <2>4, TopLayout
    <2> QED
        BY <1>5, <2>2, <2>5 DEF MemoryInv, NeverOutOfBounds
<1> QED
    BY <1>3, <1>4, <1>5

\* run_the_loop begins with a memory of no bytes and a context for the first frame.
LEMMA RunTheLoopInv ==
    ASSUME MemoryInv, NEW gas \in Nat, RunTheLoop(gas)
    PROVE  MemoryInv'
<1> DEFINE f == Frame("call", TxInput, gas)
<1>1. Layout(NewMemory, << >>)
    BY MemoryAssumption DEF Layout, NewMemory, Mem
<1>2. f \in FrameType /\ f.gas = f.limit
    BY MemoryAssumption, OperandsAssumption DEF Frame, FrameType
<1>3. Layout(NewContext(NewMemory), Append(<< >>, f))
    <2> HIDE DEF f
    <2> QED
        BY <1>1, <1>2, LayoutOpens
<1>4. memory' = NewContext(NewMemory) /\ frames' = <<f>> /\ UNCHANGED unreachable
    BY DEF RunTheLoop
<1>5. Append(<< >>, f) = <<f>>
    OBVIOUS
<1> QED
    BY <1>3, <1>4, <1>5 DEF MemoryInv, NeverOutOfBounds

\* Every instruction keeps the layout.
LEMMA MemoryNext ==
    ASSUME MemoryInv, [Next]_vars
    PROVE  MemoryInv'
<1> USE OperandsAssumption
<1>1. ASSUME NEW gas \in GasLimits, RunTheLoop(gas) PROVE MemoryInv'
    BY <1>1, RunTheLoopInv
<1>2. CASE Halt
    <2>1. frames # << >> /\ Ends(memory, "halt", << >>)
        BY <1>2 DEF Halt, Steps
    <2>2. Reached(Instruction) /\ Instruction.memory = memory
        BY <2>1, InstructionReached DEF Instruction
    <2> QED
        BY <2>1, <2>2, FailsInv
<1>3. CASE Msize
    BY <1>3, MsizeInv
<1>4. ASSUME NEW r \in Ranges, Reads(r[1], r[2]) PROVE MemoryInv'
    BY <1>4, ReadsInv
<1>5. ASSUME NEW r \in Ranges, NEW value \in Words, Stores(r[1], value) PROVE MemoryInv'
    BY <1>5, StoresInv
<1>6. ASSUME NEW r \in Ranges, NEW result \in {"return", "revert"}, Returns(result, r[1], r[2])
      PROVE  MemoryInv'
    BY <1>6, ReturnsInv
<1>7. ASSUME NEW r \in Ranges, NEW gas \in GasLimits, Create(r[1], r[2], gas) PROVE MemoryInv'
    BY <1>7, CreateInv
<1>8. ASSUME NEW c \in Copies, Mcopy(c[1], c[2], c[3]) PROVE MemoryInv'
    BY <1>8, McopyInv
<1>9. ASSUME NEW c \in Copies, DataCopy(c[1], c[2], c[3]) PROVE MemoryInv'
    BY <1>9, DataCopyInv
<1>10. ASSUME NEW c \in Copies, ReturnDataCopy(c[1], c[2], c[3]) PROVE MemoryInv'
    BY <1>10, ReturnDataCopyInv
<1>11. ASSUME NEW c \in CallOperands, NEW gas \in GasLimits,
              Call(c[1], c[2], c[3], c[4], gas) \/ ExtCall(c[1], c[2], gas)
       PROVE  MemoryInv'
    BY <1>11, CallInv, ExtCallInv
<1>12. ASSUME NEW c \in CallOperands, CallAnswered(c[1], c[2], c[3], c[4], "halt", << >>)
       PROVE  MemoryInv'
    <2>1. << >> \in Seq(Nat)
        OBVIOUS
    <2> QED
        BY <1>12, <2>1, CallAnsweredInv
<1>13. ASSUME NEW c \in CallOperands, NEW output \in Outputs,
              CallAnswered(c[1], c[2], c[3], c[4], "return", output)
       PROVE  MemoryInv'
    BY <1>13, CallAnsweredInv
<1>14. CASE UNCHANGED vars
    BY <1>14 DEF vars, MemoryInv, NeverOutOfBounds
<1> QED
    BY <1>1, <1>2, <1>3, <1>4, <1>5, <1>6, <1>7, <1>8, <1>9, <1>10, <1>11, <1>12, <1>13, <1>14
    DEF Next

\* The layout holds throughout.
LEMMA MemoryInvariant == Spec => []MemoryInv
<1>1. Init => MemoryInv
    <2>1. Layout(NewMemory, << >>)
        BY MemoryAssumption DEF Layout, NewMemory, Mem
    <2> QED
        BY <2>1 DEF Init, MemoryInv, NeverOutOfBounds
<1>2. MemoryInv /\ [Next]_vars => MemoryInv'
    BY MemoryNext
<1> QED
    BY <1>1, <1>2, PTL DEF Spec

\* slice_range and slice_mut: whatever the operands and however the frames are
\* nested, no instruction and no output reaches outside the running frame's memory.
THEOREM BoundsTheorem == Spec => []NeverOutOfBounds
<1>1. MemoryInv => NeverOutOfBounds
    BY DEF MemoryInv
<1> QED
    BY <1>1, MemoryInvariant, PTL

\* resize_memory: each open frame has paid for the words it has, at their
\* quadratic price, however often they grew and whatever ran in between.
THEOREM PriceTheorem == Spec => []PaysForItsMemory
<1>1. MemoryInv => PaysForItsMemory
    <2> SUFFICES ASSUME MemoryInv, NEW n \in DOMAIN frames
                 PROVE  /\ (EndsAt(n) - Begins(n)) % WordBytes = 0
                        /\ frames[n].limit - frames[n].gas = MemoryGasForLen(EndsAt(n) - Begins(n))
        BY DEF PaysForItsMemory
    <2>1. Laid(memory, frames, n)
        BY DEF MemoryInv, Layout
    <2>2. EndsAt(n) = EndOf(memory, frames, n) /\ Begins(n) = memory.checkpoints[n]
        BY DEF EndsAt, EndOf, Begins
    <2> QED
        BY <2>1, <2>2 DEF Laid, Paid
<1> QED
    BY <1>1, MemoryInvariant, PTL

-----------------------------------------------------------------------------
(* A memory per frame                                                      *)

\* A memory of MemoryStack.
Own(k, b, s, i, r, o) ==
    [kind |-> k, bytes |-> b, size |-> s, input |-> i, returned |-> r, out |-> o]

\* The size bytes of buffer b after from, and zeros where there are none.
Cut(b, from, size) == [a \in Reach |-> IF a < size THEN b[from + a + 1] ELSE 0]

\* Where the output goes: of a range of no bytes only that it is empty matters.
Target(out) == IF out.len = 0 THEN [offset |-> 0, len |-> 0] ELSE out

\* The memory of a frame f whose size bytes begin in buffer b after from.
View(f, b, from, size) ==
    Own(f.kind, Cut(b, from, size), size, f.input, f.return_data_buffer, Target(f.out))

\* The memory of the n-th frame, of the running one and of those below it.
ViewOf(m, fs, n) ==
    View(fs[n], m.buffer, m.checkpoints[n], EndOf(m, fs, n) - m.checkpoints[n])
TopView(m, f) == View(f, m.buffer, m.last_checkpoint, MemoryLen(m))
Views(m, fs) == [n \in DOMAIN fs |-> ViewOf(m, fs, n)]
Below(m, fs) == [n \in 1 .. Len(fs) - 1 |-> ViewOf(m, fs, n)]

\* The checkpoints go up.
Orderly(m) ==
    \A i, j \in 1 .. Len(m.checkpoints) : i <= j => m.checkpoints[i] <= m.checkpoints[j]

\* No return data has usize::MAX bytes.
Short(fs) == \A n \in 1 .. Len(fs) : Len(fs[n].return_data_buffer) < MaxUsize

\* The parts of a memory, and a memory with one of them changed.
LEMMA OwnFields ==
    ASSUME NEW k, NEW b, NEW s, NEW i, NEW r, NEW o
    PROVE  /\ Own(k, b, s, i, r, o).kind = k /\ Own(k, b, s, i, r, o).bytes = b
           /\ Own(k, b, s, i, r, o).size = s /\ Own(k, b, s, i, r, o).input = i
           /\ Own(k, b, s, i, r, o).returned = r /\ Own(k, b, s, i, r, o).out = o
BY DEF Own

LEMMA ViewSame ==
    ASSUME NEW f, NEW b, NEW c, NEW from \in Nat, NEW size \in Nat,
           \A x \in from + 1 .. from + size : b[x] = c[x]
    PROVE  View(f, b, from, size) = View(f, c, from, size)
<1>1. \A a \in Reach : a < size => b[from + a + 1] = c[from + a + 1]
    BY MemoryAssumption DEF Reach
<1> QED
    BY <1>1 DEF View, Cut

\* What the running frame's memory looks like does not depend on its gas.
LEMMA ViewOfFrame ==
    ASSUME NEW f, NEW g, NEW b, NEW from, NEW size, f.kind = g.kind, f.input = g.input,
           f.return_data_buffer = g.return_data_buffer, f.out = g.out
    PROVE  View(f, b, from, size) = View(g, b, from, size)
BY DEF View

\* The refinement mapping.
LEMMA ViewsAreMapped ==
    /\ [n \in DOMAIN frames |-> MemoryOf(n)] = Views(memory, frames)
    /\ [n \in DOMAIN frames |-> MemoryOf(n)]' = Views(memory', frames')
BY DEF MemoryOf, Views, ViewOf, View, Own, Cut, Target, EndsAt, Begins, EndOf

\* The last of the views is the running frame's.
LEMMA ViewsTop ==
    ASSUME NEW m, NEW fs, Layout(m, fs), fs # << >>
    PROVE  /\ Views(m, fs) = Append(Below(m, fs), TopView(m, fs[Len(fs)]))
           /\ Len(Views(m, fs)) = Len(fs) /\ Len(Below(m, fs)) = Len(fs) - 1
           /\ Front(Views(m, fs)) = Below(m, fs) /\ Last(Views(m, fs)) = TopView(m, fs[Len(fs)])
<1> DEFINE n == Len(fs)
           v(i) == ViewOf(m, fs, i)
<1>1. n \in Nat \ {0} /\ DOMAIN fs = 1 .. n
    BY DEF Layout
<1>2. v(n) = TopView(m, fs[n])
    BY DEF Layout, ViewOf, TopView, EndOf, MemoryLen
<1>3. Views(m, fs) = [i \in 1 .. n |-> v(i)] /\ Below(m, fs) = [i \in 1 .. n - 1 |-> v(i)]
    BY <1>1 DEF Views, Below
<1> HIDE DEF n, v
<1>4. \A w : w = [i \in 1 .. n |-> v(i)] =>
         /\ w = Append([i \in 1 .. n - 1 |-> v(i)], v(n))
         /\ Len(w) = n /\ Len([i \in 1 .. n - 1 |-> v(i)]) = n - 1
         /\ SubSeq(w, 1, n - 1) = [i \in 1 .. n - 1 |-> v(i)]
    BY <1>1
<1> QED
    BY <1>1, <1>2, <1>3, <1>4 DEF Front, Last, n

\* The running frame changes; the memories below it are as they were.
LEMMA ViewsStay ==
    ASSUME NEW m, NEW fs, Layout(m, fs), Orderly(m), Short(fs), fs # << >>,
           NEW k, NEW gs, Layout(k, gs), Len(gs) = Len(fs),
           \A n \in 1 .. Len(fs) - 1 : gs[n] = fs[n],
           k.checkpoints = m.checkpoints,
           \A x \in 1 .. m.last_checkpoint : k.buffer[x] = m.buffer[x],
           Len(gs[Len(fs)].return_data_buffer) < MaxUsize
    PROVE  /\ Below(k, gs) = Below(m, fs)
           /\ Orderly(k) /\ Short(gs)
<1> DEFINE l == Len(fs)
           c == m.checkpoints
<1>1. /\ l \in Nat \ {0} /\ c \in Seq(Nat) /\ Len(c) = l /\ Len(gs) = l
      /\ m.last_checkpoint = c[l] /\ k.checkpoints = c
      /\ \A n \in 1 .. l : c[n] \in Nat
    BY DEF Layout, Mem
<1>2. ASSUME NEW n \in 1 .. l - 1
      PROVE  ViewOf(k, gs, n) = ViewOf(m, fs, n)
  <2>1. /\ n # l /\ n \in 1 .. l /\ n + 1 \in 1 .. l /\ l \in 1 .. l /\ n + 1 <= l
        /\ n <= n + 1
    BY <1>1
  <2>2. EndOf(k, gs, n) = c[n + 1] /\ EndOf(m, fs, n) = c[n + 1] /\ gs[n] = fs[n]
    BY <1>1, <2>1 DEF EndOf
  <2>3. c[n] \in Nat /\ c[n + 1] \in Nat /\ c[n] <= c[n + 1] /\ c[n + 1] <= c[l] /\ c[l] \in Nat
    BY <1>1, <2>1 DEF Orderly
  <2> DEFINE from == c[n]
             size == c[n + 1] - c[n]
  <2>4. from \in Nat /\ size \in Nat /\ from + size <= m.last_checkpoint
    BY <1>1, <2>3
  <2>5. View(fs[n], k.buffer, from, size) = View(fs[n], m.buffer, from, size)
    <3> HIDE DEF from, size
    <3>1. \A x \in from + 1 .. from + size : x \in 1 .. m.last_checkpoint
      BY <1>1, <2>4
    <3> QED
      BY <2>4, <3>1, ViewSame
  <2> QED
    BY <1>1, <2>2, <2>5 DEF ViewOf
<1>3. Below(k, gs) = Below(m, fs)
    BY <1>1, <1>2 DEF Below
<1>4. Short(gs)
  <2>1. ASSUME NEW n \in 1 .. l PROVE Len(gs[n].return_data_buffer) < MaxUsize
    <3>1. n = l \/ n \in 1 .. l - 1
      BY <1>1
    <3> QED
      BY <3>1 DEF Short
  <2> QED
    BY <1>1, <2>1 DEF Short
<1> QED
    BY <1>1, <1>3, <1>4 DEF Orderly

\* A frame is opened on the memory there is.
LEMMA ViewsOpen ==
    ASSUME NEW m, NEW fs, Layout(m, fs), Orderly(m), Short(fs),
           NEW f \in FrameType, f.return_data_buffer = << >>, f.out.len = 0
    PROVE  /\ Views(NewContext(m), Append(fs, f))
                = Append(Views(m, fs), Stack!NewMemoryOf(f.kind, f.input))
           /\ Len(Views(m, fs)) = Len(fs)
           /\ Orderly(NewContext(m)) /\ Short(Append(fs, f))
<1> DEFINE l == Len(fs)
           c == m.checkpoints
           b == m.buffer
           k == NewContext(m)
           gs == Append(fs, f)
           d == Append(c, Len(b))
<1>1. /\ l \in Nat /\ c \in Seq(Nat) /\ Len(c) = l /\ b \in Seq(Nat) /\ Len(b) \in Nat
      /\ fs \in Seq(FrameType) /\ DOMAIN fs = 1 .. l
      /\ \A n \in 1 .. l : c[n] \in Nat
    BY DEF Layout, Mem
<1>2. k.buffer = b /\ k.checkpoints = d
    BY DEF NewContext, Layout, Mem
<1>3. /\ Len(gs) = l + 1 /\ DOMAIN gs = 1 .. l + 1 /\ gs[l + 1] = f
      /\ \A n \in 1 .. l : gs[n] = fs[n]
      /\ Len(d) = l + 1 /\ d[l + 1] = Len(b) /\ \A n \in 1 .. l : d[n] = c[n]
    BY <1>1
<1> HIDE DEF k, gs, d, b, c
<1>4. ASSUME NEW n \in 1 .. l
      PROVE  ViewOf(k, gs, n) = ViewOf(m, fs, n)
  <2>1. EndOf(k, gs, n) = EndOf(m, fs, n)
    <3>1. n # l + 1 /\ (n # l => n + 1 \in 1 .. l)
      BY <1>1
    <3>2. EndOf(k, gs, n) = d[n + 1]
      BY <1>2, <1>3, <3>1 DEF EndOf
    <3> QED
      BY <1>2, <1>3, <3>1, <3>2 DEF EndOf, b, c
  <2> QED
    BY <1>2, <1>3, <2>1 DEF ViewOf, b, c
<1>5. ViewOf(k, gs, l + 1) = Stack!NewMemoryOf(f.kind, f.input)
  <2>1. EndOf(k, gs, l + 1) - k.checkpoints[l + 1] = 0
    BY <1>1, <1>2, <1>3 DEF EndOf
  <2>2. \A a \in Reach : ~(a < 0)
    BY MemoryAssumption DEF Reach
  <2>3. \A x, y : View(f, x, y, 0) = Stack!NewMemoryOf(f.kind, f.input)
    BY <2>2 DEF View, Own, Cut, Target, Stack!NewMemoryOf
  <2> QED
    BY <1>2, <1>3, <2>1, <2>3 DEF ViewOf
<1>6. /\ Views(k, gs) = [n \in 1 .. l + 1 |-> ViewOf(k, gs, n)]
      /\ Views(m, fs) = [n \in 1 .. l |-> ViewOf(m, fs, n)]
    BY <1>1, <1>3 DEF Views
<1>7. Views(k, gs) = Append(Views(m, fs), ViewOf(k, gs, l + 1)) /\ Len(Views(m, fs)) = l
  <2> DEFINE v(n) == ViewOf(m, fs, n)
             w(n) == ViewOf(k, gs, n)
  <2>1. \A n \in 1 .. l : w(n) = v(n)
    BY <1>4
  <2> HIDE DEF v, w, l
  <2>2. [n \in 1 .. l + 1 |-> w(n)] = Append([n \in 1 .. l |-> v(n)], w(l + 1))
        /\ Len([n \in 1 .. l |-> v(n)]) = l
    BY <1>1, <2>1
  <2> QED
    BY <1>6, <2>2 DEF v, w
<1>8. Orderly(k)
  <2>1. \A n \in 1 .. l : c[n] <= Len(b)
    <3>1. CASE l = 0
      BY <3>1
    <3>2. CASE l # 0
      <4>1. c[l] <= Len(b)
        <5>1. l \in 1 .. l /\ Laid(m, fs, l)
          BY <1>1, <3>2 DEF Layout
        <5>2. EndOf(m, fs, l) - m.checkpoints[l] >= 0
          BY <5>1 DEF Laid
        <5>3. EndOf(m, fs, l) = Len(b) /\ m.checkpoints[l] = c[l]
          BY DEF EndOf, b, c
        <5> QED
          BY <1>1, <5>1, <5>2, <5>3
      <4>2. \A n \in 1 .. l : c[n] <= c[l]
        BY <1>1, <3>2 DEF Orderly, c
      <4> QED
        BY <1>1, <3>2, <4>1, <4>2
    <3> QED
      BY <3>1, <3>2
  <2>2. ASSUME NEW i \in 1 .. l + 1, NEW j \in 1 .. l + 1, i <= j
        PROVE  d[i] <= d[j]
    <3>1. CASE j = l + 1
      <4>1. i = l + 1 \/ i \in 1 .. l
        BY <1>1
      <4> QED
        BY <1>1, <1>3, <2>1, <3>1, <4>1
    <3>2. CASE j # l + 1
      <4>1. i \in 1 .. l /\ j \in 1 .. l
        BY <1>1, <2>2, <3>2
      <4>2. c[i] <= c[j]
        BY <1>1, <2>2, <4>1 DEF Orderly, c
      <4> QED
        BY <1>3, <4>1, <4>2
    <3> QED
      BY <3>1, <3>2
  <2> QED
    BY <1>2, <1>3, <2>2 DEF Orderly
<1>9. Short(gs)
  <2>1. ASSUME NEW n \in 1 .. l + 1 PROVE Len(gs[n].return_data_buffer) < MaxUsize
    <3>1. n = l + 1 \/ n \in 1 .. l
      BY <1>1
    <3>2. 0 < MaxUsize /\ Len(<< >>) = 0
      BY MemoryAssumption, LimitAssumption
    <3> QED
      BY <1>3, <3>1, <3>2 DEF Short
  <2> QED
    BY <1>3, <2>1 DEF Short
<1> QED
    BY <1>5, <1>7, <1>8, <1>9 DEF k, gs

\* The running frame is closed: its caller finds its memory as it left it.
LEMMA ViewsClose ==
    ASSUME NEW m, NEW fs, Layout(m, fs), Orderly(m), Short(fs), fs # << >>
    PROVE  /\ Views(FreeContext(m), Front(fs)) = Below(m, fs)
           /\ Orderly(FreeContext(m)) /\ Short(Front(fs))
<1> DEFINE l == Len(fs)
           c == m.checkpoints
           b == m.buffer
           k == FreeContext(m)
           gs == Front(fs)
<1>1. /\ l \in Nat \ {0} /\ c \in Seq(Nat) /\ Len(c) = l /\ b \in Seq(Nat) /\ Len(b) \in Nat
      /\ fs \in Seq(FrameType) /\ DOMAIN fs = 1 .. l /\ c # << >>
      /\ \A n \in 1 .. l : c[n] \in Nat
    BY DEF Layout, Mem
<1>2. c[l] <= Len(b) /\ c[l] \in Nat
  <2>1. Laid(m, fs, l) /\ l \in 1 .. l
    BY <1>1 DEF Layout
  <2>2. EndOf(m, fs, l) - m.checkpoints[l] >= 0 /\ EndOf(m, fs, l) = Len(b)
    BY <2>1 DEF Laid, EndOf
  <2> QED
    BY <1>1, <2>1, <2>2
<1>3. k.buffer = SubSeq(b, 1, c[l]) /\ k.checkpoints = Front(c)
    BY <1>1 DEF FreeContext, Last
<1>4. /\ Len(gs) = l - 1 /\ DOMAIN gs = 1 .. l - 1 /\ gs \in Seq(FrameType)
      /\ \A n \in 1 .. l - 1 : gs[n] = fs[n]
      /\ Len(Front(c)) = l - 1 /\ \A n \in 1 .. l - 1 : Front(c)[n] = c[n]
  <2>1. gs \in Seq(FrameType) /\ Len(gs) = l - 1 /\ \A n \in 1 .. l - 1 : gs[n] = fs[n]
    BY <1>1, Popped
  <2>2. Len(Front(c)) = l - 1 /\ \A n \in 1 .. l - 1 : Front(c)[n] = c[n]
    BY <1>1, Popped
  <2> QED
    BY <2>1, <2>2
<1>5. Len(k.buffer) = c[l] /\ \A x \in 1 .. c[l] : k.buffer[x] = b[x]
    BY <1>1, <1>2, <1>3
<1> HIDE DEF k, gs, b, c
<1>6. ASSUME NEW n \in 1 .. l - 1
      PROVE  ViewOf(k, gs, n) = ViewOf(m, fs, n)
  <2>1. /\ n # l /\ n \in 1 .. l /\ n + 1 \in 1 .. l /\ l \in 1 .. l /\ n + 1 <= l
        /\ n <= n + 1 /\ (n # l - 1 => n + 1 \in 1 .. l - 1) /\ (n = l - 1 => n + 1 = l)
    BY <1>1
  <2>2. EndOf(k, gs, n) = c[n + 1] /\ EndOf(m, fs, n) = c[n + 1]
    BY <1>3, <1>4, <1>5, <2>1 DEF EndOf, c
  <2>3. c[n] \in Nat /\ c[n + 1] \in Nat /\ c[n] <= c[n + 1] /\ c[n + 1] <= c[l]
    BY <1>1, <2>1 DEF Orderly, c
  <2> DEFINE from == c[n]
             size == c[n + 1] - c[n]
  <2>4. from \in Nat /\ size \in Nat /\ from + size <= c[l]
    BY <1>2, <2>3
  <2>5. View(fs[n], k.buffer, from, size) = View(fs[n], b, from, size)
    <3> HIDE DEF from, size
    <3>1. \A x \in from + 1 .. from + size : x \in 1 .. c[l]
      BY <1>2, <2>4
    <3> QED
      BY <1>5, <2>4, <3>1, ViewSame
  <2>6. k.checkpoints[n] = c[n] /\ gs[n] = fs[n]
    BY <1>3, <1>4
  <2> QED
    BY <2>2, <2>5, <2>6 DEF ViewOf, b, c
<1>7. Views(k, gs) = Below(m, fs)
    BY <1>4, <1>6 DEF Views, Below
<1>8. Orderly(k)
  <2>1. \A i \in 1 .. l - 1 : i \in 1 .. l
    BY <1>1
  <2> QED
    BY <1>1, <1>3, <1>4, <2>1 DEF Orderly, c
<1>9. Short(gs)
  <2>1. \A i \in 1 .. l - 1 : i \in 1 .. l
    BY <1>1
  <2> QED
    BY <1>4, <2>1 DEF Short
<1> QED
    BY <1>7, <1>8, <1>9 DEF k, gs

\* The operators of MemoryStack are those of the modules it shares.
LEMMA StackHelpers ==
    /\ \A S : Stack!Max(S) = Max(S) /\ Stack!Min(S) = Min(S)
    /\ \A s : Stack!Front(s) = Front(s) /\ Stack!Last(s) = Last(s)
BY DEF Stack!Max, Max, Stack!Min, Min, Stack!Front, Front, Stack!Last, Last

\* The words that n bytes take.
Ceil(n) == WordBytes * ((n + WordBytes - 1) \div WordBytes)

LEMMA CeilBounds ==
    ASSUME NEW n \in Nat
    PROVE  /\ Ceil(n) \in Nat /\ Ceil(n) >= n
           /\ n <= MemoryLimit => NumWords(n) * WordBytes = Ceil(n)
           /\ \A size \in Nat : size % WordBytes = 0 /\ n <= size => Ceil(n) <= size
<1> DEFINE a == n + WordBytes - 1
           q == a \div WordBytes
<1>1. WordBytes \in Nat /\ WordBytes > 0 /\ MemoryLimit \in Nat /\ MaxUsize \in Nat
    BY MemoryAssumption
<1>2. a \in Nat /\ q \in Nat
    BY <1>1
<1>3. q * WordBytes <= a /\ a < q * WordBytes + WordBytes
    BY <1>1, <1>2, SMT
<1>4. Ceil(n) = WordBytes * q
    BY DEF Ceil
<1>5. n <= MemoryLimit => NumWords(n) = q
    <2>1. n + (WordBytes - 1) = a
      BY <1>1
    <2> QED
      BY <1>1, <2>1, LimitAssumption DEF NumWords, SaturatingSum
<1> HIDE DEF q
<1>6. WordBytes * q = q * WordBytes /\ q * WordBytes \in Nat
    BY <1>1, <1>2
<1>7. q * WordBytes >= n
    BY <1>1, <1>2, <1>3, <1>6
<1>8. ASSUME NEW size \in Nat, size % WordBytes = 0, n <= size
      PROVE  q * WordBytes <= size
    <2> DEFINE d == size \div WordBytes
    <2>1. d \in Nat /\ size = WordBytes * d
      <3>1. size = WordBytes * (size \div WordBytes) + (size % WordBytes) /\ size \div WordBytes \in Nat
        BY <1>1, SMT
      <3> QED
        BY <1>1, <1>8, <3>1
    <2> HIDE DEF d
    <2>2. ASSUME q > d PROVE FALSE
      <3>1. (q - d - 1) * WordBytes >= 0
        BY <1>1, <1>2, <2>1, <2>2, SMT
      <3>2. q * WordBytes >= WordBytes * d + WordBytes
        BY <1>1, <1>2, <2>1, <3>1, SMT
      <3> QED
        BY <1>1, <1>2, <1>3, <1>8, <2>1, <3>2, <1>6
    <2>3. (d - q) * WordBytes >= 0
      BY <1>1, <1>2, <2>1, <2>2, SMT
    <2> QED
      BY <1>1, <1>2, <2>1, <2>3, SMT
<1> QED
    BY <1>4, <1>5, <1>6, <1>7, <1>8

\* The same bytes, and more of the zeros behind them belong to the memory.
LEMMA GrownView ==
    ASSUME NEW f, NEW b, NEW c, NEW from, NEW s, NEW t, NEW offset, NEW len, len # 0,
           Cut(c, from, t) = Cut(b, from, s),
           Max({s, WordBytes * ((offset + len + WordBytes - 1) \div WordBytes)}) = t
    PROVE  View(f, c, from, t) = Stack!Grown(View(f, b, from, s), offset, len)
<1>1. View(f, b, from, s).size = s
    BY OwnFields DEF View
<1>2. [View(f, b, from, s) EXCEPT !.size = t]
        = Own(f.kind, Cut(b, from, s), t, f.input, f.return_data_buffer, Target(f.out))
    BY DEF View, Own
<1>3. Stack!Grown(View(f, b, from, s), offset, len) = [View(f, b, from, s) EXCEPT !.size = t]
    BY <1>1, StackHelpers DEF Stack!Grown
<1> QED
    BY <1>2, <1>3 DEF View

\* How far the abstract memory of size bytes grows for n bytes.
LEMMA GrownSize ==
    ASSUME NEW size \in Nat, size % WordBytes = 0, NEW n \in Nat
    PROVE  /\ n <= size => Max({size, Ceil(n)}) = size
           /\ n > size => Max({size, Ceil(n)}) = Ceil(n)
           /\ \A x, y \in Nat : Max({x, y}) = IF x <= y THEN y ELSE x
<1>1. ASSUME NEW x \in Nat, NEW y \in Nat PROVE Max({x, y}) = IF x <= y THEN y ELSE x
  <2>1. PICK z \in {x, y} : \A w \in {x, y} : z >= w
    <3>1. CASE x <= y
      BY <3>1
    <3>2. CASE ~(x <= y)
      BY <3>2
    <3> QED
      BY <3>1, <3>2
  <2>2. Max({x, y}) \in {x, y} /\ \A w \in {x, y} : Max({x, y}) >= w
    BY <2>1, Zenon DEF Max
  <2> QED
    BY <2>2
<1>2. Ceil(n) \in Nat /\ Ceil(n) >= n /\ (n <= size => Ceil(n) <= size)
    BY CeilBounds
<1>3. Max({size, Ceil(n)}) = IF size <= Ceil(n) THEN Ceil(n) ELSE size
    BY <1>1, <1>2
<1> QED
    BY <1>1, <1>2, <1>3

\* Memory m grown to k for an access of len bytes: its bytes as they were, zeros
\* behind them.
Grows(m, k, offset, len) ==
    /\ \A x \in 1 .. Len(m.buffer) : k.buffer[x] = m.buffer[x]
    /\ \A f : TopView(k, f) = Stack!Grown(TopView(m, f), offset, len)

\* Vec::resize to more.
LEMMA ZerosBehind ==
    ASSUME NEW s \in Seq(Nat), NEW n \in Nat
    PROVE  /\ Len(s \o Zeros(n)) = Len(s) + n
           /\ \A x \in 1 .. Len(s) + n : (s \o Zeros(n))[x] = IF x <= Len(s) THEN s[x] ELSE 0
<1> DEFINE z == Zeros(n)
<1>1. z \in Seq(Nat) /\ Len(z) = n /\ \A x \in 1 .. n : z[x] = 0
    BY DEF Zeros
<1> HIDE DEF z
<1>2. Len(s \o z) = Len(s) + n
    BY <1>1
<1>3. ASSUME NEW x \in 1 .. Len(s) + n
      PROVE  (s \o z)[x] = IF x <= Len(s) THEN s[x] ELSE 0
  <2>1. CASE x <= Len(s)
    BY <1>1, <2>1
  <2>2. CASE ~(x <= Len(s))
    <3>1. x - Len(s) \in 1 .. n
      BY <2>2
    <3>2. (s \o z)[x] = z[x - Len(s)]
      BY <1>1, <2>2
    <3> QED
      BY <1>1, <2>2, <3>1, <3>2
  <2> QED
    BY <2>1, <2>2
<1> QED
    BY <1>2, <1>3 DEF z

\* Memory of the next whole words, or of the ones there are.
LEMMA ResizeGrows ==
    ASSUME NEW m \in Mem, NEW k \in Mem, k.last_checkpoint = m.last_checkpoint,
           MemoryLen(m) >= 0, MemoryLen(m) % WordBytes = 0,
           NEW offset \in Nat, NEW len \in Nat \ {0},
           \/ offset + len <= MemoryLen(m) /\ k = m
           \/ /\ offset + len > MemoryLen(m)
              /\ k.buffer = m.buffer \o Zeros(Ceil(offset + len) - MemoryLen(m))
    PROVE  Grows(m, k, offset, len)
<1> DEFINE n == offset + len
           s == MemoryLen(m)
           t == MemoryLen(k)
           b == m.buffer
           c == k.buffer
           cp == m.last_checkpoint
<1>1. /\ n \in Nat /\ s \in Nat /\ b \in Seq(Nat) /\ cp \in Nat /\ Len(b) = cp + s
      /\ Ceil(n) \in Nat /\ Ceil(n) >= n /\ t = Len(c) - cp /\ Len(b) \in Nat
      /\ s % WordBytes = 0
  <2>1. n \in Nat /\ s \in Nat /\ b \in Seq(Nat) /\ cp \in Nat /\ Len(b) = cp + s
        /\ t = Len(c) - cp /\ Len(b) \in Nat
    BY DEF Mem, MemoryLen
  <2> HIDE DEF n
  <2>2. Ceil(n) \in Nat /\ Ceil(n) >= n
    BY <2>1, CeilBounds
  <2> QED
    BY <2>1, <2>2
<1>7. /\ n <= s => Max({s, Ceil(n)}) = s
      /\ n > s => Max({s, Ceil(n)}) = Ceil(n)
  <2> HIDE DEF n, s
  <2> QED
    BY <1>1, GrownSize
<1>2. t = Max({s, Ceil(n)}) /\ t >= s /\ \A x \in 1 .. Len(b) + t - s : c[x] = IF x <= Len(b) THEN b[x] ELSE 0
  <2>1. CASE n <= s /\ k = m
    <3>1. Max({s, Ceil(n)}) = s
      BY <1>7, <2>1
    <3>2. t = s /\ c = b
      BY <1>1, <2>1
    <3> HIDE DEF n, s, t, b, c, cp
    <3> QED
      BY <1>1, <3>1, <3>2
  <2>2. CASE n > s /\ c = b \o Zeros(Ceil(n) - s)
    <3> DEFINE e == Ceil(n) - s
               z == Zeros(e)
    <3>1. Max({s, Ceil(n)}) = Ceil(n) /\ e \in Nat
      BY <1>1, <1>7, <2>2
    <3>3. c = b \o z
      BY <2>2
    <3> HIDE DEF z, e, b, c, n, s, t, cp
    <3>4. Len(c) = Len(b) + e /\ \A x \in 1 .. Len(b) + e : c[x] = IF x <= Len(b) THEN b[x] ELSE 0
      BY <1>1, <3>1, <3>3, ZerosBehind DEF z
    <3>5. t = Ceil(n) /\ Len(b) + t - s = Len(b) + e /\ t >= s
      <4>1. e = Ceil(n) - s
        BY DEF e
      <4> QED
        BY <1>1, <3>1, <3>4, <4>1
    <3> QED
      BY <3>1, <3>4, <3>5
  <2> QED
    BY <1>1, <2>1, <2>2
<1>3. s <= t /\ t \in Nat
  <2> HIDE DEF n, s, t
  <2> QED
    BY <1>1, <1>2, <1>7
<1> HIDE DEF n, s, t, b, c, cp
<1>4. ASSUME NEW x \in 1 .. Len(b) PROVE c[x] = b[x]
  <2>1. x \in 1 .. Len(b) + t - s /\ x <= Len(b)
    BY <1>1, <1>3
  <2> QED
    BY <1>2, <2>1
<1>5. ASSUME NEW a \in Reach
      PROVE  (IF a < t THEN c[cp + a + 1] ELSE 0) = IF a < s THEN b[cp + a + 1] ELSE 0
  <2>1. a \in Nat
    BY MemoryAssumption DEF Reach
  <2>2. CASE a < t
    <3>1. cp + a + 1 \in 1 .. Len(b) + t - s /\ (cp + a + 1 <= Len(b) <=> a < s)
      BY <1>1, <1>3, <2>1, <2>2
    <3> QED
      BY <1>2, <2>2, <3>1
  <2>3. CASE ~(a < t)
    BY <1>1, <1>3, <2>1, <2>3
  <2> QED
    BY <2>2, <2>3
<1>6. Cut(c, cp, t) = Cut(b, cp, s)
    BY <1>5 DEF Cut
<1>8. ASSUME NEW f PROVE TopView(k, f) = Stack!Grown(TopView(m, f), offset, len)
  <2>1. TopView(k, f) = View(f, c, cp, t) /\ TopView(m, f) = View(f, b, cp, s)
    BY DEF TopView, s, t, b, c, cp
  <2>2. Max({s, WordBytes * ((offset + len + WordBytes - 1) \div WordBytes)}) = t
    BY <1>2 DEF Ceil, n
  <2> QED
    BY <1>6, <2>1, <2>2, GrownView
<1> QED
    BY <1>4, <1>8 DEF Grows, b, c

LEMMA StayGrows ==
    ASSUME NEW m \in Mem, MemoryLen(m) >= 0, MemoryLen(m) % WordBytes = 0,
           NEW offset \in Nat, NEW len \in Nat \ {0}, offset + len <= MemoryLen(m)
    PROVE  Grows(m, m, offset, len)
<1>1. \A k \in Mem : k = m => Grows(m, k, offset, len)
    BY ResizeGrows
<1> QED
    BY <1>1

LEMMA StretchGrows ==
    ASSUME NEW m \in Mem, NEW k \in Mem, k.last_checkpoint = m.last_checkpoint,
           MemoryLen(m) >= 0, MemoryLen(m) % WordBytes = 0,
           NEW offset \in Nat, NEW len \in Nat \ {0}, offset + len > MemoryLen(m),
           k.buffer = m.buffer \o Zeros(Ceil(offset + len) - MemoryLen(m))
    PROVE  Grows(m, k, offset, len)
BY ResizeGrows

\* The running frame's memory is whole words within the limit.
LEMMA ReachedSize ==
    ASSUME MemoryInv, frames # << >>, NEW i, Reached(i)
    PROVE  /\ i.memory \in Mem /\ i.memory.last_checkpoint = memory.last_checkpoint
           /\ i.memory.checkpoints = memory.checkpoints
           /\ MemoryLen(i.memory) \in Nat /\ MemoryLen(i.memory) % WordBytes = 0
           /\ MemoryLen(i.memory) < MemoryLimit + WordBytes
           /\ Len(i.memory.buffer) \in Nat /\ memory.last_checkpoint \in Nat
           /\ memory.last_checkpoint <= Len(memory.buffer)
           /\ Len(memory.buffer) <= Len(i.memory.buffer) /\ Len(memory.buffer) \in Nat
<1>1. /\ i.memory \in Mem /\ memory \in Mem /\ i.memory.last_checkpoint = memory.last_checkpoint
      /\ i.memory.checkpoints = memory.checkpoints
      /\ MemoryLen(i.memory) % WordBytes = 0 /\ Len(i.memory.buffer) >= Len(memory.buffer)
      /\ Len(i.memory.buffer) < MemoryLimit + WordBytes
    BY DEF Reached, Stretched, Paid, MemoryInv, Layout
<1>2. /\ Len(i.memory.buffer) \in Nat /\ Len(memory.buffer) \in Nat
      /\ memory.last_checkpoint \in Nat
    BY <1>1 DEF Mem
<1>3. Len(frames) \in 1 .. Len(frames) /\ Laid(memory, frames, Len(frames))
    BY InstructionReached DEF MemoryInv, Layout
<1>4. Len(memory.buffer) - memory.last_checkpoint >= 0
    BY <1>3 DEF Laid, EndOf, MemoryInv, Layout
<1>5. MemoryLen(i.memory) = Len(i.memory.buffer) - memory.last_checkpoint
    BY <1>1 DEF MemoryLen
<1>6. MemoryLen(i.memory) \in Nat /\ MemoryLen(i.memory) < MemoryLimit + WordBytes
      /\ memory.last_checkpoint <= Len(memory.buffer)
  <2> DEFINE now == Len(memory.buffer)
             then == Len(i.memory.buffer)
             last == memory.last_checkpoint
             limit == MemoryLimit + WordBytes
  <2>1. /\ now \in Nat /\ then \in Nat /\ last \in Nat /\ limit \in Int
        /\ then >= now /\ then < limit /\ now - last >= 0
    BY <1>1, <1>2, <1>4, MemoryAssumption
  <2> HIDE DEF now, then, last, limit
  <2>2. then - last \in Nat /\ then - last < limit /\ last <= now
    BY <2>1
  <2> QED
    BY <1>5, <2>2 DEF now, then, last, limit
<1> QED
    BY <1>1, <1>2, <1>6

\* Every byte of m is still there.
Keeps(m, k) == \A x \in 1 .. Len(m.buffer) : k.buffer[x] = m.buffer[x]

\* SharedMemory::resize to more than there is puts zeros behind it.
LEMMA ResizeBuffer ==
    ASSUME NEW m \in Mem, NEW size \in Nat, ~(m.last_checkpoint + size <= Len(m.buffer))
    PROVE  Resize(m, size).buffer
             = m.buffer \o Zeros((m.last_checkpoint + size) - Len(m.buffer))
<1> DEFINE n == m.last_checkpoint + size
           b == IF n <= Len(m.buffer) THEN SubSeq(m.buffer, 1, n)
                ELSE m.buffer \o Zeros(n - Len(m.buffer))
<1>1. Resize(m, size) = [m EXCEPT !.buffer = b]
    BY DEF Resize
<1> HIDE DEF b
<1>2. Resize(m, size).buffer = b
    BY <1>1 DEF Mem
<1>3. ~(n <= Len(m.buffer))
    OBVIOUS
<1>4. b = m.buffer \o Zeros(n - Len(m.buffer))
  <2> DEFINE y == SubSeq(m.buffer, 1, n)
             z == m.buffer \o Zeros(n - Len(m.buffer))
  <2>1. b = IF n <= Len(m.buffer) THEN y ELSE z
    BY Zenon DEF b
  <2> HIDE DEF y, z, n
  <2>2. b = z
    BY <1>3, <2>1
  <2> QED
    BY <2>2 DEF z
<1> QED
    BY <1>2, <1>4, Zenon

\* interpreter::resize_memory adds zeros.
LEMMA ResizeMemoryGrows ==
    ASSUME MemoryInv, NEW i, Reached(i), frames # << >>,
           NEW offset \in Nat, NEW len \in Nat \ {0}, offset + len > MemoryLen(i.memory),
           ~LimitReached(i.memory, offset + len)
    PROVE  LET k == ResizeMemory(i, offset + len)
           IN  /\ Keeps(i.memory, k.memory)
               /\ k.ok => Grows(i.memory, k.memory, offset, len)
<1> DEFINE n == offset + len
           m == i.memory
           cost == MemoryGas(NumWords(n)) - MemoryGasForLen(MemoryLen(m))
           w == NumWords(n) * WordBytes
           k == ResizeMemory(i, n)
<1>1. /\ m \in Mem /\ m.last_checkpoint \in Nat /\ MemoryLen(m) \in Nat /\ n \in Nat
      /\ Len(m.buffer) = m.last_checkpoint + MemoryLen(m)
      /\ MemoryLen(m) % WordBytes = 0 /\ m.buffer \in Seq(Nat) /\ i.ok \in BOOLEAN
    BY ReachedSize DEF Mem, MemoryLen, Reached
<1>2. n <= MemoryLimit
    BY <1>1, MemoryAssumption, LimitAssumption DEF LimitReached, SaturatingSum
<1>3. w = Ceil(n) /\ Ceil(n) \in Nat /\ Ceil(n) >= n
  <2> HIDE DEF n
  <2> QED
    BY <1>1, <1>2, CeilBounds
<1>4. CASE cost > i.gas
  <2>1. k = [i EXCEPT !.ok = FALSE]
    BY <1>4 DEF ResizeMemory
  <2>2. k.memory = i.memory /\ k.ok = FALSE
    BY <2>1 DEF Reached
  <2> HIDE DEF k
  <2>3. Keeps(i.memory, k.memory) /\ ~k.ok
    BY <2>2 DEF Keeps
  <2> QED
    BY <2>3 DEF k
<1>5. CASE ~(cost > i.gas)
  <2> DEFINE r == Resize(m, w)
  <2>1. k = [i EXCEPT !.gas = @ - cost, !.memory = r]
    BY <1>5 DEF ResizeMemory
  <2>2. k.memory = r
    BY <2>1 DEF Reached
  <2>3. w > MemoryLen(m) /\ ~(m.last_checkpoint + w <= Len(m.buffer)) /\ w \in Nat
        /\ (m.last_checkpoint + w) - Len(m.buffer) = Ceil(n) - MemoryLen(m)
    <3> HIDE DEF w, n, m
    <3> QED
      BY <1>1, <1>3 DEF n, m
  <2>5. r \in Mem /\ r.last_checkpoint = m.last_checkpoint
    <3> HIDE DEF w, m
    <3> QED
      BY <1>1, <2>3, ResizeStretches
  <2>4. r.buffer = m.buffer \o Zeros(Ceil(n) - MemoryLen(m))
    <3>1. r.buffer = m.buffer \o Zeros((m.last_checkpoint + w) - Len(m.buffer))
      <4> HIDE DEF m, w
      <4> QED
        BY <1>1, <2>3, ResizeBuffer
    <3> QED
      BY <2>3, <3>1
  <2>8. offset + len > MemoryLen(m) /\ MemoryLen(m) >= 0
    BY <1>1
  <2>9. r.buffer = m.buffer \o Zeros(Ceil(offset + len) - MemoryLen(m))
    BY <2>4, Zenon
  <2> HIDE DEF r, m
  <2>6. Grows(m, r, offset, len)
    BY <1>1, <2>5, <2>8, <2>9, StretchGrows
  <2>7. Keeps(m, r)
    BY <2>6 DEF Grows, Keeps
  <2> QED
    BY <2>2, <2>6, <2>7 DEF m
<1> QED
    BY <1>4, <1>5

\* resize_memory! and the operands before it: the frame sees a memory that grew.
LEMMA AccessGrows ==
    ASSUME MemoryInv, NEW i, Reached(i), frames # << >>,
           NEW offset \in Nat, NEW len \in Nat
    PROVE  LET k == Access(i, offset, len)
           IN  /\ Keeps(i.memory, k.memory)
               /\ k.ok => Grows(i.memory, k.memory, offset, len)
               /\ k.ok /\ len # 0 =>
                      /\ offset + len <= MemoryLen(k.memory)
                      /\ offset \in Reach /\ len \in Reach
<1> DEFINE k == Access(i, offset, len)
<1>1. Reached(k) /\ (k.ok => Reachable(k, offset, len))
    BY AccessReached
<1>2. MemoryLen(k.memory) \in Nat /\ MemoryLen(k.memory) < MemoryLimit + WordBytes
  <2> HIDE DEF k
  <2> QED
    BY <1>1, ReachedSize
<1>3. ASSUME k.ok, len # 0
      PROVE  offset + len <= MemoryLen(k.memory) /\ offset \in Reach /\ len \in Reach
  <2>1. offset + len <= MemoryLen(k.memory)
    BY <1>1, <1>3 DEF Reachable, InBounds
  <2> HIDE DEF k
  <2> QED
    BY <1>2, <2>1, MemoryAssumption DEF Reach
<1>4. Keeps(i.memory, i.memory)
    BY DEF Keeps
<1>5. [i EXCEPT !.ok = FALSE].memory = i.memory /\ [i EXCEPT !.ok = FALSE].ok = FALSE
    BY DEF Reached
<1>6. Keeps(i.memory, k.memory) /\ (k.ok => Grows(i.memory, k.memory, offset, len))
  <2>1. CASE k = [i EXCEPT !.ok = FALSE]
    BY <1>4, <1>5, <2>1, Zenon
  <2>2. CASE FitsUsize(len) /\ len = 0
    <3>1. k = i
      BY <2>2 DEF Access
    <3>2. Grows(i.memory, i.memory, offset, len)
      BY <2>2 DEF Grows, Stack!Grown
    <3> QED
      BY <1>4, <3>1, <3>2
  <2>3. CASE FitsUsize(len) /\ len # 0 /\ FitsUsize(offset)
    <3> DEFINE size == SaturatingSum(offset, len)
    <3>1. k = Expand(i, offset, len)
      BY <2>3 DEF Access
    <3>2. /\ size \in Nat /\ MaxUsize \in Nat /\ MemoryLimit \in Nat
          /\ size < MaxUsize => size = offset + len
      BY <2>3, MemoryAssumption DEF SaturatingSum, FitsUsize
    <3>3. i.memory \in Mem /\ i.memory.last_checkpoint \in Nat /\ MemoryLen(i.memory) \in Nat
          /\ MemoryLen(i.memory) < MaxUsize /\ MemoryLen(i.memory) % WordBytes = 0
      <4>1. i.memory \in Mem /\ i.memory.last_checkpoint \in Nat /\ MemoryLen(i.memory) \in Nat
            /\ MemoryLen(i.memory) < MemoryLimit + WordBytes /\ MemoryLen(i.memory) % WordBytes = 0
        BY ReachedSize
      <4> QED
        BY <4>1, LimitAssumption, MemoryAssumption
    <3> HIDE DEF size
    <3>4. CASE ~i.ok \/ size <= MemoryLen(i.memory)
      <4>1. k = i
        BY <3>1, <3>4 DEF Expand, size
      <4>2. ASSUME k.ok PROVE Grows(i.memory, i.memory, offset, len)
        <5>1. offset + len <= MemoryLen(i.memory)
          BY <1>3, <2>3, <4>1, <4>2
        <5> QED
          BY <2>3, <3>3, <5>1, StayGrows
      <4> QED
        BY <1>4, <4>1, <4>2
    <3>5. CASE i.ok /\ ~(size <= MemoryLen(i.memory)) /\ LimitReached(i.memory, size)
      BY <1>4, <1>5, <3>1, <3>5 DEF Expand, size
    <3>6. CASE i.ok /\ ~(size <= MemoryLen(i.memory)) /\ ~LimitReached(i.memory, size)
      <4>1. k = ResizeMemory(i, size)
        BY <3>1, <3>6 DEF Expand, size
      <4>2. size = offset + len
        BY <3>2, <3>3, <3>6, MemoryAssumption, LimitAssumption DEF LimitReached, SaturatingSum
      <4>3. offset + len > MemoryLen(i.memory)
        BY <3>2, <3>3, <3>6, <4>2
      <4> QED
        BY <2>3, <3>6, <4>1, <4>2, <4>3, ResizeMemoryGrows
    <3> QED
      BY <3>4, <3>5, <3>6
  <2> QED
    BY <2>1, <2>2, <2>3 DEF Access
<1> QED
    BY <1>3, <1>6
-----------------------------------------------------------------------------
(* Bytes of a memory per frame                                             *)

\* k is m with these bytes put into the running frame's memory.
Puts(m, k, offset, data) ==
    /\ \A x \in 1 .. m.last_checkpoint : k.buffer[x] = m.buffer[x]
    /\ \A f : TopView(k, f) = Stack!Put(TopView(m, f), offset, data)

LEMMA PutView ==
    ASSUME NEW f, NEW b, NEW c, NEW from, NEW s, NEW offset, NEW data,
           Cut(c, from, s) = [a \in Reach |-> IF a - offset + 1 \in DOMAIN data
                                              THEN data[a - offset + 1] ELSE Cut(b, from, s)[a]]
    PROVE  View(f, c, from, s) = Stack!Put(View(f, b, from, s), offset, data)
<1> DEFINE x == [a \in Reach |-> IF a - offset + 1 \in DOMAIN data
                                 THEN data[a - offset + 1] ELSE Cut(b, from, s)[a]]
           y == [a \in Reach |-> IF a - offset + 1 \in DOMAIN data
                                 THEN data[a - offset + 1] ELSE View(f, b, from, s).bytes[a]]
<1>1. View(f, b, from, s).bytes = Cut(b, from, s)
    BY OwnFields DEF View
<1>2. Stack!Put(View(f, b, from, s), offset, data) = [View(f, b, from, s) EXCEPT !.bytes = y]
    BY DEF Stack!Put
<1>3. x = y
    BY <1>1
<1>4. Cut(c, from, s) = x
    OBVIOUS
<1> HIDE DEF x, y
<1>5. [View(f, b, from, s) EXCEPT !.bytes = x]
        = Own(f.kind, x, s, f.input, f.return_data_buffer, Target(f.out))
    BY DEF View, Own
<1> QED
    BY <1>2, <1>3, <1>4, <1>5 DEF View

\* SharedMemory::set, inside the frame's memory.
LEMMA SetBytesPuts ==
    ASSUME NEW m \in Mem, MemoryLen(m) \in Nat, NEW offset \in Nat, NEW data \in Seq(Nat),
           offset + Len(data) <= MemoryLen(m)
    PROVE  Puts(m, SetBytes(m, offset, data), offset, data)
<1> DEFINE cp == m.last_checkpoint
           at == cp + offset
           b == m.buffer
           c == [i \in DOMAIN b |-> IF i \in at + 1 .. at + Len(data) THEN data[i - at] ELSE b[i]]
           s == MemoryLen(m)
           k == SetBytes(m, offset, data)
<1>1. /\ cp \in Nat /\ at = cp + offset /\ b \in Seq(Nat) /\ Len(b) = cp + s /\ s \in Nat
      /\ DOMAIN b = 1 .. cp + s /\ Len(data) \in Nat /\ DOMAIN data = 1 .. Len(data)
    BY DEF Mem, MemoryLen
<1>2. k.buffer = c /\ k.last_checkpoint = cp /\ Len(k.buffer) = Len(b)
  <2>1. k = [m EXCEPT !.buffer = c]
    BY DEF SetBytes
  <2>2. Rewritten(m, k)
    BY SetBytesRewrites
  <2> HIDE DEF c, k
  <2>3. k.buffer = c
    BY <2>1 DEF Mem
  <2> QED
    BY <2>2, <2>3 DEF Rewritten
<1>3. MemoryLen(k) = s
  <2> HIDE DEF k
  <2> QED
    BY <1>1, <1>2 DEF MemoryLen
<1>4. ASSUME NEW x \in 1 .. cp PROVE c[x] = b[x]
  <2>1. x \in 1 .. cp + s /\ x \notin at + 1 .. at + Len(data)
    <3> HIDE DEF cp, s
    <3> QED
      BY <1>1
  <2> QED
    BY <1>1, <2>1
<1>5. ASSUME NEW a \in Reach
      PROVE  (IF a < s THEN c[cp + a + 1] ELSE 0)
               = IF a - offset + 1 \in DOMAIN data THEN data[a - offset + 1]
                 ELSE IF a < s THEN b[cp + a + 1] ELSE 0
  <2>1. a \in Nat
    BY MemoryAssumption DEF Reach
  <2>2. CASE a < s
    <3>1. cp + a + 1 \in 1 .. cp + s /\ (cp + a + 1) - at = a - offset + 1
          /\ (cp + a + 1 \in at + 1 .. at + Len(data) <=> a - offset + 1 \in 1 .. Len(data))
      <4> HIDE DEF cp, s, at
      <4> QED
        BY <1>1, <2>1, <2>2
    <3>2. c[cp + a + 1] = IF cp + a + 1 \in at + 1 .. at + Len(data)
                          THEN data[(cp + a + 1) - at] ELSE b[cp + a + 1]
      BY <1>1, <3>1
    <3> QED
      BY <1>1, <2>2, <3>1, <3>2
  <2>3. CASE ~(a < s)
    <3>1. a - offset + 1 \notin 1 .. Len(data)
      <4> HIDE DEF s
      <4> QED
        BY <1>1, <2>1, <2>3 DEF s
    <3> QED
      BY <1>1, <2>3, <3>1
  <2> QED
    BY <2>2, <2>3
<1> HIDE DEF c, b, s, cp, at
<1>6. Cut(c, cp, s) = [a \in Reach |-> IF a - offset + 1 \in DOMAIN data
                                       THEN data[a - offset + 1] ELSE Cut(b, cp, s)[a]]
    BY <1>5 DEF Cut
<1>7. ASSUME NEW f PROVE TopView(k, f) = Stack!Put(TopView(m, f), offset, data)
  <2>1. View(f, c, cp, s) = Stack!Put(View(f, b, cp, s), offset, data)
    BY <1>6, PutView
  <2>2. TopView(k, f) = View(f, c, cp, s)
    BY <1>2, <1>3 DEF TopView
  <2>3. TopView(m, f) = View(f, b, cp, s)
    BY DEF TopView, b, s, cp
  <2> QED
    BY <2>1, <2>2, <2>3
<1> HIDE DEF k
<1>8. Puts(m, k, offset, data)
    BY <1>2, <1>4, <1>7 DEF Puts, cp, b
<1> QED
    BY <1>8 DEF k

\* SharedMemory::slice, inside the frame's memory.
LEMMA SliceTaken ==
    ASSUME NEW m \in Mem, MemoryLen(m) \in Nat, MemoryLen(m) < MemoryLimit + WordBytes,
           NEW offset \in Nat, NEW len \in Nat, offset + len <= MemoryLen(m), NEW f
    PROVE  Slice(m, offset, len) = Stack!Taken(TopView(m, f), offset, len)
<1> DEFINE cp == m.last_checkpoint
           b == m.buffer
           s == MemoryLen(m)
           v == TopView(m, f)
<1>1. /\ cp \in Nat /\ b \in Seq(Nat) /\ Len(b) = cp + s /\ s \in Nat
    BY DEF Mem, MemoryLen
<1>2. v.bytes = Cut(b, cp, s)
    BY OwnFields DEF TopView, View
<1>3. Slice(m, offset, len) = SubSeq(b, cp + offset + 1, cp + offset + len)
    BY DEF Slice, InBounds
<1>4. ASSUME NEW x \in 1 .. len PROVE v.bytes[offset + x - 1] = b[cp + offset + x]
  <2>1. offset + x - 1 \in Reach /\ offset + x - 1 < s /\ cp + (offset + x - 1) + 1 = cp + offset + x
    <3> HIDE DEF cp
    <3> QED
      BY <1>1, MemoryAssumption DEF Reach
  <2> HIDE DEF v
  <2> QED
    BY <1>2, <2>1 DEF Cut
<1> HIDE DEF v, cp, b, s
<1>5. SubSeq(b, cp + offset + 1, cp + offset + len) = [x \in 1 .. len |-> b[cp + offset + x]]
  <2> DEFINE p == cp + offset
  <2>1. p \in Nat /\ p + len <= Len(b)
    BY <1>1 DEF s
  <2> HIDE DEF p
  <2>2. SubSeq(b, p + 1, p + len) = [x \in 1 .. len |-> b[p + x]]
    BY <1>1, <2>1
  <2> QED
    BY <2>2 DEF p
<1>6. Stack!Taken(v, offset, len) = [x \in 1 .. len |-> b[cp + offset + x]]
    BY <1>4 DEF Stack!Taken
<1> QED
    BY <1>3, <1>5, <1>6 DEF v

\* Taking does not depend on how far the memory grew.
LEMMA TakenGrown ==
    ASSUME NEW m, NEW k, NEW f, NEW offset, NEW len, NEW at, NEW n,
           TopView(k, f) = Stack!Grown(TopView(m, f), at, n)
    PROVE  Stack!Taken(TopView(k, f), offset, len) = Stack!Taken(TopView(m, f), offset, len)
<1>1. TopView(k, f).bytes = TopView(m, f).bytes
    BY DEF Stack!Grown, TopView, View, Own
<1> QED
    BY <1>1 DEF Stack!Taken

\* A part of a sequence.
LEMMA PartIs ==
    ASSUME NEW data \in Seq(Nat), NEW from \in Nat, NEW len \in Nat, from + len <= Len(data)
    PROVE  /\ SubSeq(data, from + 1, from + len) = [i \in 1 .. len |-> data[from + i]]
           /\ Len(SubSeq(data, from + 1, from + len)) = len
           /\ \A i \in 1 .. len : SubSeq(data, from + 1, from + len)[i] = data[from + i]
OBVIOUS

\* Of return data that is long enough nothing is padded.
LEMMA PartPadded ==
    ASSUME NEW data \in Seq(Nat), NEW from \in Nat, NEW len \in Nat, from + len <= Len(data)
    PROVE  SubSeq(data, from + 1, from + len) = Stack!Padded(data, from, len)
<1>1. \A i \in 1 .. len : from + i \in DOMAIN data
    OBVIOUS
<1> QED
    BY <1>1, PartIs DEF Stack!Padded

\* A range of len places after at: the first n of them, and the others after o.
LEMMA Places ==
    ASSUME NEW at \in Nat, NEW n \in Nat, NEW len \in Nat, NEW o \in Nat, NEW from \in Nat,
           NEW l \in Nat, NEW i \in Nat \ {0},
           n <= len, o = at + n, from + n <= l, n < len => from + n = l
    PROVE  /\ i \in at + 1 .. at + n =>
                  /\ i - at \in 1 .. n /\ i - at \in 1 .. len /\ from + (i - at) \in 1 .. l
                  /\ i \notin o + 1 .. o + (len - n) /\ i \in at + 1 .. at + len
           /\ i \in o + 1 .. o + (len - n) =>
                  /\ i - o \in 1 .. len - n /\ i - at \in 1 .. len /\ from + (i - at) \notin 1 .. l
                  /\ i \in at + 1 .. at + len
           /\ i \notin at + 1 .. at + n /\ i \notin o + 1 .. o + (len - n) =>
                  i \notin at + 1 .. at + len
OBVIOUS

\* SharedMemory::set_data is a set of the data with zeros behind it.
LEMMA SetDataPadded ==
    ASSUME NEW m \in Mem, NEW offset \in Nat, NEW from \in Nat, NEW len \in Nat,
           NEW data \in Seq(Nat)
    PROVE  /\ Stack!Padded(data, from, len) \in Seq(Nat)
           /\ Len(Stack!Padded(data, from, len)) = len
           /\ SetData(m, offset, from, len, data) = SetBytes(m, offset, Stack!Padded(data, from, len))
<1> DEFINE p == Stack!Padded(data, from, len)
           b == m.buffer
           at == m.last_checkpoint + offset
<1>1. /\ b \in Seq(Nat) /\ m.last_checkpoint \in Nat /\ at \in Nat /\ Len(b) \in Nat
      /\ DOMAIN b = 1 .. Len(b) /\ Len(data) \in Nat /\ DOMAIN data = 1 .. Len(data)
    BY DEF Mem
<1>2. p = [i \in 1 .. len |-> IF from + i \in 1 .. Len(data) THEN data[from + i] ELSE 0]
    BY <1>1 DEF Stack!Padded
<1>3. p \in Seq(Nat) /\ Len(p) = len
  <2>1. p \in [1 .. len -> Nat]
    BY <1>2
  <2> HIDE DEF p
  <2> QED
    BY <2>1, FunctionBytes
<1> DEFINE c == [i \in DOMAIN b |-> IF i \in at + 1 .. at + len THEN p[i - at] ELSE b[i]]
<1>4. SetBytes(m, offset, p) = [m EXCEPT !.buffer = c]
    BY <1>3 DEF SetBytes
<1>5. CASE from >= Len(data)
  <2>1. \A i \in 1 .. len : from + i \notin 1 .. Len(data)
    BY <1>1, <1>5
  <2>2. p = Zeros(len)
    BY <1>2, <2>1 DEF Zeros
  <2> QED
    BY <1>3, <1>5, <2>2 DEF SetData
<1>6. CASE ~(from >= Len(data))
  <2> DEFINE to == IF from + len < Len(data) THEN from + len ELSE Len(data)
             copied == SubSeq(data, from + 1, to)
             n == to - from
             rest == Zeros(len - Len(copied))
             d == [i \in DOMAIN b |-> IF i \in at + 1 .. at + Len(copied)
                                      THEN copied[i - at] ELSE b[i]]
             k == SetBytes(m, offset, copied)
             o == m.last_checkpoint + (offset + Len(copied))
             e == [i \in DOMAIN d |-> IF i \in o + 1 .. o + Len(rest) THEN rest[i - o] ELSE d[i]]
  <2>1. n \in Nat /\ n <= len /\ from + n <= Len(data) /\ (n < len => from + n = Len(data))
        /\ to = from + n
    <3> DEFINE l == Len(data)
    <3>1. l \in Nat /\ ~(from >= l)
      BY <1>6
    <3> HIDE DEF l
    <3>2. \A t : t = (IF from + len < l THEN from + len ELSE l) =>
            /\ t - from \in Nat /\ t - from <= len /\ from + (t - from) <= l
            /\ (t - from < len => from + (t - from) = l) /\ t = from + (t - from)
      BY <3>1
    <3> QED
      BY <3>2 DEF l
  <2>2. Len(copied) = n /\ \A i \in 1 .. n : copied[i] = data[from + i]
    <3>1. copied = SubSeq(data, from + 1, from + n)
      BY <2>1
    <3> HIDE DEF to, n, copied
    <3> QED
      BY <2>1, <3>1, PartIs
  <2>3. Len(rest) = len - n /\ \A i \in 1 .. len - n : rest[i] = 0
    <3> HIDE DEF n, copied
    <3> QED
      BY <2>1, <2>2 DEF Zeros
  <2>4. k = [m EXCEPT !.buffer = d] /\ k.buffer = d /\ k.last_checkpoint = m.last_checkpoint
    <3>1. k = [m EXCEPT !.buffer = d]
      BY DEF SetBytes
    <3> HIDE DEF d, k
    <3> QED
      BY <3>1 DEF Mem
  <2>5. SetData(m, offset, from, len, data) = SetBytes(k, offset + Len(copied), rest)
    BY <1>6 DEF SetData
  <2>6. SetBytes(k, offset + Len(copied), rest) = [k EXCEPT !.buffer = e]
    <3> DEFINE q == k.last_checkpoint + (offset + Len(copied))
               g == [i \in DOMAIN k.buffer |-> IF i \in q + 1 .. q + Len(rest)
                                               THEN rest[i - q] ELSE k.buffer[i]]
    <3> HIDE DEF k, d, copied, rest
    <3>1. SetBytes(k, offset + Len(copied), rest) = [k EXCEPT !.buffer = g]
      BY DEF SetBytes
    <3>2. q = o /\ k.buffer = d
      BY <2>4
    <3> HIDE DEF q, o
    <3>3. g = e
      BY <3>2
    <3> QED
      BY <3>1, <3>3
  <2>7. o = at + n /\ o \in Nat
    <3>1. m.last_checkpoint \in Nat
      BY <1>1
    <3>2. n \in Nat /\ Len(copied) = n
      BY <2>1, <2>2
    <3> HIDE DEF n, copied
    <3> QED
      BY <3>1, <3>2
  <2>11. Len(data) \in Nat /\ at \in Nat
    BY <1>1
  <2>12. ASSUME NEW i \in Nat \ {0}
         PROVE  /\ i \in at + 1 .. at + n =>
                      /\ i - at \in 1 .. n /\ i - at \in 1 .. len
                      /\ from + (i - at) \in 1 .. Len(data)
                      /\ i \notin o + 1 .. o + (len - n) /\ i \in at + 1 .. at + len
                /\ i \in o + 1 .. o + (len - n) =>
                      /\ i - o \in 1 .. len - n /\ i - at \in 1 .. len
                      /\ from + (i - at) \notin 1 .. Len(data)
                      /\ i \in at + 1 .. at + len
                /\ i \notin at + 1 .. at + n /\ i \notin o + 1 .. o + (len - n) =>
                      i \notin at + 1 .. at + len
    <3> HIDE DEF at, n, o
    <3> QED
      BY <2>1, <2>7, <2>11, Places
  <2>8. ASSUME NEW i \in 1 .. Len(b) PROVE e[i] = c[i]
    <3>0. i \in Nat \ {0}
      BY <1>1
    <3>1. e[i] = IF i \in o + 1 .. o + (len - n) THEN rest[i - o]
                 ELSE IF i \in at + 1 .. at + n THEN copied[i - at] ELSE b[i]
      <4> HIDE DEF rest, copied, n, o, at
      <4> QED
        BY <1>1, <2>2, <2>3
    <3>2. c[i] = IF i \in at + 1 .. at + len THEN p[i - at] ELSE b[i]
      <4> HIDE DEF p, at
      <4> QED
        BY <1>1
    <3>3. CASE i \in at + 1 .. at + n
      <4>1. i - at \in 1 .. n /\ i - at \in 1 .. len /\ from + (i - at) \in 1 .. Len(data)
            /\ i \notin o + 1 .. o + (len - n) /\ i \in at + 1 .. at + len
        BY <2>12, <3>0, <3>3
      <4>2. p[i - at] = data[from + (i - at)] /\ copied[i - at] = data[from + (i - at)]
        <5> HIDE DEF p, at, n, copied
        <5> QED
          BY <1>2, <2>2, <4>1
      <4> HIDE DEF p, at, n, copied, c, e, o
      <4> QED
        BY <3>1, <3>2, <3>3, <4>1, <4>2
    <3>4. CASE i \in o + 1 .. o + (len - n)
      <4>1. i - o \in 1 .. len - n /\ i - at \in 1 .. len /\ from + (i - at) \notin 1 .. Len(data)
            /\ i \in at + 1 .. at + len
        BY <2>12, <3>0, <3>4
      <4>2. p[i - at] = 0 /\ rest[i - o] = 0
        <5> HIDE DEF p, at, n, rest, o
        <5> QED
          BY <1>2, <2>3, <4>1
      <4> HIDE DEF p, at, n, rest, c, e, o
      <4> QED
        BY <3>1, <3>2, <3>4, <4>1, <4>2
    <3>5. CASE i \notin at + 1 .. at + n /\ i \notin o + 1 .. o + (len - n)
      <4>1. i \notin at + 1 .. at + len
        BY <2>12, <3>0, <3>5
      <4> HIDE DEF p, at, n, rest, c, e, o
      <4> QED
        BY <3>1, <3>2, <3>5, <4>1
    <3> QED
      BY <3>3, <3>4, <3>5
  <2>9. e = c
    <3>1. DOMAIN d = 1 .. Len(b)
      BY <1>1
    <3>2. e = [i \in 1 .. Len(b) |-> e[i]] /\ c = [i \in 1 .. Len(b) |-> c[i]]
      <4> HIDE DEF rest, copied, n, o, at, d, p
      <4> QED
        BY <1>1, <3>1
    <3> HIDE DEF e, c
    <3> QED
      BY <2>8, <3>2
  <2>10. [k EXCEPT !.buffer = e] = [m EXCEPT !.buffer = e]
    <3> HIDE DEF k, e, d
    <3> QED
      BY <2>4 DEF Mem
  <2> HIDE DEF c, e, k, rest, p
  <2> QED
    BY <1>3, <1>4, <2>5, <2>6, <2>9, <2>10 DEF p
<1> QED
    BY <1>5, <1>6
-----------------------------------------------------------------------------
(* Steps of a memory per frame                                             *)

\* The refinement mapping, and what the refinement needs of the state.
Mapped == [n \in DOMAIN frames |-> MemoryOf(n)]
SepInv == MemoryInv /\ Orderly(memory) /\ Short(frames)
SepKept == Orderly(memory') /\ Short(frames')

LEMMA StackTop ==
    ASSUME SepInv, frames # << >>
    PROVE  /\ Mapped = Views(memory, frames)
           /\ Len(Mapped) = Len(frames) /\ Len(frames) \in Nat \ {0}
           /\ Front(Mapped) = Below(memory, frames)
           /\ Stack!Running /\ Stack!Top = TopView(memory, Interpreter)
           /\ \A mem : Stack!WithTop(mem) = Append(Below(memory, frames), mem)
<1>1. Mapped = Views(memory, frames)
    BY ViewsAreMapped DEF Mapped
<1>2. Layout(memory, frames) /\ Interpreter = frames[Len(frames)] /\ Len(frames) \in Nat \ {0}
    BY InstructionReached DEF SepInv, MemoryInv, Interpreter, Last
<1>3. /\ Len(Mapped) = Len(frames)
      /\ Front(Mapped) = Below(memory, frames) /\ Last(Mapped) = TopView(memory, Interpreter)
    BY <1>1, <1>2, ViewsTop
<1>4. Stack!Top = Last(Mapped)
    BY StackHelpers DEF Stack!Top, Mapped
<1>5. ASSUME NEW mem PROVE Stack!WithTop(mem) = Append(Front(Mapped), mem)
    BY StackHelpers DEF Stack!WithTop, Mapped
<1>6. Stack!Running
  <2>1. Stack!Running <=> Mapped # << >>
    BY DEF Stack!Running, Mapped
  <2> QED
    BY <1>2, <1>3, <2>1
<1> QED
    BY <1>1, <1>2, <1>3, <1>4, <1>5, <1>6

\* The running frame goes on with memory k.
LEMMA StackStays ==
    ASSUME SepInv, frames # << >>, MemoryInv', Len(frames') = Len(frames),
           \A n \in 1 .. Len(frames) - 1 : frames'[n] = frames[n],
           memory'.checkpoints = memory.checkpoints,
           \A x \in 1 .. memory.last_checkpoint : memory'.buffer[x] = memory.buffer[x],
           Len(frames'[Len(frames)].return_data_buffer) < MaxUsize
    PROVE  /\ Mapped' = Stack!WithTop(TopView(memory', frames'[Len(frames)]))
           /\ Len(Mapped') = Len(Mapped)
           /\ SepKept
<1>1. Mapped' = Views(memory', frames')
    BY ViewsAreMapped DEF Mapped
<1>2. Layout(memory', frames') /\ Layout(memory, frames) /\ Orderly(memory) /\ Short(frames)
    BY DEF SepInv, MemoryInv
<1>3. frames' # << >>
  <2>1. Len(frames) \in Nat \ {0}
    BY StackTop
  <2> QED
    BY <2>1
<1>4. /\ Views(memory', frames') = Append(Below(memory', frames'), TopView(memory', frames'[Len(frames)]))
      /\ Len(Views(memory', frames')) = Len(frames)
    BY <1>2, <1>3, ViewsTop
<1>5. Below(memory', frames') = Below(memory, frames) /\ Orderly(memory') /\ Short(frames')
    BY <1>2, ViewsStay
<1> QED
    BY <1>1, <1>4, <1>5, StackTop DEF SepKept

\* What an instruction does to the memory below its own.
Spared(m) == \A x \in 1 .. memory.last_checkpoint : m.buffer[x] = memory.buffer[x]

LEMMA ContinuesView ==
    ASSUME SepInv, frames # << >>, MemoryInv', NEW i, Reached(i), NEW m, Rewritten(i.memory, m),
           Spared(m), memory' = m, frames' = [frames EXCEPT ![Len(frames)].gas = i.gas]
    PROVE  /\ Mapped' = Stack!WithTop(TopView(m, Interpreter))
           /\ Len(Mapped') = Len(Mapped)
           /\ SepKept
<1> DEFINE L == Len(frames)
           f == [frames[L] EXCEPT !.gas = i.gas]
<1>1. MemoryInv /\ Short(frames) /\ L \in Nat \ {0} /\ Interpreter = frames[L] /\ frames[L] \in FrameType
      /\ frames \in Seq(FrameType)
    BY InstructionReached DEF SepInv, Interpreter, Last, MemoryInv, Layout
<1>2. /\ f.kind = Interpreter.kind /\ f.input = Interpreter.input /\ f.out = Interpreter.out
      /\ f.return_data_buffer = Interpreter.return_data_buffer
    BY <1>1 DEF FrameType
<1>3. frames' = [frames EXCEPT ![L] = f]
    BY <1>1
<1> HIDE DEF f
<1>4. Len(frames') = L /\ frames'[L] = f /\ \A n \in 1 .. L - 1 : frames'[n] = frames[n]
    BY <1>1, <1>3
<1>5. Len(f.return_data_buffer) < MaxUsize
    BY <1>1, <1>2 DEF Short
<1>6. memory'.checkpoints = memory.checkpoints
    BY DEF Rewritten, Reached, Stretched
<1>7. /\ Mapped' = Stack!WithTop(TopView(memory', frames'[Len(frames)]))
      /\ Len(Mapped') = Len(Mapped) /\ SepKept
    BY <1>4, <1>5, <1>6, StackStays DEF Spared
<1>8. TopView(m, f) = TopView(m, Interpreter)
    BY <1>2, ViewOfFrame DEF TopView
<1> QED
    BY <1>4, <1>7, <1>8

\* Nothing is put anywhere.
LEMMA PutNothing ==
    ASSUME NEW m, NEW f, NEW offset, NEW data, DOMAIN data = {}
    PROVE  Stack!Put(TopView(m, f), offset, data) = TopView(m, f)
<1> DEFINE v == TopView(m, f)
           b == Cut(m.buffer, m.last_checkpoint, MemoryLen(m))
           x == [a \in Reach |-> IF a - offset + 1 \in DOMAIN data
                                 THEN data[a - offset + 1] ELSE v.bytes[a]]
<1>1. v.bytes = b
    BY OwnFields DEF TopView, View
<1>2. Stack!Put(v, offset, data) = [v EXCEPT !.bytes = x]
    BY DEF Stack!Put
<1>3. x = b
  <2>1. b = [a \in Reach |-> b[a]]
    BY DEF Cut
  <2> HIDE DEF v, b
  <2> QED
    BY <1>1, <2>1
<1> HIDE DEF x
<1>4. [v EXCEPT !.bytes = b] = v
    BY DEF TopView, View, Own
<1> QED
    BY <1>2, <1>3, <1>4

\* A frame's memory with other return data, or another place for the output.
WithReturned(mem, data) == [mem EXCEPT !.returned = data]
WithOut(mem, out) == [mem EXCEPT !.out = out]

LEMMA AnsweredView ==
    ASSUME NEW m, NEW f, NEW g, g.kind = f.kind, g.input = f.input, g.out = f.out
    PROVE  TopView(m, g) = WithReturned(TopView(m, f), g.return_data_buffer)
BY DEF TopView, View, Own, WithReturned

LEMMA OutView ==
    ASSUME NEW m, NEW f, NEW g, g.kind = f.kind, g.input = f.input,
           g.return_data_buffer = f.return_data_buffer
    PROVE  TopView(m, g) = WithOut(TopView(m, f), Target(g.out))
BY DEF TopView, View, Own, WithOut

\* insert_call_outcome and insert_create_outcome.
LEMMA OutcomeView ==
    ASSUME NEW m \in Mem, MemoryLen(m) \in Nat, NEW caller \in FrameType,
           NEW kind \in {"call", "create"}, NEW result, NEW output \in Seq(Nat),
           kind = "call" /\ caller.out.len # 0 =>
               caller.out.offset + caller.out.len <= MemoryLen(m),
           result = "halt" => output = << >>
    PROVE  LET o == InsertOutcome(m, caller, kind, result, output)
           IN  /\ TopView(o.memory, o.caller)
                    = IF kind = "call" THEN Stack!Receive(TopView(m, caller), output)
                      ELSE [TopView(m, caller) EXCEPT !.returned = IF result = "revert" THEN output
                                                                  ELSE << >>]
               /\ \A x \in 1 .. m.last_checkpoint : o.memory.buffer[x] = m.buffer[x]
               /\ o.caller.return_data_buffer \in {output, << >>}
<1> DEFINE kept == IF kind = "create" /\ result # "revert" THEN << >> ELSE output
           target_len == Min({caller.out.len, Len(output)})
           writes == kind = "call" /\ result # "halt" /\ target_len # 0
           o == InsertOutcome(m, caller, kind, result, output)
           part == SubSeq(output, 1, target_len)
           at == caller.out.offset
           v == TopView(m, caller)
           g == [caller EXCEPT !.return_data_buffer = kept]
<1>1. /\ caller.out.offset \in Nat /\ caller.out.len \in Nat /\ Len(output) \in Nat
    BY DEF FrameType
<1>2. target_len \in Nat /\ target_len <= caller.out.len /\ target_len <= Len(output)
    BY <1>1, PairMinMax
<1>3. o = [memory |-> IF writes THEN SetBytes(m, at, part) ELSE m,
           unreachable |-> Outside(writes /\ ~InBounds(m, at, target_len)),
           caller |-> g]
    BY DEF InsertOutcome
<1>4. /\ o.memory = IF writes THEN SetBytes(m, at, part) ELSE m
      /\ o.caller = g
  <2> HIDE DEF g, part, target_len, at
  <2> QED
    BY <1>3
<1>5. /\ g.return_data_buffer = kept /\ kept \in {output, << >>}
      /\ g.kind = caller.kind /\ g.input = caller.input /\ g.out = caller.out
    BY DEF FrameType
<1>6. /\ v.out = Target(caller.out) /\ Target(caller.out).len = caller.out.len
      /\ caller.out.len # 0 => Target(caller.out).offset = at
  <2>1. v.out = Target(caller.out)
    BY OwnFields DEF TopView, View
  <2> QED
    BY <2>1 DEF Target
<1>7. TopView(m, g) = WithReturned(v, kept)
  <2> HIDE DEF kept, g
  <2> QED
    BY <1>5, AnsweredView
<1> HIDE DEF o
<1>8. CASE kind = "create"
  <2>1. ~writes /\ kept = IF result = "revert" THEN output ELSE << >>
    BY <1>8
  <2>2. o.memory = m /\ o.caller = g
    BY <1>4, <2>1
  <2> HIDE DEF g, kept, v
  <2>3. TopView(o.memory, o.caller) = WithReturned(v, IF result = "revert" THEN output ELSE << >>)
    BY <1>7, <2>1, <2>2
  <2>4. TopView(o.memory, o.caller)
          = [v EXCEPT !.returned = IF result = "revert" THEN output ELSE << >>]
    BY <2>3 DEF WithReturned
  <2> QED
    BY <1>5, <1>8, <2>2, <2>4 DEF o, v
<1>9. CASE kind = "call"
  <2>1. kept = output
    BY <1>9
  <2> DEFINE w == [v EXCEPT !.returned = output]
             recv == Stack!Receive(v, output)
  <2>2. TopView(m, g) = w
    <3> HIDE DEF kept, g, v
    <3> QED
      BY <2>1, <1>7 DEF WithReturned
  <2>3. recv = Stack!Put(w, v.out.offset, SubSeq(output, 1, Min({v.out.len, Len(output)})))
    BY StackHelpers DEF Stack!Receive
  <2>4. recv = Stack!Put(w, Target(caller.out).offset, part)
    <3> HIDE DEF w, recv, v
    <3> QED
      BY <1>6, <2>3
  <2> HIDE DEF w, recv, v, g, kept
  <2>5. CASE writes
    <3>1. caller.out.len # 0 /\ recv = Stack!Put(w, at, part)
      <4>1. caller.out.len # 0
        <5> HIDE DEF target_len
        <5> QED
          BY <1>1, <1>2, <2>5
      <4> QED
        BY <1>6, <2>4, <4>1
    <3>2. part \in Seq(Nat) /\ Len(part) = target_len
      <4> HIDE DEF target_len
      <4> QED
        BY <1>1, <1>2
    <3>3. at + Len(part) <= MemoryLen(m) /\ at \in Nat
      <4> HIDE DEF target_len, part
      <4> QED
        BY <1>1, <1>2, <1>9, <3>1, <3>2
    <3> HIDE DEF at, part
    <3>4. Puts(m, SetBytes(m, at, part), at, part)
      BY <3>2, <3>3, SetBytesPuts
    <3>5. o.memory = SetBytes(m, at, part)
      BY <1>4, <2>5
    <3>6. TopView(o.memory, o.caller) = recv
      BY <1>4, <2>2, <3>1, <3>4, <3>5 DEF Puts
    <3>7. \A x \in 1 .. m.last_checkpoint : o.memory.buffer[x] = m.buffer[x]
      BY <3>4, <3>5 DEF Puts
    <3> QED
      BY <1>4, <1>5, <1>9, <3>6, <3>7 DEF o, recv, v
  <2>6. CASE ~writes
    <3>1. target_len = 0
      <4>1. result = "halt" => Len(output) = 0
        OBVIOUS
      <4> HIDE DEF target_len
      <4> QED
        BY <1>2, <1>9, <2>6, <4>1
    <3>2. DOMAIN part = {}
      BY <3>1
    <3>3. recv = w
      <4> HIDE DEF part
      <4> QED
        BY <2>2, <2>4, <3>2, PutNothing
    <3>4. TopView(o.memory, o.caller) = recv
      BY <1>4, <2>2, <2>6, <3>3
    <3> QED
      BY <1>4, <1>5, <1>9, <2>6, <3>4 DEF o, recv, v
  <2> QED
    BY <2>5, <2>6
<1> QED
    BY <1>8, <1>9

\* A frame ends, and its caller goes on.
LEMMA EndsView ==
    ASSUME SepInv, frames # << >>, MemoryInv', NEW i, Reached(i), Spared(i.memory),
           NEW result, NEW output \in Seq(Nat), Len(output) < MaxUsize,
           result = "halt" => output = << >>, NEW reverted, reverted <=> result = "revert",
           Ends(i.memory, result, output)
    PROVE  /\ Stack!Leave(output, reverted)
           /\ Len(Mapped') < Len(Mapped)
           /\ SepKept
<1> DEFINE L == Len(frames)
           gs == [frames EXCEPT ![Len(frames)].gas = i.gas]
           freed == FreeContext(i.memory)
           callers == Front(frames)
           o == InsertOutcome(freed, Last(callers), Interpreter.kind, result, output)
           below == Below(memory, frames)
<1>1. /\ MemoryInv /\ Layout(memory, frames) /\ Orderly(memory) /\ Short(frames)
      /\ L \in Nat \ {0} /\ Interpreter = frames[L] /\ Interpreter \in FrameType
      /\ frames \in Seq(FrameType)
    BY InstructionReached DEF SepInv, Interpreter, Last, MemoryInv, Layout
<1>2. Updated(gs, i.gas)
    BY <1>1, GasUpdated DEF Reached
<1>3. Layout(i.memory, gs)
  <2>1. Rewritten(i.memory, i.memory)
    BY DEF Rewritten, Reached
  <2> HIDE DEF gs
  <2> QED
    BY <1>1, <1>2, <2>1, TopLayout
<1>4. gs # << >> /\ Len(gs) = L /\ Front(gs) = callers /\ gs[L].kind = Interpreter.kind
      /\ gs[L].return_data_buffer = Interpreter.return_data_buffer
  <2>1. /\ gs \in Seq(FrameType) /\ Len(gs) = L /\ \A n \in 1 .. L - 1 : gs[n] = frames[n]
        /\ gs[L].kind = Interpreter.kind
    BY <1>2 DEF Updated
  <2>2. gs[L].return_data_buffer = Interpreter.return_data_buffer
    BY <1>1 DEF FrameType
  <2> HIDE DEF gs
  <2>3. gs # << >>
    BY <1>1, <2>1
  <2>4. /\ Front(gs) \in Seq(FrameType) /\ Len(Front(gs)) = L - 1
        /\ \A n \in 1 .. L - 1 : Front(gs)[n] = frames[n]
    BY <2>1, <2>3, Popped
  <2>5. /\ callers \in Seq(FrameType) /\ Len(callers) = L - 1
        /\ \A n \in 1 .. L - 1 : callers[n] = frames[n]
    BY <1>1, Popped
  <2>7. \A n \in 1 .. L - 1 : Front(gs)[n] = callers[n]
    BY <2>4, <2>5
  <2> HIDE DEF callers
  <2>6. Front(gs) = callers
    BY <2>4, <2>5, <2>7
  <2> QED
    BY <2>1, <2>2, <2>3, <2>6
<1>5. Below(i.memory, gs) = below /\ Orderly(i.memory) /\ Short(gs)
  <2>1. i.memory.checkpoints = memory.checkpoints
    BY DEF Reached, Stretched
  <2>2. Len(gs[L].return_data_buffer) < MaxUsize
    BY <1>1, <1>4 DEF Short
  <2>3. \A n \in 1 .. Len(frames) - 1 : gs[n] = frames[n]
    BY <1>2 DEF Updated
  <2> HIDE DEF gs
  <2> QED
    BY <1>1, <1>3, <1>4, <2>1, <2>2, <2>3, ViewsStay DEF Spared
<1>6. Views(freed, callers) = below /\ Orderly(freed) /\ Short(callers)
  <2> HIDE DEF gs, freed
  <2> QED
    BY <1>3, <1>4, <1>5, ViewsClose DEF freed
<1>7. /\ Layout(freed, callers)
      /\ callers # << >> /\ Interpreter.kind = "call" /\ Last(callers).out.len # 0 =>
           Last(callers).out.offset + Last(callers).out.len <= MemoryLen(freed)
  <2> HIDE DEF gs, freed
  <2> QED
    BY <1>3, <1>4, LayoutCloses DEF freed
<1>8. Len(callers) = L - 1 /\ callers \in Seq(FrameType) /\ (callers = << >> <=> L = 1)
    BY <1>1, Popped
<1> HIDE DEF gs, freed, callers, below
<1>9. Mapped' = Views(memory', frames') /\ Front(Mapped) = below /\ Len(Mapped) = L
      /\ Stack!Top.kind = Interpreter.kind /\ Stack!Running
  <2>1. Mapped' = Views(memory', frames')
    BY ViewsAreMapped DEF Mapped
  <2>2. TopView(memory, Interpreter).kind = Interpreter.kind
    BY OwnFields DEF TopView, View
  <2> QED
    BY <2>1, <2>2, StackTop DEF below
<1>10. CASE callers = << >>
  <2>1. memory' = freed /\ frames' = << >> /\ read' = << >>
    BY <1>10 DEF Ends, callers, freed
  <2>2. Mapped' = << >> /\ below = << >>
    <3>1. Views(freed, << >>) = << >>
      BY DEF Views
    <3> QED
      BY <1>6, <1>9, <1>10, <2>1, <3>1
  <2>3. Stack!Leave(output, reverted)
    <3>1. Stack!Front(Mapped) = << >> /\ Mapped' = << >> /\ read' = << >>
      BY <1>9, <2>1, <2>2, StackHelpers
    <3> QED
      BY <1>9, <3>1 DEF Stack!Leave, Mapped
  <2>4. Len(Mapped') < Len(Mapped)
    BY <1>1, <1>9, <2>2
  <2> QED
    BY <1>6, <1>10, <2>1, <2>3, <2>4 DEF SepKept
<1>11. CASE callers # << >>
  <2> DEFINE c == Last(callers)
             fs == Append(Front(callers), o.caller)
             K == Len(callers)
  <2>1. memory' = o.memory /\ frames' = fs /\ read' = << >>
    BY <1>11 DEF Ends, callers, freed
  <2>2. K \in Nat \ {0} /\ K = L - 1 /\ c = callers[K] /\ c \in FrameType
    BY <1>1, <1>8, <1>11 DEF Last
  <2>3. freed \in Mem /\ MemoryLen(freed) \in Nat
    <3>1. freed \in Mem /\ Laid(freed, callers, K) /\ freed.last_checkpoint = freed.checkpoints[K]
      BY <1>7, <1>11, <2>2 DEF Layout
    <3>2. EndOf(freed, callers, K) - freed.checkpoints[K] = MemoryLen(freed)
      BY <3>1 DEF EndOf, MemoryLen
    <3>3. MemoryLen(freed) >= 0 /\ MemoryLen(freed) \in Int
      BY <3>1, <3>2 DEF Laid, MemoryLen, Mem
    <3> QED
      BY <3>1, <3>3
  <2>4. Interpreter.kind \in {"call", "create"}
    BY <1>1 DEF FrameType
  <2> DEFINE v == TopView(freed, c)
             t == IF Interpreter.kind = "call" THEN Stack!Receive(v, output)
                  ELSE [v EXCEPT !.returned = IF result = "revert" THEN output ELSE << >>]
  <2>5. /\ TopView(o.memory, o.caller) = t
        /\ \A x \in 1 .. freed.last_checkpoint : o.memory.buffer[x] = freed.buffer[x]
        /\ o.caller.return_data_buffer \in {output, << >>}
    <3>1. Interpreter.kind = "call" /\ c.out.len # 0 => c.out.offset + c.out.len <= MemoryLen(freed)
      BY <1>7, <1>11
    <3> HIDE DEF c
    <3> QED
      BY <2>2, <2>3, <2>4, <3>1, OutcomeView DEF c
  <2>6. Rewritten(freed, o.memory)
    <3>1. Interpreter.kind = "call" /\ c.out.len # 0 => c.out.offset + c.out.len <= MemoryLen(freed)
      BY <1>7, <1>11
    <3> HIDE DEF c
    <3> QED
      BY <2>2, <2>3, <3>1, InsertOutcomeLayout DEF c
  <2> HIDE DEF o, c, v, t
  <2>7. Layout(memory', frames')
    BY DEF MemoryInv
  <2>8. /\ Len(fs) = K /\ fs[K] = o.caller /\ \A n \in 1 .. K - 1 : fs[n] = callers[n]
        /\ fs # << >>
    <3>1. /\ Front(callers) \in Seq(FrameType) /\ Len(Front(callers)) = K - 1
          /\ \A n \in 1 .. K - 1 : Front(callers)[n] = callers[n]
      BY <1>8, <1>11, Popped
    <3> DEFINE q == Front(callers)
    <3> HIDE DEF q
    <3>2. ASSUME NEW e PROVE Len(Append(q, e)) = K /\ Append(q, e)[K] = e /\ Append(q, e) # << >>
                             /\ \A n \in 1 .. K - 1 : Append(q, e)[n] = q[n]
      BY <2>2, <3>1 DEF q
    <3> QED
      BY <3>1, <3>2 DEF q
  <2>9. Below(memory', frames') = Below(freed, callers) /\ Orderly(memory') /\ Short(frames')
    <3>1. Len(fs[K].return_data_buffer) < MaxUsize
      <4>1. 0 < MaxUsize /\ Len(<< >>) = 0
        BY MemoryAssumption, LimitAssumption
      <4> QED
        BY <2>5, <2>8, <4>1
    <3>2. memory'.checkpoints = freed.checkpoints
      BY <2>1, <2>6 DEF Rewritten
    <3>3. Layout(freed, callers) /\ Orderly(freed) /\ Short(callers) /\ Layout(memory', fs)
          /\ Len(fs) = Len(callers)
      BY <1>6, <1>7, <2>1, <2>7, <2>8
    <3>4. \A x \in 1 .. freed.last_checkpoint : memory'.buffer[x] = freed.buffer[x]
      BY <2>1, <2>5
    <3>5. \A n \in 1 .. Len(callers) - 1 : fs[n] = callers[n]
      BY <2>8
    <3> HIDE DEF fs
    <3>6. Below(memory', fs) = Below(freed, callers) /\ Orderly(memory') /\ Short(fs)
      <4>1. Len(fs[Len(callers)].return_data_buffer) < MaxUsize
        BY <3>1
      <4> HIDE DEF K, L
      <4> QED
        BY <1>11, <3>2, <3>3, <3>4, <3>5, <4>1, ViewsStay
    <3> QED
      BY <2>1, <3>6
  <2>10. /\ Mapped' = Append(Below(freed, callers), t) /\ Len(Mapped') = K
    <3>1. Views(memory', fs) = Append(Below(memory', fs), TopView(memory', fs[K]))
          /\ Len(Views(memory', fs)) = K
      <4>1. Layout(memory', fs)
        BY <2>1, <2>7
      <4> HIDE DEF fs
      <4> QED
        BY <2>8, <4>1, ViewsTop
    <3> HIDE DEF fs
    <3> QED
      BY <1>9, <2>1, <2>5, <2>8, <2>9, <3>1
  <2>11. Front(below) = Below(freed, callers) /\ Last(below) = v /\ below # << >>
    <3>1. /\ Front(Views(freed, callers)) = Below(freed, callers)
          /\ Last(Views(freed, callers)) = TopView(freed, callers[K])
          /\ Len(Views(freed, callers)) = K
      BY <1>7, <1>11, ViewsTop
    <3> QED
      BY <1>6, <2>2, <3>1 DEF v
  <2>12. Stack!Leave(output, reverted)
    <3>1. /\ Stack!Front(Mapped) = below /\ Stack!Front(below) = Below(freed, callers)
          /\ Stack!Last(below) = v
      BY <1>9, <2>11, StackHelpers
    <3>2. t = IF Stack!Top.kind = "call" THEN Stack!Receive(v, output)
              ELSE [v EXCEPT !.returned = IF reverted THEN output ELSE << >>]
      BY <1>9 DEF t
    <3> QED
      BY <1>9, <2>1, <2>10, <2>11, <3>1, <3>2 DEF Stack!Leave, Mapped
  <2> QED
    BY <1>1, <1>9, <2>2, <2>9, <2>10, <2>12 DEF SepKept
<1> QED
    BY <1>10, <1>11

\* Where a range of memory lies: of no bytes only that it is empty matters.
At(offset, len) == IF len = 0 THEN 0 ELSE offset

\* What every step of the frames is to MemoryStack.
Refines == SepKept /\ (Stack!Next \/ UNCHANGED <<Mapped, read>>)

LEMMA RefinesNext ==
    ASSUME SepKept
    PROVE  /\ Len(Mapped') = Len(Mapped) /\ Stack!Stays => Refines
           /\ Len(Mapped') > Len(Mapped) /\ Stack!Opens => Refines
           /\ Len(Mapped') < Len(Mapped) /\ Stack!Closes => Refines
BY DEF Refines, Stack!Next, Mapped

\* An operand of an instruction is one of MemoryStack's.
LEMMA OperandsMapped ==
    ASSUME NEW offset \in Nat, NEW len \in Nat, len # 0 => offset \in Reach /\ len \in Reach
    PROVE  /\ \A r \in Ranges : offset = r[1] => At(offset, len) \in Offsets
           /\ \A c \in Copies : offset = c[1] \/ offset = c[2] => At(offset, len) \in Offsets
           /\ \A c \in CallOperands : offset = c[1] \/ offset = c[3] => At(offset, len) \in Offsets
           /\ \A r \in Ranges : len = r[2] => len \in Lens
           /\ \A c \in Copies : len = c[3] => len \in Lens
           /\ \A c \in CallOperands : len = c[2] \/ len = c[4] => len \in Lens
           /\ 0 \in Offsets /\ 0 \in Lens
<1>1. CASE len = 0
    BY <1>1 DEF At, Offsets, Lens
<1>2. CASE len # 0
    BY <1>2 DEF At, Offsets, Lens
<1> QED
    BY <1>1, <1>2

\* An access that goes on, from memory m to i's: the frame sees its memory grown,
\* and reads what was there.
Accessed(m, i, offset, len) ==
    i.ok => /\ \A f : TopView(i.memory, f) = Stack!Grown(TopView(m, f), At(offset, len), len)
            /\ \A f : Bytes(i, offset, len) = Stack!Taken(TopView(m, f), At(offset, len), len)
            /\ Bytes(i, offset, len) \in Seq(Nat) /\ Len(Bytes(i, offset, len)) < MaxUsize
            /\ len # 0 => /\ offset + len <= MemoryLen(i.memory)
                          /\ offset \in Reach /\ len \in Reach

LEMMA AccessView ==
    ASSUME MemoryInv, frames # << >>, NEW j, Reached(j), Spared(j.memory),
           NEW offset \in Nat, NEW len \in Nat
    PROVE  LET i == Access(j, offset, len)
           IN  /\ Reached(i) /\ Spared(i.memory) /\ i.memory \in Mem
               /\ MemoryLen(i.memory) \in Nat /\ MemoryLen(i.memory) < MemoryLimit + WordBytes
               /\ Accessed(j.memory, i, offset, len)
<1> DEFINE i == Access(j, offset, len)
<1>1. Reached(i)
    BY AccessReached
<1>2. /\ Keeps(j.memory, i.memory)
      /\ i.ok => Grows(j.memory, i.memory, offset, len)
      /\ i.ok /\ len # 0 => /\ offset + len <= MemoryLen(i.memory)
                            /\ offset \in Reach /\ len \in Reach
    BY AccessGrows
<1> HIDE DEF i
<1>3. /\ i.memory \in Mem /\ MemoryLen(i.memory) \in Nat
      /\ MemoryLen(i.memory) < MemoryLimit + WordBytes
    BY <1>1, ReachedSize
<1>4. Spared(i.memory)
  <2>1. /\ memory.last_checkpoint \in Nat /\ memory.last_checkpoint <= Len(memory.buffer)
        /\ Len(memory.buffer) <= Len(j.memory.buffer) /\ Len(memory.buffer) \in Nat
        /\ Len(j.memory.buffer) \in Nat
    BY ReachedSize
  <2>2. \A x \in 1 .. memory.last_checkpoint : x \in 1 .. Len(j.memory.buffer)
    BY <2>1
  <2> QED
    BY <1>2, <2>2 DEF Spared, Keeps
<1>5. ASSUME i.ok, NEW f
      PROVE  /\ TopView(i.memory, f) = Stack!Grown(TopView(j.memory, f), At(offset, len), len)
             /\ Bytes(i, offset, len) = Stack!Taken(TopView(j.memory, f), At(offset, len), len)
             /\ Bytes(i, offset, len) \in Seq(Nat) /\ Len(Bytes(i, offset, len)) < MaxUsize
  <2>1. TopView(i.memory, f) = Stack!Grown(TopView(j.memory, f), offset, len)
    BY <1>2, <1>5 DEF Grows
  <2>2. CASE len = 0
    <3>1. Stack!Grown(TopView(j.memory, f), At(offset, len), len) = TopView(j.memory, f)
          /\ Stack!Grown(TopView(j.memory, f), offset, len) = TopView(j.memory, f)
      BY <2>2 DEF Stack!Grown
    <3>2. Bytes(i, offset, len) = << >> /\ << >> \in Seq(Nat) /\ Len(<< >>) = 0 /\ 0 < MaxUsize
      BY <2>2, MemoryAssumption, LimitAssumption DEF Bytes
    <3>3. Stack!Taken(TopView(j.memory, f), At(offset, len), len) = << >>
      BY <2>2 DEF Stack!Taken
    <3> QED
      BY <2>1, <3>1, <3>2, <3>3
  <2>3. CASE len # 0
    <3>1. At(offset, len) = offset /\ Bytes(i, offset, len) = Slice(i.memory, offset, len)
      BY <2>3 DEF At, Bytes
    <3>2. offset + len <= MemoryLen(i.memory)
      BY <1>2, <1>5, <2>3
    <3>3. Slice(i.memory, offset, len) = Stack!Taken(TopView(i.memory, f), offset, len)
      BY <1>3, <3>2, SliceTaken
    <3>4. Stack!Taken(TopView(i.memory, f), offset, len) = Stack!Taken(TopView(j.memory, f), offset, len)
      BY <2>1, TakenGrown
    <3>5. Slice(i.memory, offset, len) \in Seq(Nat)
      BY <1>3, SliceBytes
    <3>6. Len(Stack!Taken(TopView(j.memory, f), offset, len)) = len
      BY DEF Stack!Taken
    <3>7. len < MaxUsize
      BY <1>3, <3>2, MemoryAssumption, LimitAssumption
    <3> QED
      BY <2>1, <3>1, <3>3, <3>4, <3>5, <3>6, <3>7
  <2> QED
    BY <2>2, <2>3
<1> QED
    BY <1>1, <1>2, <1>3, <1>4, <1>5 DEF i, Accessed

\* The instruction's own memory is the running frame's.
LEMMA InstructionSpared ==
    ASSUME SepInv, frames # << >>
    PROVE  /\ MemoryInv /\ Reached(Instruction) /\ Spared(Instruction.memory)
           /\ Instruction.memory = memory
BY InstructionReached DEF SepInv, Spared, Instruction

\* A frame that fails has no output.
LEMMA FailsView ==
    ASSUME SepInv, frames # << >>, MemoryInv', NEW m, NEW i, Reached(i), Spared(i.memory),
           i.memory = m, Ends(m, "halt", << >>)
    PROVE  Refines
<1>1. << >> \in Seq(Nat) /\ Len(<< >>) < MaxUsize
    BY MemoryAssumption, LimitAssumption
<1>2. (FALSE <=> "halt" = "revert") /\ ("halt" = "halt" => << >> = << >>)
    OBVIOUS
<1>4. ASSUME NEW reverted, reverted <=> "halt" = "revert"
      PROVE  Stack!Leave(<< >>, reverted) /\ Len(Mapped') < Len(Mapped) /\ SepKept
    BY <1>1, <1>2, <1>4, EndsView
<1>3. Stack!Leave(<< >>, FALSE) /\ Len(Mapped') < Len(Mapped) /\ SepKept
    BY <1>2, <1>4, Zenon
<1> QED
    BY <1>3, RefinesNext DEF Stack!Closes

\* The access of an instruction.
LEMMA InstructionView ==
    ASSUME SepInv, frames # << >>, NEW offset \in Nat, NEW len \in Nat
    PROVE  LET i == Access(Instruction, offset, len)
           IN  /\ Reached(i) /\ Spared(i.memory) /\ i.memory \in Mem
               /\ MemoryLen(i.memory) \in Nat /\ MemoryLen(i.memory) < MemoryLimit + WordBytes
               /\ Accessed(memory, i, offset, len)
<1>1. /\ MemoryInv /\ Reached(Instruction) /\ Spared(Instruction.memory)
      /\ Instruction.memory = memory
    BY InstructionSpared
<1> QED
    BY <1>1, AccessView

\* MLOAD, KECCAK256, LOG.
LEMMA ReadsView ==
    ASSUME SepInv, MemoryInv', NEW r \in Ranges, Reads(r[1], r[2])
    PROVE  Refines
<1> DEFINE offset == r[1]
           len == r[2]
           i == Access(Instruction, offset, len)
<1>1. frames # << >> /\ offset \in Nat /\ len \in Nat
    BY OperandsAssumption DEF Reads, Steps
<1>2. Fails(i) \/ (i.ok /\ Continues(i, Bytes(i, offset, len)))
    BY DEF Reads
<1> HIDE DEF offset, len
<1>8. Reached(i) /\ Spared(i.memory) /\ i.memory \in Mem /\ Accessed(memory, i, offset, len)
    BY <1>1, InstructionView
<1> HIDE DEF i
<1>3. /\ Reached(i) /\ Spared(i.memory) /\ i.memory \in Mem
      /\ i.ok => /\ \A f : TopView(i.memory, f) = Stack!Grown(TopView(memory, f), At(offset, len), len)
                 /\ \A f : Bytes(i, offset, len) = Stack!Taken(TopView(memory, f), At(offset, len), len)
                 /\ len # 0 => offset \in Reach /\ len \in Reach
    BY <1>8 DEF Accessed
<1>4. CASE Fails(i)
    BY <1>1, <1>3, <1>4, FailsView DEF Fails
<1>5. CASE i.ok /\ Continues(i, Bytes(i, offset, len))
  <2>1. Rewritten(i.memory, i.memory)
    BY <1>3 DEF Rewritten
  <2>2. /\ Mapped' = Stack!WithTop(TopView(i.memory, Interpreter))
        /\ Len(Mapped') = Len(Mapped) /\ SepKept
    BY <1>1, <1>3, <1>5, <2>1, ContinuesView DEF Continues
  <2>3. Stack!Running /\ Stack!Top = TopView(memory, Interpreter)
    BY <1>1, StackTop
  <2>4. Stack!Read(At(offset, len), len)
    BY <1>3, <1>5, <2>2, <2>3 DEF Continues, Stack!Read, Mapped
  <2>5. At(offset, len) \in Offsets /\ len \in Lens
    BY <1>1, <1>3, <1>5, OperandsMapped DEF offset, len
  <2>6. Stack!Stays
    BY <2>4, <2>5 DEF Stack!Stays
  <2> QED
    BY <2>2, <2>6, RefinesNext
<1> QED
    BY <1>2, <1>4, <1>5

\* An instruction that writes data into the running frame's memory.
LEMMA WriteView ==
    ASSUME SepInv, frames # << >>, MemoryInv', NEW offset \in Nat, NEW data \in Seq(Nat), NEW i,
           i = Access(Instruction, offset, Len(data)), i.ok,
           memory' = IF Len(data) = 0 THEN i.memory ELSE SetBytes(i.memory, offset, data),
           frames' = [frames EXCEPT ![Len(frames)].gas = i.gas], read' = << >>
    PROVE  /\ Stack!Write(At(offset, Len(data)), data)
           /\ Len(Mapped') = Len(Mapped) /\ SepKept
           /\ Len(data) # 0 => offset \in Reach /\ Len(data) \in Reach
<1> DEFINE len == Len(data)
           k == IF Len(data) = 0 THEN i.memory ELSE SetBytes(i.memory, offset, data)
<1>1. len \in Nat
    OBVIOUS
<1>2. /\ Reached(i) /\ Spared(i.memory) /\ i.memory \in Mem /\ MemoryLen(i.memory) \in Nat
      /\ \A f : TopView(i.memory, f) = Stack!Grown(TopView(memory, f), At(offset, len), len)
      /\ len # 0 => /\ offset + len <= MemoryLen(i.memory)
                    /\ offset \in Reach /\ len \in Reach
  <2>1. /\ Reached(i) /\ Spared(i.memory) /\ i.memory \in Mem /\ MemoryLen(i.memory) \in Nat
        /\ Accessed(memory, i, offset, len)
    BY <1>1, InstructionView
  <2> HIDE DEF len
  <2> QED
    BY <2>1 DEF Accessed
<1>3. memory.last_checkpoint = i.memory.last_checkpoint
    BY <1>2 DEF Reached, Stretched
<1>4. /\ Rewritten(i.memory, k) /\ Spared(k)
      /\ \A f : TopView(k, f) = Stack!Put(TopView(i.memory, f), At(offset, len), data)
  <2>1. CASE len = 0
    <3>1. k = i.memory
      BY <2>1
    <3>2. DOMAIN data = {}
      BY <2>1
    <3>3. Rewritten(i.memory, i.memory)
      BY <1>2 DEF Rewritten
    <3> HIDE DEF k
    <3> QED
      BY <1>2, <3>1, <3>2, <3>3, PutNothing
  <2>2. CASE len # 0
    <3>1. k = SetBytes(i.memory, offset, data) /\ At(offset, len) = offset
      BY <2>2 DEF At
    <3>2. Rewritten(i.memory, k)
      BY <1>2, <3>1, SetBytesRewrites
    <3>3. Puts(i.memory, k, offset, data)
      BY <1>2, <2>2, <3>1, SetBytesPuts
    <3> HIDE DEF k
    <3> QED
      BY <1>2, <1>3, <3>1, <3>2, <3>3 DEF Puts, Spared
  <2> QED
    BY <2>1, <2>2
<1>5. memory' = k
    OBVIOUS
<1> HIDE DEF k
<1>6. /\ Mapped' = Stack!WithTop(TopView(k, Interpreter))
      /\ Len(Mapped') = Len(Mapped) /\ SepKept
    BY <1>2, <1>4, <1>5, ContinuesView
<1>7. Stack!Running /\ Stack!Top = TopView(memory, Interpreter)
    BY StackTop
<1>8. TopView(k, Interpreter)
        = Stack!Put(Stack!Grown(TopView(memory, Interpreter), At(offset, len), len), At(offset, len), data)
    BY <1>2, <1>4
<1>9. Stack!Write(At(offset, len), data)
    BY <1>6, <1>7, <1>8 DEF Stack!Write, Mapped
<1> QED
    BY <1>2, <1>6, <1>9

\* Nothing is set anywhere.
LEMMA SetNothing ==
    ASSUME NEW m \in Mem, NEW offset \in Nat, NEW data \in Seq(Nat), Len(data) = 0
    PROVE  SetBytes(m, offset, data) = m
<1> DEFINE at == m.last_checkpoint + offset
           b == [i \in DOMAIN m.buffer |->
                    IF i \in at + 1 .. at + Len(data) THEN data[i - at] ELSE m.buffer[i]]
<1>1. m.buffer \in Seq(Nat) /\ at \in Nat
    BY DEF Mem
<1>2. b = m.buffer
  <2>1. at + 1 .. at + Len(data) = {}
    <3> HIDE DEF at
    <3> QED
      BY <1>1
  <2>2. b = [i \in DOMAIN m.buffer |-> m.buffer[i]]
    <3> HIDE DEF at
    <3> QED
      BY <2>1
  <2> QED
    BY <1>1, <2>2
<1>3. SetBytes(m, offset, data) = [m EXCEPT !.buffer = b]
    BY DEF SetBytes
<1> HIDE DEF b
<1> QED
    BY <1>2, <1>3 DEF Mem

\* MSTORE and MSTORE8.
LEMMA StoresView ==
    ASSUME SepInv, MemoryInv', NEW r \in Ranges, NEW value \in Words, Stores(r[1], value)
    PROVE  Refines
<1> DEFINE offset == r[1]
           i == Access(Instruction, offset, Len(value))
<1>1. frames # << >> /\ offset \in Nat /\ value \in Seq(Nat) /\ Len(value) \in Nat
  <2>1. offset \in Nat /\ value \in Seq(Nat)
    BY OperandsAssumption
  <2>2. frames # << >>
    BY DEF Stores, Steps
  <2> QED
    BY <2>1, <2>2
<1>2. \/ Fails(i)
      \/ i.ok /\ Continues([i EXCEPT !.memory = SetBytes(@, offset, value)], << >>)
    BY DEF Stores
<1> HIDE DEF offset
<1>3. Reached(i) /\ Spared(i.memory) /\ i.memory \in Mem
    BY <1>1, InstructionView
<1>4. CASE Fails(i)
  <2> HIDE DEF i
  <2> QED
    BY <1>1, <1>3, <1>4, FailsView DEF Fails
<1>5. CASE i.ok /\ Continues([i EXCEPT !.memory = SetBytes(@, offset, value)], << >>)
  <2> DEFINE k == SetBytes(i.memory, offset, value)
             l == [i EXCEPT !.memory = k]
  <2>1. i \in [memory : Mem, gas : Int, ok : BOOLEAN]
    BY <1>3 DEF Reached
  <2>2. Continues(l, << >>)
    BY <1>5
  <2> HIDE DEF i
  <2>3. l.memory = k /\ l.gas = i.gas
    <3> HIDE DEF k
    <3> QED
      BY <2>1
  <2>4. memory' = k /\ frames' = [frames EXCEPT ![Len(frames)].gas = i.gas] /\ read' = << >>
    <3> HIDE DEF k, l
    <3> QED
      BY <2>2, <2>3 DEF Continues
  <2>5. k = IF Len(value) = 0 THEN i.memory ELSE SetBytes(i.memory, offset, value)
    BY <1>1, <1>3, SetNothing
  <2>6. i = Access(Instruction, offset, Len(value)) /\ i.ok
    BY <1>5 DEF i
  <2> HIDE DEF k
  <2>7. /\ Stack!Write(At(offset, Len(value)), value) /\ Len(Mapped') = Len(Mapped) /\ SepKept
        /\ Len(value) # 0 => offset \in Reach /\ Len(value) \in Reach
    BY <1>1, <2>4, <2>5, <2>6, WriteView
  <2>8. At(offset, Len(value)) \in Offsets /\ 0 \in Lens
    BY <1>1, <2>7, OperandsMapped DEF offset
  <2>9. Stack!Stays
    BY <2>7, <2>8 DEF Stack!Stays
  <2> QED
    BY <2>7, <2>9, RefinesNext
<1> QED
    BY <1>2, <1>4, <1>5

\* MSIZE.
LEMMA MsizeView ==
    ASSUME SepInv, MemoryInv', Msize
    PROVE  Refines
<1>1. frames # << >> /\ Continues(Instruction, << MemoryLen(memory) >>)
    BY DEF Msize, Steps
<1>2. Reached(Instruction) /\ Spared(memory) /\ Instruction.memory = memory
    BY <1>1, InstructionSpared
<1>3. Rewritten(memory, memory)
    BY <1>2 DEF Rewritten, Reached
<1>4. memory' = memory /\ frames' = [frames EXCEPT ![Len(frames)].gas = Instruction.gas]
      /\ read' = << MemoryLen(memory) >>
    BY <1>1, <1>2 DEF Continues
<1>5. /\ Mapped' = Stack!WithTop(TopView(memory, Interpreter))
      /\ Len(Mapped') = Len(Mapped) /\ SepKept
    BY <1>1, <1>2, <1>3, <1>4, ContinuesView
<1>6. /\ Stack!Running /\ Stack!Top = TopView(memory, Interpreter)
      /\ Mapped = Stack!WithTop(TopView(memory, Interpreter))
  <2>1. Layout(memory, frames) /\ Interpreter = frames[Len(frames)]
    BY DEF SepInv, MemoryInv, Interpreter, Last
  <2> QED
    BY <1>1, <2>1, StackTop, ViewsTop
<1>7. TopView(memory, Interpreter).size = MemoryLen(memory)
    BY OwnFields DEF TopView, View
<1>8. Stack!Size
    BY <1>4, <1>5, <1>6, <1>7 DEF Stack!Size, Mapped
<1> QED
    BY <1>5, <1>8, RefinesNext DEF Stack!Stays

\* How a memory grows, by its parts.
LEMMA GrownOwn ==
    ASSUME NEW k, NEW b, NEW s, NEW i, NEW r, NEW o, NEW offset, NEW len, len # 0
    PROVE  Stack!Grown(Own(k, b, s, i, r, o), offset, len)
             = Own(k, b, Max({s, Ceil(offset + len)}), i, r, o)
<1> DEFINE v == Own(k, b, s, i, r, o)
           t == Max({s, Ceil(offset + len)})
<1>1. v.size = s
    BY OwnFields
<1>2. Stack!Grown(v, offset, len) = [v EXCEPT !.size = t]
  <2> HIDE DEF v
  <2> QED
    BY <1>1, StackHelpers DEF Stack!Grown, Ceil
<1> HIDE DEF t
<1>3. [v EXCEPT !.size = t] = Own(k, b, t, i, r, o)
    BY DEF Own
<1> QED
    BY <1>2, <1>3 DEF t

\* Memory for the further of two ranges is memory for both.
LEMMA GrownTwice ==
    ASSUME NEW m, MemoryLen(m) \in Nat, NEW f, NEW a \in Nat, NEW b \in Nat, NEW len \in Nat \ {0}
    PROVE  Stack!Grown(Stack!Grown(TopView(m, f), a, len), b, len)
             = Stack!Grown(TopView(m, f), Max({a, b}), len)
<1> DEFINE s == MemoryLen(m)
           own(n) == Own(f.kind, Cut(m.buffer, m.last_checkpoint, s), n, f.input,
                         f.return_data_buffer, Target(f.out))
           x == Ceil(a + len)
           y == Ceil(b + len)
           z == Ceil(Max({a, b}) + len)
<1>1. TopView(m, f) = own(s)
    BY DEF TopView, View
<1>2. \A n : /\ Stack!Grown(own(n), a, len) = own(Max({n, x}))
             /\ Stack!Grown(own(n), b, len) = own(Max({n, y}))
             /\ Stack!Grown(own(n), Max({a, b}), len) = own(Max({n, z}))
  <2>1. len # 0
    OBVIOUS
  <2>2. ASSUME NEW n, NEW q PROVE Stack!Grown(own(n), q, len) = own(Max({n, Ceil(q + len)}))
    BY <2>1, GrownOwn
  <2> HIDE DEF own
  <2> QED
    BY <2>2
<1>3. \A p, q \in Nat : p <= q => Ceil(p) <= Ceil(q)
  <2>1. ASSUME NEW p \in Nat, NEW q \in Nat, p <= q PROVE Ceil(p) <= Ceil(q)
    <3>1. Ceil(q) \in Nat /\ Ceil(q) >= q
      BY CeilBounds
    <3>2. Ceil(q) % WordBytes = 0
      <4> DEFINE d == (q + WordBytes - 1) \div WordBytes
      <4>1. d \in Nat /\ Ceil(q) = d * WordBytes
        <5>1. WordBytes \in Nat /\ WordBytes > 0 /\ q + WordBytes - 1 \in Nat
          BY MemoryAssumption
        <5>2. d \in Nat
          BY <5>1
        <5> HIDE DEF d
        <5> QED
          BY <5>1, <5>2 DEF Ceil, d
      <4> HIDE DEF d
      <4> QED
        BY <4>1, WordsWhole
    <3>3. p <= Ceil(q)
      BY <2>1, <3>1
    <3> QED
      BY <3>1, <3>2, <3>3, CeilBounds
  <2> QED
    BY <2>1
<1>4. \A p, q \in Nat : Max({p, q}) = IF p <= q THEN q ELSE p
  <2>1. 0 \in Nat /\ 0 % WordBytes = 0
    BY MemoryGasInt
  <2> QED
    BY <2>1, GrownSize
<1>5. x \in Nat /\ y \in Nat /\ z \in Nat /\ s \in Nat
  <2>1. Max({a, b}) \in Nat
    BY <1>4
  <2>2. a + len \in Nat /\ b + len \in Nat /\ Max({a, b}) + len \in Nat
    BY <2>1
  <2> QED
    BY <2>2, CeilBounds
<1>6. Max({Max({s, x}), y}) = Max({s, z})
  <2>1. CASE a <= b
    <3>1. Max({a, b}) = b /\ z = y
      BY <1>4, <2>1
    <3>2. x <= y
      <4>1. a + len \in Nat /\ b + len \in Nat /\ a + len <= b + len
        BY <2>1
      <4> QED
        BY <1>3, <4>1
    <3> HIDE DEF x, y, z, s
    <3>3. Max({s, x}) = (IF s <= x THEN x ELSE s) /\ Max({s, y}) = IF s <= y THEN y ELSE s
      BY <1>4, <1>5
    <3>4. Max({Max({s, x}), y}) = IF Max({s, x}) <= y THEN y ELSE Max({s, x})
      BY <1>4, <1>5, <3>3
    <3> QED
      BY <1>5, <3>1, <3>2, <3>3, <3>4
  <2>2. CASE ~(a <= b)
    <3>1. Max({a, b}) = a /\ z = x
      BY <1>4, <2>2
    <3>2. y <= x
      <4>1. a + len \in Nat /\ b + len \in Nat /\ b + len <= a + len
        BY <2>2
      <4> QED
        BY <1>3, <4>1
    <3> HIDE DEF x, y, z, s
    <3>3. Max({s, x}) = IF s <= x THEN x ELSE s
      BY <1>4, <1>5
    <3>4. Max({Max({s, x}), y}) = IF Max({s, x}) <= y THEN y ELSE Max({s, x})
      BY <1>4, <1>5, <3>3
    <3> QED
      BY <1>5, <3>1, <3>2, <3>3, <3>4
  <2> QED
    BY <2>1, <2>2
<1> HIDE DEF own, x, y, z, s
<1> QED
    BY <1>1, <1>2, <1>6

\* MCOPY.
LEMMA McopyView ==
    ASSUME SepInv, MemoryInv', NEW c \in Copies, Mcopy(c[1], c[2], c[3])
    PROVE  Refines
<1> DEFINE dst == c[1]
           src == c[2]
           len == c[3]
           i == McopyRange(Instruction, dst, src, len)
           k == IF len = 0 THEN i.memory ELSE CopyWithin(i.memory, dst, src, len)
           far == Max({dst, src})
<1>1. frames # << >> /\ dst \in Nat /\ src \in Nat /\ len \in Nat
  <2>1. dst \in Nat /\ src \in Nat /\ len \in Nat
    BY OperandsAssumption
  <2>2. frames # << >>
    BY DEF Mcopy, Steps
  <2> QED
    BY <2>1, <2>2
<1>2. Fails(i) \/ (i.ok /\ Continues([i EXCEPT !.memory = k], << >>))
    BY DEF Mcopy
<1> HIDE DEF dst, src, len
<1>3. far \in Nat /\ dst <= far /\ src <= far
    BY <1>1, PairMinMax
<1>4. /\ Reached(i) /\ Spared(i.memory) /\ i.memory \in Mem /\ MemoryLen(i.memory) \in Nat
      /\ MemoryLen(i.memory) < MemoryLimit + WordBytes
      /\ Accessed(memory, i, far, len)
  <2>1. CASE len # 0 /\ ~(FitsUsize(dst) /\ FitsUsize(src))
    <3>1. i = [Instruction EXCEPT !.ok = FALSE]
      BY <2>1 DEF McopyRange
    <3>2. Reached(i) /\ i.ok = FALSE
      BY <1>1, <3>1, InstructionSpared, StopReached
    <3>3. i.memory = memory /\ Spared(memory)
      BY <1>1, <3>1, InstructionSpared DEF Reached
    <3> HIDE DEF i
    <3>4. i.memory \in Mem /\ MemoryLen(i.memory) \in Nat /\ MemoryLen(i.memory) < MemoryLimit + WordBytes
      BY <1>1, <3>2, InstructionSpared, ReachedSize
    <3> QED
      BY <3>2, <3>3, <3>4 DEF Accessed
  <2>2. CASE ~(len # 0 /\ ~(FitsUsize(dst) /\ FitsUsize(src)))
    <3>1. i = Access(Instruction, far, len)
      BY <2>2 DEF McopyRange
    <3> HIDE DEF i, far
    <3> QED
      BY <1>1, <1>3, <3>1, InstructionView
  <2> QED
    BY <2>1, <2>2
<1> HIDE DEF i
<1>5. CASE Fails(i)
    BY <1>1, <1>4, <1>5, FailsView DEF Fails
<1>6. CASE i.ok /\ Continues([i EXCEPT !.memory = k], << >>)
  <2> DEFINE l == [i EXCEPT !.memory = k]
             v == TopView(memory, Interpreter)
             taken == Stack!Taken(v, At(src, len), len)
             grown == Stack!Grown(Stack!Grown(v, At(dst, len), len), At(src, len), len)
  <2>1. i \in [memory : Mem, gas : Int, ok : BOOLEAN]
    BY <1>4 DEF Reached
  <2>2. Continues(l, << >>)
    BY <1>6
  <2>3. l.memory = k /\ l.gas = i.gas
    <3> HIDE DEF k
    <3> QED
      BY <2>1
  <2>4. memory' = k /\ frames' = [frames EXCEPT ![Len(frames)].gas = i.gas] /\ read' = << >>
    <3> HIDE DEF k, l
    <3> QED
      BY <2>2, <2>3 DEF Continues
  <2>5. /\ \A f : TopView(i.memory, f) = Stack!Grown(TopView(memory, f), At(far, len), len)
        /\ len # 0 => /\ far + len <= MemoryLen(i.memory)
                      /\ far \in Reach /\ len \in Reach
    BY <1>4, <1>6 DEF Accessed
  <2>6. len # 0 => /\ dst + len <= MemoryLen(i.memory) /\ src + len <= MemoryLen(i.memory)
                   /\ dst \in Reach /\ src \in Reach /\ len \in Reach
    <3> HIDE DEF far
    <3>1. len # 0 => /\ dst + len <= MemoryLen(i.memory) /\ src + len <= MemoryLen(i.memory)
      BY <1>1, <1>3, <1>4, <2>5
    <3>2. len # 0 => dst \in Reach /\ src \in Reach
      BY <1>1, <1>3, <2>5, MemoryAssumption DEF Reach
    <3> QED
      BY <2>5, <3>1, <3>2
  <2>7. /\ Rewritten(i.memory, k) /\ Spared(k)
        /\ TopView(k, Interpreter) = Stack!Put(grown, At(dst, len), taken)
    <3>1. CASE len = 0
      <4>1. k = i.memory /\ Rewritten(i.memory, i.memory)
        BY <1>4, <3>1 DEF Rewritten
      <4>2. grown = v /\ TopView(i.memory, Interpreter) = v
        BY <2>5, <3>1 DEF Stack!Grown
      <4>3. DOMAIN taken = {}
        BY <3>1 DEF Stack!Taken
      <4>4. Stack!Put(v, At(dst, len), taken) = v
        <5> HIDE DEF taken
        <5> QED
          BY <4>3, PutNothing
      <4> HIDE DEF k
      <4> QED
        BY <1>4, <4>1, <4>2, <4>4
    <3>2. CASE len # 0
      <4> DEFINE data == Slice(i.memory, src, len)
      <4>1. At(src, len) = src /\ At(dst, len) = dst /\ At(far, len) = far
        BY <3>2 DEF At
      <4>2. data = Stack!Taken(TopView(i.memory, Interpreter), src, len)
        BY <1>1, <1>4, <2>6, <3>2, SliceTaken
      <4>3. TopView(i.memory, Interpreter) = Stack!Grown(v, far, len)
        BY <2>5, <4>1
      <4>4. data = taken
        <5>1. Stack!Taken(TopView(i.memory, Interpreter), src, len) = Stack!Taken(v, src, len)
          <6> HIDE DEF far
          <6> QED
            BY <4>3, TakenGrown
        <5> QED
          BY <4>1, <4>2, <5>1
      <4>5. data \in Seq(Nat)
        BY <1>1, <1>4, SliceBytes
      <4>6. Len(data) = len
        <5>1. Len(taken) = len
          BY <1>1 DEF Stack!Taken
        <5> QED
          BY <4>4, <5>1
      <4>7. k = SetBytes(i.memory, dst, data)
        BY <3>2 DEF CopyWithin
      <4> HIDE DEF data, k
      <4>8. Rewritten(i.memory, k)
        BY <1>1, <1>4, <4>5, <4>7, SetBytesRewrites
      <4>9. Puts(i.memory, k, dst, data)
        BY <1>1, <1>4, <2>6, <3>2, <4>5, <4>6, <4>7, SetBytesPuts
      <4>10. grown = Stack!Grown(v, far, len)
        <5>1. MemoryLen(memory) \in Nat
          <6>1. /\ MemoryInv /\ Reached(Instruction) /\ Instruction.memory = memory
            BY <1>1, InstructionSpared
          <6> QED
            BY <1>1, <6>1, ReachedSize
        <5>2. len \in Nat \ {0}
          BY <1>1, <3>2
        <5> QED
          BY <1>1, <4>1, <5>1, <5>2, GrownTwice
      <4>11. memory.last_checkpoint = i.memory.last_checkpoint
        BY <1>4 DEF Reached, Stretched
      <4> HIDE DEF grown, taken, v
      <4> QED
        BY <1>4, <4>1, <4>3, <4>4, <4>8, <4>9, <4>10, <4>11 DEF Puts, Spared
    <3> QED
      BY <3>1, <3>2
  <2> HIDE DEF k
  <2>8. /\ Mapped' = Stack!WithTop(TopView(k, Interpreter))
        /\ Len(Mapped') = Len(Mapped) /\ SepKept
    BY <1>1, <1>4, <2>4, <2>7, ContinuesView
  <2>9. Stack!Running /\ Stack!Top = v
    BY <1>1, StackTop
  <2>10. Stack!Copy(At(dst, len), At(src, len), len)
    <3>1. Mapped' = Stack!WithTop(Stack!Put(grown, At(dst, len), taken))
      BY <2>7, <2>8
    <3> QED
      BY <2>4, <2>9, <3>1 DEF Stack!Copy, Mapped
  <2>11. At(dst, len) \in Offsets /\ At(src, len) \in Offsets /\ len \in Lens
    BY <1>1, <2>6, OperandsMapped DEF dst, src, len
  <2>12. Stack!Stays
    BY <2>10, <2>11 DEF Stack!Stays
  <2> QED
    BY <2>8, <2>12, RefinesNext
<1> QED
    BY <1>2, <1>5, <1>6

\* CALLDATACOPY and its kin.
LEMMA DataCopyView ==
    ASSUME SepInv, MemoryInv', NEW c \in Copies, DataCopy(c[1], c[2], c[3])
    PROVE  Refines
<1> DEFINE offset == c[1]
           from == Saturated(c[2])
           len == c[3]
           i == Access(Instruction, offset, len)
           data == Stack!Padded(Interpreter.input, from, len)
           k == IF len = 0 THEN i.memory ELSE SetData(i.memory, offset, from, len, Interpreter.input)
<1>1. frames # << >> /\ offset \in Nat /\ from \in Nat /\ len \in Nat /\ Interpreter.input \in Seq(Nat)
  <2>1. offset \in Nat /\ c[2] \in Nat /\ len \in Nat
    BY OperandsAssumption
  <2>2. frames # << >>
    BY DEF DataCopy, Steps
  <2>3. Interpreter.input \in Seq(Nat)
    BY <2>2, InstructionReached DEF FrameType, SepInv
  <2> QED
    BY <2>1, <2>2, <2>3, MemoryAssumption DEF Saturated
<1>2. Fails(i) \/ (i.ok /\ Continues([i EXCEPT !.memory = k], << >>))
    BY DEF DataCopy
<1>3. from \in {Saturated(d[2]) : d \in Copies}
    OBVIOUS
<1> HIDE DEF offset, from, len
<1>4. Reached(i) /\ Spared(i.memory) /\ i.memory \in Mem
    BY <1>1, InstructionView
<1>5. CASE Fails(i)
  <2> HIDE DEF i
  <2> QED
    BY <1>1, <1>4, <1>5, FailsView DEF Fails
<1>6. CASE i.ok /\ Continues([i EXCEPT !.memory = k], << >>)
  <2> DEFINE l == [i EXCEPT !.memory = k]
  <2>1. i \in [memory : Mem, gas : Int, ok : BOOLEAN]
    BY <1>4 DEF Reached
  <2>2. Continues(l, << >>)
    BY <1>6
  <2> HIDE DEF i
  <2>3. l.memory = k /\ l.gas = i.gas
    <3> HIDE DEF k
    <3> QED
      BY <2>1
  <2>4. memory' = k /\ frames' = [frames EXCEPT ![Len(frames)].gas = i.gas] /\ read' = << >>
    <3> HIDE DEF k, l
    <3> QED
      BY <2>2, <2>3 DEF Continues
  <2>5. /\ data \in Seq(Nat) /\ Len(data) = len
        /\ SetData(i.memory, offset, from, len, Interpreter.input) = SetBytes(i.memory, offset, data)
    BY <1>1, <1>4, SetDataPadded
  <2>6. i = Access(Instruction, offset, Len(data)) /\ i.ok
    BY <1>6, <2>5 DEF i
  <2>7. k = IF Len(data) = 0 THEN i.memory ELSE SetBytes(i.memory, offset, data)
    BY <2>5
  <2> HIDE DEF k, data
  <2>8. /\ Stack!Write(At(offset, Len(data)), data) /\ Len(Mapped') = Len(Mapped) /\ SepKept
        /\ Len(data) # 0 => offset \in Reach /\ Len(data) \in Reach
    BY <1>1, <2>4, <2>5, <2>6, <2>7, WriteView
  <2>9. At(offset, len) \in Offsets /\ len \in Lens
    BY <1>1, <2>5, <2>8, OperandsMapped DEF offset, len
  <2>10. Stack!Top.input = Interpreter.input
    <3>1. TopView(memory, Interpreter).input = Interpreter.input
      BY OwnFields DEF TopView, View
    <3> QED
      BY <1>1, <3>1, StackTop
  <2>11. Stack!CopyInput(At(offset, len), from, len)
    BY <2>5, <2>8, <2>10 DEF Stack!CopyInput, data
  <2>12. Stack!Stays
    BY <1>3, <2>9, <2>11 DEF Stack!Stays
  <2> QED
    BY <2>8, <2>12, RefinesNext
<1> QED
    BY <1>2, <1>5, <1>6

\* RETURNDATACOPY.
LEMMA ReturnDataCopyView ==
    ASSUME SepInv, MemoryInv', NEW c \in Copies, ReturnDataCopy(c[1], c[2], c[3])
    PROVE  Refines
<1> DEFINE offset == c[1]
           from == c[2]
           len == c[3]
           buffer == Interpreter.return_data_buffer
           data_end == SaturatingSum(Saturated(from), len)
           short == ~FitsUsize(len) \/ data_end > Len(buffer)
           i == IF short THEN [Instruction EXCEPT !.ok = FALSE] ELSE Access(Instruction, offset, len)
           k == IF len = 0 THEN i.memory
                ELSE SetBytes(i.memory, offset, SubSeq(buffer, from + 1, data_end))
           data == Stack!Padded(buffer, from, len)
<1>1. /\ frames # << >> /\ offset \in Nat /\ from \in Nat /\ len \in Nat /\ buffer \in Seq(Nat)
      /\ Len(buffer) < MaxUsize /\ Len(buffer) \in Nat
  <2>1. offset \in Nat /\ c[2] \in Nat /\ len \in Nat
    BY OperandsAssumption
  <2>2. frames # << >>
    BY DEF ReturnDataCopy, Steps
  <2>3. buffer \in Seq(Nat)
    BY <2>2, InstructionReached DEF FrameType, SepInv
  <2>4. Len(buffer) < MaxUsize
    <3>1. Len(frames) \in 1 .. Len(frames) /\ Interpreter = frames[Len(frames)]
      BY <2>2, InstructionReached DEF SepInv, Interpreter, Last
    <3> QED
      BY <3>1 DEF SepInv, Short
  <2> QED
    BY <2>1, <2>2, <2>3, <2>4
<1>2. Fails(i) \/ (i.ok /\ Continues([i EXCEPT !.memory = k], << >>))
    BY DEF ReturnDataCopy
<1>3. Saturated(from) \in {Saturated(d[2]) : d \in Copies}
    OBVIOUS
<1> HIDE DEF offset, from, len, buffer
<1>4. /\ Reached(i) /\ Spared(i.memory) /\ i.memory \in Mem
      /\ i.ok => ~short /\ i = Access(Instruction, offset, len)
  <2>1. CASE short
    <3>1. i = [Instruction EXCEPT !.ok = FALSE]
      BY <2>1
    <3>2. Reached(i) /\ i.ok = FALSE
      BY <1>1, <3>1, InstructionSpared, StopReached
    <3>3. i.memory = memory /\ Spared(memory)
      BY <1>1, <3>1, InstructionSpared DEF Reached
    <3> HIDE DEF i
    <3> QED
      BY <3>2, <3>3 DEF Reached
  <2>2. CASE ~short
    <3>1. i = Access(Instruction, offset, len)
      BY <2>2
    <3> HIDE DEF i
    <3> QED
      BY <1>1, <2>2, <3>1, InstructionView
  <2> QED
    BY <2>1, <2>2
<1>5. CASE Fails(i)
  <2> HIDE DEF i
  <2> QED
    BY <1>1, <1>4, <1>5, FailsView DEF Fails
<1>6. CASE i.ok /\ Continues([i EXCEPT !.memory = k], << >>)
  <2> DEFINE l == [i EXCEPT !.memory = k]
  <2>1. i \in [memory : Mem, gas : Int, ok : BOOLEAN]
    BY <1>4 DEF Reached
  <2>2. Continues(l, << >>)
    BY <1>6
  <2>3. ~short /\ i = Access(Instruction, offset, len) /\ i.ok
    BY <1>4, <1>6
  <2> HIDE DEF i
  <2>4. l.memory = k /\ l.gas = i.gas
    <3> HIDE DEF k
    <3> QED
      BY <2>1
  <2>5. memory' = k /\ frames' = [frames EXCEPT ![Len(frames)].gas = i.gas] /\ read' = << >>
    <3> HIDE DEF k, l
    <3> QED
      BY <2>2, <2>4 DEF Continues
  <2>6. Saturated(from) = from /\ data_end = from + len /\ from + len <= Len(buffer)
    BY <1>1, <2>3, MemoryAssumption DEF Saturated, SaturatingSum, FitsUsize
  <2>7. data \in Seq(Nat) /\ Len(data) = len /\ SubSeq(buffer, from + 1, data_end) = data
    <3>1. data \in Seq(Nat) /\ Len(data) = len
      BY <1>1, <1>4, SetDataPadded
    <3>2. SubSeq(buffer, from + 1, from + len) = data
      BY <1>1, <2>6, PartPadded
    <3> QED
      BY <2>6, <3>1, <3>2
  <2>8. i = Access(Instruction, offset, Len(data)) /\ i.ok
    BY <2>3, <2>7
  <2>9. k = IF Len(data) = 0 THEN i.memory ELSE SetBytes(i.memory, offset, data)
    <3> HIDE DEF data, data_end
    <3> QED
      BY <2>7
  <2> HIDE DEF k, data
  <2>10. /\ Stack!Write(At(offset, Len(data)), data) /\ Len(Mapped') = Len(Mapped) /\ SepKept
         /\ Len(data) # 0 => offset \in Reach /\ Len(data) \in Reach
    BY <1>1, <2>5, <2>7, <2>8, <2>9, WriteView
  <2>11. At(offset, len) \in Offsets /\ len \in Lens
    BY <1>1, <2>7, <2>10, OperandsMapped DEF offset, len
  <2>12. Stack!Top.returned = buffer
    <3>1. TopView(memory, Interpreter).returned = Interpreter.return_data_buffer
      BY OwnFields DEF TopView, View
    <3> QED
      BY <1>1, <3>1, StackTop DEF buffer
  <2>13. Stack!CopyReturned(At(offset, len), from, len)
    BY <2>6, <2>7, <2>10, <2>12 DEF Stack!CopyReturned, data
  <2>14. Stack!Stays
    BY <1>3, <2>6, <2>11, <2>13 DEF Stack!Stays
  <2> QED
    BY <2>10, <2>14, RefinesNext
<1> QED
    BY <1>2, <1>5, <1>6

\* RETURN and REVERT.
LEMMA ReturnsView ==
    ASSUME SepInv, MemoryInv', NEW r \in Ranges, NEW result \in {"return", "revert"},
           Returns(result, r[1], r[2])
    PROVE  Refines
<1> DEFINE offset == r[1]
           len == r[2]
           i == Access(Instruction, offset, len)
           output == Bytes(i, offset, len)
<1>1. frames # << >> /\ offset \in Nat /\ len \in Nat
    BY OperandsAssumption DEF Returns, Steps
<1>2. Fails(i) \/ (i.ok /\ Ends(i.memory, result, output))
    BY DEF Returns
<1> HIDE DEF offset, len
<1>3. Reached(i) /\ Spared(i.memory) /\ i.memory \in Mem /\ Accessed(memory, i, offset, len)
    BY <1>1, InstructionView
<1> HIDE DEF i
<1>4. CASE Fails(i)
    BY <1>1, <1>3, <1>4, FailsView DEF Fails
<1>5. CASE i.ok /\ Ends(i.memory, result, output)
  <2> DEFINE v == TopView(memory, Interpreter)
  <2>1. /\ output = Stack!Taken(v, At(offset, len), len)
        /\ output \in Seq(Nat) /\ Len(output) < MaxUsize
        /\ len # 0 => offset \in Reach /\ len \in Reach
    BY <1>3, <1>5 DEF Accessed
  <2> HIDE DEF output
  <2>2. PICK reverted \in BOOLEAN : reverted <=> result = "revert"
    <3>1. CASE result = "revert"
      BY <3>1
    <3>2. CASE result # "revert"
      BY <3>2
    <3> QED
      BY <3>1, <3>2
  <2>3. Stack!Leave(output, reverted) /\ Len(Mapped') < Len(Mapped) /\ SepKept
    BY <1>1, <1>3, <1>5, <2>1, <2>2, EndsView
  <2>4. Stack!Return(At(offset, len), len, reverted)
    BY <1>1, <2>1, <2>3, StackTop DEF Stack!Return
  <2>5. At(offset, len) \in Offsets /\ len \in Lens
    BY <1>1, <2>1, OperandsMapped DEF offset, len
  <2>6. Stack!Closes
    BY <2>4, <2>5 DEF Stack!Closes
  <2> QED
    BY <2>3, <2>6, RefinesNext
<1> QED
    BY <1>2, <1>4, <1>5

\* A call or a create opens a frame; gs are the frames with the caller's changes.
LEMMA OpensView ==
    ASSUME SepInv, frames # << >>, NEW i, Reached(i), Spared(i.memory),
           NEW gs, Updated(gs, i.gas), Len(gs[Len(frames)].return_data_buffer) < MaxUsize,
           NEW f \in FrameType, f.return_data_buffer = << >>, f.out.len = 0,
           memory' = NewContext(i.memory), frames' = Append(gs, f)
    PROVE  /\ Mapped' = Append(Stack!WithTop(TopView(i.memory, gs[Len(frames)])),
                               Stack!NewMemoryOf(f.kind, f.input))
           /\ Len(Mapped') > Len(Mapped)
           /\ SepKept
<1> DEFINE L == Len(frames)
           m == i.memory
<1>1. /\ MemoryInv /\ Layout(memory, frames) /\ Orderly(memory) /\ Short(frames)
      /\ L \in Nat \ {0}
    BY InstructionReached DEF SepInv, MemoryInv
<1>2. Rewritten(m, m) /\ m.checkpoints = memory.checkpoints
    BY DEF Rewritten, Reached, Stretched
<1>3. Layout(m, gs)
    BY <1>1, <1>2, TopLayout
<1>4. Len(gs) = L /\ (\A n \in 1 .. L - 1 : gs[n] = frames[n]) /\ gs # << >>
  <2>1. Len(gs) = L /\ \A n \in 1 .. L - 1 : gs[n] = frames[n]
    BY DEF Updated
  <2> QED
    BY <1>1, <2>1
<1>5. Below(m, gs) = Below(memory, frames) /\ Orderly(m) /\ Short(gs)
    BY <1>1, <1>2, <1>3, <1>4, ViewsStay DEF Spared
<1> HIDE DEF m
<1>6. Views(m, gs) = Append(Below(m, gs), TopView(m, gs[L])) /\ Len(Views(m, gs)) = L
    BY <1>3, <1>4, ViewsTop
<1>7. /\ Views(NewContext(m), Append(gs, f))
           = Append(Views(m, gs), Stack!NewMemoryOf(f.kind, f.input))
      /\ Orderly(NewContext(m)) /\ Short(Append(gs, f))
    BY <1>3, <1>5, ViewsOpen
<1>8. Mapped' = Views(memory', frames') /\ memory' = NewContext(m)
    BY ViewsAreMapped DEF Mapped, m
<1>9. Mapped' = Append(Views(m, gs), Stack!NewMemoryOf(f.kind, f.input)) /\ SepKept
    BY <1>7, <1>8 DEF SepKept
<1>10. /\ Views(m, gs) = Stack!WithTop(TopView(m, gs[L])) /\ Len(Mapped) = L
    BY <1>5, <1>6, StackTop
<1>11. Len(Mapped') = L + 1
  <2>1. Views(m, gs) = Append(Below(m, gs), TopView(m, gs[L]))
    BY <1>6
  <2>2. Views(m, gs) \in Seq({ViewOf(m, gs, n) : n \in 1 .. L})
    <3>1. DOMAIN gs = 1 .. L
      BY <1>3, <1>4 DEF Layout
    <3>2. Views(m, gs) = [n \in 1 .. L |-> ViewOf(m, gs, n)]
      BY <3>1 DEF Views
    <3> QED
      BY <1>1, <3>2
  <2> DEFINE s == Views(m, gs)
             x == Stack!NewMemoryOf(f.kind, f.input)
  <2>3. Len(s) = L /\ s \in Seq({ViewOf(m, gs, n) : n \in 1 .. L})
    BY <1>6, <2>2
  <2>4. Mapped' = Append(s, x)
    BY <1>9
  <2> HIDE DEF s, x
  <2> QED
    BY <1>1, <2>3, <2>4
<1> QED
    BY <1>1, <1>9, <1>10, <1>11 DEF m

\* What a frame sees of its memory when only its gas, or its gas and the place
\* for an output, changed.
LEMMA CallerView ==
    ASSUME SepInv, frames # << >>, NEW m, NEW gas \in Int
    PROVE  LET g == [frames EXCEPT ![Len(frames)].gas = gas][Len(frames)]
           IN  /\ TopView(m, g) = TopView(m, Interpreter)
               /\ Len(g.return_data_buffer) < MaxUsize
<1> DEFINE L == Len(frames)
           g == [frames EXCEPT ![Len(frames)].gas = gas][Len(frames)]
<1>1. /\ Short(frames) /\ L \in Nat \ {0} /\ Interpreter = frames[L] /\ frames[L] \in FrameType
      /\ frames \in Seq(FrameType)
    BY InstructionReached DEF SepInv, Interpreter, Last, MemoryInv, Layout
<1>2. g = [frames[L] EXCEPT !.gas = gas]
    BY <1>1
<1>3. /\ g.kind = Interpreter.kind /\ g.input = Interpreter.input /\ g.out = Interpreter.out
      /\ g.return_data_buffer = Interpreter.return_data_buffer
    BY <1>1, <1>2 DEF FrameType
<1> HIDE DEF g
<1>4. TopView(m, g) = TopView(m, Interpreter)
    BY <1>3, ViewOfFrame DEF TopView
<1>5. Len(g.return_data_buffer) < MaxUsize
    BY <1>1, <1>3 DEF Short
<1> QED
    BY <1>4, <1>5 DEF g

\* The running frame, and the frames, with the place for the output of a call.
CallingFrame(gas, out) == [Interpreter EXCEPT !.gas = gas, !.out = out]
CallingFrames(gas, out) ==
    [frames EXCEPT ![Len(frames)].gas = gas, ![Len(frames)].out = out]

LEMMA CallerOutView ==
    ASSUME SepInv, frames # << >>, NEW m, NEW gas \in Int, NEW out
    PROVE  /\ CallingFrames(gas, out)[Len(frames)] = CallingFrame(gas, out)
           /\ TopView(m, CallingFrame(gas, out)) = WithOut(TopView(m, Interpreter), Target(out))
           /\ Len(CallingFrame(gas, out).return_data_buffer) < MaxUsize
<1> DEFINE L == Len(frames)
           c == CallingFrame(gas, out)
<1>1. /\ Short(frames) /\ L \in Nat \ {0} /\ Interpreter = frames[L] /\ frames[L] \in FrameType
      /\ frames \in Seq(FrameType)
    BY InstructionReached DEF SepInv, Interpreter, Last, MemoryInv, Layout
<1>2. CallingFrames(gas, out) = [frames EXCEPT ![L] = c]
    BY <1>1 DEF CallingFrames, CallingFrame
<1>3. /\ c.kind = Interpreter.kind /\ c.input = Interpreter.input /\ c.out = out
      /\ c.return_data_buffer = Interpreter.return_data_buffer
    BY <1>1 DEF FrameType, CallingFrame
<1>4. TopView(m, c) = WithOut(TopView(m, Interpreter), Target(out))
    BY <1>3, OutView
<1>5. Len(c.return_data_buffer) < MaxUsize
    BY <1>1, <1>3 DEF Short
<1> QED
    BY <1>1, <1>2, <1>4, <1>5

\* CREATE and CREATE2.
LEMMA CreateView ==
    ASSUME SepInv, MemoryInv', NEW r \in Ranges, NEW gas \in Nat, Create(r[1], r[2], gas)
    PROVE  Refines
<1> DEFINE offset == r[1]
           len == r[2]
           i == Access(Instruction, offset, len)
           gs == [frames EXCEPT ![Len(frames)].gas = i.gas]
           f == Frame("create", << >>, gas)
           v == TopView(memory, Interpreter)
<1>1. frames # << >> /\ offset \in Nat /\ len \in Nat
    BY OperandsAssumption DEF Create, Steps
<1>2. \/ Fails(i)
      \/ /\ i.ok /\ memory' = NewContext(i.memory) /\ frames' = Append(gs, f)
         /\ read' = Bytes(i, offset, len)
    BY DEF Create
<1> HIDE DEF offset, len
<1>3. Reached(i) /\ Spared(i.memory) /\ i.memory \in Mem /\ Accessed(memory, i, offset, len)
    BY <1>1, InstructionView
<1> HIDE DEF i
<1>4. CASE Fails(i)
    BY <1>1, <1>3, <1>4, FailsView DEF Fails
<1>5. CASE /\ i.ok /\ memory' = NewContext(i.memory) /\ frames' = Append(gs, f)
           /\ read' = Bytes(i, offset, len)
  <2>1. f \in FrameType /\ f.return_data_buffer = << >> /\ f.out.len = 0 /\ f.kind = "create"
        /\ f.input = << >>
    BY MemoryAssumption DEF Frame, FrameType
  <2>2. i.gas \in Int /\ MemoryInv
    BY <1>3 DEF Reached, SepInv
  <2>3. Updated(gs, i.gas)
    BY <1>1, <2>2, GasUpdated
  <2>4. /\ TopView(i.memory, gs[Len(frames)]) = TopView(i.memory, Interpreter)
        /\ Len(gs[Len(frames)].return_data_buffer) < MaxUsize
    BY <1>1, <2>2, CallerView
  <2> HIDE DEF gs, f
  <2>5. /\ Mapped' = Append(Stack!WithTop(TopView(i.memory, gs[Len(frames)])),
                            Stack!NewMemoryOf(f.kind, f.input))
        /\ Len(Mapped') > Len(Mapped) /\ SepKept
    BY <1>1, <1>3, <1>5, <2>1, <2>3, <2>4, OpensView
  <2>6. /\ TopView(i.memory, Interpreter) = Stack!Grown(v, At(offset, len), len)
        /\ read' = Stack!Taken(v, At(offset, len), len)
        /\ len # 0 => offset \in Reach /\ len \in Reach
    BY <1>3, <1>5 DEF Accessed
  <2>7. Stack!Top = v /\ Stack!Running
    BY <1>1, StackTop
  <2>8. Stack!Create(At(offset, len), len)
    <3>1. Mapped' = Append(Stack!WithTop(Stack!Grown(Stack!Top, At(offset, len), len)),
                           Stack!NewMemoryOf("create", << >>))
      BY <2>1, <2>4, <2>5, <2>6, <2>7
    <3> QED
      BY <2>6, <2>7, <3>1 DEF Stack!Create, Mapped
  <2>9. At(offset, len) \in Offsets /\ len \in Lens
    BY <1>1, <2>6, OperandsMapped DEF offset, len
  <2>10. Stack!Opens
    BY <2>8, <2>9 DEF Stack!Opens
  <2> QED
    BY <2>5, <2>10, RefinesNext
<1> QED
    BY <1>2, <1>4, <1>5

\* get_memory_input_and_out_ranges: both ranges are in memory, which grew first
\* for the input and then for the output.
Ranged(r, f, at, len) ==
    /\ TopView(r.i.memory, f) = Stack!Grown(Stack!Grown(TopView(memory, f), at, len),
                                            Target(r.out).offset, Target(r.out).len)
    /\ r.input = Stack!Taken(TopView(memory, f), at, len)
    /\ at \in Offsets /\ len \in Lens /\ Target(r.out) \in Stack!Output

LEMMA CallRangesView ==
    ASSUME SepInv, frames # << >>, NEW c \in CallOperands
    PROVE  LET r == CallRanges(c[1], c[2], c[3], c[4])
           IN  /\ Reached(r.i) /\ Spared(r.i.memory) /\ r.i.gas \in Int /\ r.i.memory \in Mem
               /\ MemoryLen(r.i.memory) \in Nat
               /\ r.input \in Seq(Nat) /\ r.out \in [offset : Nat, len : Nat]
               /\ r.i.ok /\ r.out.len # 0 => r.out.offset + r.out.len <= MemoryLen(r.i.memory)
               /\ r.i.ok => \A f : Ranged(r, f, At(c[1], c[2]), c[2])
<1> DEFINE offset == c[1]
           len == c[2]
           out_offset == c[3]
           out_len == c[4]
           in == Access(Instruction, offset, len)
           j == Access(in, out_offset, out_len)
           i == IF in.ok THEN j ELSE in
           out == [offset |-> IF out_len = 0 THEN MaxUsize ELSE out_offset, len |-> out_len]
           input == IF in.ok THEN Bytes(in, offset, len) ELSE << >>
           r == CallRanges(offset, len, out_offset, out_len)
<1>1. /\ offset \in Nat /\ len \in Nat /\ out_offset \in Nat /\ out_len \in Nat /\ MemoryInv
    BY OperandsAssumption DEF SepInv
<1>2. r = [i |-> i, input |-> input, out |-> out]
    BY DEF CallRanges
<1>3. /\ Reached(r.i) /\ r.i.memory \in Mem /\ r.i.gas \in Int
      /\ r.input \in Seq(Nat) /\ r.out \in [offset : Nat, len : Nat]
      /\ r.i.ok /\ r.out.len # 0 => r.out.offset + r.out.len <= MemoryLen(r.i.memory)
    BY <1>1, CallRangesReached
<1> HIDE DEF offset, len, out_offset, out_len
<1>4. Reached(in) /\ Spared(in.memory) /\ Accessed(memory, in, offset, len)
    BY <1>1, InstructionView
<1> HIDE DEF in
<1>5. Reached(j) /\ Spared(j.memory) /\ Accessed(in.memory, j, out_offset, out_len)
    BY <1>1, <1>4, AccessView
<1> HIDE DEF j
<1>6. Spared(i.memory)
    BY <1>4, <1>5
<1>7. r.i = i /\ r.input = input /\ r.out = out
  <2> HIDE DEF i, input, out
  <2> QED
    BY <1>2
<1>8. MemoryLen(r.i.memory) \in Nat
    BY <1>1, <1>3, ReachedSize
<1>9. ASSUME r.i.ok, NEW f
      PROVE  Ranged(r, f, At(offset, len), len)
  <2>1. in.ok /\ j.ok /\ r.i = j
    BY <1>7, <1>9
  <2>2. Target(out).offset = At(out_offset, out_len) /\ Target(out).len = out_len
        /\ Target(out) = [offset |-> At(out_offset, out_len), len |-> out_len]
    BY DEF Target, At
  <2>3. input = Bytes(in, offset, len)
    BY <2>1
  <2>4. /\ TopView(in.memory, f) = Stack!Grown(TopView(memory, f), At(offset, len), len)
        /\ input = Stack!Taken(TopView(memory, f), At(offset, len), len)
        /\ len # 0 => offset \in Reach /\ len \in Reach
    BY <1>4, <2>1, <2>3 DEF Accessed
  <2>5. /\ TopView(j.memory, f) = Stack!Grown(TopView(in.memory, f), At(out_offset, out_len), out_len)
        /\ out_len # 0 => out_offset \in Reach /\ out_len \in Reach
    BY <1>5, <2>1 DEF Accessed
  <2>6. At(offset, len) \in Offsets /\ len \in Lens
    BY <1>1, <2>4, OperandsMapped DEF offset, len
  <2>7. At(out_offset, out_len) \in Offsets /\ out_len \in Lens
    BY <1>1, <2>5, OperandsMapped DEF out_offset, out_len
  <2>8. Target(out) \in Stack!Output
    BY <2>2, <2>7 DEF Stack!Output
  <2> HIDE DEF out, input, i, r
  <2> QED
    BY <1>7, <2>1, <2>2, <2>4, <2>5, <2>6, <2>8 DEF Ranged
<1> HIDE DEF i, r
<1>10. Spared(r.i.memory)
    BY <1>6, <1>7
<1> QED
    BY <1>3, <1>8, <1>9, <1>10 DEF r, offset, len, out_offset, out_len

\* A call into a contract opens a frame with the input it read.
LEMMA CallOpensView ==
    ASSUME SepInv, frames # << >>, NEW i, Reached(i), Spared(i.memory),
           NEW out \in [offset : Nat, len : Nat], NEW input \in Seq(Nat), NEW gas \in Nat,
           memory' = NewContext(i.memory), read' = input,
           frames' = Append(CallingFrames(i.gas, out), Frame("call", input, gas)),
           NEW at, NEW len,
           Ranged([i |-> i, input |-> input, out |-> out], Interpreter, at, len)
    PROVE  Refines
<1> DEFINE gs == CallingFrames(i.gas, out)
           f == Frame("call", input, gas)
           r == [i |-> i, input |-> input, out |-> out]
           v == TopView(memory, Interpreter)
           t == Target(out)
           w == Stack!Grown(Stack!Grown(v, at, len), t.offset, t.len)
           g == gs[Len(frames)]
<1>1. i.gas \in Int /\ MemoryInv
    BY DEF Reached, SepInv
<1>2. f \in FrameType /\ f.return_data_buffer = << >> /\ f.out.len = 0 /\ f.kind = "call" /\ f.input = input
    BY MemoryAssumption DEF Frame, FrameType
<1>3. Updated(gs, i.gas)
  <2>1. << >> \in Seq(Nat)
    OBVIOUS
  <2> QED
    BY <1>1, <2>1, OutUpdated DEF CallingFrames
<1>4. /\ TopView(i.memory, g) = WithOut(TopView(i.memory, Interpreter), t)
      /\ Len(g.return_data_buffer) < MaxUsize
  <2>1. /\ gs[Len(frames)] = CallingFrame(i.gas, out)
        /\ Len(CallingFrame(i.gas, out).return_data_buffer) < MaxUsize
        /\ TopView(i.memory, CallingFrame(i.gas, out)) = WithOut(TopView(i.memory, Interpreter), t)
    BY <1>1, CallerOutView
  <2> QED
    BY <2>1
<1>5. /\ TopView(i.memory, Interpreter) = w
      /\ input = Stack!Taken(v, at, len)
      /\ at \in Offsets /\ len \in Lens /\ t \in Stack!Output
  <2>1. r.i = i /\ r.input = input /\ r.out = out
    OBVIOUS
  <2> HIDE DEF r
  <2>2. Ranged(r, Interpreter, at, len)
    BY DEF r
  <2> QED
    BY <2>1, <2>2 DEF Ranged
<1> HIDE DEF gs, f, t
<1>6. /\ Mapped' = Append(Stack!WithTop(TopView(i.memory, g)), Stack!NewMemoryOf(f.kind, f.input))
      /\ Len(Mapped') > Len(Mapped) /\ SepKept
  <2>1. frames' = Append(gs, f)
    BY DEF gs, f
  <2> QED
    BY <1>2, <1>3, <1>4, <2>1, OpensView
<1> HIDE DEF g
<1>7. Stack!Top = v /\ Stack!Running
    BY StackTop
<1>8. Stack!Call(at, len, t)
  <2>1. Mapped' = Append(Stack!WithTop(WithOut(w, t)), Stack!NewMemoryOf("call", read'))
    <3> HIDE DEF v, w
    <3> QED
      BY <1>2, <1>4, <1>5, <1>6
  <2> HIDE DEF v
  <2>2. w = Stack!Grown(Stack!Grown(Stack!Top, at, len), t.offset, t.len)
        /\ read' = Stack!Taken(Stack!Top, at, len)
    BY <1>5, <1>7
  <2> HIDE DEF w
  <2> QED
    BY <1>7, <2>1, <2>2 DEF Stack!Call, Mapped, WithOut
<1>9. Stack!Opens
    BY <1>5, <1>8 DEF Stack!Opens
<1> QED
    BY <1>6, <1>9, RefinesNext

\* CALL and its variants.
LEMMA CallView ==
    ASSUME SepInv, MemoryInv', NEW c \in CallOperands, NEW gas \in Nat,
           Call(c[1], c[2], c[3], c[4], gas)
    PROVE  Refines
<1> DEFINE r == CallRanges(c[1], c[2], c[3], c[4])
           i == r.i
           input == r.input
           out == r.out
<1>1. frames # << >>
    BY DEF Call, Steps
<1>2. \/ Fails(i)
      \/ /\ i.ok /\ memory' = NewContext(i.memory) /\ read' = input
         /\ frames' = Append(CallingFrames(i.gas, out), Frame("call", input, gas))
    BY DEF Call, CallingFrames
<1>3. /\ Reached(i) /\ Spared(i.memory)
      /\ input \in Seq(Nat) /\ out \in [offset : Nat, len : Nat]
      /\ i.ok => \A f : Ranged(r, f, At(c[1], c[2]), c[2])
    BY <1>1, CallRangesView
<1>4. r = [i |-> i, input |-> input, out |-> out]
    BY DEF CallRanges
<1> HIDE DEF r, i, input, out
<1>5. CASE Fails(i)
    BY <1>1, <1>3, <1>5, FailsView DEF Fails
<1>6. CASE /\ i.ok /\ memory' = NewContext(i.memory) /\ read' = input
           /\ frames' = Append(CallingFrames(i.gas, out), Frame("call", input, gas))
  <2>1. Ranged([i |-> i, input |-> input, out |-> out], Interpreter, At(c[1], c[2]), c[2])
    BY <1>3, <1>4, <1>6
  <2> QED
    BY <1>1, <1>3, <1>6, <2>1, CallOpensView
<1> QED
    BY <1>2, <1>5, <1>6

\* EXTCALL and its kin: a call whose output goes nowhere.
LEMMA ExtCallView ==
    ASSUME SepInv, MemoryInv', NEW c \in CallOperands, NEW gas \in Nat,
           ExtCall(c[1], c[2], gas)
    PROVE  Refines
<1> DEFINE offset == c[1]
           len == c[2]
           i == Access(Instruction, offset, len)
           input == Bytes(i, offset, len)
           out == [offset |-> 0, len |-> 0]
<1>1. frames # << >> /\ offset \in Nat /\ len \in Nat
    BY OperandsAssumption DEF ExtCall, Steps
<1>2. \/ Fails(i)
      \/ UNCHANGED <<memory, frames, read>>
      \/ /\ i.ok /\ memory' = NewContext(i.memory) /\ read' = input
         /\ frames' = Append(CallingFrames(i.gas, out), Frame("call", input, gas))
    BY DEF ExtCall, CallingFrames
<1> HIDE DEF offset, len
<1>3. Reached(i) /\ Spared(i.memory) /\ i.memory \in Mem /\ Accessed(memory, i, offset, len)
    BY <1>1, InstructionView
<1> HIDE DEF i, input
<1>4. CASE Fails(i)
    BY <1>1, <1>3, <1>4, FailsView DEF Fails
<1>5. CASE UNCHANGED <<memory, frames, read>>
  <2>1. Mapped' = Mapped
    BY <1>5, ViewsAreMapped DEF Mapped
  <2> QED
    BY <1>5, <2>1 DEF Refines, SepKept, SepInv
<1>6. CASE /\ i.ok /\ memory' = NewContext(i.memory) /\ read' = input
           /\ frames' = Append(CallingFrames(i.gas, out), Frame("call", input, gas))
  <2> DEFINE r == [i |-> i, input |-> input, out |-> out]
             v == TopView(memory, Interpreter)
  <2>1. /\ TopView(i.memory, Interpreter) = Stack!Grown(v, At(offset, len), len)
        /\ input = Stack!Taken(v, At(offset, len), len)
        /\ input \in Seq(Nat)
        /\ len # 0 => offset \in Reach /\ len \in Reach
    BY <1>3, <1>6 DEF Accessed, input
  <2>2. At(offset, len) \in Offsets /\ len \in Lens /\ 0 \in Offsets /\ 0 \in Lens
    BY <1>1, <2>1, OperandsMapped DEF offset, len
  <2>3. out \in [offset : Nat, len : Nat] /\ Target(out) = out /\ out.offset = 0 /\ out.len = 0
        /\ out \in Stack!Output
    BY <2>2 DEF Target, Stack!Output
  <2>4. r.i = i /\ r.input = input /\ r.out = out
    OBVIOUS
  <2>5. \A mem : Stack!Grown(mem, 0, 0) = mem
    BY DEF Stack!Grown
  <2> HIDE DEF out, r, v
  <2>6. Ranged(r, Interpreter, At(offset, len), len)
    BY <2>1, <2>2, <2>3, <2>4, <2>5 DEF Ranged, v
  <2>7. Ranged([i |-> i, input |-> input, out |-> out], Interpreter, At(offset, len), len)
    BY <2>6 DEF r
  <2> QED
    BY <1>1, <1>3, <1>6, <2>1, <2>3, <2>7, CallOpensView
<1> QED
    BY <1>2, <1>4, <1>5, <1>6

\* A call answered at once: by a precompile, or refused.
LEMMA CallAnsweredView ==
    ASSUME SepInv, MemoryInv', NEW c \in CallOperands, NEW result, NEW output \in Outputs \cup {<< >>},
           result = "halt" => output = << >>,
           CallAnswered(c[1], c[2], c[3], c[4], result, output)
    PROVE  Refines
<1> DEFINE r == CallRanges(c[1], c[2], c[3], c[4])
           i == r.i
           out == r.out
           caller == CallingFrame(i.gas, out)
           o == InsertOutcome(i.memory, caller, "call", result, output)
           L == Len(frames)
           at == At(c[1], c[2])
           len == c[2]
           v == TopView(memory, Interpreter)
           t == Target(out)
           w == Stack!Grown(Stack!Grown(v, at, len), t.offset, t.len)
<1>1. frames # << >>
    BY DEF CallAnswered, Steps
<1>2. \/ Fails(i)
      \/ /\ i.ok /\ memory' = o.memory /\ frames' = Append(Front(frames), o.caller)
         /\ read' = r.input
    BY DEF CallAnswered, CallingFrame
<1>3. /\ Reached(i) /\ Spared(i.memory) /\ i.gas \in Int /\ i.memory \in Mem
      /\ MemoryLen(i.memory) \in Nat /\ out \in [offset : Nat, len : Nat]
      /\ i.ok /\ out.len # 0 => out.offset + out.len <= MemoryLen(i.memory)
      /\ i.ok => \A f : Ranged(r, f, at, len)
    BY <1>1, CallRangesView
<1> HIDE DEF r
<1>4. CASE Fails(i)
  <2> HIDE DEF i
  <2> QED
    BY <1>1, <1>3, <1>4, FailsView DEF Fails
<1>5. CASE /\ i.ok /\ memory' = o.memory /\ frames' = Append(Front(frames), o.caller)
           /\ read' = r.input
  <2>1. /\ TopView(i.memory, Interpreter) = w /\ read' = Stack!Taken(v, at, len)
        /\ at \in Offsets /\ len \in Lens /\ t \in Stack!Output
    BY <1>3, <1>5 DEF Ranged
  <2> HIDE DEF i, out, at, len
  <2>2. /\ TopView(i.memory, caller) = WithOut(TopView(i.memory, Interpreter), t)
    BY <1>1, <1>3, CallerOutView
  <2>3. caller \in FrameType /\ caller.out = out
    BY <1>1, <1>3, InstructionReached DEF CallingFrame, FrameType, SepInv
  <2>4. /\ output \in Seq(Nat) /\ Len(output) < MaxUsize /\ << >> \in Seq(Nat) /\ Len(<< >>) < MaxUsize
    <3>1. << >> \in Seq(Nat) /\ Len(<< >>) < MaxUsize
      BY MemoryAssumption, LimitAssumption
    <3>2. output \in Outputs => output \in Seq(Nat) /\ Len(output) < MaxUsize
      BY OperandsAssumption
    <3> QED
      BY <3>1, <3>2
  <2> HIDE DEF caller
  <2>5. /\ TopView(o.memory, o.caller) = Stack!Receive(TopView(i.memory, caller), output)
        /\ \A x \in 1 .. i.memory.last_checkpoint : o.memory.buffer[x] = i.memory.buffer[x]
        /\ o.caller.return_data_buffer \in {output, << >>}
    BY <1>3, <1>5, <2>3, <2>4, OutcomeView
  <2> HIDE DEF o
  <2>6. Len(o.caller.return_data_buffer) < MaxUsize
    BY <2>4, <2>5
  <2>7. /\ memory'.checkpoints = memory.checkpoints
        /\ \A x \in 1 .. memory.last_checkpoint : memory'.buffer[x] = memory.buffer[x]
    <3>1. i.memory.checkpoints = memory.checkpoints
          /\ i.memory.last_checkpoint = memory.last_checkpoint
      BY <1>3 DEF Reached, Stretched
    <3>2. Rewritten(i.memory, o.memory)
      <4>1. caller.out.len # 0 => caller.out.offset + caller.out.len <= MemoryLen(i.memory)
        BY <1>3, <1>5, <2>3
      <4> QED
        BY <1>3, <2>3, <2>4, <4>1, InsertOutcomeLayout, Zenon DEF o
    <3> QED
      BY <1>3, <1>5, <2>5, <3>1, <3>2 DEF Spared, Rewritten
  <2>8. Len(frames') = L /\ frames'[L] = o.caller /\ \A n \in 1 .. L - 1 : frames'[n] = frames[n]
    <3>1. L \in Nat \ {0} /\ frames \in Seq(FrameType)
      BY <1>1, InstructionReached DEF SepInv, MemoryInv, Layout
    <3>2. /\ Front(frames) \in Seq(FrameType) /\ Len(Front(frames)) = L - 1
          /\ \A n \in 1 .. L - 1 : Front(frames)[n] = frames[n]
      BY <1>1, <3>1, Popped
    <3> DEFINE p == Front(frames)
               x == o.caller
    <3>3. frames' = Append(p, x)
      BY <1>5
    <3> HIDE DEF p, x
    <3>4. Len(frames') = L /\ frames'[L] = x /\ \A n \in 1 .. L - 1 : frames'[n] = p[n]
      BY <3>1, <3>2, <3>3 DEF p
    <3> QED
      BY <3>2, <3>4 DEF p, x
  <2>9. /\ Mapped' = Stack!WithTop(TopView(memory', frames'[Len(frames)]))
        /\ Len(Mapped') = Len(Mapped) /\ SepKept
    BY <1>1, <2>6, <2>7, <2>8, StackStays
  <2>10. Mapped' = Stack!WithTop(Stack!Receive(WithOut(w, t), output))
    <3> HIDE DEF w, t
    <3> QED
      BY <1>5, <2>1, <2>2, <2>5, <2>8, <2>9
  <2>11. Stack!Top = v /\ Stack!Running
    BY <1>1, StackTop
  <2>12. Stack!CallInline(at, len, t, output)
    <3> HIDE DEF v, t
    <3>1. w = Stack!Grown(Stack!Grown(Stack!Top, at, len), t.offset, t.len)
          /\ read' = Stack!Taken(Stack!Top, at, len)
      BY <2>1, <2>11
    <3> HIDE DEF w
    <3> QED
      BY <2>10, <2>11, <3>1 DEF Stack!CallInline, Mapped, WithOut
  <2>13. Stack!Stays
    BY <2>1, <2>12 DEF Stack!Stays
  <2> QED
    BY <2>9, <2>13, RefinesNext
<1> QED
    BY <1>2, <1>4, <1>5

\* run_the_loop begins.
LEMMA RunTheLoopView ==
    ASSUME SepInv, NEW gas \in Nat, RunTheLoop(gas)
    PROVE  Refines
<1> DEFINE f == Frame("call", TxInput, gas)
           s == << >>
<1>1. Layout(NewMemory, s) /\ Orderly(NewMemory) /\ Short(s)
    BY MemoryAssumption DEF Layout, NewMemory, Mem, Orderly, Short
<1>2. f \in FrameType /\ f.return_data_buffer = << >> /\ f.out.len = 0 /\ f.kind = "call" /\ f.input = TxInput
    BY MemoryAssumption, OperandsAssumption DEF Frame, FrameType
<1>3. memory' = NewContext(NewMemory) /\ frames' = <<f>> /\ read' = << >> /\ frames = << >>
    BY DEF RunTheLoop
<1>4. Append(s, f) = <<f>> /\ Views(NewMemory, s) = << >>
    BY DEF Views
<1> HIDE DEF f, s
<1>5. /\ Views(NewContext(NewMemory), Append(s, f))
           = Append(Views(NewMemory, s), Stack!NewMemoryOf(f.kind, f.input))
      /\ Orderly(NewContext(NewMemory)) /\ Short(Append(s, f))
    BY <1>1, <1>2, ViewsOpen
<1>6. SepKept
    BY <1>3, <1>4, <1>5 DEF SepKept
<1>7. Mapped' = Views(memory', frames') /\ Mapped = << >>
  <2>1. Mapped' = Views(memory', frames') /\ Mapped = Views(memory, frames)
    BY ViewsAreMapped DEF Mapped
  <2>2. Views(memory, << >>) = << >>
    BY DEF Views
  <2> QED
    BY <1>3, <2>1, <2>2
<1>8. Mapped' = << Stack!NewMemoryOf("call", TxInput) >>
  <2> DEFINE x == Stack!NewMemoryOf("call", TxInput)
  <2>1. Mapped' = Append(<< >>, x)
    BY <1>2, <1>3, <1>4, <1>5, <1>7
  <2> HIDE DEF x
  <2>2. Append(<< >>, x) = << x >>
    OBVIOUS
  <2> QED
    BY <2>1, <2>2 DEF x
<1>9. Stack!Start
    BY <1>3, <1>7, <1>8 DEF Stack!Start, Stack!Running, Mapped
<1> QED
    BY <1>6, <1>9 DEF Refines, Stack!Next

\* Every instruction is a step of a memory per frame.
LEMMA SepNext ==
    ASSUME SepInv, [Next]_vars
    PROVE  SepInv' /\ (Stack!Next \/ UNCHANGED <<Mapped, read>>)
<1> USE OperandsAssumption
<1>0. MemoryInv'
    BY MemoryNext DEF SepInv
<1>1. ASSUME NEW gas \in GasLimits, RunTheLoop(gas) PROVE Refines
    BY <1>1, RunTheLoopView
<1>2. ASSUME Halt PROVE Refines
  <2>1. frames # << >> /\ Ends(memory, "halt", << >>)
    BY <1>2 DEF Halt, Steps
  <2> QED
    BY <1>0, <2>1, InstructionSpared, FailsView
<1>3. ASSUME Msize PROVE Refines
    BY <1>0, <1>3, MsizeView
<1>4. ASSUME NEW r \in Ranges, Reads(r[1], r[2]) PROVE Refines
    BY <1>0, <1>4, ReadsView
<1>5. ASSUME NEW r \in Ranges, NEW value \in Words, Stores(r[1], value) PROVE Refines
    BY <1>0, <1>5, StoresView
<1>6. ASSUME NEW r \in Ranges, NEW result \in {"return", "revert"}, Returns(result, r[1], r[2])
      PROVE  Refines
    BY <1>0, <1>6, ReturnsView
<1>7. ASSUME NEW r \in Ranges, NEW gas \in GasLimits, Create(r[1], r[2], gas) PROVE Refines
    BY <1>0, <1>7, CreateView
<1>8. ASSUME NEW c \in Copies, Mcopy(c[1], c[2], c[3]) PROVE Refines
    BY <1>0, <1>8, McopyView
<1>9. ASSUME NEW c \in Copies, DataCopy(c[1], c[2], c[3]) PROVE Refines
    BY <1>0, <1>9, DataCopyView
<1>10. ASSUME NEW c \in Copies, ReturnDataCopy(c[1], c[2], c[3]) PROVE Refines
    BY <1>0, <1>10, ReturnDataCopyView
<1>11. ASSUME NEW c \in CallOperands, NEW gas \in GasLimits,
              Call(c[1], c[2], c[3], c[4], gas) \/ ExtCall(c[1], c[2], gas)
       PROVE  Refines
    BY <1>0, <1>11, CallView, ExtCallView
<1>12. ASSUME NEW c \in CallOperands, CallAnswered(c[1], c[2], c[3], c[4], "halt", << >>)
       PROVE  Refines
  <2>1. << >> \in Outputs \cup {<< >>}
    OBVIOUS
  <2> QED
    BY <1>0, <1>12, <2>1, CallAnsweredView
<1>13. ASSUME NEW c \in CallOperands, NEW output \in Outputs,
              CallAnswered(c[1], c[2], c[3], c[4], "return", output)
       PROVE  Refines
  <2>1. output \in Outputs \cup {<< >>} /\ "return" # "halt"
    OBVIOUS
  <2> QED
    BY <1>0, <1>13, <2>1, CallAnsweredView
<1>14. CASE UNCHANGED vars
  <2>1. UNCHANGED <<memory, frames, read>>
    BY <1>14 DEF vars
  <2>2. Mapped' = Mapped
    BY <2>1, ViewsAreMapped DEF Mapped
  <2> QED
    BY <1>0, <2>1, <2>2 DEF SepInv
<1>15. Next => Refines
    BY <1>1, <1>2, <1>3, <1>4, <1>5, <1>6, <1>7, <1>8, <1>9, <1>10, <1>11, <1>12, <1>13
    DEF Next
<1> QED
    BY <1>0, <1>14, <1>15 DEF Refines, SepKept, SepInv

\* SharedMemory with its checkpoints implements a memory per frame: whatever the
\* operands, the outputs and the nesting of frames, what a frame reads is what it
\* wrote or zeros, and a caller finds its memory as it was but for the output it
\* asked for.
THEOREM SeparateTheorem == Spec => MemoriesAreSeparate
<1>1. Init => SepInv /\ Stack!Init
  <2> SUFFICES ASSUME Init PROVE SepInv /\ Stack!Init
    OBVIOUS
  <2>1. Layout(NewMemory, << >>) /\ Orderly(NewMemory) /\ Short(<< >>)
    BY MemoryAssumption DEF Layout, NewMemory, Mem, Orderly, Short
  <2>2. SepInv
    BY <2>1 DEF Init, SepInv, MemoryInv, NeverOutOfBounds
  <2>3. [n \in DOMAIN frames |-> MemoryOf(n)] = << >>
    <3>1. Views(memory, << >>) = << >>
      BY DEF Views
    <3> QED
      BY <3>1, ViewsAreMapped DEF Init
  <2> QED
    BY <2>2, <2>3 DEF Init, Stack!Init
<1>2. SepInv /\ [Next]_vars => SepInv' /\ [Stack!Next]_<<[n \in DOMAIN frames |-> MemoryOf(n)], read>>
    BY SepNext DEF Mapped
<1> QED
    BY <1>1, <1>2, PTL DEF Spec, MemoriesAreSeparate, Stack!Spec
=============================================================================
