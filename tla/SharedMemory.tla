---------------------------- MODULE SharedMemory ----------------------------
(* The memory all the frames of a transaction share: one buffer, in which    *)
(* each frame's memory starts at the checkpoint taken when the frame opened. *)
(* A memory is a record [buffer, checkpoints, last_checkpoint]; the buffer's *)
(* bytes are counted from 1 here and from 0 in the code.                     *)
EXTENDS Integers, Sequences, SequencesExt

CONSTANTS WordBytes,      \* the bytes of a word: 32 in the code
          MemoryLimit,    \* CfgEnv::memory_limit
          MaxUsize,       \* usize::MAX
          WordGas,        \* MEMORY, the linear price of a word
          QuadDivisor     \* the divisor of the quadratic price: 512 in the code

ASSUME MemoryAssumption ==
    /\ WordBytes \in Nat \ {0} /\ QuadDivisor \in Nat \ {0}
    /\ MemoryLimit \in Nat /\ MaxUsize \in Nat /\ WordGas \in Nat

\* The limit, 2^32 - 1 unless it is configured, is not within a word of usize::MAX.
ASSUME LimitAssumption == MemoryLimit + WordBytes <= MaxUsize

SaturatingSum(a, b) == IF a > MaxUsize - b THEN MaxUsize ELSE a + b
NumWords(len) == SaturatingSum(len, WordBytes - 1) \div WordBytes

\* The gas of a memory of this many words, and of the words of so many bytes.
MemoryGas(words) == WordGas * words + (words * words) \div QuadDivisor
MemoryGasForLen(len) == MemoryGas(NumWords(len))

Zeros(n) == [i \in 1 .. n |-> 0]

\* SharedMemory::new_with_memory_limit
NewMemory == [buffer |-> << >>, checkpoints |-> << >>, last_checkpoint |-> 0]

LimitReached(m, new_size) == SaturatingSum(m.last_checkpoint, new_size) > MemoryLimit

NewContext(m) ==
    [m EXCEPT !.checkpoints = Append(@, Len(m.buffer)),
              !.last_checkpoint = Len(m.buffer)]

FreeContext(m) ==
    IF m.checkpoints = << >> THEN m
    ELSE LET rest == Front(m.checkpoints) IN
         [buffer |-> SubSeq(m.buffer, 1, Last(m.checkpoints)),
          checkpoints |-> rest,
          last_checkpoint |-> IF rest = << >> THEN 0 ELSE Last(rest)]

MemoryLen(m) == Len(m.buffer) - m.last_checkpoint

\* Vec::resize: cut, or extended with zeros.
Resize(m, new_size) ==
    LET n == m.last_checkpoint + new_size IN
    [m EXCEPT !.buffer = IF n <= Len(@) THEN SubSeq(@, 1, n) ELSE @ \o Zeros(n - Len(@))]

\* What context_memory().get(offset..offset + size) finds: outside it the code
\* is debug_unreachable!.
InBounds(m, offset, size) == offset + size <= MemoryLen(m)
Slice(m, offset, size) ==
    IF InBounds(m, offset, size)
    THEN SubSeq(m.buffer, m.last_checkpoint + offset + 1, m.last_checkpoint + offset + size)
    ELSE << >>

\* Mutant: the offset is counted from the start of the buffer.
SetBytesAnywhere(m, offset, value) ==
    [m EXCEPT !.buffer = [i \in DOMAIN @ |->
        IF i \in offset + 1 .. offset + Len(value) THEN value[i - offset] ELSE @[i]]]

SetBytes(m, offset, value) ==
    LET at == m.last_checkpoint + offset IN
    [m EXCEPT !.buffer = [i \in DOMAIN @ |->
        IF i \in at + 1 .. at + Len(value) THEN value[i - at] ELSE @[i]]]

\* The bytes of data from data_offset on, and zeros where there are none.
SetData(m, memory_offset, data_offset, len, data) ==
    IF data_offset >= Len(data) THEN SetBytes(m, memory_offset, Zeros(len))
    ELSE LET copied == SubSeq(data, data_offset + 1,
                              IF data_offset + len < Len(data) THEN data_offset + len ELSE Len(data))
         IN  SetBytes(SetBytes(m, memory_offset, copied),
                      memory_offset + Len(copied), Zeros(len - Len(copied)))

\* copy_within: as if through a temporary, so that the ranges may overlap.
CopyWithin(m, dst, src, len) == SetBytes(m, dst, Slice(m, src, len))
=============================================================================
