---------------------------- MODULE MemoryFrames ----------------------------
(* The instructions that use memory, run by the frames of Evm::run_the_loop   *)
(* on the one SharedMemory. The gas of a frame is the gas it may spend on     *)
(* memory; the other charges of an instruction, and whatever else can stop    *)
(* it, are the action Halt. A number above MaxUsize is a U256 that fits no    *)
(* usize.                                                                     *)
EXTENDS SharedMemory, FiniteSetsExt

CONSTANTS Ranges,       \* the operands of instructions: <<offset, length>>,
          Copies,       \* <<memory offset, other offset, length>>
          CallOperands, \* and <<input offset, its length, output offset, its length>>
          Words,        \* the words MSTORE writes
          Outputs,      \* what a precompile returns
          TxInput,      \* the input of the first frame
          GasLimits,    \* what a frame may spend on memory
          MaxFrames,    \* bound: frames open at once
          MaxSteps      \* bound: instructions in a transaction

ASSUME OperandsAssumption ==
    /\ Ranges \subseteq Nat \X Nat
    /\ Copies \subseteq Nat \X Nat \X Nat
    /\ CallOperands \subseteq Nat \X Nat \X Nat \X Nat
    /\ Words \subseteq Seq(Nat) /\ Outputs \subseteq Seq(Nat) /\ TxInput \in Seq(Nat)
    /\ GasLimits \subseteq Nat
    /\ \A output \in Outputs : Len(output) < MaxUsize      \* as any Vec

VARIABLES memory,       \* the SharedMemory
          frames,       \* call_stack: the interpreters, the running one last
          read,         \* the bytes the last instruction took from memory
          unreachable,  \* the debug_unreachable! that was reached, or ""
          steps

vars == <<memory, frames, read, unreachable, steps>>

Frame(kind, input, gas) ==
    [kind |-> kind, input |-> input, limit |-> gas, gas |-> gas,
     return_data_buffer |-> << >>, out |-> [offset |-> MaxUsize, len |-> 0]]
Interpreter == Last(frames)
Steps == frames # << >> /\ steps < MaxSteps /\ unreachable = "" /\ steps' = steps + 1

Init == /\ memory = NewMemory
        /\ frames = << >>
        /\ read = << >>
        /\ unreachable = ""
        /\ steps = 0

\* run_the_loop begins: a memory of its own and a context for the first frame.
RunTheLoop(gas) ==
    /\ frames = << >> /\ steps = 0
    /\ memory' = NewContext(NewMemory)
    /\ frames' = << Frame("call", TxInput, gas) >>
    /\ read' = << >>
    /\ steps' = 1
    /\ UNCHANGED unreachable
-----------------------------------------------------------------------------
FitsUsize(n) == n <= MaxUsize
Saturated(n) == IF FitsUsize(n) THEN n ELSE MaxUsize

\* The state of the running instruction: the memory and its frame's gas so far,
\* and whether it can go on.
Instruction == [memory |-> memory, gas |-> Interpreter.gas, ok |-> TRUE]

\* Mutant: every expansion pays for the whole memory again.
ResizeMemoryFromNothing(i, new_size) ==
    LET cost == MemoryGas(NumWords(new_size))
    IN  IF cost > i.gas THEN [i EXCEPT !.ok = FALSE]
        ELSE [i EXCEPT !.gas = @ - cost, !.memory = Resize(@, NumWords(new_size) * WordBytes)]

\* interpreter::resize_memory: what the new words cost more than the present
\* ones, and memory up to the end of the last of them.
ResizeMemory(i, new_size) ==
    LET cost == MemoryGas(NumWords(new_size)) - MemoryGasForLen(MemoryLen(i.memory))
    IN  IF cost > i.gas THEN [i EXCEPT !.ok = FALSE]
        ELSE [i EXCEPT !.gas = @ - cost, !.memory = Resize(@, NumWords(new_size) * WordBytes)]

\* resize_memory!: the limit first (MemoryLimitOOG), then the gas (MemoryOOG).
Expand(i, offset, len) ==
    LET new_size == SaturatingSum(offset, len)
    IN  IF ~i.ok \/ new_size <= MemoryLen(i.memory) THEN i
        ELSE IF LimitReached(i.memory, new_size) THEN [i EXCEPT !.ok = FALSE]
        ELSE ResizeMemory(i, new_size)

\* The operands of an access: a length that is not zero needs an offset that
\* fits, and memory up to its end; with length zero the offset is not looked at.
Access(i, offset, len) ==
    IF ~FitsUsize(len) THEN [i EXCEPT !.ok = FALSE]
    ELSE IF len = 0 THEN i
    ELSE IF ~FitsUsize(offset) THEN [i EXCEPT !.ok = FALSE]
    ELSE Expand(i, offset, len)

Bytes(i, offset, len) == IF len = 0 THEN << >> ELSE Slice(i.memory, offset, len)
\* An access is checked where the memory is sliced.
Outside(missed) == IF missed THEN "range" ELSE ""
Reachable(i, offset, len) == len = 0 \/ InBounds(i.memory, offset, len)
-----------------------------------------------------------------------------
(* How frames end and hand their output over.                                *)

\* insert_call_outcome writes as much of the output as the range takes, of a
\* call that returned or reverted; insert_create_outcome keeps the output of a
\* revert and writes nothing.
InsertOutcome(m, caller, kind, result, output) ==
    LET kept == IF kind = "create" /\ result # "revert" THEN << >> ELSE output
        target_len == Min({caller.out.len, Len(output)})
        writes == kind = "call" /\ result # "halt" /\ target_len # 0
    IN  [memory |-> IF writes THEN SetBytes(m, caller.out.offset, SubSeq(output, 1, target_len)) ELSE m,
         unreachable |-> Outside(writes /\ ~InBounds(m, caller.out.offset, target_len)),
         caller |-> [caller EXCEPT !.return_data_buffer = kept]]

\* InterpreterAction::Return: the context is freed, then the caller goes on.
Ends(m, result, output) ==
    LET freed == FreeContext(m)
        callers == Front(frames)
        outcome == InsertOutcome(freed, Last(callers), Interpreter.kind, result, output)
    IN  IF callers = << >>
        THEN /\ memory' = freed /\ frames' = << >> /\ read' = << >>
             /\ UNCHANGED unreachable
        ELSE /\ memory' = outcome.memory
             /\ frames' = Append(Front(callers), outcome.caller)
             /\ read' = << >>
             /\ unreachable' = outcome.unreachable

\* An instruction that went through: i is where it left the memory and the gas.
Continues(i, bytes) ==
    /\ memory' = i.memory
    /\ frames' = [frames EXCEPT ![Len(frames)].gas = i.gas]
    /\ read' = bytes

\* An instruction that fails ends its frame with what it had done so far.
Fails(i) == ~i.ok /\ Ends(i.memory, "halt", << >>)

\* Stack errors, the rest of the gas, a disabled opcode, INVALID and so on.
Halt == Steps /\ Ends(memory, "halt", << >>)
-----------------------------------------------------------------------------
(* The instructions.                                                         *)

\* MLOAD, KECCAK256, LOG: a range of memory is read.
Reads(offset, len) ==
    /\ Steps
    /\ LET i == Access(Instruction, offset, len) IN
       \/ Fails(i)
       \/ /\ i.ok
          /\ Continues(i, Bytes(i, offset, len))
          /\ unreachable' = Outside(~Reachable(i, offset, len))

\* MSTORE and MSTORE8.
Stores(offset, value) ==
    /\ Steps
    /\ LET i == Access(Instruction, offset, Len(value)) IN
       \/ Fails(i)
       \/ /\ i.ok
          /\ Continues([i EXCEPT !.memory = SetBytes(@, offset, value)], << >>)
          /\ unreachable' = Outside(~Reachable(i, offset, Len(value)))

Msize == /\ Steps
         /\ Continues(Instruction, << MemoryLen(memory) >>)
         /\ UNCHANGED unreachable

\* Mutant: memory is made to fit the destination only.
McopyRangeDst(i, dst, src, len) == Access(i, dst, len)

McopyRange(i, dst, src, len) ==
    IF len # 0 /\ ~(FitsUsize(dst) /\ FitsUsize(src)) THEN [i EXCEPT !.ok = FALSE]
    ELSE Access(i, Max({dst, src}), len)

Mcopy(dst, src, len) ==
    /\ Steps
    /\ LET i == McopyRange(Instruction, dst, src, len) IN
       \/ Fails(i)
       \/ /\ i.ok
          /\ Continues([i EXCEPT !.memory = IF len = 0 THEN @ ELSE CopyWithin(@, dst, src, len)], << >>)
          /\ unreachable' = Outside(len # 0 /\ ~(InBounds(i.memory, src, len) /\ InBounds(i.memory, dst, len)))

\* CALLDATACOPY; CODECOPY, EXTCODECOPY and DATACOPY are the same with other data.
DataCopy(offset, from, len) ==
    /\ Steps
    /\ LET i == Access(Instruction, offset, len) IN
       \/ Fails(i)
       \/ /\ i.ok
          /\ Continues([i EXCEPT !.memory =
                           IF len = 0 THEN @
                           ELSE SetData(@, offset, Saturated(from), len, Interpreter.input)], << >>)
          /\ unreachable' = Outside(~Reachable(i, offset, len))

\* RETURNDATACOPY reads past the end of the data never, not even zero bytes.
ReturnDataCopy(offset, from, len) ==
    /\ Steps
    /\ LET data_end == SaturatingSum(Saturated(from), len)
           i == IF ~FitsUsize(len) \/ data_end > Len(Interpreter.return_data_buffer)
                THEN [Instruction EXCEPT !.ok = FALSE]      \* OutOfOffset
                ELSE Access(Instruction, offset, len)
       IN
       \/ Fails(i)
       \/ /\ i.ok
          /\ Continues([i EXCEPT !.memory =
                           IF len = 0 THEN @
                           ELSE SetBytes(@, offset, SubSeq(Interpreter.return_data_buffer,
                                                           from + 1, data_end))], << >>)
          /\ unreachable' = Outside(~Reachable(i, offset, len))

\* RETURN and REVERT.
Returns(result, offset, len) ==
    /\ Steps
    /\ LET i == Access(Instruction, offset, len) IN
       \/ Fails(i)
       \/ /\ i.ok
          /\ Ends(i.memory, result, Bytes(i, offset, len))

\* get_memory_input_and_out_ranges: the input is taken before memory grows for
\* the output.
CallRanges(offset, len, out_offset, out_len) ==
    LET in == Access(Instruction, offset, len)
        i == IF in.ok THEN Access(in, out_offset, out_len) ELSE in
    IN  [i |-> i, input |-> IF in.ok THEN Bytes(in, offset, len) ELSE << >>,
         out |-> [offset |-> IF out_len = 0 THEN MaxUsize ELSE out_offset, len |-> out_len]]

\* CALL and its variants into a contract.
Call(offset, len, out_offset, out_len, gas) ==
    /\ Steps /\ Len(frames) < MaxFrames
    /\ LET r == CallRanges(offset, len, out_offset, out_len) IN
       \/ Fails(r.i)
       \/ /\ r.i.ok
          /\ memory' = NewContext(r.i.memory)
          /\ frames' = Append([frames EXCEPT ![Len(frames)].gas = r.i.gas, ![Len(frames)].out = r.out],
                              Frame("call", r.input, gas))
          /\ read' = r.input
          /\ UNCHANGED unreachable

\* EXTCALL and its kin have no range for the output. extcall_input slices the
\* memory whatever the length: of an empty input it slices at usize::MAX.
ExtCall(offset, len, gas) ==
    /\ Steps /\ Len(frames) < MaxFrames
    /\ LET i == Access(Instruction, offset, len)
           input == Bytes(i, offset, len)
       IN
       \/ Fails(i)
       \/ /\ i.ok /\ len = 0
          /\ unreachable' = "sentinel"
          /\ UNCHANGED <<memory, frames, read>>
       \/ /\ i.ok /\ len # 0
          /\ memory' = NewContext(i.memory)
          /\ frames' = Append([frames EXCEPT ![Len(frames)].gas = i.gas,
                                             ![Len(frames)].out = [offset |-> 0, len |-> 0]],
                              Frame("call", input, gas))
          /\ read' = input
          /\ UNCHANGED unreachable

\* A call answered without a frame: by a precompile, or refused.
CallAnswered(offset, len, out_offset, out_len, result, output) ==
    /\ Steps
    /\ LET r == CallRanges(offset, len, out_offset, out_len)
           caller == [Interpreter EXCEPT !.gas = r.i.gas, !.out = r.out]
           outcome == InsertOutcome(r.i.memory, caller, "call", result, output)
       IN
       \/ Fails(r.i)
       \/ /\ r.i.ok
          /\ memory' = outcome.memory
          /\ frames' = Append(Front(frames), outcome.caller)
          /\ read' = r.input
          /\ unreachable' = outcome.unreachable

\* CREATE and CREATE2: the init code is read, and no range is left for an output.
Create(offset, len, gas) ==
    /\ Steps /\ Len(frames) < MaxFrames
    /\ LET i == Access(Instruction, offset, len) IN
       \/ Fails(i)
       \/ /\ i.ok
          /\ memory' = NewContext(i.memory)
          /\ frames' = Append([frames EXCEPT ![Len(frames)].gas = i.gas], Frame("create", << >>, gas))
          /\ read' = Bytes(i, offset, len)
          /\ UNCHANGED unreachable
-----------------------------------------------------------------------------
Next ==
    \/ \E gas \in GasLimits : RunTheLoop(gas)
    \/ Halt \/ Msize
    \/ \E r \in Ranges :
          \/ Reads(r[1], r[2])
          \/ \E value \in Words : Stores(r[1], value)
          \/ \E result \in {"return", "revert"} : Returns(result, r[1], r[2])
          \/ \E gas \in GasLimits : Create(r[1], r[2], gas)
    \/ \E c \in Copies : \/ Mcopy(c[1], c[2], c[3])
                        \/ DataCopy(c[1], c[2], c[3])
                        \/ ReturnDataCopy(c[1], c[2], c[3])
    \/ \E c \in CallOperands :
          \/ \E gas \in GasLimits : Call(c[1], c[2], c[3], c[4], gas) \/ ExtCall(c[1], c[2], gas)
          \/ CallAnswered(c[1], c[2], c[3], c[4], "halt", << >>)
          \/ \E output \in Outputs : CallAnswered(c[1], c[2], c[3], c[4], "return", output)

Spec == Init /\ [][Next]_vars
-----------------------------------------------------------------------------
(* Properties.                                                               *)

\* Where the memory of each frame lies in the buffer.
Begins(n) == memory.checkpoints[n]
EndsAt(n) == IF n = Len(frames) THEN Len(memory.buffer) ELSE memory.checkpoints[n + 1]

\* No instruction, and no output handed to a caller, reaches outside the memory
\* of the running frame: the debug_unreachable! of slice_range and slice_mut,
\* undefined behaviour in a release build, is never met.
\* (EXTCALL with an empty input does meet it, at the offset usize::MAX that
\* stands for an empty range: "sentinel".)
NeverOutOfBounds == unreachable # "range"

\* However often and in whatever order a frame's memory grew, and whatever ran
\* in between on the same buffer, the frame has paid exactly the price of the
\* words it has now.
PaysForItsMemory ==
    \A n \in DOMAIN frames :
        /\ (EndsAt(n) - Begins(n)) % WordBytes = 0
        /\ frames[n].limit - frames[n].gas = MemoryGasForLen(EndsAt(n) - Begins(n))

\* The addresses that memory can have, its last word within the limit or begun there.
Reach == 0 .. MemoryLimit + WordBytes

\* Each frame's part of the buffer as a memory of its own, zeros after its end.
MemoryOf(n) ==
    [kind |-> frames[n].kind,
     bytes |-> [a \in Reach |->
                   IF a < EndsAt(n) - Begins(n) THEN memory.buffer[Begins(n) + a + 1] ELSE 0],
     size |-> EndsAt(n) - Begins(n),
     input |-> frames[n].input,
     returned |-> frames[n].return_data_buffer,
     out |-> IF frames[n].out.len = 0 THEN [offset |-> 0, len |-> 0] ELSE frames[n].out]

\* Where in memory the operands of instructions may lie: of a range of no bytes
\* only that it is empty matters.
Offsets ==
    {0} \cup (Reach \cap UNION { {r[1] : r \in Ranges}, {c[1] : c \in Copies}, {c[2] : c \in Copies},
                                {c[1] : c \in CallOperands}, {c[3] : c \in CallOperands} })
Lens ==
    {0} \cup (Reach \cap UNION { {r[2] : r \in Ranges}, {c[3] : c \in Copies},
                                {c[2] : c \in CallOperands}, {c[4] : c \in CallOperands} })

Stack == INSTANCE MemoryStack WITH
    Word <- WordBytes, Addresses <- Reach, Positions <- {Saturated(c[2]) : c \in Copies},
    memories <- [n \in DOMAIN frames |-> MemoryOf(n)]

\* The shared buffer with its checkpoints is as good as a memory per frame: what
\* a frame reads is what it wrote, or zeros, never what another frame left in
\* the buffer; and a caller finds its memory as it was, but for the output it
\* asked for.
MemoriesAreSeparate == Stack!Spec
=============================================================================
