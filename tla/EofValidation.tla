--------------------------- MODULE EofValidation ----------------------------
(* validate_eof_code, one iteration of its loop at a time. An instruction is  *)
(* [op, imm]: imm is the sequence of numbers its immediate bytes hold (jump   *)
(* offsets, a section, a depth, the two nibbles of EXCHANGE, an index). The   *)
(* validation of a section is the record of validate_eof_code's variables;    *)
(* bytes of code are counted from 0, and so are sections.                     *)
EXTENDS Opcodes, Sequences, FiniteSetsExt

CONSTANTS StackLimit,       \* STACK_LIMIT: 1024 in the code
          NonReturning,     \* EOF_NON_RETURNING_FUNCTION: 0x80
          DataSize,         \* header.data_size
          Containers        \* container_section.len()

ASSUME ValidationAssumption ==
    /\ StackLimit \in Nat \ {0} /\ NonReturning \in Nat \ {0}
    /\ DataSize \in Nat /\ Containers \in Nat

I32 == 1000     \* stands for i32::MAX: no height comes near it

\* TypesSection::validate
TypesSectionOK(t) ==
    /\ t.inputs < NonReturning /\ t.outputs <= NonReturning
    /\ t.max_stack_size < StackLimit /\ t.inputs <= t.max_stack_size

NoInfo == [is_immediate |-> FALSE, is_jumpdest |-> FALSE, smallest |-> I32, biggest |-> -I32]

\* validate_eof_code begins.
ValidationOf(index, types, len) ==
    [index |-> index, i |-> 0, is_after_termination |-> FALSE,
     next_smallest |-> types[index].inputs, next_biggest |-> types[index].inputs,
     jumps |-> [p \in 0 .. len - 1 |-> NoInfo], accessed |-> {}]
-----------------------------------------------------------------------------
\* The bytes of an RJUMPV beyond its first immediate.
VTable(ins) == IF ins.op = RJUMPV THEN 2 * Len(ins.imm) ELSE 0
SizeOf(ins) == 1 + ImmediateSize(ins.op) + VTable(ins)

\* absolute_jumpdest
JumpTargets(ins, i) ==
    IF ins.op \in {RJUMP, RJUMPI, RJUMPV} THEN {ins.imm[n] + i + SizeOf(ins) : n \in DOMAIN ins.imm}
    ELSE {}

CallsSection(ins) == ins.op \in {CALLF, JUMPF}
Returns(t) == t.outputs # NonReturning

\* Mutant: DUPN n is taken to need n items.
StackRequirementShort(ins, this, types) ==
    IF ins.op = CALLF THEN types[ins.imm[1]].inputs
    ELSE IF ins.op = JUMPF
    THEN LET t == types[ins.imm[1]]
         IN  IF Returns(t) THEN this.outputs + t.inputs - t.outputs ELSE t.inputs
    ELSE IF ins.op = RETF THEN this.outputs
    ELSE IF ins.op = DUPN THEN ins.imm[1]
    ELSE IF ins.op = SWAPN THEN ins.imm[1] + 2
    ELSE IF ins.op = EXCHANGE THEN (ins.imm[1] + 1) + (ins.imm[2] + 1) + 1
    ELSE Inputs(ins.op)

StackRequirement(ins, this, types) ==
    IF ins.op = CALLF THEN types[ins.imm[1]].inputs
    ELSE IF ins.op = JUMPF
    THEN LET t == types[ins.imm[1]]
         IN  IF Returns(t) THEN this.outputs + t.inputs - t.outputs ELSE t.inputs
    ELSE IF ins.op = RETF THEN this.outputs
    ELSE IF ins.op = DUPN THEN ins.imm[1] + 1
    ELSE IF ins.op = SWAPN THEN ins.imm[1] + 2
    ELSE IF ins.op = EXCHANGE THEN (ins.imm[1] + 1) + (ins.imm[2] + 1) + 1
    ELSE Inputs(ins.op)

StackDiff(ins, types) ==
    IF ins.op = CALLF THEN types[ins.imm[1]].outputs - types[ins.imm[1]].inputs ELSE IODiff(ins.op)

ContainerMissing(index) == index >= Containers

\* What is wrong with the immediate of the instruction, given the info of its
\* byte; "" when nothing is.
ImmediateError(ins, info, this, types) ==
    LET t == types[ins.imm[1]]
        required == StackRequirement(ins, this, types)
        overflows == info.biggest - t.inputs + t.max_stack_size > StackLimit
    IN  IF CallsSection(ins) /\ ins.imm[1] \notin DOMAIN types THEN "CodeSectionOutOfBounds"
        ELSE IF ins.op = CALLF /\ ~Returns(t) THEN "CALLFNonReturningFunction"
        ELSE IF CallsSection(ins) /\ overflows THEN "StackOverflow"
        ELSE IF ins.op = JUMPF /\ Returns(t) /\ this.outputs < t.outputs THEN "JUMPFEnoughOutputs"
        ELSE IF ins.op = JUMPF /\ Returns(t) /\ info.biggest > required THEN "JUMPFStackHigherThanOutputs"
        ELSE IF ins.op = JUMPF /\ Returns(t) /\ info.biggest + required > StackLimit THEN "StackOverflow"
        ELSE IF ins.op = EOFCREATE /\ ContainerMissing(ins.imm[1]) THEN "EOFCREATEInvalidIndex"
        ELSE IF ins.op = DATALOADN /\ (DataSize < 32 \/ ins.imm[1] > DataSize - 32)
        THEN "DataLoadOutOfBounds"
        ELSE IF ins.op = RETF /\ info.biggest > this.outputs THEN "RETFBiggestStackNumMoreThenOutputs"
        ELSE ""

\* Mutant: bytes are marked whether something jumps to them or not.
ImmediatesFreeAlways(v, ins) == TRUE

\* mark_as_immediate fails on a byte that is a jump target.
ImmediatesFree(v, ins) ==
    \A p \in v.i + 1 .. v.i + SizeOf(ins) - 1 : ~v.jumps[p].is_jumpdest

\* Mutant: a jump back is taken whatever the stack is.
JumpBackAgreesAlways(info, smallest, biggest) == TRUE

JumpBackAgrees(info, smallest, biggest) == info.biggest = biggest /\ info.smallest = smallest

\* The info of the instruction that is visited: reached from the one before it
\* unless that one terminates, and by the jumps seen so far.
InfoHere(v) ==
    LET info == v.jumps[v.i] IN
    IF v.is_after_termination THEN info
    ELSE [info EXCEPT !.smallest = Min({@, v.next_smallest}), !.biggest = Max({@, v.next_biggest})]

\* The infos with the instruction's own, and its immediates marked.
Marked(v, ins) ==
    [p \in DOMAIN v.jumps |->
        IF p = v.i THEN InfoHere(v)
        ELSE IF p \in v.i + 1 .. v.i + SizeOf(ins) - 1 THEN [v.jumps[p] EXCEPT !.is_immediate = TRUE]
        ELSE v.jumps[p]]

\* One iteration: the validation after the instruction, and what refuses it.
Visit(v, ins, types) ==
    LET this == types[v.index]
        len == Cardinality(DOMAIN v.jumps)
        info == InfoHere(v)
        jumps == Marked(v, ins)
        smallest == info.smallest + StackDiff(ins, types)
        biggest == info.biggest + StackDiff(ins, types)
        targets == JumpTargets(ins, v.i)
        Error(error) == [error |-> error, v |-> v]
    IN
    IF ~Known(ins.op) THEN Error("UnknownOpcode")
    ELSE IF DisabledInEof(ins.op) THEN Error("OpcodeDisabled")
    ELSE IF v.is_after_termination /\ ~info.is_jumpdest THEN Error("InstructionNotForwardAccessed")
    ELSE IF v.i + SizeOf(ins) > len THEN Error("MissingImmediateBytes")
    ELSE IF ~ImmediatesFree(v, ins) THEN Error("JumpToImmediateBytes")
    ELSE IF ImmediateError(ins, info, this, types) # "" THEN Error(ImmediateError(ins, info, this, types))
    ELSE IF StackRequirement(ins, this, types) > info.smallest THEN Error("StackUnderflow")
    ELSE IF \E t \in targets : t < 0 THEN Error("JumpUnderflow")
    ELSE IF \E t \in targets : t >= len THEN Error("JumpOverflow")
    ELSE IF \E t \in targets : jumps[t].is_immediate THEN Error("BackwardJumpToImmediateBytes")
    ELSE IF \E t \in targets : t <= v.i /\ ~JumpBackAgrees(jumps[t], smallest, biggest)
    THEN Error("BackwardJumpNumMismatch")
    ELSE [error |-> "", v |->
            [v EXCEPT
               !.i = @ + SizeOf(ins),
               !.is_after_termination = IsTerminating(ins.op),
               !.next_smallest = smallest, !.next_biggest = biggest,
               !.accessed = @ \cup (IF CallsSection(ins) THEN {ins.imm[1]} ELSE {}),
               !.jumps = [p \in DOMAIN jumps |->
                   IF p \notin targets THEN jumps[p]
                   ELSE IF p <= v.i THEN [jumps[p] EXCEPT !.is_jumpdest = TRUE]
                   ELSE [jumps[p] EXCEPT !.is_jumpdest = TRUE, !.smallest = Min({@, smallest}),
                                         !.biggest = Max({@, biggest})]]]]

\* The end of the section.
MaxStackRequirement(v) == Max({0} \cup {v.jumps[p].biggest : p \in DOMAIN v.jumps})
EndError(v, types) ==
    IF ~v.is_after_termination THEN "LastInstructionNotTerminating"
    ELSE IF MaxStackRequirement(v) # types[v.index].max_stack_size THEN "MaxStackMismatch"
    ELSE ""
=============================================================================
