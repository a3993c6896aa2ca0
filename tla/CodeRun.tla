------------------------------ MODULE CodeRun -------------------------------
(* Code before and while it runs: legacy code through to_analysed, EOF        *)
(* containers through validate_raw_eof, and then Interpreter::run on what was *)
(* accepted. Of the stack only the height is kept: what an instruction finds  *)
(* there (a condition, a case, a jump target) is chosen freely. The code of a *)
(* section is chosen as the validator reads it.                               *)
EXTENDS EofValidation, EofContainer, Functions

CONSTANTS Programs,     \* the containers: [types, lens, ops], with the opcodes their sections use
          LegacyCodes,  \* legacy code, as bytes
          RawContainers,\* what is given to Eof::decode, as bytes
          Depths,       \* the immediates of DUPN, SWAPN and EXCHANGE
          ReturnLimit,  \* the limit of the return stack: 1024 in the code
          Padding       \* the zeros after legacy code: 33 in the code

VARIABLES phase,        \* "start", "decode", "validate", "run", "legacy" or "done"
          containers,   \* the containers validate_eof has still to look into
          eof,          \* the program, with the code of its sections: position -> instruction
          v,            \* the section that is validated
          queue,        \* sections still to be validated
          queued_codes, \* sections that were ever queued
          heights,      \* jumps, as each validated section left it
          legacy,       \* LegacyAnalyzedBytecode
          cpu,          \* the Interpreter
          result        \* how it ended: an error, an instruction_result, or a panic

vars == <<phase, containers, eof, v, queue, queued_codes, heights, legacy, cpu, result>>

None == << >>
\* Validation ends without code to run: nothing of it is used any more.
Refused(error) ==
    /\ phase' = "done" /\ result' = error
    /\ containers' = << >> /\ eof' = None /\ v' = None /\ queue' = << >> /\ queued_codes' = {}
    /\ heights' = None /\ legacy' = None /\ cpu' = None

\* Interpreter::new. base is where the running section's items begin on the
\* stack, which nothing keeps, and creates how many EOFCREATEs have run.
NewInterpreter ==
    [section |-> 0, pc |-> 0, height |-> 0, return_stack |-> << >>, base |-> 0, creates |-> 0]
-----------------------------------------------------------------------------
(* Legacy code.                                                              *)

AnalyzeStep(byte) == IF byte \in Pushes THEN byte - PUSH1 + 2 ELSE 1

\* analyze: the positions the scan stops at that hold a JUMPDEST.
JumpTable(code) ==
    LET Scanned[p \in 0 .. Len(code)] ==
            \/ p = 0
            \/ \E q \in 0 .. p - 1 : Scanned[q] /\ q + AnalyzeStep(code[q + 1]) = p
    IN  {p \in 0 .. Len(code) - 1 : code[p + 1] = JUMPDEST /\ Scanned[p]}

ToAnalysed(code) ==
    LET padded == code \o [n \in 1 .. Padding |-> STOP]
    IN  [bytecode |-> padded, original_len |-> Len(code), jump_table |-> JumpTable(padded)]

AnalyseLegacy(code) ==
    /\ phase = "start"
    /\ phase' = "legacy" /\ legacy' = ToAnalysed(code) /\ cpu' = NewInterpreter
    /\ UNCHANGED <<containers, eof, v, queue, queued_codes, heights, result>>

\* The interpreter after an instruction: as it goes on, or how it ends.
On(next) == [cpu |-> next, how |-> ""]
Ends(how) == [cpu |-> cpu, how |-> how]
Becomes(outcome) ==
    /\ cpu' = outcome.cpu /\ result' = outcome.how
    /\ phase' = IF outcome.how = "" THEN phase ELSE "done"
    /\ UNCHANGED <<containers, eof, v, queue, queued_codes, heights, legacy>>

\* An instruction that takes some items, leaves some and moves on.
TakesLeaves(taken, left, size) ==
    IF cpu.height < taken THEN Ends("StackUnderflow")
    ELSE IF cpu.height - taken + left > StackLimit THEN Ends("StackOverflow")
    ELSE On([cpu EXCEPT !.height = @ - taken + left, !.pc = @ + size])

\* require_eof! and require_init_eof!: the instructions that halt in legacy code.
NotInLegacy == EofOnly \cup (KnownOpcodes \ Plain)
LegacyHalt(op) ==
    IF op = RETURNCONTRACT THEN "ReturnContractInNotInitEOF" ELSE "EOFOpcodeDisabledInLegacy"

\* One instruction: an opcode of EOF, or none at all, ends the run; a jump goes
\* where the table allows it, whatever target was on the stack.
LegacyStep ==
    LET op == legacy.bytecode[cpu.pc + 1]
        moved == TakesLeaves(Effect[op][1], Effect[op][2], 1 + Skips(op))
    IN  /\ phase = "legacy"
        /\ \/ op \notin KnownOpcodes /\ Becomes(Ends("OpcodeNotFound"))
           \/ op \in NotInLegacy /\ Becomes(Ends(LegacyHalt(op)))
           \/ /\ op \in Plain \ (EofOnly \cup {JUMP})
              /\ Becomes(IF moved.how = "" /\ IsTerminating(op) THEN Ends("Return") ELSE moved)
           \/ /\ op = JUMP /\ moved.how # ""
              /\ Becomes(moved)
           \/ /\ op \in {JUMP, JUMPI} /\ moved.how = ""
              /\ \/ Becomes(Ends("InvalidJump"))
                 \/ \E target \in legacy.jump_table : Becomes(On([moved.cpu EXCEPT !.pc = target]))
-----------------------------------------------------------------------------
(* Containers.                                                               *)

\* validate_raw_eof
ValidateRaw(raw) ==
    LET decoded == Decode(raw) IN
    /\ phase = "start"
    /\ \/ decoded.error # "" /\ Refused(decoded.error)
       \/ /\ decoded.error = ""
          /\ phase' = "decode" /\ containers' = << decoded >>
          /\ UNCHANGED <<eof, v, queue, queued_codes, heights, legacy, cpu, result>>

\* The body of validate_eof's loop, but for the code: the containers inside
\* are decoded and wait their turn.
ValidateContainer ==
    LET inner == Last(containers).body.containers
        decoded == [n \in DOMAIN inner |-> Decode(inner[n])]
        bad == {n \in DOMAIN inner : decoded[n].error # ""}
    IN  /\ phase = "decode" /\ containers # << >>
        /\ \/ /\ bad # {} /\ Refused(decoded[Min(bad)].error)
           \/ /\ bad = {} /\ containers' = Front(containers) \o decoded
              /\ UNCHANGED <<phase, eof, v, queue, queued_codes, heights, legacy, cpu, result>>
ContainersDone ==
    /\ phase = "decode" /\ containers = << >>
    /\ Refused("")
-----------------------------------------------------------------------------
(* validate_eof_codes.                                                       *)

Types == eof.types
LenOf(s) == eof.lens[s]
FirstTypesOK(types) == types[0].inputs = 0 /\ types[0].outputs = NonReturning

ValidateCodes(p) ==
    /\ phase = "start"
    /\ \A s \in DOMAIN p.types : TypesSectionOK(p.types[s])
    /\ \/ ~FirstTypesOK(p.types) /\ Refused("InvalidTypesSection")
       \/ /\ FirstTypesOK(p.types)
          /\ phase' = "validate"
          /\ eof' = [types |-> p.types, lens |-> p.lens, ops |-> p.ops,
                     code |-> [s \in DOMAIN p.types |-> << >>]]
          /\ v' = ValidationOf(0, p.types, p.lens[0])
          /\ queue' = << >> /\ queued_codes' = {0}
          /\ heights' = [s \in DOMAIN p.types |-> << >>]
          /\ UNCHANGED <<containers, legacy, cpu, result>>

\* The instructions the section may hold here: jumps to every position and to
\* either side of the section.
Instructions(op) ==
    LET Offsets(size) == {t - v.i - size : t \in -1 .. LenOf(v.index)}
    IN  IF op \in {RJUMP, RJUMPI} THEN {[op |-> op, imm |-> << o >>] : o \in Offsets(3)}
        ELSE IF op = RJUMPV
        THEN {[op |-> op, imm |-> << o >>] : o \in Offsets(4)}
             \cup {[op |-> op, imm |-> << o, p >>] : o \in Offsets(6), p \in Offsets(6)}
        ELSE IF op \in {CALLF, JUMPF}
        THEN {[op |-> op, imm |-> << s >>] : s \in 0 .. Cardinality(DOMAIN Types)}
        ELSE IF op \in {DUPN, SWAPN} THEN {[op |-> op, imm |-> << d >>] : d \in Depths}
        ELSE IF op = EXCHANGE THEN {[op |-> op, imm |-> << d, e >>] : d \in Depths, e \in Depths}
        ELSE IF op \in {EOFCREATE, RETURNCONTRACT}
        THEN {[op |-> op, imm |-> << n >>] : n \in 0 .. Containers}
        ELSE IF op = DATALOADN THEN {[op |-> op, imm |-> << n >>] : n \in {0, DataSize - 32, DataSize - 31}}
        ELSE {[op |-> op, imm |-> << >>]}

ValidateInstruction(ins) ==
    LET visit == Visit(v, ins, Types) IN
    \/ visit.error # "" /\ Refused(visit.error)
    \/ /\ visit.error = ""
       /\ v' = visit.v
       /\ eof' = [eof EXCEPT !.code[v.index] = @ @@ (v.i :> ins)]
       /\ UNCHANGED <<phase, containers, queue, queued_codes, heights, legacy, cpu, result>>

\* The section is done: the sections it calls are queued, in the order of a
\* HashSet, and the last one queued is next; at the end all must have been.
SectionDone ==
    LET new == v.accessed \ queued_codes
        all == queued_codes \cup new
    IN  \E order \in Bijection(1 .. Cardinality(new), new) :
        LET waiting == queue \o order IN
        /\ queued_codes' = all
        /\ heights' = [heights EXCEPT ![v.index] = v.jumps]
        /\ UNCHANGED <<containers, eof, legacy, result>>
        /\ \/ /\ waiting # << >>
              /\ v' = ValidationOf(Last(waiting), Types, LenOf(Last(waiting)))
              /\ queue' = Front(waiting)
              /\ UNCHANGED <<phase, cpu>>
           \/ /\ waiting = << >> /\ all = DOMAIN Types
              /\ phase' = "run" /\ cpu' = NewInterpreter /\ v' = None /\ queue' = << >>

Validate ==
    /\ phase = "validate"
    /\ \/ /\ v.i < LenOf(v.index)
          /\ \E op \in eof.ops : \E ins \in Instructions(op) : ValidateInstruction(ins)
       \/ /\ v.i >= LenOf(v.index)
          /\ \/ EndError(v, Types) # "" /\ Refused(EndError(v, Types))
             \/ /\ EndError(v, Types) = ""
                /\ queue = << >> /\ v.accessed \subseteq queued_codes /\ queued_codes # DOMAIN Types
                /\ Refused("CodeSectionNotAccessed")
             \/ EndError(v, Types) = "" /\ SectionDone
-----------------------------------------------------------------------------
(* Interpreter::run on EOF code.                                             *)

Here == eof.code[cpu.section]
Ins == Here[cpu.pc]
At(ops) == phase = "run" /\ cpu.pc \in DOMAIN Here /\ Ins.op \in ops

\* Bytes that no instruction of the validated code begins with would be executed
\* as well, whatever they are.
RunPlain ==
    /\ phase = "run"
    /\ cpu.pc \in DOMAIN Here => At({op \in Plain : ~IsTerminating(op)})
    /\ Becomes(IF cpu.pc \notin DOMAIN Here THEN Ends("wild")
               ELSE TakesLeaves(Effect[Ins.op][1], Effect[Ins.op][2], 1 + Skips(Ins.op)))

RunTerminating ==
    /\ At({op \in Plain : IsTerminating(op)})
    /\ Becomes(Ends(IF cpu.height < Effect[Ins.op][1] THEN "StackUnderflow" ELSE "Return"))

Rjump == At({RJUMP}) /\ Becomes(On([cpu EXCEPT !.pc = @ + 3 + Ins.imm[1]]))

Rjumpi ==
    /\ At({RJUMPI})
    /\ \E offset \in {0, Ins.imm[1]} : Becomes(TakesLeaves(1, 0, 3 + offset))

\* A case beyond the table goes on after it.
Rjumpv ==
    /\ At({RJUMPV})
    /\ \E offset \in {0} \cup Range(Ins.imm) :
          Becomes(TakesLeaves(1, 0, 1 + (2 * Len(Ins.imm) + 1) + offset))

\* load_eof_code at the start of a section, its items on top of the stack.
Enters(frame, s) ==
    [frame EXCEPT !.section = s, !.pc = 0, !.base = cpu.height - Types[s].inputs]
FitsOnStack(s) == cpu.height + (Types[s].max_stack_size - Types[s].inputs) <= StackLimit

ReturnStackFull == Len(cpu.return_stack) >= ReturnLimit

Callf ==
    /\ At({CALLF})
    /\ LET s == Ins.imm[1]
           frame == [idx |-> cpu.section, pc |-> cpu.pc + 3, base |-> cpu.base]
       IN  Becomes(IF ReturnStackFull THEN Ends("EOFFunctionStackOverflow")
                   ELSE IF s \notin DOMAIN Types THEN Ends("panic")
                   ELSE IF ~FitsOnStack(s) THEN Ends("StackOverflow")
                   ELSE On(Enters([cpu EXCEPT !.return_stack = Append(@, frame)], s)))

\* retf does not look at the stack; with no frame to return to it panics.
Retf ==
    /\ At({RETF})
    /\ LET frame == Last(cpu.return_stack)
       IN  Becomes(IF cpu.return_stack = << >> THEN Ends("panic")
                   ELSE On([cpu EXCEPT !.section = frame.idx, !.pc = frame.pc, !.base = frame.base,
                                       !.return_stack = Front(@)]))

Jumpf ==
    /\ At({JUMPF})
    /\ LET s == Ins.imm[1]
       IN  Becomes(IF s \notin DOMAIN Types THEN Ends("panic")
                   ELSE IF ~FitsOnStack(s) THEN Ends("StackOverflow")
                   ELSE On(Enters(cpu, s)))

Dupn == At({DUPN}) /\ Becomes(TakesLeaves(Ins.imm[1] + 1, Ins.imm[1] + 2, 2))
Swapn == At({SWAPN}) /\ Becomes(TakesLeaves(Ins.imm[1] + 2, Ins.imm[1] + 2, 2))
Exchange ==
    At({EXCHANGE}) /\ LET needed == (Ins.imm[1] + 1) + (Ins.imm[2] + 1) + 1
                      IN  Becomes(TakesLeaves(needed, needed, 2))

\* eofcreate does not stop the interpreter: it goes on without the address the
\* instruction is to leave.
EofCreate ==
    /\ At({EOFCREATE})
    /\ Becomes(IF cpu.height < 4 THEN Ends("StackUnderflow")
               ELSE IF Ins.imm[1] >= Containers THEN Ends("panic")
               ELSE On([cpu EXCEPT !.height = @ - 4, !.pc = @ + 2, !.creates = @ + 1]))

\* read_u16 in return_contract: the index of one byte that the instruction has
\* and the byte after it, the first of the next instruction, of the next section
\* or, behind the last section, of the first container.
NextByte ==
    IF cpu.pc + 2 \in DOMAIN Here THEN Here[cpu.pc + 2].op
    ELSE IF cpu.section + 1 \in DOMAIN Types THEN eof.code[cpu.section + 1][0].op
    ELSE \hEF
DeployContainerIndex == Ins.imm[1] * 256 + NextByte

\* return_contract panics when there is no such container. Outside init code it
\* is refused at once.
ReturnContract ==
    /\ At({RETURNCONTRACT})
    /\ \E is_eof_init \in BOOLEAN :
          Becomes(Ends(IF ~is_eof_init THEN "ReturnContractInNotInitEOF"
                       ELSE IF cpu.height < 2 THEN "StackUnderflow"
                       ELSE IF ContainerMissing(DeployContainerIndex) THEN "panic" ELSE "Return"))
-----------------------------------------------------------------------------
Init ==
    /\ phase = "start" /\ containers = << >> /\ eof = None /\ v = None /\ queue = << >>
    /\ queued_codes = {} /\ heights = None /\ legacy = None /\ cpu = None /\ result = ""

RunEof ==
    \/ RunPlain \/ RunTerminating \/ Rjump \/ Rjumpi \/ Rjumpv
    \/ Callf \/ Retf \/ Jumpf \/ Dupn \/ Swapn \/ Exchange \/ EofCreate \/ ReturnContract

Next ==
    \/ \E code \in LegacyCodes : AnalyseLegacy(code)
    \/ \E raw \in RawContainers : ValidateRaw(raw)
    \/ \E p \in Programs : ValidateCodes(p)
    \/ LegacyStep \/ ValidateContainer \/ ContainersDone \/ Validate \/ RunEof

Spec == Init /\ [][Next]_vars
-----------------------------------------------------------------------------
(* Properties.                                                               *)

\* Where the instructions of legacy code begin.
InstructionsOf(code) ==
    LET Begins[p \in 0 .. Len(code)] ==
            \/ p = 0
            \/ \E q \in 0 .. p - 1 : Begins[q] /\ q + 1 + (IF code[q + 1] \in Pushes THEN code[q + 1] - PUSH0 ELSE 0) = p
    IN  {p \in 0 .. Len(code) - 1 : Begins[p]}

\* The interpreter, which reads bytes without a check, only reads instructions.
\* Validated code runs from instruction to instruction of its sections: no
\* jump, call or return reaches an immediate or leaves the section. Padding and
\* the jump table do the same for legacy code: it never leaves the padded code
\* and never executes the data of a push, wherever the program jumps.
RunsOnInstructions ==
    /\ result # "wild"
    /\ phase = "legacy" => cpu.pc \in InstructionsOf(legacy.bytecode)

\* What validation says of a position is true whenever the code gets there: the
\* items of the running section number between the smallest and the biggest it
\* found, however many functions called and jumped to each other to get there.
\* (EOFCREATE leaves nothing where its table entry promises an item.)
HeightsAsAnalysed ==
    phase = "run" /\ cpu.pc \in DOMAIN Here =>
        LET info == heights[cpu.section][cpu.pc]
            items == cpu.height - cpu.base + cpu.creates
        IN  info.smallest <= items /\ items <= info.biggest

\* Validated code fails only where validation leaves it open. It never
\* runs out of items, unless it executed EOFCREATE; a full stack only stops a
\* call or a jump to another section. It panics in two ways:
\* RETURNCONTRACT with an index nobody checked, and a RETF outside any call. A
\* section that does not return passes for one with 0x80 outputs, so such a RETF
\* takes 0x80 items on the stack.
ValidatedCodeDoesNotFail ==
    phase = "done" /\ eof # None =>
        /\ result = "StackUnderflow" => cpu.creates > 0
        /\ result = "StackOverflow" => Ins.op \in {CALLF, JUMPF}
        /\ result = "panic" =>
              \/ Ins.op = RETURNCONTRACT
              \/ /\ Ins.op = RETF /\ cpu.height + cpu.creates >= NonReturning
                 /\ cpu.height - cpu.base + cpu.creates = Types[cpu.section].outputs

\* A container that was decoded, or was found in one that was, is the encoding
\* of what was decoded: no byte of it is ignored or read twice, so that two
\* containers with the same contents are the same. When its data is complete it
\* is also what into_eof makes of its contents.
DecodeIsCanonical ==
    \A n \in DOMAIN containers :
        LET c == containers[n] IN
        /\ EncodeSlow(c) = c.raw
        /\ Len(c.body.code) = Len(c.body.types)
        /\ c.body.is_data_filled => IntoEof(c.body).raw = c.raw
=============================================================================
