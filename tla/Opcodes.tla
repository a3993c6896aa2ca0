------------------------------ MODULE Opcodes -------------------------------
(* The instructions, twice: as OPCODE_INFO_JUMPTABLE describes them to the    *)
(* validator of EOF code, and by what the functions that execute them do to   *)
(* the stack. An opcode is its byte.                                          *)
EXTENDS Integers

STOP == \h00
JUMP == \h56
JUMPI == \h57
JUMPDEST == \h5B
PUSH0 == \h5F
PUSH1 == \h60
PUSH32 == \h7F
DATALOADN == \hD1
RJUMP == \hE0
RJUMPI == \hE1
RJUMPV == \hE2
CALLF == \hE3
RETF == \hE4
JUMPF == \hE5
DUPN == \hE6
SWAPN == \hE7
EXCHANGE == \hE8
EOFCREATE == \hEC
RETURNCONTRACT == \hEE

Pushes == PUSH1 .. PUSH32
Dups == \h80 .. \h8F
Swaps == \h90 .. \h9F
Logs == \hA0 .. \hA4
-----------------------------------------------------------------------------
(* OPCODE_INFO_JUMPTABLE.                                                    *)

\* The opcodes of each stack_io(inputs, outputs), but DUP, SWAP and LOG.
StackIORows ==
    { << {\h00, \h5B, RJUMP, CALLF, RETF, JUMPF, SWAPN, EXCHANGE, \hFE}, 0, 0 >>,
      << {\h30, \h32, \h33, \h34, \h36, \h38, \h3A, \h3D, \h4A, \h58, \h59, \h5A, PUSH0,
          DATALOADN, \hD2, DUPN} \cup \h41 .. \h48 \cup Pushes, 0, 1 >>,
      << {\h50, JUMP, RJUMPI, RJUMPV, \hFF}, 1, 0 >>,
      << {\h15, \h19, \h31, \h35, \h3B, \h3F, \h40, \h49, \h51, \h54, \h5C, \hD0, \hF7}, 1, 1 >>,
      << {\h52, \h53, \h55, JUMPI, \h5D, RETURNCONTRACT, \hF3, \hFD}, 2, 0 >>,
      << \h01 .. \h07 \cup {\h0A, \h0B, \h20} \cup \h10 .. \h14 \cup \h16 .. \h18 \cup \h1A .. \h1D, 2, 1 >>,
      << {\h37, \h39, \h3E, \h5E, \hD3}, 3, 0 >>,
      << {\h08, \h09, \hF0, \hF9, \hFB}, 3, 1 >>,
      << {\h3C}, 4, 0 >>,
      << {EOFCREATE, \hF5, \hF8}, 4, 1 >>,
      << {\hF4, \hFA}, 6, 1 >>,
      << {\hF1, \hF2}, 7, 1 >> }

KnownOpcodes == UNION {r[1] : r \in StackIORows} \cup Dups \cup Swaps \cup Logs
Known(op) == op \in KnownOpcodes

\* << inputs, outputs >>
StackIO == [op \in KnownOpcodes |->
    IF op \in Dups THEN << op - \h7F, op - \h7E >>
    ELSE IF op \in Swaps THEN << op - \h8E, op - \h8E >>
    ELSE IF op \in Logs THEN << op - \h9E, 0 >>
    ELSE LET row == CHOOSE r \in StackIORows : op \in r[1] IN << row[2], row[3] >>]

Inputs(op) == StackIO[op][1]
IODiff(op) == StackIO[op][2] - StackIO[op][1]

ImmediateSize(op) ==
    IF op \in Pushes THEN op - PUSH0
    ELSE IF op \in {DATALOADN, RJUMP, RJUMPI, CALLF, JUMPF} THEN 2
    ELSE IF op \in {RJUMPV, DUPN, SWAPN, EXCHANGE, EOFCREATE, RETURNCONTRACT} THEN 1
    ELSE 0

DisabledInEof(op) ==
    op \in {\h38, \h39, \h3B, \h3C, \h3F, JUMP, JUMPI, \h58, \h5A,
            \hF0, \hF1, \hF2, \hF4, \hF5, \hFA, \hFF}

IsTerminating(op) ==
    op \in {STOP, RJUMP, RETF, JUMPF, RETURNCONTRACT, \hF3, \hFD, \hFE, \hFF}
-----------------------------------------------------------------------------
(* What the instructions take from the stack and leave there, from the pop!, *)
(* pop_top!, pop_address! and push! of their functions: << opcodes, taken,   *)
(* left >>. What a call or a create leaves is pushed when its outcome comes. *)

ArithmeticEffects == { << \h01 .. \h07 \cup {\h0A, \h0B}, 2, 1 >>, << {\h08, \h09}, 3, 1 >> }
BitwiseEffects ==
    { << \h10 .. \h14 \cup \h16 .. \h18 \cup \h1A .. \h1D, 2, 1 >>, << {\h15, \h19}, 1, 1 >> }
SystemEffects ==
    { << {\h20}, 2, 1 >>, << {\h30, \h33, \h34, \h36, \h38, \h3D, \h5A}, 0, 1 >>,
      << {\h35, \hF7}, 1, 1 >>, << {\h37, \h39, \h3E}, 3, 0 >> }
HostEffects ==
    { << {\h31, \h3B, \h3F, \h40, \h54, \h5C}, 1, 1 >>, << {\h47}, 0, 1 >>, << {\h3C}, 4, 0 >>,
      << {\h55, \h5D}, 2, 0 >>, << {\hFF}, 1, 0 >> }
HostEnvEffects ==
    { << {\h32, \h3A, \h48, \h4A} \cup \h41 .. \h46, 0, 1 >>, << {\h49}, 1, 1 >> }
MemoryEffects ==
    { << {\h51}, 1, 1 >>, << {\h52, \h53}, 2, 0 >>, << {\h59}, 0, 1 >>, << {\h5E}, 3, 0 >> }
DataEffects == { << {\hD0}, 1, 1 >>, << {DATALOADN, \hD2}, 0, 1 >>, << {\hD3}, 3, 0 >> }
ContractEffects ==
    { << {\hF8, \hF5}, 4, 1 >>, << {\hF9, \hFB, \hF0}, 3, 1 >>,
      << {\hF1, \hF2}, 7, 1 >>, << {\hF4, \hFA}, 6, 1 >> }
ControlEffects ==
    { << {STOP, JUMPDEST, \hFE}, 0, 0 >>, << {\h58}, 0, 1 >>, << {\hF3, \hFD}, 2, 0 >>,
      << {JUMP}, 1, 0 >>, << {JUMPI}, 2, 0 >> }
\* dup::<N>, swap::<N> and log::<N> need what the table says and no more.
StackEffects ==
    { << {\h50}, 1, 0 >>, << {PUSH0} \cup Pushes, 0, 1 >> }
    \cup { << {\h7F + n}, n, n + 1 >> : n \in 1 .. 16 }
    \cup { << {\h8F + n}, n + 1, n + 1 >> : n \in 1 .. 16 }
    \cup { << {\hA0 + n}, 2 + n, 0 >> : n \in 0 .. 4 }

Effects ==
    ArithmeticEffects \cup BitwiseEffects \cup SystemEffects \cup HostEffects \cup HostEnvEffects
    \cup MemoryEffects \cup DataEffects \cup ContractEffects \cup ControlEffects \cup StackEffects

\* The instructions whose effect does not depend on their immediate.
Plain == UNION {r[1] : r \in Effects}
Effect == [op \in Plain |-> LET row == CHOOSE r \in Effects : op \in r[1] IN << row[2], row[3] >>]

\* Those of them that begin with require_eof!.
EofOnly == {\hD0, DATALOADN, \hD2, \hD3, \hF7, \hF8, \hF9, \hFB}

\* How far an instruction moves the pointer past its own byte.
Skips(op) == IF op \in Pushes THEN op - PUSH0 ELSE IF op = DATALOADN THEN 2 ELSE 0
=============================================================================
