----------------------------- MODULE EofFrames ------------------------------
(***************************************************************************)
(* The frames of EOF contracts: CallFrames with the instructions only EOF  *)
(* has (EXTCALL and its kin, EOFCREATE, RETURNCONTRACT), from              *)
(* crates/interpreter/src/instructions/contract.rs.  EOFCREATE leaves the  *)
(* interpreter running: what it asks for happens when the frame halts, and *)
(* the frame does not go on afterwards.                                    *)
(***************************************************************************)
EXTENDS CallFrames

CONSTANTS
    MinRetainedGas,   \* 5000
    MinCalleeGas      \* 2300

ASSUME EofAssumption == MinRetainedGas \in Nat /\ MinCalleeGas \in Nat

\* extcall_gas_calc after the cost of the call.
ExtCallGas(remaining) ==
    LET kept == IF remaining \div CallDivisor < MinRetainedGas THEN MinRetainedGas
                ELSE remaining \div CallDivisor
    IN  IF remaining < kept THEN 0 ELSE remaining - kept

\* extcall, extdelegatecall and extstaticcall: each passes the static flag of
\* its own frame on.
ExtCall(has_transfer, cost) ==
    LET paid == RecordCost(Top.gas, cost)
        gas_limit == ExtCallGas(paid.remaining)
    IN  /\ Executing
        /\ Top.code = "eof"
        /\ Becomes(
              IF ~Affords(Top.gas, cost) THEN Halted(Top, "OutOfGas")
              ELSE IF gas_limit < MinCalleeGas
              THEN [Halted(Top, "CallNotAllowedInsideStatic") EXCEPT !.gas = paid]
              ELSE [Halted(Top, "CallOrCreate") EXCEPT
                       !.gas = RecordCost(paid, gas_limit),
                       !.next_action = CallAction(gas_limit, Top.is_static, has_transfer)])

\* eofcreate: the gas handed over is not taken from the creator.  Bound: only
\* while no frame has more gas than its limit.
EOFCreate(cost) ==
    LET paid == RecordCost(Top.gas, cost)
    IN  /\ Executing
        /\ Top.code = "eof"
        /\ \A k \in DOMAIN call_stack :
              call_stack[k].gas.remaining <= call_stack[k].gas.limit
        /\ Becomes(
              IF ~Affords(Top.gas, cost) THEN Halted(Top, "OutOfGas")
              ELSE [Top EXCEPT !.gas = paid,
                               !.next_action = EOFCreateAction(paid.remaining)])

\* return_contract; data of the wrong size is a FatalExternalError.
ReturnContract(fits) ==
    /\ Executing
    /\ Top.kind = "eofcreate"
    /\ Becomes(IF fits THEN [Halted(Top, "ReturnContract") EXCEPT !.next_action = NoAction]
               ELSE Halted(Top, "FatalExternalError"))

LoopEOFCreate ==
    /\ Pending("EOFCreate")
    /\ UNCHANGED tx
    /\ \/ OpenFrame(ActionTaken, "eofcreate", Top.next_action.gas_limit, FALSE)
       \/ \E r \in CreateResults(Top.next_action.gas_limit) :
             /\ HandleResult(ActionTaken, "eofcreate", r)
             /\ UNCHANGED <<contexts, depth, storage, original>>

EofNext ==
    \/ Next
    \/ \E c \in Costs, b \in BOOLEAN : ExtCall(b, c)
    \/ \E c \in Costs : EOFCreate(c)
    \/ \E b \in BOOLEAN : ReturnContract(b)
    \/ LoopEOFCreate

EofSpec == Init /\ [][EofNext]_vars
=============================================================================
