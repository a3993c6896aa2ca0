----------------------------- MODULE CallFrames -----------------------------
(***************************************************************************)
(* The loop that runs a transaction's frames (crates/revm/src/evm.rs with  *)
(* handler/mainnet/execution.rs and context/*.rs) and the part of the      *)
(* interpreter that hands frames over and takes their results: call        *)
(* stack, gas and refunds, the static flag, contexts of the shared memory, *)
(* depth of the journal.                                                   *)
(*                                                                         *)
(* From London on.  The journal appears as what SnapshotStack promises and *)
(* JournaledState implements: a checkpoint is the storage of its moment.   *)
(* Of the world only storage is kept, for refunds depend on it.  Balances, *)
(* addresses, code and memory decide which of the ways a step can go is    *)
(* taken; the model takes any of them.                                     *)
(***************************************************************************)
EXTENDS Integers, Sequences, FiniteSets

CONSTANTS
    Slot,             \* storage slots, of any account
    Word,             \* storage values
    TxGasLimits,      \* env.tx.gas_limit
    InitialGasSpend,  \* initial_tx_gas
    Costs,            \* what the instructions up to the next jump cost
    CallGasLimits,    \* the gas operand of a call
    CallDivisor,      \* 64: a caller keeps a 64th part of its gas
    CallValueCost,    \* CALLVALUE
    CallStipend,      \* CALL_STIPEND
    DepositCosts,     \* gas_for_code
    ClearRefund,      \* sstore_clears_schedule
    SetRefund,        \* SSTORE_SET - WARM_STORAGE_READ_COST
    ResetRefund,      \* SSTORE_RESET - COLD_SLOAD_COST - WARM_STORAGE_READ_COST
    RefundQuotient,   \* 5: at most a 5th part of the gas spent is refunded
    CallStackLimit,   \* CALL_STACK_LIMIT
    CodeKinds         \* the kinds of bytecode frames run

VARIABLES
    status,      \* no transaction, one in run_the_loop, one that has its result
    call_stack,  \* run_the_loop's frames
    contexts,    \* how many contexts the shared memory has
    depth,       \* JournaledState::depth
    storage,     \* the present value of every slot
    original,    \* the value of every slot when the transaction began
    tx,          \* the gas limit of the transaction
    result       \* the result of the last transaction

vars == <<status, call_stack, contexts, depth, storage, original, tx, result>>

ASSUME GasAssumption ==
    /\ TxGasLimits \subseteq Nat
    /\ InitialGasSpend \in Nat
    /\ \A g \in TxGasLimits : InitialGasSpend <= g
    /\ Costs \subseteq Nat \ {0}
    /\ CallGasLimits \subseteq Nat
    /\ DepositCosts \subseteq Nat
    /\ CallDivisor \in Nat \ {0}
    /\ CallValueCost \in Nat /\ CallStipend \in Nat
    /\ CallStipend <= CallValueCost

ASSUME RefundAssumption ==
    /\ ClearRefund \in Nat /\ SetRefund \in Nat /\ ResetRefund \in Nat
    /\ RefundQuotient \in Nat \ {0}

ASSUME StorageAssumption ==
    /\ IsFiniteSet(Slot)
    /\ 0 \in Word
    /\ CallStackLimit \in Nat
    /\ CodeKinds \subseteq {"legacy", "eof"}

Storage == [Slot -> Word]

-----------------------------------------------------------------------------
(* Gas (crates/interpreter/src/gas.rs)                                     *)

NewGas(limit) == [limit |-> limit, remaining |-> limit, refunded |-> 0]
NewSpent(limit) == [limit |-> limit, remaining |-> 0, refunded |-> 0]
Spent(gas) == gas.limit - gas.remaining

\* Mutant: a cost of one more than what remains is accepted.
AffordsOneMore(gas, cost) == cost <= gas.remaining + 1

\* record_cost, when it succeeds; it fails when ~Affords.
Affords(gas, cost) == cost <= gas.remaining
RecordCost(gas, cost) == [gas EXCEPT !.remaining = @ - cost]

EraseCost(gas, returned) == [gas EXCEPT !.remaining = @ + returned]
RecordRefund(gas, refund) == [gas EXCEPT !.refunded = @ + refund]

\* Mutant: the refund is not capped.
SetFinalRefundUncapped(gas) == gas

\* set_final_refund.  The cast of a negative refund to u64 makes it larger
\* than any bound.
SetFinalRefund(gas) ==
    LET cap == Spent(gas) \div RefundQuotient
    IN  [gas EXCEPT !.refunded = IF @ < 0 \/ @ > cap THEN cap ELSE @]

\* sstore_refund (crates/interpreter/src/gas/calc.rs), from London on.
SStoreRefund(orig, current, new) ==
    IF current = new THEN 0
    ELSE IF orig = current /\ new = 0 THEN ClearRefund
    ELSE (IF orig = 0 THEN 0
          ELSE IF current = 0 THEN 0 - ClearRefund
          ELSE IF new = 0 THEN ClearRefund ELSE 0)
         + (IF orig # new THEN 0
            ELSE IF orig = 0 THEN SetRefund ELSE ResetRefund)

-----------------------------------------------------------------------------
(* Results and frames                                                      *)

ReturnOk == {"Continue", "Stop", "Return", "SelfDestruct", "ReturnContract"}
ReturnRevert == {"Revert", "CallTooDeep", "OutOfFunds"}
ReturnError == {"OutOfGas", "InvalidJump", "StateChangeDuringStaticCall",
                "CallNotAllowedInsideStatic", "CreateCollision",
                "OverflowPayment", "PrecompileError",
                "CreateContractStartingWithEF", "CreateContractSizeLimit",
                "FatalExternalError"}
InstructionResult == ReturnOk \cup ReturnRevert \cup ReturnError \cup {"CallOrCreate"}

\* InterpreterAction.  A Return action is the absence of the others: run
\* turns the instruction result into one.
NoAction == [type |-> "None"]
CallAction(gas_limit, is_static, has_transfer) ==
    [type |-> "Call", gas_limit |-> gas_limit, is_static |-> is_static,
     has_transfer |-> has_transfer]
CreateAction(gas_limit) == [type |-> "Create", gas_limit |-> gas_limit]
EOFCreateAction(gas_limit) == [type |-> "EOFCreate", gas_limit |-> gas_limit]

\* Frame, with the fields of its interpreter.
NewFrame(kind, gas_limit, is_static, code) ==
    [kind |-> kind, gas |-> NewGas(gas_limit), instruction_result |-> "Continue",
     next_action |-> NoAction, is_static |-> is_static, code |-> code,
     checkpoint |-> storage]

InterpreterResult(r, gas) == [instruction_result |-> r, gas |-> gas]
NoResult == InterpreterResult("Continue", NewGas(0))

Top == call_stack[Len(call_stack)]
Callers == SubSeq(call_stack, 1, Len(call_stack) - 1)

Executing == status = "running" /\ Top.instruction_result = "Continue"

-----------------------------------------------------------------------------
(* Interpreter::run: steps of the newest frame                             *)

\* The newest frame becomes f; nothing else changes.
Becomes(f) ==
    /\ call_stack' = [call_stack EXCEPT ![Len(call_stack)] = f]
    /\ UNCHANGED <<status, contexts, depth, storage, original, tx, result>>

Halted(f, r) == [f EXCEPT !.instruction_result = r]

\* The instructions up to the next jump; none of them is free to repeat.
Instructions(cost) ==
    /\ Executing
    /\ Becomes(IF Affords(Top.gas, cost)
               THEN [Top EXCEPT !.gas = RecordCost(@, cost)]
               ELSE Halted(Top, "OutOfGas"))

\* STOP and failures leave next_action alone, RETURN and REVERT set it.
Halt(r) ==
    /\ Executing
    /\ Becomes([Halted(Top, r) EXCEPT
                   !.next_action = IF r \in {"Return", "Revert"} THEN NoAction ELSE @])

\* sstore_cost refuses to write with no more than the stipend left.
PaysForStore(gas, cost) == gas.remaining > CallStipend /\ Affords(gas, cost)

\* sstore: the store comes before the payment.
SStore(k, new, cost) ==
    /\ Executing
    /\ IF Top.is_static THEN Becomes(Halted(Top, "StateChangeDuringStaticCall"))
       ELSE /\ storage' = [storage EXCEPT ![k] = new]
            /\ call_stack' =
                  [call_stack EXCEPT ![Len(call_stack)] =
                      IF PaysForStore(Top.gas, cost)
                      THEN [Top EXCEPT !.gas =
                               RecordRefund(RecordCost(@, cost),
                                            SStoreRefund(original[k], storage[k], new))]
                      ELSE Halted(Top, "OutOfGas")]
            /\ UNCHANGED <<status, contexts, depth, original, tx, result>>

\* selfdestruct; storage is dropped only when the transaction is committed.
SelfDestruct(cost) ==
    /\ Executing
    /\ Top.code = "legacy"
    /\ Becomes(IF Top.is_static THEN Halted(Top, "StateChangeDuringStaticCall")
               ELSE IF Affords(Top.gas, cost)
               THEN [Halted(Top, "SelfDestruct") EXCEPT !.gas = RecordCost(@, cost)]
               ELSE Halted(Top, "OutOfGas"))

\* calc_call_gas after the cost of the call: all but a 64th part at most.
CalcCallGas(remaining, local_gas_limit) ==
    LET most == remaining - remaining \div CallDivisor
    IN  IF local_gas_limit < most THEN local_gas_limit ELSE most

\* Mutant: a delegate call forgets that its caller is static.
CallDropsStatic(scheme, has_transfer, access_cost, local_gas_limit) ==
    LET paid == RecordCost(Top.gas, access_cost)
        gas_limit == CalcCallGas(paid.remaining, local_gas_limit)
    IN  /\ Executing /\ ~has_transfer
        /\ Top.code = "legacy"
        /\ Affords(Top.gas, access_cost)
        /\ Becomes([Halted(Top, "CallOrCreate") EXCEPT
                       !.gas = RecordCost(paid, gas_limit),
                       !.next_action =
                          CallAction(gas_limit,
                                     \/ scheme = "StaticCall"
                                     \/ Top.is_static /\ scheme # "DelegateCall", FALSE)])

\* Mutant: the gas handed to the callee is not taken from the caller.
CallHandsOutGas(scheme, has_transfer, access_cost, local_gas_limit) ==
    LET paid == RecordCost(Top.gas, access_cost)
        gas_limit == CalcCallGas(paid.remaining, local_gas_limit)
    IN  /\ Executing /\ ~has_transfer
        /\ Top.code = "legacy"
        /\ Affords(Top.gas, access_cost)
        /\ Becomes([Halted(Top, "CallOrCreate") EXCEPT
                       !.gas = paid,
                       !.next_action = CallAction(gas_limit, Top.is_static, FALSE)])

\* Mutant: reaching the callee's account costs nothing.
CallWithoutAccessCost(scheme, has_transfer, access_cost, local_gas_limit) ==
    LET gas_limit == CalcCallGas(Top.gas.remaining, local_gas_limit)
    IN  /\ Executing /\ ~has_transfer
        /\ Top.code = "legacy"
        /\ Becomes([Halted(Top, "CallOrCreate") EXCEPT
                       !.gas = RecordCost(@, gas_limit),
                       !.next_action = CallAction(gas_limit, Top.is_static, FALSE)])

\* call, call_code, delegate_call and static_call.  The caller pays for the
\* call and for the gas it hands over; the stipend comes on top.
Call(scheme, has_transfer, access_cost, local_gas_limit) ==
    LET cost == access_cost + (IF has_transfer THEN CallValueCost ELSE 0)
        paid == RecordCost(Top.gas, cost)
        gas_limit == CalcCallGas(paid.remaining, local_gas_limit)
    IN  /\ Executing
        /\ Top.code = "legacy"
        /\ has_transfer => scheme \in {"Call", "CallCode"}
        /\ Becomes(
              IF scheme = "Call" /\ Top.is_static /\ has_transfer
              THEN Halted(Top, "CallNotAllowedInsideStatic")
              ELSE IF ~Affords(Top.gas, cost) THEN Halted(Top, "OutOfGas")
              ELSE [Halted(Top, "CallOrCreate") EXCEPT
                       !.gas = RecordCost(paid, gas_limit),
                       !.next_action =
                          CallAction(gas_limit + (IF has_transfer THEN CallStipend ELSE 0),
                                     Top.is_static \/ scheme = "StaticCall",
                                     has_transfer)])

\* create, for CREATE and CREATE2.
Create(cost) ==
    LET paid == RecordCost(Top.gas, cost)
        gas_limit == paid.remaining - paid.remaining \div CallDivisor
    IN  /\ Executing
        /\ Top.code = "legacy"
        /\ Becomes(
              IF Top.is_static THEN Halted(Top, "StateChangeDuringStaticCall")
              ELSE IF ~Affords(Top.gas, cost) THEN Halted(Top, "OutOfGas")
              ELSE [Halted(Top, "CallOrCreate") EXCEPT
                       !.gas = RecordCost(paid, gas_limit),
                       !.next_action = CreateAction(gas_limit)])

-----------------------------------------------------------------------------
(* Opening frames                                                          *)

\* make_call_frame, when it ends without a frame: too deep, no code, a
\* precompile, or tokens that cannot be transferred (also those that the
\* native token precompile transfers, which refuses a static call).  Whatever
\* checkpoint it opened is closed again, and no slot has changed.
CallResults(inputs) ==
    LET gas == NewGas(inputs.gas_limit)
        at(r) == InterpreterResult(r, gas)
    IN  IF depth > CallStackLimit THEN {at("CallTooDeep")}
        ELSE {at("Stop"), at("PrecompileError")}
             \cup {InterpreterResult("Return", RecordCost(gas, c)) :
                      c \in {n \in Costs : Affords(gas, n)}}
             \cup (IF inputs.is_static /\ ~inputs.has_transfer THEN {}
                   ELSE {at("OutOfFunds"), at("OverflowPayment")})

\* make_create_frame and make_eofcreate_frame, likewise.  "Return" is the
\* answer to a nonce that cannot be increased.
CreateResults(gas_limit) ==
    IF depth > CallStackLimit
    THEN {InterpreterResult("CallTooDeep", NewGas(gas_limit))}
    ELSE {InterpreterResult(r, NewGas(gas_limit)) :
             r \in {"OutOfFunds", "Return", "CreateCollision", "OverflowPayment"}}

\* Calls run what the callee has; initcode is taken as it comes, and the
\* container of an EOFCREATE is EOF.
CodeOf(kind) ==
    CASE kind = "call" -> CodeKinds
      [] kind = "create" -> {"legacy"}
      [] OTHER -> {"eof"}

\* The frame of a call or a creation: its checkpoint raises the depth, and
\* the loop gives it a memory context.
OpenFrame(stack, kind, gas_limit, is_static) ==
    /\ depth <= CallStackLimit
    /\ \E code \in CodeOf(kind) :
          call_stack' = Append(stack, NewFrame(kind, gas_limit, is_static, code))
    /\ contexts' = contexts + 1
    /\ depth' = depth + 1
    /\ status' = "running"
    /\ UNCHANGED <<storage, original, result>>

-----------------------------------------------------------------------------
(* Taking results                                                          *)

\* Mutant: the refunds of a callee that reverted are kept.
InsertOutcomeKeepsRefunds(f, kind, r) ==
    [f EXCEPT !.instruction_result = IF kind = "eofcreate" THEN @ ELSE "Continue",
              !.gas = IF r.instruction_result \in ReturnOk \cup ReturnRevert
                      THEN RecordRefund(EraseCost(@, r.gas.remaining), r.gas.refunded)
                      ELSE @]

\* insert_call_outcome, insert_create_outcome and insert_eofcreate_outcome:
\* gas comes back unless the callee failed, refunds only if it succeeded.
\* The last of the three does not set the instruction result back.
InsertOutcome(f, kind, r) ==
    LET taken == [f EXCEPT !.instruction_result =
                              IF kind = "eofcreate" THEN @ ELSE "Continue"]
        ok == IF kind = "eofcreate" THEN {"ReturnContract"} ELSE ReturnOk
    IN  [taken EXCEPT !.gas =
            IF r.instruction_result \in ok
            THEN RecordRefund(EraseCost(@, r.gas.remaining), r.gas.refunded)
            ELSE IF r.instruction_result \in ReturnRevert
            THEN EraseCost(@, r.gas.remaining)
            ELSE @]

\* frame_return_with_refund_flag, for last_frame_return.
LastFrameReturn(r, gas_limit) ==
    LET spent == NewSpent(gas_limit)
        gas == IF r.instruction_result \in ReturnOk
               THEN RecordRefund(EraseCost(spent, r.gas.remaining), r.gas.refunded)
               ELSE IF r.instruction_result \in ReturnRevert
               THEN EraseCost(spent, r.gas.remaining)
               ELSE spent
    IN  InterpreterResult(r.instruction_result, SetFinalRefund(gas))

\* The loop hands a result to the caller, or ends with it.  Both panic on a
\* FatalExternalError: a failing database is expected to have ended the loop.
HandleResult(stack, kind, r) ==
    IF r.instruction_result = "FatalExternalError"
    THEN status' = "panic" /\ call_stack' = stack /\ UNCHANGED result
    ELSE IF stack = << >>
    THEN /\ call_stack' = << >>
         /\ status' = "done"
         /\ result' = LastFrameReturn(r, tx)
    ELSE /\ call_stack' = [stack EXCEPT ![Len(stack)] = InsertOutcome(@, kind, r)]
         /\ UNCHANGED <<status, result>>

\* run ends with a call or a creation to make.
Pending(type) ==
    /\ status = "running"
    /\ Top.instruction_result # "Continue"
    /\ Top.next_action.type = type

\* The stack with next_action taken from its newest frame.
ActionTaken == [call_stack EXCEPT ![Len(call_stack)].next_action = NoAction]

LoopCall ==
    /\ Pending("Call")
    /\ UNCHANGED tx
    /\ \/ OpenFrame(ActionTaken, "call", Top.next_action.gas_limit, Top.next_action.is_static)
       \/ \E r \in CallResults(Top.next_action) :
             /\ HandleResult(ActionTaken, "call", r)
             /\ UNCHANGED <<contexts, depth, storage, original>>

LoopCreate ==
    /\ Pending("Create")
    /\ UNCHANGED tx
    /\ \/ OpenFrame(ActionTaken, "create", Top.next_action.gas_limit, FALSE)
       \/ \E r \in CreateResults(Top.next_action.gas_limit) :
             /\ HandleResult(ActionTaken, "create", r)
             /\ UNCHANGED <<contexts, depth, storage, original>>

\* create_return: what becomes of a frame that ends well depends on the code
\* it returns.
CreateReturn(f) ==
    {InterpreterResult(r, f.gas) :
        r \in {"CreateContractStartingWithEF", "CreateContractSizeLimit"}}
    \cup {IF Affords(f.gas, c) THEN InterpreterResult("Return", RecordCost(f.gas, c))
          ELSE InterpreterResult("OutOfGas", f.gas) : c \in DepositCosts}

FrameResults(f) ==
    IF f.kind = "create" /\ f.instruction_result \in ReturnOk THEN CreateReturn(f)
    ELSE {InterpreterResult(f.instruction_result, f.gas)}

\* Mutant: a frame that reverts is committed.
CommitsUnlessError(kind, r) == r.instruction_result \notin ReturnError

\* call_return, create_return and eofcreate_return: commit or revert.
Commits(kind, r) ==
    r.instruction_result \in (IF kind = "eofcreate" THEN {"ReturnContract"} ELSE ReturnOk)

\* Mutant: the memory context is freed only when the frame succeeds.
LoopReturnKeepsContext ==
    /\ Pending("None")
    /\ contexts' = IF Top.instruction_result \in ReturnOk THEN contexts - 1 ELSE contexts
    /\ depth' = depth - 1
    /\ UNCHANGED <<original, tx>>
    /\ \E r \in FrameResults(Top) :
          /\ storage' = IF Commits(Top.kind, r) THEN storage ELSE Top.checkpoint
          /\ HandleResult(Callers, Top.kind, r)

LoopReturn ==
    /\ Pending("None")
    /\ contexts' = contexts - 1
    /\ depth' = depth - 1
    /\ UNCHANGED <<original, tx>>
    /\ \E r \in FrameResults(Top) :
          /\ storage' = IF Commits(Top.kind, r) THEN storage ELSE Top.checkpoint
          /\ HandleResult(Callers, Top.kind, r)

-----------------------------------------------------------------------------
(* Transactions (Evm::transact)                                            *)

\* transact_preverified_inner up to run_the_loop: most transactions open a
\* frame, a transfer or a precompile has its result at once.
Transact(gas_limit, has_transfer) ==
    LET inputs == CallAction(gas_limit - InitialGasSpend, FALSE, has_transfer)
    IN  /\ status = "idle"
        /\ tx' = gas_limit
        /\ \/ \E kind \in {"call", "create"} :
                 OpenFrame(<< >>, kind, inputs.gas_limit, FALSE)
           \/ \E r \in CallResults(inputs) \cup CreateResults(inputs.gas_limit) :
                 /\ status' = "done"
                 /\ result' = LastFrameReturn(r, gas_limit)
                 /\ UNCHANGED <<call_stack, contexts, depth, storage, original>>

\* output, then clear: the state is handed out and may be committed, without
\* the storage of accounts that were destroyed.
Output(committed, destroyed) ==
    /\ status = "done"
    /\ status' = "idle"
    /\ original' = IF committed THEN [k \in Slot |-> IF k \in destroyed THEN 0 ELSE storage[k]]
                   ELSE original
    /\ storage' = original'
    /\ UNCHANGED <<call_stack, contexts, depth, tx, result>>

\* The database fails in the middle of the loop: the error leaves the loop
\* with `?', and transact clears the journal.
DatabaseError ==
    /\ status = "running"
    /\ status' = "idle"
    /\ call_stack' = << >>
    /\ contexts' = 0
    /\ depth' = 0
    /\ storage' = original
    /\ result' = NoResult
    /\ UNCHANGED <<original, tx>>

-----------------------------------------------------------------------------
Init ==
    /\ status = "idle"
    /\ call_stack = << >>
    /\ contexts = 0
    /\ depth = 0
    /\ original \in Storage
    /\ storage = original
    /\ tx \in TxGasLimits
    /\ result = NoResult

Step ==
    \/ \E c \in Costs : Instructions(c) \/ SelfDestruct(c) \/ Create(c)
    \/ \E r \in {"Stop", "Return", "Revert", "InvalidJump"} : Halt(r)
    \/ \E k \in Slot, new \in Word, c \in Costs : SStore(k, new, c)
    \/ \E s \in {"Call", "CallCode", "DelegateCall", "StaticCall"}, b \in BOOLEAN,
          c \in Costs, l \in CallGasLimits : Call(s, b, c, l)
    \/ LoopCall
    \/ LoopCreate
    \/ LoopReturn

Next ==
    \/ Step
    \/ \E g \in TxGasLimits, b \in BOOLEAN : Transact(g, b)
    \/ \E b \in BOOLEAN, d \in SUBSET Slot : Output(b, d)
    \/ DatabaseError

\* The loop is sequential code: once it runs, it keeps running.
Spec == Init /\ [][Next]_vars /\ WF_vars(Step)

-----------------------------------------------------------------------------
(* Properties                                                              *)

Gas == [limit : Nat, remaining : Nat, refunded : Int]
Action ==
    {NoAction}
    \cup [type : {"Call"}, gas_limit : Nat, is_static : BOOLEAN, has_transfer : BOOLEAN]
    \cup [type : {"Create", "EOFCreate"}, gas_limit : Nat]
Frame ==
    [kind : {"call", "create", "eofcreate"}, gas : Gas,
     instruction_result : InstructionResult, next_action : Action,
     is_static : BOOLEAN, code : {"legacy", "eof"}, checkpoint : Storage]

\* The call stack, the counters and the storage have their types; no gas
\* counter has gone below zero, where the u64 of the code would wrap.
TypeOK ==
    /\ status \in {"idle", "running", "done", "panic"}
    /\ call_stack \in Seq(Frame)
    /\ contexts \in Nat /\ depth \in Nat
    /\ storage \in Storage /\ original \in Storage
    /\ tx \in TxGasLimits
    /\ result \in [instruction_result : InstructionResult, gas : Gas]

\* Three stacks that are kept apart in the code stay in step: the frames of
\* run_the_loop, the contexts of the shared memory and the checkpoints of
\* the journal.  They never get deeper than CALL_STACK_LIMIT + 1, and every
\* frame but the newest waits for the result of the one above it.
StacksAgree ==
    /\ contexts = Len(call_stack)
    /\ depth = Len(call_stack)
    /\ status = "running" <=> call_stack # << >>
    /\ Len(call_stack) <= CallStackLimit + 1
    /\ \A k \in 1 .. Len(call_stack) - 1 :
          /\ call_stack[k].instruction_result = "CallOrCreate"
          /\ call_stack[k].next_action = NoAction

\* The gas a frame has promised to its callee.
Promised(k) ==
    IF k < Len(call_stack) THEN call_stack[k + 1].gas.limit
    ELSE IF call_stack[k].next_action = NoAction THEN 0
    ELSE call_stack[k].next_action.gas_limit

\* No gas is made: what a frame keeps and what it has handed to its callee
\* is within its own limit, although the callee gets a stipend nobody paid
\* for by that name, and the outermost limit is within the transaction's.
\* In the end at least the intrinsic gas and at most the limit is spent.
GasConserved ==
    /\ \A k \in DOMAIN call_stack :
          call_stack[k].gas.remaining + Promised(k) <= call_stack[k].gas.limit
    /\ call_stack # << >> => call_stack[1].gas.limit <= tx - InitialGasSpend
    /\ status = "done" =>
          /\ result.gas.limit = tx
          /\ Spent(result.gas) \in InitialGasSpend .. tx

\* What clearing slots has earned so far, if s is the storage.
Earned(s) == ClearRefund * Cardinality({k \in Slot : original[k] # 0 /\ s[k] = 0})

\* The storage a frame has handed over or is working on.
After(k) == IF k < Len(call_stack) THEN call_stack[k + 1].checkpoint ELSE storage

\* The refund counter of a frame covers what its own writes, and those of
\* the callees it took over, have earned: a later write can take back no
\* more than what is on the counters of the frames that will be kept.  With
\* Earned(original) = 0 this is the answer to "how is it made sure that by
\* the end of the tx, self.refunded is positive?".
RefundsCovered ==
    \A k \in DOMAIN call_stack :
        call_stack[k].instruction_result \notin ReturnError =>
            call_stack[k].gas.refunded >= Earned(After(k)) - Earned(call_stack[k].checkpoint)

\* The refund of a finished transaction is between zero and a fifth of the
\* gas spent, so spent() - refunded() as u64 does not wrap.
RefundBounded ==
    status = "done" => result.gas.refunded \in 0 .. Spent(result.gas) \div RefundQuotient

\* Under a static frame there are only static calls, and no slot has changed
\* since it began.
StaticFramesWriteNothing ==
    \A k \in DOMAIN call_stack :
        call_stack[k].is_static =>
            /\ storage = call_stack[k].checkpoint
            /\ \A l \in k .. Len(call_stack) :
                  call_stack[l].is_static /\ call_stack[l].kind = "call"

\* A transaction that does not succeed leaves every slot as it was, however
\* many of its frames had succeeded.
FailureLeavesNoTrace ==
    status = "done" /\ result.instruction_result \notin ReturnOk => storage = original

\* Every transaction comes to an end, for gas runs out.
TransactionEnds == status = "running" ~> status # "running"
=============================================================================
