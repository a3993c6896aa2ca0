\* Calls, creations, storage writes and returns, three frames deep: gas, stacks,
\* refunds, static frames, reverts and termination.
SPECIFICATION Spec
CONSTANTS
    Slot = {k}
    Word = {0, 1}
    TxGasLimits = {6}
    InitialGasSpend = 1
    Costs = {1}
    CallGasLimits = {2, 9}
    CallDivisor = 4
    CallValueCost = 2
    CallStipend = 1
    DepositCosts = {0, 2}
    ClearRefund = 2
    SetRefund = 1
    ResetRefund = 1
    RefundQuotient = 2
    CallStackLimit = 2
    CodeKinds = {"legacy"}
INVARIANTS TypeOK StacksAgree GasConserved
           RefundsCovered RefundBounded StaticFramesWriteNothing FailureLeavesNoTrace
PROPERTIES TransactionEnds
