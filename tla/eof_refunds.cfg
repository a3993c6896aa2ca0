\* EOF frames next to legacy ones: refunds and reverts.
SPECIFICATION EofSpec
CONSTANTS
    Slot = {k}
    Word = {0, 1}
    TxGasLimits = {5}
    InitialGasSpend = 1
    Costs = {1}
    CallGasLimits = {9}
    CallDivisor = 4
    CallValueCost = 2
    CallStipend = 1
    DepositCosts = {1}
    ClearRefund = 2
    SetRefund = 1
    ResetRefund = 1
    RefundQuotient = 2
    CallStackLimit = 1
    MinRetainedGas = 1
    MinCalleeGas = 1
    CodeKinds = {"legacy", "eof"}
CHECK_DEADLOCK FALSE
INVARIANT RefundsCovered
