\* The precompile starts a frame in an account that no value was moved to.
SPECIFICATION TokensSpec
CONSTANTS
    sender = sender
    contract = contract
    callee = callee
    fresh = fresh
    precompile = precompile
    base = base
    tok = tok
    toc = toc
    code = code
    Address = {sender, contract, callee, fresh, precompile}
    Sender = sender
    Targets = {contract, callee}
    Fresh = {fresh, callee}
    PrecompileAddress = precompile
    Calldata <- MCCalldata
    UsizeRange = 64
    MaxCapacity = 32
    CallStackLimit = 2
    MaxTransactions = 2
    MaxSteps = 2
    NoAddress = NoAddress
    Absent = Absent
    TokenId = {base, tok, toc}
    BaseToken = base
    SubId = {0}
    TokenIdAddress <- MCTokenIdAddress
    Slot = {0}
    Word = {0, 1}
    Code = {code}
    AccessList = {}
    NoCode = NoCode
    MaxU256 = 2
    MaxNonce = 2
    Precompile3 = NoAddress
    WarmPreloaded = {precompile}
    IsCancun = FALSE
    Databases <- MCDatabases
    Transfers <- MCTransfers
    Amounts = {1}
    MaxVectors = 9
    MaxEntries = 9
    MaxLogs = 0
INVARIANT ChangesAreTouched
CHECK_DEADLOCK FALSE
