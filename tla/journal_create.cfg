\* Creation, storage, transient storage, selfdestruct and logs under nested frames.
SPECIFICATION Spec
CONSTANTS
    contract = contract
    other = other
    fresh = fresh
    base = base
    tok = tok
    code = code
    Address <- MCTwo
    NoAddress = NoAddress
    Absent = Absent
    TokenId = {base}
    BaseToken = base
    SubId = {}
    TokenIdAddress <- MCTokenIdAddress
    Slot = {0}
    Word = {0, 1}
    Code = {code}
    AccessList = {contract}
    NoCode = NoCode
    MaxU256 = 2
    MaxNonce = 2
    Precompile3 = Precompile3
    WarmPreloaded = {}
    IsCancun = TRUE
    Databases <- MCStorageDatabases
    Transfers = {}
    Amounts = {1}
    MaxVectors = 3
    MaxEntries = 4
    MaxLogs = 1
INVARIANTS CheckpointsNested UnwrapsSucceed
PROPERTIES ImplementsSnapshots
