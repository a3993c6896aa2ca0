\* Native tokens: loading, transfers, mint and burn under nested frames.
SPECIFICATION Spec
CONSTANTS
    contract = contract
    other = other
    fresh = fresh
    base = base
    tok = tok
    code = code
    Address <- MCTwo
    NoAddress = NoAddress
    Absent = Absent
    TokenId = {base, tok}
    BaseToken = base
    SubId = {0}
    TokenIdAddress <- MCTokenIdAddress
    Slot = {}
    Word = {0}
    Code = {code}
    AccessList = {}
    NoCode = NoCode
    MaxU256 = 2
    MaxNonce = 1
    Precompile3 = other
    WarmPreloaded = {}
    IsCancun = TRUE
    Databases <- MCTokenDatabases
    Transfers <- MCTransfers
    Amounts = {2}
    MaxVectors = 3
    MaxEntries = 4
    MaxLogs = 0
INVARIANTS TypeOK SupplyAccounted
PROPERTIES ImplementsSnapshots
