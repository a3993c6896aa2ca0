\* Two calls of the library over mainnet and Optimism environments, or three that
\* fetch or set the L1 data, with a database that may fail.  The caller may stop.
SPECIFICATION Spec
CONSTANTS
    None = None
    sender = sender
    target = target
    created = created
    miner = miner
    l1vault = l1vault
    basevault = basevault
    base = base
    tok = tok
    bad = bad
    Address = {sender, target, created, miner, l1vault, basevault}
    Created = created
    L1Vault = l1vault
    BaseVault = basevault
    TokenId = {base, tok, bad}
    BaseToken = base
    ValidTokens = {base, tok}
    MaxU256 = 268435455
    Million = 100
    FlzCoef = 84
    FlzIntercept = 4259
    FlzMinSize = 10000
    FlzSize <- MCFlzSize
    Envs <- MCEnvs
    Databases <- MCDatabases
    L1Slots <- MCL1Slots
    GasLeft <- MCGasLeft
    Refunds = {0, 9000}
    MaxNonce = 4
    Weight <- MCWeight
    MaxWeight = 6
INVARIANT BaseFeeSent
CHECK_DEADLOCK FALSE
