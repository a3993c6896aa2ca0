-------------------------------- MODULE Env --------------------------------
(***************************************************************************)
(* The environment of a transaction and its validation: Env, CfgEnv,       *)
(* BlockEnv and TxEnv of crates/primitives/src/env.rs, the SpecId order of *)
(* specification.rs and the intrinsic gas of interpreter/src/gas/calc.rs.  *)
(*                                                                         *)
(* An environment is one record: `cfg`, `block` and `tx` with the fields   *)
(* of the structs.  Call data is its number of zero and of other bytes, an *)
(* access list the number of its addresses and of its keys, a blob hash    *)
(* whether its version is VERSIONED_HASH_VERSION_KZG.                      *)
(***************************************************************************)
EXTENDS Naturals, Sequences, FiniteSets

CONSTANTS
    None,       \* Option::None
    Address,    \* the accounts
    TokenId,    \* the token ids
    BaseToken,  \* BASE_TOKEN_ID
    MaxU256     \* U256::MAX, scaled down

\* The errors of InvalidHeader and InvalidTransaction that Env returns.
InvalidTransaction ==
    {"PrevrandaoNotSet", "ExcessBlobGasNotSet", "PriorityFeeGreaterThanMaxFee",
     "GasPriceLessThanBasefee", "CallerGasLimitMoreThanBlock", "CreateInitCodeSizeLimit",
     "InvalidChainId", "AccessListNotSupported", "BlobGasPriceGreaterThanMax", "EmptyBlobs",
     "BlobCreateTransaction", "BlobVersionNotSupported", "TooManyBlobs",
     "BlobVersionedHashesNotSupported", "MaxFeePerBlobGasNotSupported", "TokenIdsNotUnique",
     "RejectCallerWithCode", "NonceTooHigh", "NonceTooLow", "OverflowPaymentInTransaction",
     "LackOfFundForMaxFee", "NotEnoughTokenBalanceForTransfer"}

ASSUME EnvAssumption ==
    /\ None \notin InvalidTransaction
    /\ BaseToken \in TokenId
    /\ MaxU256 \in Nat

-----------------------------------------------------------------------------
(* SpecId, in the numbering of the optimism feature                        *)

FRONTIER == 0
HOMESTEAD == 2
ISTANBUL == 9
BERLIN == 11
LONDON == 12
MERGE == 15
BEDROCK == 16
REGOLITH == 17
SHANGHAI == 18
CANYON == 19
CANCUN == 20
ECOTONE == 21
FJORD == 22
PRAGUE == 23

Enabled(our, other) == our >= other

-----------------------------------------------------------------------------
(* U256 arithmetic.  The products are compared before they are computed:   *)
(* TLC's own integers are small as well.                                   *)

MulFits(a, b) == b = 0 \/ a <= MaxU256 \div b
AddFits(a, b) == a <= MaxU256 - b

SaturatingMul(a, b) == IF MulFits(a, b) THEN a * b ELSE MaxU256
SaturatingAdd(a, b) == IF AddFits(a, b) THEN a + b ELSE MaxU256
SaturatingSub(a, b) == IF a < b THEN 0 ELSE a - b

\* `+` and `*` of U256 wrap around; MaxU256 + 1 is the modulus.
WrappingAdd(a, b) == (a + b) % (MaxU256 + 1)
WrappingMul(a, b) ==
    LET times[k \in Nat] ==
            IF k = 0 THEN 0
            ELSE LET half == times[k \div 2]
                 IN  WrappingAdd(WrappingAdd(half, half), IF k % 2 = 1 THEN a ELSE 0)
    IN  times[b]

Unwrap(option, default) == IF option = None THEN default ELSE option

-----------------------------------------------------------------------------
(* The environment                                                         *)

Option(S) == {None} \cup S

CfgEnv ==
    [spec : FRONTIER .. PRAGUE, is_optimism : BOOLEAN, chain_id : Nat,
     limit_contract_code_size : Option(Nat), disable_base_fee : BOOLEAN,
     disable_block_gas_limit : BOOLEAN, disable_eip3607 : BOOLEAN,
     disable_balance_check : BOOLEAN, disable_gas_refund : BOOLEAN]

BlockEnv ==
    [basefee : Nat, gas_limit : Nat, coinbase : Address, prevrandao : BOOLEAN,
     blob_gasprice : Option(Nat)]

\* transact_to is None for a creation; source_hash is whether there is one, and
\* is_system_transaction is unwrap_or(false).
TxEnv ==
    [caller : Address, gas_limit : Nat, gas_price : Nat, gas_priority_fee : Option(Nat),
     transact_to : Option(Address), data : [zero : Nat, nonzero : Nat], nonce : Option(Nat),
     chain_id : Option(Nat), access_list : [addresses : Nat, keys : Nat],
     blob_hashes : Seq(BOOLEAN), max_fee_per_blob_gas : Option(Nat),
     transferred_tokens : Seq([id : TokenId, amount : Nat]),
     source_hash : BOOLEAN, mint : Option(Nat), is_system_transaction : BOOLEAN,
     enveloped_tx : Option(Seq(Nat))]

-----------------------------------------------------------------------------
(* Prices                                                                  *)

GasPerBlob == 131072
MaxBlobNumberPerBlock == 6
MaxInitcodeSize == 49152

\* Mutant: the price is not capped by what the transaction offers.
EffectiveGasPriceUncapped(env) ==
    IF env.tx.gas_priority_fee = None THEN env.tx.gas_price
    ELSE WrappingAdd(env.block.basefee, env.tx.gas_priority_fee)

\* min(gas_price, basefee + priority_fee), the sum wrapping.
EffectiveGasPrice(env) ==
    IF env.tx.gas_priority_fee = None THEN env.tx.gas_price
    ELSE LET tip == WrappingAdd(env.block.basefee, env.tx.gas_priority_fee)
         IN  IF tip < env.tx.gas_price THEN tip ELSE env.tx.gas_price

TotalBlobGas(env) == GasPerBlob * Len(env.tx.blob_hashes)
CalcDataFee(env) == SaturatingMul(env.block.blob_gasprice, TotalBlobGas(env))
CalcMaxDataFee(env) ==
    IF env.tx.max_fee_per_blob_gas = None THEN None
    ELSE SaturatingMul(env.tx.max_fee_per_blob_gas, TotalBlobGas(env))

\* The first transfer of the base token, if there is one.
BaseTransferValue(env) ==
    LET paying == {i \in DOMAIN env.tx.transferred_tokens :
                    env.tx.transferred_tokens[i].id = BaseToken}
    IN  IF paying = {} THEN 0
        ELSE env.tx.transferred_tokens[CHOOSE i \in paying : \A k \in paying : i <= k].amount

IsCreate(env) == env.tx.transact_to = None

-----------------------------------------------------------------------------
(* Validation.  Each definition is the error the function returns, None    *)
(* when it returns Ok.                                                     *)

ValidateBlockEnv(env) ==
    IF Enabled(env.cfg.spec, MERGE) /\ ~env.block.prevrandao THEN "PrevrandaoNotSet"
    ELSE IF Enabled(env.cfg.spec, CANCUN) /\ env.block.blob_gasprice = None
    THEN "ExcessBlobGasNotSet"
    ELSE None

\* The first of a sequence of checks <<error, whether it is met>> to be met.
FirstError(checks) ==
    IF \E i \in DOMAIN checks : checks[i][2]
    THEN checks[CHOOSE i \in DOMAIN checks :
                    checks[i][2] /\ \A k \in 1 .. i - 1 : ~checks[k][2]][1]
    ELSE None

OrElse(error, next) == IF error # None THEN error ELSE next

DataLen(env) == env.tx.data.zero + env.tx.data.nonzero

FeeChecks(env) ==
    << <<"PriorityFeeGreaterThanMaxFee",
         /\ env.tx.gas_priority_fee # None
         /\ env.tx.gas_priority_fee > env.tx.gas_price>>,
       <<"GasPriceLessThanBasefee",
         /\ ~env.cfg.disable_base_fee
         /\ EffectiveGasPrice(env) < env.block.basefee>> >>

BlobChecks(env) ==
    IF env.tx.max_fee_per_blob_gas = None THEN << >>
    ELSE << <<"BlobGasPriceGreaterThanMax", env.block.blob_gasprice > env.tx.max_fee_per_blob_gas>>,
            <<"EmptyBlobs", env.tx.blob_hashes = << >> >>,
            <<"BlobCreateTransaction", IsCreate(env)>>,
            <<"BlobVersionNotSupported",
              \E i \in DOMAIN env.tx.blob_hashes : ~env.tx.blob_hashes[i]>>,
            <<"TooManyBlobs", Len(env.tx.blob_hashes) > MaxBlobNumberPerBlock>> >>

NoBlobChecks(env) ==
    << <<"BlobVersionedHashesNotSupported", env.tx.blob_hashes # << >> >>,
       <<"MaxFeePerBlobGasNotSupported", env.tx.max_fee_per_blob_gas # None>> >>

ValidateTx(env) ==
    LET spec == env.cfg.spec
        tokens == env.tx.transferred_tokens
        general ==
            << <<"CallerGasLimitMoreThanBlock",
                 ~env.cfg.disable_block_gas_limit /\ env.tx.gas_limit > env.block.gas_limit>>,
               <<"CreateInitCodeSizeLimit",
                 /\ Enabled(spec, SHANGHAI)
                 /\ IsCreate(env)
                 /\ DataLen(env) > IF env.cfg.limit_contract_code_size = None
                                   THEN MaxInitcodeSize
                                   ELSE 2 * env.cfg.limit_contract_code_size>>,
               <<"InvalidChainId",
                 env.tx.chain_id # None /\ env.tx.chain_id # env.cfg.chain_id>>,
               <<"AccessListNotSupported",
                 ~Enabled(spec, BERLIN) /\ env.tx.access_list.addresses > 0>> >>
        fees == IF Enabled(spec, LONDON) THEN FirstError(FeeChecks(env)) ELSE None
        blobs == FirstError(IF Enabled(spec, CANCUN) THEN BlobChecks(env) ELSE NoBlobChecks(env))
        ids == FirstError(<< <<"TokenIdsNotUnique",
                               Cardinality({tokens[i].id : i \in DOMAIN tokens}) # Len(tokens)>> >>)
    IN  OrElse(fees, OrElse(FirstError(general), OrElse(blobs, ids)))

\* gas::validate_initial_tx_gas.
InitialGas(env) ==
    LET spec == env.cfg.spec
        data == env.tx.data
    IN    data.zero * 4
        + data.nonzero * (IF Enabled(spec, ISTANBUL) THEN 16 ELSE 68)
        + (IF Enabled(spec, BERLIN)
           THEN env.tx.access_list.addresses * 2400 + env.tx.access_list.keys * 1900 ELSE 0)
        + (IF IsCreate(env) /\ Enabled(spec, HOMESTEAD) THEN 53000 ELSE 21000)
        + (IF IsCreate(env) /\ Enabled(spec, SHANGHAI)
           THEN 2 * ((DataLen(env) + 31) \div 32) ELSE 0)

\* gas_limit * gas_price + value + max data fee with checked operations; None
\* is OverflowPaymentInTransaction.
RequiredBaseBalance(env) ==
    LET gas == env.tx.gas_limit * env.tx.gas_price
        value == BaseTransferValue(env)
        fee == IF Enabled(env.cfg.spec, CANCUN) THEN Unwrap(CalcMaxDataFee(env), 0) ELSE 0
    IN  IF /\ MulFits(env.tx.gas_limit, env.tx.gas_price)
           /\ AddFits(gas, value)
           /\ AddFits(gas + value, fee)
        THEN gas + value + fee
        ELSE None

\* Env::validate_tx_against_state: the error and the account, whose balance is
\* raised when balance checks are disabled.
ValidateTxAgainstState(env, account) ==
    LET required == RequiredBaseBalance(env)
        tokens == env.tx.transferred_tokens
        Lacks(i) == /\ tokens[i].id # BaseToken
                    /\ account.balances[tokens[i].id] < tokens[i].amount
        short == required # None /\ required > account.balances[BaseToken]
        error ==
            FirstError(<< <<"RejectCallerWithCode", ~env.cfg.disable_eip3607 /\ account.code>>,
                          <<"NonceTooHigh", env.tx.nonce # None /\ env.tx.nonce > account.nonce>>,
                          <<"NonceTooLow", env.tx.nonce # None /\ env.tx.nonce < account.nonce>>,
                          <<"OverflowPaymentInTransaction", required = None>>,
                          <<"LackOfFundForMaxFee", short /\ ~env.cfg.disable_balance_check>>,
                          <<"NotEnoughTokenBalanceForTransfer",
                            \E i \in DOMAIN tokens : Lacks(i)>> >>)
    IN  [error |-> error,
         account |-> IF short /\ env.cfg.disable_balance_check
                     THEN [account EXCEPT !.balances[BaseToken] = required]
                     ELSE account]
=============================================================================
