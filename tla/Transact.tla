------------------------------ MODULE Transact ------------------------------
(***************************************************************************)
(* Evm::preverify_transaction, transact and transact_preverified of        *)
(* crates/revm/src/evm.rs as the sequence of handlers they call, with the  *)
(* mainnet handlers of handler/mainnet and the Optimism ones of            *)
(* optimism/handler_register.rs, over a database that may fail to answer.  *)
(*                                                                         *)
(* What the frames do is left to CallFrames and JournaledState: here the   *)
(* first frame moves the transferred tokens, and ends with a result, some  *)
(* gas left and some refund.                                               *)
(***************************************************************************)
EXTENDS L1Cost, FiniteSetsExt

CONSTANTS
    Created,    \* the address a create transaction creates at
    L1Vault,    \* L1_FEE_RECIPIENT
    BaseVault,  \* BASE_FEE_RECIPIENT
    ValidTokens,\* those that is_token_id_valid accepts
    Envs,       \* the environments a caller may set
    Databases,  \* the initial databases
    L1Slots,    \* the values of the L1 block contract's slots
    GasLeft(_), \* what a frame with this limit may leave
    Refunds,    \* the refunds it may record
    MaxNonce,   \* u64::MAX
    Weight(_),  \* bound: what a call with this environment counts
    MaxWeight   \* bound: what all calls of the library count together

VARIABLES
    db,         \* the database's accounts
    slots,      \* the L1 block contract's storage
    call,       \* the call being processed: env and entry point
    pc,         \* the handler to run next
    journal,    \* the accounts JournaledState has loaded
    l1_block_info,
    gas,        \* Gas of the last frame, and the kind of its result
    output,     \* what transact_preverified_inner returned
    result,     \* what the caller was given
    start,      \* history: the database when the call began
    txs         \* the calls begun, weighted

Account == [balances : [TokenId -> 0 .. MaxU256], nonce : 0 .. MaxNonce, code : BOOLEAN]

\* The L1 block contract's slots, as TryFetch names them.
L1Slot == [base_fee : Nat, overhead : Nat, scalar : Nat, ecotone_scalar : Nat,
           blob_fee : Nat, blob_scalar : Nat]

\* The gas the first frame starts with.
FrameLimitOf(e) == e.tx.gas_limit - InitialGas(e)

\* What preverify_transaction gives its caller.
VerifiedResult(e) == [ok |-> TRUE, status |-> "verified", env |-> e]

ASSUME InputsAssumption ==
    /\ Envs \subseteq [cfg : CfgEnv, block : BlockEnv, tx : TxEnv]
    /\ Databases \subseteq [Address -> Account]
    /\ L1Slots \subseteq L1Slot
    /\ {MaxNonce, MaxWeight} \subseteq Nat
    /\ \A e \in Envs : Weight(e) \in Nat
    /\ {Created, L1Vault, BaseVault} \subseteq Address
    /\ \A e \in Envs : e.tx.enveloped_tx # None => FlzSize(e.tx.enveloped_tx) \in Nat
    /\ \A e \in Envs : None # VerifiedResult(e)

\* A frame leaves at most its limit.  Where Optimism's refunds are not capped,
\* see FrameReturn, it refunds at most what was spent: the code's `spent -
\* refunded' is taken not to underflow.
ASSUME GasAssumption ==
    /\ Refunds \subseteq Nat
    /\ \A e \in Envs : InitialGas(e) <= e.tx.gas_limit =>
           \A left \in GasLeft(FrameLimitOf(e)) :
               /\ left \in 0 .. FrameLimitOf(e)
               /\ e.cfg.is_optimism /\ e.cfg.disable_gas_refund =>
                      \A refund \in Refunds : refund <= e.tx.gas_limit - left

\* A transaction with blobs offers a price for them: the code takes the price
\* for what makes a blob transaction, and does not check that the others have no
\* blobs.  A deposit's block has a blob price: it is not validated, and
\* deduct_caller expects it to be.
ASSUME BlobAssumption ==
    \A e \in Envs : Enabled(e.cfg.spec, CANCUN) =>
        /\ e.tx.max_fee_per_blob_gas = None => e.tx.blob_hashes = << >>
        /\ e.cfg.is_optimism /\ e.tx.source_hash => e.block.blob_gasprice # None

vars == <<db, slots, call, pc, journal, l1_block_info, gas, output, result, start, txs>>

env == call.env
spec == call.env.cfg.spec
IsDeposit == call.env.tx.source_hash
IsOptimism == call.env.cfg.is_optimism
NoAccounts == << >>

NoAccount == [balances |-> [t \in TokenId |-> 0], nonce |-> 0, code |-> FALSE]

Init ==
    /\ db \in Databases
    /\ slots \in L1Slots
    /\ call = None
    /\ pc = "idle"
    /\ journal = NoAccounts
    /\ l1_block_info = None
    /\ gas = None
    /\ output = None
    /\ result = None
    /\ start = db
    /\ txs = 0

-----------------------------------------------------------------------------
(* Accounts and the journal                                                *)

WithTouch(account, touched) == [info |-> account, touched |-> touched]

\* load_account: the database is asked once.
Load(j, a) ==
    [x \in DOMAIN j \cup {a} |-> IF x \in DOMAIN j THEN j[x] ELSE WithTouch(db[x], FALSE)]
LoadFails(j, a) == a \notin DOMAIN j

Base(j, a) == j[a].info.balances[BaseToken]
SetBase(j, a, n) == [j EXCEPT ![a].info.balances[BaseToken] = n]
Touch(j, a) == [j EXCEPT ![a].touched = TRUE]
Bump(account) == [account EXCEPT !.nonce = IF @ < MaxNonce THEN @ + 1 ELSE @]

IncreaseSaturating(j, a, n) == SetBase(j, a, SaturatingAdd(Base(j, a), n))
IncreaseWrapping(j, a, n) == SetBase(j, a, WrappingAdd(Base(j, a), n))

\* What transfer leaves, its result, and the debit that no entry of the journal
\* undoes.
PaidWith(j, outcome, id, debit) ==
    [journal |-> j, outcome |-> outcome, id |-> id, debit |-> debit]

\* transfer, which touches both accounts, unless the sender has too little or
\* the receiver would have too much.
Pay(j, from, to, id, amount) ==
    LET less == [j EXCEPT ![from].info.balances[id] = @ - amount]
        received == less[to].info.balances[id] + amount
        more == [less EXCEPT ![to].info.balances[id] = received]
    IN  IF j[from].info.balances[id] < amount THEN PaidWith(j, "OutOfFunds", id, 0)
        ELSE IF received > MaxU256 THEN PaidWith(less, "OverflowPayment", id, amount)
        ELSE PaidWith(Touch(Touch(more, from), to), "Ok", id, 0)

\* The transfers of a call, in order, up to one that fails.
PayTurn(c, paid, n) ==
    IF paid.outcome # "Ok" THEN paid
    ELSE Pay(paid.journal, c.from, c.to, c.tokens[n].id, c.tokens[n].amount)
PayLoop == INSTANCE Iteration WITH Step <- PayTurn

PayAll(j, from, to, tokens) ==
    PayLoop!Iterate([from |-> from, to |-> to, tokens |-> tokens],
                    PaidWith(Touch(j, to), "Ok", BaseToken, 0), Len(tokens))

\* checkpoint_revert after a transfer that failed.
Unpaid(j, from, paid) ==
    [j EXCEPT ![from].info.balances[paid.id] = SaturatingSub(@, paid.debit)]

\* DatabaseCommit::commit writes the accounts that are touched.
Commit(state) == [a \in Address |-> IF a \in DOMAIN state /\ state[a].touched
                                    THEN state[a].info ELSE db[a]]

-----------------------------------------------------------------------------
(* Entering and leaving                                                    *)

Begin(mode, e) ==
    /\ pc = "idle"
    /\ txs + Weight(e) <= MaxWeight
    /\ mode = "preverified" => result = VerifiedResult(e)
    /\ call' = [mode |-> mode, env |-> e]
    /\ pc' = IF mode = "preverified" THEN "initial_tx_gas" ELSE "validate_env"
    /\ result' = None
    /\ start' = db
    /\ txs' = txs + Weight(e)
    /\ UNCHANGED <<db, slots, journal, l1_block_info, gas, output>>

\* Mutant: clear forgets the journal.
ClearNothing == journal' = journal

Clear == journal' = NoAccounts

\* A validation handler fails: clear, and the error is returned at once.
Reject(error) ==
    /\ Clear
    /\ pc' = "idle"
    /\ result' = [ok |-> FALSE, status |-> error, env |-> env]
    /\ call' = None
    /\ UNCHANGED <<db, slots, l1_block_info, gas, output, start, txs>>

\* A later handler fails: the error goes to the end handler.
Stop(error) ==
    /\ pc' = "end"
    /\ output' = [ok |-> FALSE, status |-> error]
    /\ gas' = None
    /\ UNCHANGED <<db, slots, call, journal, result, start, txs>>

Fail(error) == Stop(error) /\ UNCHANGED l1_block_info

Go(next) ==
    /\ pc' = next
    /\ UNCHANGED <<db, slots, call, output, result, start, txs>>

-----------------------------------------------------------------------------
(* Validation                                                              *)

EnvError ==
    LET block == ValidateBlockEnv(env)
    IN  IF IsOptimism /\ IsDeposit THEN None
        ELSE IF block # None THEN block
        ELSE IF IsOptimism /\ env.tx.is_system_transaction /\ Enabled(spec, REGOLITH)
        THEN "DepositSystemTxPostRegolith"
        ELSE ValidateTx(env)

ValidateEnv ==
    /\ pc = "validate_env"
    /\ IF EnvError # None THEN Reject(EnvError)
       ELSE /\ Go("initial_tx_gas")
            /\ UNCHANGED <<journal, l1_block_info, gas>>

InitialTxGas ==
    /\ pc = "initial_tx_gas"
    /\ IF InitialGas(env) > env.tx.gas_limit THEN Reject("CallGasCostMoreThanGasLimit")
       ELSE /\ Go(IF call.mode = "preverified" THEN "load_accounts" ELSE "tx_against_state")
            /\ UNCHANGED <<journal, l1_block_info, gas>>

\* preverify_transaction clears what it loaded and answers; transact goes on.
Verified(j) ==
    IF call.mode = "preverify"
    THEN /\ Clear
         /\ pc' = "idle"
         /\ result' = VerifiedResult(env)
         /\ call' = None
         /\ UNCHANGED <<db, slots, l1_block_info, gas, output, start, txs>>
    ELSE /\ journal' = j
         /\ Go("load_accounts")
         /\ UNCHANGED <<l1_block_info, gas>>

TxAgainstState ==
    LET tokens == env.tx.transferred_tokens
        loaded == Load(journal, env.tx.caller)
        checked == ValidateTxAgainstState(env, loaded[env.tx.caller].info)
    IN  /\ pc = "tx_against_state"
        /\ CASE IsOptimism /\ IsDeposit -> Verified(journal)
             [] OTHER ->
                \/ /\ \E i \in DOMAIN tokens : tokens[i].id \notin ValidTokens
                   /\ Reject("InvalidTokenId")
                \/ /\ \A i \in DOMAIN tokens : tokens[i].id \in ValidTokens
                   /\ \/ LoadFails(journal, env.tx.caller) /\ Reject("Database")
                      \/ checked.error # None /\ Reject(checked.error)
                      \/ /\ checked.error = None
                         /\ Verified([loaded EXCEPT ![env.tx.caller].info = checked.account])

-----------------------------------------------------------------------------
(* Before the execution                                                    *)

\* Mutant: the L1 data is fetched once and then kept.
FetchL1Once(info) == IF info = None /\ IsOptimism /\ ~IsDeposit THEN TryFetch(slots, spec) ELSE info

FetchL1(info) == IF IsOptimism /\ ~IsDeposit THEN TryFetch(slots, spec) ELSE info

\* The beneficiary, the account of EIP-2935 or one of the access list is not
\* there yet and has to be asked for.
InitialLoadsFail ==
    \/ Enabled(spec, SHANGHAI) /\ LoadFails(journal, env.block.coinbase)
    \/ Enabled(spec, PRAGUE)
    \/ env.tx.access_list.addresses # 0

\* The L1 data is stored before the accounts are loaded.
LoadAccounts ==
    /\ pc = "load_accounts"
    /\ \/ IsOptimism /\ ~IsDeposit /\ Fail("Database")
       \/ /\ InitialLoadsFail
          /\ Stop("Database")
          /\ l1_block_info' = FetchL1(l1_block_info)
       \/ /\ Go("deduct_caller")
          /\ l1_block_info' = FetchL1(l1_block_info)
          /\ journal' = IF Enabled(spec, SHANGHAI) THEN Load(journal, env.block.coinbase)
                        ELSE journal
          /\ UNCHANGED gas

\* Mutant: the nonce is bumped for creations too.
DeductCallerInnerBumpsAll(j) ==
    LET price == SaturatingMul(env.tx.gas_limit, EffectiveGasPrice(env))
        cost == IF Enabled(spec, CANCUN) THEN SaturatingAdd(price, CalcDataFee(env)) ELSE price
        paid == SetBase(j, env.tx.caller, SaturatingSub(Base(j, env.tx.caller), cost))
    IN  Touch([paid EXCEPT ![env.tx.caller].info = Bump(@)], env.tx.caller)

DeductCallerInner(j) ==
    LET price == SaturatingMul(env.tx.gas_limit, EffectiveGasPrice(env))
        cost == IF Enabled(spec, CANCUN) THEN SaturatingAdd(price, CalcDataFee(env)) ELSE price
        paid == SetBase(j, env.tx.caller, SaturatingSub(Base(j, env.tx.caller), cost))
        bumped == IF IsCreate(env) THEN paid
                  ELSE [paid EXCEPT ![env.tx.caller].info = Bump(@)]
    IN  Touch(bumped, env.tx.caller)

TxL1Cost == CalculateTxL1Cost(l1_block_info, env.tx.enveloped_tx, spec)

DeductCaller ==
    LET caller == env.tx.caller
        loaded == Load(journal, caller)
        minted == IF IsOptimism /\ env.tx.mint # None
                  THEN IncreaseWrapping(loaded, caller, env.tx.mint) ELSE loaded
        deducted == DeductCallerInner(minted)
    IN  /\ pc = "deduct_caller"
        /\ \/ LoadFails(journal, caller) /\ Fail("Database")
           \/ /\ IsOptimism /\ ~IsDeposit
              /\ \/ env.tx.enveloped_tx = None /\ Fail("Custom")
                 \/ /\ env.tx.enveloped_tx # None
                    /\ IF TxL1Cost > Base(deducted, caller) THEN Fail("LackOfFundForMaxFee")
                       ELSE /\ Go("execute")
                            /\ journal' = SetBase(deducted, caller,
                                                  Base(deducted, caller) - TxL1Cost)
                            /\ UNCHANGED <<l1_block_info, gas>>
           \/ /\ ~IsOptimism \/ IsDeposit
              /\ Go("execute")
              /\ journal' = deducted
              /\ UNCHANGED <<l1_block_info, gas>>

-----------------------------------------------------------------------------
(* The execution                                                           *)

FrameLimit == FrameLimitOf(env)

Returns(kind, left, refund) ==
    gas' = [kind |-> kind, limit |-> FrameLimit, remaining |-> left, refunded |-> refund]

\* The frame runs with `paid` and returns; `undone` is what it started from.
Run(paid, undone) ==
    \E kind \in {"ok", "revert", "halt"}, left \in GasLeft(FrameLimit), refund \in Refunds :
        /\ Returns(kind, left, refund)
        /\ journal' = IF kind = "ok" THEN paid ELSE undone
        /\ Go("last_frame_return")
        /\ UNCHANGED l1_block_info

\* make_call_frame: the tokens are moved, or the call reverts OutOfFunds or halts
\* with OverflowPayment.
ExecuteCall ==
    LET caller == env.tx.caller
        to == env.tx.transact_to
        loaded == Load(journal, to)
        paid == PayAll(loaded, caller, to, env.tx.transferred_tokens)
    IN  IF paid.outcome # "Ok"
        THEN /\ Returns(IF paid.outcome = "OutOfFunds" THEN "revert" ELSE "halt", FrameLimit, 0)
             /\ journal' = Unpaid(loaded, caller, paid)
             /\ Go("last_frame_return")
             /\ UNCHANGED l1_block_info
        ELSE Run(paid.journal, loaded)

\* make_create_frame: OutOfFunds before the nonce is bumped, and a nonce at its
\* limit is a Return that does nothing.  OverflowPayment comes before the
\* caller's balance is lowered.
ExecuteCreate ==
    LET caller == env.tx.caller
        value == BaseTransferValue(env)
        bumped == Load([journal EXCEPT ![caller].info = Bump(@)], Created)
        paid == Pay(bumped, caller, Created, BaseToken, value)
    IN  CASE Base(journal, caller) < value ->
                /\ Returns("revert", FrameLimit, 0)
                /\ journal' = journal
                /\ Go("last_frame_return")
                /\ UNCHANGED l1_block_info
          [] journal[caller].info.nonce = MaxNonce /\ Base(journal, caller) >= value ->
                /\ Returns("ok", FrameLimit, 0)
                /\ journal' = journal
                /\ Go("last_frame_return")
                /\ UNCHANGED l1_block_info
          [] OTHER ->
                IF paid.outcome = "Ok" THEN Run(paid.journal, bumped)
                ELSE /\ Returns("halt", FrameLimit, 0)
                     /\ journal' = bumped
                     /\ Go("last_frame_return")
                     /\ UNCHANGED l1_block_info

Execute ==
    /\ pc = "execute"
    /\ \/ Fail("Database")
       \/ ~IsCreate(env) /\ ExecuteCall
       \/ IsCreate(env) /\ ExecuteCreate

\* Gas::set_final_refund.
FinalRefund(spent, refunded) ==
    LET cap == spent \div IF Enabled(spec, LONDON) THEN 5 ELSE 2
    IN  IF refunded < cap THEN refunded ELSE cap

\* The Gas of the transaction after last_frame_return: mainnet's ignores the
\* configuration, Optimism's does not report every deposit's use.
FrameReturn ==
    LET limit == env.tx.gas_limit
        normal == ~IsOptimism \/ ~IsDeposit \/ Enabled(spec, REGOLITH)
        remaining ==
            CASE gas.kind = "ok" /\ normal -> gas.remaining
              [] gas.kind = "ok" /\ ~normal /\ env.tx.is_system_transaction -> limit
              [] gas.kind = "revert" /\ normal -> gas.remaining
              [] OTHER -> 0
        recorded == IF gas.kind = "ok" /\ normal THEN gas.refunded ELSE 0
        final == ~IsOptimism \/ (~env.cfg.disable_gas_refund /\ normal)
    IN  [gas EXCEPT !.limit = limit, !.remaining = remaining,
                    !.refunded = IF final THEN FinalRefund(limit - remaining, recorded)
                                 ELSE recorded]

LastFrameReturn ==
    /\ pc = "last_frame_return"
    /\ gas' = FrameReturn
    /\ Go("reimburse_caller")
    /\ UNCHANGED <<journal, l1_block_info>>

-----------------------------------------------------------------------------
(* After the execution                                                     *)

Spent == gas.limit - gas.remaining
GasUsed == Spent - gas.refunded

\* Mutant: the gas is paid back at the price the transaction offered.
ReimbursementAtMaxFee == WrappingMul(env.tx.gas_price, gas.remaining + gas.refunded)

Reimbursement == WrappingMul(EffectiveGasPrice(env), gas.remaining + gas.refunded)

ReimburseCaller ==
    /\ pc = "reimburse_caller"
    /\ journal' = IncreaseSaturating(Load(journal, env.tx.caller), env.tx.caller, Reimbursement)
    /\ Go("reward_beneficiary")
    /\ UNCHANGED <<l1_block_info, gas>>

CoinbaseGasPrice ==
    IF Enabled(spec, LONDON) THEN SaturatingSub(EffectiveGasPrice(env), env.block.basefee)
    ELSE EffectiveGasPrice(env)

RewardCoinbase(j) ==
    LET loaded == Touch(Load(j, env.block.coinbase), env.block.coinbase)
    IN  IncreaseSaturating(loaded, env.block.coinbase, WrappingMul(CoinbaseGasPrice, GasUsed))

\* Optimism: the L1 cost is added to one vault, the base fee set in the other.
RewardVaults(j) ==
    LET l1 == IncreaseWrapping(Touch(Load(j, L1Vault), L1Vault), L1Vault, TxL1Cost)
    IN  SetBase(Touch(Load(l1, BaseVault), BaseVault), BaseVault,
                WrappingMul(env.block.basefee, GasUsed))

RewardBeneficiary ==
    LET accounts == {env.block.coinbase} \cup IF IsOptimism THEN {L1Vault, BaseVault} ELSE {}
        skipped == IsOptimism /\ IsDeposit
    IN  /\ pc = "reward_beneficiary"
        /\ \/ /\ ~skipped
              /\ \E a \in accounts : LoadFails(journal, a)
              /\ Fail("Database")
           \/ /\ Go("output")
              /\ journal' = CASE skipped -> journal
                              [] IsOptimism /\ ~skipped -> RewardVaults(RewardCoinbase(journal))
                              [] OTHER -> RewardCoinbase(journal)
              /\ UNCHANGED <<l1_block_info, gas>>

\* The journal is finalized; Optimism turns a halted deposit into an error.
Output ==
    /\ pc = "output"
    /\ pc' = "end"
    /\ output' = IF /\ IsOptimism /\ IsDeposit /\ gas.kind = "halt"
                    /\ Enabled(spec, REGOLITH)
                 THEN [ok |-> FALSE, status |-> "HaltedDepositPostRegolith"]
                 ELSE [ok |-> TRUE, status |-> gas.kind, gas_used |-> GasUsed,
                       gas_refunded |-> gas.refunded, state |-> journal]
    /\ journal' = NoAccounts
    /\ gas' = None
    /\ UNCHANGED <<db, slots, call, l1_block_info, result, start, txs>>

\* EVMError::Transaction.
TransactionErrors == {"LackOfFundForMaxFee", "HaltedDepositPostRegolith"}

\* The end handler's answer for a deposit that failed.  It asks the database for
\* the caller, and takes an error for an account that does not exist.
FailedDeposit(answered) ==
    LET account == IF answered THEN db[env.tx.caller] ELSE NoAccount
        credited == SaturatingAdd(account.balances[BaseToken], Unwrap(env.tx.mint, 0))
    IN  [ok |-> TRUE, status |-> "FailedDeposit",
         gas_used |-> IF Enabled(spec, REGOLITH) \/ ~env.tx.is_system_transaction
                      THEN env.tx.gas_limit ELSE 0,
         gas_refunded |-> 0,
         state |-> [a \in {env.tx.caller} |->
                        WithTouch([Bump(account) EXCEPT !.balances[BaseToken] = credited], TRUE)]]

DepositFailed ==
    IsOptimism /\ IsDeposit /\ ~output.ok /\ output.status \in TransactionErrors

\* Mutant: the end handler of mainnet, which leaves the output as it is.
EndOutputMainnet(answered) == output

\* The end handler's answer.
EndOutput(answered) == IF DepositFailed THEN FailedDeposit(answered) ELSE output

\* end and clear; the caller commits the state it is given.  A deposit may have
\* called the L1 block contract.
End ==
    /\ pc = "end"
    /\ \E answered \in IF DepositFailed THEN BOOLEAN ELSE {TRUE} :
          LET out == EndOutput(answered)
          IN  /\ db' = IF out.ok THEN Commit(out.state) ELSE db
              /\ result' = IF out.ok
                           THEN [ok |-> TRUE, status |-> out.status, env |-> env,
                                 gas_used |-> out.gas_used,
                                 gas_refunded |-> out.gas_refunded, answered |-> answered]
                           ELSE [ok |-> FALSE, status |-> out.status, env |-> env]
              /\ \/ UNCHANGED slots
                 \/ /\ IsDeposit /\ out.ok /\ out.status = "ok"
                    /\ slots' \in L1Slots
    /\ pc' = "idle"
    /\ Clear
    /\ call' = None /\ gas' = None /\ output' = None
    /\ UNCHANGED <<l1_block_info, start, txs>>

Next ==
    \/ \E mode \in {"transact", "preverify", "preverified"}, e \in Envs : Begin(mode, e)
    \/ ValidateEnv
    \/ InitialTxGas
    \/ TxAgainstState
    \/ LoadAccounts
    \/ DeductCaller
    \/ Execute
    \/ LastFrameReturn
    \/ ReimburseCaller
    \/ RewardBeneficiary
    \/ Output
    \/ End

Spec == Init /\ [][Next]_vars

-----------------------------------------------------------------------------
(* Properties.  They are about a call that has just ended: `result` and    *)
(* the database, against `start`, the database it began with.              *)

Ended == pc = "idle" /\ result # None
\* The end handler's own query did not fail, see FailedDeposit.
Processed == Ended /\ result.ok /\ result.status # "verified" /\ result.answered
Funded == ~result.env.cfg.disable_balance_check
Was(a) == start[a].balances[BaseToken]
Is(a) == db[a].balances[BaseToken]
Total(accounts, t) == MapThenSumSet(LAMBDA a : t[a].balances[BaseToken], accounts)

\* What the price of a unit of gas leaves to nobody: the base fee, or the whole
\* price when base fee checks are off and the price is below it.
Burnt(e) ==
    LET price == EffectiveGasPrice(e)
    IN  IF ~Enabled(e.cfg.spec, LONDON) THEN 0
        ELSE IF e.block.basefee < price THEN e.block.basefee ELSE price

\* Ether is conserved: what deduct_caller takes, reimburse_caller gives back and
\* reward_beneficiary pays differ by the base fee of the gas used and the blob
\* fee, whatever the fork, the result, the refund and who the beneficiary is.
\* On Optimism this is said of the accounts other than the Base Fee Vault, and a
\* deposit adds its mint.  No account's Ether reaches U256::MAX: a payment that
\* overflows is lost to its sender.
Conserved ==
    Processed /\ Funded =>
        LET e == result.env
            accounts == IF e.cfg.is_optimism THEN Address \ {BaseVault} ELSE Address
            mint == IF e.cfg.is_optimism THEN Unwrap(e.tx.mint, 0) ELSE 0
            blobs == IF Enabled(e.cfg.spec, CANCUN) /\ result.status # "FailedDeposit"
                     THEN CalcDataFee(e) ELSE 0
        IN  Total(accounts, start) + mint
                = Total(accounts, db) + Burnt(e) * result.gas_used + blobs

\* The sender is charged at most what the transaction offers: gas_limit at
\* gas_price, the value, the maximal blob fee, and on Optimism the L1 fee.
ChargedAtMostTheOffer ==
    Processed /\ Funded =>
        LET e == result.env
            l1 == IF e.cfg.is_optimism /\ ~e.tx.source_hash
                  THEN CalculateTxL1Cost(TryFetch(slots, e.cfg.spec), e.tx.enveloped_tx, e.cfg.spec)
                  ELSE 0
        IN  Is(e.tx.caller) + e.tx.gas_limit * e.tx.gas_price + BaseTransferValue(e)
                + Unwrap(CalcMaxDataFee(e), 0) + l1 >= Was(e.tx.caller)

\* The L1 Fee Vault receives the cost computed from the L1 block contract as it
\* is when the transaction runs, and not from a context kept from earlier.
L1FeeIsCurrent ==
    Processed /\ result.env.cfg.is_optimism /\ ~result.env.tx.source_hash =>
        LET e == result.env
        IN  Is(L1Vault) = Was(L1Vault) + CalculateTxL1Cost(TryFetch(slots, e.cfg.spec),
                                                          e.tx.enveloped_tx, e.cfg.spec)

\* A mainnet transaction that was processed cannot be processed again: it has
\* raised its sender's nonce by one, also when it creates and when it fails, for
\* the value it sends was validated with the fees.  The same holds of an
\* Optimism call.
NonceUsed ==
    Processed /\ Funded /\ ~(result.env.cfg.is_optimism /\ IsCreate(result.env)) =>
        db[result.env.tx.caller].nonce = Bump(start[result.env.tx.caller]).nonce

\* A call that returns an error, whichever handler or database query failed,
\* changes nothing and leaves no account behind for the next transaction.
ErrorsLeaveNoTrace ==
    pc = "idle" => journal = NoAccounts /\ (result # None /\ ~result.ok => db = start)

\* A deposit is never refused once its gas limit covers the intrinsic gas,
\* unless the database fails: a halted one is answered as FailedDeposit.
DepositsAccepted ==
    Ended /\ result.env.cfg.is_optimism /\ result.env.tx.source_hash =>
        \/ result.ok
        \/ result.status = "Database"
        \/ InitialGas(result.env) > result.env.tx.gas_limit

\* "Send the base fee of the transaction to the Base Fee Vault": the vault has
\* what it had and the base fee of this transaction.
BaseFeeSent ==
    Processed /\ result.env.cfg.is_optimism /\ ~result.env.tx.source_hash =>
        Is(BaseVault) = Was(BaseVault) + result.env.block.basefee * result.gas_used
=============================================================================
