----------------------------- MODULE MCTransact -----------------------------
(***************************************************************************)
(* A small instance of Transact: mainnet transactions of several forks and *)
(* prices, Optimism transactions and deposits, and one environment for     *)
(* every check of the validation.                                          *)
(***************************************************************************)
EXTENDS Transact

CONSTANTS sender, target, created, miner, l1vault, basevault, base, tok, bad

Holder(n, m, nonce, code) ==
    [balances |-> [t \in TokenId |-> CASE t = base -> n [] t = tok -> m [] OTHER -> 0],
     nonce |-> nonce, code |-> code]

MCDatabase(nonce, held) ==
    [a \in Address |-> CASE a = sender -> Holder(1000000, 1, nonce, FALSE)
                         [] a = target -> Holder(0, held, 1, TRUE)
                         [] a = basevault -> Holder(5, 0, 0, FALSE)
                         [] OTHER -> Holder(0, 0, 0, FALSE)]
\* With the second, a transfer of tok to the target overflows.
MCDatabases == {MCDatabase(MaxNonce - 2, 0), MCDatabase(MaxNonce, MaxU256)}

\* Slots before Ecotone's scalars are set, and after.
Slots(fee, blob, scalar) ==
    [base_fee |-> fee, overhead |-> 40, scalar |-> 2, ecotone_scalar |-> scalar,
     blob_fee |-> blob, blob_scalar |-> scalar]
MCL1Slots == {Slots(10, 0, 0), Slots(20, 5, 3)}

MCGasLeft(limit) == {limit \div 3}
MCFlzSize(bytes) == 100 * Len(bytes)

Tokens(id, amount) == << [id |-> id, amount |-> amount] >>

Cfg == [spec |-> SHANGHAI, is_optimism |-> FALSE, chain_id |-> 706,
        limit_contract_code_size |-> None, disable_base_fee |-> FALSE,
        disable_block_gas_limit |-> FALSE, disable_eip3607 |-> FALSE,
        disable_balance_check |-> FALSE, disable_gas_refund |-> FALSE]
Block == [basefee |-> 1, gas_limit |-> 100000, coinbase |-> miner, prevrandao |-> TRUE,
          blob_gasprice |-> 1]
Tx == [caller |-> sender, gas_limit |-> 30000, gas_price |-> 3, gas_priority_fee |-> None,
       transact_to |-> target, data |-> [zero |-> 1, nonzero |-> 1], nonce |-> None,
       chain_id |-> 706, access_list |-> [addresses |-> 0, keys |-> 0], blob_hashes |-> << >>,
       max_fee_per_blob_gas |-> None, transferred_tokens |-> << >>,
       source_hash |-> FALSE, mint |-> None, is_system_transaction |-> FALSE,
       enveloped_tx |-> <<2, 0>>]
Env0 == [cfg |-> Cfg, block |-> Block, tx |-> Tx]

\* Prices and beneficiaries of mainnet's forks.
Priced ==
    { [Env0 EXCEPT !.cfg.spec = s, !.tx.gas_price = price, !.tx.gas_priority_fee = tip,
                   !.block.coinbase = coinbase, !.tx.transferred_tokens = Tokens(base, 7)] :
        s \in {ISTANBUL, LONDON, CANCUN}, price \in {1, 3}, tip \in {None, 1},
        coinbase \in {miner, sender} }

\* Transactions that spend all the sender has.
Spenders ==
    { [Env0 EXCEPT !.cfg.spec = s, !.tx.gas_limit = 60000, !.tx.transact_to = to,
                   !.tx.transferred_tokens = Tokens(base, 820000)] :
        s \in {ISTANBUL, SHANGHAI}, to \in {None, sender} }
    \cup { [Env0 EXCEPT !.tx.transferred_tokens = << >>, !.tx.nonce = MaxNonce - 2],
           [Env0 EXCEPT !.tx.transferred_tokens = Tokens(tok, 1) \o Tokens(base, 1)],
           [Env0 EXCEPT !.cfg.spec = CANCUN, !.tx.blob_hashes = <<TRUE>>,
                        !.tx.max_fee_per_blob_gas = 2, !.block.blob_gasprice = 2],
           [Env0 EXCEPT !.cfg.disable_base_fee = TRUE, !.block.basefee = 9],
           [Env0 EXCEPT !.cfg.spec = PRAGUE, !.tx.access_list.addresses = 1],
           [Env0 EXCEPT !.cfg.disable_balance_check = TRUE,
                        !.tx.transferred_tokens = Tokens(base, 2000000)] }

\* Each check of the validation fails in one of these.
Refused ==
    { [Env0 EXCEPT !.block.prevrandao = FALSE],
      [Env0 EXCEPT !.cfg.spec = CANCUN, !.block.blob_gasprice = None],
      [Env0 EXCEPT !.tx.gas_priority_fee = 4],
      [Env0 EXCEPT !.block.basefee = MaxU256, !.tx.gas_priority_fee = 1],
      [Env0 EXCEPT !.block.gas_limit = 29999],
      [Env0 EXCEPT !.tx.transact_to = None, !.cfg.limit_contract_code_size = 0],
      [Env0 EXCEPT !.tx.chain_id = 1],
      [Env0 EXCEPT !.cfg.spec = ISTANBUL, !.tx.access_list.addresses = 1],
      [Env0 EXCEPT !.tx.max_fee_per_blob_gas = 1],
      [Env0 EXCEPT !.tx.blob_hashes = <<TRUE>>],
      [Env0 EXCEPT !.cfg.spec = CANCUN, !.tx.max_fee_per_blob_gas = 0],
      [Env0 EXCEPT !.cfg.spec = CANCUN, !.tx.max_fee_per_blob_gas = 1],
      [Env0 EXCEPT !.cfg.spec = CANCUN, !.tx.max_fee_per_blob_gas = 1,
                   !.tx.blob_hashes = <<FALSE>>],
      [Env0 EXCEPT !.cfg.spec = CANCUN, !.tx.max_fee_per_blob_gas = 1, !.tx.transact_to = None,
                   !.tx.gas_limit = 60000, !.tx.blob_hashes = <<TRUE>>],
      [Env0 EXCEPT !.cfg.spec = CANCUN, !.tx.max_fee_per_blob_gas = 1,
                   !.tx.blob_hashes = [i \in 1 .. 7 |-> TRUE]],
      [Env0 EXCEPT !.tx.transferred_tokens = Tokens(tok, 1) \o Tokens(tok, 1)],
      [Env0 EXCEPT !.tx.transferred_tokens = Tokens(bad, 1)],
      [Env0 EXCEPT !.tx.transferred_tokens = Tokens(tok, 2)],
      [Env0 EXCEPT !.tx.gas_limit = 21019],
      [Env0 EXCEPT !.tx.caller = target],
      [Env0 EXCEPT !.tx.nonce = 0],
      [Env0 EXCEPT !.tx.nonce = MaxNonce],
      [Env0 EXCEPT !.tx.gas_price = MaxU256 \div 2],
      [Env0 EXCEPT !.tx.transferred_tokens = Tokens(base, 999999)] }

OnOptimism(s, e) == [e EXCEPT !.cfg.spec = s, !.cfg.is_optimism = TRUE]
Deposit == [Env0 EXCEPT !.tx.source_hash = TRUE, !.tx.gas_price = 0, !.tx.mint = 100,
                        !.tx.transferred_tokens = Tokens(base, 50)]

\* Regular Optimism transactions of each fork's L1 cost.
Rollup ==
    { OnOptimism(s, [Env0 EXCEPT !.tx.transferred_tokens = Tokens(base, v),
                                 !.tx.enveloped_tx = bytes]) :
        s \in {BEDROCK, REGOLITH, ECOTONE, FJORD}, v \in {1, 909990}, bytes \in {<<2, 0>>, <<127>>} }
    \cup { OnOptimism(ECOTONE, [Env0 EXCEPT !.tx.enveloped_tx = None]),
           OnOptimism(REGOLITH, [Env0 EXCEPT !.tx.gas_limit = 100000, !.tx.gas_price = 10]),
           OnOptimism(REGOLITH, [Env0 EXCEPT !.tx.is_system_transaction = TRUE]),
           OnOptimism(FJORD, [Env0 EXCEPT !.tx.gas_limit = 60000, !.tx.gas_price = 2,
                                          !.tx.transact_to = None,
                                          !.tx.transferred_tokens = Tokens(base, 880000)]) }

Deposits ==
    { OnOptimism(s, [Deposit EXCEPT !.tx.is_system_transaction = system, !.tx.transact_to = to,
                                    !.tx.gas_limit = 60000]) :
        s \in {BEDROCK, REGOLITH, FJORD}, system \in BOOLEAN, to \in {target, None} }
    \cup { OnOptimism(FJORD, [Deposit EXCEPT !.tx.transferred_tokens = Tokens(base, 2000000)]),
           OnOptimism(REGOLITH, [Deposit EXCEPT !.tx.gas_limit = 21019]) }

\* A transaction that fetches the L1 data, of either fork that reads the same
\* slots, and a deposit that may set them.
L1Envs ==
    { OnOptimism(s, [Env0 EXCEPT !.tx.transferred_tokens = Tokens(base, 1)]) :
        s \in {ECOTONE, FJORD} }
    \cup {OnOptimism(ECOTONE, [Deposit EXCEPT !.tx.gas_limit = 60000])}

MCEnvs == Priced \cup Spenders \cup Refused \cup Rollup \cup Deposits \cup L1Envs

\* With a MaxWeight of 6, two calls of any environments or three of L1Envs.
MCWeight(e) == IF e \in L1Envs THEN 2 ELSE 3
=============================================================================
