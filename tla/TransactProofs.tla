--------------------------- MODULE TransactProofs ---------------------------
(***************************************************************************)
(* Proofs about Transact, for every environment, database, fork, number of *)
(* calls and failure of the database.                                      *)
(***************************************************************************)
EXTENDS Transact, FiniteSetTheorems, TLAPS

-----------------------------------------------------------------------------
(* Errors                                                                  *)

\* Until a call ends the database is the one it began with, and a call that
\* has ended left nothing in the journal.
ErrorInv ==
    /\ pc # "idle" => start = db
    /\ ErrorsLeaveNoTrace

\* A validation handler fails, or preverify_transaction has its answer.
LEMMA ErrorRejected ==
    ASSUME ErrorInv, pc # "idle", NEW e, Reject(e)
    PROVE  ErrorInv'
BY DEF ErrorInv, ErrorsLeaveNoTrace, Reject, Clear

\* A later handler fails: the call goes on to the end handler.
LEMMA ErrorStops ==
    ASSUME ErrorInv, pc # "idle", NEW e, Stop(e)
    PROVE  ErrorInv'
BY DEF ErrorInv, ErrorsLeaveNoTrace, Stop

LEMMA ErrorFailed ==
    ASSUME ErrorInv, pc # "idle", NEW e, Fail(e)
    PROVE  ErrorInv'
BY ErrorStops DEF Fail

\* A handler succeeds.
LEMMA ErrorGoes ==
    ASSUME ErrorInv, pc # "idle", NEW h, h # "idle", Go(h)
    PROVE  ErrorInv'
BY DEF ErrorInv, ErrorsLeaveNoTrace, Go

\* The validation succeeded.
LEMMA ErrorVerified ==
    ASSUME ErrorInv, pc # "idle", NEW j, Verified(j)
    PROVE  ErrorInv'
<1>1. CASE call.mode = "preverify"
    BY <1>1 DEF ErrorInv, ErrorsLeaveNoTrace, Verified, VerifiedResult, Clear
<1>2. CASE call.mode # "preverify"
    BY <1>2, ErrorGoes DEF Verified
<1> QED
    BY <1>1, <1>2

\* Every handler keeps it.
LEMMA ErrorNext ==
    ASSUME ErrorInv, [Next]_vars
    PROVE  ErrorInv'
<1>1. ASSUME NEW mode \in {"transact", "preverify", "preverified"}, NEW e \in Envs,
             Begin(mode, e)
      PROVE  ErrorInv'
    BY <1>1 DEF Begin, ErrorInv, ErrorsLeaveNoTrace
<1>2. CASE ValidateEnv
    BY <1>2, ErrorRejected, ErrorGoes DEF ValidateEnv
<1>3. CASE InitialTxGas
    BY <1>3, ErrorRejected, ErrorGoes DEF InitialTxGas
<1>4. CASE TxAgainstState
    BY <1>4, ErrorRejected, ErrorVerified DEF TxAgainstState
<1>5. CASE LoadAccounts
    BY <1>5, ErrorFailed, ErrorStops, ErrorGoes DEF LoadAccounts
<1>6. CASE DeductCaller
    BY <1>6, ErrorFailed, ErrorGoes DEF DeductCaller
<1>7. CASE Execute
    BY <1>7, ErrorFailed, ErrorGoes DEF Execute, ExecuteCall, ExecuteCreate, Run
<1>8. CASE LastFrameReturn
    BY <1>8, ErrorGoes DEF LastFrameReturn
<1>9. CASE ReimburseCaller
    BY <1>9, ErrorGoes DEF ReimburseCaller
<1>10. CASE RewardBeneficiary
    BY <1>10, ErrorFailed, ErrorGoes DEF RewardBeneficiary
<1>11. CASE Output
    BY <1>11 DEF Output, ErrorInv, ErrorsLeaveNoTrace
<1>12. CASE End
    BY <1>12 DEF End, Clear, ErrorInv, ErrorsLeaveNoTrace
<1>13. CASE UNCHANGED vars
    BY <1>13 DEF vars, ErrorInv, ErrorsLeaveNoTrace
<1> QED
    BY <1>1, <1>2, <1>3, <1>4, <1>5, <1>6, <1>7, <1>8, <1>9, <1>10, <1>11, <1>12, <1>13
    DEF Next

\* Evm::transact, transact_preverified and preverify_transaction: whichever
\* handler or query fails, an error leaves the database as it was and no
\* account in the journal for the next call.
THEOREM ErrorTheorem == Spec => []ErrorsLeaveNoTrace
<1>1. Init => ErrorInv
    BY DEF Init, ErrorInv, ErrorsLeaveNoTrace
<1>2. ErrorInv /\ [Next]_vars => ErrorInv'
    BY ErrorNext
<1>3. ErrorInv => ErrorsLeaveNoTrace
    BY DEF ErrorInv
<1> QED
    BY <1>1, <1>2, <1>3, PTL DEF Spec
-----------------------------------------------------------------------------
(* Deposits                                                                *)

Deposit == IsOptimism /\ IsDeposit

\* A deposit comes to the end handler with an answer, with an error of the
\* database, or with one that the end handler turns into an answer.
DepositInv ==
    /\ pc = "end" /\ Deposit =>
           output.ok \/ output.status \in {"Database"} \cup TransactionErrors
    /\ DepositsAccepted

\* A validation handler fails: not for a deposit that can pay its intrinsic gas.
LEMMA DepositRejected ==
    ASSUME DepositInv, NEW e, Reject(e),
           Deposit => e = "Database" \/ InitialGas(env) > env.tx.gas_limit
    PROVE  DepositInv'
BY DEF DepositInv, DepositsAccepted, Ended, Reject, Deposit, IsOptimism, IsDeposit, env

\* A later handler fails.
LEMMA DepositStops ==
    ASSUME DepositInv, NEW e, Stop(e),
           Deposit => e \in {"Database"} \cup TransactionErrors
    PROVE  DepositInv'
BY DEF DepositInv, DepositsAccepted, Ended, Stop, Deposit, IsOptimism, IsDeposit

LEMMA DepositFails ==
    ASSUME DepositInv, NEW e, Fail(e),
           Deposit => e \in {"Database"} \cup TransactionErrors
    PROVE  DepositInv'
BY DepositStops DEF Fail

\* A handler succeeds.
LEMMA DepositGoes ==
    ASSUME DepositInv, NEW h, h \notin {"idle", "end"}, Go(h)
    PROVE  DepositInv'
BY DEF DepositInv, DepositsAccepted, Ended, Go

\* The validation succeeded.
LEMMA DepositVerified ==
    ASSUME DepositInv, NEW j, Verified(j)
    PROVE  DepositInv'
<1>1. CASE call.mode = "preverify"
    BY <1>1 DEF DepositInv, DepositsAccepted, Ended, Verified, VerifiedResult
<1>2. CASE call.mode # "preverify"
    BY <1>2, DepositGoes DEF Verified
<1> QED
    BY <1>1, <1>2

\* The end handler: what it does not answer is an error of the database.
LEMMA DepositEnd ==
    ASSUME DepositInv, End
    PROVE  DepositInv'
<1>1. PICK answered \in BOOLEAN :
        LET out == EndOutput(answered)
        IN  result' = IF out.ok
                      THEN [ok |-> TRUE, status |-> out.status, env |-> env,
                            gas_used |-> out.gas_used,
                            gas_refunded |-> out.gas_refunded, answered |-> answered]
                      ELSE [ok |-> FALSE, status |-> out.status, env |-> env]
    BY Zenon DEF End
<1> DEFINE out == EndOutput(answered)
<1>2. pc = "end" /\ pc' = "idle"
    BY DEF End
<1>3. Deposit => out.ok \/ out.status = "Database"
    <2>1. CASE DepositFailed
        BY <2>1 DEF EndOutput, FailedDeposit
    <2>2. CASE ~DepositFailed
        BY <2>2, <1>2 DEF DepositInv, EndOutput, DepositFailed, Deposit
    <2> QED
        BY <2>1, <2>2
<1>4. result'.env = env /\ (result'.ok \/ result'.status = out.status)
    BY <1>1
<1>5. out.ok => result'.ok
    BY <1>1
<1> HIDE DEF out
<1> QED
    BY <1>2, <1>3, <1>4, <1>5
    DEF DepositInv, DepositsAccepted, Ended, Deposit, IsOptimism, IsDeposit, env

\* Every handler keeps it.
LEMMA DepositNext ==
    ASSUME DepositInv, [Next]_vars
    PROVE  DepositInv'
<1>1. ASSUME NEW mode \in {"transact", "preverify", "preverified"}, NEW e \in Envs,
             Begin(mode, e)
      PROVE  DepositInv'
    BY <1>1 DEF Begin, DepositInv, DepositsAccepted, Ended
<1>2. CASE ValidateEnv
    BY <1>2, DepositRejected, DepositGoes DEF ValidateEnv, EnvError, Deposit
<1>3. CASE InitialTxGas
    BY <1>3, DepositRejected, DepositGoes DEF InitialTxGas
<1>4. CASE TxAgainstState
    BY <1>4, DepositRejected, DepositVerified DEF TxAgainstState, Deposit
<1>5. CASE LoadAccounts
    BY <1>5, DepositFails, DepositStops, DepositGoes DEF LoadAccounts
<1>6. CASE DeductCaller
    BY <1>6, DepositFails, DepositGoes DEF DeductCaller, Deposit
<1>7. CASE Execute
    BY <1>7, DepositFails, DepositGoes DEF Execute, ExecuteCall, ExecuteCreate, Run
<1>8. CASE LastFrameReturn
    BY <1>8, DepositGoes DEF LastFrameReturn
<1>9. CASE ReimburseCaller
    BY <1>9, DepositGoes DEF ReimburseCaller
<1>10. CASE RewardBeneficiary
    BY <1>10, DepositFails, DepositGoes DEF RewardBeneficiary
<1>11. CASE Output
    BY <1>11 DEF Output, DepositInv, DepositsAccepted, Ended, Deposit, IsOptimism, IsDeposit,
                 TransactionErrors
<1>12. CASE End
    BY <1>12, DepositEnd
<1>13. CASE UNCHANGED vars
    BY <1>13 DEF vars, DepositInv, DepositsAccepted, Ended, Deposit, IsOptimism, IsDeposit
<1> QED
    BY <1>1, <1>2, <1>3, <1>4, <1>5, <1>6, <1>7, <1>8, <1>9, <1>10, <1>11, <1>12, <1>13
    DEF Next

\* The Optimism handlers: a deposit whose gas limit covers the intrinsic gas is
\* answered, also when its execution halts, unless the database fails.
THEOREM DepositTheorem == Spec => []DepositsAccepted
<1>1. Init => DepositInv
    BY DEF Init, DepositInv, DepositsAccepted, Ended
<1>2. DepositInv /\ [Next]_vars => DepositInv'
    BY DepositNext
<1>3. DepositInv => DepositsAccepted
    BY DEF DepositInv
<1> QED
    BY <1>1, <1>2, <1>3, PTL DEF Spec

-----------------------------------------------------------------------------
(* Nonces                                                                  *)

\* Accounts as they are in the journal and in the database: transfers of the
\* model are not bounded by MaxU256.
Holding == [balances : [TokenId -> Nat], nonce : 0 .. MaxNonce, code : BOOLEAN]
Journal(j) ==
    /\ DOMAIN j \subseteq Address
    /\ j = [a \in DOMAIN j |-> j[a]]
    /\ \A a \in DOMAIN j : j[a] \in [info : Holding, touched : BOOLEAN]

FetchedL1 == [base_fee : Nat, overhead : Nat, scalar : Nat, blob_fee : Nat, blob_scalar : Nat,
              empty_scalars : BOOLEAN]

Preparing == {"validate_env", "initial_tx_gas", "tx_against_state", "load_accounts",
              "deduct_caller"}
Settling == {"last_frame_return", "reimburse_caller", "reward_beneficiary", "output"}
Working == {"execute"} \cup Settling
Calls == [mode : {"transact", "preverify", "preverified"}, env : Envs]

\* What deduct_caller takes.
Cost(e) ==
    LET price == SaturatingMul(e.tx.gas_limit, EffectiveGasPrice(e))
    IN  IF Enabled(e.cfg.spec, CANCUN) THEN SaturatingAdd(price, CalcDataFee(e)) ELSE price

\* The transactions that create at a caller whose balance was validated.
FundedCreate(e) == ~e.cfg.is_optimism /\ ~e.cfg.disable_balance_check /\ IsCreate(e)

\* The blobs have a price, and the balance n pays for the gas, the blobs and the
\* value.
Covers(e, n) ==
    /\ Enabled(e.cfg.spec, CANCUN) => e.block.blob_gasprice # None
    /\ FundedCreate(e) => Cost(e) + BaseTransferValue(e) <= n

Checked(e) ==
    /\ ~(e.cfg.is_optimism /\ e.tx.source_hash) => ValidateBlockEnv(e) = None
    /\ ~e.cfg.is_optimism => ValidateTx(e) = None

\* Those whose nonce is used up once they have run.
Uses(e) == ~IsCreate(e) \/ FundedCreate(e)

\* j has the caller with its nonce used.
UsedIn(j, e) ==
    /\ e.tx.caller \in DOMAIN j
    /\ j[e.tx.caller].touched
    /\ Uses(e) => j[e.tx.caller].info.nonce = Bump(db[e.tx.caller]).nonce

\* What the L1 cost is computed from, when handler h runs with l1.
L1At(h, l1) ==
    IsOptimism /\ ~IsDeposit =>
        /\ h \in Working => env.tx.enveloped_tx # None
        /\ h \in Working \cup {"deduct_caller"} => l1 \in FetchedL1

\* The gas g of the last frame, and then of the transaction, when h runs.
GasAt(h, g) ==
    /\ h \in Working \cup {"tx_against_state", "load_accounts", "deduct_caller"} =>
           InitialGas(env) <= env.tx.gas_limit
    /\ h \in Settling => g \in [kind : {"ok", "revert", "halt"}, limit : Nat, remaining : Nat,
                               refunded : Nat]
    /\ h = "last_frame_return" =>
           /\ g.remaining <= env.tx.gas_limit
           /\ IsOptimism /\ env.cfg.disable_gas_refund => g.refunded <= env.tx.gas_limit - g.remaining
    /\ h \in Settling \ {"last_frame_return"} => g.remaining + g.refunded <= g.limit

\* The journal j when h runs: validation, deduction and execution, each with what
\* it leaves to the next.
NonceAt(h, j) ==
    /\ h \in Preparing =>
           \A a \in DOMAIN j :
               /\ j[a].info.nonce = db[a].nonce
               /\ ~env.cfg.disable_balance_check => j[a].info = db[a]
    /\ h \in {"validate_env", "tx_against_state"} => call.mode # "preverified"
    /\ h \in {"initial_tx_gas", "tx_against_state"} /\ call.mode # "preverified" => Checked(env)
    /\ h = "initial_tx_gas" /\ call.mode = "preverified" =>
           Covers(env, db[env.tx.caller].balances[BaseToken])
    /\ h \in {"load_accounts", "deduct_caller"} =>
           Covers(env, db[env.tx.caller].balances[BaseToken])
    /\ h = "execute" =>
           /\ env.tx.caller \in DOMAIN j
           /\ j[env.tx.caller].touched
           /\ j[env.tx.caller].info.nonce =
                  IF IsCreate(env) THEN db[env.tx.caller].nonce ELSE Bump(db[env.tx.caller]).nonce
           /\ FundedCreate(env) => Base(j, env.tx.caller) >= BaseTransferValue(env)
    /\ h \in Settling => UsedIn(j, env)

\* Handler h may run with this journal, L1 information and gas.
Ready(h, j, l1, g) == Journal(j) /\ L1At(h, l1) /\ GasAt(h, g) /\ NonceAt(h, j)

\* The inductive invariant.
NonceInv ==
    /\ db \in [Address -> Holding]
    /\ slots \in L1Slot
    /\ pc \in Preparing \cup Working \cup {"end", "idle"}
    /\ pc # "idle" => call \in Calls
    /\ pc \in Preparing \cup Working => Ready(pc, journal, l1_block_info, gas)
    /\ pc = "end" /\ output.ok =>
           Journal(output.state) /\ UsedIn(output.state, env) /\ output.status # "verified"
    /\ pc = "idle" /\ result # None /\ result.ok /\ result.status = "verified" =>
           Covers(result.env, db[result.env.tx.caller].balances[BaseToken])
    /\ NonceUsed
-----------------------------------------------------------------------------
(* Arithmetic of 256-bit words                                             *)

\* One step of WrappingMul, from half of k to k.
Doubled(a, k, half) == WrappingAdd(WrappingAdd(half, half), IF k % 2 = 1 THEN a ELSE 0)

\* f lists the multiples of a up to n.
IsTimes(f, a, n) == f = [k \in 0 .. n |-> IF k = 0 THEN 0 ELSE Doubled(a, k, f[k \div 2])]

\* One more multiple.
LEMMA TimesExtends ==
    ASSUME NEW a, NEW n \in Nat, NEW f, IsTimes(f, a, n)
    PROVE  \E g : IsTimes(g, a, n + 1)
<1> DEFINE g == [k \in 0 .. n + 1 |-> IF k = n + 1 THEN Doubled(a, k, f[k \div 2]) ELSE f[k]]
           h == [k \in 0 .. n + 1 |-> IF k = 0 THEN 0 ELSE Doubled(a, k, g[k \div 2])]
<1>1. ASSUME NEW k \in 0 .. n + 1 PROVE g[k] = h[k]
  <2>1. CASE k = n + 1
    <3>1. k \div 2 \in 0 .. n /\ k \div 2 # n + 1 /\ k \div 2 \in 0 .. n + 1 /\ k # 0
      BY <2>1
    <3>2. g[k \div 2] = f[k \div 2]
      BY <3>1
    <3> QED
      BY <2>1, <3>1, <3>2
  <2>2. CASE k = 0
    BY <2>2 DEF IsTimes
  <2>3. CASE k # 0 /\ k # n + 1
    <3>1. k \in 0 .. n /\ k \div 2 \in 0 .. n /\ k \div 2 # n + 1 /\ k \div 2 \in 0 .. n + 1
      BY <2>3
    <3>2. f[k] = Doubled(a, k, f[k \div 2])
      BY <2>3, <3>1 DEF IsTimes
    <3>3. g[k \div 2] = f[k \div 2]
      BY <3>1
    <3> QED
      BY <2>3, <3>1, <3>2, <3>3
  <2> QED
    BY <2>1, <2>2, <2>3
<1>2. /\ g = [k \in 0 .. n + 1 |-> g[k]]
      /\ h = [k \in 0 .. n + 1 |-> h[k]]
    OBVIOUS
<1>3. g = h
  <2> HIDE DEF g, h
  <2> QED
    BY <1>1, <1>2
<1>4. IsTimes(g, a, n + 1)
  <2>1. g = [k \in 0 .. n + 1 |-> IF k = 0 THEN 0 ELSE Doubled(a, k, g[k \div 2])]
    <3> HIDE DEF g
    <3> QED
      BY <1>3 DEF h
  <2> HIDE DEF g, h
  <2> QED
    BY <2>1 DEF IsTimes
<1> QED
    BY <1>4

\* The multiples exist.
LEMMA TimesExist ==
    ASSUME NEW a, NEW n \in Nat
    PROVE  \E f : IsTimes(f, a, n)
<1> DEFINE T == {k \in Nat : \E f : IsTimes(f, a, k)}
<1>1. 0 \in T
  <2>1. IsTimes([k \in 0 .. 0 |-> 0], a, 0)
    BY DEF IsTimes
  <2> QED
    BY <2>1
<1>2. ASSUME NEW k \in T PROVE k + 1 \in T
    BY TimesExtends
<1>3. T = Nat
  <2> T \in SUBSET Nat
    OBVIOUS
  <2> HIDE DEF T
  <2> QED
    BY <1>1, <1>2, PayLoop!SetInduction
<1> QED
    BY <1>3

\* Two lists agree where both are defined.
LEMMA TimesAgree ==
    ASSUME NEW a, NEW m \in Nat, NEW n \in Nat, NEW f, NEW g,
           IsTimes(f, a, m), IsTimes(g, a, n),
           NEW i \in Nat, i <= m, i <= n
    PROVE  f[i] = g[i]
<1> DEFINE T == {b \in Nat : \A k \in 0 .. b : k <= m /\ k <= n => f[k] = g[k]}
<1>1. 0 \in T
    BY DEF IsTimes
<1>2. ASSUME NEW b \in T PROVE b + 1 \in T
  <2> SUFFICES ASSUME NEW k \in 0 .. b + 1, k <= m, k <= n PROVE f[k] = g[k]
    OBVIOUS
  <2>1. CASE k \in 0 .. b
    BY <2>1
  <2>2. CASE k = b + 1
    <3>1. k \div 2 \in 0 .. b /\ k \div 2 <= m /\ k \div 2 <= n /\ k # 0
      BY <2>2
    <3>2. f[k \div 2] = g[k \div 2]
      BY <3>1
    <3>3. k \in 0 .. m /\ k \in 0 .. n
      OBVIOUS
    <3>4. /\ f[k] = Doubled(a, k, f[k \div 2])
          /\ g[k] = Doubled(a, k, g[k \div 2])
      BY <3>1, <3>3 DEF IsTimes
    <3> QED
      BY <3>2, <3>4
  <2> QED
    BY <2>1, <2>2
<1>3. T = Nat
  <2> T \in SUBSET Nat
    OBVIOUS
  <2> HIDE DEF T
  <2> QED
    BY <1>1, <1>2, PayLoop!SetInduction
<1> QED
    BY <1>3

\* The table of all multiples, which WrappingMul looks its product up in.
LEMMA TimesTable ==
    ASSUME NEW a
    PROVE  \E f : f = [k \in Nat |-> IF k = 0 THEN 0 ELSE Doubled(a, k, f[k \div 2])]
<1> DEFINE part(k) == CHOOSE f : IsTimes(f, a, k)
           F == [k \in Nat |-> part(k)[k]]
           G == [k \in Nat |-> IF k = 0 THEN 0 ELSE Doubled(a, k, F[k \div 2])]
<1>1. \A k \in Nat : IsTimes(part(k), a, k)
    BY TimesExist
<1>2. ASSUME NEW k \in Nat PROVE F[k] = G[k]
  <2>1. CASE k = 0
    <3>1. \A f : IsTimes(f, a, 0) => f[0] = 0
      BY DEF IsTimes
    <3> HIDE DEF part
    <3> QED
      BY <2>1, <3>1, <1>1
  <2>2. CASE k # 0
    <3>1. k \div 2 \in Nat /\ k \div 2 <= k /\ k \in 0 .. k
      OBVIOUS
    <3>2. part(k)[k] = Doubled(a, k, part(k)[k \div 2])
      <4> DEFINE p == part(k)
      <4> HIDE DEF part
      <4>1. IsTimes(p, a, k)
        BY <1>1
      <4> HIDE DEF p
      <4>2. p[k] = Doubled(a, k, p[k \div 2])
        BY <2>2, <3>1, <4>1 DEF IsTimes
      <4> QED
        BY <4>2 DEF p
    <3>3. part(k)[k \div 2] = part(k \div 2)[k \div 2]
      <4> HIDE DEF part
      <4> QED
        BY <1>1, <3>1, TimesAgree
    <3> HIDE DEF part
    <3> QED
      BY <2>2, <3>1, <3>2, <3>3
  <2> QED
    BY <2>1, <2>2
<1>3. F = [k \in Nat |-> F[k]] /\ G = [k \in Nat |-> G[k]]
    OBVIOUS
<1>4. F = G
  <2> HIDE DEF F, G
  <2> QED
    BY <1>2, <1>3
<1>5. F = [k \in Nat |-> IF k = 0 THEN 0 ELSE Doubled(a, k, F[k \div 2])]
  <2> HIDE DEF F
  <2> QED
    BY <1>4 DEF G
<1> HIDE DEF F
<1> QED
    BY <1>5

\* `+' of U256 is a word.
LEMMA WrappingAddType ==
    ASSUME NEW a \in Nat, NEW b \in Nat
    PROVE  WrappingAdd(a, b) \in 0 .. MaxU256 /\ WrappingAdd(a, b) \in Nat
BY EnvAssumption DEF WrappingAdd

\* A step of the multiplication gives a word.
LEMMA DoubledType ==
    ASSUME NEW a \in Nat, NEW k \in Nat, NEW half \in Nat
    PROVE  Doubled(a, k, half) \in 0 .. MaxU256
<1>1. WrappingAdd(half, half) \in Nat
    BY WrappingAddType
<1>2. (IF k % 2 = 1 THEN a ELSE 0) \in Nat
    OBVIOUS
<1> QED
    BY <1>1, <1>2, WrappingAddType DEF Doubled

\* `*' of U256 is a word.
LEMMA WrappingMulType ==
    ASSUME NEW a \in Nat, NEW b \in Nat
    PROVE  WrappingMul(a, b) \in 0 .. MaxU256
<1> DEFINE IsTable(f) == f = [k \in Nat |-> IF k = 0 THEN 0 ELSE Doubled(a, k, f[k \div 2])]
<1>1. PICK f : IsTable(f) /\ WrappingMul(a, b) = f[b]
    BY TimesTable DEF WrappingMul, Doubled
<1> DEFINE T == {n \in Nat : \A k \in 0 .. n : f[k] \in 0 .. MaxU256}
<1>2. 0 \in T
    BY <1>1, EnvAssumption
<1>3. ASSUME NEW n \in T PROVE n + 1 \in T
  <2> SUFFICES ASSUME NEW k \in 0 .. n + 1 PROVE f[k] \in 0 .. MaxU256
    OBVIOUS
  <2>1. CASE k \in 0 .. n
    BY <2>1
  <2>2. CASE k = n + 1
    <3>1. k \div 2 \in 0 .. n /\ k # 0 /\ k \in Nat
      BY <2>2
    <3>2. f[k \div 2] \in 0 .. MaxU256
      BY <3>1
    <3>3. f[k] = Doubled(a, k, f[k \div 2])
      BY <1>1, <3>1
    <3>4. f[k \div 2] \in Nat
      BY <3>2
    <3> QED
      BY <3>1, <3>3, <3>4, DoubledType
  <2> QED
    BY <2>1, <2>2
<1>4. T = Nat
  <2> T \in SUBSET Nat
    OBVIOUS
  <2> HIDE DEF T
  <2> QED
    BY <1>2, <1>3, PayLoop!SetInduction
<1>5. b \in T
    BY <1>4
<1>6. f[b] \in 0 .. MaxU256
    BY <1>5
<1> QED
    BY <1>1, <1>6


\* A set of numbers that is not empty has a least one.
LEMMA LeastNat ==
    ASSUME NEW S \in SUBSET Nat, S # {}
    PROVE  \E i \in S : \A k \in S : i <= k
<1> SUFFICES ASSUME \A i \in S : \E k \in S : k < i PROVE FALSE
    OBVIOUS
<1> DEFINE T == {n \in Nat : \A k \in 0 .. n : k \notin S}
<1>1. 0 \in T
    OBVIOUS
<1>2. ASSUME NEW n \in T PROVE n + 1 \in T
  <2>1. n + 1 \notin S
    OBVIOUS
  <2> QED
    BY <2>1
<1>3. T = Nat
  <2> T \in SUBSET Nat
    OBVIOUS
  <2> HIDE DEF T
  <2> QED
    BY <1>1, <1>2, PayLoop!SetInduction
<1>4. PICK i \in S : TRUE
    OBVIOUS
<1>5. i \in T
    BY <1>3
<1> QED
    BY <1>4, <1>5


\* The saturating operations give natural numbers, and no more than they should.
LEMMA SaturatingTypes ==
    ASSUME NEW a \in Nat, NEW b \in Nat
    PROVE  /\ SaturatingMul(a, b) \in Nat
           /\ SaturatingAdd(a, b) \in Nat
           /\ SaturatingSub(a, b) \in Nat
BY EnvAssumption DEF SaturatingMul, SaturatingAdd, SaturatingSub, MulFits, AddFits

\* A product that fits is the product, and one of a smaller factor fits too.
LEMMA SaturatingMulBound ==
    ASSUME NEW a \in Nat, NEW b \in Nat, NEW c \in Nat, c <= b, MulFits(a, b)
    PROVE  SaturatingMul(a, c) <= a * b
<1>1. a * c <= a * b
  <2>1. a * (b - c) >= 0
    OBVIOUS
  <2> QED
    BY <2>1
<1>2. CASE c = 0
    BY <1>1, <1>2 DEF SaturatingMul, MulFits
<1>3. CASE c # 0
  <2>1. b # 0 /\ a <= MaxU256 \div b
    BY <1>3 DEF MulFits
  <2>2. MaxU256 \div b <= MaxU256 \div c
    BY <1>3, EnvAssumption
  <2>3. MulFits(a, c)
    BY <2>1, <2>2, <1>3, EnvAssumption DEF MulFits
  <2> QED
    BY <2>3, <1>1 DEF SaturatingMul
<1> QED
    BY <1>2, <1>3

\* The fields of an environment that payments use.
LEMMA EnvFields ==
    ASSUME NEW e \in Envs
    PROVE  /\ e.tx.caller \in Address
           /\ e.tx.gas_limit \in Nat /\ e.tx.gas_price \in Nat
           /\ e.tx.gas_priority_fee # None => e.tx.gas_priority_fee \in Nat
           /\ e.tx.transact_to # None => e.tx.transact_to \in Address
           /\ e.tx.transferred_tokens \in Seq([id : TokenId, amount : Nat])
           /\ e.tx.blob_hashes \in Seq(BOOLEAN)
           /\ e.tx.mint # None => e.tx.mint \in Nat
           /\ e.tx.enveloped_tx # None => e.tx.enveloped_tx \in Seq(Nat)
           /\ e.tx.max_fee_per_blob_gas # None => e.tx.max_fee_per_blob_gas \in Nat
           /\ e.block.basefee \in Nat /\ e.block.coinbase \in Address
           /\ e.block.blob_gasprice # None => e.block.blob_gasprice \in Nat
           /\ e.cfg.spec \in Nat
           /\ e.cfg.is_optimism \in BOOLEAN /\ e.cfg.disable_balance_check \in BOOLEAN
<1>1. e \in [cfg : CfgEnv, block : BlockEnv, tx : TxEnv]
    BY InputsAssumption
<1>2. e.tx \in TxEnv /\ e.block \in BlockEnv /\ e.cfg \in CfgEnv
    BY <1>1
<1>3. /\ e.cfg.spec \in Nat
      /\ e.cfg.is_optimism \in BOOLEAN /\ e.cfg.disable_balance_check \in BOOLEAN
    BY <1>2 DEF CfgEnv, FRONTIER, PRAGUE
<1>4. /\ e.block.basefee \in Nat /\ e.block.coinbase \in Address
      /\ e.block.blob_gasprice # None => e.block.blob_gasprice \in Nat
    BY <1>2 DEF BlockEnv, Option
<1>5. /\ e.tx.caller \in Address
      /\ e.tx.gas_limit \in Nat /\ e.tx.gas_price \in Nat
      /\ e.tx.gas_priority_fee # None => e.tx.gas_priority_fee \in Nat
      /\ e.tx.transact_to # None => e.tx.transact_to \in Address
      /\ e.tx.transferred_tokens \in Seq([id : TokenId, amount : Nat])
      /\ e.tx.blob_hashes \in Seq(BOOLEAN)
      /\ e.tx.mint # None => e.tx.mint \in Nat
      /\ e.tx.enveloped_tx # None => e.tx.enveloped_tx \in Seq(Nat)
      /\ e.tx.max_fee_per_blob_gas # None => e.tx.max_fee_per_blob_gas \in Nat
    BY <1>2 DEF TxEnv, Option
<1> QED
    BY <1>3, <1>4, <1>5

\* A transaction never pays more for its gas than it offers.
LEMMA EffectivePrice ==
    ASSUME NEW e \in Envs
    PROVE  EffectiveGasPrice(e) \in Nat /\ EffectiveGasPrice(e) <= e.tx.gas_price
<1>1. e.tx.gas_price \in Nat /\ e.block.basefee \in Nat
    BY EnvFields
<1>2. e.tx.gas_priority_fee # None =>
        WrappingAdd(e.block.basefee, e.tx.gas_priority_fee) \in Nat
    BY EnvFields, WrappingAddType
<1> QED
    BY <1>1, <1>2 DEF EffectiveGasPrice

\* An element of a sequence.
LEMMA SeqElement ==
    ASSUME NEW S, NEW s \in Seq(S), NEW i \in DOMAIN s
    PROVE  s[i] \in S
OBVIOUS

\* The value of a transaction is a number.
LEMMA ValueType ==
    ASSUME NEW e \in Envs
    PROVE  BaseTransferValue(e) \in Nat
<1> DEFINE tokens == e.tx.transferred_tokens
           paying == {i \in DOMAIN tokens : tokens[i].id = BaseToken}
<1>1. tokens \in Seq([id : TokenId, amount : Nat])
    BY EnvFields
<1>2. CASE paying = {}
    BY <1>2 DEF BaseTransferValue
<1>3. CASE paying # {}
  <2>1. PICK i \in paying : \A k \in paying : i <= k
    <3>1. paying \subseteq Nat
      BY <1>1
    <3> HIDE DEF paying
    <3> QED
      BY <3>1, <1>3, LeastNat
  <2> DEFINE n == CHOOSE m \in paying : \A k \in paying : m <= k
  <2>2. n \in paying
    BY <2>1
  <2>3. tokens[n].amount \in Nat
    <3>1. n \in DOMAIN tokens
      BY <2>2
    <3> HIDE DEF n, tokens
    <3>2. tokens[n] \in [id : TokenId, amount : Nat]
      BY <3>1, <1>1, SeqElement
    <3> QED
      BY <3>2
  <2> QED
    BY <1>3, <2>3 DEF BaseTransferValue
<1> QED
    BY <1>2, <1>3

-----------------------------------------------------------------------------
(* Validation                                                              *)

\* A sequence of checks that gives no error meets none of them.
LEMMA NoError ==
    ASSUME NEW n \in Nat, NEW checks, DOMAIN checks = 1 .. n,
           \A i \in 1 .. n : checks[i][1] # None,
           FirstError(checks) = None
    PROVE  \A i \in 1 .. n : ~checks[i][2]
<1> SUFFICES ASSUME NEW m \in 1 .. n, checks[m][2] PROVE FALSE
    OBVIOUS
<1> DEFINE met == {i \in 1 .. n : checks[i][2]}
           Is1st(i) == checks[i][2] /\ \A k \in 1 .. i - 1 : ~checks[k][2]
           first == CHOOSE i \in DOMAIN checks : Is1st(i)
<1>1. met \subseteq Nat /\ met # {}
    OBVIOUS
<1>2. PICK i \in met : \A k \in met : i <= k
  <2> HIDE DEF met
  <2> QED
    BY <1>1, LeastNat
<1>3. i \in DOMAIN checks /\ Is1st(i)
    BY <1>2
<1>4. first \in DOMAIN checks
  <2> HIDE DEF Is1st
  <2> QED
    BY <1>3
<1>5. FirstError(checks) = checks[first][1]
    BY DEF FirstError
<1> HIDE DEF first
<1> QED
    BY <1>4, <1>5

\* Env::validate_tx: a create transaction of Cancun offers nothing for blobs.
LEMMA NoBlobCreate ==
    ASSUME NEW e \in Envs, ValidateTx(e) = None, Enabled(e.cfg.spec, CANCUN), IsCreate(e)
    PROVE  e.tx.max_fee_per_blob_gas = None
<1> SUFFICES ASSUME e.tx.max_fee_per_blob_gas # None PROVE FALSE
    OBVIOUS
<1>1. FirstError(BlobChecks(e)) = None
    BY DEF ValidateTx, OrElse
<1>2. /\ DOMAIN BlobChecks(e) = 1 .. 5
      /\ \A i \in 1 .. 5 : BlobChecks(e)[i][1] # None
    BY EnvAssumption DEF BlobChecks, InvalidTransaction
<1>3. ~BlobChecks(e)[3][2]
  <2>1. \A i \in 1 .. 5 : ~BlobChecks(e)[i][2]
    BY <1>1, <1>2, NoError
  <2> QED
    BY <2>1
<1>4. BlobChecks(e)[3][2] = IsCreate(e)
    BY DEF BlobChecks
<1> QED
    BY <1>3, <1>4

\* The gas of the blobs is a number.
LEMMA BlobGasType ==
    ASSUME NEW e \in Envs
    PROVE  TotalBlobGas(e) \in Nat
<1>1. Len(e.tx.blob_hashes) \in Nat
    BY EnvFields
<1> QED
    BY <1>1 DEF TotalBlobGas, GasPerBlob

\* The required amount is a number.
LEMMA RequiredType ==
    ASSUME NEW e \in Envs, RequiredBaseBalance(e) # None
    PROVE  RequiredBaseBalance(e) \in Nat
<1> DEFINE offered == e.tx.gas_limit * e.tx.gas_price
           value == BaseTransferValue(e)
           fee == IF Enabled(e.cfg.spec, CANCUN) THEN Unwrap(CalcMaxDataFee(e), 0) ELSE 0
<1>1. offered \in Nat /\ value \in Nat
    BY EnvFields, ValueType
<1>2. fee \in Nat
  <2>1. e.tx.max_fee_per_blob_gas # None =>
            SaturatingMul(e.tx.max_fee_per_blob_gas, TotalBlobGas(e)) \in Nat
    BY EnvFields, BlobGasType, SaturatingTypes
  <2> QED
    BY <2>1 DEF CalcMaxDataFee, Unwrap
<1>3. RequiredBaseBalance(e) = offered + value + fee
    BY DEF RequiredBaseBalance
<1> HIDE DEF offered, value, fee
<1> QED
    BY <1>1, <1>2, <1>3

\* Env::validate_tx_against_state: the balance pays the required amount, or is
\* raised to it.
LEMMA RequiredPaid ==
    ASSUME NEW e \in Envs, NEW account \in Holding,
           ValidateTxAgainstState(e, account).error = None
    PROVE  /\ RequiredBaseBalance(e) # None
           /\ ValidateTxAgainstState(e, account).account \in Holding
           /\ ValidateTxAgainstState(e, account).account.nonce = account.nonce
           /\ ~e.cfg.disable_balance_check =>
                  /\ ~(RequiredBaseBalance(e) > account.balances[BaseToken])
                  /\ ValidateTxAgainstState(e, account).account = account
<1> DEFINE required == RequiredBaseBalance(e)
           tokens == e.tx.transferred_tokens
           short == required # None /\ required > account.balances[BaseToken]
           checks == << <<"RejectCallerWithCode", ~e.cfg.disable_eip3607 /\ account.code>>,
                        <<"NonceTooHigh", e.tx.nonce # None /\ e.tx.nonce > account.nonce>>,
                        <<"NonceTooLow", e.tx.nonce # None /\ e.tx.nonce < account.nonce>>,
                        <<"OverflowPaymentInTransaction", required = None>>,
                        <<"LackOfFundForMaxFee", short /\ ~e.cfg.disable_balance_check>>,
                        <<"NotEnoughTokenBalanceForTransfer",
                          \E i \in DOMAIN tokens :
                              /\ tokens[i].id # BaseToken
                              /\ account.balances[tokens[i].id] < tokens[i].amount>> >>
<1>1. ValidateTxAgainstState(e, account).error = FirstError(checks)
    BY Zenon DEF ValidateTxAgainstState
<1>2. /\ DOMAIN checks = 1 .. 6
      /\ \A i \in 1 .. 6 : checks[i][1] # None
    BY EnvAssumption DEF InvalidTransaction
<1>3. \A i \in 1 .. 6 : ~checks[i][2]
  <2> HIDE DEF checks
  <2> QED
    BY <1>1, <1>2, NoError
<1>4. ~checks[4][2] /\ ~checks[5][2]
    BY <1>3
<1>5. required # None /\ ~(short /\ ~e.cfg.disable_balance_check)
    BY <1>4
<1>6. required \in Nat
    BY <1>5, RequiredType
<1> DEFINE raised == [account EXCEPT !.balances[BaseToken] = required]
<1>7. ValidateTxAgainstState(e, account).account =
          IF short /\ e.cfg.disable_balance_check THEN raised ELSE account
    BY Zenon DEF ValidateTxAgainstState
<1>8. raised \in Holding /\ raised.nonce = account.nonce
    BY <1>6, EnvAssumption DEF Holding
<1> HIDE DEF raised, required
<1> QED
    BY <1>5, <1>7, <1>8 DEF required

\* What deduct_caller takes for a create transaction that passed validation is
\* no more than the required amount without the value.
LEMMA CreateCost ==
    ASSUME NEW e \in Envs, ValidateBlockEnv(e) = None, ValidateTx(e) = None, IsCreate(e),
           RequiredBaseBalance(e) # None
    PROVE  /\ Cost(e) \in Nat
           /\ RequiredBaseBalance(e) \in Nat
           /\ Cost(e) + BaseTransferValue(e) <= RequiredBaseBalance(e)
<1> DEFINE offered == e.tx.gas_limit * e.tx.gas_price
           value == BaseTransferValue(e)
           fee == IF Enabled(e.cfg.spec, CANCUN) THEN Unwrap(CalcMaxDataFee(e), 0) ELSE 0
           price == SaturatingMul(e.tx.gas_limit, EffectiveGasPrice(e))
<1>1. /\ e.tx.gas_limit \in Nat /\ e.tx.gas_price \in Nat /\ value \in Nat
      /\ EffectiveGasPrice(e) \in Nat /\ EffectiveGasPrice(e) <= e.tx.gas_price
    BY EnvFields, ValueType, EffectivePrice
<1>2. Enabled(e.cfg.spec, CANCUN) => e.tx.max_fee_per_blob_gas = None /\ e.tx.blob_hashes = << >>
    BY NoBlobCreate, BlobAssumption
<1>3. fee = 0
    BY <1>2 DEF CalcMaxDataFee, Unwrap
<1>4. /\ MulFits(e.tx.gas_limit, e.tx.gas_price) /\ AddFits(offered, value)
      /\ RequiredBaseBalance(e) = offered + value + fee
  <2> HIDE DEF value
  <2> QED
    BY DEF RequiredBaseBalance, value
<1>5. offered \in Nat /\ offered <= MaxU256
    BY <1>1, <1>4, EnvAssumption DEF AddFits
<1>6. price \in Nat /\ price <= offered
    BY <1>1, <1>4, SaturatingTypes, SaturatingMulBound
<1>7. Enabled(e.cfg.spec, CANCUN) => CalcDataFee(e) = 0
  <2> SUFFICES ASSUME Enabled(e.cfg.spec, CANCUN) PROVE CalcDataFee(e) = 0
    OBVIOUS
  <2>1. e.block.blob_gasprice # None
    BY EnvAssumption DEF ValidateBlockEnv, InvalidTransaction
  <2>2. TotalBlobGas(e) = 0
    BY <1>2 DEF TotalBlobGas, GasPerBlob
  <2>3. e.block.blob_gasprice \in Nat
    BY <2>1, EnvFields
  <2> QED
    BY <2>2, <2>3 DEF CalcDataFee, SaturatingMul, MulFits
<1>8. Cost(e) = price
    BY <1>5, <1>6, <1>7, EnvAssumption DEF Cost, SaturatingAdd, AddFits
<1> HIDE DEF offered, value, fee, price
<1>9. value = BaseTransferValue(e)
    BY DEF value
<1> QED
    BY <1>1, <1>3, <1>4, <1>5, <1>6, <1>8, <1>9

-----------------------------------------------------------------------------
(* Operations on the journal                                               *)

\* k has the accounts of j with their nonces, and what is touched in j is
\* touched in k.
Keeps(j, k) ==
    /\ DOMAIN j \subseteq DOMAIN k
    /\ \A x \in DOMAIN j : /\ k[x].info.nonce = j[x].info.nonce
                           /\ j[x].touched => k[x].touched

\* It can be said of several operations in a row.
LEMMA KeepsTwice ==
    ASSUME NEW i, NEW j, NEW k, Keeps(i, j), Keeps(j, k)
    PROVE  Keeps(i, k)
BY DEF Keeps

\* load_account.
LEMMA LoadJournal ==
    ASSUME db \in [Address -> Holding], NEW j, Journal(j), NEW a \in Address
    PROVE  /\ Journal(Load(j, a))
           /\ DOMAIN Load(j, a) = DOMAIN j \cup {a}
           /\ \A x \in DOMAIN j : Load(j, a)[x] = j[x]
           /\ a \notin DOMAIN j => Load(j, a)[a] = WithTouch(db[a], FALSE)
           /\ Keeps(j, Load(j, a))
<1> DEFINE k == Load(j, a)
<1>1. DOMAIN k = DOMAIN j \cup {a}
    BY DEF Load
<1>2. \A x \in DOMAIN j : k[x] = j[x]
    BY DEF Load
<1>3. a \notin DOMAIN j => k[a] = WithTouch(db[a], FALSE)
    BY DEF Load
<1>4. WithTouch(db[a], FALSE) \in [info : Holding, touched : BOOLEAN]
    BY DEF WithTouch
<1>5. k = [x \in DOMAIN k |-> k[x]]
    BY DEF Load
<1> HIDE DEF k
<1>6. Journal(k)
    BY <1>1, <1>2, <1>3, <1>4, <1>5 DEF Journal
<1>7. Keeps(j, k)
    BY <1>1, <1>2 DEF Keeps
<1> QED
    BY <1>1, <1>2, <1>3, <1>6, <1>7 DEF k

\* One account of the journal is replaced.
Put(j, a, x) == [j EXCEPT ![a] = x]

LEMMA PutJournal ==
    ASSUME NEW j, Journal(j), NEW a \in DOMAIN j, NEW x \in [info : Holding, touched : BOOLEAN]
    PROVE  /\ Journal(Put(j, a, x))
           /\ DOMAIN Put(j, a, x) = DOMAIN j
           /\ Put(j, a, x)[a] = x
           /\ \A y \in DOMAIN j \ {a} : Put(j, a, x)[y] = j[y]
           /\ x.info.nonce = j[a].info.nonce /\ (j[a].touched => x.touched) =>
                  Keeps(j, Put(j, a, x))
BY DEF Journal, Keeps, Put

\* A balance is set.
SetBalance(j, a, t, n) == [j EXCEPT ![a].info.balances[t] = n]

LEMMA BalanceJournal ==
    ASSUME NEW j, Journal(j), NEW a \in DOMAIN j, NEW t \in TokenId, NEW n \in Nat
    PROVE  /\ Journal(SetBalance(j, a, t, n))
           /\ Keeps(j, SetBalance(j, a, t, n))
           /\ DOMAIN SetBalance(j, a, t, n) = DOMAIN j
           /\ SetBalance(j, a, t, n)[a].info.balances[t] = n
           /\ SetBalance(j, a, t, n)[a].info.nonce = j[a].info.nonce
           /\ SetBalance(j, a, t, n)[a].touched = j[a].touched
           /\ \A y \in DOMAIN j \ {a} : SetBalance(j, a, t, n)[y] = j[y]
<1> DEFINE x == [j[a] EXCEPT !.info.balances[t] = n]
           k == SetBalance(j, a, t, n)
<1>1. j[a] \in [info : Holding, touched : BOOLEAN]
    BY DEF Journal
<1>2. /\ x \in [info : Holding, touched : BOOLEAN]
      /\ x.info.nonce = j[a].info.nonce
      /\ x.touched = j[a].touched
      /\ x.info.balances[t] = n
    BY <1>1 DEF Holding
<1>3. k = Put(j, a, x)
    BY DEF Put, SetBalance
<1> HIDE DEF x, k
<1>4. /\ Journal(k) /\ DOMAIN k = DOMAIN j /\ k[a] = x
      /\ \A y \in DOMAIN j \ {a} : k[y] = j[y]
      /\ Keeps(j, k)
    BY <1>2, <1>3, PutJournal
<1> QED
    BY <1>2, <1>4 DEF k

\* An account is touched.
LEMMA TouchJournal ==
    ASSUME NEW j, Journal(j), NEW a \in DOMAIN j
    PROVE  /\ Journal(Touch(j, a))
           /\ Keeps(j, Touch(j, a))
           /\ DOMAIN Touch(j, a) = DOMAIN j
           /\ Touch(j, a)[a].touched
           /\ \A y \in DOMAIN j : Touch(j, a)[y].info = j[y].info
<1> DEFINE x == [j[a] EXCEPT !.touched = TRUE]
           k == Touch(j, a)
<1>1. j[a] \in [info : Holding, touched : BOOLEAN]
    BY DEF Journal
<1>2. x \in [info : Holding, touched : BOOLEAN] /\ x.info = j[a].info /\ x.touched
    BY <1>1
<1>3. k = Put(j, a, x)
    BY DEF Touch, Put
<1> HIDE DEF x, k
<1>4. /\ Journal(k) /\ DOMAIN k = DOMAIN j /\ k[a] = x
      /\ \A y \in DOMAIN j \ {a} : k[y] = j[y]
      /\ Keeps(j, k)
    BY <1>2, <1>3, PutJournal
<1>5. \A y \in DOMAIN j : k[y].info = j[y].info
    BY <1>2, <1>4
<1> QED
    BY <1>2, <1>4, <1>5 DEF k

\* inc_nonce keeps an account an account, and its balances.
LEMMA BumpType ==
    ASSUME NEW account \in Holding
    PROVE  Bump(account) \in Holding /\ Bump(account).balances = account.balances
BY InputsAssumption DEF Bump, Holding

\* A nonce is bumped.
BumpIn(j, a) == [j EXCEPT ![a].info = Bump(@)]

LEMMA BumpJournal ==
    ASSUME NEW j, Journal(j), NEW a \in DOMAIN j
    PROVE  /\ Journal(BumpIn(j, a))
           /\ DOMAIN BumpIn(j, a) = DOMAIN j
           /\ BumpIn(j, a)[a].info = Bump(j[a].info)
           /\ BumpIn(j, a)[a].touched = j[a].touched
           /\ \A y \in DOMAIN j \ {a} : BumpIn(j, a)[y] = j[y]
<1> DEFINE x == [j[a] EXCEPT !.info = Bump(@)]
           k == BumpIn(j, a)
<1>1. j[a] \in [info : Holding, touched : BOOLEAN]
    BY DEF Journal
<1>2. Bump(j[a].info) \in Holding
    BY <1>1, BumpType
<1>3. /\ x \in [info : Holding, touched : BOOLEAN]
      /\ x.info = Bump(j[a].info)
      /\ x.touched = j[a].touched
    BY <1>1, <1>2
<1>4. k = Put(j, a, x)
    BY DEF Put, BumpIn
<1> HIDE DEF x, k
<1>5. /\ Journal(k) /\ DOMAIN k = DOMAIN j /\ k[a] = x
      /\ \A y \in DOMAIN j \ {a} : k[y] = j[y]
    BY <1>3, <1>4, PutJournal
<1> QED
    BY <1>3, <1>5 DEF k


\* A balance in the journal is a number.
LEMMA BalanceType ==
    ASSUME NEW j, Journal(j), NEW a \in DOMAIN j, NEW t \in TokenId
    PROVE  j[a].info.balances[t] \in Nat
BY DEF Journal, Holding

\* transfer of one token.
LEMMA PayJournal ==
    ASSUME NEW j, Journal(j), NEW from \in DOMAIN j, NEW to \in DOMAIN j,
           NEW id \in TokenId, NEW amount \in Nat
    PROVE  LET paid == Pay(j, from, to, id, amount)
           IN  /\ paid.id \in TokenId /\ paid.debit \in Nat
               /\ paid.outcome = "Ok" => /\ Journal(paid.journal)
                                         /\ Keeps(j, paid.journal)
                                         /\ DOMAIN paid.journal = DOMAIN j
<1> DEFINE less == SetBalance(j, from, id, j[from].info.balances[id] - amount)
           more == SetBalance(less, to, id, less[to].info.balances[id] + amount)
           paid == Pay(j, from, to, id, amount)
<1>1. j[from].info.balances[id] \in Nat
    BY BalanceType
<1>0. paid.id \in TokenId /\ paid.debit \in Nat
    BY DEF Pay, PaidWith
<1> SUFFICES ASSUME paid.outcome = "Ok"
             PROVE  Journal(paid.journal) /\ Keeps(j, paid.journal) /\ DOMAIN paid.journal = DOMAIN j
    BY <1>0
<1>2. paid.journal = Touch(Touch(more, from), to) /\ ~(j[from].info.balances[id] < amount)
    BY DEF Pay, PaidWith, SetBalance
<1> HIDE DEF paid
<1>3. j[from].info.balances[id] - amount \in Nat
    BY <1>1, <1>2
<1>4. Journal(less) /\ Keeps(j, less) /\ DOMAIN less = DOMAIN j
    BY <1>3, BalanceJournal
<1> HIDE DEF less
<1>5. less[to].info.balances[id] + amount \in Nat
  <2>1. less[to].info.balances[id] \in Nat
    BY <1>4, BalanceType
  <2> QED
    BY <2>1
<1>6. Journal(more) /\ Keeps(less, more) /\ DOMAIN more = DOMAIN j
    BY <1>4, <1>5, BalanceJournal
<1> HIDE DEF more
<1> DEFINE once == Touch(more, from)
           twice == Touch(once, to)
<1>7. Journal(once) /\ Keeps(more, once) /\ DOMAIN once = DOMAIN j
    BY <1>6, TouchJournal
<1> HIDE DEF once
<1>8. Journal(twice) /\ Keeps(once, twice) /\ DOMAIN twice = DOMAIN j
    BY <1>7, TouchJournal
<1>9. Keeps(j, twice)
    BY <1>4, <1>6, <1>7, <1>8, KeepsTwice
<1> QED
    BY <1>2, <1>8, <1>9 DEF once

\* The transfers of a call.
LEMMA PayAllJournal ==
    ASSUME NEW j, Journal(j), NEW from \in DOMAIN j, NEW to \in DOMAIN j,
           NEW tokens \in Seq([id : TokenId, amount : Nat])
    PROVE  LET paid == PayAll(j, from, to, tokens)
           IN  /\ paid.id \in TokenId /\ paid.debit \in Nat
               /\ paid.outcome = "Ok" => Journal(paid.journal) /\ Keeps(j, paid.journal)
<1> DEFINE c == [from |-> from, to |-> to, tokens |-> tokens]
           first == PaidWith(Touch(j, to), "Ok", BaseToken, 0)
           after(i) == PayLoop!Iterate(c, first, i)
           Fine(p) == /\ p.id \in TokenId /\ p.debit \in Nat
                      /\ p.outcome = "Ok" => /\ Journal(p.journal) /\ Keeps(j, p.journal)
                                             /\ DOMAIN p.journal = DOMAIN j
           T == {n \in Nat : n <= Len(tokens) => Fine(after(n))}
<1>1. after(0) = first
    BY PayLoop!IterateZero
<1>2. \A n \in Nat : after(n + 1) = PayTurn(c, after(n), n + 1)
    BY PayLoop!IterateNext
<1>3. PayAll(j, from, to, tokens) = after(Len(tokens))
    BY DEF PayAll
<1> HIDE DEF after
<1>4. 0 \in T
  <2>1. Fine(first)
    BY TouchJournal, EnvAssumption DEF PaidWith
  <2> HIDE DEF first, Fine
  <2> QED
    BY <1>1, <2>1
<1> HIDE DEF first
<1>5. ASSUME NEW n \in T PROVE n + 1 \in T
  <2> SUFFICES ASSUME n + 1 <= Len(tokens) PROVE Fine(after(n + 1))
    OBVIOUS
  <2>1. n \in Nat /\ n <= Len(tokens) /\ n + 1 \in DOMAIN tokens /\ Fine(after(n))
    OBVIOUS
  <2> DEFINE token == tokens[n + 1]
             paid == Pay(after(n).journal, from, to, token.id, token.amount)
  <2>2. token.id \in TokenId /\ token.amount \in Nat
    <3>1. token \in [id : TokenId, amount : Nat]
      BY <2>1, SeqElement
    <3> HIDE DEF token
    <3> QED
      BY <3>1
  <2>3. after(n + 1) = IF after(n).outcome # "Ok" THEN after(n) ELSE paid
    BY <1>2, <2>1 DEF PayTurn
  <2> HIDE DEF token
  <2>4. CASE after(n).outcome = "Ok"
    <3>1. /\ Journal(after(n).journal) /\ Keeps(j, after(n).journal)
          /\ DOMAIN after(n).journal = DOMAIN j
      BY <2>1, <2>4
    <3>2. /\ paid.id \in TokenId /\ paid.debit \in Nat
          /\ paid.outcome = "Ok" => /\ Journal(paid.journal)
                                    /\ Keeps(after(n).journal, paid.journal)
                                    /\ DOMAIN paid.journal = DOMAIN j
      <4> DEFINE k == after(n).journal
      <4>1. /\ Journal(k) /\ DOMAIN k = DOMAIN j /\ from \in DOMAIN k /\ to \in DOMAIN k
            /\ paid = Pay(k, from, to, token.id, token.amount)
        BY <3>1
      <4> HIDE DEF k, paid
      <4>2. LET p == Pay(k, from, to, token.id, token.amount)
            IN  /\ p.id \in TokenId /\ p.debit \in Nat
                /\ p.outcome = "Ok" => /\ Journal(p.journal) /\ Keeps(k, p.journal)
                                       /\ DOMAIN p.journal = DOMAIN k
        BY <2>2, <4>1, PayJournal
      <4>3. /\ paid.id \in TokenId /\ paid.debit \in Nat
            /\ paid.outcome = "Ok" => /\ Journal(paid.journal) /\ Keeps(k, paid.journal)
                                      /\ DOMAIN paid.journal = DOMAIN k
        BY <4>1, <4>2
      <4> QED
        BY <4>1, <4>3 DEF k
    <3> HIDE DEF paid
    <3>3. paid.outcome = "Ok" => Keeps(j, paid.journal)
      BY <3>1, <3>2, KeepsTwice
    <3> QED
      BY <2>3, <2>4, <3>2, <3>3
  <2>5. CASE after(n).outcome # "Ok"
    <3> HIDE DEF Fine
    <3> QED
      BY <2>1, <2>3, <2>5
  <2> QED
    BY <2>4, <2>5
<1>6. T = Nat
  <2> T \in SUBSET Nat
    OBVIOUS
  <2> HIDE DEF T
  <2> QED
    BY <1>4, <1>5, PayLoop!SetInduction
<1>7. Len(tokens) \in T
    BY <1>6
<1> QED
    BY <1>3, <1>7

\* What a transfer that failed leaves.
LEMMA UnpaidJournal ==
    ASSUME NEW j, Journal(j), NEW from \in DOMAIN j, NEW paid,
           paid.id \in TokenId, paid.debit \in Nat
    PROVE  Journal(Unpaid(j, from, paid)) /\ Keeps(j, Unpaid(j, from, paid))
<1> DEFINE n == SaturatingSub(j[from].info.balances[paid.id], paid.debit)
<1>1. n \in Nat
    BY BalanceType, SaturatingTypes
<1>2. Unpaid(j, from, paid) = SetBalance(j, from, paid.id, n)
    BY DEF Unpaid, SetBalance
<1> HIDE DEF n
<1> QED
    BY <1>1, <1>2, BalanceJournal

\* A journal whose caller has its nonce used keeps it so.
LEMMA UsedKept ==
    ASSUME NEW e, NEW j, NEW k, UsedIn(j, e), Keeps(j, k)
    PROVE  UsedIn(k, e)
BY DEF UsedIn, Keeps
-----------------------------------------------------------------------------
(* The L1 cost                                                             *)

\* try_fetch.
LEMMA FetchType ==
    ASSUME NEW s \in L1Slot, NEW id
    PROVE  TryFetch(s, id) \in FetchedL1
BY DEF TryFetch, FetchedL1, L1Slot

\* A quotient of natural numbers.
LEMMA QuotientType ==
    ASSUME NEW a \in Nat, NEW b \in Nat, b # 0
    PROVE  a \div b \in Nat
OBVIOUS

\* The gas of the data.
LEMMA DataGasType ==
    ASSUME NEW bytes \in Seq(Nat), NEW id
    PROVE  DataGas(bytes, id) \in Nat
<1> DEFINE zero == {i \in DOMAIN bytes : bytes[i] = 0}
<1>1. DOMAIN bytes = 1 .. Len(bytes) /\ Len(bytes) \in Nat
    OBVIOUS
<1>2. IsFiniteSet(1 .. Len(bytes)) /\ Cardinality(1 .. Len(bytes)) = Len(bytes)
    BY <1>1, FS_Interval
<1>3. zero \subseteq 1 .. Len(bytes)
    BY <1>1
<1> HIDE DEF zero
<1>4. Cardinality(zero) \in Nat /\ Cardinality(zero) <= Len(bytes)
    BY <1>2, <1>3, FS_Subset, FS_CardinalityType
<1> QED
    BY <1>1, <1>4 DEF DataGas, ZeroByteCost, NonZeroByteCost, zero

\* calculate_tx_l1_cost.
LEMMA L1CostType ==
    ASSUME NEW l1 \in FetchedL1, NEW bytes \in Seq(Nat), FlzSize(bytes) \in Nat, NEW id
    PROVE  CalculateTxL1Cost(l1, bytes, id) \in Nat
<1>1. /\ l1.base_fee \in Nat /\ l1.overhead \in Nat /\ l1.scalar \in Nat
      /\ l1.blob_fee \in Nat /\ l1.blob_scalar \in Nat
    BY DEF FetchedL1
<1>2. /\ DataGas(bytes, id) \in Nat /\ NonZeroByteCost \in Nat
      /\ Million \in Nat /\ Million # 0 /\ Million * NonZeroByteCost \in Nat
      /\ Million * NonZeroByteCost # 0 /\ Million * Million \in Nat /\ Million * Million # 0
    BY DataGasType, L1CostAssumption DEF NonZeroByteCost
<1>3. CostBedrock(l1, bytes, id) \in Nat
    BY <1>1, <1>2, SaturatingTypes, QuotientType DEF CostBedrock
<1>4. FeeScaledEcotone(l1) \in Nat
    BY <1>1, <1>2, SaturatingTypes DEF FeeScaledEcotone
<1>5. CostEcotone(l1, bytes, id) \in Nat
    BY <1>2, <1>3, <1>4, SaturatingTypes, QuotientType DEF CostEcotone
<1>6. EstimatedSizeFjord(bytes) \in Nat
  <2>1. FlzCoef \in Nat /\ FlzIntercept \in Nat /\ FlzMinSize \in Nat
    BY L1CostAssumption
  <2>2. SaturatingMul(FlzSize(bytes), FlzCoef) \in Nat
    BY <2>1, SaturatingTypes
  <2>3. SaturatingSub(SaturatingMul(FlzSize(bytes), FlzCoef), FlzIntercept) \in Nat
    BY <2>1, <2>2, SaturatingTypes
  <2> QED
    BY <2>1, <2>3 DEF EstimatedSizeFjord
<1>7. CostFjord(l1, bytes) \in Nat
    BY <1>2, <1>4, <1>6, SaturatingTypes, QuotientType DEF CostFjord
<1> QED
    BY <1>3, <1>5, <1>7 DEF CalculateTxL1Cost

-----------------------------------------------------------------------------
(* The handlers, and the nonces                                            *)

\* The handlers are not the two ends of a call.
LEMMA HandlerNames ==
    ASSUME NEW h \in Preparing \cup Working
    PROVE  h # "idle" /\ h # "end"
BY DEF Preparing, Working, Settling

\* A handler succeeds and leaves what the next one, h, needs.
LEMMA NonceGoes ==
    ASSUME NonceInv, pc # "idle", NEW h \in Preparing \cup Working, Go(h),
           Ready(h, journal', l1_block_info', gas')
    PROVE  NonceInv'
<1>1. /\ pc' = h /\ db' = db /\ slots' = slots /\ call' = call
      /\ h # "idle" /\ h # "end"
    BY HandlerNames DEF Go
<1>2. Ready(pc, journal, l1_block_info, gas)'
    BY <1>1 DEF Ready, L1At, GasAt, NonceAt, UsedIn, env, IsOptimism, IsDeposit
<1>3. NonceUsed'
    BY <1>1 DEF NonceUsed, Processed, Ended
<1> QED
    BY <1>1, <1>2, <1>3 DEF NonceInv

\* A later handler fails.
LEMMA NonceStops ==
    ASSUME NonceInv, pc # "idle", NEW e, Stop(e)
    PROVE  NonceInv'
<1>1. /\ pc' = "end" /\ db' = db /\ slots' = slots /\ call' = call /\ ~output'.ok
    BY DEF Stop
<1>2. NonceUsed'
    BY <1>1 DEF NonceUsed, Processed, Ended
<1>3. pc' \notin Preparing \cup Working
    BY <1>1, HandlerNames
<1> QED
    BY <1>1, <1>2, <1>3 DEF NonceInv

LEMMA NonceFails ==
    ASSUME NonceInv, pc # "idle", NEW e, Fail(e)
    PROVE  NonceInv'
BY NonceStops DEF Fail

\* A validation handler fails.
LEMMA NonceRejected ==
    ASSUME NonceInv, pc # "idle", NEW e, Reject(e)
    PROVE  NonceInv'
<1>1. /\ pc' = "idle" /\ db' = db /\ slots' = slots /\ ~result'.ok
    BY DEF Reject
<1>2. NonceUsed'
    BY <1>1 DEF NonceUsed, Processed, Ended
<1>3. pc' \notin Preparing \cup Working
    BY <1>1, HandlerNames
<1> QED
    BY <1>1, <1>2, <1>3 DEF NonceInv

\* The validation succeeded: transact goes on, preverify_transaction answers.
LEMMA NonceVerified ==
    ASSUME NonceInv, pc # "idle", NEW j, Verified(j),
           Ready("load_accounts", j, l1_block_info, gas)
    PROVE  NonceInv'
<1>1. CASE call.mode = "preverify"
  <2>1. /\ pc' = "idle" /\ db' = db /\ slots' = slots
        /\ result' = [ok |-> TRUE, status |-> "verified", env |-> env]
    BY <1>1 DEF Verified, VerifiedResult
  <2>2. NonceUsed'
    BY <2>1 DEF NonceUsed, Processed, Ended
  <2>3. pc' \notin Preparing \cup Working
    BY <2>1, HandlerNames
  <2>4. Covers(env, db[env.tx.caller].balances[BaseToken])
    BY DEF Ready, NonceAt
  <2> QED
    BY <2>1, <2>2, <2>3, <2>4 DEF NonceInv
<1>2. CASE call.mode # "preverify"
  <2>1. /\ Go("load_accounts") /\ journal' = j
        /\ l1_block_info' = l1_block_info /\ gas' = gas
    BY <1>2 DEF Verified
  <2>2. "load_accounts" \in Preparing \cup Working
    BY DEF Preparing
  <2> QED
    BY <2>1, <2>2, NonceGoes
<1> QED
    BY <1>1, <1>2


\* The intrinsic gas is a number.
LEMMA InitialGasType ==
    ASSUME NEW e \in Envs
    PROVE  InitialGas(e) \in Nat
<1>1. e.tx \in TxEnv
    BY InputsAssumption
<1>2. /\ e.tx.data.zero \in Nat /\ e.tx.data.nonzero \in Nat
      /\ e.tx.access_list.addresses \in Nat /\ e.tx.access_list.keys \in Nat
    BY <1>1 DEF TxEnv
<1>3. DataLen(e) \in Nat
    BY <1>2 DEF DataLen
<1>4. ((DataLen(e) + 31) \div 32) \in Nat
    BY <1>3
<1> QED
    BY <1>2, <1>3, <1>4 DEF InitialGas


\* The environment of the call.
LEMMA CallEnv ==
    ASSUME NonceInv, pc # "idle"
    PROVE  /\ env \in Envs /\ call \in Calls
           /\ env.tx.caller \in Address
           /\ db[env.tx.caller] \in Holding
           /\ IsOptimism = env.cfg.is_optimism
<1>1. call \in Calls
    BY DEF NonceInv
<1>2. env \in Envs
    BY <1>1 DEF Calls, env
<1>3. env.tx.caller \in Address
    BY <1>2, EnvFields
<1> QED
    BY <1>1, <1>2, <1>3 DEF NonceInv, IsOptimism, env

\* No account is loaded.
LEMMA EmptyJournal == Journal(NoAccounts) /\ DOMAIN NoAccounts = {}
BY DEF Journal, NoAccounts

\* A call begins with an empty journal.
LEMMA NonceBegin ==
    ASSUME ErrorInv, NonceInv, NEW mode \in {"transact", "preverify", "preverified"},
           NEW e \in Envs, Begin(mode, e)
    PROVE  NonceInv'
<1>1. /\ pc = "idle" /\ db' = db /\ slots' = slots /\ call' = [mode |-> mode, env |-> e]
      /\ journal' = NoAccounts /\ result' = None
      /\ pc' = IF mode = "preverified" THEN "initial_tx_gas" ELSE "validate_env"
      /\ mode = "preverified" => result = [ok |-> TRUE, status |-> "verified", env |-> e]
    BY DEF Begin, ErrorInv, ErrorsLeaveNoTrace, VerifiedResult
<1>2. mode = "preverified" => Covers(e, db[e.tx.caller].balances[BaseToken])
  <2> SUFFICES ASSUME mode = "preverified"
               PROVE  Covers(e, db[e.tx.caller].balances[BaseToken])
    OBVIOUS
  <2>1. result.ok /\ result.status = "verified" /\ result.env = e
    BY <1>1
  <2>2. result # None
    BY <1>1, InputsAssumption DEF VerifiedResult
  <2> QED
    BY <2>1, <2>2, <1>1 DEF NonceInv
<1>3. call' \in Calls /\ call'.mode = mode /\ env' = e
    BY <1>1 DEF Calls, env
<1>4. pc' \in {"initial_tx_gas", "validate_env"} /\ pc' \notin Working
    BY <1>1 DEF Working, Settling
<1>5. Ready(pc, journal, l1_block_info, gas)'
    BY <1>1, <1>2, <1>3, <1>4, EmptyJournal
    DEF Ready, L1At, GasAt, NonceAt, Working, Settling
<1>6. NonceUsed'
    BY <1>4 DEF NonceUsed, Processed, Ended
<1> QED
    BY <1>1, <1>3, <1>4, <1>5, <1>6 DEF NonceInv, Preparing

\* Env::validate_block_env and validate_tx.
LEMMA NonceValidateEnv ==
    ASSUME NonceInv, ValidateEnv
    PROVE  NonceInv'
<1>1. pc = "validate_env" /\ pc # "idle"
    BY DEF ValidateEnv
<1>2. CASE EnvError # None
    BY <1>1, <1>2, NonceRejected DEF ValidateEnv
<1>3. CASE EnvError = None
  <2>1. /\ Go("initial_tx_gas") /\ journal' = journal /\ l1_block_info' = l1_block_info
        /\ gas' = gas
    BY <1>3 DEF ValidateEnv
  <2>2. Ready("validate_env", journal, l1_block_info, gas)
    BY <1>1 DEF NonceInv, Preparing
  <2>3. Checked(env)
    BY <1>3 DEF EnvError, Checked, IsOptimism, IsDeposit, env
  <2>4. Ready("initial_tx_gas", journal, l1_block_info, gas)
    BY <2>2, <2>3 DEF Ready, L1At, GasAt, NonceAt, Working, Settling, Preparing
  <2>5. "initial_tx_gas" \in Preparing \cup Working
    BY DEF Preparing
  <2> QED
    BY <1>1, <2>1, <2>4, <2>5, NonceGoes
<1> QED
    BY <1>2, <1>3

\* The intrinsic gas.
LEMMA NonceInitialTxGas ==
    ASSUME NonceInv, InitialTxGas
    PROVE  NonceInv'
<1>1. pc = "initial_tx_gas" /\ pc # "idle"
    BY DEF InitialTxGas
<1>2. CASE InitialGas(env) > env.tx.gas_limit
    BY <1>1, <1>2, NonceRejected DEF InitialTxGas
<1>3. CASE ~(InitialGas(env) > env.tx.gas_limit)
  <2> DEFINE h == IF call.mode = "preverified" THEN "load_accounts" ELSE "tx_against_state"
  <2>1. Go(h) /\ journal' = journal /\ l1_block_info' = l1_block_info /\ gas' = gas
    BY <1>3 DEF InitialTxGas
  <2>2. Ready("initial_tx_gas", journal, l1_block_info, gas)
    BY <1>1 DEF NonceInv, Preparing
  <2>3. InitialGas(env) <= env.tx.gas_limit
    BY <1>1, <1>3, CallEnv, InitialGasType, EnvFields
  <2>4. Ready(h, journal, l1_block_info, gas)
    BY <2>2, <2>3 DEF Ready, L1At, GasAt, NonceAt, Working, Settling, Preparing
  <2>5. h \in Preparing \cup Working
    BY DEF Preparing
  <2> HIDE DEF h
  <2> QED
    BY <1>1, <2>1, <2>4, <2>5, NonceGoes
<1> QED
    BY <1>2, <1>3


\* Before the deduction an account of the journal is the database's, but for the
\* balance that a disabled check raised.
LEMMA PreparedLoad ==
    ASSUME NonceInv, pc \in Preparing, NEW a \in Address
    PROVE  /\ Journal(Load(journal, a))
           /\ a \in DOMAIN Load(journal, a)
           /\ \A x \in DOMAIN Load(journal, a) :
                  /\ Load(journal, a)[x].info.nonce = db[x].nonce
                  /\ ~env.cfg.disable_balance_check => Load(journal, a)[x].info = db[x]
<1>1. db \in [Address -> Holding] /\ Journal(journal) /\ NonceAt(pc, journal)
    BY DEF NonceInv, Ready
<1>2. \A x \in DOMAIN journal : /\ journal[x].info.nonce = db[x].nonce
                                /\ ~env.cfg.disable_balance_check => journal[x].info = db[x]
    BY <1>1 DEF NonceAt
<1>3. /\ Journal(Load(journal, a))
      /\ DOMAIN Load(journal, a) = DOMAIN journal \cup {a}
      /\ \A x \in DOMAIN journal : Load(journal, a)[x] = journal[x]
      /\ a \notin DOMAIN journal => Load(journal, a)[a] = WithTouch(db[a], FALSE)
    BY <1>1, LoadJournal
<1>4. a \notin DOMAIN journal => Load(journal, a)[a].info = db[a]
    BY <1>3 DEF WithTouch
<1> QED
    BY <1>2, <1>3, <1>4

\* After validation the blobs have a price.
LEMMA BlobsPriced ==
    ASSUME NEW e \in Envs, Checked(e), Enabled(e.cfg.spec, CANCUN)
    PROVE  e.block.blob_gasprice # None
<1>1. CASE e.cfg.is_optimism /\ e.tx.source_hash
    BY <1>1, BlobAssumption
<1>2. CASE ~(e.cfg.is_optimism /\ e.tx.source_hash)
    BY <1>2, EnvAssumption DEF Checked, ValidateBlockEnv, InvalidTransaction
<1> QED
    BY <1>1, <1>2

\* The balance of a create transaction that passed both validations pays for it.
LEMMA Affordable ==
    ASSUME NEW e \in Envs, Checked(e), NEW account \in Holding,
           ValidateTxAgainstState(e, account).error = None
    PROVE  Covers(e, account.balances[BaseToken])
<1> SUFFICES ASSUME FundedCreate(e)
             PROVE  Cost(e) + BaseTransferValue(e) <= account.balances[BaseToken]
    BY BlobsPriced DEF Covers
<1>1. ~e.cfg.is_optimism /\ ~e.cfg.disable_balance_check /\ IsCreate(e)
    BY DEF FundedCreate
<1>2. ValidateBlockEnv(e) = None /\ ValidateTx(e) = None
    BY <1>1 DEF Checked
<1>3. /\ RequiredBaseBalance(e) # None
      /\ ~(RequiredBaseBalance(e) > account.balances[BaseToken])
    BY <1>1, RequiredPaid
<1>4. /\ Cost(e) \in Nat /\ RequiredBaseBalance(e) \in Nat
      /\ Cost(e) + BaseTransferValue(e) <= RequiredBaseBalance(e)
    BY <1>1, <1>2, <1>3, CreateCost
<1>5. account.balances[BaseToken] \in Nat /\ BaseTransferValue(e) \in Nat
    BY EnvAssumption, ValueType DEF Holding
<1> QED
    BY <1>3, <1>4, <1>5

\* Env::validate_tx_against_state.
LEMMA NonceTxAgainstState ==
    ASSUME NonceInv, TxAgainstState
    PROVE  NonceInv'
<1> DEFINE caller == env.tx.caller
           loaded == Load(journal, caller)
           checked == ValidateTxAgainstState(env, loaded[caller].info)
           j == [loaded EXCEPT ![caller].info = checked.account]
<1>1. pc = "tx_against_state" /\ pc # "idle" /\ pc \in Preparing
    BY DEF TxAgainstState, Preparing
<1>2. Ready("tx_against_state", journal, l1_block_info, gas)
    BY <1>1 DEF NonceInv
<1>3. env \in Envs /\ caller \in Address /\ db[caller] \in Holding /\ IsOptimism = env.cfg.is_optimism
    BY <1>1, CallEnv
<1>4. Checked(env)
    BY <1>2 DEF Ready, NonceAt
<1>5. CASE Verified(journal) /\ IsOptimism
  <2>1. Covers(env, db[env.tx.caller].balances[BaseToken])
    BY <1>3, <1>4, <1>5, BlobsPriced DEF Covers, FundedCreate
  <2>2. Ready("load_accounts", journal, l1_block_info, gas)
    BY <2>1, <1>2 DEF Ready, L1At, GasAt, NonceAt, Working, Settling, Preparing
  <2> QED
    BY <1>1, <1>5, <2>2, NonceVerified
<1>6. CASE checked.error = None /\ Verified(j)
  <2>1. /\ Journal(loaded) /\ caller \in DOMAIN loaded
        /\ \A x \in DOMAIN loaded :
               /\ loaded[x].info.nonce = db[x].nonce
               /\ ~env.cfg.disable_balance_check => loaded[x].info = db[x]
    BY <1>1, <1>3, PreparedLoad
  <2> DEFINE account == loaded[caller].info
             x == [loaded[caller] EXCEPT !.info = checked.account]
  <2>2. loaded[caller] \in [info : Holding, touched : BOOLEAN] /\ account \in Holding
    BY <2>1 DEF Journal
  <2>3. /\ checked.account \in Holding /\ checked.account.nonce = account.nonce
        /\ ~env.cfg.disable_balance_check => checked.account = account
    <3> HIDE DEF account
    <3> QED
      BY <1>3, <1>6, <2>2, RequiredPaid DEF account
  <2>4. /\ x \in [info : Holding, touched : BOOLEAN] /\ x.info = checked.account
    BY <2>2, <2>3
  <2>5. j = Put(loaded, caller, x)
    BY DEF Put
  <2>6. Covers(env, db[caller].balances[BaseToken])
    <3>1. Covers(env, account.balances[BaseToken])
      <4> HIDE DEF account
      <4> QED
        BY <1>3, <1>4, <1>6, <2>2, Affordable DEF account
    <3>2. CASE ~env.cfg.disable_balance_check
      BY <3>1, <3>2, <2>1
    <3>3. CASE env.cfg.disable_balance_check
      BY <1>3, <1>4, <3>3, BlobsPriced DEF Covers, FundedCreate
    <3> QED
      BY <3>2, <3>3
  <2> HIDE DEF loaded, x, checked, account, j
  <2>7. /\ Journal(j) /\ DOMAIN j = DOMAIN loaded /\ j[caller] = x
        /\ \A y \in DOMAIN loaded \ {caller} : j[y] = loaded[y]
    BY <2>1, <2>4, <2>5, PutJournal
  <2>8. account = loaded[caller].info
    BY DEF account
  <2>9. \A y \in DOMAIN j : /\ j[y].info.nonce = db[y].nonce
                            /\ ~env.cfg.disable_balance_check => j[y].info = db[y]
    BY <2>1, <2>3, <2>4, <2>7, <2>8
  <2>10. Ready("load_accounts", j, l1_block_info, gas)
    BY <2>6, <2>7, <2>9, <1>2 DEF Ready, L1At, GasAt, NonceAt, Working, Settling, Preparing
  <2> QED
    BY <1>1, <1>6, <2>10, NonceVerified
<1>7. CASE \E e : Reject(e)
    BY <1>1, <1>7, NonceRejected
<1> QED
    BY <1>5, <1>6, <1>7 DEF TxAgainstState

\* The beneficiary and the L1 data are loaded.
LEMMA NonceLoadAccounts ==
    ASSUME NonceInv, LoadAccounts
    PROVE  NonceInv'
<1>1. pc = "load_accounts" /\ pc # "idle" /\ pc \in Preparing
    BY DEF LoadAccounts, Preparing
<1>2. CASE Fail("Database") \/ Stop("Database")
    BY <1>1, <1>2, NonceFails, NonceStops
<1>3. CASE /\ Go("deduct_caller") /\ gas' = gas
           /\ l1_block_info' = FetchL1(l1_block_info)
           /\ journal' = IF Enabled(spec, SHANGHAI) THEN Load(journal, env.block.coinbase)
                         ELSE journal
  <2>1. Ready("load_accounts", journal, l1_block_info, gas)
    BY <1>1 DEF NonceInv
  <2>2. env.block.coinbase \in Address
    BY <1>1, CallEnv, EnvFields
  <2>3. /\ Journal(journal')
        /\ \A x \in DOMAIN journal' :
               /\ journal'[x].info.nonce = db[x].nonce
               /\ ~env.cfg.disable_balance_check => journal'[x].info = db[x]
    <3>1. CASE Enabled(spec, SHANGHAI)
      BY <1>1, <1>3, <2>2, <3>1, PreparedLoad
    <3>2. CASE ~Enabled(spec, SHANGHAI)
      BY <1>3, <2>1, <3>2 DEF Ready, NonceAt, Preparing
    <3> QED
      BY <3>1, <3>2
  <2>4. IsOptimism /\ ~IsDeposit => l1_block_info' \in FetchedL1
    BY <1>3, FetchType DEF FetchL1, NonceInv
  <2>5. Ready("deduct_caller", journal', l1_block_info', gas)
    BY <2>1, <2>3, <2>4 DEF Ready, L1At, GasAt, NonceAt, Working, Settling, Preparing
  <2>6. "deduct_caller" \in Preparing \cup Working
    BY DEF Preparing
  <2> QED
    BY <1>1, <1>3, <2>5, <2>6, NonceGoes
<1> QED
    BY <1>2, <1>3 DEF LoadAccounts


\* The bumped nonce depends on the nonce alone.
LEMMA BumpNonce ==
    ASSUME NEW x \in Holding, NEW y \in Holding, x.nonce = y.nonce
    PROVE  Bump(x).nonce = Bump(y).nonce
BY DEF Bump, Holding

\* What deduct_caller takes is a number once the blobs have a price.
LEMMA CostType ==
    ASSUME NEW e \in Envs, Enabled(e.cfg.spec, CANCUN) => e.block.blob_gasprice # None
    PROVE  Cost(e) \in Nat
<1> DEFINE price == SaturatingMul(e.tx.gas_limit, EffectiveGasPrice(e))
<1>1. price \in Nat
    BY EnvFields, EffectivePrice, SaturatingTypes
<1>2. CASE Enabled(e.cfg.spec, CANCUN)
  <2>1. CalcDataFee(e) \in Nat
    BY <1>2, EnvFields, BlobGasType, SaturatingTypes DEF CalcDataFee
  <2> HIDE DEF price
  <2>2. SaturatingAdd(price, CalcDataFee(e)) \in Nat
    BY <1>1, <2>1, SaturatingTypes
  <2> QED
    BY <1>2, <2>2 DEF Cost, price
<1>3. CASE ~Enabled(e.cfg.spec, CANCUN)
    BY <1>1, <1>3 DEF Cost
<1> QED
    BY <1>2, <1>3

\* deduct_caller_inner.
LEMMA DeductJournal ==
    ASSUME NEW j, Journal(j), env.tx.caller \in DOMAIN j, Cost(env) \in Nat
    PROVE  LET k == DeductCallerInner(j)
           IN  /\ Journal(k)
               /\ DOMAIN k = DOMAIN j
               /\ k[env.tx.caller].touched
               /\ k[env.tx.caller].info.nonce =
                      IF IsCreate(env) THEN j[env.tx.caller].info.nonce
                      ELSE Bump(j[env.tx.caller].info).nonce
               /\ Base(k, env.tx.caller) = SaturatingSub(Base(j, env.tx.caller), Cost(env))
<1> DEFINE a == env.tx.caller
           n == SaturatingSub(Base(j, a), Cost(env))
           paid == SetBase(j, a, n)
           bumped == IF IsCreate(env) THEN paid ELSE BumpIn(paid, a)
<1>1. DeductCallerInner(j) = Touch(bumped, a)
    BY DEF DeductCallerInner, Cost, BumpIn, spec, env
<1>2. n \in Nat
  <2>1. Base(j, a) \in Nat
    BY BalanceType, EnvAssumption DEF Base
  <2> QED
    BY <2>1, SaturatingTypes
<1>3. paid = SetBalance(j, a, BaseToken, n)
    BY DEF SetBase, SetBalance
<1> HIDE DEF paid, n
<1>4. /\ Journal(paid) /\ DOMAIN paid = DOMAIN j /\ paid[a].info.balances[BaseToken] = n
      /\ paid[a].info.nonce = j[a].info.nonce
    BY <1>2, <1>3, BalanceJournal, EnvAssumption
<1>5. /\ Journal(bumped) /\ DOMAIN bumped = DOMAIN j
      /\ bumped[a].info.balances[BaseToken] = n
      /\ bumped[a].info.nonce = IF IsCreate(env) THEN j[a].info.nonce ELSE Bump(j[a].info).nonce
  <2>1. CASE IsCreate(env)
    BY <1>4, <2>1
  <2>2. CASE ~IsCreate(env)
    <3>1. paid[a].info \in Holding /\ j[a].info \in Holding
      BY <1>4 DEF Journal
    <3>2. /\ Journal(BumpIn(paid, a)) /\ DOMAIN BumpIn(paid, a) = DOMAIN paid
          /\ BumpIn(paid, a)[a].info = Bump(paid[a].info)
      BY <1>4, BumpJournal
    <3>3. /\ Bump(paid[a].info).balances = paid[a].info.balances
          /\ Bump(paid[a].info).nonce = Bump(j[a].info).nonce
      BY <1>4, <3>1, BumpType, BumpNonce
    <3> QED
      BY <1>4, <2>2, <3>2, <3>3
  <2> QED
    BY <2>1, <2>2
<1> HIDE DEF bumped
<1>6. /\ Journal(Touch(bumped, a)) /\ DOMAIN Touch(bumped, a) = DOMAIN j
      /\ Touch(bumped, a)[a].touched /\ Touch(bumped, a)[a].info = bumped[a].info
    BY <1>5, TouchJournal
<1> QED
    BY <1>1, <1>5, <1>6 DEF Base, n

\* The gas, the blobs and the L1 cost are taken from the caller.
LEMMA NonceDeductCaller ==
    ASSUME NonceInv, DeductCaller
    PROVE  NonceInv'
<1> DEFINE caller == env.tx.caller
           loaded == Load(journal, caller)
           minted == IF IsOptimism /\ env.tx.mint # None
                     THEN IncreaseWrapping(loaded, caller, env.tx.mint) ELSE loaded
           deducted == DeductCallerInner(minted)
           less == SetBase(deducted, caller, Base(deducted, caller) - TxL1Cost)
<1>1. pc = "deduct_caller" /\ pc # "idle" /\ pc \in Preparing
    BY DEF DeductCaller, Preparing
<1>2. Ready("deduct_caller", journal, l1_block_info, gas)
    BY <1>1 DEF NonceInv
<1>3. /\ env \in Envs /\ caller \in Address /\ db[caller] \in Holding
      /\ IsOptimism = env.cfg.is_optimism
    BY <1>1, CallEnv
<1>4. /\ Journal(loaded) /\ caller \in DOMAIN loaded
      /\ loaded[caller].info.nonce = db[caller].nonce
      /\ ~env.cfg.disable_balance_check => loaded[caller].info = db[caller]
    BY <1>1, <1>3, PreparedLoad
<1>5. Covers(env, db[caller].balances[BaseToken])
    BY <1>2 DEF Ready, NonceAt
<1>6. Cost(env) \in Nat /\ BaseTransferValue(env) \in Nat
    BY <1>3, <1>5, CostType, ValueType DEF Covers
<1>7. BaseToken \in TokenId /\ db[caller].balances[BaseToken] \in Nat
    BY <1>3, EnvAssumption DEF Holding
<1> HIDE DEF loaded
<1>8. /\ Journal(minted) /\ caller \in DOMAIN minted
      /\ minted[caller].info.nonce = db[caller].nonce
      /\ ~IsOptimism => minted = loaded
  <2>1. CASE IsOptimism /\ env.tx.mint # None
    <3> DEFINE n == WrappingAdd(Base(loaded, caller), env.tx.mint)
    <3>1. Base(loaded, caller) \in Nat
      BY <1>4, <1>7, BalanceType DEF Base
    <3>2. n \in Nat
      BY <1>3, <2>1, <3>1, EnvFields, WrappingAddType
    <3>3. minted = SetBalance(loaded, caller, BaseToken, n)
      BY <2>1 DEF IncreaseWrapping, SetBase, SetBalance
    <3> HIDE DEF n, minted
    <3> QED
      BY <1>4, <1>7, <2>1, <3>2, <3>3, BalanceJournal
  <2>2. CASE ~(IsOptimism /\ env.tx.mint # None)
    BY <1>4, <2>2
  <2> QED
    BY <2>1, <2>2
<1>9. /\ Journal(deducted) /\ caller \in DOMAIN deducted
      /\ deducted[caller].touched
      /\ deducted[caller].info.nonce =
             IF IsCreate(env) THEN db[caller].nonce ELSE Bump(db[caller]).nonce
      /\ FundedCreate(env) => Base(deducted, caller) >= BaseTransferValue(env)
  <2> HIDE DEF minted
  <2>1. /\ Journal(deducted) /\ DOMAIN deducted = DOMAIN minted
        /\ deducted[caller].touched
        /\ deducted[caller].info.nonce =
               IF IsCreate(env) THEN minted[caller].info.nonce
               ELSE Bump(minted[caller].info).nonce
        /\ Base(deducted, caller) = SaturatingSub(Base(minted, caller), Cost(env))
    BY <1>6, <1>8, DeductJournal
  <2>2. Bump(minted[caller].info).nonce = Bump(db[caller]).nonce
    <3>1. minted[caller].info \in Holding
      BY <1>8 DEF Journal
    <3> QED
      BY <1>3, <1>8, <3>1, BumpNonce
  <2>3. ASSUME FundedCreate(env) PROVE Base(deducted, caller) >= BaseTransferValue(env)
    <3>1. Base(minted, caller) = db[caller].balances[BaseToken]
      BY <2>3, <1>3, <1>4, <1>8 DEF FundedCreate, Base
    <3>2. Cost(env) + BaseTransferValue(env) <= db[caller].balances[BaseToken]
      BY <2>3, <1>5 DEF Covers
    <3> QED
      BY <2>1, <3>1, <3>2, <1>6, <1>7 DEF SaturatingSub
  <2> QED
    BY <2>1, <2>2, <2>3, <1>8
<1>10. "execute" \in Preparing \cup Working /\ "execute" \notin Settling \cup Preparing
    BY DEF Working, Settling, Preparing
<1> HIDE DEF deducted
<1>11. ASSUME Go("execute"), journal' = deducted, UNCHANGED <<l1_block_info, gas>>,
              ~IsOptimism \/ IsDeposit
       PROVE  NonceInv'
  <2>1. Ready("execute", deducted, l1_block_info, gas)
    BY <1>2, <1>9, <1>10, <1>11 DEF Ready, L1At, GasAt, NonceAt
  <2> QED
    BY <1>1, <1>10, <1>11, <2>1, NonceGoes
<1>12. ASSUME Go("execute"), journal' = less, UNCHANGED <<l1_block_info, gas>>,
              IsOptimism, ~IsDeposit, env.tx.enveloped_tx # None,
              ~(TxL1Cost > Base(deducted, caller))
       PROVE  NonceInv'
  <2>1. l1_block_info \in FetchedL1
    BY <1>2, <1>12 DEF Ready, L1At
  <2>2. TxL1Cost \in Nat
    BY <1>3, <1>12, <2>1, EnvFields, InputsAssumption, L1CostType DEF TxL1Cost
  <2>3. Base(deducted, caller) \in Nat
    BY <1>9, <1>7, BalanceType DEF Base
  <2>4. Base(deducted, caller) - TxL1Cost \in Nat
    BY <1>12, <2>2, <2>3
  <2> DEFINE n == Base(deducted, caller) - TxL1Cost
  <2>5. less = SetBalance(deducted, caller, BaseToken, n)
    BY DEF SetBase, SetBalance
  <2>10. n \in Nat /\ Journal(deducted) /\ caller \in DOMAIN deducted
    BY <2>4, <1>9
  <2> HIDE DEF less, n
  <2>6. /\ Journal(less) /\ DOMAIN less = DOMAIN deducted
        /\ less[caller].info.nonce = deducted[caller].info.nonce
        /\ less[caller].touched = deducted[caller].touched
    BY <1>7, <2>10, <2>5, BalanceJournal
  <2>7. ~FundedCreate(env)
    BY <1>3, <1>12 DEF FundedCreate
  <2>8. Ready("execute", less, l1_block_info, gas)
    BY <1>2, <1>9, <1>10, <1>12, <2>1, <2>6, <2>7 DEF Ready, L1At, GasAt, NonceAt
  <2> QED
    BY <1>1, <1>10, <1>12, <2>8, NonceGoes
<1>13. CASE \E e : Fail(e)
    BY <1>1, <1>13, NonceFails
<1> QED
    BY <1>11, <1>12, <1>13 DEF DeductCaller, deducted, loaded


\* A frame that ran or was refused leaves its gas.
LEMMA FrameGas ==
    ASSUME env \in Envs, InitialGas(env) <= env.tx.gas_limit,
           NEW kind \in {"ok", "revert", "halt"}, NEW left, NEW refund,
           \/ left \in GasLeft(FrameLimit) /\ refund \in Refunds
           \/ left = FrameLimit /\ refund = 0
    PROVE  GasAt("last_frame_return", [kind |-> kind, limit |-> FrameLimit, remaining |-> left,
                                       refunded |-> refund])
<1>1. /\ env.tx.gas_limit \in Nat /\ InitialGas(env) \in Nat
      /\ FrameLimit = env.tx.gas_limit - InitialGas(env) /\ FrameLimit = FrameLimitOf(env)
    BY EnvFields, InitialGasType DEF FrameLimit, FrameLimitOf
<1>2. FrameLimit \in Nat /\ FrameLimit <= env.tx.gas_limit
    BY <1>1
<1>3. /\ left \in Nat /\ left <= FrameLimit /\ refund \in Nat
      /\ env.cfg.is_optimism /\ env.cfg.disable_gas_refund => refund <= env.tx.gas_limit - left
  <2>1. CASE left \in GasLeft(FrameLimit) /\ refund \in Refunds
    BY <1>1, <1>2, <2>1, GasAssumption
  <2>2. CASE left = FrameLimit /\ refund = 0
    BY <1>1, <1>2, <2>2
  <2> QED
    BY <2>1, <2>2
<1> DEFINE g == [kind |-> kind, limit |-> FrameLimit, remaining |-> left, refunded |-> refund]
<1>4. /\ g \in [kind : {"ok", "revert", "halt"}, limit : Nat, remaining : Nat, refunded : Nat]
      /\ g.remaining = left /\ g.refunded = refund
    BY <1>2, <1>3
<1> HIDE DEF g
<1>5. left <= env.tx.gas_limit
    BY <1>2, <1>3, <1>1
<1>6. GasAt("last_frame_return", g)
    BY <1>3, <1>4, <1>5 DEF GasAt, IsOptimism, env
<1> QED
    BY <1>6 DEF g

\* The first frame has returned, and the caller's nonce is used.
LEMMA NonceReturned ==
    ASSUME NonceInv, pc = "execute", Go("last_frame_return"), l1_block_info' = l1_block_info,
           NEW kind \in {"ok", "revert", "halt"}, NEW left, NEW refund, Returns(kind, left, refund),
           \/ left \in GasLeft(FrameLimit) /\ refund \in Refunds
           \/ left = FrameLimit /\ refund = 0,
           Journal(journal'), UsedIn(journal', env)
    PROVE  NonceInv'
<1>1. pc # "idle" /\ "last_frame_return" \in Working /\ "last_frame_return" \notin Preparing
    BY DEF Preparing, Working, Settling
<1>2. Ready("execute", journal, l1_block_info, gas)
    BY DEF NonceInv, Working
<1>3. env \in Envs /\ InitialGas(env) <= env.tx.gas_limit
    BY <1>1, <1>2, CallEnv DEF Ready, GasAt, Working
<1>4. GasAt("last_frame_return", gas')
    BY <1>3, FrameGas DEF Returns
<1>5. L1At("last_frame_return", l1_block_info)
    BY <1>1, <1>2 DEF Ready, L1At, Working
<1>6. NonceAt("last_frame_return", journal')
    BY <1>1 DEF NonceAt
<1>7. Ready("last_frame_return", journal', l1_block_info', gas')
    BY <1>4, <1>5, <1>6 DEF Ready
<1> QED
    BY <1>1, <1>7, NonceGoes

\* Run, whose frame is undone when it fails.
LEMMA NonceRuns ==
    ASSUME NonceInv, pc = "execute", NEW paid, NEW undone, Run(paid, undone),
           Journal(paid), UsedIn(paid, env), Journal(undone), UsedIn(undone, env)
    PROVE  NonceInv'
<1>1. PICK kind \in {"ok", "revert", "halt"}, left \in GasLeft(FrameLimit), refund \in Refunds :
          /\ Returns(kind, left, refund)
          /\ journal' = IF kind = "ok" THEN paid ELSE undone
          /\ Go("last_frame_return")
          /\ l1_block_info' = l1_block_info
    BY DEF Run
<1>2. Journal(journal') /\ UsedIn(journal', env)
    BY <1>1
<1> QED
    BY <1>1, <1>2, NonceReturned

\* make_call_frame.
LEMMA NonceExecuteCall ==
    ASSUME NonceInv, pc = "execute", ~IsCreate(env), ExecuteCall
    PROVE  NonceInv'
<1> DEFINE caller == env.tx.caller
           to == env.tx.transact_to
           loaded == Load(journal, to)
           paid == PayAll(loaded, caller, to, env.tx.transferred_tokens)
<1>1. Ready("execute", journal, l1_block_info, gas) /\ pc # "idle"
    BY DEF NonceInv, Working
<1>2. env \in Envs
    BY <1>1, CallEnv
<1>3. /\ to \in Address /\ env.tx.transferred_tokens \in Seq([id : TokenId, amount : Nat])
      /\ db \in [Address -> Holding]
    BY <1>2, EnvFields DEF IsCreate, NonceInv
<1>4. Journal(journal) /\ UsedIn(journal, env) /\ caller \in DOMAIN journal
    BY <1>1 DEF Ready, NonceAt, UsedIn
<1>5. /\ Journal(loaded) /\ Keeps(journal, loaded)
      /\ DOMAIN loaded = DOMAIN journal \cup {to}
    BY <1>3, <1>4, LoadJournal
<1> HIDE DEF loaded
<1>6. UsedIn(loaded, env)
    BY <1>4, <1>5, UsedKept
<1>7. /\ paid.id \in TokenId /\ paid.debit \in Nat
      /\ paid.outcome = "Ok" => Journal(paid.journal) /\ Keeps(loaded, paid.journal)
    BY <1>3, <1>4, <1>5, PayAllJournal
<1>8. CASE paid.outcome # "Ok"
  <2> DEFINE kind == IF paid.outcome = "OutOfFunds" THEN "revert" ELSE "halt"
  <2>1. /\ Returns(kind, FrameLimit, 0) /\ journal' = Unpaid(loaded, caller, paid)
        /\ Go("last_frame_return") /\ l1_block_info' = l1_block_info
    BY <1>8 DEF ExecuteCall, loaded
  <2>2. kind \in {"ok", "revert", "halt"}
    OBVIOUS
  <2> HIDE DEF paid, kind
  <2>3. Journal(journal') /\ Keeps(loaded, journal')
    BY <1>4, <1>5, <1>7, <2>1, UnpaidJournal
  <2>4. UsedIn(journal', env)
    BY <1>6, <2>3, UsedKept
  <2> QED
    BY <2>1, <2>2, <2>3, <2>4, NonceReturned
<1>9. CASE paid.outcome = "Ok"
  <2>1. Run(paid.journal, loaded)
    BY <1>9 DEF ExecuteCall, loaded
  <2> HIDE DEF paid
  <2>2. UsedIn(paid.journal, env)
    BY <1>6, <1>7, <1>9, UsedKept
  <2> QED
    BY <1>5, <1>6, <1>7, <1>9, <2>1, <2>2, NonceRuns
<1> QED
    BY <1>8, <1>9


\* make_create_frame: what it refuses for want of funds was not validated.
LEMMA NonceExecuteCreate ==
    ASSUME NonceInv, pc = "execute", IsCreate(env), ExecuteCreate
    PROVE  NonceInv'
<1> DEFINE caller == env.tx.caller
           value == BaseTransferValue(env)
           more == BumpIn(journal, caller)
           bumped == Load(more, Created)
           paid == Pay(bumped, caller, Created, BaseToken, value)
<1>1. Ready("execute", journal, l1_block_info, gas) /\ pc # "idle"
    BY DEF NonceInv, Working
<1>2. env \in Envs /\ caller \in Address /\ db[caller] \in Holding
    BY <1>1, CallEnv
<1>3. /\ Journal(journal) /\ caller \in DOMAIN journal /\ journal[caller].touched
      /\ journal[caller].info.nonce = db[caller].nonce
      /\ FundedCreate(env) => Base(journal, caller) >= value
    BY <1>1 DEF Ready, NonceAt
<1>4. /\ value \in Nat /\ BaseToken \in TokenId /\ Created \in Address
      /\ db \in [Address -> Holding]
    BY <1>2, ValueType, EnvAssumption, InputsAssumption DEF NonceInv
<1>5. Base(journal, caller) \in Nat /\ journal[caller].info \in Holding
    BY <1>3, <1>4, BalanceType DEF Base, Journal
<1>6. CASE Base(journal, caller) < value
  <2>1. /\ Returns("revert", FrameLimit, 0) /\ journal' = journal
        /\ Go("last_frame_return") /\ l1_block_info' = l1_block_info
    BY <1>4, <1>5, <1>6 DEF ExecuteCreate
  <2>2. ~Uses(env)
    BY <1>3, <1>4, <1>5, <1>6 DEF Uses
  <2>3. UsedIn(journal, env)
    BY <1>3, <2>2 DEF UsedIn
  <2> QED
    BY <1>3, <2>1, <2>3, NonceReturned
<1>7. CASE journal[caller].info.nonce = MaxNonce /\ ~(Base(journal, caller) < value)
  <2>1. Base(journal, caller) >= value
    BY <1>4, <1>5, <1>7
  <2>2. /\ Returns("ok", FrameLimit, 0) /\ journal' = journal
        /\ Go("last_frame_return") /\ l1_block_info' = l1_block_info
    BY <1>7, <2>1 DEF ExecuteCreate
  <2>3. Bump(db[caller]).nonce = db[caller].nonce
    BY <1>2, <1>3, <1>7, InputsAssumption DEF Bump, Holding
  <2>4. UsedIn(journal, env)
    BY <1>3, <2>3 DEF UsedIn
  <2> QED
    BY <1>3, <2>2, <2>4, NonceReturned
<1>8. CASE journal[caller].info.nonce # MaxNonce /\ ~(Base(journal, caller) < value)
  <2>1. \/ paid.outcome = "Ok" /\ Run(paid.journal, bumped)
        \/ /\ Returns("halt", FrameLimit, 0) /\ journal' = bumped
           /\ Go("last_frame_return") /\ l1_block_info' = l1_block_info
    BY <1>8 DEF ExecuteCreate, BumpIn
  <2>2. /\ Journal(more) /\ DOMAIN more = DOMAIN journal
        /\ more[caller].info = Bump(journal[caller].info)
        /\ more[caller].touched = journal[caller].touched
    BY <1>3, BumpJournal
  <2>3. /\ Bump(journal[caller].info).nonce = Bump(db[caller]).nonce
        /\ Bump(journal[caller].info).balances = journal[caller].info.balances
    BY <1>2, <1>3, <1>5, BumpNonce, BumpType
  <2> HIDE DEF more
  <2>4. UsedIn(more, env)
    BY <1>3, <2>2, <2>3 DEF UsedIn
  <2>5. /\ Journal(bumped) /\ Keeps(more, bumped) /\ bumped[caller] = more[caller]
        /\ DOMAIN bumped = DOMAIN more \cup {Created}
    <3>1. Journal(more) /\ Created \in Address /\ db \in [Address -> Holding]
      BY <1>4, <2>2
    <3>2. caller \in DOMAIN more
      BY <1>3, <2>2
    <3>3. /\ Journal(bumped) /\ Keeps(more, bumped)
          /\ DOMAIN bumped = DOMAIN more \cup {Created}
          /\ \A x \in DOMAIN more : bumped[x] = more[x]
      BY <3>1, LoadJournal
    <3> QED
      BY <3>2, <3>3
  <2> HIDE DEF bumped
  <2>6. UsedIn(bumped, env)
    BY <2>4, <2>5, UsedKept
  <2>7. paid.outcome = "Ok" => Journal(paid.journal) /\ Keeps(bumped, paid.journal)
    BY <1>3, <1>4, <2>2, <2>5, PayJournal
  <2> HIDE DEF paid
  <2>8. CASE paid.outcome = "Ok" /\ Run(paid.journal, bumped)
    <3>1. UsedIn(paid.journal, env)
      BY <2>6, <2>7, <2>8, UsedKept
    <3> QED
      BY <2>5, <2>6, <2>7, <2>8, <3>1, NonceRuns
  <2>9. CASE /\ Returns("halt", FrameLimit, 0) /\ journal' = bumped
             /\ Go("last_frame_return") /\ l1_block_info' = l1_block_info
    BY <2>5, <2>6, <2>9, NonceReturned
  <2> QED
    BY <2>1, <2>8, <2>9
<1> QED
    BY <1>6, <1>7, <1>8

\* The execution.
LEMMA NonceExecute ==
    ASSUME NonceInv, Execute
    PROVE  NonceInv'
<1>1. pc = "execute" /\ pc # "idle"
    BY DEF Execute
<1>2. CASE Fail("Database")
    BY <1>1, <1>2, NonceFails
<1> QED
    BY <1>1, <1>2, NonceExecuteCall, NonceExecuteCreate DEF Execute

\* A final refund is at most what was spent.
LEMMA FinalRefundBound ==
    ASSUME NEW spent \in Nat, NEW refunded \in Nat
    PROVE  FinalRefund(spent, refunded) \in Nat /\ FinalRefund(spent, refunded) <= spent
BY DEF FinalRefund

\* The gas of the transaction.
LEMMA NonceLastFrameReturn ==
    ASSUME NonceInv, LastFrameReturn
    PROVE  NonceInv'
<1>1. /\ pc = "last_frame_return" /\ pc # "idle" /\ gas' = FrameReturn
      /\ Go("reimburse_caller") /\ journal' = journal /\ l1_block_info' = l1_block_info
    BY DEF LastFrameReturn
<1>2. Ready("last_frame_return", journal, l1_block_info, gas)
    BY <1>1 DEF NonceInv, Working, Settling
<1>3. env \in Envs /\ env.tx.gas_limit \in Nat
    BY <1>1, CallEnv, EnvFields
<1>4. /\ gas \in [kind : {"ok", "revert", "halt"}, limit : Nat, remaining : Nat, refunded : Nat]
      /\ gas.remaining <= env.tx.gas_limit
      /\ IsOptimism /\ env.cfg.disable_gas_refund =>
             gas.refunded <= env.tx.gas_limit - gas.remaining
    BY <1>2 DEF Ready, GasAt, Settling
<1> DEFINE limit == env.tx.gas_limit
           normal == ~IsOptimism \/ ~IsDeposit \/ Enabled(spec, REGOLITH)
           remaining ==
               CASE gas.kind = "ok" /\ normal -> gas.remaining
                 [] gas.kind = "ok" /\ ~normal /\ env.tx.is_system_transaction -> limit
                 [] gas.kind = "revert" /\ normal -> gas.remaining
                 [] OTHER -> 0
           recorded == IF gas.kind = "ok" /\ normal THEN gas.refunded ELSE 0
           final == ~IsOptimism \/ (~env.cfg.disable_gas_refund /\ normal)
           refunded == IF final THEN FinalRefund(limit - remaining, recorded) ELSE recorded
<1>5. FrameReturn = [gas EXCEPT !.limit = limit, !.remaining = remaining, !.refunded = refunded]
    BY DEF FrameReturn
<1>6. remaining \in Nat /\ remaining <= limit /\ limit - remaining \in Nat
    BY <1>3, <1>4
<1>7. recorded \in Nat /\ (~final => recorded <= limit - remaining)
  <2>1. recorded \in Nat
    BY <1>4
  <2>2. CASE gas.kind = "ok" /\ normal
    <3>1. remaining = gas.remaining /\ recorded = gas.refunded
      BY <2>2
    <3>2. ~final => IsOptimism /\ env.cfg.disable_gas_refund
      BY <2>2
    <3> QED
      BY <2>1, <3>1, <3>2, <1>4
  <2>3. CASE ~(gas.kind = "ok" /\ normal)
    BY <2>3, <1>6
  <2> QED
    BY <2>1, <2>2, <2>3
<1> HIDE DEF remaining, recorded, final, limit
<1>8. refunded \in Nat /\ refunded <= limit - remaining
  <2>1. FinalRefund(limit - remaining, recorded) \in Nat
        /\ FinalRefund(limit - remaining, recorded) <= limit - remaining
    BY <1>6, <1>7, FinalRefundBound
  <2> QED
    BY <2>1, <1>7
<1> HIDE DEF refunded
<1>9. limit \in Nat
    BY <1>3 DEF limit
<1>10. /\ gas' \in [kind : {"ok", "revert", "halt"}, limit : Nat, remaining : Nat, refunded : Nat]
       /\ gas'.remaining + gas'.refunded <= gas'.limit
  <2>1. /\ gas'.limit = limit /\ gas'.remaining = remaining /\ gas'.refunded = refunded
        /\ gas' = [kind |-> gas.kind, limit |-> limit, remaining |-> remaining,
                   refunded |-> refunded]
    BY <1>1, <1>4, <1>5
  <2>2. gas.kind \in {"ok", "revert", "halt"}
    BY <1>4
  <2> QED
    BY <2>1, <2>2, <1>6, <1>8, <1>9
<1>11. /\ "reimburse_caller" \in Settling /\ "reimburse_caller" \in Working
       /\ "reimburse_caller" \notin Preparing
       /\ "last_frame_return" \in Settling /\ "last_frame_return" \in Working
    BY DEF Settling, Working, Preparing
<1>12. GasAt("reimburse_caller", gas')
    BY <1>2, <1>10, <1>11 DEF Ready, GasAt
<1>13. Ready("reimburse_caller", journal, l1_block_info, gas')
    BY <1>2, <1>11, <1>12 DEF Ready, L1At, NonceAt
<1> QED
    BY <1>1, <1>11, <1>13, NonceGoes


\* A balance is increased.
LEMMA IncreaseJournal ==
    ASSUME NEW j, Journal(j), NEW a \in DOMAIN j, NEW n \in Nat
    PROVE  /\ Journal(IncreaseSaturating(j, a, n)) /\ Keeps(j, IncreaseSaturating(j, a, n))
           /\ Journal(IncreaseWrapping(j, a, n)) /\ Keeps(j, IncreaseWrapping(j, a, n))
           /\ Journal(SetBase(j, a, n)) /\ Keeps(j, SetBase(j, a, n))
<1>1. BaseToken \in TokenId
    BY EnvAssumption
<1>2. Base(j, a) \in Nat
    BY <1>1, BalanceType DEF Base
<1>3. SaturatingAdd(Base(j, a), n) \in Nat /\ WrappingAdd(Base(j, a), n) \in Nat
    BY <1>2, SaturatingTypes, WrappingAddType
<1>4. \A m \in Nat : Journal(SetBase(j, a, m)) /\ Keeps(j, SetBase(j, a, m))
    BY <1>1, BalanceJournal DEF SetBase, SetBalance
<1> QED
    BY <1>3, <1>4 DEF IncreaseSaturating, IncreaseWrapping

\* reimburse_caller.
LEMMA NonceReimburseCaller ==
    ASSUME NonceInv, ReimburseCaller
    PROVE  NonceInv'
<1> DEFINE caller == env.tx.caller
           loaded == Load(journal, caller)
           repaid == IncreaseSaturating(loaded, caller, Reimbursement)
<1>1. /\ pc = "reimburse_caller" /\ pc # "idle" /\ journal' = repaid
      /\ Go("reward_beneficiary") /\ l1_block_info' = l1_block_info /\ gas' = gas
    BY DEF ReimburseCaller
<1>2. /\ {"reimburse_caller", "reward_beneficiary"} \subseteq Settling
      /\ {"reimburse_caller", "reward_beneficiary"} \subseteq Working
      /\ "reward_beneficiary" \notin Preparing
    BY DEF Settling, Working, Preparing
<1>3. Ready("reimburse_caller", journal, l1_block_info, gas)
    BY <1>1, <1>2 DEF NonceInv
<1>4. env \in Envs /\ caller \in Address /\ db \in [Address -> Holding]
    BY <1>1, CallEnv DEF NonceInv
<1>5. Reimbursement \in Nat
  <2>1. gas.remaining + gas.refunded \in Nat
    BY <1>2, <1>3 DEF Ready, GasAt
  <2>2. EffectiveGasPrice(env) \in Nat
    BY <1>4, EffectivePrice
  <2>3. Reimbursement \in 0 .. MaxU256
    BY <2>1, <2>2, WrappingMulType DEF Reimbursement
  <2> QED
    BY <2>3, EnvAssumption
<1>6. Journal(journal) /\ UsedIn(journal, env)
    BY <1>2, <1>3 DEF Ready, NonceAt
<1>7. Journal(loaded) /\ Keeps(journal, loaded) /\ caller \in DOMAIN loaded
    BY <1>4, <1>6, LoadJournal
<1> HIDE DEF loaded
<1>8. Journal(repaid) /\ Keeps(loaded, repaid)
    BY <1>5, <1>7, IncreaseJournal
<1> HIDE DEF repaid
<1>9. UsedIn(repaid, env)
    BY <1>6, <1>7, <1>8, UsedKept
<1>10. Ready("reward_beneficiary", repaid, l1_block_info, gas)
    BY <1>2, <1>3, <1>8, <1>9 DEF Ready, L1At, GasAt, NonceAt
<1> QED
    BY <1>1, <1>2, <1>10, NonceGoes

\* The beneficiary's reward.
LEMMA CoinbaseJournal ==
    ASSUME db \in [Address -> Holding], env \in Envs, GasUsed \in Nat, NEW j, Journal(j)
    PROVE  Journal(RewardCoinbase(j)) /\ Keeps(j, RewardCoinbase(j))
<1> DEFINE a == env.block.coinbase
           loaded == Load(j, a)
           touched == Touch(loaded, a)
           n == WrappingMul(CoinbaseGasPrice, GasUsed)
<1>1. a \in Address /\ env.block.basefee \in Nat /\ EffectiveGasPrice(env) \in Nat
    BY EnvFields, EffectivePrice
<1>2. CoinbaseGasPrice \in Nat
    BY <1>1, SaturatingTypes DEF CoinbaseGasPrice
<1>3. n \in Nat
  <2>1. n \in 0 .. MaxU256
    BY <1>2, WrappingMulType
  <2> QED
    BY <2>1, EnvAssumption
<1>4. Journal(loaded) /\ Keeps(j, loaded) /\ a \in DOMAIN loaded
    BY <1>1, LoadJournal
<1> HIDE DEF loaded
<1>5. Journal(touched) /\ Keeps(loaded, touched) /\ a \in DOMAIN touched
    BY <1>4, TouchJournal
<1> HIDE DEF touched, n
<1>6. /\ Journal(IncreaseSaturating(touched, a, n))
      /\ Keeps(touched, IncreaseSaturating(touched, a, n))
    BY <1>3, <1>5, IncreaseJournal
<1>7. RewardCoinbase(j) = IncreaseSaturating(touched, a, n)
    BY DEF RewardCoinbase, touched, loaded, n
<1> QED
    BY <1>4, <1>5, <1>6, <1>7, KeepsTwice

\* The vaults of Optimism.
LEMMA VaultsJournal ==
    ASSUME db \in [Address -> Holding], env \in Envs, GasUsed \in Nat, TxL1Cost \in Nat,
           NEW j, Journal(j)
    PROVE  Journal(RewardVaults(j)) /\ Keeps(j, RewardVaults(j))
<1> DEFINE n == WrappingMul(env.block.basefee, GasUsed)
           j1 == Load(j, L1Vault)
           j2 == Touch(j1, L1Vault)
           j3 == IncreaseWrapping(j2, L1Vault, TxL1Cost)
           j4 == Load(j3, BaseVault)
           j5 == Touch(j4, BaseVault)
           j6 == SetBase(j5, BaseVault, n)
<1>1. L1Vault \in Address /\ BaseVault \in Address /\ env.block.basefee \in Nat
    BY InputsAssumption, EnvFields
<1>2. n \in Nat
  <2>1. n \in 0 .. MaxU256
    BY <1>1, WrappingMulType
  <2> QED
    BY <2>1, EnvAssumption
<1>3. RewardVaults(j) = j6
    BY DEF RewardVaults
<1> HIDE DEF n
<1>4. Journal(j1) /\ Keeps(j, j1) /\ L1Vault \in DOMAIN j1
    BY <1>1, LoadJournal
<1> HIDE DEF j1
<1>5. Journal(j2) /\ Keeps(j1, j2) /\ L1Vault \in DOMAIN j2
    BY <1>4, TouchJournal
<1> HIDE DEF j2
<1>6. Journal(j3) /\ Keeps(j2, j3)
    BY <1>5, IncreaseJournal
<1> HIDE DEF j3
<1>7. Journal(j4) /\ Keeps(j3, j4) /\ BaseVault \in DOMAIN j4
    BY <1>1, <1>6, LoadJournal
<1> HIDE DEF j4
<1>8. Journal(j5) /\ Keeps(j4, j5) /\ BaseVault \in DOMAIN j5
    BY <1>7, TouchJournal
<1> HIDE DEF j5
<1>9. Journal(j6) /\ Keeps(j5, j6)
    BY <1>2, <1>8, IncreaseJournal
<1> HIDE DEF j6
<1>10. Keeps(j, j3) /\ Keeps(j3, j6)
    BY <1>4, <1>5, <1>6, <1>7, <1>8, <1>9, KeepsTwice
<1> QED
    BY <1>3, <1>9, <1>10, KeepsTwice

\* reward_beneficiary.
LEMMA NonceRewardBeneficiary ==
    ASSUME NonceInv, RewardBeneficiary
    PROVE  NonceInv'
<1> DEFINE skipped == IsOptimism /\ IsDeposit
           coinbase == RewardCoinbase(journal)
           vaults == RewardVaults(coinbase)
<1>1. pc = "reward_beneficiary" /\ pc # "idle"
    BY DEF RewardBeneficiary
<1>2. /\ {"output", "reward_beneficiary"} \subseteq Settling \ {"last_frame_return"}
      /\ {"output", "reward_beneficiary"} \subseteq Working
      /\ "output" \notin Preparing
    BY DEF Settling, Working, Preparing
<1>3. Ready("reward_beneficiary", journal, l1_block_info, gas)
    BY <1>1, <1>2 DEF NonceInv
<1>4. CASE Fail("Database")
    BY <1>1, <1>4, NonceFails
<1>5. CASE /\ Go("output")
           /\ journal' = CASE skipped -> journal
                           [] IsOptimism /\ ~skipped -> vaults
                           [] OTHER -> coinbase
           /\ UNCHANGED <<l1_block_info, gas>>
  <2>1. env \in Envs /\ db \in [Address -> Holding]
    BY <1>1, CallEnv DEF NonceInv
  <2>2. GasUsed \in Nat
    BY <1>2, <1>3 DEF Ready, GasAt, GasUsed, Spent
  <2>3. Journal(journal) /\ UsedIn(journal, env)
    BY <1>2, <1>3 DEF Ready, NonceAt
  <2>4. Journal(coinbase) /\ Keeps(journal, coinbase)
    BY <2>1, <2>2, <2>3, CoinbaseJournal
  <2> HIDE DEF coinbase
  <2>5. IsOptimism /\ ~skipped => Journal(vaults) /\ Keeps(coinbase, vaults)
    <3> SUFFICES ASSUME IsOptimism, ~IsDeposit
                 PROVE  Journal(vaults) /\ Keeps(coinbase, vaults)
      OBVIOUS
    <3>1. l1_block_info \in FetchedL1 /\ env.tx.enveloped_tx # None
      BY <1>2, <1>3 DEF Ready, L1At
    <3>2. TxL1Cost \in Nat
      BY <2>1, <3>1, EnvFields, InputsAssumption, L1CostType DEF TxL1Cost
    <3> QED
      BY <2>1, <2>2, <2>4, <3>2, VaultsJournal
  <2> HIDE DEF vaults
  <2>6. UsedIn(coinbase, env)
    BY <2>3, <2>4, UsedKept
  <2>7. IsOptimism /\ ~skipped => UsedIn(vaults, env)
    BY <2>5, <2>6, UsedKept
  <2>8. Journal(journal') /\ UsedIn(journal', env)
    <3>1. CASE skipped
      BY <1>5, <2>3, <3>1
    <3>2. CASE IsOptimism /\ ~skipped
      BY <1>5, <2>5, <2>7, <3>2
    <3>3. CASE ~IsOptimism
      BY <1>5, <2>4, <2>6, <3>3
    <3> QED
      BY <3>1, <3>2, <3>3
  <2>9. Ready("output", journal', l1_block_info, gas)
    BY <1>2, <1>3, <2>8 DEF Ready, L1At, GasAt, NonceAt
  <2> QED
    BY <1>1, <1>2, <1>5, <2>9, NonceGoes
<1> QED
    BY <1>4, <1>5 DEF RewardBeneficiary


\* The journal is finalized.
LEMMA NonceOutput ==
    ASSUME NonceInv, Output
    PROVE  NonceInv'
<1>1. /\ pc = "output" /\ pc # "idle" /\ pc' = "end" /\ db' = db /\ slots' = slots /\ call' = call
    BY DEF Output
<1>2. "output" \in Settling /\ "output" \in Working
    BY DEF Settling, Working
<1>3. Ready("output", journal, l1_block_info, gas)
    BY <1>1, <1>2 DEF NonceInv
<1>4. Journal(journal) /\ UsedIn(journal, env) /\ gas.kind \in {"ok", "revert", "halt"}
    BY <1>2, <1>3 DEF Ready, NonceAt, GasAt
<1>5. output'.ok => output'.state = journal /\ output'.status = gas.kind
    BY DEF Output
<1>6. env' = env
    BY <1>1 DEF env
<1>7. output'.ok =>
          Journal(output'.state) /\ UsedIn(output.state, env)' /\ output'.status # "verified"
    BY <1>1, <1>4, <1>5, <1>6 DEF UsedIn
<1>8. pc' \notin Preparing \cup Working
    BY <1>1, HandlerNames
<1>9. NonceUsed'
    BY <1>1 DEF NonceUsed, Processed, Ended
<1> QED
    BY <1>1, <1>7, <1>8, <1>9 DEF NonceInv

\* The state the end handler builds for a deposit that failed.
LEMMA FailedDepositState ==
    ASSUME env \in Envs, db \in [Address -> Holding], NEW answered \in BOOLEAN
    PROVE  /\ FailedDeposit(answered).status = "FailedDeposit"
           /\ Journal(FailedDeposit(answered).state)
           /\ answered => UsedIn(FailedDeposit(answered).state, env)
<1> DEFINE caller == env.tx.caller
           account == IF answered THEN db[caller] ELSE NoAccount
           credited == SaturatingAdd(account.balances[BaseToken], Unwrap(env.tx.mint, 0))
           info == [Bump(account) EXCEPT !.balances[BaseToken] = credited]
           state == [a \in {caller} |-> WithTouch(info, TRUE)]
<1>1. caller \in Address /\ BaseToken \in TokenId
    BY EnvFields, EnvAssumption
<1>2. account \in Holding
    BY <1>1, InputsAssumption DEF NoAccount, Holding
<1>3. account.balances[BaseToken] \in Nat
    BY <1>1, <1>2 DEF Holding
<1>4. Unwrap(env.tx.mint, 0) \in Nat
    BY EnvFields DEF Unwrap
<1> HIDE DEF account
<1>5. credited \in Nat
    BY <1>3, <1>4, SaturatingTypes
<1> HIDE DEF credited
<1>6. Bump(account) \in Holding
    BY <1>2, BumpType
<1>7. info \in Holding /\ info.nonce = Bump(account).nonce
    BY <1>1, <1>5, <1>6 DEF Holding
<1> HIDE DEF info
<1>8. /\ FailedDeposit(answered).status = "FailedDeposit"
      /\ FailedDeposit(answered).state = state
    BY DEF FailedDeposit, account, credited, info
<1>9. /\ state[caller].info = info /\ state[caller].touched /\ DOMAIN state = {caller}
      /\ state[caller] \in [info : Holding, touched : BOOLEAN]
    BY <1>7 DEF WithTouch
<1>10. state = [a \in DOMAIN state |-> state[a]]
    OBVIOUS
<1> HIDE DEF state
<1>11. Journal(state)
    BY <1>1, <1>9, <1>10 DEF Journal
<1>12. answered => UsedIn(state, env)
    BY <1>7, <1>9 DEF UsedIn, account
<1> QED
    BY <1>8, <1>11, <1>12

\* DatabaseCommit::commit keeps the database's type and writes the caller.
LEMMA CommitUsed ==
    ASSUME db \in [Address -> Holding], env \in Envs, NEW state, Journal(state)
    PROVE  /\ Commit(state) \in [Address -> Holding]
           /\ UsedIn(state, env) /\ Uses(env) =>
                  Commit(state)[env.tx.caller].nonce = Bump(db[env.tx.caller]).nonce
<1>1. env.tx.caller \in Address
    BY EnvFields
<1>2. \A a \in DOMAIN state : state[a].info \in Holding
    BY DEF Journal
<1>3. Commit(state) \in [Address -> Holding]
    BY <1>2 DEF Commit
<1>4. ASSUME UsedIn(state, env), Uses(env)
      PROVE  Commit(state)[env.tx.caller].nonce = Bump(db[env.tx.caller]).nonce
  <2>1. Commit(state)[env.tx.caller] = state[env.tx.caller].info
    BY <1>1, <1>4 DEF Commit, UsedIn
  <2> QED
    BY <1>4, <2>1 DEF UsedIn
<1> QED
    BY <1>3, <1>4

\* The end handler's answer is committed.
LEMMA NonceEnd ==
    ASSUME ErrorInv, NonceInv, End
    PROVE  NonceInv'
<1>1. /\ pc = "end" /\ pc # "idle" /\ pc' = "idle" /\ start' = start /\ start = db
      /\ slots' \in L1Slot
    BY InputsAssumption DEF End, ErrorInv, NonceInv
<1>2. env \in Envs /\ db \in [Address -> Holding]
    BY <1>1, CallEnv DEF NonceInv
<1>3. PICK answered \in BOOLEAN :
        LET out == EndOutput(answered)
        IN  /\ answered \/ DepositFailed
            /\ db' = IF out.ok THEN Commit(out.state) ELSE db
            /\ result' = IF out.ok
                         THEN [ok |-> TRUE, status |-> out.status, env |-> env,
                               gas_used |-> out.gas_used,
                               gas_refunded |-> out.gas_refunded, answered |-> answered]
                         ELSE [ok |-> FALSE, status |-> out.status, env |-> env]
  <2>1. CASE DepositFailed
    BY <2>1, Zenon DEF End
  <2>2. CASE ~DepositFailed
    BY <2>2, Zenon DEF End
  <2> QED
    BY <2>1, <2>2
<1> DEFINE out == EndOutput(answered)
<1>4. out.ok => /\ Journal(out.state) /\ out.status # "verified"
                /\ answered => UsedIn(out.state, env)
  <2>1. CASE DepositFailed
    BY <1>2, <2>1, FailedDepositState DEF EndOutput
  <2>2. CASE ~DepositFailed
    BY <1>1, <2>2 DEF EndOutput, NonceInv
  <2> QED
    BY <2>1, <2>2
<1>5. /\ db' = IF out.ok THEN Commit(out.state) ELSE db
      /\ ~out.ok => ~result'.ok
      /\ out.ok => result'.status = out.status /\ result'.answered = answered
      /\ result'.env = env
    BY <1>3
<1> HIDE DEF out
<1>6. db' \in [Address -> Holding]
    BY <1>2, <1>4, <1>5, CommitUsed
<1>7. NonceUsed'
  <2> SUFFICES ASSUME result'.ok, result'.answered, ~env.cfg.disable_balance_check,
                      ~(env.cfg.is_optimism /\ IsCreate(env))
               PROVE  db'[env.tx.caller].nonce = Bump(start[env.tx.caller]).nonce
    BY <1>1, <1>5 DEF NonceUsed, Processed, Ended, Funded
  <2>1. out.ok /\ answered
    BY <1>5
  <2>2. Uses(env)
    BY DEF Uses, FundedCreate
  <2> QED
    BY <1>1, <1>2, <1>4, <1>5, <2>1, <2>2, CommitUsed
<1>8. pc' \notin Preparing \cup Working
    BY <1>1, HandlerNames
<1>9. result'.ok => result'.status # "verified"
    BY <1>4, <1>5
<1> QED
    BY <1>1, <1>6, <1>7, <1>8, <1>9 DEF NonceInv

\* Every handler keeps the invariant.
LEMMA NonceNext ==
    ASSUME ErrorInv, NonceInv, [Next]_vars
    PROVE  NonceInv'
<1>1. ASSUME NEW mode \in {"transact", "preverify", "preverified"}, NEW e \in Envs,
             Begin(mode, e)
      PROVE  NonceInv'
    BY <1>1, NonceBegin
<1>2. CASE UNCHANGED vars
  <2>1. NonceUsed'
    BY <1>2 DEF vars, NonceInv, NonceUsed, Processed, Ended, Funded
  <2>2. Ready(pc, journal, l1_block_info, gas)' = Ready(pc, journal, l1_block_info, gas)
    BY <1>2 DEF vars, Ready, L1At, GasAt, NonceAt, UsedIn, env, IsOptimism, IsDeposit
  <2> QED
    BY <1>2, <2>1, <2>2 DEF vars, NonceInv, UsedIn, env
<1> QED
    BY <1>1, <1>2, NonceValidateEnv, NonceInitialTxGas, NonceTxAgainstState, NonceLoadAccounts,
       NonceDeductCaller, NonceExecute, NonceLastFrameReturn, NonceReimburseCaller,
       NonceRewardBeneficiary, NonceOutput, NonceEnd DEF Next

\* Evm::transact and transact_preverified: a transaction that was processed, also
\* one that failed or creates, has raised its sender's nonce by one, so that it
\* cannot be processed again.
THEOREM NonceTheorem == Spec => []NonceUsed
<1>1. Init => ErrorInv /\ NonceInv
  <2> SUFFICES ASSUME Init PROVE ErrorInv /\ NonceInv
    OBVIOUS
  <2>1. ErrorInv
    BY DEF Init, ErrorInv, ErrorsLeaveNoTrace
  <2>2. db \in [Address -> Holding]
    <3>1. db \in [Address -> Account]
      BY InputsAssumption DEF Init
    <3>2. Account \subseteq Holding
      <4> SUFFICES ASSUME NEW x \in Account PROVE x \in Holding
        OBVIOUS
      <4>1. \A t \in TokenId : x.balances[t] \in Nat
        BY EnvAssumption DEF Account
      <4> QED
        BY <4>1 DEF Account, Holding
    <3> QED
      BY <3>1, <3>2
  <2>3. slots \in L1Slot /\ pc = "idle" /\ result = None
    BY InputsAssumption DEF Init
  <2>4. pc \notin Preparing \cup Working
    BY <2>3, HandlerNames
  <2>5. NonceUsed
    BY <2>3 DEF NonceUsed, Processed, Ended
  <2> QED
    BY <2>1, <2>2, <2>3, <2>4, <2>5 DEF NonceInv
<1>2. ErrorInv /\ NonceInv /\ [Next]_vars => (ErrorInv /\ NonceInv)'
    BY ErrorNext, NonceNext
<1>3. NonceInv => NonceUsed
    BY DEF NonceInv
<1> QED
    BY <1>1, <1>2, <1>3, PTL DEF Spec
=============================================================================
