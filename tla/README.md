# A TLA+ model of sabvm

sabvm is Sablier's fork of revm, an Ethereum virtual machine in Rust. It adds
*native tokens*: every account holds balances of many tokens instead of one,
a call can carry several of them, and a precompile mints, burns and transfers
them. This directory holds TLA+ models of the parts of sabvm that carry its
logic, TLC configurations that check them on small instances, and TLAPS proofs.

## 1. The system

One transaction at a time goes through these parts; nothing runs concurrently.
What is hard is *nesting*: calls within calls, each of which can fail and must
then leave the world, the gas and the refunds as if it had not run, in code that
keeps several stacks in step by hand.

| Part (crate/file) | State | Operations |
|---|---|---|
| Journaled state (`revm/src/journaled_state.rs`, `primitives/src/state.rs`) | loaded accounts, token ids, transient storage, logs, call depth, a journal: one vector of entries per checkpoint | load, touch, `inc_nonce`, `transfer`, `sload`/`sstore`/`tstore`, `selfdestruct`, `mint`, `burn`, `log`, `checkpoint`, `create_account_checkpoint`, commit, revert, `clear` |
| Native Tokens precompile (`revm/src/sablier/native_tokens.rs`) | none of its own | mint, burn, balanceOf, transfer, transferAndCall, multiple transfers |
| Frames and their loop (`revm/src/evm.rs`, `revm/src/frame.rs`, `revm/src/context/`) | the call stack; per frame an interpreter and a checkpoint | `make_call_frame`, `make_create_frame`, `make_eofcreate_frame`, the three returns, `run_the_loop` |
| Transaction handler (`revm/src/handler/mainnet/`) | none of its own | validate, load accounts, deduct the fee, run, reimburse, reward, output, `clear` |
| Environment (`primitives/src/env.rs`, `utilities.rs`) | block, configuration and transaction | validation, blob gas price |
| Gas (`interpreter/src/gas.rs`, `gas/calc.rs`) | limit, remaining, refunded | `record_cost`, `erase_cost`, `record_refund`, `set_final_refund`, the price list |
| Interpreter (`interpreter/src/interpreter.rs`, `stack.rs`) | program counter, operand stack, result, the next action | `run`, `insert_*_outcome` |
| Shared memory (`interpreter/src/interpreter/shared_memory.rs`) | one buffer, a stack of offsets into it | `new_context`, `free_context`, `resize`, reads and writes |
| Instructions (`interpreter/src/instructions/`) | none of their own | one function per opcode |
| Bytecode analysis, EOF (`interpreter/src/interpreter/analysis.rs`, `primitives/src/bytecode/`) | none | jump table, EOF decoding and validation |
| Cache database (`revm/src/db/in_memory_db.rs`) | accounts, contracts, logs, block hashes, token ids | reads with caching, `commit` |
| State, bundles and reverts (`revm/src/db/states/`) | cached accounts with a status, transitions, a bundle with the reverts of each block | `commit`, `merge_transitions`, `revert`, `extend`, `take_n_reverts` |
| Optimism (`revm/src/optimism/`) | the L1 block info of the context | its own `validate_env`, `load_accounts`, `deduct_caller`, `last_frame_return`, `reward_beneficiary`, `output`, `end` |
| Handler builder, inspectors, cryptographic precompiles, remote databases, command line tools | – | – |

How they interact. `Evm::transact` calls the handler, which makes the first
frame and gives it to `run_the_loop`. The loop runs the newest frame's
interpreter until it halts or asks for a call or a creation; the context makes
the new frame and opens a checkpoint of the journal; the loop gives it a context
of the shared memory. When a frame returns, the loop frees its memory context,
the context commits or reverts its checkpoint, and its result is inserted into
the frame below: gas that was not used, refunds, memory, and a word on the
stack. Instructions reach the journal through the `Host` trait. In the end the
handler takes the state out of the journal and a database commits it.

What each part must get right, and where it is dealt with here:

- journal: a revert restores the checkpoint exactly, whatever was committed
  into it (`ImplementsSnapshots`); its unwraps succeed (`UnwrapsSucceed`);
  checkpoints nest (`CheckpointsNested`); tokens are neither lost nor made
  (`SupplyAccounted`);
- frames and gas: three stacks stay in step (`StacksAgree`), gas is conserved
  (`GasConserved`), the loop ends (`TransactionEnds`), static frames write
  nothing (`StaticFramesWriteNothing`), failure leaves no trace
  (`FailureLeavesNoTrace`);
- refunds: counters never owe more than was earned (`RefundsCovered`), the final
  refund is within its cap (`RefundBounded`);
- precompile: failed calls leave nothing (`FailedCallsLeaveNoTrace`), static ones
  move nothing (`StaticCallsMoveNothing`), tokens leave only accounts that may be
  spent from (`SpendingIsAuthorized`);
- cache database: what a transaction changed is committed, with the exception of
  section 4 (`ChangesAreTouched`, `OnlyUnpaidCallsGoUntouched`), and read by the
  next (`ReadsFollowCommits`);
- transactions: ether is conserved (`Conserved`), the sender pays at most what it
  offered (`ChargedAtMostTheOffer`), the nonce is used (`NonceUsed`), errors leave
  no trace (`ErrorsLeaveNoTrace`), deposits are accepted (`DepositsAccepted`), the
  L1 fee is that of the moment (`L1FeeIsCurrent`);
- shared memory: it is as good as a memory per frame (`MemoriesAreSeparate`), is
  paid for (`PaysForItsMemory`), never reached outside (`NeverOutOfBounds`);
- code: what is executed was analysed (`RunsOnInstructions`, `HeightsAsAnalysed`),
  validated code fails and panics only as it may (`ValidatedCodeDoesNotFail`),
  containers have one encoding (`DecodeIsCanonical`);
- blocks: reads are current (`ReadsAreCurrent`), changesets and reverts take a
  database forth and back (`ChangesetsComplete`, `PlainRevertsRestore`,
  `RevertLatestRestores`), sizes do not wrap (`SizesCover`), a status that is
  declared unreachable is not reached (`NeverUnreachable`, which is false;
  `UnreachableOnlyFromLoaded` says how far it is true).

`PROJECT.json` lists the hazards of the code line by line, with the properties
that would catch them.

## 2. Modules

| Module | What it is |
|---|---|
| `SnapshotStack` | The promise: checkpoints remember the world, a revert brings it back, nothing else touches what is remembered. |
| `JournaledState` | The journal in detail: entries, vectors, and how each entry is undone. Shown to implement `SnapshotStack`. |
| `Iteration`, `Unwinding` | Loops: `for` with a bound, and undoing a sequence from its newest element. Their laws are proved once and used for `transfer`, `journal_revert` and `checkpoint_revert`. |
| `CallFrames` | `run_the_loop` with the legacy instructions that call, create, store and halt; gas, refunds, static flags, the three stacks. It uses the journal through the promise of `SnapshotStack`: a checkpoint *is* the storage of its moment. |
| `EofFrames` | `CallFrames` with the EOF instructions EXTCALL (and kin), EOFCREATE, RETURNCONTRACT. |
| `CacheDB` | `CacheDB<ExtDB>`: reads that fill the cache, and `commit`, over the accounts of `JournaledState`. |
| `NativeTokens` | Transactions that call contracts and the precompile and are committed to `CacheDB`: composes `JournaledState` and `CacheDB`. |
| `Env` | The environment as data, and its validation: pure operators. |
| `L1Cost` | Optimism's L1 cost of each fork: pure operators. |
| `Transact` | The handlers of a transaction, mainnet's and Optimism's, in the order of `transact`, over a database that may fail. |
| `MemoryStack` | The promise of memory: a memory of its own for every frame. |
| `SharedMemory` | The buffer and its checkpoints: operators. |
| `MemoryFrames` | Frames and their instructions over the shared buffer. Shown to implement `MemoryStack`. |
| `Opcodes` | The opcode table, and, apart from it, what the functions of the instructions do to the stack. |
| `EofContainer` | Decoding and encoding of EOF containers: pure operators. |
| `EofValidation` | `validate_eof_code`: one operator per decision, `Visit` is one iteration. |
| `CodeRun` | Analysis or validation of code and then its execution, one instruction per step. |
| `BundleState` | Account statuses, transitions, bundles and reverts: pure operators. |
| `BlockState` | `State<DB>` over blocks: commits, merges, bundles taken, rebuilt, extended, written. |
| `SnapshotProofs`, `CallFramesProofs`, `NativeTokensProofs`, `TransactProofs`, `MemoryFramesProofs`, `BlockStateProofs` | Theorems and proofs. |
| `MCJournaledState`, `MCCallFrames`, `MCEofFrames`, `MCNativeTokens`, `MCTransact`, `MCMemoryFrames`, `MCCodeRun`, `MCBlockState` | Instances for TLC. |

### JournaledState

`js` holds the fields that a revert changes: `accounts` (absent, or balances,
nonce, code hash, flags, storage slots with original and present value),
`transient_storage`, `touched`, `token_ids` and the `journal`. `logs` and
`depth` are the fields of those names. `frames` are the checkpoints that live in
the frames of the call stack. One action per operation, with the early returns
of the code; each action does everything the Rust function does, including the
loads, touches and journal entries it makes on the way.

Choices:

- A balances map is what `get_balance` returns (absent is 0) plus, apart from it,
  the set of its keys, because `AccountInfo::is_empty` counts entries. The code
  does not restore the keys on a revert, so they are not part of what the
  refinement compares; neither are `token_ids` (see the findings) nor the touched
  flag of PRECOMPILE3, which the code leaves alone on purpose.
- Amounts are `0 .. MaxU256`, with the wrapping and checked additions of the
  code.
- Forks from SPURIOUS_DRAGON on: the one place where earlier forks differ is how
  accounts that do not exist are told from empty ones.
- A payment that would overflow its receiver breaks the promise in the code.
  `SnapshotStack!Break` says how much: that step, and no other, may change what
  open checkpoints remember, and only the balances of one account (section 4).
  `intact` remembers that it happened, for the accounting of the supply.
- `outcome` "panic" is an `unwrap()` of nothing; only `Clear` follows it.

### CallFrames and EofFrames

`call_stack`, `contexts` and `depth` are the three stacks of the code (of the
last two only the height). A frame has its gas, instruction result, pending
action, static flag, kind of code and checkpoint. `Instructions(c)` stands for
all instructions up to the next one that is an action of its own, at a cost of
at least one (every jump costs gas). What depends on data the model does not
have (balances, addresses, code sizes) is any of the outcomes the code has for
it: `CallResults`, `CreateResults` and `CreateReturn` list them. `DatabaseError`
is the `?` by which an error of the database leaves the loop at any point, and
what `transact` does about it.

`EOFCreate` has a guard that is a bound and not in the code: it happens only
while no frame has more gas than its limit. EOFCREATE makes gas (see the
findings), so without it the state space is infinite.

### NativeTokens and CacheDB

A transaction opens the first context; each step of it is a call of a contract,
a call of the precompile (directly, statically or by DELEGATECALL), a creation, a
store, a selfdestruct, or the end of the newest context. A call is
`make_call_frame` as a whole: depth, checkpoint, the transfer of its values, the
precompile if the address is its, and the call the precompile may ask for in its
turn. Calldata is a selector, a sequence of words and a number of bytes after
them, which is what the parsers tell apart; `Low64` and `ToUsize` keep the two
ways in which the code shortens 256-bit lengths. Gas is either enough or not.
`Commit` gives the accounts of the journal to `CacheDB`. `world` is a ghost: what
the committed transactions left by definition. `entered` is one too: the contracts
that the running transaction entered by a call of the precompile that paid nothing.

### Transact, Env and L1Cost

`pc` is the next handler; every handler is one action and has, beside its
result, the disjunct in which one of its database queries fails. `Env` returns
the first error of each validation in the order of the code. Amounts are
integers below 2^28, the gas constants are the real ones, and `EffectiveGasPrice`,
deductions, reimbursement and rewards keep the saturating, wrapping or checked
operation of each line. The decimals of the L1 cost are scaled to 100
(`Million`). What the frames do is abstracted to the transfer of the values,
which can also fail for lack of funds or overflow its receiver and leave the debit
behind, the gas left and the refund; `CallFrames` has the rest.

### SharedMemory, MemoryFrames and MemoryStack

The buffer is a sequence of bytes, 0 or 1, which only grows and is never cleared
but by `resize` and the truncation of `free_context`, as in the code. Words have
two bytes. Operands come from small sets with numbers at and beyond `MaxUsize`
in them. Instructions that use memory alike share an action: `Reads` stands for
MLOAD, KECCAK256 and LOG, `DataCopy` for CALLDATACOPY, CODECOPY, EXTCODECOPY and
DATACOPY. `unreachable` records that a slice was taken where the code has
`debug_unreachable!`. The refinement maps each frame's part of the buffer to a
memory of its own with zeros after its end.

### Opcodes, EofContainer, EofValidation and CodeRun

`CodeRun` begins with one of three inputs: legacy code, which is analysed and
run; the bytes of a container, which are decoded with the containers in them; or
the types and lengths of sections, whose instructions are chosen one by one
while `Visit` validates them, so that every program of that size that is accepted
is run. An instruction is its opcode and its immediates. Of the operand stack
the model keeps the height; where a branch depends on a value, every outcome is
taken. `base` and `creates` are ghosts: where the items of the running section
begin, and how many EOFCREATEs have run without leaving their address (see the
findings). A pointer on a byte that no instruction begins with is "wild". The bytes of
a container and its code are validated apart: `ValidateRaw` follows `validate_eof` but
for its call of `validate_eof_codes`, which is what `ValidateCodes` begins.

### BundleState and BlockState

`BundleState` has the transition tables of `AccountStatus` and the functions of
the account, transition, bundle and revert types. `BlockState` runs them. A
transaction commits an account as the EVM leaves it (`EvmOutputs`): paid or only
touched (`Transfer`), after the first transaction of a sender (`FirstTransaction`),
after a creation that fails before the nonce is raised (`UnpaidCreation`), created, also
selfdestructed at once (`Creation`), or, when it has a nonce or code, spending, storing
and selfdestructed (`Execution`). `unreachable` records that a commit met an
`unreachable!`, which ends the process. Left out is storage that no transaction can
read: slots a database may hold for an account without code and nonce, and what the
constructor of an account stored that before EIP-161 is left without either
(`cache.rs:142`). Blocks are merged with or without reverts, bundles are taken and put together by `extend`,
`prepend_state` or one after the other. A bundle that is taken is followed by a
new `State` on top of it, or given to one as its prestate. `world`, `merged` and
`history` are ghosts: the reference semantics of what each account is.

## 3. Runs

| Run | Instance | States | What it shows |
|---|---|---|---|
| `journal_tokens` | 2 accounts, 2 tokens, amounts up to 2, a transfer of two tokens, a mint or burn of 2, PRECOMPILE3 is one of the accounts, databases with and without the token; at most 3 vectors and 4 entries | 119,682 | With transfers, mints and burns under nested frames, reverts restore the checkpoint and the journal accounts for every token |
| `journal_create` | 2 accounts, 1 slot, 2 words, access list, endowment 1, Cancun rules for SELFDESTRUCT; same bounds, 1 log | 159,086 | The same with creations, storage, transient storage, SELFDESTRUCT and logs; unwraps succeed; checkpoints nest |
| `frames` | gas limit 6, intrinsic gas 1, calls with and without value, one slot, refunds 1 and 2, up to 3 frames | 1,108,049 | Stacks in step, gas conserved, refunds covered and bounded, static frames write nothing, failures leave no trace, every transaction ends |
| `eof_refunds` | gas limit 5, one slot, up to 2 frames, legacy and EOF code | 1,126,003 | Refunds covered with the EOF instructions too |
| `tokens` | a sender, two contracts, a fresh address, three tokens; 20 inputs of the precompile, well formed and not; empty lists of transfers among them; two transactions of two steps | 847,974 | The precompile and the commits of its transactions |
| `transact` | 92 environments: prices and forks, transactions that spend everything, one for each check of validation, Optimism transactions and deposits, access lists, a receiver that overflows; two calls of the library, or three that fetch or set the L1 data | 839,694 | Fees, nonces, errors, deposits and the L1 data |
| `memory` | words of 2 bytes, limit 7, up to 3 frames, 6 instructions | 87,458 | One buffer is a memory per frame, paid for and never left |
| `eof_validation` | sections of up to 9 bytes, up to three of them, by themes of opcodes; legacy code of up to 4 bytes; two containers with every byte changed, cut at every length | 151,476 | Code that was analysed or validated runs as it was analysed |
| `bundle` | 1 account, 1 slot, 2 values, 1 code beside the empty one, a database that does not spell out zero balances; 2 blocks of up to 2 commits | 754,774 | The state machine of accounts over blocks, changesets and reverts |
| `base_fee_vault` | as `transact` | – | Violated; see the findings |
| `touch_emptied` | as `bundle` | – | Violated; see the findings |
| `tokens_untouched` | as `tokens` | – | Violated; see the findings |

Why the bounds are enough to be interesting:

- Three vectors are the transaction's own and those of two nested frames, so
  that a frame is committed into another that reverts, and new vectors follow
  those of committed frames. Four entries when an operation starts (an
  operation may add more) allow load, touch and change of two accounts before
  the revert. `MaxU256 = 2` makes overflow, zero and the whole supply reachable.
- `CallDivisor = 4` in place of 64 lets a caller keep gas for itself within a
  limit of 6, and a stipend of 1 against a price of 2 for a transfer of value
  keeps the order of 2300 and 9000. `CallStackLimit = 2` allows three frames and
  lets `CallTooDeep` happen. `RefundQuotient` is small so that the cap and the
  counter are each the smaller one sometimes.
- `TxGasLimits` also bounds the depth of behaviours; transactions follow each
  other without bound, over storage the earlier ones have committed.

- `tokens`: two steps are a call and what it runs; a transfer and a call need one
  step of the precompile and open the next context. Two transactions let the
  second read what the first has committed.
- `transact`: the second call starts from the database, the L1 contract and the
  journal that the first left, which is where an error must not show.
  The L1 block info is fetched by a transaction that is no deposit, only a deposit
  changes what it was fetched from, and only a second fetch can be stale, so
  `L1FeeIsCurrent` needs three calls: `Weight` counts a call of the three
  environments `L1Envs` less than the others, which makes three of them affordable.
- `memory`: two frames fill the limit, so that the third is refused; a buffer that
  was used by a callee is used again by the next one.
- `eof_validation`: `StackLimit` 5 and `NonReturning` 3 (for 1024 and 0x80) keep
  their order and let each limit be met; three sections allow a call within a
  call, and a recursive section fills the return stack of 2.
- `bundle`: one account is enough because accounts meet only in the sums of sizes;
  two blocks of two transactions allow destroying, creating again and destroying
  again, and a status that is merged, taken and preloaded.

Deadlock is checked in all runs of `JournaledState` and `CallFrames`. In those
of `EofFrames` it is not, since a panic ends the process, nor in the others, where
the caller may stop asking or a program has ended.

Fairness is weak fairness of `Step`, the union of what the loop itself does:
sequential code keeps running. Nothing is assumed of `Transact`, `Output` or
`DatabaseError`. `TransactionEnds` then says that gas bounds the loop. The other
specifications are about safety and state no fairness.

The runs spend their properties on what takes several steps to go wrong; a type
invariant is checked of the two core modules, `JournaledState` and `CallFrames`,
and `Transact` assumes the types of its inputs, which TLC evaluates.

Each property has a mutant: an operator, marked as such next to the definition
it replaces, with a plausible bug in it that makes TLC report the property as
violated.

## 4. Findings

Three runs check what the code says of itself and TLC refutes it; `PROJECT.json` quotes the
lines.

1. `base_fee_vault`: Optimism's `reward_beneficiary` *sets* the balance of the Base
   Fee Vault to the base fee of the transaction instead of adding it.
2. `touch_emptied`: on Optimism a sender with nonce 0 can be accepted with exactly its
   gas cost and L1 fee; its creation of a contract with a value fails with `OutOfFunds`
   before the nonce is raised, and the sender is left touched and empty. Committing it
   to a `State` that had it `Loaded` reaches an `unreachable!` (`account_status.rs:99`).
   `UnreachableOnlyFromLoaded` says that this is the only way there: an account that was
   changed, destroyed or created before can be emptied, and merges, extensions and
   reverts of bundles stay within their tables.
3. `tokens_untouched`: the call that the precompile asks for touches the callee only
   within the loop over the tokens it transfers (`evm_context.rs:239`; an ordinary call
   does the touch when there is nothing to transfer, `:190`). `transferMultipleAndCall`
   with empty arrays runs a callee that nothing has touched, and what it stores is not
   committed. `OnlyUnpaidCallsGoUntouched` says that nothing else is lost.

What follows the models have too, as the code has it, and no property denies it;
each was met while a property was stated and had to be weakened for it.

Journal and tokens:

- `transfer` takes tokens from the sender before it finds that the receiver would
  overflow, and journals nothing, so that reverting the frame does not return
  them (`journaled_state.rs:214`). The comment there argues that no balance can
  overflow, which is so for ether and not for tokens that contracts mint.
  `SnapshotStack!Break` is the exception for it.
- The id of a token stays in `token_ids` when its mint is reverted, and `commit`
  of `CacheDB` replaces the database's list by the transaction's
  (`in_memory_db.rs:168`), which can be empty.
- `mint` loads the minter and unwraps the recipient (`journaled_state.rs:912`).
- `mint` and `burn` do not touch the account (`journaled_state.rs:915`), so that a
  minted balance is lost at `commit` unless something else touched the account:
  `ChangesAreTouched` is about everything but those tokens.
- A reverted movement of tokens leaves a zero entry in the balances map, so that
  `is_empty` can answer differently than before.
- The precompile takes `Ok(Some(OutOfFunds))` for success (`native_tokens.rs:269`,
  `:426`). `transferAndCall` pays from `inputs.caller`. A count of transfers that
  is too large panics in `Vec::with_capacity` (`:475`), and calldata shorter than
  28 bytes at a slice.
- An account that was destroyed and is touched again in a later transaction shows
  the slots of the database under the cache; it has no code, so nothing reads them.

Transactions:

- On Optimism the L1 fee is deducted after the balance was validated, so a
  creation can fail with `OutOfFunds` before its nonce is raised
  (`inner_evm_context.rs:374`), although `pre_execution.rs:94` counts on the
  creation for it. `NonceUsed` leaves this case out; the run `touch_emptied` shows
  what it does to a `State`.
- A failed deposit for which the database fails once more in the `end` handler
  (`handler_register.rs:343`, `unwrap_or_default`) replaces the sender's account by
  one that has the mint only. A deposit below the intrinsic gas is refused before
  `end`, so its mint is not kept, though "Deposits always persist the mint amount".
- `disable_gas_refund` does nothing on mainnet, and on Optimism leaves the refund
  without its cap; `disable_beneficiary_reward` is read nowhere. Optimism's
  precompiles do not include the Native Tokens one.

Memory:

- EXTCALL and its kin with an empty input slice the memory at `usize::MAX`
  (`contract.rs:158`), a value of which a comment says that it is not used
  (`call_helpers.rs:39`): a panic in debug builds and undefined behaviour in release
  builds. The model has this as an outcome of its own (`unreachable = "sentinel"`).
- The limit is compared with the size asked for and the buffer grows to whole words,
  so it may exceed the limit by less than a word.

EOF code (marked as unfinished in many places of the repository):

- EOFCREATE gives the new frame all of the remaining gas and keeps it as well
  (`contract.rs:87`), is allowed in static frames and opens a frame that is not
  static (`contract.rs:42`), and leaves the interpreter running: the address is
  pushed later, so the heights of validated code are off by one until then and
  it can run out of items (`creates` in `HeightsAsAnalysed`).
- RETURNCONTRACT reads an index of two bytes (`contract.rs:97`) where the opcode table
  has one (`opcode.rs:785`), and validation does not look at it
  (`analysis.rs:453` checks that of EOFCREATE), so validated init code can panic at an
  `expect` that says the code is checked (`contract.rs:107`).
  `ValidatedCodeDoesNotFail` leaves this out.
- RETURNCONTRACT answers data of the wrong size with `FatalExternalError`
  (`contract.rs:126`), on which `insert_eofcreate_outcome` panics.
- RETF is accepted in a section that does not return when exactly 0x80 items are
  on the stack, and JUMPF to a returning section likewise; the interpreter then
  panics for lack of a frame.
- The header multiplies the number of sections by two in 16 bits (`header.rs:42`).
- `validate_raw_eof` is called from tests only.

Bundles:

- `revert(n)` for n > 1 is not exact: an account whose creation is undone stays as
  one with zeros in it, and the next revert finds a status it does not expect
  (`bundle_account.rs:87`). After a revert the original values are lost, so the
  changeset of `OriginalValuesKnown::Yes` can leave writes out.
- `extend` takes the storage out of the other bundle's accounts before their sizes
  are counted, so `state_size` counts too much; it also keeps reverts to
  `Destroyed` slots where the earlier bundle knows the value. A bundle that was
  extended and reverted can lose the wipe of a storage.
- A `State` that goes on after `take_bundle` loses wipes of accounts that were
  destroyed before; the model gives every taken bundle a new `State`.

## 5. Proofs

All theorems are about every value of the constants that satisfies the named
assumptions of the modules.

**`StackTheorem`** (`Spec => []CheckpointsNested`). `CheckpointsNested` alone is
not inductive: a revert indexes and truncates the journal, for which one has to
know that it is a sequence and which fields `js` has. `StackInv` adds that
(`Shaped`). One lemma per building block (`ShapedPush`, `ShapedLoad`, ...) says
that it leaves the number of vectors alone, opens one, or cuts to a given
number; `transfer` needs induction over the list of transfers, with
`Iteration`'s equations. Opening a frame appends a checkpoint above all others,
closing one removes the last.

The lemmas `UnwindConcat` and `UnwindAppend` of `Unwinding`, on which
`SnapshotTheorem` rests: undoing `p \o q` is undoing `q` and then `p`. They are proved
by induction over a set of natural numbers (`SetInduction`)
because the provers cannot instantiate induction rules that take a predicate;
`Iteration` first proves that the recursive function of a loop exists.

**`GasTheorem`, `StacksTheorem`, `RefundTheorem`, `TypeTheorem`** of
`CallFrames`. The inductive invariant `LoopInv` says that the call stack is
`Sound`: each frame's remaining gas together with what its pending action has
set aside is within its limit (`FrameOk`); each frame below another waits, and
its remaining gas together with the *limit of the frame above it* is within its
own (`Waits`); the first frame's limit is within the transaction's; no frame has
met a `FatalExternalError`. It further says that contexts and depth are the
number of frames, that there is a frame exactly while the transaction runs, and
that a finished transaction's gas is in order (`Finished`). The strengthening is
needed because inserting a result adds the callee's remaining gas to the
caller's: only the relation between neighbours says that the sum is within the
limit. The one place where the price list matters is the stipend, which comes on
top of the gas the caller pays: `CallStipend <= CallValueCost` (2300 and 9000)
is an assumption, and necessary. The lemmas are one per way in which the stack
changes (`ReplaceTop`, opening, popping) and one per action.
`RefundTheorem` needs no bound on the counters: the cap applies to negative
ones too, by the cast to `u64`.

**`SnapshotTheorem`** (`Spec => ImplementsSnapshots`): the journal implements
`SnapshotStack`, where a checkpoint keeps a copy of the world and a revert puts it
back. `Unwound(j, i)` is what undoing all vectors above the i-th brings back. The
argument has three parts.

1. *Operations only add.* `Grows(j, k, X)` says that the step from `j` to `k` only
   writes to the newest vector, and that undoing this vector, and any more, gives
   the same from `k` as from `j`: every checkpoint would still bring back what it
   would have brought back before the step. (`X` are the accounts whose creation
   the step ends.) `GrowsPush` is the general form, with one lemma for each way in
   which the code changes the state and writes an entry: load, touch, transfer,
   store, mint, burn, selfdestruct, create.
2. *Entering, committing, reverting.* Opening appends an empty vector; a commit
   leaves the vectors where they are, which is right by `UnwindAppend`; a revert
   undoes the vectors above its checkpoint (`UnwindConcat`) and meets `Unwound`.
3. *The invariant.* `SnapshotInv` is `StackInv` with `History` and `Creations`.
   `History` says that each state `Unwound(js, i)` has its type and that the
   further back, the fewer accounts are loaded. The undoing of `AccountCreated` and
   `CodeChange` does not put back what was there, it sets nonce, code and flag to
   zero: that is right only if the account had none. So `History` also says that in
   every one of these states an account without code and nonce is not marked
   created and has only zero slots (`Clean`), and `Creations` that the account a
   frame creates has a nonce and no code (`InCreation`) at the checkpoints of all
   frames inside it, and is not created twice. The base is the database: the
   assumption on it is the one the code's comment names.

4. *The debit that no entry records.* A payment that overflows its receiver
   returns an error after it has debited the sender, with no entry (see the
   findings). `Skewed(g, k, a)` says that `k` is `g` but for the balances of `a`.
   Undoing the same entries from the two gives, entry by entry, states that differ
   in no more than these balances (`KinUndo`, `TiedVectors`), and the same state
   once the entry that loaded `a` is undone. That there is such an entry between a
   checkpoint at which `a` was not loaded and the present is the clause `Arrived`
   of `History`. So the invariant survives the step, and with it the promise: what
   open checkpoints remember may change in the balances of one account
   (`SnapshotStack!Break`), and a later revert brings back what is remembered then.

**`UnwrapsTheorem`, `TypeTheorem`** of the journal (`Spec => []UnwrapsSucceed`,
`Spec => []TypeOK`). `checkpoint_revert` unwraps the accounts it looks up.
`Unwrappable` says that the accounts an entry names are loaded and that no newer
entry removes them; it is part of `Grows` (a step adds only such entries) and of
`History`. `Mentioned` says the same of every checkpoint's state, so that a revert
preserves it.

**`FailedCallTheorem`, `StaticCallTheorem`, `SpendingTheorem`** of `NativeTokens`,
and **`TokensInvariant`**, which they rest on: for every calldata, every depth of
calls and any number of committed transactions. `TokensInv` says that the frames
are `Stacked` over the journal: besides `History` and `Creations` from above,

- the account a frame executes is in use (it has code or a nonce) now and at the
  checkpoint of every frame inside it (`Executes`). SSTORE and SELFDESTRUCT change
  it without looking, and the undoing of their entries is right only for such an
  account; what makes it true is that a frame is opened only for an account with
  code or one in creation, and that no revert inside the frame goes back further
  than its checkpoint;
- the precompile's address has no code, now and at every checkpoint
  (`PrecompileCodeless`), nor in the cache and the databases. It is warm, so no
  creation chooses it. A frame never executes that address, so a call of the
  precompile that spends is made by the contract that runs;
- database and cache have their types. That is all the lemmas of `SnapshotProofs`
  ask of a database, so they hold again after each commit, also when the
  committed accounts are no longer as `DatabasesAssumption` says.

The rest is about one call. `Answered` says what an answer of the precompile has
made of the journal: it grew (or, after an overflow, is skewed by one debit), and
whoever has less of a token is the calling contract or holds a token it issued.
`MakeCallFrameDoes` puts checkpoint, values, precompile and the call it asks for
together: a failure reverts to the checkpoint taken after the account was loaded,
so nothing but that load is left (`FailedCallTheorem`, unless a transfer
overflowed, as in the property itself); a static call either does nothing or pays
zero or pays itself (`Gratis`), which is the case of CALLCODE with a value.
`SpendingTheorem` has the hypothesis `[]EtherFits`: no two accounts have together
more Ether than a U256 holds. SELFDESTRUCT adds the Ether of one account to that
of another with wrapping; Ether cannot be minted, so the hypothesis is about the
supply one starts from. All other additions of tokens are checked by the code and
need no hypothesis.

**`CommitsTheorem`** of `NativeTokens` (`TokensSpec => []ReadsFollowCommits`), from
`ReadsInv`: `TokensInv`, what the database answers is what the cache and the database
under it say (`Served`), and the property itself. Only `Commit` changes any of it. An
account that is written without having been created keeps the slots it had, and for
these the claim of the commit before is needed, which is about accounts with code only:
so the code must have been there already. That is `Deployed`, a part of `Stacked`: code
that the database does not have belongs to an account this transaction created, now and
at every checkpoint. It is what excludes the case in which the cache's entry is
`NotExisting` and becomes `Touched`, where the slots of the database under it come back.

**`TouchTheorem`** of `NativeTokens` (`[](intact => OnlyUnpaidCallsGoUntouched)`), from
`TouchInv`: at every checkpoint, and now, an account that has something to commit is
`entered` or among those that are touched once the vectors after the checkpoint are
undone, and so is the account that each frame executes, at every checkpoint of that
frame (`Touching`). The second part is what SSTORE and SELFDESTRUCT rely on, which touch
nobody: the call that opened the frame did, within the frame's own checkpoint, or paid
nothing and is the exception. The first is needed at the checkpoints too because a
revert takes touches away along with changes, and the touch of an account may be older
than the change or newer than the checkpoint. Each operation is shown to touch what it
changes (`Marks`). The theorem is about every calldata. Its one hypothesis is that no
minted token is Ether (`MintedIsNotBase`). `intact` excludes a transfer that overflowed:
a revert takes the payer's touch away and leaves the debit. The hypothesis holds of the
constants of the run `tokens`.

**`FailureTheorem`, `StaticTheorem`, `RefundsTheorem`, `OuterRefundTheorem`** of
`CallFrames`, from `StoreInv`: the first frame's checkpoint is the storage the
transaction began with; below a static frame every frame is static and its
checkpoint is today's storage; the counter of a frame that has not failed covers
what the slots cleared between its checkpoint and the next frame's (or today's
storage) have earned. `OuterRefundTheorem` is the consequence that matters for
`set_final_refund`: the counter that is cast to `u64` at the end is not negative.
A store changes one slot, so the cardinality of the cleared slots changes by at most
one, and by as much as the counter pays or takes back.

**`ErrorTheorem`, `DepositTheorem`** of `Transact`. `ErrorInv` says that while a
call runs the database is the one it began with; every way into an error passes
the place that clears the journal. `DepositInv` says with which errors a deposit can
reach the `end` handler: those of the database, or errors of the transaction, which
the handler turns into a halt.

**`NonceTheorem`** of `Transact` (`Spec => []NonceUsed`). `NonceInv` says, for each
handler that may run next, what the handlers before it have established: the
journal holds the sender with the nonce of the database until it is counted and
with the next one after that (`NonceAt`), the journal has its type (`Journal`),
the L1 block's values are there when Optimism needs them (`L1At`) and the frame's
gas is within its limit (`GasAt`). Two places make it more than bookkeeping. A
creation counts the nonce only after it has found the value and the depth in order,
so a creation whose sender cannot pay the value *after the fees* would be answered
with its nonce unused. It does not happen on mainnet, because
`validate_tx_against_state` has added the value to the highest price of the gas
(`RequiredPaid`, `CreateCost`, `Affordable`: what is deducted is at most what was
checked, although the deduction saturates and the check overflows with an error).
And the reimbursement, the rewards and `commit` write balances of the same account:
they keep its nonce (`Keeps`). The assumptions `GasAssumption` and `BlobAssumption`
say what the code relies on and does not check: that `spent - refunded` does not
underflow where Optimism's refunds are not capped, and that a transaction without
`max_fee_per_blob_gas` has no blobs. Without the latter the theorem is false: the
fee of blobs is deducted whenever there are blobs, but validated only when there is
a price.

**`BoundsTheorem`, `PriceTheorem`** of `MemoryFrames`, from `MemoryInv`: the
checkpoints are increasing positions of the buffer, the buffer's end belongs to the
newest frame, each frame's part is a whole number of words, and the gas of memory
is the price of exactly these words. The accesses are within bounds because every
instruction resizes first; `resize` of an inner frame does not move the end of an
outer one because the outer one gets its length back from the checkpoint.

**`SeparateTheorem`** of `MemoryFrames` (`Spec => MemoriesAreSeparate`): the shared
buffer implements `MemoryStack`. A frame's memory there is its part of the buffer, from
its checkpoint to the next one or to the end, with zeros after that (`View`); the range
for an output is kept unless it has no bytes, when its sentinel offset stands for
nothing. `SepInv` is `MemoryInv`, that any two checkpoints, not only neighbours, are in
order (`Orderly`), and that no return data is as long as `usize::MAX` (`Short`). The order
makes the parts disjoint: what lies below the last checkpoint is what the callers see, and
every operation leaves it alone (`Spared`). The length is what makes RETURNDATACOPY right
when its offset is cut to `usize::MAX`: the copy is refused, whatever its length.

The steps rest on four facts. Growth appends zeros up to a whole word, so the view of the
grown buffer is the old view with a larger size (`Grows`), and bytes beyond the old size
were zeros in the view already. Writing inside a part is `Put` of its view (`Puts`); with
`SetData` it is `Put` of the padded data (`SetDataPadded`), and MCOPY, which grows once
to the farther of its two ranges, grows the view as two growths would (`GrownTwice`).
Opening a frame appends a memory of size zero, whatever an earlier frame left behind,
because `FreeContext` cuts the buffer (`ViewsOpen`, `ViewsClose`). And an output is
written inside the caller's range, after the callee's part is gone (`OutcomeView`). One
lemma per action puts them together.

**`ReadsTheorem`, `ChangesetsTheorem`, `PlainRevertsTheorem`, `RevertLatestTheorem`,
`ReachableTheorem`** of `BlockState`, for any addresses, slots, codes and values and
any number of transactions, blocks and bundles, all from one invariant, `StateInv`.
Its parts say what each piece of the State claims about the accounts of the
reference semantics:

- `Current(c, w, d)`: the account `c`, over the database's account `d`, shows `w`.
  Its info holds the same; every slot it has is right, and every slot it does not
  have is right too, by the rule its status stands for (zero where the storage is
  known, the database's value elsewhere); `Loaded` claims that nothing changed,
  `InMemoryChange` that the database's account has no storage of its own.
- `BundleOver(bs, top, base)`: each account of the bundle is `Current` for the world
  `top` over the database `base`, and accounts it does not have are the same in both.
- `TransitionOk(a)`: the transition of the running block leads from the account at the
  last merge to the present one (`Recorded`), and starts with the status the bundle
  has, or from a cache account that was current then. This is what makes the tables
  of `update_and_create_revert` total: the pair of statuses they are given is one they
  list.
- `FreshOk`: a bundle that did not begin as a prestate holds only accounts that were
  changed, and an account whose storage one of its reverts wipes is destroyed in it.
  `extend` relies on it when it moves storage into reverts.
- `Own`, while the bundle is the State's own: original values are the database's; the
  bundle without its last block is over the world before it; the plain reverts
  restore.

`ReachableTheorem` adds `StuckOk`: where a commit panicked there is an account that is
still as it was loaded and has neither code nor nonce (`Stuck`). For everything else the
tables are shown to have an entry, from what `Current` says of each status (an account
without nonce and code that was changed is `InMemoryChange`, which may be emptied).

`MoveInv` treats every commit and balance change at once: a step either leaves the
account (`Stays`), deletes it (`Dies`) or changes it (`Changes`), and one lemma per
operation of the cache account says which. A merge is one lemma for each way in which a
transition is folded into an account of the bundle (`Steps`: `Grown`, `Made`,
`Replaced`, `Dead`) and, for each, what the revert made of it gives back. That the
reverts of *earlier* blocks still restore after a merge is `UnwindOneMore`: unwinding
n + 1 blocks of the new bundle is unwinding n of the old one, once the newest block's
reverts lead back to the world of the last merge; it is an induction over the number of
blocks, with the equations of `Iteration`. `AtopOver` says that one bundle over another
is a bundle over the lower one's database, which gives `extend`, `prepend_state` and
the taking of a bundle.

Assumptions, beside types of the constants: `NoneAssumption` of `BlockState` (no value
is taken for Rust's `None`), its `StoredAssumption` (the database has storage only where
there is code or a nonce), `LimitAssumption` (the memory limit is
not within a word of `usize::MAX`; it is 2^32 - 1 unless configured),
`OperandsAssumption` of `MemoryFrames` (a precompile's output is shorter than
`usize::MAX`, as any `Vec`),
`AbsentAssumption` of `CacheDB` (likewise), `DatabasesAssumption` (an account of the database without code and nonce has no
storage, as the code says of itself), `ParticipantsAssumption` (the precompile is a
warm address without code), `CalldataAssumption` (decoding yields addresses, ids and
amounts), and, above, the stipend, `GasAssumption` and `BlobAssumption`. TLC evaluates all of them in the runs.

Only model-checked, and why:

- `TransactionEnds`: liveness is out of the prover's reach.
- `NeverUnreachable`, `ChangesAreTouched` and `BaseFeeSent` are refuted.
- `SupplyAccounted`, `Conserved`, `SizesCover`: sums over sets of accounts, reverts or
  slots; the folds that define them would need induction over finite sets with an
  operator as parameter.
- `ChargedAtMostTheOffer`, `L1FeeIsCurrent`: true where the vaults, the beneficiary
  and the sender are different accounts and no product wraps; the instance provides
  that, the code does not demand it.
- Everything about EOF and code: the validators are recursive over data.

## 6. Not modelled

- Cryptographic precompiles: numerical code and calls into libraries.
- Remote databases and command line tools: adapters without state.
- The values that arithmetic and bitwise instructions compute: one-line calls of
  the integer library; of these instructions only what they take and leave.
- The price list of instructions, apart from memory, calls, storage and the
  intrinsic gas: a set of costs stands for it.
- `fake_exponential` (the price of blob gas) and `flz_compress_len`: pure functions
  of one number or string; their results are inputs.
- Handler builder and registers: tables of function pointers.
- Inspectors: observers, but for the stacks of inputs they keep (see the hazards).
- `BundleBuilder`, `BundleState::new`, the block hash cache, `insert_*` of `CacheDB`:
  ways to build a state for tests, and a cache without consequences.
- Forks before SPURIOUS_DRAGON (journal) and before London (refunds).
- A database that changes while a transaction runs: nothing in the code handles it.

## 7. Plan

Done: the journal, frames and gas, the precompile over the cache database,
transactions on mainnet and Optimism, the shared memory, bytecode and EOF, blocks
and bundles.

Proofs, done: section 5.

Models, after that: two's complement arithmetic and `fake_exponential` against
reference definitions; the stacks of the inspectors beside `CallFrames`.
