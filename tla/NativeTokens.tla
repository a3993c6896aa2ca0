---------------------------- MODULE NativeTokens ----------------------------
(***************************************************************************)
(* Transactions that call contracts and the Native Tokens precompile       *)
(* (crates/revm/src/sablier/native_tokens.rs), committed one after another *)
(* to an in-memory database: make_call_frame of                            *)
(* context/evm_context.rs, the precompile's functions, the journaled state *)
(* they change and CacheDB::commit.                                        *)
(*                                                                         *)
(* The precompile is meant to be called with DELEGATECALL: the calling     *)
(* contract is then target_address, and caller is that contract's caller.  *)
(* Gas is left to CallFrames; here a call has enough for BASE_GAS_COST or  *)
(* it has not.                                                             *)
(***************************************************************************)
EXTENDS CacheDB

CONSTANTS
    Sender,           \* TxEnv::caller, an account without code
    Targets,          \* the accounts a transaction or a contract may call
    Fresh,            \* the addresses contracts create
    PrecompileAddress,\* ADDRESS of the Native Tokens precompile
    Calldata,         \* the inputs the precompile may be called with
    UsizeRange,       \* 2^64; lengths and amounts are scaled down separately
    MaxCapacity,      \* the longest Vec<TokenTransfer> that can be allocated
    CallStackLimit,   \* CALL_STACK_LIMIT
    MaxTransactions,  \* bound: transactions
    MaxSteps          \* bound: calls and stores of one transaction

VARIABLES
    contexts,   \* the Contract of each open frame: target, caller, values, flag
    answer,     \* how the last call ended
    entered,    \* history: the accounts run by a call that was paid no tokens
    world,      \* history: the state that the committed transactions left
    txs,        \* transactions begun
    steps       \* steps of this transaction

tvars == <<vars, under, cache, contexts, answer, entered, world, txs, steps>>

TopContext == contexts[Len(contexts)]
InTransaction == contexts # << >>
HasSteps == InTransaction /\ steps < MaxSteps /\ answer # "panic"

-----------------------------------------------------------------------------
(* The precompile's input: 32-byte words and what is left after them       *)

\* consume_*_from: n words and nothing more, or InvalidInput.
Exactly(input, n) == Len(input.words) = n /\ input.extra = 0

\* token_ids and transfer_amounts, arrays that start with their length at
\* word `at`; n is how many elements that length is taken to mean.
ParseMultiple(input, at, n) ==
    LET w == input.words
    IN  /\ Len(w) >= at + 2 * n + 1
        /\ \A i, k \in 1 .. n : w[at + i] = w[at + k] => i = k
        /\ w[at + n + 1] = w[at]

TransfersAt(input, at, n) ==
    [i \in 1 .. n |-> [id |-> input.words[at + i], amount |-> input.words[at + n + 1 + i]]]

\* The low 64 bits of a length, and try_into().unwrap_or_default().
Low64(n) == n % UsizeRange
ToUsize(n) == IF n < UsizeRange THEN n ELSE 0

\* The calldata of a call: everything after word `at`, whose value is its
\* size in bytes.
Rest(input, at) == 32 * (Len(input.words) - at) + input.extra
CalldataFits(input, at) == ToUsize(input.words[at]) = Rest(input, at)

Invalid == [valid |-> FALSE, to |-> Sender, transfers |-> << >>, rest |-> 0]
Parsed(to, transfers, rest) ==
    [valid |-> TRUE, to |-> to, transfers |-> transfers, rest |-> rest]

WellParsed(p) == p.to \in Address /\ p.transfers \in Seq(TokenTransfer)

\* The arguments of the four transfers.
ParseTransfer(input) ==
    IF ~Exactly(input, 3) THEN Invalid
    ELSE Parsed(input.words[1],
                << [id |-> input.words[2], amount |-> input.words[3]] >>, 0)

ParseTransferMultiple(input) ==
    LET n == Low64(input.words[4])
    IN  IF /\ Len(input.words) >= 4
           /\ ParseMultiple(input, 4, n)
           /\ Exactly(input, 5 + 2 * n)
        THEN Parsed(input.words[1], TransfersAt(input, 4, n), 0)
        ELSE Invalid

ParseTransferAndCall(input) ==
    IF Len(input.words) >= 5 /\ CalldataFits(input, 5)
    THEN Parsed(input.words[1],
                << [id |-> input.words[2], amount |-> input.words[3]] >>, Rest(input, 5))
    ELSE Invalid

\* Vec::with_capacity panics when the length is out of its reach, as the slice
\* of a calldata of no bytes will: that call is parsed as one.
ParseTransferMultipleAndCall(input) ==
    LET n == ToUsize(input.words[5])
        size == 7 + 2 * n
    IN  IF Len(input.words) >= 5 /\ n > MaxCapacity
        THEN Parsed(input.words[1], << >>, 0)
        ELSE
        IF /\ Len(input.words) >= 5
           /\ Len(input.words) >= size
           /\ ParseMultiple(input, 5, n)
           /\ CalldataFits(input, size)
        THEN Parsed(input.words[1], TransfersAt(input, 5, n), Rest(input, size))
        ELSE Invalid

\* What the words stand for where a function reads them: decoding gives
\* addresses, sub ids, token ids and amounts.
ASSUME CalldataAssumption ==
    \A input \in Calldata :
        /\ input.selector = "balanceOf" /\ Exactly(input, 2) => input.words[1] \in Address
        /\ input.selector \in {"mint", "burn"} /\ Exactly(input, 3) =>
              /\ input.words[1] \in SubId /\ input.words[2] \in Address
              /\ input.words[3] \in Balance
        /\ input.selector = "transfer" => WellParsed(ParseTransfer(input))
        /\ input.selector = "transferMultiple" => WellParsed(ParseTransferMultiple(input))
        /\ input.selector = "transferAndCall" => WellParsed(ParseTransferAndCall(input))
        /\ input.selector = "transferMultipleAndCall" =>
              WellParsed(ParseTransferMultipleAndCall(input))
        /\ input.selector \in {"balanceOf", "mint", "burn", "transfer", "transferMultiple",
                               "transferAndCall", "transferMultipleAndCall",
                               "getCallValues", "unknown"}

\* The precompile is a warm address without code.
ASSUME ParticipantsAssumption ==
    /\ Sender \in Address /\ Targets \subseteq Address /\ Fresh \subseteq Address
    /\ PrecompileAddress \in Address \cap WarmPreloaded
    /\ \A d \in Databases : d.basic[PrecompileAddress].code = NoCode

-----------------------------------------------------------------------------
(* The functions of the precompile: the journaled state they leave and     *)
(* Result, Call, Err or a panic                                            *)

Result(j) == [js |-> j, answer |-> "result", overflowed |-> FALSE, to |-> Sender,
              transfers |-> << >>]
Err(j) == [Result(j) EXCEPT !.answer = "error"]
Panic(j) == [Result(j) EXCEPT !.answer = "panic"]
NewCall(j, p) ==
    [js |-> j, answer |-> "call", overflowed |-> FALSE, to |-> p.to,
     transfers |-> p.transfers]

HasCode(j, a) == j.accounts[a].code # NoCode

\* balance_of
BalanceOf(j, input) ==
    IF Exactly(input, 2) THEN Result(LoadAccount(j, input.words[1])) ELSE Err(j)

\* mint, for words sub id, recipient and amount
MintTokens(j, minter, input) ==
    LET t == TokenIdAddress[<<minter, input.words[1]>>]
        recipient == input.words[2]
        j1 == LoadAccount(LoadNativeTokenIds(j), minter)
        balance == j1.accounts[recipient].balances[t] + input.words[3]
        minted == [SetBalance(j1, recipient, t, balance) EXCEPT
                      !.token_ids = IF \E i \in DOMAIN @ : @[i] = t THEN @ ELSE Append(@, t)]
    IN  IF ~Exactly(input, 3) THEN Err(j)
        ELSE IF ~Loaded(j1, recipient) THEN Panic(j1)
        ELSE IF balance > MaxU256 THEN Err(j1)
        ELSE Result(Push(minted, TokensMinted(recipient, t, input.words[3])))

\* Mutant: the token is the holder's own, not the caller's.
BurnTokensOfHolder(j, burner, input) ==
    LET holder == input.words[2]
        amount == input.words[3]
        j1 == LoadAccount(LoadNativeTokenIds(j), holder)
        t == TokenIdAddress[<<holder, input.words[1]>>]
        balance == j1.accounts[holder].balances[t]
    IN  IF ~Exactly(input, 3) \/ amount = 0 \/ balance < amount THEN Err(j)
        ELSE Result(Push(SetBalance(j1, holder, t, balance - amount),
                         TokensBurned(holder, t, amount)))

\* burn, for words sub id, holder and amount
BurnTokens(j, burner, input) ==
    LET t == TokenIdAddress[<<burner, input.words[1]>>]
        holder == input.words[2]
        amount == input.words[3]
        j1 == LoadAccount(LoadNativeTokenIds(j), holder)
        balance == j1.accounts[holder].balances[t]
    IN  IF ~Exactly(input, 3) THEN Err(j)
        ELSE IF amount = 0 THEN Err(j)
        ELSE IF ~\E i \in DOMAIN db.token_ids : db.token_ids[i] = t THEN Err(j1)
        ELSE IF balance < amount THEN Err(j1)
        ELSE Result(Push(SetBalance(j1, holder, t, balance - amount),
                         TokensBurned(holder, t, amount)))

\* transfer and transfer_multiple: is_ok() takes a refused transfer, which
\* is Ok(Some(result)), for a success.
TransferTokens(j, sender, p) ==
    LET r == TransferAll(j, sender, p.to, p.transfers)
    IN  IF ~p.valid THEN Err(j)
        ELSE [Result(r.js) EXCEPT !.overflowed = r.outcome = "overflow"]

\* transfer_and_call and transfer_multiple_and_call: the callee has code, and
\* calldata[28..] needs 28 bytes.
CallWithTokens(j, p) ==
    LET j1 == LoadAccount(j, p.to)
    IN  IF ~p.valid THEN Err(j)
        ELSE IF ~HasCode(j1, p.to) THEN Err(j1)
        ELSE IF p.rest < 28 THEN Panic(j1)
        ELSE NewCall(j1, p)

\* Mutant: transfer forgets to look at the static flag.
CallMutIgnoresStatic(j, inputs, input) ==
    LET j1 == LoadAccount(j, inputs.target)
    IN  IF input.selector = "transfer" /\ HasCode(j1, inputs.target)
        THEN TransferTokens(j1, inputs.target, ParseTransfer(input))
        ELSE Err(j)

\* call_mut, with gas for BASE_GAS_COST.  Every function but balanceOf is
\* refused in a static call and to an account without code.
CallMut(j, inputs, input) ==
    LET caller == inputs.target
        j1 == LoadAccount(j, caller)
    IN  CASE input.selector = "balanceOf" -> BalanceOf(j, input)
          [] input.selector = "unknown" -> Err(j)
          [] input.selector \notin {"balanceOf", "unknown"} /\ inputs.is_static -> Err(j)
          [] input.selector \notin {"balanceOf", "unknown"} /\ ~inputs.is_static
                /\ ~HasCode(j1, caller) -> Err(j1)
          [] OTHER ->
             CASE input.selector = "mint" -> MintTokens(j1, caller, input)
               [] input.selector = "burn" -> BurnTokens(j1, caller, input)
               [] input.selector = "transfer" ->
                     TransferTokens(j1, caller, ParseTransfer(input))
               [] input.selector = "transferMultiple" ->
                     TransferTokens(j1, caller, ParseTransferMultiple(input))
               [] input.selector = "transferAndCall" ->
                     CallWithTokens(j1, ParseTransferAndCall(input))
               [] input.selector = "transferMultipleAndCall" ->
                     CallWithTokens(j1, ParseTransferMultipleAndCall(input))
               [] input.selector = "getCallValues" -> Result(j1)

-----------------------------------------------------------------------------
(* Frames                                                                  *)

Context(target, caller, values, is_static) ==
    [target |-> target, caller |-> caller, values |-> values, is_static |-> is_static]

\* The call ends without a frame of its own.
Ends(j, how) ==
    /\ js' = j
    /\ answer' = how
    /\ UNCHANGED <<frames, contexts, depth, entered>>

\* A frame is pushed, whose checkpoint is the vector after the i-th.
Opens(j, i, created, context) ==
    /\ js' = j
    /\ answer' = "frame"
    /\ frames' = Append(frames, [journal_i |-> i, log_i |-> 0, creates |-> created])
    /\ contexts' = Append(contexts, context)
    /\ depth' = depth + 1

\* Mutant: a call without value does not touch its target.
PayValuesUntouched(j, inputs) ==
    CASE inputs.apparent -> [js |-> j, outcome |-> "ok"]
      [] ~inputs.apparent /\ \A n \in DOMAIN inputs.values : inputs.values[n].amount = 0 ->
            [js |-> LoadAccount(j, inputs.target), outcome |-> "ok"]
      [] OTHER -> TransferAll(j, inputs.caller, inputs.target, inputs.values)

\* The values of a call: a touch if they are all zero, else their transfer.
PayValues(j, inputs) ==
    CASE inputs.apparent -> [js |-> j, outcome |-> "ok"]
      [] ~inputs.apparent /\ \A n \in DOMAIN inputs.values : inputs.values[n].amount = 0 ->
            [js |-> TouchAccount(LoadAccount(j, inputs.target), inputs.target),
             outcome |-> "ok"]
      [] OTHER -> TransferAll(j, inputs.caller, inputs.target, inputs.values)

\* Mutant: when the new call cannot be paid nothing is reverted.
AfterPrecompileKeeps(p, i, inputs) ==
    LET paid == TransferAll(LoadAccount(p.js, p.to), inputs.caller, p.to, p.transfers)
    IN  /\ UNCHANGED intact
        /\ IF p.answer = "call" /\ paid.outcome = "failed" THEN Ends(paid.js, "failed")
           ELSE Ends(p.js, "succeeded")

\* make_call_frame after call_precompile has answered p: i vectors are the
\* caller's.
AfterPrecompile(p, i, inputs) ==
    LET j == LoadAccount(p.js, p.to)
        paid == TransferAll(j, inputs.caller, p.to, p.transfers)
    IN  CASE p.answer = "panic" ->
                Ends(p.js, "panic") /\ UNCHANGED intact
          [] p.answer = "error" ->
                Ends(RevertTo(p.js, i), "failed") /\ UNCHANGED intact
          [] p.answer = "result" ->
                Ends(p.js, "succeeded") /\ intact' = (intact /\ ~p.overflowed)
          [] p.answer = "call" ->
                /\ intact' = (intact /\ paid.outcome # "overflow")
                /\ IF paid.outcome # "ok" THEN Ends(RevertTo(paid.js, i), "failed")
                   ELSE /\ Opens(paid.js, i, NoAddress,
                                 Context(p.to, inputs.caller, p.transfers, inputs.is_static))
                        /\ entered' = IF p.transfers = << >> THEN entered \cup {p.to}
                                      ELSE entered

\* make_call_frame
MakeCallFrame(j, inputs, input, gas_ok) ==
    LET loaded == LoadAccount(j, inputs.bytecode)
        i == Len(loaded.journal)
        paid == PayValues(OpenVector(loaded), inputs)
    IN  IF depth > CallStackLimit THEN Ends(j, "failed") /\ UNCHANGED intact
        ELSE IF paid.outcome # "ok"
        THEN Ends(RevertTo(paid.js, i), "failed")
             /\ intact' = (intact /\ paid.outcome # "overflow")
        ELSE IF inputs.bytecode = PrecompileAddress
        THEN AfterPrecompile(IF gas_ok THEN CallMut(paid.js, inputs, input) ELSE Err(paid.js),
                             i, inputs)
        ELSE IF HasCode(loaded, inputs.bytecode)
        THEN Opens(paid.js, i, NoAddress,
                   Context(inputs.target, inputs.caller, inputs.values, inputs.is_static))
             /\ UNCHANGED <<intact, entered>>
        ELSE Ends(paid.js, "succeeded") /\ UNCHANGED intact

\* CallInputs of CALL, CALLCODE, DELEGATECALL and STATICCALL.
Inputs(scheme, to, n) ==
    [bytecode |-> to,
     target |-> IF scheme \in {"CallCode", "DelegateCall"} THEN TopContext.target ELSE to,
     caller |-> IF scheme = "DelegateCall" THEN TopContext.caller ELSE TopContext.target,
     values |-> CASE scheme = "DelegateCall" -> TopContext.values
                  [] scheme = "StaticCall" -> << >>
                  [] OTHER -> << [id |-> BaseToken, amount |-> n] >>,
     apparent |-> scheme = "DelegateCall",
     is_static |-> TopContext.is_static \/ scheme = "StaticCall"]

Schemes == {"Call", "CallCode", "DelegateCall", "StaticCall"}
NoInput == [selector |-> "unknown", words |-> << >>, extra |-> 0]

-----------------------------------------------------------------------------
(* Actions                                                                 *)

Outside == UNCHANGED <<under, cache, db, world, txs, logs, outcome>>

\* The transaction's first call.  deduct_caller has loaded and touched the
\* sender and raised its nonce; gas is free.
Transact(to, values) ==
    LET first == [NewJournaledState EXCEPT !.journal = << <<AccountLoaded(Sender)>> >>]
        loaded == InsertAccount(first, Sender)
        paying == [loaded EXCEPT !.touched = {Sender},
                                 !.accounts[Sender].nonce = IF @ = MaxNonce THEN @ ELSE @ + 1]
    IN  /\ answer = "committed" /\ txs < MaxTransactions
        /\ MakeCallFrame(paying,
              [bytecode |-> to, target |-> to, caller |-> Sender, values |-> values,
               apparent |-> FALSE, is_static |-> FALSE], NoInput, TRUE)
        /\ txs' = txs + 1 /\ steps' = 0
        /\ UNCHANGED <<under, cache, db, world, logs, outcome>>

\* A contract calls an account; CALL with a value is refused in a static
\* frame before it gets here.
Call(scheme, to, n) ==
    /\ HasSteps
    /\ ~(TopContext.is_static /\ scheme = "Call" /\ n # 0)
    /\ MakeCallFrame(js, Inputs(scheme, to, n), NoInput, TRUE)
    /\ steps' = steps + 1
    /\ Outside

CallPrecompile(scheme, input, gas_ok) ==
    /\ HasSteps
    /\ MakeCallFrame(js, Inputs(scheme, PrecompileAddress, 0), input, gas_ok)
    /\ steps' = steps + 1
    /\ Outside

\* SSTORE
Store(k, new) ==
    /\ HasSteps /\ ~TopContext.is_static
    /\ js' = StoreSlot(js, TopContext.target, k, new)
    /\ answer' = "succeeded"
    /\ steps' = steps + 1
    /\ UNCHANGED <<frames, contexts, depth, intact, entered>> /\ Outside

\* make_create_frame without value
Create(a) ==
    LET caller == TopContext.target
        j == LoadAccount(js, a)
        raised == [Push(TouchAccount(j, caller), NonceChange(caller))
                      EXCEPT !.accounts[caller].nonce = @ + 1]
        opened == OpenVector(raised)
        i == Len(js.journal)
    IN  /\ HasSteps /\ ~TopContext.is_static
        /\ IF depth > CallStackLimit \/ js.accounts[caller].nonce = MaxNonce
           THEN Ends(js, "refused")
           ELSE IF HasCode(raised, a) \/ raised.accounts[a].nonce # 0 \/ a \in WarmPreloaded
           THEN Ends(RevertTo(opened, i), "refused")
           ELSE Opens(CreateAccount(opened, caller, a, 0), i, a,
                      Context(a, caller, << >>, FALSE))
                /\ UNCHANGED entered
        /\ steps' = steps + 1
        /\ UNCHANGED intact /\ Outside

PopContext == contexts' = SubSeq(contexts, 1, Len(contexts) - 1)

\* call_return and create_return of a frame that succeeded; `code` is what a
\* creation deploys.
Return(code) ==
    /\ InTransaction /\ answer # "panic"
    /\ js' = IF Top.creates = NoAddress THEN js ELSE SetCode(js, Top.creates, code)
    /\ PopFrame /\ PopContext
    /\ depth' = depth - 1
    /\ answer' = "succeeded"
    /\ UNCHANGED <<intact, steps, entered>> /\ Outside

Revert ==
    /\ InTransaction /\ answer # "panic"
    /\ js' = RevertTo(js, Top.journal_i)
    /\ PopFrame /\ PopContext
    /\ depth' = depth - 1
    /\ answer' = "failed"
    /\ UNCHANGED <<intact, steps, entered>> /\ Outside

\* SELFDESTRUCT, which ends its frame.
SelfDestructs(target) ==
    /\ HasSteps /\ ~TopContext.is_static
    /\ js' = Destroy(js, TopContext.target, target)
    /\ PopFrame /\ PopContext
    /\ depth' = depth - 1
    /\ answer' = "succeeded"
    /\ steps' = steps + 1
    /\ UNCHANGED <<intact, entered>> /\ Outside

\* The state a transaction leaves, on top of the one before it.
Left(w, j) ==
    [basic |-> [a \in Address |->
        IF ~Loaded(j, a) \/ a \notin j.touched THEN w.basic[a]
        ELSE IF j.accounts[a].destroyed THEN DefaultInfo
        ELSE InfoOf(j, a)],
     storage |-> [p \in Address \X Slot |->
        LET a == p[1] IN
        IF ~Loaded(j, a) \/ a \notin j.touched THEN w.storage[p]
        ELSE IF j.accounts[a].destroyed THEN 0
        ELSE IF j.accounts[a].storage[p[2]] # Absent
             THEN j.accounts[a].storage[p[2]].present
        ELSE IF j.accounts[a].created THEN 0
        ELSE w.storage[p]]]

\* transact_commit: finalize and DatabaseCommit::commit.
Commit ==
    /\ ~InTransaction /\ answer \in {"succeeded", "failed"}
    /\ cache' = Committed(cache, js)
    /\ db' = Answers(cache', js.token_ids)
    /\ world' = Left(world, js)
    /\ js' = NewJournaledState
    /\ answer' = "committed"
    /\ intact' = TRUE
    /\ entered' = {}
    /\ steps' = 0
    /\ UNCHANGED <<under, txs, logs, outcome, frames, contexts, depth>>

TokensInit ==
    /\ Init
    /\ under = db
    /\ cache = [a \in Address |-> Absent]
    /\ contexts = << >>
    /\ answer = "committed"
    /\ entered = {}
    /\ world = [basic |-> db.basic, storage |-> db.storage]
    /\ txs = 0 /\ steps = 0

TokensNext ==
    \/ \E to \in Targets, values \in Transfers \cup {<< >>} : Transact(to, values)
    \/ \E scheme \in Schemes, to \in Targets, n \in Amounts \cup {0} : Call(scheme, to, n)
    \/ \E scheme \in Schemes, input \in Calldata, gas_ok \in BOOLEAN :
          CallPrecompile(scheme, input, gas_ok)
    \/ \E k \in Slot, new \in Word : Store(k, new)
    \/ \E a \in Fresh : Create(a)
    \/ \E code \in Code : Return(code)
    \/ Revert
    \/ \E a \in Targets : SelfDestructs(a)
    \/ Commit

TokensSpec == TokensInit /\ [][TokensNext]_tvars

-----------------------------------------------------------------------------
(* Properties                                                              *)

\* What would be lost if account a were not committed: everything but the
\* tokens that mint and burn change.
Changed(a) ==
    LET account == js.accounts[a]
    IN  \/ account.nonce # db.basic[a].nonce
        \/ account.code # db.basic[a].code
        \/ account.destroyed
        \/ account.balances[BaseToken] # db.basic[a].balances[BaseToken]
        \/ \E k \in Slot : /\ account.storage[k] # Absent
                           /\ account.storage[k].present # account.storage[k].original

\* "not touched account are never changed" (db/states/cache.rs:110): both
\* databases skip the accounts that are not touched when they commit.
ChangesAreTouched ==
    \A a \in Address : Loaded(js, a) /\ Changed(a) => a \in js.touched

\* Neither SSTORE nor SELFDESTRUCT touches the account it changes: the call
\* that started the frame did, and no revert takes the touch away without the
\* change.  Only a transferMultipleAndCall of no tokens runs an account that
\* nothing has touched, and only such an account's changes may be lost.
OnlyUnpaidCallsGoUntouched ==
    \A a \in Address : Loaded(js, a) /\ Changed(a) => a \in js.touched \cup entered

\* The database answers what the committed transactions left, whatever the
\* order of creations, destructions and stores; of an account without code
\* no slot is ever asked for.
ReadsFollowCommits ==
    /\ db.basic = world.basic
    /\ \A a \in Address, k \in Slot :
          world.basic[a].code # NoCode => db.storage[<<a, k>>] = world.storage[<<a, k>>]

\* A call that fails, in the precompile or before it, changes no account that
\* was there, no transient storage, and touches none: at most the called
\* account is warm.
FailedCallsLeaveNoTrace ==
    [][ /\ InTransaction /\ contexts' = contexts
        /\ answer' = "failed" /\ intact'
        => /\ \A a \in Address : Loaded(js, a) => js'.accounts[a] = js.accounts[a]
           /\ js'.touched \subseteq js.touched \cup {Precompile3}
           /\ js'.transient_storage = js.transient_storage ]_tvars

Balances(j, a) == IF Loaded(j, a) THEN j.accounts[a].balances ELSE db.basic[a].balances

\* Nothing a static frame calls moves, mints or burns tokens: the flag is
\* passed on to the call that transferAndCall asks for.
StaticCallsMoveNothing ==
    [][ InTransaction /\ TopContext.is_static /\ Len(contexts') >= Len(contexts)
        => \A a \in Address : Balances(js', a) = Balances(js, a) ]_tvars

\* While a contract runs, tokens leave only its own account, that of its
\* caller (transferAndCall pays from there), or any account if they are the
\* contract's own tokens, which it may burn.
SpendingIsAuthorized ==
    [][ InTransaction /\ answer' # "failed"
        => \A a \in Address, t \in TokenId :
              Balances(js', a)[t] < Balances(js, a)[t] =>
                 \/ a \in {TopContext.target, TopContext.caller}
                 \/ \E s \in SubId : TokenIdAddress[<<TopContext.target, s>>] = t ]_tvars
=============================================================================
