--------------------------- MODULE JournaledState ---------------------------
(***************************************************************************)
(* The journaled world state of the EVM (crates/revm/src/journaled_state.rs*)
(* over the account types of crates/primitives/src/state.rs): accounts     *)
(* loaded from the database, changed in place, and a journal of how to     *)
(* take every change back.                                                 *)
(*                                                                         *)
(* The model is for forks from SPURIOUS_DRAGON on.  Data is abstracted as  *)
(* follows: bytecode is its hash; a balances map is the total function of  *)
(* what get_balance returns (absent = 0) together with, separately, the    *)
(* set of ids that have an entry, because is_empty looks at it; transient  *)
(* storage is the total function of what tload returns.                    *)
(***************************************************************************)
EXTENDS Integers, Sequences, FiniteSets

CONSTANTS
    Address,          \* account addresses
    Absent,           \* None: an account or slot that is not loaded
    NoAddress,        \* "no account is being created by this frame"
    TokenId,          \* native token ids
    BaseToken,        \* BASE_TOKEN_ID
    SubId,            \* sub ids a minter derives token ids from
    TokenIdAddress,   \* token_id_address, a function of <<minter, sub id>>
    Slot,             \* storage keys
    Word,             \* storage values
    Code, NoCode,     \* code hashes, and KECCAK_EMPTY
    MaxU256,          \* U256::MAX
    MaxNonce,         \* u64::MAX
    Precompile3,      \* PRECOMPILE3, whose touch survives a revert
    WarmPreloaded,    \* warm_preloaded_addresses
    IsCancun,         \* is CANCUN enabled
    Databases,        \* the databases a transaction may start from
    Transfers,        \* the lists of token transfers that can be requested
    Amounts,          \* amounts minted, burned and endowed
    AccessList,       \* the addresses of the transaction's access list
    MaxVectors,       \* bound: vectors in the journal
    MaxEntries,       \* bound: entries in the journal when an operation starts
    MaxLogs           \* bound: logs

VARIABLES
    js,       \* the revertible fields of JournaledState
    logs,     \* JournaledState::logs
    depth,    \* JournaledState::depth
    frames,   \* the checkpoints held by the frames of the call stack
    outcome,  \* how the last operation ended
    intact,   \* no transfer of this transaction ended in OverflowPayment
    db        \* the database

vars == <<js, logs, depth, frames, outcome, intact, db>>

Balance == 0 .. MaxU256
StorageSlot == [original : Word, present : Word]

\* Account, with the flags Created and SelfDestructed; Touched is kept in a
\* set of its own.  A HashMap is a total function with Absent for None.
Account ==
    [balances : [TokenId -> Balance], nonce : 0 .. MaxNonce,
     code : Code \cup {NoCode}, created : BOOLEAN, destroyed : BOOLEAN,
     storage : [Slot -> StorageSlot \cup {Absent}]]
Accounts == [Address -> Account \cup {Absent}]

ASSUME BoundsAssumption ==
    /\ MaxU256 \in Nat
    /\ MaxNonce \in Nat \ {0}
    /\ 0 \in Word
    /\ BaseToken \in TokenId
    /\ NoAddress \notin Address
    /\ Absent \notin Account /\ Absent \notin StorageSlot
    /\ NoCode \notin Code
    /\ Amounts \subseteq Balance
    /\ IsCancun \in BOOLEAN
    /\ AccessList \subseteq Address
    /\ MaxVectors \in Nat /\ MaxEntries \in Nat /\ MaxLogs \in Nat

\* AccountInfo as the database stores it; an account that does not exist is
\* the default one (from SPURIOUS_DRAGON on nothing tells the two apart).
AccountInfo ==
    [balances : [TokenId -> Balance], keys : SUBSET TokenId,
     nonce : 0 .. MaxNonce, code : Code \cup {NoCode}]

Database ==
    [basic : [Address -> AccountInfo], storage : [Address \X Slot -> Word],
     token_ids : Seq(TokenId)]

\* An account without code and nonce has no storage: the code relies on it
\* when it creates an account ("it shouldn't be possible for them to have
\* different values then zero as code is not existing for this account").
ASSUME DatabasesAssumption ==
    /\ Databases \subseteq Database
    /\ \A d \in Databases, a \in Address :
          d.basic[a].code = NoCode /\ d.basic[a].nonce = 0
             => \A k \in Slot : d.storage[<<a, k>>] = 0

TokenTransfer == [id : TokenId, amount : Balance]

ASSUME OperandsAssumption ==
    /\ Transfers \subseteq Seq(TokenTransfer)
    /\ TokenIdAddress \in [Address \X SubId -> TokenId]

-----------------------------------------------------------------------------
(* Wrapping arithmetic                                                     *)

\* U256::wrapping_add and U256::wrapping_sub.
WrappingAdd(m, n) == IF m + n > MaxU256 THEN m + n - (MaxU256 + 1) ELSE m + n
WrappingSub(m, n) == IF m < n THEN m + (MaxU256 + 1) - n ELSE m - n

\* AccountInfo::increase_balance and decrease_balance of one account.
IncreaseBalance(accounts, a, t, n) ==
    [accounts EXCEPT ![a].balances[t] = WrappingAdd(@, n)]
DecreaseBalance(accounts, a, t, n) ==
    [accounts EXCEPT ![a].balances[t] = WrappingSub(@, n)]

-----------------------------------------------------------------------------
(* Journal entries                                                         *)

AccountLoaded(a)  == [type |-> "AccountLoaded", address |-> a]
AccountTouched(a) == [type |-> "AccountTouched", address |-> a]
NonceChange(a)    == [type |-> "NonceChange", address |-> a]
AccountCreated(a) == [type |-> "AccountCreated", address |-> a]
CodeChange(a)     == [type |-> "CodeChange", address |-> a]

AccountDestroyed(a, target, was, had) ==
    [type |-> "AccountDestroyed", address |-> a, target |-> target,
     was_destroyed |-> was, had_balance |-> had]

BalanceTransfer(from, to, t, n) ==
    [type |-> "BalanceTransfer", from |-> from, to |-> to, token_id |-> t,
     amount |-> n]

\* The slot had to be loaded from the database: undoing removes it.
StorageLoaded(a, k) == [type |-> "StorageLoaded", address |-> a, key |-> k]

StorageChange(a, k, had) ==
    [type |-> "StorageChange", address |-> a, key |-> k, had_value |-> had]

TransientStorageChange(a, k, had) ==
    [type |-> "TransientStorageChange", address |-> a, key |-> k,
     had_value |-> had]

TokensBurned(holder, t, n) ==
    [type |-> "TokensBurned", token_holder |-> holder, token_id |-> t,
     amount |-> n]

TokensMinted(recipient, t, n) ==
    [type |-> "TokensMinted", recipient |-> recipient, token_id |-> t,
     amount |-> n]

TokenIdsLoaded == [type |-> "TokenIdsLoaded"]

JournalEntry ==
    [type : {"AccountLoaded", "AccountTouched", "NonceChange",
             "AccountCreated", "CodeChange"}, address : Address]
    \cup [type : {"AccountDestroyed"}, address : Address, target : Address,
          was_destroyed : BOOLEAN, had_balance : Balance]
    \cup [type : {"BalanceTransfer"}, from : Address, to : Address,
          token_id : TokenId, amount : Balance]
    \cup [type : {"StorageLoaded"}, address : Address, key : Slot]
    \cup [type : {"StorageChange", "TransientStorageChange"},
          address : Address, key : Slot, had_value : Word]
    \cup [type : {"TokensBurned"}, token_holder : Address,
          token_id : TokenId, amount : Balance]
    \cup [type : {"TokensMinted"}, recipient : Address,
          token_id : TokenId, amount : Balance]
    \cup {TokenIdsLoaded}

\* The accounts an entry's undoing looks up; each look-up is an unwrap().
Mentions(e) ==
    CASE e.type \in {"TokenIdsLoaded", "TransientStorageChange"} -> {}
      [] e.type = "AccountDestroyed" -> {e.address, e.target}
      [] e.type = "BalanceTransfer" -> {e.from, e.to}
      [] e.type = "TokensBurned" -> {e.token_holder}
      [] e.type = "TokensMinted" -> {e.recipient}
      [] OTHER -> {e.address}

-----------------------------------------------------------------------------
(* Taking changes back                                                     *)

\* Mutant: undoing a transfer forgets to take the tokens from the receiver.
UndoAccountsOneSided(accounts, e) ==
    CASE e.type = "AccountLoaded" -> [accounts EXCEPT ![e.address] = Absent]
      [] e.type = "BalanceTransfer" ->
            IncreaseBalance(accounts, e.from, e.token_id, e.amount)
      [] e.type = "TokensBurned" ->
            IncreaseBalance(accounts, e.token_holder, e.token_id, e.amount)
      [] e.type = "TokensMinted" ->
            DecreaseBalance(accounts, e.recipient, e.token_id, e.amount)
      [] OTHER -> accounts

\* journal_revert, one entry: its effect on the accounts ...
UndoAccounts(accounts, e) ==
    CASE e.type = "AccountLoaded" -> [accounts EXCEPT ![e.address] = Absent]
      [] e.type = "AccountDestroyed" ->
            LET restored ==
                    IncreaseBalance(
                        [accounts EXCEPT ![e.address].destroyed = e.was_destroyed],
                        e.address, BaseToken, e.had_balance)
            IN  IF e.address = e.target THEN restored
                ELSE DecreaseBalance(restored, e.target, BaseToken, e.had_balance)
      [] e.type = "BalanceTransfer" ->
            DecreaseBalance(
                IncreaseBalance(accounts, e.from, e.token_id, e.amount),
                e.to, e.token_id, e.amount)
      [] e.type = "NonceChange" -> [accounts EXCEPT ![e.address].nonce = @ - 1]
      [] e.type = "AccountCreated" ->
            [accounts EXCEPT ![e.address].created = FALSE, ![e.address].nonce = 0]
      [] e.type = "StorageLoaded" ->
            [accounts EXCEPT ![e.address].storage[e.key] = Absent]
      [] e.type = "StorageChange" ->
            [accounts EXCEPT ![e.address].storage[e.key].present = e.had_value]
      [] e.type = "CodeChange" -> [accounts EXCEPT ![e.address].code = NoCode]
      [] e.type = "TokensBurned" ->
            IncreaseBalance(accounts, e.token_holder, e.token_id, e.amount)
      [] e.type = "TokensMinted" ->
            DecreaseBalance(accounts, e.recipient, e.token_id, e.amount)
      [] OTHER -> accounts

\* ... and on transient storage.
UndoTransient(transient, e) ==
    IF e.type = "TransientStorageChange"
    THEN [transient EXCEPT ![<<e.address, e.key>>] = e.had_value]
    ELSE transient

UndoEntry(c, e) ==
    [accounts |-> UndoAccounts(c.accounts, e),
     transient_storage |-> UndoTransient(c.transient_storage, e)]

\* The loop of journal_revert over one vector, and the loop of
\* checkpoint_revert over the vectors, both newest first.
Entries == INSTANCE Unwinding WITH Undo <- UndoEntry
UndoVector(c, v) == Entries!Unwind(c, v)
Vectors == INSTANCE Unwinding WITH Undo <- UndoVector

Core(j) == [accounts |-> j.accounts, transient_storage |-> j.transient_storage]

\* Accounts and transient storage with all vectors after the first i undone.
Unwound(j, i) ==
    Vectors!Unwind(Core(j), SubSeq(j.journal, i + 1, Len(j.journal)))

\* The entries of those vectors.
EntriesAfter(j, i) ==
    UNION {{j.journal[v][n] : n \in DOMAIN j.journal[v]} :
              v \in i + 1 .. Len(j.journal)}

\* The touched flags once the vectors after i are undone: the flag of
\* PRECOMPILE3 is left alone.
UnwoundTouched(j, i) ==
    {a \in j.touched :
        a = Precompile3 \/ AccountTouched(a) \notin EntriesAfter(j, i)}

\* Undoing a movement of tokens inserts the token id into the balances map
\* of the accounts it looks up.
KeysInserted(e, a) ==
    CASE e.type = "AccountDestroyed" /\ a \in {e.address, e.target} -> {BaseToken}
      [] e.type \in {"BalanceTransfer", "TokensBurned", "TokensMinted"}
            /\ a \in Mentions(e) -> {e.token_id}
      [] OTHER -> {}

\* journal_revert of every vector after i, then journal.truncate(i).
RevertTo(j, i) ==
    LET core == Unwound(j, i)
        undone == EntriesAfter(j, i)
    IN  [accounts |-> core.accounts,
         transient_storage |-> core.transient_storage,
         touched |-> {a \in UnwoundTouched(j, i) : core.accounts[a] # Absent},
         balance_keys |->
            [a \in Address |->
                IF core.accounts[a] = Absent THEN {}
                ELSE j.balance_keys[a] \cup UNION {KeysInserted(e, a) : e \in undone}],
         token_ids |-> IF TokenIdsLoaded \in undone THEN << >> ELSE j.token_ids,
         journal |-> SubSeq(j.journal, 1, i)]

-----------------------------------------------------------------------------
(* The steps operations are made of                                        *)

\* journal.last_mut().unwrap().push(entry)
Push(j, e) == [j EXCEPT !.journal[Len(j.journal)] = Append(@, e)]

Slot0 == [original |-> 0, present |-> 0]

\* JournaledState::new
NewJournaledState ==
    [accounts |-> [a \in Address |-> Absent],
     transient_storage |-> [p \in Address \X Slot |-> 0],
     touched |-> {}, balance_keys |-> [a \in Address |-> {}], token_ids |-> << >>,
     journal |-> << << >> >>]

AccountFrom(info) ==
    [balances |-> info.balances, nonce |-> info.nonce, code |-> info.code,
     created |-> FALSE, destroyed |-> FALSE, storage |-> [k \in Slot |-> Absent]]

Loaded(j, a) == j.accounts[a] # Absent

\* Insert the account the database has for a.
InsertAccount(j, a) ==
    [j EXCEPT !.accounts[a] = AccountFrom(db.basic[a]),
              !.balance_keys[a] = db.basic[a].keys]

\* Mutant: a warm account is journaled as loaded again.
LoadAccountAlways(j, a) ==
    IF Loaded(j, a) THEN Push(j, AccountLoaded(a))
    ELSE Push(InsertAccount(j, a), AccountLoaded(a))

\* load_account, load_account_exist and load_code.
LoadAccount(j, a) ==
    IF Loaded(j, a) THEN j ELSE Push(InsertAccount(j, a), AccountLoaded(a))

TouchAccount(j, a) ==
    IF a \in j.touched THEN j
    ELSE Push([j EXCEPT !.touched = @ \cup {a}], AccountTouched(a))

LoadNativeTokenIds(j) ==
    IF j.token_ids # << >> THEN j
    ELSE Push([j EXCEPT !.token_ids = db.token_ids], TokenIdsLoaded)

SetBalance(j, a, t, n) ==
    [j EXCEPT !.accounts[a].balances[t] = n, !.balance_keys[a] = @ \cup {t}]

\* Mutant: nothing checks the receiver's balance.
TransferOneUnchecked(r, from, to, transfer) ==
    LET t == transfer.id
        n == transfer.amount
        j1 == TouchAccount(r.js, from)
        has == j1.accounts[from].balances[t]
        j2 == TouchAccount(SetBalance(j1, from, t, has - n), to)
    IN  IF r.outcome # "ok" THEN r
        ELSE IF has < n THEN [js |-> j1, outcome |-> "failed"]
        ELSE [js |-> Push(SetBalance(j2, to, t, j2.accounts[to].balances[t] + n),
                          BalanceTransfer(from, to, t, n)),
              outcome |-> "ok"]

\* Mutant: the transfer is journaled with its two ends swapped.
TransferOneSwapped(r, from, to, transfer) ==
    LET t == transfer.id
        n == transfer.amount
        j1 == TouchAccount(r.js, from)
        has == j1.accounts[from].balances[t]
        j2 == TouchAccount(SetBalance(j1, from, t, has - n), to)
        got == j2.accounts[to].balances[t]
    IN  IF r.outcome # "ok" THEN r
        ELSE IF has < n THEN [js |-> j1, outcome |-> "failed"]
        ELSE IF got + n > MaxU256 THEN [js |-> j2, outcome |-> "overflow"]
        ELSE [js |-> Push(SetBalance(j2, to, t, got + n),
                          BalanceTransfer(to, from, t, n)),
              outcome |-> "ok"]

\* One turn of the loop of transfer.  The debit of the sender comes before
\* the check of the receiver, and only a transfer that passes both is
\* journaled.
TransferOne(r, from, to, transfer) ==
    LET t == transfer.id
        n == transfer.amount
        j1 == TouchAccount(r.js, from)
        has == j1.accounts[from].balances[t]
        j2 == TouchAccount(SetBalance(j1, from, t, has - n), to)
        got == j2.accounts[to].balances[t]
    IN  IF r.outcome # "ok" THEN r
        ELSE IF has < n THEN [js |-> j1, outcome |-> "failed"]
        ELSE IF got + n > MaxU256 THEN [js |-> j2, outcome |-> "overflow"]
        ELSE [js |-> Push(SetBalance(j2, to, t, got + n),
                          BalanceTransfer(from, to, t, n)),
              outcome |-> "ok"]

\* transfer: the loop stops at the first transfer that is refused, and what
\* the earlier ones did stays.
TransferTurn(c, r, i) == TransferOne(r, c.from, c.to, c.transfers[i])
TransferLoop == INSTANCE Iteration WITH Step <- TransferTurn

TransferAll(j, from, to, transfers) ==
    TransferLoop!Iterate(
        [from |-> from, to |-> to, transfers |-> transfers],
        [js |-> LoadAccount(LoadAccount(LoadNativeTokenIds(j), from), to),
         outcome |-> "ok"],
        Len(transfers))

\* sload: a slot that is not loaded comes from the database, or is zero if
\* the account was created in this transaction.
LoadSlot(j, a, k) ==
    IF j.accounts[a].storage[k] # Absent THEN j
    ELSE LET value == IF j.accounts[a].created THEN 0 ELSE db.storage[<<a, k>>]
         IN  Push([j EXCEPT !.accounts[a].storage[k] =
                        [original |-> value, present |-> value]],
                  StorageLoaded(a, k))

\* sstore
StoreSlot(j, a, k, new) ==
    LET j1 == LoadSlot(j, a, k)
        present == j1.accounts[a].storage[k].present
    IN  IF present = new THEN j1
        ELSE Push([j1 EXCEPT !.accounts[a].storage[k].present = new],
                  StorageChange(a, k, present))

\* checkpoint: the vector that will receive the frame's entries.
OpenVector(j) == [j EXCEPT !.journal = Append(@, << >>)]

\* create_account_checkpoint after the collision check: the flag, the nonce
\* and the slots of the new account, and its touch ...
MarkCreated(j, a) ==
    TouchAccount(
        Push([j EXCEPT
                 !.accounts[a].created = TRUE,
                 !.accounts[a].nonce = 1,
                 !.accounts[a].storage =
                     [k \in Slot |-> IF @[k] = Absent THEN Absent ELSE Slot0]],
             AccountCreated(a)), a)

\* ... and its endowment.
CreateAccount(j, caller, a, value) ==
    LET j2 == MarkCreated(j, a)
        j3 == SetBalance(j2, a, BaseToken,
                         j2.accounts[a].balances[BaseToken] + value)
        paid == WrappingSub(j3.accounts[caller].balances[BaseToken], value)
    IN  Push(SetBalance(j3, caller, BaseToken, paid),
             BalanceTransfer(caller, a, BaseToken, value))

\* Mutant: the code change is not journaled.
SetCodeUnjournaled(j, a, code) ==
    [TouchAccount(j, a) EXCEPT !.accounts[a].code = code]

\* set_code
SetCode(j, a, code) ==
    [Push(TouchAccount(j, a), CodeChange(a)) EXCEPT !.accounts[a].code = code]

\* selfdestruct
Destroy(j, a, target) ==
    LET j1 == LoadAccount(j, target)
        balance == j1.accounts[a].balances[BaseToken]
        j2 == IF a = target THEN j1
              ELSE LET j3 == TouchAccount(j1, target)
                   IN  SetBalance(j3, target, BaseToken,
                          WrappingAdd(j3.accounts[target].balances[BaseToken],
                                      balance))
        account == j2.accounts[a]
        emptied == SetBalance(j2, a, BaseToken, 0)
    IN  IF account.created \/ ~IsCancun
        THEN Push([emptied EXCEPT !.accounts[a].destroyed = TRUE],
                  AccountDestroyed(a, target, account.destroyed,
                                   account.balances[BaseToken]))
        ELSE IF a # target
        THEN Push(emptied, BalanceTransfer(a, target, BaseToken,
                                           account.balances[BaseToken]))
        ELSE j2

-----------------------------------------------------------------------------
(* Operations                                                              *)

\* Bounds of the model: an operation needs room in the journal, a checkpoint
\* needs room for a vector.
HasRoom ==
    Cardinality(UNION {{v} \X DOMAIN js.journal[v] : v \in DOMAIN js.journal}) < MaxEntries
HasRoomForVector == HasRoom /\ Len(js.journal) < MaxVectors

Running == outcome # "panic"

\* An operation that leaves the frames, the logs and the database alone.
Operation(j, result) ==
    /\ js' = j
    /\ outcome' = result
    /\ intact' = (intact /\ result # "overflow")
    /\ UNCHANGED <<logs, depth, frames, db>>

\* The account a frame executes: it has code, or its creation is under way.
Executing(a) ==
    /\ frames # << >>
    /\ Loaded(js, a)
    /\ \/ js.accounts[a].code # NoCode
       \/ \E k \in DOMAIN frames : frames[k].creates = a

Load(a) == Running /\ HasRoom /\ Operation(LoadAccount(js, a), "ok")

\* Before the first frame the access list is loaded without journaling.
InitialAccountLoad(a, slots) ==
    LET j == IF Loaded(js, a) THEN js ELSE InsertAccount(js, a)
        old == j.accounts[a].storage
    IN  /\ Running
        /\ frames = << >> /\ js.journal = << << >> >>
        /\ Operation(
              [j EXCEPT !.accounts[a].storage =
                 [k \in Slot |->
                    IF old[k] # Absent \/ k \notin slots THEN old[k]
                    ELSE [original |-> db.storage[<<a, k>>],
                          present |-> db.storage[<<a, k>>]]]],
              "ok")

Touch(a) ==
    /\ Running /\ HasRoom
    /\ Loaded(js, a)
    /\ Operation(TouchAccount(js, a), "ok")

\* inc_nonce refuses to go past u64::MAX.
IncNonce(a) ==
    /\ Running /\ HasRoom
    /\ Loaded(js, a)
    /\ IF js.accounts[a].nonce = MaxNonce
       THEN Operation(js, "failed")
       ELSE Operation([Push(TouchAccount(js, a), NonceChange(a))
                          EXCEPT !.accounts[a].nonce = @ + 1], "ok")

Transfer(from, to, transfers) ==
    LET r == TransferAll(js, from, to, transfers)
    IN  /\ Running /\ HasRoom
        /\ frames # << >>
        /\ Operation(r.js, r.outcome)

SLoad(a, k) ==
    /\ Running /\ HasRoom
    /\ Executing(a)
    /\ Operation(LoadSlot(js, a, k), "ok")

SStore(a, k, new) ==
    /\ Running /\ HasRoom
    /\ Executing(a)
    /\ Operation(StoreSlot(js, a, k, new), "ok")

\* tstore journals only a value that changes.
TStore(a, k, new) ==
    LET had == js.transient_storage[<<a, k>>]
    IN  /\ Running /\ HasRoom
        /\ Executing(a)
        /\ Operation(IF had = new THEN js
                     ELSE Push([js EXCEPT !.transient_storage[<<a, k>>] = new],
                               TransientStorageChange(a, k, had)), "ok")

\* log
PushLog(a) ==
    /\ Running
    /\ Executing(a)
    /\ Len(logs) < MaxLogs
    /\ logs' = Append(logs, a)
    /\ outcome' = "ok"
    /\ UNCHANGED <<js, depth, frames, intact, db>>

SelfDestruct(a, target) ==
    /\ Running /\ HasRoom
    /\ Executing(a)
    /\ Operation(Destroy(js, a, target), "ok")

\* mint, for a minter that is a contract.  The minter's account is loaded;
\* the recipient's is taken from the state with unwrap().
Mint(minter, recipient, sub_id, n) ==
    LET t == TokenIdAddress[<<minter, sub_id>>]
        j == LoadAccount(LoadNativeTokenIds(js), minter)
        balance == j.accounts[recipient].balances[t]
        minted == [SetBalance(j, recipient, t, balance + n) EXCEPT
                      !.token_ids = IF \E i \in DOMAIN @ : @[i] = t THEN @
                                    ELSE Append(@, t)]
    IN  /\ Running /\ HasRoom
        /\ Executing(minter) /\ js.accounts[minter].code # NoCode
        /\ IF ~Loaded(j, recipient) THEN Operation(j, "panic")
           ELSE IF balance + n > MaxU256 THEN Operation(j, "failed")
           ELSE Operation(Push(minted, TokensMinted(recipient, t, n)), "ok")

\* burn: whether the token exists is asked of the database.
Burn(burner, holder, sub_id, n) ==
    LET t == TokenIdAddress[<<burner, sub_id>>]
        j == LoadAccount(LoadNativeTokenIds(js), holder)
        balance == j.accounts[holder].balances[t]
    IN  /\ Running /\ HasRoom
        /\ Executing(burner) /\ js.accounts[burner].code # NoCode
        /\ IF n = 0 THEN Operation(js, "failed")
           ELSE IF ~\E i \in DOMAIN db.token_ids : db.token_ids[i] = t
                THEN Operation(j, "failed")
           ELSE IF balance < n THEN Operation(j, "failed")
           ELSE Operation(Push(SetBalance(j, holder, t, balance - n),
                               TokensBurned(holder, t, n)), "ok")

\* checkpoint
Frame(created) ==
    [journal_i |-> Len(js.journal), log_i |-> Len(logs), creates |-> created]

Checkpoint ==
    /\ Running /\ HasRoomForVector
    /\ js' = OpenVector(js)
    /\ frames' = Append(frames, Frame(NoAddress))
    /\ depth' = depth + 1
    /\ outcome' = "ok"
    /\ UNCHANGED <<logs, intact, db>>

\* create_account_checkpoint, for a caller that has been loaded and has the
\* endowment, and a loaded address.  A collision, or a balance that would
\* overflow, reverts the checkpoint at once.
Collides(a) ==
    \/ js.accounts[a].code # NoCode
    \/ js.accounts[a].nonce # 0
    \/ a \in WarmPreloaded

CreateAccountCheckpoint(caller, a, value) ==
    /\ Running /\ HasRoomForVector
    /\ Loaded(js, caller) /\ Loaded(js, a)
    /\ value <= js.accounts[caller].balances[BaseToken]
    /\ IF Collides(a)
       THEN Operation(RevertTo(OpenVector(js), Len(js.journal)), "refused")
       ELSE IF js.accounts[a].balances[BaseToken] + value > MaxU256
       THEN Operation(RevertTo(MarkCreated(OpenVector(js), a), Len(js.journal)), "refused")
       ELSE /\ js' = CreateAccount(OpenVector(js), caller, a, value)
            /\ frames' = Append(frames, Frame(a))
            /\ depth' = depth + 1
            /\ outcome' = "ok"
            /\ UNCHANGED <<logs, intact, db>>

Top == frames[Len(frames)]
PopFrame == frames' = SubSeq(frames, 1, Len(frames) - 1)

\* Mutant: a commit forgets to lower the depth.
CheckpointCommitKeepsDepth ==
    /\ Running
    /\ frames # << >> /\ Top.creates = NoAddress
    /\ PopFrame
    /\ outcome' = "committed"
    /\ UNCHANGED <<js, logs, depth, intact, db>>

\* call_return of a successful call: checkpoint_commit only lowers the depth,
\* the vectors of the frame stay in the journal.
CheckpointCommit ==
    /\ Running
    /\ frames # << >> /\ Top.creates = NoAddress
    /\ PopFrame
    /\ depth' = depth - 1
    /\ outcome' = "committed"
    /\ UNCHANGED <<js, logs, intact, db>>

\* create_return and eofcreate_return of a successful creation: commit, then
\* store the code.
CreateReturn(code) ==
    /\ Running
    /\ frames # << >> /\ Top.creates # NoAddress
    /\ js' = SetCode(js, Top.creates, code)
    /\ PopFrame
    /\ depth' = depth - 1
    /\ outcome' = "committed"
    /\ UNCHANGED <<logs, intact, db>>

\* checkpoint_revert, for a call or a creation that failed.
CheckpointRevert ==
    /\ Running
    /\ frames # << >>
    /\ js' = RevertTo(js, Top.journal_i)
    /\ logs' = SubSeq(logs, 1, Top.log_i)
    /\ PopFrame
    /\ depth' = depth - 1
    /\ outcome' = "reverted"
    /\ UNCHANGED <<intact, db>>

\* clear, at the end of a transaction or when it is abandoned half way
\* because the database failed (or, with a new Evm, after a panic); finalize
\* leaves the same state behind.
Clear ==
    /\ js' = NewJournaledState
    /\ logs' = << >>
    /\ depth' = 0
    /\ frames' = << >>
    /\ outcome' = "reset"
    /\ intact' = TRUE
    /\ UNCHANGED db

-----------------------------------------------------------------------------
Init ==
    /\ js = NewJournaledState
    /\ logs = << >>
    /\ depth = 0
    /\ frames = << >>
    /\ outcome = "reset"
    /\ intact = TRUE
    /\ db \in Databases

Next ==
    \/ \E a \in Address : Load(a) \/ Touch(a) \/ IncNonce(a) \/ PushLog(a)
    \/ \E a \in AccessList : \E slots \in SUBSET Slot : InitialAccountLoad(a, slots)
    \/ \E from, to \in Address, transfers \in Transfers : Transfer(from, to, transfers)
    \/ \E a \in Address, k \in Slot : SLoad(a, k)
    \/ \E a \in Address, k \in Slot, new \in Word : SStore(a, k, new) \/ TStore(a, k, new)
    \/ \E a, target \in Address : SelfDestruct(a, target)
    \/ \E a, b \in Address, s \in SubId, n \in Amounts : Mint(a, b, s, n) \/ Burn(a, b, s, n)
    \/ Checkpoint
    \/ \E caller, a \in Address, n \in Amounts : CreateAccountCheckpoint(caller, a, n)
    \/ CheckpointCommit
    \/ \E code \in Code \cup {NoCode} : CreateReturn(code)
    \/ CheckpointRevert
    \/ Clear

Spec == Init /\ [][Next]_vars

-----------------------------------------------------------------------------
(* Properties                                                              *)

World ==
    [accounts : Accounts, transient_storage : [Address \X Slot -> Word],
     touched : SUBSET Address, balance_keys : [Address -> SUBSET TokenId],
     token_ids : Seq(TokenId), journal : Seq(Seq(JournalEntry))]

Outcome == {"ok", "failed", "overflow", "panic", "refused", "committed",
            "reverted", "reset"}

\* The fields of JournaledState and of the checkpoints have their types.
TypeOK ==
    /\ js \in World
    /\ logs \in Seq(Address)
    /\ depth \in Nat
    /\ frames \in Seq([journal_i : Nat, log_i : Nat, creates : Address \cup {NoAddress}])
    /\ outcome \in Outcome
    /\ intact \in BOOLEAN
    /\ db \in Databases

\* The journal and the call stack agree: depth counts the open frames, the
\* vectors of a frame start after those of the frames that opened before it,
\* and the newest vector belongs to some open frame or to the transaction
\* itself, so that checkpoint_revert never truncates a caller's entries.
CheckpointsNested ==
    /\ depth = Len(frames)
    /\ Len(js.journal) > 0
    /\ \A k \in DOMAIN frames :
          /\ frames[k].journal_i \in 1 .. Len(js.journal) - 1
          /\ frames[k].log_i <= Len(logs)
    /\ \A k, l \in DOMAIN frames :
          k < l => /\ frames[k].journal_i < frames[l].journal_i
                   /\ frames[k].log_i <= frames[l].log_i

\* Reverting at any moment meets no missing account: each unwrap() of
\* journal_revert finds its account because the entry that loaded the
\* account is older than every other entry about it, and there is only one.
UnwrapsSucceed ==
    \A v \in DOMAIN js.journal : \A n \in DOMAIN js.journal[v] :
        LET e == js.journal[v][n]
        IN  /\ \A a \in Mentions(e) : Loaded(js, a)
            /\ \A w \in v .. Len(js.journal) : \A m \in DOMAIN js.journal[w] :
                  (w > v \/ m > n) =>
                     \A a \in Mentions(e) : js.journal[w][m] # AccountLoaded(a)

\* What each open checkpoint would bring back, and what is there now.  The
\* touch of PRECOMPILE3 is exempt by design.
Current ==
    [accounts |-> js.accounts, transient_storage |-> js.transient_storage,
     touched |-> js.touched \ {Precompile3}, logs |-> logs]

SavedAt(f) ==
    LET core == Unwound(js, f.journal_i)
    IN  [accounts |-> core.accounts,
         transient_storage |-> core.transient_storage,
         touched |-> {a \in UnwoundTouched(js, f.journal_i) :
                         core.accounts[a] # Absent} \ {Precompile3},
         logs |-> SubSeq(logs, 1, f.log_i)]

Saved == [k \in DOMAIN frames |-> SavedAt(frames[k])]

Snapshots == INSTANCE SnapshotStack WITH current <- Current, saved <- Saved

\* The journal implements snapshots: whatever operations run and however
\* frames nest, commit and revert, a revert brings back balances, nonces,
\* code, flags, warm slots, transient storage, touched accounts and logs
\* exactly as they were at the checkpoint.
ImplementsSnapshots == Snapshots!Spec
=============================================================================
