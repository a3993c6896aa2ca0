----------------------------- MODULE BlockState -----------------------------
(***************************************************************************)
(* State<DB> (crates/revm/src/db/states/state.rs): transactions are        *)
(* executed against a cache of the database, their outputs are committed   *)
(* to the cache and collected as the block's transitions, each block's     *)
(* transitions are merged into a bundle with the reverts that undo it, and *)
(* bundles are taken, put on top of one another, unwound and given to a    *)
(* new State as its prestate.                                              *)
(*                                                                         *)
(* world, merged and history are ghosts: what the accounts are by the      *)
(* reference semantics, what they were at the last merge, and before each  *)
(* block that still has reverts (None where the reverts were not kept).    *)
(***************************************************************************)
EXTENDS BundleState

CONSTANTS Codes,          \* contract codes, KeccakEmpty that of an account with only a nonce
          Values,         \* the storage values other than 0
          Databases,      \* the initial databases
          MaxBalance,     \* bound: largest balance
          MaxTxs,         \* bound: commits within a block
          MaxBlocks       \* bound: merges in a behaviour

ASSUME BoundsAssumption == /\ {MaxBalance, MaxTxs, MaxBlocks} \subseteq Nat
                           /\ 0 \notin Values /\ None \notin Codes /\ KeccakEmpty \in Codes
                           /\ DestroyedSlot \notin Values \cup {0}

VARIABLES db,             \* the database behind the State, not written here
          cache,          \* CacheState.accounts
          hasStateClear,  \* CacheState.has_state_clear
          transitions,    \* transition_state
          bundle,         \* bundle_state
          usePreloaded,   \* use_preloaded_bundle
          mixed,          \* whether the bundle is one of several, or a block was taken out of it
          outer,          \* the bundles taken so far, extended by one another
          txs, blocks,    \* counters for the bounds
          unreachable,    \* the status whose unreachable! a commit met, None as long as none
          world, merged, history

vars == <<db, cache, hasStateClear, transitions, bundle, usePreloaded, mixed, outer,
          txs, blocks, unreachable, world, merged, history>>

Infos == [balances : {Empty} \cup [{Base} -> 0..MaxBalance], code : {None} \cup Codes]
AllZero == [k \in Slots |-> 0]
NoAccount == [info |-> None, storage |-> AllZero]

\* The types of the accounts of a State.
PartialMaps(V) == UNION {[S -> V] : S \in SUBSET Slots}
Words == Values \cup {0}
Storages == [Slots -> Words]
StorageSlots == PartialMaps([original : Words, present : Words])
CacheAccounts == [info : {None} \cup Infos, storage : PartialMaps(Words), status : Statuses]
TransitionAccounts ==
    [info : {None} \cup Infos, status : Statuses, previous_info : {None} \cup Infos,
     previous_status : Statuses, storage : StorageSlots, storage_was_destroyed : BOOLEAN]
BundleAccounts == [info : {None} \cup Infos, original_info : {None} \cup Infos,
                   storage : StorageSlots, status : Statuses]
AccountReverts ==
    [account : [kind : {"DoNothing", "DeleteIt", "RevertTo"}, info : {None} \cup Infos],
     storage : PartialMaps(Words \cup {DestroyedSlot}), previous_status : Statuses,
     wipe_storage : BOOLEAN]

\* No value is taken for none.
ASSUME NoneAssumption == /\ None \notin Infos /\ None \notin Statuses
                         /\ None \notin TransitionAccounts /\ None \notin BundleAccounts
                         /\ None \notin AccountReverts

\* The accounts a database may hold: storage only where there is code or a nonce.
\* What an account without either has stored, no transaction reads.
DbAccounts == {w \in [info : {None} \cup Infos, storage : Storages] :
                  w.storage # AllZero => w.info # None /\ w.info.code # None}

ASSUME StoredAssumption == Databases \subseteq [Addresses -> DbAccounts]

\* Info up to entries that are zero: what an account holds
Holds(info) == IF info = None THEN << >> ELSE <<GetBalance(info, Base), info.code>>
SameAccount(v, w) == Holds(v.info) = Holds(w.info) /\ v.storage = w.storage
SameWorld(v, w) == \A a \in Addresses : SameAccount(v[a], w[a])

Init == /\ db \in Databases
        /\ hasStateClear \in BOOLEAN
        /\ cache = Empty /\ transitions = Empty
        /\ bundle = EmptyBundle /\ outer = EmptyBundle
        /\ usePreloaded = FALSE /\ mixed = FALSE
        /\ txs = 0 /\ blocks = 0 /\ unreachable = None
        /\ world = db /\ merged = db /\ history = <<>>

----------------------------------------------------------------------------
\* Database for State

\* The world a bundle shows its reader, who asks the database for what the
\* bundle does not know
SeenAccount(w, b) ==
    [info |-> b.info,
     storage |-> [k \in Slots |-> IF k \in DOMAIN b.storage THEN b.storage[k].present
                                  ELSE IF IsStorageKnown(b.status) THEN 0 ELSE w.storage[k]]]
Seen(base, bs) == [a \in Addresses |-> IF a \in DOMAIN bs.state THEN SeenAccount(base[a], bs.state[a])
                                       ELSE base[a]]

\* The database of the State: the stored one under the bundles taken so far
Database == Seen(db, outer)

\* load_cache_account
CacheAccountOf(a) ==
    IF a \in DOMAIN cache THEN cache[a]
    ELSE IF usePreloaded /\ a \in DOMAIN bundle.state THEN FromBundleAccount(bundle.state[a])
    ELSE LoadedAccount(Database[a].info)

\* Database::storage of a loaded account
StorageOf(a, k) ==
    LET c == CacheAccountOf(a)
    IN CASE c.info = None -> 0
         [] c.info # None /\ k \in DOMAIN c.storage -> c.storage[k]
         [] OTHER -> IF IsStorageKnown(c.status) THEN 0 ELSE Database[a].storage[k]

\* basic and storage put what they load into the cache.
Load(a, k) ==
    /\ ~(a \in DOMAIN cache /\ (cache[a].info = None \/ k \in DOMAIN cache[a].storage))
    /\ cache' = Extended(cache, [x \in {a} |->
                   LET c == CacheAccountOf(a)
                   IN IF c.info = None THEN c
                      ELSE [c EXCEPT !.storage = Extended(@, [s \in {k} |-> StorageOf(a, k)])]])
    /\ UNCHANGED <<unreachable, db, hasStateClear, transitions, bundle, usePreloaded, mixed, outer, txs, blocks,
                   world, merged, history>>

----------------------------------------------------------------------------
\* Commits

\* An account the EVM returns
EvmOutput(info, storage, original, flags) ==
    [touched |-> TRUE, created |-> "created" \in flags,
     selfdestructed |-> "selfdestructed" \in flags, info |-> info,
     storage |-> [k \in Slots |-> [original |-> original[k], present |-> storage[k]]]]

\* The infos of an account that was paid at most, and of one that also paid; with
\* one of the codes.
Paid(info) == {info} \cup {SetBalance(info, Base, n) : n \in (GetBalance(info, Base) + 1)..MaxBalance}
Spent(info) == {info} \cup {SetBalance(info, Base, n) : n \in 0..MaxBalance}
WithCode(infos, codes) == {[i EXCEPT !.code = c] : i \in infos, c \in codes}

\* A transfer to the account, of nothing if it is only touched
Transfer(info, w) == {EvmOutput(i, w.storage, w.storage, {}) : i \in Paid(info)}

\* The first transaction of a sender pays and raises the nonce.
FirstTransaction(info, w) ==
    {EvmOutput(i, w.storage, w.storage, {}) : i \in WithCode(Spent(info), {KeccakEmpty})}

\* A creation whose sender cannot pay the value fails OutOfFunds before the nonce
\* is raised, and the fees stay paid.  Only Optimism's L1 fee, which the balance
\* check leaves out, brings a sender there, and Optimism is past EIP-161.
UnpaidCreation(info, w) ==
    {EvmOutput(i, w.storage, w.storage, {}) : i \in IF hasStateClear THEN Spent(info) ELSE {}}

\* An account that is created has a nonce from EIP-161 on; before, it may be left
\* with neither code nor nonce, and what its constructor stored is out of reach.
Creation(info) ==
    {EvmOutput(i, s, AllZero, {"created"}) : i \in WithCode(Spent(info), Codes), s \in Storages}
      \cup {EvmOutput(i, AllZero, AllZero, {"created"}) : i \in IF hasStateClear THEN {} ELSE Spent(info)}
      \cup {EvmOutput(DefaultInfo, AllZero, AllZero, {"created", "selfdestructed"})}

\* An account with a nonce may spend, and a contract store and be selfdestructed.
Execution(info, w) ==
    IF info.code = KeccakEmpty THEN {EvmOutput(i, w.storage, w.storage, {}) : i \in Spent(info)}
    ELSE {EvmOutput(i, s, w.storage, {}) : i \in Spent(info), s \in Storages}
           \cup {EvmOutput(DefaultInfo, w.storage, w.storage, {"selfdestructed"})}

\* What the EVM may return for an account it loaded as info and storage w
EvmOutputs(info, w) ==
    LET loaded == IF info = None THEN DefaultInfo ELSE info
    IN IF HasNoCodeAndNonce(loaded)
       THEN Transfer(loaded, w) \cup FirstTransaction(loaded, w) \cup UnpaidCreation(loaded, w)
              \cup Creation(loaded)
       ELSE Execution(loaded, w)

\* The reference semantics of a touched account
AfterOutput(w, out) ==
    IF out.selfdestructed \/ (hasStateClear /\ IsEmptyInfo(out.info) /\ ~out.created) THEN NoAccount
    ELSE [info |-> out.info, storage |-> Present(out.storage)]

Transition(a, moved) ==
    /\ cache' = Extended(cache, [x \in {a} |-> moved.account])
    /\ transitions' = WithoutNone(Extended(transitions, [x \in {a} |->
                         AddTransition(IF a \in DOMAIN transitions THEN transitions[a] ELSE None,
                                       moved.transition)]))
    /\ blocks < MaxBlocks /\ txs < MaxTxs /\ txs' = txs + 1
    /\ UNCHANGED <<unreachable, db, hasStateClear, bundle, usePreloaded, mixed, outer, blocks, merged, history>>

\* The unreachable! of a status ends the process.
Panic(status) ==
    /\ blocks < MaxBlocks /\ txs < MaxTxs /\ unreachable' = status
    /\ UNCHANGED <<db, cache, hasStateClear, transitions, bundle, usePreloaded, mixed, outer, txs, blocks,
                   world, merged, history>>

\* commit, of a transaction that touched one account
Commit(a) ==
    \E out \in EvmOutputs(CacheAccountOf(a).info, world[a]) :
        LET moved == ApplyAccountState(CacheAccountOf(a), out, hasStateClear)
        IN \/ /\ moved.account.status # None
              /\ Transition(a, moved)
              /\ world' = [world EXCEPT ![a] = AfterOutput(@, out)]
           \/ moved.account.status = None /\ Panic(CacheAccountOf(a).status)

WorldInfo(a) == IF world[a].info = None THEN DefaultInfo ELSE world[a].info

\* increment_balances, which skips zero amounts
IncrementBalances(a, n) ==
    /\ n > 0 /\ GetBalance(WorldInfo(a), Base) + n <= MaxBalance
    /\ LET up(info) == SetBalance(info, Base, GetBalance(info, Base) + n)
       IN /\ Transition(a, AccountInfoChange(CacheAccountOf(a), up(InfoOrDefault(CacheAccountOf(a)))))
          /\ world' = [world EXCEPT ![a].info = up(WorldInfo(a))]

\* drain_balances
DrainBalances(a) ==
    LET drained(info) == SetBalance(info, Base, 0)
    IN /\ Transition(a, AccountInfoChange(CacheAccountOf(a), drained(InfoOrDefault(CacheAccountOf(a)))))
       /\ world' = [world EXCEPT ![a].info = drained(WorldInfo(a))]

\* set_state_clear_flag, at the fork that enables EIP-161
SetStateClearFlag ==
    /\ ~hasStateClear /\ hasStateClear' = TRUE
    /\ UNCHANGED <<unreachable, db, cache, transitions, bundle, usePreloaded, mixed, outer, txs, blocks,
                   world, merged, history>>

----------------------------------------------------------------------------
\* Blocks and bundles

MergeTransitions(includeReverts) ==
    /\ blocks < MaxBlocks /\ blocks' = blocks + 1 /\ txs' = 0
    /\ bundle' = ApplyTransitionsAndCreateReverts(bundle, transitions, includeReverts)
    /\ transitions' = Empty
    /\ merged' = world
    /\ history' = IF includeReverts THEN Append(history, merged)
                  ELSE [i \in 1..(Len(history) + 1) |-> None]
    /\ UNCHANGED <<unreachable, db, cache, hasStateClear, usePreloaded, mixed, outer, world>>

\* take_bundle at a block's end: the caller puts the bundle on those it has and
\* executes the next block with a new State on top of them.
TakeBundle ==
    /\ transitions = Empty /\ bundle # EmptyBundle
    /\ bundle' = EmptyBundle
    /\ outer' = Extend(outer, bundle)
    /\ cache' = Empty /\ usePreloaded' = FALSE /\ txs' = 0
    /\ UNCHANGED <<unreachable, db, hasStateClear, transitions, mixed, blocks, world, merged, history>>

\* The oldest reverts are detached.
TakeReverts(n) ==
    /\ n \in 1..Len(outer.reverts)
    /\ outer' = TakeNReverts(outer, n)
    /\ history' = SubSeq(history, n + 1, Len(history))
    /\ UNCHANGED <<unreachable, db, cache, hasStateClear, transitions, bundle, usePreloaded, mixed, txs, blocks,
                   world, merged>>

\* The last block is abandoned, or none, and a new State is built on what remains,
\* with_bundle_prestate.  A block is abandoned at most once, and not from bundles
\* that were put together: what revert(n > 1) and reverts moved by extend give back
\* is not exactly the world before.
Rebuild(n) ==
    LET then == IF n = 0 THEN world ELSE history[Len(history)]
    IN /\ transitions = Empty
       /\ n = 1 => /\ ~mixed /\ outer = EmptyBundle
                   /\ history # <<>> /\ history[Len(history)] # None
       /\ bundle' = RevertN(Extend(outer, bundle), n)
       /\ usePreloaded' = TRUE /\ mixed' = (mixed \/ n = 1 \/ outer # EmptyBundle)
       /\ outer' = EmptyBundle /\ cache' = Empty /\ txs' = 0
       /\ world' = then /\ merged' = then
       /\ history' = SubSeq(history, 1, Len(history) - n)
       /\ UNCHANGED <<unreachable, db, hasStateClear, transitions, blocks>>

Next ==
    /\ unreachable = None
    /\ \/ \E a \in Addresses : \/ \E k \in Slots : Load(a, k)
                               \/ Commit(a)
                               \/ \E n \in 1..MaxBalance : IncrementBalances(a, n)
                               \/ DrainBalances(a)
       \/ SetStateClearFlag
       \/ \E includeReverts \in BOOLEAN : MergeTransitions(includeReverts)
       \/ TakeBundle
       \/ \E n \in 0..MaxBlocks : TakeReverts(n)
       \/ \E n \in {0, 1} : Rebuild(n)

Spec == Init /\ [][Next]_vars

----------------------------------------------------------------------------
\* Properties

\* The database after a changeset of into_plain_state is written
WrittenAccount(w, p) ==
    [info |-> IF p.writeInfo THEN p.info ELSE w.info,
     storage |-> Extended(IF p.wipe THEN AllZero ELSE w.storage, p.storage)]
Written(base, plain) ==
    [a \in Addresses |-> IF a \in DOMAIN plain THEN WrittenAccount(base[a], plain[a]) ELSE base[a]]

\* Whatever a transaction reads through the State, from the cache, a preloaded
\* bundle or the database, is what the transactions before it left: a status that
\* claims to know a storage never hides the database's values, and none shows
\* values from before a selfdestruct.
ReadsAreCurrent ==
    \A a \in Addresses : /\ Holds(CacheAccountOf(a).info) = Holds(world[a].info)
                         /\ \A k \in Slots : StorageOf(a, k) = world[a].storage[k]

\* The changeset of the bundles together turns the database into the world of the
\* last merge, also where one bundle is written after the other or prepended; the
\* changeset that trusts original values does so as long as the bundle is the State's own.
ChangesetsComplete ==
    \A known \in {FALSE, ~mixed} :
        /\ SameWorld(Written(db, PlainState(Extend(outer, bundle), known)), merged)
        /\ SameWorld(Written(Written(db, PlainState(outer, known)), PlainState(bundle, known)), merged)
        /\ SameWorld(Written(db, PlainState(PrependState(bundle, outer), known)), merged)

\* What the world was before the last n blocks, None where it cannot be told
Before(n) == history[Len(history) + 1 - n]

\* What a database records for one block's reverts before the bundle is written,
\* and what it is after unwinding it: a wiped storage is moved into the revert.
UnwoundAccount(w, old, r) ==
    LET before(k) == IF k \in DOMAIN r.storage /\ r.storage[k] # DestroyedSlot THEN r.storage[k]
                     ELSE IF r.wiped THEN old.storage[k] ELSE 0
    IN [info |-> IF r.writeInfo THEN r.info ELSE w.info,
        storage |-> [k \in Slots |-> IF r.wiped \/ k \in DOMAIN r.storage THEN before(k)
                                     ELSE w.storage[k]]]
Unwound(now, base, plain) ==
    [a \in Addresses |-> IF a \in DOMAIN plain THEN UnwoundAccount(now[a], base[a], plain[a])
                         ELSE now[a]]

\* The database after a bundle was written and n of its blocks are unwound
UnwindTurn(c, now, i) ==
    Unwound(now, c.base, PlainReverts(c.reverts[Len(c.reverts) + 1 - i]))
UnwindLoop == INSTANCE Iteration WITH Step <- UnwindTurn
UnwoundBy(bs, base, n) ==
    UnwindLoop!Iterate([base |-> base, reverts |-> bs.reverts],
                       Written(base, PlainState(bs, FALSE)), n)

\* A database that stored the plain reverts of a State's own bundle gets back,
\* block by block, exactly the accounts and slots it had before each block,
\* selfdestructs and re-creations included.
PlainRevertsRestore ==
    \A n \in 1..Len(bundle.reverts) : ~mixed /\ Before(n) # None =>
        SameWorld(UnwoundBy(bundle, Database, n), Before(n))

\* revert_latest leaves a bundle that shows its reader what the world was before the
\* last block.
RevertLatestRestores ==
    ~mixed /\ bundle.reverts # <<>> /\ Before(1) # None =>
        SameWorld(Seen(Database, RevertLatest(bundle)), Before(1))

\* The tables call a touch of an emptied account "not possible" from the status
\* Loaded, and transitions that no block produces unreachable.
NeverUnreachable == unreachable = None /\ ~bundle.panic /\ ~outer.panic

\* Over any blocks, no merge, extension or revert of bundles meets an unreachable!
\* of update_and_create_revert; a commit meets one of the status tables only from
\* EIP-161 on, for an account with neither code nor nonce that nothing has changed
\* since it was loaded: never for one that was changed, destroyed or created again.
UnreachableOnlyFromLoaded ==
    /\ ~bundle.panic /\ ~outer.panic
    /\ unreachable # None =>
         /\ hasStateClear /\ unreachable = "Loaded"
         /\ \E a \in Addresses \ DOMAIN transitions :
               /\ world[a].info # None /\ HasNoCodeAndNonce(world[a].info)
               /\ SameAccount(world[a], Database[a])

\* The unsigned size counters of both bundles never fall below what counting would
\* give, so that taking an account or a revert out never underflows; the count of
\* reverts is exact.
SizesCover ==
    \A bs \in {bundle, outer} :
        /\ bs.state_size >= SumSizes(bs.state)
        /\ bs.reverts_size = RevertsSize(bs.reverts)
=============================================================================
