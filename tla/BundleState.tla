---------------------------- MODULE BundleState ----------------------------
(***************************************************************************)
(* The values from which block execution builds what is written to the     *)
(* database (crates/revm/src/db/states): the cached account, the account's *)
(* transition within a block, the bundle account that transitions of       *)
(* several blocks are folded into, and the reverts that undo each block.   *)
(* Everything here is a pure operator on these values; BlockState.tla      *)
(* holds the state machine that calls them.                                *)
(*                                                                         *)
(* An account's info is its balances, a partial function, since the code   *)
(* tells a missing entry from a zero one, and its code, None where the     *)
(* account has neither code nor nonce and KeccakEmpty where it has only a  *)
(* nonce.  A storage with original values maps a slot to [original,        *)
(* present].                                                               *)
(***************************************************************************)
EXTENDS Naturals, Sequences, FiniteSets, FiniteSetsExt, Functions

CONSTANTS Addresses, Slots, Base, None, KeccakEmpty, DestroyedSlot

Empty == [x \in {} |-> x]

----------------------------------------------------------------------------
\* AccountInfo

DefaultInfo == [balances |-> Empty, code |-> None]
GetBalance(info, t) == IF t \in DOMAIN info.balances THEN info.balances[t] ELSE 0
SetBalance(info, t, n) ==
    [info EXCEPT !.balances = [u \in DOMAIN @ \cup {t} |-> IF u = t THEN n ELSE @[u]]]
HasNoCodeAndNonce(info) == info.code = None
OnlyHasZeroBase(info) == DOMAIN info.balances = {Base} /\ info.balances[Base] = 0
IsEmptyInfo(info) ==
    HasNoCodeAndNonce(info) /\ (DOMAIN info.balances = {} \/ OnlyHasZeroBase(info))

----------------------------------------------------------------------------
\* AccountStatus: the eight states of an account relative to the database

Statuses == {"LoadedNotExisting", "Loaded", "LoadedEmptyEIP161", "InMemoryChange", "Changed",
             "Destroyed", "DestroyedChanged", "DestroyedAgain"}
WasDestroyed(s) == s \in {"Destroyed", "DestroyedChanged", "DestroyedAgain"}
IsStorageKnown(s) == WasDestroyed(s) \/ s \in {"LoadedNotExisting", "InMemoryChange"}

\* Mutant: an account created after a selfdestruct counts as created in memory.
OnCreatedForgets(s) == "InMemoryChange"

OnCreated(s) == IF WasDestroyed(s) THEN "DestroyedChanged" ELSE "InMemoryChange"

\* unreachable! in the code for Loaded and Changed; None stands for the panic.
OnTouchedEmptyPostEIP161(s) ==
    CASE s = "LoadedNotExisting" -> s
      [] s \in {"InMemoryChange", "Destroyed", "LoadedEmptyEIP161"} -> "Destroyed"
      [] s \in {"DestroyedAgain", "DestroyedChanged"} -> "DestroyedAgain"
      [] s \in {"Loaded", "Changed"} -> None

\* The status when it changes, "same" where the code returns None.
OnTouchedCreatedPreEIP161(s, hadNoInfo) ==
    CASE s = "LoadedEmptyEIP161" -> "same"
      [] s = "DestroyedChanged" -> IF hadNoInfo THEN "same" ELSE s
      [] s \in {"Destroyed", "DestroyedAgain"} -> "DestroyedChanged"
      [] s \in {"InMemoryChange", "LoadedNotExisting"} -> "InMemoryChange"
      [] s \in {"Loaded", "Changed"} -> None

\* Mutant: a contract that changes counts as held in memory.
OnChangedInMemory(s, hadNoNonceAndCode) ==
    CASE s \in {"LoadedNotExisting", "LoadedEmptyEIP161", "Loaded"} -> "InMemoryChange"
      [] s \in {"Destroyed", "DestroyedAgain"} -> "DestroyedChanged"
      [] OTHER -> s

OnChanged(s, hadNoNonceAndCode) ==
    CASE s \in {"LoadedNotExisting", "LoadedEmptyEIP161"} -> "InMemoryChange"
      [] s = "Loaded" -> IF hadNoNonceAndCode THEN "InMemoryChange" ELSE "Changed"
      [] s \in {"Destroyed", "DestroyedAgain"} -> "DestroyedChanged"
      [] OTHER -> s

OnSelfdestructed(s) ==
    CASE s = "LoadedNotExisting" -> s
      [] WasDestroyed(s) -> "DestroyedAgain"
      [] OTHER -> "Destroyed"

\* AccountStatus::transition, used when one bundle is put on top of another
Transitioned(this, other) ==
    CASE WasDestroyed(this) /\ ~WasDestroyed(other) -> "DestroyedChanged"
      [] ~WasDestroyed(other) /\ this = "InMemoryChange" -> this
      [] OTHER -> other

----------------------------------------------------------------------------
\* Storages

\* HashMap::extend: the entries of the second map win.
Extended(f, g) == [k \in DOMAIN f \cup DOMAIN g |-> IF k \in DOMAIN g THEN g[k] ELSE f[k]]
\* entry(k).or_insert(..): the entries of the first map win.
OrInsert(f, g) == Extended(g, f)
Present(storage) == [k \in DOMAIN storage |-> storage[k].present]
IsChanged(slot) == slot.original # slot.present
\* Extends a storage and keeps the original value of the slots it has.
ExtendStorage(this, update) ==
    OrInsert([k \in DOMAIN this |->
                 IF k \in DOMAIN update THEN [this[k] EXCEPT !.present = update[k].present]
                 ELSE this[k]], update)

----------------------------------------------------------------------------
\* CacheAccount: each operation returns the account and its transition, None
\* for no transition.  The cached account is its info or None, its plain
\* storage and its status.

LoadedAccount(info) ==
    [info |-> IF info # None /\ IsEmptyInfo(info) THEN DefaultInfo ELSE info, storage |-> Empty,
     status |-> IF info = None THEN "LoadedNotExisting"
                ELSE IF IsEmptyInfo(info) THEN "LoadedEmptyEIP161" ELSE "Loaded"]

FromBundleAccount(b) ==
    [info |-> b.info, storage |-> IF b.info = None THEN Empty ELSE Present(b.storage),
     status |-> b.status]

TransitionOf(old, new, storage, wasDestroyed) ==
    [info |-> new.info, status |-> new.status, previous_info |-> old.info,
     previous_status |-> old.status, storage |-> storage,
     storage_was_destroyed |-> wasDestroyed]

Unchanged(c) == [account |-> c, transition |-> None]
Moved(old, new, storage, wasDestroyed) ==
    [account |-> new, transition |-> TransitionOf(old, new, storage, wasDestroyed)]

TouchCreatePreEIP161(c, storage) ==
    LET s == OnTouchedCreatedPreEIP161(c.status, c.info # None /\ IsEmptyInfo(c.info))
    IN IF s = "same" THEN Unchanged(c)
       ELSE Moved(c, [info |-> DefaultInfo, storage |-> Present(storage), status |-> s],
                  storage, FALSE)

TouchEmptyEIP161(c) ==
    LET new == [info |-> None, storage |-> Empty, status |-> OnTouchedEmptyPostEIP161(c.status)]
    IN IF c.status \in {"LoadedNotExisting", "Destroyed", "DestroyedAgain"}
       THEN Unchanged(new) ELSE Moved(c, new, Empty, TRUE)

Selfdestruct(c) ==
    LET new == [info |-> None, storage |-> Empty, status |-> OnSelfdestructed(c.status)]
    IN IF c.status = "LoadedNotExisting" THEN Unchanged(new) ELSE Moved(c, new, Empty, TRUE)

NewlyCreated(c, info, storage) ==
    Moved(c, [info |-> info, storage |-> Present(storage), status |-> OnCreated(c.status)],
          storage, FALSE)

HadNoNonceAndCode(c) == c.info # None /\ HasNoCodeAndNonce(c.info)

Change(c, info, storage) ==
    Moved(c, [info |-> info, storage |-> Extended(c.storage, Present(storage)),
              status |-> OnChanged(c.status, HadNoNonceAndCode(c))], storage, FALSE)

\* account_info_change, of which increment_balance and drain_balance are uses
InfoOrDefault(c) == IF c.info = None THEN DefaultInfo ELSE c.info
AccountInfoChange(c, info) == Change(c, info, Empty)

\* CacheState::apply_account_state.  An output of the EVM says whether the
\* account is touched, selfdestructed and created, its info and its storage
\* with the values at the start of the transaction.
ChangedSlots(storage) == Restrict(storage, {k \in DOMAIN storage : IsChanged(storage[k])})

ApplyAccountState(c, out, hasStateClear) ==
    LET changed == ChangedSlots(out.storage)
    IN CASE ~out.touched -> Unchanged(c)
         [] out.touched /\ out.selfdestructed -> Selfdestruct(c)
         [] out.touched /\ ~out.selfdestructed /\ out.created ->
                NewlyCreated(c, out.info, changed)
         [] OTHER ->
                IF IsEmptyInfo(out.info)
                THEN IF hasStateClear THEN TouchEmptyEIP161(c)
                     ELSE TouchCreatePreEIP161(c, changed)
                ELSE Change(c, out.info, changed)

----------------------------------------------------------------------------
\* TransitionAccount::update: a later transition of the same block

\* Mutant: the selfdestruct is forgotten when the account is created again.
UpdatedTransitionForgets(t, other) ==
    [t EXCEPT !.info = other.info, !.status = other.status,
              !.storage = ExtendStorage(t.storage, other.storage)]

UpdatedTransition(t, other) ==
    LET destroyed == other.status \in {"Destroyed", "DestroyedAgain"}
        back(k)   == k \in DOMAIN t.storage /\ k \in DOMAIN other.storage
                       /\ t.storage[k].original = other.storage[k].present
        merged    == ExtendStorage(t.storage, other.storage)
    IN [t EXCEPT !.info = other.info, !.status = other.status,
                 !.storage = IF destroyed THEN other.storage
                             ELSE Restrict(merged, {k \in DOMAIN merged : ~back(k)}),
                 !.storage_was_destroyed = @ \/ destroyed]

AddTransition(t, other) ==
    IF other = None THEN t ELSE IF t = None THEN other ELSE UpdatedTransition(t, other)

CodeHash(info) == CASE info = None -> None
                    [] info # None /\ HasNoCodeAndNonce(info) -> KeccakEmpty
                    [] OTHER -> info.code
HasNewContract(t) == t.info # None /\ CodeHash(t.info) # CodeHash(t.previous_info)

----------------------------------------------------------------------------
\* AccountRevert

DoNothing == [kind |-> "DoNothing", info |-> None]
DeleteIt == [kind |-> "DeleteIt", info |-> None]
RevertTo(info) == [kind |-> "RevertTo", info |-> IF info = None THEN DefaultInfo ELSE info]

Revert(account, storage, status, wipe) ==
    [account |-> account, storage |-> storage, previous_status |-> status, wipe_storage |-> wipe]
IsEmptyRevert(r) == r.account.kind = "DoNothing" /\ DOMAIN r.storage = {} /\ ~r.wipe_storage

\* size_hint of a revert and of an account of the bundle
SizeHint(x) == 1 + Cardinality(DOMAIN x.storage)

\* new_selfdestructed_again: the destroyed values, and Destroyed for slots set since
SelfdestructedAgain(previous, updated) ==
    OrInsert(Present(previous), [k \in DOMAIN updated |-> DestroyedSlot])
\* previous_storage_from_update
PreviousStorage(updated) ==
    LET changed == {k \in DOMAIN updated : IsChanged(updated[k])}
    IN [k \in changed |-> updated[k].original]

----------------------------------------------------------------------------
\* BundleAccount::update_and_create_revert, one operator for each status the
\* transition may have.  Each returns the account and the revert, None for
\* none, and panic where the code is unreachable!.

BundleAccountOf(info, original, storage, status) ==
    [info |-> info, original_info |-> original, storage |-> storage, status |-> status]
Panics(b) == [account |-> b, revert |-> None, panic |-> TRUE]
Updates(b, info, storage, status, revert) ==
    [account |-> BundleAccountOf(info, b.original_info, storage, status),
     revert |-> revert, panic |-> FALSE]

InfoRevert(b, t) == IF b.info # t.info THEN RevertTo(b.info) ELSE DoNothing
NotDestroyedYet == {"InMemoryChange", "Changed", "LoadedEmptyEIP161", "Loaded"}

ToChanged(b, t) ==
    LET revert == Revert(InfoRevert(b, t), PreviousStorage(t.storage), b.status, FALSE)
    IN CASE b.status \in {"Changed", "Loaded"} ->
                Updates(b, t.info, ExtendStorage(b.storage, t.storage), "Changed", revert)
         [] b.status = "LoadedEmptyEIP161" -> Updates(b, t.info, b.storage, "Changed", revert)
         [] OTHER -> Panics(b)

ToInMemoryChange(b, t) ==
    LET revert(account) == Revert(account, PreviousStorage(t.storage), b.status, FALSE)
    IN CASE b.status \in {"Loaded", "InMemoryChange"} ->
                Updates(b, t.info, ExtendStorage(b.storage, t.storage), "InMemoryChange",
                        revert(InfoRevert(b, t)))
         [] b.status = "LoadedEmptyEIP161" ->
                Updates(b, t.info, t.storage, "InMemoryChange", revert(InfoRevert(b, t)))
         [] b.status = "LoadedNotExisting" ->
                Updates(b, t.info, t.storage, "InMemoryChange", revert(DeleteIt))
         [] OTHER -> Panics(b)

ToDestroyed(b, t) ==
    CASE b.status \in NotDestroyedYet ->
             Updates(b, None, Empty, "Destroyed",
                     Revert(InfoRevert(b, t), Present(b.storage), b.status, TRUE))
      [] b.status = "LoadedNotExisting" -> Updates(b, b.info, Empty, b.status, None)
      [] OTHER -> Panics(b)

ToDestroyedChanged(b, t) ==
    LET grow(revert) == Updates(b, t.info, ExtendStorage(b.storage, t.storage),
                                "DestroyedChanged", revert)
    IN CASE b.status \in NotDestroyedYet ->
                Updates(b, t.info, t.storage, "DestroyedChanged",
                        Revert(InfoRevert(b, t), SelfdestructedAgain(b.storage, t.storage),
                               b.status, TRUE))
         [] b.status \in {"Destroyed", "LoadedNotExisting"} ->
                grow(Revert(DeleteIt, PreviousStorage(t.storage), b.status, FALSE))
         [] b.status = "DestroyedChanged" /\ t.storage_was_destroyed ->
                Updates(b, t.info, t.storage, "DestroyedChanged",
                        Revert(InfoRevert(b, t), SelfdestructedAgain(b.storage, t.storage),
                               b.status, FALSE))
         [] b.status = "DestroyedChanged" /\ ~t.storage_was_destroyed ->
                grow(Revert(InfoRevert(b, t), PreviousStorage(t.storage), b.status, FALSE))
         [] b.status = "DestroyedAgain" ->
                grow(Revert(DeleteIt, SelfdestructedAgain(Empty, t.storage), b.status, FALSE))

ToDestroyedAgain(b, t) ==
    LET gone(revert) == Updates(b, None, Empty, "DestroyedAgain", revert)
    IN CASE b.status \in NotDestroyedYet ->
                gone(Revert(InfoRevert(b, t), SelfdestructedAgain(b.storage, Empty),
                            b.status, TRUE))
         [] b.status \in {"Destroyed", "DestroyedAgain", "LoadedNotExisting"} -> gone(None)
         [] b.status = "DestroyedChanged" ->
                gone(Revert(RevertTo(b.info), SelfdestructedAgain(b.storage, Empty),
                            b.status, FALSE))

UpdateAndCreateRevert(b, t) ==
    LET u == CASE t.status = "Changed" -> ToChanged(b, t)
               [] t.status = "InMemoryChange" -> ToInMemoryChange(b, t)
               [] t.status = "Destroyed" -> ToDestroyed(b, t)
               [] t.status = "DestroyedChanged" -> ToDestroyedChanged(b, t)
               [] t.status = "DestroyedAgain" -> ToDestroyedAgain(b, t)
               [] OTHER -> [account |-> b, revert |-> None, panic |-> FALSE]
    IN [u EXCEPT !.revert = IF @ # None /\ IsEmptyRevert(@) THEN None ELSE @]

\* Mutant: a slot that was set after a selfdestruct stays.
RevertedKeepsSlots(b, r) ==
    LET back == [k \in {x \in DOMAIN r.storage : r.storage[x] # DestroyedSlot} |->
                    [original |-> r.storage[k], present |-> r.storage[k]]]
    IN IF r.account.kind = "DeleteIt" /\ b.original_info = None THEN None
       ELSE [b EXCEPT !.status = r.previous_status,
                      !.info = IF r.account.kind = "DoNothing" THEN @ ELSE r.account.info,
                      !.storage = ExtendStorage(@, back)]

\* BundleAccount::revert: the account before, None when it is to be removed
Reverted(b, r) ==
    CASE r.account.kind = "DeleteIt" ->
             IF b.original_info = None THEN None
             ELSE [b EXCEPT !.status = r.previous_status, !.info = None,
                            !.storage = [k \in DOMAIN @ |-> [@[k] EXCEPT !.present = 0]]]
      [] OTHER ->
             LET gone  == {k \in DOMAIN r.storage : r.storage[k] = DestroyedSlot}
                 back  == [k \in DOMAIN r.storage \ gone |->
                             [original |-> r.storage[k], present |-> r.storage[k]]]
                 whole == ExtendStorage(b.storage, back)
             IN [b EXCEPT !.status = r.previous_status,
                          !.info = IF r.account.kind = "RevertTo" THEN r.account.info ELSE @,
                          !.storage = Restrict(whole, DOMAIN whole \ gone)]

----------------------------------------------------------------------------
\* BundleState: the accounts, the contracts, the reverts of each block (a
\* partial function on addresses), and the two size counters, which the code
\* keeps up to date instead of computing them.

EmptyBundle == [state |-> Empty, contracts |-> {}, reverts |-> <<>>,
                state_size |-> 0, reverts_size |-> 0, panic |-> FALSE]

SumSizes(f) == MapThenSumSet(LAMBDA a : SizeHint(f[a]), DOMAIN f)
RevertsSize(reverts) == MapThenSumSet(LAMBDA i : SumSizes(reverts[i]), DOMAIN reverts)
WithoutNone(f) == Restrict(f, {a \in DOMAIN f : f[a] # None})

\* transition.present_bundle_account and original_bundle_account
PresentBundleAccount(t) == BundleAccountOf(t.info, t.previous_info, t.storage, t.status)
OriginalBundleAccount(t) ==
    BundleAccountOf(t.previous_info, t.previous_info, Empty, t.previous_status)

\* What a transition makes of an account of the bundle.  An account the bundle
\* does not have is added when there is something to revert.
AppliedTransition(state, a, t) ==
    IF a \in DOMAIN state THEN UpdateAndCreateRevert(state[a], t)
    ELSE LET u == UpdateAndCreateRevert(OriginalBundleAccount(t), t)
         IN [u EXCEPT !.account = IF u.revert = None THEN None ELSE PresentBundleAccount(t)]

ApplyTransitionsAndCreateReverts(bundle, transitions, includeReverts) ==
    LET update == [a \in DOMAIN transitions |-> AppliedTransition(bundle.state, a, transitions[a])]
        state == WithoutNone(Extended(bundle.state, [a \in DOMAIN update |-> update[a].account]))
        reverts == IF includeReverts
                   THEN WithoutNone([a \in DOMAIN update |-> update[a].revert]) ELSE Empty
    IN [state        |-> state,
        contracts    |-> bundle.contracts
                           \cup {CodeHash(transitions[a].info) :
                                    a \in {x \in DOMAIN transitions : HasNewContract(transitions[x])}},
        reverts      |-> Append(bundle.reverts, reverts),
        state_size   |-> bundle.state_size + SumSizes(Restrict(state, DOMAIN update \cap DOMAIN state))
                           - SumSizes(Restrict(bundle.state, DOMAIN update \cap DOMAIN bundle.state)),
        reverts_size |-> bundle.reverts_size + SumSizes(reverts),
        panic        |-> bundle.panic \/ \E a \in DOMAIN update : update[a].panic]

\* revert_latest: a missing account is first taken to be LoadedNotExisting.
RevertLatest(bundle) ==
    LET n       == Len(bundle.reverts)
        reverts == bundle.reverts[n]
        missing == BundleAccountOf(None, None, Empty, "LoadedNotExisting")
        before(a) == IF a \in DOMAIN bundle.state THEN bundle.state[a] ELSE missing
        after   == WithoutNone([a \in DOMAIN reverts |-> Reverted(before(a), reverts[a])])
        touched == Restrict(bundle.state, DOMAIN reverts \cap DOMAIN bundle.state)
    IN IF n = 0 THEN bundle
       ELSE [bundle EXCEPT
               !.state = Extended(Restrict(@, DOMAIN @ \ DOMAIN reverts), after),
               !.reverts = SubSeq(@, 1, n - 1),
               !.state_size = @ + SumSizes(after) - SumSizes(touched),
               !.reverts_size = @ - SumSizes(reverts)]

\* revert(n)
RevertTurn(c, bundle, i) == RevertLatest(bundle)
RevertLoop == INSTANCE Iteration WITH Step <- RevertTurn
RevertN(bundle, n) == RevertLoop!Iterate(None, bundle, n)

\* Mutant: accounts that are new to the bundle are not counted.
ExtendStateUncounted(bundle, other) == [bundle EXCEPT !.state = Extended(@, other)]

\* extend_state, from the accounts and the state size of a bundle
MergedAccount(this, o) ==
    [this EXCEPT !.storage = IF WasDestroyed(o.status) THEN o.storage
                             ELSE ExtendStorage(@, o.storage),
                 !.info = o.info,
                 !.status = Transitioned(@, o.status)]

ExtendState(bundle, other) ==
    LET both == DOMAIN bundle.state \cap DOMAIN other
        state == [a \in DOMAIN bundle.state \cup DOMAIN other |->
                    IF a \in both THEN MergedAccount(bundle.state[a], other[a])
                    ELSE IF a \in DOMAIN other THEN other[a] ELSE bundle.state[a]]
    IN [bundle EXCEPT
          !.state = state,
          !.state_size = @ + SumSizes(Restrict(state, DOMAIN other))
                           - SumSizes(Restrict(bundle.state, both))]

\* The accounts whose storage a block's reverts wipe
WipedBy(reverts) == {a \in DOMAIN reverts : reverts[a].wipe_storage}

\* extend: the first revert of the other bundle that wipes an account takes
\* this bundle's storage of it; later ones find it drained.
Extend(bundle, other) ==
    LET wiped(i) == WipedBy(other.reverts[i])
        first(i, a) == \A j \in 1..(i - 1) : a \notin wiped(j)
        moved(i, a) ==
            LET r == other.reverts[i][a]
            IN IF a \notin wiped(i) \/ a \notin DOMAIN bundle.state THEN r
               ELSE [r EXCEPT
                       !.storage = IF first(i, a) THEN OrInsert(@, Present(bundle.state[a].storage))
                                   ELSE @,
                       !.wipe_storage = ~WasDestroyed(bundle.state[a].status)]
        reverts == [i \in DOMAIN other.reverts |->
                      [a \in DOMAIN other.reverts[i] |-> moved(i, a)]]
        drained == [a \in DOMAIN bundle.state |->
                      IF \E i \in DOMAIN other.reverts : a \in wiped(i)
                      THEN [bundle.state[a] EXCEPT !.storage = Empty] ELSE bundle.state[a]]
    IN ExtendState([bundle EXCEPT !.state = drained,
                                  !.reverts_size = @ + RevertsSize(reverts),
                                  !.contracts = @ \cup other.contracts,
                                  !.reverts = @ \o reverts,
                                  !.panic = @ \/ other.panic], other.state)

\* prepend_state: the other bundle extended by this one's accounts; the result
\* has the reverts of the other bundle.
PrependState(bundle, other) ==
    [ExtendState(other, bundle.state) EXCEPT !.contracts = @ \cup bundle.contracts]

\* take_n_reverts: what stays in the bundle
TakeNReverts(bundle, n) ==
    LET rest == SubSeq(bundle.reverts, n + 1, Len(bundle.reverts))
    IN [bundle EXCEPT !.reverts = rest, !.reverts_size = RevertsSize(rest)]

\* Mutant: the storage of an account that was created again is not wiped.
PlainStateWipesGone(bundle, valuesKnown) ==
    [a \in DOMAIN bundle.state |->
        LET b == bundle.state[a]
            wipe == WasDestroyed(b.status) /\ b.info = None
        IN [writeInfo |-> TRUE, info |-> b.info, wipe |-> wipe, storage |-> Present(b.storage)]]

\* into_plain_state: what to write for each account
PlainAccount(b, valuesKnown) ==
    LET wipe == WasDestroyed(b.status)
        written(slot) == \/ ~valuesKnown
                         \/ wipe /\ slot.present # 0
                         \/ ~wipe /\ IsChanged(slot)
    IN [writeInfo |-> ~valuesKnown \/ b.info # b.original_info,
        info      |-> b.info,
        wipe      |-> wipe,
        storage   |-> Restrict(Present(b.storage),
                               {k \in DOMAIN b.storage : written(b.storage[k])})]
PlainState(bundle, valuesKnown) ==
    [a \in DOMAIN bundle.state |-> PlainAccount(bundle.state[a], valuesKnown)]

\* into_plain_state_reverts, for one block
PlainRevert(r) ==
    [writeInfo |-> r.account.kind # "DoNothing", info |-> r.account.info,
     wiped |-> r.wipe_storage, storage |-> r.storage]
PlainReverts(reverts) == [a \in DOMAIN reverts |-> PlainRevert(reverts[a])]
=============================================================================
