-------------------------- MODULE BlockStateProofs --------------------------
(***************************************************************************)
(* Proofs about BlockState, for every set of addresses, slots, codes and   *)
(* values and any number of transactions, blocks and bundles: what is read *)
(* is current, changesets are complete, reverts restore.                   *)
(***************************************************************************)
EXTENDS BlockState, SequenceTheorems, TLAPS

-----------------------------------------------------------------------------
(* Maps of slots                                                           *)

\* The members of PartialMaps.
LEMMA MapIs ==
    ASSUME NEW V, NEW s
    PROVE  s \in PartialMaps(V) <=> DOMAIN s \subseteq Slots /\ s \in [DOMAIN s -> V]
BY DEF PartialMaps

\* The empty map.
LEMMA EmptyIs ==
    ASSUME NEW V
    PROVE  Empty \in PartialMaps(V) /\ DOMAIN Empty = {}
BY MapIs DEF Empty

\* HashMap::extend.
LEMMA ExtendedIs ==
    ASSUME NEW V, NEW f \in PartialMaps(V), NEW g \in PartialMaps(V)
    PROVE  /\ Extended(f, g) \in PartialMaps(V)
           /\ DOMAIN Extended(f, g) = DOMAIN f \cup DOMAIN g
           /\ \A k \in DOMAIN f \cup DOMAIN g :
                  Extended(f, g)[k] = IF k \in DOMAIN g THEN g[k] ELSE f[k]
<1>1. /\ DOMAIN Extended(f, g) = DOMAIN f \cup DOMAIN g
      /\ \A k \in DOMAIN f \cup DOMAIN g :
             Extended(f, g)[k] = IF k \in DOMAIN g THEN g[k] ELSE f[k]
      /\ Extended(f, g) \in [DOMAIN f \cup DOMAIN g -> V]
    BY MapIs DEF Extended
<1> QED
    BY <1>1, MapIs

\* Its values, whatever the maps.
LEMMA ExtendedValues ==
    ASSUME NEW f, NEW g
    PROVE  /\ DOMAIN Extended(f, g) = DOMAIN f \cup DOMAIN g
           /\ \A k \in DOMAIN f \cup DOMAIN g :
                  Extended(f, g)[k] = IF k \in DOMAIN g THEN g[k] ELSE f[k]
BY DEF Extended

\* A slot of a storage with original values.
SlotPairs == [original : Words, present : Words]

\* The present values of a storage.
LEMMA PresentIs ==
    ASSUME NEW s \in StorageSlots
    PROVE  /\ Present(s) \in PartialMaps(Words)
           /\ DOMAIN Present(s) = DOMAIN s
           /\ \A k \in DOMAIN s : Present(s)[k] = s[k].present
<1>1. DOMAIN s \subseteq Slots /\ s \in [DOMAIN s -> SlotPairs]
    BY MapIs DEF StorageSlots, SlotPairs
<1>2. /\ DOMAIN Present(s) = DOMAIN s
      /\ \A k \in DOMAIN s : Present(s)[k] = s[k].present
      /\ Present(s) \in [DOMAIN s -> Words]
    BY <1>1 DEF Present, SlotPairs
<1> QED
    BY <1>1, <1>2, MapIs

\* The restriction of a storage.
LEMMA RestrictIs ==
    ASSUME NEW V, NEW s \in PartialMaps(V), NEW S \in SUBSET DOMAIN s
    PROVE  /\ Restrict(s, S) \in PartialMaps(V)
           /\ DOMAIN Restrict(s, S) = S
           /\ \A k \in S : Restrict(s, S)[k] = s[k]
<1>1. /\ DOMAIN Restrict(s, S) = S
      /\ \A k \in S : Restrict(s, S)[k] = s[k]
      /\ Restrict(s, S) \in [S -> V]
    BY MapIs DEF Restrict
<1> QED
    BY <1>1, MapIs

\* A storage extended by a later one keeps its original values.
LEMMA ExtendStorageIs ==
    ASSUME NEW s \in StorageSlots, NEW u \in StorageSlots
    PROVE  LET e == ExtendStorage(s, u)
           IN /\ e \in StorageSlots
              /\ DOMAIN e = DOMAIN s \cup DOMAIN u
              /\ \A k \in DOMAIN e :
                    /\ e[k].original = IF k \in DOMAIN s THEN s[k].original ELSE u[k].original
                    /\ e[k].present = IF k \in DOMAIN u THEN u[k].present ELSE s[k].present
<1> DEFINE e == ExtendStorage(s, u)
           n == [k \in DOMAIN s |->
                    IF k \in DOMAIN u THEN [s[k] EXCEPT !.present = u[k].present] ELSE s[k]]
<1>1. /\ DOMAIN s \subseteq Slots /\ s \in [DOMAIN s -> SlotPairs]
      /\ DOMAIN u \subseteq Slots /\ u \in [DOMAIN u -> SlotPairs]
    BY MapIs DEF StorageSlots, SlotPairs
<1>2. /\ DOMAIN n = DOMAIN s
      /\ \A k \in DOMAIN s :
            /\ n[k] \in SlotPairs
            /\ n[k].original = s[k].original
            /\ n[k].present = IF k \in DOMAIN u THEN u[k].present ELSE s[k].present
    BY <1>1 DEF SlotPairs
<1>3. n \in StorageSlots
  <2>1. n \in [DOMAIN s -> SlotPairs]
    BY <1>2
  <2> QED
    BY <1>1, <1>2, <2>1, MapIs DEF StorageSlots, SlotPairs
<1>4. e = Extended(u, n)
    BY DEF ExtendStorage, OrInsert
<1> HIDE DEF n, e
<1>5. /\ e \in StorageSlots
      /\ DOMAIN e = DOMAIN u \cup DOMAIN n
      /\ \A k \in DOMAIN u \cup DOMAIN n : e[k] = IF k \in DOMAIN n THEN n[k] ELSE u[k]
    BY <1>3, <1>4, ExtendedIs DEF StorageSlots
<1>6. /\ e \in StorageSlots
      /\ DOMAIN e = DOMAIN s \cup DOMAIN u
      /\ \A k \in DOMAIN e :
            /\ e[k].original = IF k \in DOMAIN s THEN s[k].original ELSE u[k].original
            /\ e[k].present = IF k \in DOMAIN u THEN u[k].present ELSE s[k].present
    BY <1>2, <1>5
<1> QED
    BY <1>6 DEF e

-----------------------------------------------------------------------------
(* Infos                                                                   *)

\* The info of an account that may not exist.
InfoOrNone == {None} \cup Infos

\* The fields of an info.
LEMMA InfoIs ==
    ASSUME NEW i \in Infos
    PROVE  /\ i # None
           /\ i = [balances |-> i.balances, code |-> i.code]
           /\ i.code \in {None} \cup Codes
           /\ GetBalance(i, Base) \in 0 .. MaxBalance
           /\ IsEmptyInfo(i) <=> i.code = None /\ GetBalance(i, Base) = 0
<1>1. i # None /\ i = [balances |-> i.balances, code |-> i.code] /\ i.code \in {None} \cup Codes
    BY NoneAssumption DEF Infos
<1>2. MaxBalance \in Nat
    BY BoundsAssumption
<1>3. CASE i.balances = Empty
    BY <1>1, <1>2, <1>3, EmptyIs DEF GetBalance, IsEmptyInfo, HasNoCodeAndNonce
<1>4. CASE i.balances \in [{Base} -> 0 .. MaxBalance]
    BY <1>1, <1>2, <1>4 DEF GetBalance, IsEmptyInfo, HasNoCodeAndNonce, OnlyHasZeroBase
<1> QED
    BY <1>3, <1>4 DEF Infos

\* Setting the balance.
LEMMA SetBalanceIs ==
    ASSUME NEW i \in Infos, NEW n \in 0 .. MaxBalance
    PROVE  /\ SetBalance(i, Base, n) \in Infos
           /\ SetBalance(i, Base, n).code = i.code
           /\ GetBalance(SetBalance(i, Base, n), Base) = n
<1>1. i.balances = Empty \/ i.balances \in [{Base} -> 0 .. MaxBalance]
    BY DEF Infos
<1> DEFINE f == [u \in DOMAIN i.balances \cup {Base} |-> IF u = Base THEN n ELSE i.balances[u]]
<1>2. f \in [{Base} -> 0 .. MaxBalance] /\ f[Base] = n
    BY <1>1, EmptyIs
<1>3. SetBalance(i, Base, n) = [i EXCEPT !.balances = f]
    BY DEF SetBalance
<1> HIDE DEF f
<1>4. SetBalance(i, Base, n) \in Infos /\ SetBalance(i, Base, n).code = i.code
      /\ SetBalance(i, Base, n).balances = f
    BY <1>2, <1>3 DEF Infos
<1> QED
    BY <1>2, <1>4 DEF GetBalance

\* The default is an info, and an empty one.
LEMMA DefaultIs ==
    /\ DefaultInfo \in Infos
    /\ DefaultInfo.code = None
    /\ GetBalance(DefaultInfo, Base) = 0
    /\ IsEmptyInfo(DefaultInfo)
<1>1. DefaultInfo \in Infos /\ DefaultInfo.code = None /\ DefaultInfo.balances = Empty
    BY DEF DefaultInfo, Infos
<1>2. GetBalance(DefaultInfo, Base) = 0
    BY <1>1, EmptyIs DEF GetBalance
<1> QED
    BY <1>1, <1>2, InfoIs

\* Infos that hold the same.
LEMMA HoldsIs ==
    ASSUME NEW i \in InfoOrNone, NEW j \in InfoOrNone
    PROVE  Holds(i) = Holds(j) <=>
              \/ i = None /\ j = None
              \/ /\ i # None /\ j # None
                 /\ GetBalance(i, Base) = GetBalance(j, Base) /\ i.code = j.code
BY DEF Holds

-----------------------------------------------------------------------------
(* What an account of the State says of the world.                         *)

\* The statuses of an account that does not exist, and an account that has no code,
\* hence no storage.
Gone == {"LoadedNotExisting", "Destroyed", "DestroyedAgain"}
Asleep(w) == w.info = None \/ w.info.code = None

\* The value of slot k by the account c over the database's account d.
Shown(c, d, k) == IF k \in DOMAIN c.storage THEN c.storage[k]
                  ELSE IF IsStorageKnown(c.status) THEN 0 ELSE d.storage[k]

\* A status that fits the info.
StatusOk(info, status) ==
    /\ info = None <=> status \in Gone
    /\ status = "Loaded" => ~IsEmptyInfo(info)
    /\ status = "LoadedEmptyEIP161" => IsEmptyInfo(info)
    /\ status = "Changed" => info.code # None

\* The account c of the cache, over the database's account d, shows w.
Current(c, w, d) ==
    /\ c \in CacheAccounts
    /\ StatusOk(c.info, c.status)
    /\ Holds(c.info) = Holds(w.info)
    /\ \A k \in Slots : w.storage[k] = Shown(c, d, k)
    /\ c.status \in {"Loaded", "LoadedEmptyEIP161", "LoadedNotExisting"} => SameAccount(w, d)
    /\ c.status = "InMemoryChange" => Asleep(d)

\* The account of a bundle, as one of the cache.
View(b) == [info |-> b.info, storage |-> Present(b.storage), status |-> b.status]

\* The bundle turns the world base into the world top.
BundleOver(bs, top, base) ==
    /\ DOMAIN bs.state \subseteq Addresses
    /\ bs.state \in [DOMAIN bs.state -> BundleAccounts]
    /\ \A a \in Addresses :
          IF a \in DOMAIN bs.state
          THEN /\ bs.state[a].status # "LoadedNotExisting"
               /\ Current(View(bs.state[a]), top[a], base[a])
          ELSE SameAccount(top[a], base[a])

-----------------------------------------------------------------------------
(* Transitions                                                             *)

\* The statuses of an account that was changed.
Active == {"InMemoryChange", "Changed", "Destroyed", "DestroyedChanged", "DestroyedAgain"}

\* The statuses p before and s after the transactions of a block.
Follows(p, s, destroyed) ==
    /\ s \in Active
    /\ s = "Changed" => p \in {"Loaded", "Changed"}
    /\ s = "InMemoryChange" => p \in {"LoadedNotExisting", "Loaded", "LoadedEmptyEIP161", "InMemoryChange"}
    /\ s = "Destroyed" => ~WasDestroyed(p)
    /\ WasDestroyed(s) /\ ~WasDestroyed(p) => destroyed
    /\ ~WasDestroyed(s) => ~destroyed
    /\ s \in {"Destroyed", "DestroyedAgain"} => destroyed

\* The transition t leads from the world's account m to its account w.
Leads(t, m, w) ==
    LET old(k) == IF t.storage_was_destroyed THEN 0 ELSE m.storage[k]
    IN /\ \A k \in Slots :
             IF k \in DOMAIN t.storage
             THEN t.storage[k].original = old(k) /\ t.storage[k].present = w.storage[k]
             ELSE w.storage[k] = old(k)
       /\ t.status \in {"Destroyed", "DestroyedAgain"} => DOMAIN t.storage = {}

\* The transition t of an account that is c in the cache, None for no transition, over
\* the last merge m.
Recorded(t, c, m, w) ==
    IF t = None THEN SameAccount(w, m)
    ELSE /\ t \in TransitionAccounts
         /\ t.info = c.info /\ t.status = c.status
         /\ Follows(t.previous_status, t.status, t.storage_was_destroyed)
         /\ Leads(t, m, w)

\* The account of the last merge, without its storage.
LastView(t, c) ==
    [info |-> IF t = None THEN c.info ELSE t.previous_info, storage |-> Empty,
     status |-> IF t = None THEN c.status ELSE t.previous_status]

\* The transition of an account in the block that is executed.
TransitionAt(a) == IF a \in DOMAIN transitions THEN transitions[a] ELSE None

\* The transition leads from the world of the last merge to that of now, and starts
\* where the bundle, or the database where the bundle has no account, left the account.
TransitionOk(a) ==
    LET c == CacheAccountOf(a)
        t == TransitionAt(a)
    IN /\ Recorded(t, c, merged[a], world[a])
       /\ IF a \in DOMAIN bundle.state THEN bundle.state[a].status = LastView(t, c).status
          ELSE Current(LastView(t, c), merged[a], Database[a])

-----------------------------------------------------------------------------
(* Reverts                                                                 *)

\* The original values of an account of the bundle are those of the database.
OriginalOk(b, d) ==
    /\ Holds(b.original_info) = Holds(d.info)
    /\ ~WasDestroyed(b.status) => \A k \in DOMAIN b.storage : b.storage[k].original = d.storage[k]

\* Reverting the block gives back a bundle over the world before it.
LatestOk ==
    bundle.reverts # << >> /\ Before(1) # None => BundleOver(RevertLatest(bundle), Before(1), Database)

\* A bundle of the State's own.
Own ==
    /\ \A a \in DOMAIN bundle.state : OriginalOk(bundle.state[a], Database[a])
    /\ \A a \in DOMAIN outer.state : OriginalOk(outer.state[a], db[a])
    /\ LatestOk
    /\ PlainRevertsRestore

\* Bundles: their reverts are a list of maps, and no panic was met.
IsList(s) == s \in Seq(Range(s))
IsBundle(bs) ==
    /\ DOMAIN bs = {"state", "contracts", "reverts", "state_size", "reverts_size", "panic"}
    /\ IsList(bs.reverts)
    /\ \A i \in DOMAIN bs.reverts : bs.reverts[i] = [a \in DOMAIN bs.reverts[i] |-> bs.reverts[i][a]]
    /\ ~bs.panic

\* The accounts of all addresses.
Worlds == [Addresses -> DbAccounts]

\* The types of the State's variables and how their domains are related.
Types ==
    /\ {db, world, merged, Database} \subseteq Worlds
    /\ history \in Seq({None} \cup Worlds)
    /\ hasStateClear \in BOOLEAN
    /\ DOMAIN transitions \subseteq DOMAIN cache /\ DOMAIN cache \subseteq Addresses
    /\ \A a \in DOMAIN transitions : transitions[a] # None
    /\ ~usePreloaded => DOMAIN bundle.state \subseteq DOMAIN cache
    /\ usePreloaded => outer = EmptyBundle
    /\ IsBundle(bundle) /\ IsBundle(outer)
    /\ Len(history) = Len(outer.reverts) + Len(bundle.reverts)

\* The accounts of a bundle that was not preloaded were all changed, and those that a
\* revert wipes are destroyed.
FreshOk ==
    ~usePreloaded =>
        /\ \A a \in DOMAIN bundle.state : bundle.state[a].status \in Active
        /\ \A i \in DOMAIN bundle.reverts : \A a \in WipedBy(bundle.reverts[i]) :
              a \in DOMAIN bundle.state /\ WasDestroyed(bundle.state[a].status)

\* The inductive invariant.
StateInv ==
    /\ Types
    /\ BundleOver(outer, Database, db)
    /\ BundleOver(bundle, merged, Database)
    /\ FreshOk
    /\ \A a \in Addresses : Current(CacheAccountOf(a), world[a], Database[a]) /\ TransitionOk(a)
    /\ ~mixed => Own

-----------------------------------------------------------------------------
(* Accounts of the world                                                   *)

\* The accounts of a database.
LEMMA DbIs ==
    ASSUME NEW w \in DbAccounts
    PROVE  /\ w.info \in InfoOrNone
           /\ w.storage \in Storages
           /\ \A k \in Slots : w.storage[k] \in Words
           /\ Asleep(w) => \A k \in Slots : w.storage[k] = 0
<1>1. /\ w.info \in InfoOrNone /\ w.storage \in Storages
      /\ w.storage # AllZero => w.info # None /\ w.info.code # None
    BY DEF DbAccounts, InfoOrNone
<1>2. \A k \in Slots : w.storage[k] \in Words
    BY <1>1 DEF Storages
<1>3. ASSUME Asleep(w), NEW k \in Slots PROVE w.storage[k] = 0
  <2>1. w.storage = AllZero
    BY <1>1, <1>3 DEF Asleep
  <2> QED
    BY <2>1 DEF AllZero
<1> QED
    BY <1>1, <1>2, <1>3

\* What makes an account of a database.
LEMMA DbMake ==
    ASSUME NEW w, w = [info |-> w.info, storage |-> w.storage],
           w.info \in InfoOrNone, w.storage \in Storages,
           Asleep(w) => \A k \in Slots : w.storage[k] = 0
    PROVE  w \in DbAccounts
<1>1. Asleep(w) => w.storage = AllZero
    BY DEF Storages, AllZero
<1>2. w \in [info : {None} \cup Infos, storage : Storages]
    BY DEF InfoOrNone
<1> QED
    BY <1>1, <1>2 DEF DbAccounts, Asleep

\* The storages of two accounts, slot by slot.
LEMMA SameIs ==
    ASSUME NEW v \in DbAccounts, NEW w \in DbAccounts
    PROVE  /\ SameAccount(v, w) <=> /\ Holds(v.info) = Holds(w.info)
                                    /\ \A k \in Slots : v.storage[k] = w.storage[k]
           /\ SameAccount(v, w) => (Asleep(v) <=> Asleep(w)) /\ (v.info = None <=> w.info = None)
<1>1. /\ v.storage \in [Slots -> Words] /\ w.storage \in [Slots -> Words]
      /\ v.info \in InfoOrNone /\ w.info \in InfoOrNone
    BY DbIs DEF Storages
<1>2. v.storage = w.storage <=> \A k \in Slots : v.storage[k] = w.storage[k]
    BY <1>1
<1> QED
    BY <1>1, <1>2, HoldsIs DEF SameAccount, Asleep

\* The account that does not exist.
LEMMA NoAccountIs ==
    /\ NoAccount \in DbAccounts /\ NoAccount.info = None /\ Asleep(NoAccount)
    /\ \A k \in Slots : NoAccount.storage[k] = 0
<1>1. /\ NoAccount.info = None /\ NoAccount.storage \in Storages
      /\ \A k \in Slots : NoAccount.storage[k] = 0
    BY DEF NoAccount, AllZero, Storages, Words
<1>2. NoAccount = [info |-> NoAccount.info, storage |-> NoAccount.storage]
    BY DEF NoAccount
<1> QED
    BY <1>1, <1>2, DbMake DEF InfoOrNone, Asleep

\* Accounts that do not exist are the same.
LEMMA NoneSame ==
    ASSUME NEW w \in DbAccounts, w.info = None
    PROVE  SameAccount(NoAccount, w)
<1>1. \A k \in Slots : w.storage[k] = 0
    BY DbIs DEF Asleep
<1>2. Holds(NoAccount.info) = Holds(w.info)
    BY NoAccountIs
<1> QED
    BY <1>1, <1>2, NoAccountIs, SameIs

\* Worlds that are the same to the reader of one account are so to the other.
LEMMA CurrentSame ==
    ASSUME NEW c, NEW v \in DbAccounts, NEW w \in DbAccounts, NEW d \in DbAccounts,
           Current(c, w, d), SameAccount(v, w)
    PROVE  Current(c, v, d)
BY DEF Current, SameAccount

\* The fields of an account of the cache.
LEMMA CacheIs ==
    ASSUME NEW c \in CacheAccounts
    PROVE  /\ c.info \in InfoOrNone /\ c.storage \in PartialMaps(Words) /\ c.status \in Statuses
           /\ c = [info |-> c.info, storage |-> c.storage, status |-> c.status]
           /\ DOMAIN c.storage \subseteq Slots /\ \A k \in DOMAIN c.storage : c.storage[k] \in Words
<1>1. c.storage \in PartialMaps(Words)
    BY DEF CacheAccounts
<1> QED
    BY <1>1, MapIs DEF CacheAccounts, InfoOrNone

\* What is in the cache is current, also where the account does not exist.
LEMMA CurrentReads ==
    ASSUME NEW c, NEW w \in DbAccounts, NEW d \in DbAccounts, Current(c, w, d)
    PROVE  /\ c.info = None <=> w.info = None
           /\ c.info # None => c.info.code = w.info.code
           /\ (c.info = None \/ c.info.code = None) => Asleep(w)
           /\ c.info = None => \A k \in Slots : w.storage[k] = 0
<1>1. c.info \in InfoOrNone /\ w.info \in InfoOrNone
    BY CacheIs, DbIs DEF Current
<1> QED
    BY <1>1, HoldsIs, DbIs DEF Current, Asleep

-----------------------------------------------------------------------------
(* What the EVM returns                                                    *)

\* The outputs for an account: touched or paying, created, created and destroyed,
\* changed, destroyed.
LEMMA OutputIs ==
    ASSUME NEW info \in InfoOrNone, NEW w \in DbAccounts, NEW out \in EvmOutputs(info, w)
    PROVE  \/ /\ info = None \/ info.code = None
              /\ \/ \E i \in Infos : /\ IsEmptyInfo(i) => info = None \/ IsEmptyInfo(info) \/ hasStateClear
                                     /\ out = EvmOutput(i, w.storage, w.storage, {})
                 \/ \E i \in Infos, s \in Storages : /\ i.code = None => s = AllZero
                                                     /\ out = EvmOutput(i, s, AllZero, {"created"})
                 \/ out = EvmOutput(DefaultInfo, AllZero, AllZero, {"created", "selfdestructed"})
           \/ /\ info # None /\ info.code # None
              /\ \/ \E i \in Infos, s \in Storages : /\ i.code = info.code
                                                     /\ out = EvmOutput(i, s, w.storage, {})
                 \/ out = EvmOutput(DefaultInfo, w.storage, w.storage, {"selfdestructed"})
<1> DEFINE loaded == IF info = None THEN DefaultInfo ELSE info
           coded == WithCode(Spent(loaded), Codes)
           first == WithCode(Spent(loaded), {KeccakEmpty})
<1>1. loaded \in Infos /\ (info = None \/ info.code = None <=> loaded.code = None)
      /\ (IsEmptyInfo(loaded) => info = None \/ IsEmptyInfo(info))
      /\ (info # None => loaded = info)
      /\ GetBalance(loaded, Base) \in 0 .. MaxBalance
    BY DefaultIs, InfoIs DEF InfoOrNone
<1>2. MaxBalance \in Nat /\ None \notin Codes /\ KeccakEmpty \in Codes
    BY BoundsAssumption
<1>z. AllZero \in Storages /\ w.storage \in Storages
    BY DbIs DEF AllZero, Storages, Words
<1>3. \/ /\ loaded.code = None
         /\ \/ out \in Transfer(loaded, w)
            \/ out \in FirstTransaction(loaded, w)
            \/ out \in UnpaidCreation(loaded, w)
            \/ out \in Creation(loaded)
      \/ loaded.code # None /\ out \in Execution(loaded, w)
    BY DEF EvmOutputs, HasNoCodeAndNonce
<1> HIDE DEF loaded
<1>4. ASSUME NEW i \in Paid(loaded)
      PROVE  i \in Infos /\ i.code = loaded.code /\ (IsEmptyInfo(i) => IsEmptyInfo(loaded))
  <2>1. CASE i = loaded
    BY <2>1, <1>1
  <2>2. CASE i # loaded
    <3>1. PICK n \in (GetBalance(loaded, Base) + 1)..MaxBalance : i = SetBalance(loaded, Base, n)
      BY <2>2 DEF Paid
    <3>2. n \in 0 .. MaxBalance /\ n > 0
      BY <1>1, <1>2
    <3>3. i \in Infos /\ i.code = loaded.code /\ GetBalance(i, Base) = n
      BY <1>1, <3>1, <3>2, SetBalanceIs
    <3> QED
      BY <3>2, <3>3, InfoIs
  <2> QED
    BY <2>1, <2>2
<1>5. ASSUME NEW i \in Spent(loaded)
      PROVE  i \in Infos /\ i.code = loaded.code
  <2>1. CASE i = loaded
    BY <2>1, <1>1
  <2>2. CASE i # loaded
    <3>1. PICK n \in 0..MaxBalance : i = SetBalance(loaded, Base, n)
      BY <2>2 DEF Spent
    <3> QED
      BY <1>1, <3>1, SetBalanceIs
  <2> QED
    BY <2>1, <2>2
<1>6. ASSUME NEW i \in coded \cup first
      PROVE  i \in Infos /\ i.code # None
  <2>1. PICK j \in Spent(loaded), c \in Codes : i = [j EXCEPT !.code = c]
    BY <1>2 DEF WithCode
  <2>2. j \in Infos
    BY <1>5
  <2> QED
    BY <2>1, <2>2, <1>2 DEF Infos
<1> HIDE DEF coded, first
<1>7. CASE loaded.code = None
  <2>1. CASE out \in Transfer(loaded, w)
    <3>1. PICK i \in Paid(loaded) : out = EvmOutput(i, w.storage, w.storage, {})
      BY <2>1 DEF Transfer
    <3> QED
      BY <3>1, <1>1, <1>4, <1>7
  <2>2. CASE out \in FirstTransaction(loaded, w)
    <3>1. PICK i \in first : out = EvmOutput(i, w.storage, w.storage, {})
      BY <2>2 DEF FirstTransaction, first
    <3>2. i \in Infos /\ ~IsEmptyInfo(i)
      BY <1>6, InfoIs
    <3> QED
      BY <3>1, <3>2, <1>1, <1>7
  <2>3. CASE out \in UnpaidCreation(loaded, w)
    <3>1. PICK i \in Spent(loaded) : hasStateClear /\ out = EvmOutput(i, w.storage, w.storage, {})
      BY <2>3 DEF UnpaidCreation
    <3>2. i \in Infos
      BY <1>5
    <3> QED
      BY <3>1, <3>2, <1>1, <1>7
  <2>4. CASE out \in Creation(loaded)
    <3>1. \/ \E i \in coded, s \in Storages : out = EvmOutput(i, s, AllZero, {"created"})
          \/ \E i \in Spent(loaded) : out = EvmOutput(i, AllZero, AllZero, {"created"})
          \/ out = EvmOutput(DefaultInfo, AllZero, AllZero, {"created", "selfdestructed"})
      BY <2>4 DEF Creation, coded
    <3>2. CASE \E i \in coded, s \in Storages : out = EvmOutput(i, s, AllZero, {"created"})
      BY <3>2, <1>1, <1>6, <1>7
    <3>3. CASE \E i \in Spent(loaded) : out = EvmOutput(i, AllZero, AllZero, {"created"})
      BY <3>3, <1>1, <1>5, <1>7, <1>z
    <3> QED
      BY <3>1, <3>2, <3>3, <1>1, <1>7
  <2> QED
    BY <2>1, <2>2, <2>3, <2>4, <1>3, <1>7
<1>8. CASE loaded.code # None
  <2>1. \/ \E i \in Spent(loaded), s \in Storages : out = EvmOutput(i, s, w.storage, {})
        \/ out = EvmOutput(DefaultInfo, w.storage, w.storage, {"selfdestructed"})
    BY <1>3, <1>8, <1>z DEF Execution
  <2> QED
    BY <2>1, <1>1, <1>5, <1>8
<1> QED
    BY <1>7, <1>8

\* The fields of an output.
LEMMA OutputFields ==
    ASSUME NEW i, NEW s, NEW orig, NEW flags
    PROVE  /\ EvmOutput(i, s, orig, flags).touched
           /\ EvmOutput(i, s, orig, flags).info = i
           /\ EvmOutput(i, s, orig, flags).created <=> "created" \in flags
           /\ EvmOutput(i, s, orig, flags).selfdestructed <=> "selfdestructed" \in flags
           /\ EvmOutput(i, s, orig, flags).storage =
                  [k \in Slots |-> [original |-> orig[k], present |-> s[k]]]
BY DEF EvmOutput

\* The storage of an output and its changed slots.
LEMMA OutputStorage ==
    ASSUME NEW s \in Storages, NEW orig \in Storages, NEW t,
           t = [k \in Slots |-> [original |-> orig[k], present |-> s[k]]]
    PROVE  /\ Present(t) = s
           /\ ChangedSlots(t) \in StorageSlots
           /\ \A k \in Slots : IF k \in DOMAIN ChangedSlots(t)
                               THEN ChangedSlots(t)[k].original = orig[k] /\ ChangedSlots(t)[k].present = s[k]
                               ELSE s[k] = orig[k]
<1> DEFINE u == ChangedSlots(t)
           S == {k \in Slots : orig[k] # s[k]}
<1>2. DOMAIN t = Slots /\ t \in [Slots -> SlotPairs]
    BY DEF Storages, SlotPairs
<1>3. t \in StorageSlots
    BY <1>2, MapIs DEF StorageSlots, SlotPairs
<1>4. Present(t) = s
  <2>1. Present(t) = [k \in Slots |-> s[k]]
    BY <1>2 DEF Present
  <2> QED
    BY <2>1 DEF Storages
<1>5. {k \in DOMAIN t : IsChanged(t[k])} = S
    BY <1>2 DEF IsChanged
<1>6. u = Restrict(t, S) /\ S \subseteq DOMAIN t
    BY <1>2, <1>5 DEF ChangedSlots
<1> HIDE DEF S, u
<1>7. u \in StorageSlots /\ DOMAIN u = S /\ \A k \in S : u[k] = t[k]
    BY <1>3, <1>6, RestrictIs DEF StorageSlots
<1>8. \A k \in Slots : IF k \in DOMAIN u THEN u[k].original = orig[k] /\ u[k].present = s[k]
                       ELSE s[k] = orig[k]
    BY <1>7 DEF S
<1> QED
    BY <1>4, <1>7, <1>8 DEF u

-----------------------------------------------------------------------------
(* What a transaction does to an account of the cache: nothing, its end,   *)
(* or a change, which the status tables take note of.                      *)

\* The status of an account that is changed.
NextStatus(c) ==
    IF WasDestroyed(c.status) THEN "DestroyedChanged"
    ELSE IF c.status = "Changed" \/ (c.status = "Loaded" /\ c.info.code # None) THEN "Changed"
    ELSE "InMemoryChange"

\* The slots that u changes of the world's account w, which becomes v.
Rewrites(u, w, v) ==
    \A k \in Slots :
        IF k \in DOMAIN u THEN u[k].original = w.storage[k] /\ u[k].present = v.storage[k]
        ELSE v.storage[k] = w.storage[k]

\* No transition.
Stays(c, w, moved, v) ==
    /\ moved.transition = None
    /\ \/ moved.account = c
       \/ c.info = None /\ moved.account = [info |-> None, storage |-> Empty, status |-> c.status]
    /\ SameAccount(v, w)

\* The account is deleted.
Dies(c, moved, v) ==
    /\ c.status # "LoadedNotExisting"
    /\ moved = Moved(c, [info |-> None, storage |-> Empty,
                         status |-> IF WasDestroyed(c.status) THEN "DestroyedAgain" ELSE "Destroyed"],
                     Empty, TRUE)
    /\ v = NoAccount

\* The account has a new info and some of its slots have new values.
Changes(c, w, moved, v) ==
    \E i \in Infos, u \in StorageSlots, s \in PartialMaps(Words) :
        /\ moved = Moved(c, [info |-> i, storage |-> s, status |-> NextStatus(c)], u, FALSE)
        /\ Holds(v.info) = Holds(i)
        /\ Rewrites(u, w, v)
        /\ \/ s = Extended(c.storage, Present(u))
           \/ s = Present(u) /\ (c.info = None \/ c.info.code = None)
        /\ NextStatus(c) = "Changed" => i.code # None

Moves(c, w, moved, v) == Stays(c, w, moved, v) \/ Dies(c, moved, v) \/ Changes(c, w, moved, v)

\* An account that was moved is current.
LEMMA MoveCurrent ==
    ASSUME NEW c, NEW w \in DbAccounts, NEW v \in DbAccounts, NEW d \in DbAccounts, NEW moved,
           Current(c, w, d), Moves(c, w, moved, v)
    PROVE  Current(moved.account, v, d)
<1> DEFINE n == moved.account
<1>c. /\ c \in CacheAccounts /\ StatusOk(c.info, c.status)
      /\ c.info \in InfoOrNone /\ c.storage \in PartialMaps(Words) /\ c.status \in Statuses
      /\ \A k \in DOMAIN c.storage : c.storage[k] \in Words
    BY CacheIs DEF Current
<1>1. CASE Stays(c, w, moved, v)
  <2>1. CASE moved.account = c
    BY <1>1, <2>1, CurrentSame DEF Stays
  <2>2. CASE c.info = None /\ moved.account = [info |-> None, storage |-> Empty, status |-> c.status]
    <3>1. n \in CacheAccounts /\ n.info = c.info /\ n.status = c.status /\ DOMAIN n.storage = {}
      BY <2>2, <1>c, EmptyIs DEF CacheAccounts
    <3>2. \A k \in Slots : w.storage[k] = 0
      BY <2>2, CurrentReads
    <3>3. IsStorageKnown(c.status)
      BY <2>2, <1>c DEF StatusOk, Gone, IsStorageKnown, WasDestroyed
    <3> HIDE DEF n
    <3>4. Current(n, w, d)
      BY <3>1, <3>2, <3>3 DEF Current, Shown
    <3> QED
      BY <3>4, <1>1, CurrentSame DEF Stays, n
  <2> QED
    BY <1>1, <2>1, <2>2 DEF Stays
<1>2. CASE Dies(c, moved, v)
  <2>1. n = [info |-> None, storage |-> Empty,
             status |-> IF WasDestroyed(c.status) THEN "DestroyedAgain" ELSE "Destroyed"]
    BY <1>2 DEF Dies, Moved
  <2>2. /\ n \in CacheAccounts /\ n.info = None /\ n.status \in {"Destroyed", "DestroyedAgain"}
        /\ DOMAIN n.storage = {}
    BY <2>1, EmptyIs DEF CacheAccounts, Statuses
  <2>3. Holds(n.info) = Holds(v.info) /\ \A k \in Slots : v.storage[k] = 0
    BY <1>2, <2>2, NoAccountIs DEF Dies
  <2> HIDE DEF n
  <2>4. Current(n, v, d)
    BY <2>2, <2>3 DEF Current, Shown, StatusOk, Gone, IsStorageKnown, WasDestroyed
  <2> QED
    BY <2>4 DEF n
<1>3. CASE Changes(c, w, moved, v)
  <2>1. PICK i \in Infos, u \in StorageSlots, s \in PartialMaps(Words) :
          /\ moved = Moved(c, [info |-> i, storage |-> s, status |-> NextStatus(c)], u, FALSE)
          /\ Holds(v.info) = Holds(i)
          /\ Rewrites(u, w, v)
          /\ \/ s = Extended(c.storage, Present(u))
             \/ s = Present(u) /\ (c.info = None \/ c.info.code = None)
          /\ NextStatus(c) = "Changed" => i.code # None
    BY <1>3 DEF Changes
  <2>2. n = [info |-> i, storage |-> s, status |-> NextStatus(c)]
    BY <2>1 DEF Moved
  <2>3. n \in CacheAccounts /\ n.info = i /\ n.storage = s /\ n.status = NextStatus(c)
    BY <2>2 DEF CacheAccounts, NextStatus, Statuses
  <2>4. i # None
    BY InfoIs
  <2>5. /\ DOMAIN Present(u) = DOMAIN u /\ Present(u) \in PartialMaps(Words)
        /\ \A k \in DOMAIN u : Present(u)[k] = u[k].present
    BY PresentIs
  <2>s. SameAccount(w, d) => (Asleep(w) <=> Asleep(d)) /\ \A k \in Slots : w.storage[k] = d.storage[k]
    BY SameIs
  <2>6. NextStatus(c) = "InMemoryChange" =>
            /\ Asleep(d)
            /\ c.status \notin {"LoadedNotExisting", "InMemoryChange"} => Asleep(w)
    <3>1. c.status = "LoadedEmptyEIP161" => c.info.code = None
      BY <1>c, InfoIs DEF StatusOk, Gone, InfoOrNone
    <3>2. c.status = "LoadedNotExisting" => c.info = None
      BY <1>c DEF StatusOk, Gone
    <3>3. (c.info = None \/ c.info.code = None) => Asleep(w)
      BY CurrentReads
    <3> QED
      BY <1>c, <3>1, <3>2, <3>3, <2>s DEF NextStatus, Statuses, WasDestroyed, Current
  <2>7. ASSUME NEW k \in Slots PROVE v.storage[k] = Shown(n, d, k)
    <3>1. CASE k \in DOMAIN u
      <4>1. k \in DOMAIN s /\ s[k] = u[k].present
        <5>1. CASE s = Present(u)
          BY <3>1, <5>1, <2>5
        <5>2. CASE s = Extended(c.storage, Present(u))
          <6>1. /\ DOMAIN s = DOMAIN c.storage \cup DOMAIN Present(u)
                /\ \A x \in DOMAIN c.storage \cup DOMAIN Present(u) :
                      s[x] = IF x \in DOMAIN Present(u) THEN Present(u)[x] ELSE c.storage[x]
            BY <5>2, ExtendedValues
          <6> QED
            BY <3>1, <6>1, <2>5
        <5> QED
          BY <5>1, <5>2, <2>1
      <4> QED
        BY <3>1, <4>1, <2>1, <2>3 DEF Rewrites, Shown
    <3>2. CASE k \notin DOMAIN u
      <4>1. v.storage[k] = w.storage[k]
        BY <3>2, <2>1 DEF Rewrites
      <4>2. w.storage[k] = Shown(c, d, k)
        BY DEF Current
      <4>3. CASE s = Present(u) /\ (c.info = None \/ c.info.code = None)
        <5>1. w.storage[k] = 0
          BY <4>3, CurrentReads, DbIs
        <5>2. NextStatus(c) # "Changed"
          BY <4>3, <1>c DEF NextStatus, StatusOk, Gone
        <5>3. IsStorageKnown(n.status)
          BY <5>2, <2>3 DEF NextStatus, IsStorageKnown, WasDestroyed
        <5> QED
          BY <3>2, <4>1, <4>3, <5>1, <5>3, <2>3, <2>5 DEF Shown
      <4>4. CASE s = Extended(c.storage, Present(u))
        <5>1. /\ DOMAIN s = DOMAIN c.storage \cup DOMAIN u
              /\ k \in DOMAIN c.storage => s[k] = c.storage[k]
          BY <3>2, <4>4, <2>5, ExtendedValues
        <5>2. CASE k \in DOMAIN c.storage
          BY <5>1, <5>2, <4>1, <4>2, <2>3 DEF Shown
        <5>3. CASE k \notin DOMAIN c.storage
          <6>1. w.storage[k] = IF IsStorageKnown(c.status) THEN 0 ELSE d.storage[k]
            BY <5>3, <4>2 DEF Shown
          <6>2. Asleep(w) => w.storage[k] = 0
            BY DbIs
          <6>3. CASE NextStatus(c) = "InMemoryChange"
            BY <6>1, <6>2, <6>3, <5>1, <5>3, <3>2, <4>1, <2>3, <2>6 DEF Shown, IsStorageKnown, WasDestroyed
          <6>4. CASE NextStatus(c) # "InMemoryChange"
            BY <6>1, <6>4, <5>1, <5>3, <3>2, <4>1, <2>3 DEF Shown, IsStorageKnown, WasDestroyed, NextStatus
          <6> QED
            BY <6>3, <6>4
        <5> QED
          BY <5>2, <5>3
      <4> QED
        BY <2>1, <4>3, <4>4
    <3> QED
      BY <3>1, <3>2
  <2> HIDE DEF n
  <2>8. StatusOk(n.info, n.status)
    BY <2>1, <2>3, <2>4 DEF StatusOk, Gone, NextStatus
  <2>9. n.status \notin {"Loaded", "LoadedEmptyEIP161", "LoadedNotExisting"}
    BY <2>3 DEF NextStatus
  <2> QED
    BY <2>1, <2>3, <2>6, <2>7, <2>8, <2>9 DEF Current, n
<1> QED
    BY <1>1, <1>2, <1>3 DEF Moves

\* The world of an output.
LEMMA AfterOutputIs ==
    ASSUME NEW w \in DbAccounts, NEW i \in Infos, NEW s \in Storages, NEW orig \in Storages, NEW flags,
           i.code = None => \A k \in Slots : s[k] = 0
    PROVE  LET v == AfterOutput(w, EvmOutput(i, s, orig, flags))
           IN /\ v \in DbAccounts
              /\ "selfdestructed" \in flags => v = NoAccount
              /\ "selfdestructed" \notin flags /\ ~(IsEmptyInfo(i) /\ "created" \notin flags) =>
                     v.info = i /\ v.storage = s
              /\ "selfdestructed" \notin flags /\ IsEmptyInfo(i) /\ "created" \notin flags =>
                     IF hasStateClear THEN v = NoAccount ELSE v.info = i /\ v.storage = s
<1> DEFINE out == EvmOutput(i, s, orig, flags)
           v == AfterOutput(w, out)
           e == [info |-> i, storage |-> s]
<1>1. /\ out.info = i /\ Present(out.storage) = s
      /\ out.created <=> "created" \in flags
      /\ out.selfdestructed <=> "selfdestructed" \in flags
  <2>1. /\ out.info = i
        /\ out.created <=> "created" \in flags
        /\ out.selfdestructed <=> "selfdestructed" \in flags
        /\ out.storage = [k \in Slots |-> [original |-> orig[k], present |-> s[k]]]
    BY OutputFields
  <2> HIDE DEF out
  <2>2. Present(out.storage) = s
    BY <2>1, OutputStorage
  <2> QED
    BY <2>1, <2>2
<1>2. e \in DbAccounts
  <2>1. e = [info |-> e.info, storage |-> e.storage] /\ e.info = i /\ e.storage = s /\ i # None
    BY InfoIs
  <2> QED
    BY <2>1, DbMake DEF Asleep, InfoOrNone
<1> HIDE DEF out
<1>4. CASE "selfdestructed" \in flags
    BY <1>1, <1>4, NoAccountIs DEF AfterOutput, out
<1>5. CASE "selfdestructed" \notin flags /\ ~(IsEmptyInfo(i) /\ "created" \notin flags)
  <2>1. v = e
    BY <1>1, <1>5 DEF AfterOutput
  <2> QED
    BY <1>2, <1>5, <2>1 DEF out
<1>6. CASE "selfdestructed" \notin flags /\ IsEmptyInfo(i) /\ "created" \notin flags
  <2>1. v = IF hasStateClear THEN NoAccount ELSE e
    BY <1>1, <1>6 DEF AfterOutput
  <2> QED
    BY <1>2, <1>6, <2>1, NoAccountIs DEF out
<1> QED
    BY <1>4, <1>5, <1>6 DEF out

\* on_changed and on_created.
LEMMA OnChangedIs ==
    ASSUME NEW c \in CacheAccounts, StatusOk(c.info, c.status)
    PROVE  /\ OnChanged(c.status, HadNoNonceAndCode(c)) = NextStatus(c)
           /\ c.info = None \/ c.info.code = None =>
                  OnCreated(c.status) = NextStatus(c) /\ NextStatus(c) # "Changed"
<1>1. c.status \in Statuses
    BY CacheIs
<1>2. c.status = "LoadedEmptyEIP161" => c.info.code = None
    BY CacheIs, InfoIs DEF StatusOk, InfoOrNone, Gone
<1> QED
    BY <1>1, <1>2 DEF OnChanged, OnCreated, NextStatus, HadNoNonceAndCode, HasNoCodeAndNonce, WasDestroyed,
          Statuses, StatusOk, Gone

\* CacheAccount::change.
LEMMA ChangeMoves ==
    ASSUME NEW c, NEW w \in DbAccounts, NEW d \in DbAccounts, Current(c, w, d),
           NEW v \in DbAccounts, NEW i \in Infos, NEW u \in StorageSlots,
           Holds(v.info) = Holds(i), Rewrites(u, w, v),
           c.info # None /\ c.info.code # None => i.code # None
    PROVE  Moves(c, w, Change(c, i, u), v)
<1>1. c \in CacheAccounts /\ StatusOk(c.info, c.status)
    BY DEF Current
<1> DEFINE s == Extended(c.storage, Present(u))
<1>2. s \in PartialMaps(Words)
    BY <1>1, CacheIs, PresentIs, ExtendedIs
<1>3. Change(c, i, u) = Moved(c, [info |-> i, storage |-> s, status |-> NextStatus(c)], u, FALSE)
    BY <1>1, OnChangedIs DEF Change
<1>4. NextStatus(c) = "Changed" => i.code # None
    BY <1>1 DEF NextStatus, StatusOk, Gone
<1> QED
    BY <1>2, <1>3, <1>4 DEF Moves, Changes

\* CacheAccount::newly_created, and touch_create_pre_eip161 where it changes.
LEMMA CreateMoves ==
    ASSUME NEW c, NEW w \in DbAccounts, NEW d \in DbAccounts, Current(c, w, d),
           NEW v \in DbAccounts, NEW i \in Infos, NEW u \in StorageSlots, NEW moved,
           Holds(v.info) = Holds(i), Rewrites(u, w, v),
           c.info = None \/ c.info.code = None,
           moved = Moved(c, [info |-> i, storage |-> Present(u), status |-> NextStatus(c)], u, FALSE)
    PROVE  Moves(c, w, moved, v)
<1>1. c \in CacheAccounts /\ StatusOk(c.info, c.status)
    BY DEF Current
<1>2. Present(u) \in PartialMaps(Words)
    BY PresentIs
<1>3. NextStatus(c) # "Changed"
    BY <1>1, OnChangedIs
<1> QED
    BY <1>2, <1>3 DEF Moves, Changes

\* CacheAccount::selfdestruct.
LEMMA SelfdestructMoves ==
    ASSUME NEW c, NEW w \in DbAccounts, NEW d \in DbAccounts, Current(c, w, d)
    PROVE  Moves(c, w, Selfdestruct(c), NoAccount)
<1>1. c \in CacheAccounts /\ StatusOk(c.info, c.status)
    BY DEF Current
<1>2. CASE c.status = "LoadedNotExisting"
  <2>1. c.info = None
    BY <1>1, <1>2 DEF StatusOk, Gone
  <2>2. SameAccount(NoAccount, w)
    BY <2>1, CurrentReads, NoneSame
  <2>3. Selfdestruct(c) = [account |-> [info |-> None, storage |-> Empty, status |-> c.status],
                           transition |-> None]
    <3>1. OnSelfdestructed(c.status) = c.status
      BY <1>2 DEF OnSelfdestructed, WasDestroyed
    <3> QED
      BY <1>2, <3>1 DEF Selfdestruct, Unchanged
  <2> QED
    BY <2>1, <2>2, <2>3 DEF Moves, Stays
<1>3. CASE c.status # "LoadedNotExisting"
    BY <1>3 DEF Selfdestruct, OnSelfdestructed, Moves, Dies
<1> QED
    BY <1>2, <1>3

\* CacheAccount::touch_empty_eip161.
LEMMA TouchEmptyMoves ==
    ASSUME NEW c, NEW w \in DbAccounts, NEW d \in DbAccounts, Current(c, w, d),
           c.status \notin {"Loaded", "Changed"}
    PROVE  Moves(c, w, TouchEmptyEIP161(c), NoAccount)
<1>1. c \in CacheAccounts /\ StatusOk(c.info, c.status) /\ c.status \in Statuses
      /\ c.info \in InfoOrNone
    BY CacheIs DEF Current
<1>2. c.status \notin {"Loaded", "Changed"}
    OBVIOUS
<1>3. CASE c.status \in {"LoadedNotExisting", "Destroyed", "DestroyedAgain"}
  <2>1. c.info = None
    BY <1>1, <1>3 DEF StatusOk, Gone
  <2>2. SameAccount(NoAccount, w)
    BY <2>1, CurrentReads, NoneSame
  <2>3. OnTouchedEmptyPostEIP161(c.status) = c.status
    BY <1>3 DEF OnTouchedEmptyPostEIP161
  <2>4. TouchEmptyEIP161(c) = [account |-> [info |-> None, storage |-> Empty, status |-> c.status],
                               transition |-> None]
    BY <1>3, <2>3 DEF TouchEmptyEIP161, Unchanged
  <2> QED
    BY <2>1, <2>2, <2>4 DEF Moves, Stays
<1>4. CASE c.status \notin {"LoadedNotExisting", "Destroyed", "DestroyedAgain"}
  <2>1. OnTouchedEmptyPostEIP161(c.status) =
            IF WasDestroyed(c.status) THEN "DestroyedAgain" ELSE "Destroyed"
    BY <1>1, <1>2, <1>4 DEF OnTouchedEmptyPostEIP161, WasDestroyed, Statuses
  <2>2. TouchEmptyEIP161(c) = Moved(c, [info |-> None, storage |-> Empty,
                                        status |-> OnTouchedEmptyPostEIP161(c.status)], Empty, TRUE)
    BY <1>4 DEF TouchEmptyEIP161
  <2> QED
    BY <1>4, <2>1, <2>2 DEF Moves, Dies
<1> QED
    BY <1>3, <1>4

\* CacheAccount::touch_create_pre_eip161.
LEMMA TouchCreateMoves ==
    ASSUME NEW c, NEW w \in DbAccounts, NEW d \in DbAccounts, Current(c, w, d),
           c.info = None \/ IsEmptyInfo(c.info),
           NEW i \in Infos, IsEmptyInfo(i), NEW u \in StorageSlots,
           NEW v \in DbAccounts, v.info = i, v.storage = w.storage, Rewrites(u, w, v)
    PROVE  Moves(c, w, TouchCreatePreEIP161(c, u), v)
<1>1. c \in CacheAccounts /\ StatusOk(c.info, c.status) /\ c.status \in Statuses
      /\ c.info \in InfoOrNone
    BY CacheIs DEF Current
<1>2. c.status \notin {"Loaded", "Changed"}
    BY <1>1, InfoIs DEF StatusOk, Gone, InfoOrNone
<1> DEFINE s == OnTouchedCreatedPreEIP161(c.status, c.info # None /\ IsEmptyInfo(c.info))
<1>3. CASE c.status \in {"LoadedEmptyEIP161", "DestroyedChanged"}
  <2>1. c.info # None
    BY <1>1, <1>3 DEF StatusOk, Gone
  <2>2. s = "same"
    BY <1>3, <2>1 DEF OnTouchedCreatedPreEIP161
  <2>3. TouchCreatePreEIP161(c, u) = [account |-> c, transition |-> None]
    BY <2>2 DEF TouchCreatePreEIP161, Unchanged
  <2>4. Holds(v.info) = Holds(w.info)
    <3>1. Holds(c.info) = Holds(w.info) /\ c.info \in Infos /\ IsEmptyInfo(c.info)
      BY <1>1, <2>1 DEF Current, InfoOrNone
    <3> QED
      BY <3>1, InfoIs, HoldsIs DEF InfoOrNone
  <2> QED
    BY <2>3, <2>4 DEF Moves, Stays, SameAccount
<1>4. CASE c.status \notin {"LoadedEmptyEIP161", "DestroyedChanged"}
  <2>1. s = NextStatus(c) /\ s # "same"
    BY <1>1, <1>2, <1>4 DEF OnTouchedCreatedPreEIP161, NextStatus, Statuses, WasDestroyed
  <2>2. TouchCreatePreEIP161(c, u) =
            Moved(c, [info |-> DefaultInfo, storage |-> Present(u), status |-> NextStatus(c)], u, FALSE)
    BY <2>1 DEF TouchCreatePreEIP161
  <2>3. v.info \in InfoOrNone /\ w.info \in InfoOrNone /\ DefaultInfo \in InfoOrNone /\ DefaultInfo # None
    BY DbIs, DefaultIs, InfoIs DEF InfoOrNone
  <2>4. v.info # None /\ v.info.code = None /\ GetBalance(v.info, Base) = 0
    BY InfoIs
  <2>5. Holds(v.info) = Holds(DefaultInfo)
    BY <2>3, <2>4, DefaultIs, HoldsIs
  <2>6. c.info = None \/ c.info.code = None
    BY <1>1, InfoIs DEF InfoOrNone
  <2> QED
    BY <2>2, <2>5, <2>6, DefaultIs, CreateMoves
<1> QED
    BY <1>3, <1>4

\* The commit of an account that was loaded and then emptied.
Stuck(c) == hasStateClear /\ c.status = "Loaded" /\ c.info.code = None

\* A commit moves the account as the world moves, or panics.
LEMMA CommitMoves ==
    ASSUME NEW c, NEW w \in DbAccounts, NEW d \in DbAccounts, Current(c, w, d),
           NEW out \in EvmOutputs(c.info, w), hasStateClear \in BOOLEAN
    PROVE  /\ AfterOutput(w, out) \in DbAccounts
           /\ \/ Moves(c, w, ApplyAccountState(c, out, hasStateClear), AfterOutput(w, out))
              \/ ApplyAccountState(c, out, hasStateClear).account.status = None /\ Stuck(c)
<1> DEFINE v == AfterOutput(w, out)
           moved == ApplyAccountState(c, out, hasStateClear)
           u == ChangedSlots(out.storage)
<1>c. c.info \in InfoOrNone
    BY CacheIs DEF Current
<1>z. AllZero \in Storages /\ w.storage \in Storages /\ \A k \in Slots : AllZero[k] = 0
    BY DbIs DEF AllZero, Storages, Words
<1>s. (c.info = None \/ c.info.code = None) => \A k \in Slots : w.storage[k] = 0
    BY CurrentReads, DbIs
<1>f. ASSUME NEW i, NEW s \in Storages, NEW orig \in Storages, NEW flags, out = EvmOutput(i, s, orig, flags)
      PROVE  /\ out.touched /\ out.info = i
             /\ out.created <=> "created" \in flags
             /\ out.selfdestructed <=> "selfdestructed" \in flags
             /\ u \in StorageSlots
             /\ \A k \in Slots : IF k \in DOMAIN u THEN u[k].original = orig[k] /\ u[k].present = s[k]
                                 ELSE s[k] = orig[k]
  <2>1. /\ out.touched /\ out.info = i
        /\ out.created <=> "created" \in flags
        /\ out.selfdestructed <=> "selfdestructed" \in flags
        /\ out.storage = [k \in Slots |-> [original |-> orig[k], present |-> s[k]]]
    BY <1>f, OutputFields
  <2> QED
    BY <2>1, OutputStorage
<1> HIDE DEF u
<1>m. /\ out.touched /\ out.selfdestructed => moved = Selfdestruct(c)
      /\ out.touched /\ ~out.selfdestructed /\ out.created => moved = NewlyCreated(c, out.info, u)
      /\ out.touched /\ ~out.selfdestructed /\ ~out.created =>
            moved = IF IsEmptyInfo(out.info)
                    THEN IF hasStateClear THEN TouchEmptyEIP161(c) ELSE TouchCreatePreEIP161(c, u)
                    ELSE Change(c, out.info, u)
    BY DEF ApplyAccountState, u
<1>1. CASE /\ c.info = None \/ c.info.code = None
           /\ \E i \in Infos : /\ IsEmptyInfo(i) => c.info = None \/ IsEmptyInfo(c.info) \/ hasStateClear
                               /\ out = EvmOutput(i, w.storage, w.storage, {})
  <2>1. PICK i \in Infos : /\ IsEmptyInfo(i) => c.info = None \/ IsEmptyInfo(c.info) \/ hasStateClear
                           /\ out = EvmOutput(i, w.storage, w.storage, {})
    BY <1>1
  <2>2. /\ out.touched /\ out.info = i /\ ~out.created /\ ~out.selfdestructed /\ u \in StorageSlots
        /\ \A k \in Slots : k \in DOMAIN u => u[k].original = w.storage[k] /\ u[k].present = w.storage[k]
    <3> DEFINE none == {}
    <3>1. "created" \notin none /\ "selfdestructed" \notin none /\ out = EvmOutput(i, w.storage, w.storage, none)
      BY <2>1
    <3> HIDE DEF none
    <3> QED
      BY <3>1, <1>f, <1>z
  <2>3. /\ v \in DbAccounts
        /\ ~IsEmptyInfo(i) => v.info = i /\ v.storage = w.storage
        /\ IsEmptyInfo(i) => IF hasStateClear THEN v = NoAccount
                             ELSE v.info = i /\ v.storage = w.storage
    BY <2>1, <1>1, <1>s, <1>z, AfterOutputIs
  <2> HIDE DEF v, moved
  <2>4. v.storage = w.storage => Rewrites(u, w, v)
    BY <2>2 DEF Rewrites
  <2>5. CASE ~IsEmptyInfo(i)
    BY <2>2, <2>3, <2>4, <2>5, <1>m, <1>1, ChangeMoves DEF v, moved
  <2>6. CASE IsEmptyInfo(i) /\ hasStateClear
    <3>1. moved = TouchEmptyEIP161(c) /\ v = NoAccount
      BY <2>2, <2>3, <2>6, <1>m DEF moved
    <3>2. c.status # "Changed" /\ (c.status = "Loaded" => c.info.code = None)
      BY <1>1 DEF Current, StatusOk, Gone
    <3>3. CASE c.status = "Loaded"
      <4>1. TouchEmptyEIP161(c).account.status = None
        BY <3>3 DEF TouchEmptyEIP161, OnTouchedEmptyPostEIP161, Moved
      <4> QED
        BY <2>3, <2>6, <3>1, <3>2, <3>3, <4>1 DEF Stuck, v, moved
    <3>4. CASE c.status # "Loaded"
      BY <2>3, <3>1, <3>2, <3>4, TouchEmptyMoves DEF v, moved
    <3> QED
      BY <3>3, <3>4
  <2>7. CASE IsEmptyInfo(i) /\ ~hasStateClear
    BY <2>1, <2>2, <2>3, <2>4, <2>7, <1>m, TouchCreateMoves DEF v, moved
  <2> QED
    BY <2>5, <2>6, <2>7
<1>2. CASE /\ c.info = None \/ c.info.code = None
           /\ \E i \in Infos, s \in Storages : /\ i.code = None => s = AllZero
                                               /\ out = EvmOutput(i, s, AllZero, {"created"})
  <2>1. PICK i \in Infos, s \in Storages : /\ i.code = None => s = AllZero
                                           /\ out = EvmOutput(i, s, AllZero, {"created"})
    BY <1>2
  <2>2. /\ out.touched /\ out.info = i /\ out.created /\ ~out.selfdestructed /\ u \in StorageSlots
        /\ \A k \in Slots : IF k \in DOMAIN u THEN u[k].original = AllZero[k] /\ u[k].present = s[k]
                            ELSE s[k] = AllZero[k]
    BY <2>1, <1>f, <1>z
  <2>3. v \in DbAccounts /\ v.info = i /\ v.storage = s
    BY <2>1, <1>z, AfterOutputIs
  <2>4. Rewrites(u, w, v)
    BY <2>2, <2>3, <1>z, <1>s, <1>2 DEF Rewrites
  <2>5. OnCreated(c.status) = NextStatus(c)
    BY <1>2, OnChangedIs DEF Current
  <2>6. moved = Moved(c, [info |-> i, storage |-> Present(u), status |-> NextStatus(c)], u, FALSE)
    BY <2>2, <2>5, <1>m DEF NewlyCreated
  <2> HIDE DEF v, moved
  <2>7. Moves(c, w, moved, v)
    BY <2>2, <2>3, <2>4, <2>6, <1>2, CreateMoves
  <2> QED
    BY <2>3, <2>7 DEF v, moved
<1>3. CASE \/ out = EvmOutput(DefaultInfo, AllZero, AllZero, {"created", "selfdestructed"})
           \/ /\ c.info # None /\ c.info.code # None
              /\ out = EvmOutput(DefaultInfo, w.storage, w.storage, {"selfdestructed"})
  <2>1. out.touched /\ out.selfdestructed
    BY <1>3, <1>f, <1>z
  <2>2. v = NoAccount
    BY <2>1, <1>3, OutputFields DEF AfterOutput
  <2> QED
    BY <2>1, <2>2, <1>m, SelfdestructMoves, NoAccountIs
<1>4. CASE /\ c.info # None /\ c.info.code # None
           /\ \E i \in Infos, s \in Storages : /\ i.code = c.info.code
                                               /\ out = EvmOutput(i, s, w.storage, {})
  <2>1. PICK i \in Infos, s \in Storages : /\ i.code = c.info.code
                                           /\ out = EvmOutput(i, s, w.storage, {})
    BY <1>4
  <2>2. /\ out.touched /\ out.info = i /\ ~out.created /\ ~out.selfdestructed /\ u \in StorageSlots
        /\ \A k \in Slots : IF k \in DOMAIN u THEN u[k].original = w.storage[k] /\ u[k].present = s[k]
                            ELSE s[k] = w.storage[k]
    <3> DEFINE none == {}
    <3>1. "created" \notin none /\ "selfdestructed" \notin none /\ out = EvmOutput(i, s, w.storage, none)
      BY <2>1
    <3> HIDE DEF none
    <3> QED
      BY <3>1, <1>f, <1>z
  <2>3. ~IsEmptyInfo(i) /\ i.code # None
    BY <2>1, <1>4, InfoIs
  <2>4. v \in DbAccounts /\ v.info = i /\ v.storage = s
    BY <2>1, <2>3, <1>z, AfterOutputIs
  <2>5. Rewrites(u, w, v)
    BY <2>2, <2>4 DEF Rewrites
  <2>6. moved = Change(c, i, u)
    BY <2>2, <2>3, <1>m
  <2> HIDE DEF v, moved
  <2>7. Moves(c, w, moved, v)
    BY <2>2, <2>3, <2>4, <2>5, <2>6, ChangeMoves
  <2> QED
    BY <2>4, <2>7 DEF v, moved
<1> QED
    BY <1>c, <1>1, <1>2, <1>3, <1>4, OutputIs

-----------------------------------------------------------------------------
(* The transitions of a block                                              *)

\* The fields of a transition.
LEMMA TransitionIs ==
    ASSUME NEW t \in TransitionAccounts
    PROVE  /\ t # None
           /\ t.info \in InfoOrNone /\ t.previous_info \in InfoOrNone
           /\ t.status \in Statuses /\ t.previous_status \in Statuses
           /\ t.storage \in StorageSlots /\ t.storage_was_destroyed \in BOOLEAN
BY NoneAssumption DEF TransitionAccounts, InfoOrNone

\* TransitionAccount::update.
LEMMA UpdatedIs ==
    ASSUME NEW t \in TransitionAccounts, NEW o \in TransitionAccounts
    PROVE  LET n == UpdatedTransition(t, o)
           IN /\ n \in TransitionAccounts
              /\ n.info = o.info /\ n.status = o.status
              /\ n.previous_info = t.previous_info /\ n.previous_status = t.previous_status
              /\ n.storage_was_destroyed <=>
                    t.storage_was_destroyed \/ o.status \in {"Destroyed", "DestroyedAgain"}
              /\ o.status \in {"Destroyed", "DestroyedAgain"} => n.storage = o.storage
              /\ o.status \notin {"Destroyed", "DestroyedAgain"} =>
                    /\ \A k \in Slots : k \in DOMAIN n.storage <=>
                          /\ k \in DOMAIN t.storage \cup DOMAIN o.storage
                          /\ ~(/\ k \in DOMAIN t.storage /\ k \in DOMAIN o.storage
                               /\ t.storage[k].original = o.storage[k].present)
                    /\ \A k \in DOMAIN n.storage :
                          /\ n.storage[k].original =
                                IF k \in DOMAIN t.storage THEN t.storage[k].original ELSE o.storage[k].original
                          /\ n.storage[k].present =
                                IF k \in DOMAIN o.storage THEN o.storage[k].present ELSE t.storage[k].present
<1> DEFINE destroyed == o.status \in {"Destroyed", "DestroyedAgain"}
           back(k) == /\ k \in DOMAIN t.storage /\ k \in DOMAIN o.storage
                      /\ t.storage[k].original = o.storage[k].present
           e == ExtendStorage(t.storage, o.storage)
           S == {k \in DOMAIN e : ~back(k)}
           r == Restrict(e, S)
           x == IF destroyed THEN o.storage ELSE r
           n == UpdatedTransition(t, o)
<1>1. t.storage \in StorageSlots /\ o.storage \in StorageSlots
    BY TransitionIs
<1>2. /\ e \in StorageSlots
      /\ DOMAIN e = DOMAIN t.storage \cup DOMAIN o.storage
      /\ \A k \in DOMAIN e :
            /\ e[k].original = IF k \in DOMAIN t.storage THEN t.storage[k].original ELSE o.storage[k].original
            /\ e[k].present = IF k \in DOMAIN o.storage THEN o.storage[k].present ELSE t.storage[k].present
    BY <1>1, ExtendStorageIs, ZenonT(60)
<1>3. S \subseteq DOMAIN e /\ \A k : k \in S <=> k \in DOMAIN e /\ ~back(k)
    OBVIOUS
<1> HIDE DEF e, S
<1>4. /\ r \in StorageSlots /\ DOMAIN r = S /\ \A k \in S : r[k] = e[k]
    BY <1>2, <1>3, RestrictIs DEF StorageSlots
<1>5. n = [t EXCEPT !.info = o.info, !.status = o.status, !.storage = x,
                    !.storage_was_destroyed = t.storage_was_destroyed \/ destroyed]
    BY DEF UpdatedTransition, e, S
<1> HIDE DEF r
<1>6. x \in StorageSlots
    BY <1>1, <1>4
<1> HIDE DEF n, x
<1>7. /\ n \in TransitionAccounts
      /\ n.info = o.info /\ n.status = o.status /\ n.storage = x
      /\ n.previous_info = t.previous_info /\ n.previous_status = t.previous_status
      /\ n.storage_was_destroyed <=> t.storage_was_destroyed \/ destroyed
    BY <1>5, <1>6 DEF TransitionAccounts
<1>8. destroyed => n.storage = o.storage
    BY <1>7 DEF x
<1>9. ~destroyed =>
         /\ \A k \in Slots : k \in DOMAIN n.storage <=>
                k \in DOMAIN t.storage \cup DOMAIN o.storage /\ ~back(k)
         /\ \A k \in DOMAIN n.storage :
               /\ n.storage[k].original =
                     IF k \in DOMAIN t.storage THEN t.storage[k].original ELSE o.storage[k].original
               /\ n.storage[k].present =
                     IF k \in DOMAIN o.storage THEN o.storage[k].present ELSE t.storage[k].present
    BY <1>2, <1>3, <1>4, <1>7 DEF x
<1> QED
    BY <1>7, <1>8, <1>9 DEF n

\* What a move records.
LEMMA MovedTransition ==
    ASSUME NEW c, NEW w \in DbAccounts, NEW v \in DbAccounts, NEW d \in DbAccounts, NEW moved,
           Current(c, w, d), Moves(c, w, moved, v), ~Stays(c, w, moved, v)
    PROVE  LET t == moved.transition
           IN /\ t \in TransitionAccounts
              /\ t.info = moved.account.info /\ t.status = moved.account.status
              /\ t.previous_info = c.info /\ t.previous_status = c.status
              /\ \/ /\ t.storage_was_destroyed
                    /\ DOMAIN t.storage = {}
                    /\ t.status = IF WasDestroyed(c.status) THEN "DestroyedAgain" ELSE "Destroyed"
                    /\ \A k \in Slots : v.storage[k] = 0
                 \/ /\ ~t.storage_was_destroyed
                    /\ t.status = NextStatus(c)
                    /\ Rewrites(t.storage, w, v)
<1>1. c.info \in InfoOrNone /\ c.status \in Statuses
    BY CacheIs DEF Current
<1>2. CASE Dies(c, moved, v)
  <2> DEFINE n == [info |-> None, storage |-> Empty,
                   status |-> IF WasDestroyed(c.status) THEN "DestroyedAgain" ELSE "Destroyed"]
             t == TransitionOf(c, n, Empty, TRUE)
  <2>1. moved.account = n /\ moved.transition = t
    BY <1>2 DEF Dies, Moved
  <2>2. /\ t.info = None /\ t.status = n.status /\ t.previous_info = c.info /\ t.previous_status = c.status
        /\ t.storage = Empty /\ t.storage_was_destroyed = TRUE /\ n.info = None
        /\ t = [info |-> t.info, status |-> t.status, previous_info |-> t.previous_info,
                previous_status |-> t.previous_status, storage |-> t.storage,
                storage_was_destroyed |-> t.storage_was_destroyed]
    BY DEF TransitionOf
  <2>3. Empty \in StorageSlots /\ DOMAIN Empty = {}
    BY EmptyIs DEF StorageSlots
  <2>4. n.status = IF WasDestroyed(c.status) THEN "DestroyedAgain" ELSE "Destroyed"
    OBVIOUS
  <2> HIDE DEF t, n
  <2>5. t \in TransitionAccounts
    BY <1>1, <2>2, <2>3, <2>4 DEF TransitionAccounts, Statuses, InfoOrNone
  <2>6. \A k \in Slots : v.storage[k] = 0
    BY <1>2, NoAccountIs DEF Dies
  <2> QED
    BY <2>1, <2>2, <2>3, <2>4, <2>5, <2>6
<1>3. CASE Changes(c, w, moved, v)
  <2>1. PICK i \in Infos, u \in StorageSlots, s \in PartialMaps(Words) :
          /\ moved = Moved(c, [info |-> i, storage |-> s, status |-> NextStatus(c)], u, FALSE)
          /\ Rewrites(u, w, v)
    BY <1>3 DEF Changes
  <2> DEFINE n == [info |-> i, storage |-> s, status |-> NextStatus(c)]
             t == TransitionOf(c, n, u, FALSE)
  <2>2. moved.account = n /\ moved.transition = t
    BY <2>1 DEF Moved
  <2>3. /\ t.info = n.info /\ t.status = n.status /\ t.previous_info = c.info /\ t.previous_status = c.status
        /\ t.storage = u /\ t.storage_was_destroyed = FALSE /\ n.info = i /\ n.status = NextStatus(c)
        /\ t = [info |-> t.info, status |-> t.status, previous_info |-> t.previous_info,
                previous_status |-> t.previous_status, storage |-> t.storage,
                storage_was_destroyed |-> t.storage_was_destroyed]
    BY DEF TransitionOf
  <2> HIDE DEF t, n
  <2>4. NextStatus(c) \in Statuses
    BY DEF NextStatus, Statuses
  <2>5. t \in TransitionAccounts
    BY <1>1, <2>3, <2>4 DEF TransitionAccounts, InfoOrNone
  <2> QED
    BY <2>1, <2>2, <2>3, <2>5
<1> QED
    BY <1>2, <1>3 DEF Moves

\* The transition of a block, updated with what a move records.
LEMMA MoveRecorded ==
    ASSUME NEW c, NEW w \in DbAccounts, NEW v \in DbAccounts, NEW d \in DbAccounts, NEW m \in DbAccounts,
           NEW moved, NEW t, Current(c, w, d), Moves(c, w, moved, v), Recorded(t, c, m, w)
    PROVE  LET n == AddTransition(t, moved.transition)
           IN /\ Recorded(n, moved.account, m, v)
              /\ LastView(n, moved.account) = LastView(t, c)
<1> DEFINE o == moved.transition
           n == AddTransition(t, o)
<1>c. c.info \in InfoOrNone /\ c.status \in Statuses /\ StatusOk(c.info, c.status)
    BY CacheIs DEF Current
<1>1. CASE Stays(c, w, moved, v)
  <2>1. n = t
    BY <1>1 DEF Stays, AddTransition
  <2>2. moved.account.info = c.info /\ moved.account.status = c.status
    BY <1>1 DEF Stays
  <2>3. SameAccount(v, w) /\ \A k \in Slots : v.storage[k] = w.storage[k]
    BY <1>1, SameIs DEF Stays
  <2>4. CASE t = None
    BY <2>1, <2>2, <2>3, <2>4 DEF Recorded, SameAccount, LastView
  <2>5. CASE t # None
    <3>1. Leads(t, m, v)
      BY <2>3, <2>5 DEF Recorded, Leads
    <3> QED
      BY <2>1, <2>2, <2>5, <3>1 DEF Recorded, LastView
  <2> QED
    BY <2>4, <2>5
<1>2. CASE ~Stays(c, w, moved, v)
  <2>1. /\ o \in TransitionAccounts /\ o # None
        /\ o.info = moved.account.info /\ o.status = moved.account.status
        /\ o.previous_info = c.info /\ o.previous_status = c.status
        /\ \/ /\ o.storage_was_destroyed
              /\ DOMAIN o.storage = {}
              /\ o.status = IF WasDestroyed(c.status) THEN "DestroyedAgain" ELSE "Destroyed"
              /\ \A k \in Slots : v.storage[k] = 0
           \/ /\ ~o.storage_was_destroyed
              /\ o.status = NextStatus(c)
              /\ Rewrites(o.storage, w, v)
    <3>1. /\ o \in TransitionAccounts
          /\ o.info = moved.account.info /\ o.status = moved.account.status
          /\ o.previous_info = c.info /\ o.previous_status = c.status
          /\ \/ /\ o.storage_was_destroyed
                /\ DOMAIN o.storage = {}
                /\ o.status = IF WasDestroyed(c.status) THEN "DestroyedAgain" ELSE "Destroyed"
                /\ \A k \in Slots : v.storage[k] = 0
             \/ /\ ~o.storage_was_destroyed
                /\ o.status = NextStatus(c)
                /\ Rewrites(o.storage, w, v)
      BY <1>2, MovedTransition, Zenon
    <3> HIDE DEF o
    <3> QED
      BY <3>1, TransitionIs
  <2> HIDE DEF o
  <2>2. CASE t = None
    <3>1. n = o
      BY <2>1, <2>2 DEF AddTransition
    <3>2. \A k \in Slots : w.storage[k] = m.storage[k]
      BY <2>2, SameIs DEF Recorded
    <3>3. Follows(c.status, o.status, o.storage_was_destroyed)
      BY <2>1, <1>c DEF Follows, Active, NextStatus, WasDestroyed, Statuses
    <3>4. Leads(o, m, v)
      BY <2>1, <3>2 DEF Leads, Rewrites, NextStatus
    <3> QED
      BY <2>1, <2>2, <3>1, <3>3, <3>4 DEF Recorded, LastView, o
  <2>3. CASE t # None
    <3>1. /\ t \in TransitionAccounts
          /\ t.info = c.info /\ t.status = c.status
          /\ Follows(t.previous_status, t.status, t.storage_was_destroyed)
          /\ Leads(t, m, w)
      BY <2>3 DEF Recorded
    <3>2. n = UpdatedTransition(t, o)
      BY <2>1, <2>3 DEF AddTransition
    <3>3. /\ n \in TransitionAccounts /\ n # None
          /\ n.info = o.info /\ n.status = o.status
          /\ n.previous_info = t.previous_info /\ n.previous_status = t.previous_status
          /\ n.storage_was_destroyed <=>
                t.storage_was_destroyed \/ o.status \in {"Destroyed", "DestroyedAgain"}
          /\ o.status \in {"Destroyed", "DestroyedAgain"} => n.storage = o.storage
          /\ o.status \notin {"Destroyed", "DestroyedAgain"} =>
                /\ \A k \in Slots : k \in DOMAIN n.storage <=>
                      /\ k \in DOMAIN t.storage \cup DOMAIN o.storage
                      /\ ~(/\ k \in DOMAIN t.storage /\ k \in DOMAIN o.storage
                           /\ t.storage[k].original = o.storage[k].present)
                /\ \A k \in DOMAIN n.storage :
                      /\ n.storage[k].original =
                            IF k \in DOMAIN t.storage THEN t.storage[k].original ELSE o.storage[k].original
                      /\ n.storage[k].present =
                            IF k \in DOMAIN o.storage THEN o.storage[k].present ELSE t.storage[k].present
      BY <2>1, <3>1, <3>2, UpdatedIs, TransitionIs
    <3> HIDE DEF n
    <3>4. Follows(n.previous_status, n.status, n.storage_was_destroyed)
      BY <2>1, <3>1, <3>3, <1>c DEF Follows, Active, NextStatus, WasDestroyed, Statuses
    <3>5. Leads(n, m, v)
      <4>1. CASE o.status \in {"Destroyed", "DestroyedAgain"}
        BY <2>1, <3>3, <4>1 DEF Leads, NextStatus
      <4>2. CASE o.status \notin {"Destroyed", "DestroyedAgain"}
        <5>1. ~o.storage_was_destroyed /\ Rewrites(o.storage, w, v)
          BY <2>1, <4>2
        <5>2. n.storage_was_destroyed <=> t.storage_was_destroyed
          BY <3>3, <4>2
        <5>3. ASSUME NEW k \in Slots
              PROVE  LET old == IF n.storage_was_destroyed THEN 0 ELSE m.storage[k]
                     IN IF k \in DOMAIN n.storage
                        THEN n.storage[k].original = old /\ n.storage[k].present = v.storage[k]
                        ELSE v.storage[k] = old
          <6> DEFINE old == IF n.storage_was_destroyed THEN 0 ELSE m.storage[k]
          <6>1. IF k \in DOMAIN t.storage
                THEN t.storage[k].original = old /\ t.storage[k].present = w.storage[k]
                ELSE w.storage[k] = old
            BY <3>1, <5>2 DEF Leads
          <6>2. IF k \in DOMAIN o.storage
                THEN o.storage[k].original = w.storage[k] /\ o.storage[k].present = v.storage[k]
                ELSE v.storage[k] = w.storage[k]
            BY <5>1 DEF Rewrites
          <6> HIDE DEF old
          <6>3. IF k \in DOMAIN n.storage
                THEN n.storage[k].original = old /\ n.storage[k].present = v.storage[k]
                ELSE v.storage[k] = old
            BY <3>3, <4>2, <6>1, <6>2
          <6> QED
            BY <6>3 DEF old
        <5> QED
          BY <3>3, <4>2, <5>3 DEF Leads
      <4> QED
        BY <4>1, <4>2
    <3> QED
      BY <2>1, <2>3, <3>3, <3>4, <3>5 DEF Recorded, LastView, n, o
  <2> QED
    BY <2>2, <2>3
<1> QED
    BY <1>1, <1>2

-----------------------------------------------------------------------------
(* Merging a transition into an account of the bundle                      *)

\* The storages of reverts.
RevertMaps == PartialMaps(Words \cup {DestroyedSlot})

\* previous_storage_from_update.
LEMMA PreviousIs ==
    ASSUME NEW s \in StorageSlots
    PROVE  /\ PreviousStorage(s) \in RevertMaps
           /\ \A k : k \in DOMAIN PreviousStorage(s) <=> k \in DOMAIN s /\ s[k].original # s[k].present
           /\ \A k \in DOMAIN PreviousStorage(s) : PreviousStorage(s)[k] = s[k].original
<1> DEFINE C == {k \in DOMAIN s : IsChanged(s[k])}
           p == [k \in C |-> s[k].original]
<1>1. DOMAIN s \subseteq Slots /\ s \in [DOMAIN s -> SlotPairs]
    BY MapIs DEF StorageSlots, SlotPairs
<1>2. PreviousStorage(s) = p
    BY DEF PreviousStorage
<1>3. p \in [C -> Words \cup {DestroyedSlot}] /\ DOMAIN p = C /\ C \subseteq Slots
    BY <1>1 DEF SlotPairs
<1>4. p \in RevertMaps
    BY <1>3, MapIs DEF RevertMaps
<1> QED
    BY <1>2, <1>4 DEF IsChanged

\* new_selfdestructed_again.
LEMMA AgainIs ==
    ASSUME NEW p \in StorageSlots, NEW u \in StorageSlots
    PROVE  LET g == SelfdestructedAgain(p, u)
           IN /\ g \in RevertMaps
              /\ DOMAIN g = DOMAIN p \cup DOMAIN u
              /\ \A k \in DOMAIN g : g[k] = IF k \in DOMAIN p THEN p[k].present ELSE DestroyedSlot
<1> DEFINE g == SelfdestructedAgain(p, u)
           e == [k \in DOMAIN u |-> DestroyedSlot]
           q == Present(p)
<1>1. /\ DOMAIN q = DOMAIN p /\ q \in PartialMaps(Words)
      /\ \A k \in DOMAIN p : q[k] = p[k].present
    BY PresentIs
<1>2. g = Extended(e, q)
    BY DEF SelfdestructedAgain, OrInsert
<1>3. e \in RevertMaps /\ DOMAIN e = DOMAIN u /\ \A k \in DOMAIN u : e[k] = DestroyedSlot
  <2>1. DOMAIN u \subseteq Slots
    BY MapIs DEF StorageSlots
  <2>2. e \in [DOMAIN u -> Words \cup {DestroyedSlot}] /\ DOMAIN e = DOMAIN u
    OBVIOUS
  <2> QED
    BY <2>1, <2>2, MapIs DEF RevertMaps
<1>4. q \in RevertMaps
  <2>1. q \in [DOMAIN q -> Words \cup {DestroyedSlot}] /\ DOMAIN q \subseteq Slots
    BY <1>1, MapIs
  <2> QED
    BY <2>1, MapIs DEF RevertMaps
<1> HIDE DEF e, q
<1>5. /\ g \in RevertMaps /\ DOMAIN g = DOMAIN e \cup DOMAIN q
      /\ \A k \in DOMAIN e \cup DOMAIN q : g[k] = IF k \in DOMAIN q THEN q[k] ELSE e[k]
  <2> HIDE DEF g
  <2>1. g \in RevertMaps
    <3> DEFINE V == Words \cup {DestroyedSlot}
    <3>1. e \in PartialMaps(V) /\ q \in PartialMaps(V)
      BY <1>3, <1>4 DEF RevertMaps
    <3> HIDE DEF V
    <3>2. g \in PartialMaps(V)
      BY <1>2, <3>1, ExtendedIs
    <3> QED
      BY <3>2 DEF RevertMaps, V
  <2> QED
    BY <1>2, <2>1, ExtendedValues
<1> QED
    BY <1>1, <1>3, <1>5

\* Nothing was set since: the destroyed values alone.
LEMMA AgainEmpty ==
    ASSUME NEW p \in StorageSlots, NEW u \in StorageSlots, DOMAIN u = {}
    PROVE  u = Empty /\ SelfdestructedAgain(p, u) = Present(p)
<1>1. u = Empty
    BY MapIs DEF StorageSlots, Empty
<1> DEFINE g == SelfdestructedAgain(p, u)
           q == Present(p)
<1>2. /\ DOMAIN q = DOMAIN p /\ q \in [DOMAIN q -> Words]
      /\ \A k \in DOMAIN p : q[k] = p[k].present
    BY PresentIs, MapIs
<1>3. /\ DOMAIN g = DOMAIN p /\ g \in [DOMAIN g -> Words \cup {DestroyedSlot}]
      /\ \A k \in DOMAIN g : g[k] = p[k].present
    BY AgainIs, MapIs DEF RevertMaps
<1> HIDE DEF g, q
<1>4. g = q
    BY <1>2, <1>3
<1> QED
    BY <1>1, <1>4 DEF g, q

\* A storage that extends none is itself.
LEMMA ExtendEmpty ==
    ASSUME NEW s \in StorageSlots, NEW u \in StorageSlots, DOMAIN s = {}
    PROVE  ExtendStorage(s, u) = u
<1> DEFINE e == ExtendStorage(s, u)
<1>1. /\ e \in StorageSlots /\ DOMAIN e = DOMAIN u
      /\ \A k \in DOMAIN e : e[k].original = u[k].original /\ e[k].present = u[k].present
  <2>1. /\ e \in StorageSlots
        /\ DOMAIN e = DOMAIN s \cup DOMAIN u
        /\ \A k \in DOMAIN e :
              /\ e[k].original = IF k \in DOMAIN s THEN s[k].original ELSE u[k].original
              /\ e[k].present = IF k \in DOMAIN u THEN u[k].present ELSE s[k].present
    BY ExtendStorageIs, ZenonT(60)
  <2> HIDE DEF e
  <2> QED
    BY <2>1
<1> HIDE DEF e
<1>2. e \in [DOMAIN e -> SlotPairs] /\ u \in [DOMAIN u -> SlotPairs]
    BY <1>1, MapIs DEF StorageSlots, SlotPairs
<1>3. \A k \in DOMAIN e : e[k] = u[k]
    BY <1>1, <1>2 DEF SlotPairs
<1>4. e = u
    BY <1>1, <1>2, <1>3
<1> QED
    BY <1>4 DEF e

\* The transition t of a block, from the world's account m to w, for the account b of a
\* bundle over d.
Merging(b, t, m, w, d) ==
    /\ b \in BundleAccounts /\ Current(View(b), m, d)
    /\ b.status = "LoadedNotExisting" => DOMAIN b.storage = {}
    /\ t \in TransitionAccounts
    /\ Follows(b.status, t.status, t.storage_was_destroyed)
    /\ Leads(t, m, w)
    /\ StatusOk(t.info, t.status) /\ Holds(t.info) = Holds(w.info)
    /\ t.status = "InMemoryChange" => Asleep(d)

\* What the account's storage becomes and the revert: changes are added to it,
Grown(b, t, s, r) ==
    /\ ~t.storage_was_destroyed /\ b.info # None
    /\ \/ s = ExtendStorage(b.storage, t.storage)
       \/ s = t.storage /\ b.status = "LoadedEmptyEIP161"
    /\ r = Revert(InfoRevert(b, t), PreviousStorage(t.storage), b.status, FALSE)

\* or the account is created,
Made(b, t, s, r) ==
    /\ b.info = None
    /\ s = ExtendStorage(b.storage, t.storage)
    /\ \E x \in RevertMaps :
          /\ r = Revert(DeleteIt, x, b.status, FALSE)
          /\ \A k \in DOMAIN x : k \in DOMAIN t.storage /\ x[k] \in {DestroyedSlot, t.storage[k].original}
          /\ \A k \in DOMAIN t.storage \ DOMAIN x : t.storage[k].original = t.storage[k].present

\* or it was destroyed and its storage is new,
Replaced(b, t, s, r) ==
    /\ t.storage_was_destroyed /\ b.info # None
    /\ s = t.storage
    /\ \E wipe \in BOOLEAN :
          /\ r = Revert(InfoRevert(b, t), SelfdestructedAgain(b.storage, t.storage), b.status, wipe)
          /\ wipe <=> b.status \in NotDestroyedYet

\* or it was not there and is not.
Dead(b, t, s, r) == b.info = None /\ t.info = None /\ s = Empty /\ r = None

\* All the ways in which a transition is merged.
Steps(b, t, s, r) == Grown(b, t, s, r) \/ Made(b, t, s, r) \/ Replaced(b, t, s, r) \/ Dead(b, t, s, r)

\* The fields of an account of a bundle.
LEMMA BundleIs ==
    ASSUME NEW b \in BundleAccounts
    PROVE  /\ b # None
           /\ b.info \in InfoOrNone /\ b.original_info \in InfoOrNone
           /\ b.storage \in StorageSlots /\ b.status \in Statuses
           /\ b = BundleAccountOf(b.info, b.original_info, b.storage, b.status)
BY NoneAssumption DEF BundleAccounts, BundleAccountOf, InfoOrNone

\* What makes one.
LEMMA BundleMake ==
    ASSUME NEW i \in InfoOrNone, NEW o \in InfoOrNone, NEW s \in StorageSlots, NEW x \in Statuses
    PROVE  LET b == BundleAccountOf(i, o, s, x)
           IN /\ b \in BundleAccounts
              /\ b.info = i /\ b.original_info = o /\ b.storage = s /\ b.status = x
BY DEF BundleAccounts, BundleAccountOf, InfoOrNone

\* What is shown of one.
LEMMA ViewIs ==
    ASSUME NEW b \in BundleAccounts
    PROVE  /\ View(b) \in CacheAccounts
           /\ View(b).info = b.info /\ View(b).status = b.status
           /\ DOMAIN View(b).storage = DOMAIN b.storage
           /\ \A k \in DOMAIN b.storage : View(b).storage[k] = b.storage[k].present
<1>1. /\ b.info \in InfoOrNone /\ b.storage \in StorageSlots /\ b.status \in Statuses
    BY BundleIs
<1>2. /\ Present(b.storage) \in PartialMaps(Words) /\ DOMAIN Present(b.storage) = DOMAIN b.storage
      /\ \A k \in DOMAIN b.storage : Present(b.storage)[k] = b.storage[k].present
    BY <1>1, PresentIs
<1> QED
    BY <1>1, <1>2 DEF View, CacheAccounts, InfoOrNone

\* The result of an update whose revert may be empty.
LEMMA ResultIs ==
    ASSUME NEW x, NEW r, NEW raw, raw = [account |-> x, revert |-> r, panic |-> FALSE], NEW u,
           u = [raw EXCEPT !.revert = IF @ # None /\ IsEmptyRevert(@) THEN None ELSE @]
    PROVE  u = [account |-> x, revert |-> IF r # None /\ IsEmptyRevert(r) THEN None ELSE r,
                panic |-> FALSE]
<1> DEFINE y == IF r # None /\ IsEmptyRevert(r) THEN None ELSE r
<1>1. u = [raw EXCEPT !.revert = y]
    OBVIOUS
<1> HIDE DEF y
<1>2. u = [account |-> x, revert |-> y, panic |-> FALSE]
    BY <1>1
<1> QED
    BY <1>2 DEF y

\* update_and_create_revert never panics and takes one of the four steps, unless the
\* account was created and destroyed within the block.
LEMMA UpdateIs ==
    ASSUME NEW b, NEW t, NEW m \in DbAccounts, NEW w \in DbAccounts, NEW d \in DbAccounts,
           Merging(b, t, m, w, d)
    PROVE  LET u == UpdateAndCreateRevert(b, t)
           IN \/ /\ b.status = "LoadedNotExisting" /\ t.status = "Destroyed"
                 /\ u = [account |-> BundleAccountOf(b.info, b.original_info, Empty, b.status),
                         revert |-> None, panic |-> FALSE]
              \/ \E s \in StorageSlots : \E r :
                    /\ Steps(b, t, s, r)
                    /\ u = [account |-> BundleAccountOf(t.info, b.original_info, s, t.status),
                            revert |-> IF r # None /\ IsEmptyRevert(r) THEN None ELSE r,
                            panic |-> FALSE]
<1> DEFINE u == UpdateAndCreateRevert(b, t)
           e == ExtendStorage(b.storage, t.storage)
           z == SelfdestructedAgain(b.storage, t.storage)
           Is(raw) == u = [raw EXCEPT !.revert = IF @ # None /\ IsEmptyRevert(@) THEN None ELSE @]
           Goal == \/ /\ b.status = "LoadedNotExisting" /\ t.status = "Destroyed"
                      /\ u = [account |-> BundleAccountOf(b.info, b.original_info, Empty, b.status),
                              revert |-> None, panic |-> FALSE]
                   \/ \E s \in StorageSlots : \E r :
                         /\ Steps(b, t, s, r)
                         /\ u = [account |-> BundleAccountOf(t.info, b.original_info, s, t.status),
                                 revert |-> IF r # None /\ IsEmptyRevert(r) THEN None ELSE r,
                                 panic |-> FALSE]
<1>1. /\ b.storage \in StorageSlots /\ b.info \in InfoOrNone /\ b.status \in Statuses
      /\ b.info = None <=> b.status \in Gone
  <2>1. b \in BundleAccounts /\ Current(View(b), m, d)
    BY DEF Merging
  <2>2. StatusOk(b.info, b.status)
    BY <2>1, ViewIs DEF Current
  <2> QED
    BY <2>1, <2>2, BundleIs DEF StatusOk
<1>2. /\ t.storage \in StorageSlots /\ t.status \in Active
      /\ t.info = None <=> t.status \in {"Destroyed", "DestroyedAgain"}
      /\ Follows(b.status, t.status, t.storage_was_destroyed)
      /\ t.status \in {"Destroyed", "DestroyedAgain"} => DOMAIN t.storage = {}
    BY TransitionIs DEF Merging, Follows, StatusOk, Gone, Leads, Active
<1>e. e \in StorageSlots
    BY <1>1, <1>2, ExtendStorageIs
<1>n. b.status = "LoadedNotExisting" => e = t.storage
    BY <1>1, <1>2, ExtendEmpty DEF Merging
<1>z. t.status \in {"Destroyed", "DestroyedAgain"} =>
          t.storage = Empty /\ z = Present(b.storage) /\ SelfdestructedAgain(b.storage, Empty) = z
    BY <1>1, <1>2, AgainEmpty
<1>E. Empty \in StorageSlots
    BY EmptyIs DEF StorageSlots
<1> HIDE DEF e, z
<1>3. ASSUME NEW s \in StorageSlots, NEW r, Steps(b, t, s, r),
             Is(Updates(b, t.info, s, t.status, r))
      PROVE  Goal
  <2>1. Updates(b, t.info, s, t.status, r) =
            [account |-> BundleAccountOf(t.info, b.original_info, s, t.status), revert |-> r, panic |-> FALSE]
    BY DEF Updates
  <2>2. u = [account |-> BundleAccountOf(t.info, b.original_info, s, t.status),
             revert |-> IF r # None /\ IsEmptyRevert(r) THEN None ELSE r, panic |-> FALSE]
    <3> DEFINE x == BundleAccountOf(t.info, b.original_info, s, t.status)
               raw == Updates(b, t.info, s, t.status, r)
    <3>1. raw = [account |-> x, revert |-> r, panic |-> FALSE] /\ Is(raw)
      BY <1>3, <2>1
    <3> HIDE DEF x, raw, u
    <3> QED
      BY <3>1, ResultIs DEF x
  <2> QED
    BY <1>3, <2>2
<1>p. /\ PreviousStorage(t.storage) \in RevertMaps
      /\ \A k \in DOMAIN PreviousStorage(t.storage) :
            /\ k \in DOMAIN t.storage
            /\ PreviousStorage(t.storage)[k] \in {DestroyedSlot, t.storage[k].original}
      /\ \A k \in DOMAIN t.storage \ DOMAIN PreviousStorage(t.storage) :
            t.storage[k].original = t.storage[k].present
    BY <1>2, PreviousIs
<1>a. LET x == SelfdestructedAgain(Empty, t.storage)
      IN /\ x \in RevertMaps
         /\ \A k \in DOMAIN x : k \in DOMAIN t.storage /\ x[k] \in {DestroyedSlot, t.storage[k].original}
         /\ \A k \in DOMAIN t.storage \ DOMAIN x : t.storage[k].original = t.storage[k].present
  <2>1. LET x == SelfdestructedAgain(Empty, t.storage)
        IN /\ x \in RevertMaps
           /\ DOMAIN x = DOMAIN Empty \cup DOMAIN t.storage
           /\ \A k \in DOMAIN x : x[k] = IF k \in DOMAIN Empty THEN Empty[k].present ELSE DestroyedSlot
    BY <1>2, <1>E, AgainIs
  <2>2. DOMAIN Empty = {}
    BY EmptyIs
  <2> QED
    BY <2>1, <2>2
<1>4. CASE t.status = "Changed"
  <2>1. b.status \in {"Changed", "Loaded"} /\ ~t.storage_was_destroyed
    BY <1>2, <1>4 DEF Follows, WasDestroyed
  <2> DEFINE r == Revert(InfoRevert(b, t), PreviousStorage(t.storage), b.status, FALSE)
  <2>2. Is(ToChanged(b, t))
    BY <1>4 DEF UpdateAndCreateRevert
  <2>3. ToChanged(b, t) = Updates(b, t.info, e, t.status, r)
    BY <1>4, <2>1 DEF ToChanged, e
  <2>4. Steps(b, t, e, r)
    BY <1>1, <2>1 DEF Steps, Grown, Gone, e
  <2> QED
    BY <1>e, <1>3, <2>2, <2>3, <2>4
<1>5. CASE t.status = "InMemoryChange"
  <2>1. b.status \in {"LoadedNotExisting", "Loaded", "LoadedEmptyEIP161", "InMemoryChange"}
        /\ ~t.storage_was_destroyed
    BY <1>2, <1>5 DEF Follows, WasDestroyed
  <2> DEFINE r(x) == Revert(x, PreviousStorage(t.storage), b.status, FALSE)
  <2>2. Is(ToInMemoryChange(b, t))
    BY <1>5 DEF UpdateAndCreateRevert
  <2>3. CASE b.status \in {"Loaded", "InMemoryChange"}
    <3>1. ToInMemoryChange(b, t) = Updates(b, t.info, e, t.status, r(InfoRevert(b, t)))
      BY <1>5, <2>3 DEF ToInMemoryChange, e
    <3>2. Steps(b, t, e, r(InfoRevert(b, t)))
      BY <1>1, <2>1, <2>3 DEF Steps, Grown, Gone, e
    <3> QED
      BY <1>e, <1>3, <2>2, <3>1, <3>2
  <2>4. CASE b.status = "LoadedEmptyEIP161"
    <3>1. ToInMemoryChange(b, t) = Updates(b, t.info, t.storage, t.status, r(InfoRevert(b, t)))
      BY <1>5, <2>4 DEF ToInMemoryChange
    <3>2. Steps(b, t, t.storage, r(InfoRevert(b, t)))
      BY <1>1, <2>1, <2>4 DEF Steps, Grown, Gone
    <3> QED
      BY <1>2, <1>3, <2>2, <3>1, <3>2
  <2>5. CASE b.status = "LoadedNotExisting"
    <3>1. ToInMemoryChange(b, t) = Updates(b, t.info, e, t.status, r(DeleteIt))
      BY <1>5, <2>5, <1>n DEF ToInMemoryChange
    <3>2. Steps(b, t, e, r(DeleteIt))
      BY <1>1, <1>p, <2>5 DEF Steps, Made, Gone, e
    <3> QED
      BY <1>e, <1>3, <2>2, <3>1, <3>2
  <2> QED
    BY <2>1, <2>3, <2>4, <2>5
<1>6. CASE t.status = "Destroyed"
  <2>1. ~WasDestroyed(b.status) /\ t.storage_was_destroyed
    BY <1>2, <1>6 DEF Follows
  <2>2. Is(ToDestroyed(b, t))
    BY <1>6 DEF UpdateAndCreateRevert
  <2>3. CASE b.status = "LoadedNotExisting"
    <3>1. ToDestroyed(b, t) = Updates(b, b.info, Empty, b.status, None)
      BY <2>3 DEF ToDestroyed, NotDestroyedYet
    <3>2. u = [account |-> BundleAccountOf(b.info, b.original_info, Empty, b.status),
               revert |-> None, panic |-> FALSE]
      <4>1. Updates(b, b.info, Empty, b.status, None) =
                [account |-> BundleAccountOf(b.info, b.original_info, Empty, b.status),
                 revert |-> None, panic |-> FALSE]
        BY DEF Updates
      <4> QED
        <5> DEFINE x == BundleAccountOf(b.info, b.original_info, Empty, b.status)
                   raw == Updates(b, b.info, Empty, b.status, None)
        <5>1. raw = [account |-> x, revert |-> None, panic |-> FALSE] /\ Is(raw)
          BY <2>2, <3>1, <4>1
        <5> HIDE DEF x, raw, u
        <5> QED
          BY <5>1, ResultIs DEF x
    <3> QED
      BY <1>6, <2>3, <3>2
  <2>4. CASE b.status # "LoadedNotExisting"
    <3>1. b.status \in NotDestroyedYet
      BY <1>1, <2>1, <2>4 DEF Statuses, WasDestroyed, NotDestroyedYet
    <3> DEFINE r == Revert(InfoRevert(b, t), z, b.status, TRUE)
    <3>2. ToDestroyed(b, t) = Updates(b, t.info, t.storage, t.status, r)
      BY <1>2, <1>6, <1>z, <3>1 DEF ToDestroyed, NotDestroyedYet
    <3>3. Steps(b, t, t.storage, r)
      BY <1>1, <2>1, <3>1 DEF Steps, Replaced, Gone, NotDestroyedYet, z
    <3> QED
      BY <1>2, <1>3, <2>2, <3>2, <3>3
  <2> QED
    BY <2>3, <2>4
<1>7. CASE t.status = "DestroyedChanged"
  <2>2. Is(ToDestroyedChanged(b, t))
    BY <1>7 DEF UpdateAndCreateRevert
  <2>3. CASE b.status \in NotDestroyedYet
    <3>1. t.storage_was_destroyed
      BY <1>2, <1>7, <2>3 DEF Follows, WasDestroyed, NotDestroyedYet
    <3> DEFINE r == Revert(InfoRevert(b, t), z, b.status, TRUE)
    <3>2. ToDestroyedChanged(b, t) = Updates(b, t.info, t.storage, t.status, r)
      BY <1>7, <2>3 DEF ToDestroyedChanged, NotDestroyedYet, z
    <3>3. Steps(b, t, t.storage, r)
      BY <1>1, <2>3, <3>1 DEF Steps, Replaced, Gone, NotDestroyedYet, z
    <3> QED
      BY <1>2, <1>3, <2>2, <3>2, <3>3
  <2>4. CASE b.status \in {"Destroyed", "LoadedNotExisting"}
    <3> DEFINE r == Revert(DeleteIt, PreviousStorage(t.storage), b.status, FALSE)
    <3>1. ToDestroyedChanged(b, t) = Updates(b, t.info, e, t.status, r)
      BY <1>7, <2>4 DEF ToDestroyedChanged, NotDestroyedYet, e
    <3>2. Steps(b, t, e, r)
      BY <1>1, <1>p, <2>4 DEF Steps, Made, Gone, e
    <3> QED
      BY <1>e, <1>3, <2>2, <3>1, <3>2
  <2>5. CASE b.status = "DestroyedChanged" /\ t.storage_was_destroyed
    <3> DEFINE r == Revert(InfoRevert(b, t), z, b.status, FALSE)
    <3>2. ToDestroyedChanged(b, t) = Updates(b, t.info, t.storage, t.status, r)
      BY <1>7, <2>5 DEF ToDestroyedChanged, NotDestroyedYet, z
    <3>3. Steps(b, t, t.storage, r)
      BY <1>1, <2>5 DEF Steps, Replaced, Gone, NotDestroyedYet, z
    <3> QED
      BY <1>2, <1>3, <2>2, <3>2, <3>3
  <2>6. CASE b.status = "DestroyedChanged" /\ ~t.storage_was_destroyed
    <3> DEFINE r == Revert(InfoRevert(b, t), PreviousStorage(t.storage), b.status, FALSE)
    <3>2. ToDestroyedChanged(b, t) = Updates(b, t.info, e, t.status, r)
      BY <1>7, <2>6 DEF ToDestroyedChanged, NotDestroyedYet, e
    <3>3. Steps(b, t, e, r)
      BY <1>1, <2>6 DEF Steps, Grown, Gone, e
    <3> QED
      BY <1>e, <1>3, <2>2, <3>2, <3>3
  <2>7. CASE b.status = "DestroyedAgain"
    <3> DEFINE r == Revert(DeleteIt, SelfdestructedAgain(Empty, t.storage), b.status, FALSE)
    <3>2. ToDestroyedChanged(b, t) = Updates(b, t.info, e, t.status, r)
      BY <1>7, <2>7 DEF ToDestroyedChanged, NotDestroyedYet, e
    <3>3. Steps(b, t, e, r)
      BY <1>1, <1>a, <2>7 DEF Steps, Made, Gone, e
    <3> QED
      BY <1>e, <1>3, <2>2, <3>2, <3>3
  <2> QED
    BY <1>1, <2>3, <2>4, <2>5, <2>6, <2>7 DEF Statuses, NotDestroyedYet
<1>8. CASE t.status = "DestroyedAgain"
  <2>1. t.storage_was_destroyed /\ t.info = None
    BY <1>2, <1>8 DEF Follows
  <2>2. Is(ToDestroyedAgain(b, t))
    BY <1>8 DEF UpdateAndCreateRevert
  <2>3. CASE b.status \in NotDestroyedYet
    <3> DEFINE r == Revert(InfoRevert(b, t), z, b.status, TRUE)
    <3>2. ToDestroyedAgain(b, t) = Updates(b, t.info, t.storage, t.status, r)
      BY <1>8, <1>z, <2>1, <2>3 DEF ToDestroyedAgain, NotDestroyedYet
    <3>3. Steps(b, t, t.storage, r)
      BY <1>1, <2>1, <2>3 DEF Steps, Replaced, Gone, NotDestroyedYet, z
    <3> QED
      BY <1>2, <1>3, <2>2, <3>2, <3>3
  <2>4. CASE b.status \in {"Destroyed", "DestroyedAgain", "LoadedNotExisting"}
    <3>2. ToDestroyedAgain(b, t) = Updates(b, t.info, Empty, t.status, None)
      BY <1>8, <2>1, <2>4 DEF ToDestroyedAgain, NotDestroyedYet
    <3>3. Steps(b, t, Empty, None)
      BY <1>1, <2>1, <2>4 DEF Steps, Dead, Gone
    <3> QED
      BY <1>E, <1>3, <2>2, <3>2, <3>3
  <2>5. CASE b.status = "DestroyedChanged"
    <3> DEFINE r == Revert(InfoRevert(b, t), z, b.status, FALSE)
    <3>1. InfoRevert(b, t) = RevertTo(b.info)
      BY <1>1, <2>1, <2>5 DEF InfoRevert, Gone
    <3>2. ToDestroyedAgain(b, t) = Updates(b, t.info, t.storage, t.status, r)
      BY <1>8, <1>z, <2>1, <2>5, <3>1 DEF ToDestroyedAgain, NotDestroyedYet
    <3>3. Steps(b, t, t.storage, r)
      BY <1>1, <2>1, <2>5 DEF Steps, Replaced, Gone, NotDestroyedYet, z
    <3> QED
      BY <1>2, <1>3, <2>2, <3>2, <3>3
  <2> QED
    BY <1>1, <2>3, <2>4, <2>5 DEF Statuses, NotDestroyedYet
<1> QED
    BY <1>2, <1>4, <1>5, <1>6, <1>7, <1>8 DEF Active

\* What is known of an account of the bundle and of its transition.
MergingFacts(b, t, m, w, d) ==
    /\ b.storage \in StorageSlots /\ DOMAIN b.storage \subseteq Slots
    /\ t.storage \in StorageSlots /\ DOMAIN t.storage \subseteq Slots
    /\ b.info \in InfoOrNone /\ b.original_info \in InfoOrNone /\ t.info \in InfoOrNone
    /\ b.status \in Statuses /\ t.status \in Statuses
    /\ StatusOk(b.info, b.status) /\ Holds(b.info) = Holds(m.info)
    /\ b.info = None => \A k \in Slots : m.storage[k] = 0
    /\ t.info = None => \A k \in Slots : w.storage[k] = 0
    /\ Asleep(d) => \A k \in Slots : d.storage[k] = 0
    /\ \A k \in Slots :
          m.storage[k] = IF k \in DOMAIN b.storage THEN b.storage[k].present
                         ELSE IF IsStorageKnown(b.status) THEN 0 ELSE d.storage[k]
    /\ b.status \in {"Loaded", "LoadedEmptyEIP161", "LoadedNotExisting"} =>
          SameAccount(m, d) /\ \A k \in Slots : m.storage[k] = d.storage[k]
    /\ b.status = "InMemoryChange" => Asleep(d)

\* It follows from the invariant's parts.
LEMMA MergingIs ==
    ASSUME NEW b, NEW t, NEW m \in DbAccounts, NEW w \in DbAccounts, NEW d \in DbAccounts,
           Merging(b, t, m, w, d)
    PROVE  MergingFacts(b, t, m, w, d)
<1>1. b \in BundleAccounts /\ Current(View(b), m, d) /\ t \in TransitionAccounts
    BY DEF Merging
<1>2. /\ b.storage \in StorageSlots /\ t.storage \in StorageSlots
      /\ b.info \in InfoOrNone /\ b.original_info \in InfoOrNone /\ t.info \in InfoOrNone
      /\ b.status \in Statuses /\ t.status \in Statuses
    BY <1>1, BundleIs, TransitionIs
<1>3. DOMAIN b.storage \subseteq Slots /\ DOMAIN t.storage \subseteq Slots
    BY <1>2, MapIs DEF StorageSlots
<1>4. /\ View(b).info = b.info /\ View(b).status = b.status
      /\ DOMAIN View(b).storage = DOMAIN b.storage
      /\ \A k \in DOMAIN b.storage : View(b).storage[k] = b.storage[k].present
    BY <1>1, ViewIs
<1>5. /\ StatusOk(b.info, b.status) /\ Holds(b.info) = Holds(m.info)
      /\ b.status \in {"Loaded", "LoadedEmptyEIP161", "LoadedNotExisting"} => SameAccount(m, d)
      /\ b.status = "InMemoryChange" => Asleep(d)
      /\ \A k \in Slots : m.storage[k] = Shown(View(b), d, k)
    BY <1>1, <1>4 DEF Current
<1>6. b.info = None => \A k \in Slots : m.storage[k] = 0
    BY <1>1, <1>4, CurrentReads
<1>7. t.info = None => \A k \in Slots : w.storage[k] = 0
  <2>1. Holds(t.info) = Holds(w.info) /\ w.info \in InfoOrNone
    BY DbIs DEF Merging
  <2>2. t.info = None => w.info = None
    BY <1>2, <2>1, HoldsIs
  <2> QED
    BY <2>2, DbIs DEF Asleep
<1>8. \A k \in Slots : m.storage[k] = IF k \in DOMAIN b.storage THEN b.storage[k].present
                                      ELSE IF IsStorageKnown(b.status) THEN 0 ELSE d.storage[k]
    BY <1>4, <1>5 DEF Shown
<1>9. SameAccount(m, d) => \A k \in Slots : m.storage[k] = d.storage[k]
    BY SameIs
<1>10. Asleep(d) => \A k \in Slots : d.storage[k] = 0
    BY DbIs
<1> QED
    BY <1>2, <1>3, <1>5, <1>6, <1>7, <1>8, <1>9, <1>10 DEF MergingFacts

\* The storage e is s extended by u.
IsGrown(e, s, u) ==
    /\ DOMAIN e = DOMAIN s \cup DOMAIN u
    /\ \A k \in DOMAIN e :
          /\ e[k].original = IF k \in DOMAIN s THEN s[k].original ELSE u[k].original
          /\ e[k].present = IF k \in DOMAIN u THEN u[k].present ELSE s[k].present

\* extend_storage does that.
LEMMA GrownStorage ==
    ASSUME NEW s \in StorageSlots, NEW u \in StorageSlots
    PROVE  IsGrown(ExtendStorage(s, u), s, u)
<1> DEFINE f == ExtendStorage(s, u)
<1>1. /\ f \in StorageSlots
      /\ DOMAIN f = DOMAIN s \cup DOMAIN u
      /\ \A k \in DOMAIN f :
            /\ f[k].original = IF k \in DOMAIN s THEN s[k].original ELSE u[k].original
            /\ f[k].present = IF k \in DOMAIN u THEN u[k].present ELSE s[k].present
    BY ExtendStorageIs, ZenonT(60)
<1> HIDE DEF f
<1>2. IsGrown(f, s, u)
    BY <1>1 DEF IsGrown
<1> QED
    BY <1>2 DEF f

\* The account after the block shows the world after it.
LEMMA StepCurrent ==
    ASSUME NEW b, NEW t, NEW m \in DbAccounts, NEW w \in DbAccounts, NEW d \in DbAccounts,
           Merging(b, t, m, w, d), NEW s \in StorageSlots, NEW r, Steps(b, t, s, r), NEW n,
           n = BundleAccountOf(t.info, b.original_info, s, t.status)
    PROVE  /\ n \in BundleAccounts /\ n.info = t.info /\ n.original_info = b.original_info
           /\ n.storage = s /\ n.status = t.status
           /\ Current(View(n), w, d)
<1>m. MergingFacts(b, t, m, w, d)
    BY MergingIs, Zenon
<1>1. /\ n \in BundleAccounts /\ n.info = t.info /\ n.original_info = b.original_info
      /\ n.storage = s /\ n.status = t.status
    BY <1>m, BundleMake DEF MergingFacts
<1>v. /\ View(n) \in CacheAccounts
      /\ View(n).info = t.info /\ View(n).status = t.status
      /\ DOMAIN View(n).storage = DOMAIN s
      /\ \A k \in DOMAIN s : View(n).storage[k] = s[k].present
    BY <1>1, ViewIs
<1>f. Follows(b.status, t.status, t.storage_was_destroyed)
    BY DEF Merging
<1>2. ASSUME NEW k \in Slots PROVE w.storage[k] = Shown(View(n), d, k)
  <2>1. IF k \in DOMAIN t.storage THEN t.storage[k].present = w.storage[k]
        ELSE w.storage[k] = IF t.storage_was_destroyed THEN 0 ELSE m.storage[k]
    BY DEF Merging, Leads
  <2>2. m.storage[k] = IF k \in DOMAIN b.storage THEN b.storage[k].present
                       ELSE IF IsStorageKnown(b.status) THEN 0 ELSE d.storage[k]
    BY <1>m DEF MergingFacts
  <2>3. b.info = None => m.storage[k] = 0
    BY <1>m DEF MergingFacts
  <2>4. t.info = None => w.storage[k] = 0
    BY <1>m DEF MergingFacts
  <2>5. b.status \in {"LoadedEmptyEIP161", "Loaded", "LoadedNotExisting"} => m.storage[k] = d.storage[k]
    BY <1>m DEF MergingFacts
  <2>6. t.status = "InMemoryChange" => d.storage[k] = 0
    BY <1>m DEF Merging, MergingFacts
  <2>7. Shown(View(n), d, k) = IF k \in DOMAIN s THEN s[k].present
                               ELSE IF IsStorageKnown(t.status) THEN 0 ELSE d.storage[k]
    BY <1>v DEF Shown
  <2>8. CASE s = ExtendStorage(b.storage, t.storage) /\ (t.storage_was_destroyed => b.info = None)
    <3>1. /\ DOMAIN s = DOMAIN b.storage \cup DOMAIN t.storage
          /\ k \in DOMAIN s => s[k].present = IF k \in DOMAIN t.storage THEN t.storage[k].present
                                              ELSE b.storage[k].present
      <4>1. b.storage \in StorageSlots /\ t.storage \in StorageSlots
        BY <1>m DEF MergingFacts
      <4>2. IsGrown(s, b.storage, t.storage)
        BY <2>8, <4>1, GrownStorage
      <4> QED
        BY <4>2 DEF IsGrown
    <3>2. CASE k \in DOMAIN s
      BY <2>1, <2>2, <2>3, <2>7, <2>8, <3>1, <3>2
    <3>3. CASE k \notin DOMAIN s
      BY <1>f, <2>1, <2>2, <2>3, <2>6, <2>7, <2>8, <3>1, <3>3
         DEF Follows, IsStorageKnown, WasDestroyed, Active
    <3> QED
      BY <3>2, <3>3
  <2>9. CASE /\ s = t.storage
             /\ t.storage_was_destroyed \/ b.status = "LoadedEmptyEIP161"
    <3>1. t.storage_was_destroyed => WasDestroyed(t.status)
      BY <1>f DEF Follows
    <3> QED
      BY <1>f, <2>1, <2>2, <2>5, <2>6, <2>7, <2>9, <3>1
         DEF Follows, IsStorageKnown, WasDestroyed, Active
  <2>10. CASE s = Empty /\ t.info = None
    <3>1. DOMAIN s = {}
      BY <2>10, EmptyIs
    <3>2. t.status \in Gone
      BY <2>10 DEF Merging, StatusOk
    <3> QED
      BY <2>4, <2>7, <2>10, <3>1, <3>2 DEF Gone, IsStorageKnown, WasDestroyed
  <2> QED
    BY <2>8, <2>9, <2>10 DEF Steps, Grown, Made, Replaced, Dead
<1>3. StatusOk(t.info, t.status) /\ Holds(t.info) = Holds(w.info)
      /\ (t.status = "InMemoryChange" => Asleep(d))
    BY DEF Merging
<1>4. t.status \notin {"Loaded", "LoadedEmptyEIP161", "LoadedNotExisting"}
    BY <1>f DEF Follows, Active
<1>5. Current(View(n), w, d)
    BY <1>v, <1>2, <1>3, <1>4 DEF Current
<1> QED
    BY <1>1, <1>5

\* How a revert gives back the info.
IsInfoRevert(x, b, t) ==
    /\ x \in [kind : {"DoNothing", "DeleteIt", "RevertTo"}, info : {None} \cup Infos]
    /\ x.kind \in {"DoNothing", "RevertTo"}
    /\ x.kind = "DoNothing" => b.info = t.info
    /\ x.kind = "RevertTo" => x.info = b.info

\* It does for an account that exists.
LEMMA InfoRevertIs ==
    ASSUME NEW b, NEW t, b.info \in InfoOrNone, b.info # None
    PROVE  IsInfoRevert(InfoRevert(b, t), b, t)
BY DEF IsInfoRevert, InfoRevert, RevertTo, DoNothing, InfoOrNone

\* The fields of a revert.
LEMMA RevertFields ==
    ASSUME NEW account, NEW storage, NEW status, NEW wipe
    PROVE  LET r == Revert(account, storage, status, wipe)
           IN r.account = account /\ r.storage = storage /\ r.previous_status = status
              /\ r.wipe_storage = wipe
BY DEF Revert

\* The fields of the revert of each step.
StepReverts(b, t, s, r) ==
    /\ r \in AccountReverts /\ r # None
    /\ r.previous_status = b.status
    /\ \/ /\ Grown(b, t, s, r)
          /\ IsInfoRevert(r.account, b, t) /\ r.storage = PreviousStorage(t.storage) /\ ~r.wipe_storage
       \/ /\ Made(b, t, s, r)
          /\ r.account.kind = "DeleteIt" /\ r.account.info = None /\ ~r.wipe_storage
          /\ \A k \in DOMAIN r.storage :
                k \in DOMAIN t.storage /\ r.storage[k] \in {DestroyedSlot, t.storage[k].original}
          /\ \A k \in DOMAIN t.storage \ DOMAIN r.storage : t.storage[k].original = t.storage[k].present
       \/ /\ Replaced(b, t, s, r)
          /\ IsInfoRevert(r.account, b, t) /\ r.storage = SelfdestructedAgain(b.storage, t.storage)
          /\ r.wipe_storage <=> b.status \in NotDestroyedYet

\* Every step has one, unless the account stays away.
LEMMA StepRevertsIs ==
    ASSUME NEW b, NEW t, NEW m \in DbAccounts, NEW w \in DbAccounts, NEW d \in DbAccounts,
           Merging(b, t, m, w, d), NEW s \in StorageSlots, NEW r, Steps(b, t, s, r)
    PROVE  Dead(b, t, s, r) \/ StepReverts(b, t, s, r)
<1>m. MergingFacts(b, t, m, w, d)
    BY MergingIs, Zenon
<1>i. b.info # None => IsInfoRevert(InfoRevert(b, t), b, t)
    BY <1>m, InfoRevertIs DEF MergingFacts
<1>r. ASSUME NEW account \in [kind : {"DoNothing", "DeleteIt", "RevertTo"}, info : {None} \cup Infos],
             NEW storage \in RevertMaps, NEW wipe \in BOOLEAN, r = Revert(account, storage, b.status, wipe)
      PROVE  /\ r \in AccountReverts /\ r # None
             /\ r.account = account /\ r.storage = storage /\ r.previous_status = b.status
             /\ r.wipe_storage = wipe
  <2>1. /\ r.account = account /\ r.storage = storage /\ r.previous_status = b.status
        /\ r.wipe_storage = wipe
    BY <1>r, RevertFields
  <2>2. b.status \in Statuses
    BY <1>m DEF MergingFacts
  <2>3. r \in AccountReverts
    BY <1>r, <2>1, <2>2 DEF AccountReverts, Revert, RevertMaps
  <2> QED
    BY <2>1, <2>3, NoneAssumption
<1>1. CASE Grown(b, t, s, r)
  <2>1. PreviousStorage(t.storage) \in RevertMaps
    BY <1>m, PreviousIs DEF MergingFacts
  <2>2. r = Revert(InfoRevert(b, t), PreviousStorage(t.storage), b.status, FALSE) /\ b.info # None
    BY <1>1 DEF Grown
  <2>3. /\ r \in AccountReverts /\ r # None
        /\ r.account = InfoRevert(b, t) /\ r.storage = PreviousStorage(t.storage)
        /\ r.previous_status = b.status /\ r.wipe_storage = FALSE
    BY <1>i, <1>r, <2>1, <2>2 DEF IsInfoRevert
  <2> QED
    BY <1>1, <1>i, <2>2, <2>3 DEF StepReverts
<1>2. CASE Made(b, t, s, r)
  <2>1. PICK x \in RevertMaps :
          /\ r = Revert(DeleteIt, x, b.status, FALSE)
          /\ \A k \in DOMAIN x : k \in DOMAIN t.storage /\ x[k] \in {DestroyedSlot, t.storage[k].original}
          /\ \A k \in DOMAIN t.storage \ DOMAIN x : t.storage[k].original = t.storage[k].present
    BY <1>2 DEF Made
  <2>2. /\ DeleteIt \in [kind : {"DoNothing", "DeleteIt", "RevertTo"}, info : {None} \cup Infos]
        /\ DeleteIt.kind = "DeleteIt" /\ DeleteIt.info = None
    BY DEF DeleteIt
  <2>3. /\ r \in AccountReverts /\ r # None
        /\ r.account = DeleteIt /\ r.storage = x
        /\ r.previous_status = b.status /\ r.wipe_storage = FALSE
    BY <1>r, <2>1, <2>2
  <2> QED
    BY <1>2, <2>1, <2>2, <2>3 DEF StepReverts
<1>3. CASE Replaced(b, t, s, r)
  <2>1. PICK wipe \in BOOLEAN :
          /\ r = Revert(InfoRevert(b, t), SelfdestructedAgain(b.storage, t.storage), b.status, wipe)
          /\ wipe <=> b.status \in NotDestroyedYet
    BY <1>3 DEF Replaced
  <2>2. SelfdestructedAgain(b.storage, t.storage) \in RevertMaps
    BY <1>m, AgainIs DEF MergingFacts
  <2>3. /\ r \in AccountReverts /\ r # None
        /\ r.account = InfoRevert(b, t) /\ r.storage = SelfdestructedAgain(b.storage, t.storage)
        /\ r.previous_status = b.status /\ r.wipe_storage = wipe
    BY <1>3, <1>i, <1>r, <2>1, <2>2 DEF IsInfoRevert, Replaced
  <2> QED
    BY <1>3, <1>i, <2>1, <2>3 DEF StepReverts, Replaced
<1> QED
    BY <1>1, <1>2, <1>3 DEF Steps

\* A slot of the transition and of its reverts.
SlotFacts(b, t, m, w, k) ==
    /\ k \in DOMAIN t.storage =>
          /\ t.storage[k].present = w.storage[k]
          /\ t.storage[k].original = IF t.storage_was_destroyed THEN 0 ELSE m.storage[k]
    /\ k \notin DOMAIN t.storage =>
          w.storage[k] = IF t.storage_was_destroyed THEN 0 ELSE m.storage[k]
    /\ LET p == PreviousStorage(t.storage)
       IN /\ k \in DOMAIN p <=> k \in DOMAIN t.storage /\ t.storage[k].original # t.storage[k].present
          /\ k \in DOMAIN p => p[k] = t.storage[k].original
    /\ LET g == SelfdestructedAgain(b.storage, t.storage)
       IN /\ k \in DOMAIN g <=> k \in DOMAIN b.storage \/ k \in DOMAIN t.storage
          /\ k \in DOMAIN g => g[k] = IF k \in DOMAIN b.storage THEN b.storage[k].present ELSE DestroyedSlot
    /\ m.storage[k] \in Words /\ w.storage[k] \in Words
    /\ DestroyedSlot \notin Words

\* They follow from what is known of the transition.
LEMMA SlotIs ==
    ASSUME NEW b, NEW t, NEW m \in DbAccounts, NEW w \in DbAccounts, NEW d \in DbAccounts,
           Merging(b, t, m, w, d), NEW k \in Slots
    PROVE  SlotFacts(b, t, m, w, k)
<1>m. MergingFacts(b, t, m, w, d) /\ Leads(t, m, w)
    BY MergingIs, Zenon DEF Merging
<1>1. /\ k \in DOMAIN t.storage =>
            /\ t.storage[k].present = w.storage[k]
            /\ t.storage[k].original = IF t.storage_was_destroyed THEN 0 ELSE m.storage[k]
      /\ k \notin DOMAIN t.storage =>
            w.storage[k] = IF t.storage_was_destroyed THEN 0 ELSE m.storage[k]
    BY <1>m DEF Leads
<1>2. t.storage \in StorageSlots /\ b.storage \in StorageSlots
    BY <1>m DEF MergingFacts
<1>3. LET p == PreviousStorage(t.storage)
      IN /\ k \in DOMAIN p <=> k \in DOMAIN t.storage /\ t.storage[k].original # t.storage[k].present
         /\ k \in DOMAIN p => p[k] = t.storage[k].original
    BY <1>2, PreviousIs
<1>4. LET g == SelfdestructedAgain(b.storage, t.storage)
      IN /\ k \in DOMAIN g <=> k \in DOMAIN b.storage \/ k \in DOMAIN t.storage
         /\ k \in DOMAIN g => g[k] = IF k \in DOMAIN b.storage THEN b.storage[k].present ELSE DestroyedSlot
  <2> DEFINE g == SelfdestructedAgain(b.storage, t.storage)
  <2>1. /\ g \in RevertMaps
        /\ DOMAIN g = DOMAIN b.storage \cup DOMAIN t.storage
        /\ \A x \in DOMAIN g : g[x] = IF x \in DOMAIN b.storage THEN b.storage[x].present ELSE DestroyedSlot
    BY <1>2, AgainIs
  <2> HIDE DEF g
  <2>2. /\ k \in DOMAIN g <=> k \in DOMAIN b.storage \/ k \in DOMAIN t.storage
        /\ k \in DOMAIN g => g[k] = IF k \in DOMAIN b.storage THEN b.storage[k].present ELSE DestroyedSlot
    BY <2>1
  <2> QED
    BY <2>2 DEF g
<1>5. m.storage[k] \in Words /\ w.storage[k] \in Words
    BY DbIs
<1>6. DestroyedSlot \notin Words
    BY BoundsAssumption DEF Words
<1> QED
    BY <1>1, <1>3, <1>4, <1>5, <1>6 DEF SlotFacts

\* A block that leaves nothing to revert left the account as it was.
LEMMA StepSame ==
    ASSUME NEW b, NEW t, NEW m \in DbAccounts, NEW w \in DbAccounts, NEW d \in DbAccounts,
           Merging(b, t, m, w, d), NEW s \in StorageSlots, NEW r, Steps(b, t, s, r),
           r = None \/ IsEmptyRevert(r)
    PROVE  SameAccount(w, m)
<1>m. MergingFacts(b, t, m, w, d) /\ Leads(t, m, w) /\ Holds(t.info) = Holds(w.info)
    BY MergingIs, Zenon DEF Merging
<1>b. Holds(b.info) = Holds(m.info)
    BY <1>m DEF MergingFacts
<1>1. CASE Dead(b, t, s, r)
  <2>1. \A k \in Slots : m.storage[k] = 0 /\ w.storage[k] = 0
    BY <1>1, <1>m DEF Dead, MergingFacts
  <2> QED
    BY <1>1, <1>m, <1>b, <2>1, SameIs DEF Dead
<1>2. CASE StepReverts(b, t, s, r)
  <2>1. IsEmptyRevert(r)
    BY <1>2 DEF StepReverts
  <2>2. r.account.kind = "DoNothing" /\ DOMAIN r.storage = {} /\ ~r.wipe_storage
    BY <2>1 DEF IsEmptyRevert
  <2>3. ~Made(b, t, s, r) /\ b.info = t.info
    BY <1>2, <2>2 DEF StepReverts, IsInfoRevert, Made, Grown, Replaced
  <2>4. Holds(w.info) = Holds(m.info)
    BY <1>m, <1>b, <2>3
  <2>5. ASSUME NEW k \in Slots PROVE w.storage[k] = m.storage[k]
    <3>k. SlotFacts(b, t, m, w, k)
      BY SlotIs, Zenon
    <3>1. CASE Grown(b, t, s, r)
      <4>1. r.storage = PreviousStorage(t.storage) /\ ~t.storage_was_destroyed
        BY <1>2, <3>1 DEF StepReverts, Grown, Made, Replaced
      <4>2. k \notin DOMAIN PreviousStorage(t.storage)
        BY <2>2, <4>1
      <4> QED
        BY <3>k, <4>1, <4>2 DEF SlotFacts
    <3>2. CASE Replaced(b, t, s, r)
      <4>1. r.storage = SelfdestructedAgain(b.storage, t.storage) /\ t.storage_was_destroyed
            /\ b.status \notin NotDestroyedYet /\ b.info # None
        BY <1>2, <2>2, <3>2 DEF StepReverts, Grown, Made, Replaced
      <4>2. k \notin DOMAIN SelfdestructedAgain(b.storage, t.storage)
        BY <2>2, <4>1
      <4>3. k \notin DOMAIN t.storage /\ k \notin DOMAIN b.storage /\ w.storage[k] = 0
        BY <3>k, <4>1, <4>2 DEF SlotFacts
      <4>4. IsStorageKnown(b.status)
        BY <1>m, <4>1 DEF MergingFacts, IsStorageKnown, WasDestroyed, Statuses, NotDestroyedYet
      <4>5. m.storage[k] = 0
        BY <1>m, <4>3, <4>4 DEF MergingFacts
      <4> QED
        BY <4>3, <4>5
    <3> QED
      BY <1>2, <2>3, <3>1, <3>2 DEF StepReverts
  <2> QED
    BY <2>4, <2>5, SameIs
<1> QED
    BY <1>1, <1>2, StepRevertsIs

\* The original values of the bundle stay those of the database.
LEMMA StepOriginal ==
    ASSUME NEW b, NEW t, NEW m \in DbAccounts, NEW w \in DbAccounts, NEW d \in DbAccounts,
           Merging(b, t, m, w, d), NEW s \in StorageSlots, NEW r, Steps(b, t, s, r), NEW n,
           n.original_info = b.original_info, n.storage = s, n.status = t.status, OriginalOk(b, d)
    PROVE  OriginalOk(n, d)
<1>m. MergingFacts(b, t, m, w, d)
    BY MergingIs, Zenon
<1>f. Follows(b.status, t.status, t.storage_was_destroyed) /\ StatusOk(t.info, t.status)
      /\ (t.status = "InMemoryChange" => Asleep(d))
    BY DEF Merging
<1>1. ASSUME ~WasDestroyed(t.status), NEW k \in DOMAIN s PROVE s[k].original = d.storage[k]
  <2>1. /\ t.status \in {"Changed", "InMemoryChange"} /\ ~WasDestroyed(b.status)
        /\ ~t.storage_was_destroyed /\ t.info # None
    BY <1>1, <1>f, <1>m DEF Follows, Active, WasDestroyed, StatusOk, Gone
  <2>2. Grown(b, t, s, r) \/ Made(b, t, s, r)
    BY <2>1 DEF Steps, Replaced, Dead
  <2>3. k \in DOMAIN b.storage => b.storage[k].original = d.storage[k]
    BY <2>1 DEF OriginalOk
  <2>4. ASSUME k \in Slots, k \in DOMAIN t.storage, k \notin DOMAIN b.storage \/ b.status = "LoadedEmptyEIP161"
        PROVE  t.storage[k].original = d.storage[k]
    <3>1. SlotFacts(b, t, m, w, k)
      BY <2>4, SlotIs, Zenon
    <3>2. t.storage[k].original = m.storage[k]
      BY <2>1, <2>4, <3>1 DEF SlotFacts
    <3>3. CASE b.status \in {"Loaded", "LoadedEmptyEIP161", "LoadedNotExisting"}
      BY <1>m, <2>4, <3>2, <3>3 DEF MergingFacts
    <3>4. CASE b.status = "InMemoryChange"
      BY <1>m, <2>4, <3>2, <3>4 DEF MergingFacts, IsStorageKnown
    <3>5. CASE b.status = "Changed"
      BY <1>m, <2>4, <3>2, <3>5 DEF MergingFacts, IsStorageKnown, WasDestroyed
    <3> QED
      BY <1>m, <2>1, <3>3, <3>4, <3>5 DEF MergingFacts, Statuses, WasDestroyed
  <2>5. k \in DOMAIN t.storage => k \in Slots
    BY <1>m DEF MergingFacts
  <2>6. CASE s = ExtendStorage(b.storage, t.storage)
    <3>1. IsGrown(s, b.storage, t.storage)
      BY <1>m, <2>6, GrownStorage DEF MergingFacts
    <3> QED
      BY <2>3, <2>4, <2>5, <3>1 DEF IsGrown
  <2>7. CASE s = t.storage /\ b.status = "LoadedEmptyEIP161"
    BY <2>4, <2>5, <2>7
  <2> QED
    BY <2>2, <2>6, <2>7 DEF Grown, Made
<1> QED
    BY <1>1 DEF OriginalOk

\* What a revert makes of a storage.
RevertedStorage(s, p) ==
    LET gone  == {k \in DOMAIN p : p[k] = DestroyedSlot}
        back  == [k \in DOMAIN p \ gone |-> [original |-> p[k], present |-> p[k]]]
        whole == ExtendStorage(s, back)
    IN Restrict(whole, DOMAIN whole \ gone)

\* The storage x is s with the values p put back.
IsReverted(x, s, p) ==
    /\ x \in StorageSlots
    /\ \A k : k \in DOMAIN x <=> /\ k \in DOMAIN s \/ k \in DOMAIN p
                                 /\ k \in DOMAIN p => p[k] # DestroyedSlot
    /\ \A k \in DOMAIN x : x[k].present = IF k \in DOMAIN p THEN p[k] ELSE s[k].present

\* The slots of the revert get its values, or go.
LEMMA RevertedStorageIs ==
    ASSUME NEW s \in StorageSlots, NEW p \in RevertMaps
    PROVE  IsReverted(RevertedStorage(s, p), s, p)
<1> DEFINE gone  == {k \in DOMAIN p : p[k] = DestroyedSlot}
           back  == [k \in DOMAIN p \ gone |-> [original |-> p[k], present |-> p[k]]]
           whole == ExtendStorage(s, back)
           x == RevertedStorage(s, p)
<1>1. DOMAIN p \subseteq Slots /\ p \in [DOMAIN p -> Words \cup {DestroyedSlot}]
    BY MapIs DEF RevertMaps
<1>2. /\ DOMAIN back = {k \in DOMAIN p : p[k] # DestroyedSlot}
      /\ \A k \in DOMAIN back : back[k].original = p[k] /\ back[k].present = p[k]
      /\ back \in [DOMAIN back -> SlotPairs]
    BY <1>1 DEF SlotPairs
<1> HIDE DEF back
<1>3. back \in StorageSlots
    BY <1>1, <1>2, MapIs DEF StorageSlots, SlotPairs
<1>4. whole \in StorageSlots
    BY <1>3, ExtendStorageIs
<1>5. IsGrown(whole, s, back)
    BY <1>3, GrownStorage
<1>6. x = Restrict(whole, DOMAIN whole \ gone)
    BY DEF RevertedStorage, back
<1> DEFINE S == DOMAIN whole \ gone
<1> HIDE DEF whole, x
<1>7. S \subseteq DOMAIN whole
    OBVIOUS
<1>8. x \in StorageSlots /\ DOMAIN x = S /\ \A k \in S : x[k] = whole[k]
  <2> HIDE DEF S
  <2> QED
    BY <1>4, <1>6, <1>7, RestrictIs DEF StorageSlots, S
<1>9. \A k \in DOMAIN x : x[k].present = IF k \in DOMAIN p THEN p[k] ELSE s[k].present
    BY <1>2, <1>5, <1>8 DEF IsGrown
<1>10. \A k : k \in DOMAIN x <=> /\ k \in DOMAIN s \/ k \in DOMAIN p
                                 /\ k \in DOMAIN p => p[k] # DestroyedSlot
    BY <1>2, <1>5, <1>8 DEF IsGrown
<1>11. IsReverted(x, s, p)
    BY <1>8, <1>9, <1>10 DEF IsReverted
<1> QED
    BY <1>11 DEF x

\* An account with the info and the status of b that shows the same.
LEMMA CurrentLike ==
    ASSUME NEW b, NEW t, NEW m \in DbAccounts, NEW w \in DbAccounts, NEW d \in DbAccounts,
           Merging(b, t, m, w, d), NEW x \in BundleAccounts, x.info = b.info, x.status = b.status,
           \A k \in Slots : m.storage[k] = IF k \in DOMAIN x.storage THEN x.storage[k].present
                                           ELSE IF IsStorageKnown(x.status) THEN 0 ELSE d.storage[k]
    PROVE  Current(View(x), m, d)
<1>1. b \in BundleAccounts /\ Current(View(b), m, d)
    BY DEF Merging
<1>2. /\ View(b).info = b.info /\ View(b).status = b.status
    BY <1>1, ViewIs
<1>3. /\ View(x) \in CacheAccounts
      /\ View(x).info = b.info /\ View(x).status = b.status
      /\ DOMAIN View(x).storage = DOMAIN x.storage
      /\ \A k \in DOMAIN x.storage : View(x).storage[k] = x.storage[k].present
    BY ViewIs
<1>4. \A k \in Slots : m.storage[k] = Shown(View(x), d, k)
    BY <1>3 DEF Shown
<1> QED
    BY <1>1, <1>2, <1>3, <1>4 DEF Current

\* What an account of the bundle is after a revert, None if it is out.
RevertedOk(x, m, d) ==
    IF x = None THEN SameAccount(m, d)
    ELSE x \in BundleAccounts /\ x.status # "LoadedNotExisting" /\ Current(View(x), m, d)

\* The revert of a step gives back the account before it.
LEMMA StepReverted ==
    ASSUME NEW b, NEW t, NEW m \in DbAccounts, NEW w \in DbAccounts, NEW d \in DbAccounts,
           Merging(b, t, m, w, d), NEW s \in StorageSlots, NEW r, StepReverts(b, t, s, r), NEW n \in BundleAccounts,
           n.info = t.info, n.original_info = b.original_info, n.storage = s, n.status = t.status,
           Holds(b.original_info) = Holds(d.info),
           b.status = "LoadedNotExisting" => b.original_info = None
    PROVE  RevertedOk(Reverted(n, r), m, d)
<1> DEFINE x == Reverted(n, r)
<1>m. MergingFacts(b, t, m, w, d)
    BY MergingIs, Zenon
<1>r. r.previous_status = b.status
    BY DEF StepReverts
<1>g. b.info = None <=> b.status \in Gone
    BY <1>m DEF MergingFacts, StatusOk
<1>1. CASE Made(b, t, s, r)
  <2>1. r.account.kind = "DeleteIt" /\ b.info = None
    BY <1>1 DEF StepReverts, Grown, Replaced, Made
  <2>2. \A k \in Slots : m.storage[k] = 0
    BY <1>m, <2>1 DEF MergingFacts
  <2>3. CASE b.original_info = None
    <3>1. x = None
      BY <2>1, <2>3 DEF Reverted
    <3>2. Holds(m.info) = Holds(d.info)
      BY <1>m, <2>1, <2>3 DEF MergingFacts
    <3>3. d.info = None
      <4>1. d.info \in InfoOrNone /\ None \in InfoOrNone
        BY DbIs DEF InfoOrNone
      <4> QED
        BY <2>3, <4>1, HoldsIs
    <3>4. \A k \in Slots : d.storage[k] = 0
      BY <3>3, DbIs DEF Asleep
    <3> QED
      BY <2>2, <3>1, <3>2, <3>4, SameIs DEF RevertedOk
  <2>4. CASE b.original_info # None
    <3> DEFINE z == [k \in DOMAIN s |-> [s[k] EXCEPT !.present = 0]]
    <3>1. x = [n EXCEPT !.status = b.status, !.info = None, !.storage = z]
      BY <2>1, <2>4, <1>r DEF Reverted
    <3>2. DOMAIN s \subseteq Slots /\ s \in [DOMAIN s -> SlotPairs]
      BY MapIs DEF StorageSlots, SlotPairs
    <3>3. z \in [DOMAIN s -> SlotPairs] /\ DOMAIN z = DOMAIN s /\ \A k \in DOMAIN s : z[k].present = 0
      BY <3>2 DEF SlotPairs, Words
    <3>4. z \in StorageSlots
      BY <3>2, <3>3, MapIs DEF StorageSlots, SlotPairs
    <3> HIDE DEF z
    <3>5. x \in BundleAccounts /\ x.info = b.info /\ x.status = b.status /\ x.storage = z
      BY <1>m, <2>1, <3>1, <3>4 DEF BundleAccounts, MergingFacts
    <3> HIDE DEF x
    <3>6. b.status # "LoadedNotExisting"
      BY <2>4
    <3>7. IsStorageKnown(x.status)
      BY <1>g, <2>1, <3>5 DEF Gone, IsStorageKnown, WasDestroyed
    <3>8. Current(View(x), m, d)
      BY <2>2, <3>3, <3>5, <3>7, CurrentLike
    <3> QED
      BY <3>5, <3>6, <3>8, BundleIs DEF RevertedOk, x
  <2> QED
    BY <2>3, <2>4
<1>2. CASE ~Made(b, t, s, r)
  <2>1. IsInfoRevert(r.account, b, t) /\ b.info # None
    BY <1>2 DEF StepReverts, Grown, Replaced
  <2> DEFINE i == IF r.account.kind = "RevertTo" THEN r.account.info ELSE n.info
             y == RevertedStorage(s, r.storage)
  <2>2. x = [n EXCEPT !.status = b.status, !.info = i, !.storage = y]
    BY <1>r, <2>1 DEF Reverted, IsInfoRevert, RevertedStorage
  <2>3. i = b.info
    BY <2>1 DEF IsInfoRevert
  <2>4. r.storage \in RevertMaps
    BY DEF StepReverts, AccountReverts, RevertMaps
  <2>5. IsReverted(y, s, r.storage)
    BY <2>4, RevertedStorageIs
  <2>6. y \in StorageSlots
    BY <2>5 DEF IsReverted
  <2> HIDE DEF i, y
  <2>7. x \in BundleAccounts /\ x.info = b.info /\ x.status = b.status /\ x.storage = y
    BY <1>m, <2>2, <2>3, <2>6 DEF BundleAccounts, MergingFacts, InfoOrNone
  <2> HIDE DEF x
  <2>8. b.status # "LoadedNotExisting"
    BY <1>g, <2>1 DEF Gone
  <2>9. ASSUME NEW k \in Slots
        PROVE  m.storage[k] = IF k \in DOMAIN y THEN y[k].present
                              ELSE IF IsStorageKnown(b.status) THEN 0 ELSE d.storage[k]
    <3>k. SlotFacts(b, t, m, w, k)
      BY SlotIs, Zenon
    <3>m. m.storage[k] = IF k \in DOMAIN b.storage THEN b.storage[k].present
                         ELSE IF IsStorageKnown(b.status) THEN 0 ELSE d.storage[k]
      BY <1>m DEF MergingFacts
    <3>y. /\ k \in DOMAIN y <=> /\ k \in DOMAIN s \/ k \in DOMAIN r.storage
                                /\ k \in DOMAIN r.storage => r.storage[k] # DestroyedSlot
          /\ k \in DOMAIN y => y[k].present = IF k \in DOMAIN r.storage THEN r.storage[k] ELSE s[k].present
      BY <2>5 DEF IsReverted
    <3>1. CASE Grown(b, t, s, r)
      <4>1. r.storage = PreviousStorage(t.storage) /\ ~t.storage_was_destroyed
        BY <3>1 DEF StepReverts, Grown, Made, Replaced
      <4>2. CASE k \in DOMAIN t.storage
        <5>1. k \in DOMAIN s /\ s[k].present = t.storage[k].present
          <6>1. CASE s = t.storage
            BY <4>2, <6>1
          <6>2. CASE s = ExtendStorage(b.storage, t.storage)
            <7>1. IsGrown(s, b.storage, t.storage)
              BY <1>m, <6>2, GrownStorage DEF MergingFacts
            <7> QED
              BY <4>2, <7>1 DEF IsGrown
          <6> QED
            BY <3>1, <6>1, <6>2 DEF Grown
        <5> QED
          BY <3>k, <3>y, <4>1, <4>2, <5>1 DEF SlotFacts
      <4>3. CASE k \notin DOMAIN t.storage
        <5>1. k \notin DOMAIN r.storage
          BY <3>k, <4>1, <4>3 DEF SlotFacts
        <5>2. CASE s = ExtendStorage(b.storage, t.storage)
          <6>1. IsGrown(s, b.storage, t.storage)
            BY <1>m, <5>2, GrownStorage DEF MergingFacts
          <6> QED
            BY <3>m, <3>y, <4>3, <5>1, <6>1 DEF IsGrown
        <5>3. CASE s = t.storage /\ b.status = "LoadedEmptyEIP161"
          <6>1. m.storage[k] = d.storage[k]
            BY <1>m, <5>3 DEF MergingFacts
          <6> QED
            BY <3>y, <4>3, <5>1, <5>3, <6>1 DEF IsStorageKnown, WasDestroyed
        <5> QED
          BY <3>1, <5>2, <5>3 DEF Grown
      <4> QED
        BY <4>2, <4>3
    <3>2. CASE Replaced(b, t, s, r)
      <4>1. r.storage = SelfdestructedAgain(b.storage, t.storage) /\ s = t.storage
        BY <3>2 DEF StepReverts, Grown, Made, Replaced
      <4> QED
        BY <3>k, <3>m, <3>y, <4>1 DEF SlotFacts
    <3> QED
      BY <1>2, <3>1, <3>2 DEF StepReverts
  <2>10. Current(View(x), m, d)
    BY <2>7, <2>9, CurrentLike
  <2> QED
    BY <2>7, <2>8, <2>10, BundleIs DEF RevertedOk, x
<1> QED
    BY <1>1, <1>2

\* The plain revert of a step gives a database that was written to what it had before.
LEMMA StepUnwound ==
    ASSUME NEW b, NEW t, NEW m \in DbAccounts, NEW w \in DbAccounts, NEW d \in DbAccounts,
           Merging(b, t, m, w, d), NEW s \in StorageSlots, NEW r, StepReverts(b, t, s, r)
    PROVE  SameAccount(UnwoundAccount(w, d, PlainRevert(r)), m)
<1> DEFINE p == PlainRevert(r)
           u == UnwoundAccount(w, d, p)
           before(k) == IF k \in DOMAIN p.storage /\ p.storage[k] # DestroyedSlot THEN p.storage[k]
                        ELSE IF p.wiped THEN d.storage[k] ELSE 0
           f == [k \in Slots |-> IF p.wiped \/ k \in DOMAIN p.storage THEN before(k) ELSE w.storage[k]]
<1>m. MergingFacts(b, t, m, w, d) /\ Holds(t.info) = Holds(w.info)
    BY MergingIs, Zenon DEF Merging
<1>b. Holds(b.info) = Holds(m.info)
    BY <1>m DEF MergingFacts
<1>g. b.info = None <=> b.status \in Gone
    BY <1>m DEF MergingFacts, StatusOk
<1>p. /\ p.writeInfo <=> r.account.kind # "DoNothing"
      /\ p.info = r.account.info /\ p.wiped = r.wipe_storage /\ p.storage = r.storage
    BY DEF PlainRevert
<1> HIDE DEF p
<1>u. u.info = (IF p.writeInfo THEN p.info ELSE w.info) /\ u.storage = f
    BY DEF UnwoundAccount
<1>i. Holds(u.info) = Holds(m.info)
  <2>1. CASE Made(b, t, s, r)
    <3>1. r.account.kind = "DeleteIt" /\ r.account.info = None /\ b.info = None
      BY <2>1 DEF StepReverts, Grown, Replaced, Made
    <3> QED
      BY <1>b, <1>p, <1>u, <3>1
  <2>2. CASE ~Made(b, t, s, r)
    <3>1. IsInfoRevert(r.account, b, t)
      BY <2>2 DEF StepReverts
    <3> QED
      BY <1>m, <1>b, <1>p, <1>u, <3>1 DEF IsInfoRevert
  <2> QED
    BY <2>1, <2>2
<1>s. ASSUME NEW k \in Slots PROVE f[k] = m.storage[k]
  <2>k. SlotFacts(b, t, m, w, k)
    BY SlotIs, Zenon
  <2>m. m.storage[k] = IF k \in DOMAIN b.storage THEN b.storage[k].present
                       ELSE IF IsStorageKnown(b.status) THEN 0 ELSE d.storage[k]
    BY <1>m DEF MergingFacts
  <2>f. f[k] = IF r.wipe_storage \/ k \in DOMAIN r.storage
               THEN IF k \in DOMAIN r.storage /\ r.storage[k] # DestroyedSlot THEN r.storage[k]
                    ELSE IF r.wipe_storage THEN d.storage[k] ELSE 0
               ELSE w.storage[k]
    BY <1>p
  <2> HIDE DEF f
  <2>1. CASE Grown(b, t, s, r)
    <3>1. r.storage = PreviousStorage(t.storage) /\ ~t.storage_was_destroyed /\ ~r.wipe_storage
      BY <2>1 DEF StepReverts, Grown, Made, Replaced
    <3> QED
      BY <2>k, <2>f, <3>1 DEF SlotFacts
  <2>2. CASE Made(b, t, s, r)
    <3>1. /\ ~r.wipe_storage /\ b.info = None
          /\ k \in DOMAIN r.storage =>
                k \in DOMAIN t.storage /\ r.storage[k] \in {DestroyedSlot, t.storage[k].original}
          /\ k \in DOMAIN t.storage /\ k \notin DOMAIN r.storage =>
                t.storage[k].original = t.storage[k].present
      BY <2>2 DEF StepReverts, Grown, Made, Replaced
    <3>2. m.storage[k] = 0
      BY <1>m, <3>1 DEF MergingFacts
    <3> QED
      BY <2>k, <2>f, <3>1, <3>2 DEF SlotFacts
  <2>3. CASE Replaced(b, t, s, r)
    <3>1. /\ r.storage = SelfdestructedAgain(b.storage, t.storage)
          /\ t.storage_was_destroyed /\ b.info # None
          /\ r.wipe_storage <=> b.status \in NotDestroyedYet
      BY <2>3 DEF StepReverts, Grown, Made, Replaced
    <3>2. b.storage[k] = b.storage[k] /\ (k \in DOMAIN b.storage => m.storage[k] = b.storage[k].present)
      BY <2>m
    <3>3. CASE r.wipe_storage
      <4>1. k \notin DOMAIN b.storage => m.storage[k] = d.storage[k]
        BY <1>m, <2>m, <3>1, <3>3 DEF MergingFacts, NotDestroyedYet, IsStorageKnown, WasDestroyed
      <4> QED
        BY <2>k, <2>f, <3>1, <3>2, <3>3, <4>1 DEF SlotFacts
    <3>4. CASE ~r.wipe_storage
      <4>1. IsStorageKnown(b.status)
        BY <1>m, <3>1, <3>4 DEF MergingFacts, NotDestroyedYet, IsStorageKnown, WasDestroyed, Statuses
      <4> QED
        BY <2>k, <2>m, <2>f, <3>1, <3>2, <3>4, <4>1 DEF SlotFacts
    <3> QED
      BY <3>3, <3>4
  <2> QED
    BY <2>1, <2>2, <2>3 DEF StepReverts
<1>1. f = m.storage
  <2>1. m.storage \in [Slots -> Words]
    BY DbIs DEF Storages
  <2>2. DOMAIN f = Slots /\ f = [k \in Slots |-> f[k]]
    OBVIOUS
  <2> HIDE DEF f
  <2> QED
    BY <1>s, <2>1, <2>2
<1> QED
    BY <1>i, <1>u, <1>1 DEF SameAccount, p

\* A transition of an account that the bundle does not have.
LEMMA OriginalIs ==
    ASSUME NEW t \in TransitionAccounts
    PROVE  LET b == OriginalBundleAccount(t)
           IN /\ b \in BundleAccounts /\ b.info = t.previous_info /\ b.original_info = t.previous_info
              /\ b.storage = Empty /\ b.status = t.previous_status
              /\ View(b) = [info |-> t.previous_info, storage |-> Empty, status |-> t.previous_status]
<1>1. Empty \in StorageSlots
    BY EmptyIs DEF StorageSlots
<1>2. LET b == OriginalBundleAccount(t)
      IN /\ b \in BundleAccounts /\ b.info = t.previous_info /\ b.original_info = t.previous_info
         /\ b.storage = Empty /\ b.status = t.previous_status
    BY <1>1, TransitionIs, BundleMake DEF OriginalBundleAccount
<1>3. Present(Empty) = Empty
    BY DEF Present, Empty
<1> QED
    BY <1>2, <1>3 DEF View

\* What a transition makes of the account of an address, and the revert.
Applied(u, state, a, t, m, w, d) ==
    LET b == IF a \in DOMAIN state THEN state[a] ELSE OriginalBundleAccount(t)
    IN /\ ~u.panic
       /\ u.account = None => a \notin DOMAIN state /\ u.revert = None
       /\ u.account # None =>
             /\ u.account \in BundleAccounts /\ u.account.status = t.status
             /\ Current(View(u.account), w, d)
             /\ OriginalOk(b, d) => OriginalOk(u.account, d)
       /\ u.revert = None => SameAccount(w, m) /\ ~(b.status \in NotDestroyedYet /\ WasDestroyed(t.status))
       /\ u.revert # None =>
             /\ u.revert.wipe_storage => WasDestroyed(t.status)
             /\ Holds(b.original_info) = Holds(d.info) => RevertedOk(Reverted(u.account, u.revert), m, d)
             /\ SameAccount(UnwoundAccount(w, d, PlainRevert(u.revert)), m)

\* apply_transitions_and_create_reverts, for one account.
LEMMA AppliedIs ==
    ASSUME NEW state, NEW a, NEW t, NEW m \in DbAccounts, NEW w \in DbAccounts, NEW d \in DbAccounts,
           NEW b, b = IF a \in DOMAIN state THEN state[a] ELSE OriginalBundleAccount(t),
           Merging(b, t, m, w, d),
           a \in DOMAIN state => b.status # "LoadedNotExisting"
    PROVE  Applied(AppliedTransition(state, a, t), state, a, t, m, w, d)
<1> DEFINE u == UpdateAndCreateRevert(b, t)
           v == AppliedTransition(state, a, t)
<1>m. MergingFacts(b, t, m, w, d)
    BY MergingIs, Zenon
<1>t. t \in TransitionAccounts /\ b \in BundleAccounts
    BY DEF Merging
<1>o. a \notin DOMAIN state => b.storage = Empty /\ b.original_info = b.info /\ b.original_info = t.previous_info
    BY <1>t, OriginalIs
<1>l. b.status = "LoadedNotExisting" => b.original_info = None
    BY <1>m, <1>o DEF MergingFacts, StatusOk, Gone
<1>v. v = IF a \in DOMAIN state THEN u
          ELSE [u EXCEPT !.account = IF u.revert = None THEN None ELSE PresentBundleAccount(t)]
    BY DEF AppliedTransition
<1>w. ASSUME NEW x, NEW y, u = [account |-> x, revert |-> y, panic |-> FALSE]
      PROVE  /\ ~v.panic /\ v.revert = y
             /\ a \in DOMAIN state => v.account = x
             /\ a \notin DOMAIN state => v.account = IF y = None THEN None ELSE PresentBundleAccount(t)
  <2> HIDE DEF u, v
  <2>1. CASE a \in DOMAIN state
    BY <1>v, <1>w, <2>1
  <2>2. CASE a \notin DOMAIN state
    <3> DEFINE z == IF y = None THEN None ELSE PresentBundleAccount(t)
    <3>1. u.revert = y
      BY <1>w
    <3>2. v = [u EXCEPT !.account = z]
      BY <1>v, <2>2, <3>1
    <3> HIDE DEF z
    <3>3. v.account = z /\ v.revert = y /\ ~v.panic
      BY <1>w, <3>2
    <3> QED
      BY <2>2, <3>3 DEF z
  <2> QED
    BY <2>1, <2>2
<1>1. CASE /\ b.status = "LoadedNotExisting" /\ t.status = "Destroyed"
           /\ u = [account |-> BundleAccountOf(b.info, b.original_info, Empty, b.status),
                   revert |-> None, panic |-> FALSE]
  <2>1. a \notin DOMAIN state
    BY <1>1
  <2>2. ~v.panic /\ v.revert = None /\ v.account = None
    BY <1>1, <1>w, <2>1
  <2>3. b.info = None /\ t.info = None
    BY <1>1, <1>m DEF MergingFacts, Merging, StatusOk, Gone
  <2>4. SameAccount(w, m)
    <3>1. Holds(w.info) = Holds(m.info)
      BY <1>m, <2>3 DEF MergingFacts, Merging
    <3>2. \A k \in Slots : w.storage[k] = m.storage[k]
      BY <1>m, <2>3 DEF MergingFacts
    <3> QED
      BY <3>1, <3>2, SameIs
  <2> HIDE DEF v
  <2>5. Applied(v, state, a, t, m, w, d)
    BY <1>1, <2>1, <2>2, <2>4 DEF Applied, NotDestroyedYet
  <2> QED
    BY <2>5 DEF v
<1>2. CASE \E s \in StorageSlots : \E r :
              /\ Steps(b, t, s, r)
              /\ u = [account |-> BundleAccountOf(t.info, b.original_info, s, t.status),
                      revert |-> IF r # None /\ IsEmptyRevert(r) THEN None ELSE r,
                      panic |-> FALSE]
  <2>0. PICK s \in StorageSlots : \E r :
              /\ Steps(b, t, s, r)
              /\ u = [account |-> BundleAccountOf(t.info, b.original_info, s, t.status),
                      revert |-> IF r # None /\ IsEmptyRevert(r) THEN None ELSE r,
                      panic |-> FALSE]
    BY <1>2
  <2>1. PICK r :
              /\ Steps(b, t, s, r)
              /\ u = [account |-> BundleAccountOf(t.info, b.original_info, s, t.status),
                      revert |-> IF r # None /\ IsEmptyRevert(r) THEN None ELSE r,
                      panic |-> FALSE]
    BY <2>0
  <2> DEFINE n == BundleAccountOf(t.info, b.original_info, s, t.status)
             y == IF r # None /\ IsEmptyRevert(r) THEN None ELSE r
  <2>2. /\ ~v.panic /\ v.revert = y
        /\ a \in DOMAIN state => v.account = n
        /\ a \notin DOMAIN state => v.account = IF y = None THEN None ELSE PresentBundleAccount(t)
    BY <2>1, <1>w
  <2>3. y # None => StepReverts(b, t, s, r) /\ y = r
    BY <2>1, StepRevertsIs DEF Dead
  <2>4. y # None /\ a \notin DOMAIN state => PresentBundleAccount(t) = n
    <3> SUFFICES ASSUME y # None, a \notin DOMAIN state PROVE PresentBundleAccount(t) = n
      OBVIOUS
    <3>1. b.storage \in StorageSlots /\ t.storage \in StorageSlots /\ DOMAIN b.storage = {}
      BY <1>m, <1>o, EmptyIs DEF MergingFacts
    <3>2. ExtendStorage(b.storage, t.storage) = t.storage
      BY <3>1, ExtendEmpty
    <3>3. s = t.storage
      BY <2>3, <3>2 DEF StepReverts, Grown, Made, Replaced
    <3> QED
      BY <1>o, <3>3 DEF PresentBundleAccount
  <2>5. /\ n \in BundleAccounts /\ n.info = t.info /\ n.original_info = b.original_info
        /\ n.storage = s /\ n.status = t.status
        /\ Current(View(n), w, d)
    <3> HIDE DEF n
    <3> QED
      BY <2>1, StepCurrent DEF n
  <2> HIDE DEF n, y, v, u
  <2>6. OriginalOk(b, d) => OriginalOk(n, d)
    BY <2>1, <2>5, StepOriginal
  <2>7. n # None
    BY <2>5, BundleIs
  <2>8. y = None => SameAccount(w, m)
    BY <2>1, StepSame DEF y
  <2>z. y = None => ~(b.status \in NotDestroyedYet /\ WasDestroyed(t.status))
    <3> SUFFICES ASSUME y = None, b.status \in NotDestroyedYet, WasDestroyed(t.status) PROVE FALSE
      OBVIOUS
    <3>1. b.info # None
      BY <1>m DEF MergingFacts, StatusOk, NotDestroyedYet, Gone
    <3>2. t.storage_was_destroyed
      BY DEF Merging, Follows, NotDestroyedYet, WasDestroyed
    <3>3. StepReverts(b, t, s, r)
      BY <2>1, <3>1, StepRevertsIs DEF Dead
    <3>4. r # None /\ r.wipe_storage
      BY <3>1, <3>2, <3>3 DEF StepReverts, Grown, Made
    <3> QED
      BY <3>4 DEF y, IsEmptyRevert
  <2>9. ASSUME y # None
        PROVE  /\ y.wipe_storage => WasDestroyed(t.status)
               /\ Holds(b.original_info) = Holds(d.info) => RevertedOk(Reverted(n, y), m, d)
               /\ SameAccount(UnwoundAccount(w, d, PlainRevert(y)), m)
    <3>1. StepReverts(b, t, s, r) /\ y = r
      BY <2>3, <2>9
    <3>2. r.wipe_storage => WasDestroyed(t.status)
      BY <3>1 DEF StepReverts, Replaced, Merging, Follows
    <3>3. Holds(b.original_info) = Holds(d.info) => RevertedOk(Reverted(n, r), m, d)
      BY <1>l, <2>5, <3>1, StepReverted
    <3>4. SameAccount(UnwoundAccount(w, d, PlainRevert(r)), m)
      BY <3>1, StepUnwound
    <3> QED
      BY <3>1, <3>2, <3>3, <3>4
  <2>10. /\ v.account = None => a \notin DOMAIN state /\ y = None
         /\ v.account # None => v.account = n
         /\ y # None => v.account = n
    BY <2>2, <2>4, <2>7
  <2>11. Applied(v, state, a, t, m, w, d)
    BY <2>2, <2>5, <2>6, <2>8, <2>9, <2>10, <2>z DEF Applied
  <2> QED
    BY <2>11 DEF v
<1> QED
    BY <1>1, <1>2, UpdateIs

-----------------------------------------------------------------------------
(* Bundles on top of one another                                           *)

\* Databases that are the same are so under every account.
LEMMA CurrentOver ==
    ASSUME NEW c, NEW w \in DbAccounts, NEW d \in DbAccounts, NEW e \in DbAccounts,
           Current(c, w, d), SameAccount(d, e)
    PROVE  Current(c, w, e)
<1>1. /\ \A k \in Slots : d.storage[k] = e.storage[k]
      /\ Asleep(d) <=> Asleep(e)
    BY SameIs
<1>2. \A k \in Slots : Shown(c, d, k) = Shown(c, e, k)
    BY <1>1 DEF Shown
<1> QED
    BY <1>1, <1>2 DEF Current, SameAccount

\* What an account of a bundle shows.
LEMMA ViewCurrent ==
    ASSUME NEW b \in BundleAccounts, NEW w \in DbAccounts, NEW d \in DbAccounts
    PROVE  Current(View(b), w, d) <=>
              /\ StatusOk(b.info, b.status)
              /\ Holds(b.info) = Holds(w.info)
              /\ \A k \in Slots : w.storage[k] = IF k \in DOMAIN b.storage THEN b.storage[k].present
                                                 ELSE IF IsStorageKnown(b.status) THEN 0 ELSE d.storage[k]
              /\ b.status \in {"Loaded", "LoadedEmptyEIP161", "LoadedNotExisting"} => SameAccount(w, d)
              /\ b.status = "InMemoryChange" => Asleep(d)
<1>1. /\ View(b) \in CacheAccounts
      /\ View(b).info = b.info /\ View(b).status = b.status
      /\ DOMAIN View(b).storage = DOMAIN b.storage
      /\ \A k \in DOMAIN b.storage : View(b).storage[k] = b.storage[k].present
    BY ViewIs
<1>2. \A k \in Slots : Shown(View(b), d, k) = IF k \in DOMAIN b.storage THEN b.storage[k].present
                                              ELSE IF IsStorageKnown(b.status) THEN 0 ELSE d.storage[k]
    BY <1>1 DEF Shown
<1> QED
    BY <1>1, <1>2 DEF Current

\* extend_state, for an account that both bundles have.
LEMMA MergedIs ==
    ASSUME NEW x \in BundleAccounts, NEW o \in BundleAccounts,
           NEW top \in DbAccounts, NEW mid \in DbAccounts, NEW base \in DbAccounts,
           Current(View(x), mid, base), Current(View(o), top, mid),
           x.status # "LoadedNotExisting", o.status \in Active
    PROVE  LET y == MergedAccount(x, o)
           IN /\ y \in BundleAccounts /\ y.status # "LoadedNotExisting"
              /\ Current(View(y), top, base)
              /\ OriginalOk(x, base) /\ OriginalOk(o, mid) => OriginalOk(y, base)
<1> DEFINE s == IF WasDestroyed(o.status) THEN o.storage ELSE ExtendStorage(x.storage, o.storage)
           y == MergedAccount(x, o)
           st == Transitioned(x.status, o.status)
<1>x. /\ x.storage \in StorageSlots /\ x.status \in Statuses /\ x.info \in InfoOrNone
      /\ o.storage \in StorageSlots /\ o.status \in Statuses /\ o.info \in InfoOrNone
      /\ DOMAIN x.storage \subseteq Slots /\ DOMAIN o.storage \subseteq Slots
    BY BundleIs, MapIs DEF StorageSlots
<1>c. /\ StatusOk(x.info, x.status)
      /\ Holds(x.info) = Holds(mid.info)
      /\ \A k \in Slots : mid.storage[k] = IF k \in DOMAIN x.storage THEN x.storage[k].present
                                           ELSE IF IsStorageKnown(x.status) THEN 0 ELSE base.storage[k]
      /\ x.status \in {"Loaded", "LoadedEmptyEIP161", "LoadedNotExisting"} => SameAccount(mid, base)
      /\ x.status = "InMemoryChange" => Asleep(base)
    BY ViewCurrent
<1>d. /\ StatusOk(o.info, o.status)
      /\ Holds(o.info) = Holds(top.info)
      /\ \A k \in Slots : top.storage[k] = IF k \in DOMAIN o.storage THEN o.storage[k].present
                                           ELSE IF IsStorageKnown(o.status) THEN 0 ELSE mid.storage[k]
      /\ o.status = "InMemoryChange" => Asleep(mid)
    BY ViewCurrent
<1>s. s \in StorageSlots
    BY <1>x, ExtendStorageIs
<1>t. /\ WasDestroyed(o.status) => st = o.status
      /\ ~WasDestroyed(o.status) => st = IF WasDestroyed(x.status) THEN "DestroyedChanged"
                                         ELSE IF x.status = "InMemoryChange" THEN "InMemoryChange"
                                         ELSE o.status
    BY DEF Transitioned, WasDestroyed
<1>1. y = [x EXCEPT !.storage = s, !.info = o.info, !.status = st]
    BY DEF MergedAccount
<1> HIDE DEF s, st
<1>2. st \in Active
    BY <1>t DEF Active
<1>3. /\ y \in BundleAccounts /\ y.info = o.info /\ y.status = st /\ y.storage = s
      /\ y.original_info = x.original_info
    BY <1>1, <1>2, <1>s, <1>x DEF BundleAccounts, Active, Statuses, InfoOrNone
<1> HIDE DEF y
<1>4. StatusOk(o.info, st)
    BY <1>t, <1>d DEF StatusOk, Gone, WasDestroyed, Active
<1>k. \A k \in Slots : Asleep(mid) => mid.storage[k] = 0
    BY DbIs
<1>a. Asleep(mid) => x.status # "Changed"
  <2>1. mid.info \in InfoOrNone
    BY DbIs
  <2> QED
    BY <1>c, <1>x, <2>1, HoldsIs DEF StatusOk, Asleep, Gone
<1>5. st = "InMemoryChange" => Asleep(base)
  <2>1. SameAccount(mid, base) => (Asleep(mid) <=> Asleep(base))
    BY SameIs
  <2> QED
    BY <1>a, <1>c, <1>d, <1>t, <1>x, <2>1 DEF Statuses, WasDestroyed
<1>6. ASSUME NEW k \in Slots
      PROVE  top.storage[k] = IF k \in DOMAIN s THEN s[k].present
                              ELSE IF IsStorageKnown(st) THEN 0 ELSE base.storage[k]
  <2>1. CASE WasDestroyed(o.status)
    BY <2>1, <1>d, <1>t DEF s, IsStorageKnown
  <2>2. CASE ~WasDestroyed(o.status)
    <3>1. s = ExtendStorage(x.storage, o.storage)
      BY <2>2 DEF s
    <3>2. IsGrown(s, x.storage, o.storage)
      BY <1>x, <3>1, GrownStorage
    <3>3. o.status \in {"InMemoryChange", "Changed"}
      BY <2>2 DEF Active, WasDestroyed
    <3>4. k \notin DOMAIN o.storage => top.storage[k] = mid.storage[k]
      BY <1>d, <1>k, <3>3 DEF IsStorageKnown, WasDestroyed
    <3>5. CASE k \in DOMAIN s
      BY <1>c, <1>d, <3>2, <3>4, <3>5 DEF IsGrown
    <3>6. CASE k \notin DOMAIN s
      <4>1. k \notin DOMAIN o.storage /\ k \notin DOMAIN x.storage
        BY <3>2, <3>6 DEF IsGrown
      <4>2. mid.storage[k] = IF IsStorageKnown(x.status) THEN 0 ELSE base.storage[k]
        BY <1>c, <4>1
      <4>3. o.status = "InMemoryChange" => mid.storage[k] = 0
        BY <1>d, <1>k
      <4> QED
        BY <1>t, <1>x, <2>2, <3>3, <3>4, <3>6, <4>1, <4>2, <4>3
           DEF IsStorageKnown, WasDestroyed, Statuses
    <3> QED
      BY <3>5, <3>6
  <2> QED
    BY <2>1, <2>2
<1>7. st \notin {"Loaded", "LoadedEmptyEIP161", "LoadedNotExisting"}
    BY <1>2 DEF Active
<1>8. Current(View(y), top, base)
    BY <1>3, <1>4, <1>5, <1>6, <1>7, <1>d, ViewCurrent
<1>9. ASSUME OriginalOk(x, base), OriginalOk(o, mid) PROVE OriginalOk(y, base)
  <2>1. ASSUME ~WasDestroyed(st), NEW k \in DOMAIN s PROVE s[k].original = base.storage[k]
    <3>1. ~WasDestroyed(x.status) /\ ~WasDestroyed(o.status)
      BY <2>1, <1>t DEF WasDestroyed
    <3>2. /\ \A j \in DOMAIN x.storage : x.storage[j].original = base.storage[j]
          /\ \A j \in DOMAIN o.storage : o.storage[j].original = mid.storage[j]
      BY <1>9, <3>1 DEF OriginalOk
    <3>3. s = ExtendStorage(x.storage, o.storage)
      BY <3>1 DEF s
    <3>4. IsGrown(s, x.storage, o.storage)
      BY <1>x, <3>3, GrownStorage
    <3>5. CASE k \in DOMAIN x.storage
      BY <3>2, <3>4, <3>5 DEF IsGrown
    <3>6. CASE k \notin DOMAIN x.storage
      <4>1. k \in DOMAIN o.storage /\ k \in Slots /\ s[k].original = mid.storage[k]
        BY <1>x, <3>2, <3>4, <3>6 DEF IsGrown
      <4>2. mid.storage[k] = IF IsStorageKnown(x.status) THEN 0 ELSE base.storage[k]
        BY <1>c, <3>6, <4>1
      <4>3. Asleep(base) => base.storage[k] = 0
        BY <4>1, DbIs
      <4> QED
        BY <1>c, <3>1, <4>1, <4>2, <4>3 DEF IsStorageKnown
    <3> QED
      BY <3>5, <3>6
  <2> QED
    BY <1>3, <1>9, <2>1 DEF OriginalOk
<1> QED
    BY <1>3, <1>7, <1>8, <1>9 DEF y

\* The accounts of a bundle, extended by those of another.
Atop(under, over) ==
    [a \in DOMAIN under \cup DOMAIN over |->
        IF a \in DOMAIN under \cap DOMAIN over THEN MergedAccount(under[a], over[a])
        ELSE IF a \in DOMAIN over THEN over[a] ELSE under[a]]

\* The fields of a bundle.
BundleFields == {"state", "contracts", "reverts", "state_size", "reverts_size", "panic"}

\* extend_state.
LEMMA ExtendStateIs ==
    ASSUME NEW bs, NEW over, DOMAIN bs = BundleFields
    PROVE  LET e == ExtendState(bs, over)
           IN /\ DOMAIN e = BundleFields
              /\ e.state = Atop(bs.state, over)
              /\ e.reverts = bs.reverts /\ e.panic = bs.panic
<1> DEFINE x == Atop(bs.state, over)
           n == bs.state_size + SumSizes(Restrict(x, DOMAIN over))
                  - SumSizes(Restrict(bs.state, DOMAIN bs.state \cap DOMAIN over))
<1>1. ExtendState(bs, over) = [bs EXCEPT !.state = x, !.state_size = n]
    BY DEF ExtendState, Atop
<1> HIDE DEF x, n
<1> QED
    BY <1>1 DEF BundleFields, x

\* The accounts of two bundles.
LEMMA AtopOver ==
    ASSUME NEW under, NEW over, NEW top \in Worlds, NEW mid \in Worlds, NEW base \in Worlds,
           BundleOver(under, mid, base), BundleOver(over, top, mid),
           \A a \in DOMAIN under.state \cap DOMAIN over.state : over.state[a].status \in Active,
           NEW e, e.state = Atop(under.state, over.state)
    PROVE  /\ BundleOver(e, top, base)
           /\ /\ \A a \in DOMAIN under.state : OriginalOk(under.state[a], base[a])
              /\ \A a \in DOMAIN over.state : OriginalOk(over.state[a], mid[a])
              /\ \A a \in Addresses : a \notin DOMAIN under.state => mid[a] = base[a]
              => \A a \in DOMAIN e.state : OriginalOk(e.state[a], base[a])
<1>1. /\ DOMAIN e.state = DOMAIN under.state \cup DOMAIN over.state
      /\ DOMAIN under.state \subseteq Addresses /\ DOMAIN over.state \subseteq Addresses
      /\ e.state = [a \in DOMAIN e.state |-> e.state[a]]
    BY DEF Atop, BundleOver
<1>2. ASSUME NEW a \in Addresses
      PROVE  /\ IF a \in DOMAIN e.state
                THEN /\ e.state[a] \in BundleAccounts
                     /\ e.state[a].status # "LoadedNotExisting"
                     /\ Current(View(e.state[a]), top[a], base[a])
                ELSE SameAccount(top[a], base[a])
             /\ /\ a \in DOMAIN e.state
                /\ a \in DOMAIN under.state => OriginalOk(under.state[a], base[a])
                /\ a \in DOMAIN over.state => OriginalOk(over.state[a], mid[a])
                /\ a \notin DOMAIN under.state => mid[a] = base[a]
                => OriginalOk(e.state[a], base[a])
  <2>w. top[a] \in DbAccounts /\ mid[a] \in DbAccounts /\ base[a] \in DbAccounts
    BY DEF Worlds
  <2>u. IF a \in DOMAIN under.state
        THEN /\ under.state[a] \in BundleAccounts
             /\ under.state[a].status # "LoadedNotExisting"
             /\ Current(View(under.state[a]), mid[a], base[a])
        ELSE SameAccount(mid[a], base[a])
    BY DEF BundleOver
  <2>o. IF a \in DOMAIN over.state
        THEN /\ over.state[a] \in BundleAccounts
             /\ over.state[a].status # "LoadedNotExisting"
             /\ Current(View(over.state[a]), top[a], mid[a])
        ELSE SameAccount(top[a], mid[a])
    BY DEF BundleOver
  <2>1. CASE a \in DOMAIN under.state /\ a \in DOMAIN over.state
    <3>1. e.state[a] = MergedAccount(under.state[a], over.state[a]) /\ a \in DOMAIN e.state
      BY <2>1, <1>1 DEF Atop
    <3>2. over.state[a].status \in Active
      BY <2>1
    <3> QED
      BY <2>1, <2>w, <2>u, <2>o, <3>1, <3>2, MergedIs
  <2>2. CASE a \notin DOMAIN under.state /\ a \in DOMAIN over.state
    <3>1. e.state[a] = over.state[a] /\ a \in DOMAIN e.state
      BY <2>2, <1>1 DEF Atop
    <3>2. Current(View(over.state[a]), top[a], base[a])
      BY <2>2, <2>w, <2>u, <2>o, CurrentOver
    <3> QED
      BY <2>2, <2>o, <3>1, <3>2
  <2>3. CASE a \in DOMAIN under.state /\ a \notin DOMAIN over.state
    <3>1. e.state[a] = under.state[a] /\ a \in DOMAIN e.state
      BY <2>3, <1>1 DEF Atop
    <3>2. Current(View(under.state[a]), top[a], base[a])
      BY <2>3, <2>w, <2>u, <2>o, CurrentSame
    <3> QED
      BY <2>3, <2>u, <3>1, <3>2
  <2>4. CASE a \notin DOMAIN under.state /\ a \notin DOMAIN over.state
    BY <2>4, <1>1, <2>u, <2>o DEF SameAccount
  <2> QED
    BY <2>1, <2>2, <2>3, <2>4
<1>3. e.state \in [DOMAIN e.state -> BundleAccounts]
    BY <1>1, <1>2
<1>4. BundleOver(e, top, base)
    BY <1>1, <1>2, <1>3 DEF BundleOver
<1> QED
    BY <1>1, <1>2, <1>4

\* The bundles that an extension can put together: what the upper one's reverts wipe is
\* destroyed in it.
Fits(under, over) ==
    /\ DOMAIN under = BundleFields /\ DOMAIN over = BundleFields
    /\ \A i \in DOMAIN over.reverts : \A a \in WipedBy(over.reverts[i]) :
          a \in DOMAIN under.state => a \in DOMAIN over.state /\ WasDestroyed(over.state[a].status)

\* What an extension takes out of a storage is not looked at.
LEMMA DrainedMerged ==
    ASSUME NEW x \in BundleAccounts, NEW o, WasDestroyed(o.status)
    PROVE  MergedAccount([x EXCEPT !.storage = Empty], o) = MergedAccount(x, o)
<1> DEFINE y == [x EXCEPT !.storage = Empty]
           z == Transitioned(x.status, o.status)
<1>1. y.status = x.status
    BY DEF BundleAccounts
<1>2. /\ MergedAccount(x, o) = [x EXCEPT !.storage = o.storage, !.info = o.info, !.status = z]
      /\ MergedAccount(y, o) = [y EXCEPT !.storage = o.storage, !.info = o.info, !.status = z]
    BY <1>1 DEF MergedAccount
<1> HIDE DEF z
<1>3. x = [info |-> x.info, original_info |-> x.original_info, storage |-> x.storage, status |-> x.status]
    BY DEF BundleAccounts
<1>4. MergedAccount(x, o) = [info |-> o.info, original_info |-> x.original_info, storage |-> o.storage, status |-> z]
    BY <1>2, <1>3
<1>5. y = [info |-> x.info, original_info |-> x.original_info, storage |-> Empty, status |-> x.status]
    BY <1>3
<1> HIDE DEF y
<1>6. MergedAccount(y, o) = [info |-> o.info, original_info |-> x.original_info, storage |-> o.storage, status |-> z]
    BY <1>2, <1>5
<1> QED
    BY <1>4, <1>6 DEF y

\* A list of any elements.
LEMMA ListIs ==
    ASSUME NEW S, NEW s \in Seq(S)
    PROVE  IsList(s) /\ DOMAIN s = 1 .. Len(s)
<1>1. s \in [1 .. Len(s) -> S] /\ Len(s) \in Nat /\ DOMAIN s = 1 .. Len(s)
    OBVIOUS
<1>2. s \in [1 .. Len(s) -> Range(s)]
    BY <1>1 DEF Range
<1> QED
    BY <1>1, <1>2 DEF IsList

\* A function on the first n numbers.
LEMMA ListMake ==
    ASSUME NEW n \in Nat, NEW f, DOMAIN f = 1 .. n, f = [i \in 1 .. n |-> f[i]]
    PROVE  IsList(f) /\ Len(f) = n
<1>1. f \in [1 .. n -> Range(f)]
    BY DEF Range
<1>2. f \in Seq(Range(f))
    BY <1>1
<1> QED
    BY <1>2 DEF IsList

\* The list of two.
IsConcat(c, s, t) ==
    /\ IsList(c) /\ Len(c) = Len(s) + Len(t) /\ DOMAIN c = 1 .. Len(s) + Len(t)
    /\ \A i \in DOMAIN c : c[i] = IF i <= Len(s) THEN s[i] ELSE t[i - Len(s)]
    /\ Len(s) \in Nat /\ Len(t) \in Nat

\* One list after the other.
LEMMA ListConcat ==
    ASSUME NEW s, NEW t, IsList(s), IsList(t)
    PROVE  IsConcat(s \o t, s, t)
<1> DEFINE S == Range(s) \cup Range(t)
<1>1. s \in Seq(S) /\ t \in Seq(S)
  <2>1. s \in Seq(Range(s)) /\ t \in Seq(Range(t))
    BY DEF IsList
  <2> QED
    BY <2>1
<1> HIDE DEF S
<1>2. /\ s \o t \in Seq(S) /\ Len(s \o t) = Len(s) + Len(t)
      /\ \A i \in 1 .. Len(s) + Len(t) : (s \o t)[i] = IF i <= Len(s) THEN s[i] ELSE t[i - Len(s)]
      /\ DOMAIN (s \o t) = 1 .. Len(s) + Len(t)
      /\ Len(s) \in Nat /\ Len(t) \in Nat
    BY <1>1
<1>3. IsList(s \o t)
    BY <1>2, ListIs
<1> QED
    BY <1>2, <1>3 DEF IsConcat

\* A place in the list of two is in the first or in the second.
LEMMA PlaceIs ==
    ASSUME NEW p \in Nat, NEW q \in Nat, NEW i \in 1 .. p + q
    PROVE  (i <= p => i \in 1 .. p) /\ (~(i <= p) => i - p \in 1 .. q)
    OBVIOUS

\* The reverts of a bundle that was put on another.
MovedRevert(under, over, i, a) ==
    LET r == over.reverts[i][a]
    IN IF a \notin WipedBy(over.reverts[i]) \/ a \notin DOMAIN under.state THEN r
       ELSE [r EXCEPT
               !.storage = IF \A j \in 1..(i - 1) : a \notin WipedBy(over.reverts[j])
                           THEN OrInsert(@, Present(under.state[a].storage)) ELSE @,
               !.wipe_storage = ~WasDestroyed(under.state[a].status)]
\* All of the reverts of the upper bundle.
MovedReverts(under, over) ==
    [i \in DOMAIN over.reverts |-> [a \in DOMAIN over.reverts[i] |-> MovedRevert(under, over, i, a)]]

\* The accounts of the lower bundle without the storages that were moved.
Drained(under, over) ==
    [a \in DOMAIN under.state |->
        IF \E i \in DOMAIN over.reverts : a \in WipedBy(over.reverts[i])
        THEN [under.state[a] EXCEPT !.storage = Empty] ELSE under.state[a]]

\* The bundle e is over on top of under.
IsExtended(e, under, over) ==
    /\ IsBundle(e)
    /\ e.state = Atop(under.state, over.state)
    /\ e.reverts = under.reverts \o MovedReverts(under, over)
    /\ Len(e.reverts) = Len(under.reverts) + Len(over.reverts)

\* extend.
LEMMA ExtendIs ==
    ASSUME NEW under, NEW over, Fits(under, over), IsBundle(under), IsBundle(over),
           under.state \in [DOMAIN under.state -> BundleAccounts]
    PROVE  IsExtended(Extend(under, over), under, over)
<1> DEFINE m == MovedReverts(under, over)
           x == Drained(under, over)
           size == under.reverts_size + RevertsSize(m)
           codes == under.contracts \cup over.contracts
           b == [under EXCEPT !.state = x, !.reverts_size = size, !.contracts = codes,
                              !.reverts = @ \o m, !.panic = @ \/ over.panic]
           e == Extend(under, over)
<1>1. e = ExtendState(b, over.state)
    BY DEF Extend, MovedReverts, MovedRevert, Drained
<1>f. DOMAIN under = BundleFields
    BY DEF Fits
<1> HIDE DEF m, x, size, codes
<1>2. /\ DOMAIN b = BundleFields /\ b.state = x /\ b.reverts = under.reverts \o m
      /\ b.panic <=> under.panic \/ over.panic
    BY <1>f DEF BundleFields
<1> HIDE DEF b, e
<1>3. /\ DOMAIN e = BundleFields
      /\ e.state = Atop(x, over.state)
      /\ e.reverts = under.reverts \o m /\ e.panic = b.panic
    BY <1>1, <1>2, ExtendStateIs
<1>4. Atop(x, over.state) = Atop(under.state, over.state)
  <2>1. DOMAIN x = DOMAIN under.state
    BY DEF x, Drained
  <2>2. ASSUME NEW a \in DOMAIN under.state \cup DOMAIN over.state
        PROVE  Atop(x, over.state)[a] = Atop(under.state, over.state)[a]
    <3>1. CASE a \in DOMAIN under.state /\ \E i \in DOMAIN over.reverts : a \in WipedBy(over.reverts[i])
      <4>1. a \in DOMAIN over.state /\ WasDestroyed(over.state[a].status)
        BY <3>1 DEF Fits
      <4>2. x[a] = [under.state[a] EXCEPT !.storage = Empty]
        BY <3>1 DEF x, Drained
      <4>3. MergedAccount(x[a], over.state[a]) = MergedAccount(under.state[a], over.state[a])
        BY <3>1, <4>1, <4>2, DrainedMerged
      <4> QED
        BY <2>1, <3>1, <4>1, <4>3 DEF Atop
    <3>2. CASE ~(a \in DOMAIN under.state /\ \E i \in DOMAIN over.reverts : a \in WipedBy(over.reverts[i]))
      <4>1. a \in DOMAIN under.state => x[a] = under.state[a]
        BY <3>2 DEF x, Drained
      <4> QED
        BY <2>1, <4>1 DEF Atop
    <3> QED
      BY <3>1, <3>2
  <2>3. /\ DOMAIN Atop(x, over.state) = DOMAIN under.state \cup DOMAIN over.state
        /\ DOMAIN Atop(under.state, over.state) = DOMAIN under.state \cup DOMAIN over.state
        /\ Atop(x, over.state) = [a \in DOMAIN Atop(x, over.state) |-> Atop(x, over.state)[a]]
        /\ Atop(under.state, over.state) =
               [a \in DOMAIN Atop(under.state, over.state) |-> Atop(under.state, over.state)[a]]
    BY <2>1 DEF Atop
  <2> QED
    BY <2>2, <2>3
<1>5. IsList(under.reverts) /\ IsList(over.reverts)
    BY DEF IsBundle
<1>6. DOMAIN over.reverts = 1 .. Len(over.reverts) /\ Len(over.reverts) \in Nat
      /\ DOMAIN under.reverts = 1 .. Len(under.reverts) /\ Len(under.reverts) \in Nat
    BY <1>5 DEF IsList
<1>7. IsList(m) /\ Len(m) = Len(over.reverts)
  <2>1. DOMAIN m = 1 .. Len(over.reverts) /\ m = [i \in 1 .. Len(over.reverts) |-> m[i]]
    BY <1>6 DEF m, MovedReverts
  <2> QED
    BY <1>6, <2>1, ListMake
<1> DEFINE l == under.reverts \o m
<1>8. IsConcat(l, under.reverts, m)
    BY <1>5, <1>7, ListConcat
<1> HIDE DEF l
<1>l. e.reverts = l /\ IsList(l) /\ Len(l) = Len(under.reverts) + Len(over.reverts)
    BY <1>3, <1>7, <1>8 DEF l, IsConcat
<1>9. ASSUME NEW i \in DOMAIN e.reverts
      PROVE  e.reverts[i] = [a \in DOMAIN e.reverts[i] |-> e.reverts[i][a]]
  <2>i. i \in 1 .. Len(under.reverts) + Len(over.reverts)
      BY <1>l, <1>7, <1>8 DEF IsConcat
  <2>1. CASE i <= Len(under.reverts)
    <3>1. i \in DOMAIN under.reverts
      BY <1>6, <2>i, <2>1, PlaceIs
    <3>2. e.reverts[i] = under.reverts[i]
      BY <1>l, <1>8, <2>1 DEF IsConcat
    <3> QED
      BY <3>1, <3>2 DEF IsBundle
  <2>2. CASE ~(i <= Len(under.reverts))
    <3> DEFINE j == i - Len(under.reverts)
    <3>1. j \in DOMAIN over.reverts
      BY <1>6, <2>i, <2>2, PlaceIs
    <3>2. e.reverts[i] = m[j]
      BY <1>l, <1>8, <2>2 DEF IsConcat
    <3> HIDE DEF j
    <3> QED
      BY <3>1, <3>2 DEF m, MovedReverts
  <2> QED
    BY <2>1, <2>2
<1>10. ~e.panic
    BY <1>2, <1>3 DEF IsBundle
<1>11. IsBundle(e)
    BY <1>3, <1>l, <1>9, <1>10 DEF IsBundle, BundleFields
<1>12. IsExtended(e, under, over)
    BY <1>3, <1>4, <1>l, <1>11 DEF IsExtended, m
<1> QED
    BY <1>12 DEF e

\* The bundle of no blocks.
LEMMA EmptyBundleIs ==
    /\ IsBundle(EmptyBundle) /\ DOMAIN EmptyBundle = BundleFields
    /\ EmptyBundle.state = Empty /\ DOMAIN EmptyBundle.state = {}
    /\ EmptyBundle.reverts = << >>
    /\ EmptyBundle.state \in [DOMAIN EmptyBundle.state -> BundleAccounts]
<1>1. /\ DOMAIN EmptyBundle = BundleFields /\ EmptyBundle.state = Empty /\ EmptyBundle.reverts = << >>
      /\ ~EmptyBundle.panic
    BY DEF EmptyBundle, BundleFields
<1>2. DOMAIN Empty = {} /\ Empty \in [{} -> BundleAccounts]
    BY DEF Empty
<1>3. IsList(<< >>)
    BY ListIs, << >> \in Seq({})
<1>4. IsBundle(EmptyBundle)
    BY <1>1, <1>3 DEF IsBundle, BundleFields
<1> QED
    BY <1>1, <1>2, <1>4

\* A bundle on none.
LEMMA ExtendNone ==
    ASSUME NEW over, IsBundle(over), over.state \in [DOMAIN over.state -> BundleAccounts]
    PROVE  /\ Fits(EmptyBundle, over)
           /\ IsExtended(Extend(EmptyBundle, over), EmptyBundle, over)
           /\ Extend(EmptyBundle, over).state = over.state
           /\ Extend(EmptyBundle, over).reverts = over.reverts
<1> DEFINE e == Extend(EmptyBundle, over)
           m == MovedReverts(EmptyBundle, over)
<1>1. Fits(EmptyBundle, over)
    BY EmptyBundleIs DEF Fits, IsBundle, BundleFields
<1>2. IsExtended(e, EmptyBundle, over)
    BY <1>1, EmptyBundleIs, ExtendIs
<1> HIDE DEF e
<1>3. e.state = over.state
  <2>1. e.state = Atop(EmptyBundle.state, over.state)
    BY <1>2 DEF IsExtended
  <2>2. DOMAIN EmptyBundle.state = {}
    BY EmptyBundleIs
  <2>3. e.state = [a \in DOMAIN over.state |-> over.state[a]]
    BY <2>1, <2>2 DEF Atop
  <2> QED
    BY <2>3
<1>4. m = over.reverts
  <2>1. IsList(over.reverts)
    BY DEF IsBundle
  <2>2. DOMAIN over.reverts = 1 .. Len(over.reverts) /\ over.reverts = [i \in DOMAIN over.reverts |-> over.reverts[i]]
    BY <2>1 DEF IsList
  <2>3. m = [i \in DOMAIN over.reverts |-> [a \in DOMAIN over.reverts[i] |-> over.reverts[i][a]]]
    BY EmptyBundleIs DEF MovedReverts, MovedRevert
  <2>4. ASSUME NEW i \in DOMAIN over.reverts PROVE m[i] = over.reverts[i]
    BY <2>3 DEF IsBundle
  <2>5. m = [i \in DOMAIN over.reverts |-> m[i]]
    BY <2>3
  <2> HIDE DEF m
  <2> QED
    BY <2>2, <2>4, <2>5
<1>5. e.reverts = over.reverts
  <2>1. e.reverts = << >> \o m
    BY <1>2, EmptyBundleIs DEF IsExtended
  <2>2. IsList(m)
    BY <1>4 DEF IsBundle
  <2> HIDE DEF m
  <2>3. << >> \o m = m
    BY <2>2, ConcatEmptySeq DEF IsList
  <2> QED
    BY <1>4, <2>1, <2>3
<1> QED
    BY <1>1, <1>2, <1>3, <1>5 DEF e

-----------------------------------------------------------------------------
(* What a reader of a bundle sees, and what is written to the database.    *)

\* A reader of an account of a bundle.
LEMMA SeenAccountIs ==
    ASSUME NEW b \in BundleAccounts, NEW top \in DbAccounts, NEW d \in DbAccounts,
           Current(View(b), top, d)
    PROVE  SeenAccount(d, b) \in DbAccounts /\ SameAccount(SeenAccount(d, b), top)
<1> DEFINE c == View(b)
           s == SeenAccount(d, b)
<1>1. /\ c.info = b.info /\ c.status = b.status /\ DOMAIN c.storage = DOMAIN b.storage
      /\ \A k \in DOMAIN b.storage : c.storage[k] = b.storage[k].present
    BY ViewIs, BundleIs, PresentIs DEF View
<1>2. c \in CacheAccounts /\ Holds(c.info) = Holds(top.info)
      /\ \A k \in Slots : top.storage[k] = Shown(c, d, k)
    BY DEF Current
<1> HIDE DEF c
<1>3. /\ s = [info |-> s.info, storage |-> s.storage] /\ s.info = b.info
      /\ s.storage = [k \in Slots |-> s.storage[k]]
      /\ \A k \in Slots : s.storage[k] =
            IF k \in DOMAIN b.storage THEN b.storage[k].present
            ELSE IF IsStorageKnown(b.status) THEN 0 ELSE d.storage[k]
    BY DEF SeenAccount
<1> HIDE DEF s
<1>4. ASSUME NEW k \in Slots PROVE s.storage[k] = top.storage[k]
    BY <1>1, <1>2, <1>3, <1>4 DEF Shown
<1>5. top.storage \in Storages /\ top.info \in InfoOrNone /\ \A k \in Slots : top.storage[k] \in Words
    BY DbIs
<1>6. s.storage \in Storages
    BY <1>3, <1>4, <1>5 DEF Storages
<1>7. s.info \in InfoOrNone /\ Holds(s.info) = Holds(top.info)
    BY <1>1, <1>2, <1>3, CacheIs
<1>8. Asleep(s) => Asleep(top)
    BY <1>5, <1>7, HoldsIs DEF Asleep
<1>9. s \in DbAccounts
    BY <1>3, <1>4, <1>6, <1>7, <1>8, DbIs, DbMake
<1> QED
    BY <1>4, <1>7, <1>9, SameIs DEF s

\* A reader of a bundle.
LEMMA SeenIs ==
    ASSUME NEW bs, NEW top \in Worlds, NEW base \in Worlds, BundleOver(bs, top, base)
    PROVE  /\ Seen(base, bs) \in Worlds /\ SameWorld(Seen(base, bs), top)
           /\ \A a \in Addresses : a \notin DOMAIN bs.state => Seen(base, bs)[a] = base[a]
<1> DEFINE s == Seen(base, bs)
<1>1. /\ s = [a \in Addresses |-> s[a]]
      /\ \A a \in Addresses : s[a] = IF a \in DOMAIN bs.state THEN SeenAccount(base[a], bs.state[a])
                                     ELSE base[a]
    BY DEF Seen
<1> HIDE DEF s
<1>2. ASSUME NEW a \in Addresses PROVE s[a] \in DbAccounts /\ SameAccount(s[a], top[a])
  <2>1. top[a] \in DbAccounts /\ base[a] \in DbAccounts
    BY DEF Worlds
  <2>2. CASE a \in DOMAIN bs.state
    <3>1. bs.state[a] \in BundleAccounts /\ Current(View(bs.state[a]), top[a], base[a])
      BY <2>2 DEF BundleOver
    <3> QED
      BY <1>1, <2>1, <2>2, <3>1, SeenAccountIs
  <2>3. CASE a \notin DOMAIN bs.state
    BY <1>1, <2>1, <2>3 DEF BundleOver, SameAccount
  <2> QED
    BY <2>2, <2>3
<1> QED
    BY <1>1, <1>2 DEF Worlds, SameWorld, s

\* An account that is written.
LEMMA WrittenAccountIs ==
    ASSUME NEW b \in BundleAccounts, b.status # "LoadedNotExisting",
           NEW top \in DbAccounts, NEW d \in DbAccounts, Current(View(b), top, d),
           NEW v, SameAccount(v, d), NEW known \in BOOLEAN, known => OriginalOk(b, d)
    PROVE  SameAccount(WrittenAccount(v, PlainAccount(b, known)), top)
<1> DEFINE c == View(b)
           wipe == WasDestroyed(b.status)
           ks == {k \in DOMAIN b.storage :
                    \/ ~known
                    \/ wipe /\ b.storage[k].present # 0
                    \/ ~wipe /\ IsChanged(b.storage[k])}
           p == PlainAccount(b, known)
           r == WrittenAccount(v, p)
<1>1. /\ c.info = b.info /\ c.status = b.status /\ DOMAIN c.storage = DOMAIN b.storage
      /\ \A k \in DOMAIN b.storage : c.storage[k] = b.storage[k].present
      /\ Present(b.storage) \in PartialMaps(Words) /\ DOMAIN Present(b.storage) = DOMAIN b.storage
      /\ \A k \in DOMAIN b.storage : Present(b.storage)[k] = b.storage[k].present
      /\ DOMAIN b.storage \subseteq Slots
    BY ViewIs, BundleIs, PresentIs, MapIs DEF View
<1>2. /\ Holds(c.info) = Holds(top.info) /\ \A k \in Slots : top.storage[k] = Shown(c, d, k)
      /\ c.status = "InMemoryChange" => Asleep(d)
    BY DEF Current
<1> HIDE DEF c
<1>3. /\ p.writeInfo <=> ~known \/ b.info # b.original_info
      /\ p.info = b.info
      /\ p.wipe <=> wipe
      /\ p.storage = Restrict(Present(b.storage), ks)
    BY DEF PlainAccount
<1>4. /\ DOMAIN p.storage = ks /\ \A k \in ks : p.storage[k] = b.storage[k].present
  <2>1. ks \in SUBSET DOMAIN Present(b.storage)
    BY <1>1
  <2> HIDE DEF ks, p
  <2> QED
    BY <1>1, <1>3, <2>1, RestrictIs
<1> HIDE DEF p
<1>5. /\ r.info = IF p.writeInfo THEN p.info ELSE v.info
      /\ r.storage = Extended(IF p.wipe THEN AllZero ELSE v.storage, p.storage)
    BY DEF WrittenAccount
<1> HIDE DEF r
<1>6. v.storage = d.storage /\ Holds(v.info) = Holds(d.info)
    BY DEF SameAccount
<1>7. d.storage \in [Slots -> Words] /\ top.storage \in [Slots -> Words]
    BY DbIs DEF Storages
<1>8. /\ r.storage = [k \in Slots |-> r.storage[k]]
      /\ \A k \in Slots : r.storage[k] = IF k \in ks THEN b.storage[k].present
                                         ELSE IF wipe THEN 0 ELSE d.storage[k]
  <2> DEFINE o == IF p.wipe THEN AllZero ELSE v.storage
  <2>1. /\ DOMAIN o = Slots /\ \A k \in Slots : o[k] = IF wipe THEN 0 ELSE d.storage[k]
    BY <1>3, <1>6, <1>7 DEF AllZero
  <2>2. r.storage = Extended(o, p.storage)
    BY <1>5
  <2>3. ks \subseteq Slots
    BY <1>1
  <2> HIDE DEF o, ks
  <2> QED
    BY <1>4, <2>1, <2>2, <2>3 DEF Extended
<1>9. ASSUME NEW k \in Slots PROVE r.storage[k] = top.storage[k]
  <2>0. top.storage[k] = Shown(c, d, k)
    BY <1>2
  <2>1. CASE k \in DOMAIN b.storage
    <3>1. top.storage[k] = b.storage[k].present
      BY <1>1, <2>0, <2>1 DEF Shown
    <3>2. CASE k \in ks
      BY <1>8, <3>1, <3>2
    <3>3. CASE k \notin ks
      <4>1. known /\ (wipe => b.storage[k].present = 0) /\ (~wipe => b.storage[k].original = b.storage[k].present)
        BY <2>1, <3>3 DEF IsChanged
      <4>2. ~wipe => b.storage[k].original = d.storage[k]
        BY <2>1, <4>1 DEF OriginalOk
      <4> QED
        BY <1>8, <3>1, <3>3, <4>1, <4>2
    <3> QED
      BY <3>2, <3>3
  <2>2. CASE k \notin DOMAIN b.storage
    <3>1. r.storage[k] = IF wipe THEN 0 ELSE d.storage[k]
      BY <1>8, <2>2
    <3>2. b.status = "InMemoryChange" => d.storage[k] = 0
      BY <1>1, <1>2, DbIs
    <3> QED
      BY <1>1, <2>0, <2>2, <3>1, <3>2 DEF Shown, IsStorageKnown
  <2> QED
    BY <2>1, <2>2
<1>10. r.storage = top.storage
    BY <1>7, <1>8, <1>9
<1>11. Holds(r.info) = Holds(top.info)
    BY <1>1, <1>2, <1>3, <1>5, <1>6 DEF OriginalOk
<1> QED
    BY <1>10, <1>11 DEF SameAccount, r, p

\* The changeset of a bundle, written to a database that is the same as its base.
LEMMA WrittenIs ==
    ASSUME NEW bs, NEW top \in Worlds, NEW base \in Worlds, BundleOver(bs, top, base),
           NEW v, SameWorld(v, base), NEW known \in BOOLEAN,
           known => \A a \in DOMAIN bs.state : OriginalOk(bs.state[a], base[a])
    PROVE  SameWorld(Written(v, PlainState(bs, known)), top)
<1> SUFFICES ASSUME NEW a \in Addresses
             PROVE  SameAccount(Written(v, PlainState(bs, known))[a], top[a])
    BY DEF SameWorld
<1>1. SameAccount(v[a], base[a]) /\ top[a] \in DbAccounts /\ base[a] \in DbAccounts
    BY DEF SameWorld, Worlds
<1>2. Written(v, PlainState(bs, known))[a] =
          IF a \in DOMAIN bs.state THEN WrittenAccount(v[a], PlainAccount(bs.state[a], known)) ELSE v[a]
    BY DEF Written, PlainState
<1>3. CASE a \in DOMAIN bs.state
  <2>1. /\ bs.state[a] \in BundleAccounts /\ bs.state[a].status # "LoadedNotExisting"
        /\ Current(View(bs.state[a]), top[a], base[a])
    BY <1>3 DEF BundleOver
  <2>2. known => OriginalOk(bs.state[a], base[a])
    BY <1>3
  <2> QED
    BY <1>1, <1>2, <1>3, <2>1, <2>2, WrittenAccountIs
<1>4. CASE a \notin DOMAIN bs.state
    BY <1>1, <1>2, <1>4 DEF BundleOver, SameAccount
<1> QED
    BY <1>3, <1>4

\* Only the accounts of a bundle are written.
LEMMA PlainLike ==
    ASSUME NEW x, NEW y, x.state = y.state, NEW known
    PROVE  PlainState(x, known) = PlainState(y, known)
BY DEF PlainState

\* prepend_state.
LEMMA PrependIs ==
    ASSUME NEW over, NEW under, DOMAIN under = BundleFields
    PROVE  PrependState(over, under).state = Atop(under.state, over.state)
<1> DEFINE e == ExtendState(under, over.state)
<1>1. DOMAIN e = BundleFields /\ e.state = Atop(under.state, over.state)
    BY ExtendStateIs
<1>2. PrependState(over, under) = [e EXCEPT !.contracts = @ \cup over.contracts]
    BY DEF PrependState
<1> HIDE DEF e
<1> QED
    BY <1>1, <1>2 DEF BundleFields

-----------------------------------------------------------------------------
(* Steps that leave the bundles alone                                      *)

\* What the invariant says of the database and of the accounts of one address.
LEMMA InvIs ==
    ASSUME StateInv, NEW a \in Addresses
    PROVE  /\ world[a] \in DbAccounts /\ merged[a] \in DbAccounts /\ Database[a] \in DbAccounts
           /\ db[a] \in DbAccounts
           /\ Current(CacheAccountOf(a), world[a], Database[a]) /\ TransitionOk(a)
           /\ Recorded(TransitionAt(a), CacheAccountOf(a), merged[a], world[a])
BY DEF StateInv, Types, Worlds, TransitionOk

\* Parts of the invariant that speak of the bundles only.
LEMMA OwnKept ==
    ASSUME Own, UNCHANGED <<db, bundle, mixed, outer, history>>
    PROVE  Own'
<1>1. Database' = Database
    BY DEF Database
<1>2. LatestOk'
    BY <1>1 DEF Own, LatestOk, Before
<1>3. PlainRevertsRestore'
    BY <1>1 DEF Own, PlainRevertsRestore, Before
<1> QED
    BY <1>1, <1>2, <1>3 DEF Own

\* A step of the cache and the transitions.
LEMMA CacheStep ==
    ASSUME StateInv, UNCHANGED <<db, bundle, usePreloaded, mixed, outer, merged, history>>,
           hasStateClear' \in BOOLEAN, world' \in Worlds,
           DOMAIN transitions' \subseteq DOMAIN cache', DOMAIN cache \subseteq DOMAIN cache',
           DOMAIN cache' \subseteq Addresses,
           \A a \in DOMAIN transitions' : transitions'[a] # None,
           \A a \in Addresses :
              /\ Current(CacheAccountOf(a)', world'[a], Database[a])
              /\ Recorded(TransitionAt(a)', CacheAccountOf(a)', merged[a], world'[a])
              /\ LastView(TransitionAt(a)', CacheAccountOf(a)') = LastView(TransitionAt(a), CacheAccountOf(a))
    PROVE  StateInv'
<1>1. Database' = Database
    BY DEF Database
<1>2. Types'
    BY <1>1 DEF StateInv, Types
<1>3. /\ BundleOver(outer', Database', db')
      /\ BundleOver(bundle', merged', Database')
    BY <1>1 DEF StateInv
<1>4. FreshOk'
    BY DEF StateInv, FreshOk
<1>5. ASSUME NEW a \in Addresses PROVE TransitionOk(a)'
    BY <1>1 DEF StateInv, TransitionOk
<1>6. ~mixed' => Own'
    BY OwnKept DEF StateInv
<1> QED
    BY <1>1, <1>2, <1>3, <1>4, <1>5, <1>6 DEF StateInv

\* An account is put into the cache.
LEMMA CacheAfter ==
    ASSUME NEW a \in Addresses, NEW x, cache' = Extended(cache, [y \in {a} |-> x]),
           UNCHANGED <<db, bundle, usePreloaded, outer>>
    PROVE  /\ DOMAIN cache' = DOMAIN cache \cup {a}
           /\ \A b \in Addresses : CacheAccountOf(b)' = IF b = a THEN x ELSE CacheAccountOf(b)
<1>1. /\ DOMAIN cache' = DOMAIN cache \cup {a}
      /\ \A b \in DOMAIN cache \cup {a} : cache'[b] = IF b = a THEN x ELSE cache[b]
    BY DEF Extended
<1>2. Database' = Database
    BY DEF Database
<1> QED
    BY <1>1, <1>2 DEF CacheAccountOf

\* What is read is the world.
LEMMA ReadsIs ==
    ASSUME StateInv, NEW a \in Addresses
    PROVE  /\ Holds(CacheAccountOf(a).info) = Holds(world[a].info)
           /\ \A k \in Slots : StorageOf(a, k) = world[a].storage[k]
<1> DEFINE c == CacheAccountOf(a)
           d == Database[a]
           w == world[a]
<1>1. Current(c, w, d) /\ w \in DbAccounts /\ d \in DbAccounts
    BY InvIs
<1>2. ASSUME NEW k \in Slots
      PROVE  StorageOf(a, k) = IF c.info = None THEN 0 ELSE Shown(c, d, k)
  <2>1. StorageOf(a, k) = CASE c.info = None -> 0
         [] c.info # None /\ k \in DOMAIN c.storage -> c.storage[k]
         [] OTHER -> IF IsStorageKnown(c.status) THEN 0 ELSE d.storage[k]
    BY DEF StorageOf
  <2> HIDE DEF c, d
  <2> QED
    BY <2>1 DEF Shown
<1> HIDE DEF c, d, w
<1>3. ASSUME NEW k \in Slots PROVE StorageOf(a, k) = w.storage[k]
    BY <1>1, <1>2, CurrentReads DEF Current
<1> QED
    BY <1>1, <1>3 DEF Current, c, w

\* A slot is put into the cache.
LEMMA LoadInv ==
    ASSUME StateInv, NEW a \in Addresses, NEW k \in Slots, Load(a, k)
    PROVE  StateInv'
<1> DEFINE c == CacheAccountOf(a)
           s == Extended(c.storage, [y \in {k} |-> StorageOf(a, k)])
           x == IF c.info = None THEN c ELSE [c EXCEPT !.storage = s]
           d == Database[a]
           w == world[a]
<1>1. Current(c, w, d) /\ w \in DbAccounts /\ d \in DbAccounts
    BY InvIs
<1>2. StorageOf(a, k) = w.storage[k]
    BY ReadsIs
<1>3. /\ cache' = Extended(cache, [y \in {a} |-> x])
      /\ UNCHANGED <<db, hasStateClear, transitions, bundle, usePreloaded, mixed, outer, world, merged, history>>
    BY DEF Load
<1> HIDE DEF c, d, w, x
<1>4. /\ DOMAIN cache' = DOMAIN cache \cup {a}
      /\ \A b \in Addresses : CacheAccountOf(b)' = IF b = a THEN x ELSE CacheAccountOf(b)
    BY <1>3, CacheAfter
<1>5. c \in CacheAccounts /\ \A y \in Slots : w.storage[y] = Shown(c, d, y)
    BY <1>1 DEF Current
<1>6. c.info # None =>
        /\ s \in PartialMaps(Words) /\ DOMAIN s = DOMAIN c.storage \cup {k}
        /\ \A y \in DOMAIN s : s[y] = IF y = k THEN w.storage[k] ELSE c.storage[y]
  <2>1. w.storage[k] \in Words
    BY <1>1, DbIs
  <2> DEFINE g == [y \in {k} |-> StorageOf(a, k)]
  <2>2. g \in PartialMaps(Words) /\ DOMAIN g = {k} /\ g[k] = w.storage[k]
    BY <1>2, <2>1, MapIs
  <2> HIDE DEF g
  <2>3. c.storage \in PartialMaps(Words)
    BY <1>5, CacheIs
  <2>4. s = Extended(c.storage, g)
    BY DEF g
  <2> HIDE DEF s
  <2>5. /\ s \in PartialMaps(Words)
        /\ DOMAIN s = DOMAIN c.storage \cup DOMAIN g
        /\ \A y \in DOMAIN c.storage \cup DOMAIN g : s[y] = IF y \in DOMAIN g THEN g[y] ELSE c.storage[y]
    BY <2>2, <2>3, <2>4, ExtendedIs
  <2> QED
    BY <2>2, <2>5
<1> HIDE DEF s
<1>7. x.info = c.info /\ x.status = c.status
  <2>1. c = [info |-> c.info, storage |-> c.storage, status |-> c.status]
    BY <1>5, CacheIs
  <2> QED
    BY <2>1 DEF x
<1>8. Current(x, w, d)
  <2>1. CASE c.info = None
    BY <1>1, <2>1 DEF x
  <2>2. CASE c.info # None
    <3>1. x \in CacheAccounts /\ x.storage = s
      BY <1>5, <1>6, <2>2 DEF CacheAccounts, x
    <3>2. ASSUME NEW y \in Slots PROVE w.storage[y] = Shown(x, d, y)
      BY <1>5, <1>6, <1>7, <2>2, <3>1 DEF Shown
    <3> QED
      BY <1>1, <1>7, <3>1, <3>2 DEF Current
  <2> QED
    BY <2>1, <2>2
<1>9. \A b \in Addresses : TransitionAt(b)' = TransitionAt(b)
    BY <1>3 DEF TransitionAt
<1>10. ASSUME NEW b \in Addresses
       PROVE  /\ Current(CacheAccountOf(b)', world'[b], Database[b])
              /\ Recorded(TransitionAt(b)', CacheAccountOf(b)', merged[b], world'[b])
              /\ LastView(TransitionAt(b)', CacheAccountOf(b)') = LastView(TransitionAt(b), CacheAccountOf(b))
  <2>1. CASE b = a
    <3>1. Recorded(TransitionAt(a), c, merged[a], w)
      BY InvIs DEF c, w
    <3>2. Recorded(TransitionAt(a), x, merged[a], w)
      BY <1>7, <3>1 DEF Recorded
    <3>3. LastView(TransitionAt(a), x) = LastView(TransitionAt(a), c)
      BY <1>7 DEF LastView
    <3>4. CacheAccountOf(a)' = x /\ world' = world /\ TransitionAt(a)' = TransitionAt(a)
      BY <1>3, <1>4, <1>9
    <3> QED
      BY <1>8, <2>1, <3>2, <3>3, <3>4 DEF c, w, d
  <2>2. CASE b # a
    BY <1>3, <1>4, <1>9, <2>2, InvIs
  <2> QED
    BY <2>1, <2>2
<1>11. /\ world' \in Worlds /\ hasStateClear' \in BOOLEAN
       /\ DOMAIN transitions' \subseteq DOMAIN cache' /\ DOMAIN cache' \subseteq Addresses
       /\ \A b \in DOMAIN transitions' : transitions'[b] # None
    BY <1>3, <1>4 DEF StateInv, Types
<1> QED
    BY <1>3, <1>4, <1>10, <1>11, CacheStep

\* The transitions after one more.
LEMMA TransitionsAfter ==
    ASSUME NEW a \in Addresses, NEW n,
           transitions' = WithoutNone(Extended(transitions, [x \in {a} |-> n])),
           \A b \in DOMAIN transitions : transitions[b] # None
    PROVE  /\ DOMAIN transitions' \subseteq DOMAIN transitions \cup {a}
           /\ \A b \in DOMAIN transitions' : transitions'[b] # None
           /\ \A b \in Addresses : TransitionAt(b)' = IF b = a THEN n ELSE TransitionAt(b)
<1> DEFINE e == Extended(transitions, [x \in {a} |-> n])
           S == {b \in DOMAIN e : e[b] # None}
<1>1. /\ DOMAIN e = DOMAIN transitions \cup {a}
      /\ \A b \in DOMAIN e : e[b] = IF b = a THEN n ELSE transitions[b]
    BY DEF Extended
<1>2. transitions' = [b \in S |-> e[b]]
    BY DEF WithoutNone, Restrict
<1> HIDE DEF e
<1>3. DOMAIN transitions' = S /\ \A b \in S : transitions'[b] = e[b]
    BY <1>2
<1> QED
    BY <1>1, <1>3 DEF TransitionAt

\* A transaction, or a change of balance, moves an account and the world's account alike.
LEMMA MoveInv ==
    ASSUME StateInv, NEW a \in Addresses, NEW moved, Transition(a, moved), NEW v \in DbAccounts,
           Moves(CacheAccountOf(a), world[a], moved, v), world' = [world EXCEPT ![a] = v]
    PROVE  StateInv'
<1> DEFINE c == CacheAccountOf(a)
           t == TransitionAt(a)
           n == AddTransition(t, moved.transition)
<1>1. /\ cache' = Extended(cache, [x \in {a} |-> moved.account])
      /\ transitions' = WithoutNone(Extended(transitions, [x \in {a} |-> n]))
      /\ UNCHANGED <<db, hasStateClear, bundle, usePreloaded, mixed, outer, merged, history>>
    BY DEF Transition, TransitionAt
<1>2. /\ Current(c, world[a], Database[a]) /\ Recorded(t, c, merged[a], world[a])
      /\ world[a] \in DbAccounts /\ merged[a] \in DbAccounts /\ Database[a] \in DbAccounts
    BY InvIs
<1>3. /\ world \in Worlds /\ hasStateClear \in BOOLEAN
      /\ DOMAIN transitions \subseteq DOMAIN cache /\ DOMAIN cache \subseteq Addresses
      /\ \A b \in DOMAIN transitions : transitions[b] # None
    BY DEF StateInv, Types
<1> HIDE DEF c, t
<1>4. Moves(c, world[a], moved, v)
    BY DEF c
<1>5. Current(moved.account, v, Database[a])
    BY <1>2, <1>4, MoveCurrent
<1>6. Recorded(n, moved.account, merged[a], v) /\ LastView(n, moved.account) = LastView(t, c)
    BY <1>2, <1>4, MoveRecorded
<1> HIDE DEF n
<1>7. /\ DOMAIN cache' = DOMAIN cache \cup {a}
      /\ \A b \in Addresses : CacheAccountOf(b)' = IF b = a THEN moved.account ELSE CacheAccountOf(b)
    BY <1>1, CacheAfter
<1>8. /\ DOMAIN transitions' \subseteq DOMAIN transitions \cup {a}
      /\ \A b \in DOMAIN transitions' : transitions'[b] # None
      /\ \A b \in Addresses : TransitionAt(b)' = IF b = a THEN n ELSE TransitionAt(b)
    BY <1>1, <1>3, TransitionsAfter
<1>9. world' \in Worlds /\ \A b \in Addresses : world'[b] = IF b = a THEN v ELSE world[b]
    BY <1>3 DEF Worlds
<1>10. ASSUME NEW b \in Addresses
       PROVE  /\ Current(CacheAccountOf(b)', world'[b], Database[b])
              /\ Recorded(TransitionAt(b)', CacheAccountOf(b)', merged[b], world'[b])
              /\ LastView(TransitionAt(b)', CacheAccountOf(b)') = LastView(TransitionAt(b), CacheAccountOf(b))
  <2>1. CASE b = a
    <3>1. CacheAccountOf(a)' = moved.account /\ world'[a] = v /\ TransitionAt(a)' = n
      BY <1>7, <1>8, <1>9
    <3> QED
      BY <1>5, <1>6, <2>1, <3>1 DEF c, t
  <2>2. CASE b # a
    BY <1>7, <1>8, <1>9, <2>2, InvIs
  <2> QED
    BY <2>1, <2>2
<1>11. /\ hasStateClear' \in BOOLEAN
       /\ DOMAIN transitions' \subseteq DOMAIN cache' /\ DOMAIN cache' \subseteq Addresses
    BY <1>1, <1>3, <1>7, <1>8
<1> QED
    BY <1>1, <1>7, <1>8, <1>9, <1>10, <1>11, CacheStep

\* Nothing happens to the State.
LEMMA StutterInv ==
    ASSUME StateInv, UNCHANGED <<db, cache, hasStateClear, transitions, bundle, usePreloaded, mixed, outer,
                                 world, merged, history>>
    PROVE  StateInv'
<1>1. UNCHANGED <<db, cache, hasStateClear, transitions, bundle, usePreloaded, mixed, outer,
                  world, merged, history>>
    OBVIOUS
<1>2. Database' = Database /\ \A n : Before(n)' = Before(n)
    BY <1>1 DEF Database, Before
<1>3. \A a : CacheAccountOf(a)' = CacheAccountOf(a) /\ TransitionAt(a)' = TransitionAt(a)
    BY <1>1, <1>2 DEF CacheAccountOf, TransitionAt
<1>4. \A a \in Addresses : TransitionOk(a)' <=> TransitionOk(a)
    BY <1>1, <1>2, <1>3 DEF TransitionOk
<1>5. Own => Own'
    BY <1>1, OwnKept
<1>6. Types'
  <2>1. Types
    BY DEF StateInv
  <2>2. /\ db' = db /\ world' = world /\ merged' = merged /\ history' = history
        /\ hasStateClear' = hasStateClear /\ transitions' = transitions /\ cache' = cache
        /\ usePreloaded' = usePreloaded /\ outer' = outer /\ bundle' = bundle
    BY <1>1
  <2> QED
    BY <1>2, <2>1, <2>2 DEF Types
<1>7. FreshOk'
    BY <1>1 DEF StateInv, FreshOk
<1> QED
    BY <1>1, <1>2, <1>3, <1>4, <1>5, <1>6, <1>7 DEF StateInv

\* commit.
LEMMA CommitInv ==
    ASSUME StateInv, NEW a \in Addresses, Commit(a)
    PROVE  StateInv'
<1> DEFINE c == CacheAccountOf(a)
           w == world[a]
           moved(out) == ApplyAccountState(c, out, hasStateClear)
<1>1. PICK out \in EvmOutputs(c.info, w) :
          \/ /\ moved(out).account.status # None
             /\ Transition(a, moved(out))
             /\ world' = [world EXCEPT ![a] = AfterOutput(@, out)]
          \/ Panic(c.status)
    BY DEF Commit
<1>2. Current(c, w, Database[a]) /\ w \in DbAccounts /\ Database[a] \in DbAccounts
    BY InvIs
<1>3. hasStateClear \in BOOLEAN
    BY DEF StateInv, Types
<1> HIDE DEF c
<1>4. /\ AfterOutput(w, out) \in DbAccounts
      /\ Moves(c, w, moved(out), AfterOutput(w, out)) \/ moved(out).account.status = None
    BY <1>2, <1>3, CommitMoves
<1>5. CASE Panic(c.status)
    BY <1>5, StutterInv DEF Panic
<1>6. CASE ~Panic(c.status)
  <2>1. world' = [world EXCEPT ![a] = AfterOutput(w, out)]
    BY <1>1, <1>6
  <2> QED
    BY <1>1, <1>4, <1>6, <2>1, MoveInv DEF c
<1> QED
    BY <1>5, <1>6

\* A balance is set, of an account that may not exist.
LEMMA BalanceInv ==
    ASSUME StateInv, NEW a \in Addresses, NEW n \in 0 .. MaxBalance,
           Transition(a, AccountInfoChange(CacheAccountOf(a),
                             SetBalance(InfoOrDefault(CacheAccountOf(a)), Base, n))),
           world' = [world EXCEPT ![a].info = SetBalance(WorldInfo(a), Base, n)]
    PROVE  StateInv'
<1> DEFINE c == CacheAccountOf(a)
           w == world[a]
           d == Database[a]
           i == SetBalance(InfoOrDefault(c), Base, n)
           j == SetBalance(WorldInfo(a), Base, n)
           v == [w EXCEPT !.info = j]
           moved == AccountInfoChange(c, i)
<1>1. Current(c, w, d) /\ w \in DbAccounts /\ d \in DbAccounts
    BY InvIs
<1>2. /\ InfoOrDefault(c) = (IF c.info = None THEN DefaultInfo ELSE c.info)
      /\ WorldInfo(a) = (IF w.info = None THEN DefaultInfo ELSE w.info)
    BY DEF InfoOrDefault, WorldInfo
<1>3. Transition(a, moved)
    OBVIOUS
<1>4. world' = [world EXCEPT ![a] = v]
    OBVIOUS
<1> HIDE DEF c, w, d
<1>5. c.info \in InfoOrNone /\ w.info \in InfoOrNone /\ Holds(c.info) = Holds(w.info)
    BY <1>1, CacheIs, DbIs DEF Current
<1>6. InfoOrDefault(c) \in Infos /\ WorldInfo(a) \in Infos /\ InfoOrDefault(c).code = WorldInfo(a).code
    BY <1>2, <1>5, HoldsIs, DefaultIs DEF InfoOrNone
<1>7. /\ i \in Infos /\ j \in Infos /\ i.code = j.code /\ i.code = InfoOrDefault(c).code
      /\ GetBalance(i, Base) = n /\ GetBalance(j, Base) = n
    BY <1>6, SetBalanceIs
<1> HIDE DEF i, j
<1>8. Holds(i) = Holds(j)
    BY <1>7, InfoIs DEF Holds
<1>9. v.info = j /\ v.storage = w.storage /\ v \in DbAccounts
  <2>1. w = [info |-> w.info, storage |-> w.storage] /\ w.storage \in Storages
    BY <1>1 DEF DbAccounts
  <2>2. v.info = j /\ v.storage = w.storage /\ v = [info |-> v.info, storage |-> v.storage]
    BY <2>1
  <2> HIDE DEF v
  <2>3. Asleep(v) => Asleep(w)
    BY <1>2, <1>6, <1>7, <2>2, InfoIs DEF Asleep
  <2>4. Asleep(v) => \A k \in Slots : v.storage[k] = 0
    BY <1>1, <2>2, <2>3, DbIs
  <2> QED
    BY <1>7, <2>1, <2>2, <2>4, DbMake DEF InfoOrNone
<1> HIDE DEF v
<1>10. Empty \in StorageSlots /\ Rewrites(Empty, w, v)
    BY <1>9, EmptyIs DEF Rewrites, StorageSlots
<1>11. c.info # None /\ c.info.code # None => i.code # None
    BY <1>2, <1>7
<1>12. Moves(c, w, Change(c, i, Empty), v)
    BY <1>1, <1>7, <1>8, <1>9, <1>10, <1>11, ChangeMoves
<1>13. Moves(c, w, moved, v)
    BY <1>12 DEF AccountInfoChange
<1> HIDE DEF moved
<1> QED
    BY <1>3, <1>4, <1>9, <1>13, MoveInv DEF c, w

\* increment_balances.
LEMMA IncrementInv ==
    ASSUME StateInv, NEW a \in Addresses, NEW n \in 1 .. MaxBalance, IncrementBalances(a, n)
    PROVE  StateInv'
<1> DEFINE c == CacheAccountOf(a)
           m == GetBalance(WorldInfo(a), Base) + n
<1>1. Current(c, world[a], Database[a]) /\ world[a] \in DbAccounts
    BY InvIs
<1>2. /\ m <= MaxBalance
      /\ Transition(a, AccountInfoChange(c, SetBalance(InfoOrDefault(c), Base,
                                                       GetBalance(InfoOrDefault(c), Base) + n)))
      /\ world' = [world EXCEPT ![a].info = SetBalance(WorldInfo(a), Base, m)]
    BY DEF IncrementBalances
<1> HIDE DEF c
<1>3. c.info \in InfoOrNone /\ world[a].info \in InfoOrNone /\ Holds(c.info) = Holds(world[a].info)
    BY <1>1, CacheIs, DbIs DEF Current
<1>4. WorldInfo(a) \in Infos /\ GetBalance(InfoOrDefault(c), Base) = GetBalance(WorldInfo(a), Base)
    BY <1>3, HoldsIs, DefaultIs DEF InfoOrNone, WorldInfo, InfoOrDefault
<1>5. m \in 0 .. MaxBalance
  <2>1. GetBalance(WorldInfo(a), Base) \in 0 .. MaxBalance
    BY <1>4, InfoIs
  <2>2. MaxBalance \in Nat
    BY BoundsAssumption
  <2> QED
    BY <1>2, <2>1, <2>2
<1>6. Transition(a, AccountInfoChange(c, SetBalance(InfoOrDefault(c), Base, m)))
    BY <1>2, <1>4
<1> HIDE DEF m
<1> QED
    BY <1>2, <1>5, <1>6, BalanceInv DEF c

\* drain_balances.
LEMMA DrainInv ==
    ASSUME StateInv, NEW a \in Addresses, DrainBalances(a)
    PROVE  StateInv'
<1>1. /\ Transition(a, AccountInfoChange(CacheAccountOf(a), SetBalance(InfoOrDefault(CacheAccountOf(a)), Base, 0)))
      /\ world' = [world EXCEPT ![a].info = SetBalance(WorldInfo(a), Base, 0)]
    BY DEF DrainBalances
<1>2. 0 \in 0 .. MaxBalance
    BY BoundsAssumption
<1> QED
    BY <1>1, <1>2, BalanceInv

\* set_state_clear_flag.
LEMMA ClearFlagInv ==
    ASSUME StateInv, SetStateClearFlag
    PROVE  StateInv'
<1>1. /\ hasStateClear' = TRUE
      /\ UNCHANGED <<db, cache, transitions, bundle, usePreloaded, mixed, outer, world, merged, history>>
    BY DEF SetStateClearFlag
<1>2. ASSUME NEW b \in Addresses
      PROVE  CacheAccountOf(b)' = CacheAccountOf(b) /\ TransitionAt(b)' = TransitionAt(b)
    BY <1>1 DEF CacheAccountOf, TransitionAt, Database
<1>3. /\ world \in Worlds /\ DOMAIN transitions \subseteq DOMAIN cache /\ DOMAIN cache \subseteq Addresses
      /\ \A b \in DOMAIN transitions : transitions[b] # None
    BY DEF StateInv, Types
<1>4. ASSUME NEW b \in Addresses
      PROVE  /\ Current(CacheAccountOf(b)', world'[b], Database[b])
             /\ Recorded(TransitionAt(b)', CacheAccountOf(b)', merged[b], world'[b])
             /\ LastView(TransitionAt(b)', CacheAccountOf(b)') = LastView(TransitionAt(b), CacheAccountOf(b))
    BY <1>1, <1>2, InvIs
<1> QED
    BY <1>1, <1>3, <1>4, CacheStep

-----------------------------------------------------------------------------
(* merge_transitions                                                       *)

\* The reverts of one block.
BlockReverts(bs, ts, include) ==
    IF include THEN WithoutNone([a \in DOMAIN ts |-> AppliedTransition(bs.state, a, ts[a]).revert])
    ELSE Empty

\* The bundle x is bs with the transitions ts merged into it.
IsApplied(x, bs, ts, include) ==
    /\ DOMAIN x = BundleFields
    /\ x.state = [a \in DOMAIN x.state |-> x.state[a]]
    /\ DOMAIN x.state \subseteq DOMAIN bs.state \cup DOMAIN ts
    /\ \A a \in DOMAIN ts :
          LET u == AppliedTransition(bs.state, a, ts[a])
          IN /\ a \in DOMAIN x.state <=> u.account # None
             /\ u.account # None => x.state[a] = u.account
             /\ ~u.panic
    /\ \A a \in DOMAIN bs.state \ DOMAIN ts : a \in DOMAIN x.state /\ x.state[a] = bs.state[a]
    /\ x.reverts = Append(bs.reverts, BlockReverts(bs, ts, include))
    /\ ~x.panic

\* apply_transitions_and_create_reverts.
LEMMA ApplyIs ==
    ASSUME NEW bs, NEW ts, NEW include \in BOOLEAN, ~bs.panic,
           \A a \in DOMAIN bs.state : bs.state[a] # None,
           \A a \in DOMAIN ts : ~AppliedTransition(bs.state, a, ts[a]).panic
    PROVE  IsApplied(ApplyTransitionsAndCreateReverts(bs, ts, include), bs, ts, include)
<1> DEFINE update == [a \in DOMAIN ts |-> AppliedTransition(bs.state, a, ts[a])]
           accounts == [a \in DOMAIN update |-> update[a].account]
           e == Extended(bs.state, accounts)
           S == {a \in DOMAIN e : e[a] # None}
           state == WithoutNone(e)
           reverts == IF include THEN WithoutNone([a \in DOMAIN update |-> update[a].revert]) ELSE Empty
           codes == bs.contracts \cup {CodeHash(ts[a].info) : a \in {x \in DOMAIN ts : HasNewContract(ts[x])}}
           m == bs.state_size + SumSizes(Restrict(state, DOMAIN update \cap DOMAIN state))
                           - SumSizes(Restrict(bs.state, DOMAIN update \cap DOMAIN bs.state))
           n == bs.reverts_size + SumSizes(reverts)
           p == bs.panic \/ \E a \in DOMAIN update : update[a].panic
           x == ApplyTransitionsAndCreateReverts(bs, ts, include)
<1>1. x = [state |-> state, contracts |-> codes, reverts |-> Append(bs.reverts, reverts),
           state_size |-> m, reverts_size |-> n, panic |-> p]
    BY DEF ApplyTransitionsAndCreateReverts
<1> HIDE DEF x
<1>2. DOMAIN update = DOMAIN ts /\ \A a \in DOMAIN ts : update[a] = AppliedTransition(bs.state, a, ts[a])
    OBVIOUS
<1>3. ~p
    BY <1>2
<1>4. reverts = BlockReverts(bs, ts, include)
    BY DEF BlockReverts
<1> HIDE DEF update, m, n, codes, reverts, p
<1>5. /\ DOMAIN e = DOMAIN bs.state \cup DOMAIN ts
      /\ \A a \in DOMAIN e : e[a] = IF a \in DOMAIN ts THEN AppliedTransition(bs.state, a, ts[a]).account
                                    ELSE bs.state[a]
    BY <1>2 DEF Extended
<1> HIDE DEF accounts, e
<1>6. state = [a \in S |-> e[a]]
    BY DEF WithoutNone, Restrict
<1> HIDE DEF S
<1>s. DOMAIN state = S /\ state = [a \in DOMAIN state |-> state[a]] /\ \A a \in S : state[a] = e[a]
    BY <1>6
<1> HIDE DEF state
<1>7. DOMAIN x = BundleFields /\ x.state = state /\ x.reverts = Append(bs.reverts, reverts) /\ (x.panic <=> p)
    BY <1>1 DEF BundleFields
<1>8. DOMAIN state \subseteq DOMAIN bs.state \cup DOMAIN ts
    BY <1>5, <1>s DEF S
<1>9. ASSUME NEW a \in DOMAIN ts
      PROVE  /\ a \in DOMAIN state <=> AppliedTransition(bs.state, a, ts[a]).account # None
             /\ AppliedTransition(bs.state, a, ts[a]).account # None =>
                    state[a] = AppliedTransition(bs.state, a, ts[a]).account
    BY <1>5, <1>s DEF S
<1>10. ASSUME NEW a \in DOMAIN bs.state \ DOMAIN ts
       PROVE  a \in DOMAIN state /\ state[a] = bs.state[a]
    BY <1>5, <1>s DEF S
<1>11. IsApplied(x, bs, ts, include)
    BY <1>3, <1>4, <1>7, <1>s, <1>8, <1>9, <1>10 DEF IsApplied
<1> QED
    BY <1>11 DEF x

\* The accounts that a block's reverts have.
LEMMA BlockRevertsIs ==
    ASSUME NEW bs, NEW ts, NEW include \in BOOLEAN
    PROVE  LET r == BlockReverts(bs, ts, include)
           IN /\ r = [a \in DOMAIN r |-> r[a]]
              /\ \A a : a \in DOMAIN r <=> include /\ a \in DOMAIN ts
                                             /\ AppliedTransition(bs.state, a, ts[a]).revert # None
              /\ \A a \in DOMAIN r : r[a] = AppliedTransition(bs.state, a, ts[a]).revert
<1> DEFINE f == [a \in DOMAIN ts |-> AppliedTransition(bs.state, a, ts[a]).revert]
           S == {a \in DOMAIN f : f[a] # None}
           r == BlockReverts(bs, ts, include)
<1>1. r = IF include THEN [a \in S |-> f[a]] ELSE Empty
    BY DEF BlockReverts, WithoutNone, Restrict
<1>2. \A a : a \in S <=> a \in DOMAIN ts /\ AppliedTransition(bs.state, a, ts[a]).revert # None
    OBVIOUS
<1>3. \A a \in S : f[a] = AppliedTransition(bs.state, a, ts[a]).revert
    OBVIOUS
<1>4. DOMAIN Empty = {} /\ Empty = [a \in DOMAIN Empty |-> Empty[a]]
    BY DEF Empty
<1> HIDE DEF r, S, f
<1>5. CASE include
    BY <1>1, <1>2, <1>3, <1>5 DEF r
<1>6. CASE ~include
    BY <1>1, <1>4, <1>6 DEF r
<1> QED
    BY <1>5, <1>6

\* A block's transition of an account is applied to an account it leads on from.
LEMMA MergeApplied ==
    ASSUME StateInv, NEW a \in Addresses, a \in DOMAIN transitions
    PROVE  LET t == transitions[a]
               b == IF a \in DOMAIN bundle.state THEN bundle.state[a] ELSE OriginalBundleAccount(t)
           IN /\ Applied(AppliedTransition(bundle.state, a, t), bundle.state, a, t,
                         merged[a], world[a], Database[a])
              /\ t.info = CacheAccountOf(a).info /\ t.status = CacheAccountOf(a).status
              /\ Follows(b.status, t.status, t.storage_was_destroyed)
              /\ Own => OriginalOk(b, Database[a])
              /\ a \notin DOMAIN bundle.state =>
                    /\ SameAccount(merged[a], Database[a])
                    /\ b.status \in {"LoadedNotExisting", "Destroyed", "DestroyedChanged", "DestroyedAgain"}
                          => \A k \in Slots : merged[a].storage[k] = 0
<1> DEFINE t == transitions[a]
           c == CacheAccountOf(a)
           b == IF a \in DOMAIN bundle.state THEN bundle.state[a] ELSE OriginalBundleAccount(t)
           m == merged[a]
           w == world[a]
           d == Database[a]
<1>1. /\ w \in DbAccounts /\ m \in DbAccounts /\ d \in DbAccounts
      /\ Current(c, w, d) /\ TransitionOk(a)
    BY InvIs
<1>2. TransitionAt(a) = t /\ t # None
    BY DEF TransitionAt, StateInv, Types
<1>3. /\ Recorded(t, c, m, w)
      /\ IF a \in DOMAIN bundle.state THEN bundle.state[a].status = LastView(t, c).status
         ELSE Current(LastView(t, c), m, d)
    BY <1>1, <1>2 DEF TransitionOk
<1>4. IF a \in DOMAIN bundle.state
      THEN /\ bundle.state[a] \in BundleAccounts /\ bundle.state[a].status # "LoadedNotExisting"
           /\ Current(View(bundle.state[a]), m, d)
      ELSE SameAccount(m, d)
    BY DEF StateInv, BundleOver
<1> HIDE DEF c, m, w, d, t
<1>5. LastView(t, c) = [info |-> t.previous_info, storage |-> Empty, status |-> t.previous_status]
    BY <1>2 DEF LastView
<1>6. /\ t \in TransitionAccounts /\ t.info = c.info /\ t.status = c.status
      /\ Follows(t.previous_status, t.status, t.storage_was_destroyed)
      /\ Leads(t, m, w)
    BY <1>2, <1>3 DEF Recorded
<1>7. /\ b \in BundleAccounts /\ b.status = t.previous_status /\ Current(View(b), m, d)
      /\ b.status = "LoadedNotExisting" => DOMAIN b.storage = {}
      /\ a \notin DOMAIN bundle.state => DOMAIN b.storage = {} /\ b.original_info = t.previous_info
                                         /\ b.info = t.previous_info
  <2>1. CASE a \in DOMAIN bundle.state
    BY <1>3, <1>4, <1>5, <2>1
  <2>2. CASE a \notin DOMAIN bundle.state
    <3>1. b = OriginalBundleAccount(t)
      BY <2>2
    <3> HIDE DEF b
    <3>2. /\ b \in BundleAccounts /\ b.storage = Empty /\ b.status = t.previous_status
          /\ b.original_info = t.previous_info /\ b.info = t.previous_info
          /\ View(b) = [info |-> t.previous_info, storage |-> Empty, status |-> t.previous_status]
      BY <1>6, <3>1, OriginalIs
    <3> QED
      BY <1>3, <1>5, <2>2, <3>2, EmptyIs
  <2> QED
    BY <2>1, <2>2
<1> HIDE DEF b
<1>8. Merging(b, t, m, w, d)
    BY <1>1, <1>6, <1>7 DEF Merging, Current
<1>9. a \in DOMAIN bundle.state => b.status # "LoadedNotExisting"
    BY <1>4 DEF b
<1>10. Applied(AppliedTransition(bundle.state, a, t), bundle.state, a, t, m, w, d)
    BY <1>1, <1>8, <1>9, AppliedIs DEF b
<1>11. a \notin DOMAIN bundle.state => Holds(b.info) = Holds(d.info)
    BY <1>4, <1>7, ViewIs DEF Current, SameAccount
<1>12. Own => OriginalOk(b, d)
  <2>1. CASE a \in DOMAIN bundle.state
    BY <2>1 DEF Own, b, d
  <2>2. CASE a \notin DOMAIN bundle.state
    BY <1>7, <1>11, <2>2 DEF OriginalOk
  <2> QED
    BY <2>1, <2>2
<1>13. a \notin DOMAIN bundle.state =>
         /\ SameAccount(m, d)
         /\ b.status \in {"LoadedNotExisting", "Destroyed", "DestroyedChanged", "DestroyedAgain"}
                => \A k \in Slots : m.storage[k] = 0
    BY <1>1, <1>4, <1>7, ViewCurrent DEF IsStorageKnown, WasDestroyed
<1> QED
    BY <1>6, <1>7, <1>10, <1>12, <1>13 DEF t, b, c, m, w, d

\* An account after a merge to the bundle x, with reverts r.
MergeFacts(x, r, include, a) ==
    LET c == CacheAccountOf(a)
        w == world[a]
        m == merged[a]
        d == Database[a]
    IN /\ IF a \in DOMAIN x.state
          THEN /\ x.state[a] \in BundleAccounts /\ x.state[a].status # "LoadedNotExisting"
               /\ Current(View(x.state[a]), w, d)
               /\ x.state[a].status = c.status
               /\ Own => OriginalOk(x.state[a], d)
               /\ ~usePreloaded => x.state[a].status \in Active
          ELSE /\ SameAccount(w, d)
               /\ Current(LastView(None, c), w, d)
       /\ a \in DOMAIN bundle.state /\ WasDestroyed(bundle.state[a].status) =>
             a \in DOMAIN x.state /\ WasDestroyed(x.state[a].status)
       /\ a \in DOMAIN r =>
             /\ include
             /\ a \in DOMAIN x.state
             /\ r[a].wipe_storage => WasDestroyed(x.state[a].status)
             /\ Own => RevertedOk(Reverted(x.state[a], r[a]), m, d)
             /\ SameAccount(UnwoundAccount(w, d, PlainRevert(r[a])), m)
       /\ include /\ a \notin DOMAIN r => SameAccount(w, m)

\* An account that no transition of the block is about.
LEMMA MergeIdle ==
    ASSUME StateInv, NEW include \in BOOLEAN, NEW x, IsApplied(x, bundle, transitions, include),
           NEW a \in Addresses, a \notin DOMAIN transitions
    PROVE  MergeFacts(x, BlockReverts(bundle, transitions, include), include, a)
<1> DEFINE c == CacheAccountOf(a)
           m == merged[a]
           w == world[a]
           d == Database[a]
           r == BlockReverts(bundle, transitions, include)
<1>1. /\ w \in DbAccounts /\ m \in DbAccounts /\ d \in DbAccounts
      /\ Current(c, w, d) /\ TransitionOk(a)
    BY InvIs
<1>2. TransitionAt(a) = None
    BY DEF TransitionAt
<1>3. /\ SameAccount(w, m)
      /\ IF a \in DOMAIN bundle.state THEN bundle.state[a].status = c.status
         ELSE Current(LastView(None, c), m, d)
    BY <1>1, <1>2 DEF TransitionOk, Recorded, LastView
<1>4. IF a \in DOMAIN bundle.state
      THEN /\ bundle.state[a] \in BundleAccounts /\ bundle.state[a].status # "LoadedNotExisting"
           /\ Current(View(bundle.state[a]), m, d)
      ELSE SameAccount(m, d)
    BY DEF StateInv, BundleOver
<1>5. a \in DOMAIN x.state <=> a \in DOMAIN bundle.state
    BY DEF IsApplied
<1>6. a \in DOMAIN bundle.state => x.state[a] = bundle.state[a]
    BY DEF IsApplied
<1>7. a \notin DOMAIN r
    BY BlockRevertsIs
<1>8. a \in DOMAIN bundle.state =>
         /\ ~usePreloaded => bundle.state[a].status \in Active
         /\ Own => OriginalOk(bundle.state[a], d)
    BY DEF StateInv, FreshOk, Own
<1> HIDE DEF c, m, w, d, r
<1>9. a \in DOMAIN bundle.state => Current(View(bundle.state[a]), w, d)
    BY <1>1, <1>3, <1>4, CurrentSame
<1>10. a \notin DOMAIN bundle.state => SameAccount(w, d) /\ Current(LastView(None, c), w, d)
    BY <1>1, <1>3, <1>4, CurrentSame DEF SameAccount
<1> QED
    BY <1>3, <1>4, <1>5, <1>6, <1>7, <1>8, <1>9, <1>10 DEF MergeFacts, c, m, w, d, r

\* One that a transition is about.
LEMMA MergeMoved ==
    ASSUME StateInv, NEW include \in BOOLEAN, NEW x, IsApplied(x, bundle, transitions, include),
           NEW a \in Addresses, a \in DOMAIN transitions
    PROVE  MergeFacts(x, BlockReverts(bundle, transitions, include), include, a)
<1> DEFINE c == CacheAccountOf(a)
           m == merged[a]
           w == world[a]
           d == Database[a]
           t == transitions[a]
           b == IF a \in DOMAIN bundle.state THEN bundle.state[a] ELSE OriginalBundleAccount(t)
           u == AppliedTransition(bundle.state, a, t)
           r == BlockReverts(bundle, transitions, include)
<1>1. /\ w \in DbAccounts /\ m \in DbAccounts /\ d \in DbAccounts /\ Current(c, w, d)
    BY InvIs
<1>2. /\ Applied(u, bundle.state, a, t, m, w, d)
      /\ t.info = c.info /\ t.status = c.status
      /\ Follows(b.status, t.status, t.storage_was_destroyed)
      /\ Own => OriginalOk(b, d)
      /\ a \notin DOMAIN bundle.state =>
            /\ SameAccount(m, d)
            /\ b.status \in {"LoadedNotExisting", "Destroyed", "DestroyedChanged", "DestroyedAgain"}
                  => \A k \in Slots : m.storage[k] = 0
    BY MergeApplied
<1>3. /\ a \in DOMAIN x.state <=> u.account # None
      /\ u.account # None => x.state[a] = u.account
    BY DEF IsApplied
<1>4. /\ a \in DOMAIN r <=> include /\ u.revert # None
      /\ a \in DOMAIN r => r[a] = u.revert
    BY BlockRevertsIs
<1> HIDE DEF c, m, w, d, u, r, t
<1>5. /\ u.account = None => a \notin DOMAIN bundle.state /\ u.revert = None
      /\ u.account # None =>
            /\ u.account \in BundleAccounts /\ u.account.status = t.status
            /\ Current(View(u.account), w, d)
            /\ OriginalOk(b, d) => OriginalOk(u.account, d)
      /\ u.revert = None => SameAccount(w, m) /\ ~(b.status \in NotDestroyedYet /\ WasDestroyed(t.status))
      /\ u.revert # None =>
            /\ u.revert.wipe_storage => WasDestroyed(t.status)
            /\ Holds(b.original_info) = Holds(d.info) => RevertedOk(Reverted(u.account, u.revert), m, d)
            /\ SameAccount(UnwoundAccount(w, d, PlainRevert(u.revert)), m)
    BY <1>2 DEF Applied
<1>6. t.status \in Active /\ t.status # "LoadedNotExisting"
    BY <1>2 DEF Follows, Active
<1>7. a \in DOMAIN bundle.state /\ WasDestroyed(bundle.state[a].status) => WasDestroyed(t.status)
    BY <1>2 DEF Follows, Active, WasDestroyed, b
<1>8. Own => Holds(b.original_info) = Holds(d.info)
    BY <1>2 DEF OriginalOk
<1>9. ASSUME u.account = None
      PROVE  SameAccount(w, d) /\ Current(LastView(None, c), w, d)
  <2>1. SameAccount(w, m) /\ SameAccount(m, d) /\ SameAccount(w, d)
    BY <1>2, <1>5, <1>9 DEF SameAccount
  <2>2. ASSUME IsStorageKnown(c.status), NEW k \in Slots PROVE w.storage[k] = 0
    <3>1. CASE c.status = "InMemoryChange"
      BY <1>1, <2>1, <3>1, DbIs, SameIs DEF Current
    <3>2. CASE c.info = None
      BY <1>1, <3>2, CurrentReads
    <3>3. CASE c.info # None /\ c.status # "InMemoryChange"
      <4>1. WasDestroyed(t.status)
        BY <1>2, <1>6, <2>2, <3>3 DEF IsStorageKnown
      <4>2. b.status \notin NotDestroyedYet
        BY <1>5, <1>9, <4>1
      <4>3. b \in BundleAccounts /\ b.status \in Statuses
        <5>1. a \notin DOMAIN bundle.state /\ t \in TransitionAccounts
          <6>1. Recorded(TransitionAt(a), c, m, w) /\ TransitionAt(a) = t /\ t # None
            BY InvIs DEF c, m, w, t, TransitionAt, StateInv, Types
          <6> QED
            BY <1>5, <1>9, <6>1 DEF Recorded
        <5> QED
          BY <5>1, OriginalIs, BundleIs
      <4>4. b.status \in {"LoadedNotExisting", "Destroyed", "DestroyedChanged", "DestroyedAgain"}
        BY <4>2, <4>3 DEF Statuses, NotDestroyedYet
      <4>5. m.storage[k] = 0
        BY <1>2, <1>5, <1>9, <4>4
      <4> QED
        BY <1>1, <2>1, <4>5, SameIs
    <3> QED
      BY <3>1, <3>2, <3>3
  <2> DEFINE l == LastView(None, c)
  <2>3. l = [info |-> c.info, storage |-> Empty, status |-> c.status]
    BY DEF LastView
  <2> HIDE DEF l
  <2>4. l.info = c.info /\ l.status = c.status /\ DOMAIN l.storage = {} /\ l \in CacheAccounts
    <3>1. c \in CacheAccounts /\ Empty \in PartialMaps(Words) /\ DOMAIN Empty = {}
      BY <1>1, EmptyIs DEF Current
    <3> QED
      BY <2>3, <3>1 DEF CacheAccounts
  <2>5. ASSUME NEW k \in Slots PROVE w.storage[k] = Shown(l, d, k)
    BY <1>1, <2>1, <2>2, <2>4, SameIs DEF Shown
  <2>6. Current(l, w, d)
    BY <1>1, <2>4, <2>5 DEF Current
  <2> QED
    BY <2>1, <2>6 DEF l
<1> HIDE DEF b
<1>10. IF a \in DOMAIN x.state
       THEN /\ x.state[a] \in BundleAccounts /\ x.state[a].status # "LoadedNotExisting"
            /\ Current(View(x.state[a]), w, d)
            /\ x.state[a].status = c.status
            /\ Own => OriginalOk(x.state[a], d)
            /\ ~usePreloaded => x.state[a].status \in Active
       ELSE /\ SameAccount(w, d)
            /\ Current(LastView(None, c), w, d)
    BY <1>2, <1>3, <1>5, <1>6, <1>9
<1>11. a \in DOMAIN bundle.state /\ WasDestroyed(bundle.state[a].status) =>
             a \in DOMAIN x.state /\ WasDestroyed(x.state[a].status)
    BY <1>3, <1>5, <1>7
<1>12. a \in DOMAIN r =>
             /\ include
             /\ a \in DOMAIN x.state
             /\ r[a].wipe_storage => WasDestroyed(x.state[a].status)
             /\ Own => RevertedOk(Reverted(x.state[a], r[a]), m, d)
             /\ SameAccount(UnwoundAccount(w, d, PlainRevert(r[a])), m)
    BY <1>3, <1>4, <1>5, <1>8
<1>13. include /\ a \notin DOMAIN r => SameAccount(w, m)
    BY <1>4, <1>5
<1> QED
    BY <1>10, <1>11, <1>12, <1>13 DEF MergeFacts, c, m, w, d, r

\* The bundle y is x without the block whose reverts are r.
WithoutBlock(y, x, r) ==
    /\ DOMAIN y = BundleFields
    /\ y.state = [a \in DOMAIN y.state |-> y.state[a]]
    /\ \A a : a \in DOMAIN y.state <=>
                 IF a \in DOMAIN r THEN Reverted(x.state[a], r[a]) # None ELSE a \in DOMAIN x.state
    /\ \A a \in DOMAIN y.state : y.state[a] = IF a \in DOMAIN r THEN Reverted(x.state[a], r[a])
                                              ELSE x.state[a]
    /\ y.reverts = SubSeq(x.reverts, 1, Len(x.reverts) - 1)
    /\ y.panic <=> x.panic

\* revert_latest.
LEMMA RevertLatestIs ==
    ASSUME NEW x, DOMAIN x = BundleFields, x.state = [a \in DOMAIN x.state |-> x.state[a]],
           NEW n \in Nat, n # 0, Len(x.reverts) = n, NEW r, x.reverts[n] = r,
           DOMAIN r \subseteq DOMAIN x.state
    PROVE  WithoutBlock(RevertLatest(x), x, r)
<1> DEFINE missing == BundleAccountOf(None, None, Empty, "LoadedNotExisting")
           f == [a \in DOMAIN r |-> Reverted(IF a \in DOMAIN x.state THEN x.state[a] ELSE missing, r[a])]
           after == WithoutNone(f)
           rest == Restrict(x.state, DOMAIN x.state \ DOMAIN r)
           state == Extended(rest, after)
           m == x.state_size + SumSizes(after) - SumSizes(Restrict(x.state, DOMAIN r \cap DOMAIN x.state))
           k == x.reverts_size - SumSizes(r)
           y == RevertLatest(x)
<1>1. y = [x EXCEPT !.state = state, !.reverts = SubSeq(@, 1, n - 1), !.state_size = m, !.reverts_size = k]
    BY DEF RevertLatest
<1>2. DOMAIN f = DOMAIN r /\ \A a \in DOMAIN r : f[a] = Reverted(x.state[a], r[a])
    OBVIOUS
<1> HIDE DEF m, k, y, f
<1>3. /\ DOMAIN after = {a \in DOMAIN f : f[a] # None}
      /\ \A a \in DOMAIN after : after[a] = f[a]
    BY DEF WithoutNone, Restrict
<1>4. DOMAIN rest = DOMAIN x.state \ DOMAIN r /\ \A a \in DOMAIN rest : rest[a] = x.state[a]
    BY DEF Restrict
<1> HIDE DEF after, rest
<1>5. /\ DOMAIN state = DOMAIN rest \cup DOMAIN after
      /\ state = [a \in DOMAIN state |-> state[a]]
      /\ \A a \in DOMAIN state : state[a] = IF a \in DOMAIN after THEN after[a] ELSE rest[a]
    BY DEF Extended
<1> HIDE DEF state
<1>6. /\ DOMAIN y = BundleFields /\ y.state = state /\ y.reverts = SubSeq(x.reverts, 1, n - 1)
      /\ y.panic <=> x.panic
    BY <1>1 DEF BundleFields
<1>7. /\ \A a : a \in DOMAIN state <=>
                   IF a \in DOMAIN r THEN Reverted(x.state[a], r[a]) # None ELSE a \in DOMAIN x.state
      /\ \A a \in DOMAIN state : state[a] = IF a \in DOMAIN r THEN Reverted(x.state[a], r[a])
                                            ELSE x.state[a]
    BY <1>2, <1>3, <1>4, <1>5
<1>8. WithoutBlock(y, x, r)
    BY <1>5, <1>6, <1>7 DEF WithoutBlock
<1> QED
    BY <1>8 DEF y

\* A list with one more.
IsAppended(c, s, x) ==
    /\ IsList(c) /\ Len(s) \in Nat /\ Len(c) = Len(s) + 1 /\ DOMAIN c = 1 .. Len(s) + 1
    /\ c[Len(s) + 1] = x /\ \A i \in 1 .. Len(s) : c[i] = s[i]
    /\ DOMAIN s = 1 .. Len(s)

\* A list and one element more.
LEMMA ListAppend ==
    ASSUME NEW s, NEW x, IsList(s)
    PROVE  IsAppended(Append(s, x), s, x)
<1> DEFINE S == Range(s) \cup {x}
<1>1. s \in Seq(S) /\ x \in S
  <2>1. s \in Seq(Range(s))
    BY DEF IsList
  <2> QED
    BY <2>1
<1> HIDE DEF S
<1>2. /\ Append(s, x) \in Seq(S) /\ Len(s) \in Nat /\ Len(Append(s, x)) = Len(s) + 1
      /\ DOMAIN Append(s, x) = 1 .. Len(s) + 1 /\ DOMAIN s = 1 .. Len(s)
      /\ Append(s, x)[Len(s) + 1] = x /\ \A i \in 1 .. Len(s) : Append(s, x)[i] = s[i]
    BY <1>1
<1>3. IsList(Append(s, x))
    BY <1>2, ListIs
<1> QED
    BY <1>2, <1>3 DEF IsAppended

\* Worlds that are the same.
LEMMA SameWorldIs ==
    ASSUME NEW u, NEW v, NEW w
    PROVE  /\ SameWorld(u, u) /\ (SameWorld(u, v) => SameWorld(v, u))
           /\ SameWorld(u, v) /\ SameWorld(v, w) => SameWorld(u, w)
BY DEF SameWorld, SameAccount

\* Unwinding an account depends on what it holds only.
LEMMA UnwoundAccountSame ==
    ASSUME NEW v, NEW w, SameAccount(v, w), NEW d, NEW r
    PROVE  SameAccount(UnwoundAccount(v, d, r), UnwoundAccount(w, d, r))
<1>1. v.storage = w.storage /\ Holds(v.info) = Holds(w.info)
    BY DEF SameAccount
<1>2. UnwoundAccount(v, d, r).storage = UnwoundAccount(w, d, r).storage
    BY <1>1 DEF UnwoundAccount
<1>3. /\ UnwoundAccount(v, d, r).info = IF r.writeInfo THEN r.info ELSE v.info
      /\ UnwoundAccount(w, d, r).info = IF r.writeInfo THEN r.info ELSE w.info
    BY DEF UnwoundAccount
<1>4. Holds(UnwoundAccount(v, d, r).info) = Holds(UnwoundAccount(w, d, r).info)
    BY <1>1, <1>3
<1> QED
    BY <1>2, <1>4 DEF SameAccount

\* So does unwinding a world.
LEMMA UnwoundSame ==
    ASSUME NEW v, NEW w, SameWorld(v, w), NEW base, NEW plain
    PROVE  SameWorld(Unwound(v, base, plain), Unwound(w, base, plain))
<1> SUFFICES ASSUME NEW a \in Addresses
             PROVE  SameAccount(Unwound(v, base, plain)[a], Unwound(w, base, plain)[a])
    BY DEF SameWorld
<1>1. SameAccount(v[a], w[a])
    BY DEF SameWorld
<1>2. /\ Unwound(v, base, plain)[a] = IF a \in DOMAIN plain THEN UnwoundAccount(v[a], base[a], plain[a]) ELSE v[a]
      /\ Unwound(w, base, plain)[a] = IF a \in DOMAIN plain THEN UnwoundAccount(w[a], base[a], plain[a]) ELSE w[a]
    BY DEF Unwound
<1> QED
    BY <1>1, <1>2, UnwoundAccountSame

\* One more block is unwound first, the others as before.
LEMMA UnwindOneMore ==
    ASSUME NEW base, NEW reverts, NEW r, IsList(reverts), NEW s, NEW z,
           SameWorld(Unwound(z, base, PlainReverts(r)), s), NEW n \in 0 .. Len(reverts)
    PROVE  SameWorld(UnwindLoop!Iterate([base |-> base, reverts |-> Append(reverts, r)], z, n + 1),
                     UnwindLoop!Iterate([base |-> base, reverts |-> reverts], s, n))
<1> DEFINE L == Len(reverts)
           c == [base |-> base, reverts |-> reverts]
           e == [base |-> base, reverts |-> Append(reverts, r)]
           T == {i \in Nat : i <= L =>
                   SameWorld(UnwindLoop!Iterate(e, z, i + 1), UnwindLoop!Iterate(c, s, i))}
<1>1. /\ c.base = base /\ c.reverts = reverts /\ e.base = base /\ e.reverts = Append(reverts, r)
    OBVIOUS
<1>2. IsAppended(e.reverts, reverts, r)
    BY <1>1, ListAppend
<1> HIDE DEF c, e
<1>3. L \in Nat /\ Len(e.reverts) = L + 1
    BY <1>2 DEF IsAppended
<1>4. 0 \in T
  <2>1. UnwindLoop!Iterate(c, s, 0) = s /\ UnwindLoop!Iterate(e, z, 0) = z
    BY UnwindLoop!IterateZero
  <2>2. UnwindLoop!Iterate(e, z, 0 + 1) = UnwindTurn(e, UnwindLoop!Iterate(e, z, 0), 0 + 1)
    BY UnwindLoop!IterateNext
  <2>3. UnwindLoop!Iterate(e, z, 0 + 1) = UnwindTurn(e, z, 1)
    BY <2>1, <2>2
  <2>4. Len(e.reverts) + 1 - 1 = L + 1
    BY <1>3
  <2>5. UnwindTurn(e, z, 1) = Unwound(z, base, PlainReverts(e.reverts[L + 1]))
    BY <1>1, <2>4 DEF UnwindTurn
  <2>6. e.reverts[L + 1] = r
    BY <1>2 DEF IsAppended
  <2>7. SameWorld(UnwindLoop!Iterate(e, z, 0 + 1), UnwindLoop!Iterate(c, s, 0))
    BY <2>1, <2>3, <2>5, <2>6
  <2> QED
    BY <2>7
<1>5. ASSUME NEW i \in T PROVE i + 1 \in T
  <2> SUFFICES ASSUME i + 1 <= L
               PROVE  SameWorld(UnwindLoop!Iterate(e, z, (i + 1) + 1), UnwindLoop!Iterate(c, s, i + 1))
    OBVIOUS
  <2>1. i \in Nat /\ i <= L /\ i + 1 \in Nat
    BY <1>3
  <2> DEFINE y == UnwindLoop!Iterate(e, z, i + 1)
             x == UnwindLoop!Iterate(c, s, i)
  <2>2. SameWorld(y, x)
    BY <2>1
  <2> HIDE DEF T
  <2>3. /\ UnwindLoop!Iterate(c, s, i + 1) = UnwindTurn(c, x, i + 1)
        /\ UnwindLoop!Iterate(e, z, (i + 1) + 1) = UnwindTurn(e, y, (i + 1) + 1)
    BY <2>1, UnwindLoop!IterateNext
  <2> HIDE DEF y, x
  <2>4. /\ Len(e.reverts) + 1 - ((i + 1) + 1) = L - i /\ L + 1 - (i + 1) = L - i /\ L - i \in 1 .. L
    BY <1>3, <2>1
  <2>5. e.reverts[L - i] = reverts[L - i]
    BY <1>2, <2>4 DEF IsAppended
  <2>6. /\ UnwindTurn(c, x, i + 1) = Unwound(x, base, PlainReverts(reverts[L - i]))
        /\ UnwindTurn(e, y, (i + 1) + 1) = Unwound(y, base, PlainReverts(e.reverts[L - i]))
    BY <1>1, <2>4 DEF UnwindTurn
  <2> QED
    BY <2>2, <2>3, <2>5, <2>6, UnwoundSame
<1>6. T = Nat
  <2> T \in SUBSET Nat
    OBVIOUS
  <2> HIDE DEF T
  <2> QED
    BY <1>4, <1>5, UnwindLoop!SetInduction
<1>7. n \in Nat /\ n <= L
    BY <1>3
<1>8. n \in T
    BY <1>6, <1>7
<1> QED
    BY <1>7, <1>8 DEF c, e

\* Reverting the block that was merged.
LEMMA MergeLatest ==
    ASSUME StateInv, Own, NEW x, NEW r, \A a \in Addresses : MergeFacts(x, r, TRUE, a),
           DOMAIN x = BundleFields, x.state = [a \in DOMAIN x.state |-> x.state[a]],
           DOMAIN x.state \subseteq Addresses, DOMAIN r \subseteq Addresses,
           IsAppended(x.reverts, bundle.reverts, r)
    PROVE  BundleOver(RevertLatest(x), merged, Database)
<1> DEFINE y == RevertLatest(x)
           n == Len(bundle.reverts) + 1
<1>1. n \in Nat /\ n # 0 /\ Len(x.reverts) = n /\ x.reverts[n] = r
    BY DEF IsAppended
<1>2. DOMAIN r \subseteq DOMAIN x.state
    BY DEF MergeFacts
<1> HIDE DEF n
<1>3. WithoutBlock(y, x, r)
    BY <1>1, <1>2, RevertLatestIs
<1> HIDE DEF y
<1>4. ASSUME NEW a \in Addresses
      PROVE  IF a \in DOMAIN y.state
             THEN /\ y.state[a] \in BundleAccounts /\ y.state[a].status # "LoadedNotExisting"
                  /\ Current(View(y.state[a]), merged[a], Database[a])
             ELSE SameAccount(merged[a], Database[a])
  <2>0. world[a] \in DbAccounts /\ merged[a] \in DbAccounts /\ Database[a] \in DbAccounts
    BY InvIs
  <2>m. MergeFacts(x, r, TRUE, a)
    OBVIOUS
  <2>1. CASE a \in DOMAIN r
    <3>1. RevertedOk(Reverted(x.state[a], r[a]), merged[a], Database[a])
      BY <2>1, <2>m DEF MergeFacts
    <3>2. /\ a \in DOMAIN y.state <=> Reverted(x.state[a], r[a]) # None
          /\ a \in DOMAIN y.state => y.state[a] = Reverted(x.state[a], r[a])
      BY <1>3, <2>1 DEF WithoutBlock
    <3> QED
      BY <3>1, <3>2 DEF RevertedOk
  <2>2. CASE a \notin DOMAIN r
    <3>1. SameAccount(world[a], merged[a]) /\ SameAccount(merged[a], world[a])
      BY <2>2, <2>m DEF MergeFacts, SameAccount
    <3>2. /\ a \in DOMAIN y.state <=> a \in DOMAIN x.state
          /\ a \in DOMAIN y.state => y.state[a] = x.state[a]
      BY <1>3, <2>2 DEF WithoutBlock
    <3>3. CASE a \in DOMAIN x.state
      <4>1. /\ x.state[a] \in BundleAccounts /\ x.state[a].status # "LoadedNotExisting"
            /\ Current(View(x.state[a]), world[a], Database[a])
        BY <2>m, <3>3 DEF MergeFacts
      <4>2. Current(View(x.state[a]), merged[a], Database[a])
        BY <2>0, <3>1, <4>1, CurrentSame
      <4> QED
        BY <3>2, <3>3, <4>1, <4>2
    <3>4. CASE a \notin DOMAIN x.state
      <4>1. SameAccount(world[a], Database[a])
        BY <2>m, <3>4 DEF MergeFacts
      <4> QED
        BY <3>1, <3>2, <3>4, <4>1 DEF SameAccount
    <3> QED
      BY <3>3, <3>4
  <2> QED
    BY <2>1, <2>2
<1>5. DOMAIN y.state \subseteq Addresses /\ y.state = [a \in DOMAIN y.state |-> y.state[a]]
    BY <1>3 DEF WithoutBlock
<1>6. y.state \in [DOMAIN y.state -> BundleAccounts]
    BY <1>4, <1>5
<1>7. BundleOver(y, merged, Database)
    BY <1>4, <1>5, <1>6 DEF BundleOver
<1> QED
    BY <1>7 DEF y

\* Unwinding it in the database.
LEMMA MergeUnwound ==
    ASSUME StateInv, NEW x, NEW r, \A a \in Addresses : MergeFacts(x, r, TRUE, a),
           BundleOver(x, world, Database), x.reverts = Append(bundle.reverts, r),
           NEW n \in 1 .. Len(x.reverts)
    PROVE  SameWorld(UnwoundBy(x, Database, n),
                     IF n = 1 THEN merged ELSE UnwoundBy(bundle, Database, n - 1))
<1> DEFINE D == Database
           z == Written(D, PlainState(x, FALSE))
           s == Written(D, PlainState(bundle, FALSE))
           u == Unwound(world, D, PlainReverts(r))
<1>1. world \in Worlds /\ merged \in Worlds /\ D \in Worlds /\ BundleOver(bundle, merged, D)
      /\ IsList(bundle.reverts)
    BY DEF StateInv, Types, IsBundle
<1> HIDE DEF D
<1>2. BundleOver(x, world, D)
    BY DEF D
<1>3. SameWorld(z, world) /\ SameWorld(s, merged)
    BY <1>1, <1>2, WrittenIs, SameWorldIs
<1> HIDE DEF z, s
<1>4. SameWorld(u, merged)
  <2> SUFFICES ASSUME NEW a \in Addresses PROVE SameAccount(u[a], merged[a])
    BY DEF SameWorld
  <2>1. u[a] = IF a \in DOMAIN r THEN UnwoundAccount(world[a], D[a], PlainRevert(r[a])) ELSE world[a]
    BY DEF Unwound, PlainReverts
  <2>2. MergeFacts(x, r, TRUE, a)
    OBVIOUS
  <2>3. IF a \in DOMAIN r THEN SameAccount(UnwoundAccount(world[a], D[a], PlainRevert(r[a])), merged[a])
        ELSE SameAccount(world[a], merged[a])
    BY <2>2 DEF MergeFacts, D
  <2> QED
    BY <2>1, <2>3
<1>5. SameWorld(Unwound(z, D, PlainReverts(r)), u)
    BY <1>3, UnwoundSame
<1> HIDE DEF u
<1>6. SameWorld(Unwound(z, D, PlainReverts(r)), s)
    BY <1>3, <1>4, <1>5, SameWorldIs
<1>7. IsAppended(x.reverts, bundle.reverts, r)
    BY <1>1, ListAppend
<1>8. n - 1 \in 0 .. Len(bundle.reverts) /\ (n - 1) + 1 = n
    BY <1>7 DEF IsAppended
<1> DEFINE c == [base |-> D, reverts |-> bundle.reverts]
           e == [base |-> D, reverts |-> Append(bundle.reverts, r)]
<1>9. SameWorld(UnwindLoop!Iterate(e, z, (n - 1) + 1), UnwindLoop!Iterate(c, s, n - 1))
    BY <1>1, <1>6, <1>8, UnwindOneMore
<1>10. SameWorld(UnwindLoop!Iterate(e, z, n), UnwindLoop!Iterate(c, s, n - 1))
    BY <1>8, <1>9
<1>11. /\ UnwoundBy(x, D, n) = UnwindLoop!Iterate(e, z, n)
       /\ UnwoundBy(bundle, D, n - 1) = UnwindLoop!Iterate(c, s, n - 1)
    BY DEF UnwoundBy, z, s
<1>12. CASE n = 1
  <2>1. UnwindLoop!Iterate(c, s, 0) = s
    BY UnwindLoop!IterateZero
  <2>2. n - 1 = 0
    BY <1>12
  <2>3. SameWorld(UnwoundBy(x, D, n), s)
    BY <1>10, <1>11, <2>1, <2>2
  <2>4. SameWorld(UnwoundBy(x, D, n), merged)
    BY <1>3, <2>3, SameWorldIs
  <2> QED
    BY <1>12, <2>4 DEF D
<1>13. CASE n # 1
  <2>1. SameWorld(UnwoundBy(x, D, n), UnwoundBy(bundle, D, n - 1))
    BY <1>10, <1>11
  <2> QED
    BY <1>13, <2>1 DEF D
<1> QED
    BY <1>12, <1>13

\* The history with one more world, and one that is lost.
LEMMA HistoryAppend ==
    ASSUME NEW S, NEW s \in Seq(S), NEW m \in S
    PROVE  /\ Append(s, m) \in Seq(S) /\ Len(Append(s, m)) = Len(s) + 1 /\ Len(s) \in Nat
           /\ Append(s, m)[Len(s) + 1] = m /\ \A i \in 1 .. Len(s) : Append(s, m)[i] = s[i]
    OBVIOUS

\* The history when a block's reverts are not kept.
LEMMA HistoryLost ==
    ASSUME NEW S, NEW s \in Seq(S), None \in S, NEW h, h = [i \in 1..(Len(s) + 1) |-> None]
    PROVE  /\ h \in Seq(S) /\ Len(h) = Len(s) + 1 /\ Len(s) \in Nat
           /\ \A i \in 1 .. Len(s) + 1 : h[i] = None
<1>1. Len(s) \in Nat /\ Len(s) + 1 \in Nat
    OBVIOUS
<1>2. h \in [1 .. Len(s) + 1 -> S]
    OBVIOUS
<1> QED
    BY <1>1, <1>2

\* merge_transitions.
LEMMA MergeInv ==
    ASSUME StateInv, NEW include \in BOOLEAN, MergeTransitions(include)
    PROVE  StateInv'
<1> DEFINE x == bundle'
           r == BlockReverts(bundle, transitions, include)
           h == history'
<1>1. /\ x = ApplyTransitionsAndCreateReverts(bundle, transitions, include)
      /\ transitions' = Empty /\ merged' = world
      /\ h = IF include THEN Append(history, merged) ELSE [i \in 1..(Len(history) + 1) |-> None]
      /\ UNCHANGED <<db, cache, hasStateClear, usePreloaded, mixed, outer, world>>
    BY DEF MergeTransitions
<1>2. /\ {db, world, merged, Database} \subseteq Worlds /\ history \in Seq({None} \cup Worlds)
      /\ DOMAIN transitions \subseteq DOMAIN cache /\ DOMAIN cache \subseteq Addresses
      /\ ~usePreloaded => DOMAIN bundle.state \subseteq DOMAIN cache
      /\ IsBundle(bundle) /\ Len(history) = Len(outer.reverts) + Len(bundle.reverts)
      /\ IsBundle(outer)
    BY DEF StateInv, Types
<1>3. DOMAIN bundle.state \subseteq Addresses /\ \A a \in DOMAIN bundle.state : bundle.state[a] # None
    BY BundleIs DEF StateInv, BundleOver
<1>4. ASSUME NEW a \in DOMAIN transitions PROVE ~AppliedTransition(bundle.state, a, transitions[a]).panic
  <2>1. a \in Addresses
    BY <1>2
  <2>2. Applied(AppliedTransition(bundle.state, a, transitions[a]), bundle.state, a, transitions[a],
                merged[a], world[a], Database[a])
    BY <2>1, MergeApplied
  <2> QED
    BY <2>2 DEF Applied
<1>5. IsApplied(x, bundle, transitions, include)
  <2>1. ~bundle.panic
    BY <1>2 DEF IsBundle
  <2> HIDE DEF x
  <2> QED
    BY <1>1, <1>3, <1>4, <2>1, ApplyIs
<1>6. ASSUME NEW a \in Addresses PROVE MergeFacts(x, r, include, a)
    BY <1>5, MergeIdle, MergeMoved
<1>7. /\ DOMAIN x = BundleFields /\ x.state = [a \in DOMAIN x.state |-> x.state[a]]
      /\ DOMAIN x.state \subseteq Addresses
      /\ ~usePreloaded => DOMAIN x.state \subseteq DOMAIN cache
      /\ x.reverts = Append(bundle.reverts, r) /\ ~x.panic
    BY <1>2, <1>3, <1>5 DEF IsApplied
<1>8. r = [a \in DOMAIN r |-> r[a]] /\ DOMAIN r \subseteq Addresses
    BY <1>2, BlockRevertsIs
<1>9. IsAppended(x.reverts, bundle.reverts, r)
    BY <1>2, <1>7, ListAppend DEF IsBundle
<1>10. Database' = Database
    BY <1>1 DEF Database
<1>11. ASSUME NEW a \in Addresses PROVE CacheAccountOf(a)' = CacheAccountOf(a) /\ TransitionAt(a)' = None
  <2>1. TransitionAt(a)' = None
    BY <1>1, EmptyIs DEF TransitionAt
  <2>2. a \notin DOMAIN transitions =>
           /\ a \in DOMAIN x.state <=> a \in DOMAIN bundle.state
           /\ a \in DOMAIN bundle.state => x.state[a] = bundle.state[a]
    BY <1>5 DEF IsApplied
  <2>3. CacheAccountOf(a)' = CacheAccountOf(a)
    BY <1>1, <1>2, <1>10, <2>2 DEF CacheAccountOf
  <2> QED
    BY <2>1, <2>3
<1> HIDE DEF r
<1>12. IsBundle(x)
  <2>1. IsList(x.reverts)
    BY <1>9 DEF IsAppended
  <2>2. ASSUME NEW i \in DOMAIN x.reverts
        PROVE  x.reverts[i] = [a \in DOMAIN x.reverts[i] |-> x.reverts[i][a]]
    <3>1. CASE i = Len(bundle.reverts) + 1
      BY <1>8, <1>9, <3>1 DEF IsAppended
    <3>2. CASE i # Len(bundle.reverts) + 1
      <4>1. i \in DOMAIN bundle.reverts /\ x.reverts[i] = bundle.reverts[i]
        BY <1>9, <3>2 DEF IsAppended
      <4> QED
        BY <1>2, <4>1 DEF IsBundle
    <3> QED
      BY <3>1, <3>2
  <2> QED
    BY <1>7, <2>1, <2>2 DEF IsBundle, BundleFields
<1> DEFINE l == Len(history)
<1>13. /\ h \in Seq({None} \cup Worlds) /\ Len(h) = l + 1 /\ l \in Nat
       /\ include => h[l + 1] = merged /\ \A i \in 1 .. l : h[i] = history[i]
       /\ ~include => \A i \in 1 .. l + 1 : h[i] = None
  <2> DEFINE S == {None} \cup Worlds
  <2>0. history \in Seq(S) /\ merged \in S /\ None \in S
    BY <1>2
  <2> HIDE DEF S, h
  <2>1. CASE include
    <3>1. h = Append(history, merged)
      BY <1>1, <2>1
    <3>2. h \in Seq(S) /\ Len(h) = l + 1 /\ l \in Nat /\ h[l + 1] = merged /\ \A i \in 1 .. l : h[i] = history[i]
      BY <2>0, <3>1, HistoryAppend
    <3> QED
      BY <2>1, <3>2 DEF S
  <2>2. CASE ~include
    <3>1. h = [i \in 1..(l + 1) |-> None]
      BY <1>1, <2>2
    <3>2. h \in Seq(S) /\ Len(h) = l + 1 /\ l \in Nat /\ \A i \in 1 .. l + 1 : h[i] = None
      BY <2>0, <3>1, HistoryLost
    <3> QED
      BY <2>2, <3>2 DEF S
  <2> QED
    BY <2>1, <2>2
<1> DEFINE p == Len(outer.reverts)
           q == Len(bundle.reverts)
<1>q. p \in Nat /\ q \in Nat /\ l = p + q /\ Len(x.reverts) = q + 1
  <2>1. IsList(outer.reverts)
    BY <1>2 DEF IsBundle
  <2> QED
    BY <1>2, <1>9, <2>1 DEF IsAppended, IsList
<1> HIDE DEF l, p, q
<1>14. Types'
  <2>1. Len(h) = p + Len(x.reverts)
    BY <1>13, <1>q
  <2>2. DOMAIN transitions' = {}
    BY <1>1, EmptyIs
  <2> QED
    BY <1>1, <1>2, <1>7, <1>10, <1>12, <1>13, <2>1, <2>2 DEF StateInv, Types, p
<1>15. BundleOver(x, world, Database)
  <2>1. ASSUME NEW a \in Addresses
        PROVE  IF a \in DOMAIN x.state
               THEN /\ x.state[a] \in BundleAccounts /\ x.state[a].status # "LoadedNotExisting"
                    /\ Current(View(x.state[a]), world[a], Database[a])
               ELSE SameAccount(world[a], Database[a])
    BY <1>6 DEF MergeFacts
  <2>2. x.state \in [DOMAIN x.state -> BundleAccounts]
    BY <1>7, <2>1
  <2> QED
    BY <1>7, <2>1, <2>2 DEF BundleOver
<1>16. FreshOk'
  <2> SUFFICES ASSUME ~usePreloaded
               PROVE  /\ \A a \in DOMAIN x.state : x.state[a].status \in Active
                      /\ \A i \in DOMAIN x.reverts : \A a \in WipedBy(x.reverts[i]) :
                            a \in DOMAIN x.state /\ WasDestroyed(x.state[a].status)
    BY <1>1 DEF FreshOk
  <2>1. ASSUME NEW a \in DOMAIN x.state PROVE x.state[a].status \in Active
    BY <1>6, <1>7 DEF MergeFacts
  <2>2. ASSUME NEW i \in DOMAIN x.reverts, NEW a \in WipedBy(x.reverts[i])
        PROVE  a \in DOMAIN x.state /\ WasDestroyed(x.state[a].status)
    <3>1. CASE i = Len(bundle.reverts) + 1
      <4>1. a \in WipedBy(r)
        BY <1>9, <3>1 DEF IsAppended
      <4>2. a \in DOMAIN r /\ r[a].wipe_storage
        BY <4>1 DEF WipedBy
      <4>3. MergeFacts(x, r, include, a)
        BY <1>6, <1>8, <4>2
      <4> QED
        BY <4>2, <4>3 DEF MergeFacts
    <3>2. CASE i # Len(bundle.reverts) + 1
      <4>1. i \in DOMAIN bundle.reverts /\ x.reverts[i] = bundle.reverts[i]
        BY <1>9, <3>2 DEF IsAppended
      <4>2. a \in DOMAIN bundle.state /\ WasDestroyed(bundle.state[a].status)
        BY <4>1 DEF StateInv, FreshOk
      <4>3. MergeFacts(x, r, include, a)
        BY <1>3, <1>6, <4>2
      <4> QED
        BY <4>2, <4>3 DEF MergeFacts
    <3> QED
      BY <3>1, <3>2
  <2> QED
    BY <2>1, <2>2
<1>17. ASSUME NEW a \in Addresses
       PROVE  Current(CacheAccountOf(a)', world'[a], Database'[a]) /\ TransitionOk(a)'
  <2> DEFINE c == CacheAccountOf(a)
  <2>1. Current(c, world[a], Database[a])
    BY InvIs
  <2>2. IF a \in DOMAIN x.state THEN x.state[a].status = c.status
        ELSE Current(LastView(None, c), world[a], Database[a])
    BY <1>6 DEF MergeFacts
  <2>3. LastView(None, c).status = c.status
    BY DEF LastView
  <2>4. Recorded(None, c, world[a], world[a])
    BY DEF Recorded, SameAccount
  <2> HIDE DEF c
  <2>5. CacheAccountOf(a)' = c /\ TransitionAt(a)' = None
    BY <1>11 DEF c
  <2> QED
    BY <1>1, <1>10, <2>1, <2>2, <2>3, <2>4, <2>5 DEF TransitionOk
<1>18. ASSUME ~mixed PROVE Own'
  <2>0. Own
    BY <1>18 DEF StateInv
  <2>1. /\ \A a \in DOMAIN x.state : OriginalOk(x.state[a], Database[a])
        /\ \A a \in DOMAIN outer.state : OriginalOk(outer.state[a], db[a])
    BY <1>6, <1>7, <2>0 DEF MergeFacts, Own
  <2>2. include => BundleOver(RevertLatest(x), merged, Database)
    BY <1>6, <1>7, <1>8, <1>9, <2>0, MergeLatest
  <2>3. /\ include => Before(1)' = merged
        /\ ~include => Before(1)' = None
    <3>1. Len(h) + 1 - 1 = l + 1 /\ l + 1 \in 1 .. l + 1
      BY <1>13
    <3>2. Before(1)' = h[l + 1]
      BY <3>1 DEF Before
    <3> QED
      BY <1>13, <3>1, <3>2
  <2>4. LatestOk'
    BY <1>10, <2>2, <2>3 DEF LatestOk
  <2>5. ASSUME include, NEW n \in 1 .. Len(x.reverts), Before(n)' # None
        PROVE  SameWorld(UnwoundBy(x, Database, n), Before(n)')
    <3>1. SameWorld(UnwoundBy(x, Database, n), IF n = 1 THEN merged ELSE UnwoundBy(bundle, Database, n - 1))
      BY <1>6, <1>7, <1>15, <2>5, MergeUnwound
    <3>2. CASE n = 1
      BY <2>3, <2>5, <3>1, <3>2
    <3>3. CASE n # 1
      <4>1. /\ n - 1 \in 1 .. q /\ Len(h) + 1 - n = l + 1 - (n - 1) /\ l + 1 - (n - 1) \in 1 .. l
        BY <1>13, <1>q, <3>3
      <4>2. Before(n)' = Before(n - 1)
        BY <1>13, <2>5, <4>1 DEF Before, l
      <4>3. SameWorld(UnwoundBy(bundle, Database, n - 1), Before(n - 1))
        BY <1>18, <2>0, <2>5, <4>1, <4>2 DEF Own, PlainRevertsRestore, q
      <4> QED
        BY <3>1, <3>3, <4>2, <4>3, SameWorldIs
    <3> QED
      BY <3>2, <3>3
  <2>6. ASSUME ~include, NEW n \in 1 .. Len(x.reverts) PROVE Before(n)' = None
    <3>1. Len(h) + 1 - n \in 1 .. l + 1
      BY <1>13, <1>q
    <3> QED
      BY <1>13, <2>6, <3>1 DEF Before
  <2>7. PlainRevertsRestore'
    BY <1>10, <2>5, <2>6 DEF PlainRevertsRestore
  <2> QED
    BY <1>1, <1>10, <2>1, <2>4, <2>7 DEF Own
<1> HIDE DEF x
<1> QED
    BY <1>1, <1>10, <1>14, <1>15, <1>16, <1>17, <1>18 DEF StateInv, x

-----------------------------------------------------------------------------
(* New States on top of bundles                                            *)

\* An account that the database holds.
LEMMA LoadedCurrent ==
    ASSUME NEW w \in DbAccounts, NEW d \in DbAccounts, SameAccount(w, d)
    PROVE  LET c == LoadedAccount(d.info)
           IN Current(c, w, d) /\ LastView(None, c) = c
<1> DEFINE c == LoadedAccount(d.info)
<1>1. d.info \in InfoOrNone
    BY DbIs
<1>2. /\ c.info = (IF d.info # None /\ IsEmptyInfo(d.info) THEN DefaultInfo ELSE d.info)
      /\ c.storage = Empty /\ DOMAIN c.storage = {}
      /\ c.status = IF d.info = None THEN "LoadedNotExisting"
                    ELSE IF IsEmptyInfo(d.info) THEN "LoadedEmptyEIP161" ELSE "Loaded"
      /\ c = [info |-> c.info, storage |-> c.storage, status |-> c.status]
    BY EmptyIs DEF LoadedAccount
<1> HIDE DEF c
<1>i. /\ c.info \in InfoOrNone /\ Holds(c.info) = Holds(d.info)
      /\ c.info = None <=> d.info = None
      /\ IsEmptyInfo(c.info) <=> IsEmptyInfo(d.info)
  <2>1. CASE d.info # None /\ IsEmptyInfo(d.info)
    <3>1. c.info = DefaultInfo /\ d.info \in Infos
      BY <1>1, <1>2, <2>1 DEF InfoOrNone
    <3> HIDE DEF InfoOrNone
    <3>2. DefaultInfo \in Infos /\ IsEmptyInfo(DefaultInfo) /\ DefaultInfo # None
      BY DefaultIs, InfoIs
    <3> QED
      BY <2>1, <3>1, <3>2, InfoIs, HoldsIs DEF InfoOrNone
  <2>2. CASE ~(d.info # None /\ IsEmptyInfo(d.info))
    BY <1>1, <1>2, <2>2
  <2> QED
    BY <2>1, <2>2
<1>3. c \in CacheAccounts
  <2>1. Empty \in PartialMaps(Words)
    BY EmptyIs
  <2>2. c.status \in Statuses
    BY <1>2 DEF Statuses
  <2> QED
    BY <1>i, <1>2, <2>1, <2>2 DEF CacheAccounts, InfoOrNone
<1>4. StatusOk(c.info, c.status)
    BY <1>2, <1>i DEF StatusOk, Gone
<1>5. Holds(c.info) = Holds(w.info) /\ \A k \in Slots : w.storage[k] = d.storage[k]
    BY <1>i, SameIs
<1>6. ASSUME NEW k \in Slots PROVE w.storage[k] = Shown(c, d, k)
  <2>1. d.info = None => d.storage[k] = 0
    BY DbIs DEF Asleep
  <2> QED
    BY <1>2, <1>5, <2>1 DEF Shown, IsStorageKnown, WasDestroyed
<1>7. Current(c, w, d)
    BY <1>2, <1>3, <1>4, <1>5, <1>6 DEF Current
<1>8. LastView(None, c) = c
    BY <1>2 DEF LastView
<1> QED
    BY <1>7, <1>8 DEF c

\* An account that is preloaded from a bundle.
LEMMA PreloadedCurrent ==
    ASSUME NEW b \in BundleAccounts, NEW w \in DbAccounts, NEW d \in DbAccounts, Current(View(b), w, d)
    PROVE  Current(FromBundleAccount(b), w, d) /\ FromBundleAccount(b).status = b.status
<1> DEFINE c == FromBundleAccount(b)
           v == View(b)
<1>1. /\ c.info = b.info /\ c.status = b.status /\ v.info = b.info /\ v.status = b.status
      /\ c.storage = IF b.info = None THEN Empty ELSE Present(b.storage)
      /\ v.storage = Present(b.storage)
      /\ c = [info |-> c.info, storage |-> c.storage, status |-> c.status]
    BY DEF FromBundleAccount, View
<1> HIDE DEF c, v
<1>2. Current(v, w, d)
    BY DEF v
<1>3. CASE b.info # None
  <2>1. c = v
    BY <1>1, <1>3 DEF v, View
  <2> QED
    BY <1>1, <1>2, <2>1 DEF c
<1>4. CASE b.info = None
  <2>1. /\ v \in CacheAccounts /\ StatusOk(v.info, v.status) /\ b.status \in Gone
    BY <1>1, <1>2, <1>4 DEF Current, StatusOk
  <2>2. c \in CacheAccounts /\ DOMAIN c.storage = {}
    <3>1. Empty \in PartialMaps(Words) /\ DOMAIN Empty = {}
      BY EmptyIs
    <3> QED
      BY <1>1, <1>4, <2>1, <3>1 DEF CacheAccounts
  <2>3. ASSUME NEW k \in Slots PROVE w.storage[k] = Shown(c, d, k)
    <3>1. w.storage[k] = 0
      BY <1>1, <1>2, <1>4, CurrentReads
    <3> QED
      BY <1>1, <2>1, <2>2, <3>1 DEF Shown, Gone, IsStorageKnown, WasDestroyed
  <2>4. Current(c, w, d)
    BY <1>1, <1>2, <2>2, <2>3 DEF Current
  <2> QED
    BY <1>1, <2>4 DEF c
<1> QED
    BY <1>3, <1>4

\* The world that a bundle leads to, up to what it holds.
LEMMA BundleOverSame ==
    ASSUME NEW bs, NEW top \in Worlds, NEW v \in Worlds, NEW base \in Worlds,
           BundleOver(bs, top, base), SameWorld(v, top)
    PROVE  BundleOver(bs, v, base)
<1>1. ASSUME NEW a \in Addresses
      PROVE  IF a \in DOMAIN bs.state
             THEN /\ bs.state[a].status # "LoadedNotExisting"
                  /\ Current(View(bs.state[a]), v[a], base[a])
             ELSE SameAccount(v[a], base[a])
  <2>1. v[a] \in DbAccounts /\ top[a] \in DbAccounts /\ base[a] \in DbAccounts /\ SameAccount(v[a], top[a])
    BY DEF Worlds, SameWorld
  <2>2. IF a \in DOMAIN bs.state
        THEN /\ bs.state[a].status # "LoadedNotExisting"
             /\ Current(View(bs.state[a]), top[a], base[a])
        ELSE SameAccount(top[a], base[a])
    BY DEF BundleOver
  <2>3. CASE a \in DOMAIN bs.state
    BY <2>1, <2>2, <2>3, CurrentSame
  <2>4. CASE a \notin DOMAIN bs.state
    BY <2>1, <2>2, <2>4 DEF SameAccount
  <2> QED
    BY <2>3, <2>4
<1> QED
    BY <1>1 DEF BundleOver

\* No bundle.
LEMMA NoBundle ==
    ASSUME NEW top \in Worlds, NEW base \in Worlds, SameWorld(top, base)
    PROVE  BundleOver(EmptyBundle, top, base) /\ Seen(base, EmptyBundle) = base
<1>1. DOMAIN EmptyBundle.state = {} /\ EmptyBundle.state \in [DOMAIN EmptyBundle.state -> BundleAccounts]
    BY EmptyBundleIs
<1>2. Seen(base, EmptyBundle) = [a \in Addresses |-> base[a]]
    BY <1>1 DEF Seen
<1>3. Seen(base, EmptyBundle) = base
    BY <1>2 DEF Worlds
<1> QED
    BY <1>1, <1>3 DEF BundleOver, SameWorld

\* Without transitions the world is that of the last merge.
LEMMA Settled ==
    ASSUME StateInv, transitions = Empty
    PROVE  SameWorld(world, merged) /\ SameWorld(merged, world)
<1>1. ASSUME NEW a \in Addresses PROVE SameAccount(world[a], merged[a])
  <2>1. Recorded(TransitionAt(a), CacheAccountOf(a), merged[a], world[a])
    BY InvIs
  <2>2. TransitionAt(a) = None
    BY EmptyIs DEF TransitionAt
  <2> QED
    BY <2>1, <2>2 DEF Recorded
<1> QED
    BY <1>1 DEF SameWorld, SameAccount

\* The bundles taken so far and the State's own.
Together ==
    LET e == Extend(outer, bundle)
    IN /\ IsBundle(e) /\ DOMAIN e = BundleFields
       /\ e.state = Atop(outer.state, bundle.state)
       /\ Len(e.reverts) = Len(outer.reverts) + Len(bundle.reverts)
       /\ BundleOver(e, merged, db)
       /\ Own => \A a \in DOMAIN e.state : OriginalOk(e.state[a], db[a])

\* They are a bundle over the stored database.
LEMMA TogetherIs ==
    ASSUME StateInv
    PROVE  Together
<1> DEFINE e == Extend(outer, bundle)
<1>1. /\ db \in Worlds /\ merged \in Worlds /\ Database \in Worlds
      /\ IsBundle(bundle) /\ IsBundle(outer)
      /\ usePreloaded => outer = EmptyBundle
      /\ BundleOver(outer, Database, db) /\ BundleOver(bundle, merged, Database)
    BY DEF StateInv, Types
<1>2. usePreloaded => DOMAIN outer.state = {}
    BY <1>1, EmptyBundleIs
<1>3. Fits(outer, bundle)
    BY <1>1, <1>2 DEF Fits, IsBundle, BundleFields, StateInv, FreshOk
<1>4. outer.state \in [DOMAIN outer.state -> BundleAccounts]
    BY <1>1 DEF BundleOver
<1>5. IsExtended(e, outer, bundle)
    BY <1>1, <1>3, <1>4, ExtendIs
<1> HIDE DEF e
<1>6. /\ IsBundle(e) /\ e.state = Atop(outer.state, bundle.state)
      /\ Len(e.reverts) = Len(outer.reverts) + Len(bundle.reverts)
    BY <1>5 DEF IsExtended
<1>7. \A a \in DOMAIN outer.state \cap DOMAIN bundle.state : bundle.state[a].status \in Active
    BY <1>2 DEF StateInv, FreshOk
<1>8. /\ BundleOver(e, merged, db)
      /\ /\ \A a \in DOMAIN outer.state : OriginalOk(outer.state[a], db[a])
         /\ \A a \in DOMAIN bundle.state : OriginalOk(bundle.state[a], Database[a])
         /\ \A a \in Addresses : a \notin DOMAIN outer.state => Database[a] = db[a]
         => \A a \in DOMAIN e.state : OriginalOk(e.state[a], db[a])
    BY <1>1, <1>6, <1>7, AtopOver
<1>9. \A a \in Addresses : a \notin DOMAIN outer.state => Database[a] = db[a]
    BY <1>1, SeenIs DEF Database
<1>10. Own => \A a \in DOMAIN e.state : OriginalOk(e.state[a], db[a])
    BY <1>8, <1>9 DEF Own
<1>11. DOMAIN e = BundleFields
    BY <1>6 DEF IsBundle, BundleFields
<1> QED
    BY <1>6, <1>8, <1>10, <1>11 DEF Together, e

\* take_bundle.
LEMMA TakeBundleInv ==
    ASSUME StateInv, TakeBundle
    PROVE  StateInv'
<1> DEFINE e == Extend(outer, bundle)
           D == Database'
<1>1. /\ transitions = Empty /\ bundle' = EmptyBundle /\ outer' = e
      /\ cache' = Empty /\ usePreloaded' = FALSE
      /\ UNCHANGED <<db, hasStateClear, transitions, mixed, world, merged, history>>
    BY DEF TakeBundle
<1>2. /\ IsBundle(e) /\ Len(e.reverts) = Len(outer.reverts) + Len(bundle.reverts)
      /\ BundleOver(e, merged, db)
      /\ Own => \A a \in DOMAIN e.state : OriginalOk(e.state[a], db[a])
    BY TogetherIs DEF Together
<1>3. /\ db \in Worlds /\ merged \in Worlds /\ world \in Worlds /\ hasStateClear \in BOOLEAN
      /\ history \in Seq({None} \cup Worlds) /\ Len(history) = Len(outer.reverts) + Len(bundle.reverts)
    BY DEF StateInv, Types
<1>4. D = Seen(db, e)
    BY <1>1 DEF Database
<1> HIDE DEF e, D
<1>5. D \in Worlds /\ SameWorld(D, merged)
    BY <1>2, <1>3, <1>4, SeenIs
<1>6. SameWorld(world, merged) /\ SameWorld(world, D) /\ SameWorld(merged, D)
    BY <1>1, <1>5, Settled, SameWorldIs
<1>7. BundleOver(e, D, db) /\ BundleOver(EmptyBundle, merged, D)
    BY <1>2, <1>3, <1>5, <1>6, BundleOverSame, NoBundle
<1>8. Types'
  <2>1. /\ IsBundle(EmptyBundle) /\ DOMAIN EmptyBundle.state = {} /\ EmptyBundle.reverts = << >>
    BY EmptyBundleIs
  <2>2. DOMAIN cache' = {} /\ DOMAIN transitions' = {}
    BY <1>1, EmptyIs
  <2>3. Len(e.reverts) \in Nat /\ Len(history) = Len(e.reverts) + Len(<< >>)
    <3>1. IsList(e.reverts)
      BY <1>2 DEF IsBundle
    <3>2. Len(e.reverts) \in Nat
      BY <3>1 DEF IsList
    <3>3. Len(<< >>) = 0 /\ Len(history) = Len(e.reverts)
      BY <1>2, <1>3
    <3> QED
      BY <3>2, <3>3
  <2> QED
    BY <1>1, <1>2, <1>3, <1>5, <2>1, <2>2, <2>3 DEF Types, D
<1>9. FreshOk'
    BY <1>1, EmptyBundleIs DEF FreshOk
<1>10. ASSUME NEW a \in Addresses
       PROVE  Current(CacheAccountOf(a)', world'[a], Database'[a]) /\ TransitionOk(a)'
  <2> DEFINE c == LoadedAccount(D[a].info)
  <2>1. CacheAccountOf(a)' = c /\ TransitionAt(a)' = None
    BY <1>1, EmptyIs DEF CacheAccountOf, TransitionAt, D
  <2>2. /\ world[a] \in DbAccounts /\ D[a] \in DbAccounts /\ SameAccount(world[a], D[a])
        /\ merged[a] \in DbAccounts /\ SameAccount(merged[a], D[a]) /\ SameAccount(world[a], merged[a])
    BY <1>3, <1>5, <1>6 DEF Worlds, SameWorld
  <2>3. Current(c, world[a], D[a]) /\ Current(c, merged[a], D[a]) /\ LastView(None, c) = c
    BY <2>2, LoadedCurrent
  <2> HIDE DEF c
  <2>4. a \notin DOMAIN bundle'.state
    BY <1>1, EmptyBundleIs
  <2>5. Recorded(None, c, merged[a], world[a])
    BY <2>2 DEF Recorded
  <2> QED
    BY <1>1, <2>1, <2>3, <2>4, <2>5 DEF TransitionOk, D
<1>11. ASSUME ~mixed PROVE Own'
  <2>1. Own
    BY <1>11 DEF StateInv
  <2>2. /\ \A a \in DOMAIN bundle'.state : OriginalOk(bundle'.state[a], Database'[a])
        /\ \A a \in DOMAIN outer'.state : OriginalOk(outer'.state[a], db'[a])
    BY <1>1, <1>2, <2>1, EmptyBundleIs
  <2>3. LatestOk'
    BY <1>1, EmptyBundleIs DEF LatestOk
  <2>4. PlainRevertsRestore'
    <3>1. Len(bundle'.reverts) = 0
      BY <1>1, EmptyBundleIs
    <3> QED
      BY <3>1 DEF PlainRevertsRestore
  <2> QED
    BY <2>2, <2>3, <2>4 DEF Own
<1> QED
    BY <1>1, <1>7, <1>8, <1>9, <1>10, <1>11 DEF StateInv, D

\* The end of a list.
LEMMA ListRest ==
    ASSUME NEW s, IsList(s), NEW n \in 1 .. Len(s), NEW c, c = SubSeq(s, n + 1, Len(s))
    PROVE  /\ IsList(c) /\ Len(c) = Len(s) - n /\ DOMAIN c = 1 .. Len(s) - n
           /\ \A i \in 1 .. Len(s) - n : c[i] = s[n + i] /\ n + i \in DOMAIN s
<1>1. s \in Seq(Range(s)) /\ Len(s) \in Nat /\ DOMAIN s = 1 .. Len(s)
    BY DEF IsList
<1>2. \A i \in n + 1 .. Len(s) : s[i] \in Range(s)
    BY <1>1
<1>3. /\ c \in Seq(Range(s))
      /\ Len(c) = IF n + 1 <= Len(s) THEN Len(s) - (n + 1) + 1 ELSE 0
      /\ \A i \in 1 .. Len(s) - (n + 1) + 1 : c[i] = s[(n + 1) + i - 1]
    BY <1>1, <1>2, SubSeqProperties
<1>4. Len(c) = Len(s) - n
  <2> DEFINE l == Len(s)
             m == Len(c)
  <2>1. l \in Nat /\ n \in 1 .. l /\ m = IF n + 1 <= l THEN l - (n + 1) + 1 ELSE 0
    BY <1>1, <1>3
  <2> HIDE DEF l, m
  <2>2. m = l - n
    BY <2>1
  <2> QED
    BY <2>2 DEF l, m
<1>5. IsList(c) /\ DOMAIN c = 1 .. Len(c)
  <2> DEFINE S == Range(s)
  <2>1. c \in Seq(S)
    BY <1>3
  <2> HIDE DEF S
  <2>2. \A d \in Seq(S) : IsList(d) /\ DOMAIN d = 1 .. Len(d)
    BY ListIs
  <2> QED
    BY <2>1, <2>2
<1>6. ASSUME NEW i \in 1 .. Len(s) - n PROVE c[i] = s[n + i] /\ n + i \in DOMAIN s
  <2>1. i \in 1 .. Len(s) - (n + 1) + 1 /\ (n + 1) + i - 1 = n + i /\ n + i \in 1 .. Len(s)
    BY <1>1
  <2> QED
    BY <1>1, <1>3, <2>1
<1> QED
    BY <1>4, <1>5, <1>6

\* The end of the history.
LEMMA HistoryRest ==
    ASSUME NEW S, NEW s \in Seq(S), NEW n \in 1 .. Len(s), NEW c, c = SubSeq(s, n + 1, Len(s))
    PROVE  /\ c \in Seq(S) /\ Len(c) = Len(s) - n /\ Len(s) \in Nat
           /\ \A i \in 1 .. Len(s) - n : c[i] = s[n + i]
<1>1. Len(s) \in Nat /\ \A i \in n + 1 .. Len(s) : s[i] \in S
    OBVIOUS
<1>2. /\ c \in Seq(S)
      /\ Len(c) = IF n + 1 <= Len(s) THEN Len(s) - (n + 1) + 1 ELSE 0
      /\ \A i \in 1 .. Len(s) - (n + 1) + 1 : c[i] = s[(n + 1) + i - 1]
    BY <1>1, SubSeqProperties
<1>3. ASSUME NEW i \in 1 .. Len(s) - n PROVE c[i] = s[n + i]
  <2>1. i \in 1 .. Len(s) - (n + 1) + 1 /\ (n + 1) + i - 1 = n + i
    BY <1>1
  <2> QED
    BY <1>2, <2>1
<1> QED
    BY <1>1, <1>2, <1>3

\* A bundle of other reverts.
LEMMA TakenIs ==
    ASSUME NEW bs, IsBundle(bs), NEW n \in 1 .. Len(bs.reverts)
    PROVE  LET x == TakeNReverts(bs, n)
           IN IsBundle(x) /\ x.state = bs.state /\ Len(x.reverts) = Len(bs.reverts) - n
<1> DEFINE rest == SubSeq(bs.reverts, n + 1, Len(bs.reverts))
           k == RevertsSize(rest)
           x == TakeNReverts(bs, n)
<1>1. x = [bs EXCEPT !.reverts = rest, !.reverts_size = k]
    BY DEF TakeNReverts
<1>2. IsList(bs.reverts)
    BY DEF IsBundle
<1>3. /\ IsList(rest) /\ Len(rest) = Len(bs.reverts) - n /\ DOMAIN rest = 1 .. Len(bs.reverts) - n
      /\ \A i \in 1 .. Len(bs.reverts) - n : rest[i] = bs.reverts[n + i] /\ n + i \in DOMAIN bs.reverts
    BY <1>2, ListRest
<1> HIDE DEF rest, k, x
<1>4. /\ DOMAIN x = BundleFields /\ x.state = bs.state /\ x.reverts = rest
      /\ x.panic <=> bs.panic
    BY <1>1 DEF IsBundle, BundleFields
<1>5. \A i \in DOMAIN rest : rest[i] = [a \in DOMAIN rest[i] |-> rest[i][a]]
    BY <1>3 DEF IsBundle
<1>6. IsBundle(x)
    BY <1>3, <1>4, <1>5 DEF IsBundle, BundleFields
<1> QED
    BY <1>3, <1>4, <1>6 DEF x

\* A reader of a bundle sees its accounts only.
LEMMA SeenLike ==
    ASSUME NEW base, NEW x, NEW y, x.state = y.state
    PROVE  Seen(base, x) = Seen(base, y)
BY DEF Seen

\* take_n_reverts.
LEMMA TakeRevertsInv ==
    ASSUME StateInv, NEW n, TakeReverts(n)
    PROVE  StateInv'
<1> DEFINE x == outer'
           h == history'
           l == Len(history)
           p == Len(outer.reverts)
           q == Len(bundle.reverts)
<1>1. /\ n \in 1 .. p /\ x = TakeNReverts(outer, n) /\ h = SubSeq(history, n + 1, l)
      /\ UNCHANGED <<db, cache, hasStateClear, transitions, bundle, usePreloaded, mixed, world, merged>>
    BY DEF TakeReverts
<1>2. /\ IsBundle(outer) /\ IsBundle(bundle) /\ history \in Seq({None} \cup Worlds)
      /\ l = p + q /\ (usePreloaded => outer = EmptyBundle)
    BY DEF StateInv, Types
<1>3. p \in Nat /\ q \in Nat /\ DOMAIN bundle.reverts = 1 .. q
  <2>1. IsList(outer.reverts) /\ IsList(bundle.reverts)
    BY <1>2 DEF IsBundle
  <2> QED
    BY <2>1 DEF IsList
<1>4. ~usePreloaded
  <2>1. usePreloaded => p = 0
    BY <1>2, EmptyBundleIs
  <2> QED
    BY <1>1, <2>1
<1>5. IsBundle(x) /\ x.state = outer.state /\ Len(x.reverts) = p - n
    BY <1>1, <1>2, TakenIs
<1>6. /\ h \in Seq({None} \cup Worlds) /\ Len(h) = l - n
      /\ \A i \in 1 .. l - n : h[i] = history[n + i]
  <2> DEFINE S == {None} \cup Worlds
  <2> HIDE DEF l, p, q, S, h
  <2>1. n \in 1 .. l /\ history \in Seq(S)
    <3>1. n \in 1 .. l
      BY <1>1, <1>2, <1>3
    <3>2. history \in Seq(S)
      BY <1>2 DEF S
    <3> QED
      BY <3>1, <3>2
  <2>2. h \in Seq(S) /\ Len(h) = l - n /\ \A i \in 1 .. l - n : h[i] = history[n + i]
    BY <1>1, <2>1, HistoryRest DEF l
  <2> QED
    BY <2>2 DEF S
<1>7. Database' = Database
  <2>1. Database' = Seen(db, x)
    BY <1>1 DEF Database
  <2> HIDE DEF x
  <2> QED
    BY <1>5, <2>1, SeenLike DEF Database
<1>8. ASSUME NEW k \in 1 .. q PROVE Before(k)' = Before(k)
  <2> HIDE DEF l, p, q, h
  <2>1. Len(h) + 1 - k \in 1 .. l - n /\ n + (Len(h) + 1 - k) = l + 1 - k
    <3>1. n \in 1 .. p /\ p \in Nat /\ q \in Nat /\ l = p + q /\ Len(h) = l - n /\ k \in 1 .. q
      BY <1>1, <1>2, <1>3, <1>6
    <3> QED
      BY <3>1
  <2>2. h[Len(h) + 1 - k] = history[l + 1 - k]
    BY <1>6, <2>1
  <2> QED
    BY <2>2 DEF Before, h, l
<1>9. Types'
  <2> HIDE DEF l, p, q, h, x
  <2>1. Len(h) = Len(x.reverts) + q
    <3>1. n \in 1 .. p /\ p \in Nat /\ q \in Nat /\ l = p + q /\ Len(h) = l - n /\ Len(x.reverts) = p - n
      BY <1>1, <1>2, <1>3, <1>5, <1>6
    <3> QED
      BY <3>1
  <2> QED
    BY <1>1, <1>4, <1>5, <1>6, <1>7, <2>1 DEF StateInv, Types, q, h, x
<1>10. /\ BundleOver(x, Database, db) /\ BundleOver(bundle, merged, Database)
    BY <1>5 DEF StateInv, BundleOver
<1>11. FreshOk'
    BY <1>1 DEF StateInv, FreshOk
<1>12. ASSUME NEW a \in Addresses
       PROVE  Current(CacheAccountOf(a)', world'[a], Database'[a]) /\ TransitionOk(a)'
  <2>1. CacheAccountOf(a)' = CacheAccountOf(a) /\ TransitionAt(a)' = TransitionAt(a)
    BY <1>1, <1>7 DEF CacheAccountOf, TransitionAt
  <2> QED
    BY <1>1, <1>7, <2>1, InvIs DEF TransitionOk
<1>13. ASSUME ~mixed PROVE Own'
  <2>1. Own
    BY <1>13 DEF StateInv
  <2>2. /\ \A a \in DOMAIN bundle.state : OriginalOk(bundle.state[a], Database[a])
        /\ \A a \in DOMAIN x.state : OriginalOk(x.state[a], db[a])
    BY <1>5, <2>1 DEF Own
  <2>3. LatestOk'
    <3> SUFFICES ASSUME bundle.reverts # << >>, Before(1)' # None
                 PROVE  BundleOver(RevertLatest(bundle), Before(1)', Database)
      BY <1>1, <1>7 DEF LatestOk
    <3>1. 1 \in 1 .. q
      <4>1. bundle.reverts \in Seq(Range(bundle.reverts))
        BY <1>2 DEF IsBundle, IsList
      <4>2. q # 0
        BY <4>1
      <4> QED
        BY <1>3, <4>2
    <3> QED
      BY <1>8, <2>1, <3>1 DEF Own, LatestOk
  <2>4. PlainRevertsRestore'
    BY <1>1, <1>7, <1>8, <2>1 DEF Own, PlainRevertsRestore
  <2> QED
    BY <1>1, <1>7, <2>2, <2>3, <2>4 DEF Own
<1> HIDE DEF x
<1> QED
    BY <1>1, <1>7, <1>9, <1>10, <1>11, <1>12, <1>13 DEF StateInv, x

\* A new State that is given a bundle as its prestate reads the bundle's world.
LEMMA PreloadedInv ==
    ASSUME NEW top \in Worlds, db \in Worlds, hasStateClear \in BOOLEAN,
           UNCHANGED <<db, hasStateClear, transitions>>, transitions = Empty,
           cache' = Empty, usePreloaded' = TRUE, outer' = EmptyBundle, world' = top, merged' = top,
           IsBundle(bundle'), BundleOver(bundle', top, db),
           history' \in Seq({None} \cup Worlds), Len(history') = Len(bundle'.reverts),
           ~mixed' => Own'
    PROVE  StateInv'
<1>1. SameWorld(db, db) /\ SameWorld(top, top)
    BY SameWorldIs
<1>2. Database' = db
  <2>1. Database' = Seen(db, EmptyBundle)
    BY DEF Database
  <2> QED
    BY <1>1, <2>1, NoBundle
<1>3. BundleOver(EmptyBundle, db, db)
    BY <1>1, NoBundle
<1>4. Types'
  <2>1. DOMAIN cache' = {} /\ DOMAIN transitions' = {}
    BY EmptyIs
  <2>2. IsBundle(EmptyBundle) /\ EmptyBundle.reverts = << >>
    BY EmptyBundleIs
  <2>3. Len(history') = Len(outer'.reverts) + Len(bundle'.reverts)
    <3>1. IsList(bundle'.reverts)
      BY DEF IsBundle
    <3>2. Len(bundle'.reverts) \in Nat
      BY <3>1 DEF IsList
    <3>3. Len(outer'.reverts) = 0
      BY <2>2
    <3> QED
      BY <3>2, <3>3
  <2> QED
    BY <1>2, <2>1, <2>2, <2>3 DEF Types
<1>5. FreshOk'
    BY DEF FreshOk
<1>6. ASSUME NEW a \in Addresses
      PROVE  Current(CacheAccountOf(a)', world'[a], Database'[a]) /\ TransitionOk(a)'
  <2> DEFINE b == bundle'.state[a]
             c == CacheAccountOf(a)'
  <2>1. /\ c = IF a \in DOMAIN bundle'.state THEN FromBundleAccount(b) ELSE LoadedAccount(db[a].info)
        /\ TransitionAt(a)' = None
    BY <1>2, EmptyIs DEF CacheAccountOf, TransitionAt
  <2>2. top[a] \in DbAccounts /\ db[a] \in DbAccounts
    BY DEF Worlds
  <2>3. IF a \in DOMAIN bundle'.state THEN b \in BundleAccounts /\ Current(View(b), top[a], db[a])
        ELSE SameAccount(top[a], db[a])
    BY DEF BundleOver
  <2> HIDE DEF b, c
  <2>4. /\ Current(c, top[a], db[a])
        /\ IF a \in DOMAIN bundle'.state THEN b.status = c.status ELSE LastView(None, c) = c
    <3>1. CASE a \in DOMAIN bundle'.state
      BY <2>1, <2>2, <2>3, <3>1, PreloadedCurrent
    <3>2. CASE a \notin DOMAIN bundle'.state
      BY <2>1, <2>2, <2>3, <3>2, LoadedCurrent
    <3> QED
      BY <3>1, <3>2
  <2>5. LastView(None, c).status = c.status
    BY DEF LastView
  <2>6. Recorded(None, c, top[a], top[a])
    BY DEF Recorded, SameAccount
  <2>7. TransitionOk(a)'
    BY <1>2, <2>1, <2>4, <2>5, <2>6 DEF TransitionOk, b, c
  <2> QED
    BY <1>2, <2>4, <2>7 DEF c
<1> QED
    BY <1>2, <1>3, <1>4, <1>5, <1>6 DEF StateInv

\* The list c is the first n of s.
IsFront(c, s, n, S) ==
    /\ c \in Seq(S) /\ Len(c) = n /\ IsList(c) /\ DOMAIN c = 1 .. n
    /\ Len(s) \in Nat /\ DOMAIN s = 1 .. Len(s)
    /\ \A i \in 1 .. n : c[i] = s[i]

\* The begin of a list.
LEMMA ListFront ==
    ASSUME NEW S, NEW s \in Seq(S), NEW n \in 0 .. Len(s)
    PROVE  IsFront(SubSeq(s, 1, n), s, n, S)
<1> DEFINE c == SubSeq(s, 1, n)
<1>1. Len(s) \in Nat /\ n \in Nat /\ n <= Len(s) /\ DOMAIN s = 1 .. Len(s)
    OBVIOUS
<1>2. \A i \in 1 .. n : s[i] \in S
    BY <1>1
<1>3. c = [i \in 1 .. n |-> s[i]]
    BY <1>1
<1>4. c \in Seq(S) /\ Len(c) = n
    BY <1>1, <1>2, <1>3
<1> HIDE DEF c
<1>5. IsList(c) /\ DOMAIN c = 1 .. Len(c)
    BY <1>4, ListIs
<1>6. IsFront(c, s, n, S)
    BY <1>1, <1>3, <1>4, <1>5 DEF IsFront
<1> QED
    BY <1>6 DEF c

\* revert_latest takes the last block's reverts out.
LEMMA RevertLatestBundle ==
    ASSUME NEW bs, IsBundle(bs), bs.reverts # << >>
    PROVE  IsBundle(RevertLatest(bs)) /\ Len(RevertLatest(bs).reverts) = Len(bs.reverts) - 1
<1> DEFINE n == Len(bs.reverts)
           S == Range(bs.reverts)
           c == SubSeq(bs.reverts, 1, n - 1)
           y == RevertLatest(bs)
<1>1. bs.reverts \in Seq(S) /\ DOMAIN bs = BundleFields
    BY DEF IsBundle, IsList, BundleFields
<1> HIDE DEF S
<1>2. n \in Nat /\ n # 0
    BY <1>1
<1>3. \E state, m, k : y = [bs EXCEPT !.state = state, !.reverts = c, !.state_size = m, !.reverts_size = k]
    BY <1>2 DEF RevertLatest
<1> HIDE DEF y, c, n
<1>4. DOMAIN y = BundleFields /\ y.reverts = c /\ (y.panic <=> bs.panic)
  <2>1. PICK state, m, k : y = [bs EXCEPT !.state = state, !.reverts = c, !.state_size = m, !.reverts_size = k]
    BY <1>3
  <2> QED
    BY <1>1, <2>1 DEF BundleFields
<1>5. n - 1 \in 0 .. n
    BY <1>2
<1>6. /\ Len(c) = n - 1 /\ IsList(c) /\ DOMAIN c = 1 .. n - 1 /\ DOMAIN bs.reverts = 1 .. n
      /\ \A i \in 1 .. n - 1 : c[i] = bs.reverts[i]
  <2> DEFINE s == bs.reverts
             m == n - 1
  <2>1. s \in Seq(S) /\ m \in 0 .. Len(s) /\ c = SubSeq(s, 1, m)
    BY <1>1, <1>5 DEF c, n
  <2> HIDE DEF s, m
  <2>2. IsFront(c, s, m, S)
    BY <2>1, ListFront
  <2> QED
    BY <2>2 DEF IsFront, s, m, n
<1>7. \A i \in 1 .. n - 1 : i \in 1 .. n
    BY <1>2
<1>8. \A i \in DOMAIN c : c[i] = [a \in DOMAIN c[i] |-> c[i][a]]
    BY <1>6, <1>7 DEF IsBundle
<1>9. IsBundle(y)
    BY <1>4, <1>6, <1>8 DEF IsBundle, BundleFields
<1> QED
    BY <1>4, <1>6, <1>9 DEF y, n

\* revert(n), for the two numbers of blocks a State is rebuilt with.
LEMMA RevertNIs ==
    ASSUME NEW bs
    PROVE  RevertN(bs, 0) = bs /\ RevertN(bs, 1) = RevertLatest(bs)
<1>1. RevertLoop!Iterate(None, bs, 0) = bs
    BY RevertLoop!IterateZero
<1>2. RevertLoop!Iterate(None, bs, 0 + 1) = RevertTurn(None, RevertLoop!Iterate(None, bs, 0), 0 + 1)
    BY RevertLoop!IterateNext
<1>3. 0 + 1 = 1
    OBVIOUS
<1> QED
    BY <1>1, <1>2, <1>3 DEF RevertN, RevertTurn

\* revert_latest of bundles with the same accounts and the same reverts.
LEMMA RevertLatestLike ==
    ASSUME NEW x, NEW y, DOMAIN x = BundleFields, DOMAIN y = BundleFields,
           x.state = y.state, x.reverts = y.reverts
    PROVE  RevertLatest(x).state = RevertLatest(y).state
<1> DEFINE n == Len(y.reverts)
           r == y.reverts[n]
           missing == BundleAccountOf(None, None, Empty, "LoadedNotExisting")
           after == WithoutNone([a \in DOMAIN r |->
                        Reverted(IF a \in DOMAIN y.state THEN y.state[a] ELSE missing, r[a])])
           state == Extended(Restrict(y.state, DOMAIN y.state \ DOMAIN r), after)
           sum == SumSizes(after) - SumSizes(Restrict(y.state, DOMAIN r \cap DOMAIN y.state))
           c == SubSeq(y.reverts, 1, n - 1)
<1>1. ASSUME NEW z, DOMAIN z = BundleFields, z.state = y.state, z.reverts = y.reverts
      PROVE  RevertLatest(z).state = IF n = 0 THEN y.state ELSE state
  <2>1. CASE n = 0
    BY <1>1, <2>1 DEF RevertLatest
  <2>2. CASE n # 0
    <3>1. \E m, k : RevertLatest(z) = [z EXCEPT !.state = state, !.reverts = c, !.state_size = m, !.reverts_size = k]
      BY <1>1, <2>2 DEF RevertLatest
    <3> HIDE DEF state, c
    <3> QED
      BY <1>1, <2>2, <3>1 DEF BundleFields
  <2> QED
    BY <2>1, <2>2
<1> HIDE DEF n, state
<1> QED
    BY <1>1

\* A bundle is over a world by its accounts only.
LEMMA BundleOverLike ==
    ASSUME NEW x, NEW y, x.state = y.state, NEW top, NEW base, BundleOver(x, top, base)
    PROVE  BundleOver(y, top, base)
BY DEF BundleOver

\* A State rebuilt on all it had.
LEMMA RebuildAllInv ==
    ASSUME StateInv, Rebuild(0)
    PROVE  StateInv'
<1> DEFINE e == Extend(outer, bundle)
           h == history'
           l == Len(history)
<1>1. /\ transitions = Empty /\ bundle' = e /\ usePreloaded' = TRUE
      /\ mixed' <=> (mixed \/ outer # EmptyBundle)
      /\ outer' = EmptyBundle /\ cache' = Empty /\ world' = world /\ merged' = world
      /\ h = SubSeq(history, 1, l - 0)
      /\ UNCHANGED <<db, hasStateClear, transitions>>
  <2>1. bundle' = RevertN(e, 0)
    BY DEF Rebuild
  <2>2. bundle' = e
    BY <2>1, RevertNIs
  <2>3. mixed' = (mixed \/ 0 = 1 \/ outer # EmptyBundle)
    BY Zenon DEF Rebuild
  <2>4. mixed' <=> (mixed \/ outer # EmptyBundle)
    <3>1. 0 # 1
      OBVIOUS
    <3> QED
      BY <2>3, <3>1, Zenon
  <2> QED
    BY <2>2, <2>4 DEF Rebuild
<1>2. /\ db \in Worlds /\ merged \in Worlds /\ world \in Worlds /\ hasStateClear \in BOOLEAN
      /\ history \in Seq({None} \cup Worlds) /\ l = Len(outer.reverts) + Len(bundle.reverts)
      /\ IsBundle(bundle)
    BY DEF StateInv, Types
<1>3. /\ IsBundle(e) /\ DOMAIN e = BundleFields
      /\ Len(e.reverts) = Len(outer.reverts) + Len(bundle.reverts)
      /\ BundleOver(e, merged, db)
    BY TogetherIs DEF Together
<1>4. BundleOver(e, world, db)
    BY <1>1, <1>2, <1>3, Settled, BundleOverSame
<1>5. h \in Seq({None} \cup Worlds) /\ Len(h) = l /\ \A i \in 1 .. l : h[i] = history[i]
  <2> DEFINE S == {None} \cup Worlds
  <2>0. history \in Seq(S)
    BY <1>2
  <2> HIDE DEF S, h
  <2>1. history \in Seq(S) /\ l \in Nat
    BY <2>0
  <2>2. l - 0 = l /\ l \in 0 .. l
    BY <2>1
  <2>3. h = SubSeq(history, 1, l)
    BY <1>1, <2>2
  <2>4. IsFront(h, history, l, S)
    BY <2>1, <2>2, <2>3, ListFront
  <2> QED
    BY <2>4 DEF S, IsFront
<1>6. ASSUME ~mixed' PROVE Own'
  <2>1. ~mixed /\ outer = EmptyBundle /\ Own
    BY <1>1, <1>6 DEF StateInv
  <2>2. Database = db /\ Database' = db
    <3>1. Seen(db, EmptyBundle) = db
      BY <1>2, SameWorldIs, NoBundle
    <3> QED
      BY <1>1, <2>1, <3>1 DEF Database
  <2>3. e.state = bundle.state /\ e.reverts = bundle.reverts
    <3>1. bundle.state \in [DOMAIN bundle.state -> BundleAccounts]
      BY DEF StateInv, BundleOver
    <3> QED
      BY <1>2, <2>1, <3>1, ExtendNone
  <2> HIDE DEF e
  <2>4. ASSUME NEW k \in 1 .. Len(bundle.reverts) PROVE Before(k)' = Before(k)
    <3> DEFINE q == Len(bundle.reverts)
    <3>1. l = q /\ q \in Nat /\ k \in 1 .. q
      <4>1. IsList(bundle.reverts)
        BY <1>2 DEF IsBundle
      <4>2. q \in Nat
        BY <4>1 DEF IsList
      <4>3. Len(outer.reverts) = 0
        BY <2>1, EmptyBundleIs
      <4> QED
        BY <1>2, <4>2, <4>3
    <3> HIDE DEF l, q, h
    <3>2. l + 1 - k \in 1 .. l
      BY <3>1
    <3>3. h[Len(h) + 1 - k] = history[l + 1 - k]
      BY <1>5, <3>2
    <3> QED
      BY <3>3 DEF Before, h, l
  <2>5. /\ \A a \in DOMAIN bundle'.state : OriginalOk(bundle'.state[a], Database'[a])
        /\ \A a \in DOMAIN outer'.state : OriginalOk(outer'.state[a], db'[a])
    BY <1>1, <2>1, <2>2, <2>3, EmptyBundleIs DEF Own
  <2>6. LatestOk'
    <3> SUFFICES ASSUME bundle'.reverts # << >>, Before(1)' # None
                 PROVE  BundleOver(RevertLatest(e), Before(1)', db)
      BY <1>1, <2>2 DEF LatestOk
    <3>1. bundle.reverts # << >>
      BY <1>1, <2>3
    <3>2. 1 \in 1 .. Len(bundle.reverts)
      <4>1. bundle.reverts \in Seq(Range(bundle.reverts))
        BY <1>2 DEF IsBundle, IsList
      <4>2. Len(bundle.reverts) # 0 /\ Len(bundle.reverts) \in Nat
        BY <3>1, <4>1
      <4> QED
        BY <4>2
    <3>3. BundleOver(RevertLatest(bundle), Before(1), db) /\ Before(1)' = Before(1)
      BY <2>1, <2>2, <2>4, <3>1, <3>2 DEF Own, LatestOk
    <3>4. RevertLatest(e).state = RevertLatest(bundle).state
      BY <1>2, <1>3, <2>3, RevertLatestLike DEF IsBundle, BundleFields, e
    <3> QED
      BY <3>3, <3>4, BundleOverLike
  <2>7. PlainRevertsRestore'
    <3> SUFFICES ASSUME NEW n \in 1 .. Len(bundle'.reverts), Before(n)' # None
                 PROVE  SameWorld(UnwoundBy(e, db, n), Before(n)')
      BY <1>1, <2>2 DEF PlainRevertsRestore
    <3>1. n \in 1 .. Len(bundle.reverts)
      BY <1>1, <2>3
    <3>2. SameWorld(UnwoundBy(bundle, db, n), Before(n)) /\ Before(n)' = Before(n)
      BY <2>1, <2>2, <2>4, <3>1 DEF Own, PlainRevertsRestore
    <3>3. PlainState(e, FALSE) = PlainState(bundle, FALSE)
      BY <2>3, PlainLike
    <3>4. UnwoundBy(e, db, n) = UnwoundBy(bundle, db, n)
      BY <2>3, <3>3 DEF UnwoundBy
    <3> QED
      BY <3>2, <3>4
  <2> QED
    BY <2>5, <2>6, <2>7 DEF Own
<1> HIDE DEF e, h, l
<1>7. Len(h) = Len(e.reverts)
    BY <1>2, <1>3, <1>5
<1> QED
    BY <1>1, <1>2, <1>3, <1>4, <1>5, <1>6, <1>7, PreloadedInv DEF h

\* A State rebuilt without its last block.
LEMMA RebuildLessInv ==
    ASSUME StateInv, Rebuild(1)
    PROVE  StateInv'
<1> DEFINE e == Extend(outer, bundle)
           y == RevertLatest(e)
           h == history'
           l == Len(history)
           top == history[l]
<1>1. /\ transitions = Empty /\ bundle' = y /\ usePreloaded' = TRUE
      /\ ~mixed /\ outer = EmptyBundle /\ history # << >> /\ top # None /\ mixed'
      /\ outer' = EmptyBundle /\ cache' = Empty /\ world' = top /\ merged' = top
      /\ h = SubSeq(history, 1, l - 1)
      /\ UNCHANGED <<db, hasStateClear, transitions>>
  <2>1. bundle' = RevertN(e, 1)
    BY DEF Rebuild
  <2>2. bundle' = y
    BY <2>1, RevertNIs
  <2>3. mixed' = (mixed \/ 1 = 1 \/ outer # EmptyBundle)
    BY Zenon DEF Rebuild
  <2>4. mixed'
    BY <2>3
  <2> HIDE DEF y, e
  <2> QED
    BY <2>2, <2>4 DEF Rebuild
<1>2. /\ db \in Worlds /\ hasStateClear \in BOOLEAN
      /\ history \in Seq({None} \cup Worlds) /\ l = Len(outer.reverts) + Len(bundle.reverts)
      /\ IsBundle(bundle)
    BY DEF StateInv, Types
<1>3. /\ IsBundle(e) /\ DOMAIN e = BundleFields
    BY TogetherIs DEF Together
<1>4. e.state = bundle.state /\ e.reverts = bundle.reverts
  <2>1. bundle.state \in [DOMAIN bundle.state -> BundleAccounts]
    BY DEF StateInv, BundleOver
  <2> QED
    BY <1>1, <1>2, <2>1, ExtendNone
<1> HIDE DEF e
<1>5. l = Len(bundle.reverts) /\ l \in Nat /\ l # 0 /\ bundle.reverts # << >>
  <2>1. IsList(bundle.reverts)
    BY <1>2 DEF IsBundle
  <2>2. Len(bundle.reverts) \in Nat
    BY <2>1 DEF IsList
  <2>3. Len(outer.reverts) = 0
    BY <1>1, EmptyBundleIs
  <2>4. l # 0
    <3> DEFINE S == {None} \cup Worlds
    <3>1. history \in Seq(S) /\ history # << >>
      BY <1>1, <1>2
    <3> HIDE DEF S
    <3> QED
      BY <3>1
  <2>5. l = Len(bundle.reverts)
    BY <1>2, <2>2, <2>3
  <2> QED
    BY <2>2, <2>4, <2>5
<1>6. top \in Worlds /\ Before(1) = top
  <2>1. l \in 1 .. l /\ l + 1 - 1 = l
    BY <1>5
  <2>2. history[l] \in {None} \cup Worlds
    <3> DEFINE S == {None} \cup Worlds
    <3>1. history \in Seq(S)
      BY <1>2
    <3> HIDE DEF S
    <3>2. history[l] \in S
      BY <2>1, <3>1
    <3> QED
      BY <3>2 DEF S
  <2> QED
    BY <1>1, <2>1, <2>2 DEF Before
<1>7. Database = db
  <2>1. Seen(db, EmptyBundle) = db
    BY <1>2, SameWorldIs, NoBundle
  <2> QED
    BY <1>1, <2>1 DEF Database
<1>8. BundleOver(y, top, db)
  <2>1. BundleOver(RevertLatest(bundle), top, db)
    BY <1>1, <1>5, <1>6, <1>7 DEF StateInv, Own, LatestOk
  <2>2. y.state = RevertLatest(bundle).state
    BY <1>2, <1>3, <1>4, RevertLatestLike DEF IsBundle, BundleFields
  <2> QED
    BY <2>1, <2>2, BundleOverLike
<1>9. IsBundle(y) /\ Len(y.reverts) = l - 1
    BY <1>3, <1>4, <1>5, RevertLatestBundle
<1> HIDE DEF y, top
<1>10. h \in Seq({None} \cup Worlds) /\ Len(h) = l - 1
  <2> DEFINE S == {None} \cup Worlds
             m == l - 1
  <2>1. history \in Seq(S) /\ m \in 0 .. l /\ h = SubSeq(history, 1, m)
    <3>1. l - 1 \in 0 .. l
      BY <1>5
    <3> QED
      BY <1>1, <1>2, <3>1
  <2> HIDE DEF S, h, m
  <2>2. IsFront(h, history, m, S)
    BY <2>1, ListFront
  <2> QED
    BY <2>2 DEF S, m, IsFront
<1> HIDE DEF h, l
<1> QED
    BY <1>1, <1>2, <1>6, <1>8, <1>9, <1>10, PreloadedInv DEF h

-----------------------------------------------------------------------------
(* The invariant                                                           *)

\* A new State on an empty bundle.
LEMMA InitInv ==
    ASSUME Init
    PROVE  StateInv
<1>1. /\ db \in Worlds /\ hasStateClear \in BOOLEAN /\ cache = Empty /\ transitions = Empty
      /\ bundle = EmptyBundle /\ outer = EmptyBundle /\ usePreloaded = FALSE
      /\ world = db /\ merged = db /\ history = << >>
    BY StoredAssumption DEF Init, Worlds
<1>2. SameWorld(db, db)
    BY SameWorldIs
<1>3. Database = db /\ BundleOver(EmptyBundle, db, db)
    BY <1>1, <1>2, NoBundle DEF Database
<1>4. /\ IsBundle(EmptyBundle) /\ DOMAIN EmptyBundle.state = {} /\ EmptyBundle.reverts = << >>
      /\ DOMAIN Empty = {}
    BY EmptyBundleIs, EmptyIs
<1>5. Types
  <2>1. << >> \in Seq({None} \cup Worlds) /\ Len(<< >>) = Len(<< >>) + Len(<< >>)
    OBVIOUS
  <2> QED
    BY <1>1, <1>3, <1>4, <2>1 DEF Types
<1>6. FreshOk
    BY <1>1, <1>4 DEF FreshOk
<1>7. ASSUME NEW a \in Addresses
      PROVE  Current(CacheAccountOf(a), world[a], Database[a]) /\ TransitionOk(a)
  <2> DEFINE c == LoadedAccount(db[a].info)
  <2>1. CacheAccountOf(a) = c /\ TransitionAt(a) = None
    BY <1>1, <1>3, <1>4 DEF CacheAccountOf, TransitionAt
  <2>2. db[a] \in DbAccounts /\ SameAccount(db[a], db[a])
    BY <1>1, <1>2 DEF Worlds, SameWorld
  <2>3. Current(c, db[a], db[a]) /\ LastView(None, c) = c
    BY <2>2, LoadedCurrent
  <2> HIDE DEF c
  <2>4. Recorded(None, c, db[a], db[a])
    BY <2>2 DEF Recorded
  <2> QED
    BY <1>1, <1>3, <1>4, <2>1, <2>3, <2>4 DEF TransitionOk
<1>8. Own
  <2>1. LatestOk
    BY <1>1, <1>4 DEF LatestOk
  <2>2. PlainRevertsRestore
    <3>1. Len(bundle.reverts) = 0
      BY <1>1, <1>4
    <3> QED
      BY <3>1 DEF PlainRevertsRestore
  <2> QED
    BY <1>1, <1>4, <2>1, <2>2 DEF Own
<1> QED
    BY <1>1, <1>3, <1>5, <1>6, <1>7, <1>8 DEF StateInv

\* Every action of the State keeps the invariant.
LEMMA NextInv ==
    ASSUME StateInv, [Next]_vars
    PROVE  StateInv'
<1>1. ASSUME NEW a \in Addresses, NEW k \in Slots, Load(a, k) PROVE StateInv'
    BY <1>1, LoadInv
<1>2. ASSUME NEW a \in Addresses, Commit(a) PROVE StateInv'
    BY <1>2, CommitInv
<1>3. ASSUME NEW a \in Addresses, NEW n \in 1 .. MaxBalance, IncrementBalances(a, n) PROVE StateInv'
    BY <1>3, IncrementInv
<1>4. ASSUME NEW a \in Addresses, DrainBalances(a) PROVE StateInv'
    BY <1>4, DrainInv
<1>5. CASE SetStateClearFlag
    BY <1>5, ClearFlagInv
<1>6. ASSUME NEW include \in BOOLEAN, MergeTransitions(include) PROVE StateInv'
    BY <1>6, MergeInv
<1>7. CASE TakeBundle
    BY <1>7, TakeBundleInv
<1>8. ASSUME NEW n \in 0 .. MaxBlocks, TakeReverts(n) PROVE StateInv'
    BY <1>8, TakeRevertsInv
<1>9. ASSUME NEW n \in {0, 1}, Rebuild(n) PROVE StateInv'
    BY <1>9, RebuildAllInv, RebuildLessInv
<1>10. CASE UNCHANGED vars
    BY <1>10, StutterInv DEF vars
<1> QED
    BY <1>1, <1>2, <1>3, <1>4, <1>5, <1>6, <1>7, <1>8, <1>9, <1>10 DEF Next

\* The invariant holds in every state of the State.
LEMMA StateInvariant == Spec => []StateInv
<1>1. Init => StateInv
    BY InitInv
<1>2. StateInv /\ [Next]_vars => StateInv'
    BY NextInv
<1> QED
    BY <1>1, <1>2, PTL DEF Spec

-----------------------------------------------------------------------------
(* What the invariant says                                                 *)

\* Whatever a transaction reads through the State, from the cache, a preloaded bundle
\* or the database, is what the transactions before it left (Database for State,
\* CacheState and the status tables).
THEOREM ReadsTheorem == Spec => []ReadsAreCurrent
<1>1. StateInv => ReadsAreCurrent
    BY ReadsIs DEF ReadsAreCurrent
<1> QED
    BY <1>1, StateInvariant, PTL

\* The account at which a commit panicked.
StuckOk == unreachable # None => unreachable = "Loaded" /\ \E a \in Addresses : Stuck(CacheAccountOf(a))

\* A commit that panics does so for an account that was loaded and then emptied.
LEMMA PanicIs ==
    ASSUME StateInv, NEW a \in Addresses, Commit(a), unreachable = None
    PROVE  StuckOk'
<1> DEFINE c == CacheAccountOf(a)
           w == world[a]
           moved(out) == ApplyAccountState(c, out, hasStateClear)
<1>1. PICK out \in EvmOutputs(c.info, w) :
          \/ unreachable' = unreachable
          \/ moved(out).account.status = None /\ Panic(c.status)
    BY DEF Commit, Transition
<1>2. Current(c, w, Database[a]) /\ w \in DbAccounts /\ Database[a] \in DbAccounts
    BY InvIs
<1>3. hasStateClear \in BOOLEAN
    BY DEF StateInv, Types
<1> HIDE DEF c
<1>4. /\ AfterOutput(w, out) \in DbAccounts
      /\ Moves(c, w, moved(out), AfterOutput(w, out)) \/ Stuck(c)
    BY <1>2, <1>3, CommitMoves
<1>5. CASE unreachable' = unreachable
    BY <1>5 DEF StuckOk
<1>6. CASE moved(out).account.status = None /\ Panic(c.status)
  <2>1. Stuck(c)
    <3>1. ~Moves(c, w, moved(out), AfterOutput(w, out))
      <4> SUFFICES ASSUME Moves(c, w, moved(out), AfterOutput(w, out)) PROVE FALSE
        OBVIOUS
      <4>1. Current(moved(out).account, AfterOutput(w, out), Database[a])
        BY <1>2, <1>4, MoveCurrent
      <4> QED
        BY <1>6, <4>1, CacheIs, NoneAssumption DEF Current
    <3> QED
      BY <1>4, <3>1
  <2>2. UNCHANGED <<db, cache, hasStateClear, bundle, usePreloaded, outer>> /\ unreachable' = c.status
    BY <1>6 DEF Panic
  <2>3. CacheAccountOf(a)' = CacheAccountOf(a)
    BY <2>2 DEF CacheAccountOf, Database
  <2> QED
    BY <2>1, <2>2, <2>3 DEF StuckOk, Stuck, c
<1> QED
    BY <1>1, <1>5, <1>6

\* No merge meets an unreachable! of update_and_create_revert, and a commit meets one
\* of on_touched_empty_post_eip161 and on_touched_created_pre_eip161 only for an account
\* that is still as it was loaded, from EIP-161 on.
THEOREM ReachableTheorem == Spec => []UnreachableOnlyFromLoaded
<1>1. Init => StuckOk
    BY DEF Init, StuckOk
<1>2. ASSUME StateInv, StuckOk, [Next]_vars PROVE StuckOk'
  <2>1. ASSUME NEW a \in Addresses, unreachable = None, Commit(a) PROVE StuckOk'
    BY <1>2, <2>1, PanicIs
  <2>2. CASE unreachable' = unreachable /\ unreachable = None
    BY <2>2 DEF StuckOk
  <2>3. CASE UNCHANGED vars
    <3>1. \A a : CacheAccountOf(a)' = CacheAccountOf(a)
      BY <2>3 DEF vars, CacheAccountOf, Database
    <3> QED
      BY <1>2, <2>3, <3>1 DEF StuckOk, Stuck, vars
  <2>4. Next => \/ unreachable = None /\ \E a \in Addresses : Commit(a)
                \/ unreachable' = unreachable /\ unreachable = None
    BY DEF Next, Load, IncrementBalances, DrainBalances, Transition, SetStateClearFlag, MergeTransitions,
           TakeBundle, TakeReverts, Rebuild
  <2> QED
    BY <1>2, <2>1, <2>2, <2>3, <2>4
<1>3. StateInv /\ StuckOk => UnreachableOnlyFromLoaded
  <2> SUFFICES ASSUME StateInv, StuckOk PROVE UnreachableOnlyFromLoaded
    OBVIOUS
  <2>1. ~bundle.panic /\ ~outer.panic
    BY DEF StateInv, Types, IsBundle
  <2>2. CASE unreachable = None
    BY <2>1, <2>2 DEF UnreachableOnlyFromLoaded
  <2>3. CASE unreachable # None
    <3>1. PICK a \in Addresses : Stuck(CacheAccountOf(a))
      BY <2>3 DEF StuckOk
    <3> DEFINE c == CacheAccountOf(a)
    <3>2. /\ Current(c, world[a], Database[a]) /\ TransitionOk(a)
          /\ world[a] \in DbAccounts /\ Database[a] \in DbAccounts
      BY InvIs DEF StateInv
    <3>3. a \notin DOMAIN transitions
      <4> SUFFICES ASSUME a \in DOMAIN transitions PROVE FALSE
        OBVIOUS
      <4>1. transitions[a] # None
        BY DEF StateInv, Types
      <4>2. transitions[a].status = c.status /\ transitions[a].status \in Active
        BY <3>2, <4>1 DEF TransitionOk, TransitionAt, Recorded, Follows
      <4> QED
        BY <3>1, <4>2 DEF Stuck, Active
    <3> HIDE DEF c
    <3>4. SameAccount(world[a], Database[a]) /\ Holds(c.info) = Holds(world[a].info)
          /\ c.info \in InfoOrNone /\ c.info # None /\ c.info.code = None
      BY <3>1, <3>2, CacheIs DEF Current, Stuck, StatusOk, Gone, c
    <3>5. world[a].info # None /\ world[a].info.code = None
      BY <3>2, <3>4, DbIs, HoldsIs
    <3> QED
      BY <2>1, <2>3, <3>1, <3>3, <3>4, <3>5 DEF StuckOk, Stuck, UnreachableOnlyFromLoaded, HasNoCodeAndNonce
  <2> QED
    BY <2>2, <2>3
<1> QED
    BY <1>1, <1>2, <1>3, StateInvariant, PTL DEF Spec

\* revert_latest leaves a bundle that shows its reader what the world was before the
\* last block.
THEOREM RevertLatestTheorem == Spec => []RevertLatestRestores
<1>1. StateInv => RevertLatestRestores
  <2> SUFFICES ASSUME StateInv, ~mixed, bundle.reverts # << >>, Before(1) # None
               PROVE  SameWorld(Seen(Database, RevertLatest(bundle)), Before(1))
    BY DEF RevertLatestRestores
  <2>1. BundleOver(RevertLatest(bundle), Before(1), Database) /\ Database \in Worlds
    BY DEF StateInv, Own, LatestOk, Types
  <2>2. Before(1) \in Worlds
    <3> DEFINE S == {None} \cup Worlds
               l == Len(history)
               q == Len(bundle.reverts)
               p == Len(outer.reverts)
    <3>1. history \in Seq(S) /\ l = p + q /\ IsBundle(bundle) /\ IsBundle(outer)
      BY DEF StateInv, Types
    <3>2. IsList(bundle.reverts) /\ IsList(outer.reverts)
      BY <3>1 DEF IsBundle
    <3>3. q \in Nat /\ q # 0 /\ p \in Nat
      BY <3>2 DEF IsList
    <3> HIDE DEF S, l, p, q
    <3>4. l + 1 - 1 \in 1 .. l
      BY <3>1, <3>3
    <3>5. history[l + 1 - 1] \in S
      BY <3>1, <3>4 DEF l
    <3> QED
      BY <3>5 DEF S, l, Before
  <2> QED
    BY <2>1, <2>2, SeenIs
<1> QED
    BY <1>1, StateInvariant, PTL

\* A database that stored the plain reverts of the State's own bundle gets back, block
\* by block, the accounts and slots it had before each block (into_plain_state_reverts).
THEOREM PlainRevertsTheorem == Spec => []PlainRevertsRestore
<1>1. StateInv => PlainRevertsRestore
    BY DEF StateInv, Own, PlainRevertsRestore
<1> QED
    BY <1>1, StateInvariant, PTL

\* The changeset of the bundles turns the database into the world of the last merge,
\* together, one after the other or prepended (extend, prepend_state and
\* into_plain_state).
THEOREM ChangesetsTheorem == Spec => []ChangesetsComplete
<1>1. StateInv => ChangesetsComplete
  <2> SUFFICES ASSUME StateInv, NEW known \in {FALSE, ~mixed}
               PROVE  /\ SameWorld(Written(db, PlainState(Extend(outer, bundle), known)), merged)
                      /\ SameWorld(Written(Written(db, PlainState(outer, known)),
                                           PlainState(bundle, known)), merged)
                      /\ SameWorld(Written(db, PlainState(PrependState(bundle, outer), known)), merged)
    BY DEF ChangesetsComplete
  <2> DEFINE e == Extend(outer, bundle)
  <2>1. known \in BOOLEAN /\ (known => Own)
    BY DEF StateInv
  <2>2. /\ e.state = Atop(outer.state, bundle.state) /\ BundleOver(e, merged, db)
        /\ known => \A a \in DOMAIN e.state : OriginalOk(e.state[a], db[a])
    BY <2>1, TogetherIs DEF Together
  <2> HIDE DEF e
  <2>3. /\ db \in Worlds /\ merged \in Worlds /\ Database \in Worlds /\ SameWorld(db, db)
        /\ BundleOver(outer, Database, db) /\ BundleOver(bundle, merged, Database)
        /\ IsBundle(outer)
    BY SameWorldIs DEF StateInv, Types
  <2>4. SameWorld(Written(db, PlainState(e, known)), merged)
    BY <2>1, <2>2, <2>3, WrittenIs
  <2>5. SameWorld(Written(db, PlainState(outer, known)), Database)
    BY <2>1, <2>3, WrittenIs DEF Own
  <2>6. SameWorld(Written(Written(db, PlainState(outer, known)), PlainState(bundle, known)), merged)
    BY <2>1, <2>3, <2>5, WrittenIs DEF Own
  <2>7. PlainState(PrependState(bundle, outer), known) = PlainState(e, known)
    <3>1. DOMAIN outer = BundleFields
      BY <2>3 DEF IsBundle, BundleFields
    <3>2. PrependState(bundle, outer).state = e.state
      BY <2>2, <3>1, PrependIs
    <3> QED
      BY <3>2, PlainLike
  <2> QED
    BY <2>4, <2>6, <2>7 DEF e
<1> QED
    BY <1>1, StateInvariant, PTL
=============================================================================
