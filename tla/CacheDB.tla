------------------------------ MODULE CacheDB ------------------------------
(***************************************************************************)
(* The in-memory database (crates/revm/src/db/in_memory_db.rs): what the   *)
(* committed transactions left, over a read-only database.                 *)
(*                                                                         *)
(* Reading caches what the underlying database answers.  That database     *)
(* never changes, so such an entry (account state None, or NotExisting for *)
(* an account the database does not have) answers like no entry at all,    *)
(* and `cache` holds only the entries that a commit wrote.                 *)
(***************************************************************************)
EXTENDS JournaledState

VARIABLES
    under,    \* CacheDB::db
    cache     \* CacheDB::accounts; Absent where commit wrote nothing

\* DbAccount; a slot is Absent where the HashMap has no key for it.
CacheEntry ==
    [info : AccountInfo, account_state : {"Touched", "StorageCleared", "NotExisting"},
     storage : [Slot -> Word \cup {Absent}]]

ASSUME AbsentAssumption == Absent \notin Word /\ Absent \notin CacheEntry

DefaultInfo ==
    [balances |-> [t \in TokenId |-> 0], keys |-> {}, nonce |-> 0, code |-> NoCode]
NoSlots == [k \in Slot |-> Absent]
Default == [info |-> DefaultInfo, account_state |-> "Touched", storage |-> NoSlots]

-----------------------------------------------------------------------------
(* Reading                                                                 *)

\* DbAccount::info and basic
Basic(c, a) ==
    IF c[a] = Absent THEN under.basic[a]
    ELSE IF c[a].account_state = "NotExisting" THEN DefaultInfo
    ELSE c[a].info

\* Mutant: only NotExisting stops the search for a slot.
StorageAtIgnoresCleared(c, a, k) ==
    IF c[a] = Absent THEN under.storage[<<a, k>>]
    ELSE IF c[a].storage[k] # Absent THEN c[a].storage[k]
    ELSE IF c[a].account_state = "NotExisting" THEN 0
    ELSE under.storage[<<a, k>>]

\* storage
StorageAt(c, a, k) ==
    IF c[a] = Absent THEN under.storage[<<a, k>>]
    ELSE IF c[a].storage[k] # Absent THEN c[a].storage[k]
    ELSE IF c[a].account_state \in {"StorageCleared", "NotExisting"} THEN 0
    ELSE under.storage[<<a, k>>]

\* What the Database methods answer; the token ids are never asked of the
\* underlying database.
Answers(c, token_ids) ==
    [basic |-> [a \in Address |-> Basic(c, a)],
     storage |-> [p \in Address \X Slot |-> StorageAt(c, p[1], p[2])],
     token_ids |-> token_ids]

-----------------------------------------------------------------------------
(* Committing                                                              *)

InfoOf(j, a) ==
    [balances |-> j.accounts[a].balances, keys |-> j.balance_keys[a],
     nonce |-> j.accounts[a].nonce, code |-> j.accounts[a].code]

\* The loop body of commit, for an account that is touched.
CommitAccount(j, a, old) ==
    LET account == j.accounts[a]
        entry == IF old = Absent THEN Default ELSE old
    IN  IF account.destroyed
        THEN [info |-> DefaultInfo, account_state |-> "NotExisting", storage |-> NoSlots]
        ELSE [info |-> InfoOf(j, a),
              account_state |->
                 IF account.created \/ entry.account_state = "StorageCleared"
                 THEN "StorageCleared" ELSE "Touched",
              storage |->
                 [k \in Slot |->
                    IF account.storage[k] # Absent THEN account.storage[k].present
                    ELSE IF account.created THEN Absent
                    ELSE entry.storage[k]]]

\* commit: accounts that are not touched are skipped.
Committed(c, j) ==
    [a \in Address |->
        IF Loaded(j, a) /\ a \in j.touched THEN CommitAccount(j, a, c[a]) ELSE c[a]]
=============================================================================
