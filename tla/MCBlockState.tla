---------------------------- MODULE MCBlockState ----------------------------
(* BlockState on one account: the accounts of a State do not influence one *)
(* another, only the size counters and the reverts of a block are shared.  *)
EXTENDS BlockState, TLC

\* The storage values other than 0 are interchangeable.
ValueSymmetry == Permutations(Values)

\* A balance of zero that the database spells out reads as one it does not have,
\* and is what the State itself leaves when a balance is drained.
MCDatabases ==
    [Addresses -> {w \in DbAccounts : w.info # None => GetBalance(w.info, Base) # 0
                                                         \/ w.info.balances = Empty}]
=============================================================================
