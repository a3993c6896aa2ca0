-------------------------- MODULE MCJournaledState --------------------------
(***************************************************************************)
(* Small instances of JournaledState for TLC, and the property that needs  *)
(* sums over accounts and journal entries.  One contract (contract) with   *)
(* a base balance, one account nobody has used (other), one that may be    *)
(* created (fresh).                                                        *)
(***************************************************************************)
EXTENDS JournaledState, FiniteSetsExt

CONSTANTS contract, other, fresh, base, tok, code

NoTokens == [t \in TokenId |-> 0]
Nobody == [balances |-> NoTokens, keys |-> {}, nonce |-> 0, code |-> NoCode]
Contract(n) == [balances |-> [NoTokens EXCEPT ![BaseToken] = n],
                keys |-> {BaseToken}, nonce |-> 1, code |-> code]
WithTokens(info, n) ==
    IF n = 0 THEN info
    ELSE [info EXCEPT !.balances = [t \in TokenId |-> IF t = tok THEN n ELSE @[t]],
                      !.keys = @ \cup {tok}]

\* The contract owns one of the base token, its storage may be set, and of
\* the other token the contract has m and everybody else n.
MCDatabase(word, m, n, ids) ==
    [basic |-> [a \in Address |->
        IF a = contract THEN WithTokens(Contract(1), m) ELSE WithTokens(Nobody, n)],
     storage |-> [p \in Address \X Slot |-> IF p[1] = contract THEN word ELSE 0],
     token_ids |-> ids]

MCTwo == {contract, other}
MCTokenIdAddress == [p \in Address \X SubId |-> tok]

\* A token not yet minted, and one that both hold and the database knows.
MCTokenDatabases == {MCDatabase(0, 0, 0, <<base>>), MCDatabase(0, 1, 2, <<base, tok>>)}
MCStorageDatabases == {MCDatabase(1, 0, 0, <<base>>)}

One(t, n) == << [id |-> t, amount |-> n] >>
MCTransfers == {One(tok, 1) \o One(base, 1)}

-----------------------------------------------------------------------------
BalanceOf(a, t) ==
    IF Loaded(js, a) THEN js.accounts[a].balances[t] ELSE db.basic[a].balances[t]

Supply(t) == MapThenSumSet(LAMBDA a : BalanceOf(a, t), Address)
DatabaseSupply(t) == MapThenSumSet(LAMBDA a : db.basic[a].balances[t], Address)

Positions == UNION {{<<v, n>> : n \in DOMAIN js.journal[v]} : v \in DOMAIN js.journal}

\* What one entry added to the supply of t, and what it took away.
Added(e, t) == IF e.type = "TokensMinted" /\ e.token_id = t THEN e.amount ELSE 0
Taken(e, t) ==
    CASE e.type = "TokensBurned" /\ e.token_id = t -> e.amount
      [] e.type = "AccountDestroyed" /\ t = BaseToken /\ e.address = e.target -> e.had_balance
      [] OTHER -> 0

\* The journal accounts for every token: what the accounts hold is what the
\* database had, plus what was minted and less what was burned or destroyed
\* by operations that have not been reverted.  (Modulo 2^256: SELFDESTRUCT
\* adds to its target with a wrapping addition.)
SupplyAccounted ==
    intact =>
        \A t \in TokenId :
            ( Supply(t) + MapThenSumSet(LAMBDA p : Taken(js.journal[p[1]][p[2]], t), Positions) )
              % (MaxU256 + 1)
          = ( DatabaseSupply(t) + MapThenSumSet(LAMBDA p : Added(js.journal[p[1]][p[2]], t), Positions) )
              % (MaxU256 + 1)
=============================================================================
