--------------------------- MODULE SnapshotStack ---------------------------
(***************************************************************************)
(* What a journal of reversible changes promises to the EVM: the world can *)
(* be changed at will, a checkpoint remembers the world of that moment, a  *)
(* commit forgets the newest checkpoint and a revert brings the world back *)
(* to exactly what it remembered.  With one exception (Break), nothing     *)
(* else ever changes what an open checkpoint remembers.                    *)
(*                                                                         *)
(* JournaledState keeps no copies of the world; it is shown to implement   *)
(* this specification with `saved' computed by unwinding its journal.      *)
(***************************************************************************)
EXTENDS Integers, Sequences

VARIABLES
    current,   \* the world as operations see it
    saved,     \* the worlds remembered by the open checkpoints, oldest first
    outcome    \* how the last step ended, as its caller sees it

vars == <<current, saved, outcome>>

Init == saved = << >>

\* The outcomes with a promise of their own.
Promises == {"committed", "reverted", "refused", "reset", "overflow"}

\* An operation that opens or closes no checkpoint.
Update == /\ outcome' \notin Promises
          /\ saved' = saved

\* Open a checkpoint; the operation that opens it may go on to change the
\* world (creating an account does).
Enter == /\ outcome' \notin Promises
         /\ saved' = Append(saved, current)

\* Close the newest checkpoint and keep what was done since.
Leave == /\ outcome' = "committed"
         /\ saved # << >>
         /\ saved' = SubSeq(saved, 1, Len(saved) - 1)

\* Close the newest checkpoint and undo everything done since.
Revert == /\ outcome' = "reverted"
          /\ saved # << >>
          /\ current' = saved[Len(saved)]
          /\ saved' = SubSeq(saved, 1, Len(saved) - 1)

\* An operation that is refused changes nothing.
Refuse == /\ outcome' = "refused"
          /\ UNCHANGED <<current, saved>>

\* The transaction ends: no checkpoint survives it.
Reset == /\ outcome' = "reset"
         /\ saved' = << >>

\* The world y is x but for the balances of the account a.
OnlyBalances(x, y, a) ==
    \/ y = x
    \/ /\ y.accounts[a] # x.accounts[a]
       /\ y = [x EXCEPT !.accounts[a].balances = y.accounts[a].balances]

\* The one exception: the receiver of a payment would overflow.  This step
\* may change what the open checkpoints remember of the balances of one
\* account; from there on, the promise is about what they remember then.
Break == /\ outcome' = "overflow"
         /\ Len(saved') = Len(saved)
         /\ \E a \in DOMAIN current.accounts :
               \A i \in 1 .. Len(saved) : OnlyBalances(saved[i], saved'[i], a)

Next == \/ Update
        \/ Enter
        \/ Leave
        \/ Revert
        \/ Refuse
        \/ Reset
        \/ Break

Spec == Init /\ [][Next]_vars
============================================================================
