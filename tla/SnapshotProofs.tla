--------------------------- MODULE SnapshotProofs ---------------------------
(***************************************************************************)
(* Proofs about JournaledState, for every set of addresses, tokens, slots  *)
(* and words, every bound, every database and any nesting of frames: the   *)
(* journal and the call stack agree, and the journal implements            *)
(* SnapshotStack, that is, reverting to a checkpoint brings back the world *)
(* of that moment.                                                         *)
(***************************************************************************)
EXTENDS JournaledState, SequenceTheorems, TLAPS

-----------------------------------------------------------------------------
(* The journal keeps its length while operations run.                      *)

Fields == {"accounts", "transient_storage", "touched", "balance_keys",
           "token_ids", "journal"}

\* j is a state whose journal is a sequence of n vectors.
Shaped(j, n) ==
    /\ DOMAIN j = Fields
    /\ \E S : j.journal \in Seq(S)
    /\ Len(j.journal) = n
    /\ n \in Nat \ {0}

\* Changing a field other than the journal.
LEMMA ShapedExcept ==
    ASSUME NEW j, NEW n, Shaped(j, n), NEW f, f # "journal", NEW v
    PROVE  Shaped([j EXCEPT ![f] = v], n)
BY DEF Shaped, Fields

\* Pushing a journal entry into the newest vector leaves the number of vectors.
LEMMA ShapedPush ==
    ASSUME NEW j, NEW n, Shaped(j, n), NEW e
    PROVE  Shaped(Push(j, e), n)
<1>1. PICK S : j.journal \in Seq(S)
    BY DEF Shaped
<1> DEFINE q == j.journal
           x == Append(q[Len(q)], e)
           S2 == S \cup {x}
           r == [q EXCEPT ![Len(q)] = x]
<1>2. Len(q) \in 1 .. Len(q)
    BY <1>1 DEF Shaped
<1>3. q \in Seq(S2) /\ x \in S2
  <2> HIDE DEF x
  <2> QED BY <1>1
<1>4. r \in Seq(S2) /\ Len(r) = Len(q)
  <2> HIDE DEF x, S2, q
  <2> QED
    BY <1>2, <1>3, ExceptSeq
<1>5. Push(j, e) = [j EXCEPT !.journal = r]
    BY DEF Push
<1> QED
  <2> HIDE DEF r, S2
  <2> QED BY <1>4, <1>5 DEF Shaped, Fields

\* load_account leaves the number of vectors.
LEMMA ShapedLoad ==
    ASSUME NEW j, NEW n, Shaped(j, n), NEW a
    PROVE  Shaped(LoadAccount(j, a), n)
<1>1. Shaped(InsertAccount(j, a), n)
    BY DEF Shaped, Fields, InsertAccount
<1> QED
    BY <1>1, ShapedPush DEF LoadAccount

\* touch_account leaves the number of vectors.
LEMMA ShapedTouch ==
    ASSUME NEW j, NEW n, Shaped(j, n), NEW a
    PROVE  Shaped(TouchAccount(j, a), n)
<1>1. Shaped([j EXCEPT !.touched = @ \cup {a}], n)
    BY DEF Shaped, Fields
<1> QED
    BY <1>1, ShapedPush DEF TouchAccount

\* Loading the ids of the native tokens leaves the number of vectors.
LEMMA ShapedLoadIds ==
    ASSUME NEW j, NEW n, Shaped(j, n)
    PROVE  Shaped(LoadNativeTokenIds(j), n)
<1>1. Shaped([j EXCEPT !.token_ids = db.token_ids], n)
    BY DEF Shaped, Fields
<1> QED
    BY <1>1, ShapedPush DEF LoadNativeTokenIds

\* Writing a balance leaves the number of vectors.
LEMMA ShapedSetBalance ==
    ASSUME NEW j, NEW n, Shaped(j, n), NEW a, NEW t, NEW b
    PROVE  Shaped(SetBalance(j, a, t, b), n)
BY DEF Shaped, Fields, SetBalance

\* The transfer of one token, whether it succeeds or fails, leaves the number of vectors.
LEMMA ShapedTransferOne ==
    ASSUME NEW r, NEW n, Shaped(r.js, n), NEW from, NEW to, NEW transfer
    PROVE  Shaped(TransferOne(r, from, to, transfer).js, n)
<1> DEFINE t == transfer.id
           m == transfer.amount
           j1 == TouchAccount(r.js, from)
           has == j1.accounts[from].balances[t]
           j3 == SetBalance(j1, from, t, has - m)
           j2 == TouchAccount(j3, to)
           got == j2.accounts[to].balances[t]
           j4 == SetBalance(j2, to, t, got + m)
           j5 == Push(j4, BalanceTransfer(from, to, t, m))
<1>1. Shaped(j1, n)
    BY ShapedTouch
<1>2. Shaped(j3, n)
  <2> HIDE DEF j1, has
  <2> QED BY <1>1, ShapedSetBalance
<1>3. Shaped(j2, n)
  <2> HIDE DEF j3
  <2> QED BY <1>2, ShapedTouch
<1>4. Shaped(j4, n)
  <2> HIDE DEF j2, got
  <2> QED BY <1>3, ShapedSetBalance
<1>5. Shaped(j5, n)
  <2> HIDE DEF j4
  <2> QED BY <1>4, ShapedPush
<1>6. TransferOne(r, from, to, transfer) \in
         {r, [js |-> j1, outcome |-> "failed"], [js |-> j2, outcome |-> "overflow"],
          [js |-> j5, outcome |-> "ok"]}
    BY DEF TransferOne
<1> HIDE DEF j1, j2, j5
<1> QED
    BY <1>1, <1>3, <1>5, <1>6

\* transfer, of any list of tokens, leaves the number of vectors.
LEMMA ShapedTransfer ==
    ASSUME NEW j, NEW n, Shaped(j, n), NEW from, NEW to, NEW transfers \in Seq(TokenTransfer)
    PROVE  Shaped(TransferAll(j, from, to, transfers).js, n)
<1> DEFINE c == [from |-> from, to |-> to, transfers |-> transfers]
           j0 == LoadAccount(LoadAccount(LoadNativeTokenIds(j), from), to)
           start == [js |-> j0, outcome |-> "ok"]
           after(i) == TransferLoop!Iterate(c, start, i)
           T == {i \in Nat : Shaped(after(i).js, n)}
<1>1. Shaped(j0, n)
    BY ShapedLoad, ShapedLoadIds
<1> HIDE DEF j0
<1>2. 0 \in T
  <2>1. after(0) = start
    BY TransferLoop!IterateZero
  <2> HIDE DEF after
  <2> QED BY <1>1, <2>1
<1>3. ASSUME NEW i \in T PROVE i + 1 \in T
  <2>1. after(i + 1) = TransferTurn(c, after(i), i + 1)
    BY TransferLoop!IterateNext
  <2> HIDE DEF after, c
  <2>2. Shaped(after(i).js, n) /\ i + 1 \in Nat
    OBVIOUS
  <2>3. Shaped(TransferTurn(c, after(i), i + 1).js, n)
    BY <2>2, ShapedTransferOne DEF TransferTurn
  <2> QED
    BY <2>1, <2>2, <2>3
<1>4. T = Nat
  <2> T \in SUBSET Nat
    OBVIOUS
  <2> HIDE DEF T
  <2> QED
    BY <1>2, <1>3, TransferLoop!SetInduction
<1>5. TransferAll(j, from, to, transfers) = after(Len(transfers))
    BY DEF TransferAll, j0
<1> HIDE DEF after
<1> QED
    BY <1>4, <1>5

\* sload leaves the number of vectors.
LEMMA ShapedLoadSlot ==
    ASSUME NEW j, NEW n, Shaped(j, n), NEW a, NEW k
    PROVE  Shaped(LoadSlot(j, a, k), n)
<1> DEFINE value == IF j.accounts[a].created THEN 0 ELSE db.storage[<<a, k>>]
           j1 == [j EXCEPT !.accounts[a].storage[k] =
                     [original |-> value, present |-> value]]
<1>1. Shaped(j1, n)
    BY DEF Shaped, Fields
<1>2. LoadSlot(j, a, k) \in {j, Push(j1, StorageLoaded(a, k))}
    BY DEF LoadSlot
<1> HIDE DEF j1
<1> QED
    BY <1>1, <1>2, ShapedPush

\* sstore leaves the number of vectors.
LEMMA ShapedStoreSlot ==
    ASSUME NEW j, NEW n, Shaped(j, n), NEW a, NEW k, NEW new
    PROVE  Shaped(StoreSlot(j, a, k, new), n)
<1> DEFINE j1 == LoadSlot(j, a, k)
           j2 == [j1 EXCEPT !.accounts[a].storage[k].present = new]
           e == StorageChange(a, k, j1.accounts[a].storage[k].present)
<1>1. Shaped(j1, n)
    BY ShapedLoadSlot
<1>2. Shaped(j2, n)
  <2> HIDE DEF j1
  <2> QED BY <1>1 DEF Shaped, Fields
<1>3. StoreSlot(j, a, k, new) \in {j1, Push(j2, e)}
    BY DEF StoreSlot
<1> HIDE DEF j1, j2, e
<1> QED
    BY <1>1, <1>2, <1>3, ShapedPush

\* checkpoint adds one vector.
LEMMA ShapedOpen ==
    ASSUME NEW j, NEW n, Shaped(j, n)
    PROVE  Shaped(OpenVector(j), n + 1)
<1>1. PICK S : j.journal \in Seq(S)
    BY DEF Shaped
<1>2. Append(j.journal, << >>) \in Seq(S \cup {<< >>})
    BY <1>1
<1>3. Len(Append(j.journal, << >>)) = n + 1
    BY <1>1 DEF Shaped
<1> QED
    BY <1>2, <1>3 DEF Shaped, Fields, OpenVector

\* Marking an account as created leaves the number of vectors.
LEMMA ShapedMark ==
    ASSUME NEW j, NEW n, Shaped(j, n), NEW a
    PROVE  Shaped(MarkCreated(j, a), n)
<1> DEFINE j1 == [j EXCEPT
                 !.accounts[a].created = TRUE,
                 !.accounts[a].nonce = 1,
                 !.accounts[a].storage =
                     [k \in Slot |-> IF @[k] = Absent THEN Absent ELSE Slot0]]
<1>1. Shaped(j1, n)
    BY DEF Shaped, Fields
<1>2. MarkCreated(j, a) = TouchAccount(Push(j1, AccountCreated(a)), a)
    BY DEF MarkCreated
<1> HIDE DEF j1
<1> QED
    BY <1>1, <1>2, ShapedPush, ShapedTouch

\* create_account_checkpoint, once it has opened its frame, leaves the number of vectors.
LEMMA ShapedCreate ==
    ASSUME NEW j, NEW n, Shaped(j, n), NEW caller, NEW a, NEW value
    PROVE  Shaped(CreateAccount(j, caller, a, value), n)
BY ShapedMark, ShapedSetBalance, ShapedPush DEF CreateAccount

\* set_code leaves the number of vectors.
LEMMA ShapedSetCode ==
    ASSUME NEW j, NEW n, Shaped(j, n), NEW a, NEW code
    PROVE  Shaped(SetCode(j, a, code), n)
<1> DEFINE j1 == Push(TouchAccount(j, a), CodeChange(a))
<1>1. Shaped(j1, n)
    BY ShapedTouch, ShapedPush
<1>2. SetCode(j, a, code) = [j1 EXCEPT !.accounts[a].code = code]
    BY DEF SetCode
<1> HIDE DEF j1
<1> QED
    BY <1>1, <1>2 DEF Shaped, Fields

\* selfdestruct leaves the number of vectors.
LEMMA ShapedDestroy ==
    ASSUME NEW j, NEW n, Shaped(j, n), NEW a, NEW target
    PROVE  Shaped(Destroy(j, a, target), n)
<1> DEFINE j1 == LoadAccount(j, target)
           balance == j1.accounts[a].balances[BaseToken]
           j3 == TouchAccount(j1, target)
           j2 == IF a = target THEN j1
                 ELSE SetBalance(j3, target, BaseToken,
                          WrappingAdd(j3.accounts[target].balances[BaseToken],
                                      balance))
           account == j2.accounts[a]
           emptied == SetBalance(j2, a, BaseToken, 0)
           j4 == [emptied EXCEPT !.accounts[a].destroyed = TRUE]
<1>1. Shaped(j1, n)
    BY ShapedLoad
<1>2. Shaped(j2, n)
  <2> HIDE DEF j1, balance
  <2> QED BY <1>1, ShapedTouch, ShapedSetBalance
<1>3. Shaped(emptied, n)
  <2> HIDE DEF j2
  <2> QED BY <1>2, ShapedSetBalance
<1>4. Shaped(j4, n)
  <2> HIDE DEF emptied
  <2> QED BY <1>3 DEF Shaped, Fields
<1>5. Destroy(j, a, target) \in
         {j2,
          Push(j4, AccountDestroyed(a, target, account.destroyed,
                                    account.balances[BaseToken])),
          Push(emptied, BalanceTransfer(a, target, BaseToken,
                                        account.balances[BaseToken]))}
    BY DEF Destroy
<1> HIDE DEF j2, j4, emptied, account
<1> QED
    BY <1>2, <1>3, <1>4, <1>5, ShapedPush

\* checkpoint_revert leaves as many vectors as there were at its checkpoint.
LEMMA ShapedRevert ==
    ASSUME NEW j, NEW n, Shaped(j, n), NEW i \in 1 .. n
    PROVE  Shaped(RevertTo(j, i), i)
<1>1. PICK S : j.journal \in Seq(S)
    BY DEF Shaped
<1>2. SubSeq(j.journal, 1, i) \in Seq(S) /\ Len(SubSeq(j.journal, 1, i)) = i
    BY <1>1 DEF Shaped
<1>3. DOMAIN RevertTo(j, i) = Fields /\ RevertTo(j, i).journal = SubSeq(j.journal, 1, i)
    BY DEF RevertTo, Fields
<1>4. i \in Nat \ {0}
    BY DEF Shaped
<1>5. \E Q : SubSeq(j.journal, 1, i) \in Seq(Q)
    BY <1>2
<1> QED
    BY <1>2, <1>3, <1>4, <1>5, Zenon DEF Shaped

-----------------------------------------------------------------------------
(* Checkpoints and the call stack.                                         *)

FrameType == [journal_i : Nat, log_i : Nat, creates : Address \cup {NoAddress}]

\* The inductive invariant of CheckpointsNested.
StackInv ==
    /\ Shaped(js, Len(js.journal))
    /\ frames \in Seq(FrameType)
    /\ logs \in Seq(Address)
    /\ CheckpointsNested

\* An operation that leaves the frames alone and keeps the journal's shape.
LEMMA OperationKeepsStack ==
    ASSUME StackInv, NEW j, NEW result, Operation(j, result),
           Shaped(j, Len(js.journal))
    PROVE  StackInv'
<1>1. js' = j /\ logs' = logs /\ depth' = depth /\ frames' = frames
    BY DEF Operation
<1>2. Len(js'.journal) = Len(js.journal)
    BY <1>1 DEF Shaped
<1>3. Shaped(js', Len(js'.journal))
    BY <1>1, <1>2
<1>4. CheckpointsNested'
    BY <1>1, <1>2 DEF StackInv, CheckpointsNested
<1> QED
    BY <1>1, <1>3, <1>4 DEF StackInv

\* Opening a frame whose vector is the newest.
LEMMA EnterKeepsStack ==
    ASSUME StackInv, NEW a \in Address \cup {NoAddress},
           Shaped(js', Len(js.journal) + 1),
           frames' = Append(frames, Frame(a)), depth' = depth + 1, logs' = logs
    PROVE  StackInv'
<1> DEFINE n == Len(js.journal)
<1>1. n \in Nat \ {0} /\ Len(js'.journal) = n + 1 /\ Len(logs) \in Nat
    BY DEF StackInv, Shaped
<1>2. Frame(a) \in FrameType /\ Frame(a).journal_i = n /\ Frame(a).log_i = Len(logs)
    BY <1>1 DEF Frame, FrameType
<1>3. /\ frames' \in Seq(FrameType)
      /\ Len(frames') = Len(frames) + 1
      /\ frames'[Len(frames) + 1] = Frame(a)
      /\ \A k \in 1 .. Len(frames) : frames'[k] = frames[k]
      /\ DOMAIN frames' = 1 .. Len(frames) + 1 /\ DOMAIN frames = 1 .. Len(frames)
      /\ Len(frames) \in Nat
    BY <1>2 DEF StackInv
<1>4. \A k \in DOMAIN frames : frames[k].journal_i \in 1 .. n - 1 /\ frames[k].log_i <= Len(logs)
    BY DEF StackInv, CheckpointsNested
<1>5. \A k \in DOMAIN frames' :
         /\ frames'[k].journal_i \in 1 .. Len(js'.journal) - 1
         /\ frames'[k].log_i <= Len(logs')
  <2> SUFFICES ASSUME NEW k \in DOMAIN frames'
               PROVE  /\ frames'[k].journal_i \in 1 .. n
                      /\ frames'[k].log_i <= Len(logs)
    BY <1>1
  <2>1. CASE k = Len(frames) + 1
    BY <2>1, <1>1, <1>2, <1>3
  <2>2. CASE k \in 1 .. Len(frames)
    BY <2>2, <1>1, <1>3, <1>4
  <2> QED
    BY <1>3, <2>1, <2>2
<1>6. \A k, l \in DOMAIN frames' :
         k < l => /\ frames'[k].journal_i < frames'[l].journal_i
                  /\ frames'[k].log_i <= frames'[l].log_i
  <2> SUFFICES ASSUME NEW k \in DOMAIN frames', NEW l \in DOMAIN frames', k < l
               PROVE  /\ frames'[k].journal_i < frames'[l].journal_i
                      /\ frames'[k].log_i <= frames'[l].log_i
    OBVIOUS
  <2>1. k \in DOMAIN frames /\ frames'[k] = frames[k]
    BY <1>3
  <2>2. CASE l = Len(frames) + 1
    BY <2>1, <2>2, <1>1, <1>2, <1>3, <1>4
  <2>3. CASE l \in DOMAIN frames
    BY <2>1, <2>3, <1>3 DEF StackInv, CheckpointsNested
  <2> QED
    BY <1>3, <2>2, <2>3
<1>7. depth' = Len(frames')
    BY <1>3 DEF StackInv, CheckpointsNested
<1>8. Shaped(js', Len(js'.journal)) /\ Len(js'.journal) > 0
    BY <1>1
<1> QED
    BY <1>3, <1>5, <1>6, <1>7, <1>8 DEF StackInv, CheckpointsNested

\* Closing the newest frame: the journal keeps at least the vector the frame
\* started from, the logs those before it.
LEMMA LeaveKeepsStack ==
    ASSUME StackInv, frames # << >>, PopFrame, depth' = depth - 1,
           Shaped(js', Len(js'.journal)), Len(js'.journal) >= Top.journal_i,
           logs' \in Seq(Address), Len(logs') >= Top.log_i
    PROVE  StackInv'
<1> DEFINE n == Len(frames)
<1>1. n \in Nat \ {0} /\ DOMAIN frames = 1 .. n /\ Top = frames[n]
    BY DEF StackInv, Top
<1>2. /\ frames' \in Seq(FrameType)
      /\ Len(frames') = n - 1
      /\ DOMAIN frames' = 1 .. n - 1
      /\ \A k \in 1 .. n - 1 : frames'[k] = frames[k]
    BY <1>1 DEF StackInv, PopFrame
<1>3. ASSUME NEW k \in 1 .. n
      PROVE  frames[k].journal_i \in Nat \ {0} /\ frames[k].log_i \in Nat
  <2>1. frames[k] \in FrameType /\ k \in DOMAIN frames
    BY <1>1 DEF StackInv
  <2>2. frames[k].journal_i \in 1 .. Len(js.journal) - 1
    BY <2>1 DEF StackInv, CheckpointsNested
  <2> QED
    BY <2>1, <2>2 DEF FrameType, StackInv, Shaped
<1>4. ASSUME NEW k \in DOMAIN frames, NEW l \in DOMAIN frames, k < l
      PROVE  frames[k].journal_i < frames[l].journal_i /\ frames[k].log_i <= frames[l].log_i
    BY <1>4 DEF StackInv, CheckpointsNested
<1>5. Len(js'.journal) \in Nat \ {0} /\ Len(logs') \in Nat
    BY DEF Shaped
<1>6. ASSUME NEW k \in DOMAIN frames'
      PROVE  /\ frames'[k].journal_i \in 1 .. Len(js'.journal) - 1
             /\ frames'[k].log_i <= Len(logs')
  <2>1. k \in 1 .. n /\ n \in 1 .. n /\ k < n /\ frames'[k] = frames[k]
    BY <1>1, <1>2
  <2>2. frames[k].journal_i < Top.journal_i /\ frames[k].log_i <= Top.log_i
    BY <2>1, <1>1, <1>4
  <2> QED
    BY <2>1, <2>2, <1>1, <1>3, <1>5
<1>7. ASSUME NEW k \in DOMAIN frames', NEW l \in DOMAIN frames', k < l
      PROVE  /\ frames'[k].journal_i < frames'[l].journal_i
             /\ frames'[k].log_i <= frames'[l].log_i
  <2>1. k \in DOMAIN frames /\ l \in DOMAIN frames /\ frames'[k] = frames[k] /\ frames'[l] = frames[l]
    BY <1>1, <1>2
  <2> QED
    BY <2>1, <1>4, <1>7
<1>8. depth' = Len(frames')
    BY <1>1, <1>2 DEF StackInv, CheckpointsNested
<1> QED
    BY <1>2, <1>5, <1>6, <1>7, <1>8 DEF StackInv, CheckpointsNested

\* The journal a transaction starts with has one vector and no open frame.
LEMMA InitStack == ASSUME Init PROVE StackInv
<1>1. js.journal \in Seq({<< >>}) /\ Len(js.journal) = 1
    BY DEF Init, NewJournaledState
<1>2. DOMAIN js = Fields
    BY DEF Init, NewJournaledState, Fields
<1> QED
    BY <1>1, <1>2 DEF Init, StackInv, CheckpointsNested, Shaped

\* Every operation of JournaledState preserves the invariant.
LEMMA NextStack == ASSUME StackInv, [Next]_vars PROVE StackInv'
<1> DEFINE n == Len(js.journal)
<1>a. Shaped(js, n) /\ n \in Nat \ {0}
    BY DEF StackInv, Shaped
<1>1. ASSUME NEW a \in Address, Load(a) PROVE StackInv'
    BY <1>1, <1>a, ShapedLoad, OperationKeepsStack DEF Load
<1>2. ASSUME NEW a \in Address, Touch(a) PROVE StackInv'
    BY <1>2, <1>a, ShapedTouch, OperationKeepsStack DEF Touch
<1>3. ASSUME NEW a \in Address, IncNonce(a) PROVE StackInv'
  <2> DEFINE j == Push(TouchAccount(js, a), NonceChange(a))
             j2 == [j EXCEPT !.accounts[a].nonce = @ + 1]
  <2>1. Shaped(j, n)
    BY <1>a, ShapedTouch, ShapedPush
  <2>2. Shaped(j2, n)
    <3> HIDE DEF j
    <3> QED BY <2>1 DEF Shaped, Fields
  <2>3. Operation(js, "failed") \/ Operation(j2, "ok")
    BY <1>3 DEF IncNonce
  <2> HIDE DEF j2
  <2> QED
    BY <2>2, <2>3, <1>a, OperationKeepsStack
<1>4. ASSUME NEW a \in Address, PushLog(a) PROVE StackInv'
  <2>1. js' = js /\ depth' = depth /\ frames' = frames /\ logs' = Append(logs, a)
    BY <1>4 DEF PushLog
  <2>2. logs' \in Seq(Address) /\ Len(logs') = Len(logs) + 1 /\ Len(logs) \in Nat
    BY <2>1 DEF StackInv
  <2>3. ASSUME NEW k \in DOMAIN frames PROVE frames[k].log_i <= Len(logs')
    <3>1. frames[k] \in FrameType /\ frames[k].log_i <= Len(logs)
      BY DEF StackInv, CheckpointsNested
    <3> QED
      BY <3>1, <2>2 DEF FrameType
  <2> QED
    BY <2>1, <2>2, <2>3 DEF StackInv, CheckpointsNested
<1>5. ASSUME NEW a \in AccessList, NEW slots \in SUBSET Slot, InitialAccountLoad(a, slots)
      PROVE  StackInv'
  <2> DEFINE j == IF Loaded(js, a) THEN js ELSE InsertAccount(js, a)
             old == j.accounts[a].storage
             new == [k \in Slot |->
                       IF old[k] # Absent \/ k \notin slots THEN old[k]
                       ELSE [original |-> db.storage[<<a, k>>],
                             present |-> db.storage[<<a, k>>]]]
             j2 == [j EXCEPT !.accounts[a].storage = new]
  <2>1. Shaped(j, n)
    BY <1>a DEF Shaped, Fields, InsertAccount
  <2>2. Shaped(j2, n)
    <3> HIDE DEF j, new
    <3> QED BY <2>1 DEF Shaped, Fields
  <2>3. Operation(j2, "ok")
    BY <1>5 DEF InitialAccountLoad
  <2> HIDE DEF j2
  <2> QED
    BY <2>2, <2>3, OperationKeepsStack
<1>6. ASSUME NEW from \in Address, NEW to \in Address, NEW transfers \in Transfers,
             Transfer(from, to, transfers)
      PROVE  StackInv'
    BY <1>6, <1>a, ShapedTransfer, OperandsAssumption, OperationKeepsStack DEF Transfer
<1>7. ASSUME NEW a \in Address, NEW k \in Slot, SLoad(a, k) PROVE StackInv'
    BY <1>7, <1>a, ShapedLoadSlot, OperationKeepsStack DEF SLoad
<1>8. ASSUME NEW a \in Address, NEW k \in Slot, NEW new \in Word, SStore(a, k, new)
      PROVE  StackInv'
    BY <1>8, <1>a, ShapedStoreSlot, OperationKeepsStack DEF SStore
<1>9. ASSUME NEW a \in Address, NEW k \in Slot, NEW new \in Word, TStore(a, k, new)
      PROVE  StackInv'
  <2> DEFINE had == js.transient_storage[<<a, k>>]
             j == [js EXCEPT !.transient_storage[<<a, k>>] = new]
             j2 == Push(j, TransientStorageChange(a, k, had))
  <2>1. Shaped(j, n)
    BY <1>a DEF Shaped, Fields
  <2>2. Shaped(j2, n)
    <3> HIDE DEF j, had
    <3> QED BY <2>1, ShapedPush
  <2>3. Operation(js, "ok") \/ Operation(j2, "ok")
    BY <1>9 DEF TStore
  <2> HIDE DEF j2
  <2> QED
    BY <2>2, <2>3, <1>a, OperationKeepsStack
<1>10. ASSUME NEW a \in Address, NEW target \in Address, SelfDestruct(a, target)
       PROVE  StackInv'
    BY <1>10, <1>a, ShapedDestroy, OperationKeepsStack DEF SelfDestruct
<1>11. ASSUME NEW a \in Address, NEW b \in Address, NEW s \in SubId, NEW m \in Amounts,
              Mint(a, b, s, m)
       PROVE  StackInv'
  <2> DEFINE t == TokenIdAddress[<<a, s>>]
             j == LoadAccount(LoadNativeTokenIds(js), a)
             balance == j.accounts[b].balances[t]
             j1 == SetBalance(j, b, t, balance + m)
             j2 == [j1 EXCEPT !.token_ids = IF \E i \in DOMAIN @ : @[i] = t THEN @
                                            ELSE Append(@, t)]
             j3 == Push(j2, TokensMinted(b, t, m))
  <2>1. Shaped(j, n)
    BY <1>a, ShapedLoadIds, ShapedLoad
  <2>2. Shaped(j1, n)
    <3> HIDE DEF j, t, balance
    <3> QED BY <2>1, ShapedSetBalance
  <2>3. Shaped(j2, n)
    <3> HIDE DEF j1
    <3> QED BY <2>2 DEF Shaped, Fields
  <2>4. Shaped(j3, n)
    <3> HIDE DEF j2
    <3> QED BY <2>3, ShapedPush
  <2>5. \/ \E result : Operation(j, result)
        \/ Operation(j3, "ok")
    BY <1>11 DEF Mint
  <2> HIDE DEF j, j3
  <2> QED
    BY <2>1, <2>4, <2>5, OperationKeepsStack
<1>12. ASSUME NEW a \in Address, NEW b \in Address, NEW s \in SubId, NEW m \in Amounts,
              Burn(a, b, s, m)
       PROVE  StackInv'
  <2> DEFINE t == TokenIdAddress[<<a, s>>]
             j == LoadAccount(LoadNativeTokenIds(js), b)
             balance == j.accounts[b].balances[t]
             j1 == SetBalance(j, b, t, balance - m)
             j2 == Push(j1, TokensBurned(b, t, m))
  <2>1. Shaped(j, n)
    BY <1>a, ShapedLoadIds, ShapedLoad
  <2>2. Shaped(j1, n)
    <3> HIDE DEF j, t, balance
    <3> QED BY <2>1, ShapedSetBalance
  <2>3. Shaped(j2, n)
    <3> HIDE DEF j1
    <3> QED BY <2>2, ShapedPush
  <2>4. \/ Operation(js, "failed") \/ Operation(j, "failed") \/ Operation(j2, "ok")
    BY <1>12 DEF Burn
  <2> HIDE DEF j, j2
  <2> QED
    BY <2>1, <2>3, <2>4, <1>a, OperationKeepsStack
<1>13. ASSUME Checkpoint PROVE StackInv'
    BY <1>13, <1>a, ShapedOpen, EnterKeepsStack DEF Checkpoint
<1>14. ASSUME NEW caller \in Address, NEW a \in Address, NEW m \in Amounts,
              CreateAccountCheckpoint(caller, a, m)
       PROVE  StackInv'
  <2> DEFINE j == OpenVector(js)
  <2>1. Shaped(j, n + 1)
    BY <1>a, ShapedOpen
  <2>2. /\ Shaped(RevertTo(j, n), n)
        /\ Shaped(RevertTo(MarkCreated(j, a), n), n)
        /\ Shaped(CreateAccount(j, caller, a, m), n + 1)
    <3> HIDE DEF j
    <3>1. n \in 1 .. n + 1
      BY <1>a
    <3> QED BY <2>1, <3>1, ShapedRevert, ShapedMark, ShapedCreate
  <2>3. \/ Operation(RevertTo(j, n), "refused")
        \/ Operation(RevertTo(MarkCreated(j, a), n), "refused")
        \/ /\ js' = CreateAccount(j, caller, a, m)
           /\ frames' = Append(frames, Frame(a))
           /\ depth' = depth + 1
           /\ logs' = logs
    BY <1>14 DEF CreateAccountCheckpoint
  <2> HIDE DEF j
  <2> QED
    BY <2>2, <2>3, OperationKeepsStack, EnterKeepsStack
<1>b. ASSUME frames # << >>
      PROVE  /\ Top.journal_i \in 1 .. n - 1
             /\ Top.log_i \in 0 .. Len(logs) /\ logs \in Seq(Address)
  <2>1. Len(frames) \in DOMAIN frames
    BY <1>b DEF StackInv
  <2>2. Top \in FrameType /\ Top.journal_i \in 1 .. n - 1 /\ Top.log_i <= Len(logs)
    BY <2>1 DEF StackInv, CheckpointsNested, Top
  <2> QED
    BY <2>2 DEF FrameType, StackInv
<1>15. ASSUME CheckpointCommit PROVE StackInv'
  <2>1. /\ frames # << >> /\ PopFrame /\ depth' = depth - 1
        /\ js' = js /\ logs' = logs
    BY <1>15 DEF CheckpointCommit
  <2>2. /\ Len(js'.journal) >= Top.journal_i /\ logs' \in Seq(Address)
        /\ Len(logs') >= Top.log_i /\ Shaped(js', Len(js'.journal))
    BY <2>1, <1>a, <1>b
  <2> QED
    BY <2>1, <2>2, LeaveKeepsStack
<1>16. ASSUME NEW code \in Code \cup {NoCode}, CreateReturn(code) PROVE StackInv'
  <2>1. /\ frames # << >> /\ PopFrame /\ depth' = depth - 1
        /\ js' = SetCode(js, Top.creates, code) /\ logs' = logs
    BY <1>16 DEF CreateReturn
  <2>2. Shaped(js', n)
    BY <2>1, <1>a, ShapedSetCode
  <2>3. /\ Len(js'.journal) >= Top.journal_i /\ logs' \in Seq(Address)
        /\ Len(logs') >= Top.log_i /\ Shaped(js', Len(js'.journal))
    BY <2>1, <2>2, <1>a, <1>b DEF Shaped
  <2> QED
    BY <2>1, <2>3, LeaveKeepsStack
<1>17. ASSUME CheckpointRevert PROVE StackInv'
  <2>1. /\ frames # << >> /\ PopFrame /\ depth' = depth - 1
        /\ js' = RevertTo(js, Top.journal_i) /\ logs' = SubSeq(logs, 1, Top.log_i)
    BY <1>17 DEF CheckpointRevert
  <2>2. Shaped(js', Top.journal_i)
    BY <2>1, <1>a, <1>b, ShapedRevert
  <2>3. Len(js'.journal) = Top.journal_i /\ Top.journal_i \in Nat
    BY <2>2 DEF Shaped
  <2>4. logs' \in Seq(Address) /\ Len(logs') = Top.log_i /\ Top.log_i \in Nat
    BY <2>1, <1>b
  <2> QED
    BY <2>1, <2>2, <2>3, <2>4, LeaveKeepsStack
<1>18. ASSUME Clear PROVE StackInv'
  <2>2. js'.journal \in Seq({<< >>}) /\ Len(js'.journal) = 1
    BY <1>18 DEF Clear, NewJournaledState
  <2>3. DOMAIN js' = Fields
    BY <1>18 DEF Clear, NewJournaledState, Fields
  <2> QED
    BY <2>2, <2>3, <1>18 DEF Clear, StackInv, CheckpointsNested, Shaped
<1>19. ASSUME UNCHANGED vars PROVE StackInv'
    BY <1>19 DEF vars, StackInv, CheckpointsNested
<1> QED
    BY <1>1, <1>2, <1>3, <1>4, <1>5, <1>6, <1>7, <1>8, <1>9, <1>10, <1>11, <1>12,
       <1>13, <1>14, <1>15, <1>16, <1>17, <1>18, <1>19 DEF Next

\* The journal and the call stack always agree, whatever operations run and
\* however they fail: depth is the number of open frames and each of them
\* owns the vectors of the journal from its checkpoint on, so a revert
\* (checkpoint_revert) never truncates the entries of a caller.
THEOREM StackTheorem == Spec => []CheckpointsNested
<1>1. Init => StackInv
    BY InitStack
<1>2. StackInv /\ [Next]_vars => StackInv'
    BY NextStack
<1>3. StackInv => CheckpointsNested
    BY DEF StackInv
<1> QED
    BY <1>1, <1>2, <1>3, PTL DEF Spec

-----------------------------------------------------------------------------
(* The past of a journal: what undoing its vectors brings back.            *)

CoreType == [accounts : Accounts, transient_storage : [Address \X Slot -> Word]]
Vector == Seq(JournalEntry)

\* Nothing undone is the present.
LEMMA PastPresent ==
    ASSUME NEW j, j.journal \in Seq(Vector)
    PROVE  Unwound(j, Len(j.journal)) = Core(j)
<1>1. SubSeq(j.journal, Len(j.journal) + 1, Len(j.journal)) = << >>
    OBVIOUS
<1> QED
    BY <1>1, Vectors!UnwindEmpty DEF Unwound

\* The part of a journal after i ends with its newest vector.
LEMMA TailAppend ==
    ASSUME NEW S, NEW q \in Seq(S), q # << >>, NEW i \in 0 .. Len(q) - 1
    PROVE  /\ SubSeq(q, i + 1, Len(q)) = Append(SubSeq(q, i + 1, Len(q) - 1), q[Len(q)])
           /\ SubSeq(q, i + 1, Len(q) - 1) \in Seq(S)
           /\ q[Len(q)] \in S
<1> DEFINE n == Len(q)
           p == SubSeq(q, i + 1, n - 1)
           r == SubSeq(q, i + 1, n)
           s == Append(p, q[n])
<1>1. n \in Nat \ {0} /\ q[n] \in S /\ i \in Nat
    OBVIOUS
<1>2. p \in Seq(S) /\ Len(p) = n - 1 - i /\ \A x \in 1 .. n - 1 - i : p[x] = q[i + x]
    <2>1. \A x \in i + 1 .. n - 1 : q[x] \in S
        BY <1>1
    <2> QED
        BY <1>1, <2>1
<1>3. r \in Seq(S) /\ Len(r) = n - i /\ \A x \in 1 .. n - i : r[x] = q[i + x]
    <2>1. \A x \in i + 1 .. n : q[x] \in S
        BY <1>1
    <2> QED
        BY <1>1, <2>1
<1> HIDE DEF p, r
<1>4. /\ s \in Seq(S) /\ Len(s) = n - i /\ s[n - i] = q[n]
      /\ \A x \in 1 .. n - 1 - i : s[x] = q[i + x]
    BY <1>1, <1>2
<1>5. ASSUME NEW x \in 1 .. n - i PROVE r[x] = s[x]
    <2>1. CASE x = n - i
        BY <1>1, <1>3, <1>4, <2>1
    <2>2. CASE x # n - i
        <3>1. x \in 1 .. n - 1 - i
            BY <1>1, <2>2
        <3> QED
            BY <1>3, <1>4, <3>1
    <2> QED
        BY <2>1, <2>2
<1> HIDE DEF s
<1>6. r = s
    BY <1>3, <1>4, <1>5, SeqEqual
<1> QED
    BY <1>1, <1>2, <1>6 DEF p, r, s

\* checkpoint: a new vector changes nothing of the past.
LEMMA PastOpened ==
    ASSUME NEW j \in World, NEW i \in 0 .. Len(j.journal)
    PROVE  Unwound(OpenVector(j), i) = Unwound(j, i)
<1> DEFINE q == j.journal
           k == OpenVector(j)
           r == Append(q, << >>)
<1>1. q \in Seq(Vector) /\ Len(q) \in Nat /\ << >> \in Vector
    BY DEF World, Vector
<1>2. k.journal = r /\ Core(k) = Core(j)
    BY DEF OpenVector, World, Core
<1>3. r \in Seq(Vector) /\ r # << >> /\ Len(r) = Len(q) + 1 /\ r[Len(r)] = << >>
    BY <1>1
<1>4. SubSeq(r, i + 1, Len(r) - 1) = SubSeq(q, i + 1, Len(q))
    BY <1>1, <1>3
<1> HIDE DEF r, k, q
<1>5. i \in 0 .. Len(r) - 1
    BY <1>1, <1>3 DEF q
<1>6. /\ SubSeq(r, i + 1, Len(r)) = Append(SubSeq(q, i + 1, Len(q)), << >>)
      /\ SubSeq(q, i + 1, Len(q)) \in Seq(Vector)
    BY <1>3, <1>4, <1>5, TailAppend
<1>7. Vectors!Unwind(Core(j), SubSeq(r, i + 1, Len(r)))
          = Vectors!Unwind(UndoVector(Core(j), << >>), SubSeq(q, i + 1, Len(q)))
    BY ZenonT(40), <1>1, <1>6, Vectors!UnwindAppend
<1>8. UndoVector(Core(j), << >>) = Core(j)
    BY Entries!UnwindEmpty DEF UndoVector
<1> QED
    BY <1>2, <1>7, <1>8 DEF Unwound, q, k
-----------------------------------------------------------------------------
(* Changes the journal can take back.                                      *)

\* The account exists but nothing was ever deployed to it: a creation may
\* choose its address.  What the undoing of AccountCreated relies on.
Unused(x) == x # Absent /\ x.code = NoCode /\ x.nonce = 0
Clean(x) ==
    Unused(x) => ~x.created /\ \A s \in Slot : x.storage[s] \in {Absent, Slot0}

\* The account exists and is not one that a creation may choose.
Used(x) == x # Absent /\ ~Unused(x)

\* The account's creation is under way.
InCreation(x) == x # Absent /\ x.created /\ x.code = NoCode /\ x.nonce # 0

\* What any operation respects of one account; set_code ends its creation.
Evolves(x, y, ends) ==
    /\ x # Absent => y # Absent
    /\ Clean(x) => Clean(y)
    /\ Used(x) => Used(y)
    /\ InCreation(x) /\ ~ends => InCreation(y)
    /\ x # Absent /\ ~ends => y.code = x.code
    /\ x # Absent /\ x.created => y.created

\* UnwrapsSucceed for any state.
Unwrappable(j) ==
    \A v \in DOMAIN j.journal : \A n \in DOMAIN j.journal[v] :
        /\ \A a \in Mentions(j.journal[v][n]) : Loaded(j, a)
        /\ \A w \in v .. Len(j.journal) : \A m \in DOMAIN j.journal[w] :
              (w > v \/ m > n) =>
                 \A a \in Mentions(j.journal[v][n]) : j.journal[w][m] # AccountLoaded(a)

\* The vector has the account's loading.
Loads(q, a) == \E n \in DOMAIN q : q[n] = AccountLoaded(a)

\* The newest vector of k continues that of j and names each account that
\* k has loaded.
Arrives(j, k) ==
    LET v == Len(j.journal)
    IN  /\ \A n \in DOMAIN j.journal[v] :
              n \in DOMAIN k.journal[v] /\ k.journal[v][n] = j.journal[v][n]
        /\ \A a \in Address : Loaded(k, a) /\ ~Loaded(j, a) => Loads(k.journal[v], a)

\* k comes from j by changes that the newest vector of k's journal records:
\* undoing that vector, and any more, gives the same from k as from j.
Grows(j, k, X) ==
    /\ k \in World
    /\ Len(k.journal) = Len(j.journal)
    /\ \A a \in k.touched : Loaded(k, a)
    /\ \A i \in 0 .. Len(j.journal) - 1 :
          /\ Unwound(k, i) = Unwound(j, i)
          /\ UnwoundTouched(k, i) \ {Precompile3} = UnwoundTouched(j, i) \ {Precompile3}
    /\ \A a \in Address : Evolves(j.accounts[a], k.accounts[a], a \in X)
    /\ \A a \in Address \ X :
          Loaded(k, a) /\ ~Loaded(j, a) => k.accounts[a].code = db.basic[a].code
    /\ \A v \in 1 .. Len(j.journal) - 1 : k.journal[v] = j.journal[v]
    /\ Arrives(j, k)
    /\ Unwrappable(j) => Unwrappable(k)

\* Nothing done.
LEMMA GrowsSame ==
    ASSUME NEW j \in World, \A a \in j.touched : Loaded(j, a), NEW X
    PROVE  Grows(j, j, X)
BY DEF Grows, Evolves, Arrives, Loads

\* One change after another.
LEMMA GrowsTwice ==
    ASSUME NEW j, NEW k, NEW l, NEW X, Grows(j, k, {}), Grows(k, l, X)
    PROVE  Grows(j, l, X)
<1>1. Arrives(j, l)
  <2>1. Len(k.journal) = Len(j.journal) /\ Arrives(j, k) /\ Arrives(k, l)
    BY DEF Grows
  <2> QED
    BY <2>1 DEF Arrives, Loads
<1>2. \A a \in Address : /\ Evolves(j.accounts[a], k.accounts[a], a \in {})
                         /\ Evolves(k.accounts[a], l.accounts[a], a \in X)
    BY DEF Grows
<1>3. \A a \in Address : Evolves(j.accounts[a], l.accounts[a], a \in X)
    BY <1>2 DEF Evolves
<1>4. ASSUME NEW a \in Address \ X, Loaded(l, a), ~Loaded(j, a)
      PROVE  l.accounts[a].code = db.basic[a].code
  <2>1. CASE Loaded(k, a)
    <3>1. k.accounts[a].code = db.basic[a].code
      BY <1>4, <2>1 DEF Grows
    <3> QED
      BY <1>2, <2>1, <3>1 DEF Evolves, Loaded
  <2>2. CASE ~Loaded(k, a)
    BY <1>4, <2>2 DEF Grows
  <2> QED
    BY <2>1, <2>2
<1> QED
    BY <1>1, <1>3, <1>4 DEF Grows

\* The journal after a push.
LEMMA PushJournal ==
    ASSUME NEW m \in World, Len(m.journal) # 0, NEW e \in JournalEntry
    PROVE  /\ Push(m, e) \in World
           /\ Core(Push(m, e)) = Core(m)
           /\ Push(m, e).touched = m.touched
           /\ Push(m, e).accounts = m.accounts
           /\ Len(Push(m, e).journal) = Len(m.journal)
           /\ Push(m, e).journal[Len(m.journal)] = Append(m.journal[Len(m.journal)], e)
           /\ \A v \in 1 .. Len(m.journal) - 1 : Push(m, e).journal[v] = m.journal[v]
<1> DEFINE q == m.journal
           n == Len(q)
           x == Append(q[n], e)
           r == [q EXCEPT ![n] = x]
<1>1. q \in Seq(Vector) /\ n \in 1 .. n /\ n \in Nat
    BY DEF World, Vector
<1>2. q[n] \in Vector
    BY <1>1
<1>3. x \in Vector
    BY <1>2 DEF Vector
<1> HIDE DEF q, x
<1>4. r \in Seq(Vector) /\ Len(r) = n /\ \A v \in 1 .. n : r[v] = IF v = n THEN x ELSE q[v]
    BY <1>1, <1>3, ExceptSeq
<1>5. Push(m, e) = [m EXCEPT !.journal = r]
    BY DEF Push, q, x
<1> HIDE DEF r, n
<1>6. /\ Push(m, e) \in World /\ Push(m, e).journal = r
      /\ Push(m, e).touched = m.touched /\ Push(m, e).accounts = m.accounts
      /\ Core(Push(m, e)) = Core(m)
    BY <1>4, <1>5 DEF World, Vector, Core
<1>7. \A v \in 1 .. n - 1 : v \in 1 .. n /\ v # n
    BY <1>1
<1> QED
    BY <1>1, <1>4, <1>6, <1>7 DEF q, x, n
\* Undoing a vector whose last entry takes back what made m out of j is
\* undoing j's vector.
LEMMA PastPush ==
    ASSUME NEW j \in World, NEW m \in World, m.journal = j.journal, Len(j.journal) # 0,
           NEW e \in JournalEntry, UndoEntry(Core(m), e) = Core(j),
           NEW i \in 0 .. Len(j.journal) - 1
    PROVE  Unwound(Push(m, e), i) = Unwound(j, i)
<1> DEFINE q == j.journal
           n == Len(q)
           k == Push(m, e)
           r == k.journal
           rest == SubSeq(q, i + 1, n - 1)
<1>1. q \in Seq(Vector) /\ n \in Nat \ {0} /\ q # << >>
    BY DEF World, Vector
<1>2. /\ r \in Seq(Vector) /\ Len(r) = n /\ r # << >> /\ Core(k) = Core(m)
      /\ r[n] = Append(q[n], e)
      /\ \A v \in 1 .. n - 1 : r[v] = q[v]
  <2>1. /\ k \in World /\ Len(r) = n /\ Core(k) = Core(m)
        /\ r[n] = Append(q[n], e)
        /\ \A v \in 1 .. n - 1 : r[v] = q[v]
    BY SMTT(40), <1>1, PushJournal
  <2> HIDE DEF k
  <2>2. r \in Seq(Vector)
    BY <2>1 DEF World, Vector
  <2> QED
    BY <1>1, <2>1, <2>2
<1> HIDE DEF r, k, n, q
<1>3. i \in Nat /\ i + 1 \in Nat /\ n - 1 \in Nat /\ i \in 0 .. n - 1
    BY <1>1 DEF q, n
<1>4. /\ SubSeq(q, i + 1, n) = Append(rest, q[n])
      /\ rest \in Seq(Vector) /\ q[n] \in Vector
    BY <1>1, <1>3, TailAppend DEF n
<1>5. /\ SubSeq(r, i + 1, n) = Append(SubSeq(r, i + 1, n - 1), r[n])
      /\ SubSeq(r, i + 1, n - 1) \in Seq(Vector) /\ r[n] \in Vector
    BY <1>2, <1>3, TailAppend DEF n
<1>6. SubSeq(r, i + 1, n - 1) = rest
  <2>1. \A x \in i + 1 .. n - 1 : q[x] \in Vector /\ r[x] \in Vector
    BY <1>1, <1>2, <1>3 DEF n
  <2>2. /\ Len(SubSeq(r, i + 1, n - 1)) = Len(rest)
        /\ \A x \in 1 .. Len(rest) : SubSeq(r, i + 1, n - 1)[x] = rest[x]
    <3>1. /\ Len(rest) = IF i + 1 <= n - 1 THEN (n - 1) - (i + 1) + 1 ELSE 0
          /\ \A x \in 1 .. (n - 1) - (i + 1) + 1 : rest[x] = q[i + 1 + x - 1]
      BY <1>3, <2>1, SubSeqProperties
    <3>2. /\ Len(SubSeq(r, i + 1, n - 1)) = IF i + 1 <= n - 1 THEN (n - 1) - (i + 1) + 1 ELSE 0
          /\ \A x \in 1 .. (n - 1) - (i + 1) + 1 : SubSeq(r, i + 1, n - 1)[x] = r[i + 1 + x - 1]
      BY <1>3, <2>1, SubSeqProperties
    <3>3. \A x \in 1 .. Len(rest) : x \in 1 .. (n - 1) - (i + 1) + 1 /\ i + 1 + x - 1 \in 1 .. n - 1
      BY <3>1, <1>3
    <3> HIDE DEF rest
    <3> QED
      BY <3>1, <3>2, <3>3, <1>2
  <2> HIDE DEF rest
  <2> QED
    BY <2>2, <1>4, <1>5, SeqEqual
<1> HIDE DEF rest
<1>7. Vectors!Unwind(Core(j), SubSeq(q, i + 1, n)) = Vectors!Unwind(UndoVector(Core(j), q[n]), rest)
    BY ZenonT(40), <1>4, Vectors!UnwindAppend
<1>8. Vectors!Unwind(Core(m), SubSeq(r, i + 1, n)) = Vectors!Unwind(UndoVector(Core(m), r[n]), rest)
  <2>1. SubSeq(r, i + 1, n) = Append(rest, r[n]) /\ r[n] \in Vector
    BY <1>5, <1>6
  <2> QED
    BY ZenonT(40), <1>4, <2>1, Vectors!UnwindAppend
<1>9. UndoVector(Core(m), r[n]) = UndoVector(Core(j), q[n])
  <2>1. q[n] \in Seq(JournalEntry)
    BY <1>4 DEF Vector
  <2>2. Entries!Unwind(Core(m), Append(q[n], e)) = Entries!Unwind(UndoEntry(Core(m), e), q[n])
    BY <2>1, Entries!UnwindAppend
  <2> QED
    BY <1>2, <2>2 DEF UndoVector
<1> QED
    BY <1>2, <1>7, <1>8, <1>9 DEF Unwound, r, k, n, q

\* The entries of a journal, once one more is pushed.
LEMMA EntriesPush ==
    ASSUME NEW m \in World, Len(m.journal) # 0, NEW e \in JournalEntry,
           NEW i \in 0 .. Len(m.journal) - 1
    PROVE  EntriesAfter(Push(m, e), i) = EntriesAfter(m, i) \cup {e}
<1> DEFINE q == m.journal
           n == Len(q)
           r == Push(m, e).journal
<1>1. q \in Seq(Vector) /\ n \in Nat \ {0}
    BY DEF World, Vector
<1>2. /\ Len(r) = n /\ r[n] = Append(q[n], e)
      /\ \A v \in 1 .. n - 1 : r[v] = q[v]
    BY <1>1, PushJournal
<1>3. q[n] \in Seq(JournalEntry)
    BY <1>1 DEF Vector
<1>4. {r[n][x] : x \in DOMAIN r[n]} = {q[n][x] : x \in DOMAIN q[n]} \cup {e}
  <2> DEFINE p == q[n]
             s == Append(p, e)
  <2>1. /\ DOMAIN s = 1 .. Len(p) + 1 /\ DOMAIN p = 1 .. Len(p) /\ Len(p) \in Nat
        /\ s[Len(p) + 1] = e /\ \A x \in 1 .. Len(p) : s[x] = p[x]
    BY <1>3
  <2> HIDE DEF s, p
  <2>2. {s[x] : x \in DOMAIN s} = {p[x] : x \in DOMAIN p} \cup {e}
    <3>1. \A x \in 1 .. Len(p) + 1 : x \in 1 .. Len(p) \/ x = Len(p) + 1
      BY <2>1
    <3>2. Len(p) + 1 \in 1 .. Len(p) + 1 /\ \A x \in 1 .. Len(p) : x \in 1 .. Len(p) + 1
      BY <2>1
    <3> QED
      BY <2>1, <3>1, <3>2
  <2> QED
    BY <2>2, <1>2 DEF s, p
<1> DEFINE Q(v) == {q[v][x] : x \in DOMAIN q[v]}
           R(v) == {r[v][x] : x \in DOMAIN r[v]}
<1>5. \A v \in i + 1 .. n : v = n \/ v \in 1 .. n - 1
    BY <1>1
<1>6. n \in i + 1 .. n
    BY <1>1
<1>7. \A v \in 1 .. n - 1 : R(v) = Q(v)
    BY <1>2
<1>8. R(n) = Q(n) \cup {e}
    BY <1>4
<1> HIDE DEF r, n, q, Q, R
<1>9. UNION {R(v) : v \in i + 1 .. n} = (UNION {Q(v) : v \in i + 1 .. n}) \cup {e}
    BY <1>5, <1>6, <1>7, <1>8
<1> QED
    BY <1>2, <1>9 DEF EntriesAfter, r, n, q, Q, R

\* The accounts an entry mentions.
LEMMA MentionsTyped == ASSUME NEW e \in JournalEntry PROVE Mentions(e) \subseteq Address
BY DEF JournalEntry, Mentions, TokenIdsLoaded

\* An AccountLoaded entry mentions the account that was loaded.
LEMMA MentionsLoaded ==
    \A a : Mentions(AccountLoaded(a)) = {a} /\ AccountLoaded(a).type = "AccountLoaded"
BY DEF Mentions, AccountLoaded

\* An entry about accounts that are there, and no second AccountLoaded, for
\* the accounts of the earlier entries are there too.
LEMMA UnwrapPush ==
    ASSUME NEW j \in World, NEW m \in World, m.journal = j.journal, Len(j.journal) # 0,
           NEW e \in JournalEntry, \A a \in Mentions(e) : Loaded(m, a),
           \A a \in Address : e = AccountLoaded(a) => ~Loaded(j, a),
           \A a \in Address : Loaded(j, a) => Loaded(m, a), Unwrappable(j)
    PROVE  Unwrappable(Push(m, e))
<1> DEFINE k == Push(m, e)
           q == j.journal
           r == k.journal
           l == Len(q)
<1>1. /\ k.accounts = m.accounts /\ Len(r) = l /\ r[l] = Append(q[l], e)
      /\ \A v \in 1 .. l - 1 : r[v] = q[v]
      /\ k \in World
    BY PushJournal
<1>2. q \in Seq(Vector) /\ r \in Seq(Vector) /\ l \in Nat \ {0}
    BY <1>1 DEF World, Vector
<1> HIDE DEF k, q, r, l
<1>3. \A v \in 1 .. l : q[v] \in Seq(JournalEntry)
    BY <1>2 DEF Vector, l
<1> DEFINE x == Len(q[l]) + 1
<1>4. q[l] \in Seq(JournalEntry) /\ Len(q[l]) \in Nat
    BY <1>2, <1>3
<1>5. /\ DOMAIN r[l] = 1 .. x /\ r[l][x] = e
      /\ \A n \in 1 .. Len(q[l]) : r[l][n] = q[l][n]
      /\ DOMAIN q[l] = 1 .. Len(q[l])
    BY <1>1, <1>4
<1>6. ASSUME NEW v \in 1 .. l, NEW n \in DOMAIN r[v]
      PROVE  \/ v = l /\ n = x /\ r[v][n] = e
             \/ n \in DOMAIN q[v] /\ r[v][n] = q[v][n] /\ (v = l => n < x)
  <2>1. CASE v = l
    <3>1. n = x \/ (n \in 1 .. Len(q[l]) /\ n < x)
      BY <1>4, <1>5, <2>1
    <3> QED
      BY <1>5, <2>1, <3>1
  <2>2. CASE v # l
    <3>1. v \in 1 .. l - 1
      BY <1>2, <2>2
    <3> QED
      BY <1>1, <2>2, <3>1
  <2> QED
    BY <2>1, <2>2
<1>7. DOMAIN r = 1 .. l /\ DOMAIN q = 1 .. l
    BY <1>1, <1>2 DEF l
<1>8. ASSUME NEW v \in 1 .. l, NEW n \in DOMAIN q[v], NEW a \in Mentions(q[v][n])
      PROVE  a \in Address /\ Loaded(j, a) /\ e # AccountLoaded(a)
  <2>1. q[v][n] \in JournalEntry
    BY <1>3
  <2>2. a \in Address
    BY <2>1, MentionsTyped
  <2>3. Loaded(j, a)
    BY <1>7 DEF Unwrappable, q
  <2> QED
    BY <2>2, <2>3
<1> HIDE DEF x
<1>9. ASSUME NEW v \in 1 .. l, NEW n \in DOMAIN r[v]
      PROVE  /\ \A a \in Mentions(r[v][n]) : Loaded(k, a)
             /\ \A w \in v .. l : \A i \in DOMAIN r[w] :
                   (w > v \/ i > n) =>
                      \A a \in Mentions(r[v][n]) : r[w][i] # AccountLoaded(a)
  <2>1. \A a \in Mentions(r[v][n]) : Loaded(k, a)
    BY <1>1, <1>6, <1>8 DEF Loaded
  <2>2. ASSUME NEW w \in v .. l, NEW i \in DOMAIN r[w], w > v \/ i > n,
               NEW a \in Mentions(r[v][n])
        PROVE  r[w][i] # AccountLoaded(a)
    <3>1. w \in 1 .. l
      BY <1>2
    <3>2. n \in DOMAIN q[v] /\ r[v][n] = q[v][n]
      <4>1. ASSUME v = l, n = x PROVE FALSE
        <5>1. w = l
          BY <1>2, <4>1
        <5>2. i \in 1 .. x
          BY <1>5, <5>1
        <5> QED
          BY <1>2, <1>4, <2>2, <4>1, <5>1, <5>2 DEF x
      <4> QED
        BY <1>6, <4>1
    <3>3. CASE r[w][i] = e
      BY <1>8, <3>2, <3>3
    <3>4. CASE i \in DOMAIN q[w] /\ r[w][i] = q[w][i]
      BY <1>7, <2>2, <3>2, <3>4 DEF Unwrappable, q, l
    <3> QED
      BY <1>6, <3>1, <3>3, <3>4
  <2> QED
    BY <2>1, <2>2
<1> QED
    BY <1>1, <1>7, <1>9 DEF Unwrappable, r, k

\* A change and the entry that takes it back.
LEMMA GrowsPush ==
    ASSUME NEW j \in World, NEW m \in World, m.journal = j.journal, Len(j.journal) # 0,
           NEW e \in JournalEntry, UndoEntry(Core(m), e) = Core(j),
           \/ m.touched = j.touched /\ e.type # "AccountTouched"
           \/ \E a \in Address \ j.touched :
                 e = AccountTouched(a) /\ m.touched = j.touched \cup {a},
           \A a \in m.touched : Loaded(m, a),
           \A a \in Mentions(e) : Loaded(m, a),
           \A a \in Address : e = AccountLoaded(a) => ~Loaded(j, a),
           \A a \in Address : Loaded(m, a) /\ ~Loaded(j, a) =>
              e = AccountLoaded(a) /\ m.accounts[a].code = db.basic[a].code,
           NEW X, \A a \in Address : Evolves(j.accounts[a], m.accounts[a], a \in X)
    PROVE  Grows(j, Push(m, e), X)
<1> DEFINE k == Push(m, e)
<1>1. /\ k \in World /\ k.touched = m.touched /\ k.accounts = m.accounts
      /\ Len(k.journal) = Len(j.journal)
    BY PushJournal
<1>2. ASSUME NEW i \in 0 .. Len(j.journal) - 1
      PROVE  UnwoundTouched(k, i) \ {Precompile3} = UnwoundTouched(j, i) \ {Precompile3}
  <2>1. EntriesAfter(k, i) = EntriesAfter(m, i) \cup {e}
    BY EntriesPush
  <2>2. EntriesAfter(m, i) = EntriesAfter(j, i)
    BY DEF EntriesAfter
  <2>3. \A a, b : AccountTouched(a) = AccountTouched(b) => a = b
    BY DEF AccountTouched
  <2>4. \A a : AccountTouched(a).type = "AccountTouched"
    BY DEF AccountTouched
  <2> HIDE DEF k
  <2> QED
    BY <1>1, <2>1, <2>2, <2>3, <2>4 DEF UnwoundTouched
<1>3. ASSUME NEW i \in 0 .. Len(j.journal) - 1 PROVE Unwound(k, i) = Unwound(j, i)
    BY PastPush
<1>4. \A a \in k.touched : Loaded(k, a)
    BY <1>1 DEF Loaded
<1>5. \A v \in 1 .. Len(j.journal) - 1 : k.journal[v] = j.journal[v]
    BY PushJournal
<1>6. Unwrappable(j) => Unwrappable(k)
  <2>1. \A a \in Address : Loaded(j, a) => Loaded(m, a)
    BY DEF Evolves, Loaded
  <2> QED
    BY <2>1, UnwrapPush
<1>7. Arrives(j, k)
  <2> DEFINE v == Len(j.journal)
             p == j.journal[v]
             q == Append(p, e)
  <2>1. k.journal[v] = q
    BY PushJournal
  <2>2. j.journal \in Seq(Vector) /\ v \in 1 .. v
    BY DEF World, Vector
  <2>3. p \in Seq(JournalEntry)
    BY <2>2 DEF Vector
  <2> HIDE DEF p
  <2>4. /\ \A n \in DOMAIN p : n \in DOMAIN q /\ q[n] = p[n]
        /\ Len(p) + 1 \in DOMAIN q /\ q[Len(p) + 1] = e
    BY <2>3
  <2>5. \A a \in Address : Loaded(k, a) => Loaded(m, a)
    BY <1>1 DEF Loaded
  <2> HIDE DEF q, k
  <2> QED
    BY <2>1, <2>4, <2>5 DEF Arrives, Loads, p
<1>8. \A a \in Address \ X :
         Loaded(k, a) /\ ~Loaded(j, a) => k.accounts[a].code = db.basic[a].code
    BY <1>1 DEF Loaded
<1> HIDE DEF k
<1> QED
    BY <1>1, <1>2, <1>3, <1>4, <1>5, <1>6, <1>7, <1>8 DEF Grows, k

-----------------------------------------------------------------------------
(* Accounts                                                                *)

\* The states operations start from.
Sound(j) == j \in World /\ Len(j.journal) # 0 /\ \A a \in j.touched : Loaded(j, a)

\* Growing keeps a state sound.
LEMMA GrowsSound == ASSUME NEW j, NEW k, NEW X, Sound(j), Grows(j, k, X) PROVE Sound(k)
BY DEF Sound, Grows

\* A change of the account a, and the entry that takes it back.
LEMMA GrowsAccount ==
    ASSUME NEW j, Sound(j), NEW a \in Address, NEW x \in Account, NEW m \in World,
           m.accounts = [j.accounts EXCEPT ![a] = x],
           m.transient_storage = j.transient_storage,
           m.journal = j.journal, m.touched = j.touched,
           NEW e \in JournalEntry, e.type \notin {"AccountTouched", "TransientStorageChange"},
           UndoAccounts(m.accounts, e) = j.accounts,
           Mentions(e) = {a}, e.type = "AccountLoaded" => ~Loaded(j, a),
           Loaded(j, a) \/ (e = AccountLoaded(a) /\ x.code = db.basic[a].code),
           NEW X, Evolves(j.accounts[a], x, a \in X)
    PROVE  Grows(j, Push(m, e), X)
<1>1. /\ j \in World /\ Len(j.journal) # 0 /\ j.accounts \in Accounts
      /\ \A b \in j.touched : b \in Address /\ j.accounts[b] # Absent
    BY DEF Sound, World, Loaded
<1>2. x # Absent
    BY BoundsAssumption
<1>3. \A b \in Address : m.accounts[b] = IF b = a THEN x ELSE j.accounts[b]
    BY <1>1 DEF Accounts
<1>4. \A b \in m.touched : Loaded(m, b)
    BY <1>1, <1>2, <1>3 DEF Loaded
<1>5. \A b \in Address : Evolves(j.accounts[b], m.accounts[b], b \in X)
    BY <1>3 DEF Evolves
<1>6. UndoEntry(Core(m), e) = Core(j)
    BY DEF UndoEntry, UndoTransient, Core
<1>7. \A b \in Mentions(e) : Loaded(m, b)
    BY <1>2, <1>3 DEF Loaded
<1>8. \A b \in Address : e = AccountLoaded(b) => ~Loaded(j, b)
  <2> QED
    BY MentionsLoaded
<1>9. \A b \in Address : Loaded(m, b) /\ ~Loaded(j, b) =>
         e = AccountLoaded(b) /\ m.accounts[b].code = db.basic[b].code
    BY <1>3 DEF Loaded
<1> QED
    BY <1>1, <1>4, <1>5, <1>6, <1>7, <1>8, <1>9, GrowsPush

\* load_account
LEMMA GrowsLoad ==
    ASSUME NEW j, Sound(j), NEW a \in Address, db \in Database
    PROVE  /\ Grows(j, LoadAccount(j, a), {})
           /\ Loaded(LoadAccount(j, a), a)
<1>1. CASE Loaded(j, a)
    BY <1>1, GrowsSame DEF LoadAccount, Sound
<1>2. CASE ~Loaded(j, a)
  <2> DEFINE x == AccountFrom(db.basic[a])
             m == InsertAccount(j, a)
             e == AccountLoaded(a)
  <2>1. db.basic[a] \in AccountInfo
    BY DEF Database
  <2>2. /\ x \in Account /\ x # Absent /\ x.storage = [s \in Slot |-> Absent] /\ x.created = FALSE
        /\ x.code = db.basic[a].code
    <3>1. /\ x \in Account /\ x.storage = [s \in Slot |-> Absent] /\ x.created = FALSE
          /\ x.code = db.basic[a].code
      BY <2>1 DEF AccountFrom, AccountInfo, Account
    <3> HIDE DEF x
    <3> QED
      BY <3>1, BoundsAssumption
  <2>3. db.basic[a].keys \in SUBSET TokenId
    BY <2>1 DEF AccountInfo
  <2>4. j \in World /\ j.accounts \in Accounts /\ j.accounts[a] = Absent
    BY <1>2 DEF Sound, World, Loaded
  <2> HIDE DEF x
  <2>5. m = [j EXCEPT !.accounts[a] = x, !.balance_keys[a] = db.basic[a].keys]
    BY DEF InsertAccount, x
  <2>6. /\ m \in World
        /\ m.accounts = [j.accounts EXCEPT ![a] = x]
        /\ m.transient_storage = j.transient_storage
        /\ m.journal = j.journal /\ m.touched = j.touched
    <3>1. [j.accounts EXCEPT ![a] = x] \in Accounts
      BY <2>2, <2>4 DEF Accounts
    <3>2. [j.balance_keys EXCEPT ![a] = db.basic[a].keys] \in [Address -> SUBSET TokenId]
      BY <2>3, <2>4 DEF World
    <3> QED
      BY <2>4, <2>5, <3>1, <3>2 DEF World
  <2>7. e \in JournalEntry /\ e.type \notin {"AccountTouched", "TransientStorageChange"}
        /\ Mentions(e) = {a}
    BY DEF JournalEntry, AccountLoaded, Mentions
  <2>8. UndoAccounts(m.accounts, e) = j.accounts
    <3>1. UndoAccounts(m.accounts, e) = [m.accounts EXCEPT ![a] = Absent]
      BY DEF UndoAccounts, AccountLoaded
    <3> QED
      BY <3>1, <2>4, <2>6 DEF Accounts
  <2>9. Evolves(j.accounts[a], x, a \in {})
    BY <2>2, <2>4 DEF Evolves, Clean, Used, Unused, InCreation
  <2> HIDE DEF m, e
  <2>10. Grows(j, Push(m, e), {})
    BY <1>2, <2>2, <2>6, <2>7, <2>8, <2>9, GrowsAccount DEF e
  <2>11. Loaded(Push(m, e), a)
    <3>1. Push(m, e).accounts = m.accounts
      BY <2>6, <2>7, PushJournal DEF Sound
    <3> QED
      BY <3>1, <2>2, <2>4, <2>6 DEF Loaded, Accounts
  <2> QED
    BY <1>2, <2>10, <2>11 DEF LoadAccount, m, e
<1> QED
    BY <1>1, <1>2

\* touch_account, for an account that is loaded
LEMMA GrowsTouch ==
    ASSUME NEW j, Sound(j), NEW a \in Address, Loaded(j, a)
    PROVE  /\ Grows(j, TouchAccount(j, a), {})
           /\ TouchAccount(j, a).accounts = j.accounts
           /\ TouchAccount(j, a).transient_storage = j.transient_storage
<1>1. CASE a \in j.touched
    BY <1>1, GrowsSame DEF TouchAccount, Sound
<1>2. CASE a \notin j.touched
  <2> DEFINE m == [j EXCEPT !.touched = @ \cup {a}]
             e == AccountTouched(a)
  <2>1. /\ m \in World /\ m.accounts = j.accounts /\ m.journal = j.journal
        /\ m.transient_storage = j.transient_storage
        /\ m.touched = j.touched \cup {a}
    BY DEF Sound, World
  <2>2. e \in JournalEntry /\ e.type # "AccountLoaded" /\ Mentions(e) = {a}
    BY DEF JournalEntry, AccountTouched, Mentions
  <2>3. UndoEntry(Core(m), e) = Core(j)
    <3>1. UndoAccounts(m.accounts, e) = m.accounts
      BY DEF UndoAccounts, AccountTouched
    <3>2. UndoTransient(m.transient_storage, e) = m.transient_storage
      BY DEF UndoTransient, AccountTouched
    <3> QED
      BY <2>1, <3>1, <3>2 DEF UndoEntry, Core
  <2> HIDE DEF m
  <2>4. /\ \A b \in m.touched : Loaded(m, b)
        /\ \A b \in Address : Evolves(j.accounts[b], m.accounts[b], b \in {})
        /\ \E b \in Address \ j.touched : e = AccountTouched(b) /\ m.touched = j.touched \cup {b}
    BY <1>2, <2>1 DEF Sound, Loaded, Evolves
  <2> HIDE DEF e
  <2>8. /\ \A b \in Mentions(e) : Loaded(m, b)
        /\ \A b \in Address : e = AccountLoaded(b) => ~Loaded(j, b)
        /\ \A b \in Address : Loaded(m, b) => Loaded(j, b)
    BY <2>1, <2>2, MentionsLoaded DEF Loaded
  <2>5. Grows(j, Push(m, e), {})
    BY <2>1, <2>2, <2>3, <2>4, <2>8, GrowsPush DEF Sound
  <2>6. Core(Push(m, e)) = Core(m)
    BY <2>1, <2>2, PushJournal DEF Sound
  <2>7. Push(m, e).accounts = m.accounts /\ Push(m, e).transient_storage = m.transient_storage
    BY <2>6 DEF Core
  <2> QED
    BY <1>2, <2>1, <2>5, <2>7 DEF TouchAccount, m, e
<1> QED
    BY <1>1, <1>2

\* load_native_token_ids
LEMMA GrowsLoadIds ==
    ASSUME NEW j, Sound(j), db \in Database
    PROVE  /\ Grows(j, LoadNativeTokenIds(j), {})
           /\ LoadNativeTokenIds(j).accounts = j.accounts
<1>1. CASE j.token_ids # << >>
    BY <1>1, GrowsSame DEF LoadNativeTokenIds, Sound
<1>2. CASE j.token_ids = << >>
  <2> DEFINE m == [j EXCEPT !.token_ids = db.token_ids]
             e == TokenIdsLoaded
  <2>0. db.token_ids \in Seq(TokenId)
    BY DEF Database
  <2>1. /\ m \in World /\ m.accounts = j.accounts /\ m.journal = j.journal
        /\ m.transient_storage = j.transient_storage
        /\ m.touched = j.touched
    BY <2>0 DEF Sound, World
  <2>2. e \in JournalEntry /\ e.type \notin {"AccountTouched", "AccountLoaded"} /\ Mentions(e) = {}
    BY DEF JournalEntry, TokenIdsLoaded, Mentions
  <2>3. UndoEntry(Core(m), e) = Core(j)
    <3>1. UndoAccounts(m.accounts, e) = m.accounts
      BY DEF UndoAccounts, TokenIdsLoaded
    <3>2. UndoTransient(m.transient_storage, e) = m.transient_storage
      BY DEF UndoTransient, TokenIdsLoaded
    <3> QED
      BY <2>1, <3>1, <3>2 DEF UndoEntry, Core
  <2> HIDE DEF m
  <2>4. /\ \A b \in m.touched : Loaded(m, b)
        /\ \A b \in Address : Evolves(j.accounts[b], m.accounts[b], b \in {})
        /\ \A b \in Address : Loaded(m, b) => Loaded(j, b)
    BY <2>1 DEF Sound, Loaded, Evolves
  <2> HIDE DEF e
  <2>5. Grows(j, Push(m, e), {})
    BY <2>1, <2>2, <2>3, <2>4, GrowsPush, MentionsLoaded DEF Sound
  <2>6. Push(m, e).accounts = m.accounts
    BY <2>1, <2>2, PushJournal DEF Sound
  <2> QED
    BY <1>2, <2>1, <2>5, <2>6 DEF LoadNativeTokenIds, m, e
<1> QED
    BY <1>1, <1>2

\* Accounts can be changed before or after the entry is pushed.
LEMMA PushCommutes ==
    ASSUME NEW j \in World, NEW e, NEW A
    PROVE  [Push(j, e) EXCEPT !.accounts = A] = Push([j EXCEPT !.accounts = A], e)
BY DEF Push, World

\* A state with other accounts.
LEMMA WithAccounts ==
    ASSUME NEW j \in World, NEW A \in Accounts
    PROVE  LET m == [j EXCEPT !.accounts = A]
           IN  /\ m \in World /\ m.accounts = A /\ m.transient_storage = j.transient_storage
               /\ m.journal = j.journal /\ m.touched = j.touched
BY DEF World

\* Changing an account twice.
LEMMA ChangedBack ==
    ASSUME NEW A \in Accounts, NEW a \in Address, NEW x
    PROVE  /\ [A EXCEPT ![a] = x][a] = x
           /\ [[A EXCEPT ![a] = x] EXCEPT ![a] = A[a]] = A
           /\ x \in Account => [A EXCEPT ![a] = x] \in Accounts
BY DEF Accounts

\* A change of the account a from y to x by an operation that changes
\* nothing else, and the entry that takes it back.
LEMMA GrowsChange ==
    ASSUME NEW j, Sound(j), NEW a \in Address, NEW x \in Account,
           NEW e \in JournalEntry, e.type \notin {"AccountTouched", "TransientStorageChange"},
           UndoAccounts([j.accounts EXCEPT ![a] = x], e) = j.accounts,
           Mentions(e) = {a}, e.type # "AccountLoaded", Loaded(j, a),
           NEW X, Evolves(j.accounts[a], x, a \in X)
    PROVE  LET k == Push([j EXCEPT !.accounts = [j.accounts EXCEPT ![a] = x]], e)
           IN  /\ Grows(j, k, X)
               /\ k.accounts = [j.accounts EXCEPT ![a] = x]
<1> DEFINE A == [j.accounts EXCEPT ![a] = x]
           m == [j EXCEPT !.accounts = A]
<1>1. j \in World /\ j.accounts \in Accounts
    BY DEF Sound, World
<1>2. A \in Accounts
    BY <1>1, ChangedBack
<1> HIDE DEF A
<1>3. /\ m \in World /\ m.accounts = A /\ m.transient_storage = j.transient_storage
      /\ m.journal = j.journal /\ m.touched = j.touched
    BY <1>1, <1>2, WithAccounts
<1> HIDE DEF m
<1>4. Grows(j, Push(m, e), X)
    BY <1>3, GrowsAccount DEF A
<1>5. Push(m, e).accounts = m.accounts
    BY <1>3, PushJournal DEF Sound
<1> QED
    BY <1>3, <1>4, <1>5 DEF m, A

\* inc_nonce
LEMMA GrowsNonce ==
    ASSUME NEW j, Sound(j), NEW a \in Address, Loaded(j, a),
           j.accounts[a].nonce # MaxNonce
    PROVE  Grows(j, [Push(TouchAccount(j, a), NonceChange(a))
                        EXCEPT !.accounts[a].nonce = @ + 1], {})
<1> DEFINE k == TouchAccount(j, a)
           y == k.accounts[a]
           x == [y EXCEPT !.nonce = @ + 1]
           A == [k.accounts EXCEPT ![a] = x]
           e == NonceChange(a)
<1>1. Grows(j, k, {}) /\ k.accounts = j.accounts
    BY GrowsTouch
<1>2. Sound(k)
    BY <1>1, GrowsSound
<1> HIDE DEF k
<1>3. k \in World /\ k.accounts \in Accounts
    BY <1>2 DEF Sound, World
<1>4. y \in Account /\ y.nonce # MaxNonce /\ Loaded(k, a)
    BY <1>1, <1>3 DEF Accounts, Loaded
<1>5. /\ x \in Account /\ x.nonce = y.nonce + 1 /\ x.code = y.code /\ x.nonce # 0
      /\ x.created = y.created
    BY <1>4, BoundsAssumption DEF Account
<1>6. [x EXCEPT !.nonce = @ - 1] = y
  <2>1. y.nonce \in Nat
    BY <1>4, BoundsAssumption DEF Account
  <2>2. x.nonce - 1 = y.nonce
    BY <2>1, <1>5
  <2>3. [x EXCEPT !.nonce = y.nonce] = y
    BY <1>4 DEF Account
  <2> QED
    BY <2>2, <2>3
<1> HIDE DEF x, y
<1>7. e \in JournalEntry /\ e.type \notin {"AccountTouched", "TransientStorageChange"}
      /\ Mentions(e) = {a} /\ e.type # "AccountLoaded"
    BY DEF JournalEntry, NonceChange, Mentions
<1>8. UndoAccounts(A, e) = k.accounts
  <2>1. UndoAccounts(A, e) = [A EXCEPT ![a].nonce = @ - 1]
    BY DEF UndoAccounts, NonceChange
  <2>2. A[a] = x /\ [A EXCEPT ![a] = y] = k.accounts
    BY <1>3, ChangedBack DEF y
  <2> HIDE DEF A
  <2> QED
    BY <2>1, <2>2, <1>6
<1>9. Evolves(y, x, a \in {})
    BY <1>4, <1>5, BoundsAssumption DEF Evolves, Clean, Used, Unused, InCreation
<1>10. Grows(k, Push([k EXCEPT !.accounts = A], e), {})
    BY <1>2, <1>4, <1>5, <1>7, <1>8, <1>9, GrowsChange DEF y
<1>11. [Push(k, e) EXCEPT !.accounts[a].nonce = @ + 1] = Push([k EXCEPT !.accounts = A], e)
  <2>1. Push(k, e).accounts = k.accounts
    BY <1>2, <1>3, <1>7, PushJournal DEF Sound
  <2>2. [Push(k, e) EXCEPT !.accounts[a].nonce = @ + 1] = [Push(k, e) EXCEPT !.accounts = A]
    BY <2>1 DEF x, y
  <2> QED
    BY <2>2, <1>3, PushCommutes
<1> QED
    BY <1>1, <1>10, <1>11, GrowsTwice DEF k

\* An account with another slot.
WithSlot(y, s, v) == [y EXCEPT !.storage[s] = v]

\* An account with another slot, and with the slot it had.
LEMMA SlotBack ==
    ASSUME NEW y \in Account, NEW s \in Slot, NEW v \in StorageSlot \cup {Absent}
    PROVE  /\ WithSlot(y, s, v) \in Account
           /\ WithSlot(y, s, v).code = y.code /\ WithSlot(y, s, v).nonce = y.nonce
           /\ WithSlot(y, s, v).created = y.created
           /\ WithSlot(y, s, v).storage[s] = v
           /\ WithSlot(WithSlot(y, s, v), s, y.storage[s]) = y
<1> DEFINE x == WithSlot(y, s, v)
           g == [y.storage EXCEPT ![s] = v]
<1>1. y.storage \in [Slot -> StorageSlot \cup {Absent}]
    BY DEF Account
<1>2. /\ g \in [Slot -> StorageSlot \cup {Absent}]
      /\ g[s] = v
      /\ [g EXCEPT ![s] = y.storage[s]] = y.storage
    BY <1>1
<1>3. x = [y EXCEPT !.storage = g]
    BY DEF WithSlot
<1> HIDE DEF g, x
<1>4. /\ x \in Account /\ x.code = y.code /\ x.nonce = y.nonce /\ x.storage = g
      /\ x.created = y.created
    BY <1>2, <1>3 DEF Account
<1>5. WithSlot(x, s, y.storage[s]) = [x EXCEPT !.storage = y.storage]
    BY <1>2, <1>4 DEF WithSlot
<1>6. [x EXCEPT !.storage = y.storage] = y
    BY <1>3 DEF Account
<1> QED
    BY <1>2, <1>4, <1>5, <1>6 DEF x

\* sload, by an account that is in use
LEMMA GrowsLoadSlot ==
    ASSUME NEW j, Sound(j), NEW a \in Address, Loaded(j, a), ~Unused(j.accounts[a]),
           NEW s \in Slot, db \in Database
    PROVE  LET k == LoadSlot(j, a, s)
           IN  /\ Grows(j, k, {}) /\ Loaded(k, a) /\ ~Unused(k.accounts[a])
               /\ k.accounts[a].storage[s] # Absent
<1> DEFINE y == j.accounts[a]
<1>0. j \in World /\ j.accounts \in Accounts /\ y \in Account
    BY DEF Sound, World, Loaded, Accounts
<1>1. CASE y.storage[s] # Absent
    BY <1>1, GrowsSame DEF LoadSlot, Sound
<1>2. CASE y.storage[s] = Absent
  <2> DEFINE value == IF y.created THEN 0 ELSE db.storage[<<a, s>>]
             v == [original |-> value, present |-> value]
             x == WithSlot(y, s, v)
             A == [j.accounts EXCEPT ![a] = x]
             e == StorageLoaded(a, s)
             k == Push([j EXCEPT !.accounts = A], e)
  <2>1. value \in Word
    BY BoundsAssumption DEF Database
  <2>2. v \in StorageSlot
    BY <2>1 DEF StorageSlot
  <2> HIDE DEF v
  <2>3. /\ x \in Account /\ x.code = y.code /\ x.nonce = y.nonce /\ x.storage[s] = v
        /\ x.created = y.created /\ WithSlot(x, s, Absent) = y
    <3> HIDE DEF y
    <3> QED
      BY <1>0, <1>2, <2>2, SlotBack
  <2>4. LoadSlot(j, a, s) = k
    BY <1>2 DEF LoadSlot, v, WithSlot
  <2> HIDE DEF x, y
  <2>5. e \in JournalEntry /\ e.type \notin {"AccountTouched", "TransientStorageChange"}
        /\ Mentions(e) = {a} /\ e.type # "AccountLoaded"
    BY DEF JournalEntry, StorageLoaded, Mentions
  <2>6. UndoAccounts(A, e) = j.accounts
    <3>1. UndoAccounts(A, e) = [A EXCEPT ![a].storage[s] = Absent]
      BY DEF UndoAccounts, StorageLoaded
    <3>2. A[a] = x /\ [A EXCEPT ![a] = y] = j.accounts
      BY <1>0, ChangedBack DEF y
    <3> HIDE DEF A
    <3> QED
      BY <3>1, <3>2, <2>3 DEF WithSlot
  <2>7. Evolves(y, x, a \in {}) /\ x # Absent /\ ~Unused(x)
    BY <1>0, <2>3, BoundsAssumption DEF Evolves, Clean, Used, Unused, InCreation, y
  <2>8. Grows(j, k, {}) /\ k.accounts = A
    BY <2>3, <2>5, <2>6, <2>7, GrowsChange DEF y
  <2>9. A[a] = x
    BY <1>0 DEF Accounts
  <2>10. v # Absent
    BY <2>2, BoundsAssumption
  <2> HIDE DEF k, A
  <2> QED
    BY <2>3, <2>4, <2>7, <2>8, <2>9, <2>10 DEF Loaded
<1> QED
    BY <1>1, <1>2

\* sstore, by an account that is in use
LEMMA GrowsStoreSlot ==
    ASSUME NEW j, Sound(j), NEW a \in Address, Loaded(j, a), ~Unused(j.accounts[a]),
           NEW s \in Slot, NEW new \in Word, db \in Database
    PROVE  Grows(j, StoreSlot(j, a, s, new), {})
<1> DEFINE k == LoadSlot(j, a, s)
           y == k.accounts[a]
           present == y.storage[s].present
<1>1. /\ Grows(j, k, {}) /\ Loaded(k, a) /\ ~Unused(y)
      /\ y.storage[s] # Absent
    BY GrowsLoadSlot
<1>2. Sound(k)
    BY <1>1, GrowsSound
<1> HIDE DEF k
<1>3. k \in World /\ k.accounts \in Accounts /\ y \in Account
    BY <1>1, <1>2 DEF Sound, World, Loaded, Accounts
<1>4. y.storage[s] \in StorageSlot
    BY <1>1, <1>3 DEF Account
<1>5. CASE present = new
    BY <1>1, <1>5 DEF StoreSlot, k
<1>6. CASE present # new
  <2> DEFINE v == [y.storage[s] EXCEPT !.present = new]
             x == WithSlot(y, s, v)
             A == [k.accounts EXCEPT ![a] = x]
             e == StorageChange(a, s, present)
             l == Push([k EXCEPT !.accounts = A], e)
  <2>1. v \in StorageSlot /\ [v EXCEPT !.present = present] = y.storage[s] /\ present \in Word
    BY <1>4 DEF StorageSlot
  <2>2. StoreSlot(j, a, s, new) = l
    BY <1>6 DEF StoreSlot, k, WithSlot
  <2> HIDE DEF v, present
  <2>3. /\ x \in Account /\ x.code = y.code /\ x.nonce = y.nonce /\ x.storage[s] = v
        /\ x.created = y.created /\ WithSlot(x, s, y.storage[s]) = y
    <3> HIDE DEF y
    <3> QED
      BY <1>3, <2>1, SlotBack
  <2> HIDE DEF x, y
  <2>5. e \in JournalEntry /\ e.type \notin {"AccountTouched", "TransientStorageChange"}
        /\ Mentions(e) = {a} /\ e.type # "AccountLoaded"
    BY <2>1 DEF JournalEntry, StorageChange, Mentions
  <2>6. UndoAccounts(A, e) = k.accounts
    <3>1. UndoAccounts(A, e) = [A EXCEPT ![a].storage[s].present = present]
      BY DEF UndoAccounts, StorageChange
    <3>2. A[a] = x /\ [A EXCEPT ![a] = y] = k.accounts
      BY <1>3, ChangedBack DEF y
    <3> HIDE DEF A
    <3> QED
      BY <3>1, <3>2, <2>1, <2>3 DEF WithSlot
  <2>7. Evolves(y, x, a \in {})
    BY <1>1, <1>3, <2>3, BoundsAssumption DEF Evolves, Clean, Used, Unused, InCreation, y
  <2>8. Grows(k, l, {})
    BY <1>1, <1>2, <2>3, <2>5, <2>6, <2>7, GrowsChange DEF y
  <2> HIDE DEF l
  <2> QED
    BY <1>1, <2>2, <2>8, GrowsTwice
<1> QED
    BY <1>5, <1>6

\* tstore
LEMMA GrowsTransient ==
    ASSUME NEW j, Sound(j), NEW a \in Address, NEW s \in Slot, NEW new \in Word
    PROVE  Grows(j, Push([j EXCEPT !.transient_storage[<<a, s>>] = new],
                         TransientStorageChange(a, s, j.transient_storage[<<a, s>>])), {})
<1> DEFINE had == j.transient_storage[<<a, s>>]
           T == [j.transient_storage EXCEPT ![<<a, s>>] = new]
           m == [j EXCEPT !.transient_storage = T]
           e == TransientStorageChange(a, s, had)
<1>1. j \in World /\ Len(j.journal) # 0 /\ j.transient_storage \in [Address \X Slot -> Word]
    BY DEF Sound, World
<1>2. /\ T \in [Address \X Slot -> Word] /\ had \in Word
      /\ [T EXCEPT ![<<a, s>>] = had] = j.transient_storage
    BY <1>1
<1> HIDE DEF T
<1>3. /\ m \in World /\ m.accounts = j.accounts /\ m.journal = j.journal
      /\ m.transient_storage = T /\ m.touched = j.touched
    BY <1>1, <1>2 DEF World
<1> HIDE DEF m, had
<1>4. e \in JournalEntry /\ e.type \notin {"AccountTouched", "AccountLoaded"} /\ Mentions(e) = {}
    BY <1>2 DEF JournalEntry, TransientStorageChange, Mentions
<1>5. UndoEntry(Core(m), e) = Core(j)
  <2>1. UndoAccounts(m.accounts, e) = m.accounts
    BY DEF UndoAccounts, TransientStorageChange
  <2>2. UndoTransient(m.transient_storage, e) = [T EXCEPT ![<<a, s>>] = had]
    BY <1>3 DEF UndoTransient, TransientStorageChange
  <2> QED
    BY <1>2, <1>3, <2>1, <2>2 DEF UndoEntry, Core
<1>6. /\ \A b \in m.touched : Loaded(m, b)
      /\ \A b \in Address : Evolves(j.accounts[b], m.accounts[b], b \in {})
      /\ \A b \in Address : Loaded(m, b) => Loaded(j, b)
    BY <1>3 DEF Sound, Loaded, Evolves
<1> HIDE DEF e
<1>7. Grows(j, Push(m, e), {})
    BY <1>1, <1>3, <1>4, <1>5, <1>6, GrowsPush, MentionsLoaded
<1> QED
    BY <1>7 DEF m, e, T, had

\* set_code, of the account whose creation ends
LEMMA GrowsSetCode ==
    ASSUME NEW j, Sound(j), NEW a \in Address, InCreation(j.accounts[a]),
           NEW code \in Code \cup {NoCode}
    PROVE  Grows(j, SetCode(j, a, code), {a})
<1> DEFINE k == TouchAccount(j, a)
           y == k.accounts[a]
           x == [y EXCEPT !.code = code]
           A == [k.accounts EXCEPT ![a] = x]
           e == CodeChange(a)
<1>0. Loaded(j, a)
    BY DEF InCreation, Loaded
<1>1. Grows(j, k, {}) /\ k.accounts = j.accounts
    BY <1>0, GrowsTouch
<1>2. Sound(k)
    BY <1>1, GrowsSound
<1> HIDE DEF k
<1>3. k \in World /\ k.accounts \in Accounts
    BY <1>2 DEF Sound, World
<1>4. y \in Account /\ y.code = NoCode /\ y.nonce # 0 /\ Loaded(k, a)
    BY <1>1, <1>3 DEF Accounts, InCreation, Loaded
<1>5. x \in Account /\ x.nonce # 0 /\ x.created = y.created
    BY <1>4 DEF Account
<1>6. [x EXCEPT !.code = NoCode] = y
    BY <1>4 DEF Account
<1> HIDE DEF x, y
<1>7. e \in JournalEntry /\ e.type \notin {"AccountTouched", "TransientStorageChange"}
      /\ Mentions(e) = {a} /\ e.type # "AccountLoaded"
    BY DEF JournalEntry, CodeChange, Mentions
<1>8. UndoAccounts(A, e) = k.accounts
  <2>1. UndoAccounts(A, e) = [A EXCEPT ![a].code = NoCode]
    BY DEF UndoAccounts, CodeChange
  <2>2. A[a] = x /\ [A EXCEPT ![a] = y] = k.accounts
    BY <1>3, ChangedBack DEF y
  <2> HIDE DEF A
  <2> QED
    BY <2>1, <2>2, <1>6
<1>9. Evolves(y, x, a \in {a})
    BY <1>4, <1>5, BoundsAssumption DEF Evolves, Clean, Used, Unused
<1>10. Grows(k, Push([k EXCEPT !.accounts = A], e), {a})
    BY <1>2, <1>4, <1>5, <1>7, <1>8, <1>9, GrowsChange DEF y
<1>11. SetCode(j, a, code) = Push([k EXCEPT !.accounts = A], e)
  <2>1. Push(k, e).accounts = k.accounts
    BY <1>2, <1>3, <1>7, PushJournal DEF Sound
  <2>2. [Push(k, e) EXCEPT !.accounts[a].code = code] = [Push(k, e) EXCEPT !.accounts = A]
    BY <2>1 DEF x, y
  <2>3. [Push(k, e) EXCEPT !.accounts = A] = Push([k EXCEPT !.accounts = A], e)
    BY <1>3, PushCommutes
  <2> QED
    BY <2>2, <2>3 DEF SetCode, k
<1> QED
    BY <1>1, <1>10, <1>11, GrowsTwice

\* create_account_checkpoint, before the endowment, for a clean account: its
\* slots, if any are loaded, are zero already.
LEMMA GrowsMark ==
    ASSUME NEW j, Sound(j), NEW a \in Address, Unused(j.accounts[a]), Clean(j.accounts[a])
    PROVE  LET k == MarkCreated(j, a)
           IN  /\ Grows(j, k, {}) /\ Loaded(k, a)
               /\ InCreation(k.accounts[a])
               /\ \A b \in Address :
                     Loaded(j, b) => k.accounts[b].balances = j.accounts[b].balances
<1> DEFINE y == j.accounts[a]
           slots == [s \in Slot |-> IF y.storage[s] = Absent THEN Absent ELSE Slot0]
           x == [y EXCEPT !.created = TRUE, !.nonce = 1, !.storage = slots]
           A == [j.accounts EXCEPT ![a] = x]
           e == AccountCreated(a)
           k == Push([j EXCEPT !.accounts = A], e)
<1>1. j \in World /\ j.accounts \in Accounts /\ y \in Account /\ Loaded(j, a)
    BY DEF Sound, World, Unused, Accounts, Loaded
<1>2. /\ y.code = NoCode /\ y.nonce = 0 /\ y.created = FALSE
      /\ \A s \in Slot : y.storage[s] \in {Absent, Slot0}
    BY <1>1 DEF Clean, Unused, Account
<1>3. slots = y.storage
  <2>1. y.storage \in [Slot -> StorageSlot \cup {Absent}]
    BY <1>1 DEF Account
  <2> HIDE DEF y
  <2> QED
    BY <1>2, <2>1
<1>4. MarkCreated(j, a) = TouchAccount(k, a)
    BY DEF MarkCreated
<1> HIDE DEF slots, y
<1>5. /\ x \in Account /\ x.code = NoCode /\ x.nonce = 1 /\ x.balances = y.balances
      /\ x.created
  <2>1. 1 \in 0 .. MaxNonce
    BY BoundsAssumption
  <2> QED
    BY <1>1, <1>2, <1>3, <2>1 DEF Account
<1>6. [x EXCEPT !.created = FALSE, !.nonce = 0] = y
    BY <1>1, <1>2, <1>3 DEF Account
<1> HIDE DEF x
<1>7. e \in JournalEntry /\ e.type \notin {"AccountTouched", "TransientStorageChange"}
      /\ Mentions(e) = {a} /\ e.type # "AccountLoaded"
    BY DEF JournalEntry, AccountCreated, Mentions
<1>8. UndoAccounts(A, e) = j.accounts
  <2>1. UndoAccounts(A, e) = [A EXCEPT ![a].created = FALSE, ![a].nonce = 0]
    BY DEF UndoAccounts, AccountCreated
  <2>2. A[a] = x /\ [A EXCEPT ![a] = y] = j.accounts /\ A \in Accounts
    BY <1>1, <1>5, ChangedBack DEF y
  <2>3. [A EXCEPT ![a].created = FALSE, ![a].nonce = 0]
           = [A EXCEPT ![a] = [A[a] EXCEPT !.created = FALSE, !.nonce = 0]]
    <3> HIDE DEF A
    <3> QED BY <2>2 DEF Accounts
  <2> HIDE DEF A
  <2> QED
    BY <2>1, <2>2, <2>3, <1>6
<1>9. Evolves(y, x, a \in {}) /\ x # Absent
    BY <1>1, <1>2, <1>5, BoundsAssumption DEF Evolves, Clean, Used, Unused, InCreation
<1>10. Grows(j, k, {}) /\ k.accounts = A
    BY <1>1, <1>5, <1>7, <1>8, <1>9, GrowsChange DEF y
<1>11. \A b \in Address : A[b] = IF b = a THEN x ELSE j.accounts[b]
    BY <1>1 DEF Accounts
<1>12. Sound(k) /\ Loaded(k, a)
    BY <1>9, <1>10, <1>11, GrowsSound DEF Loaded
<1> HIDE DEF k, A
<1>13. Grows(k, TouchAccount(k, a), {}) /\ TouchAccount(k, a).accounts = A
    BY <1>10, <1>12, GrowsTouch
<1>14. Grows(j, TouchAccount(k, a), {})
    BY <1>10, <1>13, GrowsTwice
<1>15. InCreation(x)
    BY <1>5, <1>9 DEF InCreation
<1> QED
    BY <1>4, <1>5, <1>9, <1>11, <1>13, <1>14, <1>15 DEF Loaded, y

-----------------------------------------------------------------------------
(* Balances                                                                *)

\* Adding and subtracting modulo 2^256 take each other back.
LEMMA Wrapping ==
    ASSUME NEW m \in Balance, NEW n \in Balance
    PROVE  /\ WrappingAdd(m, n) \in Balance /\ WrappingSub(m, n) \in Balance
           /\ WrappingSub(WrappingAdd(m, n), n) = m
           /\ WrappingAdd(WrappingSub(m, n), n) = m
           /\ WrappingSub(m, m) = 0 /\ WrappingAdd(0, m) = m /\ 0 \in Balance
           /\ m + n <= MaxU256 => WrappingAdd(m, n) = m + n
           /\ n <= m => WrappingSub(m, n) = m - n
BY BoundsAssumption DEF Balance, WrappingAdd, WrappingSub

\* Neither wraps where the code has checked.
LEMMA WrappingExact ==
    ASSUME NEW m \in Balance, NEW n \in Balance
    PROVE  /\ ~(m < n) => m - n \in Balance /\ WrappingSub(m, n) = m - n
           /\ ~(m + n > MaxU256) => m + n \in Balance /\ WrappingAdd(m, n) = m + n
           /\ m - n + n = m
BY BoundsAssumption DEF Balance, WrappingAdd, WrappingSub

\* An account with another balance.
WithBalance(y, t, n) == [y EXCEPT !.balances[t] = n]

\* Only the balance changes, and the last change counts.
LEMMA BalanceBack ==
    ASSUME NEW y \in Account, NEW t \in TokenId, NEW n \in Balance
    PROVE  /\ WithBalance(y, t, n) \in Account
           /\ WithBalance(y, t, n).balances[t] = n
           /\ y.balances[t] \in Balance
           /\ \A m \in Balance : WithBalance(WithBalance(y, t, n), t, m) = WithBalance(y, t, m)
           /\ WithBalance(y, t, y.balances[t]) = y
           /\ \A ends : Evolves(y, WithBalance(y, t, n), ends)
           /\ WithBalance(y, t, n).created = y.created
           /\ WithBalance(y, t, n).destroyed = y.destroyed
           /\ WithBalance(y, t, n).code = y.code
           /\ WithBalance(y, t, n).nonce = y.nonce
<1> DEFINE g(m) == [y.balances EXCEPT ![t] = m]
<1>1. y.balances \in [TokenId -> Balance]
    BY DEF Account
<1>2. /\ y.balances[t] \in Balance
      /\ g(y.balances[t]) = y.balances
      /\ \A m \in Balance : /\ g(m) \in [TokenId -> Balance]
                            /\ g(m)[t] = m
                            /\ [g(n) EXCEPT ![t] = m] = g(m)
    BY <1>1
<1>3. \A m : WithBalance(y, t, m) = [y EXCEPT !.balances = g(m)]
    BY DEF WithBalance
<1> HIDE DEF g
<1> DEFINE x == WithBalance(y, t, n)
<1>4. /\ x \in Account /\ x.balances = g(n) /\ x.created = y.created
      /\ x.destroyed = y.destroyed /\ x.code = y.code /\ x.nonce = y.nonce
      /\ x.storage = y.storage
  <2>1. x = [y EXCEPT !.balances = g(n)] /\ g(n) \in [TokenId -> Balance]
    BY <1>2, <1>3
  <2> HIDE DEF x
  <2> QED
    BY <2>1 DEF Account
<1>5. WithBalance(y, t, y.balances[t]) = y
    BY <1>2, <1>3 DEF Account
<1>6. ASSUME NEW m \in Balance PROVE WithBalance(x, t, m) = WithBalance(y, t, m)
  <2>1. WithBalance(x, t, m) = [x EXCEPT !.balances = g(m)]
    <3> HIDE DEF x
    <3> QED
      BY <1>2, <1>4 DEF WithBalance
  <2>2. [x EXCEPT !.balances = g(m)] = [y EXCEPT !.balances = g(m)]
    BY <1>3 DEF Account
  <2> QED
    BY <2>1, <2>2, <1>3
<1> HIDE DEF x
<1>7. ASSUME NEW ends PROVE Evolves(y, x, ends)
    BY <1>4, BoundsAssumption DEF Evolves, Clean, Used, Unused, InCreation
<1> QED
    BY <1>2, <1>4, <1>5, <1>6, <1>7 DEF x

\* Giving and taking.
LEMMA IncreaseIs ==
    ASSUME NEW A \in Accounts, NEW a \in Address, NEW t, NEW n
    PROVE  /\ IncreaseBalance(A, a, t, n)
                 = [A EXCEPT ![a] = WithBalance(A[a], t, WrappingAdd(A[a].balances[t], n))]
           /\ DecreaseBalance(A, a, t, n)
                 = [A EXCEPT ![a] = WithBalance(A[a], t, WrappingSub(A[a].balances[t], n))]
BY DEF IncreaseBalance, DecreaseBalance, WithBalance

\* SetBalance changes one balance and the keys of its map.
LEMMA SetBalanceIs ==
    ASSUME NEW j \in World, NEW a \in Address, Loaded(j, a), NEW t \in TokenId, NEW n \in Balance
    PROVE  LET m == SetBalance(j, a, t, n)
           IN  /\ m \in World
               /\ m.accounts = [j.accounts EXCEPT ![a] = WithBalance(j.accounts[a], t, n)]
               /\ m.transient_storage = j.transient_storage
               /\ m.journal = j.journal /\ m.touched = j.touched
               /\ \A b \in Address : Loaded(j, b) <=> Loaded(m, b)
<1> DEFINE A == [j.accounts EXCEPT ![a] = WithBalance(j.accounts[a], t, n)]
           K == [j.balance_keys EXCEPT ![a] = @ \cup {t}]
           m == SetBalance(j, a, t, n)
<1>1. /\ j.accounts \in Accounts /\ j.accounts[a] \in Account
      /\ j.balance_keys \in [Address -> SUBSET TokenId]
    BY DEF World, Accounts, Loaded
<1>2. WithBalance(j.accounts[a], t, n) \in Account
    BY <1>1, BalanceBack
<1>3. A \in Accounts /\ \A b \in Address : b # a => A[b] = j.accounts[b]
    BY <1>1, <1>2 DEF Accounts
<1>4. K \in [Address -> SUBSET TokenId]
    BY <1>1
<1>5. m = [j EXCEPT !.accounts = A, !.balance_keys = K]
    BY DEF SetBalance, WithBalance
<1>6. A[a] # Absent
    BY <1>1, <1>2, BoundsAssumption DEF Accounts
<1> HIDE DEF A, K, m
<1>7. /\ m \in World /\ m.accounts = A /\ m.transient_storage = j.transient_storage
      /\ m.journal = j.journal /\ m.touched = j.touched
    BY <1>3, <1>4, <1>5 DEF World
<1> QED
    BY <1>3, <1>6, <1>7 DEF Loaded, A, m

\* The accounts once n of token t has moved; a movement to oneself is none.
Moved(A, from, to, t, n) ==
    IF from = to THEN A
    ELSE [A EXCEPT ![from] = WithBalance(A[from], t, WrappingSub(A[from].balances[t], n)),
                   ![to] = WithBalance(A[to], t, WrappingAdd(A[to].balances[t], n))]

\* A movement account by account.
LEMMA MovedIs ==
    ASSUME NEW A \in Accounts, NEW from \in Address, NEW to \in Address,
           A[from] # Absent, A[to] # Absent, NEW t \in TokenId, NEW n \in Balance
    PROVE  /\ Moved(A, from, to, t, n) \in Accounts
           /\ \A a \in Address :
                 /\ A[a] # Absent => Moved(A, from, to, t, n)[a] # Absent
                 /\ A[a] = Absent => Moved(A, from, to, t, n)[a] = Absent
                 /\ \A ends : Evolves(A[a], Moved(A, from, to, t, n)[a], ends)
<1> DEFINE y == A[from]
           z == A[to]
           y2 == WithBalance(y, t, WrappingSub(y.balances[t], n))
           z2 == WithBalance(z, t, WrappingAdd(z.balances[t], n))
           B == Moved(A, from, to, t, n)
<1>1. y \in Account /\ z \in Account
    BY DEF Accounts
<1>2. /\ y.balances[t] \in Balance /\ z.balances[t] \in Balance
      /\ WrappingSub(y.balances[t], n) \in Balance /\ WrappingAdd(z.balances[t], n) \in Balance
    BY <1>1, Wrapping, BalanceBack
<1>3. /\ y2 \in Account /\ z2 \in Account
      /\ \A ends : Evolves(y, y2, ends) /\ Evolves(z, z2, ends)
    BY <1>1, <1>2, BalanceBack
<1>4. \A x, ends : Evolves(x, x, ends)
    BY DEF Evolves
<1>5. CASE from = to
    BY <1>4, <1>5 DEF Moved
<1>6. CASE from # to
  <2>1. B = [A EXCEPT ![from] = y2, ![to] = z2]
    BY <1>6 DEF Moved
  <2> HIDE DEF y2, z2, B
  <2>2. /\ B \in Accounts /\ B[from] = y2 /\ B[to] = z2
        /\ \A a \in Address : a \notin {from, to} => B[a] = A[a]
    BY <1>3, <1>6, <2>1 DEF Accounts
  <2>3. y2 # Absent /\ z2 # Absent
    BY <1>3, BoundsAssumption
  <2> QED
    BY <1>3, <1>4, <2>2, <2>3 DEF B
<1> QED
    BY <1>5, <1>6

\* Undoing BalanceTransfer takes a movement back, one to oneself included.
LEMMA UndoMoved ==
    ASSUME NEW A \in Accounts, NEW from \in Address, NEW to \in Address,
           A[from] # Absent, A[to] # Absent, NEW t \in TokenId, NEW n \in Balance
    PROVE  UndoAccounts(Moved(A, from, to, t, n), BalanceTransfer(from, to, t, n)) = A
<1> DEFINE y == A[from]
           z == A[to]
           m == y.balances[t]
           l == z.balances[t]
           y2 == WithBalance(y, t, WrappingSub(m, n))
           z2 == WithBalance(z, t, WrappingAdd(l, n))
           B == Moved(A, from, to, t, n)
           C == IncreaseBalance(B, from, t, n)
           D == DecreaseBalance(C, to, t, n)
<1>1. y \in Account /\ z \in Account
    BY DEF Accounts
<1>2. m \in Balance /\ l \in Balance
    BY <1>1, BalanceBack
<1>3. UndoAccounts(B, BalanceTransfer(from, to, t, n)) = D
    BY DEF UndoAccounts, BalanceTransfer
<1>4. B \in Accounts
    BY MovedIs
<1> HIDE DEF B
<1>5. C = [B EXCEPT ![from] = WithBalance(B[from], t, WrappingAdd(B[from].balances[t], n))]
    BY <1>4, IncreaseIs
<1> HIDE DEF C
<1>6. CASE from = to
  <2> DEFINE x == WithBalance(y, t, WrappingAdd(m, n))
  <2>1. B = A /\ B[from] = y
    BY <1>6 DEF Moved, B
  <2>2. C = [A EXCEPT ![from] = x]
    BY <1>5, <2>1
  <2>3. /\ x \in Account /\ x.balances[t] = WrappingAdd(m, n)
        /\ WithBalance(x, t, m) = y
        /\ WrappingSub(WrappingAdd(m, n), n) = m
    <3> HIDE DEF y
    <3>1. WrappingAdd(m, n) \in Balance /\ WrappingSub(WrappingAdd(m, n), n) = m
      BY <1>2, Wrapping
    <3> QED
      BY <1>1, <1>2, <3>1, BalanceBack
  <2>4. C \in Accounts /\ C[to] = x
    BY <1>6, <2>2, <2>3 DEF Accounts
  <2>5. D = [C EXCEPT ![to] = WithBalance(C[to], t, WrappingSub(C[to].balances[t], n))]
    BY <2>4, IncreaseIs
  <2>6. D = [C EXCEPT ![to] = y]
    <3> HIDE DEF x, D, y, m
    <3> QED
      BY <2>3, <2>4, <2>5
  <2> HIDE DEF x, D
  <2>7. [C EXCEPT ![to] = y] = A
    BY <1>6, <2>2, ChangedBack
  <2> QED
    BY <1>3, <2>6, <2>7 DEF B
<1>7. CASE from # to
  <2>1. B = [A EXCEPT ![from] = y2, ![to] = z2]
    BY <1>7 DEF Moved, B
  <2>2. /\ y2 \in Account /\ y2.balances[t] = WrappingSub(m, n) /\ WithBalance(y2, t, m) = y
        /\ WrappingAdd(WrappingSub(m, n), n) = m
    <3> HIDE DEF y
    <3>1. WrappingSub(m, n) \in Balance /\ WrappingAdd(WrappingSub(m, n), n) = m
      BY <1>2, Wrapping
    <3> QED
      BY <1>1, <1>2, <3>1, BalanceBack
  <2>3. /\ z2 \in Account /\ z2.balances[t] = WrappingAdd(l, n) /\ WithBalance(z2, t, l) = z
        /\ WrappingSub(WrappingAdd(l, n), n) = l
    <3> HIDE DEF z
    <3>1. WrappingAdd(l, n) \in Balance /\ WrappingSub(WrappingAdd(l, n), n) = l
      BY <1>2, Wrapping
    <3> QED
      BY <1>1, <1>2, <3>1, BalanceBack
  <2> HIDE DEF y2, z2, m, l, y, z
  <2>4. /\ B[from] = y2 /\ B[to] = z2
        /\ \A a \in Address : a \notin {from, to} => B[a] = A[a]
    BY <1>7, <2>1 DEF Accounts
  <2>5. C = [B EXCEPT ![from] = y]
    BY <1>5, <2>2, <2>4
  <2>6. C \in Accounts /\ C[to] = z2
    BY <1>1, <1>4, <1>7, <2>4, <2>5 DEF Accounts
  <2>7. D = [C EXCEPT ![to] = WithBalance(C[to], t, WrappingSub(C[to].balances[t], n))]
    BY <2>6, IncreaseIs
  <2> HIDE DEF D
  <2>8. D = [C EXCEPT ![to] = z]
    BY <2>3, <2>6, <2>7
  <2>9. D = A
    BY <1>4, <1>7, <2>4, <2>5, <2>8 DEF Accounts, y, z
  <2> QED
    BY <1>3, <2>9 DEF B
<1> QED
    BY <1>6, <1>7

\* A movement of tokens and its BalanceTransfer.
LEMMA GrowsMove ==
    ASSUME NEW j, Sound(j), NEW from \in Address, NEW to \in Address,
           Loaded(j, from), Loaded(j, to), NEW t \in TokenId, NEW n \in Balance,
           NEW m \in World, m.accounts = Moved(j.accounts, from, to, t, n),
           m.transient_storage = j.transient_storage,
           m.journal = j.journal, m.touched = j.touched
    PROVE  Grows(j, Push(m, BalanceTransfer(from, to, t, n)), {})
<1> DEFINE e == BalanceTransfer(from, to, t, n)
<1>1. /\ j \in World /\ Len(j.journal) # 0 /\ j.accounts \in Accounts
      /\ \A b \in j.touched : b \in Address /\ j.accounts[b] # Absent
    BY DEF Sound, World, Loaded
<1>2. e \in JournalEntry /\ e.type \notin {"AccountTouched", "AccountLoaded"}
      /\ Mentions(e) = {from, to}
    BY DEF JournalEntry, BalanceTransfer, Mentions
<1>3. UndoAccounts(m.accounts, e) = j.accounts
    BY <1>1, UndoMoved DEF Loaded
<1>4. UndoTransient(m.transient_storage, e) = j.transient_storage
    BY DEF UndoTransient, BalanceTransfer
<1>5. UndoEntry(Core(m), e) = Core(j)
    BY <1>3, <1>4 DEF UndoEntry, Core
<1>6. \A a \in Address :
         /\ j.accounts[a] # Absent => m.accounts[a] # Absent
         /\ j.accounts[a] = Absent => m.accounts[a] = Absent
         /\ Evolves(j.accounts[a], m.accounts[a], a \in {})
  <2> DEFINE A == j.accounts
  <2>1. A \in Accounts /\ A[from] # Absent /\ A[to] # Absent
    BY <1>1 DEF Loaded
  <2> HIDE DEF A
  <2>2. \A a \in Address :
           /\ A[a] # Absent => Moved(A, from, to, t, n)[a] # Absent
           /\ A[a] = Absent => Moved(A, from, to, t, n)[a] = Absent
           /\ \A ends : Evolves(A[a], Moved(A, from, to, t, n)[a], ends)
    BY <2>1, MovedIs
  <2> QED
    BY <2>2 DEF A
<1>7. \A b \in m.touched : Loaded(m, b)
    BY <1>1, <1>6 DEF Loaded
<1> HIDE DEF e
<1>8. /\ \A b \in Mentions(e) : Loaded(m, b)
      /\ \A b \in Address : e = AccountLoaded(b) => ~Loaded(j, b)
      /\ \A b \in Address : Loaded(m, b) => Loaded(j, b)
    BY <1>2, <1>6, MentionsLoaded DEF Loaded
<1> QED
    BY <1>1, <1>2, <1>5, <1>6, <1>7, <1>8, GrowsPush DEF e

\* mint
LEMMA GrowsMint ==
    ASSUME NEW j, Sound(j), NEW a \in Address, Loaded(j, a),
           NEW t \in TokenId, NEW n \in Balance, j.accounts[a].balances[t] + n <= MaxU256,
           NEW m \in World,
           m.accounts = [j.accounts EXCEPT
                            ![a] = WithBalance(j.accounts[a], t, j.accounts[a].balances[t] + n)],
           m.transient_storage = j.transient_storage,
           m.journal = j.journal, m.touched = j.touched
    PROVE  Grows(j, Push(m, TokensMinted(a, t, n)), {})
<1> DEFINE e == TokensMinted(a, t, n)
           y == j.accounts[a]
           b == y.balances[t]
           x == WithBalance(y, t, b + n)
<1>1. j.accounts \in Accounts /\ y \in Account
    BY DEF Sound, World, Loaded, Accounts
<1>2. b \in Balance
    BY <1>1, BalanceBack
<1>3. b + n \in Balance /\ WrappingSub(b + n, n) = b
    BY <1>2, Wrapping
<1>4. m.accounts = [j.accounts EXCEPT ![a] = x]
    OBVIOUS
<1> HIDE DEF y, b
<1>5. /\ x \in Account /\ x.balances[t] = b + n /\ WithBalance(x, t, b) = y
      /\ \A ends : Evolves(y, x, ends)
    BY <1>1, <1>2, <1>3, BalanceBack DEF b
<1> HIDE DEF x
<1>6. e \in JournalEntry /\ e.type \notin {"AccountTouched", "TransientStorageChange"}
      /\ Mentions(e) = {a} /\ e.type # "AccountLoaded"
    BY DEF JournalEntry, TokensMinted, Mentions
<1>7. UndoAccounts(m.accounts, e) = j.accounts
  <2>1. UndoAccounts(m.accounts, e) = DecreaseBalance(m.accounts, a, t, n)
    BY DEF UndoAccounts, TokensMinted
  <2>2. m.accounts \in Accounts /\ m.accounts[a] = x /\ [m.accounts EXCEPT ![a] = y] = j.accounts
    BY <1>1, <1>4, <1>5, ChangedBack DEF y
  <2>3. DecreaseBalance(m.accounts, a, t, n)
           = [m.accounts EXCEPT ![a] = WithBalance(x, t, WrappingSub(x.balances[t], n))]
    BY <2>2, IncreaseIs
  <2> QED
    BY <2>1, <2>2, <2>3, <1>3, <1>5
<1>8. Evolves(j.accounts[a], x, a \in {})
    BY <1>5 DEF y
<1> HIDE DEF e
<1> QED
    BY <1>4, <1>5, <1>6, <1>7, <1>8, GrowsAccount DEF e

\* burn
LEMMA GrowsBurn ==
    ASSUME NEW j, Sound(j), NEW a \in Address, Loaded(j, a),
           NEW t \in TokenId, NEW n \in Balance, n <= j.accounts[a].balances[t],
           NEW m \in World,
           m.accounts = [j.accounts EXCEPT
                            ![a] = WithBalance(j.accounts[a], t, j.accounts[a].balances[t] - n)],
           m.transient_storage = j.transient_storage,
           m.journal = j.journal, m.touched = j.touched
    PROVE  Grows(j, Push(m, TokensBurned(a, t, n)), {})
<1> DEFINE e == TokensBurned(a, t, n)
           y == j.accounts[a]
           b == y.balances[t]
           x == WithBalance(y, t, b - n)
<1>1. j.accounts \in Accounts /\ y \in Account
    BY DEF Sound, World, Loaded, Accounts
<1>2. b \in Balance
    BY <1>1, BalanceBack
<1>3. b - n \in Balance /\ WrappingAdd(b - n, n) = b
    BY <1>2, Wrapping
<1>4. m.accounts = [j.accounts EXCEPT ![a] = x]
    OBVIOUS
<1> HIDE DEF y, b
<1>5. /\ x \in Account /\ x.balances[t] = b - n /\ WithBalance(x, t, b) = y
      /\ \A ends : Evolves(y, x, ends)
    BY <1>1, <1>2, <1>3, BalanceBack DEF b
<1> HIDE DEF x
<1>6. e \in JournalEntry /\ e.type \notin {"AccountTouched", "TransientStorageChange"}
      /\ Mentions(e) = {a} /\ e.type # "AccountLoaded"
    BY DEF JournalEntry, TokensBurned, Mentions
<1>7. UndoAccounts(m.accounts, e) = j.accounts
  <2>1. UndoAccounts(m.accounts, e) = IncreaseBalance(m.accounts, a, t, n)
    BY DEF UndoAccounts, TokensBurned
  <2>2. m.accounts \in Accounts /\ m.accounts[a] = x /\ [m.accounts EXCEPT ![a] = y] = j.accounts
    BY <1>1, <1>4, <1>5, ChangedBack DEF y
  <2>3. IncreaseBalance(m.accounts, a, t, n)
           = [m.accounts EXCEPT ![a] = WithBalance(x, t, WrappingAdd(x.balances[t], n))]
    BY <2>2, IncreaseIs
  <2> QED
    BY <2>1, <2>2, <2>3, <1>3, <1>5
<1>8. Evolves(j.accounts[a], x, a \in {})
    BY <1>5 DEF y
<1> HIDE DEF e
<1> QED
    BY <1>4, <1>5, <1>6, <1>7, <1>8, GrowsAccount DEF e

\* Two balances written one after the other.
LEMMA MovedInTwo ==
    ASSUME NEW A \in Accounts, NEW from \in Address, NEW to \in Address, from # to,
           A[from] # Absent, A[to] # Absent, NEW t \in TokenId, NEW n \in Balance,
           NEW p, p = WrappingSub(A[from].balances[t], n),
           NEW r, r = WrappingAdd(A[to].balances[t], n)
    PROVE  /\ Moved(A, from, to, t, n)
                 = [[A EXCEPT ![from] = WithBalance(A[from], t, p)]
                        EXCEPT ![to] = WithBalance(A[to], t, r)]
           /\ Moved(A, from, to, t, n)
                 = [[A EXCEPT ![to] = WithBalance(A[to], t, r)]
                        EXCEPT ![from] = WithBalance(A[from], t, p)]
BY DEF Moved, Accounts

\* A balance can be written before or after another account is touched.
LEMMA TouchCommutes ==
    ASSUME NEW j \in World, NEW a \in Address, NEW b \in Address, NEW t, NEW n
    PROVE  TouchAccount(SetBalance(j, a, t, n), b) = SetBalance(TouchAccount(j, b), a, t, n)
<1> DEFINE A == [j.accounts EXCEPT ![a].balances[t] = n]
           K == [j.balance_keys EXCEPT ![a] = @ \cup {t}]
           m == SetBalance(j, a, t, n)
<1>1. m = [j EXCEPT !.accounts = A, !.balance_keys = K]
    BY DEF SetBalance
<1> HIDE DEF m
<1>2. m.touched = j.touched /\ m.journal = j.journal
    BY <1>1 DEF World
<1>3. CASE b \in j.touched
    BY <1>2, <1>3 DEF TouchAccount, m
<1>4. CASE b \notin j.touched
  <2> DEFINE q == [j.journal EXCEPT ![Len(j.journal)] = Append(@, AccountTouched(b))]
             k == [j EXCEPT !.touched = @ \cup {b}, !.journal = q]
  <2>1. TouchAccount(j, b) = k
    BY <1>4 DEF TouchAccount, Push, World
  <2>2. TouchAccount(m, b) = [m EXCEPT !.touched = @ \cup {b}, !.journal = q]
    BY <1>1, <1>2, <1>4 DEF TouchAccount, Push, World
  <2> HIDE DEF q
  <2>3. k.accounts = j.accounts /\ k.balance_keys = j.balance_keys
    BY DEF World
  <2>4. SetBalance(k, a, t, n) = [k EXCEPT !.accounts = A, !.balance_keys = K]
    BY <2>3 DEF SetBalance
  <2> HIDE DEF A, K
  <2>5. [k EXCEPT !.accounts = A, !.balance_keys = K]
           = [m EXCEPT !.touched = @ \cup {b}, !.journal = q]
    BY <1>1 DEF World
  <2> QED
    BY <2>1, <2>2, <2>4, <2>5 DEF m
<1> QED
    BY <1>3, <1>4

\* The two accounts differ in their balances only.
SameButBalances(x, y) ==
    /\ y.nonce = x.nonce /\ y.code = x.code /\ y.created = x.created
    /\ y.destroyed = x.destroyed /\ y.storage = x.storage

\* k is g but for the balances of the account a, of which its journal does not
\* know.
Skewed(g, k, a) ==
    /\ k \in World /\ Loaded(g, a)
    /\ k.journal = g.journal /\ k.touched = g.touched
    /\ k.transient_storage = g.transient_storage
    /\ \E x \in Account : /\ SameButBalances(g.accounts[a], x)
                           /\ k.accounts = [g.accounts EXCEPT ![a] = x]

\* What a transfer that ended in r has made of j.
Transferred(j, r, from) ==
    IF r.outcome = "overflow"
    THEN \E g : Grows(j, g, {}) /\ Skewed(g, r.js, from)
    ELSE Grows(j, r.js, {})

\* One turn of the loop of transfer: whatever it changed is in the journal,
\* but for the debit of the sender when the receiver overflows.
LEMMA GrowsTransferOne ==
    ASSUME NEW r, Sound(r.js), NEW from \in Address, NEW to \in Address,
           Loaded(r.js, from), Loaded(r.js, to), NEW transfer \in TokenTransfer
    PROVE  LET u == TransferOne(r, from, to, transfer)
           IN  /\ r.outcome # "ok" => u = r
               /\ r.outcome = "ok" => Transferred(r.js, u, from)
<1> DEFINE t == transfer.id
           n == transfer.amount
           j == r.js
           j1 == TouchAccount(j, from)
           has == j1.accounts[from].balances[t]
           k == TouchAccount(j1, to)
           A == k.accounts
           j2 == TouchAccount(SetBalance(j1, from, t, has - n), to)
           got == j2.accounts[to].balances[t]
           j4 == SetBalance(j2, to, t, got + n)
           e == BalanceTransfer(from, to, t, n)
           u == TransferOne(r, from, to, transfer)
<1>1. t \in TokenId /\ n \in Balance
    BY DEF TokenTransfer
<1>2. CASE r.outcome # "ok"
    BY <1>2 DEF TransferOne
<1>3. CASE r.outcome = "ok"
  <2>1. /\ Grows(j, j1, {}) /\ j1.accounts = j.accounts /\ Sound(j1)
        /\ Loaded(j1, from) /\ Loaded(j1, to)
    BY GrowsTouch, GrowsSound DEF Loaded
  <2>2. CASE has < n
    <3>1. u.js = j1 /\ u.outcome = "failed"
      BY <1>3, <2>2 DEF TransferOne
    <3> QED
      BY <2>1, <3>1, <1>3 DEF Transferred
  <2>3. CASE ~(has < n) /\ got + n > MaxU256
    <3>1. u.outcome = "overflow" /\ u.js = j2
      BY <1>3, <2>3 DEF TransferOne
    <3>2. j1 \in World
      BY <2>1 DEF Sound
    <3>3. j2 = SetBalance(k, from, t, has - n)
      BY <3>2, TouchCommutes
    <3>4. Grows(j1, k, {}) /\ A = j1.accounts /\ k \in World /\ Loaded(k, from)
      <4> HIDE DEF j1
      <4>1. Grows(j1, k, {}) /\ A = j1.accounts
        BY <2>1, GrowsTouch
      <4> QED
        BY <2>1, <4>1, GrowsSound DEF Loaded, Sound
    <3>5. Grows(j, k, {})
      BY <2>1, <3>4, GrowsTwice
    <3> HIDE DEF k, j1
    <3>6. A \in Accounts /\ A[from] \in Account
      BY <3>4 DEF World, Accounts, Loaded
    <3>7. has = A[from].balances[t] /\ has \in Balance
      BY <1>1, <3>4, <3>6, BalanceBack
    <3> HIDE DEF has
    <3>8. has - n \in Balance
      <4> HIDE DEF n, got
      <4> QED
        BY <1>1, <2>3, <3>7, WrappingExact
    <3>9. /\ j2 \in World /\ j2.journal = k.journal /\ j2.touched = k.touched
          /\ j2.accounts = [A EXCEPT ![from] = WithBalance(A[from], t, has - n)]
          /\ j2.transient_storage = k.transient_storage
      BY <1>1, <3>3, <3>4, <3>8, SetBalanceIs
    <3> HIDE DEF j2
    <3>10. /\ WithBalance(A[from], t, has - n) \in Account
           /\ SameButBalances(A[from], WithBalance(A[from], t, has - n))
      BY <1>1, <3>6, <3>8, BalanceBack DEF SameButBalances, WithBalance, Account
    <3>11. Skewed(k, j2, from)
      BY <3>4, <3>9, <3>10 DEF Skewed
    <3> QED
      BY <1>3, <3>1, <3>5, <3>11 DEF Transferred
  <2>4. CASE ~(has < n) /\ ~(got + n > MaxU256)
    <3>1. u.js = Push(j4, e) /\ u.outcome = "ok"
      BY <1>3, <2>4 DEF TransferOne
    <3>2. j1 \in World
      BY <2>1 DEF Sound
    <3>3. j2 = SetBalance(k, from, t, has - n)
      BY <3>2, TouchCommutes
    <3>4. /\ Grows(j1, k, {}) /\ A = j1.accounts /\ Sound(k) /\ k \in World
          /\ Loaded(k, from) /\ Loaded(k, to)
      <4> HIDE DEF j1
      <4>1. Grows(j1, k, {}) /\ A = j1.accounts
        BY <2>1, GrowsTouch
      <4> QED
        BY <2>1, <4>1, GrowsSound DEF Loaded, Sound
    <3>5. Grows(j, k, {})
      BY <2>1, <3>4, GrowsTwice
    <3> HIDE DEF k, j1
    <3>6. /\ A \in Accounts /\ A[from] \in Account /\ A[to] \in Account
          /\ A[from] # Absent /\ A[to] # Absent
      BY <3>4 DEF World, Accounts, Loaded
    <3>7. has = A[from].balances[t] /\ has \in Balance /\ A[to].balances[t] \in Balance
      BY <1>1, <3>4, <3>6, BalanceBack
    <3> HIDE DEF has
    <3>8. has - n \in Balance /\ WrappingSub(has, n) = has - n
      <4> HIDE DEF n, got
      <4> QED
        BY <1>1, <2>4, <3>7, WrappingExact
    <3>9. /\ j2 \in World /\ j2.journal = k.journal /\ j2.touched = k.touched
          /\ j2.accounts = [A EXCEPT ![from] = WithBalance(A[from], t, has - n)]
          /\ j2.transient_storage = k.transient_storage
          /\ Loaded(j2, to)
      BY <1>1, <3>3, <3>4, <3>8, SetBalanceIs
    <3> HIDE DEF j2
    <3>10. j2.accounts[to] \in Account
      BY <3>9 DEF World, Accounts, Loaded
    <3>11. got \in Balance /\ got + n \in Balance
      <4>1. got \in Balance
        BY <1>1, <3>10, BalanceBack
      <4> HIDE DEF got, n
      <4> QED
        BY <1>1, <2>4, <4>1, WrappingExact
    <3>12. /\ j4 \in World /\ j4.journal = k.journal /\ j4.touched = k.touched
           /\ j4.accounts = [j2.accounts EXCEPT ![to] = WithBalance(j2.accounts[to], t, got + n)]
           /\ j4.transient_storage = k.transient_storage
      <4> HIDE DEF got
      <4> QED
        BY <1>1, <3>9, <3>11, SetBalanceIs
    <3> HIDE DEF j4, A
    <3>13. j4.accounts = Moved(A, from, to, t, n)
      <4>1. CASE from = to
        <5> DEFINE y == A[from]
                   x == WithBalance(y, t, has - n)
        <5>1. /\ x.balances[t] = has - n
              /\ WithBalance(x, t, has) = y
          <6> HIDE DEF y
          <6> QED
            BY <1>1, <3>6, <3>7, <3>8, BalanceBack DEF y
        <5>2. j2.accounts[to] = x
          BY <3>6, <3>9, <4>1 DEF Accounts
        <5> HIDE DEF x
        <5>3. got = has - n
          BY <5>1, <5>2
        <5>4. got + n = has
          BY <5>3, <1>1, <3>7 DEF Balance
        <5>5. j4.accounts = [j2.accounts EXCEPT ![to] = y]
          BY <3>12, <5>1, <5>2, <5>4
        <5>6. [j2.accounts EXCEPT ![to] = y] = A
          BY <3>6, <3>9, <4>1, ChangedBack DEF x
        <5> QED
          BY <4>1, <5>5, <5>6 DEF Moved
      <4>2. CASE from # to
        <5>1. j2.accounts[to] = A[to]
          BY <3>6, <3>9, <4>2 DEF Accounts
        <5>2. got + n = WrappingAdd(A[to].balances[t], n)
          <6>1. got = A[to].balances[t]
            BY <5>1
          <6> HIDE DEF got, n
          <6> QED
            BY <6>1, <1>1, <3>7, <2>4, WrappingExact
        <5>3. j4.accounts = [[A EXCEPT ![from] = WithBalance(A[from], t, has - n)]
                                EXCEPT ![to] = WithBalance(A[to], t, got + n)]
          BY <3>9, <3>12, <5>1
        <5> HIDE DEF got
        <5> QED
          BY <1>1, <3>6, <3>7, <3>8, <4>2, <5>2, <5>3, MovedInTwo
      <4> QED
        BY <4>1, <4>2
    <3>14. Grows(k, Push(j4, e), {})
      BY <1>1, <3>4, <3>12, <3>13, GrowsMove DEF A
    <3> HIDE DEF e
    <3>15. Grows(j, Push(j4, e), {})
      BY <3>5, <3>14, GrowsTwice
    <3> QED
      BY <1>3, <3>1, <3>15 DEF Transferred
  <2> QED
    BY <2>2, <2>3, <2>4
<1> QED
    BY <1>2, <1>3

\* transfer: whatever it changed is in the journal, also when it fails half
\* way, but for the debit of the sender when the receiver overflows.
LEMMA GrowsTransfer ==
    ASSUME NEW j, Sound(j), NEW from \in Address, NEW to \in Address,
           NEW transfers \in Seq(TokenTransfer), db \in Database
    PROVE  LET r == TransferAll(j, from, to, transfers)
           IN  /\ r.outcome \in {"ok", "failed", "overflow"}
               /\ Transferred(j, r, from)
<1> DEFINE c == [from |-> from, to |-> to, transfers |-> transfers]
           j0 == LoadNativeTokenIds(j)
           j1 == LoadAccount(j0, from)
           j2 == LoadAccount(j1, to)
           start == [js |-> j2, outcome |-> "ok"]
           after(i) == TransferLoop!Iterate(c, start, i)
           fine(r) == r.outcome \in {"ok", "failed", "overflow"} /\ Transferred(j2, r, from)
           T == {i \in Nat : i <= Len(transfers) => fine(after(i))}
<1>1. Grows(j, j0, {}) /\ Sound(j0)
    BY GrowsLoadIds, GrowsSound
<1> HIDE DEF j0
<1>2. Grows(j0, j1, {}) /\ Sound(j1) /\ Loaded(j1, from)
    BY <1>1, GrowsLoad, GrowsSound
<1> HIDE DEF j1
<1>3. Grows(j1, j2, {}) /\ Sound(j2) /\ Loaded(j2, to)
    BY <1>2, GrowsLoad, GrowsSound
<1> HIDE DEF j2
<1>4. Grows(j, j2, {}) /\ Loaded(j2, from)
  <2>1. Loaded(j2, from)
    BY <1>2, <1>3 DEF Grows, Evolves, Loaded
  <2>2. Grows(j, j1, {})
    BY <1>1, <1>2, GrowsTwice
  <2> QED
    BY <1>3, <2>1, <2>2, GrowsTwice
<1>5. 0 \in T
  <2>1. after(0) = start
    BY TransferLoop!IterateZero
  <2>2. Grows(j2, j2, {})
    BY <1>3, GrowsSame DEF Sound
  <2>3. fine(start)
    BY <2>2 DEF Transferred
  <2> HIDE DEF after, start, fine
  <2> QED
    BY <2>1, <2>3
<1>6. ASSUME NEW i \in T PROVE i + 1 \in T
  <2> SUFFICES ASSUME i + 1 <= Len(transfers) PROVE fine(after(i + 1))
    OBVIOUS
  <2>1. after(i + 1) = TransferTurn(c, after(i), i + 1)
    BY TransferLoop!IterateNext
  <2>2. i \in Nat /\ Len(transfers) \in Nat
    OBVIOUS
  <2>3. i + 1 \in 1 .. Len(transfers) /\ i <= Len(transfers)
    BY <2>2
  <2>4. transfers[i + 1] \in TokenTransfer
    BY <2>3
  <2>5. TransferTurn(c, after(i), i + 1) = TransferOne(after(i), from, to, transfers[i + 1])
    BY DEF TransferTurn
  <2> DEFINE r == after(i)
  <2> HIDE DEF after, c
  <2>6. fine(r)
    BY <2>3
  <2> HIDE DEF r
  <2>7. CASE r.outcome # "ok"
    <3>1. TransferOne(r, from, to, transfers[i + 1]) = r
      BY <2>7 DEF TransferOne
    <3> QED
      BY <2>1, <2>5, <2>6, <3>1 DEF r
  <2>8. CASE r.outcome = "ok"
    <3> DEFINE u == TransferOne(r, from, to, transfers[i + 1])
    <3>1. Grows(j2, r.js, {})
      BY <2>6, <2>8 DEF Transferred
    <3>2. Sound(r.js) /\ Loaded(r.js, from) /\ Loaded(r.js, to)
      <4>1. \A b \in Address : Evolves(j2.accounts[b], r.js.accounts[b], b \in {})
        BY <3>1 DEF Grows
      <4> HIDE DEF fine
      <4>2. Sound(r.js)
        BY <1>3, <3>1, GrowsSound
      <4> QED
        BY <1>3, <1>4, <4>1, <4>2 DEF Evolves, Loaded
    <3>3. Transferred(r.js, u, from)
      BY <2>4, <2>8, <3>2, GrowsTransferOne
    <3>4. u.outcome \in {"ok", "failed", "overflow"}
      BY <2>8 DEF TransferOne
    <3> HIDE DEF u
    <3>5. fine(u)
      BY <3>1, <3>3, <3>4, GrowsTwice DEF Transferred
    <3> QED
      BY <2>1, <2>5, <3>5 DEF r, u
  <2> QED
    BY <2>7, <2>8
<1>7. T = Nat
  <2> T \in SUBSET Nat
    OBVIOUS
  <2> HIDE DEF T
  <2> QED
    BY <1>5, <1>6, TransferLoop!SetInduction
<1>8. TransferAll(j, from, to, transfers) = after(Len(transfers))
    BY DEF TransferAll, j0, j1, j2
<1> HIDE DEF after
<1>9. fine(after(Len(transfers)))
    BY <1>7
<1> QED
    BY <1>4, <1>8, <1>9, GrowsTwice DEF Transferred

\* create_account_checkpoint, once it has opened its frame.
LEMMA GrowsCreate ==
    ASSUME NEW j, Sound(j), NEW caller \in Address, NEW a \in Address, Loaded(j, caller),
           Unused(j.accounts[a]), Clean(j.accounts[a]), NEW value \in Balance,
           ~(j.accounts[a].balances[BaseToken] + value > MaxU256)
    PROVE  LET k == CreateAccount(j, caller, a, value)
           IN  Grows(j, k, {}) /\ InCreation(k.accounts[a])
<1> DEFINE t == BaseToken
           j2 == MarkCreated(j, a)
           A == j2.accounts
           b == A[a].balances[t]
           j3 == SetBalance(j2, a, t, b + value)
           c == j3.accounts[caller].balances[t]
           paid == WrappingSub(c, value)
           j4 == SetBalance(j3, caller, t, paid)
           e == BalanceTransfer(caller, a, t, value)
<1>1. /\ Grows(j, j2, {}) /\ Loaded(j2, a) /\ InCreation(j2.accounts[a])
      /\ \A x \in Address : Loaded(j, x) => A[x].balances = j.accounts[x].balances
    BY GrowsMark
<1>2. Loaded(j, a)
    BY DEF Unused, Loaded
<1>3. CreateAccount(j, caller, a, value) = Push(j4, e)
    BY DEF CreateAccount
<1> HIDE DEF j2
<1>4. Sound(j2) /\ Loaded(j2, caller) /\ j2 \in World
    BY <1>1, GrowsSound DEF Grows, Evolves, Loaded
<1>5. /\ A \in Accounts /\ A[a] \in Account /\ A[caller] \in Account
      /\ A[a] # Absent /\ A[caller] # Absent
    BY <1>1, <1>4 DEF World, Accounts, Loaded
<1>6. t \in TokenId
    BY BoundsAssumption
<1>7. b \in Balance /\ A[caller].balances[t] \in Balance
    BY <1>5, <1>6, BalanceBack
<1>8. b = j.accounts[a].balances[t]
    BY <1>1, <1>2
<1> HIDE DEF b, t
<1>9. b + value \in Balance /\ WrappingAdd(b, value) = b + value
    BY <1>7, <1>8, WrappingExact DEF t
<1>10. /\ j3 \in World /\ j3.journal = j2.journal /\ j3.touched = j2.touched
       /\ j3.accounts = [A EXCEPT ![a] = WithBalance(A[a], t, b + value)]
       /\ j3.transient_storage = j2.transient_storage
       /\ Loaded(j3, caller)
    BY <1>1, <1>4, <1>6, <1>9, SetBalanceIs
<1> HIDE DEF j3
<1>11. j3.accounts[caller] \in Account
    BY <1>10 DEF World, Accounts, Loaded
<1>12. c \in Balance
    BY <1>6, <1>11, BalanceBack
<1> HIDE DEF c
<1>13. paid \in Balance
    BY <1>12, Wrapping
<1> HIDE DEF paid
<1>14. /\ j4 \in World /\ j4.journal = j2.journal /\ j4.touched = j2.touched
       /\ j4.accounts = [j3.accounts EXCEPT ![caller] = WithBalance(j3.accounts[caller], t, paid)]
       /\ j4.transient_storage = j2.transient_storage
    BY <1>6, <1>10, <1>13, SetBalanceIs
<1> HIDE DEF j4, A
<1>15. j4.accounts = Moved(A, caller, a, t, value)
  <2>1. CASE caller = a
    <3> DEFINE y == A[a]
               x == WithBalance(y, t, b + value)
    <3>1. x.balances[t] = b + value /\ WithBalance(x, t, b) = y
      <4> HIDE DEF y
      <4> QED
        BY <1>5, <1>6, <1>7, <1>9, BalanceBack DEF y, b
    <3>2. j3.accounts[caller] = x
      BY <1>5, <1>10, <2>1 DEF Accounts
    <3> HIDE DEF x
    <3>3. paid = b
      <4>1. c = b + value
        BY <3>1, <3>2 DEF c
      <4>2. WrappingSub(WrappingAdd(b, value), value) = b
        BY <1>7, Wrapping
      <4> QED
        BY <4>1, <4>2, <1>9 DEF paid
    <3>4. j4.accounts = [j3.accounts EXCEPT ![a] = y]
      BY <1>14, <2>1, <3>1, <3>2, <3>3
    <3>5. [j3.accounts EXCEPT ![a] = y] = A
      BY <1>5, <1>10, ChangedBack DEF x
    <3> QED
      BY <2>1, <3>4, <3>5 DEF Moved
  <2>2. CASE caller # a
    <3>1. j3.accounts[caller] = A[caller]
      BY <1>5, <1>10, <2>2 DEF Accounts
    <3>2. paid = WrappingSub(A[caller].balances[t], value)
      BY <3>1 DEF paid, c
    <3>3. b + value = WrappingAdd(A[a].balances[t], value)
      BY <1>9 DEF b, A
    <3>4. j4.accounts = [[A EXCEPT ![a] = WithBalance(A[a], t, b + value)]
                            EXCEPT ![caller] = WithBalance(A[caller], t, paid)]
      BY <1>10, <1>14, <3>1
    <3> QED
      BY <1>5, <1>6, <2>2, <3>2, <3>3, <3>4, MovedInTwo
  <2> QED
    BY <2>1, <2>2
<1>16. Grows(j2, Push(j4, e), {})
    BY <1>1, <1>4, <1>6, <1>14, <1>15, GrowsMove DEF A
<1> HIDE DEF e
<1>17. Grows(j, Push(j4, e), {})
    BY <1>1, <1>16, GrowsTwice
<1>18. InCreation(Push(j4, e).accounts[a])
    BY <1>1, <1>16 DEF Grows, Evolves
<1> QED
    BY <1>3, <1>17, <1>18

\* The accounts once a has lost its balance to the target, or to nobody.
Emptied(A, a, target) ==
    IF a = target THEN [A EXCEPT ![a] = WithBalance(A[a], BaseToken, 0)]
    ELSE Moved(A, a, target, BaseToken, A[a].balances[BaseToken])

\* An account with another mark of self-destruction.
Marked(y, d) == [y EXCEPT !.destroyed = d]

\* Only the mark changes.
LEMMA MarkedBack ==
    ASSUME NEW y \in Account, NEW d \in BOOLEAN
    PROVE  /\ Marked(y, d) \in Account
           /\ Marked(Marked(y, d), y.destroyed) = y
           /\ y.destroyed \in BOOLEAN
           /\ \A ends : Evolves(y, Marked(y, d), ends)
<1> DEFINE x == Marked(y, d)
<1>1. /\ x \in Account /\ x.code = y.code /\ x.nonce = y.nonce /\ x.created = y.created
      /\ x.storage = y.storage /\ y.destroyed \in BOOLEAN
    BY DEF Account, Marked
<1>2. Marked(x, y.destroyed) = y
    BY DEF Account, Marked
<1> HIDE DEF x
<1>3. ASSUME NEW ends PROVE Evolves(y, x, ends)
    BY <1>1, BoundsAssumption DEF Evolves, Clean, Used, Unused, InCreation
<1> QED
    BY <1>1, <1>2, <1>3 DEF x

\* Emptying an account, account by account.
LEMMA EmptiedIs ==
    ASSUME NEW A \in Accounts, NEW a \in Address, NEW target \in Address,
           A[a] # Absent, A[target] # Absent
    PROVE  /\ Emptied(A, a, target) \in Accounts
           /\ A[a].balances[BaseToken] \in Balance
           /\ Emptied(A, a, target)[a] = WithBalance(A[a], BaseToken, 0)
           /\ \A b \in Address :
                 /\ A[b] # Absent => Emptied(A, a, target)[b] # Absent
                 /\ A[b] = Absent => Emptied(A, a, target)[b] = Absent
                 /\ \A ends : Evolves(A[b], Emptied(A, a, target)[b], ends)
<1> DEFINE t == BaseToken
           y == A[a]
           had == y.balances[t]
           x == WithBalance(y, t, 0)
           E == Emptied(A, a, target)
<1>1. y \in Account /\ t \in TokenId
    BY BoundsAssumption DEF Accounts
<1>2. 0 \in Balance
    BY BoundsAssumption DEF Balance
<1>3. had \in Balance /\ x \in Account /\ \A ends : Evolves(y, x, ends)
    BY <1>1, <1>2, BalanceBack
<1>4. \A z, ends : Evolves(z, z, ends)
    BY DEF Evolves
<1>5. CASE a = target
  <2>1. E = [A EXCEPT ![a] = x]
    BY <1>5 DEF Emptied
  <2> HIDE DEF x, E
  <2>2. E \in Accounts /\ E[a] = x /\ \A b \in Address : b # a => E[b] = A[b]
    BY <1>3, <2>1 DEF Accounts
  <2>3. x # Absent
    BY <1>3, BoundsAssumption
  <2> QED
    BY <1>3, <1>4, <2>2, <2>3 DEF E, x
<1>6. CASE a # target
  <2>1. E = Moved(A, a, target, t, had)
    BY <1>6 DEF Emptied
  <2> HIDE DEF E
  <2>2. /\ E \in Accounts
        /\ \A b \in Address : /\ A[b] # Absent => E[b] # Absent
                              /\ A[b] = Absent => E[b] = Absent
                              /\ \A ends : Evolves(A[b], E[b], ends)
    <3> DEFINE M == Moved(A, a, target, t, had)
    <3>1. t \in TokenId /\ had \in Balance
      BY <1>1, <1>3
    <3> HIDE DEF had, t
    <3>2. /\ M \in Accounts
          /\ \A b \in Address : /\ A[b] # Absent => M[b] # Absent
                                /\ A[b] = Absent => M[b] = Absent
                                /\ \A ends : Evolves(A[b], M[b], ends)
      BY <3>1, MovedIs
    <3> QED
      BY <2>1, <3>2
  <2>3. E[a] = WithBalance(y, t, WrappingSub(had, had))
    BY <1>6, <2>1 DEF Moved, Accounts
  <2>4. WrappingSub(had, had) = 0
    BY <1>3, Wrapping
  <2> QED
    BY <1>3, <2>2, <2>3, <2>4 DEF E
<1> QED
    BY <1>5, <1>6

\* A self-destruction and its AccountDestroyed.
LEMMA GrowsDestroyed ==
    ASSUME NEW j, Sound(j), NEW a \in Address, NEW target \in Address,
           Loaded(j, a), Loaded(j, target), NEW m \in World,
           m.accounts = [Emptied(j.accounts, a, target) EXCEPT
                            ![a] = Marked(Emptied(j.accounts, a, target)[a], TRUE)],
           m.transient_storage = j.transient_storage,
           m.journal = j.journal, m.touched = j.touched
    PROVE  Grows(j, Push(m, AccountDestroyed(a, target, j.accounts[a].destroyed,
                                             j.accounts[a].balances[BaseToken])), {})
<1> DEFINE A == j.accounts
           t == BaseToken
           y == A[a]
           had == y.balances[t]
           was == y.destroyed
           E == Emptied(A, a, target)
           x == E[a]
           D == m.accounts
           e == AccountDestroyed(a, target, was, had)
<1>1. /\ j \in World /\ Len(j.journal) # 0 /\ A \in Accounts
      /\ A[a] # Absent /\ A[target] # Absent /\ y \in Account /\ A[target] \in Account
      /\ \A b \in j.touched : b \in Address /\ A[b] # Absent
    BY DEF Sound, World, Loaded, Accounts
<1>2. /\ E \in Accounts /\ had \in Balance
      /\ x = WithBalance(y, t, 0)
      /\ \A b \in Address :
            /\ A[b] # Absent => E[b] # Absent
            /\ A[b] = Absent => E[b] = Absent
            /\ \A ends : Evolves(A[b], E[b], ends)
    BY <1>1, EmptiedIs
<1>3. t \in TokenId /\ 0 \in Balance
    BY BoundsAssumption DEF Balance
<1>4. D = [E EXCEPT ![a] = Marked(x, TRUE)]
    OBVIOUS
<1> HIDE DEF A, E, D
<1>5. /\ x \in Account /\ x.destroyed = was /\ x.balances[t] = 0
      /\ WithBalance(x, t, had) = y
  <2> HIDE DEF y
  <2>1. WithBalance(y, t, 0) \in Account
    BY <1>1, <1>3, BalanceBack
  <2> QED
    BY <1>1, <1>2, <1>3, BalanceBack
<1>6. /\ Marked(x, TRUE) \in Account /\ Marked(Marked(x, TRUE), was) = x /\ was \in BOOLEAN
      /\ \A ends : Evolves(x, Marked(x, TRUE), ends)
  <2> HIDE DEF x
  <2> QED
    BY <1>5, MarkedBack
<1>7. /\ D \in Accounts /\ D[a] = Marked(x, TRUE) /\ [D EXCEPT ![a] = x] = E
      /\ \A b \in Address : b # a => D[b] = E[b]
    BY <1>2, <1>4, <1>6 DEF Accounts
<1>8. e \in JournalEntry /\ e.type \notin {"AccountTouched", "AccountLoaded"}
      /\ Mentions(e) = {a, target}
  <2> HIDE DEF had, was
  <2> QED
    BY <1>2, <1>6 DEF JournalEntry, AccountDestroyed, Mentions
<1>9. UndoAccounts(D, e) = A
  <2> DEFINE restored == IncreaseBalance([D EXCEPT ![a].destroyed = was], a, t, had)
  <2>1. UndoAccounts(D, e) = IF a = target THEN restored ELSE DecreaseBalance(restored, target, t, had)
    BY DEF UndoAccounts, AccountDestroyed
  <2>2. [D EXCEPT ![a].destroyed = was] = E
    <3>1. [D EXCEPT ![a].destroyed = was] = [D EXCEPT ![a] = Marked(D[a], was)]
      BY DEF Marked
    <3> QED
      BY <3>1, <1>6, <1>7
  <2>3. restored = IncreaseBalance(E, a, t, had)
    BY <2>2
  <2> HIDE DEF restored
  <2>4. CASE a = target
    <3>1. E = [A EXCEPT ![a] = x]
      BY <1>2, <2>4 DEF Emptied, E
    <3>2. WrappingAdd(0, had) = had
      BY <1>2, Wrapping
    <3>3. restored = [E EXCEPT ![a] = WithBalance(x, t, WrappingAdd(0, had))]
      BY <1>2, <1>5, <2>3, IncreaseIs
    <3>4. restored = [E EXCEPT ![a] = y]
      BY <3>2, <3>3, <1>5
    <3>5. [E EXCEPT ![a] = y] = A
      BY <1>1, <3>1, ChangedBack
    <3> QED
      BY <2>1, <2>4, <3>4, <3>5
  <2>5. CASE a # target
    <3>1. E = Moved(A, a, target, t, had)
      BY <2>5 DEF Emptied, E
    <3>2. UndoAccounts(E, BalanceTransfer(a, target, t, had)) = A
      BY <1>1, <1>2, <1>3, <3>1, UndoMoved
    <3>3. UndoAccounts(E, BalanceTransfer(a, target, t, had))
             = DecreaseBalance(IncreaseBalance(E, a, t, had), target, t, had)
      BY DEF UndoAccounts, BalanceTransfer
    <3> QED
      BY <2>1, <2>3, <2>5, <3>2, <3>3
  <2> QED
    BY <2>4, <2>5
<1>10. UndoTransient(m.transient_storage, e) = j.transient_storage
    BY DEF UndoTransient, AccountDestroyed
<1>11. UndoEntry(Core(m), e) = Core(j)
    BY <1>9, <1>10 DEF UndoEntry, Core, A, D
<1>12. ASSUME NEW b \in Address
       PROVE  /\ A[b] # Absent => D[b] # Absent
              /\ A[b] = Absent => D[b] = Absent
              /\ Evolves(A[b], D[b], b \in {})
  <2>1. D[a] # Absent
    BY <1>6, <1>7, BoundsAssumption
  <2>2. Evolves(E[b], D[b], b \in {})
    <3>1. CASE b = a
      BY <1>6, <1>7, <3>1
    <3>2. CASE b # a
      BY <1>7, <3>2 DEF Evolves
    <3> QED
      BY <3>1, <3>2
  <2>3. Evolves(A[b], D[b], b \in {})
    BY <1>2, <2>2 DEF Evolves
  <2> QED
    BY <1>1, <1>2, <1>7, <2>1, <2>3
<1>13. \A b \in m.touched : Loaded(m, b)
    BY <1>1, <1>12 DEF Loaded, D
<1> HIDE DEF e
<1>15. /\ \A b \in Mentions(e) : Loaded(m, b)
       /\ \A b \in Address : e = AccountLoaded(b) => ~Loaded(j, b)
       /\ \A b \in Address : Loaded(m, b) => Loaded(j, b)
    BY <1>1, <1>8, <1>12, MentionsLoaded DEF Loaded, A, D
<1>14. Grows(j, Push(m, e), {})
    BY <1>1, <1>8, <1>11, <1>12, <1>13, <1>15, GrowsPush DEF A, D
<1> QED
    BY <1>14 DEF e, A

\* selfdestruct, in each of its three outcomes: the account is destroyed, only
\* its balance leaves (EIP-6780), or nothing happens.
LEMMA GrowsDestroy ==
    ASSUME NEW j, Sound(j), NEW a \in Address, NEW target \in Address, Loaded(j, a),
           db \in Database
    PROVE  Grows(j, Destroy(j, a, target), {})
<1> DEFINE t == BaseToken
           j1 == LoadAccount(j, target)
           balance == j1.accounts[a].balances[t]
           j3 == TouchAccount(j1, target)
           j2 == IF a = target THEN j1
                 ELSE SetBalance(j3, target, t,
                          WrappingAdd(j3.accounts[target].balances[t], balance))
           account == j2.accounts[a]
           emptied == SetBalance(j2, a, t, 0)
           m == [emptied EXCEPT !.accounts[a].destroyed = TRUE]
           k == IF a = target THEN j1 ELSE j3
           A == k.accounts
<1>1. Grows(j, j1, {}) /\ Sound(j1) /\ Loaded(j1, target)
    BY GrowsLoad, GrowsSound
<1>2. Loaded(j1, a)
    BY <1>1 DEF Grows, Evolves, Loaded
<1>3. Destroy(j, a, target) =
         IF account.created \/ ~IsCancun
         THEN Push(m, AccountDestroyed(a, target, account.destroyed, account.balances[t]))
         ELSE IF a # target
         THEN Push(emptied, BalanceTransfer(a, target, t, account.balances[t]))
         ELSE j2
    BY DEF Destroy
<1> HIDE DEF j1
<1>4. Grows(j1, j3, {}) /\ Sound(j3) /\ j3.accounts = j1.accounts
    BY <1>1, GrowsTouch, GrowsSound
<1>5. /\ Grows(j, k, {}) /\ Sound(k) /\ Loaded(k, a) /\ Loaded(k, target)
      /\ A = j1.accounts
    BY <1>1, <1>2, <1>4, GrowsTwice DEF Loaded
<1>6. k \in World /\ A \in Accounts /\ A[a] \in Account /\ A[target] \in Account /\ t \in TokenId
    BY <1>5, BoundsAssumption DEF Sound, World, Accounts, Loaded
<1>7. balance = A[a].balances[t] /\ balance \in Balance /\ 0 \in Balance
      /\ A[target].balances[t] \in Balance
    BY <1>5, <1>6, BalanceBack, BoundsAssumption DEF Balance
<1> HIDE DEF j3, balance
<1>8. /\ j2 \in World /\ j2.journal = k.journal /\ j2.touched = k.touched
      /\ j2.transient_storage = k.transient_storage
      /\ j2.accounts = IF a = target THEN A
                       ELSE [A EXCEPT ![target] = WithBalance(A[target], t,
                                WrappingAdd(A[target].balances[t], balance))]
      /\ Loaded(j2, a)
  <2>1. CASE a = target
    BY <1>5, <1>6, <2>1
  <2>2. CASE a # target
    <3>1. WrappingAdd(A[target].balances[t], balance) \in Balance
      BY <1>7, Wrapping
    <3> QED
      BY <1>5, <1>6, <2>2, <3>1, SetBalanceIs
  <2> QED
    BY <2>1, <2>2
<1>9. j2.accounts[a] = A[a]
    BY <1>6, <1>8 DEF Accounts
<1>10. account = A[a]
    BY <1>9
<1>11. CASE a = target /\ ~(account.created \/ ~IsCancun)
  <2>1. Destroy(j, a, target) = j1
    BY <1>3, <1>11
  <2> QED
    BY <1>1, <2>1
<1> HIDE DEF j2
<1>12. /\ emptied \in World /\ emptied.journal = k.journal /\ emptied.touched = k.touched
       /\ emptied.transient_storage = k.transient_storage
       /\ emptied.accounts = [j2.accounts EXCEPT ![a] = WithBalance(A[a], t, 0)]
    BY <1>6, <1>7, <1>8, <1>9, SetBalanceIs
<1>13. emptied.accounts = Emptied(A, a, target)
  <2>1. CASE a = target
    BY <1>8, <1>12, <2>1 DEF Emptied
  <2>2. CASE a # target
    <3>1. WrappingSub(balance, balance) = 0
      BY <1>7, Wrapping
    <3>2. emptied.accounts
             = [[A EXCEPT ![target] = WithBalance(A[target], t,
                                        WrappingAdd(A[target].balances[t], balance))]
                    EXCEPT ![a] = WithBalance(A[a], t, 0)]
      BY <1>8, <1>12, <2>2
    <3>3. A[a] # Absent /\ A[target] # Absent
      BY <1>5 DEF Loaded
    <3> HIDE DEF A, emptied
    <3>4. emptied.accounts = Moved(A, a, target, t, balance)
      BY <1>6, <1>7, <2>2, <3>1, <3>2, <3>3, MovedInTwo
    <3> QED
      BY <1>7, <2>2, <3>4 DEF Emptied
  <2> QED
    BY <2>1, <2>2
<1> HIDE DEF emptied
<1>14. CASE a # target /\ ~(account.created \/ ~IsCancun)
  <2>1. Destroy(j, a, target) = Push(emptied, BalanceTransfer(a, target, t, balance))
    BY <1>3, <1>7, <1>10, <1>14
  <2>2. emptied.accounts = Moved(A, a, target, t, balance)
    BY <1>7, <1>13, <1>14 DEF Emptied
  <2>3. Grows(k, Push(emptied, BalanceTransfer(a, target, t, balance)), {})
    BY <1>5, <1>6, <1>7, <1>12, <2>2, GrowsMove
  <2> HIDE DEF k
  <2> QED
    BY <1>5, <2>1, <2>3, GrowsTwice
<1>15. CASE account.created \/ ~IsCancun
  <2> DEFINE e == AccountDestroyed(a, target, A[a].destroyed, A[a].balances[t])
             E == Emptied(A, a, target)
             D == [E EXCEPT ![a] = Marked(E[a], TRUE)]
  <2>1. Destroy(j, a, target) = Push(m, e)
    BY <1>3, <1>10, <1>15
  <2>2. m = [emptied EXCEPT !.accounts = D]
    BY <1>13 DEF Marked
  <2>3. D \in Accounts
    <3>1. E \in Accounts /\ E[a] = WithBalance(A[a], t, 0)
      BY <1>5, <1>6, EmptiedIs DEF Loaded
    <3>2. E[a] \in Account
      BY <1>6, <1>7, <3>1, BalanceBack
    <3> HIDE DEF E
    <3>3. Marked(E[a], TRUE) \in Account
      BY <3>2, MarkedBack
    <3> QED
      BY <3>1, <3>3 DEF Accounts
  <2> HIDE DEF D, m
  <2>4. /\ m \in World /\ m.accounts = D /\ m.transient_storage = k.transient_storage
        /\ m.journal = k.journal /\ m.touched = k.touched
    BY <1>12, <2>2, <2>3, WithAccounts
  <2>5. Grows(k, Push(m, e), {})
    BY <1>5, <2>4, GrowsDestroyed DEF D
  <2> HIDE DEF k, e
  <2> QED
    BY <1>5, <2>1, <2>5, GrowsTwice
<1> QED
    BY <1>11, <1>14, <1>15

-----------------------------------------------------------------------------
(* Reverting                                                               *)

\* A part of the first part of a sequence.
LEMMA SubSeqFirst ==
    ASSUME NEW S, NEW q \in Seq(S), NEW n \in 0 .. Len(q), NEW i \in 0 .. n
    PROVE  /\ SubSeq(q, 1, n) \in Seq(S) /\ Len(SubSeq(q, 1, n)) = n
           /\ \A x \in 1 .. n : SubSeq(q, 1, n)[x] = q[x]
           /\ SubSeq(SubSeq(q, 1, n), i + 1, n) = SubSeq(q, i + 1, n)
           /\ SubSeq(q, i + 1, n) \in Seq(S)
           /\ SubSeq(q, i + 1, n) \o SubSeq(q, n + 1, Len(q)) = SubSeq(q, i + 1, Len(q))
           /\ SubSeq(q, n + 1, Len(q)) \in Seq(S)
<1> DEFINE p == SubSeq(q, 1, n)
           r == SubSeq(q, i + 1, n)
           s == SubSeq(p, i + 1, n)
<1>1. Len(q) \in Nat /\ n \in Nat /\ i \in Nat /\ \A x \in 1 .. Len(q) : q[x] \in S
    OBVIOUS
<1>2. p \in Seq(S) /\ Len(p) = n /\ \A x \in 1 .. n : p[x] = q[x] /\ p[x] \in S
  <2>1. \A x \in 1 .. n : q[x] \in S
    BY <1>1
  <2> QED
    BY <1>1, <2>1
<1> HIDE DEF p
<1>3. \A x \in i + 1 .. n : x \in 1 .. n /\ q[x] \in S /\ p[x] \in S /\ q[x] = p[x]
    BY <1>1, <1>2
<1>4. /\ r \in Seq(S) /\ Len(r) = IF i + 1 <= n THEN n - (i + 1) + 1 ELSE 0
      /\ \A x \in 1 .. n - (i + 1) + 1 : r[x] = q[i + 1 + x - 1]
    BY <1>1, <1>3, SubSeqProperties
<1>5. /\ s \in Seq(S) /\ Len(s) = IF i + 1 <= n THEN n - (i + 1) + 1 ELSE 0
      /\ \A x \in 1 .. n - (i + 1) + 1 : s[x] = p[i + 1 + x - 1]
    BY <1>1, <1>3, SubSeqProperties
<1>6. \A x \in 1 .. Len(s) : x \in 1 .. n - (i + 1) + 1 /\ i + 1 + x - 1 \in i + 1 .. n
    BY <1>1, <1>5
<1> HIDE DEF r, s
<1>7. s = r
    BY <1>3, <1>4, <1>5, <1>6, SeqEqual
<1> DEFINE l == Len(q)
           u == SubSeq(q, n + 1, l)
           z == SubSeq(q, i + 1, l)
           w == r \o u
<1>8. /\ u \in Seq(S) /\ Len(u) = l - n /\ \A x \in 1 .. l - n : u[x] = q[n + x]
      /\ z \in Seq(S) /\ Len(z) = l - i /\ \A x \in 1 .. l - i : z[x] = q[i + x]
  <2>1. ASSUME NEW y \in 0 .. l
        PROVE  /\ SubSeq(q, y + 1, l) \in Seq(S) /\ Len(SubSeq(q, y + 1, l)) = l - y
               /\ \A x \in 1 .. l - y : SubSeq(q, y + 1, l)[x] = q[y + x]
    <3>1. \A x \in y + 1 .. l : q[x] \in S
      BY <1>1
    <3>2. /\ SubSeq(q, y + 1, l) \in Seq(S)
          /\ Len(SubSeq(q, y + 1, l)) = IF y + 1 <= l THEN l - (y + 1) + 1 ELSE 0
          /\ \A x \in 1 .. l - (y + 1) + 1 : SubSeq(q, y + 1, l)[x] = q[y + 1 + x - 1]
      BY <1>1, <3>1, SubSeqProperties
    <3> QED
      BY <1>1, <3>2
  <2>2. n \in 0 .. l /\ i \in 0 .. l
    BY <1>1
  <2> HIDE DEF l
  <2> QED
    BY <2>1, <2>2
<1> HIDE DEF u, z, l
<1>9. /\ l \in Nat /\ n <= l /\ i <= n /\ Len(r) = n - i
      /\ \A x \in 1 .. n - i : r[x] = q[i + x]
    BY <1>1, <1>4 DEF l
<1>10. /\ w \in Seq(S) /\ Len(w) = (n - i) + (l - n)
       /\ \A x \in 1 .. (n - i) + (l - n) : w[x] = IF x <= n - i THEN r[x] ELSE u[x - (n - i)]
  <2>1. r \in Seq(S) /\ u \in Seq(S)
    BY <1>4, <1>8
  <2>2. /\ w \in Seq(S) /\ Len(w) = Len(r) + Len(u)
        /\ \A x \in 1 .. Len(r) + Len(u) : w[x] = IF x <= Len(r) THEN r[x] ELSE u[x - Len(r)]
    BY <2>1, ConcatProperties, Zenon
  <2> HIDE DEF w
  <2> QED
    BY <2>2, <1>8, <1>9
<1> HIDE DEF w
<1>11. ASSUME NEW x \in 1 .. l - i PROVE w[x] = z[x]
  <2>1. x \in 1 .. (n - i) + (l - n)
    BY <1>1, <1>9
  <2>2. CASE x <= n - i
    <3>1. x \in 1 .. n - i
      BY <1>1, <1>9, <2>2
    <3>2. w[x] = r[x]
      BY <1>10, <2>1, <2>2
    <3> QED
      BY <1>8, <1>9, <3>1, <3>2
  <2>3. CASE ~(x <= n - i)
    <3>1. x - (n - i) \in 1 .. l - n /\ n + (x - (n - i)) = i + x
      BY <1>1, <1>9, <2>3
    <3> QED
      BY <1>8, <1>10, <2>1, <2>3, <3>1
  <2> QED
    BY <2>2, <2>3
<1>12. w = z
  <2>1. Len(w) = Len(z) /\ Len(w) = l - i
    BY <1>1, <1>8, <1>9, <1>10
  <2> QED
    BY <1>8, <1>10, <1>11, <2>1, SeqEqual
<1> QED
    BY <1>2, <1>4, <1>7, <1>8, <1>12 DEF p, r, s, l, u, z, w

\* What checkpoint_revert leaves to be undone is the past it had.
LEMMA PastRevert ==
    ASSUME NEW j \in World, NEW n \in 0 .. Len(j.journal), Unwound(j, n) \in CoreType,
           NEW i \in 0 .. n
    PROVE  /\ Core(RevertTo(j, n)) = Unwound(j, n)
           /\ Unwound(RevertTo(j, n), i) = Unwound(j, i)
           /\ RevertTo(j, n).journal = SubSeq(j.journal, 1, n)
           /\ Len(RevertTo(j, n).journal) = n
<1> DEFINE q == j.journal
           k == RevertTo(j, n)
           tail == SubSeq(q, n + 1, Len(q))
           r == SubSeq(q, i + 1, n)
<1>1. k.journal = SubSeq(q, 1, n) /\ Core(k) = Unwound(j, n)
  <2>1. /\ k.journal = SubSeq(q, 1, n) /\ k.accounts = Unwound(j, n).accounts
        /\ k.transient_storage = Unwound(j, n).transient_storage
    BY DEF RevertTo
  <2> HIDE DEF k
  <2> QED
    BY <2>1 DEF Core, CoreType
<1>2. q \in Seq(Vector)
    BY DEF World, Vector
<1> HIDE DEF q
<1>3. /\ n \in 0 .. Len(q) /\ Len(SubSeq(q, 1, n)) = n
      /\ SubSeq(SubSeq(q, 1, n), i + 1, n) = r
      /\ r \in Seq(Vector) /\ tail \in Seq(Vector)
      /\ r \o tail = SubSeq(q, i + 1, Len(q))
    BY ZenonT(40), <1>2, SubSeqFirst DEF q
<1> HIDE DEF r, tail, k
<1>4. Vectors!Unwind(Core(j), r \o tail) = Vectors!Unwind(Vectors!Unwind(Core(j), tail), r)
  <2> DEFINE c == Core(j)
  <2>1. r \in Seq(Vector) /\ tail \in Seq(Vector)
    BY <1>3
  <2> HIDE DEF c
  <2>2. Vectors!Unwind(c, r \o tail) = Vectors!Unwind(Vectors!Unwind(c, tail), r)
    BY <2>1, Vectors!UnwindConcat, Zenon
  <2> QED
    BY <2>2 DEF c
<1>5. Unwound(j, i) = Vectors!Unwind(Core(j), r \o tail)
    BY <1>3 DEF Unwound, q
<1>6. Unwound(j, n) = Vectors!Unwind(Core(j), tail)
    BY DEF Unwound, q, tail
<1>7. Unwound(k, i) = Vectors!Unwind(Unwound(j, n), r)
    BY <1>1, <1>3 DEF Unwound
<1> QED
    BY <1>1, <1>3, <1>4, <1>5, <1>6, <1>7 DEF q, k

\* The entries after i are those up to n and those after n.
LEMMA EntriesSplit ==
    ASSUME NEW j \in World, NEW n \in 0 .. Len(j.journal), NEW i \in 0 .. n,
           NEW k, k.journal = SubSeq(j.journal, 1, n)
    PROVE  EntriesAfter(j, i) = EntriesAfter(k, i) \cup EntriesAfter(j, n)
<1> DEFINE q == j.journal
           r == k.journal
           Q(v) == {q[v][x] : x \in DOMAIN q[v]}
           R(v) == {r[v][x] : x \in DOMAIN r[v]}
<1>1. q \in Seq(Vector) /\ Len(q) \in Nat /\ n \in Nat /\ i \in Nat /\ n <= Len(q) /\ i <= n
    BY DEF World, Vector
<1>2. Len(r) = n /\ \A v \in 1 .. n : r[v] = q[v]
    BY <1>1, SubSeqFirst
<1>3. \A v \in i + 1 .. n : R(v) = Q(v) /\ v \in i + 1 .. Len(q)
  <2>1. \A v \in i + 1 .. n : v \in 1 .. n /\ v \in i + 1 .. Len(q)
    BY <1>1
  <2> QED
    BY <1>2, <2>1
<1>4. \A v \in n + 1 .. Len(q) : v \in i + 1 .. Len(q)
    BY <1>1
<1>5. \A v \in i + 1 .. Len(q) : v \in i + 1 .. n \/ v \in n + 1 .. Len(q)
    BY <1>1
<1> HIDE DEF r, q, Q, R
<1>6. UNION {Q(v) : v \in i + 1 .. Len(q)}
         = (UNION {R(v) : v \in i + 1 .. n}) \cup (UNION {Q(v) : v \in n + 1 .. Len(q)})
    BY <1>3, <1>4, <1>5
<1> QED
    BY <1>2, <1>6 DEF EntriesAfter, r, q, Q, R

\* The entries undone are journal entries, and what they insert are token ids.
LEMMA KeysTyped ==
    ASSUME NEW j \in World, NEW i \in 0 .. Len(j.journal), NEW a
    PROVE  \A e \in EntriesAfter(j, i) : e \in JournalEntry /\ KeysInserted(e, a) \subseteq TokenId
<1>1. ASSUME NEW e \in EntriesAfter(j, i) PROVE e \in JournalEntry
  <2>1. j.journal \in Seq(Vector) /\ Len(j.journal) \in Nat
    BY DEF World, Vector
  <2>2. PICK v \in i + 1 .. Len(j.journal) : \E x \in DOMAIN j.journal[v] : e = j.journal[v][x]
    BY DEF EntriesAfter
  <2>3. v \in 1 .. Len(j.journal)
    BY <2>1
  <2>4. j.journal[v] \in Seq(JournalEntry)
    BY <2>1, <2>3 DEF Vector
  <2> QED
    BY <2>2, <2>4
<1>2. ASSUME NEW e \in JournalEntry PROVE KeysInserted(e, a) \subseteq TokenId
  <2>1. e.type \in {"BalanceTransfer", "TokensBurned", "TokensMinted"} => e.token_id \in TokenId
    BY DEF JournalEntry, TokenIdsLoaded
  <2>2. KeysInserted(e, a) \in {{}, {BaseToken}}
        \/ (/\ e.type \in {"BalanceTransfer", "TokensBurned", "TokensMinted"}
            /\ KeysInserted(e, a) \subseteq {e.token_id})
    BY DEF KeysInserted
  <2> QED
    BY <2>1, <2>2, BoundsAssumption
<1> QED
    BY <1>1, <1>2

\* checkpoint_revert leaves a state of the right type.
LEMMA RevertWorld ==
    ASSUME NEW j \in World, NEW n \in 0 .. Len(j.journal), Unwound(j, n) \in CoreType
    PROVE  /\ RevertTo(j, n) \in World
           /\ \A a \in RevertTo(j, n).touched : Loaded(RevertTo(j, n), a)
<1> DEFINE k == RevertTo(j, n)
           core == Unwound(j, n)
           undone == EntriesAfter(j, n)
           keys == [a \in Address |->
                      IF core.accounts[a] = Absent THEN {}
                      ELSE j.balance_keys[a] \cup UNION {KeysInserted(e, a) : e \in undone}]
           ids == IF TokenIdsLoaded \in undone THEN << >> ELSE j.token_ids
           touched == {a \in UnwoundTouched(j, n) : core.accounts[a] # Absent}
           q == SubSeq(j.journal, 1, n)
<1>1. k = [accounts |-> core.accounts, transient_storage |-> core.transient_storage,
           touched |-> touched, balance_keys |-> keys, token_ids |-> ids, journal |-> q]
    BY DEF RevertTo
<1>2. core.accounts \in Accounts /\ core.transient_storage \in [Address \X Slot -> Word]
    BY DEF CoreType
<1>3. keys \in [Address -> SUBSET TokenId]
  <2>1. j.balance_keys \in [Address -> SUBSET TokenId]
    BY DEF World
  <2>2. ASSUME NEW a \in Address PROVE UNION {KeysInserted(e, a) : e \in undone} \subseteq TokenId
    BY KeysTyped
  <2> HIDE DEF undone, core
  <2> QED
    BY <2>1, <2>2
<1>4. ids \in Seq(TokenId)
    BY DEF World
<1>5. touched \in SUBSET Address
    BY DEF World, UnwoundTouched
<1>6. q \in Seq(Seq(JournalEntry))
  <2>1. j.journal \in Seq(Vector)
    BY DEF World, Vector
  <2>2. 0 \in 0 .. n
    OBVIOUS
  <2> QED
    BY <2>1, <2>2, SubSeqFirst DEF Vector
<1> HIDE DEF keys, ids, q, touched, k
<1>7. k \in World /\ k.touched = touched /\ k.accounts = core.accounts
    BY <1>1, <1>2, <1>3, <1>4, <1>5, <1>6 DEF World
<1>8. \A a \in touched : core.accounts[a] # Absent
    BY DEF touched
<1> QED
    BY <1>7, <1>8 DEF Loaded, k

-----------------------------------------------------------------------------
(* What the open checkpoints remember                                      *)

\* SavedAt and Current for any state and logs.
SavedOf(j, lg, i, n) ==
    LET core == Unwound(j, i)
    IN  [accounts |-> core.accounts,
         transient_storage |-> core.transient_storage,
         touched |-> {a \in UnwoundTouched(j, i) : core.accounts[a] # Absent} \ {Precompile3},
         logs |-> SubSeq(lg, 1, n)]

CurrentOf(j, lg) ==
    [accounts |-> j.accounts, transient_storage |-> j.transient_storage,
     touched |-> j.touched \ {Precompile3}, logs |-> lg]

\* Later vectors load more accounts.
Loading(j) ==
    \A i, l \in 0 .. Len(j.journal) : i <= l =>
        \A a \in Address :
            Unwound(j, i).accounts[a] # Absent => Unwound(j, l).accounts[a] # Absent

\* Journaled changes leave what checkpoints remember alone.
LEMMA SavedGrows ==
    ASSUME NEW j, NEW k, NEW X, Grows(j, k, X), NEW i \in 0 .. Len(j.journal) - 1,
           NEW lg, NEW n
    PROVE  SavedOf(k, lg, i, n) = SavedOf(j, lg, i, n)
<1>1. /\ Unwound(k, i) = Unwound(j, i)
      /\ UnwoundTouched(k, i) \ {Precompile3} = UnwoundTouched(j, i) \ {Precompile3}
    BY DEF Grows
<1> DEFINE core == Unwound(j, i)
<1>2. {a \in UnwoundTouched(k, i) : core.accounts[a] # Absent} \ {Precompile3}
         = {a \in UnwoundTouched(j, i) : core.accounts[a] # Absent} \ {Precompile3}
    BY <1>1
<1> QED
    BY <1>1, <1>2 DEF SavedOf

\* A new vector leaves what checkpoints remember alone, and its checkpoint
\* remembers the present.
LEMMA SavedOpen ==
    ASSUME NEW j, Sound(j), NEW i \in 0 .. Len(j.journal), NEW lg, NEW n
    PROVE  /\ SavedOf(OpenVector(j), lg, i, n) = SavedOf(j, lg, i, n)
           /\ lg \in Seq(Address) /\ n = Len(lg) /\ i = Len(j.journal)
                 => SavedOf(OpenVector(j), lg, i, n) = CurrentOf(j, lg)
<1> DEFINE k == OpenVector(j)
           q == j.journal
           r == k.journal
<1>1. j \in World /\ q \in Seq(Vector) /\ Len(q) \in Nat
    BY DEF Sound, World, Vector
<1>2. Unwound(k, i) = Unwound(j, i)
    BY <1>1, PastOpened
<1>3. k.touched = j.touched /\ r = Append(q, << >>)
    BY <1>1 DEF OpenVector, World
<1>4. EntriesAfter(k, i) = EntriesAfter(j, i)
  <2> DEFINE Q(v) == {q[v][x] : x \in DOMAIN q[v]}
             R(v) == {r[v][x] : x \in DOMAIN r[v]}
  <2>1. /\ Len(r) = Len(q) + 1 /\ r[Len(q) + 1] = << >>
        /\ \A v \in 1 .. Len(q) : r[v] = q[v]
    BY <1>1, <1>3
  <2>2. R(Len(q) + 1) = {}
    BY <2>1
  <2>3. \A v \in i + 1 .. Len(q) : R(v) = Q(v) /\ v \in i + 1 .. Len(q) + 1
    <3>1. \A v \in i + 1 .. Len(q) : v \in 1 .. Len(q) /\ v \in i + 1 .. Len(q) + 1
      BY <1>1
    <3> QED
      BY <2>1, <3>1
  <2>4. \A v \in i + 1 .. Len(q) + 1 : v \in i + 1 .. Len(q) \/ v = Len(q) + 1
    BY <1>1
  <2> HIDE DEF R, Q, r, q, k
  <2>5. UNION {R(v) : v \in i + 1 .. Len(q) + 1} = UNION {Q(v) : v \in i + 1 .. Len(q)}
    BY <2>2, <2>3, <2>4
  <2> QED
    BY <2>1, <2>5 DEF EntriesAfter, R, Q, r, q
<1>5. UnwoundTouched(k, i) = UnwoundTouched(j, i)
    BY <1>3, <1>4 DEF UnwoundTouched
<1>6. SavedOf(k, lg, i, n) = SavedOf(j, lg, i, n)
    BY <1>2, <1>5 DEF SavedOf
<1>7. ASSUME lg \in Seq(Address), n = Len(lg), i = Len(q)
      PROVE  SavedOf(j, lg, i, n) = CurrentOf(j, lg)
  <2>1. Unwound(j, i) = Core(j)
    BY <1>1, <1>7, PastPresent
  <2>2. EntriesAfter(j, i) = {}
    <3>1. i + 1 .. Len(q) = {}
      BY <1>1, <1>7
    <3> QED
      BY <3>1 DEF EntriesAfter
  <2>3. UnwoundTouched(j, i) = j.touched
    BY <2>2 DEF UnwoundTouched
  <2>4. Unwound(j, i).accounts = j.accounts
        /\ Unwound(j, i).transient_storage = j.transient_storage
    BY <2>1 DEF Core
  <2>5. {a \in UnwoundTouched(j, i) : Unwound(j, i).accounts[a] # Absent} = j.touched
    BY <2>3, <2>4 DEF Sound, Loaded
  <2>6. SubSeq(lg, 1, n) = lg
    BY <1>7
  <2> QED
    BY <2>4, <2>5, <2>6 DEF SavedOf, CurrentOf
<1> QED
    BY <1>6, <1>7

\* checkpoint_revert brings back what its checkpoint remembers, and the older
\* checkpoints still remember the same.
LEMMA SavedRevert ==
    ASSUME NEW j, Sound(j), Loading(j), NEW n \in 0 .. Len(j.journal),
           Unwound(j, n) \in CoreType, NEW lg, NEW m
    PROVE  /\ CurrentOf(RevertTo(j, n), SubSeq(lg, 1, m)) = SavedOf(j, lg, n, m)
           /\ \A i \in 0 .. n : \A lg2, m2 :
                 SavedOf(RevertTo(j, n), lg2, i, m2) = SavedOf(j, lg2, i, m2)
<1> DEFINE k == RevertTo(j, n)
<1>1. j \in World
    BY DEF Sound
<1>2. /\ k.accounts = Unwound(j, n).accounts
      /\ k.transient_storage = Unwound(j, n).transient_storage
      /\ k.touched = {a \in UnwoundTouched(j, n) : Unwound(j, n).accounts[a] # Absent}
      /\ k.journal = SubSeq(j.journal, 1, n)
    BY DEF RevertTo
<1> HIDE DEF k
<1>3. CurrentOf(k, SubSeq(lg, 1, m)) = SavedOf(j, lg, n, m)
    BY <1>2 DEF CurrentOf, SavedOf
<1>4. ASSUME NEW i \in 0 .. n, NEW lg2, NEW m2
      PROVE  SavedOf(k, lg2, i, m2) = SavedOf(j, lg2, i, m2)
  <2> DEFINE core == Unwound(j, i)
  <2>1. Unwound(k, i) = core
    BY <1>1, PastRevert DEF k
  <2>2. EntriesAfter(j, i) = EntriesAfter(k, i) \cup EntriesAfter(j, n)
    BY <1>1, <1>2, EntriesSplit
  <2>3. \A a \in Address : core.accounts[a] # Absent => Unwound(j, n).accounts[a] # Absent
    <3>1. i \in 0 .. Len(j.journal) /\ i <= n
      BY <1>1 DEF World
    <3> QED
      BY <3>1 DEF Loading
  <2>4. j.touched \subseteq Address
    BY <1>1 DEF World
  <2> HIDE DEF core
  <2>5. {a \in UnwoundTouched(k, i) : core.accounts[a] # Absent}
           = {a \in UnwoundTouched(j, i) : core.accounts[a] # Absent}
    BY <1>2, <2>2, <2>3, <2>4 DEF UnwoundTouched
  <2> QED
    BY <2>1, <2>5 DEF SavedOf, core
<1> QED
    BY <1>3, <1>4 DEF k

-----------------------------------------------------------------------------
(* The invariant                                                           *)

\* The account still is what the database says it is, but for its slots.
Pristine(x, a) == x # Absent => x.code = db.basic[a].code /\ x.nonce = db.basic[a].nonce

\* The accounts that the first i vectors mention are there once the others
\* are undone.
Mentioned(j) ==
    \A i \in 0 .. Len(j.journal) : \A v \in 1 .. i : \A n \in DOMAIN j.journal[v] :
        \A a \in Mentions(j.journal[v][n]) : Unwound(j, i).accounts[a] # Absent

\* An account that is there with l vectors and not with i was loaded between.
Arrived(j) ==
    \A l \in 0 .. Len(j.journal) : \A i \in 0 .. l : \A a \in Address :
        Unwound(j, l).accounts[a] # Absent /\ Unwound(j, i).accounts[a] = Absent =>
            \E v \in i + 1 .. l : Loads(j.journal[v], a)

\* Whatever vectors are undone, the result is a world of the right type in
\* which the account a creation may choose is clean, and the further back,
\* the fewer accounts are loaded, but always those that the entries left
\* mention, and the loading of the others is in the journal.
History(j) ==
    /\ Sound(j)
    /\ Loading(j)
    /\ \A i \in 0 .. Len(j.journal) :
          /\ Unwound(j, i) \in CoreType
          /\ \A a \in Address : Clean(Unwound(j, i).accounts[a])
    /\ \A a \in Address : Pristine(Unwound(j, 0).accounts[a], a)
    /\ Unwrappable(j)
    /\ Mentioned(j)
    /\ Arrived(j)

\* The account a frame creates is in creation since the frame was opened,
\* also at the checkpoints of the frames inside it, and is not created twice.
Creations(j, fs) ==
    /\ \A k \in DOMAIN fs : fs[k].creates # NoAddress =>
          \A i \in fs[k].journal_i + 1 .. Len(j.journal) :
              InCreation(Unwound(j, i).accounts[fs[k].creates])
    /\ \A k, l \in DOMAIN fs :
          k # l /\ fs[k].creates # NoAddress => fs[k].creates # fs[l].creates

\* The entries left mention accounts that are there: after changes,
LEMMA MentionedGrows ==
    ASSUME NEW j \in World, NEW k, NEW X, Len(j.journal) # 0, Grows(j, k, X),
           Unwrappable(j), Mentioned(j)
    PROVE  Unwrappable(k) /\ Mentioned(k)
<1> DEFINE n == Len(j.journal)
<1>1. /\ k \in World /\ Len(k.journal) = n /\ n \in Nat \ {0} /\ Unwrappable(k)
      /\ \A i \in 0 .. n - 1 : Unwound(k, i) = Unwound(j, i)
      /\ \A v \in 1 .. n - 1 : k.journal[v] = j.journal[v]
    BY DEF Grows, World
<1>2. Unwound(k, n).accounts = k.accounts /\ DOMAIN k.journal = 1 .. n
  <2>1. k.journal \in Seq(Vector)
    BY <1>1 DEF World, Vector
  <2>2. Unwound(k, n) = Core(k)
    BY <1>1, <2>1, PastPresent
  <2> QED
    BY <1>1, <2>1, <2>2 DEF Core
<1> HIDE DEF n
<1>3. ASSUME NEW i \in 0 .. n, NEW v \in 1 .. i, NEW x \in DOMAIN k.journal[v],
             NEW a \in Mentions(k.journal[v][x])
      PROVE  Unwound(k, i).accounts[a] # Absent
  <2>1. CASE i = n
    BY <1>1, <1>2, <2>1 DEF Unwrappable, Loaded
  <2>2. CASE i # n
    <3>1. i \in 0 .. n - 1 /\ v \in 1 .. n - 1
      BY <1>1, <2>2
    <3> QED
      BY <1>1, <3>1 DEF Mentioned, n
  <2> QED
    BY <2>1, <2>2
<1> QED
    BY <1>1, <1>3 DEF Mentioned

\* after checkpoint,
LEMMA MentionedOpen ==
    ASSUME NEW j \in World, Unwrappable(j), Mentioned(j)
    PROVE  Unwrappable(OpenVector(j)) /\ Mentioned(OpenVector(j))
<1> DEFINE n == Len(j.journal)
           k == OpenVector(j)
           r == k.journal
           q == j.journal
<1>1. q \in Seq(Vector) /\ n \in Nat
    BY DEF World, Vector
<1>2. /\ r = Append(q, << >>) /\ k.accounts = j.accounts /\ Core(k) = Core(j)
    BY DEF OpenVector, World, Core
<1>3. /\ Len(r) = n + 1 /\ DOMAIN r = 1 .. n + 1 /\ DOMAIN q = 1 .. n
      /\ r[n + 1] = << >> /\ \A v \in 1 .. n : r[v] = q[v]
    BY <1>1, <1>2 DEF Vector
<1>4. /\ \A i \in 0 .. n : Unwound(k, i) = Unwound(j, i)
      /\ Unwound(k, n + 1) = Unwound(j, n)
  <2>1. r \in Seq(Vector)
    BY <1>1, <1>2 DEF Vector
  <2> QED
    BY <1>1, <1>2, <1>3, <2>1, PastOpened, PastPresent
<1> HIDE DEF n, k
<1>5. ASSUME NEW v \in 1 .. n + 1, NEW x \in DOMAIN r[v]
      PROVE  v \in 1 .. n /\ r[v] = q[v]
    BY <1>1, <1>3
<1>6. Unwrappable(k)
  <2> SUFFICES ASSUME NEW v \in 1 .. n + 1, NEW x \in DOMAIN r[v]
               PROVE  /\ \A a \in Mentions(r[v][x]) : Loaded(k, a)
                      /\ \A w \in v .. n + 1 : \A y \in DOMAIN r[w] :
                            (w > v \/ y > x) =>
                               \A a \in Mentions(r[v][x]) : r[w][y] # AccountLoaded(a)
    BY <1>3 DEF Unwrappable
  <2>1. v \in 1 .. n /\ r[v] = q[v]
    BY <1>5
  <2>2. \A w \in v .. n + 1 : w \in 1 .. n + 1 /\ (w \in 1 .. n => w \in v .. n)
    BY <1>1, <2>1
  <2> HIDE DEF r, q
  <2> QED
    BY SMTT(40), <1>2, <1>3, <1>5, <2>1, <2>2 DEF Unwrappable, Loaded, n, q
<1>7. Mentioned(k)
  <2> SUFFICES ASSUME NEW i \in 0 .. n + 1, NEW v \in 1 .. i, NEW x \in DOMAIN r[v],
                      NEW a \in Mentions(r[v][x])
               PROVE  Unwound(k, i).accounts[a] # Absent
    BY <1>3 DEF Mentioned
  <2>1. v \in 1 .. n /\ r[v] = q[v]
    BY <1>1, <1>5
  <2>2. CASE i \in 0 .. n
    BY <1>4, <2>1, <2>2 DEF Mentioned, n
  <2>3. CASE i = n + 1
    <3>1. n \in 0 .. n
      BY <1>1
    <3> QED
      BY <1>4, <2>1, <2>3, <3>1 DEF Mentioned, n
  <2> QED
    BY <1>1, <2>2, <2>3
<1> QED
    BY <1>6, <1>7 DEF k

\* and after checkpoint_revert, which undoes every later entry but none of
\* those that are left.
LEMMA MentionedRevert ==
    ASSUME NEW j \in World, NEW n \in 1 .. Len(j.journal), Unwound(j, n) \in CoreType,
           Unwrappable(j), Mentioned(j)
    PROVE  Unwrappable(RevertTo(j, n)) /\ Mentioned(RevertTo(j, n))
<1> DEFINE k == RevertTo(j, n)
           r == k.journal
           q == j.journal
<1>1. q \in Seq(Vector) /\ Len(q) \in Nat /\ n \in Nat /\ n <= Len(q) /\ n \in 0 .. n
    BY DEF World, Vector
<1>2. /\ r = SubSeq(q, 1, n) /\ Len(r) = n /\ Core(k) = Unwound(j, n)
      /\ \A i \in 0 .. n : Unwound(k, i) = Unwound(j, i)
    BY <1>1, PastRevert
<1> HIDE DEF k
<1>3. \A v \in 1 .. n : r[v] = q[v]
  <2>1. 0 \in 0 .. n /\ n \in 0 .. Len(q)
    BY <1>1
  <2> HIDE DEF r, q
  <2>2. \A v \in 1 .. n : SubSeq(q, 1, n)[v] = q[v]
    BY <1>1, <2>1, SubSeqFirst
  <2> QED
    BY <1>2, <2>2
<1>4. DOMAIN r = 1 .. n /\ DOMAIN q = 1 .. Len(q) /\ k.accounts = Unwound(j, n).accounts
    BY <1>1, <1>2 DEF Core
<1>5. \A i \in 0 .. n : i \in 0 .. Len(q) /\ \A v \in 1 .. i : v \in 1 .. n
    BY <1>1
<1>6. Mentioned(k)
    BY <1>2, <1>3, <1>5 DEF Mentioned
<1>7. Unwrappable(k)
  <2> SUFFICES ASSUME NEW v \in 1 .. n, NEW x \in DOMAIN r[v]
               PROVE  /\ \A a \in Mentions(r[v][x]) : Loaded(k, a)
                      /\ \A w \in v .. n : \A y \in DOMAIN r[w] :
                            (w > v \/ y > x) =>
                               \A a \in Mentions(r[v][x]) : r[w][y] # AccountLoaded(a)
    BY <1>2, <1>4 DEF Unwrappable
  <2>1. r[v] = q[v] /\ v \in 1 .. Len(q)
    BY <1>1, <1>3
  <2>2. \A w \in v .. n : w \in v .. Len(q) /\ r[w] = q[w]
    BY <1>1, <1>3
  <2>3. \A a \in Mentions(r[v][x]) : Loaded(k, a)
    BY <1>1, <1>4, <2>1 DEF Mentioned, Loaded
  <2> HIDE DEF r
  <2> QED
    BY <1>4, <2>1, <2>2, <2>3 DEF Unwrappable
<1> QED
    BY <1>6, <1>7 DEF k

\* Every account loaded between two checkpoints is named by an AccountLoaded
\* between them: after changes,
LEMMA ArrivedGrows ==
    ASSUME NEW j \in World, NEW k, NEW X, Len(j.journal) # 0, Grows(j, k, X), Arrived(j)
    PROVE  Arrived(k)
<1> DEFINE n == Len(j.journal)
<1>1. /\ k \in World /\ Len(k.journal) = n /\ n \in Nat \ {0} /\ Arrives(j, k)
      /\ \A i \in 0 .. n - 1 : Unwound(k, i) = Unwound(j, i)
      /\ \A v \in 1 .. n - 1 : k.journal[v] = j.journal[v]
    BY DEF Grows, World
<1>2. Unwound(k, n).accounts = k.accounts /\ Unwound(j, n).accounts = j.accounts
  <2>1. k.journal \in Seq(Vector) /\ j.journal \in Seq(Vector)
    BY <1>1 DEF World, Vector
  <2>2. Unwound(k, n) = Core(k) /\ Unwound(j, n) = Core(j)
    BY <1>1, <2>1, PastPresent
  <2> QED
    BY <2>2 DEF Core
<1>3. \A b : Loads(j.journal[n], b) => Loads(k.journal[n], b)
    BY <1>1 DEF Arrives, Loads
<1>4. \A b \in Address : Loaded(k, b) /\ ~Loaded(j, b) => Loads(k.journal[n], b)
    BY <1>1 DEF Arrives, Loads
<1> HIDE DEF n
<1>5. ASSUME NEW l \in 0 .. n, NEW i \in 0 .. l, NEW a \in Address,
             Unwound(k, l).accounts[a] # Absent, Unwound(k, i).accounts[a] = Absent
      PROVE  \E v \in i + 1 .. l : Loads(k.journal[v], a)
  <2>1. i # l /\ i \in 0 .. n - 1 /\ i \in Nat /\ l \in Nat /\ i < l
    BY <1>1, <1>5
  <2>2. Unwound(j, i).accounts[a] = Absent
    BY <1>1, <1>5, <2>1
  <2>3. CASE l # n
    <3>1. l \in 0 .. n - 1 /\ \A v \in i + 1 .. l : v \in 1 .. n - 1
      BY <1>1, <2>1, <2>3
    <3>2. \E v \in i + 1 .. l : Loads(j.journal[v], a)
      BY <1>1, <1>5, <2>2, <3>1 DEF Arrived, n
    <3> QED
      BY <1>1, <3>1, <3>2
  <2>4. CASE l = n
    <3>1. n \in i + 1 .. n
      BY <1>1, <2>1, <2>4
    <3>2. CASE Loaded(j, a)
      <4>1. PICK v \in i + 1 .. n : Loads(j.journal[v], a)
        BY <1>2, <2>2, <2>4, <3>2 DEF Arrived, Loaded, n
      <4>2. v = n \/ v \in 1 .. n - 1
        BY <1>1, <2>1
      <4> QED
        BY <1>1, <1>3, <2>4, <4>1, <4>2
    <3>3. CASE ~Loaded(j, a)
      <4>1. Loaded(k, a)
        BY <1>2, <1>5, <2>4 DEF Loaded
      <4> QED
        BY <1>4, <2>4, <3>1, <3>3, <4>1
    <3> QED
      BY <3>2, <3>3
  <2> QED
    BY <2>3, <2>4
<1> QED
    BY <1>1, <1>5 DEF Arrived

\* after checkpoint,
LEMMA ArrivedOpen ==
    ASSUME NEW j \in World, Arrived(j)
    PROVE  Arrived(OpenVector(j))
<1> DEFINE n == Len(j.journal)
           k == OpenVector(j)
           r == k.journal
           q == j.journal
<1>1. q \in Seq(Vector) /\ n \in Nat
    BY DEF World, Vector
<1>2. r = Append(q, << >>) /\ Core(k) = Core(j)
    BY DEF OpenVector, World, Core
<1>3. Len(r) = n + 1 /\ r \in Seq(Vector) /\ \A v \in 1 .. n : r[v] = q[v]
    BY <1>1, <1>2 DEF Vector
<1>4. /\ \A i \in 0 .. n : Unwound(k, i) = Unwound(j, i)
      /\ Unwound(k, n + 1) = Unwound(j, n)
    BY <1>1, <1>2, <1>3, PastOpened, PastPresent
<1> HIDE DEF n, k, r, q
<1>5. ASSUME NEW l \in 0 .. n + 1, NEW i \in 0 .. l, NEW a \in Address,
             Unwound(k, l).accounts[a] # Absent, Unwound(k, i).accounts[a] = Absent
      PROVE  \E v \in i + 1 .. l : Loads(r[v], a)
  <2> DEFINE l2 == IF l = n + 1 THEN n ELSE l
  <2>1. l2 \in 0 .. n /\ i # l /\ i \in 0 .. l2 /\ i \in Nat /\ l2 \in Nat
    BY <1>1, <1>5
  <2>2. Unwound(j, l2).accounts[a] # Absent /\ Unwound(j, i).accounts[a] = Absent
    <3>1. i \in 0 .. n
      BY <1>1, <2>1
    <3>2. Unwound(k, l) = Unwound(j, l2)
      BY <1>4, <2>1
    <3> QED
      BY <1>4, <1>5, <3>1, <3>2
  <2>3. \A v \in i + 1 .. l2 : v \in 1 .. n /\ v \in i + 1 .. l
    BY <1>1, <2>1
  <2> HIDE DEF l2
  <2>4. \E v \in i + 1 .. l2 : Loads(q[v], a)
    BY <2>1, <2>2 DEF Arrived, n, q
  <2> QED
    BY <1>3, <2>3, <2>4
<1> QED
    BY <1>3, <1>5 DEF Arrived, r, k

\* and after checkpoint_revert.
LEMMA ArrivedRevert ==
    ASSUME NEW j \in World, NEW n \in 1 .. Len(j.journal), Unwound(j, n) \in CoreType, Arrived(j)
    PROVE  Arrived(RevertTo(j, n))
<1> DEFINE k == RevertTo(j, n)
           q == j.journal
<1>1. q \in Seq(Vector) /\ Len(q) \in Nat /\ n \in Nat /\ n \in 0 .. Len(q) /\ 0 \in 0 .. n
    BY DEF World, Vector
<1>2. k.journal = SubSeq(q, 1, n)
    BY DEF RevertTo
<1>3. Len(k.journal) = n /\ \A v \in 1 .. n : k.journal[v] = q[v]
    BY <1>1, <1>2, SubSeqFirst
<1>4. \A i \in 0 .. n : Unwound(k, i) = Unwound(j, i)
    BY <1>1, PastRevert
<1> HIDE DEF k, q
<1>5. ASSUME NEW l \in 0 .. n, NEW i \in 0 .. l, NEW a \in Address,
             Unwound(k, l).accounts[a] # Absent, Unwound(k, i).accounts[a] = Absent
      PROVE  \E v \in i + 1 .. l : Loads(k.journal[v], a)
  <2>1. /\ l \in 0 .. Len(q) /\ i \in 0 .. n
        /\ \A v \in i + 1 .. l : v \in 1 .. n
    BY <1>1
  <2>2. \E v \in i + 1 .. l : Loads(q[v], a)
    BY <1>4, <1>5, <2>1 DEF Arrived, q
  <2> QED
    BY <1>3, <2>1, <2>2
<1> QED
    BY <1>3, <1>5 DEF Arrived, k

\* Journaled changes preserve the history.
LEMMA HistoryGrows ==
    ASSUME NEW j, History(j), NEW k, NEW X, Grows(j, k, X)
    PROVE  History(k)
<1> DEFINE n == Len(j.journal)
<1>1. Sound(j) /\ j \in World /\ k \in World /\ Len(k.journal) = n /\ n \in Nat \ {0} /\ Sound(k)
    BY GrowsSound DEF History, Sound, Grows, World
<1>2. Unwound(k, n) = Core(k) /\ Unwound(j, n) = Core(j)
    BY <1>1, PastPresent DEF World, Vector
<1>3. \A i \in 0 .. n - 1 : Unwound(k, i) = Unwound(j, i)
    BY DEF Grows
<1>4. \A i \in 0 .. n : i = n \/ i \in 0 .. n - 1
    BY <1>1
<1>5. Core(k) \in CoreType /\ Core(k).accounts = k.accounts /\ Core(j).accounts = j.accounts
    BY <1>1 DEF Core, CoreType, World
<1>6. \A a \in Address : Evolves(j.accounts[a], k.accounts[a], a \in X)
    BY DEF Grows
<1> HIDE DEF n
<1>7. ASSUME NEW i \in 0 .. n
      PROVE  /\ Unwound(k, i) \in CoreType
             /\ \A a \in Address : Clean(Unwound(k, i).accounts[a])
  <2>1. CASE i = n
    <3>1. \A a \in Address : Clean(j.accounts[a])
      BY <1>1, <1>2, <1>5 DEF History, n
    <3>2. \A a \in Address : Clean(k.accounts[a])
      BY <1>6, <3>1 DEF Evolves
    <3> QED
      BY <1>2, <1>5, <2>1, <3>2
  <2>2. CASE i \in 0 .. n - 1
    BY <1>3, <2>2 DEF History, n
  <2> QED
    BY <1>4, <2>1, <2>2
<1>8. Loading(k)
  <2> SUFFICES ASSUME NEW i \in 0 .. n, NEW l \in 0 .. n, i <= l, NEW a \in Address,
                      Unwound(k, i).accounts[a] # Absent
               PROVE  Unwound(k, l).accounts[a] # Absent
    BY <1>1 DEF Loading
  <2>1. CASE i = n
    <3>1. l = n
      BY <1>1, <2>1
    <3> QED
      BY <2>1, <3>1
  <2>2. CASE i \in 0 .. n - 1
    <3>1. Unwound(j, l).accounts[a] # Absent
      BY <1>3, <2>2 DEF History, Loading, n
    <3>2. CASE l = n
      BY <1>2, <1>5, <1>6, <3>1, <3>2 DEF Evolves
    <3>3. CASE l \in 0 .. n - 1
      BY <1>3, <3>1, <3>3
    <3> QED
      BY <1>4, <3>2, <3>3
  <2> QED
    BY <1>4, <2>1, <2>2
<1>9. \A a \in Address : Pristine(Unwound(k, 0).accounts[a], a)
  <2>1. 0 \in 0 .. n - 1
    BY <1>1
  <2> QED
    BY <1>3, <2>1 DEF History
<1>10. Unwrappable(k) /\ Mentioned(k) /\ Arrived(k)
    BY <1>1, MentionedGrows, ArrivedGrows DEF History, n
<1> QED
    BY <1>1, <1>7, <1>8, <1>9, <1>10 DEF History

\* A new vector preserves the history.
LEMMA HistoryOpen ==
    ASSUME NEW j, History(j)
    PROVE  History(OpenVector(j)) /\ Len(OpenVector(j).journal) = Len(j.journal) + 1
<1> DEFINE n == Len(j.journal)
           k == OpenVector(j)
<1>1. j \in World /\ n \in Nat \ {0} /\ j.journal \in Seq(Vector)
    BY DEF History, Sound, World, Vector
<1>2. /\ k \in World /\ Len(k.journal) = n + 1 /\ Core(k) = Core(j)
      /\ k.accounts = j.accounts /\ k.touched = j.touched /\ k.journal \in Seq(Vector)
  <2>1. Append(j.journal, << >>) \in Seq(Vector) /\ Len(Append(j.journal, << >>)) = n + 1
    BY <1>1 DEF Vector
  <2> QED
    BY <1>1, <2>1 DEF OpenVector, World, Vector, Core
<1>3. \A i \in 0 .. n : Unwound(k, i) = Unwound(j, i)
    BY <1>1, PastOpened
<1>4. Unwound(k, n + 1) = Unwound(j, n)
    BY <1>1, <1>2, PastPresent
<1>5. \A i \in 0 .. n + 1 : i = n + 1 \/ i \in 0 .. n
    BY <1>1
<1>6. Sound(k)
    BY <1>1, <1>2 DEF Sound, History, Loaded
<1> HIDE DEF k
<1>7. \A i \in 0 .. n + 1 : \E l \in 0 .. n : /\ Unwound(k, i) = Unwound(j, l)
                                             /\ l = IF i = n + 1 THEN n ELSE i
  <2>1. n \in 0 .. n
    BY <1>1
  <2> QED
    BY <1>3, <1>4, <1>5, <2>1
<1> HIDE DEF n
<1>8. \A i \in 0 .. n + 1 :
         /\ Unwound(k, i) \in CoreType
         /\ \A a \in Address : Clean(Unwound(k, i).accounts[a])
    BY <1>7 DEF History, n
<1>9. Loading(k)
  <2> SUFFICES ASSUME NEW i \in 0 .. n + 1, NEW l \in 0 .. n + 1, i <= l, NEW a \in Address,
                      Unwound(k, i).accounts[a] # Absent
               PROVE  Unwound(k, l).accounts[a] # Absent
    BY <1>2 DEF Loading
  <2>1. PICK i2 \in 0 .. n : Unwound(k, i) = Unwound(j, i2) /\ i2 = IF i = n + 1 THEN n ELSE i
    BY <1>7
  <2>2. PICK l2 \in 0 .. n : Unwound(k, l) = Unwound(j, l2) /\ l2 = IF l = n + 1 THEN n ELSE l
    BY <1>7
  <2>3. i2 <= l2
    BY <2>1, <2>2, <1>1
  <2> QED
    BY <2>1, <2>2, <2>3 DEF History, Loading, n
<1>10. \A a \in Address : Pristine(Unwound(k, 0).accounts[a], a)
  <2>1. 0 \in 0 .. n
    BY <1>1
  <2> QED
    BY <1>3, <2>1 DEF History
<1>11. Unwrappable(k) /\ Mentioned(k) /\ Arrived(k)
    BY <1>1, MentionedOpen, ArrivedOpen DEF History, k
<1> QED
    BY <1>2, <1>6, <1>8, <1>9, <1>10, <1>11 DEF History, k, n

\* checkpoint_revert preserves the history.
LEMMA HistoryRevert ==
    ASSUME NEW j, History(j), NEW n \in 1 .. Len(j.journal)
    PROVE  /\ History(RevertTo(j, n)) /\ Len(RevertTo(j, n).journal) = n
           /\ \A i \in 0 .. n : Unwound(RevertTo(j, n), i) = Unwound(j, i)
<1> DEFINE k == RevertTo(j, n)
<1>1. j \in World /\ Len(j.journal) \in Nat \ {0}
    BY DEF History, Sound, World
<1>2. n \in 0 .. Len(j.journal) /\ \A i \in 0 .. n : i \in 0 .. Len(j.journal)
    BY <1>1
<1>3. Unwound(j, n) \in CoreType
    BY <1>2 DEF History
<1>4. /\ Len(k.journal) = n
      /\ \A i \in 0 .. n : Unwound(k, i) = Unwound(j, i)
  <2>1. 0 \in 0 .. n
    BY <1>1
  <2> QED
    BY <1>1, <1>2, <1>3, <2>1, PastRevert
<1>5. Sound(k)
    BY <1>1, <1>2, <1>3, <1>4, RevertWorld DEF Sound
<1> HIDE DEF k
<1>6. \A i \in 0 .. n :
         /\ Unwound(k, i) \in CoreType
         /\ \A a \in Address : Clean(Unwound(k, i).accounts[a])
    BY <1>2, <1>4 DEF History
<1>7. Loading(k)
    BY <1>2, <1>4 DEF History, Loading
<1>8. \A a \in Address : Pristine(Unwound(k, 0).accounts[a], a)
  <2>1. 0 \in 0 .. n
    BY <1>1
  <2> QED
    BY <1>4, <2>1 DEF History
<1>9. Unwrappable(k) /\ Mentioned(k) /\ Arrived(k)
    BY <1>1, <1>3, MentionedRevert, ArrivedRevert DEF History, k
<1> QED
    BY <1>4, <1>5, <1>6, <1>7, <1>8, <1>9 DEF History, k

\* A transaction that has journaled nothing yet has no other past.
LEMMA FirstPast ==
    ASSUME NEW j \in World, j.journal = << << >> >>
    PROVE  /\ \A i \in 0 .. 1 : Unwound(j, i) = Core(j)
           /\ Core(j).accounts = j.accounts /\ Len(j.journal) = 1
<1> DEFINE h == [j EXCEPT !.journal = << >>]
<1>1. /\ h \in World /\ h.journal = << >> /\ Core(h) = Core(j)
  <2>1. ASSUME NEW q \in Seq(Seq(JournalEntry))
        PROVE  LET g == [j EXCEPT !.journal = q]
               IN  g \in World /\ g.journal = q /\ Core(g) = Core(j)
    BY DEF World, Core
  <2>2. << >> \in Seq(Seq(JournalEntry))
    OBVIOUS
  <2> QED
    BY <2>1, <2>2
<1>2. OpenVector(h) = j
  <2>1. Append(<< >>, << >>) = << << >> >>
    OBVIOUS
  <2> QED
    BY <1>1, <2>1 DEF OpenVector, World
<1>3. j.journal \in Seq(Vector) /\ Len(j.journal) = 1 /\ h.journal \in Seq(Vector) /\ Len(h.journal) = 0
    BY <1>1 DEF Vector
<1> HIDE DEF h
<1>4. Unwound(j, 1) = Core(j) /\ Unwound(h, 0) = Core(j)
    BY <1>1, <1>3, PastPresent
<1>5. Unwound(j, 0) = Core(j)
    BY <1>1, <1>2, <1>3, <1>4, PastOpened
<1>6. \A i \in 0 .. 1 : Unwound(j, i) = Core(j)
    BY <1>4, <1>5
<1>7. Core(j).accounts = j.accounts
    BY DEF Core
<1> QED
    BY <1>3, <1>6, <1>7

\* Its history.
LEMMA HistoryFirst ==
    ASSUME NEW j \in World, j.journal = << << >> >>, \A a \in j.touched : Loaded(j, a),
           \A a \in Address : Clean(j.accounts[a]) /\ Pristine(j.accounts[a], a)
    PROVE  History(j)
<1>1. /\ \A i \in 0 .. 1 : Unwound(j, i) = Core(j)
      /\ Core(j).accounts = j.accounts /\ Len(j.journal) = 1
    BY FirstPast
<1>2. Core(j) \in CoreType
    BY DEF Core, CoreType, World
<1>3. Sound(j)
    BY <1>1 DEF Sound
<1>4. /\ Unwrappable(j)
      /\ Mentioned(j)
  <2>1. DOMAIN j.journal = {1} /\ j.journal[1] = << >> /\ DOMAIN j.journal[1] = {}
    OBVIOUS
  <2>2. \A i \in 0 .. 1 : \A v \in 1 .. i : v = 1
    OBVIOUS
  <2> QED
    BY <1>1, <2>1, <2>2 DEF Unwrappable, Mentioned
<1>5. Arrived(j)
  <2>1. \A l \in 0 .. 1 : \A i \in 0 .. l : i \in 0 .. 1
    OBVIOUS
  <2> QED
    BY <1>1, <2>1 DEF Arrived
<1> QED
    BY <1>1, <1>2, <1>3, <1>4, <1>5 DEF History, Loading

\* The frames' checkpoints lie inside the journal.
Within(j, fs) ==
    /\ fs \in Seq(FrameType)
    /\ \A k \in DOMAIN fs : fs[k].journal_i \in 1 .. Len(j.journal) - 1

\* Journaled changes end no creation but those of X.
LEMMA CreationsGrow ==
    ASSUME NEW j, History(j), NEW fs, Within(j, fs), Creations(j, fs),
           NEW k, NEW X, Grows(j, k, X), \A f \in DOMAIN fs : fs[f].creates \notin X
    PROVE  Creations(k, fs)
<1> DEFINE n == Len(j.journal)
<1>1. j \in World /\ k \in World /\ Len(k.journal) = n /\ n \in Nat \ {0}
    BY DEF History, Sound, Grows, World
<1>2. Unwound(k, n) = Core(k) /\ Unwound(j, n) = Core(j)
    BY <1>1, PastPresent DEF World, Vector
<1>3. ASSUME NEW f \in DOMAIN fs, fs[f].creates # NoAddress,
             NEW i \in fs[f].journal_i + 1 .. n
      PROVE  InCreation(Unwound(k, i).accounts[fs[f].creates])
  <2> DEFINE a == fs[f].creates
  <2>1. a \in Address /\ fs[f].journal_i \in 1 .. n - 1
    <3>1. fs \in Seq(FrameType) /\ f \in 1 .. Len(fs)
      BY <1>3 DEF Within
    <3>2. fs[f] \in FrameType
      BY <3>1
    <3> QED
      BY <1>3, <3>2 DEF Within, FrameType
  <2>2. InCreation(Unwound(j, i).accounts[a])
    BY <1>3 DEF Creations
  <2>3. CASE i = n
    <3>1. InCreation(j.accounts[a])
      BY <1>2, <2>2, <2>3 DEF Core
    <3>2. InCreation(k.accounts[a])
      BY <2>1, <3>1 DEF Grows, Evolves
    <3> QED
      BY <1>2, <2>3, <3>2 DEF Core
  <2>4. CASE i # n
    <3>1. i \in 0 .. n - 1
      BY <1>1, <2>1, <2>4
    <3>2. Unwound(k, i) = Unwound(j, i)
      BY <3>1 DEF Grows
    <3> QED
      BY <2>2, <3>2
  <2> QED
    BY <2>3, <2>4
<1> QED
    BY <1>1, <1>3 DEF Creations

\* A new vector ends no creation.
LEMMA CreationsOpen ==
    ASSUME NEW j, History(j), NEW fs, Within(j, fs), Creations(j, fs)
    PROVE  Creations(OpenVector(j), fs) /\ Within(OpenVector(j), fs)
<1> DEFINE n == Len(j.journal)
           k == OpenVector(j)
<1>1. j \in World /\ n \in Nat \ {0} /\ j.journal \in Seq(Vector)
    BY DEF History, Sound, World, Vector
<1>2. Sound(k) /\ Len(k.journal) = n + 1
    BY HistoryOpen DEF History
<1>3. k.journal \in Seq(Vector)
    BY <1>2 DEF Sound, World, Vector
<1>4. Core(k) = Core(j)
    BY <1>1 DEF OpenVector, World, Core
<1>5. \A i \in 0 .. n : Unwound(k, i) = Unwound(j, i)
    BY <1>1, PastOpened
<1>6. Unwound(k, n + 1) = Unwound(j, n)
    BY <1>1, <1>2, <1>3, <1>4, PastPresent
<1> HIDE DEF k
<1>7. ASSUME NEW f \in DOMAIN fs, fs[f].creates # NoAddress,
             NEW i \in fs[f].journal_i + 1 .. n + 1
      PROVE  InCreation(Unwound(k, i).accounts[fs[f].creates])
  <2>1. fs[f].journal_i \in 1 .. n - 1
    BY <1>7 DEF Within
  <2>2. CASE i = n + 1
    <3>1. n \in fs[f].journal_i + 1 .. n
      BY <1>1, <2>1
    <3> QED
      BY <1>6, <1>7, <2>2, <3>1 DEF Creations
  <2>3. CASE i # n + 1
    <3>1. i \in fs[f].journal_i + 1 .. n /\ i \in 0 .. n
      BY <1>1, <2>1, <2>3
    <3> QED
      BY <1>5, <1>7, <3>1 DEF Creations
  <2> QED
    BY <2>2, <2>3
<1>8. \A f \in DOMAIN fs : fs[f].journal_i \in 1 .. (n + 1) - 1
    BY <1>1 DEF Within
<1> QED
    BY <1>2, <1>7, <1>8 DEF Creations, Within, k

\* A revert leaves the creations that were under way at its checkpoint.
LEMMA CreationsRevert ==
    ASSUME NEW j, History(j), NEW fs, Within(j, fs), Creations(j, fs),
           NEW n \in 1 .. Len(j.journal)
    PROVE  Creations(RevertTo(j, n), fs)
<1> DEFINE k == RevertTo(j, n)
<1>1. Len(k.journal) = n /\ \A i \in 0 .. n : Unwound(k, i) = Unwound(j, i)
    BY HistoryRevert
<1>2. Len(j.journal) \in Nat
    BY DEF History, Sound, World
<1> HIDE DEF k
<1>3. ASSUME NEW f \in DOMAIN fs, NEW i \in fs[f].journal_i + 1 .. n
      PROVE  i \in 0 .. n /\ i \in fs[f].journal_i + 1 .. Len(j.journal)
  <2>1. fs[f].journal_i \in 1 .. Len(j.journal) - 1
    BY DEF Within
  <2> QED
    BY <1>2, <2>1
<1> QED
    BY <1>1, <1>3 DEF Creations, k

\* The creations of the frames that stay.
LEMMA CreationsPop ==
    ASSUME NEW j, NEW fs \in Seq(FrameType), fs # << >>, Creations(j, fs)
    PROVE  Creations(j, SubSeq(fs, 1, Len(fs) - 1))
<1> DEFINE gs == SubSeq(fs, 1, Len(fs) - 1)
<1>1. /\ DOMAIN gs = 1 .. Len(fs) - 1 /\ DOMAIN fs = 1 .. Len(fs) /\ Len(fs) \in Nat \ {0}
      /\ \A f \in 1 .. Len(fs) - 1 : gs[f] = fs[f]
    OBVIOUS
<1>2. \A f \in DOMAIN gs : f \in DOMAIN fs /\ gs[f] = fs[f]
    BY <1>1
<1> HIDE DEF gs
<1> QED
    BY <1>2 DEF Creations, gs

\* One more frame, that creates nothing or an account now in creation.
LEMMA CreationsPush ==
    ASSUME NEW j, j \in World, NEW fs \in Seq(FrameType), Creations(j, fs),
           NEW f \in FrameType, f.journal_i + 1 = Len(j.journal),
           f.creates # NoAddress =>
              /\ InCreation(j.accounts[f.creates])
              /\ \A k \in DOMAIN fs : fs[k].creates # f.creates
    PROVE  Creations(j, Append(fs, f))
<1> DEFINE gs == Append(fs, f)
           m == Len(fs) + 1
           n == Len(j.journal)
<1>1. /\ DOMAIN gs = 1 .. m /\ DOMAIN fs = 1 .. Len(fs) /\ Len(fs) \in Nat
      /\ gs[m] = f /\ \A k \in 1 .. Len(fs) : gs[k] = fs[k]
    OBVIOUS
<1>2. \A k \in DOMAIN gs : k = m \/ (k \in DOMAIN fs /\ gs[k] = fs[k])
    BY <1>1
<1>3. Unwound(j, n).accounts = j.accounts /\ n \in Nat
  <2>1. j.journal \in Seq(Vector)
    BY DEF World, Vector
  <2>2. Unwound(j, n) = Core(j)
    BY <2>1, PastPresent
  <2> QED
    BY <2>1, <2>2 DEF Core
<1> HIDE DEF gs, m, n
<1>4. ASSUME NEW k \in DOMAIN gs, gs[k].creates # NoAddress, NEW i \in gs[k].journal_i + 1 .. n
      PROVE  InCreation(Unwound(j, i).accounts[gs[k].creates])
  <2>1. CASE k = m
    <3>1. i = n
      BY <1>1, <1>3, <2>1 DEF n
    <3> QED
      BY <1>1, <1>3, <1>4, <2>1, <3>1
  <2>2. CASE k \in DOMAIN fs /\ gs[k] = fs[k]
    BY <1>4, <2>2 DEF Creations, n
  <2> QED
    BY <1>2, <2>1, <2>2
<1>5. ASSUME NEW k \in DOMAIN gs, NEW l \in DOMAIN gs, k # l, gs[k].creates # NoAddress
      PROVE  gs[k].creates # gs[l].creates
    BY <1>1, <1>2, <1>5 DEF Creations
<1> QED
    BY <1>4, <1>5 DEF Creations, gs, n

-----------------------------------------------------------------------------
(* A change that is not in the journal                                     *)
(*                                                                         *)
(* The transfer that overflows its receiver leaves the debit of the sender *)
(* behind.  Undoing the journal from there gives, at every checkpoint, the *)
(* world that it would have given without the debit but for the balances   *)
(* of that account, and the very same one once the account itself is       *)
(* removed.                                                                *)

\* Two accounts of which only the balances may differ.  Half way through an
\* undoing the other fields may have any value.
Alike(x, y) ==
    /\ x.balances \in [TokenId -> Balance] /\ y.balances \in [TokenId -> Balance]
    /\ x = [balances |-> x.balances, nonce |-> x.nonce, code |-> x.code,
            created |-> x.created, destroyed |-> x.destroyed, storage |-> x.storage]
    /\ y = [balances |-> y.balances, nonce |-> x.nonce, code |-> x.code,
            created |-> x.created, destroyed |-> x.destroyed, storage |-> x.storage]

\* Two maps of accounts that differ at a only, and are alike there.
Kin(A, B, a) ==
    /\ A = [b \in Address |-> A[b]] /\ B = [b \in Address |-> B[b]]
    /\ \A b \in Address : b # a => A[b] = B[b]
    /\ Alike(A[a], B[a])

\* A change of the same account on both sides.
LEMMA KinAt ==
    ASSUME NEW a \in Address, NEW A, NEW B, Kin(A, B, a), NEW b \in Address, NEW x, NEW y,
           b = a => Alike(x, y), b # a => x = y
    PROVE  Kin([A EXCEPT ![b] = x], [B EXCEPT ![b] = y], a)
<1> DEFINE C == [A EXCEPT ![b] = x]
           D == [B EXCEPT ![b] = y]
<1>1. DOMAIN A = Address /\ DOMAIN B = Address
    BY DEF Kin
<1>2. /\ C = [c \in Address |-> IF c = b THEN x ELSE A[c]]
      /\ D = [c \in Address |-> IF c = b THEN y ELSE B[c]]
    BY <1>1
<1> HIDE DEF C, D
<1>3. C = [c \in Address |-> C[c]] /\ D = [c \in Address |-> D[c]]
    BY <1>2
<1>4. \A c \in Address : c # a => C[c] = D[c]
    BY <1>2 DEF Kin
<1>5. Alike(C[a], D[a])
  <2>1. CASE b = a
    <3>1. C[a] = x /\ D[a] = y
      BY <1>2, <2>1
    <3> QED
      BY <2>1, <3>1
  <2>2. CASE b # a
    <3>1. C[a] = A[a] /\ D[a] = B[a]
      BY <1>2, <2>2
    <3> QED
      BY <3>1 DEF Kin
  <2> QED
    BY <2>1, <2>2
<1> QED
    BY <1>3, <1>4, <1>5 DEF Kin, C, D

\* increase_balance and decrease_balance.
LEMMA KinBalance ==
    ASSUME NEW a \in Address, NEW A, NEW B, Kin(A, B, a), NEW b \in Address,
           NEW t \in TokenId, NEW n \in Balance
    PROVE  /\ Kin(IncreaseBalance(A, b, t, n), IncreaseBalance(B, b, t, n), a)
           /\ Kin(DecreaseBalance(A, b, t, n), DecreaseBalance(B, b, t, n), a)
<1>1. ASSUME NEW x, NEW y, Alike(x, y), NEW l \in Balance, NEW m \in Balance
      PROVE  Alike(WithBalance(x, t, l), WithBalance(y, t, m))
  <2> DEFINE p == [x.balances EXCEPT ![t] = l]
             q == [y.balances EXCEPT ![t] = m]
  <2>1. p \in [TokenId -> Balance] /\ q \in [TokenId -> Balance]
    BY <1>1 DEF Alike
  <2>2. WithBalance(x, t, l) = [x EXCEPT !.balances = p] /\ WithBalance(y, t, m) = [y EXCEPT !.balances = q]
    BY DEF WithBalance
  <2> HIDE DEF p, q
  <2> QED
    BY <1>1, <2>1, <2>2 DEF Alike
<1>2. DOMAIN A = Address /\ DOMAIN B = Address
    BY DEF Kin
<1>3. ASSUME NEW M, DOMAIN M = Address
      PROVE  /\ IncreaseBalance(M, b, t, n)
                   = [M EXCEPT ![b] = WithBalance(M[b], t, WrappingAdd(M[b].balances[t], n))]
             /\ DecreaseBalance(M, b, t, n)
                   = [M EXCEPT ![b] = WithBalance(M[b], t, WrappingSub(M[b].balances[t], n))]
    BY <1>3 DEF IncreaseBalance, DecreaseBalance, WithBalance
<1> DEFINE Up(x) == WithBalance(x, t, WrappingAdd(x.balances[t], n))
           Down(x) == WithBalance(x, t, WrappingSub(x.balances[t], n))
<1>4. ASSUME NEW x, NEW y, Alike(x, y) PROVE Alike(Up(x), Up(y)) /\ Alike(Down(x), Down(y))
  <2>1. x.balances[t] \in Balance /\ y.balances[t] \in Balance
    BY <1>4 DEF Alike
  <2>2. /\ WrappingAdd(x.balances[t], n) \in Balance /\ WrappingSub(x.balances[t], n) \in Balance
        /\ WrappingAdd(y.balances[t], n) \in Balance /\ WrappingSub(y.balances[t], n) \in Balance
    BY <2>1, Wrapping
  <2> QED
    BY <1>1, <1>4, <2>2
<1>5. /\ b = a => Alike(A[b], B[b])
      /\ b # a => A[b] = B[b]
    BY DEF Kin
<1>6. /\ IncreaseBalance(A, b, t, n) = [A EXCEPT ![b] = Up(A[b])]
      /\ IncreaseBalance(B, b, t, n) = [B EXCEPT ![b] = Up(B[b])]
      /\ DecreaseBalance(A, b, t, n) = [A EXCEPT ![b] = Down(A[b])]
      /\ DecreaseBalance(B, b, t, n) = [B EXCEPT ![b] = Down(B[b])]
    BY <1>2, <1>3
<1>7. /\ b = a => Alike(Up(A[b]), Up(B[b])) /\ Alike(Down(A[b]), Down(B[b]))
      /\ b # a => Up(A[b]) = Up(B[b]) /\ Down(A[b]) = Down(B[b])
    BY <1>4, <1>5
<1> HIDE DEF Up, Down
<1>8. Kin([A EXCEPT ![b] = Up(A[b])], [B EXCEPT ![b] = Up(B[b])], a)
    BY <1>7, KinAt
<1>9. Kin([A EXCEPT ![b] = Down(A[b])], [B EXCEPT ![b] = Down(B[b])], a)
    BY <1>7, KinAt
<1> QED
    BY <1>6, <1>8, <1>9

\* The undoing of one entry keeps the two alike, and makes them the same
\* when it removes the account.
LEMMA KinUndo ==
    ASSUME NEW a \in Address, NEW A, NEW B, Kin(A, B, a), NEW e \in JournalEntry
    PROVE  IF e = AccountLoaded(a) THEN UndoAccounts(A, e) = UndoAccounts(B, e)
           ELSE Kin(UndoAccounts(A, e), UndoAccounts(B, e), a)
<1>1. DOMAIN A = Address /\ DOMAIN B = Address
    BY DEF Kin
<1>2. ASSUME NEW b \in Address
      PROVE  /\ b = a => Alike(A[b], B[b])
             /\ b # a => A[b] = B[b]
    BY DEF Kin
<1>3. e.type # "AccountLoaded" => e # AccountLoaded(a)
    BY DEF AccountLoaded
<1>4. CASE e.type = "AccountLoaded"
  <2>1. e.address \in Address /\ e = AccountLoaded(e.address)
    BY <1>4 DEF JournalEntry, AccountLoaded, TokenIdsLoaded
  <2>2. /\ UndoAccounts(A, e) = [A EXCEPT ![e.address] = Absent]
        /\ UndoAccounts(B, e) = [B EXCEPT ![e.address] = Absent]
    BY <1>4 DEF UndoAccounts
  <2>3. CASE e.address = a
    <3>1. e = AccountLoaded(a)
      BY <2>1, <2>3
    <3>2. /\ [A EXCEPT ![a] = Absent] = [b \in Address |-> IF b = a THEN Absent ELSE A[b]]
          /\ [B EXCEPT ![a] = Absent] = [b \in Address |-> IF b = a THEN Absent ELSE B[b]]
      BY <1>1
    <3>3. [b \in Address |-> IF b = a THEN Absent ELSE A[b]] = [b \in Address |-> IF b = a THEN Absent ELSE B[b]]
      BY <1>2
    <3> QED
      BY <2>2, <2>3, <3>1, <3>2, <3>3
  <2>4. CASE e.address # a
    <3>1. Kin([A EXCEPT ![e.address] = Absent], [B EXCEPT ![e.address] = Absent], a)
      BY <2>1, <2>4, KinAt
    <3>2. e # AccountLoaded(a)
      BY <2>4 DEF AccountLoaded
    <3> QED
      BY <2>2, <3>1, <3>2
  <2> QED
    BY <2>3, <2>4
<1>5. ASSUME NEW x, NEW y, Alike(x, y)
      PROVE  /\ \A v : Alike([x EXCEPT !.destroyed = v], [y EXCEPT !.destroyed = v])
             /\ \A v : Alike([x EXCEPT !.nonce = v], [y EXCEPT !.nonce = v])
             /\ \A v, w : Alike([x EXCEPT !.created = v, !.nonce = w], [y EXCEPT !.created = v, !.nonce = w])
             /\ \A v : Alike([x EXCEPT !.code = v], [y EXCEPT !.code = v])
             /\ \A v : Alike([x EXCEPT !.storage = v], [y EXCEPT !.storage = v])
             /\ y.nonce = x.nonce /\ y.storage = x.storage
  <2>1. ASSUME NEW v PROVE Alike([x EXCEPT !.destroyed = v], [y EXCEPT !.destroyed = v])
    BY <1>5 DEF Alike
  <2>2. ASSUME NEW v PROVE Alike([x EXCEPT !.nonce = v], [y EXCEPT !.nonce = v])
    BY <1>5 DEF Alike
  <2>3. ASSUME NEW v, NEW w
        PROVE  Alike([x EXCEPT !.created = v, !.nonce = w], [y EXCEPT !.created = v, !.nonce = w])
    <3> DEFINE x2 == [x EXCEPT !.created = v]
               y2 == [y EXCEPT !.created = v]
    <3>1. Alike(x2, y2)
      BY <1>5 DEF Alike
    <3>2. /\ [x EXCEPT !.created = v, !.nonce = w] = [x2 EXCEPT !.nonce = w]
          /\ [y EXCEPT !.created = v, !.nonce = w] = [y2 EXCEPT !.nonce = w]
      OBVIOUS
    <3> HIDE DEF x2, y2
    <3>3. Alike([x2 EXCEPT !.nonce = w], [y2 EXCEPT !.nonce = w])
      BY <3>1 DEF Alike
    <3> QED
      BY <3>2, <3>3
  <2>4. ASSUME NEW v PROVE Alike([x EXCEPT !.code = v], [y EXCEPT !.code = v])
    BY <1>5 DEF Alike
  <2>5. ASSUME NEW v PROVE Alike([x EXCEPT !.storage = v], [y EXCEPT !.storage = v])
    BY <1>5 DEF Alike
  <2>6. y.nonce = x.nonce /\ y.storage = x.storage
    BY <1>5 DEF Alike
  <2> QED
    BY <2>1, <2>2, <2>3, <2>4, <2>5, <2>6
<1>6. CASE e.type = "AccountDestroyed"
  <2> DEFINE b == e.address
             c == e.target
             h == e.had_balance
             R(M) == [M EXCEPT ![b].destroyed = e.was_destroyed]
             S(M) == IncreaseBalance(R(M), b, BaseToken, h)
             T(M) == DecreaseBalance(S(M), c, BaseToken, h)
  <2>1. b \in Address /\ c \in Address /\ h \in Balance
    BY <1>6 DEF JournalEntry, TokenIdsLoaded
  <2>2. Kin(R(A), R(B), a)
    <3>1. /\ R(A) = [A EXCEPT ![b] = [A[b] EXCEPT !.destroyed = e.was_destroyed]]
          /\ R(B) = [B EXCEPT ![b] = [B[b] EXCEPT !.destroyed = e.was_destroyed]]
      OBVIOUS
    <3>2. /\ b = a => Alike([A[b] EXCEPT !.destroyed = e.was_destroyed],
                            [B[b] EXCEPT !.destroyed = e.was_destroyed])
          /\ b # a => [A[b] EXCEPT !.destroyed = e.was_destroyed]
                         = [B[b] EXCEPT !.destroyed = e.was_destroyed]
      BY <1>2, <1>5, <2>1
    <3> QED
      BY <2>1, <3>1, <3>2, KinAt
  <2> HIDE DEF R
  <2>3. Kin(S(A), S(B), a)
    BY <2>1, <2>2, KinBalance, BoundsAssumption
  <2> HIDE DEF S
  <2>4. Kin(T(A), T(B), a)
    BY <2>1, <2>3, KinBalance, BoundsAssumption
  <2> HIDE DEF T
  <2>5. \A M : UndoAccounts(M, e) = IF b = c THEN S(M) ELSE T(M)
    BY <1>6 DEF UndoAccounts, R, S, T
  <2> QED
    BY <1>3, <1>6, <2>3, <2>4, <2>5
<1>7. CASE e.type = "BalanceTransfer"
  <2> DEFINE S(M) == IncreaseBalance(M, e.from, e.token_id, e.amount)
             T(M) == DecreaseBalance(S(M), e.to, e.token_id, e.amount)
  <2>1. e.from \in Address /\ e.to \in Address /\ e.token_id \in TokenId /\ e.amount \in Balance
    BY <1>7 DEF JournalEntry, TokenIdsLoaded
  <2>2. Kin(S(A), S(B), a)
    BY <2>1, KinBalance
  <2> HIDE DEF S
  <2>3. Kin(T(A), T(B), a)
    BY <2>1, <2>2, KinBalance
  <2>4. \A M : UndoAccounts(M, e) = T(M)
    BY <1>7 DEF UndoAccounts, S
  <2> QED
    BY <1>3, <1>7, <2>3, <2>4
<1>8. CASE e.type = "TokensBurned"
  <2>1. e.token_holder \in Address /\ e.token_id \in TokenId /\ e.amount \in Balance
    BY <1>8 DEF JournalEntry, TokenIdsLoaded
  <2>2. \A M : UndoAccounts(M, e) = IncreaseBalance(M, e.token_holder, e.token_id, e.amount)
    BY <1>8 DEF UndoAccounts
  <2> QED
    BY <1>3, <1>8, <2>1, <2>2, KinBalance
<1>9. CASE e.type = "TokensMinted"
  <2>1. e.recipient \in Address /\ e.token_id \in TokenId /\ e.amount \in Balance
    BY <1>9 DEF JournalEntry, TokenIdsLoaded
  <2>2. \A M : UndoAccounts(M, e) = DecreaseBalance(M, e.recipient, e.token_id, e.amount)
    BY <1>9 DEF UndoAccounts
  <2> QED
    BY <1>3, <1>9, <2>1, <2>2, KinBalance
<1>10. CASE e.type \in {"NonceChange", "AccountCreated", "CodeChange", "StorageLoaded", "StorageChange"}
  <2> DEFINE b == e.address
             F(x) == IF e.type = "NonceChange" THEN [x EXCEPT !.nonce = x.nonce - 1]
                     ELSE IF e.type = "AccountCreated" THEN [x EXCEPT !.created = FALSE, !.nonce = 0]
                     ELSE IF e.type = "CodeChange" THEN [x EXCEPT !.code = NoCode]
                     ELSE IF e.type = "StorageLoaded"
                     THEN [x EXCEPT !.storage = [x.storage EXCEPT ![e.key] = Absent]]
                     ELSE [x EXCEPT !.storage = [x.storage EXCEPT ![e.key].present = e.had_value]]
  <2>1. b \in Address
    BY <1>10 DEF JournalEntry, TokenIdsLoaded
  <2>2. ASSUME NEW M, DOMAIN M = Address PROVE UndoAccounts(M, e) = [M EXCEPT ![b] = F(M[b])]
    <3>1. CASE e.type = "NonceChange"
      BY <3>1 DEF UndoAccounts
    <3>2. CASE e.type = "AccountCreated"
      BY <2>1, <2>2, <3>2 DEF UndoAccounts
    <3>3. CASE e.type = "CodeChange"
      BY <3>3 DEF UndoAccounts
    <3>4. CASE e.type = "StorageLoaded"
      BY <3>4 DEF UndoAccounts
    <3>5. CASE e.type = "StorageChange"
      BY <3>5 DEF UndoAccounts
    <3> QED
      BY <1>10, <3>1, <3>2, <3>3, <3>4, <3>5
  <2>3. b # a => F(A[b]) = F(B[b])
    BY <1>2, <2>1
  <2>4. b = a => Alike(F(A[b]), F(B[b]))
    <3> SUFFICES ASSUME Alike(A[b], B[b]) PROVE Alike(F(A[b]), F(B[b]))
      BY <1>2, <2>1
    <3> DEFINE x == A[b]
               y == B[b]
    <3> HIDE DEF x, y
    <3>1. Alike(x, y)
      BY DEF x, y
    <3>2. Alike(F(x), F(y))
      BY <1>5, <3>1
    <3> QED
      BY <3>2 DEF x, y
  <2> HIDE DEF F
  <2>5. Kin([A EXCEPT ![b] = F(A[b])], [B EXCEPT ![b] = F(B[b])], a)
    BY <2>1, <2>3, <2>4, KinAt
  <2>6. UndoAccounts(A, e) = [A EXCEPT ![b] = F(A[b])] /\ UndoAccounts(B, e) = [B EXCEPT ![b] = F(B[b])]
    BY <1>1, <2>2
  <2> QED
    BY <1>3, <1>10, <2>5, <2>6
<1>11. CASE e.type \in {"AccountTouched", "TransientStorageChange", "TokenIdsLoaded"}
  <2>1. \A M : UndoAccounts(M, e) = M
    BY <1>11 DEF UndoAccounts
  <2> QED
    BY <1>3, <1>11, <2>1
<1>12. e.type \in {"AccountLoaded", "AccountTouched", "NonceChange", "AccountCreated", "CodeChange",
                   "AccountDestroyed", "BalanceTransfer", "StorageLoaded", "StorageChange",
                   "TransientStorageChange", "TokensBurned", "TokensMinted", "TokenIdsLoaded"}
    BY DEF JournalEntry, TokenIdsLoaded
<1> QED
    BY <1>4, <1>6, <1>7, <1>8, <1>9, <1>10, <1>11, <1>12

\* The same of accounts and transient storage: the two are one, or differ in
\* the balances of a.
Tied(c, d, a) ==
    \/ c = d
    \/ /\ Kin(c.accounts, d.accounts, a)
       /\ d = [accounts |-> d.accounts, transient_storage |-> c.transient_storage]

\* The undoing of a vector.
LEMMA TiedVector ==
    ASSUME NEW a \in Address, NEW c, NEW d, Tied(c, d, a), NEW q \in Vector
    PROVE  /\ Tied(UndoVector(c, q), UndoVector(d, q), a)
           /\ Loads(q, a) => UndoVector(c, q) = UndoVector(d, q)
<1> DEFINE P(x, y, r) == /\ Tied(UndoVector(x, r), UndoVector(y, r), a)
                         /\ Loads(r, a) => UndoVector(x, r) = UndoVector(y, r)
           T == {n \in Nat : \A r \in Vector : Len(r) = n => \A x, y : Tied(x, y, a) => P(x, y, r)}
<1>1. 0 \in T
  <2> SUFFICES ASSUME NEW r \in Vector, Len(r) = 0, NEW x, NEW y, Tied(x, y, a) PROVE P(x, y, r)
    OBVIOUS
  <2>1. r = << >>
    BY EmptySeq DEF Vector
  <2>2. UndoVector(x, r) = x /\ UndoVector(y, r) = y
    BY <2>1, Entries!UnwindEmpty DEF UndoVector
  <2>3. ~Loads(r, a)
    BY <2>1 DEF Loads
  <2> QED
    BY <2>2, <2>3
<1>2. ASSUME NEW n \in T PROVE n + 1 \in T
  <2> SUFFICES ASSUME NEW r \in Vector, Len(r) = n + 1, NEW x, NEW y, Tied(x, y, a) PROVE P(x, y, r)
    OBVIOUS
  <2>1. r # << >> /\ r \in Seq(JournalEntry)
    BY DEF Vector
  <2>2. PICK h \in Seq(JournalEntry), e \in JournalEntry : r = Append(h, e)
    BY <2>1, SequenceEmptyOrAppend
  <2>3. Len(h) = n /\ h \in Vector
    BY <2>2 DEF Vector
  <2> DEFINE x2 == UndoEntry(x, e)
             y2 == UndoEntry(y, e)
  <2>4. UndoVector(x, r) = UndoVector(x2, h) /\ UndoVector(y, r) = UndoVector(y2, h)
    BY <2>2, Entries!UnwindAppend DEF UndoVector
  <2>5. Tied(x2, y2, a) /\ (e = AccountLoaded(a) => x2 = y2)
    <3>1. CASE x = y
      BY <3>1 DEF Tied
    <3>2. CASE /\ Kin(x.accounts, y.accounts, a)
               /\ y = [accounts |-> y.accounts, transient_storage |-> x.transient_storage]
      <4>1. /\ x2.accounts = UndoAccounts(x.accounts, e) /\ y2.accounts = UndoAccounts(y.accounts, e)
            /\ y2 = [accounts |-> y2.accounts, transient_storage |-> x2.transient_storage]
        <5>1. y.transient_storage = x.transient_storage
          BY <3>2
        <5> QED
          BY <5>1 DEF UndoEntry
      <4>2. IF e = AccountLoaded(a) THEN x2.accounts = y2.accounts
            ELSE Kin(x2.accounts, y2.accounts, a)
        BY <3>2, <4>1, KinUndo
      <4>3. x2.accounts = y2.accounts => x2 = y2
        BY <4>1 DEF UndoEntry
      <4> HIDE DEF x2, y2
      <4> QED
        BY <4>1, <4>2, <4>3 DEF Tied
    <3> QED
      BY <3>1, <3>2 DEF Tied
  <2> HIDE DEF x2, y2
  <2>6. P(x2, y2, h)
    BY <2>3, <2>5
  <2>7. x2 = y2 => UndoVector(x2, h) = UndoVector(y2, h)
    OBVIOUS
  <2>8. Loads(r, a) => e = AccountLoaded(a) \/ Loads(h, a)
    <3>1. /\ DOMAIN r = 1 .. Len(h) + 1 /\ DOMAIN h = 1 .. Len(h) /\ Len(h) \in Nat
          /\ r[Len(h) + 1] = e /\ \A m \in 1 .. Len(h) : r[m] = h[m]
      BY <2>2
    <3>2. \A m \in 1 .. Len(h) + 1 : m = Len(h) + 1 \/ m \in 1 .. Len(h)
      BY <3>1
    <3> QED
      BY <3>1, <3>2 DEF Loads
  <2> QED
    BY <2>4, <2>5, <2>6, <2>7, <2>8
<1>3. T = Nat
  <2> T \in SUBSET Nat
    OBVIOUS
  <2> HIDE DEF T
  <2> QED
    BY <1>1, <1>2, TransferLoop!SetInduction
<1>4. Len(q) \in Nat
    BY DEF Vector
<1> QED
    BY <1>3, <1>4

\* The undoing of several vectors.
LEMMA TiedVectors ==
    ASSUME NEW a \in Address, NEW c, NEW d, Tied(c, d, a), NEW q \in Seq(Vector)
    PROVE  /\ Tied(Vectors!Unwind(c, q), Vectors!Unwind(d, q), a)
           /\ (\E v \in DOMAIN q : Loads(q[v], a)) => Vectors!Unwind(c, q) = Vectors!Unwind(d, q)
<1> DEFINE P(x, y, r) ==
              /\ Tied(Vectors!Unwind(x, r), Vectors!Unwind(y, r), a)
              /\ (\E v \in DOMAIN r : Loads(r[v], a)) => Vectors!Unwind(x, r) = Vectors!Unwind(y, r)
           T == {n \in Nat : \A r \in Seq(Vector) : Len(r) = n => \A x, y : Tied(x, y, a) => P(x, y, r)}
<1>1. 0 \in T
  <2> SUFFICES ASSUME NEW r \in Seq(Vector), Len(r) = 0, NEW x, NEW y, Tied(x, y, a) PROVE P(x, y, r)
    OBVIOUS
  <2>1. r = << >>
    BY EmptySeq
  <2>2. Vectors!Unwind(x, r) = x /\ Vectors!Unwind(y, r) = y
    BY <2>1, Vectors!UnwindEmpty
  <2>3. DOMAIN r = {}
    BY <2>1
  <2> QED
    BY <2>2, <2>3
<1>2. ASSUME NEW n \in T PROVE n + 1 \in T
  <2> SUFFICES ASSUME NEW r \in Seq(Vector), Len(r) = n + 1, NEW x, NEW y, Tied(x, y, a) PROVE P(x, y, r)
    OBVIOUS
  <2>1. r # << >>
    OBVIOUS
  <2>2. PICK h \in Seq(Vector), e \in Vector : r = Append(h, e)
    BY <2>1, SequenceEmptyOrAppend
  <2>3. Len(h) = n
    BY <2>2
  <2> DEFINE x2 == UndoVector(x, e)
             y2 == UndoVector(y, e)
  <2>4. /\ Vectors!Unwind(x, r) = Vectors!Unwind(x2, h)
        /\ Vectors!Unwind(y, r) = Vectors!Unwind(y2, h)
    BY <2>2, Vectors!UnwindAppend
  <2>5. Tied(x2, y2, a) /\ (Loads(e, a) => x2 = y2)
    BY TiedVector
  <2> HIDE DEF x2, y2
  <2>6. P(x2, y2, h)
    BY <2>3, <2>5
  <2>7. x2 = y2 => Vectors!Unwind(x2, h) = Vectors!Unwind(y2, h)
    OBVIOUS
  <2>8. (\E v \in DOMAIN r : Loads(r[v], a)) => Loads(e, a) \/ \E v \in DOMAIN h : Loads(h[v], a)
    <3>1. /\ DOMAIN r = 1 .. Len(h) + 1 /\ DOMAIN h = 1 .. Len(h) /\ Len(h) \in Nat
          /\ r[Len(h) + 1] = e /\ \A m \in 1 .. Len(h) : r[m] = h[m]
      BY <2>2
    <3>2. \A m \in 1 .. Len(h) + 1 : m = Len(h) + 1 \/ m \in 1 .. Len(h)
      BY <3>1
    <3> QED
      BY <3>1, <3>2
  <2> QED
    BY <2>4, <2>5, <2>6, <2>7, <2>8
<1>3. T = Nat
  <2> T \in SUBSET Nat
    OBVIOUS
  <2> HIDE DEF T
  <2> QED
    BY <1>1, <1>2, TransferLoop!SetInduction
<1>4. Len(q) \in Nat
    OBVIOUS
<1> QED
    BY <1>3, <1>4

\* The two are the same account, or differ in their balances.
Peers(x, y) == x = y \/ (x \in Account /\ y \in Account /\ SameButBalances(x, y))

\* What stays of an account whose balances are changed.
LEMMA PeersAgree ==
    ASSUME NEW x, NEW y, Peers(x, y)
    PROVE  /\ x = Absent <=> y = Absent
           /\ Clean(x) => Clean(y)
           /\ InCreation(x) => InCreation(y)
           /\ \A a : Pristine(x, a) => Pristine(y, a)
<1>1. CASE x = y
    BY <1>1
<1>2. CASE x \in Account /\ y \in Account /\ SameButBalances(x, y)
  <2>1. x # Absent /\ y # Absent
    BY <1>2, BoundsAssumption
  <2> QED
    BY <1>2, <2>1 DEF SameButBalances, Clean, Unused, InCreation, Pristine
<1> QED
    BY <1>1, <1>2 DEF Peers

\* The journal of k remembers what that of g does, but for the balances of a.
LEMMA SkewedPast ==
    ASSUME NEW g, History(g), NEW k, NEW a \in Address, Skewed(g, k, a),
           NEW i \in 0 .. Len(g.journal)
    PROVE  /\ Unwound(k, i) \in CoreType
           /\ \A b \in Address : Peers(Unwound(g, i).accounts[b], Unwound(k, i).accounts[b])
           /\ \A b \in Address \ {a} : Unwound(g, i).accounts[b] = Unwound(k, i).accounts[b]
           /\ Unwound(k, i).transient_storage = Unwound(g, i).transient_storage
<1> DEFINE n == Len(g.journal)
           q == SubSeq(g.journal, i + 1, n)
           c == Unwound(g, i)
           d == Unwound(k, i)
<1>1. /\ g \in World /\ k \in World /\ g.journal \in Seq(Vector) /\ n \in Nat \ {0}
      /\ k.journal = g.journal /\ c \in CoreType
    BY DEF History, Sound, World, Vector, Skewed
<1>2. /\ q \in Seq(Vector) /\ Len(q) = n - i /\ DOMAIN q = 1 .. n - i
      /\ \A x \in 1 .. n - i : q[x] = g.journal[i + x]
    BY <1>1
<1>3. c = Vectors!Unwind(Core(g), q) /\ d = Vectors!Unwind(Core(k), q)
    BY <1>1 DEF Unwound
<1>4. Tied(Core(g), Core(k), a)
  <2>1. PICK x \in Account : /\ SameButBalances(g.accounts[a], x)
                             /\ k.accounts = [g.accounts EXCEPT ![a] = x]
    BY DEF Skewed
  <2>2. g.accounts \in Accounts /\ k.accounts \in Accounts
    BY <1>1 DEF World
  <2>3. g.accounts[a] \in Account /\ k.accounts[a] = x
    BY <2>1, <2>2 DEF Accounts, Skewed, Loaded
  <2>4. Alike(g.accounts[a], x)
    <3> DEFINE y == g.accounts[a]
    <3> HIDE DEF y
    <3>1. y \in Account /\ SameButBalances(y, x)
      BY <2>1, <2>3 DEF y
    <3>2. Alike(y, x)
      BY <3>1 DEF Alike, Account, SameButBalances
    <3> QED
      BY <3>2 DEF y
  <2>5. Kin(g.accounts, k.accounts, a)
    BY <2>1, <2>2, <2>3, <2>4 DEF Kin, Accounts
  <2> QED
    BY <2>5 DEF Tied, Core, Skewed
<1> HIDE DEF q, c, d
<1>5. Tied(c, d, a) /\ ((\E v \in DOMAIN q : Loads(q[v], a)) => c = d)
    BY <1>2, <1>3, <1>4, TiedVectors
<1>6. CASE c = d
    BY <1>1, <1>6 DEF Peers, c, d
<1>7. CASE c # d
  <2>1. /\ Kin(c.accounts, d.accounts, a)
        /\ d = [accounts |-> d.accounts, transient_storage |-> c.transient_storage]
    BY <1>5, <1>7 DEF Tied
  <2>2. c.accounts[a] # Absent
    <3> SUFFICES ASSUME c.accounts[a] = Absent PROVE FALSE
      OBVIOUS
    <3>1. Unwound(g, n).accounts[a] # Absent
      <4>1. Unwound(g, n) = Core(g)
        BY <1>1, PastPresent
      <4> QED
        BY <4>1 DEF Core, Skewed, Loaded
    <3>2. n \in 0 .. n /\ i \in 0 .. n /\ i \in Nat
      BY <1>1
    <3>3. PICK v \in i + 1 .. n : Loads(g.journal[v], a)
      BY <3>1, <3>2 DEF History, Arrived, c
    <3>4. v - i \in 1 .. n - i /\ i + (v - i) = v
      BY <3>2
    <3>5. q[v - i] = g.journal[v] /\ v - i \in DOMAIN q
      BY <1>2, <3>4
    <3> QED
      BY <1>5, <1>7, <3>3, <3>5
  <2>3. c.accounts \in Accounts
    BY <1>1 DEF CoreType
  <2> DEFINE x == c.accounts[a]
             y == d.accounts[a]
  <2>4. x \in Account
    BY <2>2, <2>3 DEF Accounts
  <2>5. y \in Account /\ SameButBalances(x, y)
    <3>1. Alike(x, y)
      BY <2>1 DEF Kin
    <3> HIDE DEF x, y
    <3> QED
      BY <2>4, <3>1 DEF Alike, Account, SameButBalances
  <2>6. \A b \in Address : Peers(c.accounts[b], d.accounts[b])
    BY <2>1, <2>4, <2>5 DEF Peers, Kin
  <2>7. d.accounts \in Accounts
    <3>1. \A b \in Address : d.accounts[b] \in Account \cup {Absent}
      BY <2>1, <2>3, <2>5 DEF Kin, Accounts
    <3>2. d.accounts = [b \in Address |-> d.accounts[b]]
      BY <2>1 DEF Kin
    <3> QED
      BY <3>1, <3>2 DEF Accounts
  <2>8. c.transient_storage \in [Address \X Slot -> Word]
    BY <1>1 DEF CoreType
  <2>9. d \in CoreType
    BY <2>1, <2>7, <2>8 DEF CoreType
  <2> QED
    BY <2>1, <2>6, <2>9 DEF Kin, c, d
<1> QED
    BY <1>6, <1>7

\* So it is still a history,
LEMMA HistorySkewed ==
    ASSUME NEW g, History(g), NEW k, NEW a \in Address, Skewed(g, k, a)
    PROVE  History(k)
<1> DEFINE n == Len(g.journal)
<1>1. /\ k \in World /\ k.journal = g.journal /\ k.touched = g.touched /\ n \in Nat \ {0}
      /\ k.journal \in Seq(Vector) /\ g.journal \in Seq(Vector)
    BY DEF History, Sound, World, Vector, Skewed
<1>2. ASSUME NEW i \in 0 .. n
      PROVE  /\ Unwound(k, i) \in CoreType
             /\ \A b \in Address :
                   /\ Unwound(g, i).accounts[b] = Absent <=> Unwound(k, i).accounts[b] = Absent
                   /\ Clean(Unwound(k, i).accounts[b])
  <2>1. \A b \in Address : Clean(Unwound(g, i).accounts[b])
    BY DEF History
  <2> QED
    BY <2>1, SkewedPast, PeersAgree
<1>3. \A b \in Address : Loaded(g, b) <=> Loaded(k, b)
  <2>1. Unwound(g, n).accounts = g.accounts /\ Unwound(k, n).accounts = k.accounts
    <3>1. Unwound(g, n) = Core(g) /\ Unwound(k, n) = Core(k)
      BY <1>1, PastPresent
    <3> QED
      BY <3>1 DEF Core
  <2>2. n \in 0 .. n
    BY <1>1
  <2> QED
    BY <1>2, <2>1, <2>2 DEF Loaded
<1>4. Sound(k)
  <2>1. k.touched \subseteq Address
    BY <1>1 DEF World
  <2> QED
    BY <1>1, <1>3, <2>1 DEF Sound, History
<1>5. Loading(k)
    BY <1>1, <1>2 DEF Loading, History
<1>6. \A b \in Address : Pristine(Unwound(k, 0).accounts[b], b)
  <2>1. 0 \in 0 .. n
    BY <1>1
  <2> QED
    BY <2>1, SkewedPast, PeersAgree DEF History
<1>7. ASSUME NEW v \in 1 .. n, NEW x \in DOMAIN k.journal[v]
      PROVE  Mentions(k.journal[v][x]) \subseteq Address
  <2>1. k.journal[v] \in Seq(JournalEntry)
    BY <1>1 DEF Vector
  <2>2. k.journal[v][x] \in JournalEntry
    BY <2>1
  <2> QED
    BY <2>2, MentionsTyped
<1>8. Unwrappable(k)
  <2>1. DOMAIN k.journal = 1 .. n /\ Unwrappable(g)
    BY <1>1 DEF History
  <2> QED
    BY <1>1, <1>3, <1>7, <2>1 DEF Unwrappable
<1>9. Mentioned(k)
  <2>1. Mentioned(g) /\ \A i \in 0 .. n : \A v \in 1 .. i : v \in 1 .. n
    BY <1>1 DEF History
  <2> QED
    BY <1>1, <1>2, <1>7, <2>1 DEF Mentioned
<1>10. Arrived(k)
  <2>1. Arrived(g) /\ \A l \in 0 .. n : \A i \in 0 .. l : i \in 0 .. n
    BY <1>1 DEF History
  <2> QED
    BY <1>1, <1>2, <2>1 DEF Arrived
<1> QED
    BY <1>1, <1>2, <1>4, <1>5, <1>6, <1>8, <1>9, <1>10 DEF History

\* and creations are still under way.
LEMMA CreationsSkewed ==
    ASSUME NEW g, History(g), NEW k, NEW a \in Address, Skewed(g, k, a), NEW fs,
           Within(g, fs), Creations(g, fs)
    PROVE  Creations(k, fs)
<1> DEFINE n == Len(g.journal)
<1>1. Len(k.journal) = n /\ n \in Nat
    BY DEF History, Sound, World, Skewed
<1>2. ASSUME NEW f \in DOMAIN fs, fs[f].creates # NoAddress, NEW i \in fs[f].journal_i + 1 .. n
      PROVE  InCreation(Unwound(k, i).accounts[fs[f].creates])
  <2>1. fs[f].creates \in Address /\ fs[f].journal_i \in 1 .. n - 1
    <3>1. fs \in Seq(FrameType) /\ f \in 1 .. Len(fs)
      BY DEF Within
    <3>2. fs[f] \in FrameType
      BY <3>1
    <3> QED
      BY <1>2, <3>2 DEF Within, FrameType
  <2>2. i \in 0 .. n
    BY <1>1, <2>1
  <2>3. InCreation(Unwound(g, i).accounts[fs[f].creates])
    BY <1>2 DEF Creations
  <2> QED
    BY <2>1, <2>2, <2>3, SkewedPast, PeersAgree
<1> QED
    BY <1>1, <1>2 DEF Creations

-----------------------------------------------------------------------------
(* Every step is a step of SnapshotStack                                   *)

\* The invariant.
SnapshotInv ==
    /\ StackInv
    /\ db \in Databases
    /\ intact \in BOOLEAN
    /\ History(js)
    /\ Creations(js, frames)

\* The invariant and the step of the abstract specification.
Simulates == SnapshotInv' /\ [Snapshots!Next]_Snapshots!vars

\* The refinement mapping in terms of any state and logs, before and after.
LEMMA SavedNow ==
    /\ Current = CurrentOf(js, logs)
    /\ Current' = CurrentOf(js', logs')
    /\ Saved = [k \in DOMAIN frames |->
                   SavedOf(js, logs, frames[k].journal_i, frames[k].log_i)]
    /\ Saved' = [k \in DOMAIN frames' |->
                   SavedOf(js', logs', frames'[k].journal_i, frames'[k].log_i)]
BY DEF Current, CurrentOf, Saved, SavedAt, SavedOf

\* The checkpoints lie inside the journal.
LEMMA StackWithin ==
    ASSUME StackInv
    PROVE  /\ Within(js, frames) /\ Len(js.journal) \in Nat \ {0}
           /\ \A k \in DOMAIN frames : /\ frames[k].journal_i \in 0 .. Len(js.journal) - 1
                                       /\ frames[k].log_i \in 0 .. Len(logs)
<1>1. Within(js, frames) /\ Len(js.journal) \in Nat \ {0}
    BY DEF StackInv, CheckpointsNested, Within, Shaped
<1>2. ASSUME NEW k \in DOMAIN frames
      PROVE  /\ frames[k].journal_i \in 0 .. Len(js.journal) - 1
             /\ frames[k].log_i \in 0 .. Len(logs)
  <2>1. /\ frames[k].journal_i \in 1 .. Len(js.journal) - 1
        /\ frames[k].log_i <= Len(logs) /\ logs \in Seq(Address)
        /\ frames \in Seq(FrameType)
    BY DEF StackInv, CheckpointsNested
  <2>2. frames[k] \in FrameType
    BY <2>1
  <2> QED
    BY <1>1, <2>1, <2>2 DEF FrameType
<1> QED
    BY <1>1, <1>2

\* An operation that journals what it changes is an update.
LEMMA GrowStep ==
    ASSUME SnapshotInv, StackInv', Grows(js, js', {}), logs' = logs,
           frames' = frames, db' = db, intact' \in BOOLEAN,
           outcome' \notin Snapshots!Promises
    PROVE  Simulates
<1>1. History(js) /\ Creations(js, frames) /\ StackInv
    BY DEF SnapshotInv
<1>2. History(js')
    BY <1>1, HistoryGrows
<1>3. History(js)'
    BY <1>2 DEF History, Pristine
<1>4. Creations(js', frames)
    BY <1>1, StackWithin, CreationsGrow
<1>5. Creations(js, frames)'
    BY <1>4
<1>6. Saved' = Saved
  <2>1. \A k \in DOMAIN frames :
           SavedOf(js', logs, frames[k].journal_i, frames[k].log_i)
              = SavedOf(js, logs, frames[k].journal_i, frames[k].log_i)
    BY <1>1, StackWithin, SavedGrows
  <2> QED
    BY <2>1, SavedNow
<1>7. Snapshots!Update
    BY <1>6 DEF Snapshots!Update
<1> QED
    BY <1>3, <1>5, <1>7 DEF Simulates, SnapshotInv, Snapshots!Next

\* The same for Operation.
LEMMA OperationStep ==
    ASSUME SnapshotInv, StackInv', NEW k, NEW result \in {"ok", "failed", "panic"},
           Operation(k, result), Grows(js, k, {})
    PROVE  Simulates
<1>1. /\ js' = k /\ logs' = logs /\ frames' = frames /\ db' = db /\ outcome' = result
      /\ intact' = (intact /\ result # "overflow")
    BY DEF Operation
<1>2. intact' \in BOOLEAN
    BY <1>1 DEF SnapshotInv
<1>3. result \notin Snapshots!Promises
    BY DEF Snapshots!Promises
<1> QED
    BY <1>1, <1>2, <1>3, GrowStep

\* What a checkpoint remembers, once a debit is missing from the journal.
LEMMA SavedSkewed ==
    ASSUME NEW g, History(g), NEW k, NEW a \in Address, Skewed(g, k, a),
           NEW i \in 0 .. Len(g.journal), NEW lg, NEW n
    PROVE  Snapshots!OnlyBalances(SavedOf(g, lg, i, n), SavedOf(k, lg, i, n), a)
<1> DEFINE c == Unwound(g, i)
           d == Unwound(k, i)
           T == {b \in UnwoundTouched(g, i) : c.accounts[b] # Absent} \ {Precompile3}
           lg2 == SubSeq(lg, 1, n)
<1>1. /\ c.accounts \in Accounts /\ d.accounts \in Accounts
      /\ \A b \in Address : Peers(c.accounts[b], d.accounts[b])
      /\ \A b \in Address \ {a} : c.accounts[b] = d.accounts[b]
      /\ d.transient_storage = c.transient_storage
  <2>1. c \in CoreType
    BY DEF History
  <2>2. /\ d \in CoreType
        /\ \A b \in Address : Peers(c.accounts[b], d.accounts[b])
        /\ \A b \in Address \ {a} : c.accounts[b] = d.accounts[b]
        /\ d.transient_storage = c.transient_storage
    BY SkewedPast
  <2> HIDE DEF c, d
  <2> QED
    BY <2>1, <2>2 DEF CoreType
<1>2. g.touched \subseteq Address /\ UnwoundTouched(k, i) = UnwoundTouched(g, i)
    BY DEF History, Sound, World, Skewed, UnwoundTouched, EntriesAfter
<1> HIDE DEF c, d
<1>3. {b \in UnwoundTouched(k, i) : d.accounts[b] # Absent} \ {Precompile3} = T
  <2>1. \A b \in Address : c.accounts[b] = Absent <=> d.accounts[b] = Absent
    BY <1>1, PeersAgree
  <2> QED
    BY <1>2, <2>1 DEF UnwoundTouched
<1> HIDE DEF T, lg2
<1> DEFINE x == [accounts |-> c.accounts, transient_storage |-> c.transient_storage,
                 touched |-> T, logs |-> lg2]
           y == [accounts |-> d.accounts, transient_storage |-> c.transient_storage,
                 touched |-> T, logs |-> lg2]
<1>4. SavedOf(g, lg, i, n) = x /\ SavedOf(k, lg, i, n) = y
    BY <1>1, <1>3 DEF SavedOf, T, lg2, c, d
<1>5. CASE c.accounts[a] = d.accounts[a]
  <2>1. c.accounts = d.accounts
    BY <1>1, <1>5 DEF Accounts
  <2> QED
    BY <1>4, <2>1 DEF Snapshots!OnlyBalances
<1>6. CASE c.accounts[a] # d.accounts[a]
  <2> DEFINE u == c.accounts[a]
             w == d.accounts[a]
  <2>1. u \in Account /\ w \in Account /\ SameButBalances(u, w)
    BY <1>1, <1>6 DEF Peers
  <2>2. w = [u EXCEPT !.balances = w.balances]
    <3> HIDE DEF u, w
    <3> QED
      BY <2>1 DEF Account, SameButBalances
  <2>3. d.accounts = [c.accounts EXCEPT ![a] = w]
    BY <1>1 DEF Accounts
  <2>4. d.accounts = [c.accounts EXCEPT ![a].balances = w.balances]
    BY <2>2, <2>3
  <2>5. y = [x EXCEPT !.accounts[a].balances = y.accounts[a].balances]
    BY <2>4
  <2>6. y.accounts[a] # x.accounts[a]
    BY <1>6
  <2> HIDE DEF x, y
  <2> QED
    BY <1>4, <2>5, <2>6 DEF Snapshots!OnlyBalances
<1> QED
    BY <1>5, <1>6

\* A transfer whose receiver would overflow: the debit that is missing from
\* the journal changes what the checkpoints remember, and nothing else.
LEMMA OverflowStep ==
    ASSUME SnapshotInv, StackInv', NEW g, Grows(js, g, {}), NEW k, NEW a \in Address,
           Skewed(g, k, a), Operation(k, "overflow")
    PROVE  Simulates
<1>1. /\ js' = k /\ frames' = frames /\ db' = db /\ outcome' = "overflow" /\ logs' = logs
      /\ intact' = (intact /\ "overflow" # "overflow")
    BY DEF Operation
<1>2. History(js) /\ Creations(js, frames) /\ StackInv /\ db \in Databases
    BY DEF SnapshotInv
<1>3. History(g)
    BY <1>2, HistoryGrows
<1>4. Creations(g, frames) /\ Len(g.journal) = Len(js.journal)
  <2>1. Creations(g, frames)
    BY <1>2, StackWithin, CreationsGrow
  <2> QED
    BY <2>1 DEF Grows
<1>5. History(k) /\ Creations(k, frames)
  <2>1. Within(g, frames)
    BY <1>2, <1>4, StackWithin DEF Within
  <2> QED
    BY <1>3, <1>4, <2>1, HistorySkewed, CreationsSkewed
<1>6. History(js)' /\ Creations(js, frames)'
    BY <1>1, <1>5 DEF History, Pristine
<1>7. Len(Saved') = Len(Saved)
  <2> DEFINE n == Len(frames)
  <2>1. DOMAIN frames = 1 .. n /\ n \in Nat
    BY <1>2 DEF StackInv
  <2> HIDE DEF n
  <2>2. DOMAIN Saved = 1 .. n /\ DOMAIN Saved' = 1 .. n
    BY <1>1, <2>1, SavedNow
  <2> QED
    BY <2>1, <2>2
<1>8. \A i \in 1 .. Len(Saved) : Snapshots!OnlyBalances(Saved[i], Saved'[i], a)
  <2>1. DOMAIN frames = 1 .. Len(frames) /\ Len(frames) \in Nat
    BY <1>2 DEF StackInv
  <2>2. DOMAIN Saved = 1 .. Len(frames)
    BY <2>1, SavedNow
  <2>3. Len(Saved) = Len(frames)
    BY <2>1, <2>2
  <2>4. ASSUME NEW f \in DOMAIN frames
        PROVE  Snapshots!OnlyBalances(Saved[f], Saved'[f], a)
    <3> DEFINE i == frames[f].journal_i
               m == frames[f].log_i
    <3>1. i \in 0 .. Len(js.journal) - 1 /\ i \in 0 .. Len(g.journal)
      BY <1>2, <1>4, StackWithin
    <3>2. Saved[f] = SavedOf(js, logs, i, m) /\ Saved'[f] = SavedOf(k, logs, i, m)
      BY <1>1, SavedNow
    <3>3. SavedOf(g, logs, i, m) = SavedOf(js, logs, i, m)
      BY <3>1, SavedGrows
    <3>4. Snapshots!OnlyBalances(SavedOf(g, logs, i, m), SavedOf(k, logs, i, m), a)
      BY <1>3, <3>1, SavedSkewed
    <3> QED
      BY <3>2, <3>3, <3>4
  <2> QED
    BY <2>1, <2>3, <2>4
<1>9. a \in DOMAIN Current.accounts
  <2>1. js.accounts \in Accounts /\ Current.accounts = js.accounts
    BY <1>2 DEF History, Sound, World, Current
  <2> QED
    BY <2>1 DEF Accounts
<1>10. Snapshots!Break
    BY <1>1, <1>7, <1>8, <1>9 DEF Snapshots!Break
<1> QED
    BY <1>1, <1>2, <1>6, <1>10 DEF Simulates, SnapshotInv, Snapshots!Next

\* A log is an update: the checkpoints remember only the logs before them.
LEMMA LogStep ==
    ASSUME SnapshotInv, StackInv', NEW a \in Address, PushLog(a)
    PROVE  Simulates
<1>1. /\ js' = js /\ frames' = frames /\ db' = db /\ intact' = intact /\ outcome' = "ok"
      /\ logs' = Append(logs, a)
    BY DEF PushLog
<1>2. History(js) /\ Creations(js, frames) /\ StackInv
    BY DEF SnapshotInv
<1>3. History(js)' /\ Creations(js, frames)'
    BY <1>1, <1>2 DEF History, Pristine
<1>4. Saved' = Saved
  <2>1. ASSUME NEW k \in DOMAIN frames
        PROVE  SavedOf(js, logs', frames[k].journal_i, frames[k].log_i)
                  = SavedOf(js, logs, frames[k].journal_i, frames[k].log_i)
    <3>1. logs \in Seq(Address) /\ frames[k].log_i \in 0 .. Len(logs)
      BY <1>2, StackWithin DEF StackInv
    <3> DEFINE n == frames[k].log_i
    <3> HIDE DEF n
    <3>2. SubSeq(Append(logs, a), 1, n) = SubSeq(logs, 1, n)
      BY <3>1 DEF n
    <3>3. SubSeq(logs', 1, n) = SubSeq(logs, 1, n)
      BY <1>1, <3>2
    <3> QED
      BY <3>3 DEF SavedOf, n
  <2> QED
    BY <1>1, <2>1, SavedNow
<1>5. Snapshots!Update
    BY <1>1, <1>4 DEF Snapshots!Update, Snapshots!Promises
<1> QED
    BY <1>1, <1>3, <1>5 DEF Simulates, SnapshotInv, Snapshots!Next

\* Opening a frame, whose vector may already hold journaled changes (the
\* account it creates), is the abstract Enter.
LEMMA EnterStep ==
    ASSUME SnapshotInv, StackInv', NEW a \in Address \cup {NoAddress},
           Grows(OpenVector(js), js', {}),
           a # NoAddress => InCreation(js'.accounts[a]) /\ ~InCreation(js.accounts[a]),
           frames' = Append(frames, Frame(a)), logs' = logs, db' = db,
           intact' = intact, outcome' = "ok"
    PROVE  Simulates
<1> DEFINE n == Len(js.journal)
           j == OpenVector(js)
<1>1. History(js) /\ Creations(js, frames) /\ StackInv
    BY DEF SnapshotInv
<1>2. Sound(js) /\ n \in Nat \ {0} /\ js \in World /\ js.journal \in Seq(Vector)
    BY <1>1, StackWithin DEF History, Sound, World, Vector
<1>3. Grows(j, js', {})
    OBVIOUS
<1>4. History(j) /\ Len(j.journal) = n + 1
    BY <1>1, HistoryOpen
<1>5. Creations(j, frames) /\ Within(j, frames)
    BY <1>1, StackWithin, CreationsOpen
<1> HIDE DEF j
<1>6. History(js')
    BY <1>3, <1>4, HistoryGrows
<1>7. Creations(js', frames)
    BY <1>3, <1>4, <1>5, CreationsGrow
<1>8. js' \in World /\ Len(js'.journal) = n + 1
    BY <1>3, <1>4 DEF Grows
<1>9. /\ frames \in Seq(FrameType) /\ Frame(a) \in FrameType /\ Frame(a).creates = a
      /\ Frame(a).journal_i = n /\ Frame(a).log_i = Len(logs) /\ logs \in Seq(Address)
    BY <1>1, <1>2 DEF StackInv, Frame, FrameType
<1>10. ASSUME a # NoAddress, NEW k \in DOMAIN frames PROVE frames[k].creates # a
  <2>1. Unwound(js, n).accounts = js.accounts
    <3>1. Unwound(js, n) = Core(js)
      BY <1>2, PastPresent
    <3> QED
      BY <3>1 DEF Core
  <2>2. n \in frames[k].journal_i + 1 .. n
    BY <1>1, <1>2, StackWithin
  <2>3. frames[k].creates # NoAddress => InCreation(js.accounts[frames[k].creates])
    BY <1>1, <2>1, <2>2 DEF Creations
  <2> QED
    BY <1>10, <2>3
<1>11. Creations(js', Append(frames, Frame(a)))
  <2> DEFINE f == Frame(a)
  <2>1. f.journal_i + 1 = Len(js'.journal)
    BY <1>2, <1>8, <1>9
  <2>2. f.creates # NoAddress => /\ InCreation(js'.accounts[f.creates])
                                 /\ \A k \in DOMAIN frames : frames[k].creates # f.creates
    BY <1>9, <1>10
  <2> HIDE DEF f
  <2> QED
    BY <1>7, <1>8, <1>9, <2>1, <2>2, CreationsPush DEF f
<1>12. History(js)' /\ Creations(js, frames)'
    BY <1>6, <1>11 DEF History, Pristine
<1>13. \A k \in DOMAIN frames :
          SavedOf(js', logs, frames[k].journal_i, frames[k].log_i)
             = SavedOf(js, logs, frames[k].journal_i, frames[k].log_i)
  <2> SUFFICES ASSUME NEW k \in DOMAIN frames
               PROVE  SavedOf(js', logs, frames[k].journal_i, frames[k].log_i)
                         = SavedOf(js, logs, frames[k].journal_i, frames[k].log_i)
    OBVIOUS
  <2>1. frames[k].journal_i \in 0 .. n /\ frames[k].journal_i \in 0 .. Len(j.journal) - 1
    BY <1>1, <1>2, <1>4, StackWithin
  <2> QED
    BY <1>2, <1>3, <2>1, SavedGrows, SavedOpen DEF j
<1>14. SavedOf(js', logs, n, Len(logs)) = CurrentOf(js, logs)
  <2>1. n \in 0 .. n /\ n \in 0 .. Len(j.journal) - 1
    BY <1>2, <1>4
  <2>2. SavedOf(js', logs, n, Len(logs)) = SavedOf(j, logs, n, Len(logs))
    BY <1>3, <2>1, SavedGrows
  <2>3. SavedOf(j, logs, n, Len(logs)) = CurrentOf(js, logs)
    BY <1>2, <1>9, <2>1, SavedOpen DEF j
  <2> QED
    BY <2>2, <2>3
<1>15. Saved' = Append(Saved, Current)
  <2> DEFINE m == Len(frames)
  <2>1. /\ m \in Nat /\ DOMAIN frames = 1 .. m /\ DOMAIN frames' = 1 .. m + 1
        /\ frames'[m + 1] = Frame(a) /\ \A k \in 1 .. m : frames'[k] = frames[k]
    BY <1>9
  <2> HIDE DEF m
  <2>2. /\ Saved \in Seq({Saved[k] : k \in 1 .. m}) /\ Len(Saved) = m
        /\ Saved = [k \in 1 .. m |-> Saved[k]]
    <3>1. Saved = [k \in 1 .. m |-> SavedAt(frames[k])]
      BY <2>1 DEF Saved
    <3> QED
      BY <2>1, <3>1
  <2>3. Append(Saved, Current) = [k \in 1 .. m + 1 |-> IF k = m + 1 THEN Current ELSE Saved[k]]
    BY <2>1, <2>2
  <2>4. \A k \in 1 .. m + 1 : Saved'[k] = IF k = m + 1 THEN Current ELSE Saved[k]
    <3> SUFFICES ASSUME NEW k \in 1 .. m + 1
                 PROVE  Saved'[k] = IF k = m + 1 THEN Current ELSE Saved[k]
      OBVIOUS
    <3>1. Saved'[k] = SavedOf(js', logs, frames'[k].journal_i, frames'[k].log_i)
      BY <2>1, SavedNow
    <3>2. CASE k = m + 1
      BY <3>1, <3>2, <2>1, <1>9, <1>14, SavedNow
    <3>3. CASE k # m + 1
      <4>1. k \in 1 .. m /\ k \in DOMAIN frames
        BY <2>1, <3>3
      <4> QED
        BY <3>1, <3>3, <4>1, <2>1, <1>13, SavedNow
    <3> QED
      BY <3>2, <3>3
  <2>5. Saved' = [k \in 1 .. m + 1 |-> Saved'[k]]
    BY <2>1, SavedNow
  <2> QED
    BY <2>3, <2>4, <2>5
<1>16. Snapshots!Enter
    BY <1>15 DEF Snapshots!Enter, Snapshots!Promises
<1> QED
    BY <1>12, <1>16 DEF Simulates, SnapshotInv, Snapshots!Next

\* A creation that is refused opens its frame's vector, may journal the
\* account's creation, and reverts both: it changes nothing.
LEMMA RefuseStep ==
    ASSUME SnapshotInv, StackInv', NEW k, Grows(OpenVector(js), k, {}),
           Operation(RevertTo(k, Len(js.journal)), "refused")
    PROVE  Simulates
<1> DEFINE n == Len(js.journal)
           j == OpenVector(js)
<1>1. /\ js' = RevertTo(k, n) /\ logs' = logs /\ frames' = frames /\ db' = db
      /\ outcome' = "refused" /\ intact' = (intact /\ "refused" # "overflow")
    BY DEF Operation
<1>2. intact \in BOOLEAN /\ intact' = intact
    BY <1>1 DEF SnapshotInv
<1>3. History(js) /\ Creations(js, frames) /\ StackInv
    BY DEF SnapshotInv
<1>4. Sound(js) /\ n \in Nat \ {0} /\ logs \in Seq(Address)
    BY <1>3, StackWithin DEF History, StackInv
<1>5. Grows(j, k, {})
    OBVIOUS
<1>6. History(j) /\ Len(j.journal) = n + 1
    BY <1>3, HistoryOpen
<1>7. Creations(j, frames) /\ Within(j, frames)
    BY <1>3, StackWithin, CreationsOpen
<1> HIDE DEF j
<1>8. History(k) /\ Len(k.journal) = n + 1
    BY <1>5, <1>6, HistoryGrows DEF Grows
<1>9. Creations(k, frames) /\ Within(k, frames)
    BY <1>5, <1>6, <1>7, <1>8, CreationsGrow DEF Within
<1>10. n \in 1 .. Len(k.journal) /\ n \in 0 .. Len(k.journal) /\ n \in 0 .. n
      /\ n \in 0 .. Len(j.journal) - 1
    BY <1>4, <1>6, <1>8
<1>11. History(js') /\ Creations(js', frames)
    BY <1>1, <1>8, <1>9, <1>10, HistoryRevert, CreationsRevert
<1>12. History(js)' /\ Creations(js, frames)'
    BY <1>1, <1>11 DEF History, Pristine
<1>13. Sound(k) /\ Loading(k) /\ Unwound(k, n) \in CoreType
    BY <1>8, <1>10 DEF History
<1>14. \A i \in 0 .. n : \A m :
          /\ SavedOf(js', logs, i, m) = SavedOf(k, logs, i, m)
          /\ SavedOf(j, logs, i, m) = SavedOf(js, logs, i, m)
          /\ SavedOf(k, logs, i, m) = SavedOf(j, logs, i, m)
  <2> SUFFICES ASSUME NEW i \in 0 .. n, NEW m
               PROVE  /\ SavedOf(js', logs, i, m) = SavedOf(k, logs, i, m)
                      /\ SavedOf(j, logs, i, m) = SavedOf(js, logs, i, m)
                      /\ SavedOf(k, logs, i, m) = SavedOf(j, logs, i, m)
    OBVIOUS
  <2>1. i \in 0 .. Len(j.journal) - 1
    BY <1>4, <1>6
  <2>2. SavedOf(js', logs, i, m) = SavedOf(k, logs, i, m)
    <3> HIDE DEF n
    <3>1. \A l \in 0 .. n : \A lg, p : SavedOf(RevertTo(k, n), lg, l, p) = SavedOf(k, lg, l, p)
      BY <1>10, <1>13, SavedRevert
    <3> QED
      BY <1>1, <3>1
  <2>3. SavedOf(j, logs, i, m) = SavedOf(js, logs, i, m)
    BY <1>4, SavedOpen DEF j
  <2>4. SavedOf(k, logs, i, m) = SavedOf(j, logs, i, m)
    BY <1>5, <2>1, SavedGrows
  <2> QED
    BY <2>2, <2>3, <2>4
<1>15. Saved' = Saved
  <2>1. \A f \in DOMAIN frames : frames[f].journal_i \in 0 .. n
    BY <1>3, <1>4, StackWithin
  <2> QED
    BY <1>1, <1>14, <2>1, SavedNow
<1>16. Current' = Current
  <2>1. SubSeq(logs, 1, Len(logs)) = logs
    BY <1>4
  <2>2. CurrentOf(js', SubSeq(logs, 1, Len(logs))) = SavedOf(k, logs, n, Len(logs))
    BY <1>1, <1>10, <1>13, SavedRevert
  <2>3. SavedOf(k, logs, n, Len(logs)) = SavedOf(j, logs, n, Len(logs))
    BY <1>10, <1>14
  <2>4. SavedOf(j, logs, n, Len(logs)) = CurrentOf(js, logs)
    BY <1>4, <1>10, SavedOpen DEF j
  <2> QED
    BY <1>1, <2>1, <2>2, <2>3, <2>4, SavedNow
<1>17. Snapshots!Refuse
    BY <1>1, <1>2, <1>15, <1>16 DEF Snapshots!Refuse
<1> QED
    BY <1>1, <1>2, <1>12, <1>17 DEF Simulates, SnapshotInv, Snapshots!Next

\* The worlds remembered once the newest frame is closed.
LEMMA PopSaved ==
    ASSUME StackInv, frames # << >>, PopFrame,
           \A k \in 1 .. Len(frames) - 1 :
              SavedOf(js', logs', frames[k].journal_i, frames[k].log_i)
                 = SavedOf(js, logs, frames[k].journal_i, frames[k].log_i)
    PROVE  /\ Saved # << >> /\ Len(Saved) = Len(frames)
           /\ Saved[Len(frames)] = SavedOf(js, logs, Top.journal_i, Top.log_i)
           /\ Saved' = SubSeq(Saved, 1, Len(Saved) - 1)
<1> DEFINE m == Len(frames)
<1>1. /\ m \in Nat \ {0} /\ DOMAIN frames = 1 .. m /\ DOMAIN frames' = 1 .. m - 1
      /\ \A k \in 1 .. m - 1 : frames'[k] = frames[k]
    BY DEF StackInv, PopFrame
<1> HIDE DEF m
<1>2. /\ Saved \in Seq({Saved[k] : k \in 1 .. m}) /\ Len(Saved) = m
      /\ Saved = [k \in 1 .. m |-> Saved[k]]
  <2>1. Saved = [k \in 1 .. m |-> SavedAt(frames[k])]
    BY <1>1 DEF Saved
  <2> QED
    BY <1>1, <2>1
<1>3. SubSeq(Saved, 1, m - 1) = [k \in 1 .. m - 1 |-> Saved[k]]
    BY <1>1, <1>2
<1>4. \A k \in 1 .. m - 1 : Saved'[k] = Saved[k]
  <2> SUFFICES ASSUME NEW k \in 1 .. m - 1 PROVE Saved'[k] = Saved[k]
    OBVIOUS
  <2>1. k \in DOMAIN frames /\ k \in DOMAIN frames' /\ frames'[k] = frames[k]
    BY <1>1
  <2>2. SavedOf(js', logs', frames[k].journal_i, frames[k].log_i)
           = SavedOf(js, logs, frames[k].journal_i, frames[k].log_i)
    BY DEF m
  <2> QED
    BY <2>1, <2>2, SavedNow
<1>5. Saved' = [k \in 1 .. m - 1 |-> Saved'[k]]
    BY <1>1, SavedNow
<1>6. Saved' = SubSeq(Saved, 1, m - 1)
    BY <1>3, <1>4, <1>5
<1>7. Saved # << >> /\ Saved[m] = SavedOf(js, logs, Top.journal_i, Top.log_i)
    BY <1>1, <1>2, SavedNow DEF Top, m
<1> QED
    BY <1>2, <1>6, <1>7 DEF m

\* The newest frame.
LEMMA TopFrame ==
    ASSUME StackInv, frames # << >>
    PROVE  /\ Top \in FrameType
           /\ Top.journal_i \in 1 .. Len(js.journal) - 1
           /\ Top.log_i \in 0 .. Len(logs)
           /\ Len(frames) \in Nat \ {0} /\ DOMAIN frames = 1 .. Len(frames)
           /\ \A k \in 1 .. Len(frames) - 1 :
                 /\ frames[k].journal_i \in 0 .. Top.journal_i
                 /\ frames[k].log_i \in 0 .. Top.log_i
                 /\ frames[k].journal_i \in 1 .. Len(js.journal) - 1
<1> DEFINE m == Len(frames)
<1>1. m \in Nat \ {0} /\ DOMAIN frames = 1 .. m /\ m \in DOMAIN frames
    BY DEF StackInv
<1>2. Top \in FrameType /\ Top = frames[m]
    BY <1>1 DEF StackInv, Top
<1>3. \A k \in DOMAIN frames : frames[k].journal_i \in 1 .. Len(js.journal) - 1
    BY DEF StackInv, CheckpointsNested
<1>4. \A k \in DOMAIN frames : frames[k].log_i \in 0 .. Len(logs)
    BY StackWithin
<1>5. Len(js.journal) \in Nat /\ Len(logs) \in Nat
    BY DEF StackInv, Shaped
<1>6. ASSUME NEW k \in 1 .. m - 1
      PROVE  /\ frames[k].journal_i \in 0 .. Top.journal_i
             /\ frames[k].log_i \in 0 .. Top.log_i
             /\ frames[k].journal_i \in 1 .. Len(js.journal) - 1
  <2>1. k \in DOMAIN frames /\ k < m
    BY <1>1
  <2>2. frames[k].journal_i < frames[m].journal_i /\ frames[k].log_i <= frames[m].log_i
    BY <1>1, <2>1 DEF StackInv, CheckpointsNested
  <2> QED
    BY <1>1, <1>2, <1>3, <1>4, <1>5, <2>1, <2>2
<1> QED
    BY <1>1, <1>2, <1>3, <1>4, <1>6

\* A frame that succeeds, storing the code of the account it created if it
\* created one, is the abstract Leave.
LEMMA LeaveStep ==
    ASSUME SnapshotInv, StackInv', frames # << >>, PopFrame,
           Grows(js, js', IF Top.creates = NoAddress THEN {} ELSE {Top.creates}),
           logs' = logs, db' = db, intact' = intact, outcome' = "committed"
    PROVE  Simulates
<1> DEFINE n == Len(js.journal)
           m == Len(frames)
           fs == SubSeq(frames, 1, m - 1)
           X == IF Top.creates = NoAddress THEN {} ELSE {Top.creates}
<1>1. History(js) /\ Creations(js, frames) /\ StackInv
    BY DEF SnapshotInv
<1>2. /\ m \in Nat \ {0} /\ DOMAIN fs = 1 .. m - 1 /\ fs \in Seq(FrameType)
      /\ \A k \in 1 .. m - 1 : fs[k] = frames[k] /\ k \in DOMAIN frames /\ k # m
      /\ frames' = fs /\ m \in DOMAIN frames /\ Top = frames[m] /\ n \in Nat
      /\ frames \in Seq(FrameType)
    BY <1>1 DEF StackInv, PopFrame, Top, Shaped
<1>3. \A k \in 1 .. m - 1 : frames[k].journal_i \in 1 .. n - 1
    BY <1>1, TopFrame
<1>4. Creations(js, fs)
    BY <1>1, <1>2, CreationsPop
<1>5. Within(js, fs)
  <2> HIDE DEF fs
  <2> QED
    BY <1>2, <1>3 DEF Within
<1>6. Grows(js, js', X)
    OBVIOUS
<1>7. \A k \in DOMAIN fs : fs[k].creates \notin X
  <2> HIDE DEF fs
  <2> QED
    BY <1>1, <1>2 DEF Creations
<1> HIDE DEF X, fs
<1>8. History(js') /\ Creations(js', fs)
    BY <1>1, <1>4, <1>5, <1>6, <1>7, HistoryGrows, CreationsGrow
<1>9. History(js)' /\ Creations(js, frames)'
    BY <1>2, <1>8 DEF History, Pristine
<1>10. \A k \in 1 .. m - 1 :
          SavedOf(js', logs', frames[k].journal_i, frames[k].log_i)
             = SavedOf(js, logs, frames[k].journal_i, frames[k].log_i)
  <2> SUFFICES ASSUME NEW k \in 1 .. m - 1
               PROVE  SavedOf(js', logs, frames[k].journal_i, frames[k].log_i)
                         = SavedOf(js, logs, frames[k].journal_i, frames[k].log_i)
    OBVIOUS
  <2>1. frames[k].journal_i \in 0 .. n - 1
    BY <1>2, <1>3
  <2> QED
    BY <1>6, <2>1, SavedGrows
<1>11. Saved # << >> /\ Saved' = SubSeq(Saved, 1, Len(Saved) - 1)
    BY <1>1, <1>10, PopSaved
<1>12. Snapshots!Leave
    BY <1>11 DEF Snapshots!Leave
<1> QED
    BY <1>9, <1>12 DEF Simulates, SnapshotInv, Snapshots!Next

\* checkpoint_revert is the abstract Revert.
LEMMA RevertStep ==
    ASSUME SnapshotInv, StackInv', CheckpointRevert
    PROVE  Simulates
<1>1. /\ frames # << >> /\ PopFrame /\ js' = RevertTo(js, Top.journal_i)
      /\ logs' = SubSeq(logs, 1, Top.log_i) /\ outcome' = "reverted"
      /\ intact' = intact /\ db' = db
    BY DEF CheckpointRevert
<1> DEFINE n == Top.journal_i
           m == Len(frames)
           fs == SubSeq(frames, 1, m - 1)
<1>2. History(js) /\ Creations(js, frames) /\ StackInv
    BY DEF SnapshotInv
<1>3. /\ m \in Nat \ {0} /\ DOMAIN fs = 1 .. m - 1 /\ fs \in Seq(FrameType)
      /\ \A k \in 1 .. m - 1 : fs[k] = frames[k]
      /\ frames' = fs /\ Len(js.journal) \in Nat
      /\ frames \in Seq(FrameType) /\ logs \in Seq(Address)
    BY <1>1, <1>2 DEF StackInv, PopFrame, Shaped
<1>4. /\ n \in 1 .. Len(js.journal) - 1 /\ Top.log_i \in 0 .. Len(logs)
      /\ \A k \in 1 .. m - 1 : /\ frames[k].journal_i \in 0 .. n
                               /\ frames[k].log_i \in 0 .. Top.log_i
                               /\ frames[k].journal_i \in 1 .. Len(js.journal) - 1
    BY <1>1, <1>2, TopFrame
<1>5. Creations(js, fs)
    BY <1>1, <1>2, <1>3, CreationsPop
<1> HIDE DEF fs, n
<1>6. Within(js, fs)
    BY <1>3, <1>4 DEF Within
<1>7. n \in 1 .. Len(js.journal) /\ n \in 0 .. Len(js.journal)
    BY <1>3, <1>4
<1>8. js' = RevertTo(js, n)
    BY <1>1 DEF n
<1>9. History(js') /\ Creations(js', fs)
    BY <1>2, <1>5, <1>6, <1>7, <1>8, HistoryRevert, CreationsRevert
<1>10. History(js)' /\ Creations(js, frames)'
    BY <1>1, <1>3, <1>9 DEF History, Pristine
<1>11. Sound(js) /\ Loading(js) /\ Unwound(js, n) \in CoreType
    BY <1>2, <1>7 DEF History
<1>12. \A k \in 1 .. m - 1 :
          SavedOf(js', logs', frames[k].journal_i, frames[k].log_i)
             = SavedOf(js, logs, frames[k].journal_i, frames[k].log_i)
  <2> SUFFICES ASSUME NEW k \in 1 .. m - 1
               PROVE  SavedOf(js', logs', frames[k].journal_i, frames[k].log_i)
                         = SavedOf(js, logs, frames[k].journal_i, frames[k].log_i)
    OBVIOUS
  <2> DEFINE i == frames[k].journal_i
             p == frames[k].log_i
             q == Top.log_i
  <2>1. i \in 0 .. n /\ p \in 0 .. q /\ q \in 0 .. Len(logs)
    BY <1>4
  <2> HIDE DEF i, p, q
  <2>2. SavedOf(js', logs', i, p) = SavedOf(js, logs', i, p)
    BY <1>7, <1>8, <1>11, <2>1, SavedRevert
  <2>3. SubSeq(SubSeq(logs, 1, q), 1, p) = SubSeq(logs, 1, p)
    BY <1>3, <2>1
  <2>4. SubSeq(logs', 1, p) = SubSeq(logs, 1, p)
    BY <1>1, <2>3 DEF q
  <2>5. SavedOf(js, logs', i, p) = SavedOf(js, logs, i, p)
    BY <2>4 DEF SavedOf
  <2> QED
    BY <2>2, <2>5 DEF i, p
<1>13. /\ Saved # << >> /\ Saved' = SubSeq(Saved, 1, Len(Saved) - 1) /\ Len(Saved) = m
       /\ Saved[m] = SavedOf(js, logs, n, Top.log_i)
    BY <1>1, <1>2, <1>12, PopSaved DEF n
<1>14. Current' = Saved[Len(Saved)]
  <2>1. CurrentOf(js', SubSeq(logs, 1, Top.log_i)) = SavedOf(js, logs, n, Top.log_i)
    BY <1>7, <1>8, <1>11, SavedRevert
  <2> QED
    BY <1>1, <1>13, <2>1, SavedNow
<1>15. Snapshots!Revert
    BY <1>1, <1>13, <1>14 DEF Snapshots!Revert
<1> QED
    BY <1>1, <1>10, <1>15 DEF Simulates, SnapshotInv, Snapshots!Next

\* The history of the empty world.
LEMMA NewHistory == NewJournaledState \in World /\ History(NewJournaledState)
<1> DEFINE j == NewJournaledState
<1>1. << << >> >> \in Seq(Seq(JournalEntry)) /\ << >> \in Seq(TokenId) /\ 0 \in Word
    BY BoundsAssumption
<1>2. /\ j.accounts = [a \in Address |-> Absent] /\ j.touched = {}
      /\ j.journal = << << >> >>
    BY DEF NewJournaledState
<1>3. j \in World
    BY <1>1 DEF NewJournaledState, World, Accounts
<1> HIDE DEF j
<1>4. \A a \in Address : Clean(j.accounts[a]) /\ Pristine(j.accounts[a], a)
    BY <1>2 DEF Clean, Unused, Pristine
<1>5. History(j)
    BY <1>2, <1>3, <1>4, HistoryFirst
<1> QED
    BY <1>3, <1>5 DEF j

\* clear and finalize: the next transaction starts with an empty world, no
\* checkpoint, and the promise renewed.
LEMMA ClearStep ==
    ASSUME SnapshotInv, StackInv', Clear
    PROVE  Simulates
<1>1. /\ js' = NewJournaledState /\ frames' = << >> /\ outcome' = "reset"
      /\ intact' = TRUE /\ db' = db
    BY DEF Clear
<1>2. History(js)'
    BY <1>1, NewHistory DEF History, Pristine
<1>3. Creations(js, frames)'
    BY <1>1 DEF Creations
<1>4. Saved' = << >>
    BY <1>1, SavedNow
<1>5. Snapshots!Reset
    BY <1>1, <1>4 DEF Snapshots!Reset
<1> QED
    BY <1>1, <1>2, <1>3, <1>5 DEF Simulates, SnapshotInv, Snapshots!Next

\* An account of the access list, with its slots: unless it is in use the
\* database has no storage for it, so a creation may still choose it.
Prepared(x, a, slots) ==
    [x EXCEPT !.storage =
       [k \in Slot |->
          IF x.storage[k] # Absent \/ k \notin slots THEN x.storage[k]
          ELSE [original |-> db.storage[<<a, k>>], present |-> db.storage[<<a, k>>]]]]

LEMMA PreparedClean ==
    ASSUME db \in Databases, NEW a \in Address, NEW x \in Account, Clean(x), Pristine(x, a),
           NEW slots
    PROVE  LET y == Prepared(x, a, slots)
           IN  y \in Account /\ y # Absent /\ Clean(y) /\ Pristine(y, a)
<1> DEFINE new == [k \in Slot |->
                     IF x.storage[k] # Absent \/ k \notin slots THEN x.storage[k]
                     ELSE [original |-> db.storage[<<a, k>>], present |-> db.storage[<<a, k>>]]]
           y == Prepared(x, a, slots)
<1>1. /\ db \in Database /\ Absent \notin Account /\ Absent \notin StorageSlot
      /\ db.basic[a].code = NoCode /\ db.basic[a].nonce = 0
            => \A k \in Slot : db.storage[<<a, k>>] = 0
    BY DatabasesAssumption, BoundsAssumption
<1>2. \A k \in Slot : db.storage[<<a, k>>] \in Word
    BY <1>1 DEF Database
<1>3. x # Absent /\ x.storage \in [Slot -> StorageSlot \cup {Absent}]
    BY <1>1 DEF Account
<1>4. new \in [Slot -> StorageSlot \cup {Absent}]
  <2>1. \A k \in Slot : [original |-> db.storage[<<a, k>>], present |-> db.storage[<<a, k>>]]
                           \in StorageSlot
    BY <1>2 DEF StorageSlot
  <2> QED
    BY <1>3, <2>1
<1>5. y = [x EXCEPT !.storage = new]
    BY DEF Prepared
<1> HIDE DEF y
<1>6. /\ y \in Account /\ y.code = x.code /\ y.nonce = x.nonce /\ y.created = x.created
      /\ y.storage = new
  <2> HIDE DEF new
  <2> QED
    BY <1>4, <1>5 DEF Account
<1>7. y # Absent
    BY <1>1, <1>6
<1>8. Pristine(y, a)
    BY <1>3, <1>6 DEF Pristine
<1>9. Clean(y)
  <2> SUFFICES ASSUME Unused(y)
               PROVE  ~y.created /\ \A k \in Slot : y.storage[k] \in {Absent, Slot0}
    BY DEF Clean
  <2>1. Unused(x)
    BY <1>3, <1>6 DEF Unused
  <2>2. ~x.created /\ \A k \in Slot : x.storage[k] \in {Absent, Slot0}
    BY <2>1 DEF Clean
  <2>3. \A k \in Slot : db.storage[<<a, k>>] = 0
    BY <1>1, <1>3, <2>1 DEF Unused, Pristine
  <2> QED
    BY <1>6, <2>2, <2>3 DEF Slot0
<1> QED
    BY <1>6, <1>7, <1>8, <1>9 DEF y

\* Loading the access list, before the first frame, is an update.
LEMMA InitialLoadStep ==
    ASSUME SnapshotInv, StackInv', NEW a \in Address, NEW slots,
           InitialAccountLoad(a, slots)
    PROVE  Simulates
<1> DEFINE j == IF Loaded(js, a) THEN js ELSE InsertAccount(js, a)
           x == j.accounts[a]
           k == [j EXCEPT !.accounts[a].storage =
                   [s \in Slot |->
                      IF x.storage[s] # Absent \/ s \notin slots THEN x.storage[s]
                      ELSE [original |-> db.storage[<<a, s>>],
                            present |-> db.storage[<<a, s>>]]]]
<1>1. Operation(k, "ok") /\ frames = << >> /\ js.journal = << << >> >>
    BY DEF InitialAccountLoad
<1> HIDE DEF k
<1>2. /\ js' = k /\ logs' = logs /\ frames' = frames /\ db' = db /\ outcome' = "ok"
      /\ intact' = (intact /\ "ok" # "overflow")
    BY <1>1 DEF Operation
<1>3. intact \in BOOLEAN /\ intact' = intact
    BY <1>2 DEF SnapshotInv
<1>4. History(js) /\ db \in Databases /\ js \in World /\ \A b \in js.touched : Loaded(js, b)
    BY DEF SnapshotInv, History, Sound
<1>5. \A b \in Address : Clean(js.accounts[b]) /\ Pristine(js.accounts[b], b)
  <2>1. /\ Unwound(js, 0).accounts = js.accounts /\ 0 \in 0 .. Len(js.journal)
    BY <1>1, <1>4, FirstPast
  <2> QED
    BY <1>4, <2>1 DEF History
<1>6. /\ js.accounts \in Accounts
      /\ js.balance_keys \in [Address -> SUBSET TokenId]
    BY <1>4 DEF World
<1>7. db \in Database /\ db.basic[a] \in AccountInfo
  <2>1. db \in Database
    BY <1>4, DatabasesAssumption
  <2> QED
    BY <2>1 DEF Database
<1>8. /\ j \in World /\ j.journal = js.journal /\ j.touched = js.touched
      /\ j.transient_storage = js.transient_storage
      /\ j.accounts = [js.accounts EXCEPT ![a] = x]
      /\ x \in Account /\ Clean(x) /\ Pristine(x, a)
  <2>1. CASE Loaded(js, a)
    <3>1. j = js /\ x = js.accounts[a]
      BY <2>1
    <3>2. x \in Account
      BY <1>6, <2>1, <3>1 DEF Accounts, Loaded
    <3>3. js.accounts = [js.accounts EXCEPT ![a] = js.accounts[a]]
      BY <1>6 DEF Accounts
    <3> HIDE DEF j, x
    <3> QED
      BY <1>4, <1>5, <3>1, <3>2, <3>3
  <2>2. CASE ~Loaded(js, a)
    <3> DEFINE y == AccountFrom(db.basic[a])
               A == [js.accounts EXCEPT ![a] = y]
               B == [js.balance_keys EXCEPT ![a] = db.basic[a].keys]
    <3>1. /\ y \in Account /\ y.code = db.basic[a].code /\ y.nonce = db.basic[a].nonce
          /\ ~y.created /\ \A s \in Slot : y.storage[s] = Absent
      BY <1>7 DEF AccountFrom, Account, AccountInfo
    <3>2. Clean(y) /\ Pristine(y, a)
      BY <3>1 DEF Clean, Pristine
    <3> HIDE DEF y
    <3>3. A \in Accounts /\ A[a] = y
      BY <1>6, <3>1 DEF Accounts
    <3>4. B \in [Address -> SUBSET TokenId]
      BY <1>6, <1>7 DEF AccountInfo
    <3> HIDE DEF A, B
    <3>5. j = [js EXCEPT !.accounts = A, !.balance_keys = B]
      BY <1>4, <2>2 DEF InsertAccount, World, A, B, y
    <3> HIDE DEF j
    <3>6. /\ j \in World /\ j.journal = js.journal /\ j.touched = js.touched
          /\ j.transient_storage = js.transient_storage /\ j.accounts = A
      BY <1>4, <3>3, <3>4, <3>5 DEF World
    <3> QED
      BY <3>1, <3>2, <3>3, <3>6 DEF A
  <2> QED
    BY <2>1, <2>2
<1> DEFINE z == Prepared(x, a, slots)
           C == [js.accounts EXCEPT ![a] = z]
<1> HIDE DEF x
<1>9. z \in Account /\ z # Absent /\ Clean(z) /\ Pristine(z, a)
    BY <1>4, <1>8, PreparedClean
<1>10. k = [j EXCEPT !.accounts = C]
  <2>1. k = [j EXCEPT !.accounts = [j.accounts EXCEPT ![a] = z]]
    <3> HIDE DEF j
    <3> QED
      BY <1>8 DEF k, x, Prepared, World
  <2>2. [j.accounts EXCEPT ![a] = z] = C
    <3> HIDE DEF z, j
    <3> QED
      BY <1>6, <1>8 DEF Accounts
  <2> QED
    BY <2>1, <2>2
<1> HIDE DEF z, j
<1>11. C \in Accounts /\ \A b \in Address : /\ Clean(C[b]) /\ Pristine(C[b], b)
                                            /\ js.accounts[b] # Absent => C[b] # Absent
    BY <1>5, <1>6, <1>9 DEF Accounts
<1> HIDE DEF C
<1>12. /\ k \in World /\ k.accounts = C /\ k.touched = js.touched /\ k.journal = js.journal
    BY <1>8, <1>10, <1>11 DEF World
<1>13. \A b \in k.touched : Loaded(k, b)
    BY <1>4, <1>11, <1>12 DEF Loaded, World
<1>14. History(k)
    BY <1>1, <1>11, <1>12, <1>13, HistoryFirst
<1>15. History(js)' /\ Creations(js, frames)'
    BY <1>1, <1>2, <1>14 DEF History, Pristine, Creations
<1>16. Saved' = Saved
    BY <1>1, <1>2, SavedNow
<1>17. Snapshots!Update
    BY <1>2, <1>3, <1>16 DEF Snapshots!Update, Snapshots!Promises
<1> QED
    BY <1>2, <1>3, <1>15, <1>17 DEF Simulates, SnapshotInv, Snapshots!Next

-----------------------------------------------------------------------------
(* The actions                                                             *)

\* What operations may rely on: a frame executes
\* only an account that has code or whose creation is under way.
LEMMA ExecutingUsed ==
    ASSUME SnapshotInv
    PROVE  /\ Sound(js) /\ db \in Database
           /\ \A a \in Address : Clean(js.accounts[a])
           /\ \A k \in DOMAIN frames :
                 frames[k].creates # NoAddress => InCreation(js.accounts[frames[k].creates])
           /\ \A a \in Address : Executing(a) => Loaded(js, a) /\ ~Unused(js.accounts[a])
<1> DEFINE n == Len(js.journal)
<1>1. History(js) /\ Creations(js, frames) /\ StackInv /\ db \in Databases
    BY DEF SnapshotInv
<1>2. Sound(js) /\ n \in Nat \ {0} /\ js.journal \in Seq(Vector)
    BY <1>1, StackWithin DEF History, Sound, World, Vector
<1>3. Unwound(js, n).accounts = js.accounts
  <2>1. Unwound(js, n) = Core(js)
    BY <1>2, PastPresent
  <2> QED
    BY <2>1 DEF Core
<1>4. \A a \in Address : Clean(js.accounts[a])
  <2>1. n \in 0 .. n
    BY <1>2
  <2> QED
    BY <1>1, <1>3, <2>1 DEF History
<1>5. ASSUME NEW k \in DOMAIN frames, frames[k].creates # NoAddress
      PROVE  InCreation(js.accounts[frames[k].creates])
  <2>1. n \in frames[k].journal_i + 1 .. n
    BY <1>1, <1>2, StackWithin
  <2> QED
    BY <1>1, <1>3, <1>5, <2>1 DEF Creations
<1>6. ASSUME NEW a \in Address, Executing(a) PROVE Loaded(js, a) /\ ~Unused(js.accounts[a])
  <2>1. a # NoAddress
    BY BoundsAssumption
  <2> QED
    BY <1>5, <1>6, <2>1 DEF Executing, Unused, InCreation
<1>7. db \in Database
    BY <1>1, DatabasesAssumption
<1> QED
    BY <1>1, <1>2, <1>4, <1>5, <1>6, <1>7

\* mint
LEMMA MintStep ==
    ASSUME SnapshotInv, StackInv', NEW a \in Address, NEW b \in Address, NEW s \in SubId,
           NEW n \in Amounts, Mint(a, b, s, n)
    PROVE  Simulates
<1> DEFINE t == TokenIdAddress[<<a, s>>]
           j0 == LoadNativeTokenIds(js)
           j == LoadAccount(j0, a)
           balance == j.accounts[b].balances[t]
           j1 == SetBalance(j, b, t, balance + n)
           j2 == [j1 EXCEPT !.token_ids = IF \E i \in DOMAIN @ : @[i] = t THEN @
                                          ELSE Append(@, t)]
           j3 == Push(j2, TokensMinted(b, t, n))
<1>1. \/ Operation(j, "panic") \/ Operation(j, "failed")
      \/ Loaded(j, b) /\ ~(balance + n > MaxU256) /\ Operation(j3, "ok")
    BY DEF Mint
<1>2. Grows(js, j, {}) /\ Sound(j)
  <2>1. Sound(js) /\ db \in Database
    BY ExecutingUsed
  <2>2. Grows(js, j0, {}) /\ Sound(j0)
    BY <2>1, GrowsLoadIds, GrowsSound
  <2> HIDE DEF j0
  <2>3. Grows(j0, j, {}) /\ Sound(j)
    BY <2>1, <2>2, GrowsLoad, GrowsSound
  <2> QED
    BY <2>2, <2>3, GrowsTwice
<1> HIDE DEF j
<1>3. ASSUME Loaded(j, b), ~(balance + n > MaxU256) PROVE Grows(js, j3, {})
  <2>1. t \in TokenId /\ n \in Balance /\ MaxU256 \in Nat
    BY OperandsAssumption, BoundsAssumption
  <2>2. Grows(js, j, {}) /\ Sound(j) /\ j \in World
    BY <1>2, <1>3 DEF Sound
  <2>3. balance \in Balance
    <3>1. j.accounts[b] \in Account
      BY <1>3, <2>2 DEF World, Accounts, Loaded
    <3> HIDE DEF t
    <3> QED
      BY <2>1, <3>1 DEF Account
  <2> HIDE DEF t, balance
  <2>4. balance + n \in Balance /\ balance + n <= MaxU256
    BY <1>3, <2>1, <2>3 DEF Balance
  <2>5. /\ j1 \in World
        /\ j1.accounts = [j.accounts EXCEPT ![b] = WithBalance(j.accounts[b], t, balance + n)]
        /\ j1.transient_storage = j.transient_storage
        /\ j1.journal = j.journal /\ j1.touched = j.touched
    BY <1>3, <2>1, <2>2, <2>4, SetBalanceIs
  <2> HIDE DEF j1
  <2>6. /\ j2 \in World /\ j2.accounts = j1.accounts
        /\ j2.transient_storage = j1.transient_storage
        /\ j2.journal = j1.journal /\ j2.touched = j1.touched
    <3> DEFINE ids == IF \E i \in DOMAIN j1.token_ids : j1.token_ids[i] = t
                      THEN j1.token_ids ELSE Append(j1.token_ids, t)
    <3>1. j1.token_ids \in Seq(TokenId)
      BY <2>5 DEF World
    <3>2. ids \in Seq(TokenId)
      BY <2>1, <3>1
    <3>3. j2 = [j1 EXCEPT !.token_ids = ids]
      OBVIOUS
    <3> HIDE DEF ids, j2
    <3> QED
      BY <2>5, <3>2, <3>3 DEF World
  <2> HIDE DEF j2
  <2>7. Grows(j, j3, {})
    BY <1>3, <2>1, <2>2, <2>4, <2>5, <2>6, GrowsMint DEF balance
  <2> HIDE DEF j3
  <2> QED
    BY <2>2, <2>7, GrowsTwice
<1> HIDE DEF j3, balance
<1> QED
    BY <1>1, <1>2, <1>3, OperationStep

\* burn
LEMMA BurnStep ==
    ASSUME SnapshotInv, StackInv', NEW a \in Address, NEW b \in Address, NEW s \in SubId,
           NEW n \in Amounts, Burn(a, b, s, n)
    PROVE  Simulates
<1> DEFINE t == TokenIdAddress[<<a, s>>]
           j0 == LoadNativeTokenIds(js)
           j == LoadAccount(j0, b)
           balance == j.accounts[b].balances[t]
           j1 == SetBalance(j, b, t, balance - n)
           j2 == Push(j1, TokensBurned(b, t, n))
<1>1. \/ Operation(js, "failed") \/ Operation(j, "failed")
      \/ ~(balance < n) /\ Operation(j2, "ok")
    BY DEF Burn
<1>2. Grows(js, j, {}) /\ Sound(j) /\ Loaded(j, b) /\ Grows(js, js, {})
  <2>1. Sound(js) /\ db \in Database /\ Grows(js, js, {})
    BY ExecutingUsed, GrowsSame DEF Sound
  <2>2. Grows(js, j0, {}) /\ Sound(j0)
    BY <2>1, GrowsLoadIds, GrowsSound
  <2> HIDE DEF j0
  <2>3. Grows(j0, j, {}) /\ Sound(j) /\ Loaded(j, b)
    BY <2>1, <2>2, GrowsLoad, GrowsSound
  <2> QED
    BY <2>1, <2>2, <2>3, GrowsTwice
<1> HIDE DEF j
<1>3. ASSUME ~(balance < n) PROVE Grows(js, j2, {})
  <2>1. t \in TokenId /\ n \in Balance /\ MaxU256 \in Nat
    BY OperandsAssumption, BoundsAssumption
  <2>2. Grows(js, j, {}) /\ Sound(j) /\ j \in World /\ Loaded(j, b)
    BY <1>2, <1>3 DEF Sound
  <2>3. balance \in Balance
    <3>1. j.accounts[b] \in Account
      BY <2>2 DEF World, Accounts, Loaded
    <3> HIDE DEF t
    <3> QED
      BY <2>1, <3>1 DEF Account
  <2> HIDE DEF t, balance
  <2>4. balance - n \in Balance /\ n <= balance
    BY <1>3, <2>1, <2>3 DEF Balance
  <2>5. /\ j1 \in World
        /\ j1.accounts = [j.accounts EXCEPT ![b] = WithBalance(j.accounts[b], t, balance - n)]
        /\ j1.transient_storage = j.transient_storage
        /\ j1.journal = j.journal /\ j1.touched = j.touched
    BY <2>1, <2>2, <2>4, SetBalanceIs
  <2> HIDE DEF j1
  <2>6. Grows(j, j2, {})
    BY <2>1, <2>2, <2>4, <2>5, GrowsBurn DEF balance
  <2> HIDE DEF j2
  <2> QED
    BY <2>2, <2>6, GrowsTwice
<1> HIDE DEF j2, balance
<1> QED
    BY <1>1, <1>2, <1>3, OperationStep

\* create_account_checkpoint
LEMMA CreateStep ==
    ASSUME SnapshotInv, StackInv', NEW caller \in Address, NEW a \in Address,
           NEW n \in Amounts, CreateAccountCheckpoint(caller, a, n)
    PROVE  Simulates
<1> DEFINE j == OpenVector(js)
           k == MarkCreated(j, a)
           l == CreateAccount(j, caller, a, n)
           free == ~Collides(a)
           fits == ~(js.accounts[a].balances[BaseToken] + n > MaxU256)
<1>1. /\ Loaded(js, caller) /\ Loaded(js, a)
      /\ \/ Operation(RevertTo(j, Len(js.journal)), "refused")
         \/ free /\ Operation(RevertTo(k, Len(js.journal)), "refused")
         \/ /\ free /\ fits
            /\ js' = l /\ frames' = Append(frames, Frame(a)) /\ outcome' = "ok"
            /\ logs' = logs /\ intact' = intact /\ db' = db
    BY DEF CreateAccountCheckpoint
<1>2. n \in Balance /\ a # NoAddress
    BY BoundsAssumption
<1>3. /\ Grows(j, j, {})
      /\ free => Grows(j, k, {}) /\ ~InCreation(js.accounts[a])
      /\ free /\ fits => Grows(j, l, {}) /\ InCreation(l.accounts[a])
  <2>1. Clean(js.accounts[a]) /\ Sound(js) /\ History(js)
    BY ExecutingUsed DEF SnapshotInv
  <2>2. Sound(j) /\ j.accounts = js.accounts
    BY <2>1, HistoryOpen DEF History, OpenVector
  <2>3. free => Unused(js.accounts[a])
    BY <1>1 DEF Collides, Unused, Loaded
  <2> HIDE DEF j, free, fits
  <2>5. Grows(j, j, {})
    BY <2>2, GrowsSame DEF Sound
  <2>6. free => Grows(j, k, {})
    BY <1>1, <2>1, <2>2, <2>3, GrowsMark
  <2>7. free /\ fits => Grows(j, l, {}) /\ InCreation(l.accounts[a])
    <3>1. fits => ~(j.accounts[a].balances[BaseToken] + n > MaxU256)
      BY <2>2 DEF fits
    <3>2. Loaded(j, caller)
      BY <1>1, <2>2 DEF Loaded
    <3> QED
      BY <1>2, <2>1, <2>2, <2>3, <3>1, <3>2, GrowsCreate
  <2>8. free => ~InCreation(js.accounts[a])
    BY <2>3 DEF Unused, InCreation
  <2> QED
    BY <2>5, <2>6, <2>7, <2>8
<1> HIDE DEF k, l, free, fits
<1>4. CASE Operation(RevertTo(j, Len(js.journal)), "refused")
    BY <1>3, <1>4, RefuseStep
<1>5. CASE free /\ Operation(RevertTo(k, Len(js.journal)), "refused")
    BY <1>3, <1>5, RefuseStep
<1>6. CASE /\ free /\ fits
           /\ js' = l /\ frames' = Append(frames, Frame(a)) /\ outcome' = "ok"
           /\ logs' = logs /\ intact' = intact /\ db' = db
    BY <1>2, <1>3, <1>6, EnterStep
<1> QED
    BY <1>1, <1>4, <1>5, <1>6

\* create_return and eofcreate_return of a successful creation.
LEMMA CreateReturnStep ==
    ASSUME SnapshotInv, StackInv', NEW code \in Code \cup {NoCode}, CreateReturn(code)
    PROVE  Simulates
<1> DEFINE a == Top.creates
<1>1. /\ frames # << >> /\ a # NoAddress /\ js' = SetCode(js, a, code) /\ PopFrame
      /\ outcome' = "committed" /\ logs' = logs /\ intact' = intact /\ db' = db
    BY DEF CreateReturn
<1>2. Grows(js, SetCode(js, a, code), {a})
  <2>1. StackInv
    BY DEF SnapshotInv
  <2>2. Top \in FrameType /\ Len(frames) \in DOMAIN frames
    BY <1>1, <2>1, TopFrame
  <2>3. a \in Address
    BY <1>1, <2>2 DEF FrameType
  <2>4. InCreation(js.accounts[a]) /\ Sound(js)
    BY <1>1, <2>2, ExecutingUsed DEF Top
  <2> HIDE DEF a
  <2> QED
    BY <2>3, <2>4, GrowsSetCode
<1>3. Grows(js, js', IF Top.creates = NoAddress THEN {} ELSE {Top.creates})
    BY <1>1, <1>2
<1> QED
    BY <1>1, <1>3, LeaveStep

\* transfer
LEMMA TransferStep ==
    ASSUME SnapshotInv, StackInv', NEW from \in Address, NEW to \in Address,
           NEW transfers \in Transfers, Transfer(from, to, transfers)
    PROVE  Simulates
<1> DEFINE r == TransferAll(js, from, to, transfers)
<1>1. Operation(r.js, r.outcome)
    BY DEF Transfer
<1>2. transfers \in Seq(TokenTransfer)
    BY OperandsAssumption
<1>3. Sound(js) /\ db \in Database
    BY ExecutingUsed
<1>4. r.outcome \in {"ok", "failed", "overflow"} /\ Transferred(js, r, from)
    BY <1>2, <1>3, GrowsTransfer
<1> HIDE DEF r
<1>5. CASE r.outcome = "overflow"
    BY <1>1, <1>4, <1>5, OverflowStep DEF Transferred
<1>6. CASE r.outcome # "overflow"
  <2>1. r.outcome \in {"ok", "failed", "panic"} /\ Grows(js, r.js, {})
    BY <1>4, <1>6 DEF Transferred
  <2> QED
    BY <1>1, <2>1, OperationStep
<1> QED
    BY <1>5, <1>6

\* Every operation of JournaledState is a step of SnapshotStack, or leaves
\* what it promises alone.
LEMMA NextSimulates == ASSUME SnapshotInv, [Next]_vars PROVE Simulates
<1>a. StackInv'
    BY NextStack DEF SnapshotInv
<1>b. Sound(js) /\ db \in Database /\ Grows(js, js, {})
    BY ExecutingUsed, GrowsSame DEF Sound
<1>c. \A a \in Address : Executing(a) => Loaded(js, a) /\ ~Unused(js.accounts[a])
    BY ExecutingUsed
<1>1. ASSUME NEW a \in Address, Load(a) PROVE Simulates
  <2>1. Operation(LoadAccount(js, a), "ok")
    BY <1>1 DEF Load
  <2>2. Grows(js, LoadAccount(js, a), {})
    BY <1>b, GrowsLoad
  <2> QED
    BY <1>a, <2>1, <2>2, OperationStep
<1>2. ASSUME NEW a \in Address, Touch(a) PROVE Simulates
  <2>1. Operation(TouchAccount(js, a), "ok") /\ Loaded(js, a)
    BY <1>2 DEF Touch
  <2>2. Grows(js, TouchAccount(js, a), {})
    BY <1>b, <2>1, GrowsTouch
  <2> QED
    BY <1>a, <2>1, <2>2, OperationStep
<1>3. ASSUME NEW a \in Address, IncNonce(a) PROVE Simulates
  <2> DEFINE k == [Push(TouchAccount(js, a), NonceChange(a)) EXCEPT !.accounts[a].nonce = @ + 1]
  <2>1. /\ Loaded(js, a)
        /\ \/ Operation(js, "failed")
           \/ js.accounts[a].nonce # MaxNonce /\ Operation(k, "ok")
    BY <1>3 DEF IncNonce
  <2>2. js.accounts[a].nonce # MaxNonce => Grows(js, k, {})
    BY <1>b, <2>1, GrowsNonce
  <2> HIDE DEF k
  <2> QED
    BY <1>a, <1>b, <2>1, <2>2, OperationStep
<1>4. ASSUME NEW a \in Address, PushLog(a) PROVE Simulates
    BY <1>a, <1>4, LogStep
<1>5. ASSUME NEW a \in AccessList, NEW slots \in SUBSET Slot, InitialAccountLoad(a, slots)
      PROVE  Simulates
  <2>1. a \in Address
    BY BoundsAssumption
  <2> QED
    BY <1>a, <1>5, <2>1, InitialLoadStep
<1>6. ASSUME NEW from \in Address, NEW to \in Address, NEW transfers \in Transfers,
             Transfer(from, to, transfers)
      PROVE  Simulates
    BY <1>a, <1>6, TransferStep
<1>7. ASSUME NEW a \in Address, NEW k \in Slot, SLoad(a, k) PROVE Simulates
  <2>1. Operation(LoadSlot(js, a, k), "ok") /\ Executing(a)
    BY <1>7 DEF SLoad
  <2>2. Grows(js, LoadSlot(js, a, k), {})
    BY <1>b, <1>c, <2>1, GrowsLoadSlot
  <2> QED
    BY <1>a, <2>1, <2>2, OperationStep
<1>8. ASSUME NEW a \in Address, NEW k \in Slot, NEW new \in Word, SStore(a, k, new)
      PROVE  Simulates
  <2>1. Operation(StoreSlot(js, a, k, new), "ok") /\ Executing(a)
    BY <1>8 DEF SStore
  <2>2. Grows(js, StoreSlot(js, a, k, new), {})
    BY <1>b, <1>c, <2>1, GrowsStoreSlot
  <2> QED
    BY <1>a, <2>1, <2>2, OperationStep
<1>9. ASSUME NEW a \in Address, NEW k \in Slot, NEW new \in Word, TStore(a, k, new)
      PROVE  Simulates
  <2> DEFINE j == Push([js EXCEPT !.transient_storage[<<a, k>>] = new],
                       TransientStorageChange(a, k, js.transient_storage[<<a, k>>]))
  <2>1. Operation(js, "ok") \/ Operation(j, "ok")
    BY <1>9 DEF TStore
  <2>2. Grows(js, j, {})
    BY <1>b, GrowsTransient
  <2> HIDE DEF j
  <2> QED
    BY <1>a, <1>b, <2>1, <2>2, OperationStep
<1>10. ASSUME NEW a \in Address, NEW target \in Address, SelfDestruct(a, target)
       PROVE  Simulates
  <2>1. Operation(Destroy(js, a, target), "ok") /\ Executing(a)
    BY <1>10 DEF SelfDestruct
  <2>2. Grows(js, Destroy(js, a, target), {})
    BY <1>b, <1>c, <2>1, GrowsDestroy
  <2> QED
    BY <1>a, <2>1, <2>2, OperationStep
<1>11. ASSUME NEW a \in Address, NEW b \in Address, NEW s \in SubId, NEW m \in Amounts,
              Mint(a, b, s, m)
       PROVE  Simulates
    BY <1>a, <1>11, MintStep
<1>12. ASSUME NEW a \in Address, NEW b \in Address, NEW s \in SubId, NEW m \in Amounts,
              Burn(a, b, s, m)
       PROVE  Simulates
    BY <1>a, <1>12, BurnStep
<1>13. ASSUME Checkpoint PROVE Simulates
  <2>1. /\ js' = OpenVector(js) /\ frames' = Append(frames, Frame(NoAddress))
        /\ outcome' = "ok" /\ logs' = logs /\ intact' = intact /\ db' = db
    BY <1>13 DEF Checkpoint
  <2>2. Grows(OpenVector(js), js', {})
    <3>1. Sound(OpenVector(js))
      BY HistoryOpen DEF SnapshotInv, History
    <3> QED
      BY <2>1, <3>1, GrowsSame DEF Sound
  <2> QED
    BY <1>a, <2>1, <2>2, EnterStep
<1>14. ASSUME NEW caller \in Address, NEW a \in Address, NEW m \in Amounts,
              CreateAccountCheckpoint(caller, a, m)
       PROVE  Simulates
    BY <1>a, <1>14, CreateStep
<1>15. ASSUME CheckpointCommit PROVE Simulates
  <2>1. /\ frames # << >> /\ Top.creates = NoAddress /\ PopFrame /\ js' = js
        /\ outcome' = "committed" /\ logs' = logs /\ intact' = intact /\ db' = db
    BY <1>15 DEF CheckpointCommit
  <2>2. Grows(js, js', IF Top.creates = NoAddress THEN {} ELSE {Top.creates})
    BY <1>b, <2>1
  <2> QED
    BY <1>a, <2>1, <2>2, LeaveStep
<1>16. ASSUME NEW code \in Code \cup {NoCode}, CreateReturn(code) PROVE Simulates
    BY <1>a, <1>16, CreateReturnStep
<1>17. ASSUME CheckpointRevert PROVE Simulates
    BY <1>a, <1>17, RevertStep
<1>18. ASSUME Clear PROVE Simulates
    BY <1>a, <1>18, ClearStep
<1>19. ASSUME UNCHANGED vars PROVE Simulates
  <2>1. /\ js' = js /\ logs' = logs /\ frames' = frames /\ outcome' = outcome
        /\ intact' = intact /\ db' = db
    BY <1>19 DEF vars
  <2>2. Current' = Current /\ Saved' = Saved
    BY <2>1, SavedNow
  <2>3. UNCHANGED Snapshots!vars
    BY <2>1, <2>2 DEF Snapshots!vars
  <2>4. History(js)' /\ Creations(js, frames)'
    BY <2>1 DEF SnapshotInv, History, Pristine
  <2> QED
    BY <1>a, <2>1, <2>3, <2>4 DEF Simulates, SnapshotInv
<1> QED
    BY <1>1, <1>2, <1>3, <1>4, <1>5, <1>6, <1>7, <1>8, <1>9, <1>10, <1>11, <1>12,
       <1>13, <1>14, <1>15, <1>16, <1>17, <1>18, <1>19 DEF Next

\* The first transaction starts with no checkpoint and the promise standing.
LEMMA InitSimulates == ASSUME Init PROVE SnapshotInv /\ Snapshots!Init
<1>1. js = NewJournaledState /\ frames = << >> /\ intact = TRUE /\ db \in Databases
    BY DEF Init
<1>2. StackInv
    BY InitStack
<1>3. History(js) /\ Creations(js, frames)
    BY <1>1, NewHistory DEF Creations
<1>4. Saved = << >>
    BY <1>1, SavedNow
<1> QED
    BY <1>1, <1>2, <1>3, <1>4 DEF SnapshotInv, Snapshots!Init

\* The journal implements snapshots, for any number of addresses, tokens,
\* slots, frames and entries: whatever operations run and however frames
\* nest, commit, fail and create accounts, checkpoint_revert brings back the
\* balances, nonces, code, flags, warm slots, transient storage, touched
\* accounts and logs exactly as they were at the checkpoint, a refused
\* creation changes nothing, and no other operation changes what an open
\* checkpoint would bring back.  The exceptions are those SnapshotStack
\* states: the touch of PRECOMPILE3, and the transfer that ends in
\* OverflowPayment.
THEOREM SnapshotTheorem == Spec => ImplementsSnapshots
<1>1. Init => SnapshotInv /\ Snapshots!Init
    BY InitSimulates
<1>2. SnapshotInv /\ [Next]_vars => SnapshotInv' /\ [Snapshots!Next]_Snapshots!vars
    BY NextSimulates DEF Simulates
<1> QED
    BY <1>1, <1>2, PTL DEF Spec, ImplementsSnapshots, Snapshots!Spec

-----------------------------------------------------------------------------
(* What the promise rests on                                               *)

\* checkpoint_revert finds every account it takes with unwrap(): the account
\* of every entry in the journal is in the state, and no later entry is its
\* AccountLoaded, which would take it away before the entry is undone.
THEOREM UnwrapsTheorem == Spec => []UnwrapsSucceed
<1>1. Init => SnapshotInv
    BY InitSimulates
<1>2. SnapshotInv /\ [Next]_vars => SnapshotInv'
    BY NextSimulates DEF Simulates
<1>3. SnapshotInv => UnwrapsSucceed
    BY DEF SnapshotInv, History, Unwrappable, UnwrapsSucceed
<1> QED
    BY <1>1, <1>2, <1>3, PTL DEF Spec

\* transfer ends in one of three ways.
LEMMA TransferOutcome ==
    ASSUME NEW j, NEW from, NEW to, NEW transfers, Len(transfers) \in Nat
    PROVE  TransferAll(j, from, to, transfers).outcome \in {"ok", "failed", "overflow"}
<1> DEFINE c == [from |-> from, to |-> to, transfers |-> transfers]
           j2 == LoadAccount(LoadAccount(LoadNativeTokenIds(j), from), to)
           start == [js |-> j2, outcome |-> "ok"]
           after(i) == TransferLoop!Iterate(c, start, i)
           T == {i \in Nat : after(i).outcome \in {"ok", "failed", "overflow"}}
<1> HIDE DEF j2, c
<1>1. 0 \in T
  <2>1. after(0) = start
    BY TransferLoop!IterateZero
  <2> HIDE DEF after
  <2> QED
    BY <2>1
<1>2. ASSUME NEW i \in T PROVE i + 1 \in T
  <2>1. after(i + 1) = TransferTurn(c, after(i), i + 1)
    BY TransferLoop!IterateNext
  <2> HIDE DEF after
  <2> DEFINE r == after(i)
             t == c.transfers[i + 1]
  <2>2. after(i + 1) = TransferOne(r, c.from, c.to, t)
    BY <2>1 DEF TransferTurn
  <2>3. r.outcome \in {"ok", "failed", "overflow"}
    OBVIOUS
  <2> HIDE DEF r, t
  <2>4. TransferOne(r, c.from, c.to, t).outcome \in {"ok", "failed", "overflow"}
    BY <2>3 DEF TransferOne
  <2> QED
    BY <2>2, <2>4
<1>3. T = Nat
  <2> T \in SUBSET Nat
    OBVIOUS
  <2> HIDE DEF T
  <2> QED
    BY <1>1, <1>2, TransferLoop!SetInduction
<1>4. TransferAll(j, from, to, transfers) = after(Len(transfers))
    BY DEF TransferAll, j2, c
<1> HIDE DEF after
<1> QED
    BY <1>3, <1>4

\* Every step ends in one of the outcomes.
LEMMA NextOutcome ==
    ASSUME outcome \in Outcome, [Next]_vars
    PROVE  outcome' \in Outcome
<1> USE DEF Outcome, Operation
<1>1. ASSUME NEW a \in Address, Load(a) \/ Touch(a) \/ IncNonce(a) \/ PushLog(a)
      PROVE  outcome' \in Outcome
    BY <1>1 DEF Load, Touch, IncNonce, PushLog
<1>2. ASSUME NEW a \in AccessList, NEW slots \in SUBSET Slot, InitialAccountLoad(a, slots)
      PROVE  outcome' \in Outcome
    BY <1>2 DEF InitialAccountLoad
<1>3. ASSUME NEW from \in Address, NEW to \in Address, NEW transfers \in Transfers,
             Transfer(from, to, transfers)
      PROVE  outcome' \in Outcome
  <2>1. Len(transfers) \in Nat
    BY BoundsAssumption
  <2>2. TransferAll(js, from, to, transfers).outcome \in {"ok", "failed", "overflow"}
    BY <2>1, TransferOutcome
  <2> QED
    BY <1>3, <2>2 DEF Transfer
<1>4. ASSUME NEW a \in Address, NEW k \in Slot, SLoad(a, k) PROVE outcome' \in Outcome
    BY <1>4 DEF SLoad
<1>5. ASSUME NEW a \in Address, NEW k \in Slot, NEW new \in Word,
             SStore(a, k, new) \/ TStore(a, k, new)
      PROVE  outcome' \in Outcome
    BY <1>5 DEF SStore, TStore
<1>6. ASSUME NEW a \in Address, NEW target \in Address, SelfDestruct(a, target)
      PROVE  outcome' \in Outcome
    BY <1>6 DEF SelfDestruct
<1>7. ASSUME NEW a \in Address, NEW b \in Address, NEW s \in SubId, NEW n \in Amounts,
             Mint(a, b, s, n) \/ Burn(a, b, s, n)
      PROVE  outcome' \in Outcome
    BY <1>7 DEF Mint, Burn
<1>8. ASSUME Checkpoint \/ CheckpointCommit \/ CheckpointRevert \/ Clear
      PROVE  outcome' \in Outcome
    BY <1>8 DEF Checkpoint, CheckpointCommit, CheckpointRevert, Clear
<1>9. ASSUME NEW caller \in Address, NEW a \in Address, NEW n \in Amounts,
             CreateAccountCheckpoint(caller, a, n)
      PROVE  outcome' \in Outcome
    BY <1>9 DEF CreateAccountCheckpoint
<1>10. ASSUME NEW code \in Code \cup {NoCode}, CreateReturn(code) PROVE outcome' \in Outcome
    BY <1>10 DEF CreateReturn
<1>11. ASSUME UNCHANGED vars PROVE outcome' \in Outcome
    BY <1>11 DEF vars
<1> QED
    BY <1>1, <1>2, <1>3, <1>4, <1>5, <1>6, <1>7, <1>8, <1>9, <1>10, <1>11 DEF Next

\* The state keeps its type: in particular no balance, nonce or slot that an
\* undone entry gives back is out of range.
THEOREM TypeTheorem == Spec => []TypeOK
<1> DEFINE Ended == outcome \in Outcome
<1>1. Init => SnapshotInv /\ Ended
    BY InitSimulates DEF Init, Outcome
<1>2. SnapshotInv /\ Ended /\ [Next]_vars => SnapshotInv' /\ Ended'
    BY NextSimulates, NextOutcome DEF Simulates
<1>3. SnapshotInv /\ Ended => TypeOK
  <2> SUFFICES ASSUME SnapshotInv, Ended PROVE TypeOK
    OBVIOUS
  <2>1. js \in World /\ db \in Databases /\ intact \in BOOLEAN
    BY DEF SnapshotInv, History, Sound
  <2>2. logs \in Seq(Address) /\ frames \in Seq(FrameType) /\ depth \in Nat
    BY DEF SnapshotInv, StackInv, CheckpointsNested
  <2> QED
    BY <2>1, <2>2 DEF TypeOK, FrameType
<1> HIDE DEF Ended
<1> QED
    BY <1>1, <1>2, <1>3, PTL DEF Spec
=============================================================================
