-------------------------- MODULE CallFramesProofs --------------------------
(***************************************************************************)
(* Proofs about CallFrames, for every gas limit, cost, call depth, storage *)
(* and number of transactions.                                             *)
(***************************************************************************)
EXTENDS CallFrames, FiniteSetTheorems, SequenceTheorems, TLAPS

\* The gas a frame has set aside for the callee it asks for.
Pledge(f) == IF f.next_action = NoAction THEN 0 ELSE f.next_action.gas_limit

\* What every frame satisfies by itself.
FrameOk(f) ==
    /\ f.kind # "eofcreate"
    /\ f.instruction_result # "FatalExternalError"
    /\ f.next_action # NoAction => /\ f.instruction_result = "CallOrCreate"
                                   /\ f.next_action.type \in {"Call", "Create"}
    /\ f.gas.remaining + Pledge(f) <= f.gas.limit

\* f waits for a callee that was given g.
Waits(f, g) ==
    /\ f.instruction_result = "CallOrCreate"
    /\ f.next_action = NoAction
    /\ f.gas.remaining + g <= f.gas.limit

\* The inductive invariant on a call stack s of a transaction whose first
\* frame was given at most g.
Sound(s, g) ==
    /\ s \in Seq(Frame)
    /\ Len(s) <= CallStackLimit + 1
    /\ \A k \in 1 .. Len(s) : FrameOk(s[k])
    /\ \A k \in 1 .. Len(s) - 1 : Waits(s[k], s[k + 1].gas.limit)
    /\ s # << >> => s[1].gas.limit <= g

\* The newest frame of a stack.
LEMMA TopFrame ==
    ASSUME NEW s, NEW g, Sound(s, g), s # << >>
    PROVE  /\ Len(s) \in Nat \ {0}
           /\ s[Len(s)] \in Frame
           /\ FrameOk(s[Len(s)])
BY DEF Sound

\* A frame goes on within its limit.
LEMMA ReplaceTop ==
    ASSUME NEW s, NEW g, Sound(s, g), s # << >>,
           NEW f \in Frame, FrameOk(f), f.gas.limit = s[Len(s)].gas.limit
    PROVE  Sound([s EXCEPT ![Len(s)] = f], g)
<1> DEFINE r == [s EXCEPT ![Len(s)] = f]
<1>1. s \in Seq(Frame) /\ Len(s) \in 1 .. Len(s) /\ Len(s) \in Nat
    BY DEF Sound
<1>2. r \in Seq(Frame) /\ Len(r) = Len(s)
    BY <1>1, ExceptSeq
<1>3. \A k \in 1 .. Len(s) : r[k] = IF k = Len(s) THEN f ELSE s[k]
    BY <1>1
<1>4. \A k \in 1 .. Len(s) : r[k].gas.limit = s[k].gas.limit
    BY <1>3
<1> HIDE DEF r
<1>5. \A k \in 1 .. Len(r) : FrameOk(r[k])
    BY <1>2, <1>3 DEF Sound
<1>6. \A k \in 1 .. Len(r) - 1 : Waits(r[k], r[k + 1].gas.limit)
  <2> TAKE k \in 1 .. Len(r) - 1
  <2>1. k \in 1 .. Len(s) /\ k + 1 \in 1 .. Len(s) /\ k # Len(s)
    BY <1>1, <1>2
  <2>2. r[k] = s[k] /\ r[k + 1].gas.limit = s[k + 1].gas.limit
    BY <2>1, <1>3, <1>4
  <2> QED
    BY <2>1, <2>2, <1>2 DEF Sound
<1>7. r # << >> /\ r[1].gas.limit <= g
  <2>1. 1 \in 1 .. Len(s)
    BY <1>1
  <2> QED
    BY <1>1, <1>2, <1>4, <2>1 DEF Sound
<1> QED
    BY <1>2, <1>5, <1>6, <1>7 DEF Sound, r

\* A frame is opened on top of one that waits for it, or as the first.
LEMMA PushFrame ==
    ASSUME NEW s, NEW g, Sound(s, g), Len(s) <= CallStackLimit,
           NEW f \in Frame, FrameOk(f),
           IF s = << >> THEN f.gas.limit <= g ELSE Waits(s[Len(s)], f.gas.limit)
    PROVE  Sound(Append(s, f), g)
<1> DEFINE r == Append(s, f)
<1>1. s \in Seq(Frame) /\ Len(s) \in Nat
    BY DEF Sound
<1>2. r \in Seq(Frame) /\ Len(r) = Len(s) + 1
    BY <1>1
<1>3. r[Len(s) + 1] = f /\ \A k \in 1 .. Len(s) : r[k] = s[k]
    BY <1>1
<1> HIDE DEF r
<1>4. \A k \in 1 .. Len(r) : FrameOk(r[k])
  <2> TAKE k \in 1 .. Len(r)
  <2>1. k \in 1 .. Len(s) \/ k = Len(s) + 1
    BY <1>1, <1>2
  <2> QED
    BY <2>1, <1>3 DEF Sound
<1>5. \A k \in 1 .. Len(r) - 1 : Waits(r[k], r[k + 1].gas.limit)
  <2> TAKE k \in 1 .. Len(r) - 1
  <2>1. k \in 1 .. Len(s)
    BY <1>1, <1>2
  <2>2. CASE k = Len(s)
    <3>1. s # << >>
      BY <2>1, <2>2, <1>1
    <3> QED
      BY <2>1, <2>2, <3>1, <1>3
  <2>3. CASE k # Len(s)
    <3>1. k \in 1 .. Len(s) - 1 /\ k + 1 \in 1 .. Len(s)
      BY <2>1, <2>3, <1>1
    <3> QED
      BY <2>1, <3>1, <1>3 DEF Sound
  <2> QED
    BY <2>2, <2>3
<1>6. r[1].gas.limit <= g
  <2>1. CASE s = << >>
    BY <2>1, <1>3, <1>1
  <2>2. CASE s # << >>
    <3>1. 1 \in 1 .. Len(s)
      BY <2>2, <1>1
    <3> QED
      BY <3>1, <2>2, <1>3 DEF Sound
  <2> QED
    BY <2>1, <2>2
<1> QED
    BY <1>1, <1>2, <1>4, <1>5, <1>6, StorageAssumption DEF Sound, r

\* A frame is closed: its caller, if any, waits for it.
LEMMA PopFrame ==
    ASSUME NEW s, NEW g, Sound(s, g), s # << >>
    PROVE  LET r == SubSeq(s, 1, Len(s) - 1)
           IN  /\ Sound(r, g)
               /\ r \in Seq(Frame) /\ Len(r) = Len(s) - 1
               /\ r # << >> => Waits(r[Len(r)], s[Len(s)].gas.limit)
<1> DEFINE r == SubSeq(s, 1, Len(s) - 1)
<1>1. s \in Seq(Frame) /\ Len(s) \in Nat \ {0}
    BY DEF Sound
<1>2. r \in Seq(Frame) /\ Len(r) = Len(s) - 1
  <2> DEFINE n == Len(s) - 1
  <2>1. n \in Nat /\ \A i \in 1 .. n : s[i] \in Frame
    BY <1>1
  <2>2. r = SubSeq(s, 1, n)
    OBVIOUS
  <2> HIDE DEF n
  <2>3. SubSeq(s, 1, n) \in Seq(Frame) /\ Len(SubSeq(s, 1, n)) = n
    BY <2>1, SubSeqProperties
  <2> QED
    BY <2>2, <2>3 DEF n
<1>3. \A k \in 1 .. Len(s) - 1 : r[k] = s[k]
    BY <1>1
<1> HIDE DEF r
<1>4. \A k \in 1 .. Len(r) : k \in 1 .. Len(s) /\ k \in 1 .. Len(s) - 1
    BY <1>1, <1>2
<1>5. \A k \in 1 .. Len(r) : FrameOk(r[k])
    BY <1>3, <1>4 DEF Sound
<1>6. \A k \in 1 .. Len(r) - 1 : Waits(r[k], r[k + 1].gas.limit)
  <2> TAKE k \in 1 .. Len(r) - 1
  <2>1. k \in 1 .. Len(s) - 1 /\ k + 1 \in 1 .. Len(s) - 1
    BY <1>1, <1>2
  <2> QED
    BY <2>1, <1>3 DEF Sound
<1>7. r # << >> => /\ r[1].gas.limit <= g
                   /\ Waits(r[Len(r)], s[Len(s)].gas.limit)
  <2> HAVE r # << >>
  <2>1. 1 \in 1 .. Len(s) - 1 /\ Len(r) \in 1 .. Len(s) - 1 /\ Len(r) + 1 = Len(s)
    BY <1>1, <1>2
  <2>2. r[1] = s[1] /\ r[Len(r)] = s[Len(r)]
    BY <2>1, <1>3
  <2>3. Waits(s[Len(r)], s[Len(r) + 1].gas.limit)
    BY <2>1 DEF Sound
  <2>4. s[1].gas.limit <= g
    BY <1>1, <2>1 DEF Sound
  <2> QED
    BY <2>1, <2>2, <2>3, <2>4
<1>8. Len(r) <= CallStackLimit + 1
    BY <1>1, <1>2, StorageAssumption DEF Sound
<1>9. Sound(r, g)
    BY <1>2, <1>5, <1>6, <1>7, <1>8 DEF Sound
<1> QED
    BY <1>2, <1>7, <1>9 DEF r

-----------------------------------------------------------------------------
(* Results                                                                 *)

Result == [instruction_result : InstructionResult, gas : Gas]

\* A result that returns at most g and is not a FatalExternalError.
Returns(r, g) ==
    /\ r \in Result
    /\ r.instruction_result # "FatalExternalError"
    /\ r.gas.remaining <= g

\* A cost that is afforded leaves the rest.
LEMMA CostRecorded ==
    ASSUME NEW gas \in Gas, NEW c \in Nat, Affords(gas, c)
    PROVE  /\ RecordCost(gas, c) \in Gas
           /\ RecordCost(gas, c).remaining = gas.remaining - c
           /\ RecordCost(gas, c).limit = gas.limit
BY DEF Gas, Affords, RecordCost

\* make_call_frame without a frame returns no more than it was given.
LEMMA CallReturns ==
    ASSUME NEW g \in Nat, NEW a \in BOOLEAN, NEW b \in BOOLEAN,
           NEW r \in CallResults(CallAction(g, a, b))
    PROVE  Returns(r, g)
<1>1. NewGas(g) \in Gas /\ NewGas(g).remaining = g
    BY DEF NewGas, Gas
<1>2. \A x \in {"CallTooDeep", "Stop", "PrecompileError", "OutOfFunds", "OverflowPayment"} :
         Returns(InterpreterResult(x, NewGas(g)), g)
    BY <1>1 DEF Returns, Result, InterpreterResult, InstructionResult, ReturnOk,
                ReturnRevert, ReturnError
<1>3. \A c \in {n \in Costs : Affords(NewGas(g), n)} :
         Returns(InterpreterResult("Return", RecordCost(NewGas(g), c)), g)
  <2> TAKE c \in {n \in Costs : Affords(NewGas(g), n)}
  <2>1. c \in Nat
    BY GasAssumption
  <2>2. /\ RecordCost(NewGas(g), c) \in Gas
        /\ RecordCost(NewGas(g), c).remaining <= g
    BY <1>1, <2>1, CostRecorded
  <2> QED
    BY <2>2 DEF Returns, Result, InterpreterResult, InstructionResult, ReturnOk
<1>4. CallAction(g, a, b).gas_limit = g
    BY DEF CallAction
<1> QED
    BY <1>2, <1>3, <1>4 DEF CallResults

\* make_create_frame without a frame returns no more than it was given.
LEMMA CreateReturns ==
    ASSUME NEW g \in Nat, NEW r \in CreateResults(g)
    PROVE  Returns(r, g)
BY DEF CreateResults, Returns, Result, InterpreterResult, InstructionResult, ReturnOk,
       ReturnRevert, ReturnError, NewGas, Gas

\* A frame that ends returns no more than its limit.
LEMMA FrameReturns ==
    ASSUME NEW f \in Frame, FrameOk(f), NEW r \in FrameResults(f)
    PROVE  Returns(r, f.gas.limit)
<1>1. /\ f.gas \in Gas /\ f.gas.remaining <= f.gas.limit
      /\ f.instruction_result \in InstructionResult
      /\ f.instruction_result # "FatalExternalError"
  <2>1. Pledge(f) \in Nat
    BY DEF Pledge, Frame, Action, NoAction
  <2> QED
    BY <2>1 DEF FrameOk, Frame, Gas
<1>2. CASE r = InterpreterResult(f.instruction_result, f.gas)
    BY <1>1, <1>2 DEF Returns, Result, InterpreterResult
<1>3. CASE r \in CreateReturn(f)
  <2>1. \A c \in DepositCosts : Affords(f.gas, c) =>
           Returns(InterpreterResult("Return", RecordCost(f.gas, c)), f.gas.limit)
    <3> TAKE c \in DepositCosts
    <3> HAVE Affords(f.gas, c)
    <3>1. c \in Nat
      BY GasAssumption
    <3>2. /\ RecordCost(f.gas, c) \in Gas
          /\ RecordCost(f.gas, c).remaining = f.gas.remaining - c
      BY <1>1, <3>1, CostRecorded
    <3>3. RecordCost(f.gas, c).remaining <= f.gas.limit
      BY <1>1, <3>1, <3>2 DEF Gas
    <3> QED
      BY <3>2, <3>3 DEF Returns, Result, InterpreterResult, InstructionResult, ReturnOk
  <2>2. \A x \in {"CreateContractStartingWithEF", "CreateContractSizeLimit", "OutOfGas"} :
           Returns(InterpreterResult(x, f.gas), f.gas.limit)
    BY <1>1 DEF Returns, Result, InterpreterResult, InstructionResult, ReturnError
  <2> QED
    BY <1>3, <2>1, <2>2 DEF CreateReturn
<1> QED
    BY <1>2, <1>3 DEF FrameResults

\* The result of a transaction spends between the intrinsic gas and the
\* limit, and refunds at most the given part of it.
LEMMA LastReturns ==
    ASSUME NEW t \in TxGasLimits, NEW r, Returns(r, t - InitialGasSpend)
    PROVE  LET x == LastFrameReturn(r, t)
           IN  /\ x \in Result
               /\ x.gas.limit = t
               /\ Spent(x.gas) \in InitialGasSpend .. t
               /\ x.gas.refunded \in 0 .. Spent(x.gas) \div RefundQuotient
<1> DEFINE spent == NewSpent(t)
           gas == IF r.instruction_result \in ReturnOk
                  THEN RecordRefund(EraseCost(spent, r.gas.remaining), r.gas.refunded)
                  ELSE IF r.instruction_result \in ReturnRevert
                  THEN EraseCost(spent, r.gas.remaining)
                  ELSE spent
           cap == Spent(gas) \div RefundQuotient
           x == LastFrameReturn(r, t)
<1>1. /\ t \in Nat /\ InitialGasSpend \in Nat /\ InitialGasSpend <= t
      /\ r.gas.remaining \in Nat /\ r.gas.refunded \in Int
      /\ r.gas.remaining <= t - InitialGasSpend
      /\ r.instruction_result \in InstructionResult
    BY GasAssumption DEF Returns, Result, Gas
<1>2. /\ gas \in Gas /\ gas.limit = t
      /\ gas.remaining \in 0 .. t - InitialGasSpend
  <2>1. spent = [limit |-> t, remaining |-> 0, refunded |-> 0]
    BY DEF NewSpent
  <2>2. EraseCost(spent, r.gas.remaining)
           = [limit |-> t, remaining |-> r.gas.remaining, refunded |-> 0]
    BY <1>1, <2>1 DEF EraseCost
  <2>3. RecordRefund(EraseCost(spent, r.gas.remaining), r.gas.refunded)
           = [limit |-> t, remaining |-> r.gas.remaining, refunded |-> r.gas.refunded]
    BY <1>1, <2>2 DEF RecordRefund
  <2> HIDE DEF spent
  <2> QED
    BY <1>1, <2>1, <2>2, <2>3 DEF Gas
<1> HIDE DEF gas
<1>3. Spent(gas) \in InitialGasSpend .. t /\ Spent(gas) \in Nat
    BY <1>1, <1>2 DEF Spent
<1>4. cap \in Nat
    BY <1>3, RefundAssumption
<1>5. x = InterpreterResult(r.instruction_result, SetFinalRefund(gas))
    BY DEF LastFrameReturn, gas
<1>6. /\ SetFinalRefund(gas) \in Gas
      /\ SetFinalRefund(gas).limit = t
      /\ SetFinalRefund(gas).remaining = gas.remaining
      /\ SetFinalRefund(gas).refunded \in 0 .. cap
  <2> HIDE DEF cap
  <2>1. SetFinalRefund(gas) = [gas EXCEPT !.refunded = IF @ < 0 \/ @ > cap THEN cap ELSE @]
    BY DEF SetFinalRefund, cap
  <2> QED
    BY <1>2, <1>4, <2>1 DEF Gas
<1>7. Spent(SetFinalRefund(gas)) = Spent(gas)
    BY <1>2, <1>6 DEF Spent
<1>8. x.gas = SetFinalRefund(gas) /\ x.instruction_result = r.instruction_result
    BY <1>5 DEF InterpreterResult
<1> QED
    BY <1>1, <1>3, <1>5, <1>6, <1>7, <1>8 DEF Result, InterpreterResult, cap

-----------------------------------------------------------------------------
(* The inductive invariant of the loop                                     *)

Finished ==
    /\ result.gas.limit = tx
    /\ Spent(result.gas) \in InitialGasSpend .. tx
    /\ result.gas.refunded \in 0 .. Spent(result.gas) \div RefundQuotient

LoopInv ==
    /\ status \in {"idle", "running", "done"}
    /\ Sound(call_stack, tx - InitialGasSpend)
    /\ contexts = Len(call_stack)
    /\ depth = Len(call_stack)
    /\ status = "running" <=> call_stack # << >>
    /\ storage \in Storage /\ original \in Storage
    /\ tx \in TxGasLimits
    /\ result \in Result
    /\ status = "done" => Finished

\* What is known of the newest frame while it executes.
LEMMA ExecutingTop ==
    ASSUME LoopInv, Executing
    PROVE  /\ call_stack # << >> /\ status = "running"
           /\ Top \in Frame /\ FrameOk(Top)
           /\ Top.next_action = NoAction
           /\ Top.gas \in Gas /\ Top.gas.remaining <= Top.gas.limit
           /\ Top.instruction_result = "Continue"
<1>1. call_stack # << >> /\ status = "running" /\ Top.instruction_result = "Continue"
    BY DEF LoopInv, Executing
<1>2. Top \in Frame /\ FrameOk(Top)
    BY <1>1, TopFrame DEF LoopInv, Top
<1>3. Top.next_action = NoAction
    BY <1>1, <1>2 DEF FrameOk
<1>4. Top.gas \in Gas /\ Top.gas.remaining <= Top.gas.limit
    BY <1>2, <1>3 DEF FrameOk, Pledge, Frame, Gas
<1> QED
    BY <1>1, <1>2, <1>3, <1>4

\* The newest frame goes on, and may write to storage.
LEMMA TopStep ==
    ASSUME LoopInv, call_stack # << >>,
           NEW f \in Frame, FrameOk(f), f.gas.limit = Top.gas.limit,
           call_stack' = [call_stack EXCEPT ![Len(call_stack)] = f],
           storage' \in Storage,
           UNCHANGED <<status, contexts, depth, original, tx, result>>
    PROVE  LoopInv'
<1>1. Sound(call_stack', tx - InitialGasSpend)
    BY ReplaceTop DEF LoopInv, Top
<1>2. Len(call_stack') = Len(call_stack) /\ call_stack' # << >>
  <2>1. call_stack \in Seq(Frame) /\ Len(call_stack) \in 1 .. Len(call_stack)
    BY DEF LoopInv, Sound
  <2>2. Len(call_stack') = Len(call_stack)
    BY <2>1, ExceptSeq
  <2> QED
    BY <2>1, <2>2
<1>3. Sound(call_stack, tx - InitialGasSpend)'
    BY <1>1 DEF Sound
<1> QED
    BY <1>2, <1>3 DEF LoopInv, Finished

\* An executing frame that becomes f stays within its limit.
LEMMA BecomesStep ==
    ASSUME LoopInv, Executing,
           NEW f \in Frame, FrameOk(f), f.gas.limit = Top.gas.limit, Becomes(f)
    PROVE  LoopInv'
BY ExecutingTop, TopStep DEF Becomes, LoopInv

\* A frame may halt with any result but these two.
LEMMA HaltedFrame ==
    ASSUME NEW f \in Frame, FrameOk(f), f.next_action = NoAction,
           NEW r \in InstructionResult, r # "FatalExternalError"
    PROVE  /\ Halted(f, r) \in Frame /\ FrameOk(Halted(f, r))
           /\ Halted(f, r).gas = f.gas
           /\ Halted(f, r).next_action = NoAction
BY DEF Halted, Frame, FrameOk, Pledge

\* A frame may pay what it affords, and promise what it then does not keep.
LEMMA PaidFrame ==
    ASSUME NEW f \in Frame, FrameOk(f), NEW g \in Gas, g.limit = f.gas.limit,
           g.remaining <= g.limit, f.next_action = NoAction
    PROVE  LET p == [f EXCEPT !.gas = g]
           IN  p \in Frame /\ FrameOk(p) /\ p.gas = g
BY DEF Frame, FrameOk, Pledge, Gas

\* f, once it has paid down to g and asks for a.
Asking(f, g, a) == [Halted(f, "CallOrCreate") EXCEPT !.gas = g, !.next_action = a]

\* A frame asks for a callee.
LEMMA AskingFrame ==
    ASSUME NEW f \in Frame, FrameOk(f), NEW g \in Gas, g.limit = f.gas.limit,
           NEW a \in Action, a.type \in {"Call", "Create"}, a.gas_limit \in Nat,
           g.remaining + a.gas_limit <= g.limit
    PROVE  Asking(f, g, a) \in Frame /\ FrameOk(Asking(f, g, a)) /\ Asking(f, g, a).gas = g
<1> DEFINE p == Asking(f, g, a)
<1>1. "CallOrCreate" \in InstructionResult
    BY DEF InstructionResult
<1>2. /\ p \in Frame /\ p.gas = g /\ p.next_action = a /\ p.kind = f.kind
      /\ p.instruction_result = "CallOrCreate"
    BY <1>1 DEF Asking, Halted, Frame
<1>3. a # NoAction
    BY DEF NoAction
<1> HIDE DEF p
<1>4. Pledge(p) = a.gas_limit
    BY <1>2, <1>3 DEF Pledge
<1>5. FrameOk(p)
    BY <1>2, <1>4 DEF FrameOk
<1> QED
    BY <1>2, <1>5 DEF p

\* An executing frame that asks for a callee stays within its limit.
LEMMA AskingStep ==
    ASSUME LoopInv, Executing, NEW g \in Gas, g.limit = Top.gas.limit,
           NEW a \in Action, a.type \in {"Call", "Create"}, a.gas_limit \in Nat,
           g.remaining + a.gas_limit <= g.limit,
           Becomes([Halted(Top, "CallOrCreate") EXCEPT !.gas = g, !.next_action = a])
    PROVE  LoopInv'
<1> DEFINE f == Asking(Top, g, a)
<1>1. Top \in Frame /\ FrameOk(Top)
    BY ExecutingTop
<1>2. f \in Frame /\ FrameOk(f) /\ f.gas = g
    BY <1>1, AskingFrame
<1>3. Becomes(f)
    BY DEF Asking
<1> HIDE DEF f
<1> QED
    BY <1>2, <1>3, BecomesStep

-----------------------------------------------------------------------------
(* Every step keeps it                                                     *)

\* The instructions that call nobody.
LEMMA InstructionsStep ==
    ASSUME LoopInv, NEW c \in Costs, Instructions(c)
    PROVE  LoopInv'
<1>1. Executing /\ c \in Nat
    BY GasAssumption DEF Instructions
<1>2. /\ Top \in Frame /\ FrameOk(Top) /\ Top.next_action = NoAction
      /\ Top.gas \in Gas /\ Top.gas.remaining <= Top.gas.limit
    BY <1>1, ExecutingTop
<1>3. CASE Affords(Top.gas, c)
  <2> DEFINE g == RecordCost(Top.gas, c)
             f == [Top EXCEPT !.gas = g]
  <2>1. g \in Gas /\ g.limit = Top.gas.limit /\ g.remaining <= g.limit
    BY <1>1, <1>2, <1>3, CostRecorded DEF Gas
  <2>2. Becomes(f)
    BY <1>3 DEF Instructions
  <2>3. f \in Frame /\ FrameOk(f) /\ f.gas.limit = Top.gas.limit
    <3> HIDE DEF g
    <3> QED BY <1>2, <2>1, PaidFrame
  <2> HIDE DEF f
  <2> QED
    BY <1>1, <2>2, <2>3, BecomesStep
<1>4. CASE ~Affords(Top.gas, c)
  <2>1. Becomes(Halted(Top, "OutOfGas"))
    BY <1>4 DEF Instructions
  <2>2. "OutOfGas" \in InstructionResult
    BY DEF InstructionResult, ReturnError
  <2> QED
    BY <1>1, <1>2, <2>1, <2>2, HaltedFrame, BecomesStep
<1> QED
    BY <1>3, <1>4

\* STOP, RETURN, REVERT and failures.
LEMMA HaltStep ==
    ASSUME LoopInv, NEW r \in {"Stop", "Return", "Revert", "InvalidJump"}, Halt(r)
    PROVE  LoopInv'
<1>1. Executing
    BY DEF Halt
<1>2. Top \in Frame /\ FrameOk(Top) /\ Top.next_action = NoAction
    BY <1>1, ExecutingTop
<1>3. r \in InstructionResult /\ r # "FatalExternalError"
    BY DEF InstructionResult, ReturnOk, ReturnRevert, ReturnError
<1> DEFINE h == Halted(Top, r)
<1>4. h \in Frame /\ FrameOk(h) /\ h.gas = Top.gas /\ h.next_action = NoAction
    BY <1>2, <1>3, HaltedFrame
<1>5. [h EXCEPT !.next_action = IF r \in {"Return", "Revert"} THEN NoAction ELSE @] = h
  <2> HIDE DEF h
  <2> QED BY <1>4 DEF Frame
<1>6. Becomes(h)
    BY <1>5 DEF Halt
<1> HIDE DEF h
<1> QED
    BY <1>1, <1>4, <1>6, BecomesStep

\* Refunds are integers.
LEMMA RefundIsInt ==
    ASSUME NEW o, NEW c, NEW n
    PROVE  SStoreRefund(o, c, n) \in Int
BY RefundAssumption DEF SStoreRefund

\* SSTORE.
LEMMA SStoreStep ==
    ASSUME LoopInv, NEW k \in Slot, NEW new \in Word, NEW c \in Costs, SStore(k, new, c)
    PROVE  LoopInv'
<1>1. Executing /\ c \in Nat
    BY GasAssumption DEF SStore
<1>2. /\ Top \in Frame /\ FrameOk(Top) /\ Top.next_action = NoAction
      /\ Top.gas \in Gas /\ Top.gas.remaining <= Top.gas.limit /\ call_stack # << >>
    BY <1>1, ExecutingTop
<1>3. {"OutOfGas", "StateChangeDuringStaticCall"} \subseteq InstructionResult
    BY DEF InstructionResult, ReturnError
<1>4. CASE Top.is_static
    BY <1>1, <1>2, <1>3, <1>4, HaltedFrame, BecomesStep DEF SStore
<1>5. CASE ~Top.is_static
  <2>1. storage' \in Storage
    BY <1>5 DEF SStore, LoopInv, Storage
  <2>2. CASE PaysForStore(Top.gas, c)
    <3> DEFINE d == SStoreRefund(original[k], storage[k], new)
               g1 == RecordCost(Top.gas, c)
               g == RecordRefund(g1, d)
               f == [Top EXCEPT !.gas = g]
    <3>1. g1 \in Gas /\ g1.limit = Top.gas.limit /\ g1.remaining <= g1.limit
      BY <1>1, <1>2, <2>2, CostRecorded DEF Gas, PaysForStore
    <3>2. d \in Int
      BY RefundIsInt
    <3>3. g \in Gas /\ g.limit = Top.gas.limit /\ g.remaining <= g.limit
      <4> HIDE DEF g1, d
      <4> QED BY <3>1, <3>2 DEF RecordRefund, Gas
    <3>4. /\ call_stack' = [call_stack EXCEPT ![Len(call_stack)] = f]
          /\ UNCHANGED <<status, contexts, depth, original, tx, result>>
      BY <1>5, <2>2 DEF SStore
    <3>5. f \in Frame /\ FrameOk(f) /\ f.gas.limit = Top.gas.limit
      <4> HIDE DEF g
      <4> QED BY <1>2, <3>3, PaidFrame
    <3> HIDE DEF f
    <3> QED
      BY <1>2, <2>1, <3>4, <3>5, TopStep
  <2>3. CASE ~PaysForStore(Top.gas, c)
    <3> DEFINE f == Halted(Top, "OutOfGas")
    <3>1. /\ call_stack' = [call_stack EXCEPT ![Len(call_stack)] = f]
          /\ UNCHANGED <<status, contexts, depth, original, tx, result>>
      BY <1>5, <2>3 DEF SStore
    <3>2. f \in Frame /\ FrameOk(f) /\ f.gas.limit = Top.gas.limit
      BY <1>2, <1>3, HaltedFrame
    <3> HIDE DEF f
    <3> QED
      BY <1>2, <2>1, <3>1, <3>2, TopStep
  <2> QED
    BY <2>2, <2>3
<1> QED
    BY <1>4, <1>5

\* SELFDESTRUCT.
LEMMA SelfDestructStep ==
    ASSUME LoopInv, NEW c \in Costs, SelfDestruct(c)
    PROVE  LoopInv'
<1>1. Executing /\ c \in Nat
    BY GasAssumption DEF SelfDestruct
<1>2. /\ Top \in Frame /\ FrameOk(Top) /\ Top.next_action = NoAction
      /\ Top.gas \in Gas /\ Top.gas.remaining <= Top.gas.limit
    BY <1>1, ExecutingTop
<1>3. {"OutOfGas", "StateChangeDuringStaticCall", "SelfDestruct"} \subseteq InstructionResult
    BY DEF InstructionResult, ReturnError, ReturnOk
<1>4. CASE ~Top.is_static /\ Affords(Top.gas, c)
  <2> DEFINE g == RecordCost(Top.gas, c)
             h == Halted(Top, "SelfDestruct")
             f == [h EXCEPT !.gas = g]
  <2>1. g \in Gas /\ g.limit = Top.gas.limit /\ g.remaining <= g.limit
    BY <1>1, <1>2, <1>4, CostRecorded DEF Gas
  <2>2. h \in Frame /\ FrameOk(h) /\ h.gas = Top.gas /\ h.next_action = NoAction
    BY <1>2, <1>3, HaltedFrame
  <2>3. [h EXCEPT !.gas = RecordCost(@, c)] = f
    <3> HIDE DEF h
    <3> QED BY <2>2 DEF Frame
  <2>4. Becomes(f)
    BY <1>4, <2>3 DEF SelfDestruct
  <2>5. f \in Frame /\ FrameOk(f) /\ f.gas.limit = Top.gas.limit
    <3> HIDE DEF g, h
    <3> QED BY <2>1, <2>2, PaidFrame
  <2> HIDE DEF f
  <2> QED
    BY <1>1, <2>4, <2>5, BecomesStep
<1>5. CASE Top.is_static \/ ~Affords(Top.gas, c)
  <2>1. \/ Becomes(Halted(Top, "StateChangeDuringStaticCall"))
        \/ Becomes(Halted(Top, "OutOfGas"))
    BY <1>5 DEF SelfDestruct
  <2> QED
    BY <1>1, <1>2, <1>3, <2>1, HaltedFrame, BecomesStep
<1> QED
    BY <1>4, <1>5

\* A caller keeps part of its gas.
LEMMA CallGas ==
    ASSUME NEW r \in Nat, NEW l \in Nat
    PROVE  /\ r - r \div CallDivisor \in 0 .. r
           /\ CalcCallGas(r, l) \in 0 .. r
<1>1. r \div CallDivisor \in 0 .. r
    BY GasAssumption
<1> QED
    BY <1>1 DEF CalcCallGas

\* CALL, CALLCODE, DELEGATECALL and STATICCALL: the stipend is less than what
\* the caller paid for the transfer.
LEMMA CallStep ==
    ASSUME LoopInv, NEW s \in {"Call", "CallCode", "DelegateCall", "StaticCall"},
           NEW b \in BOOLEAN, NEW c \in Costs, NEW l \in CallGasLimits, Call(s, b, c, l)
    PROVE  LoopInv'
<1> DEFINE cost == c + (IF b THEN CallValueCost ELSE 0)
           paid == RecordCost(Top.gas, cost)
           gas_limit == CalcCallGas(paid.remaining, l)
           given == gas_limit + (IF b THEN CallStipend ELSE 0)
           g == RecordCost(paid, gas_limit)
           a == CallAction(given, Top.is_static \/ s = "StaticCall", b)
           f == [Halted(Top, "CallOrCreate") EXCEPT !.gas = g, !.next_action = a]
<1>1. /\ Executing /\ c \in Nat /\ l \in Nat /\ cost \in Nat
      /\ CallValueCost \in Nat /\ CallStipend \in Nat /\ CallStipend <= CallValueCost
    BY GasAssumption DEF Call
<1>2. /\ Top \in Frame /\ FrameOk(Top) /\ Top.next_action = NoAction
      /\ Top.gas \in Gas /\ Top.gas.remaining <= Top.gas.limit
    BY <1>1, ExecutingTop
<1>3. CASE Becomes(f) /\ Affords(Top.gas, cost)
  <2>1. /\ paid \in Gas /\ paid.limit = Top.gas.limit
        /\ paid.remaining = Top.gas.remaining - cost
    <3> HIDE DEF cost
    <3> QED BY <1>1, <1>2, <1>3, CostRecorded
  <2>2. gas_limit \in 0 .. paid.remaining /\ paid.remaining \in Nat
    <3> HIDE DEF paid
    <3>1. paid.remaining \in Nat
      BY <2>1 DEF Gas
    <3> QED BY <1>1, <3>1, CallGas
  <2>3. g \in Gas /\ g.limit = Top.gas.limit /\ g.remaining = paid.remaining - gas_limit
    <3> HIDE DEF paid, gas_limit
    <3>1. gas_limit \in Nat /\ Affords(paid, gas_limit)
      BY <2>2 DEF Affords
    <3> QED BY <2>1, <3>1, CostRecorded
  <2>4. given \in Nat /\ g.remaining + given <= g.limit
    <3> HIDE DEF paid, gas_limit, g
    <3>1. Top.gas.remaining \in Nat /\ Top.gas.limit \in Nat
      BY <1>2 DEF Gas
    <3>2. CASE b
      BY <1>1, <1>2, <2>1, <2>2, <2>3, <3>1, <3>2
    <3>3. CASE ~b
      BY <1>1, <1>2, <2>1, <2>2, <2>3, <3>1, <3>3
    <3> QED BY <3>2, <3>3
  <2>5. a \in Action /\ a.type = "Call" /\ a.gas_limit = given
    <3> HIDE DEF given
    <3>1. Top.is_static \in BOOLEAN
      BY <1>2 DEF Frame
    <3> QED BY <2>4, <3>1 DEF CallAction, Action
  <2>6. /\ a.type \in {"Call", "Create"} /\ a.gas_limit \in Nat
        /\ g.remaining + a.gas_limit <= g.limit
    <3> HIDE DEF a, g, given
    <3> QED BY <2>4, <2>5
  <2>7. Becomes([Halted(Top, "CallOrCreate") EXCEPT !.gas = g, !.next_action = a])
    BY <1>3
  <2> HIDE DEF a, g, given, cost, paid, gas_limit, f
  <2> QED
    BY <1>1, <2>3, <2>5, <2>6, <2>7, AskingStep
<1>4. CASE \/ Becomes(Halted(Top, "CallNotAllowedInsideStatic"))
           \/ Becomes(Halted(Top, "OutOfGas"))
  <2>1. {"OutOfGas", "CallNotAllowedInsideStatic"} \subseteq InstructionResult
    BY DEF InstructionResult, ReturnError
  <2> QED
    BY <1>1, <1>2, <1>4, <2>1, HaltedFrame, BecomesStep
<1> QED
    BY <1>3, <1>4 DEF Call

\* CREATE and CREATE2.
LEMMA CreateStep ==
    ASSUME LoopInv, NEW c \in Costs, Create(c)
    PROVE  LoopInv'
<1> DEFINE paid == RecordCost(Top.gas, c)
           gas_limit == paid.remaining - paid.remaining \div CallDivisor
           g == RecordCost(paid, gas_limit)
           a == CreateAction(gas_limit)
           f == [Halted(Top, "CallOrCreate") EXCEPT !.gas = g, !.next_action = a]
<1>1. Executing /\ c \in Nat
    BY GasAssumption DEF Create
<1>2. /\ Top \in Frame /\ FrameOk(Top) /\ Top.next_action = NoAction
      /\ Top.gas \in Gas /\ Top.gas.remaining <= Top.gas.limit
    BY <1>1, ExecutingTop
<1>3. CASE Becomes(f) /\ Affords(Top.gas, c)
  <2>1. /\ paid \in Gas /\ paid.limit = Top.gas.limit
        /\ paid.remaining = Top.gas.remaining - c
    BY <1>1, <1>2, <1>3, CostRecorded
  <2>2. gas_limit \in 0 .. paid.remaining /\ paid.remaining \in Nat
    <3> HIDE DEF paid
    <3>1. paid.remaining \in Nat /\ 0 \in Nat
      BY <2>1 DEF Gas
    <3> QED BY <3>1, CallGas
  <2>3. g \in Gas /\ g.limit = Top.gas.limit /\ g.remaining = paid.remaining - gas_limit
    <3> HIDE DEF paid, gas_limit
    <3>1. gas_limit \in Nat /\ Affords(paid, gas_limit)
      BY <2>2 DEF Affords
    <3> QED BY <2>1, <3>1, CostRecorded
  <2>4. gas_limit \in Nat /\ g.remaining + gas_limit <= g.limit
    <3> HIDE DEF paid, gas_limit, g
    <3>1. Top.gas.remaining \in Nat /\ Top.gas.limit \in Nat
      BY <1>2 DEF Gas
    <3> QED BY <1>1, <1>2, <2>1, <2>2, <2>3, <3>1
  <2>5. a \in Action /\ a.type = "Create" /\ a.gas_limit = gas_limit
    <3> HIDE DEF gas_limit
    <3> QED BY <2>4 DEF CreateAction, Action
  <2>6. /\ a.type \in {"Call", "Create"} /\ a.gas_limit \in Nat
        /\ g.remaining + a.gas_limit <= g.limit
    <3> HIDE DEF a, g, gas_limit
    <3> QED BY <2>4, <2>5
  <2>7. Becomes([Halted(Top, "CallOrCreate") EXCEPT !.gas = g, !.next_action = a])
    BY <1>3
  <2> HIDE DEF a, g, paid, gas_limit, f
  <2> QED
    BY <1>1, <2>3, <2>5, <2>6, <2>7, AskingStep
<1>4. CASE \/ Becomes(Halted(Top, "StateChangeDuringStaticCall"))
           \/ Becomes(Halted(Top, "OutOfGas"))
  <2>1. {"OutOfGas", "StateChangeDuringStaticCall"} \subseteq InstructionResult
    BY DEF InstructionResult, ReturnError
  <2> QED
    BY <1>1, <1>2, <1>4, <2>1, HaltedFrame, BecomesStep
<1> QED
    BY <1>3, <1>4 DEF Create

\* A caller that waited for a callee of limit g takes a result.
LEMMA Inserted ==
    ASSUME NEW f \in Frame, FrameOk(f), NEW g \in Nat, Waits(f, g),
           NEW r, Returns(r, g), NEW kind, kind # "eofcreate"
    PROVE  LET i == InsertOutcome(f, kind, r)
           IN  i \in Frame /\ FrameOk(i) /\ i.gas.limit = f.gas.limit
<1> DEFINE t == [f EXCEPT !.instruction_result = "Continue"]
           h == IF r.instruction_result \in ReturnOk
                THEN RecordRefund(EraseCost(f.gas, r.gas.remaining), r.gas.refunded)
                ELSE IF r.instruction_result \in ReturnRevert
                THEN EraseCost(f.gas, r.gas.remaining)
                ELSE f.gas
<1>1. /\ f.gas \in Gas /\ f.next_action = NoAction
      /\ r.gas.remaining \in Nat /\ r.gas.refunded \in Int /\ r.gas.remaining <= g
      /\ f.gas.remaining + g <= f.gas.limit
    BY DEF Frame, Waits, Returns, Result, Gas
<1>2. t \in Frame /\ FrameOk(t) /\ t.gas = f.gas /\ t.next_action = NoAction
    BY <1>1 DEF Frame, FrameOk, Pledge, InstructionResult, ReturnOk
<1>3. InsertOutcome(f, kind, r) = [t EXCEPT !.gas = h]
    BY <1>2 DEF InsertOutcome, Frame
<1>4. h \in Gas /\ h.limit = f.gas.limit /\ h.remaining <= h.limit
  <2> DEFINE e == EraseCost(f.gas, r.gas.remaining)
             x == RecordRefund(e, r.gas.refunded)
  <2>1. /\ f.gas.remaining \in Nat /\ f.gas.limit \in Nat
        /\ f.gas.remaining + r.gas.remaining <= f.gas.limit
    BY <1>1 DEF Gas
  <2>2. e \in Gas /\ e.limit = f.gas.limit /\ e.remaining <= e.limit
    BY <1>1, <2>1 DEF EraseCost, Gas
  <2>3. x \in Gas /\ x.limit = f.gas.limit /\ x.remaining <= x.limit
    <3> HIDE DEF e
    <3> QED BY <1>1, <2>2 DEF RecordRefund, Gas
  <2>4. h = x \/ h = e \/ h = f.gas
    OBVIOUS
  <2> HIDE DEF e, x, h
  <2> QED
    BY <1>1, <2>1, <2>2, <2>3, <2>4
<1> HIDE DEF t, h
<1> QED
    BY <1>2, <1>3, <1>4, PaidFrame

\* L can be handed to a callee on top of s: its caller waits for it, or it is
\* the transaction's own.
Granted(s, L, g) == IF s = << >> THEN L <= g ELSE Waits(s[Len(s)], L)

\* A result is delivered to the caller, or ends the transaction.
LEMMA Delivered ==
    ASSUME LoopInv, status = "running",
           NEW s, Sound(s, tx - InitialGasSpend),
           NEW L \in Nat, Granted(s, L, tx - InitialGasSpend),
           NEW r, Returns(r, L), NEW kind, kind # "eofcreate",
           HandleResult(s, kind, r),
           contexts' = Len(s), depth' = Len(s), storage' \in Storage,
           UNCHANGED <<original, tx>>
    PROVE  LoopInv'
<1>1. r.instruction_result # "FatalExternalError"
    BY DEF Returns
<1>2. tx \in TxGasLimits /\ original \in Storage /\ result \in Result
    BY DEF LoopInv
<1>3. CASE s = << >>
  <2>1. status' = "done" /\ call_stack' = << >> /\ result' = LastFrameReturn(r, tx)
    BY <1>1, <1>3 DEF HandleResult
  <2>2. Returns(r, tx - InitialGasSpend)
    BY <1>2, <1>3, GasAssumption DEF Granted, Returns, Result, Gas
  <2>3. result' \in Result /\ Finished'
    BY <1>2, <2>1, <2>2, LastReturns DEF Finished
  <2>4. Sound(call_stack, tx - InitialGasSpend)'
    BY <1>3, <2>1 DEF Sound
  <2> QED
    BY <1>2, <1>3, <2>1, <2>3, <2>4 DEF LoopInv
<1>4. CASE s # << >>
  <2> DEFINE f == s[Len(s)]
             i == InsertOutcome(f, kind, r)
  <2>1. /\ call_stack' = [s EXCEPT ![Len(s)] = i]
        /\ UNCHANGED <<status, result>>
    BY <1>1, <1>4 DEF HandleResult
  <2>2. f \in Frame /\ FrameOk(f) /\ Waits(f, L)
    BY <1>4, TopFrame DEF Granted
  <2>3. i \in Frame /\ FrameOk(i) /\ i.gas.limit = f.gas.limit
    <3> HIDE DEF f
    <3> QED BY <2>2, Inserted
  <2>4. Sound(call_stack', tx - InitialGasSpend)
    <3> HIDE DEF i
    <3> QED BY <1>4, <2>1, <2>3, ReplaceTop
  <2>5. Len(call_stack') = Len(s) /\ call_stack' # << >>
    <3>1. s \in Seq(Frame) /\ Len(s) \in 1 .. Len(s)
      BY <1>4 DEF Sound
    <3> HIDE DEF i
    <3>2. call_stack' \in Seq(Frame) /\ Len(call_stack') = Len(s)
      BY <3>1, <2>1, <2>3, ExceptSeq
    <3> QED
      BY <3>1, <3>2
  <2>6. Sound(call_stack, tx - InitialGasSpend)'
    BY <2>4 DEF Sound
  <2> HIDE DEF i, f
  <2> QED
    BY <1>2, <2>1, <2>5, <2>6 DEF LoopInv
<1> QED
    BY <1>3, <1>4

\* A new frame starts with what it was granted.
LEMMA Opened ==
    ASSUME LoopInv, NEW s, NEW t \in TxGasLimits, Sound(s, t - InitialGasSpend),
           Len(s) = depth, Len(s) = contexts,
           NEW L \in Nat, Granted(s, L, t - InitialGasSpend),
           NEW kind \in {"call", "create"}, NEW st \in BOOLEAN,
           OpenFrame(s, kind, L, st), tx' = t
    PROVE  LoopInv'
<1>1. PICK code \in CodeOf(kind) : call_stack' = Append(s, NewFrame(kind, L, st, code))
    BY DEF OpenFrame
<1> DEFINE f == NewFrame(kind, L, st, code)
<1>2. f \in Frame /\ FrameOk(f) /\ f.gas.limit = L
  <2>1. code \in {"legacy", "eof"}
    BY StorageAssumption DEF CodeOf
  <2>2. /\ NewGas(L) \in Gas /\ NewGas(L).limit = L /\ NewGas(L).remaining = L
        /\ NoAction \in Action /\ "Continue" \in InstructionResult
    BY DEF NewGas, Gas, Action, InstructionResult, ReturnOk
  <2>3. storage \in Storage
    BY DEF LoopInv
  <2>4. f \in Frame /\ f.gas = NewGas(L)
    BY <2>1, <2>2, <2>3 DEF NewFrame, Frame
  <2>5. FrameOk(f)
    BY <2>2 DEF NewFrame, FrameOk, Pledge
  <2> QED
    BY <2>2, <2>4, <2>5
<1> HIDE DEF f
<1>3. s \in Seq(Frame) /\ Len(s) \in Nat /\ Len(s) <= CallStackLimit
    BY DEF OpenFrame, Sound
<1>4. Sound(call_stack', t - InitialGasSpend)
    BY <1>1, <1>2, <1>3, PushFrame DEF f, Granted
<1>5. Len(call_stack') = Len(s) + 1 /\ call_stack' # << >>
    BY <1>1, <1>2, <1>3 DEF f
<1>6. Sound(call_stack, tx - InitialGasSpend)'
    BY <1>4 DEF Sound
<1> QED
    BY <1>5, <1>6 DEF OpenFrame, LoopInv

\* The loop takes the action of the newest frame, which then waits.
LEMMA Taken ==
    ASSUME LoopInv, status = "running", Top.next_action # NoAction
    PROVE  LET s == ActionTaken
               L == Top.next_action.gas_limit
           IN  /\ Top \in Frame /\ L \in Nat
               /\ Sound(s, tx - InitialGasSpend)
               /\ Len(s) = depth /\ Len(s) = contexts
               /\ Granted(s, L, tx - InitialGasSpend)
<1> DEFINE s == ActionTaken
           L == Top.next_action.gas_limit
           f == [Top EXCEPT !.next_action = NoAction]
<1>1. call_stack # << >> /\ Top \in Frame /\ FrameOk(Top)
    BY TopFrame DEF LoopInv, Top
<1>2. L \in Nat /\ Top.gas.remaining + L <= Top.gas.limit
    BY <1>1 DEF FrameOk, Pledge, Frame, Action
<1>3. /\ f \in Frame /\ f.gas = Top.gas /\ f.next_action = NoAction
      /\ f.instruction_result = "CallOrCreate" /\ f.kind = Top.kind
    BY <1>1 DEF Frame, FrameOk, Action
<1>4. FrameOk(f) /\ Waits(f, L)
  <2> HIDE DEF f, L
  <2>1. Top.gas.remaining \in Nat /\ Top.gas.limit \in Nat
    BY <1>1 DEF Frame, Gas
  <2>2. f.gas.remaining <= f.gas.limit
    BY <1>2, <1>3, <2>1
  <2> QED
    BY <1>1, <1>2, <1>3, <2>1, <2>2 DEF FrameOk, Waits, Pledge
<1>5. s = [call_stack EXCEPT ![Len(call_stack)] = f]
    BY DEF ActionTaken, Top
<1>6. call_stack \in Seq(Frame) /\ Len(call_stack) \in 1 .. Len(call_stack)
    BY <1>1 DEF LoopInv, Sound
<1> HIDE DEF f, L, s
<1>7. Sound(s, tx - InitialGasSpend)
    BY <1>1, <1>3, <1>4, <1>5, ReplaceTop DEF LoopInv, Top
<1>8. Len(s) = Len(call_stack) /\ s[Len(s)] = f
    BY <1>3, <1>5, <1>6, ExceptSeq
<1>9. s # << >>
    BY <1>6, <1>8
<1> QED
    BY <1>1, <1>2, <1>4, <1>7, <1>8, <1>9 DEF LoopInv, Granted, s, L

\* The loop makes a call.
LEMMA LoopCallStep ==
    ASSUME LoopInv, LoopCall
    PROVE  LoopInv'
<1> DEFINE a == Top.next_action
<1>1. status = "running" /\ a.type = "Call" /\ a # NoAction
    BY DEF LoopCall, Pending, NoAction
<1> DEFINE s == ActionTaken
           L == a.gas_limit
<1>2. /\ Top \in Frame /\ L \in Nat /\ Sound(s, tx - InitialGasSpend)
      /\ Len(s) = depth /\ Len(s) = contexts /\ Granted(s, L, tx - InitialGasSpend)
    BY <1>1, Taken
<1>3. /\ a.is_static \in BOOLEAN /\ a.has_transfer \in BOOLEAN
      /\ a = CallAction(L, a.is_static, a.has_transfer)
  <2>1. a \in Action
    BY <1>2 DEF Frame
  <2> HIDE DEF a
  <2> QED BY <1>1, <2>1 DEF Action, CallAction
<1>4. tx \in TxGasLimits /\ storage \in Storage
    BY DEF LoopInv
<1>5. CASE OpenFrame(s, "call", L, a.is_static)
  <2>1. tx' = tx
    BY DEF LoopCall
  <2> HIDE DEF s, L, a
  <2> QED BY <1>2, <1>3, <1>4, <1>5, <2>1, Opened
<1>6. ASSUME NEW r \in CallResults(a), HandleResult(s, "call", r),
             UNCHANGED <<contexts, depth, storage, original>>
      PROVE  LoopInv'
  <2>1. tx' = tx
    BY DEF LoopCall
  <2> HIDE DEF s, L, a
  <2>2. Returns(r, L)
    BY <1>2, <1>3, <1>6, CallReturns
  <2>3. /\ contexts' = Len(s) /\ depth' = Len(s) /\ storage' \in Storage
        /\ UNCHANGED <<original, tx>>
    BY <1>2, <1>4, <1>6, <2>1
  <2> QED
    BY <1>1, <1>2, <1>6, <2>2, <2>3, Delivered
<1> QED
    BY <1>5, <1>6 DEF LoopCall

\* The loop makes a creation.
LEMMA LoopCreateStep ==
    ASSUME LoopInv, LoopCreate
    PROVE  LoopInv'
<1>1. status = "running" /\ Top.next_action # NoAction
    BY DEF LoopCreate, Pending, NoAction
<1> DEFINE s == ActionTaken
           L == Top.next_action.gas_limit
<1>2. /\ L \in Nat /\ Sound(s, tx - InitialGasSpend)
      /\ Len(s) = depth /\ Len(s) = contexts /\ Granted(s, L, tx - InitialGasSpend)
    BY <1>1, Taken
<1>3. tx \in TxGasLimits /\ storage \in Storage /\ tx' = tx
    BY DEF LoopInv, LoopCreate
<1>4. CASE OpenFrame(s, "create", L, FALSE)
  <2> HIDE DEF s, L
  <2> QED BY <1>2, <1>3, <1>4, Opened
<1>5. ASSUME NEW r \in CreateResults(L), HandleResult(s, "create", r),
             UNCHANGED <<contexts, depth, storage, original>>
      PROVE  LoopInv'
  <2> HIDE DEF s, L
  <2>1. Returns(r, L)
    BY <1>2, <1>5, CreateReturns
  <2>2. /\ contexts' = Len(s) /\ depth' = Len(s) /\ storage' \in Storage
        /\ UNCHANGED <<original, tx>>
    BY <1>2, <1>3, <1>5
  <2> QED
    BY <1>1, <1>2, <1>5, <2>1, <2>2, Delivered
<1> QED
    BY <1>4, <1>5 DEF LoopCreate

\* The loop closes the newest frame.
LEMMA LoopReturnStep ==
    ASSUME LoopInv, LoopReturn
    PROVE  LoopInv'
<1>1. status = "running" /\ call_stack # << >> /\ Top \in Frame /\ FrameOk(Top)
    BY TopFrame DEF LoopInv, LoopReturn, Pending, Top
<1>2. PICK r \in FrameResults(Top) :
         /\ storage' = IF Commits(Top.kind, r) THEN storage ELSE Top.checkpoint
         /\ HandleResult(Callers, Top.kind, r)
    BY DEF LoopReturn
<1> DEFINE s == Callers
           L == Top.gas.limit
<1>3. L \in Nat /\ Top.kind # "eofcreate" /\ Returns(r, L)
    BY <1>1, FrameReturns DEF Frame, Gas, FrameOk
<1>4. /\ Sound(s, tx - InitialGasSpend) /\ Len(s) = Len(call_stack) - 1
      /\ s # << >> => Waits(s[Len(s)], L)
    BY <1>1, PopFrame DEF LoopInv, Callers, Top
<1>5. Granted(s, L, tx - InitialGasSpend)
  <2>1. CASE s = << >>
    <3>1. Len(call_stack) = 1
      <4>1. Len(call_stack) \in Nat
        BY DEF LoopInv, Sound
      <4>2. Len(s) = 0
        BY <2>1
      <4> HIDE DEF s
      <4> QED BY <1>4, <4>1, <4>2
    <3>2. call_stack[1].gas.limit <= tx - InitialGasSpend
      BY <1>1 DEF LoopInv, Sound
    <3> QED
      BY <2>1, <3>1, <3>2 DEF Granted, Top
  <2>2. CASE s # << >>
    BY <1>4, <2>2 DEF Granted
  <2> QED
    BY <2>1, <2>2
<1>6. /\ contexts' = Len(s) /\ depth' = Len(s) /\ storage' \in Storage
      /\ UNCHANGED <<original, tx>>
  <2>1. contexts' = contexts - 1 /\ depth' = depth - 1 /\ UNCHANGED <<original, tx>>
    BY DEF LoopReturn
  <2>2. storage \in Storage /\ Top.checkpoint \in Storage
    BY <1>1 DEF LoopInv, Frame
  <2> HIDE DEF s
  <2> QED
    BY <1>2, <1>4, <2>1, <2>2 DEF LoopInv
<1> HIDE DEF s, L
<1> QED
    BY <1>1, <1>2, <1>3, <1>4, <1>5, <1>6, Delivered DEF s

\* While no transaction runs there are no frames.
LEMMA EmptyStack ==
    ASSUME LoopInv, status # "running"
    PROVE  /\ call_stack = << >> /\ contexts = 0 /\ depth = 0
           /\ \A g : Sound(call_stack, g)
BY StorageAssumption DEF LoopInv, Sound

\* A transaction begins, with a frame or with its result.
LEMMA TransactStep ==
    ASSUME LoopInv, NEW t \in TxGasLimits, NEW b \in BOOLEAN, Transact(t, b)
    PROVE  LoopInv'
<1> DEFINE L == t - InitialGasSpend
           a == CallAction(L, FALSE, b)
<1>1. L \in Nat
    BY GasAssumption
<1>2. /\ call_stack = << >> /\ contexts = 0 /\ depth = 0
      /\ Sound(call_stack, t - InitialGasSpend)
    BY EmptyStack DEF Transact
<1>3. a.gas_limit = L
    BY DEF CallAction
<1>4. tx' = t
    BY DEF Transact
<1>5. ASSUME NEW kind \in {"call", "create"}, OpenFrame(<< >>, kind, a.gas_limit, FALSE)
      PROVE  LoopInv'
  <2>1. Granted(<< >>, L, t - InitialGasSpend)
    BY <1>1 DEF Granted
  <2>2. OpenFrame(<< >>, kind, L, FALSE)
    BY <1>3, <1>5
  <2>3. Len(<< >>) = depth /\ Len(<< >>) = contexts /\ Sound(<< >>, t - InitialGasSpend)
    BY <1>2
  <2> QED
    BY <1>1, <1>4, <2>1, <2>2, <2>3, Opened
<1>6. ASSUME NEW r \in CallResults(a) \cup CreateResults(a.gas_limit),
             status' = "done", result' = LastFrameReturn(r, t),
             UNCHANGED <<call_stack, contexts, depth, storage, original>>
      PROVE  LoopInv'
  <2>1. Returns(r, t - InitialGasSpend)
    BY <1>1, <1>3, <1>6, CallReturns, CreateReturns
  <2>2. result' \in Result /\ Finished'
    BY <1>4, <1>6, <2>1, LastReturns DEF Finished
  <2>3. Sound(call_stack, tx - InitialGasSpend)'
    BY <1>2, <1>4, <1>6 DEF Sound
  <2> QED
    BY <1>2, <1>4, <1>6, <2>2, <2>3 DEF LoopInv
<1> QED
    BY <1>5, <1>6 DEF Transact

\* The result is handed out.
LEMMA OutputStep ==
    ASSUME LoopInv, NEW b \in BOOLEAN, NEW d \in SUBSET Slot, Output(b, d)
    PROVE  LoopInv'
<1>1. status = "done" /\ status' = "idle" /\ UNCHANGED <<call_stack, contexts, depth, tx, result>>
    BY DEF Output
<1>2. original' \in Storage /\ storage' \in Storage
    BY StorageAssumption DEF Output, LoopInv, Storage
<1>3. Sound(call_stack, tx - InitialGasSpend)'
    BY <1>1 DEF LoopInv, Sound
<1> QED
    BY <1>1, <1>2, <1>3 DEF LoopInv

\* No transaction has no result.
LEMMA NoResultTyped == NoResult \in Result
BY DEF NoResult, InterpreterResult, NewGas, Result, Gas, InstructionResult, ReturnOk

\* The database fails.
LEMMA DatabaseErrorStep ==
    ASSUME LoopInv, DatabaseError
    PROVE  LoopInv'
<1>1. Sound(call_stack, tx - InitialGasSpend)'
    BY StorageAssumption DEF DatabaseError, Sound
<1> QED
    BY <1>1, NoResultTyped DEF DatabaseError, LoopInv

\* Every step of the system keeps the invariant.
LEMMA LoopNext ==
    ASSUME LoopInv, [Next]_vars
    PROVE  LoopInv'
<1>1. CASE Step
  <2>1. ASSUME NEW c \in Costs, Instructions(c) \/ SelfDestruct(c) \/ Create(c)
        PROVE  LoopInv'
    BY <2>1, InstructionsStep, SelfDestructStep, CreateStep
  <2>2. ASSUME NEW r \in {"Stop", "Return", "Revert", "InvalidJump"}, Halt(r)
        PROVE  LoopInv'
    BY <2>2, HaltStep
  <2>3. ASSUME NEW k \in Slot, NEW new \in Word, NEW c \in Costs, SStore(k, new, c)
        PROVE  LoopInv'
    BY <2>3, SStoreStep
  <2>4. ASSUME NEW s \in {"Call", "CallCode", "DelegateCall", "StaticCall"},
               NEW b \in BOOLEAN, NEW c \in Costs, NEW l \in CallGasLimits, Call(s, b, c, l)
        PROVE  LoopInv'
    BY <2>4, CallStep
  <2> QED
    BY <1>1, <2>1, <2>2, <2>3, <2>4, LoopCallStep, LoopCreateStep, LoopReturnStep DEF Step
<1>2. CASE UNCHANGED vars
    BY <1>2 DEF vars, LoopInv, Finished, Sound
<1> QED
    BY <1>1, <1>2, TransactStep, OutputStep, DatabaseErrorStep DEF Next

\* The first state satisfies the invariant.
LEMMA LoopInit ==
    ASSUME Init
    PROVE  LoopInv
<1>1. Sound(call_stack, tx - InitialGasSpend)
    BY StorageAssumption DEF Init, Sound
<1> QED
    BY <1>1, NoResultTyped DEF Init, LoopInv

\* The loop invariant holds throughout, for every value of the constants.
LEMMA LoopInvariant == Spec => []LoopInv
<1> QED
    BY LoopInit, LoopNext, PTL DEF Spec

-----------------------------------------------------------------------------
(* What it means                                                           *)

\* In run_the_loop and the interpreter: no counter of gas ever goes below
\* zero, so the wrapping subtractions of gas.rs never wrap, and the loop
\* never panics on a FatalExternalError while frames are legacy code.
THEOREM TypeTheorem == Spec => []TypeOK
<1>1. LoopInv => TypeOK
    BY DEF LoopInv, Sound, TypeOK, Result
<1> QED
    BY <1>1, LoopInvariant, PTL

\* Frames of run_the_loop, contexts of the shared memory and checkpoints of
\* the journal stay in step, within CALL_STACK_LIMIT + 1, and every frame
\* but the newest waits.
THEOREM StacksTheorem == Spec => []StacksAgree
<1>1. LoopInv => StacksAgree
    BY DEF LoopInv, Sound, StacksAgree, Waits
<1> QED
    BY <1>1, LoopInvariant, PTL

\* No gas is made by calls, creations, stipends and returns: every frame and
\* its callee stay within the frame's limit, and what a finished transaction
\* spends is between the intrinsic gas and its gas limit.
THEOREM GasTheorem == Spec => []GasConserved
<1>1. ASSUME LoopInv
      PROVE  GasConserved
  <2>1. ASSUME NEW k \in DOMAIN call_stack
        PROVE  call_stack[k].gas.remaining + Promised(k) <= call_stack[k].gas.limit
    <3>1. call_stack \in Seq(Frame) /\ Len(call_stack) \in Nat /\ k \in 1 .. Len(call_stack)
      BY <1>1 DEF LoopInv, Sound
    <3>2. CASE k < Len(call_stack)
      <4>1. k \in 1 .. Len(call_stack) - 1
        BY <3>1, <3>2
      <4> QED
        BY <1>1, <3>2, <4>1 DEF LoopInv, Sound, Waits, Promised
    <3>3. CASE ~(k < Len(call_stack))
      BY <1>1, <3>1, <3>3 DEF LoopInv, Sound, FrameOk, Pledge, Promised
    <3> QED
      BY <3>2, <3>3
  <2> QED
    BY <1>1, <2>1 DEF LoopInv, Sound, GasConserved, Finished
<1> QED
    BY <1>1, LoopInvariant, PTL

\* The refund of a finished transaction lies between zero and the given part
\* of the gas it spent, so the casts and subtractions of post_execution.rs
\* do not wrap.
THEOREM RefundTheorem == Spec => []RefundBounded
<1>1. LoopInv => RefundBounded
    BY DEF LoopInv, Finished, RefundBounded
<1> QED
    BY <1>1, LoopInvariant, PTL

-----------------------------------------------------------------------------
(* The storage side, on top of LoopInv: what reverts restore, what static  *)
(* frames may do, and what the refund counters of the frames cover, for    *)
(* every number of slots and frames.                                       *)

\* The slots that s has cleared, if the transaction began with o, and what
\* they have earned.
Cleared(o, s) == {k \in Slot : o[k] # 0 /\ s[k] = 0}
EarnedFrom(o, s) == ClearRefund * Cardinality(Cleared(o, s))

\* f has handed over, or works on, the storage st: its counter covers the
\* difference to its checkpoint, and a static frame asks for static calls.
Keeps(f, st, o) ==
    /\ f.is_static /\ f.next_action # NoAction =>
          f.next_action.type = "Call" /\ f.next_action.is_static
    /\ f.instruction_result \notin ReturnError =>
          f.gas.refunded >= EarnedFrom(o, st) - EarnedFrom(o, f.checkpoint)

\* The inductive invariant on a call stack s over the storage st, in a
\* transaction that began with o.
Stored(s, st, o) ==
    /\ \A k \in 1 .. Len(s) :
          Keeps(s[k], IF k < Len(s) THEN s[k + 1].checkpoint ELSE st, o)
    /\ \A k \in 1 .. Len(s) :
          s[k].is_static =>
              /\ st = s[k].checkpoint
              /\ \A l \in k .. Len(s) : s[l].is_static /\ s[l].kind = "call"
    /\ s # << >> => s[1].checkpoint = o

StoreInv ==
    /\ Stored(call_stack, storage, original)
    /\ status = "idle" => storage = original
    /\ FailureLeavesNoTrace

-----------------------------------------------------------------------------
(* What slots earn                                                         *)

\* What slots have earned is a natural number.
LEMMA EarnedNat ==
    ASSUME NEW o, NEW s
    PROVE  /\ IsFiniteSet(Cleared(o, s))
           /\ Cardinality(Cleared(o, s)) \in Nat
           /\ EarnedFrom(o, s) \in Nat
<1>1. Cleared(o, s) \subseteq Slot
    BY DEF Cleared
<1>2. IsFiniteSet(Cleared(o, s))
    BY <1>1, StorageAssumption, FS_Subset
<1>3. Cardinality(Cleared(o, s)) \in Nat
    BY <1>2, FS_CardinalityType
<1> QED
    BY <1>2, <1>3, RefundAssumption DEF EarnedFrom

\* sstore_refund pays for a slot that is cleared and takes at most as much
\* back for one that is filled again.
LEMMA StoreEarns ==
    ASSUME NEW o \in Storage, NEW s \in Storage, NEW k \in Slot, NEW n \in Word
    PROVE  EarnedFrom(o, [s EXCEPT ![k] = n])
              <= EarnedFrom(o, s) + SStoreRefund(o[k], s[k], n)
<1> DEFINE t == [s EXCEPT ![k] = n]
           C == Cleared(o, s)
           D == Cleared(o, t)
           d == SStoreRefund(o[k], s[k], n)
           c == Cardinality(C)
<1>1. /\ IsFiniteSet(C) /\ c \in Nat /\ Cardinality(D) \in Nat
    BY EarnedNat
<1>2. ClearRefund \in Nat /\ SetRefund \in Nat /\ ResetRefund \in Nat /\ d \in Int
    BY RefundAssumption, RefundIsInt
<1>3. t[k] = n /\ \A j \in Slot \ {k} : t[j] = s[j]
    BY DEF Storage
<1>4. EarnedFrom(o, s) = ClearRefund * c /\ EarnedFrom(o, t) = ClearRefund * Cardinality(D)
    BY DEF EarnedFrom
<1>5. CASE o[k] # 0 /\ s[k] = 0 /\ n # 0
  <2>1. D = C \ {k} /\ k \in C
    BY <1>3, <1>5 DEF Cleared
  <2>2. Cardinality(D) = c - 1
    BY <1>1, <2>1, FS_RemoveElement
  <2>3. d >= 0 - ClearRefund
    BY <1>2, <1>5 DEF SStoreRefund
  <2>4. ClearRefund * (c - 1) = ClearRefund * c - ClearRefund
    BY <1>1, <1>2
  <2> HIDE DEF c, d, C, D, t
  <2>5. ClearRefund * c \in Int
    BY <1>1, <1>2
  <2> QED
    BY <1>2, <1>4, <2>2, <2>3, <2>4, <2>5 DEF t, d
<1>6. CASE o[k] # 0 /\ s[k] # 0 /\ n = 0
  <2>1. D = C \cup {k} /\ k \notin C
    BY <1>3, <1>6 DEF Cleared
  <2>2. Cardinality(D) = c + 1
    BY <1>1, <2>1, FS_AddElement
  <2>3. d >= ClearRefund
    BY <1>2, <1>6 DEF SStoreRefund
  <2>4. ClearRefund * (c + 1) = ClearRefund * c + ClearRefund
    BY <1>1, <1>2
  <2> HIDE DEF c, d, C, D, t
  <2>5. ClearRefund * c \in Int
    BY <1>1, <1>2
  <2> QED
    BY <1>2, <1>4, <2>2, <2>3, <2>4, <2>5 DEF t, d
<1>7. CASE o[k] = 0 \/ (s[k] = 0 <=> n = 0)
  <2>1. D = C
    BY <1>3, <1>7 DEF Cleared
  <2>2. d >= 0
    BY <1>2, <1>7 DEF SStoreRefund
  <2> HIDE DEF c, d, C, D, t
  <2>3. ClearRefund * c \in Int
    BY <1>1, <1>2
  <2> QED
    BY <1>2, <1>4, <2>1, <2>2, <2>3 DEF t, d, c
<1> QED
    BY <1>5, <1>6, <1>7

-----------------------------------------------------------------------------
(* Stacks over a storage                                                   *)

\* The newest frame keeps its promise on the present storage.
LEMMA StoredNewest ==
    ASSUME NEW s \in Seq(Frame), s # << >>, NEW st, NEW o, Stored(s, st, o)
    PROVE  LET f == s[Len(s)]
           IN  /\ Keeps(f, st, o)
               /\ f.is_static => st = f.checkpoint /\ f.kind = "call"
<1>1. Len(s) \in 1 .. Len(s) /\ ~(Len(s) < Len(s)) /\ Len(s) \in Len(s) .. Len(s)
    OBVIOUS
<1> QED
    BY <1>1 DEF Stored

\* The newest frame goes on, with a storage it was allowed to change.
LEMMA StoredReplace ==
    ASSUME NEW s \in Seq(Frame), s # << >>, NEW st, NEW o, Stored(s, st, o),
           NEW f \in Frame, f.kind = s[Len(s)].kind,
           f.is_static = s[Len(s)].is_static, f.checkpoint = s[Len(s)].checkpoint,
           NEW st2, Keeps(f, st2, o), f.is_static => st2 = st
    PROVE  Stored([s EXCEPT ![Len(s)] = f], st2, o)
<1> DEFINE r == [s EXCEPT ![Len(s)] = f]
<1>1. Len(s) \in 1 .. Len(s) /\ Len(s) \in Nat
    OBVIOUS
<1>2. r \in Seq(Frame) /\ Len(r) = Len(s)
    BY <1>1, ExceptSeq
<1>3. \A k \in 1 .. Len(s) : r[k] = IF k = Len(s) THEN f ELSE s[k]
    BY <1>1
<1>4. \A k \in 1 .. Len(s) : /\ r[k].checkpoint = s[k].checkpoint
                             /\ r[k].is_static = s[k].is_static
                             /\ r[k].kind = s[k].kind
    BY <1>3
<1> HIDE DEF r
<1>5. ASSUME NEW k \in 1 .. Len(r)
      PROVE  Keeps(r[k], IF k < Len(r) THEN r[k + 1].checkpoint ELSE st2, o)
  <2>1. CASE k = Len(s)
    BY <1>1, <1>2, <1>3, <2>1
  <2>2. CASE k # Len(s)
    <3>1. k \in 1 .. Len(s) /\ k + 1 \in 1 .. Len(s) /\ k < Len(s)
      BY <1>1, <1>2, <2>2
    <3>2. r[k] = s[k] /\ r[k + 1].checkpoint = s[k + 1].checkpoint
      BY <1>3, <1>4, <2>2, <3>1
    <3> QED
      BY <1>2, <3>1, <3>2 DEF Stored
  <2> QED
    BY <2>1, <2>2
<1>6. ASSUME NEW k \in 1 .. Len(r), r[k].is_static
      PROVE  /\ st2 = r[k].checkpoint
             /\ \A l \in k .. Len(r) : r[l].is_static /\ r[l].kind = "call"
  <2>1. k \in 1 .. Len(s) /\ s[k].is_static
    BY <1>2, <1>4, <1>6
  <2>2. st = s[k].checkpoint /\ \A l \in k .. Len(s) : s[l].is_static /\ s[l].kind = "call"
    BY <2>1 DEF Stored
  <2>3. Len(s) \in k .. Len(s)
    BY <1>1, <2>1
  <2>4. \A l \in k .. Len(s) : l \in 1 .. Len(s)
    BY <1>1, <2>1
  <2> QED
    BY <1>2, <1>4, <2>1, <2>2, <2>3, <2>4
<1>7. r[1].checkpoint = o
  <2>1. 1 \in 1 .. Len(s)
    BY <1>1
  <2> QED
    BY <1>4, <2>1 DEF Stored
<1> QED
    BY <1>5, <1>6, <1>7 DEF Stored, r

\* A frame is opened: the present storage is its checkpoint.
LEMMA StoredPush ==
    ASSUME NEW s \in Seq(Frame), NEW st, NEW o, Stored(s, st, o),
           NEW f \in Frame, f.checkpoint = st, Keeps(f, st, o),
           f.is_static => f.kind = "call",
           s = << >> => st = o,
           s # << >> => (s[Len(s)].is_static => f.is_static)
    PROVE  Stored(Append(s, f), st, o)
<1> DEFINE r == Append(s, f)
           n == Len(s)
<1>1. n \in Nat /\ r \in Seq(Frame) /\ Len(r) = n + 1
    OBVIOUS
<1>2. r[n + 1] = f /\ \A k \in 1 .. n : r[k] = s[k]
    OBVIOUS
<1>3. s # << >> => 1 \in 1 .. n
    OBVIOUS
<1>4. \A k \in 1 .. n : s # << >>
    OBVIOUS
<1> HIDE DEF r
<1>5. ASSUME NEW k \in 1 .. Len(r)
      PROVE  Keeps(r[k], IF k < Len(r) THEN r[k + 1].checkpoint ELSE st, o)
  <2>1. CASE k = n + 1
    BY <1>1, <1>2, <2>1
  <2>2. CASE k = n
    <3>1. k \in 1 .. n /\ k < Len(r) /\ ~(k < n) /\ k + 1 = n + 1
      BY <1>1, <2>2
    <3>2. Keeps(s[k], st, o)
      BY <3>1 DEF Stored, n
    <3> HIDE DEF n
    <3> QED
      BY <1>2, <3>1, <3>2
  <2>3. CASE k \in 1 .. n - 1
    <3>1. k \in 1 .. n /\ k < n /\ k + 1 \in 1 .. n /\ k < Len(r)
      BY <1>1, <2>3
    <3>2. Keeps(s[k], s[k + 1].checkpoint, o)
      BY <3>1 DEF Stored, n
    <3> HIDE DEF n
    <3> QED
      BY <1>2, <3>1, <3>2
  <2> HIDE DEF n
  <2> QED
    BY <1>1, <2>1, <2>2, <2>3
<1>6. ASSUME NEW k \in 1 .. Len(r), r[k].is_static
      PROVE  /\ st = r[k].checkpoint
             /\ \A l \in k .. Len(r) : r[l].is_static /\ r[l].kind = "call"
  <2>1. CASE k = n + 1
    <3>1. \A l \in k .. Len(r) : l = n + 1
      BY <1>1, <2>1
    <3> QED
      BY <1>2, <1>6, <2>1, <3>1
  <2>2. CASE k # n + 1
    <3>1. k \in 1 .. n /\ n \in k .. n
      BY <1>1, <2>2
    <3>2. /\ st = s[k].checkpoint
          /\ \A l \in k .. n : s[l].is_static /\ s[l].kind = "call"
      BY <1>2, <1>6, <3>1 DEF Stored, n
    <3>3. f.is_static
      BY <1>4, <3>1, <3>2
    <3>4. \A l \in k .. Len(r) : l = n + 1 \/ (l \in k .. n /\ l \in 1 .. n)
      BY <1>1, <3>1
    <3> HIDE DEF n
    <3> QED
      BY <1>2, <3>1, <3>2, <3>3, <3>4
  <2> QED
    BY <2>1, <2>2
<1>7. r[1].checkpoint = o
  <2>1. CASE s = << >>
    BY <1>2, <2>1
  <2>2. CASE s # << >>
    BY <1>2, <1>3, <2>2 DEF Stored
  <2> QED
    BY <2>1, <2>2
<1> QED
    BY <1>5, <1>6, <1>7 DEF Stored, r

\* A frame is closed: over its checkpoint, its callers are as they were.
LEMMA StoredPop ==
    ASSUME NEW s \in Seq(Frame), s # << >>, NEW st, NEW o, Stored(s, st, o)
    PROVE  LET r == SubSeq(s, 1, Len(s) - 1)
               c == s[Len(s)].checkpoint
           IN  /\ Stored(r, c, o)
               /\ r # << >> => (r[Len(r)].is_static => c = st)
               /\ r = << >> => c = o
<1> DEFINE r == SubSeq(s, 1, Len(s) - 1)
           n == Len(s)
           c == s[n].checkpoint
<1>1. n \in Nat \ {0} /\ n \in 1 .. n /\ 1 \in 1 .. n
    OBVIOUS
<1>2. r \in Seq(Frame) /\ Len(r) = n - 1
  <2> DEFINE m == Len(s) - 1
  <2>1. m \in Nat /\ \A i \in 1 .. m : s[i] \in Frame
    OBVIOUS
  <2>2. r = SubSeq(s, 1, m)
    OBVIOUS
  <2> HIDE DEF m
  <2>3. SubSeq(s, 1, m) \in Seq(Frame) /\ Len(SubSeq(s, 1, m)) = m
    BY <2>1, SubSeqProperties
  <2> QED
    BY <2>2, <2>3 DEF m
<1>3. \A k \in 1 .. n - 1 : r[k] = s[k]
    OBVIOUS
<1> HIDE DEF r
<1>4. ASSUME NEW k \in 1 .. Len(r)
      PROVE  Keeps(r[k], IF k < Len(r) THEN r[k + 1].checkpoint ELSE c, o)
  <2>1. k \in 1 .. n /\ k < n /\ k \in 1 .. n - 1
    BY <1>1, <1>2
  <2>2. Keeps(s[k], s[k + 1].checkpoint, o)
    BY <2>1 DEF Stored, n
  <2>3. CASE k = n - 1
    <3>1. k + 1 = n /\ ~(k < Len(r))
      BY <1>1, <1>2, <2>3
    <3> HIDE DEF n
    <3> QED
      BY <1>3, <2>1, <2>2, <3>1
  <2>4. CASE k # n - 1
    <3>1. k + 1 \in 1 .. n - 1 /\ k < Len(r)
      BY <1>1, <1>2, <2>1, <2>4
    <3> HIDE DEF n, c
    <3> QED
      BY <1>3, <2>1, <2>2, <3>1
  <2> QED
    BY <2>3, <2>4
<1>5. ASSUME NEW k \in 1 .. Len(r), r[k].is_static
      PROVE  /\ c = r[k].checkpoint /\ c = st
             /\ \A l \in k .. Len(r) : r[l].is_static /\ r[l].kind = "call"
  <2>1. /\ k \in 1 .. n /\ k \in 1 .. n - 1 /\ n \in k .. n
        /\ \A l \in k .. Len(r) : l \in k .. n /\ l \in 1 .. n - 1
    BY <1>1, <1>2
  <2>2. /\ st = s[k].checkpoint
        /\ \A l \in k .. n : s[l].is_static /\ s[l].kind = "call"
    BY <1>3, <1>5, <2>1 DEF Stored, n
  <2>3. st = c
    BY <1>1, <2>1, <2>2 DEF Stored, n
  <2> HIDE DEF n, c
  <2> QED
    BY <1>3, <2>1, <2>2, <2>3
<1>6. r # << >> => r[1].checkpoint = o /\ Len(r) \in 1 .. Len(r)
  <2> HAVE r # << >>
  <2>1. 1 \in 1 .. n - 1 /\ Len(r) \in 1 .. Len(r)
    BY <1>1, <1>2
  <2> QED
    BY <1>3, <2>1 DEF Stored
<1>7. r = << >> => c = o
  <2> HAVE r = << >>
  <2>1. n = 1
    BY <1>1, <1>2
  <2> QED
    BY <2>1 DEF Stored
<1> HIDE DEF c, n
<1>8. Stored(r, c, o)
    BY <1>4, <1>5, <1>6 DEF Stored
<1>9. r # << >> => (r[Len(r)].is_static => c = st)
    BY <1>5, <1>6
<1> QED
    BY <1>7, <1>8, <1>9 DEF r, c, n

-----------------------------------------------------------------------------
(* Steps of the newest frame                                               *)

\* What is put on top of a stack of frames is a frame.
LEMMA NewTopFrame ==
    ASSUME NEW s \in Seq(Frame), s # << >>, NEW f,
           [s EXCEPT ![Len(s)] = f] \in Seq(Frame)
    PROVE  f \in Frame
<1> DEFINE r == [s EXCEPT ![Len(s)] = f]
<1>1. Len(s) \in DOMAIN s
    OBVIOUS
<1>2. r[Len(s)] = f /\ DOMAIN r = DOMAIN s
    BY <1>1
<1>3. \A i \in DOMAIN r : r[i] \in Frame
    <2> HIDE DEF r
    <2> QED BY DEF r
<1> HIDE DEF r
<1> QED
    BY <1>1, <1>2, <1>3

\* The newest frame becomes f, and may have written to storage.
LEMMA StoreTopStep ==
    ASSUME LoopInv, LoopInv', StoreInv, status = "running", NEW f,
           call_stack' = [call_stack EXCEPT ![Len(call_stack)] = f],
           f.kind = Top.kind, f.is_static = Top.is_static, f.checkpoint = Top.checkpoint,
           Keeps(f, storage', original), f.is_static => storage' = storage,
           UNCHANGED <<status, original>>
    PROVE  StoreInv'
<1>1. /\ call_stack \in Seq(Frame) /\ call_stack # << >>
      /\ [call_stack EXCEPT ![Len(call_stack)] = f] \in Seq(Frame)
    BY DEF LoopInv, Sound
<1>2. f \in Frame
    BY <1>1, NewTopFrame
<1>3. Stored(call_stack, storage, original)
    BY DEF StoreInv
<1>4. Stored(call_stack', storage', original)
    BY <1>1, <1>2, <1>3, StoredReplace DEF Top
<1>5. Stored(call_stack, storage, original)'
    BY <1>4 DEF Stored, Keeps, EarnedFrom, Cleared
<1> QED
    BY <1>5 DEF StoreInv, FailureLeavesNoTrace

\* What the newest frame keeps while it executes.
LEMMA ExecutingKeeps ==
    ASSUME LoopInv, StoreInv, Executing
    PROVE  /\ status = "running" /\ Top \in Frame /\ Top.next_action = NoAction
           /\ Top.gas \in Gas /\ Top.is_static \in BOOLEAN
           /\ Keeps(Top, storage, original)
           /\ Top.gas.refunded
                 >= EarnedFrom(original, storage) - EarnedFrom(original, Top.checkpoint)
<1>1. /\ call_stack # << >> /\ status = "running" /\ Top \in Frame
      /\ Top.next_action = NoAction /\ Top.gas \in Gas
      /\ Top.instruction_result = "Continue"
    BY ExecutingTop
<1>2. call_stack \in Seq(Frame) /\ Stored(call_stack, storage, original)
    BY DEF LoopInv, Sound, StoreInv
<1>3. Keeps(Top, storage, original)
    BY <1>1, <1>2, StoredNewest DEF Top
<1>4. "Continue" \notin ReturnError
    BY DEF ReturnError
<1> QED
    BY <1>1, <1>3, <1>4 DEF Keeps, Frame

\* An executing frame becomes f without a store and with its refunds.
LEMMA StoreBecomes ==
    ASSUME LoopInv, LoopInv', StoreInv, Executing, NEW f, Becomes(f),
           f.kind = Top.kind, f.is_static = Top.is_static, f.checkpoint = Top.checkpoint,
           f.gas.refunded = Top.gas.refunded,
           f.is_static /\ f.next_action # NoAction =>
              f.next_action.type = "Call" /\ f.next_action.is_static
    PROVE  StoreInv'
<1>1. /\ status = "running"
      /\ Top.gas.refunded
            >= EarnedFrom(original, storage) - EarnedFrom(original, Top.checkpoint)
    BY ExecutingKeeps
<1>2. /\ call_stack' = [call_stack EXCEPT ![Len(call_stack)] = f]
      /\ UNCHANGED <<status, original>> /\ storage' = storage
    BY DEF Becomes
<1>3. Keeps(f, storage', original)
    BY <1>1, <1>2 DEF Keeps
<1> QED
    BY <1>1, <1>2, <1>3, StoreTopStep

\* An executing frame halts.
LEMMA StoreHalted ==
    ASSUME LoopInv, LoopInv', StoreInv, Executing, NEW r, Becomes(Halted(Top, r))
    PROVE  StoreInv'
<1> DEFINE f == Halted(Top, r)
<1>1. Top \in Frame /\ Top.next_action = NoAction
    BY ExecutingKeeps
<1>2. /\ f.kind = Top.kind /\ f.is_static = Top.is_static
      /\ f.checkpoint = Top.checkpoint /\ f.gas = Top.gas
      /\ f.next_action = NoAction
    BY <1>1 DEF Halted, Frame
<1> HIDE DEF f
<1> QED
    BY <1>2, StoreBecomes DEF f

\* A payment leaves the refunds alone.
LEMMA PaymentKeepsRefunds ==
    ASSUME NEW g \in Gas, NEW c
    PROVE  /\ RecordCost(g, c).refunded = g.refunded
           /\ DOMAIN RecordCost(g, c) = DOMAIN g
BY DEF RecordCost, Gas

\* The instructions that call nobody.
LEMMA StoreInstructions ==
    ASSUME LoopInv, LoopInv', StoreInv, NEW c \in Costs, Instructions(c)
    PROVE  StoreInv'
<1>1. Executing
    BY DEF Instructions
<1>2. CASE Affords(Top.gas, c)
  <2> DEFINE f == [Top EXCEPT !.gas = RecordCost(@, c)]
  <2>1. Top \in Frame /\ Top.next_action = NoAction /\ Top.gas \in Gas
    BY <1>1, ExecutingKeeps
  <2>2. /\ f.kind = Top.kind /\ f.is_static = Top.is_static
        /\ f.checkpoint = Top.checkpoint /\ f.gas = RecordCost(Top.gas, c)
        /\ f.next_action = NoAction
    BY <2>1 DEF Frame
  <2>3. Becomes(f)
    BY <1>2 DEF Instructions
  <2>4. f.gas.refunded = Top.gas.refunded
    BY <2>1, <2>2, PaymentKeepsRefunds
  <2> HIDE DEF f
  <2> QED
    BY <1>1, <2>2, <2>3, <2>4, StoreBecomes
<1>3. CASE ~Affords(Top.gas, c)
    BY <1>1, <1>3, StoreHalted DEF Instructions
<1> QED
    BY <1>2, <1>3

\* STOP, RETURN, REVERT and failures.
LEMMA StoreHalt ==
    ASSUME LoopInv, LoopInv', StoreInv,
           NEW r \in {"Stop", "Return", "Revert", "InvalidJump"}, Halt(r)
    PROVE  StoreInv'
<1>1. Executing
    BY DEF Halt
<1>2. Top \in Frame /\ Top.next_action = NoAction
    BY <1>1, ExecutingKeeps
<1>3. [Halted(Top, r) EXCEPT !.next_action = IF r \in {"Return", "Revert"} THEN NoAction ELSE @]
         = Halted(Top, r)
    BY <1>2 DEF Halted, Frame
<1> QED
    BY <1>1, <1>3, StoreHalted DEF Halt

\* SELFDESTRUCT.
LEMMA StoreSelfDestruct ==
    ASSUME LoopInv, LoopInv', StoreInv, NEW c \in Costs, SelfDestruct(c)
    PROVE  StoreInv'
<1>1. Executing
    BY DEF SelfDestruct
<1> DEFINE f == [Halted(Top, "SelfDestruct") EXCEPT !.gas = RecordCost(@, c)]
<1>2. CASE Becomes(f)
  <2>1. Top \in Frame /\ Top.next_action = NoAction /\ Top.gas \in Gas
    BY <1>1, ExecutingKeeps
  <2>2. /\ f.kind = Top.kind /\ f.is_static = Top.is_static
        /\ f.checkpoint = Top.checkpoint /\ f.gas = RecordCost(Top.gas, c)
        /\ f.next_action = NoAction
    BY <2>1 DEF Frame, Halted
  <2>3. f.gas.refunded = Top.gas.refunded
    BY <2>1, <2>2, PaymentKeepsRefunds
  <2> HIDE DEF f
  <2> QED
    BY <1>1, <1>2, <2>2, <2>3, StoreBecomes
<1> QED
    BY <1>1, <1>2, StoreHalted DEF SelfDestruct

\* SSTORE: no store in a static frame; otherwise the refund covers it, or the
\* frame ends in an error.
LEMMA StoreSStore ==
    ASSUME LoopInv, LoopInv', StoreInv,
           NEW k \in Slot, NEW new \in Word, NEW c \in Costs, SStore(k, new, c)
    PROVE  StoreInv'
<1>1. Executing
    BY DEF SStore
<1>2. /\ status = "running" /\ Top \in Frame /\ Top.next_action = NoAction
      /\ Top.gas \in Gas /\ Top.is_static \in BOOLEAN
      /\ Top.gas.refunded
            >= EarnedFrom(original, storage) - EarnedFrom(original, Top.checkpoint)
    BY <1>1, ExecutingKeeps
<1>3. storage \in Storage /\ original \in Storage
    BY DEF LoopInv
<1>4. CASE Top.is_static
    BY <1>1, <1>4, StoreHalted DEF SStore
<1>5. CASE ~Top.is_static
  <2> DEFINE d == SStoreRefund(original[k], storage[k], new)
  <2>1. storage' = [storage EXCEPT ![k] = new] /\ UNCHANGED <<status, original>>
    BY <1>5 DEF SStore
  <2>2. CASE PaysForStore(Top.gas, c)
    <3> DEFINE f == [Top EXCEPT !.gas = RecordRefund(RecordCost(@, c), d)]
    <3>1. call_stack' = [call_stack EXCEPT ![Len(call_stack)] = f]
      BY <1>5, <2>2 DEF SStore
    <3>2. /\ f.kind = Top.kind /\ f.is_static = Top.is_static
          /\ f.checkpoint = Top.checkpoint
          /\ f.gas = RecordRefund(RecordCost(Top.gas, c), d)
          /\ f.next_action = NoAction
      BY <1>2 DEF Frame
    <3>3. f.gas.refunded = Top.gas.refunded + d
      BY <1>2, <3>2, PaymentKeepsRefunds DEF RecordRefund, Gas
    <3>4. EarnedFrom(original, storage') <= EarnedFrom(original, storage) + d
      BY <1>3, <2>1, StoreEarns
    <3>5. /\ EarnedFrom(original, storage') \in Nat /\ EarnedFrom(original, storage) \in Nat
          /\ EarnedFrom(original, Top.checkpoint) \in Nat
          /\ d \in Int /\ Top.gas.refunded \in Int
      BY <1>2, EarnedNat, RefundIsInt DEF Gas
    <3> HIDE DEF f, d
    <3>6. f.gas.refunded
             >= EarnedFrom(original, storage') - EarnedFrom(original, f.checkpoint)
      BY <1>2, <3>2, <3>3, <3>4, <3>5
    <3>7. Keeps(f, storage', original)
      BY <3>2, <3>6 DEF Keeps
    <3> QED
      BY <1>2, <1>5, <2>1, <3>1, <3>2, <3>7, StoreTopStep
  <2>3. CASE ~PaysForStore(Top.gas, c)
    <3> DEFINE f == Halted(Top, "OutOfGas")
    <3>1. call_stack' = [call_stack EXCEPT ![Len(call_stack)] = f]
      BY <1>5, <2>3 DEF SStore
    <3>2. /\ f.kind = Top.kind /\ f.is_static = Top.is_static
          /\ f.checkpoint = Top.checkpoint /\ f.next_action = NoAction
          /\ f.instruction_result \in ReturnError
      BY <1>2 DEF Frame, Halted, ReturnError
    <3> HIDE DEF f
    <3>3. Keeps(f, storage', original)
      BY <3>2 DEF Keeps
    <3> QED
      BY <1>2, <1>5, <2>1, <3>1, <3>2, <3>3, StoreTopStep
  <2> QED
    BY <2>2, <2>3
<1> QED
    BY <1>4, <1>5

\* A frame asks for a callee; a static frame for a static call.
LEMMA StoreAsking ==
    ASSUME LoopInv, LoopInv', StoreInv, Executing, NEW x, NEW y, NEW a,
           Becomes([Halted(Top, "CallOrCreate") EXCEPT
                       !.gas = RecordCost(RecordCost(Top.gas, x), y), !.next_action = a]),
           Top.is_static => a.type = "Call" /\ a.is_static
    PROVE  StoreInv'
<1> DEFINE g == RecordCost(RecordCost(Top.gas, x), y)
           f == [Halted(Top, "CallOrCreate") EXCEPT !.gas = g, !.next_action = a]
<1>1. Top \in Frame /\ Top.gas \in Gas
    BY ExecutingKeeps
<1>2. g.refunded = Top.gas.refunded
    BY <1>1 DEF RecordCost, Gas
<1> HIDE DEF g
<1>3. /\ f.kind = Top.kind /\ f.is_static = Top.is_static
      /\ f.checkpoint = Top.checkpoint /\ f.gas = g /\ f.next_action = a
    BY <1>1 DEF Frame, Halted
<1>4. Becomes(f)
    BY DEF g
<1> HIDE DEF f
<1> QED
    BY <1>2, <1>3, <1>4, StoreBecomes

\* CALL, CALLCODE, DELEGATECALL and STATICCALL hand the flag down.
LEMMA StoreCall ==
    ASSUME LoopInv, LoopInv', StoreInv,
           NEW s \in {"Call", "CallCode", "DelegateCall", "StaticCall"},
           NEW b \in BOOLEAN, NEW c \in Costs, NEW l \in CallGasLimits, Call(s, b, c, l)
    PROVE  StoreInv'
<1> DEFINE cost == c + (IF b THEN CallValueCost ELSE 0)
           paid == RecordCost(Top.gas, cost)
           gas_limit == CalcCallGas(paid.remaining, l)
           a == CallAction(gas_limit + (IF b THEN CallStipend ELSE 0),
                           Top.is_static \/ s = "StaticCall", b)
           f == [Halted(Top, "CallOrCreate") EXCEPT
                    !.gas = RecordCost(RecordCost(Top.gas, cost), gas_limit),
                    !.next_action = a]
<1>1. Executing
    BY DEF Call
<1>2. a.type = "Call" /\ (Top.is_static => a.is_static)
    BY DEF CallAction
<1>3. CASE Becomes(f)
  <2> HIDE DEF a, cost, gas_limit
  <2> QED BY <1>1, <1>2, <1>3, StoreAsking
<1> QED
    BY <1>1, <1>3, StoreHalted DEF Call

\* CREATE and CREATE2 are refused in a static frame.
LEMMA StoreCreate ==
    ASSUME LoopInv, LoopInv', StoreInv, NEW c \in Costs, Create(c)
    PROVE  StoreInv'
<1> DEFINE paid == RecordCost(Top.gas, c)
           gas_limit == paid.remaining - paid.remaining \div CallDivisor
           a == CreateAction(gas_limit)
           f == [Halted(Top, "CallOrCreate") EXCEPT
                    !.gas = RecordCost(RecordCost(Top.gas, c), gas_limit),
                    !.next_action = a]
<1>1. Executing
    BY DEF Create
<1>2. CASE Becomes(f) /\ ~Top.is_static
  <2> HIDE DEF a, gas_limit
  <2> QED BY <1>1, <1>2, StoreAsking
<1> QED
    BY <1>1, <1>2, StoreHalted DEF Create

-----------------------------------------------------------------------------
(* Steps of the loop                                                       *)

\* A result reaches the caller, or ends the transaction: the storage is what
\* the callee left if it succeeded, and c, which it began with, if not.
LEMMA StoreDelivered ==
    ASSUME LoopInv', NEW s \in Seq(Frame), NEW c, Stored(s, c, original),
           NEW kind, kind # "eofcreate",
           NEW r, r.gas.refunded \in Int, r.instruction_result # "FatalExternalError",
           r.instruction_result \in ReturnOk =>
              r.gas.refunded >= EarnedFrom(original, storage') - EarnedFrom(original, c),
           r.instruction_result \notin ReturnOk => storage' = c,
           s = << >> => c = original,
           s # << >> => /\ s[Len(s)].instruction_result = "CallOrCreate"
                        /\ s[Len(s)].next_action = NoAction
                        /\ s[Len(s)].is_static => storage' = c,
           HandleResult(s, kind, r), status = "running", original' = original
    PROVE  StoreInv'
<1>1. CASE s = << >>
  <2>1. status' = "done" /\ call_stack' = << >> /\ result' = LastFrameReturn(r, tx)
    BY <1>1 DEF HandleResult
  <2>2. result'.instruction_result = r.instruction_result
    BY <2>1 DEF LastFrameReturn, InterpreterResult
  <2>3. Stored(call_stack, storage, original)'
    BY <2>1 DEF Stored
  <2> QED
    BY <1>1, <2>1, <2>2, <2>3 DEF StoreInv, FailureLeavesNoTrace
<1>2. CASE s # << >>
  <2> DEFINE f == s[Len(s)]
             i == InsertOutcome(f, kind, r)
  <2>1. /\ call_stack' = [s EXCEPT ![Len(s)] = i]
        /\ status' = status
    BY <1>2 DEF HandleResult
  <2>2. f \in Frame /\ f.gas \in Gas
    <3>1. f \in Frame
      BY <1>2
    <3> HIDE DEF f
    <3> QED BY <3>1 DEF Frame
  <2>3. i \in Frame
    <3> HIDE DEF i
    <3>1. [s EXCEPT ![Len(s)] = i] \in Seq(Frame)
      BY <2>1 DEF LoopInv, Sound
    <3> QED
      BY <1>2, <3>1, NewTopFrame
  <2>4. Keeps(f, c, original)
    BY <1>2, StoredNewest
  <2>5. /\ f.instruction_result = "CallOrCreate" /\ f.next_action = NoAction
        /\ f.is_static => storage' = c
    BY <1>2
  <2>6. f.gas.refunded >= EarnedFrom(original, c) - EarnedFrom(original, f.checkpoint)
    <3> HIDE DEF f
    <3> QED BY <2>4, <2>5 DEF Keeps, ReturnError
  <2> HIDE DEF f
  <2>7. /\ i.kind = f.kind /\ i.is_static = f.is_static
        /\ i.checkpoint = f.checkpoint /\ i.next_action = NoAction
    BY <2>2, <2>5 DEF InsertOutcome, Frame
  <2>8. Keeps(i, storage', original)
    <3>1. CASE r.instruction_result \in ReturnOk
      <4>1. i.gas = RecordRefund(EraseCost(f.gas, r.gas.remaining), r.gas.refunded)
        BY <2>2, <3>1 DEF InsertOutcome, Frame
      <4>2. i.gas.refunded = f.gas.refunded + r.gas.refunded
        BY <2>2, <4>1 DEF RecordRefund, EraseCost, Gas
      <4>3. /\ EarnedFrom(original, storage') \in Nat /\ EarnedFrom(original, c) \in Nat
            /\ EarnedFrom(original, f.checkpoint) \in Nat /\ f.gas.refunded \in Int
        BY <2>2, EarnedNat DEF Gas
      <4> HIDE DEF i
      <4>4. i.gas.refunded
               >= EarnedFrom(original, storage') - EarnedFrom(original, i.checkpoint)
        BY <2>6, <2>7, <3>1, <4>2, <4>3
      <4> QED
        BY <2>7, <4>4 DEF Keeps
    <3>2. CASE r.instruction_result \notin ReturnOk
      <4>1. i.gas.refunded = f.gas.refunded
        <5>1. i.gas = f.gas \/ i.gas = EraseCost(f.gas, r.gas.remaining)
          BY <2>2, <3>2 DEF InsertOutcome, Frame
        <5> HIDE DEF i
        <5> QED BY <2>2, <5>1 DEF EraseCost, Gas
      <4> HIDE DEF i
      <4>2. i.gas.refunded
               >= EarnedFrom(original, storage') - EarnedFrom(original, i.checkpoint)
        BY <2>6, <2>7, <3>2, <4>1
      <4> QED
        BY <2>7, <4>2 DEF Keeps
    <3> QED
      BY <3>1, <3>2
  <2> HIDE DEF i
  <2>9. Stored(call_stack', storage', original)
    BY <1>2, <2>1, <2>3, <2>5, <2>7, <2>8, StoredReplace DEF f
  <2>10. Stored(call_stack, storage, original)'
    BY <2>9 DEF Stored, Keeps, EarnedFrom, Cleared
  <2> QED
    BY <2>1, <2>10 DEF StoreInv, FailureLeavesNoTrace
<1> QED
    BY <1>1, <1>2

\* A new frame begins with the present storage.
LEMMA StoreOpened ==
    ASSUME LoopInv', NEW s \in Seq(Frame), Stored(s, storage, original),
           NEW kind, NEW L, NEW st \in BOOLEAN, st => kind = "call",
           s = << >> => storage = original,
           s # << >> => (s[Len(s)].is_static => st),
           OpenFrame(s, kind, L, st)
    PROVE  StoreInv'
<1>1. PICK code \in CodeOf(kind) : call_stack' = Append(s, NewFrame(kind, L, st, code))
    BY DEF OpenFrame
<1> DEFINE f == NewFrame(kind, L, st, code)
<1>2. /\ f.kind = kind /\ f.is_static = st /\ f.checkpoint = storage
      /\ f.next_action = NoAction /\ f.gas.refunded = 0
    BY DEF NewFrame, NewGas
<1> HIDE DEF f
<1>3. f \in Frame
  <2>1. Append(s, f) \in Seq(Frame)
    BY <1>1 DEF LoopInv, Sound, f
  <2>2. Append(s, f)[Len(s) + 1] = f /\ Len(s) + 1 \in 1 .. Len(Append(s, f))
    OBVIOUS
  <2> QED
    BY <2>1, <2>2
<1>4. Keeps(f, storage, original)
  <2>1. EarnedFrom(original, storage) \in Nat
    BY EarnedNat
  <2> QED
    BY <1>2, <2>1 DEF Keeps
<1>5. Stored(call_stack', storage, original)
    BY <1>1, <1>2, <1>3, <1>4, StoredPush DEF f
<1>6. UNCHANGED <<storage, original>> /\ status' = "running"
    BY DEF OpenFrame
<1>7. Stored(call_stack, storage, original)'
    BY <1>5, <1>6 DEF Stored, Keeps, EarnedFrom, Cleared
<1> QED
    BY <1>6, <1>7 DEF StoreInv, FailureLeavesNoTrace

\* The loop takes the action of the newest frame.
LEMMA StoreTaken ==
    ASSUME LoopInv, StoreInv, status = "running", Top.next_action # NoAction
    PROVE  LET s == ActionTaken
           IN  /\ s \in Seq(Frame) /\ s # << >>
               /\ Stored(s, storage, original)
               /\ s[Len(s)].is_static = Top.is_static
               /\ s[Len(s)].instruction_result = "CallOrCreate"
               /\ s[Len(s)].next_action = NoAction
               /\ Top.is_static => /\ Top.next_action.type = "Call"
                                   /\ Top.next_action.is_static
<1> DEFINE s == ActionTaken
           f == [Top EXCEPT !.next_action = NoAction]
<1>1. /\ call_stack # << >> /\ call_stack \in Seq(Frame)
      /\ Top \in Frame /\ FrameOk(Top) /\ Stored(call_stack, storage, original)
    BY TopFrame DEF LoopInv, Sound, StoreInv, Top
<1>2. Keeps(Top, storage, original)
    BY <1>1, StoredNewest DEF Top
<1>3. /\ f \in Frame /\ f.kind = Top.kind /\ f.is_static = Top.is_static
      /\ f.checkpoint = Top.checkpoint /\ f.gas = Top.gas /\ f.next_action = NoAction
      /\ f.instruction_result = Top.instruction_result
      /\ f.instruction_result = "CallOrCreate"
    BY <1>1 DEF Frame, FrameOk, Action
<1>4. s = [call_stack EXCEPT ![Len(call_stack)] = f]
    BY DEF ActionTaken, Top
<1> HIDE DEF f, s
<1>5. Keeps(f, storage, original)
    BY <1>2, <1>3 DEF Keeps
<1>6. Stored(s, storage, original)
    BY <1>1, <1>3, <1>4, <1>5, StoredReplace DEF Top
<1>7. s \in Seq(Frame) /\ s # << >> /\ s[Len(s)] = f
  <2>1. Len(call_stack) \in 1 .. Len(call_stack)
    BY <1>1
  <2>2. s \in Seq(Frame) /\ Len(s) = Len(call_stack) /\ s[Len(call_stack)] = f
    BY <1>1, <1>3, <1>4, <2>1, ExceptSeq
  <2> QED
    BY <2>1, <2>2
<1>8. Top.is_static => Top.next_action.type = "Call" /\ Top.next_action.is_static
    BY <1>2 DEF Keeps
<1> QED
    BY <1>3, <1>6, <1>7, <1>8 DEF s

\* A call or creation that ends without a frame has earned nothing.
LEMMA NothingEarned ==
    ASSUME NEW x, x.gas_limit \in Nat,
           NEW r \in CallResults(x) \cup CreateResults(x.gas_limit)
    PROVE  r.gas.refunded = 0 /\ r.instruction_result # "FatalExternalError"
<1> DEFINE g == NewGas(x.gas_limit)
<1>1. g \in Gas /\ g.refunded = 0
    BY DEF NewGas, Gas
<1>2. \A c : RecordCost(g, c).refunded = 0
    BY <1>1, PaymentKeepsRefunds
<1> HIDE DEF g
<1>3. r.gas = g \/ \E c : r.gas = RecordCost(g, c)
    BY DEF CallResults, CreateResults, InterpreterResult, g
<1>4. r.instruction_result # "FatalExternalError"
    BY DEF CallResults, CreateResults, InterpreterResult
<1> QED
    BY <1>1, <1>2, <1>3, <1>4

\* The loop makes a call.
LEMMA StoreLoopCall ==
    ASSUME LoopInv, LoopInv', StoreInv, LoopCall
    PROVE  StoreInv'
<1> DEFINE s == ActionTaken
           a == Top.next_action
<1>1. status = "running" /\ a.type = "Call" /\ a # NoAction
    BY DEF LoopCall, Pending, NoAction
<1>2. /\ s \in Seq(Frame) /\ s # << >> /\ Stored(s, storage, original)
      /\ s[Len(s)].is_static = Top.is_static
      /\ s[Len(s)].instruction_result = "CallOrCreate"
      /\ s[Len(s)].next_action = NoAction
      /\ Top.is_static => a.is_static
    BY <1>1, StoreTaken
<1>3. a.gas_limit \in Nat /\ a.is_static \in BOOLEAN
  <2>1. Top \in Frame
    BY <1>1, Taken
  <2> QED
    BY <1>1, <2>1 DEF Frame, Action, NoAction
<1> HIDE DEF s, a
<1>4. CASE OpenFrame(s, "call", a.gas_limit, a.is_static)
    BY <1>2, <1>3, <1>4, StoreOpened
<1>5. ASSUME NEW r \in CallResults(a), HandleResult(s, "call", r),
             UNCHANGED <<storage, original>>
      PROVE  StoreInv'
  <2>1. r.gas.refunded = 0 /\ r.instruction_result # "FatalExternalError"
    BY <1>3, <1>5, NothingEarned
  <2>2. /\ r.gas.refunded \in Int
        /\ r.gas.refunded >= EarnedFrom(original, storage') - EarnedFrom(original, storage)
    BY <1>5, <2>1, EarnedNat
  <2> QED
    BY <1>1, <1>2, <1>5, <2>1, <2>2, StoreDelivered
<1> QED
    BY <1>4, <1>5 DEF LoopCall, s, a

\* The loop makes a creation; no static frame has asked for one.
LEMMA StoreLoopCreate ==
    ASSUME LoopInv, LoopInv', StoreInv, LoopCreate
    PROVE  StoreInv'
<1> DEFINE s == ActionTaken
           a == Top.next_action
<1>1. status = "running" /\ a.type = "Create" /\ a # NoAction
    BY DEF LoopCreate, Pending, NoAction
<1>2. /\ s \in Seq(Frame) /\ s # << >> /\ Stored(s, storage, original)
      /\ s[Len(s)].is_static = Top.is_static
      /\ s[Len(s)].instruction_result = "CallOrCreate"
      /\ s[Len(s)].next_action = NoAction
      /\ ~Top.is_static
    BY <1>1, StoreTaken
<1>3. a.gas_limit \in Nat
    BY <1>1, Taken
<1> HIDE DEF s, a
<1>4. CASE OpenFrame(s, "create", a.gas_limit, FALSE)
    BY <1>2, <1>4, StoreOpened
<1>5. ASSUME NEW r \in CreateResults(a.gas_limit), HandleResult(s, "create", r),
             UNCHANGED <<storage, original>>
      PROVE  StoreInv'
  <2>1. r.gas.refunded = 0 /\ r.instruction_result # "FatalExternalError"
    BY <1>3, <1>5, NothingEarned
  <2>2. /\ r.gas.refunded \in Int
        /\ r.gas.refunded >= EarnedFrom(original, storage') - EarnedFrom(original, storage)
    BY <1>5, <2>1, EarnedNat
  <2> QED
    BY <1>1, <1>2, <1>5, <2>1, <2>2, StoreDelivered
<1> QED
    BY <1>4, <1>5 DEF LoopCreate, s, a

\* A frame that returns well had no error, and its refunds go with the result.
LEMMA ResultOfFrame ==
    ASSUME NEW f \in Frame, FrameOk(f), NEW r \in FrameResults(f)
    PROVE  /\ r.gas.refunded = f.gas.refunded /\ r.gas.refunded \in Int
           /\ r.instruction_result # "FatalExternalError"
           /\ r.instruction_result \in ReturnOk => f.instruction_result \notin ReturnError
<1>1. f.gas \in Gas /\ f.gas.refunded \in Int
    BY DEF Frame, Gas
<1>2. \A c : RecordCost(f.gas, c).refunded = f.gas.refunded
    BY <1>1, PaymentKeepsRefunds
<1>3. ReturnOk \cap ReturnError = {}
    BY DEF ReturnOk, ReturnError
<1>4. CASE r = InterpreterResult(f.instruction_result, f.gas)
    BY <1>1, <1>3, <1>4 DEF InterpreterResult, FrameOk
<1>5. CASE f.instruction_result \in ReturnOk /\ r \in CreateReturn(f)
  <2>1. r.gas = f.gas \/ \E c : r.gas = RecordCost(f.gas, c)
    BY <1>5 DEF CreateReturn, InterpreterResult
  <2>2. r.instruction_result # "FatalExternalError"
    BY <1>5 DEF CreateReturn, InterpreterResult
  <2> QED
    BY <1>1, <1>2, <1>3, <1>5, <2>1, <2>2
<1> QED
    BY <1>4, <1>5 DEF FrameResults

\* The loop closes the newest frame and commits it or reverts it.
LEMMA StoreLoopReturn ==
    ASSUME LoopInv, LoopInv', StoreInv, LoopReturn
    PROVE  StoreInv'
<1>1. /\ status = "running" /\ call_stack # << >> /\ Top \in Frame /\ FrameOk(Top)
      /\ call_stack \in Seq(Frame) /\ Stored(call_stack, storage, original)
    BY TopFrame DEF LoopInv, Sound, StoreInv, LoopReturn, Pending, Top
<1>2. PICK r \in FrameResults(Top) :
         /\ storage' = IF Commits(Top.kind, r) THEN storage ELSE Top.checkpoint
         /\ HandleResult(Callers, Top.kind, r)
    BY DEF LoopReturn
<1> DEFINE s == Callers
           c == Top.checkpoint
<1>3. /\ Stored(s, c, original)
      /\ s # << >> => (s[Len(s)].is_static => c = storage)
      /\ s = << >> => c = original
    BY <1>1, StoredPop DEF Callers, Top
<1>4. /\ s \in Seq(Frame)
      /\ s # << >> => Waits(s[Len(s)], Top.gas.limit)
    BY <1>1, PopFrame DEF LoopInv, Callers, Top
<1>5. Top.kind # "eofcreate"
    BY <1>1 DEF FrameOk
<1>6. storage' = IF r.instruction_result \in ReturnOk THEN storage ELSE c
    BY <1>2, <1>5 DEF Commits
<1>7. /\ r.gas.refunded = Top.gas.refunded /\ r.gas.refunded \in Int
      /\ r.instruction_result # "FatalExternalError"
      /\ r.instruction_result \in ReturnOk => Top.instruction_result \notin ReturnError
    BY <1>1, <1>2, ResultOfFrame
<1>8. r.instruction_result \in ReturnOk =>
         r.gas.refunded >= EarnedFrom(original, storage') - EarnedFrom(original, c)
  <2> HAVE r.instruction_result \in ReturnOk
  <2>1. Keeps(Top, storage, original)
    BY <1>1, StoredNewest DEF Top
  <2> QED
    BY <1>6, <1>7, <2>1 DEF Keeps
<1>9. original' = original
    BY DEF LoopReturn
<1> HIDE DEF s, c
<1> QED
    BY <1>1, <1>2, <1>3, <1>4, <1>5, <1>6, <1>7, <1>8, <1>9, StoreDelivered DEF s, Waits

\* A transaction begins with the storage as it is.
LEMMA StoreTransact ==
    ASSUME LoopInv, LoopInv', StoreInv, NEW t \in TxGasLimits, NEW b \in BOOLEAN,
           Transact(t, b)
    PROVE  StoreInv'
<1>1. status = "idle" /\ storage = original /\ call_stack = << >>
    BY EmptyStack DEF Transact, StoreInv
<1> DEFINE a == CallAction(t - InitialGasSpend, FALSE, b)
<1>2. ASSUME NEW kind \in {"call", "create"}, OpenFrame(<< >>, kind, a.gas_limit, FALSE)
      PROVE  StoreInv'
  <2>1. Stored(<< >>, storage, original) /\ << >> \in Seq(Frame)
    BY DEF Stored
  <2> HIDE DEF a
  <2> QED
    BY <1>1, <1>2, <2>1, StoreOpened
<1>3. ASSUME status' = "done", UNCHANGED <<call_stack, storage, original>>
      PROVE  StoreInv'
    BY <1>1, <1>3 DEF StoreInv, Stored, FailureLeavesNoTrace
<1> QED
    BY <1>2, <1>3 DEF Transact

\* Every step keeps the storage invariant, given the loop invariant.
LEMMA StoreNext ==
    ASSUME LoopInv, LoopInv', StoreInv, [Next]_vars
    PROVE  StoreInv'
<1>1. CASE Step
  <2>1. ASSUME NEW c \in Costs, Instructions(c) \/ SelfDestruct(c) \/ Create(c)
        PROVE  StoreInv'
    BY <2>1, StoreInstructions, StoreSelfDestruct, StoreCreate
  <2>2. ASSUME NEW r \in {"Stop", "Return", "Revert", "InvalidJump"}, Halt(r)
        PROVE  StoreInv'
    BY <2>2, StoreHalt
  <2>3. ASSUME NEW k \in Slot, NEW new \in Word, NEW c \in Costs, SStore(k, new, c)
        PROVE  StoreInv'
    BY <2>3, StoreSStore
  <2>4. ASSUME NEW s \in {"Call", "CallCode", "DelegateCall", "StaticCall"},
               NEW b \in BOOLEAN, NEW c \in Costs, NEW l \in CallGasLimits, Call(s, b, c, l)
        PROVE  StoreInv'
    BY <2>4, StoreCall
  <2> QED
    BY <1>1, <2>1, <2>2, <2>3, <2>4, StoreLoopCall, StoreLoopCreate, StoreLoopReturn DEF Step
<1>2. ASSUME NEW b \in BOOLEAN, NEW d \in SUBSET Slot, Output(b, d)
      PROVE  StoreInv'
  <2>1. status = "done" /\ status' = "idle" /\ call_stack' = << >> /\ storage' = original'
    BY <1>2, EmptyStack DEF Output
  <2> QED
    BY <2>1 DEF StoreInv, Stored, FailureLeavesNoTrace
<1>3. CASE DatabaseError
    BY <1>3 DEF DatabaseError, StoreInv, Stored, FailureLeavesNoTrace
<1>4. CASE UNCHANGED vars
    BY <1>4 DEF vars, StoreInv, Stored, Keeps, EarnedFrom, Cleared, FailureLeavesNoTrace
<1> QED
    BY <1>1, <1>2, <1>3, <1>4, StoreTransact DEF Next

\* The storage invariant holds throughout.
LEMMA StoreInvariant == Spec => []StoreInv
<1>1. Init => StoreInv
    BY DEF Init, StoreInv, Stored, FailureLeavesNoTrace
<1>2. LoopInv /\ LoopInv' /\ StoreInv /\ [Next]_vars => StoreInv'
    BY StoreNext
<1> QED
    BY <1>1, <1>2, LoopInvariant, PTL DEF Spec

-----------------------------------------------------------------------------
(* What it means                                                           *)

\* call_return, create_return and last_frame_return: a transaction whose
\* outermost frame does not succeed leaves every slot as it was, whatever
\* the frames below it had committed.
THEOREM FailureTheorem == Spec => []FailureLeavesNoTrace
<1>1. StoreInv => FailureLeavesNoTrace
    BY DEF StoreInv
<1> QED
    BY <1>1, StoreInvariant, PTL

\* The is_static flag handed down by the call instructions: at any depth
\* under a static frame there are only static calls, and no slot changes.
THEOREM StaticTheorem == Spec => []StaticFramesWriteNothing
<1>1. LoopInv /\ StoreInv => StaticFramesWriteNothing
    BY DEF LoopInv, Sound, StoreInv, Stored, StaticFramesWriteNothing
<1> QED
    BY <1>1, LoopInvariant, StoreInvariant, PTL

\* sstore_refund and the outcomes of frames: however stores, reverts and
\* errors are nested, the counter of each frame that has not failed covers
\* what the slots it cleared have earned.
THEOREM RefundsTheorem == Spec => []RefundsCovered
<1>1. ASSUME LoopInv, StoreInv
      PROVE  RefundsCovered
  <2> SUFFICES ASSUME NEW k \in DOMAIN call_stack,
                      call_stack[k].instruction_result \notin ReturnError
               PROVE  call_stack[k].gas.refunded
                         >= Earned(After(k)) - Earned(call_stack[k].checkpoint)
    BY DEF RefundsCovered
  <2>1. k \in 1 .. Len(call_stack)
    BY <1>1 DEF LoopInv, Sound
  <2>2. Keeps(call_stack[k], After(k), original)
    BY <1>1, <2>1 DEF StoreInv, Stored, After
  <2>3. \A s : Earned(s) = EarnedFrom(original, s)
    BY DEF Earned, EarnedFrom, Cleared
  <2> QED
    BY <2>2, <2>3 DEF Keeps
<1> QED
    BY <1>1, LoopInvariant, StoreInvariant, PTL

\* The refund counter of the outermost frame, which becomes the transaction's.
OuterRefundPositive ==
    call_stack # << >> /\ call_stack[1].instruction_result \notin ReturnError =>
        call_stack[1].gas.refunded >= 0

\* set_final_refund casts the counter to u64: although inner frames count
\* below zero, the counter of the outermost frame does not while it has not
\* failed, so the cast keeps its value.
THEOREM OuterRefundTheorem == Spec => []OuterRefundPositive
<1>1. ASSUME LoopInv, StoreInv
      PROVE  OuterRefundPositive
  <2> SUFFICES ASSUME call_stack # << >>,
                      call_stack[1].instruction_result \notin ReturnError
               PROVE  call_stack[1].gas.refunded >= 0
    BY DEF OuterRefundPositive
  <2> DEFINE f == call_stack[1]
             st == IF 1 < Len(call_stack) THEN call_stack[1 + 1].checkpoint ELSE storage
  <2>1. call_stack \in Seq(Frame) /\ 1 \in 1 .. Len(call_stack)
    BY <1>1 DEF LoopInv, Sound
  <2>2. f.gas.refunded \in Int
    <3>1. f \in Frame
      BY <2>1
    <3> HIDE DEF f
    <3> QED BY <3>1 DEF Frame, Gas
  <2>3. Keeps(f, st, original) /\ f.checkpoint = original
    BY <1>1, <2>1 DEF StoreInv, Stored
  <2>4. EarnedFrom(original, original) = 0
    <3>1. Cleared(original, original) = {}
      BY DEF Cleared
    <3> QED
      BY <3>1, FS_EmptySet, RefundAssumption DEF EarnedFrom
  <2>5. EarnedFrom(original, st) \in Nat
    BY EarnedNat
  <2> HIDE DEF f, st
  <2>6. f.gas.refunded >= EarnedFrom(original, st) - EarnedFrom(original, original)
    BY <2>3 DEF Keeps, f
  <2>7. f.gas.refunded >= 0
    BY <2>2, <2>4, <2>5, <2>6
  <2> QED
    BY <2>7 DEF f
<1> QED
    BY <1>1, LoopInvariant, StoreInvariant, PTL
=============================================================================
