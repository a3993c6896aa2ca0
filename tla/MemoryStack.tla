----------------------------- MODULE MemoryStack -----------------------------
(* What the shared memory promises: every frame has a memory of its own, an  *)
(* endless array of bytes that starts as zeros and whose size only grows; a  *)
(* frame changes nobody's memory but its own, except that the output of a    *)
(* call is written where its caller asked for it.                            *)
EXTENDS Integers, Sequences, SequencesExt, FiniteSetsExt

CONSTANTS Words,        \* the words and bytes a frame stores
          Word,         \* the bytes of a word
          Addresses,    \* the addresses a frame can reach: 0 .. n
          Offsets,      \* the addresses its instructions name
          Lens,         \* the lengths they name
          Positions,    \* where in an input or an output they start
          Outputs,      \* what a call that opens no frame may return
          TxInput       \* the input of the first frame

VARIABLES memories,     \* the frames' memories, the running frame's last
          read          \* the bytes the last instruction read from memory

Output == [offset : Offsets, len : Lens]
NewMemoryOf(kind, input) ==
    [kind |-> kind, bytes |-> [a \in Addresses |-> 0], size |-> 0, input |-> input,
     returned |-> << >>, out |-> [offset |-> 0, len |-> 0]]

Running == memories # << >>
Top == Last(memories)
WithTop(mem) == Append(Front(memories), mem)

Grown(mem, offset, len) ==
    IF len = 0 THEN mem
    ELSE [mem EXCEPT !.size = Max({@, Word * ((offset + len + Word - 1) \div Word)})]
Taken(mem, offset, len) == [i \in 1 .. len |-> mem.bytes[offset + i - 1]]
Put(mem, offset, data) ==
    [mem EXCEPT !.bytes = [a \in Addresses |->
        IF a - offset + 1 \in DOMAIN data THEN data[a - offset + 1] ELSE @[a]]]
\* len bytes of data from an offset on, zeros past its end.
Padded(data, offset, len) ==
    [i \in 1 .. len |-> IF offset + i \in DOMAIN data THEN data[offset + i] ELSE 0]
-----------------------------------------------------------------------------
Start == /\ ~Running
         /\ memories' = << NewMemoryOf("call", TxInput) >>
         /\ read' = << >>

Read(offset, len) ==
    /\ Running
    /\ memories' = WithTop(Grown(Top, offset, len))
    /\ read' = Taken(Top, offset, len)

Size ==
    /\ Running
    /\ read' = << Top.size >>
    /\ UNCHANGED memories

Write(offset, data) ==
    /\ Running
    /\ memories' = WithTop(Put(Grown(Top, offset, Len(data)), offset, data))
    /\ read' = << >>

Copy(dst, src, len) ==
    /\ Running
    /\ LET grown == Grown(Grown(Top, dst, len), src, len)
       IN  memories' = WithTop(Put(grown, dst, Taken(Top, src, len)))
    /\ read' = << >>

CopyInput(offset, from, len) == Write(offset, Padded(Top.input, from, len))
CopyReturned(offset, from, len) ==
    /\ from + len <= Len(Top.returned)
    /\ Write(offset, Padded(Top.returned, from, len))

\* A call reads its input and opens a frame; its output will go to out.
Call(offset, len, out) ==
    /\ Running
    /\ read' = Taken(Top, offset, len)
    /\ memories' = Append(WithTop([Grown(Grown(Top, offset, len), out.offset, out.len)
                                      EXCEPT !.out = out]),
                          NewMemoryOf("call", read'))

\* A create reads its init code; its frame has no input, and no output to write.
Create(offset, len) ==
    /\ Running
    /\ read' = Taken(Top, offset, len)
    /\ memories' = Append(WithTop(Grown(Top, offset, len)), NewMemoryOf("create", << >>))

Receive(mem, output) ==
    Put([mem EXCEPT !.returned = output], mem.out.offset,
        SubSeq(output, 1, Min({mem.out.len, Len(output)})))

\* A call that opens no frame: its output is written at once.
CallInline(offset, len, out, output) ==
    /\ Running
    /\ read' = Taken(Top, offset, len)
    /\ memories' = WithTop(Receive([Grown(Grown(Top, offset, len), out.offset, out.len)
                                       EXCEPT !.out = out], output))

\* The running frame ends: its memory is gone, and its caller goes on with its
\* own, changed only where the output of a call goes. A frame that fails has no
\* output; of a create the caller sees only what a revert says.
Leave(output, reverted) ==
    /\ Running
    /\ LET rest == Front(memories)
           caller == Last(rest)
       IN  memories' = IF rest = << >> THEN << >>
                       ELSE Append(Front(rest),
                                   IF Top.kind = "call" THEN Receive(caller, output)
                                   ELSE [caller EXCEPT !.returned = IF reverted THEN output ELSE << >>])
    /\ read' = << >>

Return(offset, len, reverted) == Leave(Taken(Top, offset, len), reverted)
-----------------------------------------------------------------------------
Init == memories = << >> /\ read = << >>

\* The running frame goes on, with its own memory and everyone else's as it was.
Stays ==
    \/ Size
    \/ \E len \in Lens, offset \in Offsets :
          \/ Read(offset, len)
          \/ \E data \in Words : Write(offset, data)
          \/ \E from \in Offsets : Copy(offset, from, len)
          \/ \E from \in Positions :
                CopyInput(offset, from, len) \/ CopyReturned(offset, from, len)
    \/ \E len \in Lens, offset \in Offsets, out \in Output, output \in Outputs \cup {<< >>} :
          CallInline(offset, len, out, output)

Opens == \E len \in Lens, offset \in Offsets :
            \/ Create(offset, len)
            \/ \E out \in Output : Call(offset, len, out)

Closes == \/ Leave(<< >>, FALSE)
          \/ \E len \in Lens, offset \in Offsets, reverted \in BOOLEAN : Return(offset, len, reverted)

Next ==
    \/ Start
    \/ Len(memories') = Len(memories) /\ Stays
    \/ Len(memories') > Len(memories) /\ Opens
    \/ Len(memories') < Len(memories) /\ Closes

Spec == Init /\ [][Next]_<<memories, read>>
=============================================================================
