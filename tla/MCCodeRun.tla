----------------------------- MODULE MCCodeRun ------------------------------
(* Sections of a few bytes, with the opcodes of one theme at a time; legacy   *)
(* code of up to four bytes; two containers, one inside the other, with one   *)
(* byte changed, cut short at every length, or one byte too long.             *)
EXTENDS CodeRun

T(inputs, outputs, max) == [inputs |-> inputs, outputs |-> outputs, max_stack_size |-> max]
First(max) == T(0, NonReturning, max)
One(len, max, ops) == [types |-> (0 :> First(max)), lens |-> (0 :> len), ops |-> ops]
Two(len0, len1, max, t, ops) ==
    [types |-> (0 :> First(max)) @@ (1 :> t), lens |-> (0 :> len0) @@ (1 :> len1), ops |-> ops]

POP == \h50
ADD == \h01
RETURN == \hF3
Unknown == \h0C
RETURNDATALOAD == \hF7

\* Three sections: the first calls the second, and they call the third.
Three(len0, len1, len2, max, t, u, ops) ==
    [types |-> (0 :> First(max)) @@ (1 :> t) @@ (2 :> u),
     lens |-> (0 :> len0) @@ (1 :> len1) @@ (2 :> len2), ops |-> ops]

Jumps == {One(len, max, {PUSH0, POP, RJUMP, RJUMPI, STOP}) : len \in 4 .. 8, max \in 1 .. 2}
JumpTables ==
    {One(len, 1, {PUSH0, RJUMPV, STOP}) : len \in 6 .. 9} \cup {One(8, 2, {PUSH0, POP, RJUMPV, STOP})}
Depth == {One(len, max, {PUSH0, DUPN, SWAPN, EXCHANGE, STOP}) : len \in 4 .. 7, max \in 1 .. 4}
Creates == {One(8, 4, {PUSH0, EOFCREATE, POP, RETURN})}
Loads == {One(len, max, {PUSH0, PUSH1, DATALOADN, Unknown, JUMP, ADD, RETURN, RETURNCONTRACT}) :
             len \in 3 .. 5, max \in 1 .. 2}
Deploys == {One(9, 3, {PUSH0, RJUMPI, RETURNCONTRACT, STOP}),
            Two(5, 4, 2, T(0, NonReturning, 2), {PUSH0, JUMPF, RETURNCONTRACT, STOP})}
Calls ==
    {Two(len0, len1, max, t, {PUSH0, POP, CALLF, JUMPF, RETF, STOP}) :
        len0 \in 4 .. 8, len1 \in {1, 2, 4}, max \in 0 .. 4,
        t \in {T(0, 0, 0), T(0, 1, 1), T(1, 2, 2), T(0, NonReturning, 1), T(1, 0, 1), T(1, 1, 3)}}
    \cup {Three(4, len, 2, max, T(0, outputs, 2), u, {PUSH0, CALLF, JUMPF, RETF, STOP}) :
             len \in 4 .. 5, max \in 1 .. 2, outputs \in {1, 2}, u \in {T(1, 1, 1), T(1, 2, 2)}}
    \cup {Two(7, 5, max, t, {PUSH0, RJUMPI, JUMPF, CALLF, RETF, STOP}) :
             max \in 1 .. 2, t \in {T(0, NonReturning, 1), T(1, 1, 2), T(0, 1, 1)}}
Odd == {One(4, 3, {PUSH0, RETF, STOP, ADD}), One(2, 1, Plain),
        [types |-> (0 :> T(0, 0, 1)), lens |-> (0 :> 1), ops |-> {STOP}]}

MCPrograms == Jumps \cup JumpTables \cup Depth \cup Creates \cup Loads \cup Deploys \cup Calls \cup Odd

LegacyBytes == {STOP, ADD, Unknown, JUMP, JUMPI, JUMPDEST, PUSH0, PUSH1, PUSH1 + 1, RJUMP, RETURNDATALOAD}
MCLegacyCodes == UNION {[1 .. n -> LegacyBytes] : n \in 0 .. 4}

Inner == IntoEof([types |-> << T(0, 128, 0) >>, code |-> << << 0 >> >>, containers |-> << >>,
                  data |-> << 7 >>, is_data_filled |-> TRUE]).raw
Outer == IntoEof([types |-> << T(0, 128, 1), T(1, 1, 1) >>, code |-> << << \h5F, 0 >>, << \hE4 >> >>,
                  containers |-> << Inner >>, data |-> << >>, is_data_filled |-> TRUE]).raw
Changed(raw) == {[raw EXCEPT ![p] = b] : p \in DOMAIN raw, b \in {0, 1, 2, 3, 4, 8, 127, 128, 255}}
MCRawContainers ==
    UNION {Changed(raw) \cup {SubSeq(raw, 1, n) : n \in 0 .. Len(raw)} \cup {Append(raw, 0)} :
               raw \in {Inner, Outer}}
=============================================================================
