----------------------------- MODULE Unwinding -----------------------------
(***************************************************************************)
(* Taking back a sequence of changes, the newest first: the loop that      *)
(* journal_revert runs over the entries of a vector and checkpoint_revert  *)
(* over the vectors of the journal (`.rev()').  Undo(s, e) is what taking  *)
(* back the change e does to the state s.                                  *)
(***************************************************************************)
EXTENDS Integers, Sequences, SequenceTheorems, TLAPS

CONSTANT Undo(_, _)

UndoTurn(q, s, i) == Undo(s, q[Len(q) + 1 - i])
Loop == INSTANCE Iteration WITH Step <- UndoTurn

Unwind(s, q) == Loop!Iterate(q, s, Len(q))

\* Nothing to take back.
LEMMA UnwindEmpty == ASSUME NEW s PROVE Unwind(s, << >>) = s
BY Loop!IterateZero DEF Unwind

\* The newest change is taken back first.
LEMMA UnwindAppend ==
    ASSUME NEW s, NEW E, NEW q \in Seq(E), NEW e \in E
    PROVE  Unwind(s, Append(q, e)) = Unwind(Undo(s, e), q)
<1> DEFINE a == Append(q, e)
           after(k) == Loop!Iterate(a, s, k)
           rest(k) == Loop!Iterate(q, Undo(s, e), k)
           T == {k \in Nat : k <= Len(q) => after(k + 1) = rest(k)}
<1>a. /\ Len(q) \in Nat /\ Len(a) = Len(q) + 1 /\ a[Len(q) + 1] = e
      /\ \A i \in 1 .. Len(q) : a[i] = q[i]
    OBVIOUS
<1> HIDE DEF a
<1>1. 0 \in T
  <2>1. after(0) = s /\ rest(0) = Undo(s, e)
    BY Loop!IterateZero
  <2>2. after(0 + 1) = UndoTurn(a, after(0), 0 + 1)
    BY Loop!IterateNext
  <2> QED
    BY <2>1, <2>2, <1>a DEF UndoTurn
<1>2. ASSUME NEW k \in T PROVE k + 1 \in T
  <2> SUFFICES ASSUME k + 1 <= Len(q) PROVE after((k + 1) + 1) = rest(k + 1)
    OBVIOUS
  <2>1. /\ k \in Nat /\ k + 1 \in Nat
        /\ Len(a) + 1 - ((k + 1) + 1) = Len(q) + 1 - (k + 1)
        /\ Len(q) + 1 - (k + 1) \in 1 .. Len(q)
    BY <1>a
  <2>2. after(k + 1) = rest(k)
    BY <2>1, <1>a
  <2>3. after((k + 1) + 1) = UndoTurn(a, after(k + 1), (k + 1) + 1)
    BY <2>1, Loop!IterateNext
  <2>4. rest(k + 1) = UndoTurn(q, rest(k), k + 1)
    BY <2>1, Loop!IterateNext
  <2> HIDE DEF after, rest
  <2> QED
    BY <2>1, <2>2, <2>3, <2>4, <1>a DEF UndoTurn
<1>3. T = Nat
  <2> T \in SUBSET Nat
    OBVIOUS
  <2> HIDE DEF T
  <2> QED
    BY <1>1, <1>2, Loop!SetInduction
<1>4. after(Len(q) + 1) = rest(Len(q))
  <2> HIDE DEF after, rest
  <2> QED
    BY <1>3, <1>a
<1> QED
    BY <1>4, <1>a DEF Unwind, a

\* The changes of q are newer than those of p.
LEMMA UnwindConcat ==
    ASSUME NEW s, NEW E, NEW p \in Seq(E), NEW q \in Seq(E)
    PROVE  Unwind(s, p \o q) = Unwind(Unwind(s, q), p)
<1> DEFINE P(t, r) == Unwind(t, p \o r) = Unwind(Unwind(t, r), p)
           T == {n \in Nat : \A r \in Seq(E) : Len(r) = n => \A t : P(t, r)}
<1>1. 0 \in T
  <2> SUFFICES ASSUME NEW r \in Seq(E), Len(r) = 0, NEW t PROVE P(t, r)
    OBVIOUS
  <2>1. r = << >>
    BY EmptySeq
  <2>2. p \o << >> = p
    BY ConcatEmptySeq
  <2> QED
    BY <2>1, <2>2, UnwindEmpty
<1>2. ASSUME NEW n \in T PROVE n + 1 \in T
  <2> SUFFICES ASSUME NEW r \in Seq(E), Len(r) = n + 1, NEW t PROVE P(t, r)
    OBVIOUS
  <2>1. r # << >>
    OBVIOUS
  <2>2. PICK h \in Seq(E), e \in E : r = Append(h, e)
    BY <2>1, SequenceEmptyOrAppend
  <2>3. Len(h) = n
    BY <2>2
  <2> DEFINE ph == p \o h
  <2>4. p \o r = Append(ph, e) /\ ph \in Seq(E)
    BY <2>2
  <2>5. Unwind(t, Append(ph, e)) = Unwind(Undo(t, e), ph)
    <3> HIDE DEF ph
    <3> QED
      BY <2>4, UnwindAppend
  <2>6. Unwind(t, r) = Unwind(Undo(t, e), h)
    BY <2>2, UnwindAppend
  <2>7. P(Undo(t, e), h)
    BY <2>3
  <2> QED
    BY <2>4, <2>5, <2>6, <2>7
<1>3. T = Nat
  <2> T \in SUBSET Nat
    OBVIOUS
  <2> HIDE DEF T
  <2> QED
    BY <1>1, <1>2, Loop!SetInduction
<1> QED
    BY <1>3
=============================================================================
