----------------------------- MODULE Iteration -----------------------------
(***************************************************************************)
(* A bounded `for' loop: Iterate(c, s, n) is the state after n turns of a  *)
(* loop that starts in s, whose turn number i takes state x to             *)
(* Step(c, x, i); c is what the loop reads and never writes.  The provers  *)
(* cannot use the definition of a recursive function before they know that *)
(* the function exists, so that is proved here once, by induction on the   *)
(* number of turns, and loops are reasoned about with the two equations    *)
(* IterateZero and IterateNext.                                            *)
(***************************************************************************)
EXTENDS Integers, WellFoundedInduction, TLAPS

CONSTANT Step(_, _, _)

Iterate(c, s, n) ==
    LET state[i \in 0 .. n] ==
            IF i = 0 THEN s ELSE Step(c, state[i - 1], i)
    IN  state[n]

-----------------------------------------------------------------------------
(* Induction on the natural numbers, for a set instead of a predicate.     *)

\* < is well founded on the natural numbers.
LEMMA NatWellFounded == IsWellFoundedOn({p \in Nat \X Nat : p[1] < p[2]}, Nat)
BY NatLessThanWellFounded, Zenon DEF OpToRel

\* A set that has 0 and with every number its successor has all of them.
LEMMA SetInduction ==
    ASSUME NEW T \in SUBSET Nat, 0 \in T, \A n \in T : n + 1 \in T
    PROVE  T = Nat
<1> SUFFICES ASSUME T # Nat PROVE FALSE
    OBVIOUS
<1> DEFINE B == Nat \ T
           R == {p \in Nat \X Nat : p[1] < p[2]}
<1>1. PICK m \in B : \A y \in B : ~(<<y, m>> \in R)
  <2>1. B \subseteq Nat /\ B # {}
    OBVIOUS
  <2> HIDE DEF B, R
  <2>2. IsWellFoundedOn(R, Nat)
    BY NatWellFounded DEF R
  <2> QED
    BY <2>1, <2>2, WFMin
<1>2. m \in Nat /\ m # 0
    OBVIOUS
<1>3. m - 1 \in Nat /\ m - 1 < m
    BY <1>2
<1>4. m - 1 \in T
    BY <1>1, <1>2, <1>3
<1> QED
    BY <1>2, <1>4

-----------------------------------------------------------------------------
(* The loop's states exist and are unique.                                 *)

\* f lists the states of n turns.
IsRun(f, c, s, n) ==
    f = [i \in 0 .. n |-> IF i = 0 THEN s ELSE Step(c, f[i - 1], i)]

\* One more turn.
LEMMA RunExtends ==
    ASSUME NEW c, NEW s, NEW n \in Nat, NEW f, IsRun(f, c, s, n)
    PROVE  \E g : /\ IsRun(g, c, s, n + 1)
                  /\ g[n + 1] = Step(c, f[n], n + 1)
<1> DEFINE g == [i \in 0 .. n + 1 |-> IF i = n + 1 THEN Step(c, f[n], n + 1) ELSE f[i]]
           h == [i \in 0 .. n + 1 |-> IF i = 0 THEN s ELSE Step(c, g[i - 1], i)]
<1>1. ASSUME NEW i \in 0 .. n + 1 PROVE g[i] = h[i]
  <2>1. CASE i = n + 1
    BY <2>1
  <2>2. CASE i = 0
    BY <2>2 DEF IsRun
  <2>3. CASE i # 0 /\ i # n + 1
    <3>1. i \in 0 .. n /\ i - 1 \in 0 .. n /\ i - 1 # n + 1
      BY <2>3
    <3>2. f[i] = Step(c, f[i - 1], i)
      BY <2>3, <3>1 DEF IsRun
    <3> QED
      BY <2>3, <3>1, <3>2
  <2> QED
    BY <2>1, <2>2, <2>3
<1>2. /\ g = [i \in 0 .. n + 1 |-> g[i]]
      /\ h = [i \in 0 .. n + 1 |-> h[i]]
    OBVIOUS
<1>3. g = h
  <2> HIDE DEF g, h
  <2> QED
    BY <1>1, <1>2
<1>4. IsRun(g, c, s, n + 1)
  <2>1. g = [i \in 0 .. n + 1 |-> IF i = 0 THEN s ELSE Step(c, g[i - 1], i)]
    <3> HIDE DEF g
    <3> QED
      BY <1>3 DEF h
  <2> HIDE DEF g, h
  <2> QED
    BY <2>1 DEF IsRun
<1>5. g[n + 1] = Step(c, f[n], n + 1)
    OBVIOUS
<1> QED
    BY <1>4, <1>5

\* There is a list of the states.
LEMMA RunExists ==
    ASSUME NEW c, NEW s, NEW n \in Nat
    PROVE  \E f : IsRun(f, c, s, n)
<1> DEFINE T == {k \in Nat : \E f : IsRun(f, c, s, k)}
<1>1. 0 \in T
  <2>1. IsRun([i \in 0 .. 0 |-> s], c, s, 0)
    BY DEF IsRun
  <2> QED
    BY <2>1
<1>2. ASSUME NEW k \in T PROVE k + 1 \in T
    BY RunExtends
<1>3. T = Nat
  <2> T \in SUBSET Nat
    OBVIOUS
  <2> HIDE DEF T
  <2> QED
    BY <1>1, <1>2, SetInduction
<1> QED
    BY <1>3

\* There is only one.
LEMMA RunUnique ==
    ASSUME NEW c, NEW s, NEW n \in Nat, NEW f, NEW g,
           IsRun(f, c, s, n), IsRun(g, c, s, n)
    PROVE  f[n] = g[n]
<1> DEFINE T == {k \in Nat : k <= n => f[k] = g[k]}
<1>1. 0 \in T
    BY DEF IsRun
<1>2. ASSUME NEW k \in T PROVE k + 1 \in T
  <2> SUFFICES ASSUME k + 1 <= n PROVE f[k + 1] = g[k + 1]
    OBVIOUS
  <2>1. k \in 0 .. n /\ k + 1 \in 0 .. n /\ k + 1 # 0 /\ (k + 1) - 1 = k
    OBVIOUS
  <2>2. f[k] = g[k]
    BY <2>1
  <2>3. /\ f[k + 1] = Step(c, f[(k + 1) - 1], k + 1)
        /\ g[k + 1] = Step(c, g[(k + 1) - 1], k + 1)
    BY <2>1 DEF IsRun
  <2> QED
    BY <2>1, <2>2, <2>3
<1>3. T = Nat
  <2> T \in SUBSET Nat
    OBVIOUS
  <2> HIDE DEF T
  <2> QED
    BY <1>1, <1>2, SetInduction
<1> QED
    BY <1>3

\* Iterate is the last state of the list.
LEMMA IterateIsRun ==
    ASSUME NEW c, NEW s, NEW n \in Nat
    PROVE  \E f : IsRun(f, c, s, n) /\ Iterate(c, s, n) = f[n]
<1>1. \E f : IsRun(f, c, s, n)
    BY RunExists
<1> QED
    BY <1>1 DEF IsRun, Iterate

-----------------------------------------------------------------------------
(* The two equations.                                                      *)

\* A loop of no turns leaves its state alone.
THEOREM IterateZero == ASSUME NEW c, NEW s PROVE Iterate(c, s, 0) = s
BY IterateIsRun DEF IsRun

\* A loop of n + 1 turns is one of n turns and a last one.
THEOREM IterateNext ==
    ASSUME NEW c, NEW s, NEW n \in Nat
    PROVE  Iterate(c, s, n + 1) = Step(c, Iterate(c, s, n), n + 1)
<1>1. PICK f : IsRun(f, c, s, n) /\ Iterate(c, s, n) = f[n]
    BY IterateIsRun
<1>2. PICK g : IsRun(g, c, s, n + 1) /\ g[n + 1] = Step(c, f[n], n + 1)
    BY <1>1, RunExtends
<1>3. PICK h : IsRun(h, c, s, n + 1) /\ Iterate(c, s, n + 1) = h[n + 1]
    BY IterateIsRun
<1>4. h[n + 1] = g[n + 1]
    BY <1>2, <1>3, RunUnique
<1> QED
    BY <1>1, <1>2, <1>3, <1>4
=============================================================================
