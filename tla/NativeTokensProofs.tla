------------------------- MODULE NativeTokensProofs -------------------------
(***************************************************************************)
(* Proofs about NativeTokens: what a call that fails leaves behind, what a *)
(* static frame may move and whose tokens a contract may spend, for every  *)
(* calldata, call depth and number of transactions, over the lemmas of     *)
(* SnapshotProofs about the journal.                                       *)
(***************************************************************************)
EXTENDS NativeTokens, SnapshotProofs

ContextType ==
    [target : Address, caller : Address, values : Seq(TokenTransfer), is_static : BOOLEAN]

\* The account a frame executes is used since the frame was opened, also at
\* the checkpoints of the frames inside it.
Executes(j, fs, cs) ==
    \A k \in DOMAIN fs : \A i \in fs[k].journal_i + 1 .. Len(j.journal) :
        Used(Unwound(j, i).accounts[cs[k].target])

\* The precompile has no code, now and whatever is undone.
Codeless(x) == x # Absent => x.code = NoCode
PrecompileCodeless(j) ==
    \A i \in 0 .. Len(j.journal) : Codeless(Unwound(j, i).accounts[PrecompileAddress])

\* Code that the database does not have was deployed to an account that this
\* transaction created, now and whatever is undone.
Deploys(x, a) == x # Absent /\ x.code # db.basic[a].code => x.created
Deployed(j) ==
    \A i \in 0 .. Len(j.journal) : \A a \in Address : Deploys(Unwound(j, i).accounts[a], a)

\* The frames of a stack over the journaled state j.
Nested(fs) ==
    \A k, l \in DOMAIN fs : k < l => fs[k].journal_i < fs[l].journal_i
Stacked(j, fs, cs) ==
    /\ History(j)
    /\ fs \in Seq(FrameType) /\ cs \in Seq(ContextType) /\ Len(fs) = Len(cs)
    /\ Within(j, fs)
    /\ Nested(fs)
    /\ Creations(j, fs)
    /\ \A k \in DOMAIN fs : fs[k].creates # PrecompileAddress
    /\ Executes(j, fs, cs)
    /\ PrecompileCodeless(j)
    /\ Deployed(j)

DatabaseOk(d) == d \in Database /\ d.basic[PrecompileAddress].code = NoCode

-----------------------------------------------------------------------------
(* What keeps the stack well formed                                        *)

\* The past of a state that grew: what was saved is as it was.
LEMMA PastOfGrown ==
    ASSUME NEW j, History(j), NEW k, NEW X, Grows(j, k, X)
    PROVE  /\ Len(j.journal) \in Nat \ {0} /\ Len(k.journal) = Len(j.journal)
           /\ \A i \in 0 .. Len(j.journal) - 1 : Unwound(k, i) = Unwound(j, i)
           /\ Unwound(k, Len(j.journal)).accounts = k.accounts
           /\ Unwound(j, Len(j.journal)).accounts = j.accounts
<1>1. /\ j \in World /\ k \in World /\ Len(j.journal) \in Nat \ {0}
      /\ Len(k.journal) = Len(j.journal)
    BY DEF History, Sound, World, Grows
<1>2. Unwound(k, Len(k.journal)) = Core(k) /\ Unwound(j, Len(j.journal)) = Core(j)
    BY <1>1, PastPresent DEF World, Vector
<1> QED
    BY <1>1, <1>2 DEF Core, Grows

\* Journaled changes that end no creation but those of X.
LEMMA StackedGrows ==
    ASSUME NEW j, NEW fs, NEW cs, Stacked(j, fs, cs), DatabaseOk(db),
           NEW k, NEW X, Grows(j, k, X), PrecompileAddress \notin X,
           \A f \in DOMAIN fs : fs[f].creates \notin X,
           \A a \in X : InCreation(j.accounts[a])
    PROVE  Stacked(k, fs, cs)
<1> DEFINE n == Len(j.journal)
<1>1. /\ n \in Nat \ {0} /\ Len(k.journal) = n
      /\ \A i \in 0 .. n - 1 : Unwound(k, i) = Unwound(j, i)
      /\ Unwound(k, n).accounts = k.accounts
      /\ Unwound(j, n).accounts = j.accounts
    BY PastOfGrown DEF Stacked
<1>2. History(k)
    BY HistoryGrows DEF Stacked
<1>3. Within(k, fs)
    BY <1>1 DEF Stacked, Within
<1>4. Creations(k, fs)
    BY CreationsGrow DEF Stacked
<1>5. \A a \in Address : Evolves(j.accounts[a], k.accounts[a], a \in X)
    BY DEF Grows
<1>6. Executes(k, fs, cs)
  <2> SUFFICES ASSUME NEW f \in DOMAIN fs, NEW i \in fs[f].journal_i + 1 .. n
               PROVE  Used(Unwound(k, i).accounts[cs[f].target])
    BY <1>1 DEF Executes
  <2>1. Used(Unwound(j, i).accounts[cs[f].target])
    BY DEF Stacked, Executes
  <2>2. cs[f].target \in Address /\ fs[f].journal_i \in Nat
    <3>1. cs \in Seq(ContextType) /\ fs \in Seq(FrameType) /\ f \in DOMAIN cs
      BY DEF Stacked
    <3>2. cs[f] \in ContextType /\ fs[f] \in FrameType
      BY <3>1
    <3> QED
      BY <3>2 DEF ContextType, FrameType
  <2>3. CASE i = n
    BY <1>1, <1>5, <2>1, <2>2, <2>3 DEF Evolves
  <2>4. CASE i # n
    BY <1>1, <2>1, <2>2, <2>4
  <2> QED
    BY <2>3, <2>4
<1>7. PrecompileCodeless(k)
  <2> DEFINE p == PrecompileAddress
  <2> SUFFICES ASSUME NEW i \in 0 .. n PROVE Codeless(Unwound(k, i).accounts[p])
    BY <1>1 DEF PrecompileCodeless
  <2>1. Codeless(Unwound(j, i).accounts[p])
    BY DEF Stacked, PrecompileCodeless
  <2>2. CASE i = n
    <3>1. p \in Address \ X
      BY ParticipantsAssumption
    <3>2. CASE Loaded(j, p)
      BY <1>1, <1>5, <2>1, <2>2, <3>1, <3>2 DEF Evolves, Codeless, Loaded
    <3>3. CASE ~Loaded(j, p)
      BY <1>1, <2>2, <3>1, <3>3 DEF Grows, Codeless, Loaded, DatabaseOk
    <3> QED
      BY <3>2, <3>3
  <2>3. CASE i # n
    BY <1>1, <2>1, <2>3
  <2> QED
    BY <2>2, <2>3
<1>8. Deployed(k)
  <2> SUFFICES ASSUME NEW i \in 0 .. n, NEW a \in Address
               PROVE  Deploys(Unwound(k, i).accounts[a], a)
    BY <1>1 DEF Deployed
  <2>1. Deploys(Unwound(j, i).accounts[a], a)
    BY DEF Stacked, Deployed
  <2>2. CASE i = n
    <3>1. CASE a \in X
      BY <1>1, <1>5, <2>2, <3>1 DEF Evolves, Deploys, InCreation
    <3>2. CASE a \notin X /\ Loaded(j, a)
      BY <1>1, <1>5, <2>1, <2>2, <3>2 DEF Evolves, Deploys, Loaded
    <3>3. CASE a \notin X /\ ~Loaded(j, a)
      BY <1>1, <2>2, <3>3 DEF Grows, Deploys, Loaded
    <3> QED
      BY <3>1, <3>2, <3>3
  <2>3. CASE i # n
    BY <1>1, <2>1, <2>3
  <2> QED
    BY <2>2, <2>3
<1> QED
    BY <1>2, <1>3, <1>4, <1>6, <1>7, <1>8 DEF Stacked

\* checkpoint
LEMMA StackedOpen ==
    ASSUME NEW j, NEW fs, NEW cs, Stacked(j, fs, cs)
    PROVE  /\ Stacked(OpenVector(j), fs, cs)
           /\ Sound(OpenVector(j)) /\ OpenVector(j).accounts = j.accounts
           /\ OpenVector(j).touched = j.touched
           /\ OpenVector(j).transient_storage = j.transient_storage
           /\ Len(OpenVector(j).journal) = Len(j.journal) + 1
<1> DEFINE k == OpenVector(j)
           n == Len(j.journal)
<1>1. j \in World /\ n \in Nat \ {0} /\ History(j)
    BY DEF Stacked, History, Sound, World
<1>2. History(k) /\ Len(k.journal) = n + 1 /\ Sound(k)
    BY <1>1, HistoryOpen DEF History
<1>3. Creations(k, fs) /\ Within(k, fs)
    BY CreationsOpen DEF Stacked
<1>4. /\ k.accounts = j.accounts /\ k.touched = j.touched
      /\ k.transient_storage = j.transient_storage
    BY <1>1 DEF OpenVector, World
<1>5. \A i \in 0 .. n : Unwound(k, i) = Unwound(j, i)
    BY <1>1, PastOpened
<1> HIDE DEF k
<1>6. Unwound(k, n + 1).accounts = Unwound(j, n).accounts
  <2>1. k.journal \in Seq(Vector) /\ j.journal \in Seq(Vector)
    BY <1>1, <1>2 DEF Sound, World, Vector
  <2>2. Unwound(k, n + 1) = Core(k) /\ Unwound(j, n) = Core(j)
    BY <1>2, <2>1, PastPresent
  <2> QED
    BY <1>4, <2>2 DEF Core
<1>7. Executes(k, fs, cs)
  <2> SUFFICES ASSUME NEW f \in DOMAIN fs, NEW i \in fs[f].journal_i + 1 .. n + 1
               PROVE  Used(Unwound(k, i).accounts[cs[f].target])
    BY <1>2 DEF Executes
  <2>1. fs[f].journal_i \in 1 .. n - 1
    BY DEF Stacked, Within
  <2>2. \A l \in fs[f].journal_i + 1 .. n : Used(Unwound(j, l).accounts[cs[f].target])
    BY DEF Stacked, Executes
  <2>3. CASE i = n + 1
    BY <1>1, <1>6, <2>1, <2>2, <2>3
  <2>4. CASE i # n + 1
    BY <1>1, <1>5, <2>1, <2>2, <2>4
  <2> QED
    BY <2>3, <2>4
<1>8. PrecompileCodeless(k)
  <2> SUFFICES ASSUME NEW i \in 0 .. n + 1
               PROVE  Codeless(Unwound(k, i).accounts[PrecompileAddress])
    BY <1>2 DEF PrecompileCodeless
  <2>1. \A l \in 0 .. n : Codeless(Unwound(j, l).accounts[PrecompileAddress])
    BY DEF Stacked, PrecompileCodeless
  <2>2. CASE i = n + 1
    BY <1>1, <1>6, <2>1, <2>2
  <2>3. CASE i # n + 1
    BY <1>1, <1>5, <2>1, <2>3
  <2> QED
    BY <2>2, <2>3
<1>9. Deployed(k)
  <2> SUFFICES ASSUME NEW i \in 0 .. n + 1, NEW a \in Address
               PROVE  Deploys(Unwound(k, i).accounts[a], a)
    BY <1>2 DEF Deployed
  <2>1. \A l \in 0 .. n : Deploys(Unwound(j, l).accounts[a], a)
    BY DEF Stacked, Deployed
  <2>2. CASE i = n + 1
    BY <1>1, <1>6, <2>1, <2>2
  <2>3. CASE i # n + 1
    BY <1>1, <1>5, <2>1, <2>3
  <2> QED
    BY <2>2, <2>3
<1> QED
    BY <1>2, <1>3, <1>4, <1>7, <1>8, <1>9 DEF Stacked, k

\* checkpoint_revert to a checkpoint that is newer than those of the frames.
LEMMA StackedRevert ==
    ASSUME NEW j, NEW fs, NEW cs, Stacked(j, fs, cs), NEW n \in 1 .. Len(j.journal),
           \A f \in DOMAIN fs : fs[f].journal_i < n
    PROVE  Stacked(RevertTo(j, n), fs, cs)
<1> DEFINE k == RevertTo(j, n)
<1>1. History(j) /\ Len(j.journal) \in Nat \ {0}
    BY DEF Stacked, History, Sound, World
<1>2. History(k) /\ Len(k.journal) = n /\ \A i \in 0 .. n : Unwound(k, i) = Unwound(j, i)
    BY <1>1, HistoryRevert
<1>3. Creations(k, fs)
    BY CreationsRevert DEF Stacked
<1> HIDE DEF k
<1>4. Within(k, fs)
    BY <1>1, <1>2 DEF Stacked, Within
<1>5. Executes(k, fs, cs)
  <2> SUFFICES ASSUME NEW f \in DOMAIN fs, NEW i \in fs[f].journal_i + 1 .. n
               PROVE  Used(Unwound(k, i).accounts[cs[f].target])
    BY <1>2 DEF Executes
  <2>1. fs[f].journal_i \in 1 .. Len(j.journal) - 1
    BY DEF Stacked, Within
  <2>2. i \in fs[f].journal_i + 1 .. Len(j.journal) /\ i \in 0 .. n
    BY <1>1, <2>1
  <2> QED
    BY <1>2, <2>2 DEF Stacked, Executes
<1>6. PrecompileCodeless(k)
  <2>1. \A i \in 0 .. n : i \in 0 .. Len(j.journal)
    BY <1>1
  <2> QED
    BY <1>2, <2>1 DEF Stacked, PrecompileCodeless
<1>7. Deployed(k)
  <2>1. \A i \in 0 .. n : i \in 0 .. Len(j.journal)
    BY <1>1
  <2> QED
    BY <1>2, <2>1 DEF Stacked, Deployed
<1> QED
    BY <1>2, <1>3, <1>4, <1>5, <1>6, <1>7 DEF Stacked, k

\* A transfer that ended in OverflowPayment.
LEMMA StackedSkewed ==
    ASSUME NEW g, NEW fs, NEW cs, Stacked(g, fs, cs), NEW k, NEW a \in Address, Skewed(g, k, a)
    PROVE  Stacked(k, fs, cs)
<1> DEFINE n == Len(g.journal)
<1>1. History(g) /\ n \in Nat \ {0} /\ Len(k.journal) = n
    BY DEF Stacked, History, Sound, World, Skewed
<1>2. History(k)
    BY <1>1, HistorySkewed
<1>3. Creations(k, fs)
    BY CreationsSkewed DEF Stacked
<1>4. Within(k, fs)
    BY <1>1 DEF Stacked, Within
<1>5. \A i \in 0 .. n : \A b \in Address :
         Peers(Unwound(g, i).accounts[b], Unwound(k, i).accounts[b])
    BY <1>1, SkewedPast
<1>6. \A x, y : Peers(x, y) => (Used(x) => Used(y)) /\ (Codeless(x) => Codeless(y))
    BY BoundsAssumption DEF Peers, Used, Unused, Codeless, SameButBalances
<1>7. Executes(k, fs, cs)
  <2> SUFFICES ASSUME NEW f \in DOMAIN fs, NEW i \in fs[f].journal_i + 1 .. n
               PROVE  Used(Unwound(k, i).accounts[cs[f].target])
    BY <1>1 DEF Executes
  <2>1. fs[f].journal_i \in 1 .. n - 1 /\ i \in 0 .. n
    BY <1>1 DEF Stacked, Within
  <2>2. Used(Unwound(g, i).accounts[cs[f].target])
    BY DEF Stacked, Executes
  <2>3. cs[f].target \in Address
    <3>1. cs \in Seq(ContextType) /\ f \in DOMAIN cs
      BY DEF Stacked
    <3>2. cs[f] \in ContextType
      BY <3>1
    <3> QED
      BY <3>2 DEF ContextType
  <2> QED
    BY <1>5, <1>6, <2>1, <2>2, <2>3
<1>8. PrecompileCodeless(k)
    BY <1>1, <1>5, <1>6, ParticipantsAssumption DEF Stacked, PrecompileCodeless
<1>9. Deployed(k)
  <2>1. \A x, y : \A b \in Address : Peers(x, y) => (Deploys(x, b) => Deploys(y, b))
    BY BoundsAssumption DEF Peers, Deploys, SameButBalances
  <2> QED
    BY <1>1, <1>5, <2>1 DEF Stacked, Deployed
<1> QED
    BY <1>2, <1>3, <1>4, <1>7, <1>8, <1>9 DEF Stacked

\* The stack without its newest frame.
Popped(q) == SubSeq(q, 1, Len(q) - 1)

LEMMA PoppedIs ==
    ASSUME NEW S, NEW q \in Seq(S), q # << >>
    PROVE  /\ Popped(q) \in Seq(S) /\ Len(q) \in Nat \ {0}
           /\ DOMAIN q = 1 .. Len(q) /\ q[Len(q)] \in S
           /\ Len(Popped(q)) = Len(q) - 1 /\ DOMAIN Popped(q) = 1 .. Len(q) - 1
           /\ \A k \in 1 .. Len(q) - 1 : k \in DOMAIN q /\ Popped(q)[k] = q[k]
<1>1. Len(q) \in Nat \ {0} /\ DOMAIN q = 1 .. Len(q) /\ q[Len(q)] \in S
    OBVIOUS
<1>2. Len(q) - 1 \in 0 .. Len(q) /\ 0 \in 0 .. Len(q) - 1
    BY <1>1
<1>3. /\ Popped(q) \in Seq(S) /\ Len(Popped(q)) = Len(q) - 1
      /\ \A k \in 1 .. Len(q) - 1 : Popped(q)[k] = q[k]
    BY <1>2, SubSeqFirst DEF Popped
<1> QED
    BY <1>1, <1>3

\* What is known of the newest frame.
LEMMA StackedTop ==
    ASSUME NEW j, NEW fs, NEW cs, Stacked(j, fs, cs), fs # << >>
    PROVE  LET f == fs[Len(fs)]
               c == cs[Len(cs)]
           IN  /\ f \in FrameType /\ c \in ContextType
               /\ f.journal_i \in 1 .. Len(j.journal) - 1
               /\ Used(j.accounts[c.target])
               /\ f.creates # NoAddress => f.creates \in Address /\ InCreation(j.accounts[f.creates])
<1> DEFINE f == fs[Len(fs)]
           c == cs[Len(cs)]
           n == Len(j.journal)
<1>1. /\ fs \in Seq(FrameType) /\ cs \in Seq(ContextType) /\ Len(fs) = Len(cs)
      /\ j \in World /\ n \in Nat \ {0}
    BY DEF Stacked, History, Sound, World
<1>2. /\ Len(fs) \in DOMAIN fs /\ f \in FrameType /\ c \in ContextType
    BY <1>1
<1>3. f.journal_i \in 1 .. n - 1
    BY <1>2 DEF Stacked, Within
<1>4. n \in f.journal_i + 1 .. n
    BY <1>1, <1>3
<1>5. Unwound(j, n).accounts = j.accounts
  <2>1. Unwound(j, n) = Core(j)
    BY <1>1, PastPresent DEF World, Vector
  <2> QED
    BY <2>1 DEF Core
<1>6. Used(j.accounts[c.target])
    BY <1>1, <1>2, <1>4, <1>5 DEF Stacked, Executes
<1>7. f.creates # NoAddress => InCreation(j.accounts[f.creates])
    BY <1>2, <1>4, <1>5 DEF Stacked, Creations
<1> QED
    BY <1>2, <1>3, <1>6, <1>7 DEF FrameType

\* A frame ends.
LEMMA StackedPop ==
    ASSUME NEW j, NEW fs, NEW cs, Stacked(j, fs, cs), fs # << >>
    PROVE  /\ Stacked(j, Popped(fs), Popped(cs))
           /\ \A k \in DOMAIN Popped(fs) :
                 /\ Popped(fs)[k].journal_i < fs[Len(fs)].journal_i
                 /\ fs[Len(fs)].creates # NoAddress =>
                       Popped(fs)[k].creates # fs[Len(fs)].creates
<1>1. /\ fs \in Seq(FrameType) /\ cs \in Seq(ContextType) /\ Len(fs) = Len(cs)
      /\ cs # << >>
    BY DEF Stacked
<1>2. /\ Popped(fs) \in Seq(FrameType) /\ Popped(cs) \in Seq(ContextType)
      /\ Len(fs) \in Nat \ {0} /\ DOMAIN fs = 1 .. Len(fs)
      /\ Len(Popped(fs)) = Len(Popped(cs))
      /\ DOMAIN Popped(fs) = 1 .. Len(fs) - 1
      /\ \A k \in 1 .. Len(fs) - 1 : /\ k \in DOMAIN fs
                                     /\ Popped(fs)[k] = fs[k] /\ Popped(cs)[k] = cs[k]
    BY <1>1, PoppedIs
<1>3. Creations(j, Popped(fs))
    BY <1>1, CreationsPop DEF Stacked, Popped
<1>4. Within(j, Popped(fs))
    BY <1>2 DEF Stacked, Within
<1>5. Nested(Popped(fs))
    BY <1>2 DEF Stacked, Nested
<1>6. Executes(j, Popped(fs), Popped(cs))
    BY <1>2 DEF Stacked, Executes
<1>7. \A k \in DOMAIN Popped(fs) : Popped(fs)[k].creates # PrecompileAddress
    BY <1>2 DEF Stacked
<1>8. ASSUME NEW k \in DOMAIN Popped(fs)
      PROVE  /\ Popped(fs)[k].journal_i < fs[Len(fs)].journal_i
             /\ fs[Len(fs)].creates # NoAddress => Popped(fs)[k].creates # fs[Len(fs)].creates
  <2>1. k \in DOMAIN fs /\ Len(fs) \in DOMAIN fs /\ k < Len(fs) /\ k # Len(fs)
    BY <1>2
  <2>2. Popped(fs)[k] = fs[k]
    BY <1>2
  <2> QED
    BY <2>1, <2>2 DEF Stacked, Nested, Creations
<1> QED
    BY <1>2, <1>3, <1>4, <1>5, <1>6, <1>7, <1>8 DEF Stacked

\* A frame is opened, whose checkpoint is before the newest vector.
LEMMA StackedPush ==
    ASSUME NEW j, NEW fs, NEW cs, Stacked(j, fs, cs), NEW f \in FrameType, NEW c \in ContextType,
           f.journal_i + 1 = Len(j.journal), f.journal_i # 0, f.creates # PrecompileAddress,
           \A k \in DOMAIN fs : fs[k].journal_i < f.journal_i,
           f.creates # NoAddress =>
              /\ InCreation(j.accounts[f.creates])
              /\ \A k \in DOMAIN fs : fs[k].creates # f.creates,
           Used(j.accounts[c.target])
    PROVE  Stacked(j, Append(fs, f), Append(cs, c))
<1> DEFINE gs == Append(fs, f)
           ds == Append(cs, c)
           n == Len(j.journal)
<1>1. /\ fs \in Seq(FrameType) /\ cs \in Seq(ContextType) /\ Len(fs) = Len(cs)
      /\ j \in World /\ n \in Nat \ {0}
    BY DEF Stacked, History, Sound, World
<1>2. /\ gs \in Seq(FrameType) /\ ds \in Seq(ContextType) /\ Len(gs) = Len(ds)
      /\ DOMAIN gs = 1 .. Len(fs) + 1 /\ DOMAIN fs = 1 .. Len(fs) /\ Len(fs) \in Nat
      /\ gs[Len(fs) + 1] = f /\ ds[Len(fs) + 1] = c
      /\ \A k \in 1 .. Len(fs) : gs[k] = fs[k] /\ ds[k] = cs[k]
    BY <1>1
<1>3. Creations(j, gs)
    BY <1>1, CreationsPush DEF Stacked
<1> HIDE DEF gs, ds
<1>4. f.journal_i \in Nat
    BY DEF FrameType
<1>5. Within(j, gs)
  <2> SUFFICES ASSUME NEW k \in DOMAIN gs PROVE gs[k].journal_i \in 1 .. n - 1
    BY <1>2 DEF Within
  <2>1. CASE k = Len(fs) + 1
    BY <1>1, <1>2, <1>4, <2>1
  <2>2. CASE k # Len(fs) + 1
    BY <1>2, <2>2 DEF Stacked, Within
  <2> QED
    BY <2>1, <2>2
<1>6. Nested(gs)
  <2> SUFFICES ASSUME NEW k \in DOMAIN gs, NEW l \in DOMAIN gs, k < l
               PROVE  gs[k].journal_i < gs[l].journal_i
    BY DEF Nested
  <2>1. k \in DOMAIN fs /\ gs[k] = fs[k]
    BY <1>2
  <2>2. CASE l = Len(fs) + 1
    BY <1>2, <2>1, <2>2
  <2>3. CASE l # Len(fs) + 1
    <3>1. l \in DOMAIN fs /\ gs[l] = fs[l]
      BY <1>2, <2>3
    <3> QED
      BY <2>1, <3>1 DEF Stacked, Nested
  <2> QED
    BY <2>2, <2>3
<1>7. Executes(j, gs, ds)
  <2> SUFFICES ASSUME NEW k \in DOMAIN gs, NEW i \in gs[k].journal_i + 1 .. n
               PROVE  Used(Unwound(j, i).accounts[ds[k].target])
    BY DEF Executes
  <2>1. CASE k = Len(fs) + 1
    <3>1. i = n
      BY <1>1, <1>2, <1>4, <2>1
    <3>2. Unwound(j, n) = Core(j)
      BY <1>1, PastPresent DEF World, Vector
    <3> QED
      BY <1>2, <2>1, <3>1, <3>2 DEF Core
  <2>2. CASE k # Len(fs) + 1
    BY <1>2, <2>2 DEF Stacked, Executes
  <2> QED
    BY <2>1, <2>2
<1>8. \A k \in DOMAIN gs : gs[k].creates # PrecompileAddress
    BY <1>2 DEF Stacked
<1> QED
    BY <1>2, <1>3, <1>5, <1>6, <1>7, <1>8 DEF Stacked, gs, ds

-----------------------------------------------------------------------------
(* Whose balances change                                                   *)

\* Nobody's tokens move between j and k; whoever has less of a token in k
\* than in j is in S with that token.
Even(j, k) == \A a \in Address : Balances(k, a) = Balances(j, a)
Spends(j, k, S) ==
    \A a \in Address, t \in TokenId :
        Balances(k, a)[t] < Balances(j, a)[t] => <<a, t>> \in S

LEMMA BalancesTyped ==
    ASSUME NEW j \in World, NEW a \in Address, db \in Database
    PROVE  Balances(j, a) \in [TokenId -> Balance]
<1>1. CASE Loaded(j, a)
    BY <1>1 DEF Balances, World, Accounts, Account, Loaded
<1>2. CASE ~Loaded(j, a)
    BY <1>2 DEF Balances, Database, AccountInfo
<1> QED
    BY <1>1, <1>2

LEMMA EvenSame ==
    ASSUME NEW j, NEW k, k.accounts = j.accounts
    PROVE  Even(j, k)
BY DEF Even, Balances, Loaded

LEMMA EvenPointwise ==
    ASSUME NEW j \in World, NEW k \in World, db \in Database,
           \A a \in Address, t \in TokenId : Balances(k, a)[t] = Balances(j, a)[t]
    PROVE  Even(j, k)
<1> SUFFICES ASSUME NEW a \in Address PROVE Balances(k, a) = Balances(j, a)
    BY DEF Even
<1>1. Balances(j, a) \in [TokenId -> Balance] /\ Balances(k, a) \in [TokenId -> Balance]
    BY BalancesTyped
<1> HIDE DEF Balances
<1> QED
    BY <1>1

LEMMA EvenSpends ==
    ASSUME NEW j \in World, NEW k, Even(j, k), db \in Database, NEW S
    PROVE  Spends(j, k, S)
<1> SUFFICES ASSUME NEW a \in Address, NEW t \in TokenId
             PROVE  ~(Balances(k, a)[t] < Balances(j, a)[t])
    BY DEF Spends
<1>1. Balances(j, a)[t] \in Nat
    BY BalancesTyped, BoundsAssumption DEF Balance
<1> HIDE DEF Balances
<1> QED
    BY <1>1 DEF Even

LEMMA SpendsTwice ==
    ASSUME NEW j \in World, NEW k \in World, NEW l \in World, db \in Database,
           NEW S, Spends(j, k, S), Spends(k, l, S)
    PROVE  Spends(j, l, S)
<1> SUFFICES ASSUME NEW a \in Address, NEW t \in TokenId,
                    Balances(l, a)[t] < Balances(j, a)[t]
             PROVE  <<a, t>> \in S
    BY DEF Spends
<1>1. Balances(j, a)[t] \in Nat /\ Balances(k, a)[t] \in Nat /\ Balances(l, a)[t] \in Nat
    BY BalancesTyped, BoundsAssumption DEF Balance
<1>2. \/ Balances(l, a)[t] < Balances(k, a)[t]
      \/ Balances(k, a)[t] < Balances(j, a)[t]
    BY <1>1
<1> QED
    BY <1>2 DEF Spends

LEMMA EvenLoad ==
    ASSUME NEW j \in World, Len(j.journal) # 0, NEW a \in Address, db \in Database
    PROVE  Even(j, LoadAccount(j, a))
<1>1. CASE Loaded(j, a)
    BY <1>1, EvenSame DEF LoadAccount
<1>2. CASE ~Loaded(j, a)
  <2> DEFINE m == InsertAccount(j, a)
             k == LoadAccount(j, a)
             x == AccountFrom(db.basic[a])
  <2>1. k.accounts = [j.accounts EXCEPT ![a] = x]
    BY <1>2 DEF LoadAccount, InsertAccount, Push, World
  <2>2. x # Absent /\ x.balances = db.basic[a].balances
    <3>1. db.basic[a] \in AccountInfo
      BY DEF Database
    <3>2. x \in Account
      BY <3>1 DEF AccountFrom, AccountInfo, Account
    <3> QED
      BY <3>2, BoundsAssumption DEF AccountFrom
  <2> HIDE DEF k, x
  <2>3. \A b \in Address : k.accounts[b] = IF b = a THEN x ELSE j.accounts[b]
    BY <2>1 DEF World, Accounts
  <2>4. Even(j, k)
    BY <1>2, <2>2, <2>3 DEF Even, Balances, Loaded
  <2> QED
    BY <2>4 DEF k
<1> QED
    BY <1>1, <1>2

LEMMA BalancesSet ==
    ASSUME NEW j \in World, NEW a \in Address, Loaded(j, a), NEW t \in TokenId, NEW n \in Balance
    PROVE  \A b \in Address, s \in TokenId :
              Balances(SetBalance(j, a, t, n), b)[s]
                 = IF b = a /\ s = t THEN n ELSE Balances(j, b)[s]
<1> DEFINE m == SetBalance(j, a, t, n)
           y == j.accounts[a]
           x == WithBalance(y, t, n)
<1>1. m.accounts = [j.accounts EXCEPT ![a] = x]
    BY SetBalanceIs
<1>2. y \in Account /\ j.accounts \in Accounts
    BY DEF World, Accounts, Loaded
<1>3. x # Absent /\ x.balances = [y.balances EXCEPT ![t] = n] /\ y.balances \in [TokenId -> Balance]
  <2>1. x \in Account
    BY <1>2, BalanceBack
  <2> QED
    BY <1>2, <2>1, BoundsAssumption DEF WithBalance, Account
<1> HIDE DEF m, x
<1>4. \A b \in Address : m.accounts[b] = IF b = a THEN x ELSE j.accounts[b]
    BY <1>1, <1>2 DEF Accounts
<1>5. \A b \in Address, s \in TokenId :
         Balances(m, b)[s] = IF b = a /\ s = t THEN n ELSE Balances(j, b)[s]
    BY <1>3, <1>4 DEF Balances, Loaded
<1> QED
    BY <1>5 DEF m

LEMMA SetBalanceKeeps ==
    ASSUME NEW j \in World, NEW a \in Address, Loaded(j, a), NEW t \in TokenId, NEW n \in Balance
    PROVE  /\ SetBalance(j, a, t, n) \in World
           /\ SetBalance(j, a, t, n).journal = j.journal
           /\ SetBalance(j, a, t, n).touched = j.touched
           /\ \A b \in Address : Loaded(j, b) => Loaded(SetBalance(j, a, t, n), b)
BY ZenonT(40), SetBalanceIs

\* The tokens that only an account `from` may lose.
TokensOf(from) == {from} \X TokenId

\* One turn of the loop of transfer, for accounts that are loaded: a transfer
\* to oneself moves nothing and cannot overflow.
LEMMA SpendsTransferOne ==
    ASSUME NEW r, Sound(r.js), NEW from \in Address, NEW to \in Address, db \in Database,
           Loaded(r.js, from), Loaded(r.js, to), NEW transfer \in TokenTransfer
    PROVE  LET u == TransferOne(r, from, to, transfer)
           IN  /\ u.js \in World
               /\ Spends(r.js, u.js, TokensOf(from))
               /\ from = to => /\ Even(r.js, u.js)
                               /\ u.outcome = "overflow" => r.outcome = "overflow"
<1> DEFINE t == transfer.id
           n == transfer.amount
           j == r.js
           j1 == TouchAccount(j, from)
           has == j1.accounts[from].balances[t]
           j0 == SetBalance(j1, from, t, has - n)
           j2 == TouchAccount(j0, to)
           got == j2.accounts[to].balances[t]
           j3 == SetBalance(j2, to, t, got + n)
           u == TransferOne(r, from, to, transfer)
<1>1. t \in TokenId /\ n \in Balance /\ MaxU256 \in Nat
    BY BoundsAssumption DEF TokenTransfer
<1> HIDE DEF t, n
<1>2. j \in World /\ Even(j, j)
    BY DEF Sound, Even
<1>3. CASE r.outcome # "ok"
  <2>1. u = r
    BY <1>3 DEF TransferOne, t, n
  <2> QED
    BY <1>2, <2>1, EvenSpends
<1>4. CASE r.outcome = "ok"
  <2>1. /\ j1.accounts = j.accounts /\ Sound(j1) /\ j1 \in World
        /\ Loaded(j1, from) /\ Loaded(j1, to) /\ Even(j, j1)
    <3>1. Grows(j, j1, {}) /\ j1.accounts = j.accounts
      BY GrowsTouch
    <3>2. Sound(j1)
      BY <3>1, GrowsSound
    <3> HIDE DEF j1
    <3> QED
      BY <3>1, <3>2, EvenSame DEF Loaded, Sound
  <2> HIDE DEF j1
  <2>2. CASE has < n
    <3>1. u.js = j1 /\ u.outcome = "failed"
      BY <1>4, <2>2 DEF TransferOne, t, n, j1
    <3> QED
      BY <1>2, <2>1, <3>1, EvenSpends
  <2>3. CASE ~(has < n)
    <3>1. has = Balances(j1, from)[t] /\ has \in Balance
      BY <1>1, <2>1, BalancesTyped DEF Balances
    <3> HIDE DEF has
    <3>2. has - n \in Balance
      BY <1>1, <2>3, <3>1 DEF Balance
    <3>3. /\ j0 \in World /\ Loaded(j0, from) /\ Loaded(j0, to)
          /\ \A b \in Address, s \in TokenId :
                Balances(j0, b)[s] = IF b = from /\ s = t THEN has - n ELSE Balances(j1, b)[s]
          /\ j0.touched = j1.touched /\ j0.journal = j1.journal
          /\ \A b \in Address : Loaded(j1, b) => Loaded(j0, b)
      <4>1. \A b \in Address, s \in TokenId :
               Balances(j0, b)[s] = IF b = from /\ s = t THEN has - n ELSE Balances(j1, b)[s]
        BY <1>1, <2>1, <3>2, BalancesSet
      <4>2. /\ j0 \in World /\ j0.touched = j1.touched /\ j0.journal = j1.journal
            /\ \A b \in Address : Loaded(j1, b) => Loaded(j0, b)
        <5> DEFINE p == has - n
        <5>1. p \in Balance /\ j1 \in World /\ Loaded(j1, from)
          BY <2>1, <3>2
        <5> HIDE DEF p
        <5>2. /\ SetBalance(j1, from, t, p) \in World
              /\ SetBalance(j1, from, t, p).touched = j1.touched
              /\ SetBalance(j1, from, t, p).journal = j1.journal
              /\ \A b \in Address : Loaded(j1, b) => Loaded(SetBalance(j1, from, t, p), b)
          BY <1>1, <5>1, SetBalanceKeeps
        <5> QED
          BY <5>2 DEF p
      <4> QED
        BY <2>1, <4>1, <4>2
    <3>4. Sound(j0)
      <4>1. j1.touched \subseteq Address
        BY <2>1 DEF World
      <4> HIDE DEF j0
      <4> QED
        BY <2>1, <3>3, <4>1 DEF Sound
    <3> HIDE DEF j0
    <3>5. /\ j2.accounts = j0.accounts /\ j2 \in World /\ Loaded(j2, to) /\ Even(j0, j2)
      <4>1. Grows(j0, j2, {}) /\ j2.accounts = j0.accounts
        BY <3>3, <3>4, GrowsTouch
      <4> HIDE DEF j2
      <4> QED
        BY <3>3, <4>1, EvenSame DEF Loaded, Grows
    <3> HIDE DEF j2
    <3>6. \A b \in Address, s \in TokenId :
             Balances(j2, b)[s] = IF b = from /\ s = t THEN has - n ELSE Balances(j, b)[s]
      BY <2>1, <3>3, <3>5 DEF Even
    <3>7. got = Balances(j2, to)[t] /\ got \in Balance
      BY <1>1, <3>5, BalancesTyped DEF Balances
    <3>8. from = to => got + n = has
      BY <1>1, <3>1, <3>6, <3>7 DEF Balance
    <3> HIDE DEF got
    <3>9. \A b \in Address, s \in TokenId : Balances(j, b)[s] \in Nat
      BY <1>1, <1>2, BalancesTyped DEF Balance
    <3>10. CASE got + n > MaxU256
      <4>1. u.js = j2 /\ u.outcome = "overflow"
        BY <1>4, <2>3, <3>10 DEF TransferOne, t, n, j1, j2, j0, has, got
      <4>2. from # to
        BY <1>1, <3>1, <3>8, <3>10 DEF Balance
      <4>3. Spends(j, j2, TokensOf(from))
        BY <3>6, <3>9 DEF Spends, TokensOf
      <4> QED
        BY <3>5, <4>1, <4>2, <4>3
    <3>11. CASE ~(got + n > MaxU256)
      <4>1. u.outcome = "ok" /\ u.js = Push(j3, BalanceTransfer(from, to, t, n))
        BY <1>4, <2>3, <3>11 DEF TransferOne, t, n, j1, j2, j0, has, got
      <4>2. got + n \in Balance
        BY <1>1, <3>7, <3>11 DEF Balance
      <4>3. /\ j3 \in World /\ j3.journal = j2.journal
            /\ \A b \in Address, s \in TokenId :
                  Balances(j3, b)[s] = IF b = to /\ s = t THEN got + n ELSE Balances(j2, b)[s]
        <5>1. \A b \in Address, s \in TokenId :
                 Balances(j3, b)[s] = IF b = to /\ s = t THEN got + n ELSE Balances(j2, b)[s]
          BY <1>1, <3>5, <4>2, BalancesSet
        <5>2. j3 \in World /\ j3.journal = j2.journal
          <6> DEFINE p == got + n
          <6>1. p \in Balance /\ j2 \in World /\ Loaded(j2, to)
            BY <3>5, <4>2
          <6> HIDE DEF p
          <6>2. /\ SetBalance(j2, to, t, p) \in World
                /\ SetBalance(j2, to, t, p).journal = j2.journal
            BY <1>1, <6>1, SetBalanceKeeps
          <6> QED
            BY <6>2 DEF p
        <5> QED
          BY <5>1, <5>2
      <4>4. Len(j3.journal) # 0
        BY <1>1, <2>1, <3>2, <3>3, <3>4, <3>5, <4>3, GrowsTouch DEF j2, Grows, Sound
      <4> HIDE DEF j3
      <4>5. u.js \in World /\ u.js.accounts = j3.accounts
        <5>1. BalanceTransfer(from, to, t, n) \in JournalEntry
          BY <1>1 DEF BalanceTransfer, JournalEntry
        <5> QED
          BY <4>1, <4>3, <4>4, <5>1, PushJournal
      <4> HIDE DEF u
      <4>6. \A b \in Address, s \in TokenId :
               Balances(u.js, b)[s] =
                  IF b = to /\ s = t THEN got + n
                  ELSE IF b = from /\ s = t THEN has - n ELSE Balances(j, b)[s]
        <5>1. Even(j3, u.js)
          BY <4>5, EvenSame
        <5> QED
          BY <3>6, <4>3, <5>1 DEF Even
      <4>7. from = to => Even(j, u.js)
        <5>1. has = Balances(j, from)[t]
          BY <1>1, <2>1, <3>1 DEF Even
        <5>2. from = to => \A b \in Address, s \in TokenId : Balances(u.js, b)[s] = Balances(j, b)[s]
          BY <3>8, <4>6, <5>1
        <5> QED
          BY <1>2, <4>5, <5>2, EvenPointwise
      <4>8. Spends(j, u.js, TokensOf(from))
        <5> SUFFICES ASSUME NEW b \in Address, NEW s \in TokenId, b # from
                     PROVE  ~(Balances(u.js, b)[s] < Balances(j, b)[s])
          BY DEF Spends, TokensOf
        <5>1. CASE b = to /\ s = t
          <6>1. got = Balances(j, b)[s] /\ Balances(u.js, b)[s] = got + n
            BY <3>6, <3>7, <4>6, <5>1
          <6> QED
            BY <1>1, <3>7, <6>1 DEF Balance
        <5>2. CASE ~(b = to /\ s = t)
          BY <3>9, <4>6, <5>2
        <5> QED
          BY <5>1, <5>2
      <4> QED
        BY <4>1, <4>5, <4>7, <4>8 DEF u
    <3> QED
      BY <3>10, <3>11
  <2> QED
    BY <2>2, <2>3
<1> QED
    BY <1>3, <1>4

\* transfer: only the sender may end up with less, also when it fails half way.
LEMMA SpendsTransfer ==
    ASSUME NEW j, Sound(j), NEW from \in Address, NEW to \in Address,
           NEW transfers \in Seq(TokenTransfer), db \in Database
    PROVE  LET r == TransferAll(j, from, to, transfers)
           IN  /\ r.js \in World
               /\ Spends(j, r.js, TokensOf(from))
               /\ from = to => Even(j, r.js) /\ r.outcome # "overflow"
<1> DEFINE c == [from |-> from, to |-> to, transfers |-> transfers]
           j0 == LoadNativeTokenIds(j)
           j1 == LoadAccount(j0, from)
           j2 == LoadAccount(j1, to)
           start == [js |-> j2, outcome |-> "ok"]
           after(i) == TransferLoop!Iterate(c, start, i)
           fine(r) == /\ r.js \in World
                      /\ r.outcome = "ok" => Sound(r.js) /\ Loaded(r.js, from) /\ Loaded(r.js, to)
                      /\ Spends(j2, r.js, TokensOf(from))
                      /\ from = to => Even(j2, r.js) /\ r.outcome # "overflow"
           T == {i \in Nat : i <= Len(transfers) => fine(after(i))}
<1>1. Sound(j0) /\ Even(j, j0)
    BY GrowsLoadIds, GrowsSound, EvenSame
<1> HIDE DEF j0
<1>2. Sound(j1) /\ Loaded(j1, from) /\ Even(j0, j1)
  <2>1. j0 \in World /\ Len(j0.journal) # 0
    BY <1>1 DEF Sound
  <2> QED
    BY <1>1, <2>1, GrowsLoad, GrowsSound, EvenLoad
<1> HIDE DEF j1
<1>3. Sound(j2) /\ Loaded(j2, to) /\ Loaded(j2, from) /\ Even(j1, j2)
  <2>1. j1 \in World /\ Len(j1.journal) # 0
    BY <1>2 DEF Sound
  <2>2. Grows(j1, j2, {}) /\ Loaded(j2, to)
    BY <1>2, GrowsLoad
  <2>3. Sound(j2) /\ Even(j1, j2)
    BY <1>2, <2>1, <2>2, GrowsSound, EvenLoad
  <2> HIDE DEF j2
  <2> QED
    BY <1>2, <2>2, <2>3 DEF Grows, Evolves, Loaded
<1> HIDE DEF j2
<1>4. Even(j, j2) /\ j \in World /\ j2 \in World
    BY <1>1, <1>2, <1>3 DEF Even, Sound
<1>5. 0 \in T
  <2>1. after(0) = start
    BY TransferLoop!IterateZero
  <2>2. Even(j2, j2)
    BY DEF Even
  <2>3. fine(start)
    BY <1>3, <1>4, <2>2, EvenSpends
  <2> HIDE DEF after, start, fine
  <2> QED
    BY <2>1, <2>3
<1>6. ASSUME NEW i \in T PROVE i + 1 \in T
  <2> SUFFICES ASSUME i + 1 <= Len(transfers) PROVE fine(after(i + 1))
    OBVIOUS
  <2>1. after(i + 1) = TransferTurn(c, after(i), i + 1)
    BY TransferLoop!IterateNext
  <2>2. i \in Nat /\ Len(transfers) \in Nat
    OBVIOUS
  <2>3. i + 1 \in 1 .. Len(transfers) /\ i <= Len(transfers)
    BY <2>2
  <2>4. transfers[i + 1] \in TokenTransfer
    BY <2>3
  <2>5. TransferTurn(c, after(i), i + 1) = TransferOne(after(i), from, to, transfers[i + 1])
    BY DEF TransferTurn
  <2> DEFINE r == after(i)
             u == TransferOne(r, from, to, transfers[i + 1])
  <2> HIDE DEF after, c
  <2>6. fine(r)
    BY <2>3
  <2> HIDE DEF r
  <2>7. CASE r.outcome # "ok"
    <3>1. u = r
      BY <2>7 DEF TransferOne
    <3> QED
      BY <2>1, <2>5, <2>6, <3>1 DEF r
  <2>8. CASE r.outcome = "ok"
    <3>1. Sound(r.js) /\ Loaded(r.js, from) /\ Loaded(r.js, to) /\ r.js \in World
      BY <2>6, <2>8
    <3>2. /\ u.js \in World
          /\ Spends(r.js, u.js, TokensOf(from))
          /\ from = to => Even(r.js, u.js) /\ u.outcome # "overflow"
      BY <2>4, <2>8, <3>1, SpendsTransferOne
    <3>3. Transferred(r.js, u, from)
      BY <2>4, <2>8, <3>1, GrowsTransferOne
    <3> HIDE DEF u
    <3>4. u.outcome = "ok" => Sound(u.js) /\ Loaded(u.js, from) /\ Loaded(u.js, to)
      <4>1. u.outcome = "ok" => Grows(r.js, u.js, {})
        BY <3>3 DEF Transferred
      <4>2. u.outcome = "ok" => Sound(u.js)
        BY <3>1, <4>1, GrowsSound
      <4>3. u.outcome = "ok" => \A b \in Address : Loaded(r.js, b) => Loaded(u.js, b)
        BY <4>1 DEF Grows, Evolves, Loaded
      <4> QED
        BY <3>1, <4>2, <4>3
    <3>5. Spends(j2, u.js, TokensOf(from))
      BY <1>4, <2>6, <3>1, <3>2, SpendsTwice
    <3>6. from = to => Even(j2, u.js)
      BY <2>6, <3>2 DEF Even
    <3>7. fine(u)
      BY <3>2, <3>4, <3>5, <3>6
    <3> QED
      BY <2>1, <2>5, <3>7 DEF r, u
  <2> QED
    BY <2>7, <2>8
<1>7. T = Nat
  <2> T \in SUBSET Nat
    OBVIOUS
  <2> HIDE DEF T
  <2> QED
    BY <1>5, <1>6, TransferLoop!SetInduction
<1>8. TransferAll(j, from, to, transfers) = after(Len(transfers))
    BY DEF TransferAll, j0, j1, j2
<1> HIDE DEF after
<1> DEFINE r == after(Len(transfers))
<1>9. fine(r)
    BY <1>7
<1> HIDE DEF r
<1>10. Spends(j, r.js, TokensOf(from))
    BY <1>4, <1>9, EvenSpends, SpendsTwice
<1>11. from = to => Even(j, r.js)
    BY <1>4, <1>9 DEF Even
<1> QED
    BY <1>8, <1>9, <1>10, <1>11 DEF r

-----------------------------------------------------------------------------
(* The functions of the precompile                                         *)

\* k comes from j by journaled changes, and unless all of them are, by the
\* debit of a transfer that overflowed.
Outgrows(j, k, whole) ==
    IF whole THEN Grows(j, k, {})
    ELSE \E g : \E a \in Address : Grows(j, g, {}) /\ Skewed(g, k, a)

\* The tokens that a contract may spend: its own, and whatever it has minted.
Spendable(c) ==
    {h \in Address \X TokenId :
        h[1] = c \/ \E s \in SubId : TokenIdAddress[<<c, s>>] = h[2]}

\* What an answer p of the precompile has made of j, called by c.
Answered(j, p, c) ==
    /\ p.answer \in {"result", "error", "panic", "call"}
    /\ p.to \in Address /\ p.transfers \in Seq(TokenTransfer)
    /\ p.overflowed \in BOOLEAN /\ (p.overflowed => p.answer = "result")
    /\ p.js \in World
    /\ Outgrows(j, p.js, ~p.overflowed)
    /\ Spends(j, p.js, Spendable(c))
    /\ p.answer = "call" => Loaded(p.js, p.to) /\ HasCode(p.js, p.to)

LEMMA OutgrowsAfter ==
    ASSUME NEW j, NEW k, NEW l, NEW whole, Grows(j, k, {}), Outgrows(k, l, whole)
    PROVE  Outgrows(j, l, whole)
<1>1. CASE whole
    BY <1>1, GrowsTwice DEF Outgrows
<1>2. CASE ~whole
  <2>1. PICK g : \E a \in Address : Grows(k, g, {}) /\ Skewed(g, l, a)
    BY <1>2 DEF Outgrows
  <2>2. Grows(j, g, {})
    BY <2>1, GrowsTwice
  <2> QED
    BY <1>2, <2>1, <2>2 DEF Outgrows
<1> QED
    BY <1>1, <1>2

\* Answers that ask for no call.
LEMMA AnsweredPlain ==
    ASSUME NEW j, NEW k, Grows(j, k, {}), NEW c, Spends(j, k, Spendable(c))
    PROVE  Answered(j, Result(k), c) /\ Answered(j, Err(k), c) /\ Answered(j, Panic(k), c)
<1>1. k \in World /\ Outgrows(j, k, TRUE)
    BY DEF Grows, Outgrows
<1>2. << >> \in Seq(TokenTransfer) /\ Sender \in Address
    BY ParticipantsAssumption
<1> QED
    BY <1>1, <1>2 DEF Answered, Result, Err, Panic

\* The same before which an account was loaded.
LEMMA AnsweredAfter ==
    ASSUME NEW j, NEW k, Sound(j), Grows(j, k, {}), Even(j, k), db \in Database,
           NEW c, NEW p, Answered(k, p, c)
    PROVE  Answered(j, p, c)
<1>1. Outgrows(j, p.js, ~p.overflowed)
    BY OutgrowsAfter DEF Answered
<1>2. Spends(j, p.js, Spendable(c))
  <2>1. j \in World /\ k \in World /\ p.js \in World /\ Spends(k, p.js, Spendable(c))
    BY DEF Sound, Grows, Answered
  <2> QED
    BY <2>1, EvenSpends, SpendsTwice
<1> QED
    BY <1>1, <1>2 DEF Answered

\* An account is loaded, and nothing moves.
LEMMA LoadGrows ==
    ASSUME NEW j, Sound(j), NEW a \in Address, db \in Database
    PROVE  LET k == LoadAccount(j, a)
           IN  Grows(j, k, {}) /\ Even(j, k) /\ Sound(k) /\ Loaded(k, a)
<1>1. j \in World /\ Len(j.journal) # 0
    BY DEF Sound
<1> QED
    BY <1>1, GrowsLoad, GrowsSound, EvenLoad

\* The token ids and an account are loaded.
LEMMA LoadBothGrows ==
    ASSUME NEW j, Sound(j), NEW a \in Address, db \in Database
    PROVE  LET k == LoadAccount(LoadNativeTokenIds(j), a)
           IN  Grows(j, k, {}) /\ Even(j, k) /\ Sound(k) /\ Loaded(k, a)
<1> DEFINE i == LoadNativeTokenIds(j)
           k == LoadAccount(i, a)
<1>1. Grows(j, i, {}) /\ Even(j, i) /\ Sound(i)
    BY GrowsLoadIds, GrowsSound, EvenSame
<1> HIDE DEF i
<1>2. Grows(i, k, {}) /\ Even(i, k) /\ Sound(k) /\ Loaded(k, a)
    BY <1>1, LoadGrows
<1> HIDE DEF k
<1>3. Grows(j, k, {}) /\ Even(j, k)
    BY <1>1, <1>2, GrowsTwice DEF Even
<1> QED
    BY <1>2, <1>3 DEF i, k

\* balance_of
LEMMA BalanceOfAnswered ==
    ASSUME NEW j, Sound(j), db \in Database, NEW c, NEW input \in Calldata,
           input.selector = "balanceOf"
    PROVE  LET p == BalanceOf(j, input)
           IN  /\ Answered(j, p, c) /\ Even(j, p.js)
               /\ p.answer \in {"result", "error"} /\ ~p.overflowed
<1> DEFINE k == LoadAccount(j, input.words[1])
<1>1. Grows(j, j, {}) /\ Even(j, j) /\ j \in World
    BY GrowsSame DEF Sound, Even
<1>2. CASE Exactly(input, 2)
  <2>1. input.words[1] \in Address
    BY <1>2, CalldataAssumption
  <2>2. Grows(j, k, {}) /\ Even(j, k)
    BY <2>1, LoadGrows
  <2>3. BalanceOf(j, input) = Result(k)
    BY <1>2 DEF BalanceOf
  <2> HIDE DEF k
  <2> QED
    BY <1>1, <2>2, <2>3, EvenSpends, AnsweredPlain DEF Result
<1>3. CASE ~Exactly(input, 2)
  <2>1. BalanceOf(j, input) = Err(j)
    BY <1>3 DEF BalanceOf
  <2> QED
    BY <1>1, <2>1, EvenSpends, AnsweredPlain DEF Err, Result
<1> QED
    BY <1>2, <1>3

\* mint: nobody loses.
LEMMA MintAnswered ==
    ASSUME NEW j, Sound(j), db \in Database, NEW c \in Address, NEW input \in Calldata,
           input.selector = "mint"
    PROVE  Answered(j, MintTokens(j, c, input), c)
<1> DEFINE t == TokenIdAddress[<<c, input.words[1]>>]
           a == input.words[2]
           n == input.words[3]
           k == LoadAccount(LoadNativeTokenIds(j), c)
           balance == k.accounts[a].balances[t]
           j1 == SetBalance(k, a, t, balance + n)
           j2 == [j1 EXCEPT !.token_ids = IF \E i \in DOMAIN @ : @[i] = t THEN @
                                          ELSE Append(@, t)]
           e == TokensMinted(a, t, n)
           p == MintTokens(j, c, input)
<1>1. /\ Grows(j, k, {}) /\ Even(j, k) /\ Sound(k)
      /\ Grows(j, j, {}) /\ Even(j, j) /\ j \in World /\ k \in World
    BY LoadBothGrows, GrowsSame DEF Sound, Even
<1>2. \/ p = Err(j)
      \/ p = Err(k) \/ p = Panic(k)
      \/ /\ Exactly(input, 3) /\ Loaded(k, a) /\ ~(balance + n > MaxU256)
         /\ p = Result(Push(j2, e))
    BY DEF MintTokens
<1> SUFFICES Answered(j, p, c)
    OBVIOUS
<1> HIDE DEF k, p
<1>3. CASE p = Err(j)
    BY <1>1, <1>3, EvenSpends, AnsweredPlain
<1>4. CASE p = Err(k) \/ p = Panic(k)
    BY <1>1, <1>4, EvenSpends, AnsweredPlain
<1>5. CASE /\ Exactly(input, 3) /\ Loaded(k, a) /\ ~(balance + n > MaxU256)
           /\ p = Result(Push(j2, e))
  <2>1. a \in Address /\ t \in TokenId /\ n \in Balance /\ MaxU256 \in Nat
    <3>1. a \in Address /\ input.words[1] \in SubId /\ n \in Balance
      BY <1>5, CalldataAssumption
    <3> QED
      BY <3>1, OperandsAssumption, BoundsAssumption
  <2> HIDE DEF a, t, n
  <2>2. balance = Balances(k, a)[t] /\ balance \in Balance
    BY <1>1, <1>5, <2>1, BalancesTyped DEF Balances
  <2> HIDE DEF balance
  <2>3. balance + n \in Balance /\ balance + n <= MaxU256
    BY <1>5, <2>1, <2>2 DEF Balance
  <2>4. /\ j1 \in World
        /\ j1.accounts = [k.accounts EXCEPT ![a] = WithBalance(k.accounts[a], t, balance + n)]
        /\ j1.transient_storage = k.transient_storage
        /\ j1.journal = k.journal /\ j1.touched = k.touched
    BY <1>1, <1>5, <2>1, <2>3, SetBalanceIs
  <2>5. \A b \in Address, s \in TokenId :
           Balances(j1, b)[s] = IF b = a /\ s = t THEN balance + n ELSE Balances(k, b)[s]
    BY <1>1, <1>5, <2>1, <2>3, BalancesSet
  <2> HIDE DEF j1
  <2>6. /\ j2 \in World /\ j2.accounts = j1.accounts
        /\ j2.transient_storage = j1.transient_storage
        /\ j2.journal = j1.journal /\ j2.touched = j1.touched
    <3> DEFINE ids == IF \E i \in DOMAIN j1.token_ids : j1.token_ids[i] = t
                      THEN j1.token_ids ELSE Append(j1.token_ids, t)
    <3>1. j1.token_ids \in Seq(TokenId)
      BY <2>4 DEF World
    <3>2. ids \in Seq(TokenId)
      BY <2>1, <3>1
    <3>3. j2 = [j1 EXCEPT !.token_ids = ids]
      OBVIOUS
    <3> HIDE DEF ids, j2
    <3> QED
      BY <2>4, <3>2, <3>3 DEF World
  <2> HIDE DEF j2
  <2>7. Grows(k, Push(j2, e), {})
    BY <1>1, <1>5, <2>1, <2>3, <2>4, <2>6, GrowsMint DEF balance
  <2>8. Even(j1, Push(j2, e))
    <3>1. Push(j2, e).accounts = j2.accounts
      BY <2>6 DEF Push, World
    <3> QED
      BY <2>6, <3>1, EvenSame
  <2> HIDE DEF e
  <2>9. Spends(k, Push(j2, e), Spendable(c))
    <3> SUFFICES ASSUME NEW b \in Address, NEW s \in TokenId
                 PROVE  ~(Balances(Push(j2, e), b)[s] < Balances(k, b)[s])
      BY DEF Spends
    <3>1. Balances(k, b)[s] \in Nat
      BY <1>1, <2>1, BalancesTyped DEF Balance
    <3>2. Balances(Push(j2, e), b)[s] = IF b = a /\ s = t THEN balance + n ELSE Balances(k, b)[s]
      BY <2>5, <2>8 DEF Even
    <3> QED
      BY <2>1, <2>2, <3>1, <3>2 DEF Balance
  <2>10. Answered(k, p, c)
    BY <1>5, <2>7, <2>9, AnsweredPlain
  <2> QED
    BY <1>1, <2>10, AnsweredAfter
<1> QED
    BY <1>2, <1>3, <1>4, <1>5

\* burn: the holder loses tokens that the caller has minted.
LEMMA BurnAnswered ==
    ASSUME NEW j, Sound(j), db \in Database, NEW c \in Address, NEW input \in Calldata,
           input.selector = "burn"
    PROVE  Answered(j, BurnTokens(j, c, input), c)
<1> DEFINE t == TokenIdAddress[<<c, input.words[1]>>]
           a == input.words[2]
           n == input.words[3]
           k == LoadAccount(LoadNativeTokenIds(j), a)
           balance == k.accounts[a].balances[t]
           j1 == SetBalance(k, a, t, balance - n)
           e == TokensBurned(a, t, n)
           p == BurnTokens(j, c, input)
<1>1. Grows(j, j, {}) /\ Even(j, j) /\ j \in World
    BY GrowsSame DEF Sound, Even
<1>2. \/ p = Err(j)
      \/ Exactly(input, 3) /\ p = Err(k)
      \/ Exactly(input, 3) /\ ~(balance < n) /\ p = Result(Push(j1, e))
    BY DEF BurnTokens
<1> SUFFICES Answered(j, p, c)
    OBVIOUS
<1> HIDE DEF p
<1>3. CASE p = Err(j)
    BY <1>1, <1>3, EvenSpends, AnsweredPlain
<1>4. CASE /\ Exactly(input, 3)
           /\ p = Err(k) \/ (~(balance < n) /\ p = Result(Push(j1, e)))
  <2>1. a \in Address /\ t \in TokenId /\ n \in Balance /\ MaxU256 \in Nat /\ input.words[1] \in SubId
    <3>1. a \in Address /\ input.words[1] \in SubId /\ n \in Balance
      BY <1>4, CalldataAssumption
    <3> QED
      BY <3>1, OperandsAssumption, BoundsAssumption
  <2>2. \E s \in SubId : TokenIdAddress[<<c, s>>] = t
    BY <2>1
  <2> HIDE DEF a, t, n
  <2>3. Grows(j, k, {}) /\ Even(j, k) /\ Sound(k) /\ k \in World /\ Loaded(k, a)
    BY <2>1, LoadBothGrows DEF Sound
  <2> HIDE DEF k
  <2>4. CASE p = Err(k)
    BY <1>1, <2>3, <2>4, EvenSpends, AnsweredPlain
  <2>5. CASE ~(balance < n) /\ p = Result(Push(j1, e))
    <3>1. balance = Balances(k, a)[t] /\ balance \in Balance
      BY <2>1, <2>3, BalancesTyped DEF Balances
    <3> HIDE DEF balance
    <3>2. balance - n \in Balance /\ n <= balance
      BY <2>1, <2>5, <3>1 DEF Balance
    <3>3. /\ j1 \in World
          /\ j1.accounts = [k.accounts EXCEPT ![a] = WithBalance(k.accounts[a], t, balance - n)]
          /\ j1.transient_storage = k.transient_storage
          /\ j1.journal = k.journal /\ j1.touched = k.touched
      BY <2>1, <2>3, <3>2, SetBalanceIs
    <3>4. \A b \in Address, s \in TokenId :
             Balances(j1, b)[s] = IF b = a /\ s = t THEN balance - n ELSE Balances(k, b)[s]
      BY <2>1, <2>3, <3>2, BalancesSet
    <3> HIDE DEF j1
    <3>5. Grows(k, Push(j1, e), {})
      BY <2>1, <2>3, <3>2, <3>3, GrowsBurn DEF balance
    <3>6. Even(j1, Push(j1, e))
      <4>1. Push(j1, e).accounts = j1.accounts
        BY <3>3 DEF Push, World
      <4> QED
        BY <4>1, EvenSame
    <3> HIDE DEF e
    <3>7. Spends(k, Push(j1, e), Spendable(c))
      <4> SUFFICES ASSUME NEW b \in Address, NEW s \in TokenId,
                          Balances(Push(j1, e), b)[s] < Balances(k, b)[s]
                   PROVE  s = t
        BY <2>2 DEF Spends, Spendable
      <4>1. Balances(k, b)[s] \in Nat
        BY <2>1, <2>3, BalancesTyped DEF Balance
      <4>2. Balances(Push(j1, e), b)[s]
               = IF b = a /\ s = t THEN balance - n ELSE Balances(k, b)[s]
        BY <3>4, <3>6 DEF Even
      <4> QED
        BY <4>1, <4>2
    <3>8. Answered(k, p, c)
      BY <2>5, <3>5, <3>7, AnsweredPlain
    <3> QED
      BY <2>3, <3>8, AnsweredAfter
  <2> QED
    BY <1>4, <2>4, <2>5
<1> QED
    BY <1>2, <1>3, <1>4

\* transfer and transfer_multiple
LEMMA TransferAnswered ==
    ASSUME NEW j, Sound(j), db \in Database, NEW c \in Address, NEW q, WellParsed(q)
    PROVE  Answered(j, TransferTokens(j, c, q), c)
<1> DEFINE r == TransferAll(j, c, q.to, q.transfers)
           p == TransferTokens(j, c, q)
<1>1. CASE ~q.valid
  <2>1. p = Err(j)
    BY <1>1 DEF TransferTokens
  <2>2. Grows(j, j, {}) /\ Even(j, j) /\ j \in World
    BY GrowsSame DEF Sound, Even
  <2> QED
    BY <2>1, <2>2, EvenSpends, AnsweredPlain
<1>2. CASE q.valid
  <2>1. q.to \in Address /\ q.transfers \in Seq(TokenTransfer)
    BY DEF WellParsed
  <2>2. Transferred(j, r, c) /\ r.js \in World /\ Spends(j, r.js, TokensOf(c))
    BY <2>1, GrowsTransfer, SpendsTransfer
  <2>3. p = [Result(r.js) EXCEPT !.overflowed = r.outcome = "overflow"]
    BY <1>2 DEF TransferTokens
  <2> HIDE DEF r, p
  <2>4. Spends(j, r.js, Spendable(c))
    BY <2>2 DEF Spends, TokensOf, Spendable
  <2>5. Outgrows(j, r.js, ~(r.outcome = "overflow"))
    BY <2>2 DEF Transferred, Outgrows
  <2>6. /\ p.js = r.js /\ p.answer = "result" /\ p.overflowed = (r.outcome = "overflow")
        /\ p.to = Sender /\ p.transfers = << >>
    BY <2>3 DEF Result
  <2>7. << >> \in Seq(TokenTransfer) /\ Sender \in Address
    BY ParticipantsAssumption
  <2>8. Answered(j, p, c)
    BY <2>2, <2>4, <2>5, <2>6, <2>7 DEF Answered
  <2> QED
    BY <2>8 DEF p
<1> QED
    BY <1>1, <1>2

\* transfer_and_call and transfer_multiple_and_call
LEMMA CallAnswered ==
    ASSUME NEW j, Sound(j), db \in Database, NEW c \in Address, NEW q, WellParsed(q)
    PROVE  Answered(j, CallWithTokens(j, q), c)
<1> DEFINE k == LoadAccount(j, q.to)
           p == CallWithTokens(j, q)
<1>1. q.to \in Address /\ q.transfers \in Seq(TokenTransfer)
    BY DEF WellParsed
<1>2. /\ Grows(j, k, {}) /\ Even(j, k) /\ Loaded(k, q.to) /\ k \in World
      /\ Grows(j, j, {}) /\ Even(j, j) /\ j \in World
    BY <1>1, LoadGrows, GrowsSame DEF Sound, Even
<1>3. Spends(j, k, Spendable(c)) /\ Spends(j, j, Spendable(c))
    BY <1>2, EvenSpends
<1>4. \/ p = Err(j) \/ p = Err(k) \/ p = Panic(k)
      \/ HasCode(k, q.to) /\ p = NewCall(k, q)
    BY DEF CallWithTokens
<1> SUFFICES Answered(j, p, c)
    OBVIOUS
<1> HIDE DEF k, p
<1>5. CASE p = Err(j) \/ p = Err(k) \/ p = Panic(k)
    BY <1>2, <1>3, <1>5, AnsweredPlain
<1>6. CASE HasCode(k, q.to) /\ p = NewCall(k, q)
  <2>1. /\ p.js = k /\ p.answer = "call" /\ p.overflowed = FALSE /\ p.to = q.to
        /\ p.transfers = q.transfers
    BY <1>6 DEF NewCall
  <2>2. Outgrows(j, p.js, ~p.overflowed)
    BY <1>2, <2>1 DEF Outgrows
  <2> QED
    BY <1>1, <1>2, <1>3, <1>6, <2>1, <2>2 DEF Answered
<1> QED
    BY <1>4, <1>5, <1>6

\* An answer that moves nothing and asks for nothing.
Quiet(j, p) ==
    Grows(j, p.js, {}) /\ Even(j, p.js) /\ p.answer \in {"result", "error"} /\ ~p.overflowed

\* call_mut in a static call, or for an account without code.
LEMMA CallMutQuiet ==
    ASSUME NEW j, Sound(j), db \in Database, NEW inputs, inputs.target \in Address,
           NEW input \in Calldata \cup {NoInput},
           inputs.is_static \/ ~HasCode(LoadAccount(j, inputs.target), inputs.target)
    PROVE  LET p == CallMut(j, inputs, input)
           IN  Quiet(j, p) /\ Answered(j, p, inputs.target)
<1> DEFINE c == inputs.target
           k == LoadAccount(j, c)
           p == CallMut(j, inputs, input)
<1>1. /\ Grows(j, k, {}) /\ Even(j, k) /\ j \in World
      /\ Grows(j, j, {}) /\ Even(j, j)
    BY LoadGrows, GrowsSame DEF Sound, Even
<1>2. Spends(j, j, Spendable(c)) /\ Spends(j, k, Spendable(c))
    BY <1>1, EvenSpends
<1>3. CASE input.selector = "balanceOf"
  <2>1. input \in Calldata
    BY <1>3 DEF NoInput
  <2>2. p = BalanceOf(j, input)
    BY <1>3 DEF CallMut
  <2>3. Answered(j, p, c) /\ Even(j, p.js) /\ p.answer \in {"result", "error"} /\ ~p.overflowed
    BY <1>3, <2>1, <2>2, BalanceOfAnswered
  <2> HIDE DEF p
  <2>4. Grows(j, p.js, {})
    BY <2>3 DEF Answered, Outgrows
  <2> QED
    BY <2>3, <2>4 DEF Quiet, p
<1>4. CASE input.selector # "balanceOf"
  <2>1. p = Err(j) \/ p = Err(k)
    BY <1>4 DEF CallMut
  <2>2. Answered(j, p, c)
    BY <1>1, <1>2, <2>1, AnsweredPlain
  <2>3. Quiet(j, p)
    BY <1>1, <2>1 DEF Err, Result, Quiet
  <2> QED
    BY <2>2, <2>3
<1> QED
    BY <1>3, <1>4

\* call_mut
LEMMA CallMutAnswered ==
    ASSUME NEW j, Sound(j), db \in Database, NEW inputs, inputs.target \in Address,
           NEW input \in Calldata \cup {NoInput}
    PROVE  Answered(j, CallMut(j, inputs, input), inputs.target)
<1> DEFINE c == inputs.target
           k == LoadAccount(j, c)
           p == CallMut(j, inputs, input)
           sel == input.selector
<1>1. CASE inputs.is_static \/ ~HasCode(k, c)
    BY <1>1, CallMutQuiet
<1>2. CASE ~inputs.is_static /\ HasCode(k, c)
  <2>1. Grows(j, k, {}) /\ Even(j, k) /\ Sound(k) /\ k \in World
    BY LoadGrows DEF Sound
  <2>2. sel \in {"balanceOf", "mint", "burn", "transfer", "transferMultiple", "transferAndCall",
                 "transferMultipleAndCall", "getCallValues", "unknown"}
    BY CalldataAssumption DEF NoInput
  <2>3. CASE sel = "balanceOf"
    <3>1. input \in Calldata
      BY <2>3 DEF NoInput
    <3>2. p = BalanceOf(j, input)
      BY <2>3 DEF CallMut
    <3> QED
      BY <2>3, <3>1, <3>2, BalanceOfAnswered
  <2>4. CASE sel = "unknown"
    <3>1. p = Err(j)
      BY <2>4 DEF CallMut
    <3>2. Grows(j, j, {}) /\ Even(j, j) /\ j \in World
      BY GrowsSame DEF Sound, Even
    <3> QED
      BY <3>1, <3>2, EvenSpends, AnsweredPlain
  <2>5. CASE sel \notin {"balanceOf", "unknown"}
    <3>1. input \in Calldata
      BY <2>5 DEF NoInput
    <3>2. p = CASE sel = "mint" -> MintTokens(k, c, input)
                [] sel = "burn" -> BurnTokens(k, c, input)
                [] sel = "transfer" -> TransferTokens(k, c, ParseTransfer(input))
                [] sel = "transferMultiple" -> TransferTokens(k, c, ParseTransferMultiple(input))
                [] sel = "transferAndCall" -> CallWithTokens(k, ParseTransferAndCall(input))
                [] sel = "transferMultipleAndCall" ->
                      CallWithTokens(k, ParseTransferMultipleAndCall(input))
                [] sel = "getCallValues" -> Result(k)
      BY <1>2, <2>5 DEF CallMut
    <3> SUFFICES Answered(k, p, c)
      BY <2>1, AnsweredAfter
    <3> HIDE DEF p, k
    <3>3. CASE sel = "mint"
      BY <2>1, <3>1, <3>2, <3>3, MintAnswered
    <3>4. CASE sel = "burn"
      BY <2>1, <3>1, <3>2, <3>4, BurnAnswered
    <3>5. CASE sel = "transfer"
      <4>1. WellParsed(ParseTransfer(input)) /\ p = TransferTokens(k, c, ParseTransfer(input))
        BY <3>1, <3>2, <3>5, CalldataAssumption
      <4> QED
        BY <2>1, <4>1, TransferAnswered
    <3>6. CASE sel = "transferMultiple"
      <4>1. /\ WellParsed(ParseTransferMultiple(input))
            /\ p = TransferTokens(k, c, ParseTransferMultiple(input))
        BY <3>1, <3>2, <3>6, CalldataAssumption
      <4> QED
        BY <2>1, <4>1, TransferAnswered
    <3>7. CASE sel = "transferAndCall"
      <4>1. /\ WellParsed(ParseTransferAndCall(input))
            /\ p = CallWithTokens(k, ParseTransferAndCall(input))
        BY <3>1, <3>2, <3>7, CalldataAssumption
      <4> QED
        BY <2>1, <4>1, CallAnswered
    <3>8. CASE sel = "transferMultipleAndCall"
      <4>1. /\ WellParsed(ParseTransferMultipleAndCall(input))
            /\ p = CallWithTokens(k, ParseTransferMultipleAndCall(input))
        BY <3>1, <3>2, <3>8, CalldataAssumption
      <4> QED
        BY <2>1, <4>1, CallAnswered
    <3>9. CASE sel = "getCallValues"
      <4>1. p = Result(k)
        BY <3>2, <3>9
      <4>2. Grows(k, k, {}) /\ Even(k, k)
        BY <2>1, GrowsSame DEF Sound, Even
      <4> QED
        BY <2>1, <4>1, <4>2, EvenSpends, AnsweredPlain
    <3> QED
      BY <2>2, <2>5, <3>3, <3>4, <3>5, <3>6, <3>7, <3>8, <3>9
  <2> QED
    BY <2>3, <2>4, <2>5
<1> QED
    BY <1>1, <1>2

-----------------------------------------------------------------------------
(* make_call_frame                                                         *)

LEMMA StackedOutgrows ==
    ASSUME NEW j, NEW fs, NEW cs, Stacked(j, fs, cs), DatabaseOk(db),
           NEW k, NEW whole, Outgrows(j, k, whole)
    PROVE  Stacked(k, fs, cs)
<1>1. CASE whole
    BY <1>1, StackedGrows DEF Outgrows
<1>2. CASE ~whole
  <2>1. PICK g : \E a \in Address : Grows(j, g, {}) /\ Skewed(g, k, a)
    BY <1>2 DEF Outgrows
  <2>2. Stacked(g, fs, cs)
    BY <2>1, StackedGrows
  <2> QED
    BY <2>1, <2>2, StackedSkewed
<1> QED
    BY <1>1, <1>2

LEMMA OutgrowsLength ==
    ASSUME NEW j, NEW k, NEW whole, Outgrows(j, k, whole)
    PROVE  Len(k.journal) = Len(j.journal)
BY DEF Outgrows, Grows, Skewed

\* A checkpoint after m, changes, and their revert: everything is as it was in
\* m unless a transfer overflowed, but for the touch of PRECOMPILE3.
LEMMA Reverted ==
    ASSUME NEW m, NEW fs, NEW cs, Stacked(m, fs, cs), DatabaseOk(db),
           NEW k, NEW whole, Outgrows(OpenVector(m), k, whole)
    PROVE  LET l == RevertTo(k, Len(m.journal))
           IN  /\ Stacked(l, fs, cs)
               /\ whole => /\ l.accounts = m.accounts
                           /\ l.transient_storage = m.transient_storage
                           /\ l.touched \subseteq m.touched \cup {Precompile3}
<1> DEFINE n == Len(m.journal)
           o == OpenVector(m)
           l == RevertTo(k, n)
<1>1. /\ Stacked(o, fs, cs) /\ o.accounts = m.accounts /\ o.touched = m.touched
      /\ o.transient_storage = m.transient_storage /\ Len(o.journal) = n + 1
    BY StackedOpen
<1>2. n \in Nat \ {0} /\ m \in World
    BY DEF Stacked, History, Sound, World
<1>3. Unwound(o, n) = Core(m)
  <2>1. m.journal \in Seq(Vector) /\ n \in 0 .. n
    BY <1>2 DEF World, Vector
  <2> QED
    BY <1>2, <2>1, PastOpened, PastPresent
<1> HIDE DEF o
<1>4. Stacked(k, fs, cs) /\ Len(k.journal) = n + 1
    BY <1>1, StackedOutgrows, OutgrowsLength DEF o
<1>5. Stacked(l, fs, cs)
  <2>1. n \in 1 .. Len(k.journal)
    BY <1>2, <1>4
  <2>2. \A f \in DOMAIN fs : fs[f].journal_i < n
    BY <1>2 DEF Stacked, Within
  <2> QED
    BY <1>4, <2>1, <2>2, StackedRevert
<1>6. ASSUME whole
      PROVE  /\ l.accounts = m.accounts /\ l.transient_storage = m.transient_storage
             /\ l.touched \subseteq m.touched \cup {Precompile3}
  <2>1. Grows(o, k, {}) /\ n \in 0 .. Len(o.journal) - 1
    BY <1>1, <1>2, <1>6 DEF Outgrows, o
  <2>2. Unwound(k, n) = Core(m)
    BY <1>3, <2>1 DEF Grows
  <2>3. UnwoundTouched(k, n) \ {Precompile3} = UnwoundTouched(o, n) \ {Precompile3}
    BY <2>1 DEF Grows
  <2>4. UnwoundTouched(o, n) \subseteq m.touched
    BY <1>1 DEF UnwoundTouched
  <2>5. l.touched \subseteq UnwoundTouched(k, n)
    BY DEF RevertTo
  <2> QED
    BY <2>2, <2>3, <2>4, <2>5 DEF RevertTo, Core
<1> QED
    BY <1>5, <1>6

\* load_account
LEMMA LoadKeeps ==
    ASSUME NEW j \in World, NEW a \in Address
    PROVE  LET k == LoadAccount(j, a)
           IN  /\ \A b \in Address : Loaded(j, b) => k.accounts[b] = j.accounts[b]
               /\ k.touched = j.touched /\ k.transient_storage = j.transient_storage
               /\ Loaded(j, a) \/ k.accounts[a].code = db.basic[a].code
<1>1. CASE Loaded(j, a)
    BY <1>1 DEF LoadAccount
<1>2. CASE ~Loaded(j, a)
  <2> DEFINE k == LoadAccount(j, a)
             x == AccountFrom(db.basic[a])
  <2>1. /\ k.accounts = [j.accounts EXCEPT ![a] = x]
        /\ k.touched = j.touched /\ k.transient_storage = j.transient_storage
    BY <1>2 DEF LoadAccount, InsertAccount, Push, World
  <2>2. x.code = db.basic[a].code
    BY DEF AccountFrom
  <2> HIDE DEF k, x
  <2>3. \A b \in Address : k.accounts[b] = IF b = a THEN x ELSE j.accounts[b]
    BY <2>1 DEF World, Accounts
  <2>4. /\ \A b \in Address : Loaded(j, b) => k.accounts[b] = j.accounts[b]
        /\ k.accounts[a].code = db.basic[a].code
    BY <1>2, <2>2, <2>3
  <2> QED
    BY <2>1, <2>4 DEF k
<1> QED
    BY <1>1, <1>2

\* A call to the precompile itself finds no code in its account.
LEMMA PrecompileHasNoCode ==
    ASSUME NEW j, NEW fs, NEW cs, Stacked(j, fs, cs), DatabaseOk(db)
    PROVE  ~HasCode(LoadAccount(j, PrecompileAddress), PrecompileAddress)
<1> DEFINE p == PrecompileAddress
           k == LoadAccount(j, p)
           n == Len(j.journal)
<1>1. j \in World /\ p \in Address /\ n \in Nat
    BY ParticipantsAssumption DEF Stacked, History, Sound, World
<1>2. /\ Loaded(j, p) => k.accounts[p] = j.accounts[p]
      /\ Loaded(j, p) \/ k.accounts[p].code = db.basic[p].code
    BY <1>1, LoadKeeps
<1>3. Codeless(j.accounts[p])
  <2>1. Unwound(j, n) = Core(j)
    BY <1>1, PastPresent DEF World, Vector
  <2>2. Codeless(Unwound(j, n).accounts[p])
    BY <1>1 DEF Stacked, PrecompileCodeless
  <2> QED
    BY <2>1, <2>2 DEF Core
<1> HIDE DEF k
<1>4. ~HasCode(k, p)
    BY <1>2, <1>3 DEF HasCode, Codeless, Loaded, DatabaseOk
<1> QED
    BY <1>4 DEF k

\* The values of a call cost nobody anything.
Gratis(inputs) ==
    \/ inputs.apparent
    \/ \A n \in DOMAIN inputs.values : inputs.values[n].amount = 0
    \/ inputs.caller = inputs.target

InputsType ==
    [bytecode : Address, target : Address, caller : Address, values : Seq(TokenTransfer),
     apparent : BOOLEAN, is_static : BOOLEAN]

LEMMA PayValuesDoes ==
    ASSUME NEW j, Sound(j), db \in Database, NEW inputs \in InputsType
    PROVE  LET r == PayValues(j, inputs)
           IN  /\ r.outcome \in {"ok", "failed", "overflow"}
               /\ r.js \in World
               /\ Outgrows(j, r.js, r.outcome # "overflow")
               /\ Spends(j, r.js, TokensOf(inputs.caller))
               /\ Gratis(inputs) => Even(j, r.js) /\ r.outcome # "overflow"
<1> DEFINE r == PayValues(j, inputs)
           zero == \A n \in DOMAIN inputs.values : inputs.values[n].amount = 0
           k == LoadAccount(j, inputs.target)
           l == TouchAccount(k, inputs.target)
<1>1. /\ inputs.target \in Address /\ inputs.caller \in Address
      /\ inputs.values \in Seq(TokenTransfer)
    BY DEF InputsType
<1>2. j \in World /\ Grows(j, j, {}) /\ Even(j, j)
    BY GrowsSame DEF Sound, Even
<1>3. CASE inputs.apparent
  <2>1. r.js = j /\ r.outcome = "ok"
    BY <1>3 DEF PayValues
  <2> QED
    BY <1>2, <2>1, EvenSpends DEF Outgrows
<1>4. CASE ~inputs.apparent /\ zero
  <2>1. r = [js |-> l, outcome |-> "ok"]
    BY <1>4 DEF PayValues
  <2>2. Grows(j, k, {}) /\ Even(j, k) /\ Sound(k) /\ Loaded(k, inputs.target)
    BY <1>1, LoadGrows
  <2> HIDE DEF k
  <2>3. Grows(k, l, {}) /\ Even(k, l)
    BY <1>1, <2>2, GrowsTouch, EvenSame
  <2> HIDE DEF l
  <2>4. Grows(j, l, {}) /\ Even(j, l) /\ l \in World
    <3>1. Grows(j, l, {})
      BY <2>2, <2>3, GrowsTwice
    <3>2. Even(j, l)
      BY <2>2, <2>3 DEF Even
    <3> QED
      BY <3>1, <3>2 DEF Grows
  <2> QED
    BY <1>2, <2>1, <2>4, EvenSpends DEF Outgrows
<1>5. CASE ~inputs.apparent /\ ~zero
  <2>1. r = TransferAll(j, inputs.caller, inputs.target, inputs.values)
    BY <1>5 DEF PayValues
  <2>2. /\ r.outcome \in {"ok", "failed", "overflow"} /\ Transferred(j, r, inputs.caller)
        /\ r.js \in World /\ Spends(j, r.js, TokensOf(inputs.caller))
        /\ inputs.caller = inputs.target => Even(j, r.js) /\ r.outcome # "overflow"
    BY <1>1, <2>1, GrowsTransfer, SpendsTransfer
  <2> HIDE DEF r
  <2>3. Outgrows(j, r.js, r.outcome # "overflow")
    BY <1>1, <2>2 DEF Transferred, Outgrows
  <2> QED
    BY <1>5, <2>2, <2>3 DEF r, Gratis
<1> QED
    BY <1>3, <1>4, <1>5

\* A frame is pushed over changes made since its checkpoint.
LEMMA OpensStacked ==
    ASSUME NEW m, Stacked(m, frames, contexts), DatabaseOk(db),
           NEW k, Grows(OpenVector(m), k, {}), NEW a \in Address \cup {NoAddress},
           a # PrecompileAddress,
           a # NoAddress => /\ InCreation(k.accounts[a])
                            /\ \A f \in DOMAIN frames : frames[f].creates # a,
           NEW c \in ContextType, Used(k.accounts[c.target]), Opens(k, Len(m.journal), a, c)
    PROVE  Stacked(js', frames', contexts')
<1> DEFINE n == Len(m.journal)
           f == [journal_i |-> n, log_i |-> 0, creates |-> a]
<1>1. n \in Nat \ {0} /\ \A g \in DOMAIN frames : frames[g].journal_i < n
    BY DEF Stacked, History, Sound, World, Within
<1>2. Stacked(k, frames, contexts) /\ Len(k.journal) = n + 1
  <2>1. Stacked(OpenVector(m), frames, contexts) /\ Len(OpenVector(m).journal) = n + 1
    BY StackedOpen
  <2>2. Stacked(k, frames, contexts)
    BY <2>1, StackedGrows
  <2>3. Len(k.journal) = Len(OpenVector(m).journal)
    BY DEF Grows
  <2> QED
    BY <2>1, <2>2, <2>3
<1>3. f \in FrameType /\ f.journal_i = n /\ f.creates = a
    BY <1>1 DEF FrameType
<1>4. js' = k /\ frames' = Append(frames, f) /\ contexts' = Append(contexts, c)
    BY DEF Opens
<1> HIDE DEF f
<1>5. Stacked(k, Append(frames, f), Append(contexts, c))
    BY <1>1, <1>2, <1>3, StackedPush
<1> QED
    BY <1>4, <1>5

\* The state m is back, but for the touch of PRECOMPILE3.
Restored(m, l) ==
    /\ l.accounts = m.accounts /\ l.transient_storage = m.transient_storage
    /\ l.touched \subseteq m.touched \cup {Precompile3}

\* make_call_frame after the precompile has answered p.
LEMMA AfterPrecompileDoes ==
    ASSUME NEW m, Stacked(m, frames, contexts), DatabaseOk(db), intact \in BOOLEAN,
           NEW k, Grows(OpenVector(m), k, {}), NEW inputs \in InputsType,
           NEW p, Answered(k, p, inputs.target),
           AfterPrecompile(p, Len(m.journal), inputs)
    PROVE  /\ Stacked(js', frames', contexts')
           /\ intact' \in BOOLEAN
           /\ answer' \in {"failed", "succeeded", "panic", "frame"}
           /\ answer' = "failed" /\ (intact' \/ Quiet(k, p)) => Restored(m, js')
           /\ answer' # "failed" =>
                 Spends(k, js', TokensOf(inputs.caller) \cup Spendable(inputs.target))
           /\ answer' # "failed" /\ Quiet(k, p) => Even(k, js')
<1> DEFINE o == OpenVector(m)
           n == Len(m.journal)
           S == TokensOf(inputs.caller) \cup Spendable(inputs.target)
<1>1. Stacked(o, frames, contexts) /\ Stacked(k, frames, contexts)
    BY StackedOpen, StackedGrows
<1>2. Sound(k) /\ k \in World /\ db \in Database
    BY <1>1 DEF Stacked, History, Sound, DatabaseOk
<1> HIDE DEF o
<1>3. Stacked(p.js, frames, contexts) /\ Outgrows(o, p.js, ~p.overflowed)
    BY <1>1, StackedOutgrows, OutgrowsAfter DEF Answered, o
<1>4. Spends(k, p.js, S)
    BY DEF Answered, Spends
<1>5. CASE p.answer = "panic"
  <2>1. Ends(p.js, "panic") /\ intact' = intact
    BY <1>5 DEF AfterPrecompile
  <2>2. js' = p.js /\ answer' = "panic" /\ frames' = frames /\ contexts' = contexts
    BY <2>1 DEF Ends
  <2>3. ~Quiet(k, p)
    BY <1>5 DEF Quiet
  <2> QED
    BY <1>3, <1>4, <2>1, <2>2, <2>3
<1>6. CASE p.answer = "error"
  <2>1. Ends(RevertTo(p.js, n), "failed") /\ intact' = intact
    BY <1>6 DEF AfterPrecompile
  <2>2. /\ js' = RevertTo(p.js, n) /\ answer' = "failed"
        /\ frames' = frames /\ contexts' = contexts
    BY <2>1 DEF Ends
  <2>3. ~p.overflowed
    BY <1>6 DEF Answered
  <2>4. Stacked(js', frames, contexts) /\ Restored(m, js')
    BY <1>3, <2>2, <2>3, Reverted DEF Restored, o
  <2> QED
    BY <2>1, <2>2, <2>4
<1>7. CASE p.answer = "result"
  <2>1. Ends(p.js, "succeeded") /\ intact' = (intact /\ ~p.overflowed)
    BY <1>7 DEF AfterPrecompile
  <2>2. js' = p.js /\ answer' = "succeeded" /\ frames' = frames /\ contexts' = contexts
    BY <2>1 DEF Ends
  <2> QED
    BY <1>3, <1>4, <2>1, <2>2 DEF Quiet
<1>8. CASE p.answer = "call"
  <2> DEFINE c == Context(p.to, inputs.caller, p.transfers, inputs.is_static)
             r == TransferAll(LoadAccount(p.js, p.to), inputs.caller, p.to, p.transfers)
  <2>1. /\ p.to \in Address /\ p.transfers \in Seq(TokenTransfer) /\ inputs.caller \in Address
        /\ Grows(k, p.js, {}) /\ Loaded(p.js, p.to) /\ HasCode(p.js, p.to)
    BY <1>8 DEF Answered, Outgrows, InputsType
  <2>2. LoadAccount(p.js, p.to) = p.js
    BY <2>1 DEF LoadAccount
  <2>3. Sound(p.js) /\ p.js \in World
    BY <1>3 DEF Stacked, History, Sound
  <2>4. /\ r.outcome \in {"ok", "failed", "overflow"} /\ Transferred(p.js, r, inputs.caller)
        /\ r.js \in World /\ Spends(p.js, r.js, TokensOf(inputs.caller))
    BY <1>2, <2>1, <2>2, <2>3, GrowsTransfer, SpendsTransfer
  <2>5. /\ intact' = (intact /\ r.outcome # "overflow")
        /\ IF r.outcome # "ok" THEN Ends(RevertTo(r.js, n), "failed")
           ELSE Opens(r.js, n, NoAddress, c)
    BY <1>8 DEF AfterPrecompile
  <2>6. Outgrows(o, r.js, r.outcome # "overflow")
    <3> HIDE DEF r
    <3>1. Outgrows(p.js, r.js, r.outcome # "overflow")
      BY <2>1, <2>4 DEF Transferred, Outgrows
    <3>2. Outgrows(k, r.js, r.outcome # "overflow")
      BY <2>1, <3>1, OutgrowsAfter
    <3> QED
      BY <3>2, OutgrowsAfter DEF o
  <2>7. ~Quiet(k, p)
    BY <1>8 DEF Quiet
  <2> HIDE DEF r
  <2>8. CASE r.outcome # "ok"
    <3>1. /\ js' = RevertTo(r.js, n) /\ answer' = "failed"
          /\ frames' = frames /\ contexts' = contexts
      BY <2>5, <2>8 DEF Ends
    <3>2. /\ Stacked(js', frames, contexts)
          /\ r.outcome # "overflow" => Restored(m, js')
      BY <2>6, <3>1, Reverted DEF Restored, o
    <3> QED
      BY <2>5, <2>7, <3>1, <3>2
  <2>9. CASE r.outcome = "ok"
    <3>1. Opens(r.js, n, NoAddress, c) /\ Grows(OpenVector(m), r.js, {}) /\ Grows(p.js, r.js, {})
      BY <2>4, <2>5, <2>6, <2>9 DEF Outgrows, Transferred, o
    <3>2. Used(r.js.accounts[p.to])
      <4>1. Used(p.js.accounts[p.to])
        BY <2>1 DEF Used, Unused, HasCode, Loaded
      <4> QED
        BY <2>1, <3>1, <4>1 DEF Grows, Evolves
    <3>3. c \in ContextType /\ c.target = p.to
      BY <2>1 DEF Context, ContextType, InputsType
    <3>4. NoAddress # PrecompileAddress
      BY BoundsAssumption, ParticipantsAssumption
    <3> HIDE DEF c
    <3>5. Stacked(js', frames', contexts')
      BY <3>1, <3>2, <3>3, <3>4, OpensStacked
    <3>6. js' = r.js /\ answer' = "frame"
      BY <3>1 DEF Opens
    <3>7. Spends(k, r.js, S)
      <4>1. Spends(p.js, r.js, S)
        BY <2>4 DEF Spends
      <4> QED
        BY <1>2, <1>4, <2>3, <2>4, <4>1, SpendsTwice
    <3> QED
      BY <2>5, <2>7, <3>5, <3>6, <3>7
  <2> QED
    BY <2>8, <2>9
<1> QED
    BY <1>5, <1>6, <1>7, <1>8 DEF Answered

\* Whose tokens make_call_frame may spend: the caller pays, and the precompile
\* acts for the account that executes, unless that is itself.
Payers(inputs) ==
    TokensOf(inputs.caller)
    \cup (IF inputs.bytecode = PrecompileAddress /\ inputs.target # PrecompileAddress
          THEN Spendable(inputs.target) ELSE {})

\* j is back, but for accounts that were loaded and the touch of PRECOMPILE3.
NoTrace(j, l) ==
    /\ \A a \in Address : Loaded(j, a) => l.accounts[a] = j.accounts[a]
    /\ l.touched \subseteq j.touched \cup {Precompile3}
    /\ l.transient_storage = j.transient_storage

LEMMA MakeCallFrameDoes ==
    ASSUME NEW j, Stacked(j, frames, contexts), DatabaseOk(db), intact \in BOOLEAN,
           NEW inputs \in InputsType, NEW input \in Calldata \cup {NoInput}, NEW gas_ok,
           inputs.target = inputs.bytecode \/ Used(j.accounts[inputs.target]),
           MakeCallFrame(j, inputs, input, gas_ok)
    PROVE  /\ Stacked(js', frames', contexts')
           /\ intact' \in BOOLEAN
           /\ answer' \in {"failed", "succeeded", "panic", "frame"}
           /\ answer' = "failed" /\ intact' => NoTrace(j, js')
           /\ inputs.is_static /\ Gratis(inputs) => Even(j, js')
           /\ answer' # "failed" => Spends(j, js', Payers(inputs))
<1> DEFINE m == LoadAccount(j, inputs.bytecode)
           o == OpenVector(m)
           n == Len(m.journal)
           r == PayValues(o, inputs)
           p == IF gas_ok THEN CallMut(r.js, inputs, input) ELSE Err(r.js)
           c == Context(inputs.target, inputs.caller, inputs.values, inputs.is_static)
<1>1. /\ inputs.bytecode \in Address /\ inputs.target \in Address /\ inputs.caller \in Address
      /\ inputs.values \in Seq(TokenTransfer) /\ inputs.is_static \in BOOLEAN
    BY DEF InputsType
<1>2. Sound(j) /\ j \in World /\ db \in Database
    BY DEF Stacked, History, Sound, DatabaseOk
<1>3. CASE depth > CallStackLimit
  <2>1. Ends(j, "failed") /\ intact' = intact
    BY <1>3 DEF MakeCallFrame
  <2>2. js' = j /\ answer' = "failed" /\ frames' = frames /\ contexts' = contexts
    BY <2>1 DEF Ends
  <2> QED
    BY <2>1, <2>2 DEF NoTrace, Even
<1>4. CASE ~(depth > CallStackLimit)
  <2>1. Grows(j, m, {}) /\ Even(j, m) /\ Sound(m) /\ Loaded(m, inputs.bytecode)
    BY <1>1, <1>2, LoadGrows
  <2>2. \A l : Restored(m, l) => NoTrace(j, l) /\ Even(j, l)
    <3>1. /\ \A a \in Address : Loaded(j, a) => m.accounts[a] = j.accounts[a]
          /\ m.touched = j.touched /\ m.transient_storage = j.transient_storage
      BY <1>1, <1>2, LoadKeeps
    <3> HIDE DEF m
    <3>2. \A l : Restored(m, l) => Even(m, l)
      BY EvenSame DEF Restored
    <3> QED
      BY <2>1, <3>1, <3>2 DEF Restored, NoTrace, Even
  <2>3. \/ r.outcome # "ok" /\ Ends(RevertTo(r.js, n), "failed")
           /\ intact' = (intact /\ r.outcome # "overflow")
        \/ r.outcome = "ok" /\ inputs.bytecode = PrecompileAddress /\ AfterPrecompile(p, n, inputs)
        \/ /\ r.outcome = "ok" /\ inputs.bytecode # PrecompileAddress
           /\ HasCode(m, inputs.bytecode) /\ Opens(r.js, n, NoAddress, c) /\ intact' = intact
        \/ /\ r.outcome = "ok" /\ inputs.bytecode # PrecompileAddress
           /\ Ends(r.js, "succeeded") /\ intact' = intact
    BY <1>4 DEF MakeCallFrame
  <2> HIDE DEF m
  <2>4. Stacked(m, frames, contexts)
    BY <2>1, StackedGrows
  <2>5. Stacked(o, frames, contexts) /\ Sound(o) /\ o.accounts = m.accounts /\ Even(m, o)
    BY <2>4, StackedOpen, EvenSame
  <2>6. /\ r.outcome \in {"ok", "failed", "overflow"}
        /\ r.js \in World
        /\ Outgrows(o, r.js, r.outcome # "overflow")
        /\ Spends(o, r.js, TokensOf(inputs.caller))
        /\ Gratis(inputs) => Even(o, r.js) /\ r.outcome # "overflow"
    BY <1>2, <2>5, PayValuesDoes
  <2> HIDE DEF o, r
  <2>7. /\ Spends(j, r.js, TokensOf(inputs.caller))
        /\ Gratis(inputs) => Even(j, r.js)
    <3>1. Even(j, o)
      BY <2>1, <2>5 DEF Even
    <3>2. o \in World
      BY <2>5 DEF Sound
    <3>3. Spends(j, r.js, TokensOf(inputs.caller))
      BY <1>2, <2>6, <3>1, <3>2, EvenSpends, SpendsTwice
    <3> QED
      BY <2>6, <3>1, <3>3 DEF Even
  <2>8. CASE /\ r.outcome # "ok" /\ Ends(RevertTo(r.js, n), "failed")
             /\ intact' = (intact /\ r.outcome # "overflow")
    <3>1. /\ js' = RevertTo(r.js, n) /\ answer' = "failed"
          /\ frames' = frames /\ contexts' = contexts
      BY <2>8 DEF Ends
    <3>2. /\ Stacked(js', frames, contexts)
          /\ r.outcome # "overflow" => Restored(m, js')
      BY <2>4, <2>6, <3>1, Reverted DEF Restored, o
    <3> QED
      BY <2>2, <2>6, <2>8, <3>1, <3>2
  <2>9. ASSUME r.outcome = "ok"
        PROVE  /\ Grows(o, r.js, {}) /\ Stacked(r.js, frames, contexts) /\ Sound(r.js)
    <3>1. Grows(o, r.js, {})
      BY <2>6, <2>9 DEF Outgrows
    <3> QED
      BY <2>5, <3>1, StackedGrows, GrowsSound
  <2>10. CASE /\ r.outcome = "ok" /\ inputs.bytecode = PrecompileAddress
              /\ AfterPrecompile(p, n, inputs)
    <3> DEFINE k == r.js
               T == inputs.target
    <3>1. Grows(o, k, {}) /\ Stacked(k, frames, contexts) /\ Sound(k) /\ k \in World
      BY <2>6, <2>9, <2>10
    <3>2. Answered(k, p, T)
      <4>1. Answered(k, CallMut(k, inputs, input), T)
        BY <1>1, <1>2, <3>1, CallMutAnswered
      <4>2. Grows(k, k, {}) /\ Spends(k, k, Spendable(T))
        BY <1>2, <3>1, GrowsSame, EvenSpends DEF Sound, Even
      <4>3. Answered(k, Err(k), T)
        BY <4>2, AnsweredPlain
      <4> QED
        BY <4>1, <4>3
    <3>3. inputs.is_static \/ T = PrecompileAddress => Quiet(k, p)
      <4>1. T = PrecompileAddress => ~HasCode(LoadAccount(k, T), T)
        BY <3>1, PrecompileHasNoCode
      <4>2. inputs.is_static \/ T = PrecompileAddress => Quiet(k, CallMut(k, inputs, input))
        BY <1>1, <1>2, <3>1, <4>1, CallMutQuiet
      <4>3. Quiet(k, Err(k))
        BY <3>1, GrowsSame DEF Sound, Even, Quiet, Err, Result
      <4> QED
        BY <4>2, <4>3
    <3> HIDE DEF p, k
    <3>4. /\ Stacked(js', frames', contexts')
          /\ intact' \in BOOLEAN
          /\ answer' \in {"failed", "succeeded", "panic", "frame"}
          /\ answer' = "failed" /\ (intact' \/ Quiet(k, p)) => Restored(m, js')
          /\ answer' # "failed" => Spends(k, js', TokensOf(inputs.caller) \cup Spendable(T))
          /\ answer' # "failed" /\ Quiet(k, p) => Even(k, js')
      BY <2>4, <2>10, <3>1, <3>2, AfterPrecompileDoes DEF o
    <3>5. inputs.is_static /\ Gratis(inputs) => Even(j, js')
      BY <2>2, <2>7, <3>3, <3>4 DEF Even, k
    <3>6. answer' # "failed" => Spends(j, js', Payers(inputs))
      <4>1. js' \in World
        BY <3>4 DEF Stacked, History, Sound
      <4>2. Spends(j, k, Payers(inputs))
        BY <2>7 DEF Spends, Payers, k
      <4>3. answer' # "failed" => Spends(k, js', Payers(inputs))
        <5>1. CASE T = PrecompileAddress
          BY <1>2, <3>1, <3>3, <3>4, <5>1, EvenSpends
        <5>2. CASE T # PrecompileAddress
          BY <2>10, <3>4, <5>2 DEF Payers
        <5> QED
          BY <5>1, <5>2
      <4> QED
        BY <1>2, <3>1, <4>1, <4>2, <4>3, SpendsTwice
    <3> QED
      BY <2>2, <3>4, <3>5, <3>6
  <2>11. CASE /\ r.outcome = "ok" /\ HasCode(m, inputs.bytecode)
              /\ Opens(r.js, n, NoAddress, c) /\ intact' = intact
    <3>1. Used(r.js.accounts[inputs.target])
      <4>1. Used(m.accounts[inputs.target])
        <5>1. Used(m.accounts[inputs.bytecode])
          BY <2>1, <2>11 DEF Used, Unused, HasCode, Loaded
        <5>2. Used(j.accounts[inputs.target]) => Used(m.accounts[inputs.target])
          BY <1>1, <2>1 DEF Grows, Evolves
        <5> QED
          BY <5>1, <5>2
      <4> QED
        BY <1>1, <2>5, <2>9, <2>11, <4>1 DEF Grows, Evolves
    <3>2. c \in ContextType /\ c.target = inputs.target
      BY <1>1 DEF Context, ContextType
    <3>3. NoAddress # PrecompileAddress
      BY BoundsAssumption, ParticipantsAssumption
    <3>4. Grows(OpenVector(m), r.js, {}) /\ Opens(r.js, n, NoAddress, c)
      BY <2>9, <2>11 DEF o
    <3> HIDE DEF c
    <3>5. Stacked(js', frames', contexts')
      BY <2>4, <3>1, <3>2, <3>3, <3>4, OpensStacked
    <3>6. js' = r.js /\ answer' = "frame"
      BY <2>11 DEF Opens
    <3>7. Spends(j, js', Payers(inputs))
      BY <2>7, <3>6 DEF Spends, Payers
    <3> QED
      BY <2>7, <2>11, <3>5, <3>6, <3>7
  <2>12. CASE r.outcome = "ok" /\ Ends(r.js, "succeeded") /\ intact' = intact
    <3>1. js' = r.js /\ answer' = "succeeded" /\ frames' = frames /\ contexts' = contexts
      BY <2>12 DEF Ends
    <3>2. Spends(j, js', Payers(inputs))
      BY <2>7, <3>1 DEF Spends, Payers
    <3> QED
      BY <2>7, <2>9, <2>12, <3>1, <3>2
  <2> QED
    BY <2>3, <2>8, <2>10, <2>11, <2>12
<1> QED
    BY <1>3, <1>4

-----------------------------------------------------------------------------
(* The other operations move no tokens, but for SELFDESTRUCT               *)

\* Changes of one account that leave its balances alone.
LEMMA EvenAccount ==
    ASSUME NEW j, NEW k, NEW X, Grows(j, k, X), NEW a \in Address, Loaded(j, a),
           \A b \in Address \ {a} : k.accounts[b] = j.accounts[b],
           k.accounts[a].balances = j.accounts[a].balances
    PROVE  Even(j, k)
<1>1. Loaded(k, a)
    BY DEF Grows, Evolves, Loaded
<1> QED
    BY <1>1 DEF Even, Balances, Loaded

LEMMA StoreKeeps ==
    ASSUME NEW j \in World, NEW a \in Address, Loaded(j, a), NEW s \in Slot, NEW new \in Word
    PROVE  LET k == StoreSlot(j, a, s, new)
           IN  /\ \A b \in Address \ {a} : k.accounts[b] = j.accounts[b]
               /\ k.accounts[a].balances = j.accounts[a].balances
<1> DEFINE i == LoadSlot(j, a, s)
           k == StoreSlot(j, a, s, new)
<1>1. j.accounts \in Accounts /\ j.accounts[a] \in Account
    BY DEF World, Accounts, Loaded
<1>2. \/ i.accounts = j.accounts
      \/ \E v : i.accounts = [j.accounts EXCEPT ![a].storage[s] = v]
    BY DEF LoadSlot, Push, World
<1>3. DOMAIN i = DOMAIN j
    BY DEF LoadSlot, Push
<1> HIDE DEF i
<1>4. /\ DOMAIN i.accounts = Address
      /\ \A b \in Address \ {a} : i.accounts[b] = j.accounts[b]
      /\ DOMAIN i.accounts[a] = DOMAIN j.accounts[a]
      /\ i.accounts[a].balances = j.accounts[a].balances
  <2>1. CASE i.accounts = j.accounts
    BY <1>1, <2>1 DEF Accounts
  <2>2. CASE \E v : i.accounts = [j.accounts EXCEPT ![a].storage[s] = v]
    BY <1>1, <2>2 DEF Accounts, Account
  <2> QED
    BY <1>2, <2>1, <2>2
<1>5. \/ k.accounts = i.accounts
      \/ k.accounts = [i.accounts EXCEPT ![a].storage[s].present = new]
  <2>1. DOMAIN i = {"accounts", "transient_storage", "touched", "balance_keys", "token_ids",
                    "journal"}
    BY <1>3 DEF World
  <2> QED
    BY <2>1 DEF StoreSlot, Push, i
<1> HIDE DEF k
<1>6. /\ \A b \in Address \ {a} : k.accounts[b] = i.accounts[b]
      /\ k.accounts[a].balances = i.accounts[a].balances
  <2>1. CASE k.accounts = i.accounts
    BY <2>1
  <2>2. CASE k.accounts = [i.accounts EXCEPT ![a].storage[s].present = new]
    <3>1. "balances" \in DOMAIN i.accounts[a]
      BY <1>1, <1>4 DEF Account
    <3> QED
      BY <1>4, <2>2, <3>1
  <2> QED
    BY <1>5, <2>1, <2>2
<1> QED
    BY <1>4, <1>6 DEF k

LEMMA NonceKeeps ==
    ASSUME NEW j \in World, NEW a \in Address, Loaded(j, a)
    PROVE  LET k == [Push(TouchAccount(j, a), NonceChange(a)) EXCEPT !.accounts[a].nonce = @ + 1]
           IN  /\ \A b \in Address \ {a} : k.accounts[b] = j.accounts[b]
               /\ k.accounts[a].balances = j.accounts[a].balances
<1> DEFINE i == Push(TouchAccount(j, a), NonceChange(a))
           k == [i EXCEPT !.accounts[a].nonce = @ + 1]
<1>1. i.accounts = j.accounts /\ DOMAIN i = DOMAIN j
    BY DEF TouchAccount, Push, World
<1> HIDE DEF i
<1>2. k.accounts = [j.accounts EXCEPT ![a].nonce = @ + 1]
    BY <1>1 DEF World
<1> HIDE DEF k
<1>3. j.accounts \in Accounts /\ j.accounts[a] \in Account
    BY DEF World, Accounts, Loaded
<1>4. /\ \A b \in Address \ {a} : k.accounts[b] = j.accounts[b]
      /\ k.accounts[a].balances = j.accounts[a].balances
    BY <1>2, <1>3 DEF Accounts, Account
<1> QED
    BY <1>4 DEF k, i

LEMMA SetCodeKeeps ==
    ASSUME NEW j \in World, NEW a \in Address, Loaded(j, a), NEW code
    PROVE  LET k == SetCode(j, a, code)
           IN  /\ \A b \in Address \ {a} : k.accounts[b] = j.accounts[b]
               /\ k.accounts[a].balances = j.accounts[a].balances
<1> DEFINE i == Push(TouchAccount(j, a), CodeChange(a))
           k == [i EXCEPT !.accounts[a].code = code]
<1>1. i.accounts = j.accounts /\ DOMAIN i = DOMAIN j
    BY DEF TouchAccount, Push, World
<1> HIDE DEF i
<1>2. k.accounts = [j.accounts EXCEPT ![a].code = code]
    BY <1>1 DEF World
<1> HIDE DEF k
<1>3. j.accounts \in Accounts /\ j.accounts[a] \in Account
    BY DEF World, Accounts, Loaded
<1>4. /\ \A b \in Address \ {a} : k.accounts[b] = j.accounts[b]
      /\ k.accounts[a].balances = j.accounts[a].balances
    BY <1>2, <1>3 DEF Accounts, Account
<1> QED
    BY <1>4 DEF k, i, SetCode

\* create_account_checkpoint without endowment
LEMMA EvenCreate ==
    ASSUME NEW j, Sound(j), NEW caller \in Address, NEW a \in Address, Loaded(j, caller),
           Unused(j.accounts[a]), Clean(j.accounts[a]), db \in Database
    PROVE  Even(j, CreateAccount(j, caller, a, 0))
<1> DEFINE t == BaseToken
           j2 == MarkCreated(j, a)
           x == j2.accounts[a].balances[t] + 0
           j3 == SetBalance(j2, a, t, x)
           y == WrappingSub(j3.accounts[caller].balances[t], 0)
           j4 == SetBalance(j3, caller, t, y)
           k == CreateAccount(j, caller, a, 0)
<1>1. t \in TokenId /\ MaxU256 \in Nat /\ j \in World /\ Loaded(j, a) /\ 0 \in Balance
    BY BoundsAssumption DEF Sound, Unused, Loaded, Balance
<1>2. /\ Grows(j, j2, {}) /\ Loaded(j2, a) /\ j2 \in World
      /\ \A b \in Address : Loaded(j, b) => j2.accounts[b].balances = j.accounts[b].balances
    BY GrowsMark DEF Grows
<1>3. \A b \in Address : Loaded(j2, b) <=> Loaded(j, b)
  <2>1. j2.accounts = [j.accounts EXCEPT ![a] = j2.accounts[a]]
    <3>1. \E z : j2.accounts = [j.accounts EXCEPT ![a] = z]
      BY <1>1 DEF MarkCreated, TouchAccount, Push, World
    <3> HIDE DEF j2
    <3> QED
      BY <1>1, <3>1 DEF World, Accounts
  <2> HIDE DEF j2
  <2> QED
    BY <1>1, <1>2, <2>1 DEF World, Accounts, Loaded
<1> HIDE DEF j2
<1>4. Even(j, j2)
    BY <1>2, <1>3 DEF Even, Balances
<1>5. x = Balances(j2, a)[t] /\ x \in Balance
  <2>1. Balances(j2, a)[t] \in Balance /\ Balances(j2, a) = j2.accounts[a].balances
    BY <1>1, <1>2, BalancesTyped DEF Balances
  <2> QED
    BY <1>1, <2>1 DEF Balance
<1> HIDE DEF x
<1>6. j3 \in World /\ \A b \in Address : Loaded(j2, b) => Loaded(j3, b)
    BY <1>1, <1>2, <1>5, SetBalanceKeeps
<1>7. \A b \in Address, s \in TokenId :
         Balances(j3, b)[s] = IF b = a /\ s = t THEN x ELSE Balances(j2, b)[s]
    BY <1>1, <1>2, <1>5, BalancesSet
<1>8. Loaded(j3, caller)
    BY <1>3, <1>6
<1> HIDE DEF j3
<1>9. y = Balances(j3, caller)[t] /\ y \in Balance
  <2>1. /\ Balances(j3, caller)[t] \in Balance
        /\ Balances(j3, caller) = j3.accounts[caller].balances
    BY <1>1, <1>6, <1>8, BalancesTyped DEF Balances
  <2> QED
    BY <1>1, <2>1 DEF Balance, WrappingSub
<1> HIDE DEF y
<1>10. j4 \in World
    BY <1>1, <1>6, <1>8, <1>9, SetBalanceKeeps
<1>11. \A b \in Address, s \in TokenId :
         Balances(j4, b)[s] = IF b = caller /\ s = t THEN y ELSE Balances(j3, b)[s]
    BY <1>1, <1>6, <1>8, <1>9, BalancesSet
<1>12. k = Push(j4, BalanceTransfer(caller, a, t, 0))
    BY DEF CreateAccount, j2, x, j3, y
<1> HIDE DEF j4, k
<1>13. Even(j4, k)
  <2>1. k.accounts = j4.accounts
    BY <1>10, <1>12 DEF Push, World
  <2> QED
    BY <2>1, EvenSame
<1>14. Even(j2, j4)
    BY <1>2, <1>5, <1>7, <1>9, <1>10, <1>11, EvenPointwise
<1>15. Even(j, k)
    BY <1>4, <1>13, <1>14 DEF Even
<1> QED
    BY <1>15 DEF k

\* selfdestruct, when the two balances fit into one: only the account that is
\* destroyed loses.
LEMMA SpendsDestroy ==
    ASSUME NEW j, Sound(j), NEW a \in Address, NEW target \in Address, Loaded(j, a),
           db \in Database,
           a # target =>
              Balances(j, a)[BaseToken] + Balances(j, target)[BaseToken] <= MaxU256
    PROVE  Spends(j, Destroy(j, a, target), TokensOf(a))
<1> DEFINE t == BaseToken
           j1 == LoadAccount(j, target)
           balance == j1.accounts[a].balances[t]
           j3 == TouchAccount(j1, target)
           got == j3.accounts[target].balances[t]
           j2 == IF a = target THEN j1 ELSE SetBalance(j3, target, t, WrappingAdd(got, balance))
           k == Destroy(j, a, target)
<1>1. t \in TokenId /\ MaxU256 \in Nat /\ j \in World
    BY BoundsAssumption DEF Sound
<1>2. Grows(j, j1, {}) /\ Even(j, j1) /\ Sound(j1) /\ j1 \in World /\ Loaded(j1, target)
    BY LoadGrows DEF Sound
<1>3. \/ k.accounts = j2.accounts
      \/ k.accounts = SetBalance(j2, a, t, 0).accounts
      \/ k.accounts = [SetBalance(j2, a, t, 0).accounts EXCEPT ![a].destroyed = TRUE]
  <2>1. DOMAIN j2 = DOMAIN j1
    <3>1. \A i, b, u, v : DOMAIN SetBalance(i, b, u, v) = DOMAIN i
      BY DEF SetBalance
    <3>2. \A i, b : DOMAIN TouchAccount(i, b) = DOMAIN i
      BY DEF TouchAccount, Push
    <3> HIDE DEF j1, got, balance
    <3> QED
      BY <3>1, <3>2
  <2>2. DOMAIN j2 = {"accounts", "transient_storage", "touched", "balance_keys", "token_ids",
                     "journal"}
    BY <1>2, <2>1 DEF World
  <2>3. \/ k = j2
        \/ \E e : k = Push(SetBalance(j2, a, t, 0), e)
        \/ \E e : k = Push([SetBalance(j2, a, t, 0) EXCEPT !.accounts[a].destroyed = TRUE], e)
    BY DEF Destroy
  <2> HIDE DEF j2, k
  <2> QED
    BY <2>2, <2>3 DEF Push, SetBalance
<1> HIDE DEF j1, k
<1>4. j3.accounts = j1.accounts /\ j3 \in World /\ Loaded(j3, target) /\ Even(j1, j3)
  <2>1. Grows(j1, j3, {}) /\ j3.accounts = j1.accounts
    BY <1>2, GrowsTouch
  <2> HIDE DEF j3
  <2> QED
    BY <1>2, <2>1, EvenSame DEF Grows, Loaded
<1> HIDE DEF j3
<1>5. Loaded(j1, a)
    BY <1>2 DEF Grows, Evolves, Loaded
<1>6. /\ balance = Balances(j, a)[t] /\ balance \in Balance
      /\ got = Balances(j, target)[t] /\ got \in Balance
  <2>1. balance = Balances(j1, a)[t] /\ got = Balances(j1, target)[t]
    BY <1>2, <1>4, <1>5 DEF Balances
  <2>2. balance = Balances(j, a)[t] /\ got = Balances(j, target)[t]
    BY <1>2, <2>1 DEF Even
  <2> HIDE DEF balance, got
  <2> QED
    BY <1>1, <2>2, BalancesTyped
<1> HIDE DEF balance, got
<1>7. /\ \A b \in Address \ {a}, s \in TokenId : ~(Balances(j2, b)[s] < Balances(j, b)[s])
      /\ DOMAIN j2.accounts = Address /\ DOMAIN j2 = DOMAIN j1
  <2>0. \A b \in Address, s \in TokenId : Balances(j, b)[s] \in Nat
    BY <1>1, BalancesTyped DEF Balance
  <2>1. CASE a = target
    BY <1>2, <2>0, <2>1 DEF Even, World, Accounts
  <2>2. CASE a # target
    <3> DEFINE v == WrappingAdd(got, balance)
    <3>1. v = got + balance /\ v \in Balance
      BY <1>1, <1>6, <2>2 DEF WrappingAdd, Balance
    <3> HIDE DEF v
    <3>2. \A b \in Address, s \in TokenId :
             Balances(SetBalance(j3, target, t, v), b)[s]
                = IF b = target /\ s = t THEN v ELSE Balances(j3, b)[s]
      BY <1>1, <1>4, <3>1, BalancesSet
    <3>3. SetBalance(j3, target, t, v) \in World
      BY <1>1, <1>4, <3>1, SetBalanceKeeps
    <3>4. j2 = SetBalance(j3, target, t, v)
      BY <2>2 DEF v
    <3> HIDE DEF j2
    <3>5. DOMAIN j2.accounts = Address /\ DOMAIN j2 = DOMAIN j1
      BY <1>2, <3>3, <3>4 DEF World, Accounts
    <3>6. ASSUME NEW b \in Address, NEW s \in TokenId
          PROVE  ~(Balances(j2, b)[s] < Balances(j, b)[s])
      <4>1. Balances(j3, b)[s] = Balances(j, b)[s]
        BY <1>2, <1>4 DEF Even
      <4>2. CASE b = target /\ s = t
        <5>1. Balances(j2, b)[s] = got + balance /\ Balances(j, b)[s] = got
          BY <1>6, <3>1, <3>2, <3>4, <4>2
        <5> QED
          BY <1>1, <1>6, <5>1 DEF Balance
      <4>3. CASE ~(b = target /\ s = t)
        BY <2>0, <3>2, <3>4, <4>1, <4>3
      <4> QED
        BY <4>2, <4>3
    <3> QED
      BY <3>5, <3>6
  <2> QED
    BY <2>1, <2>2
<1> HIDE DEF j2
<1>8. \A b \in Address \ {a} : k.accounts[b] = j2.accounts[b]
  <2>1. SetBalance(j2, a, t, 0).accounts = [j2.accounts EXCEPT ![a].balances[t] = 0]
    BY <1>2, <1>7 DEF SetBalance, World
  <2>2. CASE k.accounts = j2.accounts
    BY <2>2
  <2>3. CASE k.accounts = SetBalance(j2, a, t, 0).accounts
    BY <1>7, <2>1, <2>3
  <2>4. CASE k.accounts = [SetBalance(j2, a, t, 0).accounts EXCEPT ![a].destroyed = TRUE]
    BY <1>7, <2>1, <2>4
  <2> QED
    BY <1>3, <2>2, <2>3, <2>4
<1>9. \A b \in Address \ {a} : Balances(k, b) = Balances(j2, b)
    BY <1>8 DEF Balances, Loaded
<1>10. Spends(j, k, TokensOf(a))
    BY <1>7, <1>9 DEF Spends, TokensOf
<1> QED
    BY <1>10 DEF k

-----------------------------------------------------------------------------
(* The invariant                                                           *)

CacheOk(c) ==
    /\ c \in [Address -> CacheEntry \cup {Absent}]
    /\ c[PrecompileAddress] # Absent => c[PrecompileAddress].info.code = NoCode

\* The inductive invariant: the frames are stacked over a journal that can
\* take back what they did, and the databases and the cache have their types
\* and no code for the precompile.
TokensInv ==
    /\ DatabaseOk(db) /\ DatabaseOk(under) /\ CacheOk(cache)
    /\ intact \in BOOLEAN
    /\ Stacked(js, frames, contexts)
    /\ answer = "committed" => contexts = << >>

\* The loop body of DatabaseCommit::commit.
LEMMA EntryOk ==
    ASSUME NEW j \in World, NEW a \in Address, Loaded(j, a), NEW old \in CacheEntry \cup {Absent}
    PROVE  /\ CommitAccount(j, a, old) \in CacheEntry
           /\ j.accounts[a].code = NoCode => CommitAccount(j, a, old).info.code = NoCode
<1> DEFINE x == j.accounts[a]
           entry == IF old = Absent THEN Default ELSE old
<1>1. /\ DefaultInfo \in AccountInfo /\ DefaultInfo.code = NoCode
      /\ NoSlots \in [Slot -> Word \cup {Absent}]
    BY BoundsAssumption DEF DefaultInfo, AccountInfo, Balance, NoSlots
<1>2. Default \in CacheEntry
    BY <1>1 DEF Default, CacheEntry
<1>3. x \in Account /\ j.balance_keys[a] \in SUBSET TokenId
    BY DEF World, Accounts, Loaded
<1>4. entry \in CacheEntry
    BY <1>2
<1>5. InfoOf(j, a) \in AccountInfo /\ (x.code = NoCode => InfoOf(j, a).code = NoCode)
    BY <1>3 DEF InfoOf, AccountInfo, Account
<1> HIDE DEF entry
<1>6. CASE x.destroyed
  <2>1. CommitAccount(j, a, old) =
           [info |-> DefaultInfo, account_state |-> "NotExisting", storage |-> NoSlots]
    BY <1>6 DEF CommitAccount
  <2> QED
    BY <1>1, <2>1 DEF CacheEntry
<1>7. CASE ~x.destroyed
  <2> DEFINE st == [k \in Slot |-> IF x.storage[k] # Absent THEN x.storage[k].present
                                   ELSE IF x.created THEN Absent ELSE entry.storage[k]]
             flag == IF x.created \/ entry.account_state = "StorageCleared"
                     THEN "StorageCleared" ELSE "Touched"
  <2>1. CommitAccount(j, a, old) =
           [info |-> InfoOf(j, a), account_state |-> flag, storage |-> st]
    BY <1>7 DEF CommitAccount, entry
  <2>2. st \in [Slot -> Word \cup {Absent}]
    <3> SUFFICES ASSUME NEW k \in Slot PROVE st[k] \in Word \cup {Absent}
      OBVIOUS
    <3>1. x.storage[k] \in StorageSlot \cup {Absent} /\ entry.storage[k] \in Word \cup {Absent}
      BY <1>3, <1>4 DEF Account, CacheEntry
    <3> QED
      BY <3>1 DEF StorageSlot
  <2> HIDE DEF st
  <2> QED
    BY <1>5, <2>1, <2>2 DEF CacheEntry
<1> QED
    BY <1>6, <1>7

\* DatabaseCommit::commit
LEMMA CommittedOk ==
    ASSUME NEW c, CacheOk(c), NEW j \in World, Codeless(j.accounts[PrecompileAddress])
    PROVE  CacheOk(Committed(c, j))
<1> DEFINE d == Committed(c, j)
           p == PrecompileAddress
<1>1. \A a \in Address : c[a] \in CacheEntry \cup {Absent}
    BY DEF CacheOk
<1>2. ASSUME NEW a \in Address, Loaded(j, a)
      PROVE  /\ CommitAccount(j, a, c[a]) \in CacheEntry
             /\ a = p => CommitAccount(j, a, c[a]).info.code = NoCode
    BY <1>1, <1>2, EntryOk DEF Codeless, Loaded
<1>3. d = [a \in Address |-> IF Loaded(j, a) /\ a \in j.touched THEN CommitAccount(j, a, c[a])
                             ELSE c[a]]
    BY DEF Committed
<1> HIDE DEF d
<1>4. d \in [Address -> CacheEntry \cup {Absent}]
    BY <1>1, <1>2, <1>3
<1>5. d[p] # Absent => d[p].info.code = NoCode
  <2>1. p \in Address /\ c[p] \in CacheEntry \cup {Absent}
    BY <1>1, ParticipantsAssumption
  <2>2. d[p] = IF Loaded(j, p) /\ p \in j.touched THEN CommitAccount(j, p, c[p]) ELSE c[p]
    BY <1>3, <2>1
  <2> QED
    BY <1>2, <2>1, <2>2 DEF CacheOk
<1> QED
    BY <1>4, <1>5 DEF CacheOk, d

\* What the database answers afterwards.
LEMMA AnswersOk ==
    ASSUME NEW c, CacheOk(c), DatabaseOk(under), NEW ids \in Seq(TokenId)
    PROVE  DatabaseOk(Answers(c, ids))
<1> DEFINE d == Answers(c, ids)
<1>1. DefaultInfo \in AccountInfo /\ DefaultInfo.code = NoCode
    BY BoundsAssumption DEF DefaultInfo, AccountInfo, Balance
<1>2. \A a \in Address : c[a] \in CacheEntry \cup {Absent}
    BY DEF CacheOk
<1>3. /\ \A a \in Address : under.basic[a] \in AccountInfo
      /\ \A a \in Address, k \in Slot : under.storage[<<a, k>>] \in Word
    BY DEF DatabaseOk, Database
<1>4. \A a \in Address : Basic(c, a) \in AccountInfo
    BY <1>1, <1>2, <1>3 DEF Basic, CacheEntry
<1>5. ASSUME NEW a \in Address, NEW k \in Slot PROVE StorageAt(c, a, k) \in Word
  <2>1. CASE c[a] = Absent
    BY <1>3, <2>1 DEF StorageAt
  <2>2. CASE c[a] # Absent
    <3>1. c[a].storage[k] \in Word \cup {Absent}
      BY <1>2, <2>2 DEF CacheEntry
    <3> QED
      BY <1>3, <2>2, <3>1, BoundsAssumption DEF StorageAt
  <2> QED
    BY <2>1, <2>2
<1>6. Basic(c, PrecompileAddress).code = NoCode
    BY <1>1 DEF Basic, CacheOk, DatabaseOk
<1>7. /\ d.basic = [a \in Address |-> Basic(c, a)]
      /\ d = [basic |-> [a \in Address |-> Basic(c, a)],
              storage |-> [q \in Address \X Slot |-> StorageAt(c, q[1], q[2])],
              token_ids |-> ids]
    BY DEF Answers
<1>8. d \in Database
  <2>1. [q \in Address \X Slot |-> StorageAt(c, q[1], q[2])] \in [Address \X Slot -> Word]
    BY <1>5
  <2>2. [a \in Address |-> Basic(c, a)] \in [Address -> AccountInfo]
    BY <1>4
  <2> QED
    BY <1>7, <2>1, <2>2 DEF Database
<1>9. d.basic[PrecompileAddress] = Basic(c, PrecompileAddress)
    BY <1>7, ParticipantsAssumption
<1> QED
    BY <1>6, <1>8, <1>9 DEF DatabaseOk

\* The journal of a new transaction, whatever the database.
LEMMA NewStacked ==
    /\ Stacked(NewJournaledState, << >>, << >>)
    /\ Stacked(NewJournaledState, << >>, << >>)'
<1> DEFINE j == NewJournaledState
<1>1. j \in World /\ History(j) /\ j.journal = << << >> >>
    BY NewHistory DEF NewJournaledState
<1>2. /\ \A i \in 0 .. 1 : Unwound(j, i) = Core(j)
      /\ Core(j).accounts = j.accounts /\ Len(j.journal) = 1
    BY <1>1, FirstPast
<1>3. \A a \in Address : j.accounts[a] = Absent
    BY DEF NewJournaledState
<1>4. History(j)'
  <2>1. \A a \in Address : Unwound(j, 0).accounts[a] = Absent
    BY <1>2, <1>3
  <2> QED
    BY <1>1, <2>1 DEF History, Pristine
<1>5. PrecompileCodeless(j)
    BY <1>2, <1>3, ParticipantsAssumption DEF PrecompileCodeless, Codeless
<1>d. Deployed(j) /\ Deployed(j)'
    BY <1>2, <1>3 DEF Deployed, Deploys
<1>6. /\ << >> \in Seq(FrameType) /\ << >> \in Seq(ContextType) /\ DOMAIN << >> = {}
    OBVIOUS
<1> HIDE DEF j
<1>7. Within(j, << >>) /\ Nested(<< >>) /\ Creations(j, << >>) /\ Executes(j, << >>, << >>)
    BY <1>6 DEF Within, Nested, Creations, Executes
<1>8. Stacked(j, << >>, << >>)
    BY <1>1, <1>5, <1>6, <1>7, <1>d DEF Stacked
<1>9. Stacked(j, << >>, << >>)'
    BY <1>4, <1>8, <1>d DEF Stacked
<1> QED
    BY <1>8, <1>9 DEF j


-----------------------------------------------------------------------------
(* The actions                                                             *)

\* A touch that no entry records: only loaded accounts need be touched.
LEMMA StackedTouched ==
    ASSUME NEW j, NEW fs, NEW cs, Stacked(j, fs, cs), NEW k \in World,
           k.accounts = j.accounts, k.transient_storage = j.transient_storage,
           k.journal = j.journal, \A a \in k.touched : Loaded(k, a)
    PROVE  Stacked(k, fs, cs)
<1>1. Core(k) = Core(j)
    BY DEF Core
<1>2. \A i : Unwound(k, i) = Unwound(j, i)
    BY <1>1 DEF Unwound
<1>3. Sound(k)
    BY DEF Stacked, History, Sound
<1>4. Unwrappable(k) <=> Unwrappable(j)
    BY DEF Unwrappable, Loaded
<1>5. /\ Loading(k) <=> Loading(j)
      /\ Mentioned(k) <=> Mentioned(j)
      /\ Arrived(k) <=> Arrived(j)
    BY <1>2 DEF Loading, Mentioned, Arrived
<1>6. History(k)
    BY <1>2, <1>3, <1>4, <1>5 DEF Stacked, History
<1>7. /\ Within(k, fs) /\ Creations(k, fs) /\ Executes(k, fs, cs)
      /\ PrecompileCodeless(k) /\ Deployed(k)
    BY <1>2 DEF Stacked, Within, Creations, Executes, PrecompileCodeless, Deployed
<1> QED
    BY <1>6, <1>7 DEF Stacked

\* deduct_caller: the journal in which the transaction's first call is made.
Paying ==
    LET first == [NewJournaledState EXCEPT !.journal = << <<AccountLoaded(Sender)>> >>]
        loaded == InsertAccount(first, Sender)
    IN  [loaded EXCEPT !.touched = {Sender},
                       !.accounts[Sender].nonce = IF @ = MaxNonce THEN @ ELSE @ + 1]

LEMMA PayingStacked ==
    ASSUME DatabaseOk(db)
    PROVE  /\ Stacked(Paying, << >>, << >>)
           /\ Len(Paying.journal) = 1 /\ Paying.touched = {Sender}
           /\ \A a \in Address : Unwound(Paying, 0).accounts[a] = Absent
           /\ \A a \in Address \ {Sender} : Paying.accounts[a] = Absent
<1> DEFINE j == NewJournaledState
           info == db.basic[Sender]
           y == AccountFrom(info)
           x == [y EXCEPT !.nonce = IF @ = MaxNonce THEN @ ELSE @ + 1]
           A == [j.accounts EXCEPT ![Sender] = x]
           B == [j.balance_keys EXCEPT ![Sender] = info.keys]
           e == AccountLoaded(Sender)
           m == [j EXCEPT !.accounts = A, !.balance_keys = B]
           k == Push(m, e)
<1>1. info \in AccountInfo /\ Sender \in Address /\ db \in Database
    BY ParticipantsAssumption DEF DatabaseOk, Database
<1>2. y \in Account /\ ~y.created /\ y.code = info.code /\ y.storage = [s \in Slot |-> Absent]
    BY <1>1 DEF AccountFrom, AccountInfo, Account
<1> HIDE DEF y
<1>3. x \in Account /\ ~x.created /\ x.code = info.code /\ x.nonce # 0
    BY <1>2, BoundsAssumption DEF Account
<1> HIDE DEF x
<1>4. /\ j \in World /\ j.accounts = [a \in Address |-> Absent] /\ j.touched = {}
      /\ j.journal = << << >> >> /\ Sound(j) /\ ~Loaded(j, Sender)
    BY <1>1, NewHistory DEF NewJournaledState, History, Loaded
<1>5. A \in Accounts /\ B \in [Address -> SUBSET TokenId] /\ A[Sender] = x
    BY <1>1, <1>3, <1>4 DEF World, Accounts, AccountInfo
<1>6. /\ m \in World /\ m.accounts = A /\ m.transient_storage = j.transient_storage
      /\ m.journal = j.journal /\ m.touched = j.touched /\ m.balance_keys = B
      /\ m.token_ids = j.token_ids
    BY <1>4, <1>5 DEF World
<1>7. /\ Paying.accounts = A /\ Paying.balance_keys = B /\ Paying.touched = {Sender}
      /\ Paying.transient_storage = j.transient_storage /\ Paying.token_ids = j.token_ids
      /\ Paying.journal = << <<e>> >>
      /\ Paying = [accounts |-> Paying.accounts, transient_storage |-> Paying.transient_storage,
                   touched |-> Paying.touched, balance_keys |-> Paying.balance_keys,
                   token_ids |-> Paying.token_ids, journal |-> Paying.journal]
  <2> DEFINE C == [j.accounts EXCEPT ![Sender] = y]
             D == [C EXCEPT ![Sender].nonce = IF @ = MaxNonce THEN @ ELSE @ + 1]
  <2>1. Paying = [accounts |-> D, transient_storage |-> j.transient_storage,
                  touched |-> {Sender}, balance_keys |-> B,
                  token_ids |-> j.token_ids, journal |-> << <<e>> >>]
    <3> DEFINE first == [j EXCEPT !.journal = << <<e>> >>]
               loaded == InsertAccount(first, Sender)
    <3>1. first = [accounts |-> j.accounts, transient_storage |-> j.transient_storage,
                   touched |-> j.touched, balance_keys |-> j.balance_keys,
                   token_ids |-> j.token_ids, journal |-> << <<e>> >>]
      <4>1. ASSUME NEW g \in World, NEW q
            PROVE  [g EXCEPT !.journal = q]
                     = [accounts |-> g.accounts, transient_storage |-> g.transient_storage,
                        touched |-> g.touched, balance_keys |-> g.balance_keys,
                        token_ids |-> g.token_ids, journal |-> q]
        BY DEF World
      <4> HIDE DEF j, e
      <4> QED
        BY <1>4, <4>1
    <3> HIDE DEF j, e, first
    <3>2. loaded = [accounts |-> C, transient_storage |-> j.transient_storage,
                    touched |-> j.touched, balance_keys |-> B,
                    token_ids |-> j.token_ids, journal |-> << <<e>> >>]
      <4> HIDE DEF info
      <4>1. loaded = [first EXCEPT !.accounts[Sender] = y, !.balance_keys[Sender] = info.keys]
        BY DEF InsertAccount, y, info
      <4> QED
        BY <3>1, <4>1
    <3>3. Paying = [loaded EXCEPT !.touched = {Sender},
                       !.accounts[Sender].nonce = IF @ = MaxNonce THEN @ ELSE @ + 1]
      BY DEF Paying, first, j, e
    <3> HIDE DEF loaded, C, B
    <3> QED
      BY <3>2, <3>3
  <2>2. D = A
    <3> HIDE DEF j
    <3>1. C[Sender] = y /\ DOMAIN C = Address
      BY <1>1, <1>4
    <3>2. D = [C EXCEPT ![Sender] = x]
      BY <3>1 DEF x
    <3> QED
      BY <1>1, <1>4, <3>2
  <2> HIDE DEF A, B, D, j
  <2> QED
    BY <2>1, <2>2
<1> HIDE DEF A, B, m, j
<1>8. e \in JournalEntry /\ e.type = "AccountLoaded" /\ Mentions(e) = {Sender}
    BY <1>1 DEF JournalEntry, AccountLoaded, Mentions
<1>9. UndoAccounts(m.accounts, e) = j.accounts
  <2>1. UndoAccounts(m.accounts, e) = [m.accounts EXCEPT ![Sender] = Absent]
    BY DEF UndoAccounts, AccountLoaded
  <2> QED
    BY <1>1, <1>4, <1>6, <2>1 DEF A, Accounts
<1>10. Evolves(j.accounts[Sender], x, Sender \in {})
    BY <1>1, <1>3, <1>4, BoundsAssumption DEF Evolves, Clean, Used, Unused, InCreation
<1>11. Grows(j, k, {})
    BY <1>1, <1>3, <1>4, <1>6, <1>8, <1>9, <1>10, GrowsAccount DEF A
<1>12. Stacked(k, << >>, << >>)
  <2>1. Stacked(j, << >>, << >>)
    BY NewStacked DEF j
  <2> QED
    BY <1>11, <2>1, StackedGrows
<1>13. /\ k.accounts = A /\ k.transient_storage = j.transient_storage
       /\ k.journal = << <<e>> >>
  <2>1. [m.journal EXCEPT ![Len(m.journal)] = Append(@, e)] = << <<e>> >>
    BY <1>4, <1>6
  <2> QED
    BY <1>6, <2>1 DEF Push, World
<1>14. Paying \in World
  <2>1. << <<e>> >> \in Seq(Seq(JournalEntry))
    BY <1>8
  <2> QED
    BY <1>1, <1>4, <1>5, <1>7, <2>1 DEF World
<1>15. \A a \in Paying.touched : Loaded(Paying, a)
    BY <1>3, <1>5, <1>7, BoundsAssumption DEF Loaded
<1>16. Stacked(Paying, << >>, << >>)
    BY <1>7, <1>12, <1>13, <1>14, <1>15, StackedTouched
<1>17. \A a \in Address : Unwound(Paying, 0).accounts[a] = Absent
  <2>1. Unwound(j, 0) = Core(j)
    BY <1>4, FirstPast
  <2>2. Unwound(k, 0) = Unwound(j, 0)
    <3>1. History(j)
      BY NewHistory DEF j
    <3>2. \A i \in 0 .. Len(j.journal) - 1 : Unwound(k, i) = Unwound(j, i)
      BY <1>11, <3>1, PastOfGrown
    <3> QED
      BY <1>4, <3>2
  <2>3. Core(Paying) = Core(k)
    BY <1>7, <1>13 DEF Core
  <2>4. Unwound(Paying, 0) = Unwound(k, 0)
    BY <1>7, <1>13, <2>3 DEF Unwound
  <2> QED
    BY <1>4, <2>1, <2>2, <2>4 DEF Core
<1>18. Len(Paying.journal) = 1 /\ \A a \in Address \ {Sender} : Paying.accounts[a] = Absent
    BY <1>4, <1>7 DEF A
<1> QED
    BY <1>7, <1>16, <1>17, <1>18

\* Whose tokens a running contract may spend.
Authorized ==
    {h \in Address \X TokenId :
        \/ h[1] \in {TopContext.target, TopContext.caller}
        \/ \E s \in SubId : TokenIdAddress[<<TopContext.target, s>>] = h[2]}

\* No two accounts have more Ether than one can hold.
EtherFits ==
    \A a, b \in Address : a # b =>
        Balances(js, a)[BaseToken] + Balances(js, b)[BaseToken] <= MaxU256

\* What the theorems say of one step of a running contract.
Obeys ==
    /\ contexts' = contexts /\ answer' = "failed" /\ intact' => NoTrace(js, js')
    /\ TopContext.is_static /\ Len(contexts') >= Len(contexts) => Even(js, js')
    /\ answer' # "failed" /\ EtherFits => Spends(js, js', Authorized)

\* The inputs of a call from a frame.
LEMMA InputsAre ==
    ASSUME Stacked(js, frames, contexts), InTransaction,
           NEW scheme \in Schemes, NEW to \in Address, NEW n \in Balance
    PROVE  LET inputs == Inputs(scheme, to, n)
           IN  /\ inputs \in InputsType
               /\ inputs.target = inputs.bytecode \/ Used(js.accounts[inputs.target])
               /\ Payers(inputs) \subseteq Authorized
               /\ TopContext.is_static /\ ~(scheme = "Call" /\ n # 0) =>
                     inputs.is_static /\ Gratis(inputs)
<1> DEFINE inputs == Inputs(scheme, to, n)
           c == TopContext
           v == inputs.values
<1>1. /\ c \in ContextType /\ Used(js.accounts[c.target])
  <2>1. frames # << >> /\ Len(frames) = Len(contexts)
    BY DEF Stacked, InTransaction
  <2> QED
    BY <2>1, StackedTop DEF TopContext
<1> HIDE DEF c
<1>2. /\ c.target \in Address /\ c.caller \in Address /\ c.values \in Seq(TokenTransfer)
      /\ c.is_static \in BOOLEAN
    BY <1>1 DEF ContextType
<1>3. \/ scheme = "DelegateCall" /\ v = c.values
      \/ scheme = "StaticCall" /\ v = << >>
      \/ scheme \in {"Call", "CallCode"} /\ v = << [id |-> BaseToken, amount |-> n] >>
    BY DEF Inputs, Schemes, c
<1>4. /\ inputs.bytecode = to
      /\ inputs.target = IF scheme \in {"CallCode", "DelegateCall"} THEN c.target ELSE to
      /\ inputs.caller = IF scheme = "DelegateCall" THEN c.caller ELSE c.target
      /\ inputs.apparent = (scheme = "DelegateCall")
      /\ inputs.is_static = (c.is_static \/ scheme = "StaticCall")
      /\ inputs = [bytecode |-> inputs.bytecode, target |-> inputs.target,
                   caller |-> inputs.caller, values |-> v, apparent |-> inputs.apparent,
                   is_static |-> inputs.is_static]
    BY DEF Inputs, c
<1> HIDE DEF inputs
<1>5. v \in Seq(TokenTransfer)
  <2>1. << [id |-> BaseToken, amount |-> n] >> \in Seq(TokenTransfer) /\ << >> \in Seq(TokenTransfer)
    BY BoundsAssumption DEF TokenTransfer
  <2> HIDE DEF v
  <2> QED
    BY <1>2, <1>3, <2>1
<1>6. inputs \in InputsType
  <2>1. inputs.apparent \in BOOLEAN /\ inputs.is_static \in BOOLEAN
    BY <1>2, <1>4
  <2>2. inputs.bytecode \in Address /\ inputs.target \in Address /\ inputs.caller \in Address
    BY <1>2, <1>4
  <2>3. ASSUME NEW b \in Address, NEW t \in Address, NEW d \in Address,
               NEW w \in Seq(TokenTransfer), NEW p \in BOOLEAN, NEW s \in BOOLEAN
        PROVE  [bytecode |-> b, target |-> t, caller |-> d, values |-> w, apparent |-> p,
                is_static |-> s] \in InputsType
    BY DEF InputsType
  <2>4. [bytecode |-> inputs.bytecode, target |-> inputs.target, caller |-> inputs.caller,
         values |-> v, apparent |-> inputs.apparent, is_static |-> inputs.is_static]
           \in InputsType
    BY <1>5, <2>1, <2>2, <2>3
  <2> HIDE DEF v
  <2> QED
    BY <1>4, <2>4
<1>7. inputs.target = inputs.bytecode \/ Used(js.accounts[inputs.target])
    BY <1>1, <1>4
<1>8. Payers(inputs) \subseteq Authorized
  <2>1. inputs.caller \in {c.target, c.caller} /\ inputs.target \in {inputs.bytecode, c.target}
    BY <1>4
  <2>2. TokensOf(inputs.caller) \subseteq Authorized
    BY <1>2, <2>1 DEF TokensOf, Authorized, c
  <2>3. Spendable(c.target) \subseteq Authorized
    BY DEF Spendable, Authorized, c
  <2> QED
    BY <2>1, <2>2, <2>3 DEF Payers
<1>9. ASSUME c.is_static, ~(scheme = "Call" /\ n # 0)
      PROVE  inputs.is_static /\ Gratis(inputs)
  <2>1. CASE scheme = "DelegateCall"
    BY <1>4, <1>9, <2>1 DEF Gratis
  <2>2. CASE scheme = "CallCode"
    BY <1>4, <1>9, <2>2 DEF Gratis
  <2>3. CASE scheme = "StaticCall"
    <3>1. DOMAIN v = {}
      BY <1>3, <2>3
    <3> QED
      BY <1>4, <1>9, <3>1 DEF Gratis
  <2>4. CASE scheme = "Call"
    <3>1. \A i \in DOMAIN v : v[i].amount = 0
      BY <1>3, <1>9, <2>4
    <3> QED
      BY <1>4, <1>9, <3>1 DEF Gratis
  <2> QED
    BY <2>1, <2>2, <2>3, <2>4 DEF Schemes
<1> QED
    BY <1>6, <1>7, <1>8, <1>9 DEF inputs, c

LEMMA SpendsMore ==
    ASSUME NEW j, NEW k, NEW S, NEW T, Spends(j, k, S), S \subseteq T
    PROVE  Spends(j, k, T)
BY DEF Spends

\* The database answers the same until the transaction is committed.
LEMMA StepStacked ==
    ASSUME TokensInv, UNCHANGED <<under, cache, db>>, Stacked(js', frames', contexts'),
           intact' \in BOOLEAN, answer' # "committed"
    PROVE  TokensInv'
<1>1. Stacked(js, frames, contexts)'
    BY DEF Stacked, History, Pristine, Deployed, Deploys
<1>2. (DatabaseOk(db) /\ DatabaseOk(under) /\ CacheOk(cache))'
    BY DEF TokensInv
<1> QED
    BY <1>1, <1>2 DEF TokensInv

\* Every call of a contract, to an account or to the precompile.
LEMMA CallObeys ==
    ASSUME TokensInv, InTransaction, NEW scheme \in Schemes, NEW to \in Address,
           NEW n \in Balance, ~(TopContext.is_static /\ scheme = "Call" /\ n # 0),
           NEW input \in Calldata \cup {NoInput}, NEW gas_ok,
           MakeCallFrame(js, Inputs(scheme, to, n), input, gas_ok), Outside
    PROVE  TokensInv' /\ Obeys
<1> DEFINE inputs == Inputs(scheme, to, n)
<1>1. Stacked(js, frames, contexts) /\ DatabaseOk(db) /\ intact \in BOOLEAN
    BY DEF TokensInv
<1>2. /\ inputs \in InputsType
      /\ inputs.target = inputs.bytecode \/ Used(js.accounts[inputs.target])
      /\ Payers(inputs) \subseteq Authorized
      /\ TopContext.is_static => inputs.is_static /\ Gratis(inputs)
    BY <1>1, InputsAre
<1> HIDE DEF inputs
<1>3. /\ Stacked(js', frames', contexts')
      /\ intact' \in BOOLEAN
      /\ answer' \in {"failed", "succeeded", "panic", "frame"}
      /\ answer' = "failed" /\ intact' => NoTrace(js, js')
      /\ inputs.is_static /\ Gratis(inputs) => Even(js, js')
      /\ answer' # "failed" => Spends(js, js', Payers(inputs))
    BY <1>1, <1>2, MakeCallFrameDoes DEF inputs
<1>4. TokensInv'
    BY <1>3, StepStacked DEF Outside
<1> QED
    BY <1>2, <1>3, <1>4, SpendsMore DEF Obeys

\* The account that runs.
LEMMA RunningUsed ==
    ASSUME TokensInv, InTransaction
    PROVE  /\ Sound(js) /\ js \in World /\ db \in Database /\ frames # << >>
           /\ TopContext \in ContextType /\ TopContext.target \in Address
           /\ Used(js.accounts[TopContext.target]) /\ Loaded(js, TopContext.target)
           /\ TokensOf(TopContext.target) \subseteq Authorized
<1>1. Stacked(js, frames, contexts) /\ DatabaseOk(db)
    BY DEF TokensInv
<1>2. frames # << >> /\ Len(frames) = Len(contexts) /\ Sound(js)
    BY <1>1 DEF Stacked, History, InTransaction
<1>3. TopContext \in ContextType /\ Used(js.accounts[TopContext.target])
    BY <1>1, <1>2, StackedTop DEF TopContext
<1>4. TopContext.target \in Address
    BY <1>3 DEF ContextType
<1>5. Loaded(js, TopContext.target)
    BY <1>3 DEF Used, Loaded
<1>6. TokensOf(TopContext.target) \subseteq Authorized
    BY <1>4 DEF TokensOf, Authorized
<1> QED
    BY <1>1, <1>2, <1>3, <1>4, <1>5, <1>6 DEF Sound, DatabaseOk

\* The transaction's first call.
LEMMA TransactStep ==
    ASSUME TokensInv, NEW to \in Targets, NEW values \in Transfers \cup {<< >>},
           Transact(to, values)
    PROVE  TokensInv' /\ ~InTransaction
<1> DEFINE inputs == [bytecode |-> to, target |-> to, caller |-> Sender, values |-> values,
                      apparent |-> FALSE, is_static |-> FALSE]
<1>1. /\ contexts = << >> /\ Len(frames) = Len(contexts) /\ frames \in Seq(FrameType)
      /\ DatabaseOk(db) /\ intact \in BOOLEAN
    BY DEF TokensInv, Transact, Stacked
<1>2. frames = << >>
    BY <1>1
<1>3. Stacked(Paying, frames, contexts)
    BY <1>1, <1>2, PayingStacked
<1>4. inputs \in InputsType /\ inputs.target = inputs.bytecode
  <2>1. to \in Address /\ Sender \in Address /\ values \in Seq(TokenTransfer)
    <3>1. << >> \in Seq(TokenTransfer)
      OBVIOUS
    <3> QED
      BY <3>1, ParticipantsAssumption, OperandsAssumption
  <2> QED
    BY <2>1 DEF InputsType
<1>5. MakeCallFrame(Paying, inputs, NoInput, TRUE) /\ UNCHANGED <<under, cache, db>>
    BY DEF Transact, Paying
<1> HIDE DEF inputs
<1>6. /\ Stacked(js', frames', contexts') /\ intact' \in BOOLEAN
      /\ answer' \in {"failed", "succeeded", "panic", "frame"}
    BY <1>1, <1>3, <1>4, <1>5, MakeCallFrameDoes
<1> QED
    BY <1>1, <1>5, <1>6, StepStacked DEF InTransaction

\* SSTORE
LEMMA StoreStep ==
    ASSUME TokensInv, NEW k \in Slot, NEW new \in Word, Store(k, new)
    PROVE  TokensInv' /\ Obeys
<1> DEFINE a == TopContext.target
           l == StoreSlot(js, a, k, new)
<1>1. InTransaction /\ ~TopContext.is_static
    BY DEF Store, HasSteps
<1>2. /\ js' = l /\ answer' = "succeeded" /\ UNCHANGED <<frames, contexts, intact>>
      /\ UNCHANGED <<under, cache, db>>
    BY DEF Store, Outside
<1>3. /\ Sound(js) /\ js \in World /\ db \in Database /\ a \in Address
      /\ Used(js.accounts[a]) /\ Loaded(js, a)
    BY <1>1, RunningUsed
<1>4. Stacked(js, frames, contexts) /\ DatabaseOk(db) /\ intact \in BOOLEAN
    BY DEF TokensInv
<1> HIDE DEF a
<1>5. Grows(js, l, {})
    BY <1>3, GrowsStoreSlot DEF Used
<1>6. Even(js, l)
    BY <1>3, <1>5, StoreKeeps, EvenAccount
<1> HIDE DEF l
<1>7. Stacked(l, frames, contexts)
    BY <1>4, <1>5, StackedGrows
<1>8. TokensInv'
    BY <1>2, <1>4, <1>7, StepStacked
<1>9. Spends(js, js', Authorized)
    BY <1>2, <1>3, <1>6, EvenSpends
<1> QED
    BY <1>1, <1>2, <1>8, <1>9 DEF Obeys

\* A frame ends: only what it spends matters.
LEMMA ShorterObeys ==
    ASSUME Stacked(js, frames, contexts), InTransaction, contexts' = Popped(contexts),
           answer' = "failed" \/ (EtherFits => Spends(js, js', Authorized))
    PROVE  Obeys
<1>1. contexts \in Seq(ContextType) /\ contexts # << >>
    BY DEF Stacked, InTransaction
<1>2. Len(contexts) \in Nat \ {0} /\ Len(contexts') = Len(contexts) - 1
    BY <1>1, PoppedIs
<1>3. ~(Len(contexts') >= Len(contexts)) /\ contexts' # contexts
    BY <1>2
<1> QED
    BY <1>3 DEF Obeys

\* A frame that ends well.
LEMMA ReturnStep ==
    ASSUME TokensInv, NEW code \in Code, Return(code)
    PROVE  TokensInv' /\ Obeys /\ InTransaction
<1> DEFINE a == Top.creates
           l == SetCode(js, a, code)
<1>1. InTransaction
    BY DEF Return
<1>2. /\ js' = IF a = NoAddress THEN js ELSE l
      /\ frames' = Popped(frames) /\ contexts' = Popped(contexts)
      /\ answer' = "succeeded" /\ intact' = intact /\ UNCHANGED <<under, cache, db>>
    BY DEF Return, PopFrame, PopContext, Popped, Outside
<1>3. Sound(js) /\ js \in World /\ db \in Database /\ frames # << >>
    BY <1>1, RunningUsed
<1>4. Stacked(js, frames, contexts) /\ DatabaseOk(db) /\ intact \in BOOLEAN
    BY DEF TokensInv
<1>5. /\ Stacked(js, Popped(frames), Popped(contexts))
      /\ \A k \in DOMAIN Popped(frames) : a # NoAddress => Popped(frames)[k].creates # a
    BY <1>3, <1>4, StackedPop DEF Top
<1>6. CASE a = NoAddress
  <2>1. Stacked(js', frames', contexts') /\ js' = js
    BY <1>2, <1>5, <1>6
  <2>2. Spends(js, js', Authorized)
    BY <1>3, <2>1, EvenSame, EvenSpends
  <2>3. TokensInv'
    BY <1>2, <1>4, <2>1, StepStacked
  <2> QED
    BY <1>1, <1>2, <1>4, <2>2, <2>3, ShorterObeys
<1>7. CASE a # NoAddress
  <2>1. a \in Address /\ InCreation(js.accounts[a])
    BY <1>3, <1>4, <1>7, StackedTop DEF Top
  <2>2. Loaded(js, a) /\ a # PrecompileAddress
    <3>1. frames \in Seq(FrameType)
      BY <1>4 DEF Stacked
    <3>2. Len(frames) \in DOMAIN frames
      BY <1>3, <3>1
    <3> QED
      BY <1>4, <2>1, <3>2 DEF Stacked, InCreation, Loaded, Top
  <2> HIDE DEF a
  <2>3. Grows(js, l, {a})
    BY <1>3, <2>1, GrowsSetCode
  <2>4. Even(js, l)
    BY <1>3, <2>1, <2>2, <2>3, SetCodeKeeps, EvenAccount
  <2> HIDE DEF l
  <2>5. Stacked(l, Popped(frames), Popped(contexts))
    BY <1>4, <1>5, <1>7, <2>1, <2>2, <2>3, StackedGrows
  <2>6. Stacked(js', frames', contexts') /\ js' = l
    BY <1>2, <1>7, <2>5
  <2>7. Spends(js, js', Authorized)
    BY <1>3, <2>4, <2>6, EvenSpends
  <2>8. TokensInv'
    BY <1>2, <1>4, <2>6, StepStacked
  <2> QED
    BY <1>1, <1>2, <1>4, <2>7, <2>8, ShorterObeys
<1> QED
    BY <1>6, <1>7

\* A frame that fails.
LEMMA FailStep ==
    ASSUME TokensInv, Revert
    PROVE  TokensInv' /\ Obeys /\ InTransaction
<1> DEFINE n == Top.journal_i
<1>1. InTransaction
    BY DEF Revert
<1>2. /\ js' = RevertTo(js, n)
      /\ frames' = Popped(frames) /\ contexts' = Popped(contexts)
      /\ answer' = "failed" /\ intact' = intact /\ UNCHANGED <<under, cache, db>>
    BY DEF Revert, PopFrame, PopContext, Popped, Outside
<1>3. frames # << >> /\ Stacked(js, frames, contexts) /\ intact \in BOOLEAN
    BY <1>1, RunningUsed DEF TokensInv
<1>4. /\ Stacked(js, Popped(frames), Popped(contexts))
      /\ \A k \in DOMAIN Popped(frames) : Popped(frames)[k].journal_i < n
    BY <1>3, StackedPop DEF Top
<1>5. n \in 1 .. Len(js.journal)
  <2>1. n \in 1 .. Len(js.journal) - 1
    BY <1>3, StackedTop DEF Top
  <2>2. Len(js.journal) \in Nat
    BY <1>3 DEF Stacked, History, Sound, World
  <2> QED
    BY <2>1, <2>2
<1>6. Stacked(js', frames', contexts')
    BY <1>2, <1>4, <1>5, StackedRevert
<1>7. TokensInv'
    BY <1>2, <1>3, <1>6, StepStacked
<1> QED
    BY <1>1, <1>2, <1>3, <1>7, ShorterObeys

\* SELFDESTRUCT
LEMMA SelfDestructsStep ==
    ASSUME TokensInv, NEW target \in Targets, SelfDestructs(target)
    PROVE  TokensInv' /\ Obeys /\ InTransaction
<1> DEFINE a == TopContext.target
           l == Destroy(js, a, target)
<1>1. InTransaction
    BY DEF SelfDestructs, HasSteps
<1>2. /\ js' = l
      /\ frames' = Popped(frames) /\ contexts' = Popped(contexts)
      /\ answer' = "succeeded" /\ intact' = intact /\ UNCHANGED <<under, cache, db>>
    BY DEF SelfDestructs, PopFrame, PopContext, Popped, Outside
<1>3. /\ Sound(js) /\ js \in World /\ db \in Database /\ frames # << >>
      /\ a \in Address /\ Loaded(js, a) /\ TokensOf(a) \subseteq Authorized
    BY <1>1, RunningUsed
<1>4. Stacked(js, frames, contexts) /\ DatabaseOk(db) /\ intact \in BOOLEAN
    BY DEF TokensInv
<1> HIDE DEF a
<1>5. target \in Address
    BY ParticipantsAssumption
<1>6. Grows(js, l, {})
    BY <1>3, <1>5, GrowsDestroy
<1>7. EtherFits => Spends(js, l, TokensOf(a))
    BY <1>3, <1>5, SpendsDestroy DEF EtherFits
<1> HIDE DEF l
<1>8. Stacked(l, Popped(frames), Popped(contexts))
  <2>1. Stacked(l, frames, contexts)
    BY <1>4, <1>6, StackedGrows
  <2> QED
    BY <1>3, <2>1, StackedPop
<1>9. TokensInv'
    BY <1>2, <1>4, <1>8, StepStacked
<1>10. EtherFits => Spends(js, js', Authorized)
    BY <1>2, <1>3, <1>7, SpendsMore
<1> QED
    BY <1>1, <1>2, <1>4, <1>9, <1>10, ShorterObeys

\* With nothing undone, the accounts are those of now.
LEMMA PresentAccounts ==
    ASSUME NEW j, j.journal \in Seq(Vector)
    PROVE  Unwound(j, Len(j.journal)).accounts = j.accounts
<1>1. Unwound(j, Len(j.journal)) = Core(j)
    BY PastPresent
<1> QED
    BY <1>1 DEF Core

\* No frame creates an account that another creation may choose.
LEMMA StackedCreations ==
    ASSUME NEW j, NEW fs, NEW cs, Stacked(j, fs, cs), NEW a \in Address,
           ~InCreation(j.accounts[a])
    PROVE  \A f \in DOMAIN fs : fs[f].creates # a
<1> SUFFICES ASSUME NEW f \in DOMAIN fs, fs[f].creates = a PROVE FALSE
    OBVIOUS
<1> DEFINE n == Len(j.journal)
<1>1. n \in Nat \ {0} /\ j.journal \in Seq(Vector) /\ a # NoAddress
    BY BoundsAssumption DEF Stacked, History, Sound, World, Vector
<1>2. fs[f].journal_i \in 1 .. n - 1
    BY DEF Stacked, Within
<1>3. n \in fs[f].journal_i + 1 .. n
    BY <1>1, <1>2
<1>4. InCreation(Unwound(j, n).accounts[a])
    BY <1>1, <1>3 DEF Stacked, Creations
<1>5. Unwound(j, n).accounts = j.accounts
    BY <1>1, PresentAccounts
<1> QED
    BY <1>4, <1>5

\* Now as at every checkpoint, the account a creation may choose is clean.
LEMMA StackedClean ==
    ASSUME NEW j, NEW fs, NEW cs, Stacked(j, fs, cs), NEW a \in Address
    PROVE  Clean(j.accounts[a])
<1> DEFINE n == Len(j.journal)
<1>1. n \in 0 .. n /\ j.journal \in Seq(Vector)
    BY DEF Stacked, History, Sound, World, Vector
<1>2. Unwound(j, n).accounts = j.accounts
    BY <1>1, PresentAccounts
<1> QED
    BY <1>1, <1>2 DEF Stacked, History

\* make_create_frame
LEMMA MakeCreateStep ==
    ASSUME TokensInv, NEW a \in Fresh, Create(a)
    PROVE  TokensInv' /\ Obeys /\ InTransaction
<1> DEFINE caller == TopContext.target
           j == LoadAccount(js, a)
           raised == [Push(TouchAccount(j, caller), NonceChange(caller))
                         EXCEPT !.accounts[caller].nonce = @ + 1]
           opened == OpenVector(raised)
           i == Len(js.journal)
           refuses == depth > CallStackLimit \/ js.accounts[caller].nonce = MaxNonce
           collides == HasCode(raised, a) \/ raised.accounts[a].nonce # 0 \/ a \in WarmPreloaded
           k == CreateAccount(opened, caller, a, 0)
           c == Context(a, caller, << >>, FALSE)
<1>1. InTransaction /\ ~TopContext.is_static
    BY DEF Create, HasSteps
<1>2. /\ IF refuses THEN Ends(js, "refused")
         ELSE IF collides THEN Ends(RevertTo(opened, i), "refused")
         ELSE Opens(k, i, a, c)
      /\ intact' = intact /\ UNCHANGED <<under, cache, db>>
    BY DEF Create, Outside
<1>3. /\ Sound(js) /\ js \in World /\ db \in Database
      /\ caller \in Address /\ Used(js.accounts[caller]) /\ Loaded(js, caller)
      /\ a \in Address
    BY <1>1, RunningUsed, ParticipantsAssumption
<1>4. Stacked(js, frames, contexts) /\ DatabaseOk(db) /\ intact \in BOOLEAN
    BY DEF TokensInv
<1>5. SUFFICES /\ Stacked(js', frames', contexts') /\ answer' \in {"refused", "frame"}
               /\ Even(js, js')
  <2>1. TokensInv'
    BY <1>2, <1>4, <1>5, StepStacked
  <2>2. Spends(js, js', Authorized)
    BY <1>3, <1>5, EvenSpends
  <2> QED
    BY <1>1, <1>5, <2>1, <2>2 DEF Obeys
<1>6. CASE refuses
  <2>1. js' = js /\ answer' = "refused" /\ frames' = frames /\ contexts' = contexts
    BY <1>2, <1>6 DEF Ends
  <2> QED
    BY <1>4, <2>1 DEF Even
<1>7. CASE ~refuses
  <2>1. Grows(js, j, {}) /\ Even(js, j) /\ Sound(j) /\ Loaded(j, a)
    BY <1>3, LoadGrows
  <2>2. j.accounts[caller] = js.accounts[caller] /\ Loaded(j, caller)
    BY <1>3, LoadKeeps DEF Loaded
  <2> HIDE DEF j, caller
  <2>3. j \in World /\ j.accounts[caller].nonce # MaxNonce
    BY <1>7, <2>1, <2>2 DEF Sound
  <2>4. Grows(j, raised, {})
    BY <1>3, <2>1, <2>2, <2>3, GrowsNonce
  <2>5. Even(j, raised)
    <3>1. /\ \A b \in Address \ {caller} : raised.accounts[b] = j.accounts[b]
          /\ raised.accounts[caller].balances = j.accounts[caller].balances
      BY <1>3, <2>2, <2>3, NonceKeeps
    <3> HIDE DEF raised
    <3> QED
      BY <1>3, <2>2, <2>4, <3>1, EvenAccount
  <2> HIDE DEF raised
  <2>6. Stacked(raised, frames, contexts) /\ Even(js, raised) /\ Len(raised.journal) = i
    <3>1. Grows(js, raised, {})
      BY <2>1, <2>4, GrowsTwice
    <3>2. Stacked(raised, frames, contexts)
      BY <1>4, <3>1, StackedGrows
    <3>3. Len(raised.journal) = i
      BY <3>1 DEF Grows
    <3>4. Even(js, raised)
      BY <2>1, <2>5 DEF Even
    <3> QED
      BY <3>2, <3>3, <3>4
  <2>7. /\ Loaded(raised, caller) /\ Loaded(raised, a)
    BY <1>3, <2>1, <2>2, <2>4 DEF Grows, Evolves, Loaded
  <2>8. /\ Sound(opened) /\ opened.accounts = raised.accounts /\ opened \in World
        /\ Even(raised, opened)
    BY <2>6, StackedOpen, EvenSame DEF Sound
  <2>9. CASE collides
    <3>1. Outgrows(opened, opened, TRUE)
      BY <2>8, GrowsSame DEF Outgrows, Sound
    <3> DEFINE l == RevertTo(opened, i)
    <3>2. Stacked(l, frames, contexts) /\ l.accounts = raised.accounts
      BY <1>4, <2>6, <3>1, Reverted
    <3>3. Even(raised, l)
      BY <3>2, EvenSame
    <3> HIDE DEF l
    <3>4. Even(js, l)
      BY <2>6, <3>3 DEF Even
    <3>5. js' = l /\ answer' = "refused" /\ frames' = frames /\ contexts' = contexts
      BY <1>2, <1>7, <2>9 DEF Ends, l
    <3> QED
      BY <3>2, <3>4, <3>5
  <2>10. CASE ~collides
    <3>1. a \notin WarmPreloaded /\ a # PrecompileAddress /\ Unused(raised.accounts[a])
      BY <2>7, <2>10, ParticipantsAssumption DEF HasCode, Unused, Loaded
    <3>2. Clean(raised.accounts[a])
      BY <1>3, <2>6, StackedClean
    <3>3. \A f \in DOMAIN frames : frames[f].creates # a
      BY <1>3, <2>6, <3>1, StackedCreations DEF Unused, InCreation
    <3>4. /\ Unused(opened.accounts[a]) /\ Clean(opened.accounts[a]) /\ Loaded(opened, caller)
      BY <2>7, <2>8, <3>1, <3>2 DEF Loaded
    <3> HIDE DEF opened
    <3>5. /\ 0 \in Balance /\ ~(opened.accounts[a].balances[BaseToken] + 0 > MaxU256)
      <4>1. opened.accounts[a] \in Account
        BY <1>3, <2>8, <3>4 DEF World, Accounts, Unused
      <4>2. opened.accounts[a].balances[BaseToken] \in Balance
        BY <4>1, BoundsAssumption DEF Account
      <4> QED
        BY <4>2, BoundsAssumption DEF Balance
    <3>6. Grows(opened, k, {}) /\ InCreation(k.accounts[a])
      BY <1>3, <2>8, <3>4, <3>5, GrowsCreate
    <3>7. Even(opened, k)
      BY <1>3, <2>8, <3>4, EvenCreate
    <3>8. Opens(k, i, a, c)
      BY <1>2, <1>7, <2>10
    <3> HIDE DEF k
    <3>9. c \in ContextType /\ c.target = a
      <4>1. << >> \in Seq(TokenTransfer)
        OBVIOUS
      <4> QED
        BY <1>3, <4>1 DEF Context, ContextType
    <3> HIDE DEF c
    <3>10. Used(k.accounts[c.target])
      BY <3>6, <3>9 DEF Used, Unused, InCreation
    <3>11. Stacked(js', frames', contexts')
      BY <1>3, <1>4, <2>6, <3>1, <3>3, <3>6, <3>8, <3>9, <3>10, OpensStacked DEF opened
    <3>12. js' = k /\ answer' = "frame"
      BY <3>8 DEF Opens
    <3> QED
      BY <2>6, <2>8, <3>7, <3>11, <3>12 DEF Even
  <2> QED
    BY <2>9, <2>10
<1> QED
    BY <1>6, <1>7

\* transact_commit
LEMMA CommitStep ==
    ASSUME TokensInv, Commit
    PROVE  TokensInv' /\ ~InTransaction
<1>1. /\ contexts = << >> /\ contexts' = contexts /\ frames' = frames
      /\ cache' = Committed(cache, js) /\ db' = Answers(cache', js.token_ids)
      /\ js' = NewJournaledState /\ intact' = TRUE /\ under' = under /\ ~InTransaction
    BY DEF Commit, InTransaction
<1>2. /\ Stacked(js, frames, contexts) /\ DatabaseOk(under) /\ CacheOk(cache)
    BY DEF TokensInv
<1>3. frames = << >>
    BY <1>1, <1>2 DEF Stacked
<1>4. js \in World /\ js.journal \in Seq(Vector) /\ js.token_ids \in Seq(TokenId)
      /\ Len(js.journal) \in 0 .. Len(js.journal)
    BY <1>2 DEF Stacked, History, Sound, World, Vector
<1>5. Codeless(js.accounts[PrecompileAddress])
  <2>1. Unwound(js, Len(js.journal)).accounts = js.accounts
    BY <1>4, PresentAccounts
  <2> QED
    BY <1>2, <1>4, <2>1 DEF Stacked, PrecompileCodeless
<1>6. CacheOk(cache')
    BY <1>1, <1>2, <1>4, <1>5, CommittedOk
<1>7. DatabaseOk(db')
  <2>1. DatabaseOk(Answers(cache', js.token_ids))
    BY <1>2, <1>4, <1>6, AnswersOk
  <2> QED
    BY <1>1, <2>1
<1>8. Stacked(js, frames, contexts)'
    BY <1>1, <1>3, NewStacked
<1> QED
    BY <1>1, <1>2, <1>6, <1>7, <1>8 DEF TokensInv

LEMMA TokensStep ==
    ASSUME TokensInv, [TokensNext]_tvars
    PROVE  TokensInv' /\ (InTransaction /\ tvars' # tvars => Obeys)
<1>1. CASE UNCHANGED tvars
  <2>1. UNCHANGED <<js, frames, contexts, db, under, cache, intact, answer>>
    BY <1>1 DEF tvars, vars
  <2>2. Stacked(js', frames', contexts')
    BY <2>1 DEF TokensInv
  <2>3. Stacked(js, frames, contexts)'
    BY <2>1, <2>2 DEF Stacked, History, Pristine, Deployed, Deploys
  <2> QED
    BY <1>1, <2>1, <2>3 DEF TokensInv
<1>2. CASE \E to \in Targets, values \in Transfers \cup {<< >>} : Transact(to, values)
    BY <1>2, TransactStep
<1>3. CASE \E scheme \in Schemes, to \in Targets, n \in Amounts \cup {0} : Call(scheme, to, n)
  <2>1. PICK scheme \in Schemes, to \in Targets, n \in Amounts \cup {0} : Call(scheme, to, n)
    BY <1>3
  <2>2. to \in Address /\ n \in Balance /\ NoInput \in Calldata \cup {NoInput}
    BY ParticipantsAssumption, BoundsAssumption DEF Balance
  <2>3. /\ InTransaction /\ ~(TopContext.is_static /\ scheme = "Call" /\ n # 0)
        /\ MakeCallFrame(js, Inputs(scheme, to, n), NoInput, TRUE) /\ Outside
    BY <2>1 DEF Call, HasSteps
  <2> QED
    BY <2>2, <2>3, CallObeys
<1>4. CASE \E scheme \in Schemes, input \in Calldata, gas_ok \in BOOLEAN :
              CallPrecompile(scheme, input, gas_ok)
  <2>1. PICK scheme \in Schemes, input \in Calldata, gas_ok \in BOOLEAN :
           CallPrecompile(scheme, input, gas_ok)
    BY <1>4
  <2>2. PrecompileAddress \in Address /\ 0 \in Balance
    BY ParticipantsAssumption, BoundsAssumption DEF Balance
  <2>3. /\ InTransaction /\ Outside
        /\ MakeCallFrame(js, Inputs(scheme, PrecompileAddress, 0), input, gas_ok)
    BY <2>1 DEF CallPrecompile, HasSteps
  <2> QED
    BY <2>2, <2>3, CallObeys
<1>5. CASE \E k \in Slot, new \in Word : Store(k, new)
    BY <1>5, StoreStep
<1>6. CASE \E a \in Fresh : Create(a)
    BY <1>6, MakeCreateStep
<1>7. CASE \E code \in Code : Return(code)
    BY <1>7, ReturnStep
<1>8. CASE Revert
    BY <1>8, FailStep
<1>9. CASE \E a \in Targets : SelfDestructs(a)
    BY <1>9, SelfDestructsStep
<1>10. CASE Commit
    BY <1>10, CommitStep
<1> QED
    BY <1>1, <1>2, <1>3, <1>4, <1>5, <1>6, <1>7, <1>8, <1>9, <1>10 DEF TokensNext

LEMMA TokensStart == ASSUME TokensInit PROVE TokensInv
<1>1. /\ js = NewJournaledState /\ frames = << >> /\ contexts = << >> /\ intact = TRUE
      /\ db \in Databases /\ under = db /\ cache = [a \in Address |-> Absent]
    BY DEF TokensInit, Init
<1>2. DatabaseOk(db)
    BY <1>1, DatabasesAssumption, ParticipantsAssumption DEF DatabaseOk
<1>3. CacheOk(cache)
    BY <1>1, ParticipantsAssumption DEF CacheOk
<1>4. Stacked(js, frames, contexts)
    BY <1>1, NewStacked
<1> QED
    BY <1>1, <1>2, <1>3, <1>4 DEF TokensInv

-----------------------------------------------------------------------------
(* What it means                                                           *)

\* The frames of every transaction, to any depth, stand over a journal that
\* takes back what each of them did: the account a frame executes stays in
\* use and the one it creates stays in creation until it ends, and no
\* transaction gives the precompile's address code.
THEOREM TokensInvariant == TokensSpec => []TokensInv
<1>1. TokensInit => TokensInv
    BY TokensStart
<1>2. TokensInv /\ [TokensNext]_tvars => TokensInv'
    BY TokensStep
<1> QED
    BY <1>1, <1>2, PTL DEF TokensSpec

\* make_call_frame, call_mut and checkpoint_revert: a call that fails, before
\* the precompile, in it or in the call it asks for, changes no loaded
\* account, no transient storage and no touch but that of PRECOMPILE3, for
\* every calldata, unless a transfer overflowed.
THEOREM FailedCallTheorem == TokensSpec => FailedCallsLeaveNoTrace
<1>1. ASSUME TokensInv, [TokensNext]_tvars
      PROVE  [ /\ InTransaction /\ contexts' = contexts
               /\ answer' = "failed" /\ intact'
               => /\ \A a \in Address : Loaded(js, a) => js'.accounts[a] = js.accounts[a]
                  /\ js'.touched \subseteq js.touched \cup {Precompile3}
                  /\ js'.transient_storage = js.transient_storage ]_tvars
    BY <1>1, TokensStep DEF Obeys, NoTrace
<1> QED
    BY <1>1, TokensInvariant, PTL DEF TokensSpec, FailedCallsLeaveNoTrace

\* call_mut's check of is_static, and the flag of the frame that
\* transferAndCall opens: whatever a static frame calls, nobody's balance of
\* any token changes.
THEOREM StaticCallTheorem == TokensSpec => StaticCallsMoveNothing
<1>1. ASSUME TokensInv, [TokensNext]_tvars
      PROVE  [ InTransaction /\ TopContext.is_static /\ Len(contexts') >= Len(contexts)
               => \A a \in Address : Balances(js', a) = Balances(js, a) ]_tvars
    BY <1>1, TokensStep DEF Obeys, Even
<1> QED
    BY <1>1, TokensInvariant, PTL DEF TokensSpec, StaticCallsMoveNothing

\* transfer, burn, transferAndCall and the values of calls: tokens leave only
\* the running contract, its caller, or whoever holds tokens the contract
\* issued.  SELFDESTRUCT adds Ether to its beneficiary with wrapping, so this
\* rests on no two accounts having more Ether than one can hold.
THEOREM SpendingTheorem == TokensSpec /\ []EtherFits => SpendingIsAuthorized
<1>1. ASSUME TokensInv, EtherFits, [TokensNext]_tvars
      PROVE  [ InTransaction /\ answer' # "failed"
               => \A a \in Address, t \in TokenId :
                     Balances(js', a)[t] < Balances(js, a)[t] =>
                        \/ a \in {TopContext.target, TopContext.caller}
                        \/ \E s \in SubId : TokenIdAddress[<<TopContext.target, s>>] = t ]_tvars
    BY <1>1, TokensStep DEF Obeys, Spends, Authorized
<1> QED
    BY <1>1, TokensInvariant, PTL DEF TokensSpec, SpendingIsAuthorized
-----------------------------------------------------------------------------
(* The database after each commit                                          *)

\* What the database answers is in the cache and the database under it.
Served ==
    /\ \A a \in Address : db.basic[a] = Basic(cache, a)
    /\ \A a \in Address, k \in Slot : db.storage[<<a, k>>] = StorageAt(cache, a, k)
ReadsInv == TokensInv /\ Served /\ ReadsFollowCommits

\* Code that is not the database's belongs to an account created in this
\* transaction.
LEMMA PresentDeployed ==
    ASSUME TokensInv
    PROVE  js \in World /\ \A a \in Address : Deploys(js.accounts[a], a)
<1>1. js \in World /\ js.journal \in Seq(Vector) /\ Len(js.journal) \in 0 .. Len(js.journal)
    BY DEF TokensInv, Stacked, History, Sound, World, Vector
<1>2. Unwound(js, Len(js.journal)).accounts = js.accounts
    BY <1>1, PresentAccounts
<1> QED
    BY <1>1, <1>2 DEF TokensInv, Stacked, Deployed

\* Account a is one that commit does not skip.
Written(j, a) == Loaded(j, a) /\ a \in j.touched

\* DbAccount::info after commit.
LEMMA CommittedBasic ==
    ASSUME NEW j \in World, NEW a \in Address, NEW c, CacheOk(c)
    PROVE  Basic(Committed(c, j), a) =
              IF ~Written(j, a) THEN Basic(c, a)
              ELSE IF j.accounts[a].destroyed THEN DefaultInfo ELSE InfoOf(j, a)
<1> DEFINE d == Committed(c, j)
           x == j.accounts[a]
<1>1. d[a] = IF Written(j, a) THEN CommitAccount(j, a, c[a]) ELSE c[a]
    BY DEF Committed, Written
<1>2. Written(j, a) => d[a] # Absent
    BY <1>1, EntryOk, AbsentAssumption DEF CacheOk, Written
<1> HIDE DEF d
<1>3. CASE ~Written(j, a)
  <2>1. Basic(d, a) = Basic(c, a)
    BY <1>1, <1>3 DEF Basic
  <2> QED
    BY <1>3, <2>1 DEF d
<1>4. CASE Written(j, a) /\ x.destroyed
  <2>1. d[a] = [info |-> DefaultInfo, account_state |-> "NotExisting", storage |-> NoSlots]
    BY <1>1, <1>4 DEF CommitAccount
  <2>2. Basic(d, a) = DefaultInfo
    BY <1>2, <1>4, <2>1 DEF Basic
  <2> QED
    BY <1>4, <2>2 DEF d
<1>5. CASE Written(j, a) /\ ~x.destroyed
  <2>1. d[a].info = InfoOf(j, a) /\ d[a].account_state # "NotExisting"
    BY <1>1, <1>5 DEF CommitAccount
  <2>2. Basic(d, a) = InfoOf(j, a)
    BY <1>2, <1>5, <2>1 DEF Basic
  <2> QED
    BY <1>5, <2>2 DEF d
<1> QED
    BY <1>3, <1>4, <1>5

\* The slots after commit, of an account that is not destroyed.
LEMMA CommittedStorage ==
    ASSUME NEW j \in World, NEW a \in Address, NEW k \in Slot, NEW c, CacheOk(c),
           Written(j, a), ~j.accounts[a].destroyed,
           ~j.accounts[a].created => c[a] = Absent \/ c[a].account_state # "NotExisting"
    PROVE  StorageAt(Committed(c, j), a, k) =
              IF j.accounts[a].storage[k] # Absent THEN j.accounts[a].storage[k].present
              ELSE IF j.accounts[a].created THEN 0
              ELSE StorageAt(c, a, k)
<1> DEFINE d == Committed(c, j)
           x == j.accounts[a]
           entry == IF c[a] = Absent THEN Default ELSE c[a]
<1>1. d[a] = CommitAccount(j, a, c[a])
    BY DEF Committed, Written
<1>2. d[a] # Absent
  <2>1. c[a] \in CacheEntry \cup {Absent}
    BY DEF CacheOk
  <2>2. CommitAccount(j, a, c[a]) \in CacheEntry
    BY <2>1, EntryOk DEF Written
  <2> QED
    BY <1>1, <2>2, AbsentAssumption
<1>3. x \in Account
    BY DEF World, Accounts, Loaded, Written
<1>4. /\ d[a].storage[k] = IF x.storage[k] # Absent THEN x.storage[k].present
                           ELSE IF x.created THEN Absent ELSE entry.storage[k]
      /\ d[a].account_state = IF x.created \/ entry.account_state = "StorageCleared"
                              THEN "StorageCleared" ELSE "Touched"
    BY <1>1 DEF CommitAccount
<1> HIDE DEF d
<1>5. CASE x.storage[k] # Absent
  <2>1. x.storage[k].present \in Word
    BY <1>3, <1>5 DEF Account, StorageSlot
  <2>2. StorageAt(d, a, k) = x.storage[k].present
    BY <1>2, <1>4, <1>5, <2>1, AbsentAssumption DEF StorageAt
  <2> QED
    BY <1>5, <2>2 DEF d
<1>6. CASE x.storage[k] = Absent /\ x.created
  <2>1. StorageAt(d, a, k) = 0
    BY <1>2, <1>4, <1>6 DEF StorageAt
  <2> QED
    BY <1>6, <2>1 DEF d
<1>7. CASE x.storage[k] = Absent /\ ~x.created
  <2>1. d[a].storage[k] = entry.storage[k]
    BY <1>4, <1>7
  <2>2. d[a].account_state \in {"StorageCleared", "NotExisting"}
           <=> entry.account_state = "StorageCleared"
    BY <1>4, <1>7
  <2>3. CASE c[a] = Absent
    <3>1. entry.storage[k] = Absent /\ entry.account_state = "Touched"
      BY <2>3 DEF Default, NoSlots
    <3>2. StorageAt(d, a, k) = under.storage[<<a, k>>]
      BY <1>2, <2>1, <2>2, <3>1 DEF StorageAt
    <3>3. StorageAt(c, a, k) = under.storage[<<a, k>>]
      BY <2>3 DEF StorageAt
    <3> QED
      BY <1>7, <3>2, <3>3 DEF d
  <2>4. CASE c[a] # Absent
    <3>1. entry = c[a] /\ c[a].account_state # "NotExisting"
      BY <1>7, <2>4
    <3>2. StorageAt(d, a, k) = StorageAt(c, a, k)
      BY <1>2, <2>1, <2>2, <2>4, <3>1 DEF StorageAt
    <3> QED
      BY <1>7, <3>2 DEF d
  <2> QED
    BY <2>3, <2>4
<1> QED
    BY <1>5, <1>6, <1>7

\* The slots of an account that commit skips.
LEMMA SkippedStorage ==
    ASSUME NEW j, NEW a \in Address, NEW k \in Slot, NEW c, ~Written(j, a)
    PROVE  StorageAt(Committed(c, j), a, k) = StorageAt(c, a, k)
<1> DEFINE d == Committed(c, j)
<1>1. d[a] = c[a]
    BY DEF Committed, Written
<1> HIDE DEF d
<1>2. StorageAt(d, a, k) = StorageAt(c, a, k)
    BY <1>1 DEF StorageAt
<1> QED
    BY <1>2 DEF d


\* The database and the state it should hold, after a commit.
LEMMA ReadsCommit ==
    ASSUME ReadsInv, Commit
    PROVE  Served' /\ ReadsFollowCommits'
<1> DEFINE c == Committed(cache, js)
           w == Left(world, js)
<1>1. /\ under' = under /\ cache' = c /\ db' = Answers(c, js.token_ids) /\ world' = w
    BY DEF Commit
<1>2. /\ js \in World /\ CacheOk(cache)
      /\ \A a \in Address : Deploys(js.accounts[a], a)
      /\ \A a \in Address : db.basic[a] = Basic(cache, a) /\ world.basic[a] = Basic(cache, a)
      /\ \A a \in Address, k \in Slot : db.storage[<<a, k>>] = StorageAt(cache, a, k)
    BY PresentDeployed DEF ReadsInv, TokensInv, Served, ReadsFollowCommits
<1>3. /\ db'.basic = [a \in Address |-> Basic(c, a)]
      /\ \A a \in Address, k \in Slot : db'.storage[<<a, k>>] = StorageAt(c, a, k)
    BY <1>1 DEF Answers
<1>4. /\ w.basic = [a \in Address |->
            IF ~Written(js, a) THEN world.basic[a]
            ELSE IF js.accounts[a].destroyed THEN DefaultInfo ELSE InfoOf(js, a)]
      /\ \A a \in Address, k \in Slot : w.storage[<<a, k>>] =
            IF ~Written(js, a) THEN world.storage[<<a, k>>]
            ELSE IF js.accounts[a].destroyed THEN 0
            ELSE IF js.accounts[a].storage[k] # Absent THEN js.accounts[a].storage[k].present
            ELSE IF js.accounts[a].created THEN 0
            ELSE world.storage[<<a, k>>]
    BY DEF Left, Written
<1> HIDE DEF c, w
<1>5. Served'
  <2>1. \A a \in Address : db'.basic[a] = Basic(c, a)
    BY <1>3
  <2> QED
    BY <1>1, <1>3, <2>1 DEF Served, Basic, StorageAt, DefaultInfo
<1>6. \A a \in Address : Basic(c, a) = w.basic[a]
    BY <1>2, <1>4, CommittedBasic DEF c
<1>7. db'.basic = world'.basic
    BY <1>1, <1>3, <1>4, <1>6
<1>8. ASSUME NEW a \in Address, NEW k \in Slot, w.basic[a].code # NoCode
      PROVE  StorageAt(c, a, k) = w.storage[<<a, k>>]
  <2> DEFINE x == js.accounts[a]
  <2>1. world.basic[a].code # NoCode => StorageAt(cache, a, k) = world.storage[<<a, k>>]
    BY <1>2 DEF ReadsInv, ReadsFollowCommits
  <2>2. CASE ~Written(js, a)
    <3>1. StorageAt(c, a, k) = StorageAt(cache, a, k)
      BY <2>2, SkippedStorage DEF c
    <3>2. world.basic[a].code # NoCode /\ w.storage[<<a, k>>] = world.storage[<<a, k>>]
      BY <1>4, <1>8, <2>2
    <3> QED
      BY <2>1, <3>1, <3>2
  <2>3. CASE Written(js, a) /\ x.destroyed
    BY <1>4, <1>8, <2>3 DEF DefaultInfo
  <2>4. CASE Written(js, a) /\ ~x.destroyed
    <3>1. x.code # NoCode
      <4>1. w.basic[a] = InfoOf(js, a)
        BY <1>4, <2>4
      <4> QED
        BY <1>8, <4>1 DEF InfoOf
    <3>2. ~x.created => db.basic[a].code = x.code
      BY <1>2, <2>4 DEF Deploys, Written, Loaded
    <3>3. ~x.created => world.basic[a].code # NoCode /\ Basic(cache, a).code # NoCode
      BY <1>2, <3>1, <3>2
    <3>4. ~x.created => cache[a] = Absent \/ cache[a].account_state # "NotExisting"
      BY <3>3 DEF Basic, DefaultInfo
    <3>5. StorageAt(c, a, k) = IF x.storage[k] # Absent THEN x.storage[k].present
                               ELSE IF x.created THEN 0 ELSE StorageAt(cache, a, k)
      BY <1>2, <2>4, <3>4, CommittedStorage DEF c
    <3> QED
      BY <1>4, <2>1, <2>4, <3>3, <3>5
  <2> QED
    BY <2>2, <2>3, <2>4
<1>9. ReadsFollowCommits'
    BY <1>1, <1>3, <1>7, <1>8 DEF ReadsFollowCommits
<1> QED
    BY <1>5, <1>9

LEMMA ReadsStep ==
    ASSUME ReadsInv, [TokensNext]_tvars
    PROVE  ReadsInv'
<1>1. TokensInv'
    BY TokensStep DEF ReadsInv
<1>2. CASE Commit
    BY <1>1, <1>2, ReadsCommit DEF ReadsInv
<1>3. CASE UNCHANGED <<under, cache, db, world>>
    BY <1>1, <1>3 DEF ReadsInv, Served, ReadsFollowCommits, Basic, StorageAt, DefaultInfo
<1>4. Commit \/ UNCHANGED <<under, cache, db, world>>
    BY DEF TokensNext, tvars, vars, Transact, Call, CallPrecompile, Store, Create, Return, Revert,
           SelfDestructs, Outside
<1> QED
    BY <1>2, <1>3, <1>4

\* CacheDB::commit, basic and storage, over any number of transactions and
\* every order of creations, destructions and stores: what the next
\* transaction reads is what the committed ones left.  A transfer to an
\* account that was destroyed lets the slots of the database under it answer
\* again; there is no code to ask for them until a creation clears them.
THEOREM CommitsTheorem == TokensSpec => []ReadsFollowCommits
<1>1. TokensInit => ReadsInv
  <2> SUFFICES ASSUME TokensInit PROVE ReadsInv
    OBVIOUS
  <2>1. TokensInv
    BY TokensStart
  <2>2. /\ under = db /\ cache = [a \in Address |-> Absent]
        /\ world = [basic |-> db.basic, storage |-> db.storage]
    BY DEF TokensInit
  <2> QED
    BY <2>1, <2>2 DEF ReadsInv, Served, ReadsFollowCommits, Basic, StorageAt
<1>2. ReadsInv /\ [TokensNext]_tvars => ReadsInv'
    BY ReadsStep
<1>3. ReadsInv => ReadsFollowCommits
    BY DEF ReadsInv
<1> QED
    BY <1>1, <1>2, <1>3, PTL DEF TokensSpec

-----------------------------------------------------------------------------
(* What commit does not skip                                               *)

\* Account x at address a has something to commit, but for minted tokens, and
\* no call that moved nothing has run it.
Lost(x, a) ==
    /\ x # Absent /\ a \notin entered
    /\ \/ x.nonce # db.basic[a].nonce
       \/ x.code # db.basic[a].code
       \/ x.destroyed
       \/ x.balances[BaseToken] # db.basic[a].balances[BaseToken]
       \/ \E k \in Slot : x.storage[k] # Absent /\ x.storage[k].present # x.storage[k].original

\* From j to k no touch is lost, and what gets something to commit is touched.
Marks(j, k) ==
    /\ j.touched \subseteq k.touched
    /\ \A a \in Address : Lost(k.accounts[a], a) => a \in k.touched \/ Lost(j.accounts[a], a)

LEMMA MarksTwice ==
    ASSUME NEW j, NEW k, NEW l, Marks(j, k), Marks(k, l)
    PROVE  Marks(j, l)
BY DEF Marks

LEMMA MarksSame ==
    ASSUME NEW j, NEW k, k.accounts = j.accounts, j.touched \subseteq k.touched
    PROVE  Marks(j, k)
BY DEF Marks

\* Changes of accounts that are touched, or run untouched.
LEMMA MarksTouched ==
    ASSUME NEW j, NEW k, j.touched \subseteq k.touched,
           \A b \in Address : b \in k.touched \cup entered \/ k.accounts[b] = j.accounts[b]
    PROVE  Marks(j, k)
<1> SUFFICES ASSUME NEW a \in Address, Lost(k.accounts[a], a), a \notin k.touched
             PROVE  Lost(j.accounts[a], a)
    BY DEF Marks
<1>1. a \notin entered
    BY DEF Lost
<1>2. k.accounts[a] = j.accounts[a]
    BY <1>1
<1> QED
    BY <1>2

\* load_account
LEMMA LoadMarks ==
    ASSUME NEW j \in World, NEW a \in Address, db \in Database
    PROVE  Marks(j, LoadAccount(j, a))
<1>1. CASE Loaded(j, a)
  <2>1. LoadAccount(j, a) = j
    BY <1>1 DEF LoadAccount
  <2> QED
    BY <2>1, MarksSame
<1>2. CASE ~Loaded(j, a)
  <2> DEFINE k == LoadAccount(j, a)
             x == AccountFrom(db.basic[a])
  <2>1. k.accounts = [j.accounts EXCEPT ![a] = x] /\ k.touched = j.touched
    BY <1>2 DEF LoadAccount, InsertAccount, Push, World
  <2>2. ~Lost(x, a)
    BY DEF AccountFrom, Lost
  <2> HIDE DEF k, x
  <2>3. \A b \in Address : k.accounts[b] = IF b = a THEN x ELSE j.accounts[b]
    BY <2>1 DEF World, Accounts
  <2>4. Marks(j, k)
    <3> SUFFICES ASSUME NEW b \in Address, Lost(k.accounts[b], b) PROVE Lost(j.accounts[b], b)
      BY <2>1 DEF Marks
    <3>1. b # a
      BY <2>2, <2>3
    <3>2. k.accounts[b] = j.accounts[b]
      BY <2>3, <3>1
    <3> QED
      BY <3>2
  <2> QED
    BY <2>4 DEF k
<1> QED
    BY <1>1, <1>2

\* load_native_token_ids
LEMMA LoadIdsMarks ==
    ASSUME NEW j \in World
    PROVE  Marks(j, LoadNativeTokenIds(j))
<1>1. LoadNativeTokenIds(j).accounts = j.accounts /\ LoadNativeTokenIds(j).touched = j.touched
    BY DEF LoadNativeTokenIds, Push, World
<1> QED
    BY <1>1, MarksSame

\* touch_account
LEMMA TouchMarks ==
    ASSUME NEW j \in World, NEW a \in Address
    PROVE  LET k == TouchAccount(j, a)
           IN  /\ k.accounts = j.accounts /\ k.touched = j.touched \cup {a}
               /\ Marks(j, k)
<1> DEFINE k == TouchAccount(j, a)
<1>1. k.accounts = j.accounts /\ k.touched = j.touched \cup {a}
    BY DEF TouchAccount, Push, World
<1> HIDE DEF k
<1>2. Marks(j, k)
    BY <1>1, MarksSame
<1> QED
    BY <1>1, <1>2 DEF k

\* set_balance of an account that is touched
LEMMA SetMarks ==
    ASSUME NEW j \in World, NEW a \in Address, Loaded(j, a), NEW t \in TokenId, NEW n \in Balance,
           a \in j.touched \/ t # BaseToken
    PROVE  LET k == SetBalance(j, a, t, n)
           IN  k \in World /\ k.touched = j.touched /\ k.journal = j.journal /\ Marks(j, k)
<1> DEFINE k == SetBalance(j, a, t, n)
           y == j.accounts[a]
           x == WithBalance(y, t, n)
<1>1. /\ k \in World /\ k.accounts = [j.accounts EXCEPT ![a] = x]
      /\ k.touched = j.touched /\ k.journal = j.journal
    BY SetBalanceIs
<1>2. y \in Account /\ j.accounts \in Accounts
    BY DEF World, Accounts, Loaded
<1>3. t # BaseToken /\ Lost(x, a) => Lost(y, a)
  <2>1. /\ x.nonce = y.nonce /\ x.code = y.code /\ x.destroyed = y.destroyed
        /\ x.storage = y.storage /\ (t # BaseToken => x.balances[BaseToken] = y.balances[BaseToken])
    BY <1>2, BoundsAssumption DEF WithBalance, Account
  <2> HIDE DEF x
  <2> QED
    BY <2>1 DEF Lost, Loaded
<1> HIDE DEF k, x
<1>4. \A b \in Address : k.accounts[b] = IF b = a THEN x ELSE j.accounts[b]
    BY <1>1, <1>2 DEF Accounts
<1>5. Marks(j, k)
  <2> SUFFICES ASSUME NEW b \in Address, Lost(k.accounts[b], b), b \notin k.touched
               PROVE  Lost(j.accounts[b], b)
    BY <1>1 DEF Marks
  <2>1. CASE b = a
    BY <1>1, <1>3, <1>4, <2>1
  <2>2. CASE b # a
    <3>1. k.accounts[b] = j.accounts[b]
      BY <1>4, <2>2
    <3> QED
      BY <3>1
  <2> QED
    BY <2>1, <2>2
<1> QED
    BY <1>1, <1>5 DEF k

\* One turn of the loop of transfer touches both accounts it changes.
LEMMA TransferOneMarks ==
    ASSUME NEW r, Sound(r.js), NEW from \in Address, NEW to \in Address, db \in Database,
           Loaded(r.js, from), Loaded(r.js, to), NEW transfer \in TokenTransfer
    PROVE  LET u == TransferOne(r, from, to, transfer)
           IN  /\ u.outcome # "overflow" => Marks(r.js, u.js)
               /\ u.outcome = "ok" => r.outcome = "ok" /\ from \in u.js.touched /\ to \in u.js.touched
<1> DEFINE t == transfer.id
           n == transfer.amount
           j == r.js
           j1 == TouchAccount(j, from)
           has == j1.accounts[from].balances[t]
           j0 == SetBalance(j1, from, t, has - n)
           j2 == TouchAccount(j0, to)
           got == j2.accounts[to].balances[t]
           j3 == SetBalance(j2, to, t, got + n)
           u == TransferOne(r, from, to, transfer)
<1>1. t \in TokenId /\ n \in Balance /\ MaxU256 \in Nat
    BY BoundsAssumption DEF TokenTransfer
<1> HIDE DEF t, n
<1>2. j \in World
    BY DEF Sound
<1>3. CASE r.outcome # "ok"
  <2>1. u = r
    BY <1>3 DEF TransferOne, t, n
  <2> QED
    BY <1>3, <2>1, MarksSame
<1>4. CASE r.outcome = "ok"
  <2>1. /\ Sound(j1) /\ j1 \in World /\ Loaded(j1, from) /\ Loaded(j1, to)
        /\ Marks(j, j1) /\ from \in j1.touched
    <3>1. Grows(j, j1, {}) /\ j1.accounts = j.accounts
      BY GrowsTouch
    <3>2. Sound(j1) /\ Marks(j, j1) /\ from \in j1.touched
      BY <1>2, <3>1, GrowsSound, TouchMarks
    <3> HIDE DEF j1
    <3> QED
      BY <3>1, <3>2 DEF Loaded, Sound
  <2> HIDE DEF j1
  <2>2. CASE has < n
    <3>1. u.js = j1 /\ u.outcome = "failed"
      BY <1>4, <2>2 DEF TransferOne, t, n, j1
    <3> QED
      BY <2>1, <3>1
  <2>3. CASE ~(has < n)
    <3>1. has \in Balance
      BY <1>1, <2>1 DEF World, Accounts, Account, Loaded
    <3> HIDE DEF has
    <3>2. has - n \in Balance
      BY <1>1, <2>3, <3>1 DEF Balance
    <3>3. /\ j0 \in World /\ Marks(j1, j0) /\ from \in j0.touched
          /\ Loaded(j0, to) /\ Sound(j0)
      <4>1. j0 \in World /\ Marks(j1, j0) /\ j0.touched = j1.touched /\ j0.journal = j1.journal
        BY <1>1, <2>1, <3>2, SetMarks
      <4>2. \A b \in Address : Loaded(j1, b) => Loaded(j0, b)
        <5> DEFINE v == has - n
        <5>1. v \in Balance
          BY <3>2
        <5> HIDE DEF v
        <5>2. \A b \in Address : Loaded(j1, b) => Loaded(SetBalance(j1, from, t, v), b)
          BY <1>1, <2>1, <5>1, SetBalanceKeeps
        <5> QED
          BY <5>2 DEF v
      <4>3. j1.touched \subseteq Address
        BY <2>1 DEF World
      <4> HIDE DEF j0
      <4> QED
        BY <2>1, <4>1, <4>2, <4>3 DEF Sound
    <3> HIDE DEF j0
    <3>4. /\ j2 \in World /\ Loaded(j2, to) /\ Marks(j0, j2) /\ from \in j2.touched
          /\ to \in j2.touched /\ Len(j2.journal) # 0
      <4>1. Grows(j0, j2, {}) /\ j2.accounts = j0.accounts
        BY <3>3, GrowsTouch
      <4>2. Marks(j0, j2) /\ j2.touched = j0.touched \cup {to}
        BY <3>3, TouchMarks
      <4>3. Sound(j2)
        BY <3>3, <4>1, GrowsSound
      <4> HIDE DEF j2
      <4> QED
        BY <3>3, <4>1, <4>2, <4>3 DEF Loaded, Sound
    <3> HIDE DEF j2
    <3>5. CASE got + n > MaxU256
      <4>1. u.outcome = "overflow"
        BY <1>4, <2>3, <3>5 DEF TransferOne, t, n, j1, j2, j0, has, got
      <4> QED
        BY <4>1
    <3>6. CASE ~(got + n > MaxU256)
      <4>1. u.outcome = "ok" /\ u.js = Push(j3, BalanceTransfer(from, to, t, n))
        BY <1>4, <2>3, <3>6 DEF TransferOne, t, n, j1, j2, j0, has, got
      <4>2. got \in Balance
        BY <1>1, <3>4 DEF World, Accounts, Account, Loaded
      <4> HIDE DEF got
      <4>3. got + n \in Balance
        BY <1>1, <3>6, <4>2 DEF Balance
      <4>4. j3 \in World /\ Marks(j2, j3) /\ j3.touched = j2.touched
        BY <1>1, <3>4, <4>3, SetMarks
      <4> HIDE DEF j3
      <4>5. u.js.accounts = j3.accounts /\ u.js.touched = j3.touched
        BY <4>1, <4>4 DEF Push, World
      <4> HIDE DEF u
      <4>6. Marks(j3, u.js)
        BY <4>5, MarksSame
      <4>7. Marks(j, u.js)
        BY <2>1, <3>3, <3>4, <4>4, <4>6, MarksTwice
      <4> QED
        BY <1>4, <3>4, <4>1, <4>4, <4>5, <4>7 DEF u
    <3> QED
      BY <3>5, <3>6
  <2> QED
    BY <2>2, <2>3
<1> QED
    BY <1>3, <1>4

\* transfer touches both accounts, if there is something to transfer.
LEMMA TransferMarks ==
    ASSUME NEW j, Sound(j), NEW from \in Address, NEW to \in Address,
           NEW transfers \in Seq(TokenTransfer), db \in Database
    PROVE  LET r == TransferAll(j, from, to, transfers)
           IN  /\ r.outcome # "overflow" => Marks(j, r.js)
               /\ r.outcome = "ok" /\ Len(transfers) # 0 => to \in r.js.touched
<1> DEFINE c == [from |-> from, to |-> to, transfers |-> transfers]
           j0 == LoadNativeTokenIds(j)
           j1 == LoadAccount(j0, from)
           j2 == LoadAccount(j1, to)
           start == [js |-> j2, outcome |-> "ok"]
           after(i) == TransferLoop!Iterate(c, start, i)
           fine(r, i) == /\ r.outcome = "ok" => Sound(r.js) /\ Loaded(r.js, from) /\ Loaded(r.js, to)
                         /\ r.outcome # "overflow" => Marks(j2, r.js)
                         /\ r.outcome = "ok" /\ i # 0 => to \in r.js.touched
           T == {i \in Nat : i <= Len(transfers) => fine(after(i), i)}
<1>0. j \in World
    BY DEF Sound
<1>1. Sound(j0) /\ Marks(j, j0)
    BY <1>0, GrowsLoadIds, GrowsSound, LoadIdsMarks
<1> HIDE DEF j0
<1>2. Sound(j1) /\ Loaded(j1, from) /\ Marks(j0, j1)
  <2>1. j0 \in World /\ Len(j0.journal) # 0
    BY <1>1 DEF Sound
  <2> QED
    BY <1>1, <2>1, GrowsLoad, GrowsSound, LoadMarks
<1> HIDE DEF j1
<1>3. Sound(j2) /\ Loaded(j2, to) /\ Loaded(j2, from) /\ Marks(j1, j2)
  <2>1. j1 \in World /\ Len(j1.journal) # 0
    BY <1>2 DEF Sound
  <2>2. Grows(j1, j2, {}) /\ Loaded(j2, to)
    BY <1>2, GrowsLoad
  <2>3. Sound(j2) /\ Marks(j1, j2)
    BY <1>2, <2>1, <2>2, GrowsSound, LoadMarks
  <2> HIDE DEF j2
  <2> QED
    BY <1>2, <2>2, <2>3 DEF Grows, Evolves, Loaded
<1> HIDE DEF j2
<1>4. Marks(j, j2)
    BY <1>1, <1>2, <1>3, MarksTwice
<1>5. 0 \in T
  <2>1. after(0) = start
    BY TransferLoop!IterateZero
  <2>2. fine(start, 0)
    BY <1>3, MarksSame
  <2> HIDE DEF after, start, fine
  <2> QED
    BY <2>1, <2>2
<1>6. ASSUME NEW i \in T PROVE i + 1 \in T
  <2> SUFFICES ASSUME i + 1 <= Len(transfers) PROVE fine(after(i + 1), i + 1)
    OBVIOUS
  <2>1. after(i + 1) = TransferTurn(c, after(i), i + 1)
    BY TransferLoop!IterateNext
  <2>2. i \in Nat /\ Len(transfers) \in Nat
    OBVIOUS
  <2>3. i + 1 \in 1 .. Len(transfers) /\ i <= Len(transfers)
    BY <2>2
  <2>4. transfers[i + 1] \in TokenTransfer
    BY <2>3
  <2>5. TransferTurn(c, after(i), i + 1) = TransferOne(after(i), from, to, transfers[i + 1])
    BY DEF TransferTurn
  <2> DEFINE r == after(i)
             x == transfers[i + 1]
             u == TransferOne(r, from, to, x)
  <2> HIDE DEF after, c
  <2>6. fine(r, i)
    BY <2>3
  <2> HIDE DEF r, x
  <2>7. CASE r.outcome # "ok"
    <3>1. u = r
      BY <2>7 DEF TransferOne
    <3>2. fine(u, i + 1)
      BY <2>6, <2>7, <3>1
    <3> QED
      BY <2>1, <2>5, <3>2 DEF r, x
  <2>8. CASE r.outcome = "ok"
    <3>1. Sound(r.js) /\ Loaded(r.js, from) /\ Loaded(r.js, to) /\ Marks(j2, r.js)
      BY <2>6, <2>8
    <3>2. /\ u.outcome # "overflow" => Marks(r.js, u.js)
          /\ u.outcome = "ok" => to \in u.js.touched
      BY <2>4, <3>1, TransferOneMarks DEF x
    <3>3. u.outcome = "ok" => Sound(u.js) /\ Loaded(u.js, from) /\ Loaded(u.js, to)
      <4>1. Transferred(r.js, u, from)
        BY <2>4, <2>8, <3>1, GrowsTransferOne DEF x
      <4> HIDE DEF u
      <4>2. u.outcome = "ok" => Grows(r.js, u.js, {})
        BY <4>1 DEF Transferred
      <4>3. Grows(r.js, u.js, {}) => Sound(u.js)
        BY <3>1, GrowsSound
      <4>4. Grows(r.js, u.js, {}) => Loaded(u.js, from) /\ Loaded(u.js, to)
        BY <3>1 DEF Grows, Evolves, Loaded
      <4> QED
        BY <4>2, <4>3, <4>4
    <3> HIDE DEF u
    <3>4. u.outcome # "overflow" => Marks(j2, u.js)
      BY <3>1, <3>2, MarksTwice
    <3>5. fine(u, i + 1)
      BY <3>2, <3>3, <3>4
    <3> QED
      BY <2>1, <2>5, <3>5 DEF r, x, u
  <2> QED
    BY <2>7, <2>8
<1>7. Len(transfers) \in T
  <2>1. T = Nat
    <3> HIDE DEF T
    <3>1. T \in SUBSET Nat
      BY DEF T
    <3> QED
      BY <1>5, <1>6, <3>1, TransferLoop!SetInduction
  <2> QED
    BY <2>1
<1>8. TransferAll(j, from, to, transfers) = after(Len(transfers))
    BY DEF TransferAll, j0, j1, j2
<1> DEFINE r == after(Len(transfers))
<1>9. fine(r, Len(transfers))
    BY <1>7
<1> HIDE DEF after, r
<1> QED
    BY <1>4, <1>8, <1>9, MarksTwice DEF r

\* No minter's tokens are the base token: token_id_address hashes the minter.
MintedIsNotBase == \A p \in Address \X SubId : TokenIdAddress[p] # BaseToken

\* What an answer p of the precompile has marked of j.
Answering(j, p) == ~p.overflowed => Marks(j, p.js)

LEMMA AnsweringPlain ==
    ASSUME NEW j, NEW k, Marks(j, k)
    PROVE  Answering(j, Result(k)) /\ Answering(j, Err(k)) /\ Answering(j, Panic(k))
BY DEF Answering, Result, Err, Panic

LEMMA AnsweringAfter ==
    ASSUME NEW j, NEW k, Marks(j, k), NEW p, Answering(k, p)
    PROVE  Answering(j, p)
BY MarksTwice DEF Answering

\* The token ids and an account are loaded.
LEMMA LoadBothMarks ==
    ASSUME NEW j, Sound(j), NEW a \in Address, db \in Database
    PROVE  Marks(j, LoadAccount(LoadNativeTokenIds(j), a))
<1> DEFINE i == LoadNativeTokenIds(j)
<1>1. j \in World
    BY DEF Sound
<1>2. Marks(j, i) /\ Sound(i)
    BY <1>1, LoadIdsMarks, GrowsLoadIds, GrowsSound
<1> HIDE DEF i
<1>3. i \in World
    BY <1>2 DEF Sound
<1>4. Marks(i, LoadAccount(i, a))
    BY <1>3, LoadMarks
<1> QED
    BY <1>2, <1>4, MarksTwice DEF i

\* balance_of
LEMMA BalanceOfAnswering ==
    ASSUME NEW j, Sound(j), db \in Database, NEW input \in Calldata,
           input.selector = "balanceOf"
    PROVE  Answering(j, BalanceOf(j, input))
<1> DEFINE k == LoadAccount(j, input.words[1])
<1>1. j \in World
    BY DEF Sound
<1>2. CASE Exactly(input, 2)
  <2>1. input.words[1] \in Address
    BY <1>2, CalldataAssumption
  <2>2. Marks(j, k)
    BY <1>1, <2>1, LoadMarks
  <2>3. BalanceOf(j, input) = Result(k)
    BY <1>2 DEF BalanceOf
  <2> HIDE DEF k
  <2> QED
    BY <2>2, <2>3, AnsweringPlain
<1>3. CASE ~Exactly(input, 2)
  <2>1. BalanceOf(j, input) = Err(j)
    BY <1>3 DEF BalanceOf
  <2> QED
    BY <2>1, MarksSame, AnsweringPlain
<1> QED
    BY <1>2, <1>3

\* mint
LEMMA MintAnswering ==
    ASSUME NEW j, Sound(j), db \in Database, NEW c \in Address, NEW input \in Calldata,
           input.selector = "mint", MintedIsNotBase
    PROVE  Answering(j, MintTokens(j, c, input))
<1> DEFINE t == TokenIdAddress[<<c, input.words[1]>>]
           a == input.words[2]
           n == input.words[3]
           k == LoadAccount(LoadNativeTokenIds(j), c)
           balance == k.accounts[a].balances[t]
           j1 == SetBalance(k, a, t, balance + n)
           j2 == [j1 EXCEPT !.token_ids = IF \E i \in DOMAIN @ : @[i] = t THEN @
                                          ELSE Append(@, t)]
           e == TokensMinted(a, t, n)
           p == MintTokens(j, c, input)
<1>1. Marks(j, k) /\ Marks(j, j) /\ k \in World
    BY LoadBothMarks, LoadBothGrows, MarksSame DEF Sound
<1>2. \/ p = Err(j)
      \/ p = Err(k) \/ p = Panic(k)
      \/ /\ Exactly(input, 3) /\ Loaded(k, a) /\ ~(balance + n > MaxU256)
         /\ p = Result(Push(j2, e))
    BY DEF MintTokens
<1> SUFFICES Answering(j, p)
    OBVIOUS
<1> HIDE DEF k, p
<1>3. CASE p = Err(j) \/ p = Err(k) \/ p = Panic(k)
    BY <1>1, <1>3, AnsweringPlain
<1>4. CASE /\ Exactly(input, 3) /\ Loaded(k, a) /\ ~(balance + n > MaxU256)
           /\ p = Result(Push(j2, e))
  <2>1. a \in Address /\ t \in TokenId /\ n \in Balance /\ MaxU256 \in Nat /\ t # BaseToken
    <3>1. a \in Address /\ input.words[1] \in SubId /\ n \in Balance
      BY <1>4, CalldataAssumption
    <3> QED
      BY <3>1, OperandsAssumption, BoundsAssumption DEF MintedIsNotBase
  <2> HIDE DEF a, t, n
  <2>2. balance \in Balance
    BY <1>1, <1>4, <2>1 DEF World, Accounts, Account, Loaded
  <2> HIDE DEF balance
  <2>3. balance + n \in Balance
    BY <1>4, <2>1, <2>2 DEF Balance
  <2>4. j1 \in World /\ Marks(k, j1)
    BY <1>1, <1>4, <2>1, <2>3, SetMarks
  <2> HIDE DEF j1
  <2>5. /\ j2 \in [{"accounts", "transient_storage", "touched", "balance_keys", "token_ids",
                    "journal"} -> {j2[f] : f \in DOMAIN j2}]
        /\ j2.accounts = j1.accounts /\ j2.touched = j1.touched
    BY <2>4 DEF World
  <2> HIDE DEF j2
  <2>6. Push(j2, e).accounts = j1.accounts /\ Push(j2, e).touched = j1.touched
    BY <2>5 DEF Push
  <2>7. Marks(j, Push(j2, e))
    BY <1>1, <2>4, <2>6, MarksTwice, MarksSame
  <2> QED
    BY <1>4, <2>7, AnsweringPlain
<1> QED
    BY <1>2, <1>3, <1>4

\* burn
LEMMA BurnAnswering ==
    ASSUME NEW j, Sound(j), db \in Database, NEW c \in Address, NEW input \in Calldata,
           input.selector = "burn", MintedIsNotBase
    PROVE  Answering(j, BurnTokens(j, c, input))
<1> DEFINE t == TokenIdAddress[<<c, input.words[1]>>]
           a == input.words[2]
           n == input.words[3]
           k == LoadAccount(LoadNativeTokenIds(j), a)
           balance == k.accounts[a].balances[t]
           j1 == SetBalance(k, a, t, balance - n)
           e == TokensBurned(a, t, n)
           p == BurnTokens(j, c, input)
<1>1. \/ p = Err(j)
      \/ Exactly(input, 3) /\ p = Err(k)
      \/ Exactly(input, 3) /\ ~(balance < n) /\ p = Result(Push(j1, e))
    BY DEF BurnTokens
<1> SUFFICES Answering(j, p)
    OBVIOUS
<1> HIDE DEF p
<1>2. CASE p = Err(j)
    BY <1>2, MarksSame, AnsweringPlain
<1>3. CASE /\ Exactly(input, 3)
           /\ p = Err(k) \/ (~(balance < n) /\ p = Result(Push(j1, e)))
  <2>1. a \in Address /\ t \in TokenId /\ n \in Balance /\ MaxU256 \in Nat /\ t # BaseToken
    <3>1. a \in Address /\ input.words[1] \in SubId /\ n \in Balance
      BY <1>3, CalldataAssumption
    <3> QED
      BY <3>1, OperandsAssumption, BoundsAssumption DEF MintedIsNotBase
  <2> HIDE DEF a, t, n
  <2>2. Marks(j, k) /\ k \in World /\ Loaded(k, a)
    BY <2>1, LoadBothMarks, LoadBothGrows DEF Sound
  <2> HIDE DEF k
  <2>3. CASE p = Err(k)
    BY <2>2, <2>3, AnsweringPlain
  <2>4. CASE ~(balance < n) /\ p = Result(Push(j1, e))
    <3>1. balance \in Balance
      BY <2>1, <2>2 DEF World, Accounts, Account, Loaded
    <3> HIDE DEF balance
    <3>2. balance - n \in Balance
      BY <2>1, <2>4, <3>1 DEF Balance
    <3>3. j1 \in World /\ Marks(k, j1)
      BY <2>1, <2>2, <3>2, SetMarks
    <3> HIDE DEF j1
    <3>4. Push(j1, e).accounts = j1.accounts /\ Push(j1, e).touched = j1.touched
      BY <3>3 DEF Push, World
    <3>5. Marks(j, Push(j1, e))
      BY <2>2, <3>3, <3>4, MarksTwice, MarksSame
    <3> QED
      BY <2>4, <3>5, AnsweringPlain
  <2> QED
    BY <1>3, <2>3, <2>4
<1> QED
    BY <1>1, <1>2, <1>3

\* transfer and transfer_multiple
LEMMA TransferAnswering ==
    ASSUME NEW j, Sound(j), db \in Database, NEW c \in Address, NEW q, WellParsed(q)
    PROVE  Answering(j, TransferTokens(j, c, q))
<1> DEFINE r == TransferAll(j, c, q.to, q.transfers)
           p == TransferTokens(j, c, q)
<1>1. CASE ~q.valid
  <2>1. p = Err(j)
    BY <1>1 DEF TransferTokens
  <2> QED
    BY <2>1, MarksSame, AnsweringPlain
<1>2. CASE q.valid
  <2>1. r.outcome # "overflow" => Marks(j, r.js)
    BY TransferMarks DEF WellParsed
  <2>2. p = [Result(r.js) EXCEPT !.overflowed = r.outcome = "overflow"]
    BY <1>2 DEF TransferTokens
  <2> HIDE DEF r, p
  <2>3. p.js = r.js /\ p.answer = "result" /\ p.overflowed = (r.outcome = "overflow")
    BY <2>2 DEF Result
  <2>4. Answering(j, p)
    BY <2>1, <2>3 DEF Answering
  <2> QED
    BY <2>4 DEF p
<1> QED
    BY <1>1, <1>2

\* transfer_and_call and transfer_multiple_and_call
LEMMA CallAnswering ==
    ASSUME NEW j, Sound(j), db \in Database, NEW q, WellParsed(q)
    PROVE  Answering(j, CallWithTokens(j, q))
<1> DEFINE k == LoadAccount(j, q.to)
           p == CallWithTokens(j, q)
<1>1. Marks(j, k) /\ Marks(j, j)
    BY LoadMarks, MarksSame DEF Sound, WellParsed
<1>2. \/ p = Err(j) \/ p = Err(k) \/ p = Panic(k)
      \/ q.valid /\ ~(q.rest < 28) /\ p = NewCall(k, q)
    BY DEF CallWithTokens
<1> SUFFICES Answering(j, p)
    OBVIOUS
<1> HIDE DEF k, p
<1>3. CASE p = Err(j) \/ p = Err(k) \/ p = Panic(k)
    BY <1>1, <1>3, AnsweringPlain
<1>4. CASE q.valid /\ ~(q.rest < 28) /\ p = NewCall(k, q)
    BY <1>1, <1>4 DEF Answering, NewCall
<1> QED
    BY <1>2, <1>3, <1>4

\* call_mut
LEMMA CallMutAnswering ==
    ASSUME NEW j, Sound(j), db \in Database, NEW inputs, inputs.target \in Address,
           NEW input \in Calldata \cup {NoInput}, MintedIsNotBase
    PROVE  Answering(j, CallMut(j, inputs, input))
<1> DEFINE c == inputs.target
           k == LoadAccount(j, c)
           p == CallMut(j, inputs, input)
           sel == input.selector
<1>1. Marks(j, k) /\ Marks(j, j) /\ Marks(k, k) /\ Sound(k)
    BY LoadMarks, LoadGrows, MarksSame DEF Sound
<1>2. sel \in {"balanceOf", "mint", "burn", "transfer", "transferMultiple", "transferAndCall",
               "transferMultipleAndCall", "getCallValues", "unknown"}
    BY CalldataAssumption DEF NoInput
<1>3. CASE sel = "balanceOf"
  <2>1. input \in Calldata
    BY <1>3 DEF NoInput
  <2>2. p = BalanceOf(j, input)
    BY <1>3 DEF CallMut
  <2> QED
    BY <1>3, <2>1, <2>2, BalanceOfAnswering
<1>4. CASE sel # "balanceOf" /\ (sel = "unknown" \/ inputs.is_static \/ ~HasCode(k, c))
  <2>1. p = Err(j) \/ p = Err(k)
    BY <1>4 DEF CallMut
  <2> QED
    BY <1>1, <2>1, AnsweringPlain
<1>5. CASE sel \notin {"balanceOf", "unknown"} /\ ~inputs.is_static /\ HasCode(k, c)
  <2>1. input \in Calldata
    BY <1>5 DEF NoInput
  <2>2. p = CASE sel = "mint" -> MintTokens(k, c, input)
              [] sel = "burn" -> BurnTokens(k, c, input)
              [] sel = "transfer" -> TransferTokens(k, c, ParseTransfer(input))
              [] sel = "transferMultiple" -> TransferTokens(k, c, ParseTransferMultiple(input))
              [] sel = "transferAndCall" -> CallWithTokens(k, ParseTransferAndCall(input))
              [] sel = "transferMultipleAndCall" ->
                    CallWithTokens(k, ParseTransferMultipleAndCall(input))
              [] sel = "getCallValues" -> Result(k)
    BY <1>5 DEF CallMut
  <2> SUFFICES Answering(k, p)
    BY <1>1, AnsweringAfter
  <2> HIDE DEF p, k
  <2>3. CASE sel = "mint"
    BY <1>1, <2>1, <2>2, <2>3, MintAnswering
  <2>4. CASE sel = "burn"
    BY <1>1, <2>1, <2>2, <2>4, BurnAnswering
  <2>5. CASE sel = "transfer"
    <3>1. WellParsed(ParseTransfer(input)) /\ p = TransferTokens(k, c, ParseTransfer(input))
      BY <2>1, <2>2, <2>5, CalldataAssumption
    <3> QED
      BY <1>1, <3>1, TransferAnswering
  <2>6. CASE sel = "transferMultiple"
    <3>1. /\ WellParsed(ParseTransferMultiple(input))
          /\ p = TransferTokens(k, c, ParseTransferMultiple(input))
      BY <2>1, <2>2, <2>6, CalldataAssumption
    <3> QED
      BY <1>1, <3>1, TransferAnswering
  <2>7. CASE sel = "transferAndCall"
    <3> DEFINE q == ParseTransferAndCall(input)
    <3>1. WellParsed(q) /\ p = CallWithTokens(k, q)
      BY <2>1, <2>2, <2>7, CalldataAssumption
    <3> HIDE DEF q
    <3> QED
      BY <1>1, <3>1, CallAnswering
  <2>8. CASE sel = "transferMultipleAndCall"
    <3> DEFINE q == ParseTransferMultipleAndCall(input)
    <3>1. WellParsed(q) /\ p = CallWithTokens(k, q)
      BY <2>1, <2>2, <2>8, CalldataAssumption
    <3> HIDE DEF q
    <3> QED
      BY <1>1, <3>1, CallAnswering
  <2>9. CASE sel = "getCallValues"
    <3>1. p = Result(k)
      BY <2>2, <2>9
    <3> QED
      BY <1>1, <3>1, AnsweringPlain
  <2> QED
    BY <1>2, <1>5, <2>3, <2>4, <2>5, <2>6, <2>7, <2>8, <2>9
<1> QED
    BY <1>2, <1>3, <1>4, <1>5

-----------------------------------------------------------------------------
(* Touches and the call stack                                              *)

\* What has something to commit is touched, and so are the accounts that the
\* frames execute since they were opened, but for those of U, now and whatever
\* is undone.
Touching(j, fs, cs, U) ==
    /\ \A i \in 0 .. Len(j.journal) : \A a \in Address :
          Lost(Unwound(j, i).accounts[a], a) => a \in UnwoundTouched(j, i)
    /\ \A k \in DOMAIN fs : \A i \in fs[k].journal_i + 1 .. Len(j.journal) :
          cs[k].target \in UnwoundTouched(j, i) \cup U

\* Nothing undone.
LEMMA TouchedNow ==
    ASSUME NEW j \in World
    PROVE  /\ Unwound(j, Len(j.journal)).accounts = j.accounts
           /\ UnwoundTouched(j, Len(j.journal)) = j.touched
<1>1. Unwound(j, Len(j.journal)) = Core(j)
    BY PastPresent DEF World, Vector
<1>2. EntriesAfter(j, Len(j.journal)) = {}
  <2>1. Len(j.journal) \in Nat
    BY DEF World
  <2>2. Len(j.journal) + 1 .. Len(j.journal) = {}
    BY <2>1
  <2> QED
    BY <2>2 DEF EntriesAfter
<1> QED
    BY <1>1, <1>2 DEF Core, UnwoundTouched

\* Later changes do not take a touch away from the past.
LEMMA TouchedPast ==
    ASSUME NEW j, NEW k, NEW X, Grows(j, k, X), j.touched \subseteq k.touched,
           NEW i \in 0 .. Len(j.journal) - 1
    PROVE  UnwoundTouched(j, i) \subseteq UnwoundTouched(k, i)
<1>1. UnwoundTouched(k, i) \ {Precompile3} = UnwoundTouched(j, i) \ {Precompile3}
    BY DEF Grows
<1>2. Precompile3 \in UnwoundTouched(j, i) => Precompile3 \in UnwoundTouched(k, i)
    BY DEF UnwoundTouched
<1> QED
    BY <1>1, <1>2

\* Journaled changes that mark what they change.
LEMMA TouchingGrows ==
    ASSUME NEW U, NEW j, NEW fs, NEW cs, Stacked(j, fs, cs), Touching(j, fs, cs, U),
           NEW k, NEW X, Grows(j, k, X), Marks(j, k)
    PROVE  Touching(k, fs, cs, U)
<1> DEFINE n == Len(j.journal)
<1>1. /\ n \in Nat \ {0} /\ Len(k.journal) = n
      /\ \A i \in 0 .. n - 1 : Unwound(k, i) = Unwound(j, i)
      /\ Unwound(k, n).accounts = k.accounts
      /\ Unwound(j, n).accounts = j.accounts
    BY PastOfGrown DEF Stacked
<1>2. /\ UnwoundTouched(k, n) = k.touched /\ UnwoundTouched(j, n) = j.touched
      /\ j.touched \subseteq k.touched
  <2>1. j \in World /\ k \in World
    BY DEF Stacked, History, Sound, Grows
  <2> QED
    BY <1>1, <2>1, TouchedNow DEF Marks
<1>3. \A i \in 0 .. n : UnwoundTouched(j, i) \subseteq UnwoundTouched(k, i)
  <2> SUFFICES ASSUME NEW i \in 0 .. n PROVE UnwoundTouched(j, i) \subseteq UnwoundTouched(k, i)
    OBVIOUS
  <2>1. CASE i = n
    BY <1>2, <2>1
  <2>2. CASE i # n
    BY <1>1, <1>2, <2>2, TouchedPast
  <2> QED
    BY <2>1, <2>2
<1>4. ASSUME NEW i \in 0 .. n, NEW a \in Address, Lost(Unwound(k, i).accounts[a], a)
      PROVE  a \in UnwoundTouched(k, i)
  <2>1. CASE i = n
    <3>1. a \in k.touched \/ Lost(j.accounts[a], a)
      BY <1>1, <1>4, <2>1 DEF Marks
    <3>2. Lost(j.accounts[a], a) => a \in j.touched
      BY <1>1, <1>2, <1>4, <2>1 DEF Touching
    <3> QED
      BY <1>2, <2>1, <3>1, <3>2
  <2>2. CASE i # n
    <3>1. i \in 0 .. n - 1
      BY <1>1, <2>2
    <3>2. a \in UnwoundTouched(j, i)
      BY <1>1, <1>4, <3>1 DEF Touching
    <3> QED
      BY <1>3, <3>2
  <2> QED
    BY <2>1, <2>2
<1>5. ASSUME NEW f \in DOMAIN fs, NEW i \in fs[f].journal_i + 1 .. n
      PROVE  cs[f].target \in UnwoundTouched(k, i) \cup U
  <2>1. fs[f].journal_i \in 1 .. n - 1
    BY DEF Stacked, Within
  <2>2. i \in 0 .. n
    BY <1>1, <2>1
  <2>3. cs[f].target \in UnwoundTouched(j, i) \cup U
    BY DEF Touching
  <2> QED
    BY <1>3, <2>2, <2>3
<1> QED
    BY <1>1, <1>4, <1>5 DEF Touching

\* More accounts that need not be touched.
LEMMA TouchingMore ==
    ASSUME NEW U, NEW V, U \subseteq V, NEW j, NEW fs, NEW cs, Touching(j, fs, cs, U)
    PROVE  Touching(j, fs, cs, V)
BY DEF Touching

\* checkpoint
LEMMA TouchingOpen ==
    ASSUME NEW U, NEW j, NEW fs, NEW cs, Stacked(j, fs, cs), Touching(j, fs, cs, U)
    PROVE  Touching(OpenVector(j), fs, cs, U)
<1> DEFINE k == OpenVector(j)
           n == Len(j.journal)
<1>1. /\ Sound(k) /\ k.accounts = j.accounts /\ k.touched = j.touched /\ Len(k.journal) = n + 1
    BY StackedOpen
<1>2. j \in World /\ Sound(j) /\ n \in Nat \ {0} /\ k \in World
    BY <1>1 DEF Stacked, History, Sound, World
<1>3. \A i \in 0 .. n : Unwound(k, i) = Unwound(j, i)
    BY <1>2, PastOpened
<1>4. k.journal = Append(j.journal, << >>)
    BY <1>2 DEF OpenVector, World
<1> HIDE DEF k
<1>5. ASSUME NEW i \in 0 .. n PROVE UnwoundTouched(k, i) = UnwoundTouched(j, i)
  <2> DEFINE q == j.journal
             r == k.journal
             Q(v) == {q[v][x] : x \in DOMAIN q[v]}
             R(v) == {r[v][x] : x \in DOMAIN r[v]}
  <2>1. /\ Len(r) = Len(q) + 1 /\ r[Len(q) + 1] = << >>
        /\ \A v \in 1 .. Len(q) : r[v] = q[v]
    BY <1>2, <1>4 DEF World
  <2>2. R(Len(q) + 1) = {}
    BY <2>1
  <2>3. \A v \in i + 1 .. Len(q) : R(v) = Q(v) /\ v \in i + 1 .. Len(q) + 1
    <3>1. \A v \in i + 1 .. Len(q) : v \in 1 .. Len(q) /\ v \in i + 1 .. Len(q) + 1
      BY <1>2
    <3> QED
      BY <2>1, <3>1
  <2>4. \A v \in i + 1 .. Len(q) + 1 : v \in i + 1 .. Len(q) \/ v = Len(q) + 1
    BY <1>2
  <2> HIDE DEF R, Q, r, q
  <2>5. UNION {R(v) : v \in i + 1 .. Len(q) + 1} = UNION {Q(v) : v \in i + 1 .. Len(q)}
    BY <2>2, <2>3, <2>4
  <2>6. EntriesAfter(k, i) = EntriesAfter(j, i)
    BY <2>1, <2>5 DEF EntriesAfter, R, Q, r, q
  <2> QED
    BY <1>1, <2>6 DEF UnwoundTouched
<1>6. /\ Unwound(k, n + 1).accounts = Unwound(j, n).accounts
      /\ UnwoundTouched(k, n + 1) = UnwoundTouched(j, n)
    BY <1>1, <1>2, TouchedNow
<1>7. ASSUME NEW i \in 0 .. n + 1, NEW a \in Address, Lost(Unwound(k, i).accounts[a], a)
      PROVE  a \in UnwoundTouched(k, i)
  <2>1. n \in 0 .. n
    BY <1>2
  <2>2. CASE i = n + 1
    BY <1>6, <1>7, <2>1, <2>2 DEF Touching
  <2>3. CASE i # n + 1
    <3>1. i \in 0 .. n
      BY <1>2, <2>3
    <3> QED
      BY <1>3, <1>5, <1>7, <3>1 DEF Touching
  <2> QED
    BY <2>2, <2>3
<1>8. ASSUME NEW f \in DOMAIN fs, NEW i \in fs[f].journal_i + 1 .. n + 1
      PROVE  cs[f].target \in UnwoundTouched(k, i) \cup U
  <2>1. fs[f].journal_i \in 1 .. n - 1
    BY DEF Stacked, Within
  <2>2. n \in fs[f].journal_i + 1 .. n
    BY <1>2, <2>1
  <2>3. CASE i = n + 1
    BY <1>6, <2>2, <2>3 DEF Touching
  <2>4. CASE i # n + 1
    <3>1. i \in 0 .. n /\ i \in fs[f].journal_i + 1 .. n
      BY <1>2, <2>1, <2>4
    <3> QED
      BY <1>5, <3>1 DEF Touching
  <2> QED
    BY <2>3, <2>4
<1> QED
    BY <1>1, <1>7, <1>8 DEF Touching, k

\* The entries after a checkpoint are those a revert leaves and those it undoes.
LEMMA RevertEntries ==
    ASSUME NEW j \in World, NEW n \in 0 .. Len(j.journal), NEW i \in 0 .. n
    PROVE  EntriesAfter(j, i) = EntriesAfter(RevertTo(j, n), i) \cup EntriesAfter(j, n)
<1> DEFINE k == RevertTo(j, n)
<1>1. k.journal = SubSeq(j.journal, 1, n)
    BY DEF RevertTo
<1> HIDE DEF k
<1>2. EntriesAfter(j, i) = EntriesAfter(k, i) \cup EntriesAfter(j, n)
    BY <1>1, EntriesSplit
<1> QED
    BY <1>2 DEF k

\* checkpoint_revert to a checkpoint that is newer than those of the frames.
LEMMA TouchingRevert ==
    ASSUME NEW U, NEW j, NEW fs, NEW cs, Stacked(j, fs, cs), Touching(j, fs, cs, U),
           NEW n \in 1 .. Len(j.journal), \A f \in DOMAIN fs : fs[f].journal_i < n
    PROVE  Touching(RevertTo(j, n), fs, cs, U)
<1> DEFINE k == RevertTo(j, n)
<1>1. History(j) /\ j \in World /\ Len(j.journal) \in Nat \ {0} /\ Loading(j)
    BY DEF Stacked, History, Sound, World
<1>2. Len(k.journal) = n /\ \A i \in 0 .. n : Unwound(k, i) = Unwound(j, i)
    BY <1>1, HistoryRevert
<1>3. /\ k.touched = {a \in UnwoundTouched(j, n) : Unwound(j, n).accounts[a] # Absent}
      /\ k.journal = SubSeq(j.journal, 1, n)
    BY DEF RevertTo
<1> HIDE DEF k
<1>4. /\ \A i \in 0 .. n : i \in 0 .. Len(j.journal) /\ i <= n
      /\ n \in 0 .. Len(j.journal)
    BY <1>1
<1>5. ASSUME NEW i \in 0 .. n, NEW a \in Address, Unwound(j, i).accounts[a] # Absent,
             a \in UnwoundTouched(j, i)
      PROVE  a \in UnwoundTouched(k, i)
  <2>1. EntriesAfter(j, i) = EntriesAfter(k, i) \cup EntriesAfter(j, n)
    BY <1>1, <1>4, RevertEntries DEF k
  <2>2. Unwound(j, n).accounts[a] # Absent
    BY <1>1, <1>4, <1>5 DEF Loading
  <2> QED
    BY <1>3, <1>5, <2>1, <2>2 DEF UnwoundTouched
<1>6. ASSUME NEW i \in 0 .. n, NEW a \in Address, Lost(Unwound(k, i).accounts[a], a)
      PROVE  a \in UnwoundTouched(k, i)
  <2>1. Unwound(j, i).accounts[a] # Absent
    BY <1>2, <1>6 DEF Lost
  <2>2. a \in UnwoundTouched(j, i)
    BY <1>2, <1>4, <1>6 DEF Touching
  <2> QED
    BY <1>5, <2>1, <2>2
<1>7. ASSUME NEW f \in DOMAIN fs, NEW i \in fs[f].journal_i + 1 .. n
      PROVE  cs[f].target \in UnwoundTouched(k, i) \cup U
  <2>1. fs[f].journal_i \in 1 .. Len(j.journal) - 1
    BY DEF Stacked, Within
  <2>2. i \in fs[f].journal_i + 1 .. Len(j.journal) /\ i \in 0 .. n
    BY <1>1, <2>1
  <2>3. /\ Used(Unwound(j, i).accounts[cs[f].target])
        /\ cs[f].target \in UnwoundTouched(j, i) \cup U
    BY <2>2 DEF Stacked, Executes, Touching
  <2>4. CASE cs[f].target \in UnwoundTouched(j, i)
    <3>1. cs[f].target \in Address
      BY <1>1, <2>4 DEF UnwoundTouched, World
    <3> QED
      BY <1>5, <2>2, <2>3, <2>4, <3>1 DEF Used
  <2> QED
    BY <2>3, <2>4
<1> QED
    BY <1>2, <1>6, <1>7 DEF Touching, k

\* A frame ends.
LEMMA TouchingPop ==
    ASSUME NEW U, NEW j, NEW fs, NEW cs, Stacked(j, fs, cs), Touching(j, fs, cs, U), fs # << >>
    PROVE  Touching(j, Popped(fs), Popped(cs), U)
<1>1. /\ fs \in Seq(FrameType) /\ cs \in Seq(ContextType) /\ Len(fs) = Len(cs)
      /\ cs # << >>
    BY DEF Stacked
<1>2. /\ DOMAIN Popped(fs) = 1 .. Len(fs) - 1
      /\ \A k \in 1 .. Len(fs) - 1 : /\ k \in DOMAIN fs
                                     /\ Popped(fs)[k] = fs[k] /\ Popped(cs)[k] = cs[k]
    BY <1>1, PoppedIs
<1> QED
    BY <1>2 DEF Touching

\* A frame is opened for an account that is touched or among U.
LEMMA TouchingPush ==
    ASSUME NEW U, NEW j, NEW fs, NEW cs, Stacked(j, fs, cs), Touching(j, fs, cs, U),
           NEW f, NEW c, f.journal_i + 1 = Len(j.journal), f.journal_i \in Nat,
           c.target \in j.touched \cup U
    PROVE  Touching(j, Append(fs, f), Append(cs, c), U)
<1> DEFINE gs == Append(fs, f)
           ds == Append(cs, c)
           n == Len(j.journal)
<1>1. /\ fs \in Seq(FrameType) /\ cs \in Seq(ContextType) /\ Len(fs) = Len(cs)
      /\ j \in World
    BY DEF Stacked, History, Sound
<1>2. /\ DOMAIN gs = 1 .. Len(fs) + 1 /\ DOMAIN fs = 1 .. Len(fs) /\ Len(fs) \in Nat
      /\ gs[Len(fs) + 1] = f /\ ds[Len(fs) + 1] = c
      /\ \A k \in 1 .. Len(fs) : gs[k] = fs[k] /\ ds[k] = cs[k]
    BY <1>1
<1> HIDE DEF gs, ds
<1>3. ASSUME NEW k \in DOMAIN gs, NEW i \in gs[k].journal_i + 1 .. n
      PROVE  ds[k].target \in UnwoundTouched(j, i) \cup U
  <2>1. CASE k = Len(fs) + 1
    <3>1. i = n
      BY <1>2, <2>1
    <3> QED
      BY <1>1, <1>2, <2>1, <3>1, TouchedNow
  <2>2. CASE k # Len(fs) + 1
    BY <1>2, <2>2 DEF Touching
  <2> QED
    BY <2>1, <2>2
<1> QED
    BY <1>3 DEF Touching, gs, ds

-----------------------------------------------------------------------------
(* Calls touch what they may change                                        *)

\* The values of a call: its target gets touched, or is already.
LEMMA PayValuesMarks ==
    ASSUME NEW j, Sound(j), db \in Database, NEW inputs \in InputsType
    PROVE  LET r == PayValues(j, inputs)
           IN  /\ r.outcome # "overflow" => Marks(j, r.js)
               /\ r.outcome = "ok" =>
                     inputs.target \in r.js.touched \/ (inputs.apparent /\ r.js = j)
<1> DEFINE r == PayValues(j, inputs)
           zero == \A n \in DOMAIN inputs.values : inputs.values[n].amount = 0
           k == LoadAccount(j, inputs.target)
           l == TouchAccount(k, inputs.target)
<1>1. /\ inputs.target \in Address /\ inputs.caller \in Address
      /\ inputs.values \in Seq(TokenTransfer)
    BY DEF InputsType
<1>2. j \in World
    BY DEF Sound
<1>3. CASE inputs.apparent
  <2>1. r.js = j /\ r.outcome = "ok"
    BY <1>3 DEF PayValues
  <2> QED
    BY <1>3, <2>1, MarksSame
<1>4. CASE ~inputs.apparent /\ zero
  <2>1. r = [js |-> l, outcome |-> "ok"]
    BY <1>4 DEF PayValues
  <2>2. Marks(j, k) /\ k \in World
    BY <1>1, <1>2, LoadMarks, LoadGrows DEF Sound
  <2> HIDE DEF k
  <2>3. Marks(k, l) /\ inputs.target \in l.touched
    BY <1>1, <2>2, TouchMarks
  <2> HIDE DEF l
  <2> QED
    BY <2>1, <2>2, <2>3, MarksTwice
<1>5. CASE ~inputs.apparent /\ ~zero
  <2>1. r = TransferAll(j, inputs.caller, inputs.target, inputs.values)
    BY <1>5 DEF PayValues
  <2>2. Len(inputs.values) # 0
    BY <1>1, <1>5
  <2> QED
    BY <1>1, <2>1, <2>2, TransferMarks
<1> QED
    BY <1>3, <1>4, <1>5

\* A checkpoint after m, changes that mark what they change, and their revert.
LEMMA RevertedTouching ==
    ASSUME NEW U, NEW m, NEW fs, NEW cs, Stacked(m, fs, cs), Touching(m, fs, cs, U),
           DatabaseOk(db),
           NEW k, Grows(OpenVector(m), k, {}), Marks(OpenVector(m), k)
    PROVE  Touching(k, fs, cs, U) /\ Touching(RevertTo(k, Len(m.journal)), fs, cs, U)
<1> DEFINE o == OpenVector(m)
           n == Len(m.journal)
<1>1. Stacked(o, fs, cs) /\ Touching(o, fs, cs, U) /\ Len(o.journal) = n + 1
    BY StackedOpen, TouchingOpen
<1>2. n \in Nat \ {0}
    BY DEF Stacked, History, Sound, World
<1> HIDE DEF o
<1>3. Stacked(k, fs, cs) /\ Touching(k, fs, cs, U)
    BY <1>1, StackedGrows, TouchingGrows DEF o
<1>4. Len(k.journal) = n + 1
    BY <1>1 DEF Grows, o
<1>5. n \in 1 .. Len(k.journal) /\ \A f \in DOMAIN fs : fs[f].journal_i < n
    BY <1>2, <1>4 DEF Stacked, Within
<1> QED
    BY <1>3, <1>5, TouchingRevert

\* A frame is pushed over changes made since its checkpoint.
LEMMA OpensTouching ==
    ASSUME NEW U, NEW m, Stacked(m, frames, contexts), Touching(m, frames, contexts, U),
           DatabaseOk(db),
           NEW k, Grows(OpenVector(m), k, {}), Marks(OpenVector(m), k),
           NEW a, NEW c, c.target \in k.touched \cup U, Opens(k, Len(m.journal), a, c)
    PROVE  Touching(js', frames', contexts', U)
<1> DEFINE n == Len(m.journal)
           f == [journal_i |-> n, log_i |-> 0, creates |-> a]
<1>1. n \in Nat \ {0}
    BY DEF Stacked, History, Sound, World
<1>2. Stacked(k, frames, contexts) /\ Touching(k, frames, contexts, U) /\ Len(k.journal) = n + 1
  <2>1. Stacked(OpenVector(m), frames, contexts) /\ Len(OpenVector(m).journal) = n + 1
    BY StackedOpen
  <2>2. Stacked(k, frames, contexts) /\ Touching(k, frames, contexts, U)
    BY <2>1, StackedGrows, RevertedTouching
  <2>3. Len(k.journal) = Len(OpenVector(m).journal)
    BY DEF Grows
  <2> QED
    BY <2>1, <2>2, <2>3
<1>3. f.journal_i = n
    OBVIOUS
<1>4. js' = k /\ frames' = Append(frames, f) /\ contexts' = Append(contexts, c)
    BY DEF Opens
<1> HIDE DEF f
<1>5. Touching(k, Append(frames, f), Append(contexts, c), U)
    BY <1>1, <1>2, <1>3, TouchingPush
<1> QED
    BY <1>4, <1>5

\* make_call_frame after the precompile has answered p.
LEMMA AfterPrecompileTouching ==
    ASSUME NEW m, Stacked(m, frames, contexts), Touching(m, frames, contexts, entered), DatabaseOk(db),
           NEW k, Grows(OpenVector(m), k, {}), Marks(OpenVector(m), k),
           NEW inputs \in InputsType,
           NEW p, Answered(k, p, inputs.target), Answering(k, p),
           AfterPrecompile(p, Len(m.journal), inputs), intact'
    PROVE  Touching(js', frames', contexts', entered')
<1> DEFINE o == OpenVector(m)
           n == Len(m.journal)
<1>1. ASSUME ~p.overflowed
      PROVE  Grows(o, p.js, {}) /\ Marks(o, p.js) /\ Grows(k, p.js, {})
  <2>1. Grows(k, p.js, {}) /\ Marks(k, p.js)
    BY <1>1 DEF Answered, Answering, Outgrows
  <2> HIDE DEF o
  <2> QED
    BY <2>1, GrowsTwice, MarksTwice DEF o
<1>2. ~p.overflowed => /\ Touching(p.js, frames, contexts, entered)
                       /\ Touching(RevertTo(p.js, n), frames, contexts, entered)
    BY <1>1, RevertedTouching
<1>3. p.answer # "result" => ~p.overflowed
    BY DEF Answered
<1>4. CASE p.answer = "panic"
  <2>1. js' = p.js /\ frames' = frames /\ contexts' = contexts /\ entered' = entered
    BY <1>4 DEF AfterPrecompile, Ends
  <2> QED
    BY <1>2, <1>3, <1>4, <2>1
<1>5. CASE p.answer = "error"
  <2>1. js' = RevertTo(p.js, n) /\ frames' = frames /\ contexts' = contexts /\ entered' = entered
    BY <1>5 DEF AfterPrecompile, Ends
  <2> QED
    BY <1>2, <1>3, <1>5, <2>1
<1>6. CASE p.answer = "result"
  <2>1. /\ js' = p.js /\ frames' = frames /\ contexts' = contexts /\ entered' = entered
        /\ intact' = (intact /\ ~p.overflowed)
    BY <1>6 DEF AfterPrecompile, Ends
  <2> QED
    BY <1>2, <2>1
<1>7. CASE p.answer = "call"
  <2> DEFINE c == Context(p.to, inputs.caller, p.transfers, inputs.is_static)
             r == TransferAll(LoadAccount(p.js, p.to), inputs.caller, p.to, p.transfers)
  <2>1. /\ p.to \in Address /\ p.transfers \in Seq(TokenTransfer) /\ inputs.caller \in Address
        /\ Loaded(p.js, p.to)
    BY <1>7 DEF Answered, InputsType
  <2>2. LoadAccount(p.js, p.to) = p.js
    BY <2>1 DEF LoadAccount
  <2>3. Sound(p.js) /\ db \in Database
    <3>1. Stacked(o, frames, contexts)
      BY StackedOpen
    <3>2. Stacked(p.js, frames, contexts)
      BY <1>1, <1>3, <1>7, <3>1, StackedGrows
    <3> QED
      BY <3>2 DEF Stacked, History, DatabaseOk
  <2>4. /\ intact' = (intact /\ r.outcome # "overflow")
        /\ IF r.outcome # "ok" THEN Ends(RevertTo(r.js, n), "failed")
           ELSE /\ Opens(r.js, n, NoAddress, c)
                /\ entered' = IF p.transfers = << >> THEN entered \cup {p.to} ELSE entered
    BY <1>7 DEF AfterPrecompile
  <2>5. r.outcome # "overflow"
    BY <2>4
  <2>6. Transferred(p.js, r, inputs.caller) /\ r.outcome \in {"ok", "failed", "overflow"}
    BY <2>1, <2>2, <2>3, GrowsTransfer
  <2>7. /\ Marks(p.js, r.js)
        /\ r.outcome = "ok" /\ Len(p.transfers) # 0 => p.to \in r.js.touched
    BY <2>1, <2>2, <2>3, <2>5, TransferMarks
  <2> HIDE DEF r
  <2>8. Grows(p.js, r.js, {})
    BY <2>5, <2>6 DEF Transferred
  <2>9. Grows(o, r.js, {}) /\ Marks(o, r.js)
    <3> HIDE DEF o
    <3> QED
      BY <1>1, <1>3, <1>7, <2>7, <2>8, GrowsTwice, MarksTwice
  <2>10. CASE r.outcome # "ok"
    <3>1. js' = RevertTo(r.js, n) /\ frames' = frames /\ contexts' = contexts /\ entered' = entered
      BY <2>4, <2>10 DEF Ends
    <3> QED
      BY <2>9, <3>1, RevertedTouching
  <2>11. CASE r.outcome = "ok"
    <3>1. c.target = p.to
      BY DEF Context
    <3>2. /\ Opens(r.js, n, NoAddress, c)
          /\ entered' = IF p.transfers = << >> THEN entered \cup {p.to} ELSE entered
      BY <2>4, <2>11
    <3>3. entered \subseteq entered' /\ (p.to \in r.js.touched \cup entered')
      <4>1. p.transfers # << >> => Len(p.transfers) # 0
        BY <2>1
      <4> QED
        BY <2>7, <2>11, <3>2, <4>1
    <3>4. Touching(m, frames, contexts, entered')
      BY <3>3, TouchingMore
    <3> HIDE DEF c
    <3> QED
      BY <2>9, <3>1, <3>2, <3>3, <3>4, OpensTouching
  <2> QED
    BY <2>10, <2>11
<1> QED
    BY <1>4, <1>5, <1>6, <1>7 DEF Answered

\* make_call_frame
LEMMA MakeCallFrameTouching ==
    ASSUME NEW j, Stacked(j, frames, contexts), Touching(j, frames, contexts, entered), DatabaseOk(db),
           NEW inputs \in InputsType, NEW input \in Calldata \cup {NoInput}, NEW gas_ok,
           inputs.apparent => inputs.target \in j.touched \cup entered,
           MintedIsNotBase,
           MakeCallFrame(j, inputs, input, gas_ok), intact'
    PROVE  Touching(js', frames', contexts', entered')
<1> DEFINE m == LoadAccount(j, inputs.bytecode)
           o == OpenVector(m)
           n == Len(m.journal)
           r == PayValues(o, inputs)
           p == IF gas_ok THEN CallMut(r.js, inputs, input) ELSE Err(r.js)
           c == Context(inputs.target, inputs.caller, inputs.values, inputs.is_static)
<1>1. inputs.bytecode \in Address /\ inputs.target \in Address
    BY DEF InputsType
<1>2. Sound(j) /\ j \in World /\ db \in Database
    BY DEF Stacked, History, Sound, DatabaseOk
<1>3. CASE depth > CallStackLimit
  <2>1. js' = j /\ frames' = frames /\ contexts' = contexts /\ entered' = entered
    BY <1>3 DEF MakeCallFrame, Ends
  <2> QED
    BY <2>1
<1>4. CASE ~(depth > CallStackLimit)
  <2>1. Grows(j, m, {}) /\ Marks(j, m)
    BY <1>1, <1>2, LoadGrows, LoadMarks
  <2>2. m.touched = j.touched
    BY <1>1, <1>2, LoadKeeps
  <2>3. \/ /\ r.outcome # "ok" /\ Ends(RevertTo(r.js, n), "failed")
           /\ intact' = (intact /\ r.outcome # "overflow")
        \/ r.outcome = "ok" /\ AfterPrecompile(p, n, inputs)
        \/ r.outcome = "ok" /\ Opens(r.js, n, NoAddress, c) /\ entered' = entered
        \/ r.outcome = "ok" /\ Ends(r.js, "succeeded")
    BY <1>4 DEF MakeCallFrame
  <2> HIDE DEF m
  <2>4. Stacked(m, frames, contexts) /\ Touching(m, frames, contexts, entered)
    BY <2>1, StackedGrows, TouchingGrows
  <2>5. Sound(o) /\ o.touched = m.touched
    BY <2>4, StackedOpen
  <2>6. /\ r.outcome \in {"ok", "failed", "overflow"}
        /\ Outgrows(o, r.js, r.outcome # "overflow")
    BY <1>2, <2>5, PayValuesDoes
  <2>7. /\ r.outcome # "overflow" => Marks(o, r.js)
        /\ r.outcome = "ok" => inputs.target \in r.js.touched \cup entered
    <3>1. /\ r.outcome # "overflow" => Marks(o, r.js)
          /\ r.outcome = "ok" =>
                inputs.target \in r.js.touched \/ (inputs.apparent /\ r.js = o)
      BY <1>2, <2>5, PayValuesMarks
    <3> HIDE DEF r, o
    <3> QED
      BY <2>2, <2>5, <3>1
  <2> HIDE DEF o, r
  <2>8. r.outcome # "overflow" => Grows(o, r.js, {})
    BY <2>6 DEF Outgrows
  <2>9. r.outcome # "overflow" => /\ Touching(r.js, frames, contexts, entered)
                                  /\ Touching(RevertTo(r.js, n), frames, contexts, entered)
    BY <2>4, <2>7, <2>8, RevertedTouching DEF o
  <2>10. CASE /\ r.outcome # "ok" /\ Ends(RevertTo(r.js, n), "failed")
              /\ intact' = (intact /\ r.outcome # "overflow")
    <3>1. /\ js' = RevertTo(r.js, n) /\ frames' = frames /\ contexts' = contexts /\ entered' = entered
          /\ r.outcome # "overflow"
      BY <2>10 DEF Ends
    <3> QED
      BY <2>9, <3>1
  <2>11. CASE r.outcome = "ok" /\ AfterPrecompile(p, n, inputs)
    <3> DEFINE k == r.js
    <3>1. Grows(o, k, {}) /\ Marks(o, k) /\ Sound(k)
      BY <2>5, <2>7, <2>8, <2>11, GrowsSound
    <3>2. Answered(k, p, inputs.target) /\ Answering(k, p)
      <4>1. /\ Answered(k, CallMut(k, inputs, input), inputs.target)
            /\ Answering(k, CallMut(k, inputs, input))
        BY <1>1, <1>2, <3>1, CallMutAnswered, CallMutAnswering
      <4>2. Grows(k, k, {}) /\ Even(k, k) /\ k \in World /\ Marks(k, k)
        BY <3>1, GrowsSame, MarksSame DEF Sound, Even
      <4>3. Answered(k, Err(k), inputs.target) /\ Answering(k, Err(k))
        BY <1>2, <4>2, EvenSpends, AnsweredPlain, AnsweringPlain
      <4> QED
        BY <4>1, <4>3
    <3> HIDE DEF p, k
    <3> QED
      BY <2>4, <2>11, <3>1, <3>2, AfterPrecompileTouching DEF o
  <2>12. CASE r.outcome = "ok" /\ Opens(r.js, n, NoAddress, c) /\ entered' = entered
    <3>1. c.target = inputs.target
      BY DEF Context
    <3> HIDE DEF c
    <3> QED
      BY <2>4, <2>7, <2>8, <2>12, <3>1, OpensTouching DEF o
  <2>13. CASE r.outcome = "ok" /\ Ends(r.js, "succeeded")
    <3>1. js' = r.js /\ frames' = frames /\ contexts' = contexts /\ entered' = entered
      BY <2>13 DEF Ends
    <3> QED
      BY <2>9, <2>13, <3>1
  <2> QED
    BY <2>3, <2>10, <2>11, <2>12, <2>13
<1> QED
    BY <1>3, <1>4

-----------------------------------------------------------------------------
(* The other operations change accounts that are touched                   *)

StateFields ==
    {"accounts", "transient_storage", "touched", "balance_keys", "token_ids", "journal"}

\* From j to k only accounts of S change, no touch is lost, and k is a record
\* like j: what EXCEPT needs to be read.
Alters(j, k, S) ==
    /\ DOMAIN k = StateFields /\ DOMAIN k.accounts = Address
    /\ j.touched \subseteq k.touched
    /\ \A b \in Address \ S : k.accounts[b] = j.accounts[b]

LEMMA AltersTwice ==
    ASSUME NEW j, NEW k, NEW l, NEW S, Alters(j, k, S), Alters(k, l, S)
    PROVE  Alters(j, l, S)
BY DEF Alters

LEMMA AltersSelf ==
    ASSUME NEW j \in World, NEW S
    PROVE  Alters(j, j, S)
BY DEF Alters, World, Accounts, StateFields

LEMMA AltersMarks ==
    ASSUME NEW j, NEW k, NEW S, Alters(j, k, S), S \subseteq k.touched \cup entered
    PROVE  Marks(j, k)
<1>1. /\ j.touched \subseteq k.touched
      /\ \A b \in Address : b \in k.touched \cup entered \/ k.accounts[b] = j.accounts[b]
    BY DEF Alters
<1> QED
    BY <1>1, MarksTouched

LEMMA AltersPush ==
    ASSUME NEW j, NEW k, NEW S, Alters(j, k, S), NEW e
    PROVE  Alters(j, Push(k, e), S) /\ Push(k, e).touched = k.touched
<1>1. /\ DOMAIN Push(k, e) = StateFields /\ Push(k, e).accounts = k.accounts
      /\ Push(k, e).touched = k.touched
    BY DEF Push, Alters, StateFields
<1> QED
    BY <1>1 DEF Alters

LEMMA AltersTouch ==
    ASSUME NEW j, NEW k, NEW S, Alters(j, k, S), NEW a
    PROVE  Alters(j, TouchAccount(k, a), S) /\ TouchAccount(k, a).touched = k.touched \cup {a}
<1> DEFINE m == [k EXCEPT !.touched = @ \cup {a}]
<1>1. CASE a \in k.touched
  <2>1. TouchAccount(k, a) = k
    BY <1>1 DEF TouchAccount
  <2> QED
    BY <1>1, <2>1
<1>2. CASE a \notin k.touched
  <2>1. TouchAccount(k, a) = Push(m, AccountTouched(a))
    BY <1>2 DEF TouchAccount
  <2>2. Alters(j, m, S) /\ m.touched = k.touched \cup {a}
    BY DEF Alters, StateFields
  <2> HIDE DEF m
  <2> QED
    BY <2>1, <2>2, AltersPush
<1> QED
    BY <1>1, <1>2

LEMMA AltersBalance ==
    ASSUME NEW j, NEW k, NEW S, Alters(j, k, S), NEW a \in S, NEW t, NEW n
    PROVE  Alters(j, SetBalance(k, a, t, n), S) /\ SetBalance(k, a, t, n).touched = k.touched
<1> DEFINE l == SetBalance(k, a, t, n)
<1>1. /\ DOMAIN l = StateFields /\ l.touched = k.touched
      /\ l.accounts = [k.accounts EXCEPT ![a].balances[t] = n]
    BY DEF SetBalance, Alters, StateFields
<1> HIDE DEF l
<1>2. DOMAIN l.accounts = Address /\ \A b \in Address \ S : l.accounts[b] = k.accounts[b]
    BY <1>1 DEF Alters
<1> QED
    BY <1>1, <1>2 DEF Alters, l

\* sstore
LEMMA StoreMarks ==
    ASSUME NEW j \in World, NEW a \in Address, NEW s, NEW new,
           a \in j.touched \cup entered
    PROVE  Marks(j, StoreSlot(j, a, s, new))
<1> DEFINE i == LoadSlot(j, a, s)
           k == StoreSlot(j, a, s, new)
<1>1. Alters(j, j, {a})
    BY AltersSelf
<1>2. Alters(j, i, {a}) /\ i.touched = j.touched
  <2>1. CASE j.accounts[a].storage[s] # Absent
    BY <1>1, <2>1 DEF LoadSlot
  <2>2. CASE j.accounts[a].storage[s] = Absent
    <3>1. PICK v : i = Push([j EXCEPT !.accounts[a].storage[s] = v], StorageLoaded(a, s))
      BY <2>2 DEF LoadSlot
    <3> DEFINE m == [j EXCEPT !.accounts[a].storage[s] = v]
    <3>2. DOMAIN m = StateFields /\ m.touched = j.touched
          /\ m.accounts = [j.accounts EXCEPT ![a].storage[s] = v]
      BY DEF World, StateFields
    <3>4. i = Push(m, StorageLoaded(a, s))
      BY <3>1
    <3> HIDE DEF m, i
    <3>3. Alters(j, m, {a})
      BY <1>1, <3>2 DEF Alters
    <3> QED
      BY <3>4, <3>2, <3>3, AltersPush
  <2> QED
    BY <2>1, <2>2
<1> HIDE DEF i
<1>3. Alters(j, k, {a}) /\ k.touched = i.touched
  <2> DEFINE p == i.accounts[a].storage[s].present
             m == [i EXCEPT !.accounts[a].storage[s].present = new]
  <2>1. k = i \/ k = Push(m, StorageChange(a, s, p))
    BY DEF StoreSlot, i
  <2>2. DOMAIN m = StateFields /\ m.touched = i.touched
        /\ m.accounts = [i.accounts EXCEPT ![a].storage[s].present = new]
    BY <1>2 DEF Alters, StateFields
  <2> HIDE DEF m, k
  <2>3. Alters(j, m, {a})
    BY <1>2, <2>2 DEF Alters
  <2> QED
    BY <1>2, <2>1, <2>2, <2>3, AltersPush
<1> HIDE DEF k
<1>4. {a} \subseteq k.touched \cup entered
    BY <1>2, <1>3
<1>5. Marks(j, k)
    BY <1>3, <1>4, AltersMarks
<1> QED
    BY <1>5 DEF k

\* inc_nonce
LEMMA NonceMarks ==
    ASSUME NEW j \in World, NEW a \in Address
    PROVE  LET k == [Push(TouchAccount(j, a), NonceChange(a))
                        EXCEPT !.accounts[a].nonce = @ + 1]
           IN  Marks(j, k) /\ a \in k.touched
<1> DEFINE i == Push(TouchAccount(j, a), NonceChange(a))
           k == [i EXCEPT !.accounts[a].nonce = @ + 1]
<1>1. Alters(j, i, {a}) /\ i.touched = j.touched \cup {a}
    BY AltersSelf, AltersTouch, AltersPush
<1> HIDE DEF i
<1>2. DOMAIN k = StateFields /\ k.touched = i.touched
      /\ k.accounts = [i.accounts EXCEPT ![a].nonce = @ + 1]
    BY <1>1 DEF Alters, StateFields
<1> HIDE DEF k
<1>3. Alters(j, k, {a}) /\ {a} \subseteq k.touched
    BY <1>1, <1>2 DEF Alters
<1>4. Marks(j, k)
    BY <1>3, AltersMarks
<1> QED
    BY <1>3, <1>4 DEF k, i

\* set_code
LEMMA SetCodeMarks ==
    ASSUME NEW j \in World, NEW a \in Address, NEW code
    PROVE  Marks(j, SetCode(j, a, code))
<1> DEFINE i == Push(TouchAccount(j, a), CodeChange(a))
           k == [i EXCEPT !.accounts[a].code = code]
<1>1. Alters(j, i, {a}) /\ i.touched = j.touched \cup {a}
    BY AltersSelf, AltersTouch, AltersPush
<1> HIDE DEF i
<1>2. DOMAIN k = StateFields /\ k.touched = i.touched
      /\ k.accounts = [i.accounts EXCEPT ![a].code = code]
    BY <1>1 DEF Alters, StateFields
<1> HIDE DEF k
<1>3. Alters(j, k, {a}) /\ {a} \subseteq k.touched
    BY <1>1, <1>2 DEF Alters
<1>4. Marks(j, k)
    BY <1>3, AltersMarks
<1> QED
    BY <1>4 DEF k, i, SetCode

\* create_account_checkpoint
LEMMA CreateMarks ==
    ASSUME NEW j \in World, NEW caller \in Address, caller \in j.touched, NEW a \in Address, NEW n
    PROVE  LET k == CreateAccount(j, caller, a, n)
           IN  Marks(j, k) /\ a \in k.touched
<1> DEFINE S == {caller, a}
           m == [j EXCEPT !.accounts[a].created = TRUE,
                          !.accounts[a].nonce = 1,
                          !.accounts[a].storage =
                              [s \in Slot |-> IF @[s] = Absent THEN Absent ELSE Slot0]]
           j1 == Push(m, AccountCreated(a))
           j2 == TouchAccount(j1, a)
           j3 == SetBalance(j2, a, BaseToken, j2.accounts[a].balances[BaseToken] + n)
           j4 == SetBalance(j3, caller, BaseToken,
                            WrappingSub(j3.accounts[caller].balances[BaseToken], n))
           k == CreateAccount(j, caller, a, n)
<1>1. Alters(j, m, S) /\ m.touched = j.touched
  <2>1. /\ DOMAIN m = StateFields /\ m.touched = j.touched
        /\ \E x : m.accounts = [j.accounts EXCEPT ![a] = x]
    BY DEF World, StateFields
  <2> HIDE DEF m
  <2> QED
    BY <2>1 DEF Alters, World, Accounts
<1>2. k = Push(j4, BalanceTransfer(caller, a, BaseToken, n))
    BY DEF CreateAccount, MarkCreated
<1> HIDE DEF m, k
<1>3. Alters(j, j1, S) /\ j1.touched = j.touched
    BY <1>1, AltersPush
<1> HIDE DEF j1
<1>4. Alters(j, j2, S) /\ j2.touched = j.touched \cup {a}
    BY <1>3, AltersTouch
<1> HIDE DEF j2
<1>5. Alters(j, j3, S) /\ j3.touched = j2.touched
    BY <1>4, AltersBalance
<1> HIDE DEF j3
<1>6. Alters(j, j4, S) /\ j4.touched = j3.touched
    BY <1>5, AltersBalance
<1> HIDE DEF j4
<1>7. Alters(j, k, S) /\ S \subseteq k.touched
    BY <1>2, <1>4, <1>5, <1>6, AltersPush
<1>8. Marks(j, k)
    BY <1>7, AltersMarks
<1> QED
    BY <1>7, <1>8 DEF k

\* selfdestruct
LEMMA DestroyMarks ==
    ASSUME NEW j, Sound(j), NEW a \in Address, a \in j.touched \cup entered,
           NEW target \in Address,
           db \in Database
    PROVE  Marks(j, Destroy(j, a, target))
<1> DEFINE t == BaseToken
           S == {a, target}
           j1 == LoadAccount(j, target)
           balance == j1.accounts[a].balances[t]
           j3 == TouchAccount(j1, target)
           v == WrappingAdd(j3.accounts[target].balances[t], balance)
           j2 == IF a = target THEN j1 ELSE SetBalance(j3, target, t, v)
           emptied == SetBalance(j2, a, t, 0)
           m == [emptied EXCEPT !.accounts[a].destroyed = TRUE]
           k == Destroy(j, a, target)
<1>1. Marks(j, j1) /\ j1 \in World /\ a \in j1.touched \cup entered
    BY LoadMarks, LoadGrows, LoadKeeps DEF Sound
<1>2. \/ k = j2
      \/ \E e : k = Push(emptied, e)
      \/ \E e : k = Push(m, e)
    BY DEF Destroy
<1> HIDE DEF j1, k, balance
<1>3. Alters(j1, j1, S)
    BY <1>1, AltersSelf
<1>4. Alters(j1, j3, S) /\ j3.touched = j1.touched \cup {target}
    BY <1>3, AltersTouch
<1> HIDE DEF j3, v
<1>5. Alters(j1, j2, S) /\ S \subseteq j2.touched \cup entered
  <2>1. CASE a = target
    BY <1>1, <1>3, <2>1
  <2>2. CASE a # target
    <3>1. /\ Alters(j1, SetBalance(j3, target, t, v), S)
          /\ SetBalance(j3, target, t, v).touched = j3.touched
      BY <1>4, AltersBalance
    <3> QED
      BY <1>1, <1>4, <2>2, <3>1
  <2> QED
    BY <2>1, <2>2
<1> HIDE DEF j2
<1>6. Alters(j1, emptied, S) /\ S \subseteq emptied.touched \cup entered
    BY <1>5, AltersBalance
<1> HIDE DEF emptied
<1>7. Alters(j1, m, S) /\ S \subseteq m.touched \cup entered
  <2>1. DOMAIN m = StateFields /\ m.touched = emptied.touched
        /\ m.accounts = [emptied.accounts EXCEPT ![a].destroyed = TRUE]
    BY <1>6 DEF Alters, StateFields
  <2> HIDE DEF m
  <2> QED
    BY <1>6, <2>1 DEF Alters
<1> HIDE DEF m
<1>8. Alters(j1, k, S) /\ S \subseteq k.touched \cup entered
  <2>1. CASE k = j2
    BY <1>5, <2>1
  <2>2. CASE \E e : k = Push(emptied, e)
    BY <1>6, <2>2, AltersPush
  <2>3. CASE \E e : k = Push(m, e)
    BY <1>7, <2>3, AltersPush
  <2> QED
    BY <1>2, <2>1, <2>2, <2>3
<1>9. Marks(j1, k)
    BY <1>8, AltersMarks
<1>10. Marks(j, k)
    BY <1>1, <1>9, MarksTwice
<1> QED
    BY <1>10 DEF k
-----------------------------------------------------------------------------
(* What every step leaves touched                                          *)

\* A state without accounts has nothing to commit.
LEMMA TouchingNew ==
    /\ Touching(NewJournaledState, << >>, << >>, entered)
    /\ Touching(NewJournaledState, << >>, << >>, entered)'
<1> DEFINE j == NewJournaledState
<1>1. j \in World /\ j.journal = << << >> >>
    BY NewHistory DEF NewJournaledState
<1>2. /\ \A i \in 0 .. 1 : Unwound(j, i) = Core(j)
      /\ Core(j).accounts = j.accounts /\ Len(j.journal) = 1
    BY <1>1, FirstPast
<1>3. \A a \in Address : j.accounts[a] = Absent
    BY DEF NewJournaledState
<1>4. \A i \in 0 .. Len(j.journal) : \A a \in Address : Unwound(j, i).accounts[a] = Absent
    BY <1>2, <1>3
<1> HIDE DEF j
<1>5. Touching(j, << >>, << >>, entered)
    BY <1>4 DEF Touching, Lost
<1>6. Touching(j, << >>, << >>, entered)'
    BY <1>4 DEF Touching, Lost, j
<1> QED
    BY <1>5, <1>6 DEF j

\* Before its first call a transaction has changed its sender only.
LEMMA TouchingPaying ==
    ASSUME DatabaseOk(db)
    PROVE  Touching(Paying, << >>, << >>, entered)
<1>1. /\ Len(Paying.journal) = 1 /\ Paying.touched = {Sender}
      /\ \A a \in Address : Unwound(Paying, 0).accounts[a] = Absent
      /\ \A a \in Address \ {Sender} : Paying.accounts[a] = Absent
      /\ Paying \in World
    BY PayingStacked DEF Stacked, History, Sound
<1>2. Unwound(Paying, 1).accounts = Paying.accounts /\ UnwoundTouched(Paying, 1) = Paying.touched
    BY <1>1, TouchedNow
<1>3. ASSUME NEW i \in 0 .. Len(Paying.journal), NEW a \in Address,
             Lost(Unwound(Paying, i).accounts[a], a)
      PROVE  a \in UnwoundTouched(Paying, i)
  <2>1. i = 0 \/ i = 1
    BY <1>1
  <2>2. Unwound(Paying, i).accounts[a] # Absent
    BY <1>3 DEF Lost
  <2>3. i = 1
    BY <1>1, <2>1, <2>2
  <2>4. a = Sender
    BY <1>1, <1>2, <2>2, <2>3
  <2> QED
    BY <1>1, <1>2, <2>3, <2>4
<1> QED
    BY <1>3 DEF Touching

\* The account that runs is touched, or a call that moved nothing runs it.
LEMMA RunningTouched ==
    ASSUME TokensInv, InTransaction, Touching(js, frames, contexts, entered)
    PROVE  TopContext.target \in js.touched \cup entered
<1> DEFINE k == Len(frames)
           n == Len(js.journal)
<1>1. Stacked(js, frames, contexts) /\ frames # << >> /\ js \in World
    BY RunningUsed DEF TokensInv
<1>2. k \in DOMAIN frames /\ k = Len(contexts) /\ n \in Nat
    BY <1>1 DEF Stacked, World
<1>3. frames[k].journal_i \in 1 .. n - 1
    BY <1>1, StackedTop
<1>4. n \in frames[k].journal_i + 1 .. n
    BY <1>2, <1>3
<1>5. contexts[k].target \in UnwoundTouched(js, n) \cup entered
    BY <1>2, <1>4 DEF Touching
<1>6. UnwoundTouched(js, n) = js.touched
    BY <1>1, TouchedNow
<1> QED
    BY <1>2, <1>5, <1>6 DEF TopContext

\* Unless a transfer overflowed, whatever has something to commit is touched.
TouchInv == TokensInv /\ (intact => Touching(js, frames, contexts, entered))

\* The database answers the same until the transaction is committed.
LEMMA StepTouching ==
    ASSUME UNCHANGED db, entered \subseteq entered', Touching(js', frames', contexts', entered')
    PROVE  Touching(js, frames, contexts, entered)'
BY DEF Touching, Lost

\* No call mends what an overflow broke, or takes an account out of entered.
LEMMA MakeCallFrameIntact ==
    ASSUME NEW j, Stacked(j, frames, contexts), DatabaseOk(db),
           NEW inputs \in InputsType, NEW input \in Calldata \cup {NoInput}, NEW gas_ok,
           MakeCallFrame(j, inputs, input, gas_ok), intact'
    PROVE  intact /\ entered \subseteq entered'
<1> DEFINE m == LoadAccount(j, inputs.bytecode)
           o == OpenVector(m)
           n == Len(m.journal)
           r == PayValues(o, inputs)
           p == IF gas_ok THEN CallMut(r.js, inputs, input) ELSE Err(r.js)
<1>1. inputs.bytecode \in Address /\ inputs.target \in Address
    BY DEF InputsType
<1>2. Sound(j) /\ j \in World /\ db \in Database
    BY DEF Stacked, History, Sound, DatabaseOk
<1>3. \/ intact /\ entered' = entered
      \/ r.outcome = "ok" /\ AfterPrecompile(p, n, inputs)
    BY DEF MakeCallFrame, Ends
<1>4. CASE r.outcome = "ok" /\ AfterPrecompile(p, n, inputs)
  <2>1. Stacked(m, frames, contexts)
    BY <1>1, <1>2, LoadGrows, StackedGrows
  <2> HIDE DEF m
  <2>2. Sound(o)
    BY <2>1, StackedOpen
  <2>3. Outgrows(o, r.js, r.outcome # "overflow")
    BY <1>2, <2>2, PayValuesDoes
  <2> HIDE DEF o, r
  <2>4. Sound(r.js)
    BY <1>4, <2>2, <2>3, GrowsSound DEF Outgrows
  <2>5. p.answer \in {"result", "error", "panic", "call"}
    <3>1. Answered(r.js, CallMut(r.js, inputs, input), inputs.target)
      BY <1>1, <1>2, <2>4, CallMutAnswered
    <3>2. CallMut(r.js, inputs, input).answer \in {"result", "error", "panic", "call"}
      BY <3>1 DEF Answered
    <3>3. Err(r.js).answer = "error"
      BY DEF Err, Result
    <3> QED
      BY <3>2, <3>3
  <2> HIDE DEF p
  <2> QED
    BY <1>4, <2>5 DEF AfterPrecompile, Ends
<1> QED
    BY <1>3, <1>4

\* Every call of a contract.
LEMMA CallTouching ==
    ASSUME TouchInv, MintedIsNotBase, InTransaction,
           NEW scheme \in Schemes, NEW to \in Address, NEW n \in Balance,
           NEW input \in Calldata \cup {NoInput}, NEW gas_ok,
           MakeCallFrame(js, Inputs(scheme, to, n), input, gas_ok), Outside, intact'
    PROVE  Touching(js, frames, contexts, entered)'
<1> DEFINE inputs == Inputs(scheme, to, n)
<1>1. Stacked(js, frames, contexts) /\ DatabaseOk(db) /\ TokensInv
    BY DEF TouchInv, TokensInv
<1>2. inputs \in InputsType
    BY <1>1, InputsAre
<1>3. intact /\ entered \subseteq entered'
    BY <1>1, <1>2, MakeCallFrameIntact
<1>4. Touching(js, frames, contexts, entered)
    BY <1>3 DEF TouchInv
<1>5. TopContext.target \in js.touched \cup entered
    BY <1>1, <1>4, RunningTouched
<1>6. inputs.apparent => inputs.target \in js.touched \cup entered
    BY <1>5 DEF Inputs
<1> HIDE DEF inputs
<1>7. Touching(js', frames', contexts', entered')
    BY <1>1, <1>4, <1>2, <1>6, MakeCallFrameTouching DEF inputs
<1> QED
    BY <1>3, <1>7, StepTouching DEF Outside

\* The transaction's first call.
LEMMA TransactTouching ==
    ASSUME TouchInv, MintedIsNotBase,
           NEW to \in Targets, NEW values \in Transfers \cup {<< >>},
           Transact(to, values), intact'
    PROVE  Touching(js, frames, contexts, entered)'
<1> DEFINE inputs == [bytecode |-> to, target |-> to, caller |-> Sender, values |-> values,
                      apparent |-> FALSE, is_static |-> FALSE]
<1>1. /\ contexts = << >> /\ Len(frames) = Len(contexts) /\ frames \in Seq(FrameType)
      /\ DatabaseOk(db)
  <2>1. Stacked(js, frames, contexts) /\ DatabaseOk(db)
        /\ (answer = "committed" => contexts = << >>)
    BY DEF TouchInv, TokensInv
  <2>2. answer = "committed"
    BY DEF Transact
  <2> QED
    BY <2>1, <2>2 DEF Stacked
<1>2. frames = << >>
    BY <1>1
<1>3. Stacked(Paying, frames, contexts) /\ Touching(Paying, frames, contexts, entered)
    BY <1>1, <1>2, PayingStacked, TouchingPaying
<1>4. inputs \in InputsType /\ ~inputs.apparent
  <2>1. to \in Address /\ Sender \in Address /\ values \in Seq(TokenTransfer)
    <3>1. << >> \in Seq(TokenTransfer)
      OBVIOUS
    <3> QED
      BY <3>1, ParticipantsAssumption, OperandsAssumption
  <2> QED
    BY <2>1 DEF InputsType
<1>5. MakeCallFrame(Paying, inputs, NoInput, TRUE) /\ UNCHANGED db
    BY DEF Transact, Paying
<1> HIDE DEF inputs
<1>6. Touching(js', frames', contexts', entered')
    BY <1>1, <1>3, <1>4, <1>5, MakeCallFrameTouching
<1>7. entered \subseteq entered'
    BY <1>1, <1>3, <1>4, <1>5, MakeCallFrameIntact
<1> QED
    BY <1>5, <1>6, <1>7, StepTouching

\* SSTORE
LEMMA StoreTouching ==
    ASSUME TouchInv, NEW k \in Slot, NEW new \in Word, Store(k, new), intact'
    PROVE  Touching(js, frames, contexts, entered)'
<1> DEFINE a == TopContext.target
           l == StoreSlot(js, a, k, new)
<1>1. /\ InTransaction /\ js' = l /\ UNCHANGED <<frames, contexts, intact>>
      /\ UNCHANGED db /\ entered' = entered
    BY DEF Store, HasSteps, Outside
<1>2. TokensInv /\ Stacked(js, frames, contexts) /\ Touching(js, frames, contexts, entered)
    BY <1>1 DEF TouchInv, TokensInv
<1>3. /\ Sound(js) /\ js \in World /\ db \in Database /\ a \in Address
      /\ Used(js.accounts[a]) /\ Loaded(js, a)
    BY <1>1, <1>2, RunningUsed
<1>4. a \in js.touched \cup entered
    BY <1>1, <1>2, RunningTouched
<1> HIDE DEF a
<1>5. Grows(js, l, {})
    BY <1>3, GrowsStoreSlot DEF Used
<1>6. Marks(js, l)
    BY <1>3, <1>4, StoreMarks
<1> HIDE DEF l
<1>7. Touching(l, frames, contexts, entered)
    BY <1>2, <1>5, <1>6, TouchingGrows
<1> QED
    BY <1>1, <1>7, StepTouching

\* A frame that ends well.
LEMMA ReturnTouching ==
    ASSUME TouchInv, NEW code \in Code, Return(code), intact'
    PROVE  Touching(js, frames, contexts, entered)'
<1> DEFINE a == Top.creates
           l == SetCode(js, a, code)
<1>1. /\ InTransaction /\ js' = (IF a = NoAddress THEN js ELSE l)
      /\ frames' = Popped(frames) /\ contexts' = Popped(contexts)
      /\ intact' = intact /\ UNCHANGED db /\ entered' = entered
    BY DEF Return, PopFrame, PopContext, Popped, Outside
<1>2. TokensInv /\ Stacked(js, frames, contexts) /\ Touching(js, frames, contexts, entered)
    BY <1>1 DEF TouchInv, TokensInv
<1>3. Sound(js) /\ js \in World /\ db \in Database /\ frames # << >>
    BY <1>1, <1>2, RunningUsed
<1>4. /\ Stacked(js, Popped(frames), Popped(contexts))
      /\ Touching(js, Popped(frames), Popped(contexts), entered)
    BY <1>2, <1>3, StackedPop, TouchingPop
<1>5. ASSUME a # NoAddress
      PROVE  Touching(l, Popped(frames), Popped(contexts), entered)
  <2>1. a \in Address /\ InCreation(js.accounts[a])
    BY <1>2, <1>3, <1>5, StackedTop DEF Top
  <2> HIDE DEF a
  <2>2. Grows(js, l, {a}) /\ Marks(js, l)
    BY <1>3, <2>1, GrowsSetCode, SetCodeMarks
  <2> HIDE DEF l
  <2> QED
    BY <1>4, <2>2, TouchingGrows
<1> HIDE DEF a, l
<1>6. Touching(js', frames', contexts', entered')
    BY <1>1, <1>4, <1>5
<1> QED
    BY <1>1, <1>6, StepTouching

\* A frame that fails.
LEMMA FailTouching ==
    ASSUME TouchInv, Revert, intact'
    PROVE  Touching(js, frames, contexts, entered)'
<1> DEFINE n == Top.journal_i
<1>1. /\ InTransaction /\ js' = RevertTo(js, n)
      /\ frames' = Popped(frames) /\ contexts' = Popped(contexts)
      /\ intact' = intact /\ UNCHANGED db /\ entered' = entered
    BY DEF Revert, PopFrame, PopContext, Popped, Outside
<1>2. TokensInv /\ Stacked(js, frames, contexts) /\ Touching(js, frames, contexts, entered)
    BY <1>1 DEF TouchInv, TokensInv
<1>3. frames # << >>
    BY <1>1, <1>2, RunningUsed
<1>4. /\ Stacked(js, Popped(frames), Popped(contexts))
      /\ Touching(js, Popped(frames), Popped(contexts), entered)
      /\ \A k \in DOMAIN Popped(frames) : Popped(frames)[k].journal_i < n
    BY <1>2, <1>3, StackedPop, TouchingPop DEF Top
<1>5. n \in 1 .. Len(js.journal)
  <2>1. n \in 1 .. Len(js.journal) - 1
    BY <1>2, <1>3, StackedTop DEF Top
  <2>2. Len(js.journal) \in Nat
    BY <1>2 DEF Stacked, History, Sound, World
  <2> QED
    BY <2>1, <2>2
<1> HIDE DEF n
<1>6. Touching(js', frames', contexts', entered')
    BY <1>1, <1>4, <1>5, TouchingRevert
<1> QED
    BY <1>1, <1>6, StepTouching

\* SELFDESTRUCT
LEMMA SelfDestructsTouching ==
    ASSUME TouchInv, NEW target \in Targets, SelfDestructs(target), intact'
    PROVE  Touching(js, frames, contexts, entered)'
<1> DEFINE a == TopContext.target
           l == Destroy(js, a, target)
<1>1. /\ InTransaction /\ js' = l
      /\ frames' = Popped(frames) /\ contexts' = Popped(contexts)
      /\ intact' = intact /\ UNCHANGED db /\ entered' = entered
    BY DEF SelfDestructs, HasSteps, PopFrame, PopContext, Popped, Outside
<1>2. TokensInv /\ Stacked(js, frames, contexts) /\ Touching(js, frames, contexts, entered)
      /\ DatabaseOk(db)
    BY <1>1 DEF TouchInv, TokensInv
<1>3. /\ Sound(js) /\ db \in Database /\ frames # << >>
      /\ a \in Address /\ Loaded(js, a) /\ a \in js.touched \cup entered
      /\ target \in Address
    BY <1>1, <1>2, RunningUsed, RunningTouched, ParticipantsAssumption
<1> HIDE DEF a
<1>4. Grows(js, l, {}) /\ Marks(js, l)
    BY <1>3, GrowsDestroy, DestroyMarks
<1> HIDE DEF l
<1>5. Stacked(l, frames, contexts) /\ Touching(l, frames, contexts, entered)
    BY <1>2, <1>4, StackedGrows, TouchingGrows
<1>6. Touching(js', frames', contexts', entered')
    BY <1>1, <1>3, <1>5, TouchingPop
<1> QED
    BY <1>1, <1>6, StepTouching

\* make_create_frame
LEMMA MakeCreateTouching ==
    ASSUME TouchInv, NEW a \in Fresh, Create(a), intact'
    PROVE  Touching(js, frames, contexts, entered)'
<1> DEFINE caller == TopContext.target
           j == LoadAccount(js, a)
           raised == [Push(TouchAccount(j, caller), NonceChange(caller))
                         EXCEPT !.accounts[caller].nonce = @ + 1]
           opened == OpenVector(raised)
           i == Len(js.journal)
           refuses == depth > CallStackLimit \/ js.accounts[caller].nonce = MaxNonce
           collides == HasCode(raised, a) \/ raised.accounts[a].nonce # 0 \/ a \in WarmPreloaded
           k == CreateAccount(opened, caller, a, 0)
           c == Context(a, caller, << >>, FALSE)
<1>1. /\ InTransaction
      /\ IF refuses THEN Ends(js, "refused")
         ELSE IF collides THEN Ends(RevertTo(opened, i), "refused")
         ELSE Opens(k, i, a, c)
      /\ intact' = intact /\ UNCHANGED db /\ entered' = entered
    BY DEF Create, HasSteps, Outside, Ends
<1>2. TokensInv /\ Stacked(js, frames, contexts) /\ Touching(js, frames, contexts, entered)
      /\ DatabaseOk(db)
    BY <1>1 DEF TouchInv, TokensInv
<1>3. /\ Sound(js) /\ js \in World /\ db \in Database
      /\ caller \in Address /\ Loaded(js, caller)
      /\ a \in Address
    BY <1>1, <1>2, RunningUsed, ParticipantsAssumption
<1>4. SUFFICES Touching(js', frames', contexts', entered')
    BY <1>1, StepTouching
<1>5. CASE refuses
  <2>1. js' = js /\ frames' = frames /\ contexts' = contexts /\ entered' = entered
    BY <1>1, <1>5 DEF Ends
  <2> QED
    BY <1>2, <2>1
<1>6. CASE ~refuses
  <2>1. Grows(js, j, {}) /\ Marks(js, j) /\ Sound(j) /\ Loaded(j, a)
    BY <1>3, LoadGrows, LoadMarks
  <2>2. j.accounts[caller] = js.accounts[caller] /\ Loaded(j, caller)
    BY <1>3, LoadKeeps DEF Loaded
  <2> HIDE DEF j, caller
  <2>3. j \in World /\ j.accounts[caller].nonce # MaxNonce
    BY <1>6, <2>1, <2>2 DEF Sound
  <2>4. Grows(j, raised, {}) /\ Marks(j, raised) /\ caller \in raised.touched
    BY <1>3, <2>1, <2>2, <2>3, GrowsNonce, NonceMarks
  <2> HIDE DEF raised
  <2>5. /\ Stacked(raised, frames, contexts) /\ Touching(raised, frames, contexts, entered)
        /\ Len(raised.journal) = i /\ caller \in raised.touched
    <3>1. Grows(js, raised, {}) /\ Marks(js, raised)
      BY <2>1, <2>4, GrowsTwice, MarksTwice
    <3>2. Stacked(raised, frames, contexts) /\ Touching(raised, frames, contexts, entered)
      BY <1>2, <3>1, StackedGrows, TouchingGrows
    <3>3. Len(raised.journal) = i
      BY <3>1 DEF Grows
    <3> QED
      BY <2>4, <3>2, <3>3
  <2>6. /\ Loaded(raised, caller) /\ Loaded(raised, a)
    BY <1>3, <2>1, <2>2, <2>4 DEF Grows, Evolves, Loaded
  <2>7. /\ Sound(opened) /\ opened.accounts = raised.accounts /\ opened \in World
        /\ opened.touched = raised.touched
    BY <2>5, StackedOpen DEF Sound
  <2>8. CASE collides
    <3>1. Grows(opened, opened, {}) /\ Marks(opened, opened)
      BY <2>7, GrowsSame, MarksSame DEF Sound
    <3>2. Touching(RevertTo(opened, i), frames, contexts, entered)
      BY <1>2, <2>5, <3>1, RevertedTouching
    <3>3. js' = RevertTo(opened, i) /\ frames' = frames /\ contexts' = contexts /\ entered' = entered
      BY <1>1, <1>6, <2>8 DEF Ends
    <3> QED
      BY <3>2, <3>3
  <2>9. CASE ~collides
    <3>1. Unused(opened.accounts[a]) /\ Clean(opened.accounts[a]) /\ Loaded(opened, caller)
      <4>1. Unused(raised.accounts[a])
        BY <2>6, <2>9 DEF HasCode, Unused, Loaded
      <4>2. Clean(raised.accounts[a])
        BY <1>3, <2>5, StackedClean
      <4> QED
        BY <2>6, <2>7, <4>1, <4>2 DEF Loaded
    <3> HIDE DEF opened
    <3>2. /\ 0 \in Balance /\ ~(opened.accounts[a].balances[BaseToken] + 0 > MaxU256)
      <4>1. opened.accounts[a] \in Account
        BY <1>3, <2>7, <3>1 DEF World, Accounts, Unused
      <4>2. opened.accounts[a].balances[BaseToken] \in Balance
        BY <4>1, BoundsAssumption DEF Account
      <4> QED
        BY <4>2, BoundsAssumption DEF Balance
    <3>3. Grows(opened, k, {})
      BY <1>3, <2>7, <3>1, <3>2, GrowsCreate
    <3>4. Marks(opened, k) /\ a \in k.touched
      BY <1>3, <2>5, <2>7, CreateMarks
    <3>5. Opens(k, i, a, c) /\ c.target = a
      BY <1>1, <1>6, <2>9 DEF Context
    <3> HIDE DEF k, c
    <3>6. c.target \in k.touched \cup entered
      BY <3>4, <3>5
    <3>7. Touching(js', frames', contexts', entered)
      BY <1>2, <2>5, <3>3, <3>4, <3>5, <3>6, OpensTouching DEF opened
    <3> QED
      BY <1>1, <3>7
  <2> QED
    BY <2>8, <2>9
<1> QED
    BY <1>5, <1>6

\* Every step.
LEMMA TouchStep ==
    ASSUME TouchInv, MintedIsNotBase, [TokensNext]_tvars
    PROVE  TouchInv'
<1>1. TokensInv'
    BY TokensStep DEF TouchInv
<1>2. SUFFICES ASSUME intact' PROVE Touching(js, frames, contexts, entered)'
    BY <1>1 DEF TouchInv
<1>3. CASE UNCHANGED tvars
  <2>1. UNCHANGED <<js, frames, contexts, db, intact, entered>>
    BY <1>3 DEF tvars, vars
  <2>2. Touching(js', frames', contexts', entered')
    BY <1>2, <2>1 DEF TouchInv
  <2> QED
    BY <2>1, <2>2, StepTouching
<1>4. CASE \E to \in Targets, values \in Transfers \cup {<< >>} : Transact(to, values)
    BY <1>2, <1>4, TransactTouching
<1>5. CASE \E scheme \in Schemes, to \in Targets, n \in Amounts \cup {0} : Call(scheme, to, n)
  <2>1. PICK scheme \in Schemes, to \in Targets, n \in Amounts \cup {0} : Call(scheme, to, n)
    BY <1>5
  <2>2. to \in Address /\ n \in Balance /\ NoInput \in Calldata \cup {NoInput}
    BY ParticipantsAssumption, BoundsAssumption DEF Balance
  <2>3. /\ InTransaction /\ Outside
        /\ MakeCallFrame(js, Inputs(scheme, to, n), NoInput, TRUE)
    BY <2>1 DEF Call, HasSteps
  <2> QED
    BY <1>2, <2>2, <2>3, CallTouching
<1>6. CASE \E scheme \in Schemes, input \in Calldata, gas_ok \in BOOLEAN :
              CallPrecompile(scheme, input, gas_ok)
  <2>1. PICK scheme \in Schemes, input \in Calldata, gas_ok \in BOOLEAN :
           CallPrecompile(scheme, input, gas_ok)
    BY <1>6
  <2>2. PrecompileAddress \in Address /\ 0 \in Balance
    BY ParticipantsAssumption, BoundsAssumption DEF Balance
  <2>3. /\ InTransaction /\ Outside
        /\ MakeCallFrame(js, Inputs(scheme, PrecompileAddress, 0), input, gas_ok)
    BY <2>1 DEF CallPrecompile, HasSteps
  <2> QED
    BY <1>2, <2>2, <2>3, CallTouching
<1>7. CASE \E k \in Slot, new \in Word : Store(k, new)
    BY <1>2, <1>7, StoreTouching
<1>8. CASE \E a \in Fresh : Create(a)
    BY <1>2, <1>8, MakeCreateTouching
<1>9. CASE \E code \in Code : Return(code)
    BY <1>2, <1>9, ReturnTouching
<1>10. CASE Revert
    BY <1>2, <1>10, FailTouching
<1>11. CASE \E a \in Targets : SelfDestructs(a)
    BY <1>2, <1>11, SelfDestructsTouching
<1>12. CASE Commit
  <2>1. js' = NewJournaledState /\ contexts' = << >>
    BY <1>12 DEF Commit, InTransaction
  <2>2. frames' = << >>
    BY <1>1, <2>1 DEF TokensInv, Stacked
  <2> QED
    BY <2>1, <2>2, TouchingNew
<1> QED
    BY <1>3, <1>4, <1>5, <1>6, <1>7, <1>8, <1>9, <1>10, <1>11, <1>12 DEF TokensNext

\* DatabaseCommit::commit skips what is not touched: with minted tokens that
\* are not Ether, the only accounts it may skip although a transaction changed
\* their nonce, code, Ether, storage or destroyed them are the ones that a
\* transferMultipleAndCall of nothing ran, at any depth of calls, creations,
\* destructions and reverts, unless a transfer overflowed.
THEOREM TouchTheorem ==
    MintedIsNotBase => (TokensSpec => [](intact => OnlyUnpaidCallsGoUntouched))
<1> SUFFICES ASSUME MintedIsNotBase
             PROVE  TokensSpec => [](intact => OnlyUnpaidCallsGoUntouched)
    OBVIOUS
<1>1. TokensInit => TouchInv
  <2> SUFFICES ASSUME TokensInit PROVE TouchInv
    OBVIOUS
  <2>1. js = NewJournaledState /\ frames = << >> /\ contexts = << >>
    BY DEF TokensInit, Init
  <2> QED
    BY <2>1, TokensStart, TouchingNew DEF TouchInv
<1>2. TouchInv /\ [TokensNext]_tvars => TouchInv'
    BY TouchStep
<1>3. TouchInv => (intact => OnlyUnpaidCallsGoUntouched)
  <2> SUFFICES ASSUME TouchInv, intact, NEW a \in Address, Loaded(js, a), Changed(a)
               PROVE  a \in js.touched \cup entered
    BY DEF OnlyUnpaidCallsGoUntouched
  <2> DEFINE n == Len(js.journal)
  <2>1. Touching(js, frames, contexts, entered) /\ js \in World /\ n \in Nat
    BY DEF TouchInv, TokensInv, Stacked, History, Sound, World
  <2>2. a \notin entered => Lost(js.accounts[a], a)
    BY DEF Lost, Loaded, Changed
  <2>3. Unwound(js, n).accounts = js.accounts /\ UnwoundTouched(js, n) = js.touched
    BY <2>1, TouchedNow
  <2>4. n \in 0 .. n
    BY <2>1
  <2> QED
    BY <2>1, <2>2, <2>3, <2>4 DEF Touching
<1> QED
    BY <1>1, <1>2, <1>3, PTL DEF TokensSpec
=============================================================================
