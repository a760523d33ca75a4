------------------------ MODULE ValueLifetimesProofs ------------------------
(***************************************************************************)
(* Machine-checked proofs about ValueLifetimes, for any number of families,*)
(* storages and requests. The idea: the count of every storage is the sum  *)
(* of the external owners, which are counted place by place, and of the    *)
(* input positions of live producers. A release therefore ends exactly     *)
(* what has no owner left, and a slot of the running program, which serves *)
(* the pinned root, is never among it. The recursive functions of the      *)
(* model (what a release ends, what a program needs) are taken as rounds   *)
(* of a step on finite sets, and settle by induction over the rounds.      *)
(***************************************************************************)
EXTENDS ValueLifetimes, FiniteSetTheorems, FunctionTheorems, SequenceTheorems, TLAPS

----------------------------------------------------------------------------
(* Induction, by a least counterexample.                                    *)

\* Every inhabited set of natural numbers has a least element.
LEMMA LeastNumber ==
    ASSUME NEW T \in SUBSET Nat, T # {}
    PROVE  \E n \in T : \A m \in T : n <= m
<1>1. \E R : IsWellFoundedOn(R, Nat) /\ R = {p \in Nat \X Nat : p[1] < p[2]}
    BY NatLessThanWellFounded, Zenon DEF OpToRel
<1>2. PICK R : IsWellFoundedOn(R, Nat) /\ R = {p \in Nat \X Nat : p[1] < p[2]}
    BY <1>1
<1>3. \E n \in T : \A m \in T : ~ (<<m, n>> \in R)
    BY <1>2, WFMin, Zenon
<1>4. \A m, n \in Nat : m < n => <<m, n>> \in R
    BY <1>2
<1>5. \A m, n \in Nat : ~ (m < n) => n <= m
    OBVIOUS
<1> QED BY <1>3, <1>4, <1>5

\* A set of numbers that holds 0 and the successor of each of its members holds all.
LEMMA Induction ==
    ASSUME NEW T \in SUBSET Nat, 0 \in T, \A n \in T : n + 1 \in T
    PROVE  T = Nat
<1> SUFFICES ASSUME Nat \ T # {} PROVE FALSE
    OBVIOUS
<1>1. PICK n \in Nat \ T : \A m \in Nat \ T : n <= m
    BY LeastNumber, Zenon
<1>2. n # 0 /\ n - 1 \in Nat
    BY <1>1
<1>3. n - 1 \in T
    BY <1>1, <1>2
<1>4. (n - 1) + 1 = n
    BY <1>1
<1> QED BY <1>1, <1>3, <1>4

\* g lists the sets reached from base by k applications of F.
Iterates(S, F, base, k, g) ==
    g \in [0..k -> SUBSET S] /\ g[0] = base /\ \A n \in 1..k : g[n] = F[g[n - 1]]

\* A step on the subsets of a set can be repeated any number of times.
LEMMA RoundsExist ==
    ASSUME NEW S, NEW F \in [SUBSET S -> SUBSET S], NEW base \in SUBSET S
    PROVE  \A k \in Nat : \E g : Iterates(S, F, base, k, g)
<1> DEFINE Has(k) == \E g \in [0..k -> SUBSET S] : g[0] = base /\ \A n \in 1..k : g[n] = F[g[n - 1]]
           T == {k \in Nat : Has(k)}
<1>1. 0 \in T
  <2> DEFINE f == [n \in 0..0 |-> base]
  <2>1. f \in [0..0 -> SUBSET S]
    OBVIOUS
  <2>2. f[0] = base /\ \A n \in 1..0 : f[n] = F[f[n - 1]]
    OBVIOUS
  <2> QED BY <2>1, <2>2
<1>2. ASSUME NEW k \in T PROVE k + 1 \in T
  <2>1. k \in Nat /\ k + 1 \in Nat
    OBVIOUS
  <2>2. PICK g \in [0..k -> SUBSET S] : g[0] = base /\ \A n \in 1..k : g[n] = F[g[n - 1]]
    OBVIOUS
  <2> DEFINE f == [n \in 0..(k + 1) |-> IF n = k + 1 THEN F[g[k]] ELSE g[n]]
  <2>3. f \in [0..(k + 1) -> SUBSET S]
    <3>1. F[g[k]] \in SUBSET S
      BY <2>1
    <3>2. ASSUME NEW n \in 0..(k + 1), n # k + 1 PROVE g[n] \in SUBSET S
      <4>1. n \in 0..k
        BY <2>1, <3>2
      <4> QED BY <4>1
    <3> QED BY <3>1, <3>2
  <2>4. f[0] = base
    BY <2>1, <2>2
  <2>5. ASSUME NEW n \in 1..(k + 1) PROVE f[n] = F[f[n - 1]]
    <3>1. f[n - 1] = g[n - 1]
      BY <2>1
    <3>2. CASE n = k + 1
      BY <2>1, <3>1, <3>2
    <3>3. CASE n # k + 1
      <4>1. n \in 1..k /\ f[n] = g[n]
        BY <2>1, <3>3
      <4> QED BY <4>1, <3>1, <2>2
    <3> QED BY <3>2, <3>3
  <2>6. Has(k + 1)
    BY <2>3, <2>4, <2>5
  <2> QED BY <2>1, <2>6
<1>3. T = Nat
  <2> HIDE DEF T
  <2> QED
    <3>1. T \in SUBSET Nat
      BY DEF T
    <3> QED BY <3>1, <1>1, <1>2, Induction
<1> QED BY <1>3 DEF Iterates

\* Rounds that only add reach a set that a further round leaves alone, after
\* as many rounds as there are elements.
LEMMA RoundsSettle ==
    ASSUME NEW N \in Nat, NEW F \in [SUBSET (1..N) -> SUBSET (1..N)],
           \A a, b \in SUBSET (1..N) : a \subseteq b => F[a] \subseteq F[b],
           NEW g \in [0..N -> SUBSET (1..N)], g[0] \subseteq F[g[0]],
           \A n \in 1..N : g[n] = F[g[n - 1]]
    PROVE  F[g[N]] = g[N]
<1> DEFINE S == 1..N
           Grown(n) == n <= N => /\ g[n] \subseteq F[g[n]]
                                 /\ F[g[n]] = g[n] \/ Cardinality(g[n]) >= n
           T == {n \in Nat : Grown(n)}
<1>a. /\ IsFiniteSet(S) /\ Cardinality(S) = N
  BY FS_Interval
<1>b. \A A \in SUBSET S : IsFiniteSet(A) /\ Cardinality(A) \in Nat
  BY <1>a, FS_Subset, FS_CardinalityType
<1>1. 0 \in T
  <2>1. 0 \in 0..N /\ g[0] \in SUBSET S
    OBVIOUS
  <2>2. Cardinality(g[0]) >= 0
    BY <2>1, <1>b
  <2> QED BY <2>1, <2>2
<1>2. ASSUME NEW n \in T PROVE n + 1 \in T
  <2> SUFFICES ASSUME n + 1 <= N PROVE Grown(n + 1)
    OBVIOUS
  <2>1. n \in 0..N /\ n + 1 \in 0..N /\ n + 1 \in 1..N /\ n \in Nat /\ (n + 1) - 1 = n
    OBVIOUS
  <2>2. g[n] \in SUBSET S /\ g[n + 1] \in SUBSET S /\ g[n + 1] = F[g[n]]
    BY <2>1
  <2>3. g[n] \subseteq F[g[n]] /\ (F[g[n]] = g[n] \/ Cardinality(g[n]) >= n)
    BY <2>1
  <2>4. g[n + 1] \subseteq F[g[n + 1]]
    BY <2>2, <2>3
  <2>5. F[g[n + 1]] = g[n + 1] \/ Cardinality(g[n + 1]) >= n + 1
    <3>1. CASE F[g[n]] = g[n]
      BY <3>1, <2>2
    <3>2. CASE F[g[n]] # g[n]
      <4>1. Cardinality(g[n]) >= n
        BY <2>3, <3>2
      <4>2. IsFiniteSet(g[n + 1]) /\ g[n] \in SUBSET g[n + 1] /\ g[n] # g[n + 1]
        BY <2>2, <2>3, <3>2, <1>b
      <4>3. Cardinality(g[n]) <= Cardinality(g[n + 1]) /\ Cardinality(g[n]) # Cardinality(g[n + 1])
        BY <4>2, FS_Subset
      <4>4. Cardinality(g[n]) \in Nat /\ Cardinality(g[n + 1]) \in Nat
        BY <2>2, <1>b
      <4> QED BY <4>1, <4>3, <4>4, <2>1
    <3> QED BY <3>1, <3>2
  <2> QED BY <2>4, <2>5
<1>3. Grown(N)
  <2>1. T \in SUBSET Nat
    OBVIOUS
  <2>2. T = Nat
    <3> HIDE DEF T
    <3> QED BY <2>1, <1>1, <1>2, Induction
  <2> QED BY <2>2
<1>4. N \in 0..N /\ g[N] \in SUBSET S /\ F[g[N]] \in SUBSET S
  OBVIOUS
<1>6. g[N] \subseteq F[g[N]] /\ (F[g[N]] = g[N] \/ Cardinality(g[N]) >= N)
  <2> HIDE DEF S
  <2> QED BY <1>3
<1>5. CASE Cardinality(g[N]) >= N
  <2>1. Cardinality(g[N]) = Cardinality(S)
    <3>1. Cardinality(g[N]) <= Cardinality(S) /\ Cardinality(g[N]) \in Nat
      BY <1>4, <1>a, <1>b, FS_Subset
    <3> QED BY <3>1, <1>5, <1>a
  <2>2. g[N] = S
    BY <2>1, <1>4, <1>a, FS_Subset
  <2>3. g[N] \subseteq F[g[N]] /\ F[g[N]] \subseteq S
    BY <1>6, <1>4
  <2> QED BY <2>2, <2>3
<1> QED BY <1>6, <1>5

----------------------------------------------------------------------------
(* How many producers use a storage.                                        *)

Cells == [refs : Nat, inputs : Seq(Storages), material : {"none", "host", "resident"},
          shape : Shapes, expands : {{}} \cup {{f} : f \in Families}]
HeapTyped(h) == h \in [Storages -> Cells] /\ \A s \in Storages : Len(h[s].inputs) <= 2

\* The producers of cs that use s as their first input, and as their second.
First(h, cs, s) == {c \in cs : Len(h[c].inputs) > 0 /\ h[c].inputs[1] = s}
Second(h, cs, s) == {c \in cs : Len(h[c].inputs) > 1 /\ h[c].inputs[2] = s}

\* Storages are finitely many.
LEMMA StoragesAreFinite ==
    /\ IsFiniteSet(Storages)
    /\ \A cs \in SUBSET Storages : IsFiniteSet(cs) /\ Cardinality(cs) \in Nat
<1>1. IsFiniteSet(Storages)
    BY BoundsAssumption, FS_Interval DEF Storages
<1>2. \A cs \in SUBSET Storages : IsFiniteSet(cs)
    BY <1>1, FS_Subset
<1> QED BY <1>1, <1>2, FS_CardinalityType

\* Uses are counted position by position.
LEMMA UsesCount ==
    ASSUME NEW h, NEW cs \in SUBSET Storages, NEW s
    PROVE  /\ Uses(h, cs, s) = Cardinality(First(h, cs, s)) + Cardinality(Second(h, cs, s))
           /\ First(h, cs, s) \in SUBSET Storages /\ Second(h, cs, s) \in SUBSET Storages
           /\ Cardinality(First(h, cs, s)) \in Nat /\ Cardinality(Second(h, cs, s)) \in Nat
           /\ Uses(h, cs, s) \in Nat
<1>1. Uses(h, cs, s) = Cardinality(First(h, cs, s)) + Cardinality(Second(h, cs, s))
    BY DEF Uses, First, Second
<1>2. First(h, cs, s) \in SUBSET Storages /\ Second(h, cs, s) \in SUBSET Storages
    BY DEF First, Second
<1>3. Cardinality(First(h, cs, s)) \in Nat /\ Cardinality(Second(h, cs, s)) \in Nat
    BY <1>2, StoragesAreFinite
<1> QED BY <1>1, <1>2, <1>3

\* The uses by two groups of producers add up.
LEMMA UsesSplit ==
    ASSUME NEW h, NEW a \in SUBSET Storages, NEW b \in SUBSET Storages, a \cap b = {}, NEW s
    PROVE  Uses(h, a \cup b, s) = Uses(h, a, s) + Uses(h, b, s)
<1>1. /\ First(h, a \cup b, s) = First(h, a, s) \cup First(h, b, s)
      /\ First(h, a, s) \cap First(h, b, s) = {}
    BY DEF First
<1>2. /\ Second(h, a \cup b, s) = Second(h, a, s) \cup Second(h, b, s)
      /\ Second(h, a, s) \cap Second(h, b, s) = {}
    BY DEF Second
<1>3. ASSUME NEW x \in SUBSET Storages, NEW y \in SUBSET Storages, x \cap y = {}
      PROVE  Cardinality(x \cup y) = Cardinality(x) + Cardinality(y)
  <2>1. IsFiniteSet(x) /\ IsFiniteSet(y) /\ Cardinality(x) \in Nat /\ Cardinality(y) \in Nat
    BY StoragesAreFinite
  <2>2. Cardinality(x \cup y) = Cardinality(x) + Cardinality(y) - Cardinality(x \cap y)
    BY <2>1, FS_Union
  <2>3. Cardinality(x \cap y) = 0
    BY <1>3, FS_EmptySet
  <2> QED BY <2>1, <2>2, <2>3
<1>4. Cardinality(First(h, a \cup b, s)) = Cardinality(First(h, a, s)) + Cardinality(First(h, b, s))
  <2>1. First(h, a, s) \in SUBSET Storages /\ First(h, b, s) \in SUBSET Storages
    BY UsesCount
  <2> QED BY <1>1, <1>3, <2>1
<1>5. Cardinality(Second(h, a \cup b, s)) = Cardinality(Second(h, a, s)) + Cardinality(Second(h, b, s))
  <2>1. Second(h, a, s) \in SUBSET Storages /\ Second(h, b, s) \in SUBSET Storages
    BY UsesCount
  <2> QED BY <1>2, <1>3, <2>1
<1>6. a \cup b \in SUBSET Storages
    OBVIOUS
<1>7. /\ Uses(h, a, s) = Cardinality(First(h, a, s)) + Cardinality(Second(h, a, s))
      /\ Uses(h, b, s) = Cardinality(First(h, b, s)) + Cardinality(Second(h, b, s))
      /\ Uses(h, a \cup b, s) = Cardinality(First(h, a \cup b, s)) + Cardinality(Second(h, a \cup b, s))
      /\ Cardinality(First(h, a, s)) \in Nat /\ Cardinality(Second(h, a, s)) \in Nat
      /\ Cardinality(First(h, b, s)) \in Nat /\ Cardinality(Second(h, b, s)) \in Nat
    BY <1>6, UsesCount
<1> QED BY <1>4, <1>5, <1>7

\* More producers have no fewer uses.
LEMMA UsesGrow ==
    ASSUME NEW h, NEW b \in SUBSET Storages, NEW a \in SUBSET b, NEW s
    PROVE  /\ Uses(h, b, s) = Uses(h, a, s) + Uses(h, b \ a, s)
           /\ Uses(h, a, s) <= Uses(h, b, s)
<1>1. a \in SUBSET Storages /\ b \ a \in SUBSET Storages /\ a \cap (b \ a) = {} /\ a \cup (b \ a) = b
    OBVIOUS
<1>2. Uses(h, a, s) \in Nat /\ Uses(h, b \ a, s) \in Nat
    BY <1>1, UsesCount
<1>3. Uses(h, b, s) = Uses(h, a, s) + Uses(h, b \ a, s)
    BY <1>1, UsesSplit
<1> QED BY <1>2, <1>3

\* Producers that keep their inputs use what they used.
LEMMA UsesSame ==
    ASSUME NEW h, NEW g, NEW cs \in SUBSET Storages, \A c \in cs : g[c].inputs = h[c].inputs, NEW s
    PROVE  Uses(g, cs, s) = Uses(h, cs, s)
<1>1. First(g, cs, s) = First(h, cs, s) /\ Second(g, cs, s) = Second(h, cs, s)
    BY DEF First, Second
<1> QED BY <1>1, UsesCount

\* A storage has uses when it is among the inputs of a producer.
LEMMA UsesMean ==
    ASSUME NEW h, NEW cs \in SUBSET Storages, NEW s, HeapTyped(h)
    PROVE  Uses(h, cs, s) > 0 <=> \E c \in cs : s \in Inputs(h, c)
<1>1. \A c \in cs : s \in Inputs(h, c) <=> c \in First(h, cs, s) \/ c \in Second(h, cs, s)
  <2> SUFFICES ASSUME NEW c \in cs
               PROVE  s \in Inputs(h, c) <=> c \in First(h, cs, s) \/ c \in Second(h, cs, s)
    OBVIOUS
  <2>1. h[c].inputs \in Seq(Storages) /\ Len(h[c].inputs) <= 2
    BY DEF HeapTyped, Cells
  <2>2. Len(h[c].inputs) \in Nat /\ DOMAIN h[c].inputs = 1..Len(h[c].inputs)
    BY <2>1
  <2>3. \A i \in DOMAIN h[c].inputs : i = 1 \/ (i = 2 /\ Len(h[c].inputs) > 1)
    BY <2>1, <2>2
  <2>4. (Len(h[c].inputs) > 0 => 1 \in DOMAIN h[c].inputs) /\ (Len(h[c].inputs) > 1 => 2 \in DOMAIN h[c].inputs)
    BY <2>2
  <2>5. (1 \in DOMAIN h[c].inputs => Len(h[c].inputs) > 0)
    BY <2>2
  <2> QED BY <2>3, <2>4, <2>5 DEF Inputs, First, Second
<1>2. Uses(h, cs, s) = 0 <=> First(h, cs, s) = {} /\ Second(h, cs, s) = {}
  <2>1. IsFiniteSet(First(h, cs, s)) /\ IsFiniteSet(Second(h, cs, s))
    BY UsesCount, StoragesAreFinite
  <2>2. /\ Cardinality(First(h, cs, s)) = 0 <=> First(h, cs, s) = {}
        /\ Cardinality(Second(h, cs, s)) = 0 <=> Second(h, cs, s) = {}
    BY <2>1, FS_EmptySet
  <2>3. /\ Uses(h, cs, s) = Cardinality(First(h, cs, s)) + Cardinality(Second(h, cs, s))
        /\ Cardinality(First(h, cs, s)) \in Nat /\ Cardinality(Second(h, cs, s)) \in Nat
    BY UsesCount
  <2> QED BY <2>2, <2>3
<1>3. Uses(h, cs, s) \in Nat
    BY UsesCount
<1>4. (First(h, cs, s) # {} \/ Second(h, cs, s) # {}) <=> \E c \in cs : c \in First(h, cs, s) \/ c \in Second(h, cs, s)
    BY DEF First, Second
<1> QED BY <1>1, <1>2, <1>3, <1>4

----------------------------------------------------------------------------
(* What a heap with its external owners x has to satisfy in the middle of a *)
(* call, when expansions may have been created that nobody owns yet.        *)

Counts == [Storages -> Nat]
Live(h) == {s \in Storages : h[s].refs > 0}
Dormant(h) == {s \in Storages : h[s].refs = 0 /\ h[s] # Blank}
Balanced(h, x) == \A s \in Storages : h[s].refs = x[s] + Uses(h, Live(h), s)
Computable(h) == \A s \in Storages : h[s] # Blank => h[s].material # "none" \/ h[s].inputs # <<>>
Expansions(h) == \A s \in Dormant(h) : h[s].expands # {} /\ Inputs(h, s) \subseteq Live(h)
HeapInv(h, x) == HeapTyped(h) /\ Balanced(h, x) /\ Computable(h) /\ Expansions(h)

\* A cell keeps all but its reference count.
Keeps(h, g, s) ==
    /\ g[s].inputs = h[s].inputs /\ g[s].material = h[s].material
    /\ g[s].shape = h[s].shape /\ g[s].expands = h[s].expands

\* Cells are records with these fields.
LEMMA CellFields ==
    ASSUME NEW h, HeapTyped(h), NEW s \in Storages
    PROVE  /\ h[s] \in Cells /\ h[s].refs \in Nat /\ h[s].inputs \in Seq(Storages) /\ Len(h[s].inputs) <= 2
           /\ h[s].material \in {"none", "host", "resident"} /\ h[s].shape \in Shapes
           /\ h[s].expands \in {{}} \cup {{f} : f \in Families}
           /\ Inputs(h, s) \subseteq Storages
<1>1. h[s] \in Cells /\ Len(h[s].inputs) <= 2
    BY DEF HeapTyped
<1>2. h[s].inputs \in Seq(Storages)
    BY <1>1 DEF Cells
<1>3. Inputs(h, s) \subseteq Storages
    BY <1>2 DEF Inputs
<1> QED BY <1>1, <1>3 DEF Cells

\* A cell with another reference count is a cell.
LEMMA CellCounted ==
    ASSUME NEW c \in Cells, NEW n \in Nat, NEW d, d = [c EXCEPT !.refs = n]
    PROVE  /\ d \in Cells /\ d.refs = n /\ d.inputs = c.inputs /\ d.material = c.material
           /\ d.shape = c.shape /\ d.expands = c.expands
BY DEF Cells

\* Cells with equal fields are equal.
LEMMA CellsEqual ==
    ASSUME NEW c \in Cells, NEW d \in Cells, d.refs = c.refs, d.inputs = c.inputs,
           d.material = c.material, d.shape = c.shape, d.expands = c.expands
    PROVE  d = c
<1>1. /\ c = [refs |-> c.refs, inputs |-> c.inputs, material |-> c.material, shape |-> c.shape, expands |-> c.expands]
      /\ d = [refs |-> d.refs, inputs |-> d.inputs, material |-> d.material, shape |-> d.shape, expands |-> d.expands]
    BY DEF Cells
<1> QED BY <1>1

\* The blank cell.
LEMMA BlankCell ==
    /\ Blank \in Cells /\ Len(Blank.inputs) = 0 /\ Blank.refs = 0 /\ Blank.inputs = <<>>
    /\ Blank.material = "none" /\ Blank.shape = "one" /\ Blank.expands = {}
BY DEF Blank, Cells, Shapes

\* A live cell is not blank, and nor is one that has inputs or expands a family.
LEMMA NotBlank ==
    ASSUME NEW h, NEW s, h[s].refs > 0 \/ h[s].expands # {} \/ h[s].inputs # <<>> \/ h[s].material # "none"
    PROVE  h[s] # Blank
BY BlankCell

\* Balance depends on the counts and on the inputs of live cells only.
LEMMA BalanceDepends ==
    ASSUME NEW h, NEW g, NEW x, Balanced(h, x),
           \A s \in Storages : g[s].refs = h[s].refs, \A s \in Live(h) : g[s].inputs = h[s].inputs
    PROVE  Live(g) = Live(h) /\ Balanced(g, x)
<1>1. Live(g) = Live(h)
    BY DEF Live
<1>2. ASSUME NEW s \in Storages PROVE Uses(g, Live(g), s) = Uses(h, Live(h), s)
  <2>1. Live(h) \in SUBSET Storages
    BY DEF Live
  <2> QED BY <2>1, <1>1, UsesSame
<1> QED BY <1>1, <1>2 DEF Balanced

\* A cell that counts an external owner is live, and so are the inputs of a
\* live cell.
LEMMA OwnedIsLive ==
    ASSUME NEW h, NEW x \in Counts, HeapTyped(h), Balanced(h, x), NEW s \in Storages
    PROVE  /\ x[s] > 0 => s \in Live(h)
           /\ \A c \in Live(h) : s \in Inputs(h, c) => s \in Live(h)
           /\ h[s].refs = 0 => x[s] = 0 /\ Uses(h, Live(h), s) = 0
<1>1. h[s].refs = x[s] + Uses(h, Live(h), s) /\ h[s].refs \in Nat /\ x[s] \in Nat
    BY CellFields DEF Balanced, Counts
<1>2. Live(h) \in SUBSET Storages
    BY DEF Live
<1>3. Uses(h, Live(h), s) \in Nat /\ (Uses(h, Live(h), s) > 0 <=> \E c \in Live(h) : s \in Inputs(h, c))
    BY <1>2, UsesCount, UsesMean
<1>4. s \in Live(h) <=> h[s].refs > 0
    BY DEF Live
<1> QED BY <1>1, <1>3, <1>4

\* A heap whose cells change their counts only, by what their owners change.
LEMMA RecountBalances ==
    ASSUME NEW h, NEW x, HeapInv(h, x), NEW g, g \in [Storages -> Cells], NEW y,
           \A t \in Storages : Keeps(h, g, t) /\ g[t].refs >= h[t].refs /\ (h[t] = Blank => g[t] = Blank),
           \A t \in Storages : g[t].refs = y[t] + Uses(h, Live(g), t)
    PROVE  HeapInv(g, y) /\ Live(h) \subseteq Live(g) /\ Dormant(g) = Dormant(h) \ Live(g)
<1>1. HeapTyped(h)
    BY DEF HeapInv
<1>2. HeapTyped(g)
    BY <1>1 DEF HeapTyped, Keeps
<1>3. Live(h) \subseteq Live(g)
  <2> SUFFICES ASSUME NEW t \in Live(h) PROVE t \in Live(g)
    OBVIOUS
  <2>1. t \in Storages /\ h[t].refs > 0
    BY DEF Live
  <2> QED BY <2>1, <1>1, <1>2, CellFields DEF Live
<1>4. \A t \in Storages : h[t].refs = 0 => (g[t].refs = 0 => g[t] = h[t])
  <2> SUFFICES ASSUME NEW t \in Storages, h[t].refs = 0, g[t].refs = 0 PROVE g[t] = h[t]
    OBVIOUS
  <2>1. g[t] \in Cells /\ h[t] \in Cells /\ Keeps(h, g, t)
    BY <1>1 DEF HeapTyped
  <2> QED BY <2>1, CellsEqual DEF Keeps
<1>5. Dormant(g) = Dormant(h) \ Live(g)
  <2> SUFFICES ASSUME NEW t \in Storages PROVE t \in Dormant(g) <=> t \in Dormant(h) \ Live(g)
    BY DEF Dormant
  <2>1. g[t].refs \in Nat /\ h[t].refs \in Nat /\ g[t].refs >= h[t].refs
    BY <1>1, <1>2, CellFields
  <2>2. g[t].refs = 0 => h[t].refs = 0
    BY <2>1
  <2>3. t \in Live(g) <=> g[t].refs # 0
    BY <2>1 DEF Live
  <2> QED BY <2>2, <2>3, <1>4 DEF Dormant
<1>6. Balanced(g, y)
  <2> SUFFICES ASSUME NEW t \in Storages PROVE g[t].refs = y[t] + Uses(g, Live(g), t)
    BY DEF Balanced
  <2>1. Live(g) \in SUBSET Storages /\ \A c \in Live(g) : g[c].inputs = h[c].inputs
    BY DEF Live, Keeps
  <2>2. Uses(g, Live(g), t) = Uses(h, Live(g), t)
    BY <2>1, UsesSame
  <2> QED BY <2>2
<1>7. Computable(g)
  <2> SUFFICES ASSUME NEW t \in Storages, g[t] # Blank PROVE g[t].material # "none" \/ g[t].inputs # <<>>
    BY DEF Computable
  <2>1. Keeps(h, g, t)
    OBVIOUS
  <2>2. h[t] # Blank
    OBVIOUS
  <2>3. h[t].material # "none" \/ h[t].inputs # <<>>
    BY <2>2 DEF HeapInv, Computable
  <2> QED BY <2>1, <2>3 DEF Keeps
<1>8. Expansions(g)
  <2> SUFFICES ASSUME NEW t \in Dormant(g) PROVE g[t].expands # {} /\ Inputs(g, t) \subseteq Live(g)
    BY DEF Expansions
  <2>1. t \in Storages /\ t \in Dormant(h)
    BY <1>5 DEF Dormant
  <2>2. Keeps(h, g, t)
    BY <2>1
  <2>3. h[t].expands # {} /\ Inputs(h, t) \subseteq Live(h)
    BY <2>1 DEF HeapInv, Expansions
  <2> QED BY <2>2, <2>3, <1>3 DEF Keeps, Inputs
<1> QED BY <1>2, <1>3, <1>5, <1>6, <1>7, <1>8 DEF HeapInv

Owned(h, s) == [h EXCEPT ![s].refs = @ + 1]
Placed(h, s, n) == [h EXCEPT ![s] = n]
Projection(p, k, f) == [Blank EXCEPT !.inputs = <<p>>, !.shape = k, !.expands = {f}]

\* Counting an owner changes nothing else.
LEMMA OwnKeeps ==
    ASSUME NEW h, HeapTyped(h), NEW s \in Storages, NEW t \in Storages
    PROVE  /\ Keeps(h, Owned(h, s), t) /\ Owned(h, s)[t].refs >= h[t].refs
           /\ t # s => Owned(h, s)[t] = h[t]
<1>1. h \in [Storages -> Cells] /\ h[s] \in Cells /\ h[s].refs \in Nat /\ h[s].refs + 1 \in Nat /\ h[t].refs \in Nat
    BY CellFields DEF HeapTyped
<1>2. Owned(h, s)[s] = [h[s] EXCEPT !.refs = h[s].refs + 1] /\ (t # s => Owned(h, s)[t] = h[t])
    BY <1>1 DEF Owned
<1>3. CASE t = s
  <2>1. PICK c \in Cells : c = h[s]
    BY <1>1
  <2>2. PICK d : d = Owned(h, s)[s]
    OBVIOUS
  <2>3. d = [c EXCEPT !.refs = c.refs + 1] /\ c.refs + 1 \in Nat
    BY <1>1, <1>2, <2>1, <2>2
  <2>4. /\ d.refs = c.refs + 1 /\ d.inputs = c.inputs /\ d.material = c.material
        /\ d.shape = c.shape /\ d.expands = c.expands
    BY <2>3, CellCounted
  <2> QED BY <1>1, <1>3, <2>1, <2>2, <2>4 DEF Keeps
<1>4. CASE t # s
    BY <1>1, <1>2, <1>4 DEF Keeps
<1> QED BY <1>3, <1>4

\* Counting one more owner of a live cell.
LEMMA OwnBalances ==
    ASSUME NEW h, NEW x \in Counts, HeapInv(h, x), NEW s \in Live(h)
    PROVE  /\ HeapInv(Owned(h, s), Both(x, One(s)))
           /\ Live(Owned(h, s)) = Live(h) /\ Dormant(Owned(h, s)) = Dormant(h)
           /\ \A t \in Storages : /\ Keeps(h, Owned(h, s), t) /\ Owned(h, s)[t].refs >= h[t].refs
                                  /\ t # s => Owned(h, s)[t] = h[t]
<1> DEFINE g == Owned(h, s)
           y == Both(x, One(s))
<1>1. s \in Storages /\ HeapTyped(h) /\ h[s].refs > 0
    BY DEF Live, HeapInv
<1>2. h \in [Storages -> Cells] /\ h[s] \in Cells /\ h[s].refs + 1 \in Nat
    BY <1>1, CellFields DEF HeapTyped
<1>3. g[s] = [h[s] EXCEPT !.refs = @ + 1] /\ \A t \in Storages : t # s => g[t] = h[t]
    BY <1>1, <1>2 DEF Owned
<1>4. g[s] \in Cells /\ g[s].refs = h[s].refs + 1 /\ Keeps(h, g, s)
    BY <1>2, <1>3, CellCounted DEF Keeps
<1>5. g \in [Storages -> Cells]
    BY <1>1, <1>2, <1>4 DEF Owned
<1>6. h[s] # Blank
    BY <1>1, BlankCell
<1>14. \A t \in Storages \ {s} : g[t] = h[t]
    BY <1>3
<1> HIDE DEF g
<1>7. \A t \in Storages : Keeps(h, g, t) /\ g[t].refs >= h[t].refs /\ (h[t] = Blank => g[t] = Blank)
  <2> SUFFICES ASSUME NEW t \in Storages
               PROVE  Keeps(h, g, t) /\ g[t].refs >= h[t].refs /\ (h[t] = Blank => g[t] = Blank)
    OBVIOUS
  <2>1. h[t].refs \in Nat
    BY <1>1, CellFields
  <2>2. CASE t = s
    BY <2>1, <2>2, <1>4, <1>6
  <2>3. CASE t # s
    BY <2>1, <2>3, <1>14 DEF Keeps
  <2> QED BY <2>2, <2>3
<1>8. Live(g) = Live(h)
  <2>1. \A t \in Storages : g[t].refs > 0 <=> h[t].refs > 0
    <3>1. h[s].refs \in Nat
      BY <1>1, CellFields
    <3> QED BY <3>1, <1>1, <1>14, <1>4
  <2> QED BY <2>1 DEF Live
<1>9. \A t \in Storages : g[t].refs = y[t] + Uses(h, Live(g), t)
  <2> SUFFICES ASSUME NEW t \in Storages PROVE g[t].refs = y[t] + Uses(h, Live(h), t)
    BY <1>8
  <2>1. y[t] = x[t] + (IF t = s THEN 1 ELSE 0) /\ x[t] \in Nat
    BY DEF Both, One, Counts
  <2>2. h[t].refs = x[t] + Uses(h, Live(h), t) /\ Uses(h, Live(h), t) \in Nat
    <3>1. Live(h) \in SUBSET Storages
      BY DEF Live
    <3> QED BY <3>1, UsesCount DEF HeapInv, Balanced
  <2>3. g[t].refs = h[t].refs + (IF t = s THEN 1 ELSE 0)
    <3>1. h[t].refs \in Nat
      BY <1>1, CellFields
    <3> QED BY <3>1, <1>14, <1>4
  <2> QED BY <2>1, <2>2, <2>3
<1>10. HeapInv(g, y) /\ Dormant(g) = Dormant(h) \ Live(g)
  <2> HIDE DEF y
  <2> QED BY <1>5, <1>7, <1>9, RecountBalances
<1>11. Dormant(h) \ Live(g) = Dormant(h)
    BY <1>8 DEF Dormant, Live
<1>12. HeapInv(g, y) /\ Live(g) = Live(h) /\ Dormant(g) = Dormant(h)
    BY <1>8, <1>10, <1>11
<1>13. \A t \in Storages : Keeps(h, g, t) /\ g[t].refs >= h[t].refs /\ (t # s => g[t] = h[t])
    BY <1>14, <1>7
<1> QED BY <1>12, <1>13 DEF g

\* A new expansion that nobody owns yet.
LEMMA ProjectionBalances ==
    ASSUME NEW h, NEW x \in Counts, HeapInv(h, x), NEW s \in Storages, h[s] = Blank,
           NEW p \in Live(h), NEW k \in Shapes, NEW f \in Families,
           NEW n, n = Projection(p, k, f), NEW g, g = Placed(h, s, n)
    PROVE  /\ HeapInv(g, x) /\ Live(g) = Live(h) /\ Dormant(g) = Dormant(h) \cup {s}
           /\ g[s] = n /\ n.inputs = <<p>> /\ n.shape = k /\ n.expands = {f} /\ n.refs = 0 /\ n.material = "none"
           /\ \A t \in Storages : t # s => g[t] = h[t]
<1>1. p \in Storages /\ HeapTyped(h) /\ h \in [Storages -> Cells]
    BY DEF Live, HeapInv, HeapTyped
<1>2. g[s] = n /\ \A t \in Storages : t # s => g[t] = h[t]
    BY <1>1 DEF Placed
<1>3. n.inputs = <<p>> /\ n.shape = k /\ n.expands = {f} /\ n.refs = 0 /\ n.material = "none"
    BY DEF Blank, Projection
<1>4. <<p>> \in Seq(Storages) /\ Len(<<p>>) = 1 /\ <<p>> # <<>>
    BY <1>1
<1>5. n \in Cells
    BY <1>4 DEF Blank, Cells, Projection
<1>6. HeapTyped(g)
  <2>1. g \in [Storages -> Cells]
    BY <1>1, <1>5 DEF Placed
  <2>2. \A t \in Storages : Len(g[t].inputs) <= 2
    <3>1. Len(g[s].inputs) <= 2
      BY <1>2, <1>3, <1>4
    <3>2. \A t \in Storages : Len(h[t].inputs) <= 2
      BY <1>1 DEF HeapTyped
    <3> QED BY <3>1, <3>2, <1>2
  <2> QED BY <2>1, <2>2 DEF HeapTyped
<1>7. h[s].refs = 0 /\ s \notin Live(h) /\ s \notin Dormant(h)
    BY BlankCell DEF Live, Dormant
<1>8. \A t \in Storages : g[t].refs = h[t].refs
    BY <1>2, <1>3, <1>7
<1>9. \A t \in Live(h) : t # s /\ g[t] = h[t]
    BY <1>2, <1>7 DEF Live
<1>10. Live(g) = Live(h) /\ Balanced(g, x)
  <2>1. Balanced(h, x)
    BY DEF HeapInv
  <2>2. \A t \in Live(h) : g[t].inputs = h[t].inputs
    BY <1>9
  <2> QED BY <2>1, <2>2, <1>8, BalanceDepends
<1>11. Dormant(g) = Dormant(h) \cup {s}
  <2>1. n # Blank
    BY <1>3, BlankCell
  <2>2. \A t \in Storages : t \in Dormant(g) <=> t \in Dormant(h) \/ t = s
    BY <2>1, <1>2, <1>3, <1>8 DEF Dormant
  <2> QED BY <2>2 DEF Dormant
<1>12. Computable(g)
    BY <1>2, <1>3, <1>4 DEF Computable, HeapInv
<1>13. Expansions(g)
  <2> SUFFICES ASSUME NEW t \in Dormant(g) PROVE g[t].expands # {} /\ Inputs(g, t) \subseteq Live(g)
    BY DEF Expansions
  <2>1. CASE t = s
    <3>1. Inputs(g, t) = {p}
      <4>1. g[t].inputs = <<p>>
        BY <2>1, <1>2, <1>3
      <4>2. \A i : i \in DOMAIN <<p>> <=> i = 1
        OBVIOUS
      <4>3. <<p>>[1] = p
        OBVIOUS
      <4> QED BY <4>1, <4>2, <4>3 DEF Inputs
    <3> QED BY <3>1, <2>1, <1>2, <1>3, <1>10
  <2>2. CASE t # s
    <3>1. t \in Dormant(h) /\ t \in Storages /\ g[t] = h[t]
      BY <2>2, <1>11, <1>2 DEF Dormant
    <3>2. h[t].expands # {} /\ Inputs(h, t) \subseteq Live(h)
      BY <3>1 DEF HeapInv, Expansions
    <3> QED BY <3>1, <3>2, <1>10 DEF Inputs
  <2> QED BY <2>1, <2>2
<1> QED BY <1>2, <1>3, <1>6, <1>10, <1>11, <1>12, <1>13 DEF HeapInv

\* An expansion uses its scalar, and is not its own input.
LEMMA DormantUses ==
    ASSUME NEW h, NEW x \in Counts, HeapInv(h, x), NEW s \in Dormant(h)
    PROVE  /\ s \in Storages /\ s \notin Live(h) /\ h[s].refs = 0 /\ Uses(h, {s}, s) = 0
           /\ \A t \in Storages : t \notin Live(h) => Uses(h, {s}, t) = 0
<1>1. s \in Storages /\ h[s].refs = 0 /\ HeapTyped(h) /\ {s} \in SUBSET Storages
    BY DEF Dormant, HeapInv
<1>2. s \notin Live(h)
    BY <1>1 DEF Live
<1>3. Inputs(h, s) \subseteq Live(h)
    BY DEF HeapInv, Expansions
<1>4. \A t \in Storages : t \notin Live(h) => Uses(h, {s}, t) = 0
  <2> SUFFICES ASSUME NEW t \in Storages, t \notin Live(h) PROVE Uses(h, {s}, t) = 0
    OBVIOUS
  <2>1. Uses(h, {s}, t) > 0 <=> \E c \in {s} : t \in Inputs(h, c)
    BY <1>1, UsesMean
  <2>2. Uses(h, {s}, t) \in Nat
    BY <1>1, UsesCount
  <2> QED BY <2>1, <2>2, <1>3
<1> QED BY <1>1, <1>2, <1>4

\* #retainValue: one more owner, who activates an expansion that had none.
LEMMA RetainBalances ==
    ASSUME NEW h, NEW x \in Counts, HeapInv(h, x), NEW s \in Storages, h[s] # Blank
    PROVE  /\ HeapInv(Retain(h, s), Both(x, One(s)))
           /\ Live(Retain(h, s)) = Live(h) \cup {s} /\ Dormant(Retain(h, s)) = Dormant(h) \ {s}
           /\ \A t \in Storages : Keeps(h, Retain(h, s), t) /\ Retain(h, s)[t].refs >= h[t].refs
<1>1. HeapTyped(h) /\ h \in [Storages -> Cells]
    BY DEF HeapInv, HeapTyped
<1>2. CASE s \in Live(h)
  <2>1. Retain(h, s) = Owned(h, s)
    <3>1. h[s].refs # 0
      BY <1>2 DEF Live
    <3> QED BY <3>1 DEF Retain, Owned
  <2>2. Live(h) \cup {s} = Live(h) /\ Dormant(h) \ {s} = Dormant(h)
    BY <1>2 DEF Live, Dormant
  <2>3. \A t \in Storages : Keeps(h, Retain(h, s), t) /\ Retain(h, s)[t].refs >= h[t].refs
    <3>1. \A t \in Storages : Keeps(h, Owned(h, s), t) /\ Owned(h, s)[t].refs >= h[t].refs
      BY <1>1, OwnKeeps
    <3> QED BY <3>1, <2>1, Zenon
  <2>4. HeapInv(Retain(h, s), Both(x, One(s))) /\ Live(Retain(h, s)) = Live(h) /\ Dormant(Retain(h, s)) = Dormant(h)
    BY <1>2, <2>1, OwnBalances
  <2> QED BY <2>2, <2>3, <2>4
<1>3. CASE s \notin Live(h)
  <2>1. s \in Dormant(h)
    <3>1. h[s].refs = 0
      BY <1>1, <1>3, CellFields DEF Live
    <3> QED BY <3>1 DEF Dormant
  <2>2. h[s].refs = 0 /\ h[s].expands # {} /\ Uses(h, {s}, s) = 0
    BY <2>1, DormantUses DEF HeapInv, Expansions
  <2> DEFINE a == [t \in Storages |-> [h[t] EXCEPT !.refs = @ + Uses(h, {s}, t)]]
             g == Retain(h, s)
             y == Both(x, One(s))
  <2>3. g = [a EXCEPT ![s].refs = @ + 1]
    BY <2>2 DEF Retain
  <2>4. \A t \in Storages : Uses(h, {s}, t) \in Nat /\ h[t].refs \in Nat /\ h[t] \in Cells
    BY <1>1, UsesCount, CellFields
  <2>5. \A t \in Storages : /\ a[t] \in Cells /\ a[t].refs = h[t].refs + Uses(h, {s}, t) /\ Keeps(h, a, t)
    <3> SUFFICES ASSUME NEW t \in Storages
                 PROVE  /\ a[t] \in Cells /\ a[t].refs = h[t].refs + Uses(h, {s}, t) /\ Keeps(h, a, t)
      OBVIOUS
    <3>1. h[t].refs + Uses(h, {s}, t) \in Nat /\ a[t] = [h[t] EXCEPT !.refs = h[t].refs + Uses(h, {s}, t)]
      BY <2>4
    <3> QED BY <3>1, <2>4, CellCounted DEF Keeps
  <2>6. /\ g[s] = [a[s] EXCEPT !.refs = a[s].refs + 1] /\ \A t \in Storages \ {s} : g[t] = a[t]
        /\ g = [t \in Storages |-> g[t]]
    BY <2>3
  <2> HIDE DEF g, a
  <2>7. a[s] \in Cells /\ a[s].refs = 0 /\ Keeps(h, a, s)
    BY <2>2, <2>5
  <2>8. g[s] \in Cells /\ g[s].refs = 1 /\ Keeps(h, g, s)
    <3>1. /\ g[s] \in Cells /\ g[s].refs = a[s].refs + 1 /\ g[s].inputs = a[s].inputs
          /\ g[s].material = a[s].material /\ g[s].shape = a[s].shape /\ g[s].expands = a[s].expands
      <4>1. a[s].refs + 1 \in Nat
        BY <2>7
      <4>2. PICK c \in Cells : c = a[s]
        BY <2>7
      <4>3. g[s] = [c EXCEPT !.refs = c.refs + 1] /\ c.refs + 1 \in Nat
        BY <4>1, <4>2, <2>6
      <4> HIDE <2>6
      <4> QED BY <4>2, <4>3, CellCounted
    <3> QED BY <3>1, <2>7 DEF Keeps
  <2>9. g \in [Storages -> Cells]
    <3>1. \A t \in Storages : g[t] \in Cells
      BY <2>5, <2>6, <2>8
    <3> QED BY <3>1, <2>6
  <2>10. /\ \A t \in Storages : Keeps(h, g, t)
         /\ \A t \in Storages \ {s} : g[t].refs = h[t].refs + Uses(h, {s}, t)
    <3>1. \A t \in Storages \ {s} : g[t] = a[t]
      BY <2>6
    <3> QED BY <3>1, <2>5, <2>8 DEF Keeps
  <2>11. Live(g) = Live(h) \cup {s}
    <3> SUFFICES ASSUME NEW t \in Storages PROVE g[t].refs > 0 <=> h[t].refs > 0 \/ t = s
      BY DEF Live
    <3>1. CASE t = s
      BY <3>1, <2>8
    <3>2. CASE t # s /\ t \notin Live(h)
      <4>1. Uses(h, {s}, t) = 0 /\ h[t].refs = 0
        <5>1. Uses(h, {s}, t) = 0
          BY <3>2, <2>1, DormantUses
        <5>2. h[t].refs \in Nat /\ ~(h[t].refs > 0)
          BY <3>2, <2>4 DEF Live
        <5> QED BY <5>1, <5>2
      <4>2. g[t].refs = 0
        BY <4>1, <3>2, <2>10
      <4> QED BY <4>1, <4>2, <3>2
    <3>3. CASE t # s /\ t \in Live(h)
      <4>1. h[t].refs \in Nat /\ h[t].refs > 0 /\ Uses(h, {s}, t) \in Nat
        BY <3>3, <2>4 DEF Live
      <4>2. g[t].refs = h[t].refs + Uses(h, {s}, t)
        BY <3>3, <2>10
      <4> QED BY <4>1, <4>2
    <3> QED BY <3>1, <3>2, <3>3
  <2>12. \A t \in Storages : h[t] = Blank => g[t] = Blank
    <3> SUFFICES ASSUME NEW t \in Storages, h[t] = Blank PROVE g[t] = Blank
      OBVIOUS
    <3>1. t # s /\ h[t].refs = 0
      BY BlankCell
    <3>2. t \notin Live(g)
      BY <3>1, <2>11 DEF Live
    <3>3. g[t].refs = 0
      <4>1. g[t].refs = h[t].refs + Uses(h, {s}, t) /\ Uses(h, {s}, t) \in Nat
        BY <3>1, <2>10, <2>4
      <4> QED BY <4>1, <3>1, <3>2 DEF Live
    <3>4. g[t] \in Cells /\ h[t] \in Cells /\ Keeps(h, g, t)
      BY <2>9, <2>4, <2>10
    <3>5. g[t] = h[t]
      BY <3>1, <3>3, <3>4, CellsEqual DEF Keeps
    <3> QED BY <3>5
  <2>13. \A t \in Storages : g[t].refs = y[t] + Uses(h, Live(g), t)
    <3> SUFFICES ASSUME NEW t \in Storages PROVE g[t].refs = y[t] + Uses(h, Live(g), t)
      OBVIOUS
    <3>1. Live(h) \in SUBSET Storages /\ {s} \in SUBSET Storages /\ Live(h) \cap {s} = {}
      BY <1>3 DEF Live
    <3>2. Uses(h, Live(h) \cup {s}, t) = Uses(h, Live(h), t) + Uses(h, {s}, t)
      BY <3>1, UsesSplit
    <3>3. h[t].refs = x[t] + Uses(h, Live(h), t) /\ Uses(h, Live(h), t) \in Nat
      BY <3>1, UsesCount DEF HeapInv, Balanced
    <3>4. y[t] = x[t] + (IF t = s THEN 1 ELSE 0) /\ x[t] \in Nat
      BY DEF Both, One, Counts
    <3>5. Uses(h, Live(g), t) = Uses(h, Live(h), t) + Uses(h, {s}, t)
      BY <3>2, <2>11
    <3>6. CASE t = s
      <4>1. g[t].refs = 1 /\ h[t].refs = 0 /\ Uses(h, {s}, t) = 0
        BY <3>6, <2>8, <2>2
      <4> QED BY <4>1, <3>6, <3>3, <3>4, <3>5
    <3>7. CASE t # s
      <4>1. g[t].refs = h[t].refs + Uses(h, {s}, t) /\ Uses(h, {s}, t) \in Nat
        BY <3>7, <2>10, <2>4
      <4> QED BY <4>1, <3>7, <3>3, <3>4, <3>5
    <3> QED BY <3>6, <3>7
  <2>14. \A t \in Storages : Keeps(h, g, t) /\ g[t].refs >= h[t].refs /\ (h[t] = Blank => g[t] = Blank)
    <3> SUFFICES ASSUME NEW t \in Storages
                 PROVE  Keeps(h, g, t) /\ g[t].refs >= h[t].refs /\ (h[t] = Blank => g[t] = Blank)
      OBVIOUS
    <3>1. CASE t = s
      <4>1. g[t].refs = 1 /\ h[t].refs = 0
        BY <3>1, <2>8, <2>2
      <4> QED BY <4>1, <2>10, <2>12
    <3>2. CASE t # s
      <4>1. g[t].refs = h[t].refs + Uses(h, {s}, t) /\ Uses(h, {s}, t) \in Nat /\ h[t].refs \in Nat
        BY <3>2, <2>10, <2>4
      <4> QED BY <4>1, <2>10, <2>12
    <3> QED BY <3>1, <3>2
  <2>15. HeapInv(g, y) /\ Dormant(g) = Dormant(h) \ Live(g)
    <3> HIDE DEF y
    <3> QED BY <2>9, <2>13, <2>14, RecountBalances
  <2>16. Dormant(h) \ Live(g) = Dormant(h) \ {s}
    BY <2>11 DEF Dormant, Live
  <2> QED BY <2>11, <2>14, <2>15, <2>16 DEF g
<1> QED BY <1>2, <1>3

\* The references one producer counts for.
UsedBy(h, a, t) == Uses(h, {a}, t)

\* A new storage that its first owner owns, and that owns its inputs instead
\* of those who retained them for it.
LEMMA CreateBalances ==
    ASSUME NEW h, NEW y \in Counts, HeapInv(h, y), NEW s \in Storages, h[s] = Blank,
           NEW n \in Cells, n.refs = 1, Len(n.inputs) <= 2, n.material # "none" \/ n.inputs # <<>>,
           NEW x \in Counts, \A t \in Storages : y[t] = x[t] + UsedBy(Placed(h, s, n), s, t)
    PROVE  /\ HeapInv(Placed(h, s, n), Both(x, One(s)))
           /\ Live(Placed(h, s, n)) = Live(h) \cup {s} /\ Dormant(Placed(h, s, n)) = Dormant(h)
           /\ Placed(h, s, n)[s] = n /\ \A t \in Storages \ {s} : Placed(h, s, n)[t] = h[t]
<1> DEFINE g == Placed(h, s, n)
           w == Both(x, One(s))
<1>1. HeapTyped(h) /\ h \in [Storages -> Cells] /\ Balanced(h, y)
    BY DEF HeapInv, HeapTyped
<1>2. g[s] = n /\ (\A t \in Storages \ {s} : g[t] = h[t]) /\ g \in [Storages -> Cells]
    BY <1>1 DEF Placed
<1>3. \A t \in Storages : y[t] = x[t] + Uses(g, {s}, t)
    BY DEF UsedBy
<1> HIDE DEF g
<1>4. HeapTyped(g)
  <2>1. \A t \in Storages : Len(g[t].inputs) <= 2
    BY <1>1, <1>2 DEF HeapTyped
  <2> QED BY <2>1, <1>2 DEF HeapTyped
<1>5. h[s].refs = 0 /\ s \notin Live(h) /\ n # Blank
    BY BlankCell DEF Live
<1>6. Live(g) = Live(h) \cup {s}
  <2>1. \A t \in Storages : g[t].refs > 0 <=> h[t].refs > 0 \/ t = s
    BY <1>2
  <2> QED BY <2>1 DEF Live
<1>7. Dormant(g) = Dormant(h)
  <2>1. \A t \in Storages : t \in Dormant(g) <=> t \in Dormant(h)
    BY <1>2, <1>5 DEF Dormant
  <2> QED BY <2>1 DEF Dormant
<1>8. Balanced(g, w)
  <2> SUFFICES ASSUME NEW t \in Storages PROVE g[t].refs = w[t] + Uses(g, Live(g), t)
    BY DEF Balanced
  <2>1. Live(h) \in SUBSET Storages /\ {s} \in SUBSET Storages /\ Live(h) \cap {s} = {}
    BY <1>5 DEF Live
  <2>2. Uses(g, Live(g), t) = Uses(g, Live(h), t) + Uses(g, {s}, t)
    <3>1. Uses(g, Live(h) \cup {s}, t) = Uses(g, Live(h), t) + Uses(g, {s}, t)
      BY <2>1, UsesSplit
    <3> QED BY <3>1, <1>6
  <2>3. Uses(g, Live(h), t) = Uses(h, Live(h), t)
    <3>1. \A c \in Live(h) : g[c].inputs = h[c].inputs
      BY <1>2, <1>5, <2>1
    <3> QED BY <3>1, <2>1, UsesSame
  <2>4. h[t].refs = y[t] + Uses(h, Live(h), t) /\ Uses(h, Live(h), t) \in Nat /\ Uses(g, {s}, t) \in Nat
    BY <1>1, <2>1, UsesCount DEF Balanced
  <2>5. w[t] = x[t] + (IF t = s THEN 1 ELSE 0) /\ x[t] \in Nat /\ y[t] \in Nat
    BY DEF Both, One, Counts
  <2>6. y[t] = x[t] + Uses(g, {s}, t)
    BY <1>3
  <2>7. CASE t = s
    <3>1. g[t].refs = 1 /\ h[t].refs = 0
      BY <2>7, <1>2, <1>5
    <3>2. w[t] = x[t] + 1
      BY <2>7, <2>5
    <3> QED BY ONLY <3>1, <3>2, <2>2, <2>3, <2>4, <2>5, <2>6
  <2>8. CASE t # s
    <3>1. g[t].refs = h[t].refs
      BY <2>8, <1>2
    <3> QED BY <3>1, <2>8, <2>2, <2>3, <2>4, <2>5, <2>6
  <2> QED BY <2>7, <2>8
<1>9. Computable(g)
    BY <1>2 DEF Computable, HeapInv
<1>10. Expansions(g)
  <2> SUFFICES ASSUME NEW t \in Dormant(g) PROVE g[t].expands # {} /\ Inputs(g, t) \subseteq Live(g)
    BY DEF Expansions
  <2>1. t \in Storages /\ t \in Dormant(h) /\ t # s
    BY <1>7, <1>5 DEF Dormant
  <2>2. h[t].expands # {} /\ Inputs(h, t) \subseteq Live(h) /\ g[t] = h[t]
    BY <2>1, <1>2 DEF HeapInv, Expansions
  <2> QED BY <2>2, <1>6 DEF Inputs
<1>11. HeapInv(g, w)
    BY <1>4, <1>8, <1>9, <1>10 DEF HeapInv
<1> QED BY <1>2, <1>6, <1>7, <1>11 DEF g

----------------------------------------------------------------------------
(* #releaseValue: what ends when owners let go.                             *)

\* The storages that end once those in d have.
Falling(h, b, d) == {s \in Storages : Losses(h, b, d, s) > 0 /\ Losses(h, b, d, s) >= h[s].refs}

DyingRounds(h, b, g) ==
    /\ g \in [0..MaxStorages -> SUBSET Storages]
    /\ g[0] = {} /\ g[MaxStorages] = Dying(h, b)
    /\ \A n \in 1..MaxStorages : g[n] = Falling(h, b, g[n - 1])

\* The storages that end are found in rounds.
LEMMA DyingInRounds ==
    ASSUME NEW h, NEW b
    PROVE  \E g : DyingRounds(h, b, g)
<1> DEFINE F == [d \in SUBSET Storages |-> Falling(h, b, d)]
           P(g) == g = [n \in 0..MaxStorages |-> IF n = 0 THEN {} ELSE Falling(h, b, g[n - 1])]
           r == CHOOSE g : P(g)
<1>1. MaxStorages \in Nat
    BY BoundsAssumption
<1>2. F \in [SUBSET Storages -> SUBSET Storages]
    BY DEF Falling
<1>3. \E g : Iterates(Storages, F, {}, MaxStorages, g)
  <2> HIDE DEF F
  <2>1. {} \in SUBSET Storages
    OBVIOUS
  <2> QED BY <2>1, <1>1, <1>2, RoundsExist
<1>4. PICK g : /\ g \in [0..MaxStorages -> SUBSET Storages] /\ g[0] = {}
               /\ \A n \in 1..MaxStorages : g[n] = F[g[n - 1]]
    BY <1>3 DEF Iterates
<1>5. P(g)
  <2>1. \A n \in 0..MaxStorages : g[n] = IF n = 0 THEN {} ELSE Falling(h, b, g[n - 1])
    <3> SUFFICES ASSUME NEW n \in 0..MaxStorages PROVE g[n] = IF n = 0 THEN {} ELSE Falling(h, b, g[n - 1])
      OBVIOUS
    <3>1. CASE n = 0
      BY <3>1, <1>4
    <3>2. CASE n # 0
      <4>1. n \in 1..MaxStorages /\ n - 1 \in 0..MaxStorages
        BY <3>2, <1>1
      <4>2. g[n] = F[g[n - 1]] /\ g[n - 1] \in SUBSET Storages
        BY <4>1, <1>4
      <4> QED BY <4>2, <3>2
    <3> QED BY <3>1, <3>2
  <2>2. g = [n \in 0..MaxStorages |-> g[n]]
    BY <1>4
  <2> QED BY <2>1, <2>2
<1>6. P(r)
  <2> HIDE DEF P
  <2> QED BY <1>5, Zenon
<1>7. Dying(h, b) = r[MaxStorages]
    BY DEF Dying, Falling
<1> HIDE DEF r
<1>8. \A n \in 0..MaxStorages : r[n] = IF n = 0 THEN {} ELSE Falling(h, b, r[n - 1])
    BY <1>6
<1>9. r \in [0..MaxStorages -> SUBSET Storages]
    BY <1>6 DEF Falling
<1>10. r[0] = {}
  <2>1. 0 \in 0..MaxStorages
    BY <1>1
  <2> QED BY <2>1, <1>8
<1>11. \A n \in 1..MaxStorages : r[n] = Falling(h, b, r[n - 1])
    BY <1>8, <1>1
<1> QED BY <1>7, <1>9, <1>10, <1>11 DEF DyingRounds

\* Further rounds find nothing more, and a group of storages with an owner
\* outside the group left for each, or one inside, is never found.
LEMMA DyingSettles ==
    ASSUME NEW h, HeapTyped(h), NEW b \in Counts
    PROVE  /\ Dying(h, b) \subseteq Storages /\ Dying(h, b) = Falling(h, b, Dying(h, b))
           /\ \A K \in SUBSET Storages :
                  (\A s \in K : b[s] + Uses(h, Storages \ K, s) < h[s].refs) => K \cap Dying(h, b) = {}
<1>1. MaxStorages \in Nat /\ Storages = 1..MaxStorages
    BY BoundsAssumption DEF Storages
<1>b. PICK g : DyingRounds(h, b, g)
    BY DyingInRounds
<1>2. /\ g \in [0..MaxStorages -> SUBSET Storages]
      /\ g[0] = {} /\ g[MaxStorages] = Dying(h, b)
      /\ \A n \in 1..MaxStorages : g[n] = Falling(h, b, g[n - 1])
    BY <1>b DEF DyingRounds
<1> DEFINE F == [d \in SUBSET Storages |-> Falling(h, b, d)]
<1>3. F \in [SUBSET Storages -> SUBSET Storages] /\ \A d \in SUBSET Storages : F[d] = Falling(h, b, d)
    BY DEF Falling
<1>4. \A d \in SUBSET Storages, s \in Storages : Losses(h, b, d, s) \in Nat
  <2> SUFFICES ASSUME NEW d \in SUBSET Storages, NEW s \in Storages PROVE Losses(h, b, d, s) \in Nat
    OBVIOUS
  <2>1. b[s] \in Nat /\ Uses(h, d, s) \in Nat
    BY UsesCount DEF Counts
  <2> QED BY <2>1 DEF Losses
<1>5. \A a, d \in SUBSET Storages : a \subseteq d => F[a] \subseteq F[d]
  <2> SUFFICES ASSUME NEW a \in SUBSET Storages, NEW d \in SUBSET Storages, a \subseteq d,
                      NEW s \in Falling(h, b, a)
               PROVE  s \in Falling(h, b, d)
    BY <1>3
  <2>1. s \in Storages /\ Losses(h, b, a, s) > 0 /\ Losses(h, b, a, s) >= h[s].refs
    BY DEF Falling
  <2>2. Uses(h, a, s) <= Uses(h, d, s) /\ Uses(h, a, s) \in Nat /\ Uses(h, d, s) \in Nat /\ b[s] \in Nat
    BY <2>1, UsesGrow, UsesCount DEF Counts
  <2>3. Losses(h, b, d, s) >= Losses(h, b, a, s) /\ h[s].refs \in Nat
    BY <2>1, <2>2, CellFields DEF Losses
  <2>4. Losses(h, b, d, s) \in Nat /\ Losses(h, b, a, s) \in Nat
    BY <2>1, <1>4
  <2>5. Losses(h, b, d, s) > 0 /\ Losses(h, b, d, s) >= h[s].refs
    BY <2>1, <2>3, <2>4
  <2> QED BY <2>1, <2>5 DEF Falling
<1>6. \A n \in 0..MaxStorages : g[n] \in SUBSET Storages
    BY <1>2
<1>7. F[g[MaxStorages]] = g[MaxStorages]
  <2>1. g[0] \subseteq F[g[0]]
    BY <1>2
  <2>2. \A n \in 1..MaxStorages : g[n] = F[g[n - 1]]
    <3> SUFFICES ASSUME NEW n \in 1..MaxStorages PROVE g[n] = F[g[n - 1]]
      OBVIOUS
    <3>1. n - 1 \in 0..MaxStorages
      BY <1>1
    <3> QED BY <3>1, <1>2, <1>3, <1>6
  <2>3. g \in [0..MaxStorages -> SUBSET Storages]
    BY <1>2
  <2> HIDE DEF F
  <2> QED BY <1>1, <1>3, <1>5, <2>1, <2>2, <2>3, RoundsSettle
<1>8. MaxStorages \in 0..MaxStorages
    BY <1>1
<1>9. Dying(h, b) \subseteq Storages /\ Dying(h, b) = Falling(h, b, Dying(h, b))
    BY <1>2, <1>3, <1>6, <1>7, <1>8
<1>10. ASSUME NEW K \in SUBSET Storages, \A s \in K : b[s] + Uses(h, Storages \ K, s) < h[s].refs
       PROVE  K \cap Dying(h, b) = {}
  <2> DEFINE Apart(n) == n <= MaxStorages => K \cap g[n] = {}
             T == {n \in Nat : Apart(n)}
  <2>1. 0 \in T
    BY <1>2
  <2>2. ASSUME NEW n \in T PROVE n + 1 \in T
    <3> SUFFICES ASSUME n + 1 <= MaxStorages PROVE K \cap g[n + 1] = {}
      OBVIOUS
    <3>1. n \in Nat /\ n \in 0..MaxStorages /\ n + 1 \in 1..MaxStorages /\ (n + 1) - 1 = n /\ n <= MaxStorages
      BY <1>1
    <3>2. g[n + 1] = Falling(h, b, g[n]) /\ K \cap g[n] = {} /\ g[n] \in SUBSET Storages
      BY <3>1, <1>2, <1>6
    <3> SUFFICES ASSUME NEW s \in K, s \in Falling(h, b, g[n]) PROVE FALSE
      BY <3>2
    <3>3. s \in Storages /\ b[s] + Uses(h, g[n], s) >= h[s].refs
      BY DEF Falling, Losses
    <3>4. Storages \ K \in SUBSET Storages /\ g[n] \in SUBSET (Storages \ K)
      BY <3>2
    <3>5. Uses(h, g[n], s) <= Uses(h, Storages \ K, s)
      BY <3>4, UsesGrow
    <3>6. Uses(h, g[n], s) \in Nat /\ Uses(h, Storages \ K, s) \in Nat /\ b[s] \in Nat /\ h[s].refs \in Nat
      BY <3>2, <3>3, <3>4, UsesCount, CellFields DEF Counts
    <3>7. b[s] + Uses(h, Storages \ K, s) < h[s].refs
      BY <1>10
    <3> QED BY <3>3, <3>5, <3>6, <3>7
  <2>3. T = Nat
    <3>1. T \in SUBSET Nat
      OBVIOUS
    <3> HIDE DEF T
    <3> QED BY <3>1, <2>1, <2>2, Induction
  <2>4. Apart(MaxStorages)
    BY <2>3, <1>1
  <2>5. MaxStorages <= MaxStorages
    BY <1>1
  <2> QED BY <2>4, <2>5, <1>2
<1> QED BY <1>9, <1>10

\* Nothing dormant: every user of a storage is live.
LEMMA AllUses ==
    ASSUME NEW h, Dormant(h) = {}, HeapTyped(h), NEW cs \in SUBSET Storages, NEW s
    PROVE  /\ Uses(h, cs, s) = Uses(h, cs \cap Live(h), s)
           /\ \A c \in Storages : s \in Inputs(h, c) => c \in Live(h)
<1>1. \A c \in Storages \ Live(h) : h[c] = Blank
  <2> SUFFICES ASSUME NEW c \in Storages \ Live(h) PROVE h[c] = Blank
    OBVIOUS
  <2>1. h[c].refs = 0
    BY CellFields DEF Live
  <2> QED BY <2>1 DEF Dormant
<1>2. \A c \in Storages \ Live(h) : Len(h[c].inputs) = 0 /\ h[c].inputs = <<>>
    BY <1>1, BlankCell
<1>3. First(h, cs, s) = First(h, cs \cap Live(h), s) /\ Second(h, cs, s) = Second(h, cs \cap Live(h), s)
  <2>1. \A c \in cs : Len(h[c].inputs) > 0 => c \in Live(h)
    BY <1>2
  <2>2. \A c \in cs : Len(h[c].inputs) > 1 => c \in Live(h)
    BY <1>2
  <2> QED BY <2>1, <2>2 DEF First, Second
<1>4. cs \cap Live(h) \in SUBSET Storages
    OBVIOUS
<1>5. Uses(h, cs, s) = Uses(h, cs \cap Live(h), s)
    BY <1>3, <1>4, UsesCount
<1>6. \A c \in Storages \ Live(h) : s \notin Inputs(h, c)
  <2>1. DOMAIN <<>> = {}
    OBVIOUS
  <2> QED BY <1>2, <2>1 DEF Inputs
<1> QED BY <1>5, <1>6

\* What a release leaves of a cell: nothing, or all but references.
Spared(h, g, s) == g[s] = Blank \/ (s \in Live(h) /\ s \in Live(g) /\ Keeps(h, g, s))

\* #releaseValue takes away what owners count, and ends what has none left.
LEMMA ReleaseBalances ==
    ASSUME NEW h, NEW y \in Counts, NEW b \in Counts,
           HeapTyped(h), Balanced(h, Both(y, b)), Dormant(h) = {}
    PROVE  /\ HeapTyped(Release(h, b)) /\ Balanced(Release(h, b), y) /\ Dormant(Release(h, b)) = {}
           /\ Live(Release(h, b)) = Live(h) \ Dying(h, b)
           /\ \A s \in Storages : Spared(h, Release(h, b), s)
<1> DEFINE D == Dying(h, b)
           g == Release(h, b)
           x == Both(y, b)
<1>1. D \subseteq Storages /\ D = Falling(h, b, D)
    BY DyingSettles
<1>2. \A s \in Storages : g[s] = IF s \in D THEN Blank ELSE [h[s] EXCEPT !.refs = @ - Losses(h, b, D, s)]
    BY DEF Release
<1>3. g = [s \in Storages |-> g[s]]
    BY DEF Release
<1> HIDE DEF D, g
<1>4. x \in Counts /\ \A s \in Storages : x[s] = y[s] + b[s] /\ y[s] \in Nat /\ b[s] \in Nat
    BY DEF Both, Counts
<1>5. Live(h) \in SUBSET Storages
    BY DEF Live
<1>6. \A s \in Storages \ Live(h) : h[s] = Blank /\ h[s].refs = 0
  <2> SUFFICES ASSUME NEW s \in Storages \ Live(h) PROVE h[s] = Blank /\ h[s].refs = 0
    OBVIOUS
  <2>1. h[s].refs = 0
    BY CellFields DEF Live
  <2> QED BY <2>1 DEF Dormant
<1>7. \A s \in Storages \ Live(h) : Losses(h, b, D, s) = 0
  <2> SUFFICES ASSUME NEW s \in Storages \ Live(h) PROVE Losses(h, b, D, s) = 0
    OBVIOUS
  <2>1. x[s] = 0 /\ Uses(h, Live(h), s) = 0
    <3>1. h[s].refs = 0
      BY <1>6
    <3> HIDE DEF x
    <3> QED BY <3>1, <1>4, OwnedIsLive DEF x
  <2>2. Uses(h, D, s) = Uses(h, D \cap Live(h), s) /\ D \cap Live(h) \in SUBSET Live(h)
    BY <1>1, AllUses
  <2>3. Uses(h, D \cap Live(h), s) <= Uses(h, Live(h), s)
    BY <2>2, <1>5, UsesGrow
  <2>4. Uses(h, D \cap Live(h), s) \in Nat
    BY <1>5, UsesCount
  <2>5. b[s] = 0
    BY <2>1, <1>4
  <2> QED BY <2>1, <2>2, <2>3, <2>4, <2>5 DEF Losses
<1>8. D \subseteq Live(h)
  <2> SUFFICES ASSUME NEW s \in D, s \notin Live(h) PROVE FALSE
    OBVIOUS
  <2>1. s \in Storages /\ Losses(h, b, D, s) > 0
    BY <1>1 DEF Falling
  <2> QED BY <2>1, <1>7
<1>9. Live(h) \ D \in SUBSET Live(h) /\ D \in SUBSET Live(h) /\ Live(h) \ (Live(h) \ D) = D /\ Live(h) \ D \in SUBSET Storages
    BY <1>8, <1>5
<1>10. \A s \in Storages : /\ h[s].refs \in Nat /\ Uses(h, D, s) \in Nat /\ Uses(h, Live(h) \ D, s) \in Nat
                           /\ Losses(h, b, D, s) = b[s] + Uses(h, D, s)
                           /\ h[s].refs = y[s] + b[s] + Uses(h, D, s) + Uses(h, Live(h) \ D, s)
  <2> SUFFICES ASSUME NEW s \in Storages
               PROVE  /\ h[s].refs \in Nat /\ Uses(h, D, s) \in Nat /\ Uses(h, Live(h) \ D, s) \in Nat
                      /\ Losses(h, b, D, s) = b[s] + Uses(h, D, s)
                      /\ h[s].refs = y[s] + b[s] + Uses(h, D, s) + Uses(h, Live(h) \ D, s)
    OBVIOUS
  <2>1. Uses(h, D, s) \in Nat /\ Uses(h, Live(h) \ D, s) \in Nat
    BY <1>9, <1>1, UsesCount
  <2>2. Uses(h, Live(h), s) = Uses(h, D, s) + Uses(h, Live(h) \ D, s)
    <3>1. D \in SUBSET Live(h) /\ Live(h) \in SUBSET Storages
      BY <1>9, <1>5
    <3> QED BY <3>1, UsesGrow
  <2>3. h[s].refs = x[s] + Uses(h, Live(h), s)
    BY DEF Balanced
  <2>4. h[s].refs \in Nat
    BY CellFields
  <2> QED BY <2>1, <2>2, <2>3, <2>4, <1>4 DEF Losses
<1>11. \A s \in D : g[s] = Blank /\ g[s].refs = 0 /\ y[s] = 0 /\ Uses(h, Live(h) \ D, s) = 0
  <2> SUFFICES ASSUME NEW s \in D PROVE g[s] = Blank /\ g[s].refs = 0 /\ y[s] = 0 /\ Uses(h, Live(h) \ D, s) = 0
    OBVIOUS
  <2>1. s \in Storages /\ Losses(h, b, D, s) >= h[s].refs
    BY <1>1 DEF Falling
  <2>2. g[s] = Blank /\ g[s].refs = 0
    BY <2>1, <1>2, BlankCell
  <2>3. /\ h[s].refs \in Nat /\ Uses(h, D, s) \in Nat /\ Uses(h, Live(h) \ D, s) \in Nat
        /\ Losses(h, b, D, s) = b[s] + Uses(h, D, s)
        /\ h[s].refs = y[s] + b[s] + Uses(h, D, s) + Uses(h, Live(h) \ D, s)
        /\ y[s] \in Nat /\ b[s] \in Nat
    BY <2>1, <1>10, <1>4
  <2> QED BY <2>1, <2>2, <2>3
<1>12. \A s \in Storages \ D : /\ g[s] \in Cells /\ g[s].refs = h[s].refs - Losses(h, b, D, s) /\ Keeps(h, g, s)
                               /\ g[s].refs = y[s] + Uses(h, Live(h) \ D, s)
  <2> SUFFICES ASSUME NEW s \in Storages \ D
               PROVE  /\ g[s] \in Cells /\ g[s].refs = h[s].refs - Losses(h, b, D, s) /\ Keeps(h, g, s)
                      /\ g[s].refs = y[s] + Uses(h, Live(h) \ D, s)
    OBVIOUS
  <2>1. PICK n : n = h[s].refs - Losses(h, b, D, s)
    OBVIOUS
  <2>2. n \in Nat /\ n = y[s] + Uses(h, Live(h) \ D, s)
    <3>1. /\ h[s].refs \in Nat /\ Uses(h, D, s) \in Nat /\ Uses(h, Live(h) \ D, s) \in Nat
          /\ Losses(h, b, D, s) = b[s] + Uses(h, D, s)
          /\ h[s].refs = y[s] + b[s] + Uses(h, D, s) + Uses(h, Live(h) \ D, s)
          /\ y[s] \in Nat /\ b[s] \in Nat
      BY <1>10, <1>4
    <3> QED BY <2>1, <3>1
  <2>3. g[s] = [h[s] EXCEPT !.refs = n]
    BY <1>2, <2>1
  <2>4. h[s] \in Cells
    BY CellFields
  <2>5. /\ g[s] \in Cells /\ g[s].refs = n /\ g[s].inputs = h[s].inputs /\ g[s].material = h[s].material
        /\ g[s].shape = h[s].shape /\ g[s].expands = h[s].expands
    BY <2>2, <2>3, <2>4, CellCounted
  <2> QED BY <2>1, <2>2, <2>5 DEF Keeps
<1>13. HeapTyped(g)
  <2>1. \A s \in Storages : g[s] \in Cells
    BY <1>11, <1>12, BlankCell
  <2>2. \A s \in Storages : Len(g[s].inputs) <= 2
    <3> SUFFICES ASSUME NEW s \in Storages PROVE Len(g[s].inputs) <= 2
      OBVIOUS
    <3>1. CASE s \in D
      <4>1. Len(g[s].inputs) = 0
        BY <3>1, <1>11, BlankCell
      <4> QED BY <4>1
    <3>2. CASE s \notin D
      BY <3>2, <1>12, CellFields DEF Keeps
    <3> QED BY <3>1, <3>2
  <2> QED BY <2>1, <2>2, <1>3 DEF HeapTyped
<1>14. Live(g) = Live(h) \ D
  <2> SUFFICES ASSUME NEW s \in Storages PROVE g[s].refs > 0 <=> h[s].refs > 0 /\ s \notin D
    BY DEF Live
  <2>1. CASE s \in D
    BY <2>1, <1>11
  <2>2. CASE s \notin D /\ s \notin Live(h)
    <3>1. g[s].refs = 0 /\ h[s].refs = 0
      BY <2>2, <1>6, <1>7, <1>12
    <3> QED BY <3>1
  <2>3. CASE s \notin D /\ s \in Live(h)
    <3>1. ~(Losses(h, b, D, s) > 0 /\ Losses(h, b, D, s) >= h[s].refs)
      BY <2>3, <1>1 DEF Falling
    <3>2. h[s].refs > 0 /\ g[s].refs = h[s].refs - Losses(h, b, D, s)
      BY <2>3, <1>12 DEF Live
    <3> QED BY <2>3, <3>1, <3>2, <1>10, <1>4
  <2> QED BY <2>1, <2>2, <2>3
<1>15. \A s \in Storages \ Live(g) : g[s] = Blank
  <2> SUFFICES ASSUME NEW s \in Storages \ Live(g) PROVE g[s] = Blank
    OBVIOUS
  <2>1. CASE s \in D
    BY <2>1, <1>11
  <2>2. CASE s \notin D
    <3>1. s \notin Live(h)
      BY <2>2, <1>14
    <3>2. h[s] = Blank /\ g[s].refs = h[s].refs
      BY <3>1, <2>2, <1>6, <1>7, <1>12
    <3>3. g[s] \in Cells /\ h[s] \in Cells /\ Keeps(h, g, s)
      BY <2>2, <1>12, CellFields
    <3> QED BY <3>2, <3>3, CellsEqual DEF Keeps
  <2> QED BY <2>1, <2>2
<1>16. Dormant(g) = {}
    BY <1>15 DEF Dormant, Live
<1>17. Balanced(g, y)
  <2> SUFFICES ASSUME NEW s \in Storages PROVE g[s].refs = y[s] + Uses(g, Live(g), s)
    BY DEF Balanced
  <2>1. Uses(g, Live(h) \ D, s) = Uses(h, Live(h) \ D, s)
    <3>1. \A c \in Live(h) \ D : g[c].inputs = h[c].inputs
      BY <1>12, <1>5 DEF Keeps
    <3> QED BY <3>1, <1>9, UsesSame
  <2>2. CASE s \in D
    BY <2>2, <2>1, <1>14, <1>11
  <2>3. CASE s \notin D
    BY <2>3, <2>1, <1>14, <1>12
  <2> QED BY <2>2, <2>3
<1>18. \A s \in Storages : Spared(h, g, s)
    BY <1>15, <1>14, <1>12 DEF Spared
<1> QED BY <1>13, <1>14, <1>16, <1>17, <1>18 DEF g, D

\* Storages that keep an owner outside, or a user inside their group, survive.
LEMMA ReleaseSpares ==
    ASSUME NEW h, NEW y \in Counts, NEW b \in Counts,
           HeapTyped(h), Balanced(h, Both(y, b)), Dormant(h) = {},
           NEW K \in SUBSET Storages, \A s \in K : y[s] > 0 \/ Uses(h, K, s) > 0
    PROVE  K \cap Dying(h, b) = {}
<1>1. ASSUME NEW s \in K PROVE b[s] + Uses(h, Storages \ K, s) < h[s].refs
  <2>1. Storages \in SUBSET Storages /\ K \in SUBSET Storages /\ Storages \ K \in SUBSET Storages /\ s \in Storages
    OBVIOUS
  <2>2. Uses(h, Storages, s) = Uses(h, K, s) + Uses(h, Storages \ K, s)
    BY <2>1, UsesGrow
  <2>3. Uses(h, Storages, s) = Uses(h, Live(h), s)
    <3>1. Storages \cap Live(h) = Live(h)
      BY DEF Live
    <3> QED BY <3>1, <2>1, AllUses
  <2>4. h[s].refs = Both(y, b)[s] + Uses(h, Live(h), s)
    BY <2>1 DEF Balanced
  <2>5. Both(y, b)[s] = y[s] + b[s] /\ y[s] \in Nat /\ b[s] \in Nat
    BY <2>1 DEF Both, Counts
  <2>6. Uses(h, K, s) \in Nat /\ Uses(h, Storages \ K, s) \in Nat
    BY <2>1, UsesCount
  <2>7. y[s] > 0 \/ Uses(h, K, s) > 0
    OBVIOUS
  <2> QED BY <2>2, <2>3, <2>4, <2>5, <2>6, <2>7
<1> QED BY <1>1, DyingSettles

----------------------------------------------------------------------------
(* The external owners: families, caches, requests and pending releases.    *)

\* The places of f that hold s, and how many they are.
Places(f, s) == {a \in DOMAIN f : f[a] = s}
Held(f, s) == Cardinality(Places(f, s))
HoldersOf(cur, ca, q, dr, le) ==
    [s \in Storages |-> Held(cur, s) + Held(ca, s) + Held(q, s) + dr[s] + le[s]]

Pointers == [Families -> Storages \cup {None}]

\* A set without one of its elements, or with one more, counts one less or more.
LEMMA CountApart ==
    ASSUME NEW A, NEW B, NEW e, IsFiniteSet(B), e \notin B, A = B \/ A = B \cup {e}
    PROVE  /\ IsFiniteSet(A) /\ Cardinality(B) \in Nat
           /\ e \in A => Cardinality(A) = Cardinality(B) + 1
           /\ e \notin A => Cardinality(A) = Cardinality(B)
<1>1. IsFiniteSet(B \cup {e}) /\ Cardinality(B \cup {e}) = Cardinality(B) + 1 /\ Cardinality(B) \in Nat
    BY FS_AddElement, FS_CardinalityType
<1> QED BY <1>1

\* Counts of families are numbers; they move by one when one family moves.
LEMMA HeldByFamilies ==
    ASSUME NEW f \in Pointers, NEW a \in Families, NEW v \in Storages \cup {None}, NEW s \in Storages
    PROVE  /\ Held(f, s) \in Nat /\ Held([f EXCEPT ![a] = v], s) \in Nat
           /\ Held([f EXCEPT ![a] = v], s) + One(f[a])[s] = Held(f, s) + One(v)[s]
           /\ One(f[a])[s] \in {0, 1} /\ One(v)[s] \in {0, 1}
           /\ f[a] = s => Held(f, s) > 0
<1> DEFINE g == [f EXCEPT ![a] = v]
           B == Places(f, s) \ {a}
<1>1. Places(f, s) \in SUBSET Families /\ IsFiniteSet(B) /\ a \notin B
  <2>1. Places(f, s) \in SUBSET Families /\ B \in SUBSET Families
    BY DEF Places, Pointers
  <2> QED BY <2>1, FamiliesAssumption, FS_Subset
<1>2. (a \in Places(f, s) <=> f[a] = s) /\ (a \in Places(g, s) <=> v = s)
    BY DEF Places, Pointers
<1>3. Places(f, s) = B \/ Places(f, s) = B \cup {a}
    OBVIOUS
<1>4. Places(g, s) = B \/ Places(g, s) = B \cup {a}
  <2>1. \A e : e # a => (e \in Places(g, s) <=> e \in Places(f, s))
    BY DEF Places, Pointers
  <2> QED BY <2>1
<1>5. One(f[a])[s] = (IF f[a] = s THEN 1 ELSE 0) /\ One(v)[s] = (IF v = s THEN 1 ELSE 0)
    BY DEF One
<1> HIDE DEF g, B
<1>6. /\ Cardinality(B) \in Nat
      /\ f[a] = s => Cardinality(Places(f, s)) = Cardinality(B) + 1
      /\ f[a] # s => Cardinality(Places(f, s)) = Cardinality(B)
    BY <1>1, <1>2, <1>3, CountApart
<1>7. /\ v = s => Cardinality(Places(g, s)) = Cardinality(B) + 1
      /\ v # s => Cardinality(Places(g, s)) = Cardinality(B)
    BY <1>1, <1>2, <1>4, CountApart
<1> QED BY <1>5, <1>6, <1>7 DEF Held, g

\* Counts of requests are numbers; they move by one when a request joins the
\* queue or leaves it.
LEMMA HeldByQueue ==
    ASSUME NEW q \in Seq(Storages), NEW s \in Storages
    PROVE  /\ Held(q, s) \in Nat
           /\ \A r \in Storages : Held(Append(q, r), s) = Held(q, s) + One(r)[s]
           /\ q # <<>> => Held(q, s) = Held(Tail(q), s) + One(Head(q))[s] /\ Held(Tail(q), s) \in Nat
<1>1. ASSUME NEW p \in Seq(Storages)
      PROVE  IsFiniteSet(Places(p, s)) /\ Held(p, s) \in Nat /\ DOMAIN p = 1..Len(p) /\ Len(p) \in Nat
  <2>1. DOMAIN p = 1..Len(p) /\ Len(p) \in Nat
    OBVIOUS
  <2>2. IsFiniteSet(1..Len(p))
    BY <2>1, FS_Interval
  <2>3. Places(p, s) \in SUBSET (1..Len(p))
    BY <2>1 DEF Places
  <2>4. IsFiniteSet(Places(p, s))
    BY <2>2, <2>3, FS_Subset
  <2> QED BY <2>1, <2>4, FS_CardinalityType DEF Held
<1>2. ASSUME NEW r \in Storages PROVE Held(Append(q, r), s) = Held(q, s) + One(r)[s]
  <2> DEFINE p == Append(q, r)
             e == Len(q) + 1
  <2>1. /\ p \in Seq(Storages) /\ Len(p) = e /\ p[e] = r /\ \A i \in 1..Len(q) : p[i] = q[i]
    BY AppendProperties
  <2>2. DOMAIN p = 1..e /\ DOMAIN q = 1..Len(q) /\ Len(q) \in Nat
    BY <2>1
  <2> HIDE DEF p
  <2>3. \A i : i # e => (i \in Places(p, s) <=> i \in Places(q, s))
    BY <2>1, <2>2 DEF Places
  <2>4. e \notin Places(q, s) /\ (e \in Places(p, s) <=> r = s)
    BY <2>1, <2>2 DEF Places
  <2>5. Places(p, s) = Places(q, s) \/ Places(p, s) = Places(q, s) \cup {e}
    <3> HIDE DEF e
    <3>1. CASE e \in Places(p, s)
      <4>1. \A i : i \in Places(p, s) <=> i \in Places(q, s) \cup {e}
        BY <2>3, <3>1
      <4> QED BY <4>1, Zenon
    <3>2. CASE e \notin Places(p, s)
      <4>1. \A i : i \in Places(p, s) <=> i \in Places(q, s)
        BY <2>3, <2>4, <3>2
      <4>2. Places(p, s) \subseteq Places(q, s) /\ Places(q, s) \subseteq Places(p, s)
        BY <4>1
      <4> QED BY <4>2
    <3> QED BY <3>1, <3>2
  <2>6. /\ r = s => Cardinality(Places(p, s)) = Cardinality(Places(q, s)) + 1
        /\ r # s => Cardinality(Places(p, s)) = Cardinality(Places(q, s))
        /\ Cardinality(Places(q, s)) \in Nat
    <3> HIDE DEF e
    <3> QED BY <1>1, <2>4, <2>5, CountApart
  <2>7. One(r)[s] = IF r = s THEN 1 ELSE 0
    BY DEF One
  <2> QED BY <2>6, <2>7 DEF Held, p
<1>3. ASSUME q # <<>> PROVE Held(q, s) = Held(Tail(q), s) + One(Head(q))[s] /\ Held(Tail(q), s) \in Nat
  <2> DEFINE t == Tail(q)
             B == Places(q, s) \ {1}
             shift == [i \in Places(t, s) |-> i + 1]
  <2>1. t \in Seq(Storages) /\ Len(t) = Len(q) - 1 /\ (\A i \in 1..Len(t) : t[i] = q[i + 1]) /\ Head(q) = q[1]
    BY <1>3, HeadTailProperties
  <2>2. DOMAIN q = 1..Len(q) /\ Len(q) \in Nat /\ Len(q) > 0 /\ DOMAIN t = 1..Len(t)
    BY <1>3, <2>1
  <2> HIDE DEF t
  <2>3. Places(t, s) = {i \in 1..(Len(q) - 1) : q[i + 1] = s} /\ Places(q, s) = {i \in 1..Len(q) : q[i] = s}
    BY <2>1, <2>2 DEF Places
  <2>4. shift \in [Places(t, s) -> B]
    BY <2>2, <2>3
  <2>5. \A i, j \in Places(t, s) : shift[i] = shift[j] => i = j
    BY <2>3
  <2>6. \A j \in B : \E i \in Places(t, s) : shift[i] = j
    <3> SUFFICES ASSUME NEW j \in B PROVE \E i \in Places(t, s) : shift[i] = j
      OBVIOUS
    <3>1. j \in 1..Len(q) /\ j # 1 /\ q[j] = s
      BY <2>3
    <3>2. j - 1 \in Places(t, s) /\ (j - 1) + 1 = j
      BY <3>1, <2>2, <2>3
    <3> QED BY <3>2
  <2>7. shift \in Bijection(Places(t, s), B)
    <3> HIDE DEF shift, B
    <3> QED BY <2>4, <2>5, <2>6, Fun_IsBij
  <2>8. IsFiniteSet(Places(t, s)) /\ Cardinality(Places(t, s)) \in Nat
    BY <1>1, <2>1 DEF Held
  <2>9. IsFiniteSet(B) /\ Cardinality(B) = Cardinality(Places(t, s))
    BY <2>7, <2>8, FS_Bijection DEF ExistsBijection
  <2>10. 1 \notin B /\ (Places(q, s) = B \/ Places(q, s) = B \cup {1}) /\ (1 \in Places(q, s) <=> Head(q) = s)
    BY <2>1, <2>2, <2>3
  <2>11. /\ Head(q) = s => Cardinality(Places(q, s)) = Cardinality(B) + 1
         /\ Head(q) # s => Cardinality(Places(q, s)) = Cardinality(B)
    <3> HIDE DEF B
    <3> QED BY <2>9, <2>10, CountApart
  <2>12. One(Head(q))[s] = IF Head(q) = s THEN 1 ELSE 0
    BY DEF One
  <2> QED BY <2>8, <2>9, <2>11, <2>12 DEF Held, t
<1> QED BY <1>1, <1>2, <1>3

\* Counts are numbers, and a heap is in balance with equal counts.
LEMMA HoldersAreCounts ==
    ASSUME NEW cur \in Pointers, NEW ca \in Pointers, NEW q \in Seq(Storages),
           NEW dr \in Counts, NEW le \in Counts
    PROVE  /\ HoldersOf(cur, ca, q, dr, le) \in Counts
           /\ \A s \in Storages :
                  /\ HoldersOf(cur, ca, q, dr, le)[s] = Held(cur, s) + Held(ca, s) + Held(q, s) + dr[s] + le[s]
                  /\ Held(cur, s) \in Nat /\ Held(ca, s) \in Nat /\ Held(q, s) \in Nat
                  /\ dr[s] \in Nat /\ le[s] \in Nat
<1> SUFFICES ASSUME NEW s \in Storages
             PROVE  Held(cur, s) \in Nat /\ Held(ca, s) \in Nat /\ Held(q, s) \in Nat /\ dr[s] \in Nat /\ le[s] \in Nat
  <2> QED BY DEF HoldersOf, Counts
<1>1. \A f \in Pointers : Held(f, s) \in Nat
  <2> SUFFICES ASSUME NEW f \in Pointers PROVE Held(f, s) \in Nat
    OBVIOUS
  <2>1. Places(f, s) \in SUBSET Families
    BY DEF Places, Pointers
  <2> QED BY <2>1, FamiliesAssumption, FS_Subset, FS_CardinalityType DEF Held
<1> QED BY <1>1, HeldByQueue DEF Counts

\* What one owner counts for: the family, the cache, the head of the queue.
LEMMA HoldersCount ==
    ASSUME NEW cur \in Pointers, NEW ca \in Pointers, NEW q \in Seq(Storages),
           NEW dr \in Counts, NEW le \in Counts, NEW s \in Storages
    PROVE  /\ (\E f \in Families : cur[f] = s \/ ca[f] = s) => HoldersOf(cur, ca, q, dr, le)[s] > 0
           /\ q # <<>> /\ Head(q) = s => HoldersOf(cur, ca, q, dr, le)[s] > 0
<1>1. /\ HoldersOf(cur, ca, q, dr, le)[s] = Held(cur, s) + Held(ca, s) + Held(q, s) + dr[s] + le[s]
      /\ Held(cur, s) \in Nat /\ Held(ca, s) \in Nat /\ Held(q, s) \in Nat
      /\ dr[s] \in Nat /\ le[s] \in Nat
    BY HoldersAreCounts
<1>2. ASSUME NEW f \in Families, cur[f] = s \/ ca[f] = s PROVE Held(cur, s) > 0 \/ Held(ca, s) > 0
  <2>1. s \in Storages \cup {None}
    OBVIOUS
  <2> QED BY <1>2, <2>1, HeldByFamilies
<1>3. ASSUME q # <<>>, Head(q) = s PROVE Held(q, s) > 0
  <2>1. Held(q, s) = Held(Tail(q), s) + One(s)[s] /\ Held(Tail(q), s) \in Nat
    BY <1>3, HeldByQueue
  <2>2. One(s)[s] = 1
    BY DEF One
  <2> QED BY <2>1, <2>2
<1> QED BY <1>1, <1>2, <1>3

\* Only the counts matter.
LEMMA SameCounts ==
    ASSUME NEW h, NEW x, NEW y, \A s \in Storages : y[s] = x[s]
    PROVE  (Balanced(h, x) => Balanced(h, y)) /\ (HeapInv(h, x) => HeapInv(h, y))
BY DEF Balanced, HeapInv

----------------------------------------------------------------------------
(* The program at the head of the queue.                                    *)

Computing(h, c) == h[c].material # "resident" /\ h[c].inputs # <<>>

\* The slots of the program st of the root r are owned, and executable: each
\* serves the root, and has its inputs or its numbers.
Formed(h, st, r) ==
    /\ r \in st.slots /\ st.computed \subseteq st.slots /\ st.slots \subseteq Live(h)
    /\ \A s \in st.slots \ {r} : \E c \in st.computed : s \in Inputs(h, c)
    /\ \A s \in st.computed : Computing(h, s) /\ Inputs(h, s) \subseteq st.slots
    /\ \A s \in st.slots \ st.computed : h[s].material # "none"

\* Only the producers in cs use s: nobody else owns it or can select it again.
Lonely(h, x, o, cs, s) ==
    /\ x[s] = 0
    /\ \A c \in Storages : s \in Inputs(h, c) => c \in cs
    /\ \A f \in Families : o[f] # s

Program(h, x, o, st, q) ==
    /\ st.at # "idle" => q # <<>>
    /\ st.at \in {"formed", "executing"} => Formed(h, st, Head(q))
    /\ st.at = "executing" =>
         /\ Head(q) \in st.kept /\ st.kept \subseteq st.slots
         /\ \A s \in st.slots \ st.kept : Lonely(h, x, o, st.computed, s)
    /\ st.at = "materialized" => h[Head(q)].material = "resident"

\* A formed program depends on the inputs and the numbers of its slots.
LEMMA FormedDepends ==
    ASSUME NEW h, NEW g, NEW st, NEW r, Formed(h, st, r), st.slots \subseteq Live(g),
           \A s \in st.slots : g[s].inputs = h[s].inputs /\ g[s].material = h[s].material
    PROVE  Formed(g, st, r)
<1>1. st.computed \subseteq st.slots
    BY DEF Formed
<1>2. \A c \in st.slots : Inputs(g, c) = Inputs(h, c) /\ (Computing(h, c) => Computing(g, c))
    BY DEF Inputs, Computing
<1>3. \A s \in st.slots \ {r} : \E c \in st.computed : s \in Inputs(g, c)
    BY <1>1, <1>2 DEF Formed
<1>4. \A s \in st.computed : Computing(g, s) /\ Inputs(g, s) \subseteq st.slots
    BY <1>1, <1>2 DEF Formed
<1> QED BY <1>3, <1>4 DEF Formed

\* The slots of a formed program survive every release that leaves the pin on
\* its root.
LEMMA ReleaseFormed ==
    ASSUME NEW h, NEW y \in Counts, NEW b \in Counts,
           HeapTyped(h), Balanced(h, Both(y, b)), Dormant(h) = {},
           NEW st, NEW r, Formed(h, st, r), y[r] > 0
    PROVE  Formed(Release(h, b), st, r)
<1>1. st.slots \subseteq Live(h) /\ st.slots \in SUBSET Storages /\ st.computed \subseteq st.slots
    BY DEF Formed, Live
<1>2. ASSUME NEW s \in st.slots PROVE y[s] > 0 \/ Uses(h, st.slots, s) > 0
  <2>1. CASE s = r
    BY <2>1
  <2>2. CASE s # r
    <3>1. \E c \in st.slots : s \in Inputs(h, c)
      BY <2>2, <1>1 DEF Formed
    <3> QED BY <3>1, <1>1, UsesMean
  <2> QED BY <2>1, <2>2
<1>3. st.slots \cap Dying(h, b) = {}
  <2> HIDE DEF Both
  <2> QED BY <1>1, <1>2, ReleaseSpares
<1>4. Live(Release(h, b)) = Live(h) \ Dying(h, b) /\ \A s \in Storages : Spared(h, Release(h, b), s)
    BY ReleaseBalances
<1>5. st.slots \subseteq Live(Release(h, b))
    BY <1>1, <1>3, <1>4
<1>6. \A s \in st.slots : Keeps(h, Release(h, b), s)
  <2> SUFFICES ASSUME NEW s \in st.slots PROVE Keeps(h, Release(h, b), s)
    OBVIOUS
  <2>1. Release(h, b)[s].refs > 0 /\ s \in Storages
    BY <1>5, <1>1 DEF Live
  <2>2. Release(h, b)[s] # Blank
    BY <2>1, BlankCell
  <2> QED BY <2>1, <2>2, <1>4 DEF Spared
<1> QED BY <1>5, <1>6, FormedDepends DEF Keeps

\* A release leaves what it spares with no more users than it had.
LEMMA SparedInputs ==
    ASSUME NEW h, NEW g, NEW c, Spared(h, g, c)
    PROVE  Inputs(g, c) \subseteq Inputs(h, c)
<1>1. CASE g[c] = Blank
  <2>1. DOMAIN <<>> = {} /\ g[c].inputs = <<>>
    BY <1>1, BlankCell
  <2> QED BY <2>1 DEF Inputs
<1>2. CASE g[c] # Blank
    BY <1>2 DEF Spared, Keeps, Inputs
<1> QED BY <1>1, <1>2

\* So a program goes on while users close and write, as long as its root is
\* pinned.
LEMMA ReleaseProgram ==
    ASSUME NEW h, NEW y \in Counts, NEW b \in Counts,
           HeapTyped(h), Balanced(h, Both(y, b)), Dormant(h) = {},
           NEW x, NEW o, NEW p, NEW st, NEW q, Program(h, x, o, st, q),
           st.slots \subseteq Storages,
           st.at # "idle" => Head(q) \in Storages /\ y[Head(q)] > 0,
           \A s \in Storages : x[s] = 0 => y[s] = 0,
           \A f \in Families : p[f] \in {o[f], None}
    PROVE  Program(Release(h, b), y, p, st, q)
<1> DEFINE g == Release(h, b)
<1>1. /\ HeapTyped(g) /\ Balanced(g, y) /\ Dormant(g) = {} /\ \A s \in Storages : Spared(h, g, s)
    BY ReleaseBalances
<1>2. st.at \in {"formed", "executing"} => Formed(g, st, Head(q))
  <2>1. CASE st.at \in {"formed", "executing"}
    <3>1. Formed(h, st, Head(q)) /\ y[Head(q)] > 0
      BY <2>1 DEF Program
    <3> QED BY <3>1, ReleaseFormed
  <2> QED BY <2>1
<1> HIDE DEF g
<1>3. ASSUME st.at = "executing"
      PROVE  /\ Head(q) \in st.kept /\ st.kept \subseteq st.slots
             /\ \A s \in st.slots \ st.kept : Lonely(g, y, p, st.computed, s)
  <2>1. Head(q) \in st.kept /\ st.kept \subseteq st.slots
    BY <1>3 DEF Program
  <2>2. ASSUME NEW s \in st.slots \ st.kept PROVE Lonely(g, y, p, st.computed, s)
    <3>1. Lonely(h, x, o, st.computed, s) /\ s \in Storages
      BY <1>3, <2>2 DEF Program
    <3>2. \A c \in Storages : Inputs(g, c) \subseteq Inputs(h, c)
      BY <1>1, SparedInputs
    <3>3. s # None
      BY <3>1 DEF Storages, None
    <3> QED BY <3>1, <3>2, <3>3 DEF Lonely
  <2> QED BY <2>1, <2>2
<1>4. ASSUME st.at = "materialized" PROVE g[Head(q)].material = "resident"
  <2>1. h[Head(q)].material = "resident" /\ Head(q) \in Storages /\ y[Head(q)] > 0
    BY <1>4 DEF Program
  <2>2. Head(q) \in Live(g)
    BY <2>1, <1>1, OwnedIsLive
  <2>3. g[Head(q)] # Blank
    BY <2>2, BlankCell DEF Live
  <2>4. Keeps(h, g, Head(q))
    BY <2>1, <2>3, <1>1 DEF Spared
  <2> QED BY <2>1, <2>4 DEF Keeps
<1> QED BY <1>2, <1>3, <1>4 DEF Program, g

\* What users do besides: live cells go on, and new users and owners come to
\* those storages only that can be selected.
Goes(h, g, s) == s \in Live(g) /\ g[s].inputs = h[s].inputs /\ g[s].material = h[s].material
Selects(h, x, o, S) == \A s \in S : s \in Live(h) => x[s] > 0 \/ \E f \in Families : o[f] = s

\* So a program goes on while users record work, observe and write.
LEMMA GrowProgram ==
    ASSUME NEW h, NEW g, NEW x, NEW y, NEW o, NEW p, NEW st, NEW q, NEW r, NEW S,
           Program(h, x, o, st, q), st.slots \subseteq Storages,
           st.at # "idle" => Head(q) \in Live(h),
           q # <<>> => r # <<>> /\ Head(r) = Head(q),
           \A s \in Live(h) : Goes(h, g, s),
           Selects(h, x, o, S),
           \A c \in Storages : Inputs(g, c) \subseteq Inputs(h, c) \cup S,
           \A s \in Storages \ S : x[s] = 0 => y[s] = 0,
           \A f \in Families : p[f] \in {o[f], None} \cup S
    PROVE  Program(g, y, p, st, r)
<1>1. st.at # "idle" => r # <<>> /\ Head(r) = Head(q)
    BY DEF Program
<1>2. ASSUME st.at \in {"formed", "executing"} PROVE Formed(g, st, Head(r)) /\ st.slots \subseteq Live(h)
  <2>1. Formed(h, st, Head(q)) /\ st.slots \subseteq Live(h) /\ Head(r) = Head(q)
    BY <1>1, <1>2 DEF Program, Formed
  <2>2. st.slots \subseteq Live(g) /\ \A s \in st.slots : g[s].inputs = h[s].inputs /\ g[s].material = h[s].material
    BY <2>1 DEF Goes
  <2>3. Formed(g, st, Head(q))
    BY <2>1, <2>2, FormedDepends
  <2> QED BY <2>1, <2>3
<1>3. ASSUME st.at = "executing"
      PROVE  /\ Head(r) \in st.kept /\ st.kept \subseteq st.slots
             /\ \A s \in st.slots \ st.kept : Lonely(g, y, p, st.computed, s)
  <2>1. Head(r) \in st.kept /\ st.kept \subseteq st.slots
    BY <1>1, <1>3 DEF Program
  <2>2. ASSUME NEW s \in st.slots \ st.kept PROVE Lonely(g, y, p, st.computed, s)
    <3>1. Lonely(h, x, o, st.computed, s) /\ s \in Storages /\ s \in Live(h)
      BY <1>2, <1>3, <2>2 DEF Program
    <3>2. s \notin S
      BY <3>1 DEF Selects, Lonely
    <3>3. s # None
      BY <3>1 DEF Storages, None
    <3> QED BY <3>1, <3>2, <3>3 DEF Lonely
  <2> QED BY <2>1, <2>2
<1>4. ASSUME st.at = "materialized" PROVE g[Head(r)].material = "resident"
    BY <1>1, <1>4 DEF Program, Goes
<1> QED BY <1>1, <1>2, <1>3, <1>4 DEF Program

----------------------------------------------------------------------------
(* Room for new storages, and the expansions of a scalar.                   *)

Free(h) == {s \in Storages : h[s] = Blank}

\* The storages that exist are the live and the dormant ones.
LEMMA Existing ==
    ASSUME NEW h, HeapTyped(h), NEW s \in Storages
    PROVE  h[s] # Blank <=> s \in Live(h) \cup Dormant(h)
<1>1. h[s].refs \in Nat
    BY CellFields
<1> QED BY <1>1, BlankCell DEF Live, Dormant

\* With room left, a fresh storage is a blank one.
LEMMA FreshIsFree ==
    ASSUME NEW h, Room(h) > 0
    PROVE  Fresh(h) \in Storages /\ h[Fresh(h)] = Blank
<1>1. Free(h) \in SUBSET Storages /\ Free(h) \in SUBSET Nat /\ Room(h) = Cardinality(Free(h)) /\ Fresh(h) = Min(Free(h))
  <2>1. Storages \subseteq Nat
    BY BoundsAssumption DEF Storages
  <2> QED BY <2>1 DEF Free, Room, Fresh
<1>2. Free(h) # {}
    BY <1>1, FS_EmptySet
<1>3. \E n \in Free(h) : \A m \in Free(h) : n <= m
    BY <1>1, <1>2, LeastNumber
<1>4. Min(Free(h)) \in Free(h)
    BY <1>3, Zenon DEF Min
<1> QED BY <1>1, <1>4 DEF Free

\* A blank storage that is taken leaves room for one less.
LEMMA RoomTaken ==
    ASSUME NEW h, NEW g, NEW s \in Storages, h[s] = Blank, g[s] # Blank,
           \A t \in Storages \ {s} : g[t] = Blank <=> h[t] = Blank
    PROVE  Room(g) = Room(h) - 1 /\ Room(h) \in Nat
<1>1. Free(g) = Free(h) \ {s} /\ s \in Free(h) /\ Free(h) \in SUBSET Storages
    BY DEF Free
<1>2. IsFiniteSet(Free(h)) /\ Cardinality(Free(h)) \in Nat
    BY <1>1, StoragesAreFinite
<1>3. Cardinality(Free(g)) = Cardinality(Free(h)) - 1
    BY <1>1, <1>2, FS_RemoveElement
<1> QED BY <1>2, <1>3 DEF Room, Free

\* Room is the same where the same storages exist.
LEMMA RoomSame ==
    ASSUME NEW h, NEW g, HeapTyped(h), HeapTyped(g), Live(h) \cup Dormant(h) = Live(g) \cup Dormant(g)
    PROVE  Room(g) = Room(h) /\ Room(h) \in Nat
<1>1. Free(g) = Free(h) /\ Free(h) \in SUBSET Storages
    BY Existing DEF Free
<1>2. Cardinality(Free(h)) \in Nat
    BY <1>1, StoragesAreFinite
<1> QED BY <1>1, <1>2 DEF Room, Free

\* A heap with the weak references to its expansions.
Ready(m, x) ==
    /\ HeapInv(m.heap, x) /\ m.origin \in Pointers
    /\ \A f \in Families : m.origin[f] # None =>
           Projected(f) # {} /\ m.heap[m.origin[f]].expands = {f}

Expanded(m, f, k) == k = "plain" \/ Reuses(m.origin, m.heap, f, k)

\* n is m with the storage s of the handle k of f, new or not.
Selection(m, n, x, f, k, s) ==
    /\ Ready(n, x) /\ Live(n.heap) = Live(m.heap)
    /\ s \in Storages /\ s \in Live(n.heap) \cup Dormant(n.heap)
    /\ Dormant(n.heap) \subseteq Dormant(m.heap) \cup {s}
    /\ \A t \in Storages : m.heap[t] # Blank => n.heap[t] = m.heap[t]
    /\ \A e \in Families : e # f => n.origin[e] = m.origin[e]
    /\ n.origin[f] \in {m.origin[f], s}
    /\ s \in Live(m.heap) => s = current[f] \/ s = m.origin[f]
    /\ \A c \in Storages : Inputs(n.heap, c) \subseteq Inputs(m.heap, c) \cup {current[f]}
    /\ k # "plain" => Reuses(n.origin, n.heap, f, k)
    /\ Expanded(m, f, k) => n = m
    /\ ~Expanded(m, f, k) => Room(n.heap) = Room(m.heap) - 1

\* #scalarProjection selects the current storage, or an expansion of it.
LEMMA Selecting ==
    ASSUME NEW x \in Counts, NEW m, Ready(m, x), NEW f \in Families, NEW k \in open[f],
           open[f] \subseteq Handles, current[f] \in Live(m.heap),
           Expanded(m, f, k) \/ Room(m.heap) > 0
    PROVE  Selection(m, ScalarProjection(m, f, k), x, f, k, Selected(ScalarProjection(m, f, k), f, k))
<1> DEFINE n == ScalarProjection(m, f, k)
           s == Selected(n, f, k)
<1>1. HeapTyped(m.heap) /\ HeapInv(m.heap, x) /\ m.origin \in Pointers /\ current[f] \in Storages
    BY DEF Ready, HeapInv, Live
<1>2. CASE Expanded(m, f, k)
  <2>1. n = m
    BY <1>2 DEF ScalarProjection, Expanded
  <2> HIDE DEF n
  <2>2. s = IF k = "plain" THEN current[f] ELSE m.origin[f]
    BY <2>1 DEF Selected
  <2>3. s \in Storages /\ s \in Live(m.heap) \cup Dormant(m.heap)
    <3>1. CASE k = "plain"
      BY <3>1, <2>2, <1>1
    <3>2. CASE k # "plain"
      <4>1. m.origin[f] # None
        BY <3>2, <1>2 DEF Expanded, Reuses
      <4>2. m.origin[f] \in Storages /\ m.heap[m.origin[f]].expands = {f}
        BY <4>1, <1>1 DEF Pointers, Ready
      <4>3. m.heap[m.origin[f]] # Blank
        BY <4>2, BlankCell
      <4> QED BY <3>2, <2>2, <4>2, <4>3, <1>1, Existing
    <3> QED BY <3>1, <3>2
  <2>4. s = current[f] \/ s = m.origin[f]
    BY <2>2
  <2>5. k # "plain" => Reuses(m.origin, m.heap, f, k)
    BY <1>2 DEF Expanded
  <2> HIDE DEF s
  <2>6. Selection(m, m, x, f, k, s)
    BY <1>2, <2>3, <2>4, <2>5 DEF Selection
  <2> QED BY <2>1, <2>6 DEF n, s
<1>3. CASE ~Expanded(m, f, k)
  <2> DEFINE h == m.heap
             a == Fresh(h)
             c == Projection(current[f], k, f)
             g == Placed(h, a, c)
  <2>1. k # "plain" /\ Room(h) > 0 /\ k \in Shapes
    BY <1>3 DEF Expanded, Handles, Shapes
  <2>2. a \in Storages /\ h[a] = Blank
    BY <2>1, FreshIsFree
  <2>3. n = [heap |-> g, origin |-> [m.origin EXCEPT ![f] = a]]
    <3>1. ~(k = "plain" \/ Reuses(m.origin, m.heap, f, k))
      BY <1>3 DEF Expanded
    <3> QED BY <3>1 DEF ScalarProjection, Placed, Projection
  <2>4. n.heap = g /\ n.origin = [m.origin EXCEPT ![f] = a]
    BY <2>3
  <2>5. s = a
    BY <2>1, <2>4, <1>1 DEF Selected, Pointers
  <2> HIDE DEF n, s, h, a, c, g
  <2>6. /\ HeapInv(g, x) /\ Live(g) = Live(h) /\ Dormant(g) = Dormant(h) \cup {a}
        /\ g[a] = c /\ c.inputs = <<current[f]>> /\ c.shape = k /\ c.expands = {f} /\ c.refs = 0
        /\ \A t \in Storages : t # a => g[t] = h[t]
    <3>1. HeapInv(h, x) /\ current[f] \in Live(h)
      BY <1>1 DEF h
    <3>2. c = Projection(current[f], k, f) /\ g = Placed(h, a, c)
      BY DEF c, g
    <3> QED BY <2>1, <2>2, <3>1, <3>2, ProjectionBalances
  <2>7. n.origin \in Pointers /\ n.origin[f] = a /\ \A e \in Families : e # f => n.origin[e] = m.origin[e]
    BY <2>2, <2>4, <1>1 DEF Pointers
  <2>8. Ready(n, x)
    <3>1. Projected(f) # {}
      BY <2>1 DEF Projected
    <3>2. ASSUME NEW e \in Families, n.origin[e] # None
          PROVE  Projected(e) # {} /\ n.heap[n.origin[e]].expands = {e}
      <4>1. CASE e = f
        BY <4>1, <3>1, <2>4, <2>6, <2>7
      <4>2. CASE e # f
        <5>1. n.origin[e] = m.origin[e] /\ m.origin[e] # None /\ m.origin[e] \in Storages
          BY <4>2, <3>2, <2>7, <1>1 DEF Pointers
        <5>2. Projected(e) # {} /\ h[m.origin[e]].expands = {e}
          BY <5>1 DEF Ready, h
        <5>3. m.origin[e] # a
          BY <5>2, <2>2, BlankCell
        <5> QED BY <5>1, <5>2, <5>3, <2>4, <2>6
      <4> QED BY <4>1, <4>2
    <3> QED BY <3>2, <2>4, <2>6, <2>7 DEF Ready
  <2>9. \A t \in Storages : h[t] # Blank => g[t] = h[t]
    BY <2>2, <2>6
  <2>10. \A t \in Storages : Inputs(g, t) \subseteq Inputs(h, t) \cup {current[f]}
    <3> SUFFICES ASSUME NEW t \in Storages PROVE Inputs(g, t) \subseteq Inputs(h, t) \cup {current[f]}
      OBVIOUS
    <3>1. CASE t = a
      <4>1. g[t].inputs = <<current[f]>>
        BY <3>1, <2>6
      <4>2. \A i \in DOMAIN <<current[f]>> : <<current[f]>>[i] = current[f]
        OBVIOUS
      <4> QED BY <4>1, <4>2 DEF Inputs
    <3>2. CASE t # a
      BY <3>2, <2>6 DEF Inputs
    <3> QED BY <3>1, <3>2
  <2>11. Reuses(n.origin, n.heap, f, k)
    <3>1. a # None
      BY <2>2 DEF Storages, None
    <3> QED BY <3>1, <2>4, <2>6, <2>7 DEF Reuses
  <2>12. Room(g) = Room(h) - 1
    <3>1. g[a] # Blank
      BY <2>6, BlankCell
    <3> QED BY <3>1, <2>2, <2>6, RoomTaken
  <2>13. a \notin Live(h)
    BY <2>2, BlankCell DEF Live
  <2>14. Selection(m, n, x, f, k, a)
    <3>1. a \in Live(n.heap) \cup Dormant(n.heap)
      BY <2>4, <2>6
    <3> QED BY <3>1, <1>3, <2>2, <2>4, <2>6, <2>7, <2>8, <2>9, <2>10, <2>11, <2>12, <2>13 DEF Selection, h
  <2> QED BY <2>5, <2>14 DEF n, s
<1> QED BY <1>2, <1>3

\* What one producer uses: one storage, or two.
LEMMA UsesOfOne ==
    ASSUME NEW h, NEW a \in Storages, NEW t \in Storages, NEW u, NEW v
    PROVE  /\ h[a].inputs = <<>> => UsedBy(h, a, t) = 0
           /\ h[a].inputs = <<u>> => UsedBy(h, a, t) = One(u)[t]
           /\ h[a].inputs = <<u, v>> => UsedBy(h, a, t) = One(u)[t] + One(v)[t]
<1>1. {a} \in SUBSET Storages /\ Cardinality({a}) = 1 /\ Cardinality({}) = 0
    BY FS_Singleton, FS_EmptySet
<1>2. Uses(h, {a}, t) = Cardinality(First(h, {a}, t)) + Cardinality(Second(h, {a}, t))
    BY <1>1, UsesCount
<1>3. One(u)[t] = (IF t = u THEN 1 ELSE 0) /\ One(v)[t] = (IF t = v THEN 1 ELSE 0)
    BY DEF One
<1>4. CASE h[a].inputs = <<>>
  <2>1. First(h, {a}, t) = {} /\ Second(h, {a}, t) = {}
    BY <1>4 DEF First, Second
  <2>2. h[a].inputs # <<u>> /\ h[a].inputs # <<u, v>>
    BY <1>4
  <2>3. Uses(h, {a}, t) = 0
    BY <1>1, <1>2, <2>1
  <2> QED BY <2>2, <2>3 DEF UsedBy
<1>5. CASE h[a].inputs = <<u>>
  <2>1. Second(h, {a}, t) = {} /\ First(h, {a}, t) = IF t = u THEN {a} ELSE {}
    BY <1>5 DEF First, Second
  <2>2. h[a].inputs # <<>> /\ h[a].inputs # <<u, v>>
    BY <1>5
  <2>3. Uses(h, {a}, t) = One(u)[t]
    BY <1>1, <1>2, <1>3, <2>1
  <2> QED BY <2>2, <2>3 DEF UsedBy
<1>6. CASE h[a].inputs = <<u, v>>
  <2>1. /\ First(h, {a}, t) = IF t = u THEN {a} ELSE {}
        /\ Second(h, {a}, t) = IF t = v THEN {a} ELSE {}
    BY <1>6 DEF First, Second
  <2>2. h[a].inputs # <<>> /\ h[a].inputs # <<u>>
    BY <1>6
  <2>3. Uses(h, {a}, t) = One(u)[t] + One(v)[t]
    BY <1>1, <1>2, <1>3, <2>1
  <2> QED BY <2>2, <2>3 DEF UsedBy
<1> QED BY <1>4, <1>5, <1>6 DEF UsedBy

\* A recorded storage takes over what was retained for its inputs.
Recorded(inputs, material, shape) ==
    [refs |-> 1, inputs |-> inputs, material |-> material, shape |-> shape, expands |-> {}]

\* In y the inputs are owned besides what x counts.
Owes(y, x, inputs) ==
    \/ inputs = <<>> /\ \A t \in Storages : y[t] = x[t]
    \/ \E u : inputs = <<u>> /\ \A t \in Storages : y[t] = x[t] + One(u)[t]
    \/ \E u, v : inputs = <<u, v>> /\ \A t \in Storages : y[t] = x[t] + (One(u)[t] + One(v)[t])

Items(inputs) == {inputs[i] : i \in DOMAIN inputs}

\* Recording a producer, or data of the user, keeps the heap in balance.
LEMMA RecordBalances ==
    ASSUME NEW h, NEW y \in Counts, NEW x \in Counts, HeapInv(h, y), Dormant(h) = {}, NEW s, s = Fresh(h), Room(h) > 0,
           NEW inputs \in Seq(Storages), Len(inputs) <= 2, NEW shape \in Shapes,
           NEW material \in {"none", "host"}, material # "none" \/ inputs # <<>>,
           Owes(y, x, inputs), NEW g, g = Placed(h, s, Recorded(inputs, material, shape))
    PROVE  /\ s \in Storages /\ s \notin Live(h) /\ HeapInv(g, Both(x, One(s))) /\ Dormant(g) = {}
           /\ Live(g) = Live(h) \cup {s} /\ \A t \in Storages \ {s} : g[t] = h[t]
           /\ Inputs(g, s) = Items(inputs)
<1> DEFINE n == Recorded(inputs, material, shape)
<1>1. s \in Storages /\ h[s] = Blank
    BY FreshIsFree
<1>2. n \in Cells /\ n.refs = 1 /\ n.inputs = inputs /\ n.material = material
    BY DEF Cells, Recorded
<1>3. h \in [Storages -> Cells]
    BY DEF HeapInv, HeapTyped
<1> HIDE DEF n
<1>4. Placed(h, s, n)[s] = n
    BY <1>1, <1>3 DEF Placed
<1>5. g = Placed(h, s, n)
    BY DEF n
<1>6. \A t \in Storages : y[t] = x[t] + UsedBy(Placed(h, s, n), s, t)
  <2> SUFFICES ASSUME NEW t \in Storages PROVE y[t] = x[t] + UsedBy(g, s, t)
    BY <1>5
  <2>1. g[s].inputs = inputs /\ s \in Storages
    BY <1>1, <1>2, <1>4, <1>5
  <2>2. x[t] \in Nat
    BY DEF Counts
  <2>u. \A u, v :
        /\ g[s].inputs = <<>> => UsedBy(g, s, t) = 0
        /\ g[s].inputs = <<u>> => UsedBy(g, s, t) = One(u)[t]
        /\ g[s].inputs = <<u, v>> => UsedBy(g, s, t) = One(u)[t] + One(v)[t]
    <3>1. s \in Storages
      BY <2>1
    <3> HIDE <1>5
    <3> QED BY <3>1, UsesOfOne
  <2>3. CASE inputs = <<>> /\ \A r \in Storages : y[r] = x[r]
    BY <2>1, <2>2, <2>u, <2>3
  <2>4. ASSUME NEW u, inputs = <<u>> /\ \A r \in Storages : y[r] = x[r] + One(u)[r]
        PROVE  y[t] = x[t] + UsedBy(g, s, t)
    BY <2>1, <2>u, <2>4
  <2>5. ASSUME NEW u, NEW v, inputs = <<u, v>> /\ \A r \in Storages : y[r] = x[r] + (One(u)[r] + One(v)[r])
        PROVE  y[t] = x[t] + UsedBy(g, s, t)
    BY <2>1, <2>u, <2>5
  <2> QED BY <2>3, <2>4, <2>5 DEF Owes
<1>7. Len(n.inputs) <= 2 /\ (n.material # "none" \/ n.inputs # <<>>)
    BY <1>2
<1>8. /\ HeapInv(Placed(h, s, n), Both(x, One(s)))
      /\ Live(Placed(h, s, n)) = Live(h) \cup {s} /\ Dormant(Placed(h, s, n)) = Dormant(h)
      /\ Placed(h, s, n)[s] = n /\ \A t \in Storages \ {s} : Placed(h, s, n)[t] = h[t]
  <2>1. PICK a \in Storages : a = s
    BY <1>1
  <2>2. PICK c \in Cells : c = n
    BY <1>2
  <2>3. /\ HeapInv(h, y) /\ h[a] = Blank /\ c.refs = 1 /\ Len(c.inputs) <= 2 /\ (c.material # "none" \/ c.inputs # <<>>)
        /\ \A t \in Storages : y[t] = x[t] + UsedBy(Placed(h, a, c), a, t)
    BY <1>1, <1>2, <1>6, <1>7, <2>1, <2>2
  <2>4. /\ HeapInv(Placed(h, a, c), Both(x, One(a)))
        /\ Live(Placed(h, a, c)) = Live(h) \cup {a} /\ Dormant(Placed(h, a, c)) = Dormant(h)
        /\ Placed(h, a, c)[a] = c /\ \A t \in Storages \ {a} : Placed(h, a, c)[t] = h[t]
    BY ONLY <2>3, x \in Counts, y \in Counts, a \in Storages, c \in Cells, CreateBalances
  <2> QED BY <2>1, <2>2, <2>4
<1>9. s \notin Live(h)
    BY <1>1, BlankCell DEF Live
<1>10. Inputs(g, s) = Items(inputs)
    BY <1>2, <1>4, <1>5 DEF Inputs, Items
<1>11. /\ HeapInv(g, Both(x, One(s))) /\ Dormant(g) = {} /\ Live(g) = Live(h) \cup {s}
       /\ \A t \in Storages \ {s} : g[t] = h[t]
    BY <1>5, <1>8
<1> QED BY <1>1, <1>9, <1>10, <1>11

----------------------------------------------------------------------------
(* The inductive invariant.                                                 *)

Holders == HoldersOf(current, cache, queue, drains, leaving)

Steps == [at : {"idle", "formed", "executing", "materialized"}, slots : SUBSET Storages,
          computed : SUBSET Storages, kept : SUBSET Storages]

Typed ==
    /\ current \in Pointers /\ open \in [Families -> SUBSET Handles]
    /\ origin \in Pointers /\ cache \in Pointers
    /\ leaving \in Counts /\ drains \in Counts
    /\ queue \in Seq(Storages) /\ step \in Steps

\* A family has a current value as long as one of its identities is open.
Named == \A f \in Families : current[f] = None <=> open[f] = {}

\* The counts are those of the owners, nothing is left that nobody owns, and
\* the program at the head of the queue can run to its end.
IInv ==
    /\ Typed /\ Named
    /\ HeapInv(heap, Holders) /\ Dormant(heap) = {}
    /\ CacheIsCurrent
    /\ Program(heap, Holders, origin, step, queue)

\* Between calls everything is ready for the next one.
LEMMA NowIsReady ==
    ASSUME IInv
    PROVE  /\ Holders \in Counts /\ HeapTyped(heap) /\ Ready(Now, Holders)
           /\ Now.heap = heap /\ Now.origin = origin
           /\ \A t \in Storages : heap[t] # Blank <=> t \in Live(heap)
           /\ step.slots \subseteq Storages
           /\ queue # <<>> => Head(queue) \in Live(heap) /\ Holders[Head(queue)] > 0
           /\ step.at # "idle" => Head(queue) \in Live(heap)
<1>1. Typed /\ HeapInv(heap, Holders) /\ Dormant(heap) = {} /\ CacheIsCurrent
    BY DEF IInv
<1>2. Holders \in Counts
    BY <1>1, HoldersAreCounts DEF Typed, Holders
<1>3. Now.heap = heap /\ Now.origin = origin
    BY DEF Now
<1>4. Ready(Now, Holders)
    BY <1>1, <1>3 DEF Ready, CacheIsCurrent, Typed
<1>5. HeapTyped(heap)
    BY <1>1 DEF HeapInv
<1>6. \A t \in Storages : heap[t] # Blank <=> t \in Live(heap)
    BY <1>1, <1>5, Existing
<1>7. step.slots \subseteq Storages
    BY <1>1 DEF Typed, Steps
<1>8. ASSUME queue # <<>> PROVE Head(queue) \in Live(heap) /\ Holders[Head(queue)] > 0
  <2>1. Head(queue) \in Storages
    BY <1>8, <1>1 DEF Typed
  <2>2. Holders[Head(queue)] > 0
    BY <1>8, <1>1, <2>1, HoldersCount DEF Typed, Holders
  <2> QED BY <1>1, <1>2, <1>5, <2>1, <2>2, OwnedIsLive DEF HeapInv
<1>9. step.at # "idle" => queue # <<>>
    BY DEF IInv, Program
<1> QED BY <1>2, <1>3, <1>4, <1>5, <1>6, <1>7, <1>8, <1>9

\* An open family has a live current value, which it owns.
LEMMA OpenIsLive ==
    ASSUME IInv, NEW f \in Families, NEW k \in open[f]
    PROVE  /\ current[f] \in Storages /\ current[f] \in Live(heap) /\ Holders[current[f]] > 0
           /\ open[f] \subseteq Handles /\ ShapeOf(f, k) \in Shapes
<1>1. current[f] \in Storages /\ open[f] \subseteq Handles
    BY DEF IInv, Named, Typed, Pointers
<1>2. Holders[current[f]] > 0
    BY <1>1, HoldersCount DEF IInv, Typed, Holders
<1>3. current[f] \in Live(heap)
    BY <1>1, <1>2, NowIsReady, OwnedIsLive DEF IInv, HeapInv
<1>4. ShapeOf(f, k) \in Shapes
  <2>1. heap[current[f]].shape \in Shapes
    BY <1>1, NowIsReady, CellFields
  <2>2. k # "plain" => k \in Shapes
    BY <1>1 DEF Handles, Shapes
  <2> QED BY <2>1, <2>2 DEF ShapeOf
<1> QED BY <1>1, <1>2, <1>3, <1>4

----------------------------------------------------------------------------
(* User calls.                                                              *)

Lacking(hs) == {a \in hs : a[2] # "plain" /\ ~Reuses(origin, heap, a[1], a[2])}
MissingOne(f, k) == Missing({<<f, k>>})
MissingTwo(f, k, e, l) == Missing({<<f, k>>, <<e, l>>})

\* An expansion that does not exist is missing.
LEMMA MissingCounts ==
    ASSUME NEW f, NEW k, NEW e, NEW l
    PROVE  /\ MissingOne(f, k) \in Nat /\ (~Expanded(Now, f, k) => MissingOne(f, k) = 1)
           /\ MissingTwo(f, k, e, l) \in Nat
           /\ ~Expanded(Now, f, k) \/ ~Expanded(Now, e, l) => MissingTwo(f, k, e, l) >= 1
           /\ ~Expanded(Now, f, k) /\ ~Expanded(Now, e, l) /\ e # f => MissingTwo(f, k, e, l) = 2
<1> DEFINE a == <<f, k>>
           b == <<e, l>>
<1>1. \A c \in {a, b} : c \in Lacking({a, b}) <=> c[2] # "plain" /\ ~Reuses(origin, heap, c[1], c[2])
    BY DEF Lacking
<1>2. /\ a[1] = f /\ a[2] = k /\ b[1] = e /\ b[2] = l /\ (e # f => a # b)
    OBVIOUS
<1>3. /\ ~Expanded(Now, f, k) <=> (k # "plain" /\ ~Reuses(origin, heap, f, k))
      /\ ~Expanded(Now, e, l) <=> (l # "plain" /\ ~Reuses(origin, heap, e, l))
    BY DEF Expanded, Now
<1> HIDE DEF a, b
<1>4. /\ (~Expanded(Now, f, k) <=> a \in Lacking({a, b}))
      /\ (~Expanded(Now, e, l) <=> b \in Lacking({a, b}))
      /\ Lacking({a, b}) \subseteq {a, b}
      /\ (~Expanded(Now, f, k) => Lacking({a}) = {a}) /\ Lacking({a}) \subseteq {a}
    BY <1>1, <1>2, <1>3 DEF Lacking
<1>5. Missing({a}) = Cardinality(Lacking({a})) /\ Missing({a, b}) = Cardinality(Lacking({a, b}))
    BY DEF Missing, Lacking
<1>6. IsFiniteSet({a}) /\ Cardinality({a}) = 1 /\ IsFiniteSet({a, b}) /\ (a # b => Cardinality({a, b}) = 2)
  <2>1. IsFiniteSet({a}) /\ Cardinality({a}) = 1
    BY FS_Singleton
  <2>2. IsFiniteSet({a} \cup {b}) /\ Cardinality({a} \cup {b}) = IF b \in {a} THEN 1 ELSE 2
    BY <2>1, FS_AddElement
  <2>3. {a} \cup {b} = {a, b} /\ (b \in {a} <=> b = a)
    OBVIOUS
  <2> QED BY <2>1, <2>2, <2>3
<1>7. /\ IsFiniteSet(Lacking({a})) /\ IsFiniteSet(Lacking({a, b}))
      /\ Missing({a}) \in Nat /\ Missing({a, b}) \in Nat
  <2>1. IsFiniteSet(Lacking({a})) /\ IsFiniteSet(Lacking({a, b}))
    BY <1>4, <1>6, FS_Subset
  <2> QED BY <2>1, <1>5, FS_CardinalityType
<1>8. ~Expanded(Now, f, k) => Missing({a}) = 1
    BY <1>4, <1>5, <1>6
<1>9. ~Expanded(Now, f, k) \/ ~Expanded(Now, e, l) => Missing({a, b}) >= 1
  <2> SUFFICES ASSUME Lacking({a, b}) # {} PROVE Missing({a, b}) >= 1
    BY <1>4
  <2>1. Missing({a, b}) # 0
    BY <1>5, <1>7, FS_EmptySet
  <2> QED BY <2>1, <1>7
<1>10. ~Expanded(Now, f, k) /\ ~Expanded(Now, e, l) /\ e # f => Missing({a, b}) = 2
  <2> SUFFICES ASSUME a \in Lacking({a, b}), b \in Lacking({a, b}), a # b PROVE Missing({a, b}) = 2
    BY <1>4, <1>2
  <2>1. Lacking({a, b}) = {a, b}
    BY <1>4
  <2> QED BY <2>1, <1>5, <1>6
<1> QED BY <1>7, <1>8, <1>9, <1>10 DEF MissingOne, MissingTwo, a, b

\* Room suffices for one selection.
LEMMA SelectNow ==
    ASSUME IInv, NEW f \in Families, NEW k \in open[f], Room(heap) >= MissingOne(f, k),
           NEW m, m = ScalarProjection(Now, f, k), NEW s, s = Selected(m, f, k)
    PROVE  Selection(Now, m, Holders, f, k, s) /\ Selects(heap, Holders, origin, {current[f], s})
<1>1. /\ current[f] \in Live(heap) /\ Holders[current[f]] > 0 /\ open[f] \subseteq Handles
    BY OpenIsLive
<1>2. /\ Holders \in Counts /\ Ready(Now, Holders) /\ Now.heap = heap /\ Now.origin = origin
    BY NowIsReady
<1>3. Expanded(Now, f, k) \/ Room(Now.heap) > 0
  <2>1. MissingOne(f, k) \in Nat /\ (~Expanded(Now, f, k) => MissingOne(f, k) = 1)
    BY MissingCounts
  <2>2. Room(heap) \in Nat
    BY NowIsReady, RoomSame
  <2> QED BY <1>2, <2>1, <2>2
<1>4. current[f] \in Live(Now.heap)
    BY <1>1, <1>2
<1>5. Selection(Now, m, Holders, f, k, s)
    BY <1>1, <1>2, <1>3, <1>4, Selecting
<1>6. s \in Live(heap) => s = current[f] \/ s = origin[f]
    BY <1>2, <1>5 DEF Selection
<1> QED BY <1>1, <1>5, <1>6 DEF Selects

\* And for two, which leave room for the result.
LEMMA SelectTwo ==
    ASSUME IInv, NEW g \in Families, NEW j \in open[g], NEW e \in Families, NEW k \in open[e],
           ShapeOf(g, j) = ShapeOf(e, k), Room(heap) > MissingTwo(g, j, e, k),
           NEW m, m = ScalarProjection(Now, g, j), NEW n, n = ScalarProjection(m, e, k),
           NEW s, s = Selected(n, g, j), NEW t, t = Selected(n, e, k)
    PROVE  /\ Selection(Now, m, Holders, g, j, s) /\ Selection(m, n, Holders, e, k, t)
           /\ Room(n.heap) > 0 /\ Selects(heap, Holders, origin, {current[g], current[e], s, t})
<1>1. /\ current[g] \in Live(heap) /\ Holders[current[g]] > 0
      /\ current[e] \in Live(heap) /\ Holders[current[e]] > 0 /\ open[e] \subseteq Handles
    BY OpenIsLive
<1>2. /\ Holders \in Counts /\ Ready(Now, Holders) /\ Now.heap = heap /\ Now.origin = origin /\ HeapTyped(heap)
      /\ \A a \in Storages : heap[a] # Blank <=> a \in Live(heap)
    BY NowIsReady
<1>3. Room(heap) \in Nat
    BY <1>2, RoomSame
<1>4. /\ MissingTwo(g, j, e, k) \in Nat
      /\ ~Expanded(Now, g, j) \/ ~Expanded(Now, e, k) => MissingTwo(g, j, e, k) >= 1
      /\ ~Expanded(Now, g, j) /\ ~Expanded(Now, e, k) /\ e # g => MissingTwo(g, j, e, k) = 2
      /\ MissingOne(g, j) \in Nat /\ (~Expanded(Now, g, j) => MissingOne(g, j) = 1)
    BY MissingCounts
<1>5. Selection(Now, m, Holders, g, j, Selected(m, g, j)) /\ Selects(heap, Holders, origin, {current[g], Selected(m, g, j)})
  <2>1. ~Expanded(Now, g, j) => Room(heap) > 0
    BY <1>3, <1>4
  <2>2. Expanded(Now, g, j) \/ Room(Now.heap) > 0
    BY <1>2, <2>1
  <2>3. current[g] \in Live(Now.heap) /\ open[g] \subseteq Handles
    BY <1>1, <1>2, OpenIsLive
  <2>4. Selection(Now, m, Holders, g, j, Selected(m, g, j))
    BY <1>2, <2>2, <2>3, Selecting
  <2>5. Selected(m, g, j) \in Live(heap) => Selected(m, g, j) = current[g] \/ Selected(m, g, j) = origin[g]
    BY <1>2, <2>4 DEF Selection
  <2> QED BY <1>1, <2>4, <2>5 DEF Selects
<1>6. /\ Ready(m, Holders) /\ Live(m.heap) = Live(heap)
      /\ \A a \in Storages : heap[a] # Blank => m.heap[a] = heap[a]
      /\ \A a \in Families : a # g => m.origin[a] = origin[a]
      /\ m.origin[g] \in {origin[g], Selected(m, g, j)}
      /\ (j # "plain" => Reuses(m.origin, m.heap, g, j))
      /\ (Expanded(Now, g, j) => m = Now)
      /\ (~Expanded(Now, g, j) => Room(m.heap) = Room(heap) - 1)
    BY <1>2, <1>5 DEF Selection
<1>7. ASSUME e = g, j # "plain", k # "plain" PROVE Expanded(m, e, k)
  <2>1. j = k
    BY <1>7 DEF ShapeOf
  <2> QED BY <2>1, <1>6, <1>7 DEF Expanded
<1>8. ASSUME e # g PROVE Expanded(m, e, k) <=> Expanded(Now, e, k)
  <2>1. m.origin[e] = origin[e]
    BY <1>6, <1>8
  <2>2. origin[e] # None => m.heap[origin[e]] = heap[origin[e]]
    <3> SUFFICES ASSUME origin[e] # None PROVE m.heap[origin[e]] = heap[origin[e]]
      OBVIOUS
    <3>1. origin[e] \in Storages /\ heap[origin[e]].expands = {e}
      BY <1>2 DEF Ready, Pointers
    <3>2. heap[origin[e]] # Blank
      BY <3>1, BlankCell
    <3> QED BY <3>1, <3>2, <1>6
  <2> QED BY <1>2, <2>1, <2>2 DEF Expanded, Reuses
<1>9. /\ Expanded(m, e, k) \/ Room(m.heap) > 0
      /\ Expanded(m, e, k) => Room(m.heap) > 0
      /\ ~Expanded(m, e, k) => Room(m.heap) > 1
  <2>1. CASE Expanded(Now, g, j)
    <3>1. m = Now
      BY <2>1, <1>6
    <3>2. ~Expanded(Now, e, k) => Room(heap) > 1
      BY <1>3, <1>4
    <3>3. Room(heap) > 0
      BY <1>3, <1>4
    <3> QED BY <3>1, <3>2, <3>3, <1>2
  <2>2. CASE ~Expanded(Now, g, j)
    <3>1. Room(m.heap) = Room(heap) - 1 /\ j # "plain"
      BY <2>2, <1>6 DEF Expanded
    <3>2. Room(m.heap) > 0
      BY <3>1, <2>2, <1>3, <1>4
    <3>3. CASE Expanded(m, e, k)
      BY <3>2, <3>3
    <3>4. CASE ~Expanded(m, e, k)
      <4>1. e # g
        BY <3>1, <3>4, <1>7 DEF Expanded
      <4>2. ~Expanded(Now, e, k)
        BY <4>1, <3>4, <1>8
      <4>3. MissingTwo(g, j, e, k) = 2
        BY <4>1, <4>2, <2>2, <1>4
      <4>4. Room(m.heap) > 1
        BY <4>3, <3>1, <1>3
      <4> QED BY <4>4, <3>2
    <3> QED BY <3>3, <3>4
  <2> QED BY <2>1, <2>2
<1>10. Selection(m, n, Holders, e, k, t)
  <2>1. current[e] \in Live(m.heap)
    BY <1>1, <1>6
  <2>2. Expanded(m, e, k) \/ Room(m.heap) > 0
    BY <1>9
  <2> QED BY <1>1, <1>2, <1>6, <2>1, <2>2, Selecting
<1>11. s = Selected(m, g, j)
  <2>1. CASE j = "plain"
    BY <2>1 DEF Selected
  <2>2. CASE j # "plain" /\ e # g
    <3>1. n.origin[g] = m.origin[g]
      BY <2>2, <1>10 DEF Selection
    <3> QED BY <2>2, <3>1 DEF Selected
  <2>3. CASE j # "plain" /\ e = g
    <3>1. Expanded(m, e, k)
      BY <2>3, <1>7 DEF Expanded
    <3>2. n = m
      BY <3>1, <1>10 DEF Selection
    <3> QED BY <3>2
  <2> QED BY <2>1, <2>2, <2>3
<1>12. Room(n.heap) > 0
  <2>1. Room(m.heap) \in Nat
    BY <1>6, RoomSame DEF Ready, HeapInv
  <2>2. (Expanded(m, e, k) => n = m) /\ (~Expanded(m, e, k) => Room(n.heap) = Room(m.heap) - 1)
    BY <1>10 DEF Selection
  <2>3. CASE Expanded(m, e, k)
    BY <2>2, <2>3, <1>9
  <2>4. CASE ~Expanded(m, e, k)
    BY <2>1, <2>2, <2>4, <1>9
  <2> QED BY <2>3, <2>4
<1>13. Selects(heap, Holders, origin, {current[g], current[e], s, t})
  <2>1. t \in Live(heap) => t = current[e] \/ t = m.origin[e]
    BY <1>6, <1>10 DEF Selection
  <2>2. m.origin[e] = origin[e] \/ m.origin[e] = s
    BY <1>6, <1>11
  <2>3. s \in Live(heap) => Holders[s] > 0 \/ \E a \in Families : origin[a] = s
    BY <1>5, <1>11 DEF Selects
  <2>4. t \in Live(heap) => Holders[t] > 0 \/ \E a \in Families : origin[a] = t
    BY <2>1, <2>2, <2>3, <1>1
  <2> QED BY <2>3, <2>4, <1>1 DEF Selects
<1> QED BY <1>5, <1>10, <1>11, <1>12, <1>13

\* Cells keep what they expand, so expansions stay selectable.
LEMMA OriginsKept ==
    ASSUME NEW x, NEW m, Ready(m, x), NEW g,
           \A t \in Storages : m.heap[t] # Blank => g[t].expands = m.heap[t].expands
    PROVE  /\ Reachable(m.origin, g) = m.origin
           /\ \A f \in Families : m.origin[f] # None => m.origin[f] \in Storages /\ g[m.origin[f]].expands = {f}
<1>1. m.origin \in Pointers /\ m.origin = [f \in Families |-> m.origin[f]]
    BY DEF Ready, Pointers
<1>2. ASSUME NEW f \in Families, m.origin[f] # None
      PROVE  m.origin[f] \in Storages /\ g[m.origin[f]].expands = {f} /\ g[m.origin[f]] # Blank
  <2>1. m.origin[f] \in Storages /\ m.heap[m.origin[f]].expands = {f}
    BY <1>1, <1>2 DEF Ready, Pointers
  <2>2. m.heap[m.origin[f]] # Blank
    BY <2>1, BlankCell
  <2>3. g[m.origin[f]].expands = {f}
    BY <2>1, <2>2
  <2>4. g[m.origin[f]] # Blank
    BY <2>3, BlankCell
  <2> QED BY <2>1, <2>3, <2>4
<1>3. Reachable(m.origin, g) = [f \in Families |-> m.origin[f]]
    BY <1>2 DEF Reachable
<1> QED BY <1>1, <1>2, <1>3

\* A call that records work or observes keeps the invariant, whatever it
\* selects: m is the heap with the selected expansions, S what the call can touch.
LEMMA CallKeeps ==
    ASSUME IInv, Typed', Named',
           NEW m, Ready(m, Holders), \A t \in Storages : heap[t] # Blank => m.heap[t] = heap[t],
           HeapInv(heap', Holders'), Dormant(heap') = {},
           \A t \in Storages : m.heap[t] # Blank => Keeps(m.heap, heap', t) /\ heap'[t].refs >= m.heap[t].refs,
           cache' = cache, step' = step, origin' = m.origin \/ origin' = Reachable(m.origin, heap'),
           queue # <<>> => queue' # <<>> /\ Head(queue') = Head(queue),
           \A f \in Families : Projected(f) # {} => open'[f] = open[f],
           NEW S, Selects(heap, Holders, origin, S),
           \A c \in Storages : Inputs(heap', c) \subseteq Inputs(heap, c) \cup S,
           \A s \in Storages \ S : Holders[s] = 0 => Holders'[s] = 0,
           \A f \in Families : m.origin[f] \in {origin[f]} \cup S
    PROVE  IInv'
<1>1. /\ Holders \in Counts /\ HeapTyped(heap) /\ Ready(Now, Holders)
      /\ Now.heap = heap /\ Now.origin = origin
      /\ (\A t \in Storages : heap[t] # Blank <=> t \in Live(heap))
      /\ step.slots \subseteq Storages /\ (step.at # "idle" => Head(queue) \in Live(heap))
    BY NowIsReady
<1>2. /\ \A t \in Storages : m.heap[t] # Blank => heap'[t].expands = m.heap[t].expands
      /\ \A t \in Storages : heap[t] # Blank => Keeps(heap, heap', t) /\ heap'[t].refs >= heap[t].refs
    BY DEF Keeps
<1>3. origin' = m.origin /\ \A f \in Families : m.origin[f] # None => heap'[m.origin[f]].expands = {f}
    BY <1>2, OriginsKept
<1>4. CacheIsCurrent'
  <2> SUFFICES ASSUME NEW f \in Families, NEW s \in {origin'[f], cache'[f]} \ {None}
               PROVE  Projected(f)' # {} /\ heap'[s].expands = {f}
    BY DEF CacheIsCurrent
  <2>1. Projected(f) # {} /\ heap'[s].expands = {f}
    <3>1. CASE s = origin'[f]
      BY <3>1, <1>3 DEF Ready
    <3>2. CASE s = cache'[f]
      <4>1. Projected(f) # {} /\ heap[s].expands = {f} /\ s \in Storages
        BY <3>2 DEF IInv, CacheIsCurrent, Typed, Pointers
      <4>2. heap[s] # Blank
        BY <4>1, BlankCell
      <4> QED BY <4>1, <4>2, <1>2 DEF Keeps
    <3> QED BY <3>1, <3>2
  <2>2. open'[f] = open[f]
    BY <2>1
  <2> QED BY <2>1, <2>2 DEF Projected
<1>5. Program(heap, Holders, origin, step, queue)'
  <2>1. \A s \in Live(heap) : Goes(heap, heap', s)
    <3> SUFFICES ASSUME NEW s \in Live(heap) PROVE Goes(heap, heap', s)
      OBVIOUS
    <3>1. s \in Storages /\ heap[s].refs > 0 /\ heap[s].refs \in Nat
      BY <1>1, CellFields DEF Live
    <3>2. Keeps(heap, heap', s) /\ heap'[s].refs >= heap[s].refs
      BY <3>1, <1>1, <1>2
    <3>3. heap'[s].refs \in Nat
      BY <3>1, CellFields DEF HeapInv
    <3>4. s \in Live(heap')
      BY <3>1, <3>2, <3>3 DEF Live
    <3> QED BY <3>2, <3>4 DEF Goes, Keeps
  <2>2. Program(heap, Holders, origin, step, queue)
    BY DEF IInv
  <2>3. \A f \in Families : origin'[f] \in {origin[f], None} \cup S
    BY <1>3
  <2>4. Program(heap', Holders', origin', step, queue')
    BY <1>1, <2>1, <2>2, <2>3, GrowProgram
  <2> QED BY <2>4
<1> QED BY <1>4, <1>5 DEF IInv

\* Holders change by One when one pointer changes from None, or a request joins.
LEMMA HoldersJoin ==
    ASSUME IInv, NEW s \in Storages, leaving' = leaving, drains' = drains, cache' = cache
    PROVE  /\ (current' = current /\ queue' = Append(queue, s)) =>
                  \A t \in Storages : Holders'[t] = Both(Holders, One(s))[t]
           /\ (queue' = queue /\ \E f \in Families : current[f] = None /\ current' = [current EXCEPT ![f] = s]) =>
                  \A t \in Storages : Holders'[t] = Both(Holders, One(s))[t]
           /\ (queue' = Append(queue, s) /\ \E f \in Families : current[f] = None /\ current' = [current EXCEPT ![f] = s]) =>
                  \A t \in Storages : Holders'[t] = Both(Both(Holders, One(s)), One(s))[t]
<1>1. Typed
    BY DEF IInv
<1> SUFFICES ASSUME NEW t \in Storages
    PROVE  /\ (current' = current /\ queue' = Append(queue, s)) => Holders'[t] = Both(Holders, One(s))[t]
           /\ (queue' = queue /\ \E f \in Families : current[f] = None /\ current' = [current EXCEPT ![f] = s]) =>
                  Holders'[t] = Both(Holders, One(s))[t]
           /\ (queue' = Append(queue, s) /\ \E f \in Families : current[f] = None /\ current' = [current EXCEPT ![f] = s]) =>
                  Holders'[t] = Both(Both(Holders, One(s)), One(s))[t]
    OBVIOUS
<1>2. /\ Holders[t] = Held(current, t) + Held(cache, t) + Held(queue, t) + drains[t] + leaving[t]
      /\ Holders'[t] = Held(current', t) + Held(cache, t) + Held(queue', t) + drains[t] + leaving[t]
    BY DEF Holders, HoldersOf
<1>3. /\ Held(current, t) \in Nat /\ Held(cache, t) \in Nat /\ Held(queue, t) \in Nat
      /\ drains[t] \in Nat /\ leaving[t] \in Nat
    BY <1>1, HoldersAreCounts DEF Typed
<1>4. queue' = Append(queue, s) => Held(queue', t) = Held(queue, t) + One(s)[t]
    BY <1>1, HeldByQueue DEF Typed
<1>5. (\E f \in Families : current[f] = None /\ current' = [current EXCEPT ![f] = s]) => Held(current', t) = Held(current, t) + One(s)[t]
  <2> SUFFICES ASSUME NEW f \in Families, current[f] = None, current' = [current EXCEPT ![f] = s]
               PROVE  Held(current', t) = Held(current, t) + One(s)[t]
    OBVIOUS
  <2>1. s \in Storages \cup {None} /\ current \in Pointers
    BY <1>1 DEF Typed
  <2>2. Held([current EXCEPT ![f] = s], t) + One(current[f])[t] = Held(current, t) + One(s)[t] /\ Held([current EXCEPT ![f] = s], t) \in Nat
    BY <2>1, HeldByFamilies
  <2>3. One(None)[t] = 0
    BY DEF One, None, Storages
  <2> QED BY <2>2, <2>3, <1>3
<1>6. One(s)[t] \in Nat /\ Both(Holders, One(s))[t] = Holders[t] + One(s)[t]
      /\ Both(Both(Holders, One(s)), One(s))[t] = Holders[t] + One(s)[t] + One(s)[t]
    BY DEF One, Both
<1>7. ASSUME current' = current, queue' = Append(queue, s)
      PROVE  Holders'[t] = Both(Holders, One(s))[t]
  <2>1. Held(current', t) = Held(current, t)
    BY <1>7
  <2>2. Held(queue', t) = Held(queue, t) + One(s)[t]
    BY <1>4, <1>7
  <2> QED BY <2>1, <2>2, <1>2, <1>3, <1>6
<1>8. ASSUME queue' = queue, \E f \in Families : current[f] = None /\ current' = [current EXCEPT ![f] = s]
      PROVE  Holders'[t] = Both(Holders, One(s))[t]
  <2>1. Held(current', t) = Held(current, t) + One(s)[t]
    BY <1>5, <1>8
  <2>2. Held(queue', t) = Held(queue, t)
    BY <1>8
  <2> QED BY <2>1, <2>2, <1>2, <1>3, <1>6
<1>9. ASSUME queue' = Append(queue, s), \E f \in Families : current[f] = None /\ current' = [current EXCEPT ![f] = s]
      PROVE  Holders'[t] = Both(Both(Holders, One(s)), One(s))[t]
  <2>1. Held(current', t) = Held(current, t) + One(s)[t]
    BY <1>5, <1>9
  <2>2. Held(queue', t) = Held(queue, t) + One(s)[t]
    BY <1>4, <1>9
  <2> QED BY <2>1, <2>2, <1>2, <1>3, <1>6
<1> QED BY <1>7, <1>8, <1>9

\* A new family has no expansions.
LEMMA OpensKeeps ==
    ASSUME IInv, NEW f \in Families, current[f] = None, NEW s \in Storages, Opens(f, s), origin' \in Pointers,
           NEW r \in Storages, queue' = queue \/ queue' = Append(queue, r)
    PROVE  /\ Typed' /\ Named' /\ \A g \in Families : Projected(g) # {} => open'[g] = open[g]
           /\ queue # <<>> => queue' # <<>> /\ Head(queue') = Head(queue)
<1>1. /\ Typed /\ Named /\ current' = [current EXCEPT ![f] = s] /\ open' = [open EXCEPT ![f] = {"plain"}]
      /\ UNCHANGED <<cache, leaving, step, drains>>
    BY DEF IInv, Opens
<1>2. open[f] = {} /\ s # None
    BY <1>1 DEF Named, Storages, None
<1>3. queue' \in Seq(Storages)
    BY <1>1, AppendProperties DEF Typed
<1>4. current' \in Pointers
    BY <1>1 DEF Typed, Pointers
<1>5. open' \in [Families -> SUBSET Handles]
    BY <1>1 DEF Typed, Handles
<1>6. Typed'
    BY <1>1, <1>3, <1>4, <1>5 DEF Typed
<1>7. Named'
  <2> SUFFICES ASSUME NEW g \in Families PROVE current'[g] = None <=> open'[g] = {}
    BY DEF Named
  <2>1. CASE g = f
    BY <2>1, <1>1, <1>2 DEF Typed, Pointers
  <2>2. CASE g # f
    BY <2>2, <1>1 DEF Typed, Named, Pointers
  <2> QED BY <2>1, <2>2
<1>8. \A g \in Families : Projected(g) # {} => open'[g] = open[g]
    BY <1>1, <1>2 DEF Projected, Typed
<1>9. ASSUME queue # <<>> PROVE queue' # <<>> /\ Head(queue') = Head(queue)
    BY <1>1, <1>9, AppendProperties, HeadTailAppend DEF Typed
<1> QED BY <1>6, <1>7, <1>8, <1>9

\* Owning what was selected.
LEMMA OwnSelected ==
    ASSUME NEW x \in Counts, NEW m, NEW n, NEW f, NEW k, NEW s, Selection(m, n, x, f, k, s),
           Ready(m, x), Dormant(m.heap) = {}, NEW h, h = Retain(n.heap, s)
    PROVE  /\ HeapInv(h, Both(x, One(s))) /\ Dormant(h) = {} /\ s \in Live(h) /\ s \in Storages
           /\ Live(h) = Live(m.heap) \cup {s} /\ Room(h) = Room(n.heap)
           /\ \A t \in Storages : /\ Keeps(n.heap, h, t) /\ h[t].refs >= n.heap[t].refs
                                  /\ Inputs(h, t) \subseteq Inputs(m.heap, t) \cup {current[f]}
<1>1. /\ Ready(n, x) /\ Live(n.heap) = Live(m.heap) /\ s \in Storages /\ s \in Live(n.heap) \cup Dormant(n.heap)
      /\ Dormant(n.heap) \subseteq {s}
      /\ \A c \in Storages : Inputs(n.heap, c) \subseteq Inputs(m.heap, c) \cup {current[f]}
    BY DEF Selection
<1>2. HeapInv(n.heap, x) /\ HeapTyped(n.heap)
    BY <1>1 DEF Ready, HeapInv
<1>3. n.heap[s] # Blank
    BY <1>1, <1>2, Existing
<1>4. /\ HeapInv(h, Both(x, One(s)))
      /\ Live(h) = Live(n.heap) \cup {s} /\ Dormant(h) = Dormant(n.heap) \ {s}
      /\ \A t \in Storages : Keeps(n.heap, h, t) /\ h[t].refs >= n.heap[t].refs
    BY <1>1, <1>2, <1>3, RetainBalances
<1>5. HeapTyped(h)
    BY <1>4 DEF HeapInv
<1>6. Room(h) = Room(n.heap)
  <2>1. Live(n.heap) \cup Dormant(n.heap) = Live(h) \cup Dormant(h)
    BY <1>1, <1>4
  <2> QED BY <1>2, <1>5, <2>1, RoomSame
<1>7. \A t \in Storages : Inputs(h, t) \subseteq Inputs(m.heap, t) \cup {current[f]}
    BY <1>1, <1>4 DEF Keeps, Inputs
<1> QED BY <1>1, <1>4, <1>6, <1>7

\* User calls record, select and own; none of them loses anything.
LEMMA ObserveKeeps ==
    ASSUME IInv, NEW f \in Families, NEW k \in open[f], Observe(f, k)
    PROVE  IInv'
<1> DEFINE m == ScalarProjection(Now, f, k)
           s == Selected(m, f, k)
           S == {current[f], s}
<1>1. /\ heap' = Retain(m.heap, s) /\ origin' = Reachable(m.origin, heap') /\ queue' = Append(queue, s)
      /\ Room(heap) >= MissingOne(f, k) /\ UNCHANGED <<current, open, cache, leaving, step, drains>>
    BY DEF Observe, Becomes, Accepts, MissingOne
<1> HIDE DEF m, s
<1>2. Selection(Now, m, Holders, f, k, s) /\ Selects(heap, Holders, origin, S)
    BY <1>1, SelectNow DEF m, s
<1>3. /\ Holders \in Counts /\ HeapTyped(heap) /\ Ready(Now, Holders) /\ Now.heap = heap /\ Now.origin = origin
      /\ Typed /\ Named /\ Dormant(heap) = {}
    BY NowIsReady DEF IInv
<1>4. /\ HeapInv(heap', Both(Holders, One(s))) /\ Dormant(heap') = {} /\ s \in Storages
      /\ \A t \in Storages : /\ Keeps(m.heap, heap', t) /\ heap'[t].refs >= m.heap[t].refs
                             /\ Inputs(heap', t) \subseteq Inputs(heap, t) \cup {current[f]}
  <2>1. Dormant(Now.heap) = {} /\ heap' = Retain(m.heap, s)
    BY <1>1, <1>3
  <2>2. /\ HeapInv(heap', Both(Holders, One(s))) /\ Dormant(heap') = {} /\ s \in Storages
        /\ \A t \in Storages : /\ Keeps(m.heap, heap', t) /\ heap'[t].refs >= m.heap[t].refs
                               /\ Inputs(heap', t) \subseteq Inputs(Now.heap, t) \cup {current[f]}
    BY <1>2, <1>3, <2>1, OwnSelected
  <2> QED BY <2>2, <1>3
<1>5. \A t \in Storages : Holders'[t] = Both(Holders, One(s))[t]
    BY <1>1, <1>4, HoldersJoin
<1>6. HeapInv(heap', Holders')
    BY <1>4, <1>5, SameCounts
<1>7. /\ Ready(m, Holders) /\ (\A t \in Storages : heap[t] # Blank => m.heap[t] = heap[t])
      /\ \A g \in Families : m.origin[g] \in {origin[g]} \cup S
    BY <1>2, <1>3 DEF Selection
<1>8. origin' \in Pointers
    BY <1>1, <1>7 DEF Reachable, Ready, Pointers
<1>9. Typed' /\ Named' /\ (queue # <<>> => queue' # <<>> /\ Head(queue') = Head(queue))
  <2>1. queue' \in Seq(Storages) /\ (queue # <<>> => queue' # <<>> /\ Head(queue') = Head(queue))
    BY <1>1, <1>3, <1>4, AppendProperties, HeadTailAppend DEF Typed
  <2> QED BY <1>1, <1>3, <1>8, <2>1 DEF Typed, Named
<1>10. \A t \in Storages \ S : Holders[t] = 0 => Holders'[t] = 0
  <2>1. \A t \in Storages \ S : One(s)[t] = 0 /\ Both(Holders, One(s))[t] = Holders[t] + One(s)[t]
    BY DEF One, Both
  <2> QED BY <2>1, <1>5
<1>11. \A c \in Storages : Inputs(heap', c) \subseteq Inputs(heap, c) \cup S
    BY <1>4
<1> HIDE DEF S
<1> QED BY <1>1, <1>2, <1>4, <1>6, <1>7, <1>9, <1>10, <1>11, CallKeeps

\* Data of the user comes in a new family on a new storage.
LEMMA TensorKeeps ==
    ASSUME IInv, NEW f \in Families, current[f] = None, NEW shape \in Leaves, Tensor(f, shape)
    PROVE  IInv'
<1> DEFINE s == Fresh(heap)
           S == {s}
<1>1. /\ heap' = [heap EXCEPT ![s] = [Blank EXCEPT !.refs = 1, !.material = "host", !.shape = shape]]
      /\ origin' = Reachable(origin, heap') /\ Room(heap) > 0 /\ Opens(f, s) /\ queue' = queue
    BY DEF Tensor, Becomes
<1>2. heap' = Placed(heap, s, Recorded(<<>>, "host", shape))
  <2>1. [Blank EXCEPT !.refs = 1, !.material = "host", !.shape = shape] = Recorded(<<>>, "host", shape)
    <3> DEFINE c == [Blank EXCEPT !.refs = 1, !.material = "host", !.shape = shape]
               d == Recorded(<<>>, "host", shape)
    <3>1. shape \in Shapes
      BY SizesAssumption DEF Shapes
    <3>2. /\ c \in Cells /\ c.refs = 1 /\ c.inputs = <<>> /\ c.material = "host" /\ c.shape = shape /\ c.expands = {}
      <4>1. PICK a \in Cells : a = Blank
        BY BlankCell
      <4>2. c = [a EXCEPT !.refs = 1, !.material = "host", !.shape = shape]
        BY <4>1
      <4>3. a.inputs = <<>> /\ a.expands = {}
        BY <4>1, BlankCell
      <4> HIDE DEF c
      <4> QED BY <3>1, <4>2, <4>3 DEF Cells
    <3>3. /\ d \in Cells /\ d.refs = 1 /\ d.inputs = <<>> /\ d.material = "host" /\ d.shape = shape /\ d.expands = {}
      BY <3>1 DEF Recorded, Cells
    <3> HIDE DEF c, d
    <3>4. c = d
      BY <3>2, <3>3, CellsEqual
    <3> QED BY <3>4 DEF c, d
  <2> QED BY <2>1, <1>1 DEF Placed
<1> HIDE DEF s
<1>3. /\ Holders \in Counts /\ HeapTyped(heap) /\ Ready(Now, Holders) /\ Now.heap = heap /\ Now.origin = origin
      /\ Dormant(heap) = {} /\ HeapInv(heap, Holders)
    BY NowIsReady DEF IInv
<1>4. shape \in Shapes /\ <<>> \in Seq(Storages) /\ Len(<<>>) <= 2
    BY SizesAssumption DEF Shapes
<1>5. /\ s \in Storages /\ s \notin Live(heap) /\ HeapInv(heap', Both(Holders, One(s))) /\ Dormant(heap') = {}
      /\ Live(heap') = Live(heap) \cup {s} /\ \A t \in Storages \ {s} : heap'[t] = heap[t]
      /\ Inputs(heap', s) = Items(<<>>)
  <2>1. s = Fresh(heap) /\ Room(heap) > 0
    BY <1>1 DEF s
  <2>2. PICK inputs \in Seq(Storages) : inputs = <<>>
    BY <1>4
  <2>5. PICK material \in {"none", "host"} : material = "host"
    OBVIOUS
  <2>3. /\ Len(inputs) <= 2 /\ (material # "none" \/ inputs # <<>>)
        /\ heap' = Placed(heap, s, Recorded(inputs, material, shape))
        /\ Owes(Holders, Holders, inputs)
    BY <1>2, <1>4, <2>2, <2>5 DEF Owes
  <2>4. /\ s \in Storages /\ s \notin Live(heap) /\ HeapInv(heap', Both(Holders, One(s))) /\ Dormant(heap') = {}
        /\ Live(heap') = Live(heap) \cup {s} /\ \A t \in Storages \ {s} : heap'[t] = heap[t]
        /\ Inputs(heap', s) = Items(inputs)
    <3>1. PICK h : h = heap
      OBVIOUS
    <3>2. PICK g : g = heap'
      OBVIOUS
    <3>3. PICK x \in Counts : x = Holders
      BY <1>3
    <3>4. /\ HeapInv(h, x) /\ Dormant(h) = {} /\ s = Fresh(h) /\ Room(h) > 0 /\ Len(inputs) <= 2
          /\ (material # "none" \/ inputs # <<>>)
          /\ Owes(x, x, inputs) /\ g = Placed(h, s, Recorded(inputs, material, shape))
      BY <1>3, <2>1, <2>3, <3>1, <3>2, <3>3
    <3>5. shape \in Shapes
      BY <1>4
    <3>6. /\ s \in Storages /\ s \notin Live(h) /\ HeapInv(g, Both(x, One(s))) /\ Dormant(g) = {}
          /\ Live(g) = Live(h) \cup {s} /\ \A t \in Storages \ {s} : g[t] = h[t]
          /\ Inputs(g, s) = Items(inputs)
      BY <3>4, <3>5, RecordBalances
    <3> QED BY <3>1, <3>2, <3>3, <3>6
  <2> QED BY <2>2, <2>4
<1>6. \A t \in Storages : Holders'[t] = Both(Holders, One(s))[t]
  <2>1. current' = [current EXCEPT ![f] = s] /\ UNCHANGED <<cache, leaving, drains>>
    BY <1>1 DEF Opens
  <2> QED BY <1>1, <1>5, <2>1, HoldersJoin
<1>7. HeapInv(heap', Holders')
    BY <1>5, <1>6, SameCounts
<1>8. heap[s] = Blank /\ \A t \in Storages : heap[t] # Blank => t # s
    BY <1>1, FreshIsFree DEF s
<1>9. \A t \in Storages : heap[t] # Blank => Keeps(heap, heap', t) /\ heap'[t].refs >= heap[t].refs
  <2> SUFFICES ASSUME NEW t \in Storages, heap[t] # Blank PROVE Keeps(heap, heap', t) /\ heap'[t].refs >= heap[t].refs
    OBVIOUS
  <2>1. heap'[t] = heap[t] /\ heap[t].refs \in Nat
    BY <1>3, <1>5, <1>8, CellFields
  <2> QED BY <2>1 DEF Keeps
<1>10. Typed' /\ Named' /\ (\A g \in Families : Projected(g) # {} => open'[g] = open[g])
       /\ (queue # <<>> => queue' # <<>> /\ Head(queue') = Head(queue))
  <2>1. origin' \in Pointers
    BY <1>1, <1>3 DEF Reachable, Ready, Pointers
  <2> QED BY <1>1, <1>5, <2>1, OpensKeeps
<1>11. Selects(heap, Holders, origin, S)
    BY <1>5 DEF Selects
<1>12. \A c \in Storages : Inputs(heap', c) \subseteq Inputs(heap, c) \cup S
  <2>1. Inputs(heap', s) = {}
    BY <1>5 DEF Items
  <2> QED BY <2>1, <1>5 DEF Inputs
<1>13. \A t \in Storages \ S : Holders[t] = 0 => Holders'[t] = 0
  <2>1. \A t \in Storages \ S : One(s)[t] = 0 /\ Both(Holders, One(s))[t] = Holders[t] + One(s)[t]
    BY DEF One, Both
  <2> QED BY <2>1, <1>6
<1>14. cache' = cache /\ step' = step
    BY <1>1 DEF Opens
<1> HIDE DEF S
<1>15. \A t \in Storages : heap[t] # Blank => Now.heap[t] = heap[t]
    BY <1>3
<1>16. \A g \in Families : Now.origin[g] \in {origin[g]} \cup S
    BY <1>3
<1>17. /\ origin' = Reachable(Now.origin, heap')
       /\ \A t \in Storages : Now.heap[t] # Blank => Keeps(Now.heap, heap', t) /\ heap'[t].refs >= Now.heap[t].refs
    BY <1>1, <1>3, <1>9
<1>18. PICK m : m = Now
    OBVIOUS
<1> QED BY <1>3, <1>5, <1>7, <1>10, <1>11, <1>12, <1>13, <1>14, <1>15, <1>16, <1>17, <1>18, CallKeeps

\* The cell of a new result.
LEMMA ResultCell ==
    ASSUME NEW inputs \in Seq(Storages), NEW shape \in Shapes
    PROVE  [Blank EXCEPT !.refs = 1, !.inputs = inputs, !.shape = shape] = Recorded(inputs, "none", shape)
<1> DEFINE c == [Blank EXCEPT !.refs = 1, !.inputs = inputs, !.shape = shape]
           d == Recorded(inputs, "none", shape)
<1>1. /\ c \in Cells /\ c.refs = 1 /\ c.inputs = inputs /\ c.material = "none" /\ c.shape = shape /\ c.expands = {}
  <2>1. PICK a \in Cells : a = Blank
    BY BlankCell
  <2>2. c = [a EXCEPT !.refs = 1, !.inputs = inputs, !.shape = shape]
    BY <2>1
  <2>3. a.material = "none" /\ a.expands = {}
    BY <2>1, BlankCell
  <2> HIDE DEF c
  <2> QED BY <2>2, <2>3 DEF Cells
<1>2. /\ d \in Cells /\ d.refs = 1 /\ d.inputs = inputs /\ d.material = "none" /\ d.shape = shape /\ d.expands = {}
    BY DEF Recorded, Cells
<1> HIDE DEF c, d
<1>3. c = d
    BY <1>1, <1>2, CellsEqual
<1> QED BY <1>3 DEF c, d

\* What a call touches: S, without the storage it creates.
Touches(m, h, S) ==
    /\ Ready(m, Holders) /\ \A t \in Storages : heap[t] # Blank => m.heap[t] = heap[t]
    /\ \A t \in Storages : Keeps(m.heap, h, t) /\ h[t].refs >= m.heap[t].refs
    /\ Selects(heap, Holders, origin, S) /\ Live(heap) \subseteq Live(h)
    /\ \A c \in Storages : Inputs(h, c) \subseteq Inputs(heap, c) \cup S
    /\ \A f \in Families : m.origin[f] \in {origin[f]} \cup S

\* #recordProducer: the result owns what was retained for its inputs.
LEMMA RecordKeeps ==
    ASSUME IInv, NEW f \in Families, current[f] = None,
           NEW m, NEW h, NEW S, Touches(m, h, S), NEW y \in Counts, HeapInv(h, y), Dormant(h) = {}, Room(h) > 0,
           NEW inputs \in Seq(Storages), inputs # <<>>, Len(inputs) <= 2, Items(inputs) \subseteq S,
           Owes(y, Holders, inputs), NEW shape \in Shapes,
           Records(f, h, inputs, shape), origin' = m.origin
    PROVE  IInv'
<1> DEFINE s == Fresh(h)
           Z == S \cup {s}
<1>1. /\ heap' = Placed(h, s, Recorded(inputs, "none", shape)) /\ Opens(f, s) /\ queue' = queue
    BY ResultCell DEF Records, Placed
<1>2. s = Fresh(h)
    OBVIOUS
<1> HIDE DEF s
<1>3. /\ s \in Storages /\ s \notin Live(h) /\ HeapInv(heap', Both(Holders, One(s))) /\ Dormant(heap') = {}
      /\ Live(heap') = Live(h) \cup {s} /\ \A t \in Storages \ {s} : heap'[t] = h[t]
      /\ Inputs(heap', s) = Items(inputs)
  <2>1. PICK x \in Counts : x = Holders
    BY NowIsReady
  <2>2. PICK g : g = heap'
    OBVIOUS
  <2>3. PICK material \in {"none", "host"} : material = "none"
    OBVIOUS
  <2>4. Owes(y, x, inputs) /\ g = Placed(h, s, Recorded(inputs, material, shape)) /\ (material # "none" \/ inputs # <<>>)
    BY <1>1, <2>1, <2>2, <2>3
  <2>5. /\ s \in Storages /\ s \notin Live(h) /\ HeapInv(g, Both(x, One(s))) /\ Dormant(g) = {}
        /\ Live(g) = Live(h) \cup {s} /\ \A t \in Storages \ {s} : g[t] = h[t]
        /\ Inputs(g, s) = Items(inputs)
    BY <1>2, <2>4, RecordBalances
  <2> QED BY <2>1, <2>2, <2>5
<1>4. /\ Ready(m, Holders) /\ (\A t \in Storages : heap[t] # Blank => m.heap[t] = heap[t])
      /\ (\A t \in Storages : Keeps(m.heap, h, t) /\ h[t].refs >= m.heap[t].refs)
      /\ Selects(heap, Holders, origin, S) /\ Live(heap) \subseteq Live(h)
      /\ (\A c \in Storages : Inputs(h, c) \subseteq Inputs(heap, c) \cup S)
      /\ (\A g \in Families : m.origin[g] \in {origin[g]} \cup S)
    BY DEF Touches
<1>5. UNCHANGED <<cache, leaving, step, drains>> /\ current' = [current EXCEPT ![f] = s]
    BY <1>1 DEF Opens
<1>6. \A t \in Storages : Holders'[t] = Both(Holders, One(s))[t]
    BY <1>1, <1>3, <1>5, HoldersJoin
<1>7. HeapInv(heap', Holders')
    BY <1>3, <1>6, SameCounts
<1>8. \A t \in Storages : m.heap[t] # Blank => Keeps(m.heap, heap', t) /\ heap'[t].refs >= m.heap[t].refs
  <2> SUFFICES ASSUME NEW t \in Storages, m.heap[t] # Blank
               PROVE  Keeps(m.heap, heap', t) /\ heap'[t].refs >= m.heap[t].refs
    OBVIOUS
  <2>1. h[t] # Blank
    <3>1. Keeps(m.heap, h, t) /\ h[t].refs >= m.heap[t].refs
      BY <1>4
    <3>2. HeapTyped(m.heap)
      BY <1>4 DEF Ready, HeapInv
    <3>3. t \in Live(m.heap) \cup Dormant(m.heap)
      BY <3>2, Existing
    <3>4. m.heap[t].refs \in Nat /\ m.heap[t] \in Cells
      BY <3>2, CellFields
    <3>5. h[t] = Blank => m.heap[t] = Blank
      <4> SUFFICES ASSUME h[t] = Blank PROVE m.heap[t] = Blank
        OBVIOUS
      <4>1. m.heap[t].refs = 0
        BY <3>1, <3>4, BlankCell
      <4> QED BY <4>1, <3>1, <3>4, BlankCell, CellsEqual DEF Keeps
    <3> QED BY <3>5
  <2>2. t # s
    <3>1. h[s] = Blank
      BY <1>2, FreshIsFree
    <3> QED BY <2>1, <3>1
  <2>3. heap'[t] = h[t]
    BY <2>2, <1>3
  <2> QED BY <2>3, <1>4 DEF Keeps
<1>9. Typed' /\ Named' /\ (\A g \in Families : Projected(g) # {} => open'[g] = open[g])
      /\ (queue # <<>> => queue' # <<>> /\ Head(queue') = Head(queue))
  <2>1. origin' \in Pointers
    BY <1>4 DEF Ready
  <2> QED BY <1>1, <1>3, <2>1, OpensKeeps
<1>10. Selects(heap, Holders, origin, Z)
    BY <1>3, <1>4 DEF Selects
<1>11. \A c \in Storages : Inputs(heap', c) \subseteq Inputs(heap, c) \cup Z
  <2> SUFFICES ASSUME NEW c \in Storages PROVE Inputs(heap', c) \subseteq Inputs(heap, c) \cup Z
    OBVIOUS
  <2>1. CASE c = s
    BY <2>1, <1>3
  <2>2. CASE c # s
    <3>1. heap'[c] = h[c]
      BY <2>2, <1>3
    <3>2. Inputs(heap', c) = Inputs(h, c)
      BY <3>1 DEF Inputs
    <3> QED BY <3>2, <1>4
  <2> QED BY <2>1, <2>2
<1>12. \A t \in Storages \ Z : Holders[t] = 0 => Holders'[t] = 0
  <2>1. \A t \in Storages \ Z : One(s)[t] = 0 /\ Both(Holders, One(s))[t] = Holders[t] + One(s)[t]
    BY DEF One, Both
  <2> QED BY <2>1, <1>6
<1>13. \A g \in Families : m.origin[g] \in {origin[g]} \cup Z
    BY <1>4
<1>14. cache' = cache /\ step' = step
    BY <1>5
<1> HIDE DEF Z
<1> QED BY <1>3, <1>4, <1>7, <1>8, <1>9, <1>10, <1>11, <1>12, <1>13, <1>14, CallKeeps

\* The sum owns what it sums.
LEMMA SumKeeps ==
    ASSUME IInv, NEW f \in Families, current[f] = None, NEW g \in Families, NEW j \in open[g], Sum(f, g, j)
    PROVE  IInv'
<1> DEFINE m == ScalarProjection(Now, g, j)
           s == Selected(m, g, j)
           h == Retain(m.heap, s)
           S == {current[g], s}
<1>1. Records(f, h, <<s>>, "one") /\ origin' = m.origin /\ Room(heap) > MissingOne(g, j)
    BY DEF Sum, MissingOne
<1>2. Room(heap) \in Nat /\ MissingOne(g, j) \in Nat /\ (~Expanded(Now, g, j) => MissingOne(g, j) = 1)
    BY MissingCounts, NowIsReady, RoomSame
<1> HIDE DEF m, s
<1>3. Selection(Now, m, Holders, g, j, s) /\ Selects(heap, Holders, origin, S)
  <2>1. Room(heap) >= MissingOne(g, j)
    BY <1>1, <1>2
  <2> QED BY <2>1, SelectNow DEF m, s
<1>4. /\ Holders \in Counts /\ HeapTyped(heap) /\ Ready(Now, Holders) /\ Now.heap = heap /\ Now.origin = origin
      /\ Dormant(heap) = {}
    BY NowIsReady DEF IInv
<1>5. /\ HeapInv(h, Both(Holders, One(s))) /\ Dormant(h) = {} /\ s \in Live(h) /\ s \in Storages
      /\ Live(h) = Live(heap) \cup {s} /\ Room(h) = Room(m.heap)
      /\ \A t \in Storages : /\ Keeps(m.heap, h, t) /\ h[t].refs >= m.heap[t].refs
                             /\ Inputs(h, t) \subseteq Inputs(heap, t) \cup {current[g]}
  <2>1. Dormant(Now.heap) = {} /\ h = Retain(m.heap, s)
    BY <1>4
  <2> HIDE DEF h
  <2>2. /\ HeapInv(h, Both(Holders, One(s))) /\ Dormant(h) = {} /\ s \in Live(h) /\ s \in Storages
        /\ Live(h) = Live(Now.heap) \cup {s} /\ Room(h) = Room(m.heap)
        /\ \A t \in Storages : /\ Keeps(m.heap, h, t) /\ h[t].refs >= m.heap[t].refs
                               /\ Inputs(h, t) \subseteq Inputs(Now.heap, t) \cup {current[g]}
    BY <1>3, <1>4, <2>1, OwnSelected
  <2> QED BY <2>2, <1>4
<1> HIDE DEF h
<1>6. Room(h) > 0
  <2>1. (Expanded(Now, g, j) => m = Now) /\ (~Expanded(Now, g, j) => Room(m.heap) = Room(Now.heap) - 1)
    BY <1>3 DEF Selection
  <2> QED BY <2>1, <1>1, <1>2, <1>4, <1>5
<1>7. Touches(m, h, S)
    BY <1>3, <1>4, <1>5 DEF Touches, Selection
<1>8. Both(Holders, One(s)) \in Counts
    BY <1>4 DEF Both, One, Counts
<1>9. <<s>> \in Seq(Storages) /\ <<s>> # <<>> /\ Len(<<s>>) <= 2 /\ Items(<<s>>) \subseteq S /\ "one" \in Shapes
  <2>1. <<s>> \in Seq(Storages) /\ <<s>> # <<>> /\ Len(<<s>>) = 1
    BY <1>5
  <2>2. \A i \in DOMAIN <<s>> : <<s>>[i] = s
    OBVIOUS
  <2> QED BY <2>1, <2>2 DEF Items, Shapes
<1>10. Owes(Both(Holders, One(s)), Holders, <<s>>)
    BY DEF Owes, Both
<1> HIDE DEF S
<1>11. PICK y \in Counts : y = Both(Holders, One(s))
    BY <1>8
<1>12. PICK inputs \in Seq(Storages) : inputs = <<s>>
    BY <1>9
<1>13. /\ HeapInv(h, y) /\ Owes(y, Holders, inputs) /\ inputs # <<>> /\ Len(inputs) <= 2 /\ Items(inputs) \subseteq S
       /\ Records(f, h, inputs, "one")
    BY <1>1, <1>5, <1>9, <1>10, <1>11, <1>12
<1> QED BY <1>1, <1>5, <1>6, <1>7, <1>9, <1>13, RecordKeeps

\* The operands of a sum, in the order of their storages.
LEMMA OperandsOwe ==
    ASSUME NEW s \in Storages, NEW t \in Storages, NEW x \in Counts
    PROVE  /\ <<Min({s, t}), Max({s, t})>> \in Seq(Storages)
           /\ <<Min({s, t}), Max({s, t})>> # <<>> /\ Len(<<Min({s, t}), Max({s, t})>>) <= 2
           /\ Items(<<Min({s, t}), Max({s, t})>>) \subseteq {s, t}
           /\ Owes(Both(Both(x, One(s)), One(t)), x, <<Min({s, t}), Max({s, t})>>)
<1> DEFINE p == Min({s, t})
           q == Max({s, t})
<1>1. s \in Nat /\ t \in Nat
    BY BoundsAssumption DEF Storages
<1>2. (p = s /\ q = t) \/ (p = t /\ q = s)
  <2>1. CASE s <= t
    <3>1. p \in {s, t} /\ \A a \in {s, t} : p <= a
      <4>1. \E b \in {s, t} : \A a \in {s, t} : b <= a
        BY <1>1, <2>1
      <4> QED BY <4>1, Zenon DEF Min
    <3>2. q \in {s, t} /\ \A a \in {s, t} : q >= a
      <4>1. \E b \in {s, t} : \A a \in {s, t} : b >= a
        BY <1>1, <2>1
      <4> QED BY <4>1, Zenon DEF Max
    <3> HIDE DEF p, q
    <3> QED BY <1>1, <2>1, <3>1, <3>2
  <2>2. CASE ~(s <= t)
    <3>1. p \in {s, t} /\ \A a \in {s, t} : p <= a
      <4>1. \E b \in {s, t} : \A a \in {s, t} : b <= a
        BY <1>1, <2>2
      <4> QED BY <4>1, Zenon DEF Min
    <3>2. q \in {s, t} /\ \A a \in {s, t} : q >= a
      <4>1. \E b \in {s, t} : \A a \in {s, t} : b >= a
        BY <1>1, <2>2
      <4> QED BY <4>1, Zenon DEF Max
    <3> HIDE DEF p, q
    <3> QED BY <1>1, <2>2, <3>1, <3>2
  <2> QED BY <2>1, <2>2
<1> HIDE DEF p, q
<1>3. <<p, q>> \in Seq(Storages) /\ <<p, q>> # <<>> /\ Len(<<p, q>>) <= 2
    BY <1>2
<1>4. Items(<<p, q>>) \subseteq {s, t}
  <2>1. \A i \in DOMAIN <<p, q>> : <<p, q>>[i] = p \/ <<p, q>>[i] = q
    OBVIOUS
  <2> QED BY <2>1, <1>2 DEF Items
<1>5. \A r \in Storages : Both(Both(x, One(s)), One(t))[r] = x[r] + (One(p)[r] + One(q)[r])
  <2> SUFFICES ASSUME NEW r \in Storages
               PROVE  Both(Both(x, One(s)), One(t))[r] = x[r] + (One(p)[r] + One(q)[r])
    OBVIOUS
  <2>1. Both(Both(x, One(s)), One(t))[r] = x[r] + One(s)[r] + One(t)[r] /\ x[r] \in Nat
    BY DEF Both, Counts
  <2>2. One(s)[r] \in Nat /\ One(t)[r] \in Nat
    BY DEF One
  <2> QED BY <2>1, <2>2, <1>2
<1>6. Owes(Both(Both(x, One(s)), One(t)), x, <<p, q>>)
    BY <1>5 DEF Owes
<1> QED BY <1>3, <1>4, <1>6 DEF p, q

\* The addition owns both operands, twice one that is given twice.
LEMMA AddKeeps ==
    ASSUME IInv, NEW f \in Families, current[f] = None, NEW g \in Families, NEW j \in open[g],
           NEW e \in Families, NEW k \in open[e], Add(f, g, j, e, k)
    PROVE  IInv'
<1> DEFINE m == ScalarProjection(Now, g, j)
           n == ScalarProjection(m, e, k)
           s == Selected(n, g, j)
           t == Selected(n, e, k)
           h == Retain(n.heap, s)
           w == Retain(h, t)
           operands == <<Min({s, t}), Max({s, t})>>
           S == {current[g], current[e], s, t}
<1>1. /\ ShapeOf(g, j) = ShapeOf(e, k) /\ Room(heap) > MissingTwo(g, j, e, k)
      /\ Records(f, w, operands, ShapeOf(g, j)) /\ origin' = n.origin
    BY DEF Add, MissingTwo
<1>d. /\ m = ScalarProjection(Now, g, j) /\ n = ScalarProjection(m, e, k) /\ s = Selected(n, g, j) /\ t = Selected(n, e, k)
      /\ h = Retain(n.heap, s) /\ w = Retain(h, t)
    OBVIOUS
<1> HIDE DEF m, n, s, t, h, w
<1>2. /\ Selection(Now, m, Holders, g, j, s) /\ Selection(m, n, Holders, e, k, t)
      /\ Room(n.heap) > 0 /\ Selects(heap, Holders, origin, S)
    BY <1>1, <1>d, SelectTwo
<1>3. /\ Holders \in Counts /\ HeapTyped(heap) /\ Ready(Now, Holders) /\ Now.heap = heap /\ Now.origin = origin
      /\ Dormant(heap) = {}
    BY NowIsReady DEF IInv
<1>4. /\ Ready(m, Holders) /\ Live(m.heap) = Live(heap) /\ s \in Storages /\ s \in Live(m.heap) \cup Dormant(m.heap)
      /\ Dormant(m.heap) \subseteq {s}
      /\ (\A a \in Storages : heap[a] # Blank => m.heap[a] = heap[a])
      /\ (\A a \in Families : m.origin[a] \in {origin[a], s})
      /\ \A c \in Storages : Inputs(m.heap, c) \subseteq Inputs(heap, c) \cup {current[g]}
    BY <1>2, <1>3 DEF Selection
<1>5. /\ Ready(n, Holders) /\ Live(n.heap) = Live(heap) /\ t \in Storages /\ t \in Live(n.heap) \cup Dormant(n.heap)
      /\ Dormant(n.heap) \subseteq {s, t}
      /\ (\A a \in Storages : m.heap[a] # Blank => n.heap[a] = m.heap[a])
      /\ (\A a \in Families : n.origin[a] \in {m.origin[a], t})
      /\ \A c \in Storages : Inputs(n.heap, c) \subseteq Inputs(m.heap, c) \cup {current[e]}
    BY <1>2, <1>4 DEF Selection
<1>6. HeapInv(n.heap, Holders) /\ HeapTyped(n.heap) /\ HeapTyped(m.heap)
    BY <1>4, <1>5 DEF Ready, HeapInv
<1>7. n.heap[s] # Blank /\ n.heap[t] # Blank
  <2>1. m.heap[s] # Blank
    BY <1>4, <1>6, Existing
  <2>2. n.heap[t] # Blank
    BY <1>5, <1>6, Existing
  <2> QED BY <2>1, <2>2, <1>4, <1>5
<1>8. /\ HeapInv(h, Both(Holders, One(s))) /\ HeapTyped(h)
      /\ Live(h) = Live(n.heap) \cup {s} /\ Dormant(h) = Dormant(n.heap) \ {s}
      /\ \A a \in Storages : Keeps(n.heap, h, a) /\ h[a].refs >= n.heap[a].refs
  <2>1. PICK x \in Counts : x = Holders
    BY <1>3
  <2>2. HeapInv(n.heap, x)
    BY <1>6, <2>1
  <2>3. /\ HeapInv(h, Both(x, One(s)))
        /\ Live(h) = Live(n.heap) \cup {s} /\ Dormant(h) = Dormant(n.heap) \ {s}
        /\ \A a \in Storages : Keeps(n.heap, h, a) /\ h[a].refs >= n.heap[a].refs
    BY <1>4, <1>7, <1>d, <2>2, RetainBalances
  <2> QED BY <2>1, <2>3 DEF HeapInv
<1>9. h[t] # Blank
  <2>1. t \in Live(h) \cup Dormant(h)
    <3>1. s = t => t \in Live(h)
      BY <1>8
    <3>2. s # t => t \in Live(h) \cup Dormant(h)
      BY <1>5, <1>8
    <3> QED BY <3>1, <3>2
  <2> QED BY <2>1, <1>5, <1>8, Existing
<1>10. Both(Holders, One(s)) \in Counts /\ Both(Both(Holders, One(s)), One(t)) \in Counts
    BY <1>3 DEF Both, One, Counts
<1>11. /\ HeapInv(w, Both(Both(Holders, One(s)), One(t)))
       /\ Live(w) = Live(h) \cup {t} /\ Dormant(w) = Dormant(h) \ {t}
       /\ \A a \in Storages : Keeps(h, w, a) /\ w[a].refs >= h[a].refs
  <2>1. PICK x \in Counts : x = Both(Holders, One(s))
    BY <1>10
  <2>2. HeapInv(h, x)
    BY <1>8, <2>1
  <2>3. /\ HeapInv(w, Both(x, One(t)))
        /\ Live(w) = Live(h) \cup {t} /\ Dormant(w) = Dormant(h) \ {t}
        /\ \A a \in Storages : Keeps(h, w, a) /\ w[a].refs >= h[a].refs
    BY <1>5, <1>9, <1>d, <2>2, RetainBalances
  <2> QED BY <2>1, <2>3
<1>12. Dormant(w) = {} /\ Live(heap) \subseteq Live(w) /\ HeapTyped(w)
    BY <1>5, <1>8, <1>11 DEF HeapInv
<1>13. Room(w) > 0
  <2>1. Live(n.heap) \cup Dormant(n.heap) = Live(w) \cup Dormant(w)
    <3>1. s \in Live(n.heap) \cup Dormant(n.heap)
      BY <1>4, <1>6, <1>7, Existing
    <3> QED BY <3>1, <1>5, <1>8, <1>11
  <2>2. Room(w) = Room(n.heap)
    BY <2>1, <1>6, <1>12, RoomSame
  <2> QED BY <2>2, <1>2
<1>14. \A a \in Storages : Keeps(n.heap, w, a) /\ w[a].refs >= n.heap[a].refs
  <2> SUFFICES ASSUME NEW a \in Storages PROVE Keeps(n.heap, w, a) /\ w[a].refs >= n.heap[a].refs
    OBVIOUS
  <2>1. w[a].refs >= h[a].refs /\ h[a].refs >= n.heap[a].refs /\ Keeps(n.heap, h, a) /\ Keeps(h, w, a)
    BY <1>8, <1>11
  <2>2. w[a].refs \in Nat /\ h[a].refs \in Nat /\ n.heap[a].refs \in Nat
    BY <1>6, <1>8, <1>12, CellFields
  <2> QED BY <2>1, <2>2 DEF Keeps
<1>15. Touches(n, w, S)
  <2>1. \A a \in Storages : heap[a] # Blank => n.heap[a] = heap[a]
    BY <1>4, <1>5
  <2>2. \A c \in Storages : Inputs(w, c) \subseteq Inputs(heap, c) \cup S
    <3>1. \A c \in Storages : Inputs(w, c) = Inputs(n.heap, c)
      BY <1>14 DEF Keeps, Inputs
    <3> QED BY <3>1, <1>4, <1>5
  <2>3. \A a \in Families : n.origin[a] \in {origin[a]} \cup S
    BY <1>4, <1>5
  <2> QED BY <2>1, <2>2, <2>3, <1>2, <1>5, <1>12, <1>14 DEF Touches
<1>16. /\ operands \in Seq(Storages) /\ operands # <<>> /\ Len(operands) <= 2 /\ Items(operands) \subseteq {s, t}
       /\ Owes(Both(Both(Holders, One(s)), One(t)), Holders, operands)
    BY <1>3, <1>4, <1>5, OperandsOwe
<1> HIDE DEF operands
<1>17. ShapeOf(g, j) \in Shapes
    BY OpenIsLive
<1>18. Items(operands) \subseteq S
    BY <1>16
<1> HIDE DEF S
<1>19. PICK y \in Counts : y = Both(Both(Holders, One(s)), One(t))
    BY <1>10
<1>20. PICK inputs \in Seq(Storages) : inputs = operands
    BY <1>16
<1>21. PICK shape \in Shapes : shape = ShapeOf(g, j)
    BY <1>17
<1>22. /\ HeapInv(w, y) /\ Owes(y, Holders, inputs) /\ inputs # <<>> /\ Len(inputs) <= 2 /\ Items(inputs) \subseteq S
       /\ Records(f, w, inputs, shape)
    BY <1>1, <1>11, <1>16, <1>18, <1>19, <1>20, <1>21
<1> QED BY <1>1, <1>12, <1>13, <1>15, <1>22, RecordKeeps

\* A cloned gradient shares the storage, with a second pin by its effect.
LEMMA AcquireKeeps ==
    ASSUME IInv, NEW f \in Families, current[f] = None, NEW g \in Families, NEW j \in open[g], Acquire(f, g, j)
    PROVE  IInv'
<1> DEFINE m == ScalarProjection(Now, g, j)
           s == Selected(m, g, j)
           h == Retain(m.heap, s)
           S == {current[g], s}
<1>1. /\ heap' = Retain(h, s) /\ origin' = Reachable(m.origin, heap') /\ queue' = Append(queue, s)
      /\ Room(heap) >= MissingOne(g, j) /\ Opens(f, s)
    BY DEF Acquire, Becomes, Accepts, MissingOne
<1>d. m = ScalarProjection(Now, g, j) /\ s = Selected(m, g, j) /\ h = Retain(m.heap, s)
    OBVIOUS
<1> HIDE DEF m, s, h
<1>2. Selection(Now, m, Holders, g, j, s) /\ Selects(heap, Holders, origin, S)
    BY <1>1, <1>d, SelectNow
<1>3. /\ Holders \in Counts /\ HeapTyped(heap) /\ Ready(Now, Holders) /\ Now.heap = heap /\ Now.origin = origin
      /\ Dormant(heap) = {}
    BY NowIsReady DEF IInv
<1>4. /\ HeapInv(h, Both(Holders, One(s))) /\ Dormant(h) = {} /\ s \in Live(h) /\ s \in Storages
      /\ \A t \in Storages : /\ Keeps(m.heap, h, t) /\ h[t].refs >= m.heap[t].refs
                             /\ Inputs(h, t) \subseteq Inputs(heap, t) \cup {current[g]}
  <2>1. Dormant(Now.heap) = {}
    BY <1>3
  <2>2. /\ HeapInv(h, Both(Holders, One(s))) /\ Dormant(h) = {} /\ s \in Live(h) /\ s \in Storages
        /\ \A t \in Storages : /\ Keeps(m.heap, h, t) /\ h[t].refs >= m.heap[t].refs
                               /\ Inputs(h, t) \subseteq Inputs(Now.heap, t) \cup {current[g]}
    BY <1>2, <1>3, <1>d, <2>1, OwnSelected
  <2> QED BY <2>2, <1>3
<1>5. /\ HeapInv(heap', Both(Both(Holders, One(s)), One(s))) /\ Dormant(heap') = {}
      /\ \A t \in Storages : Keeps(h, heap', t) /\ heap'[t].refs >= h[t].refs
  <2>1. PICK x \in Counts : x = Both(Holders, One(s))
    <3>1. Both(Holders, One(s)) \in Counts
      BY <1>3 DEF Both, One, Counts
    <3> QED BY <3>1
  <2>2. h[s] # Blank
    BY <1>4, BlankCell DEF Live
  <2>3. HeapInv(h, x)
    BY <1>4, <2>1
  <2>4. /\ HeapInv(Retain(h, s), Both(x, One(s)))
        /\ Live(Retain(h, s)) = Live(h) \cup {s} /\ Dormant(Retain(h, s)) = Dormant(h) \ {s}
        /\ \A t \in Storages : Keeps(h, Retain(h, s), t) /\ Retain(h, s)[t].refs >= h[t].refs
    BY <1>4, <2>2, <2>3, RetainBalances
  <2> QED BY <2>1, <2>4, <1>1, <1>4
<1>6. \A t \in Storages : Holders'[t] = Both(Both(Holders, One(s)), One(s))[t]
  <2>1. current' = [current EXCEPT ![f] = s] /\ UNCHANGED <<cache, leaving, drains>>
    BY <1>1 DEF Opens
  <2> QED BY <1>1, <1>4, <2>1, HoldersJoin
<1>7. HeapInv(heap', Holders')
    BY <1>5, <1>6, SameCounts
<1>8. /\ Ready(m, Holders) /\ (\A t \in Storages : heap[t] # Blank => m.heap[t] = heap[t])
      /\ \A a \in Families : m.origin[a] \in {origin[a]} \cup S
    BY <1>2, <1>3 DEF Selection
<1>9. \A t \in Storages : Keeps(m.heap, heap', t) /\ heap'[t].refs >= m.heap[t].refs
  <2> SUFFICES ASSUME NEW t \in Storages PROVE Keeps(m.heap, heap', t) /\ heap'[t].refs >= m.heap[t].refs
    OBVIOUS
  <2>1. Keeps(m.heap, h, t) /\ h[t].refs >= m.heap[t].refs /\ Keeps(h, heap', t) /\ heap'[t].refs >= h[t].refs
    BY <1>4, <1>5
  <2>2. m.heap[t].refs \in Nat /\ h[t].refs \in Nat /\ heap'[t].refs \in Nat
    BY <1>4, <1>5, <1>8, CellFields DEF Ready, HeapInv
  <2> QED BY <2>1, <2>2 DEF Keeps
<1>10. Typed' /\ Named' /\ (\A a \in Families : Projected(a) # {} => open'[a] = open[a])
       /\ (queue # <<>> => queue' # <<>> /\ Head(queue') = Head(queue))
  <2>1. origin' \in Pointers
    BY <1>1, <1>8 DEF Reachable, Ready, Pointers
  <2> QED BY <1>1, <1>4, <2>1, OpensKeeps
<1>11. \A c \in Storages : Inputs(heap', c) \subseteq Inputs(heap, c) \cup S
  <2>1. \A c \in Storages : Inputs(heap', c) = Inputs(h, c)
    BY <1>5 DEF Keeps, Inputs
  <2> QED BY <2>1, <1>4
<1>12. \A t \in Storages \ S : Holders[t] = 0 => Holders'[t] = 0
  <2>1. \A t \in Storages \ S : One(s)[t] = 0 /\ Both(Both(Holders, One(s)), One(s))[t] = Holders[t] + One(s)[t] + One(s)[t]
    BY DEF One, Both
  <2> QED BY <2>1, <1>6
<1>13. cache' = cache /\ step' = step
    BY <1>1 DEF Opens
<1> HIDE DEF S
<1> QED BY <1>1, <1>2, <1>5, <1>7, <1>8, <1>9, <1>10, <1>11, <1>12, <1>13, CallKeeps

\* One more projected handle neither owns nor creates anything.
LEMMA ExpandIncomingKeeps ==
    ASSUME IInv, NEW f \in Families, NEW k \in Sizes, ExpandIncoming(f, k)
    PROVE  IInv'
<1>1. /\ "plain" \in open[f] /\ open' = [open EXCEPT ![f] = open[f] \cup {k}]
      /\ UNCHANGED <<current, origin, cache, heap, leaving, queue, step, drains>>
    BY DEF ExpandIncoming
<1>2. Typed /\ Named /\ CacheIsCurrent
    BY DEF IInv
<1>3. open' \in [Families -> SUBSET Handles] /\ \A g \in Families : open[g] \subseteq open'[g]
    BY <1>1, <1>2 DEF Typed, Handles
<1>4. Typed'
    BY <1>1, <1>2, <1>3 DEF Typed
<1>5. Named'
  <2>1. \A g \in Families : open'[g] = {} <=> open[g] = {}
    BY <1>1, <1>2 DEF Typed
  <2> QED BY <2>1, <1>1, <1>2 DEF Named
<1>6. CacheIsCurrent'
  <2> SUFFICES ASSUME NEW g \in Families, NEW s \in {origin[g], cache[g]} \ {None}
               PROVE  Projected(g)' # {} /\ heap[s].expands = {g}
    BY <1>1 DEF CacheIsCurrent
  <2>1. Projected(g) # {} /\ heap[s].expands = {g}
    BY <1>2 DEF CacheIsCurrent
  <2> QED BY <2>1, <1>3 DEF Projected
<1>7. Holders' = Holders
    BY <1>1 DEF Holders
<1> QED BY <1>1, <1>4, <1>5, <1>6, <1>7 DEF IInv

----------------------------------------------------------------------------
(* What releases owners: closing, returning from a write, retiring.         *)

\* A release that gives up exactly what its owners counted keeps the invariant.
LEMMA ReleaseKeeps ==
    ASSUME IInv, Typed', Named', NEW b \in Counts, heap' = Release(heap, b),
           \A t \in Storages : Holders[t] = Holders'[t] + b[t],
           NEW o, origin' = Reachable(o, heap'), \A f \in Families : o[f] \in {origin[f], None},
           \A f \in Families : cache'[f] \in {cache[f], None},
           \A f \in Families : Projected(f)' = {} => Projected(f) = {} \/ (o[f] = None /\ cache'[f] = None),
           step' = step, queue' = queue
    PROVE  IInv'
<1>1. /\ Holders \in Counts /\ HeapTyped(heap) /\ Dormant(heap) = {} /\ HeapInv(heap, Holders)
      /\ Typed /\ CacheIsCurrent /\ Program(heap, Holders, origin, step, queue)
      /\ step.slots \subseteq Storages
    BY NowIsReady DEF IInv
<1>2. PICK y \in Counts : y = Holders'
  <2>1. Holders' \in Counts
    BY HoldersAreCounts DEF Typed, Holders
  <2> QED BY <2>1
<1>3. PICK g : g = heap'
    OBVIOUS
<1>4. Balanced(heap, Both(y, b))
  <2>1. \A t \in Storages : Both(y, b)[t] = Holders[t]
    BY <1>2 DEF Both
  <2>2. Balanced(heap, Holders)
    BY <1>1 DEF HeapInv
  <2> QED BY <2>1, <2>2, SameCounts
<1>5. /\ HeapTyped(g) /\ Balanced(g, y) /\ Dormant(g) = {} /\ \A s \in Storages : Spared(heap, g, s)
  <2>1. PICK h : h = heap
    OBVIOUS
  <2>2. HeapTyped(h) /\ Balanced(h, Both(y, b)) /\ Dormant(h) = {} /\ g = Release(h, b)
    BY <1>1, <1>3, <1>4, <2>1
  <2>3. /\ HeapTyped(Release(h, b)) /\ Balanced(Release(h, b), y) /\ Dormant(Release(h, b)) = {}
        /\ \A s \in Storages : Spared(h, Release(h, b), s)
    BY <2>2, ReleaseBalances
  <2> QED BY <2>1, <2>2, <2>3
<1>6. HeapInv(g, y)
  <2>1. Computable(g)
    <3> SUFFICES ASSUME NEW s \in Storages, g[s] # Blank PROVE g[s].material # "none" \/ g[s].inputs # <<>>
      BY DEF Computable
    <3>1. Keeps(heap, g, s) /\ heap[s].refs > 0
      BY <1>5 DEF Spared, Live
    <3>2. heap[s] # Blank
      BY <3>1, BlankCell
    <3> QED BY <3>1, <3>2, <1>1 DEF HeapInv, Computable, Keeps
  <2> QED BY <2>1, <1>5 DEF HeapInv, Expansions
<1>7. \A f \in Families : origin'[f] \in {origin[f], None} /\ (origin'[f] # None => g[origin'[f]] # Blank /\ o[f] # None)
    BY <1>3 DEF Reachable
<1>8. CacheIsCurrent'
  <2> SUFFICES ASSUME NEW f \in Families, NEW s \in {origin'[f], cache'[f]} \ {None}
               PROVE  Projected(f)' # {} /\ g[s].expands = {f}
    BY <1>3 DEF CacheIsCurrent
  <2>1. s \in {origin[f], cache[f]} \ {None}
    BY <1>7
  <2>2. Projected(f) # {} /\ heap[s].expands = {f} /\ s \in Storages
    <3>1. origin[f] \in Storages \cup {None} /\ cache[f] \in Storages \cup {None}
      BY <1>1 DEF Typed, Pointers
    <3>2. s \in Storages
      BY <3>1, <2>1
    <3>3. Projected(f) # {} /\ heap[s].expands = {f}
      BY <2>1, <1>1 DEF CacheIsCurrent
    <3> QED BY <3>2, <3>3
  <2>3. Projected(f)' # {}
    BY <2>2, <1>7
  <2>4. g[s] # Blank
    <3>1. CASE s = origin'[f]
      BY <3>1, <1>7
    <3>2. CASE s = cache'[f]
      <4>1. y[s] > 0
        BY <3>2, <2>2, <1>2, HoldersCount DEF Typed, Holders
      <4>2. s \in Live(g)
        BY <4>1, <2>2, <1>5, OwnedIsLive
      <4> QED BY <4>2, BlankCell DEF Live
    <3> QED BY <3>1, <3>2
  <2> QED BY <2>2, <2>3, <2>4, <1>5 DEF Spared, Keeps
<1>9. Program(g, y, origin', step, queue)
  <2>1. step.at # "idle" => Head(queue) \in Storages /\ y[Head(queue)] > 0
    <3> SUFFICES ASSUME step.at # "idle" PROVE Head(queue) \in Storages /\ y[Head(queue)] > 0
      OBVIOUS
    <3>1. queue # <<>> /\ Head(queue) \in Storages
      BY <1>1 DEF Program, Typed
    <3>2. queue' # <<>> /\ Head(queue') = Head(queue)
      BY <3>1
    <3>3. Holders'[Head(queue)] > 0
      BY <3>1, <3>2, HoldersCount DEF Typed, Holders
    <3> QED BY <3>1, <3>3, <1>2
  <2>2. PICK h : h = heap
    OBVIOUS
  <2>3. \A s \in Storages : Holders[s] = 0 => y[s] = 0
    <3>1. \A s \in Storages : y[s] \in Nat /\ b[s] \in Nat /\ Holders[s] = y[s] + b[s]
      BY <1>2 DEF Counts
    <3> QED BY <3>1
  <2>4. \A f \in Families : origin'[f] \in {origin[f], None}
    BY <1>7
  <2>5. PICK p : p = origin'
    OBVIOUS
  <2>6. HeapTyped(h) /\ Balanced(h, Both(y, b)) /\ Dormant(h) = {} /\ Program(h, Holders, origin, step, queue)
        /\ g = Release(h, b) /\ \A f \in Families : p[f] \in {origin[f], None}
    BY <1>1, <1>3, <1>4, <2>2, <2>4, <2>5
  <2>7. Program(Release(h, b), y, p, step, queue)
    BY <1>1, <2>1, <2>3, <2>6, ReleaseProgram
  <2> QED BY <2>5, <2>6, <2>7
<1>10. Program(heap', Holders', origin', step', queue')
    BY <1>2, <1>3, <1>9
<1>11. HeapInv(heap', Holders') /\ Dormant(heap') = {}
    BY <1>2, <1>3, <1>5, <1>6
<1> QED BY <1>8, <1>10, <1>11 DEF IInv

\* The parts of the counts of a storage.
LEMMA HoldersAre ==
    ASSUME Typed, NEW t \in Storages
    PROVE  /\ Holders[t] = Held(current, t) + Held(cache, t) + Held(queue, t) + drains[t] + leaving[t]
           /\ Holders'[t] = Held(current', t) + Held(cache', t) + Held(queue', t) + drains'[t] + leaving'[t]
           /\ Held(current, t) \in Nat /\ Held(cache, t) \in Nat /\ Held(queue, t) \in Nat
           /\ drains[t] \in Nat /\ leaving[t] \in Nat
<1>1. /\ Holders[t] = Held(current, t) + Held(cache, t) + Held(queue, t) + drains[t] + leaving[t]
      /\ Holders'[t] = Held(current', t) + Held(cache', t) + Held(queue', t) + drains'[t] + leaving'[t]
    BY DEF Holders, HoldersOf
<1>2. /\ Held(current, t) \in Nat /\ Held(cache, t) \in Nat /\ Held(queue, t) \in Nat
      /\ drains[t] \in Nat /\ leaving[t] \in Nat
    BY HoldersAreCounts DEF Typed
<1> QED BY <1>1, <1>2

\* None owns nothing, and one reference is a count.
LEMMA OneCounts ==
    ASSUME NEW s, NEW t \in Storages
    PROVE  /\ One(s) \in Counts /\ One(s)[t] \in Nat /\ (s = t => One(s)[t] = 1) /\ (s # t => One(s)[t] = 0)
           /\ One(None)[t] = 0 /\ NoRefs[t] = 0 /\ NoRefs \in Counts
BY DEF One, None, Storages, NoRefs, Counts

\* A write gives up its predecessors when it returns.
LEMMA WriteReturnsKeeps ==
    ASSUME IInv, WriteReturns
    PROVE  IInv'
<1>1. /\ heap' = Release(heap, leaving) /\ origin' = Reachable(origin, heap') /\ leaving' = NoRefs
      /\ UNCHANGED <<current, open, cache, queue, step, drains>>
    BY DEF WriteReturns, Becomes
<1>2. Typed /\ Named
    BY DEF IInv
<1>3. NoRefs \in Counts
    BY DEF NoRefs, Counts
<1>4. Typed' /\ Named'
  <2>1. origin' \in Pointers
    BY <1>1, <1>2 DEF Reachable, Typed, Pointers
  <2> QED BY <2>1, <1>1, <1>2, <1>3 DEF Typed, Named
<1>5. \A t \in Storages : Holders[t] = Holders'[t] + leaving[t]
  <2> SUFFICES ASSUME NEW t \in Storages PROVE Holders[t] = Holders'[t] + leaving[t]
    OBVIOUS
  <2>1. leaving'[t] = 0
    BY <1>1 DEF NoRefs
  <2>2. /\ Held(current', t) = Held(current, t) /\ Held(cache', t) = Held(cache, t)
        /\ Held(queue', t) = Held(queue, t) /\ drains'[t] = drains[t]
    BY <1>1
  <2>3. /\ Holders[t] = Held(current, t) + Held(cache, t) + Held(queue, t) + drains[t] + leaving[t]
        /\ Holders'[t] = Held(current', t) + Held(cache', t) + Held(queue', t) + drains'[t] + leaving'[t]
        /\ Held(current, t) \in Nat /\ Held(cache, t) \in Nat /\ Held(queue, t) \in Nat
        /\ drains[t] \in Nat /\ leaving[t] \in Nat
    BY <1>2, HoldersAre
  <2> HIDE <1>1, <1>2
  <2> QED BY <2>1, <2>2, <2>3
<1>6. PICK b \in Counts : b = leaving
    BY <1>2 DEF Typed
<1>7. \A f \in Families : Projected(f)' = Projected(f)
    BY <1>1 DEF Projected
<1> QED BY <1>1, <1>4, <1>5, <1>6, <1>7, ReleaseKeeps

\* A drained request gives up its pin.
LEMMA RetireKeeps ==
    ASSUME IInv, NEW s \in Storages, Retire(s)
    PROVE  IInv'
<1>1. /\ heap' = Release(heap, One(s)) /\ origin' = Reachable(origin, heap') /\ drains[s] > 0
      /\ drains' = [drains EXCEPT ![s] = drains[s] - 1]
      /\ UNCHANGED <<current, open, cache, leaving, queue, step>>
    BY DEF Retire, Becomes
<1>2. Typed /\ Named
    BY DEF IInv
<1>3. drains' \in Counts /\ \A t \in Storages : drains[t] = drains'[t] + One(s)[t] /\ drains'[t] \in Nat
    BY <1>1, <1>2 DEF Typed, Counts, One
<1>4. Typed' /\ Named'
  <2>1. origin' \in Pointers
    BY <1>1, <1>2 DEF Reachable, Typed, Pointers
  <2> QED BY <2>1, <1>1, <1>2, <1>3 DEF Typed, Named
<1>5. \A t \in Storages : Holders[t] = Holders'[t] + One(s)[t]
  <2> SUFFICES ASSUME NEW t \in Storages PROVE Holders[t] = Holders'[t] + One(s)[t]
    OBVIOUS
  <2>1. drains[t] = drains'[t] + One(s)[t] /\ drains'[t] \in Nat /\ One(s)[t] \in Nat
    BY <1>3, OneCounts
  <2> QED BY <2>1, <1>1, <1>2, HoldersAre
<1>6. PICK b \in Counts : b = One(s)
    BY OneCounts
<1>7. \A f \in Families : Projected(f)' = Projected(f)
    BY <1>1 DEF Projected
<1> QED BY <1>1, <1>4, <1>5, <1>6, <1>7, ReleaseKeeps

\* #releaseIdentity, in either order of its effects.
LEMMA CloseKeeps ==
    ASSUME IInv, NEW f \in Families, NEW k \in open[f], Close(f, k)
    PROVE  IInv'
<1> DEFINE cached == k \in Sizes /\ Projected(f) = {k}
           last == open[f] = {k}
           c == IF cached THEN cache[f] ELSE None
           d == IF last THEN current[f] ELSE None
           o == [origin EXCEPT ![f] = IF cached THEN None ELSE origin[f]]
<1>1. /\ open' = [open EXCEPT ![f] = open[f] \ {k}]
      /\ cache' = [cache EXCEPT ![f] = IF cached THEN None ELSE cache[f]]
      /\ current' = [current EXCEPT ![f] = IF last THEN None ELSE current[f]]
      /\ heap' = Release(heap, Both(One(c), One(d))) /\ origin' = Reachable(o, heap')
      /\ UNCHANGED <<leaving, queue, step, drains>>
    BY DEF Close, Becomes
<1>2. Typed /\ Named
    BY DEF IInv
<1>3. o \in Pointers /\ cache' \in Pointers /\ current' \in Pointers /\ open' \in [Families -> SUBSET Handles]
    BY <1>1, <1>2 DEF Typed, Pointers
<1>4. Typed'
  <2>1. origin' \in Pointers
    BY <1>1, <1>3 DEF Reachable, Pointers
  <2> QED BY <2>1, <1>1, <1>2, <1>3 DEF Typed
<1>5. Named'
  <2> SUFFICES ASSUME NEW g \in Families PROVE current'[g] = None <=> open'[g] = {}
    BY DEF Named
  <2>1. CASE g = f
    <3>1. open'[f] = {} <=> last
      BY <1>1, <1>2 DEF Typed
    <3>2. current[f] # None
      BY <1>2 DEF Named
    <3> QED BY <3>1, <3>2, <2>1, <1>1, <1>2 DEF Typed, Pointers
  <2>2. CASE g # f
    BY <2>2, <1>1, <1>2 DEF Typed, Named, Pointers
  <2> QED BY <2>1, <2>2
<1>6. \A t \in Storages : Holders[t] = Holders'[t] + Both(One(c), One(d))[t]
  <2> SUFFICES ASSUME NEW t \in Storages PROVE Holders[t] = Holders'[t] + Both(One(c), One(d))[t]
    OBVIOUS
  <2>1. Held(cache, t) = Held(cache', t) + One(c)[t] /\ Held(cache', t) \in Nat
    <3> DEFINE v == IF cached THEN None ELSE cache[f]
    <3>1. v \in Storages \cup {None} /\ cache \in Pointers
      BY <1>2 DEF Typed, Pointers
    <3>2. One(c)[t] + One(v)[t] = One(cache[f])[t] /\ One(v)[t] \in Nat
      BY OneCounts
    <3>3. cache' = [cache EXCEPT ![f] = v]
      BY <1>1
    <3> HIDE DEF v, c
    <3>4. /\ Held(cache, t) \in Nat /\ Held([cache EXCEPT ![f] = v], t) \in Nat
          /\ Held([cache EXCEPT ![f] = v], t) + One(cache[f])[t] = Held(cache, t) + One(v)[t]
      BY <3>1, HeldByFamilies
    <3>5. One(c)[t] \in Nat
      BY OneCounts
    <3> QED BY <3>2, <3>3, <3>4, <3>5
  <2>2. Held(current, t) = Held(current', t) + One(d)[t] /\ Held(current', t) \in Nat
    <3> DEFINE v == IF last THEN None ELSE current[f]
    <3>1. v \in Storages \cup {None} /\ current \in Pointers
      BY <1>2 DEF Typed, Pointers
    <3>2. One(d)[t] + One(v)[t] = One(current[f])[t] /\ One(v)[t] \in Nat
      BY OneCounts
    <3>3. current' = [current EXCEPT ![f] = v]
      BY <1>1
    <3> HIDE DEF v, d
    <3>4. /\ Held(current, t) \in Nat /\ Held([current EXCEPT ![f] = v], t) \in Nat
          /\ Held([current EXCEPT ![f] = v], t) + One(current[f])[t] = Held(current, t) + One(v)[t]
      BY <3>1, HeldByFamilies
    <3>5. One(d)[t] \in Nat
      BY OneCounts
    <3> QED BY <3>2, <3>3, <3>4, <3>5
  <2>3. Both(One(c), One(d))[t] = One(c)[t] + One(d)[t] /\ One(c)[t] \in Nat /\ One(d)[t] \in Nat
    BY OneCounts DEF Both
  <2>4. /\ Holders[t] = Held(current, t) + Held(cache, t) + Held(queue, t) + drains[t] + leaving[t]
        /\ Holders'[t] = Held(current', t) + Held(cache', t) + Held(queue', t) + drains'[t] + leaving'[t]
        /\ Held(queue, t) \in Nat /\ drains[t] \in Nat /\ leaving[t] \in Nat
    BY <1>2, HoldersAre
  <2>5. Held(queue', t) = Held(queue, t) /\ drains'[t] = drains[t] /\ leaving'[t] = leaving[t]
    BY <1>1
  <2> HIDE DEF c, d
  <2> QED BY ONLY <2>1, <2>2, <2>3, <2>4, <2>5
<1>7. ASSUME NEW g \in Families, Projected(g)' = {}
      PROVE  Projected(g) = {} \/ (o[g] = None /\ cache'[g] = None)
  <2>1. CASE g = f
    <3> SUFFICES ASSUME Projected(f) # {} PROVE o[f] = None /\ cache'[f] = None
      BY <2>1
    <3>1. (open[f] \ {k}) \ {"plain"} = {}
      BY <1>1, <1>2, <1>7, <2>1 DEF Projected, Typed
    <3>2. Projected(f) = {k} /\ k # "plain"
      BY <3>1 DEF Projected
    <3>3. cached
      BY <3>2, <1>2 DEF Typed, Handles
    <3> QED BY <3>3, <1>1, <1>2 DEF Typed, Pointers
  <2>2. CASE g # f
    <3>1. open'[g] = open[g]
      BY <2>2, <1>1, <1>2 DEF Typed
    <3> QED BY <3>1, <1>7 DEF Projected
  <2> QED BY <2>1, <2>2
<1>8. \A g \in Families : o[g] \in {origin[g], None} /\ cache'[g] \in {cache[g], None}
    BY <1>1, <1>2 DEF Typed, Pointers
<1>9. PICK b \in Counts : b = Both(One(c), One(d))
  <2>1. Both(One(c), One(d)) \in Counts
    BY DEF Both, One, Counts
  <2> QED BY <2>1
<1>10. PICK p : p = o
    OBVIOUS
<1>11. /\ heap' = Release(heap, b) /\ origin' = Reachable(p, heap') /\ step' = step /\ queue' = queue
       /\ \A t \in Storages : Holders[t] = Holders'[t] + b[t]
       /\ \A g \in Families : p[g] \in {origin[g], None} /\ cache'[g] \in {cache[g], None}
       /\ \A g \in Families : Projected(g)' = {} => Projected(g) = {} \/ (p[g] = None /\ cache'[g] = None)
    BY <1>1, <1>6, <1>7, <1>8, <1>9, <1>10
<1> HIDE DEF o, c, d
<1> QED BY <1>4, <1>5, <1>11, ReleaseKeeps

----------------------------------------------------------------------------
(* Writes.                                                                  *)

\* A family forgets its expansions: nothing else changes.
LEMMA UnexpandedKeeps ==
    ASSUME NEW h, NEW x, HeapInv(h, x), Dormant(h) = {}, NEW f \in Families, NEW g, g = Unexpanded(h, f)
    PROVE  /\ HeapInv(g, x) /\ Dormant(g) = {} /\ Live(g) = Live(h)
           /\ \A t \in Storages : /\ g[t].refs = h[t].refs /\ g[t].inputs = h[t].inputs /\ g[t].material = h[t].material
                                  /\ g[t].expands = h[t].expands \ {f}
<1>1. HeapTyped(h) /\ h \in [Storages -> Cells]
    BY DEF HeapInv, HeapTyped
<1>2. ASSUME NEW t \in Storages
      PROVE  /\ g[t] \in Cells /\ g[t].refs = h[t].refs /\ g[t].inputs = h[t].inputs /\ g[t].material = h[t].material
             /\ g[t].shape = h[t].shape /\ g[t].expands = h[t].expands \ {f} /\ (h[t] = Blank => g[t] = Blank)
  <2>1. PICK c \in Cells : c = h[t]
    BY <1>1
  <2>2. g[t] = [c EXCEPT !.expands = c.expands \ {f}]
    BY <2>1 DEF Unexpanded
  <2>3. c.expands \ {f} \in {{}} \cup {{e} : e \in Families}
    <3>1. c.expands \in {{}} \cup {{e} : e \in Families}
      BY DEF Cells
    <3>2. CASE c.expands = {}
      BY <3>2
    <3>3. ASSUME NEW e \in Families, c.expands = {e} PROVE c.expands \ {f} \in {{}} \cup {{a} : a \in Families}
      <4>1. CASE e = f
        BY <3>3, <4>1
      <4>2. CASE e # f
        <5>1. c.expands \ {f} = {e}
          BY <3>3, <4>2
        <5> QED BY <5>1
      <4> QED BY <4>1, <4>2
    <3> QED BY <3>1, <3>2, <3>3
  <2>4. PICK n \in {{}} \cup {{e} : e \in Families} : n = c.expands \ {f}
    BY <2>3
  <2>5. g[t] = [c EXCEPT !.expands = n]
    BY <2>2, <2>4
  <2>6. /\ g[t] \in Cells /\ g[t].refs = c.refs /\ g[t].inputs = c.inputs /\ g[t].material = c.material
        /\ g[t].shape = c.shape /\ g[t].expands = n
    BY <2>5 DEF Cells
  <2>7. c = Blank => g[t] = Blank
    <3> SUFFICES ASSUME c = Blank PROVE g[t] = c
      OBVIOUS
    <3>1. n = c.expands
      BY <2>4, BlankCell
    <3> QED BY <2>6, <3>1, CellsEqual
  <2> QED BY <2>1, <2>4, <2>6, <2>7
<1>3. HeapTyped(g)
  <2>1. g = [t \in Storages |-> g[t]]
    BY DEF Unexpanded
  <2> QED BY <2>1, <1>1, <1>2 DEF HeapTyped
<1>4. Live(g) = Live(h) /\ Balanced(g, x)
  <2>1. \A s \in Live(h) : g[s].inputs = h[s].inputs
    BY <1>2 DEF Live
  <2> QED BY <1>2, <2>1, BalanceDepends DEF HeapInv
<1>5. Dormant(g) = {}
  <2> SUFFICES ASSUME NEW s \in Storages, g[s].refs = 0 PROVE g[s] = Blank
    BY DEF Dormant
  <2>1. h[s] = Blank
    BY <1>2 DEF Dormant
  <2> QED BY <2>1, <1>2
<1>6. Computable(g)
  <2> SUFFICES ASSUME NEW s \in Storages, g[s] # Blank PROVE g[s].material # "none" \/ g[s].inputs # <<>>
    BY DEF Computable
  <2>1. h[s] # Blank
    BY <1>2
  <2> QED BY <2>1, <1>2 DEF HeapInv, Computable
<1>7. Expansions(g)
    BY <1>5 DEF Expansions
<1> QED BY <1>2, <1>3, <1>4, <1>5, <1>6, <1>7 DEF HeapInv

\* What a write may publish: next, with a capture of captured, from m.
Publishes(m, next, captured, S) ==
    /\ Ready(m, Holders) /\ \A t \in Storages : heap[t] # Blank => m.heap[t] = heap[t]
    /\ next \in Live(m.heap) /\ captured \in Storages /\ m.heap[captured] # Blank
    /\ Dormant(m.heap) \subseteq {captured}
    /\ Selects(heap, Holders, origin, S) /\ next \in S /\ captured \in S
    /\ \A c \in Storages : Inputs(m.heap, c) \subseteq Inputs(heap, c) \cup S
    /\ \A e \in Families : m.origin[e] \in {origin[e]} \cup S

\* The heap a write leaves.
LEMMA WrittenHeap ==
    ASSUME NEW x \in Counts, NEW m, HeapInv(m, x), NEW next \in Live(m), NEW captured \in Storages, m[captured] # Blank,
           Dormant(m) \subseteq {captured}, NEW f \in Families,
           NEW g, g = Unexpanded(Retain(Owned(m, next), captured), f)
    PROVE  /\ HeapInv(g, Both(Both(x, One(next)), One(captured))) /\ Dormant(g) = {} /\ Live(m) \subseteq Live(g)
           /\ \A t \in Storages : /\ g[t].inputs = m[t].inputs /\ g[t].material = m[t].material
                                  /\ g[t].expands = m[t].expands \ {f}
<1> DEFINE n == Owned(m, next)
           r == Retain(n, captured)
<1>1. /\ HeapInv(n, Both(x, One(next))) /\ Live(n) = Live(m) /\ Dormant(n) = Dormant(m)
      /\ \A t \in Storages : /\ Keeps(m, n, t) /\ n[t].refs >= m[t].refs
                             /\ t # next => n[t] = m[t]
  <2>1. HeapInv(Owned(m, next), Both(x, One(next))) /\ Live(Owned(m, next)) = Live(m) /\ Dormant(Owned(m, next)) = Dormant(m)
    BY OwnBalances
  <2>2. ASSUME NEW t \in Storages
        PROVE  /\ Keeps(m, Owned(m, next), t) /\ Owned(m, next)[t].refs >= m[t].refs
               /\ t # next => Owned(m, next)[t] = m[t]
    <3>1. HeapTyped(m) /\ next \in Storages
      BY DEF HeapInv, Live
    <3> QED BY <3>1, OwnKeeps, Zenon
  <2> QED BY <2>1, <2>2
<1>2. PICK y \in Counts : y = Both(x, One(next))
  <2>1. Both(x, One(next)) \in Counts
    BY DEF Both, One, Counts
  <2> QED BY <2>1
<1>d. g = Unexpanded(r, f) /\ r = Retain(n, captured)
    OBVIOUS
<1> HIDE DEF n, r
<1>3. n[captured] # Blank
  <2>1. CASE captured = next
    BY <2>1, <1>1, BlankCell DEF Live
  <2>2. CASE captured # next
    BY <2>2, <1>1
  <2> QED BY <2>1, <2>2
<1>4. /\ HeapInv(r, Both(y, One(captured)))
      /\ Live(r) = Live(n) \cup {captured} /\ Dormant(r) = Dormant(n) \ {captured}
      /\ \A t \in Storages : Keeps(n, r, t)
  <2>1. HeapInv(n, y)
    BY <1>1, <1>2
  <2> QED BY <1>3, <1>d, <2>1, RetainBalances
<1>5. Dormant(r) = {}
    BY <1>1, <1>4
<1>6. PICK z : z = Both(y, One(captured))
    OBVIOUS
<1>7. /\ HeapInv(g, z) /\ Dormant(g) = {} /\ Live(g) = Live(r)
      /\ \A t \in Storages : /\ g[t].inputs = r[t].inputs /\ g[t].material = r[t].material
                             /\ g[t].expands = r[t].expands \ {f}
  <2>1. HeapInv(r, z)
    BY <1>4, <1>6
  <2> QED BY <1>5, <1>d, <2>1, UnexpandedKeeps
<1>8. \A t \in Storages : /\ g[t].inputs = m[t].inputs /\ g[t].material = m[t].material
                          /\ g[t].expands = m[t].expands \ {f}
  <2> SUFFICES ASSUME NEW t \in Storages
               PROVE  /\ g[t].inputs = m[t].inputs /\ g[t].material = m[t].material
                      /\ g[t].expands = m[t].expands \ {f}
    OBVIOUS
  <2>1. Keeps(m, n, t) /\ Keeps(n, r, t)
    BY <1>1, <1>4
  <2>2. g[t].inputs = r[t].inputs /\ g[t].material = r[t].material /\ g[t].expands = r[t].expands \ {f}
    BY <1>7
  <2> QED BY <2>1, <2>2 DEF Keeps
<1> QED BY <1>1, <1>2, <1>4, <1>6, <1>7, <1>8

\* What a write gives up it still owns, until it returns.
LEMMA WriteHolders ==
    ASSUME Typed, leaving = NoRefs, NEW f \in Families, NEW next \in Storages, NEW captured \in Storages,
           current' = [current EXCEPT ![f] = next], cache' = [cache EXCEPT ![f] = None],
           leaving' = Both(One(cache[f]), One(current[f])), queue' = Append(queue, captured), drains' = drains,
           NEW t \in Storages
    PROVE  Holders'[t] = Holders[t] + One(next)[t] + One(captured)[t]
<1>1. /\ Holders[t] = Held(current, t) + Held(cache, t) + Held(queue, t) + drains[t] + leaving[t]
      /\ Holders'[t] = Held(current', t) + Held(cache', t) + Held(queue', t) + drains'[t] + leaving'[t]
      /\ Held(current, t) \in Nat /\ Held(cache, t) \in Nat /\ Held(queue, t) \in Nat /\ drains[t] \in Nat
    BY HoldersAre
<1>2. Held(current', t) \in Nat /\ Held(current', t) + One(current[f])[t] = Held(current, t) + One(next)[t]
  <2>1. current \in Pointers /\ next \in Storages \cup {None}
    BY DEF Typed
  <2>2. /\ Held([current EXCEPT ![f] = next], t) \in Nat
        /\ Held([current EXCEPT ![f] = next], t) + One(current[f])[t] = Held(current, t) + One(next)[t]
    BY <2>1, HeldByFamilies
  <2> QED BY <2>2
<1>3. Held(cache', t) \in Nat /\ Held(cache', t) + One(cache[f])[t] = Held(cache, t) + One(None)[t]
  <2>1. cache \in Pointers /\ None \in Storages \cup {None}
    BY DEF Typed
  <2>2. /\ Held([cache EXCEPT ![f] = None], t) \in Nat
        /\ Held([cache EXCEPT ![f] = None], t) + One(cache[f])[t] = Held(cache, t) + One(None)[t]
    BY <2>1, HeldByFamilies
  <2> QED BY <2>2
<1>4. Held(queue', t) = Held(queue, t) + One(captured)[t]
    BY HeldByQueue DEF Typed
<1>5. leaving'[t] = One(cache[f])[t] + One(current[f])[t]
    BY DEF Both
<1>6. leaving[t] = 0 /\ One(None)[t] = 0 /\ drains'[t] = drains[t]
    BY OneCounts
<1>7. One(cache[f])[t] \in Nat /\ One(current[f])[t] \in Nat /\ One(next)[t] \in Nat /\ One(captured)[t] \in Nat
    BY OneCounts
<1>8. /\ Holders[t] = Held(current, t) + Held(cache, t) + Held(queue, t) + drains[t]
      /\ Holders'[t] = Held(current', t) + Held(cache', t) + (Held(queue, t) + One(captured)[t]) + drains[t]
                      + (One(cache[f])[t] + One(current[f])[t])
      /\ Held(cache', t) + One(cache[f])[t] = Held(cache, t)
    BY ONLY <1>1, <1>3, <1>4, <1>5, <1>6
<1> QED BY ONLY <1>1, <1>2, <1>3, <1>7, <1>8

\* #write publishes a new current value and enqueues its effect.
LEMMA WriteKeeps ==
    ASSUME IInv, leaving = NoRefs, NEW f \in Families, open[f] # {},
           NEW m, NEW next, NEW captured, NEW S, Publishes(m, next, captured, S), Write(f, next, captured, m)
    PROVE  IInv'
<1> DEFINE o == [m.origin EXCEPT ![f] = None]
<1>1. /\ heap' = Unexpanded(Retain(Owned(m.heap, next), captured), f) /\ origin' = Reachable(o, heap')
      /\ current' = [current EXCEPT ![f] = next] /\ cache' = [cache EXCEPT ![f] = None]
      /\ leaving' = Both(One(cache[f]), One(current[f])) /\ queue' = Append(queue, captured)
      /\ UNCHANGED <<open, step, drains>>
    BY DEF Write, Becomes, Accepts, Owned
<1>2. /\ Ready(m, Holders) /\ (\A t \in Storages : heap[t] # Blank => m.heap[t] = heap[t])
      /\ next \in Live(m.heap) /\ next \in Storages /\ captured \in Storages /\ m.heap[captured] # Blank
      /\ Dormant(m.heap) \subseteq {captured}
      /\ Selects(heap, Holders, origin, S) /\ next \in S /\ captured \in S
      /\ (\A c \in Storages : Inputs(m.heap, c) \subseteq Inputs(heap, c) \cup S)
      /\ (\A e \in Families : m.origin[e] \in {origin[e]} \cup S)
    BY DEF Publishes, Live
<1>3. /\ Holders \in Counts /\ HeapTyped(heap) /\ Typed /\ Named /\ Dormant(heap) = {}
      /\ (\A t \in Storages : heap[t] # Blank <=> t \in Live(heap))
      /\ step.slots \subseteq Storages /\ (step.at # "idle" => Head(queue) \in Live(heap))
      /\ Program(heap, Holders, origin, step, queue) /\ CacheIsCurrent
    BY NowIsReady DEF IInv
<1>4. PICK g : g = heap'
    OBVIOUS
<1>5. PICK a : a = m.heap
    OBVIOUS
<1>6. PICK x \in Counts : x = Holders
    BY <1>3
<1>7. /\ HeapInv(g, Both(Both(x, One(next)), One(captured))) /\ Dormant(g) = {} /\ Live(a) \subseteq Live(g)
      /\ \A t \in Storages : /\ g[t].inputs = a[t].inputs /\ g[t].material = a[t].material
                             /\ g[t].expands = a[t].expands \ {f}
  <2>1. /\ HeapInv(a, x) /\ next \in Live(a) /\ a[captured] # Blank /\ Dormant(a) \subseteq {captured}
        /\ g = Unexpanded(Retain(Owned(a, next), captured), f)
    BY <1>1, <1>2, <1>4, <1>5, <1>6 DEF Ready
  <2> QED BY <2>1, <1>2, WrittenHeap
<1>8. \A t \in Storages : Holders'[t] = Holders[t] + One(next)[t] + One(captured)[t]
    BY <1>1, <1>2, <1>3, WriteHolders
<1>9. HeapInv(g, Holders')
  <2>1. \A t \in Storages : Holders'[t] = Both(Both(x, One(next)), One(captured))[t]
    BY <1>6, <1>8 DEF Both
  <2> QED BY <2>1, <1>7, SameCounts
<1>10. o \in Pointers /\ origin' \in Pointers /\ \A e \in Families : origin'[e] \in {o[e], None}
  <2>1. o \in Pointers
    BY <1>2 DEF Ready, Pointers
  <2> QED BY <2>1, <1>1 DEF Reachable, Pointers
<1>11. Typed' /\ Named' /\ queue' # <<>> /\ (queue # <<>> => Head(queue') = Head(queue))
  <2>1. queue' \in Seq(Storages) /\ queue' # <<>> /\ (queue # <<>> => Head(queue') = Head(queue))
    BY <1>1, <1>2, <1>3, AppendProperties, HeadTailAppend DEF Typed
  <2>2. leaving' \in Counts
    BY <1>1 DEF Both, One, Counts
  <2>3. current' \in Pointers /\ cache' \in Pointers
    BY <1>1, <1>2, <1>3 DEF Typed, Pointers
  <2>4. Named'
    <3> SUFFICES ASSUME NEW e \in Families PROVE current'[e] = None <=> open'[e] = {}
      BY DEF Named
    <3>1. next # None
      BY <1>2 DEF None, Storages
    <3> QED BY <3>1, <1>1, <1>3 DEF Typed, Named, Pointers
  <2> QED BY <2>1, <2>2, <2>3, <2>4, <1>1, <1>3, <1>10 DEF Typed
<1>12. CacheIsCurrent'
  <2> SUFFICES ASSUME NEW e \in Families, NEW s \in {origin'[e], cache'[e]} \ {None}
               PROVE  Projected(e)' # {} /\ g[s].expands = {e}
    BY <1>4 DEF CacheIsCurrent
  <2>1. e # f
    BY <1>1, <1>2, <1>3, <1>10 DEF Typed, Ready, Pointers
  <2>2. s \in Storages /\ Projected(e) # {} /\ a[s].expands = {e}
    <3>1. CASE s = origin'[e]
      <4>1. s = m.origin[e] /\ m.origin[e] \in Storages
        BY <2>1, <3>1, <1>2, <1>10 DEF Ready, Pointers
      <4> QED BY <4>1, <1>2, <1>5 DEF Ready
    <3>2. CASE s = cache'[e]
      <4>1. s = cache[e] /\ s \in Storages
        BY <2>1, <3>2, <1>1, <1>3 DEF Typed, Pointers
      <4>2. Projected(e) # {} /\ heap[s].expands = {e}
        BY <4>1, <1>3 DEF CacheIsCurrent
      <4>3. heap[s] # Blank
        BY <4>2, BlankCell
      <4> QED BY <4>1, <4>2, <4>3, <1>2, <1>5
    <3> QED BY <3>1, <3>2
  <2>3. g[s].expands = {e}
    BY <2>1, <2>2, <1>7
  <2>4. Projected(e)' = Projected(e)
    BY <1>1 DEF Projected
  <2> QED BY <2>2, <2>3, <2>4
<1>13. Program(g, Holders', origin', step, queue')
  <2>1. \A s \in Live(heap) : Goes(heap, g, s)
    <3> SUFFICES ASSUME NEW s \in Live(heap) PROVE Goes(heap, g, s)
      OBVIOUS
    <3>1. s \in Storages /\ a[s] = heap[s] /\ s \in Live(a)
      BY <1>2, <1>3, <1>5 DEF Live
    <3> QED BY <3>1, <1>7 DEF Goes
  <2>2. \A c \in Storages : Inputs(g, c) \subseteq Inputs(heap, c) \cup S
    <3>1. \A c \in Storages : Inputs(g, c) = Inputs(a, c)
      BY <1>7 DEF Inputs
    <3> QED BY <3>1, <1>2, <1>5
  <2>3. \A s \in Storages \ S : Holders[s] = 0 => Holders'[s] = 0
    <3> SUFFICES ASSUME NEW s \in Storages \ S, Holders[s] = 0 PROVE Holders'[s] = 0
      OBVIOUS
    <3>1. One(next)[s] = 0 /\ One(captured)[s] = 0
      BY <1>2, OneCounts
    <3> QED BY <3>1, <1>8
  <2>4. \A e \in Families : origin'[e] \in {origin[e], None} \cup S
    <3> SUFFICES ASSUME NEW e \in Families PROVE origin'[e] \in {origin[e], None} \cup S
      OBVIOUS
    <3>1. o[e] \in {m.origin[e], None}
      BY <1>2 DEF Ready, Pointers
    <3> QED BY <3>1, <1>2, <1>10
  <2>5. queue # <<>> => queue' # <<>> /\ Head(queue') = Head(queue)
    BY <1>11
  <2>6. PICK y, p, q : y = Holders' /\ p = origin' /\ q = queue'
    OBVIOUS
  <2>7. PICK h : h = heap
    OBVIOUS
  <2>8. /\ Program(h, x, origin, step, queue) /\ step.slots \subseteq Storages
        /\ (step.at # "idle" => Head(queue) \in Live(h))
        /\ (queue # <<>> => q # <<>> /\ Head(q) = Head(queue))
        /\ (\A s \in Live(h) : Goes(h, g, s)) /\ Selects(h, x, origin, S)
        /\ (\A c \in Storages : Inputs(g, c) \subseteq Inputs(h, c) \cup S)
        /\ (\A s \in Storages \ S : x[s] = 0 => y[s] = 0)
        /\ (\A e \in Families : p[e] \in {origin[e], None} \cup S)
    BY <2>1, <2>2, <2>3, <2>4, <2>5, <2>6, <2>7, <1>2, <1>3, <1>6
  <2>9. Program(g, y, p, step, q)
    BY <2>8, GrowProgram
  <2> QED BY <2>6, <2>9
<1>14. Program(heap', Holders', origin', step', queue')
    BY <1>1, <1>4, <1>13
<1>15. HeapInv(heap', Holders') /\ Dormant(heap') = {}
    BY <1>4, <1>7, <1>9
<1> QED BY <1>11, <1>12, <1>14, <1>15 DEF IInv

\* What was selected can be published.
LEMMA SelectedIsPublished ==
    ASSUME IInv, NEW g \in Families, NEW m, NEW j, NEW s, Selection(Now, m, Holders, g, j, s),
           NEW S, Selects(heap, Holders, origin, S), current[g] \in S, s \in S, NEW next \in S, next \in Live(m.heap)
    PROVE  Publishes(m, next, s, S)
<1>1. Now.heap = heap /\ Now.origin = origin /\ Dormant(heap) = {}
    BY NowIsReady DEF IInv
<1>2. /\ Ready(m, Holders) /\ (\A t \in Storages : heap[t] # Blank => m.heap[t] = heap[t])
      /\ s \in Storages /\ s \in Live(m.heap) \cup Dormant(m.heap) /\ Dormant(m.heap) \subseteq {s}
      /\ (\A c \in Storages : Inputs(m.heap, c) \subseteq Inputs(heap, c) \cup {current[g]})
      /\ (\A e \in Families : e # g => m.origin[e] = origin[e]) /\ m.origin[g] \in {origin[g], s}
    BY <1>1 DEF Selection
<1>3. m.heap[s] # Blank
    BY <1>2, BlankCell DEF Live, Dormant
<1>4. \A e \in Families : m.origin[e] \in {origin[e]} \cup S
    BY <1>2
<1>5. \A c \in Storages : Inputs(m.heap, c) \subseteq Inputs(heap, c) \cup S
    BY <1>2
<1> QED BY <1>2, <1>3, <1>4, <1>5 DEF Publishes

\* A copy publishes the storage of its source, if that is owned.
LEMMA CopyKeeps ==
    ASSUME IInv, leaving = NoRefs, CopiesProjections = FALSE, NEW f \in Families, NEW k \in open[f],
           NEW g \in Families, NEW j \in open[g], Copy(f, k, g, j)
    PROVE  IInv'
<1> DEFINE m == ScalarProjection(Now, g, j)
           s == Selected(m, g, j)
           S == {current[g], s}
<1>1. Room(heap) >= MissingOne(g, j) /\ m.heap[s].refs > 0 /\ Write(f, s, s, m)
    BY DEF Copy, MissingOne
<1>d. m = ScalarProjection(Now, g, j) /\ s = Selected(m, g, j) /\ open[f] # {}
    OBVIOUS
<1> HIDE DEF m, s
<1>2. Selection(Now, m, Holders, g, j, s) /\ Selects(heap, Holders, origin, S)
    BY <1>1, <1>d, SelectNow
<1>3. s \in Live(m.heap)
    BY <1>1, <1>2 DEF Live, Selection
<1>4. current[g] \in S /\ s \in S
    OBVIOUS
<1> HIDE DEF S
<1>5. Publishes(m, s, s, S)
    BY <1>2, <1>3, <1>4, SelectedIsPublished
<1> QED BY <1>1, <1>d, <1>5, WriteKeeps

\* A projection copied onto itself publishes what is current already.
LEMMA CopySelfKeeps ==
    ASSUME IInv, leaving = NoRefs, NEW f \in Families, CopySelf(f)
    PROVE  IInv'
<1> DEFINE S == {current[f]}
<1>1. "many" \in open[f] /\ Write(f, current[f], current[f], Now)
    BY DEF CopySelf
<1>2. current[f] \in Storages /\ current[f] \in Live(heap) /\ Holders[current[f]] > 0
    BY <1>1, OpenIsLive
<1>3. Ready(Now, Holders) /\ Now.heap = heap /\ Now.origin = origin /\ Dormant(heap) = {}
    BY NowIsReady DEF IInv
<1>4. heap[current[f]] # Blank
    BY <1>2, BlankCell DEF Live
<1>5. Selects(heap, Holders, origin, S)
    BY <1>2 DEF Selects
<1>6. Publishes(Now, current[f], current[f], S)
    BY <1>2, <1>3, <1>4, <1>5 DEF Publishes
<1>7. open[f] # {}
    BY <1>1
<1> HIDE DEF S
<1> QED BY <1>1, <1>6, <1>7, WriteKeeps

\* An empty copy publishes what is current, with a capture of its source.
LEMMA CopyEmptyKeeps ==
    ASSUME IInv, leaving = NoRefs, NEW f \in Families, NEW g \in Families, NEW j \in open[g], CopyEmpty(f, g, j)
    PROVE  IInv'
<1> DEFINE m == ScalarProjection(Now, g, j)
           s == Selected(m, g, j)
           S == {current[f], current[g], s}
<1>1. "empty" \in open[f] /\ Room(heap) >= MissingOne(g, j) /\ Write(f, current[f], s, m)
    BY DEF CopyEmpty, MissingOne
<1>d. m = ScalarProjection(Now, g, j) /\ s = Selected(m, g, j) /\ open[f] # {}
    BY <1>1
<1> HIDE DEF m, s
<1>2. Selection(Now, m, Holders, g, j, s) /\ Selects(heap, Holders, origin, {current[g], s})
    BY <1>1, <1>d, SelectNow
<1>3. current[f] \in Live(heap) /\ Holders[current[f]] > 0
    BY <1>1, OpenIsLive
<1>4. Selects(heap, Holders, origin, S)
    BY <1>2, <1>3 DEF Selects
<1>5. current[f] \in Live(m.heap)
  <2>1. Live(m.heap) = Live(heap)
    BY <1>2, NowIsReady DEF Selection
  <2> QED BY <2>1, <1>3
<1>6. current[f] \in S /\ current[g] \in S /\ s \in S
    OBVIOUS
<1> HIDE DEF S
<1>7. Publishes(m, current[f], s, S)
    BY <1>2, <1>4, <1>5, <1>6, SelectedIsPublished
<1> QED BY <1>1, <1>d, <1>7, WriteKeeps

----------------------------------------------------------------------------
(* The queue: forming a program, and concluding a request.                  *)

\* What a group of slots needs besides.
Near(d) == d \cup UNION {Inputs(heap, c) : c \in {e \in d : Computes(e)}}

\* One round further: the inputs of the slots that compute.
LEMMA NearMeans ==
    ASSUME NEW d, NEW t
    PROVE  t \in Near(d) <=> t \in d \/ \E c \in d : Computes(c) /\ t \in Inputs(heap, c)
BY DEF Near

ClosureRounds(s, g) ==
    /\ g \in [0..MaxStorages -> SUBSET Storages]
    /\ g[0] = {s} /\ g[MaxStorages] = Closure(s)
    /\ \A n \in 1..MaxStorages : g[n] = Near(g[n - 1])

\* The slots of a program are found in rounds.
LEMMA ClosureInRounds ==
    ASSUME HeapTyped(heap), NEW s \in Storages
    PROVE  \E g : ClosureRounds(s, g)
<1> DEFINE F == [d \in SUBSET Storages |-> Near(d)]
           P(g) == g = [n \in 0..MaxStorages |-> IF n = 0 THEN {s} ELSE Near(g[n - 1])]
           r == CHOOSE g : P(g)
<1>1. MaxStorages \in Nat
    BY BoundsAssumption
<1>n. \A d \in SUBSET Storages : Near(d) \in SUBSET Storages
    BY NearMeans, CellFields
<1>2. F \in [SUBSET Storages -> SUBSET Storages]
    BY <1>n
<1>3. \E g : Iterates(Storages, F, {s}, MaxStorages, g)
  <2> HIDE DEF F
  <2>1. {s} \in SUBSET Storages
    OBVIOUS
  <2> QED BY <2>1, <1>1, <1>2, RoundsExist
<1>4. PICK g : /\ g \in [0..MaxStorages -> SUBSET Storages] /\ g[0] = {s}
               /\ \A n \in 1..MaxStorages : g[n] = F[g[n - 1]]
    BY <1>3 DEF Iterates
<1>5. P(g)
  <2>1. \A n \in 0..MaxStorages : g[n] = IF n = 0 THEN {s} ELSE Near(g[n - 1])
    <3> SUFFICES ASSUME NEW n \in 0..MaxStorages PROVE g[n] = IF n = 0 THEN {s} ELSE Near(g[n - 1])
      OBVIOUS
    <3>1. CASE n = 0
      BY <3>1, <1>4
    <3>2. CASE n # 0
      <4>1. n \in 1..MaxStorages /\ n - 1 \in 0..MaxStorages
        BY <3>2, <1>1
      <4>2. g[n] = F[g[n - 1]] /\ g[n - 1] \in SUBSET Storages
        BY <4>1, <1>4
      <4> QED BY <4>2, <3>2
    <3> QED BY <3>1, <3>2
  <2>2. g = [n \in 0..MaxStorages |-> g[n]]
    BY <1>4
  <2> QED BY <2>1, <2>2
<1>6. P(r)
  <2> HIDE DEF P
  <2> QED BY <1>5, Zenon
<1>7. Closure(s) = r[MaxStorages]
    BY DEF Closure, Near
<1> HIDE DEF r
<1>8. \A n \in 0..MaxStorages : r[n] = IF n = 0 THEN {s} ELSE Near(r[n - 1])
    BY <1>6
<1>10. r[0] = {s}
  <2>1. 0 \in 0..MaxStorages
    BY <1>1
  <2> QED BY <2>1, <1>8
<1>11. \A n \in 1..MaxStorages : r[n] = Near(r[n - 1])
    BY <1>8, <1>1
<1>9. r \in [0..MaxStorages -> SUBSET Storages]
  <2> DEFINE T == {n \in Nat : n <= MaxStorages => r[n] \in SUBSET Storages}
  <2>1. 0 \in T
    BY <1>10
  <2>2. ASSUME NEW n \in T PROVE n + 1 \in T
    <3> SUFFICES ASSUME n + 1 <= MaxStorages PROVE r[n + 1] \in SUBSET Storages
      OBVIOUS
    <3>1. n \in Nat /\ n <= MaxStorages /\ n + 1 \in 1..MaxStorages /\ (n + 1) - 1 = n
      BY <1>1
    <3>2. r[n + 1] = Near(r[n]) /\ r[n] \in SUBSET Storages
      BY <3>1, <1>11
    <3> QED BY <3>2, <1>n
  <2>3. T = Nat
    <3>1. T \in SUBSET Nat
      OBVIOUS
    <3> HIDE DEF T
    <3> QED BY <3>1, <2>1, <2>2, Induction
  <2>4. \A n \in 0..MaxStorages : r[n] \in SUBSET Storages
    BY <2>3, <1>1
  <2>5. r = [n \in 0..MaxStorages |-> r[n]]
    BY <1>6
  <2> QED BY <2>4, <2>5
<1> QED BY <1>7, <1>9, <1>10, <1>11 DEF ClosureRounds

\* The slots of a program: the root and all that it needs, and nothing else;
\* what a live root needs is live.
LEMMA ClosureSettles ==
    ASSUME HeapTyped(heap), NEW x \in Counts, Balanced(heap, x), NEW s \in Live(heap)
    PROVE  /\ s \in Closure(s) /\ Closure(s) \subseteq Live(heap)
           /\ \A t \in Closure(s) \ {s} : \E c \in Closure(s) : Computes(c) /\ t \in Inputs(heap, c)
           /\ \A c \in Closure(s) : Computes(c) => Inputs(heap, c) \subseteq Closure(s)
<1>1. MaxStorages \in Nat /\ Storages = 1..MaxStorages /\ s \in Storages
    BY BoundsAssumption DEF Storages, Live
<1>b. PICK g : ClosureRounds(s, g)
    BY <1>1, ClosureInRounds
<1>2. /\ g \in [0..MaxStorages -> SUBSET Storages]
      /\ g[0] = {s} /\ g[MaxStorages] = Closure(s)
      /\ \A n \in 1..MaxStorages : g[n] = Near(g[n - 1])
    BY <1>b DEF ClosureRounds
<1> DEFINE F == [d \in SUBSET Storages |-> Near(d)]
<1>3. F \in [SUBSET Storages -> SUBSET Storages] /\ \A d \in SUBSET Storages : F[d] = Near(d)
    BY NearMeans, CellFields
<1>5. \A a, d \in SUBSET Storages : a \subseteq d => F[a] \subseteq F[d]
    BY <1>3, NearMeans
<1>6. \A n \in 0..MaxStorages : g[n] \in SUBSET Storages
    BY <1>2
<1>7. F[g[MaxStorages]] = g[MaxStorages]
  <2>1. g[0] \subseteq F[g[0]]
    <3>1. g[0] \in SUBSET Storages
      BY <1>1, <1>2
    <3> QED BY <3>1, <1>3, NearMeans
  <2>2. \A n \in 1..MaxStorages : g[n] = F[g[n - 1]]
    <3> SUFFICES ASSUME NEW n \in 1..MaxStorages PROVE g[n] = F[g[n - 1]]
      OBVIOUS
    <3>1. n - 1 \in 0..MaxStorages
      BY <1>1
    <3> QED BY <3>1, <1>2, <1>3, <1>6
  <2>3. g \in [0..MaxStorages -> SUBSET Storages]
    BY <1>2
  <2> HIDE DEF F
  <2> QED BY <1>1, <1>3, <1>5, <2>1, <2>2, <2>3, RoundsSettle
<1>8. MaxStorages \in 0..MaxStorages
    BY <1>1
<1>9. Near(Closure(s)) = Closure(s)
    BY <1>2, <1>3, <1>6, <1>7, <1>8
<1>10. /\ s \in Closure(s) /\ Closure(s) \subseteq Live(heap)
       /\ \A t \in Closure(s) \ {s} : \E c \in Closure(s) : Computes(c) /\ t \in Inputs(heap, c)
  <2> DEFINE Sound(d) == /\ s \in d /\ d \subseteq Live(heap)
                         /\ \A t \in d \ {s} : \E c \in d : Computes(c) /\ t \in Inputs(heap, c)
             T == {n \in Nat : n <= MaxStorages => Sound(g[n])}
  <2>1. 0 \in T
    BY <1>2
  <2>2. ASSUME NEW n \in T PROVE n + 1 \in T
    <3> SUFFICES ASSUME n + 1 <= MaxStorages PROVE Sound(g[n + 1])
      OBVIOUS
    <3>1. n \in Nat /\ n \in 0..MaxStorages /\ n + 1 \in 1..MaxStorages /\ (n + 1) - 1 = n /\ n <= MaxStorages
      BY <1>1
    <3>2. g[n + 1] = Near(g[n]) /\ Sound(g[n]) /\ g[n] \in SUBSET Storages
      BY <3>1, <1>2, <1>6
    <3>3. \A t : t \in g[n + 1] <=> t \in g[n] \/ \E c \in g[n] : Computes(c) /\ t \in Inputs(heap, c)
      BY <3>2, NearMeans
    <3>4. \A c \in g[n] : Inputs(heap, c) \subseteq Live(heap)
      <4> SUFFICES ASSUME NEW c \in g[n], NEW t \in Inputs(heap, c) PROVE t \in Live(heap)
        OBVIOUS
      <4>1. c \in Storages /\ c \in Live(heap)
        BY <3>2
      <4>2. t \in Storages
        BY <4>1, CellFields
      <4> QED BY <4>1, <4>2, OwnedIsLive
    <3> QED BY <3>2, <3>3, <3>4
  <2>3. T = Nat
    <3>1. T \in SUBSET Nat
      OBVIOUS
    <3> HIDE DEF T
    <3> QED BY <3>1, <2>1, <2>2, Induction
  <2>4. Sound(g[MaxStorages])
    <3>1. MaxStorages <= MaxStorages
      BY <1>1
    <3> QED BY <3>1, <2>3, <1>1
  <2> QED BY <2>4, <1>2
<1>11. \A c \in Closure(s) : Computes(c) => Inputs(heap, c) \subseteq Closure(s)
    BY <1>9, NearMeans
<1> QED BY <1>10, <1>11

\* The program formed for a live root can run.
LEMMA FormProgramKeeps ==
    ASSUME IInv, FormProgram
    PROVE  IInv'
<1>1. /\ queue # <<>>
      /\ step' = [at |-> "formed", slots |-> Closure(Root), computed |-> {s \in Closure(Root) : Computes(s)}, kept |-> {}]
      /\ UNCHANGED <<current, open, origin, cache, heap, leaving, queue, drains>>
    BY DEF FormProgram
<1>2. /\ Typed /\ Named /\ HeapInv(heap, Holders) /\ Dormant(heap) = {} /\ CacheIsCurrent
      /\ Holders \in Counts /\ HeapTyped(heap) /\ Head(queue) \in Live(heap)
    BY <1>1, NowIsReady DEF IInv
<1>3. /\ Root \in Closure(Root) /\ Closure(Root) \subseteq Live(heap)
      /\ \A t \in Closure(Root) \ {Root} : \E c \in Closure(Root) : Computes(c) /\ t \in Inputs(heap, c)
      /\ \A c \in Closure(Root) : Computes(c) => Inputs(heap, c) \subseteq Closure(Root)
  <2>1. Root \in Live(heap) /\ Balanced(heap, Holders)
    BY <1>2 DEF Root, HeapInv
  <2> QED BY <2>1, <1>2, ClosureSettles
<1>4. PICK st : st = step'
    OBVIOUS
<1>5. PICK slots : slots = Closure(Root)
    OBVIOUS
<1>6. /\ st.at = "formed" /\ st.slots = slots /\ st.computed = {s \in slots : Computes(s)} /\ st.kept = {}
      /\ slots \subseteq Storages
    BY <1>1, <1>3, <1>4, <1>5 DEF Live
<1>7. st \in Steps
  <2>1. PICK computed \in SUBSET Storages : computed = {s \in slots : Computes(s)}
    BY <1>6
  <2>2. st = [at |-> "formed", slots |-> slots, computed |-> computed, kept |-> {}]
    BY <1>1, <1>4, <1>5, <2>1
  <2> QED BY <2>2, <1>6 DEF Steps
<1>8. \A s : Computes(s) <=> Computing(heap, s)
    BY DEF Computes, Computing
<1>9. \A s \in slots : s \notin st.computed => heap[s].material # "none"
  <2> SUFFICES ASSUME NEW s \in slots, ~Computes(s) PROVE heap[s].material # "none"
    BY <1>6
  <2>1. s \in Storages /\ heap[s] # Blank
    BY <1>3, <1>5, BlankCell DEF Live
  <2>2. heap[s].material # "none" \/ heap[s].inputs # <<>>
    BY <2>1, <1>2 DEF HeapInv, Computable
  <2>3. heap[s].material = "resident" \/ heap[s].inputs = <<>>
    BY DEF Computes
  <2> QED BY <2>2, <2>3
<1>10. Formed(heap, st, Head(queue))
  <2>1. st.computed \subseteq st.slots /\ st.slots \subseteq Live(heap) /\ Root \in st.slots
    BY <1>3, <1>5, <1>6
  <2>2. \A s \in st.slots \ {Root} : \E c \in st.computed : s \in Inputs(heap, c)
    BY <1>3, <1>5, <1>6
  <2>3. \A s \in st.computed : Computing(heap, s) /\ Inputs(heap, s) \subseteq st.slots
    BY <1>3, <1>5, <1>6, <1>8
  <2>4. \A s \in st.slots \ st.computed : heap[s].material # "none"
    BY <1>6, <1>9
  <2> QED BY <2>1, <2>2, <2>3, <2>4 DEF Formed, Root
<1>11. Program(heap, Holders, origin, st, queue)
    BY <1>1, <1>6, <1>10 DEF Program
<1>12. Holders' = Holders
    BY <1>1 DEF Holders, HoldersOf
<1>13. Program(heap', Holders', origin', step', queue')
    BY <1>1, <1>4, <1>11, <1>12
<1>14. Typed' /\ Named' /\ HeapInv(heap', Holders') /\ Dormant(heap') = {}
    BY <1>1, <1>2, <1>4, <1>7, <1>12 DEF Typed, Named
<1>15. CacheIsCurrent'
    BY <1>1, <1>2 DEF CacheIsCurrent, Projected
<1> QED BY <1>13, <1>14, <1>15 DEF IInv

\* A concluded request keeps its pin until its device work has drained.
LEMMA ConcludeKeeps ==
    ASSUME IInv, Conclude
    PROVE  IInv'
<1>1. /\ step.at # "idle" /\ drains' = [drains EXCEPT ![Root] = drains[Root] + 1] /\ queue' = Tail(queue) /\ step' = Idle
      /\ UNCHANGED <<current, open, origin, cache, heap, leaving>>
    BY DEF Conclude
<1>2. /\ Typed /\ Named /\ HeapInv(heap, Holders) /\ Dormant(heap) = {} /\ CacheIsCurrent
      /\ queue # <<>> /\ queue \in Seq(Storages)
    BY <1>1 DEF IInv, Program, Typed
<1>3. Root \in Storages /\ queue' \in Seq(Storages)
    BY <1>1, <1>2, HeadTailProperties DEF Root
<1>4. drains' \in Counts /\ \A t \in Storages : drains'[t] = drains[t] + One(Root)[t]
    BY <1>1, <1>2, <1>3 DEF Typed, Counts, One
<1>5. ASSUME NEW t \in Storages PROVE Holders'[t] = Holders[t]
  <2>1. /\ Holders[t] = Held(current, t) + Held(cache, t) + Held(queue, t) + drains[t] + leaving[t]
        /\ Holders'[t] = Held(current', t) + Held(cache', t) + Held(queue', t) + drains'[t] + leaving'[t]
        /\ Held(current, t) \in Nat /\ Held(cache, t) \in Nat /\ drains[t] \in Nat /\ leaving[t] \in Nat
    BY <1>2, HoldersAre
  <2>2. Held(queue, t) = Held(queue', t) + One(Root)[t] /\ Held(queue', t) \in Nat
    BY <1>1, <1>2, HeldByQueue DEF Root
  <2>3. Held(current', t) = Held(current, t) /\ Held(cache', t) = Held(cache, t) /\ leaving'[t] = leaving[t]
    BY <1>1
  <2>4. drains'[t] = drains[t] + One(Root)[t] /\ One(Root)[t] \in Nat
    BY <1>4, OneCounts
  <2> QED BY ONLY <2>1, <2>2, <2>3, <2>4
<1>6. step' \in Steps /\ step'.at = "idle"
    BY <1>1 DEF Idle, Steps
<1>7. Program(heap', Holders', origin', step', queue')
    BY <1>6 DEF Program
<1>8. HeapInv(heap', Holders')
    BY <1>1, <1>2, <1>5, SameCounts
<1>9. Typed' /\ Named' /\ Dormant(heap') = {}
    BY <1>1, <1>2, <1>3, <1>4, <1>6 DEF Typed, Named
<1>10. CacheIsCurrent'
    BY <1>1, <1>2 DEF CacheIsCurrent, Projected
<1> QED BY <1>7, <1>8, <1>9, <1>10 DEF IInv

----------------------------------------------------------------------------
(* The queue: admission, where expansions are adopted and slots retained.   *)

Adopters(chosen) == UNION {heap[s].expands : s \in chosen}
Pinned(chosen) == [s \in Storages |-> IF s \in chosen THEN [heap[s] EXCEPT !.refs = @ + 1] ELSE heap[s]]
Displaced(a) == [s \in Storages |-> Cardinality({f \in a : cache[f] = s})]
Adopted(chosen) == [f \in Families |-> IF f \in Adopters(chosen)
                                       THEN CHOOSE s \in chosen : f \in heap[s].expands ELSE cache[f]]

\* Each adopted expansion has one family, which adopts no other.
LEMMA AdoptionMeans ==
    ASSUME IInv, step.at = "formed", NEW chosen \in Adoptions
    PROVE  /\ chosen \subseteq step.slots /\ chosen \subseteq Live(heap) /\ chosen \subseteq Storages
           /\ Adopters(chosen) \subseteq Families /\ Adopted(chosen) \in Pointers
           /\ \A s \in chosen : \E f \in Adopters(chosen) : heap[s].expands = {f} /\ Adopted(chosen)[f] = s
           /\ \A f \in Adopters(chosen) : /\ Projected(f) # {} /\ Adopted(chosen)[f] \in chosen
                                          /\ heap[Adopted(chosen)[f]].expands = {f}
           /\ \A f \in Families \ Adopters(chosen) : Adopted(chosen)[f] = cache[f]
<1> DEFINE a == Adopters(chosen)
           ad == Adopted(chosen)
<1>1. /\ HeapTyped(heap) /\ Typed /\ Formed(heap, step, Head(queue))
    BY NowIsReady DEF IInv, Program
<1>2. /\ chosen \subseteq Adoptable /\ \A s, t \in chosen : heap[s].expands = heap[t].expands => s = t
    BY DEF Adoptions
<1>3. chosen \subseteq step.slots /\ chosen \subseteq Live(heap) /\ chosen \subseteq Storages
    BY <1>1, <1>2 DEF Adoptable, Formed, Live
<1>4. ASSUME NEW s \in chosen PROVE \E f \in Families : heap[s].expands = {f} /\ Projected(f) # {}
  <2>1. PICK f \in heap[s].expands : Projected(f) # {}
    BY <1>2 DEF Adoptable
  <2>2. heap[s].expands \in {{}} \cup {{e} : e \in Families}
    BY <1>1, <1>3, CellFields
  <2>3. heap[s].expands = {f} /\ f \in Families
    BY <2>1, <2>2
  <2> QED BY <2>1, <2>3
<1>5. \A f : f \in a <=> \E s \in chosen : f \in heap[s].expands
    BY DEF Adopters
<1>6. a \subseteq Families
    BY <1>4, <1>5
<1>7. ASSUME NEW f \in a
      PROVE  Projected(f) # {} /\ ad[f] \in chosen /\ heap[ad[f]].expands = {f}
  <2>1. ad[f] = CHOOSE s \in chosen : f \in heap[s].expands
    BY <1>6 DEF Adopted
  <2>2. ad[f] \in chosen /\ f \in heap[ad[f]].expands
    BY <2>1, <1>5
  <2>3. \E e \in Families : heap[ad[f]].expands = {e} /\ Projected(e) # {}
    BY <2>2, <1>4
  <2> QED BY <2>2, <2>3
<1>8. \A f \in Families \ a : ad[f] = cache[f]
    BY DEF Adopted
<1>9. ASSUME NEW s \in chosen PROVE \E f \in a : heap[s].expands = {f} /\ ad[f] = s
  <2>1. PICK f \in Families : heap[s].expands = {f}
    BY <1>4
  <2>2. f \in a
    BY <2>1, <1>5
  <2>3. ad[f] \in chosen /\ heap[ad[f]].expands = {f}
    BY <2>2, <1>7
  <2> QED BY <2>1, <2>2, <2>3, <1>2
<1>10. ad \in Pointers
  <2>1. ad = [f \in Families |-> ad[f]]
    BY DEF Adopted
  <2>2. \A f \in Families : ad[f] \in Storages \cup {None}
    BY <1>1, <1>3, <1>7, <1>8 DEF Typed, Pointers
  <2> QED BY <2>1, <2>2 DEF Pointers
<1> QED BY <1>3, <1>6, <1>7, <1>8, <1>9, <1>10

\* The caches gain the adopted expansions and lose the displaced ones.
LEMMA AdoptionCounts ==
    ASSUME IInv, step.at = "formed", NEW chosen \in Adoptions, NEW t \in Storages
    PROVE  /\ Displaced(Adopters(chosen))[t] \in Nat /\ Held(Adopted(chosen), t) \in Nat /\ Held(cache, t) \in Nat
           /\ t \in chosen => Held(Adopted(chosen), t) + Displaced(Adopters(chosen))[t] = Held(cache, t) + 1
           /\ t \notin chosen => Held(Adopted(chosen), t) + Displaced(Adopters(chosen))[t] = Held(cache, t)
<1>1. PICK a : a = Adopters(chosen)
    OBVIOUS
<1>2. PICK ad : ad = Adopted(chosen)
    OBVIOUS
<1>3. /\ a \subseteq Families /\ ad \in Pointers /\ cache \in Pointers
      /\ (\A s \in chosen : \E f \in a : heap[s].expands = {f} /\ ad[f] = s)
      /\ (\A f \in a : ad[f] \in chosen /\ heap[ad[f]].expands = {f})
      /\ (\A f \in Families \ a : ad[f] = cache[f])
  <2>1. /\ Adopters(chosen) \subseteq Families /\ Adopted(chosen) \in Pointers
        /\ (\A s \in chosen : \E f \in Adopters(chosen) : heap[s].expands = {f} /\ Adopted(chosen)[f] = s)
        /\ \A f \in Adopters(chosen) : /\ Projected(f) # {} /\ Adopted(chosen)[f] \in chosen
                                       /\ heap[Adopted(chosen)[f]].expands = {f}
        /\ (\A f \in Families \ Adopters(chosen) : Adopted(chosen)[f] = cache[f])
    BY AdoptionMeans
  <2>2. cache \in Pointers
    BY DEF IInv, Typed
  <2> QED BY <2>1, <2>2, <1>1, <1>2
<1> DEFINE X == {f \in a : ad[f] = t}
           Y == {f \in a : cache[f] = t}
           Z == {f \in Families \ a : cache[f] = t}
<1>4. Places(ad, t) = X \cup Z /\ Places(cache, t) = Y \cup Z
    BY <1>3 DEF Places, Pointers
<1>5. X \cap Z = {} /\ Y \cap Z = {} /\ X \subseteq Families /\ Y \subseteq Families /\ Z \subseteq Families
    BY <1>3
<1>6. (t \in chosen => \E f : X = {f}) /\ (t \notin chosen => X = {})
  <2>1. ASSUME t \in chosen PROVE \E f : X = {f}
    <3>1. PICK f \in a : heap[t].expands = {f} /\ ad[f] = t
      BY <2>1, <1>3
    <3>2. X = {f}
      BY <3>1, <1>3
    <3> QED BY <3>2
  <2>2. t \notin chosen => X = {}
    BY <1>3
  <2> QED BY <2>1, <2>2
<1> HIDE DEF X, Y, Z
<1>7. IsFiniteSet(X) /\ IsFiniteSet(Y) /\ IsFiniteSet(Z)
    BY <1>5, FamiliesAssumption, FS_Subset
<1>8. Cardinality(X) \in Nat /\ Cardinality(Y) \in Nat /\ Cardinality(Z) \in Nat
    BY <1>7, FS_CardinalityType
<1>9. /\ Cardinality(X \cup Z) = Cardinality(X) + Cardinality(Z)
      /\ Cardinality(Y \cup Z) = Cardinality(Y) + Cardinality(Z)
  <2>1. Cardinality({}) = 0
    BY FS_EmptySet
  <2>2. ASSUME NEW A, NEW B, IsFiniteSet(A), IsFiniteSet(B), A \cap B = {}, Cardinality(A) \in Nat, Cardinality(B) \in Nat
        PROVE  Cardinality(A \cup B) = Cardinality(A) + Cardinality(B)
    <3>1. Cardinality(A \cup B) = Cardinality(A) + Cardinality(B) - Cardinality(A \cap B)
      BY <2>2, FS_Union
    <3>2. Cardinality(A \cap B) = 0
      BY <2>1, <2>2
    <3> HIDE <2>1
    <3> QED BY <3>1, <3>2, <2>2
  <2> QED BY <2>2, <1>5, <1>7, <1>8
<1>10. (t \in chosen => Cardinality(X) = 1) /\ (t \notin chosen => Cardinality(X) = 0)
    BY <1>6, FS_Singleton, FS_EmptySet
<1>11. Displaced(a)[t] = Cardinality(Y)
    BY DEF Displaced, Y
<1>12. Held(ad, t) = Cardinality(X) + Cardinality(Z) /\ Held(cache, t) = Cardinality(Y) + Cardinality(Z)
    BY <1>4, <1>9 DEF Held
<1>13. /\ Displaced(a)[t] \in Nat /\ Held(ad, t) \in Nat /\ Held(cache, t) \in Nat
       /\ t \in chosen => Held(ad, t) + Displaced(a)[t] = Held(cache, t) + 1
       /\ t \notin chosen => Held(ad, t) + Displaced(a)[t] = Held(cache, t)
    BY <1>8, <1>10, <1>11, <1>12
<1> QED BY <1>1, <1>2, <1>13

\* The pins of adopted expansions: every cell keeps all but its count.
LEMMA PinnedKeeps ==
    ASSUME IInv, NEW chosen, chosen \subseteq Live(heap), NEW g, g = Pinned(chosen)
    PROVE  /\ HeapTyped(g) /\ Computable(g) /\ Dormant(g) = {} /\ Live(g) = Live(heap)
           /\ \A t \in Storages : /\ Keeps(heap, g, t)
                                  /\ t \in chosen => g[t].refs = heap[t].refs + 1
                                  /\ t \notin chosen => g[t].refs = heap[t].refs
<1>1. HeapTyped(heap) /\ heap \in [Storages -> Cells] /\ Dormant(heap) = {} /\ Computable(heap)
    BY NowIsReady DEF IInv, HeapTyped, HeapInv
<1>2. ASSUME NEW t \in Storages
      PROVE  /\ g[t] \in Cells /\ Keeps(heap, g, t) /\ (t \notin chosen => g[t] = heap[t])
             /\ (t \in chosen => g[t].refs = heap[t].refs + 1)
  <2>1. CASE t \in chosen
    <3>1. PICK c \in Cells : c = heap[t]
      BY <1>1
    <3>2. c.refs \in Nat /\ c.refs + 1 \in Nat
      BY <3>1, <1>1, CellFields
    <3>3. g[t] = [c EXCEPT !.refs = c.refs + 1]
      BY <2>1, <3>1 DEF Pinned
    <3>4. PICK n \in Nat : n = c.refs + 1
      BY <3>2
    <3>5. PICK d : d = [c EXCEPT !.refs = n]
      OBVIOUS
    <3>6. /\ d \in Cells /\ d.refs = n /\ d.inputs = c.inputs /\ d.material = c.material
          /\ d.shape = c.shape /\ d.expands = c.expands
      BY <3>5, CellCounted
    <3>7. g[t] = d
      BY <3>3, <3>4, <3>5
    <3> QED BY <2>1, <3>1, <3>4, <3>6, <3>7 DEF Keeps
  <2>2. CASE t \notin chosen
    <3>1. g[t] = heap[t]
      BY <2>2 DEF Pinned
    <3> QED BY <2>2, <3>1, <1>1 DEF Keeps
  <2> QED BY <2>1, <2>2
<1>3. HeapTyped(g)
  <2>1. g = [t \in Storages |-> g[t]]
    BY DEF Pinned
  <2> QED BY <2>1, <1>1, <1>2 DEF HeapTyped, Keeps
<1>4. \A t \in Storages : t \in Live(g) <=> t \in Live(heap)
  <2> SUFFICES ASSUME NEW t \in Storages PROVE g[t].refs > 0 <=> heap[t].refs > 0
    BY DEF Live
  <2>1. heap[t].refs \in Nat
    BY <1>1, CellFields
  <2>2. CASE t \in chosen
    BY <2>1, <2>2, <1>2 DEF Live
  <2>3. CASE t \notin chosen
    BY <2>3, <1>2
  <2> QED BY <2>2, <2>3
<1>5. Live(g) = Live(heap)
    BY <1>4 DEF Live
<1>6. Dormant(g) = {}
  <2> SUFFICES ASSUME NEW s \in Storages, g[s].refs = 0 PROVE g[s] = Blank
    BY DEF Dormant
  <2>1. s \notin chosen
    BY <1>4 DEF Live
  <2> QED BY <2>1, <1>1, <1>2 DEF Dormant
<1>7. Computable(g)
  <2> SUFFICES ASSUME NEW s \in Storages, g[s] # Blank PROVE g[s].material # "none" \/ g[s].inputs # <<>>
    BY DEF Computable
  <2>1. heap[s] # Blank
    <3>1. CASE s \in chosen
      BY <3>1, BlankCell DEF Live
    <3>2. CASE s \notin chosen
      BY <3>2, <1>2
    <3> QED BY <3>1, <3>2
  <2> QED BY <2>1, <1>1, <1>2 DEF Computable, Keeps
<1> QED BY <1>2, <1>3, <1>5, <1>6, <1>7

\* A release of a heap without dormant expansions leaves one.
LEMMA ReleaseInv ==
    ASSUME NEW h, NEW y \in Counts, NEW b \in Counts, HeapTyped(h), Balanced(h, Both(y, b)), Dormant(h) = {},
           Computable(h), NEW g, g = Release(h, b)
    PROVE  HeapInv(g, y) /\ Dormant(g) = {} /\ \A s \in Storages : Spared(h, g, s)
<1>1. /\ HeapTyped(g) /\ Balanced(g, y) /\ Dormant(g) = {} /\ \A s \in Storages : Spared(h, g, s)
    BY ReleaseBalances
<1>2. Computable(g)
  <2> SUFFICES ASSUME NEW s \in Storages, g[s] # Blank PROVE g[s].material # "none" \/ g[s].inputs # <<>>
    BY DEF Computable
  <2>1. Keeps(h, g, s) /\ h[s].refs > 0
    BY <1>1 DEF Spared, Live
  <2>2. h[s] # Blank
    BY <2>1, BlankCell
  <2> QED BY <2>1, <2>2 DEF Computable, Keeps
<1> QED BY <1>1, <1>2 DEF HeapInv, Expansions

\* A slot that its program does not retain is used by the program only.
LEMMA RetainedMeans ==
    ASSUME Typed, CacheIsCurrent, HeapTyped(heap),
           NEW g, NEW y \in Counts, HeapTyped(g), Balanced(g, y), Dormant(g) = {},
           Formed(g, step, Root), \A s \in Live(g) : Keeps(heap, g, s),
           NEW p, \A f \in Families : p[f] \in {origin[f], None}
    PROVE  /\ y[Root] > 0 => Root \in Retained(g)
           /\ \A s \in step.slots : s \notin Retained(g) => Lonely(g, y, p, step.computed, s)
<1>1. /\ Root \in step.slots /\ step.computed \subseteq step.slots /\ step.slots \subseteq Live(g)
      /\ step.computed \in SUBSET Storages /\ Live(g) \in SUBSET Storages /\ step.slots \subseteq Storages
    BY DEF Formed, Live
<1>2. ASSUME NEW s \in step.slots
      PROVE  /\ StorageUseCount(s) = Uses(g, step.computed, s) /\ s \in Storages
             /\ g[s].refs = y[s] + (Uses(g, step.computed, s) + Uses(g, Live(g) \ step.computed, s))
             /\ Uses(g, step.computed, s) \in Nat /\ Uses(g, Live(g) \ step.computed, s) \in Nat /\ y[s] \in Nat
  <2>1. s \in Storages
    BY <1>1
  <2>2. \A c \in step.computed : g[c].inputs = heap[c].inputs
    BY <1>1 DEF Keeps
  <2>3. Uses(g, step.computed, s) = Uses(heap, step.computed, s)
    BY <1>1, <2>2, UsesSame
  <2>4. PICK all, some : all = Live(g) /\ some = step.computed
    OBVIOUS
  <2>5. Uses(g, Live(g), s) = Uses(g, step.computed, s) + Uses(g, Live(g) \ step.computed, s)
    <3>1. all \in SUBSET Storages /\ some \in SUBSET all
      BY <1>1, <2>4
    <3>2. Uses(g, all, s) = Uses(g, some, s) + Uses(g, all \ some, s)
      BY <3>1, UsesGrow
    <3> QED BY <2>4, <3>2
  <2>6. Live(g) \ step.computed \in SUBSET Storages
    BY <1>1
  <2>7. Uses(g, step.computed, s) \in Nat /\ Uses(g, Live(g) \ step.computed, s) \in Nat
    BY <1>1, <2>6, UsesCount
  <2> QED BY <2>1, <2>3, <2>5, <2>7 DEF StorageUseCount, Balanced, Counts
<1>3. ASSUME y[Root] > 0 PROVE Root \in Retained(g)
  <2>1. g[Root].refs > StorageUseCount(Root)
    BY <1>1, <1>2, <1>3
  <2> QED BY <2>1, <1>1 DEF Retained
<1>4. ASSUME NEW s \in step.slots, s \notin Retained(g) PROVE Lonely(g, y, p, step.computed, s)
  <2>1. ~CanCaptureProjection(s, g) /\ ~(g[s].refs > StorageUseCount(s))
    BY <1>4 DEF Retained
  <2>2. y[s] = 0 /\ Uses(g, Live(g) \ step.computed, s) = 0
    <3>1. /\ StorageUseCount(s) = Uses(g, step.computed, s)
          /\ g[s].refs = y[s] + (Uses(g, step.computed, s) + Uses(g, Live(g) \ step.computed, s))
          /\ Uses(g, step.computed, s) \in Nat /\ Uses(g, Live(g) \ step.computed, s) \in Nat /\ y[s] \in Nat
      BY <1>2, <1>4
    <3> QED BY ONLY <2>1, <3>1
  <2>3. ASSUME NEW c \in Storages, s \in Inputs(g, c) PROVE c \in step.computed
    <3>1. c \in Live(g)
      <4>1. {} \in SUBSET Storages
        OBVIOUS
      <4> QED BY <2>3, <4>1, AllUses
    <3>2. Live(g) \ step.computed \in SUBSET Storages
      BY <1>1
    <3>3. ~(Uses(g, Live(g) \ step.computed, s) > 0)
      BY <2>2
    <3>4. ~ \E a \in Live(g) \ step.computed : s \in Inputs(g, a)
      BY <3>2, <3>3, UsesMean
    <3> QED BY <2>3, <3>1, <3>4
  <2>4. ASSUME NEW f \in Families, p[f] = s PROVE FALSE
    <3>1. s \in Storages /\ s # None /\ s \in Live(g)
      BY <1>1 DEF Storages, None
    <3>2. origin[f] = s
      BY <2>4, <3>1
    <3>3. Projected(f) # {} /\ heap[s].expands = {f}
      BY <3>1, <3>2 DEF CacheIsCurrent
    <3>4. g[s].expands = {f}
      BY <3>1, <3>3 DEF Keeps
    <3>5. CanCaptureProjection(s, g)
      BY <3>2, <3>3, <3>4 DEF CanCaptureProjection
    <3> QED BY <3>5, <2>1
  <2> QED BY <2>2, <2>3, <2>4 DEF Lonely
<1> QED BY <1>3, <1>4

\* Admission adopts expansions and decides what is retained; a slot it does not
\* retain is used by the program alone.
LEMMA AdmitKeeps ==
    ASSUME IInv, Admit
    PROVE  IInv'
<1>1. PICK chosen \in Adoptions :
        /\ heap' = Release(Pinned(chosen), Displaced(Adopters(chosen))) /\ origin' = Reachable(origin, heap')
        /\ cache' = Adopted(chosen)
        /\ step' = IF heap[Root].material = "resident"
                   THEN [step EXCEPT !.at = "materialized"]
                   ELSE [step EXCEPT !.at = "executing",
                           !.kept = Retained(heap') \cup {s \in step.slots : heap'[s].material = "resident"}]
    BY DEF Admit, Becomes, Pinned, Displaced, Adopters, Adopted
<1>2. step.at = "formed" /\ UNCHANGED <<current, open, leaving, queue, drains>>
    BY DEF Admit
<1>3. /\ Typed /\ Named /\ HeapInv(heap, Holders) /\ Dormant(heap) = {} /\ CacheIsCurrent
      /\ Holders \in Counts /\ HeapTyped(heap) /\ queue # <<>> /\ queue \in Seq(Storages)
      /\ Formed(heap, step, Root) /\ step.slots \subseteq Storages
    BY <1>2, NowIsReady DEF IInv, Program, Typed, Root
<1>4. /\ chosen \subseteq step.slots /\ chosen \subseteq Live(heap) /\ chosen \subseteq Storages
      /\ Adopters(chosen) \subseteq Families /\ Adopted(chosen) \in Pointers
      /\ \A f \in Adopters(chosen) : /\ Projected(f) # {} /\ Adopted(chosen)[f] \in chosen
                                     /\ heap[Adopted(chosen)[f]].expands = {f}
      /\ \A f \in Families \ Adopters(chosen) : Adopted(chosen)[f] = cache[f]
    BY <1>2, AdoptionMeans
<1>5. PICK g : g = heap'
    OBVIOUS
<1>6. PICK h : h = Pinned(chosen)
    OBVIOUS
<1>7. PICK b \in Counts : b = Displaced(Adopters(chosen))
  <2>1. \A t \in Storages : Displaced(Adopters(chosen))[t] \in Nat
    BY <1>2, AdoptionCounts
  <2>2. Displaced(Adopters(chosen)) = [t \in Storages |-> Displaced(Adopters(chosen))[t]]
    BY DEF Displaced
  <2>3. Displaced(Adopters(chosen)) \in Counts
    BY <2>1, <2>2 DEF Counts
  <2> QED BY <2>3
<1>8. origin' \in Pointers /\ \A f \in Families : origin'[f] \in {origin[f], None}
    BY <1>1, <1>3 DEF Reachable, Typed, Pointers
<1>9. step' \in Steps /\ step'.slots = step.slots /\ step'.computed = step.computed /\ step'.at \in {"materialized", "executing"}
  <2>1. PICK kept \in SUBSET Storages :
          kept = Retained(heap') \cup {s \in step.slots : heap'[s].material = "resident"}
    BY <1>3 DEF Retained
  <2>2. CASE heap[Root].material = "resident"
    <3>1. step' = [step EXCEPT !.at = "materialized"] /\ step \in Steps
      BY <1>1, <1>3, <2>2 DEF Typed
    <3> QED BY <3>1 DEF Steps
  <2>3. CASE heap[Root].material # "resident"
    <3>1. step' = [step EXCEPT !.at = "executing", !.kept = kept] /\ step \in Steps
      BY <1>1, <1>3, <2>1, <2>3 DEF Typed
    <3> QED BY <3>1 DEF Steps
  <2> QED BY <2>2, <2>3
<1>10. Typed' /\ Named'
    BY <1>1, <1>2, <1>3, <1>4, <1>8, <1>9 DEF Typed, Named
<1>11. PICK y \in Counts : y = Holders'
  <2>1. Holders' \in Counts
    BY <1>10, HoldersAreCounts DEF Typed, Holders
  <2> QED BY <2>1
<1>12. /\ HeapTyped(h) /\ Computable(h) /\ Dormant(h) = {} /\ Live(h) = Live(heap)
       /\ \A t \in Storages : /\ Keeps(heap, h, t)
                              /\ t \in chosen => h[t].refs = heap[t].refs + 1
                              /\ t \notin chosen => h[t].refs = heap[t].refs
    BY <1>4, <1>6, PinnedKeeps
<1>13. Balanced(h, Both(y, b))
  <2> SUFFICES ASSUME NEW t \in Storages PROVE h[t].refs = (y[t] + b[t]) + Uses(h, Live(h), t)
    BY DEF Balanced, Both
  <2>1. Uses(h, Live(h), t) = Uses(heap, Live(heap), t) /\ Uses(heap, Live(heap), t) \in Nat
    <3>1. Live(heap) \in SUBSET Storages /\ \A c \in Live(heap) : h[c].inputs = heap[c].inputs
      BY <1>12 DEF Live, Keeps
    <3>2. PICK all, a : all = Live(heap) /\ a = heap
      OBVIOUS
    <3>3. all \in SUBSET Storages /\ \A c \in all : h[c].inputs = a[c].inputs
      BY <3>1, <3>2
    <3>4. Uses(h, all, t) = Uses(a, all, t)
      BY ONLY <3>3, UsesSame
    <3>5. Uses(a, all, t) \in Nat
      BY <3>3, UsesCount
    <3> QED BY <3>2, <3>4, <3>5, <1>12
  <2>2. /\ Holders[t] = Held(current, t) + Held(cache, t) + Held(queue, t) + drains[t] + leaving[t]
        /\ Holders'[t] = Held(current', t) + Held(cache', t) + Held(queue', t) + drains'[t] + leaving'[t]
        /\ Held(current, t) \in Nat /\ Held(cache, t) \in Nat /\ Held(queue, t) \in Nat
        /\ drains[t] \in Nat /\ leaving[t] \in Nat
    BY <1>3, HoldersAre
  <2>3. /\ b[t] \in Nat /\ Held(cache', t) \in Nat
        /\ t \in chosen => Held(cache', t) + b[t] = Held(cache, t) + 1
        /\ t \notin chosen => Held(cache', t) + b[t] = Held(cache, t)
    BY <1>1, <1>2, <1>7, AdoptionCounts
  <2>4. /\ Held(current', t) = Held(current, t) /\ Held(queue', t) = Held(queue, t)
        /\ drains'[t] = drains[t] /\ leaving'[t] = leaving[t]
    BY <1>2
  <2>5. heap[t].refs = Holders[t] + Uses(heap, Live(heap), t)
    BY <1>3 DEF HeapInv, Balanced
  <2>6. /\ t \in chosen => y[t] + b[t] = Holders[t] + 1
        /\ t \notin chosen => y[t] + b[t] = Holders[t]
        /\ y[t] \in Nat /\ Holders[t] \in Nat
    BY ONLY <2>2, <2>3, <2>4, <1>11
  <2>7. /\ t \in chosen => h[t].refs = heap[t].refs + 1
        /\ t \notin chosen => h[t].refs = heap[t].refs
    BY <1>12
  <2> QED BY ONLY <2>1, <2>3, <2>5, <2>6, <2>7
<1>14. HeapInv(g, y) /\ HeapTyped(g) /\ Balanced(g, y) /\ Dormant(g) = {} /\ \A s \in Storages : Spared(h, g, s)
  <2>1. g = Release(h, b)
    BY <1>1, <1>5, <1>6, <1>7
  <2> QED BY <2>1, <1>12, <1>13, ReleaseInv DEF HeapInv
<1>15. \A s \in Live(g) : s \in Storages /\ Keeps(heap, g, s)
  <2> SUFFICES ASSUME NEW s \in Storages, s \in Live(g) PROVE Keeps(heap, g, s)
    BY DEF Live
  <2>1. g[s] # Blank
    BY BlankCell DEF Live
  <2> QED BY <2>1, <1>12, <1>14 DEF Spared, Keeps
<1>16. y[Root] > 0
  <2>1. Head(queue) \in Storages /\ queue' # <<>> /\ Head(queue') = Head(queue)
    BY <1>2, <1>3
  <2>2. Holders'[Head(queue)] > 0
    BY <2>1, <1>10, HoldersCount DEF Typed, Holders
  <2> QED BY <2>2, <1>11 DEF Root
<1>17. Formed(g, step, Root)
  <2>1. step.slots \subseteq Live(h) /\ \A s \in step.slots : h[s].inputs = heap[s].inputs /\ h[s].material = heap[s].material
    BY <1>3, <1>12 DEF Formed, Keeps
  <2>2. Formed(h, step, Root)
    <3>1. PICK a : a = heap
      OBVIOUS
    <3>2. /\ Formed(a, step, Root) /\ step.slots \subseteq Live(h)
          /\ \A s \in step.slots : h[s].inputs = a[s].inputs /\ h[s].material = a[s].material
      BY <2>1, <3>1, <1>3
    <3> QED BY <3>2, FormedDepends
  <2>3. Formed(Release(h, b), step, Root)
    BY <2>2, <1>12, <1>13, <1>16, ReleaseFormed
  <2> QED BY <2>3, <1>1, <1>5, <1>6, <1>7
<1>18. /\ Root \in Retained(g)
       /\ \A s \in step.slots : s \notin Retained(g) => Lonely(g, y, origin', step.computed, s)
  <2>1. PICK p : p = origin'
    OBVIOUS
  <2>2. \A f \in Families : p[f] \in {origin[f], None}
    BY <2>1, <1>8
  <2>3. \A s \in Live(g) : Keeps(heap, g, s)
    BY <1>15
  <2>4. /\ y[Root] > 0 => Root \in Retained(g)
        /\ \A s \in step.slots : s \notin Retained(g) => Lonely(g, y, p, step.computed, s)
    BY <2>2, <2>3, <1>3, <1>14, <1>17, RetainedMeans
  <2> QED BY <2>1, <2>4, <1>16
<1>19. Program(g, y, origin', step', queue')
  <2>1. queue' # <<>> /\ Head(queue') = Root
    BY <1>2, <1>3 DEF Root
  <2>2. Formed(g, step', Root)
    BY <1>9, <1>17 DEF Formed
  <2>3. ASSUME step'.at = "executing"
        PROVE  /\ Root \in step'.kept /\ step'.kept \subseteq step'.slots
               /\ \A s \in step'.slots \ step'.kept : Lonely(g, y, origin', step'.computed, s)
    <3>1. heap[Root].material # "resident"
      <4> SUFFICES ASSUME heap[Root].material = "resident" PROVE FALSE
        OBVIOUS
      <4>1. step' = [step EXCEPT !.at = "materialized"] /\ step \in Steps
        BY <1>1, <1>3 DEF Typed
      <4> QED BY <4>1, <2>3 DEF Steps
    <3>2. PICK kept : kept = Retained(g) \cup {s \in step.slots : g[s].material = "resident"}
      OBVIOUS
    <3>3. step' = [step EXCEPT !.at = "executing", !.kept = kept] /\ step \in Steps
      BY <3>1, <3>2, <1>1, <1>3, <1>5 DEF Typed
    <3>4. step'.kept = kept
      BY <3>3 DEF Steps
    <3>5. Retained(g) \subseteq step.slots
      BY DEF Retained
    <3> QED BY <3>2, <3>4, <3>5, <1>9, <1>18
  <2>4. ASSUME step'.at = "materialized" PROVE g[Root].material = "resident"
    <3>1. heap[Root].material = "resident"
      <4> SUFFICES ASSUME heap[Root].material # "resident" PROVE FALSE
        OBVIOUS
      <4>2. PICK kept : kept = Retained(heap') \cup {s \in step.slots : heap'[s].material = "resident"}
        OBVIOUS
      <4>3. step' = [step EXCEPT !.at = "executing", !.kept = kept] /\ step \in Steps
        BY <1>1, <1>3, <4>2 DEF Typed
      <4> QED BY <4>3, <2>4 DEF Steps
    <3>2. Root \in Live(g)
      BY <1>17 DEF Formed
    <3> QED BY <3>1, <3>2, <1>15 DEF Keeps
  <2> QED BY <2>1, <2>2, <2>3, <2>4 DEF Program
<1>20. CacheIsCurrent'
  <2> SUFFICES ASSUME NEW f \in Families, NEW s \in {origin'[f], cache'[f]} \ {None}
               PROVE  Projected(f)' # {} /\ g[s].expands = {f}
    BY <1>5 DEF CacheIsCurrent
  <2>1. s \in Storages /\ Projected(f) # {} /\ heap[s].expands = {f} /\ s \in Live(g)
    <3>1. CASE s = origin'[f]
      <4>1. s = origin[f] /\ s \in Storages
        BY <3>1, <1>3, <1>8 DEF Typed, Pointers
      <4>2. g[s] # Blank
        BY <3>1, <4>1, <1>1, <1>5 DEF Reachable
      <4>3. s \in Live(g)
        BY <4>1, <4>2, <1>14 DEF Spared
      <4> QED BY <4>1, <4>3, <1>3 DEF CacheIsCurrent
    <3>2. CASE s = cache'[f]
      <4>1. s \in Storages
        BY <3>2, <1>1, <1>4 DEF Pointers
      <4>2. Projected(f) # {} /\ heap[s].expands = {f}
        <5>1. CASE f \in Adopters(chosen)
          BY <3>2, <5>1, <1>1, <1>4
        <5>2. CASE f \notin Adopters(chosen)
          <6>1. s = cache[f]
            BY <3>2, <5>2, <1>1, <1>4
          <6> QED BY <6>1, <1>3 DEF CacheIsCurrent
        <5> QED BY <5>1, <5>2
      <4>3. Holders'[s] > 0
        BY <3>2, <4>1, <1>10, HoldersCount DEF Typed, Holders
      <4>4. s \in Live(g)
        BY <4>1, <4>3, <1>11, <1>14, OwnedIsLive
      <4> QED BY <4>1, <4>2, <4>4
    <3> QED BY <3>1, <3>2
  <2>2. g[s].expands = {f}
    BY <2>1, <1>15 DEF Keeps
  <2>3. Projected(f)' = Projected(f)
    BY <1>2 DEF Projected
  <2> QED BY <2>1, <2>2, <2>3
<1>21. HeapInv(heap', Holders') /\ Dormant(heap') = {} /\ Program(heap', Holders', origin', step', queue')
    BY <1>5, <1>11, <1>14, <1>19
<1> QED BY <1>10, <1>20, <1>21 DEF IInv

----------------------------------------------------------------------------
(* The queue: completion, where slots become resident and producers let go. *)

Installed == [s \in Storages |->
    IF s \in step.kept THEN [heap[s] EXCEPT !.material = "resident"] ELSE heap[s]]
Detached == [s \in Storages |->
    IF s \in step.computed THEN [Installed[s] EXCEPT !.inputs = <<>>] ELSE Installed[s]]
Consumed == [s \in Storages |-> StorageUseCount(s)]

\* What completion makes of the cells, before the producers release.
LEMMA DetachedKeeps ==
    ASSUME HeapTyped(heap), NEW h, h = Detached, NEW t \in Storages
    PROVE  /\ h[t] \in Cells /\ h[t].refs = heap[t].refs /\ h[t].shape = heap[t].shape /\ h[t].expands = heap[t].expands
           /\ t \in step.kept => h[t].material = "resident"
           /\ t \notin step.kept => h[t].material = heap[t].material
           /\ t \in step.computed => h[t].inputs = <<>>
           /\ t \notin step.computed => h[t].inputs = heap[t].inputs
           /\ t \notin step.kept /\ t \notin step.computed => h[t] = heap[t]
           /\ Len(h[t].inputs) <= 2
<1>1. PICK c \in Cells : c = heap[t] /\ Len(c.inputs) <= 2
    BY DEF HeapTyped
<1>2. PICK i : i = Installed[t]
    OBVIOUS
<1>3. /\ i \in Cells /\ i.refs = c.refs /\ i.shape = c.shape /\ i.expands = c.expands /\ i.inputs = c.inputs
      /\ t \in step.kept => i.material = "resident"
      /\ t \notin step.kept => i = c
  <2>1. CASE t \in step.kept
    <3>1. i = [c EXCEPT !.material = "resident"]
      BY <1>1, <1>2, <2>1 DEF Installed
    <3> QED BY <3>1, <2>1 DEF Cells
  <2>2. CASE t \notin step.kept
    BY <1>1, <1>2, <2>2 DEF Installed
  <2> QED BY <2>1, <2>2
<1>4. CASE t \in step.computed
  <2>1. h[t] = [i EXCEPT !.inputs = <<>>]
    BY <1>2, <1>4 DEF Detached
  <2>2. <<>> \in Seq(Storages) /\ Len(<<>>) <= 2
    OBVIOUS
  <2>3. /\ h[t] \in Cells /\ h[t].refs = i.refs /\ h[t].shape = i.shape /\ h[t].expands = i.expands
        /\ h[t].material = i.material /\ h[t].inputs = <<>>
    BY <2>1, <2>2, <1>3 DEF Cells
  <2> QED BY <2>2, <2>3, <1>1, <1>3, <1>4
<1>5. CASE t \notin step.computed
  <2>1. h[t] = i
    BY <1>2, <1>5 DEF Detached
  <2> QED BY <2>1, <1>1, <1>3, <1>5
<1> QED BY <1>4, <1>5

\* The steps of a completion, by name.
LEMMA CompleteIs ==
    ASSUME Complete
    PROVE  /\ heap' = Release(Detached, Consumed) /\ origin' = Reachable(origin, heap') /\ step.at = "executing"
           /\ step' = [step EXCEPT !.at = "materialized"]
           /\ UNCHANGED <<current, open, cache, leaving, queue, drains>>
<1>1. Completed = Release(Detached, Consumed)
    BY DEF Completed, Detached, Installed, Consumed
<1> QED BY <1>1 DEF Complete, Becomes

\* A completed program leaves its root resident, and of the slots it computed
\* and did not retain, nothing.
LEMMA CompleteKeeps ==
    ASSUME IInv, Complete
    PROVE  IInv'
<1>1. /\ heap' = Release(Detached, Consumed) /\ origin' = Reachable(origin, heap') /\ step.at = "executing"
      /\ step' = [step EXCEPT !.at = "materialized"]
      /\ UNCHANGED <<current, open, cache, leaving, queue, drains>>
    BY CompleteIs
<1>2. /\ Typed /\ Named /\ HeapInv(heap, Holders) /\ Dormant(heap) = {} /\ CacheIsCurrent
      /\ Holders \in Counts /\ HeapTyped(heap) /\ queue # <<>> /\ queue \in Seq(Storages)
      /\ Formed(heap, step, Root) /\ Root \in step.kept /\ step.kept \subseteq step.slots
      /\ \A s \in step.slots \ step.kept : Lonely(heap, Holders, origin, step.computed, s)
    BY <1>1, NowIsReady DEF IInv, Program, Typed, Root
<1>3. PICK g : g = heap'
    OBVIOUS
<1>4. PICK h : h = Detached
    OBVIOUS
<1>5. /\ step.slots \subseteq Live(heap) /\ step.computed \subseteq step.slots
      /\ step.computed \in SUBSET Storages /\ Live(heap) \in SUBSET Storages
    BY <1>2 DEF Formed, Live
<1>6. PICK b \in Counts : b = Consumed
  <2>1. \A t \in Storages : StorageUseCount(t) \in Nat
    BY <1>5, UsesCount DEF StorageUseCount
  <2>2. Consumed \in Counts
    BY <2>1 DEF Consumed, Counts
  <2> QED BY <2>2
<1>7. \A t \in Storages : b[t] = Uses(heap, step.computed, t)
    BY <1>6 DEF Consumed, StorageUseCount
<1>8. ASSUME NEW t \in Storages
      PROVE  /\ h[t] \in Cells /\ h[t].refs = heap[t].refs /\ h[t].expands = heap[t].expands
             /\ t \in step.kept => h[t].material = "resident"
             /\ t \notin step.kept => h[t].material = heap[t].material
             /\ t \in step.computed => h[t].inputs = <<>>
             /\ t \notin step.computed => h[t].inputs = heap[t].inputs
             /\ t \notin step.kept /\ t \notin step.computed => h[t] = heap[t]
             /\ Len(h[t].inputs) <= 2
    BY <1>2, <1>4, DetachedKeeps
<1>9. HeapTyped(h)
  <2>1. h = [t \in Storages |-> h[t]]
    BY <1>4 DEF Detached
  <2> QED BY <2>1, <1>8 DEF HeapTyped
<1>10. Live(h) = Live(heap)
    BY <1>8 DEF Live
<1>11. Dormant(h) = {}
  <2> SUFFICES ASSUME NEW s \in Storages, h[s].refs = 0 PROVE h[s] = Blank
    BY DEF Dormant
  <2>1. s \notin Live(heap) /\ heap[s].refs = 0
    BY <1>8 DEF Live
  <2>2. heap[s] = Blank
    BY <2>1, <1>2 DEF Dormant
  <2> QED BY <2>1, <2>2, <1>2, <1>5, <1>8
<1>12. ASSUME NEW t \in Storages
       PROVE  heap[t].refs = Holders[t] + (b[t] + Uses(h, Live(h), t))
  <2>1. PICK all, some, rest : all = Live(heap) /\ some = step.computed /\ rest = Live(heap) \ step.computed
    OBVIOUS
  <2>2. all \in SUBSET Storages /\ some \in SUBSET all /\ some \in SUBSET Storages /\ rest = all \ some /\ rest \in SUBSET Storages
    BY <2>1, <1>5
  <2>3. PICK a : a = heap
    OBVIOUS
  <2>4. /\ Uses(a, all, t) = Uses(a, some, t) + Uses(a, rest, t)
        /\ Uses(h, all, t) = Uses(h, some, t) + Uses(h, rest, t)
    <3>1. Uses(a, all, t) = Uses(a, some, t) + Uses(a, all \ some, t)
      BY <2>2, UsesGrow
    <3>2. Uses(h, all, t) = Uses(h, some, t) + Uses(h, all \ some, t)
      BY <2>2, UsesGrow
    <3> QED BY <3>1, <3>2, <2>2
  <2>5. Uses(h, rest, t) = Uses(a, rest, t)
    <3>1. \A c \in rest : h[c].inputs = a[c].inputs
      BY <2>1, <2>2, <2>3, <1>8
    <3> QED BY ONLY <2>2, <3>1, UsesSame
  <2>6. Uses(h, some, t) = 0
    <3>1. \A c \in some : h[c].inputs = <<>>
      BY <2>1, <2>2, <1>8
    <3>2. \A c \in some : ~(t \in Inputs(h, c))
      BY <3>1 DEF Inputs
    <3>3. ~(Uses(h, some, t) > 0) /\ Uses(h, some, t) \in Nat
      BY <2>2, <3>2, <1>9, UsesMean, UsesCount
    <3> QED BY <3>3
  <2>7. Uses(a, some, t) \in Nat /\ Uses(a, rest, t) \in Nat
    BY <2>2, UsesCount
  <2>8. heap[t].refs = Holders[t] + Uses(a, all, t) /\ b[t] = Uses(a, some, t) /\ Live(h) = all
    BY <2>1, <2>3, <1>2, <1>7, <1>10 DEF HeapInv, Balanced
  <2>9. Uses(h, Live(h), t) = Uses(h, all, t) /\ Holders[t] \in Nat
    BY <2>8, <1>2 DEF Counts
  <2> QED BY ONLY <2>4, <2>5, <2>6, <2>7, <2>8, <2>9
<1>13. PICK y \in Counts : y = Holders
    BY <1>2
<1>14. Balanced(h, Both(y, b))
  <2> SUFFICES ASSUME NEW t \in Storages PROVE h[t].refs = (y[t] + b[t]) + Uses(h, Live(h), t)
    BY DEF Balanced, Both
  <2>1. h[t].refs = y[t] + (b[t] + Uses(h, Live(h), t))
    BY <1>8, <1>12, <1>13
  <2>2. Live(h) \in SUBSET Storages
    BY DEF Live
  <2>3. y[t] \in Nat /\ b[t] \in Nat /\ Uses(h, Live(h), t) \in Nat
    BY <2>2, UsesCount DEF Counts
  <2> QED BY ONLY <2>1, <2>3
<1>15. /\ HeapTyped(g) /\ Balanced(g, y) /\ Dormant(g) = {} /\ \A s \in Storages : Spared(h, g, s)
  <2>1. g = Release(h, b)
    BY <1>1, <1>3, <1>4, <1>6
  <2> QED BY <2>1, <1>9, <1>11, <1>14, ReleaseBalances
<1>16. \A s \in Storages : g[s] # Blank => s \in Live(heap) /\ s \in Live(g) /\ Keeps(h, g, s)
    BY <1>10, <1>15 DEF Spared
<1>17. \A s \in Live(g) : s \in Storages /\ Keeps(h, g, s)
    BY <1>16, BlankCell DEF Live
<1>18. ASSUME NEW s \in step.slots \ step.kept PROVE s \notin Live(g)
  <2>1. Lonely(heap, Holders, origin, step.computed, s) /\ s \in Storages
    BY <1>2, <1>5
  <2>2. y[s] = 0
    BY <2>1, <1>13 DEF Lonely
  <2>3. ASSUME NEW c \in Live(g), s \in Inputs(g, c) PROVE FALSE
    <3>1. c \in Storages /\ s \in Inputs(h, c)
      BY <2>3, <1>17 DEF Keeps, Inputs
    <3>2. c \notin step.computed
      BY <3>1, <1>8 DEF Inputs
    <3>3. s \in Inputs(heap, c)
      BY <3>1, <3>2, <1>8 DEF Inputs
    <3> QED BY <2>1, <3>1, <3>2, <3>3 DEF Lonely
  <2>4. Live(g) \in SUBSET Storages
    BY DEF Live
  <2>5. ~(Uses(g, Live(g), s) > 0) /\ Uses(g, Live(g), s) \in Nat
    BY <2>3, <2>4, <1>15, UsesMean, UsesCount
  <2>6. g[s].refs = y[s] + Uses(g, Live(g), s)
    BY <2>1, <1>15 DEF Balanced
  <2>7. g[s].refs = 0
    BY <2>2, <2>5, <2>6
  <2> QED BY <2>7 DEF Live
<1>19. Computable(g)
  <2> SUFFICES ASSUME NEW s \in Storages, g[s] # Blank PROVE g[s].material # "none" \/ g[s].inputs # <<>>
    BY DEF Computable
  <2>1. s \in Live(heap) /\ s \in Live(g) /\ Keeps(h, g, s)
    BY <1>16
  <2>2. CASE s \in step.kept
    BY <2>1, <2>2, <1>8 DEF Keeps
  <2>3. CASE s \notin step.kept
    <3>1. s \notin step.computed
      BY <2>1, <2>3, <1>5, <1>18
    <3>2. h[s] = heap[s]
      BY <2>3, <3>1, <1>8
    <3>3. heap[s] # Blank
      BY <2>1, BlankCell DEF Live
    <3> QED BY <2>1, <3>2, <3>3, <1>2 DEF HeapInv, Computable, Keeps
  <2> QED BY <2>2, <2>3
<1>20. HeapInv(g, y)
    BY <1>15, <1>19 DEF HeapInv, Expansions
<1>21. Holders' = Holders
    BY <1>1 DEF Holders, HoldersOf
<1>22. origin' \in Pointers /\ \A f \in Families : origin'[f] \in {origin[f], None}
    BY <1>1, <1>2 DEF Reachable, Typed, Pointers
<1>23. step' \in Steps /\ step'.at = "materialized"
  <2>1. step \in Steps
    BY <1>2 DEF Typed
  <2> QED BY <2>1, <1>1 DEF Steps
<1>24. Typed' /\ Named'
    BY <1>1, <1>2, <1>22, <1>23 DEF Typed, Named
<1>25. Program(heap', Holders', origin', step', queue')
  <2>1. Root \in Storages /\ Root \in step.kept
    BY <1>2, <1>5
  <2>2. y[Root] > 0
    <3>1. Holders[Root] > 0
      BY <1>2, NowIsReady DEF Root
    <3> QED BY <3>1, <1>13
  <2>3. Root \in Live(g)
    BY <2>1, <2>2, <1>15, OwnedIsLive
  <2>4. g[Root].material = "resident"
    BY <2>1, <2>3, <1>8, <1>17 DEF Keeps
  <2>5. queue' # <<>> /\ Head(queue') = Root
    BY <1>1, <1>2 DEF Root
  <2> QED BY <2>4, <2>5, <1>3, <1>23 DEF Program
<1>26. CacheIsCurrent'
  <2> SUFFICES ASSUME NEW f \in Families, NEW s \in {origin'[f], cache'[f]} \ {None}
               PROVE  Projected(f)' # {} /\ g[s].expands = {f}
    BY <1>3 DEF CacheIsCurrent
  <2>1. s \in Storages /\ Projected(f) # {} /\ heap[s].expands = {f} /\ s \in Live(g)
    <3>1. CASE s = origin'[f]
      <4>1. s = origin[f] /\ s \in Storages
        BY <3>1, <1>2, <1>22 DEF Typed, Pointers
      <4>2. g[s] # Blank
        BY <3>1, <4>1, <1>1, <1>3 DEF Reachable
      <4>3. s \in Live(g)
        BY <4>1, <4>2, <1>16
      <4> QED BY <4>1, <4>3, <1>2 DEF CacheIsCurrent
    <3>2. CASE s = cache'[f]
      <4>1. s = cache[f] /\ s \in Storages
        BY <3>2, <1>1, <1>2 DEF Typed, Pointers
      <4>2. Projected(f) # {} /\ heap[s].expands = {f}
        BY <4>1, <1>2 DEF CacheIsCurrent
      <4>3. Holders[s] > 0
        BY <4>1, <1>2, HoldersCount DEF Typed, Holders
      <4>4. s \in Live(g)
        BY <4>1, <4>3, <1>13, <1>15, OwnedIsLive
      <4> QED BY <4>1, <4>2, <4>4
    <3> QED BY <3>1, <3>2
  <2>2. g[s].expands = {f}
    BY <2>1, <1>8, <1>17 DEF Keeps
  <2>3. Projected(f)' = Projected(f)
    BY <1>1 DEF Projected
  <2> QED BY <2>1, <2>2, <2>3
<1>27. HeapInv(heap', Holders') /\ Dormant(heap') = {}
    BY <1>3, <1>13, <1>15, <1>20, <1>21
<1> QED BY <1>24, <1>25, <1>26, <1>27 DEF IInv

----------------------------------------------------------------------------
(* The theorems.                                                            *)

\* Initially there is nothing.
LEMMA InitHolds ==
    ASSUME Init
    PROVE  IInv
<1>1. /\ current = [f \in Families |-> None] /\ open = [f \in Families |-> {}]
      /\ origin = [f \in Families |-> None] /\ cache = [f \in Families |-> None]
      /\ heap = [s \in Storages |-> Blank] /\ leaving = NoRefs /\ queue = <<>> /\ step = Idle /\ drains = NoRefs
    BY DEF Init
<1>2. NoRefs \in Counts /\ Idle \in Steps /\ <<>> \in Seq(Storages)
    BY DEF NoRefs, Counts, Idle, Steps
<1>3. Typed /\ Named
    BY <1>1, <1>2 DEF Typed, Named, Pointers
<1>4. HeapTyped(heap) /\ Live(heap) = {} /\ Dormant(heap) = {} /\ Computable(heap) /\ Expansions(heap)
    BY <1>1, BlankCell DEF HeapTyped, Live, Dormant, Computable, Expansions
<1>5. Balanced(heap, Holders)
  <2> SUFFICES ASSUME NEW t \in Storages PROVE heap[t].refs = Holders[t] + Uses(heap, Live(heap), t)
    BY DEF Balanced
  <2>1. heap[t].refs = 0
    BY <1>1, BlankCell
  <2>2. Cardinality({}) = 0 /\ {} \in SUBSET Storages
    BY FS_EmptySet
  <2>3. First(heap, {}, t) = {} /\ Second(heap, {}, t) = {}
    BY DEF First, Second
  <2>4. Uses(heap, {}, t) = 0
    BY <2>2, <2>3, UsesCount
  <2>5. t # None
    BY DEF Storages, None
  <2>6. Places(current, t) = {} /\ Places(cache, t) = {} /\ Places(queue, t) = {}
    BY <1>1, <2>5 DEF Places
  <2>7. Held(current, t) = 0 /\ Held(cache, t) = 0 /\ Held(queue, t) = 0
    BY <2>2, <2>6 DEF Held
  <2>8. drains[t] = 0 /\ leaving[t] = 0
    BY <1>1 DEF NoRefs
  <2>9. Holders[t] = Held(current, t) + Held(cache, t) + Held(queue, t) + drains[t] + leaving[t]
    BY DEF Holders, HoldersOf
  <2>10. Holders[t] = 0
    BY ONLY <2>7, <2>8, <2>9
  <2> QED BY <2>1, <2>4, <2>10, <1>4
<1>6. CacheIsCurrent
    BY <1>1 DEF CacheIsCurrent
<1>7. Program(heap, Holders, origin, step, queue)
    BY <1>1 DEF Program, Idle
<1> QED BY <1>3, <1>4, <1>5, <1>6, <1>7 DEF IInv, HeapInv

\* A step that changes nothing keeps the invariant.
LEMMA StutterKeeps ==
    ASSUME IInv, UNCHANGED vars
    PROVE  IInv'
<1>1. /\ current' = current /\ open' = open /\ origin' = origin /\ cache' = cache /\ heap' = heap
      /\ leaving' = leaving /\ queue' = queue /\ step' = step /\ drains' = drains
    BY DEF vars
<1>2. Holders' = Holders
    BY <1>1 DEF Holders, HoldersOf
<1>3. /\ Typed /\ Named /\ HeapInv(heap, Holders) /\ Dormant(heap) = {} /\ CacheIsCurrent
      /\ Program(heap, Holders, origin, step, queue)
    BY DEF IInv
<1>4. Typed' /\ Named' /\ CacheIsCurrent'
    BY <1>1, <1>3 DEF Typed, Named, CacheIsCurrent, Projected
<1>5. HeapInv(heap', Holders') /\ Dormant(heap') = {} /\ Program(heap', Holders', origin', step', queue')
    BY <1>1, <1>2, <1>3
<1> QED BY <1>4, <1>5 DEF IInv

\* Every step keeps the invariant, when no copy takes an unowned projection.
LEMMA NextKeeps ==
    ASSUME CopiesProjections = FALSE, IInv, Next
    PROVE  IInv'
<1>1. CASE UserCall
  <2>1. leaving = NoRefs
    BY <1>1 DEF UserCall, Returned
  <2>2. ASSUME NEW f \in Retired,
               \/ \E shape \in Leaves : Tensor(f, shape)
               \/ \E g \in Families : \E j \in open[g] :
                    \/ Sum(f, g, j) \/ Acquire(f, g, j)
                    \/ \E e \in Families : \E k \in open[e] : Add(f, g, j, e, k)
        PROVE  IInv'
    <3>1. f \in Families /\ current[f] = None
      BY DEF Retired
    <3> QED BY <2>2, <3>1, TensorKeeps, SumKeeps, AcquireKeeps, AddKeeps
  <2>3. ASSUME NEW f \in Families,
               \/ \E k \in Sizes : ExpandIncoming(f, k)
               \/ \E k \in open[f] : Observe(f, k) \/ Close(f, k)
        PROVE  IInv'
    BY <2>3, ExpandIncomingKeeps, ObserveKeeps, CloseKeeps
  <2>4. ASSUME NEW f \in Families,
               \/ CopySelf(f)
               \/ \E g \in Families : \E j \in open[g] :
                    CopyEmpty(f, g, j) \/ \E k \in open[f] : Copy(f, k, g, j)
        PROVE  IInv'
    BY <2>1, <2>4, CopySelfKeeps, CopyEmptyKeeps, CopyKeeps
  <2> QED BY <1>1, <2>2, <2>3, <2>4 DEF UserCall
<1>2. CASE WriteReturns
    BY <1>2, WriteReturnsKeeps
<1>3. CASE QueueStep
    BY <1>3, FormProgramKeeps, AdmitKeeps, CompleteKeeps, ConcludeKeeps, RetireKeeps DEF QueueStep
<1> QED BY <1>1, <1>2, <1>3 DEF Next

\* The invariant counts the owners the property names: nothing dormant, every
\* producer is live.
LEMMA InvCounts ==
    ASSUME IInv
    PROVE  RefsAreOwners
<1>1. Typed /\ HeapInv(heap, Holders) /\ HeapTyped(heap) /\ Dormant(heap) = {}
    BY NowIsReady DEF IInv
<1> SUFFICES ASSUME NEW s \in Storages
             PROVE  heap[s].refs = Owners(s) /\ (heap[s].refs = 0 => heap[s] = Blank)
    BY DEF RefsAreOwners
<1>2. heap[s].refs = Holders[s] + Uses(heap, Live(heap), s)
    BY <1>1 DEF HeapInv, Balanced
<1>3. Uses(heap, Storages, s) = Uses(heap, Live(heap), s)
  <2>1. Storages \in SUBSET Storages /\ Storages \cap Live(heap) = Live(heap)
    BY DEF Live
  <2> QED BY <2>1, <1>1, AllUses
<1>4. /\ Held(current, s) = Cardinality({f \in Families : current[f] = s})
      /\ Held(cache, s) = Cardinality({f \in Families : cache[f] = s})
      /\ Held(queue, s) = Cardinality({i \in DOMAIN queue : queue[i] = s})
  <2>1. DOMAIN current = Families /\ DOMAIN cache = Families
    BY <1>1 DEF Typed, Pointers
  <2> QED BY <2>1 DEF Held, Places
<1>5. /\ Holders[s] = Held(current, s) + Held(cache, s) + Held(queue, s) + drains[s] + leaving[s]
      /\ Held(current, s) \in Nat /\ Held(cache, s) \in Nat /\ Held(queue, s) \in Nat
      /\ drains[s] \in Nat /\ leaving[s] \in Nat
    BY <1>1, HoldersAre
<1>6. Uses(heap, Storages, s) \in Nat
    BY UsesCount
<1>7. Owners(s) = Held(current, s) + Held(cache, s) + Uses(heap, Storages, s) + Held(queue, s) + drains[s] + leaving[s]
    BY <1>4 DEF Owners
<1>8. heap[s].refs = Owners(s)
    BY ONLY <1>2, <1>3, <1>5, <1>6, <1>7
<1>9. heap[s].refs = 0 => heap[s] = Blank
    BY <1>1 DEF Dormant
<1> QED BY <1>8, <1>9

\* And it says that values survive.
LEMMA InvSurvives ==
    ASSUME IInv
    PROVE  ValuesSurvive
<1>1. /\ Typed /\ HeapInv(heap, Holders) /\ HeapTyped(heap) /\ Dormant(heap) = {} /\ Computable(heap)
      /\ Program(heap, Holders, origin, step, queue)
      /\ (step.at # "idle" => Head(queue) \in Live(heap))
    BY NowIsReady DEF IInv, HeapInv
<1>2. TypeOK
  <2>1. ASSUME NEW s \in Storages
        PROVE  /\ heap[s].refs \in Nat /\ heap[s].shape \in Shapes
               /\ Len(heap[s].inputs) <= 2 /\ Inputs(heap, s) \subseteq Storages
               /\ heap[s].material \in {"none", "host", "resident"}
               /\ heap[s].expands \subseteq Families /\ Cardinality(heap[s].expands) <= 1
    <3>1. /\ heap[s].refs \in Nat /\ heap[s].shape \in Shapes
          /\ Len(heap[s].inputs) <= 2 /\ Inputs(heap, s) \subseteq Storages
          /\ heap[s].material \in {"none", "host", "resident"}
          /\ heap[s].expands \in {{}} \cup {{f} : f \in Families}
      BY <1>1, CellFields
    <3>2. heap[s].expands \subseteq Families /\ Cardinality(heap[s].expands) <= 1
      <4>1. CASE heap[s].expands = {}
        BY <4>1, FS_EmptySet
      <4>2. ASSUME NEW f \in Families, heap[s].expands = {f}
            PROVE  heap[s].expands \subseteq Families /\ Cardinality(heap[s].expands) <= 1
        <5>1. Cardinality({f}) = 1
          BY FS_Singleton
        <5> QED BY <4>2, <5>1
      <4> QED BY <3>1, <4>1, <4>2
    <3> QED BY <3>1, <3>2
  <2> QED BY <2>1, <1>1 DEF TypeOK, Typed, Pointers, Counts, Steps
<1>3. NothingIsLost
  <2> SUFFICES ASSUME NEW s \in Storages, heap[s].refs > 0
               PROVE  heap[s].material # "none" \/ heap[s].inputs # <<>>
    BY DEF NothingIsLost
  <2>1. heap[s] # Blank
    BY BlankCell
  <2> QED BY <2>1, <1>1 DEF Computable
<1>4. InvocationStaysValid
  <2>1. ASSUME step.at \in {"formed", "executing"}
        PROVE  /\ \A s \in step.slots : heap[s].refs > 0
               /\ \A s \in step.computed : Computes(s) /\ Inputs(heap, s) \subseteq step.slots
               /\ \A s \in step.slots \ step.computed : heap[s].material # "none"
    <3>1. Formed(heap, step, Head(queue))
      BY <2>1, <1>1 DEF Program
    <3> QED BY <3>1 DEF Formed, Live, Computing, Computes
  <2>2. ASSUME step.at = "materialized" PROVE heap[Root].refs > 0 /\ heap[Root].material = "resident"
    BY <2>2, <1>1 DEF Program, Root, Live
  <2> QED BY <2>1, <2>2 DEF InvocationStaysValid
<1> QED BY <1>2, <1>3, <1>4 DEF ValuesSurvive

\* The inductive invariant of ValueLifetimes, from which the three properties follow:
\* counts are owners, the program under way lives, and caches are current.
THEOREM InvHolds ==
    ASSUME CopiesProjections = FALSE
    PROVE  Spec => []IInv
<1>1. Init => IInv
    BY InitHolds
<1>2. IInv /\ [Next]_vars => IInv'
    BY NextKeeps, StutterKeeps
<1> QED BY <1>1, <1>2, PTL DEF Spec

\* RefsAreOwners of ValueLifetimes (the counts that retaining and releasing a storage
\* keep are the number of its owners), for any number of families, storages and
\* requests, as long as no copy takes an unowned projection.
THEOREM RefsAreOwnersHolds ==
    ASSUME CopiesProjections = FALSE
    PROVE  Spec => []RefsAreOwners
<1>1. IInv => RefsAreOwners
    BY InvCounts
<1> QED BY <1>1, InvHolds, PTL

\* ValuesSurvive of ValueLifetimes: an owned storage has its numbers or can still
\* compute them, and the program under way stays executable to its completion,
\* whatever is written, reset, closed or ended early in between.
THEOREM ValuesSurviveHolds ==
    ASSUME CopiesProjections = FALSE
    PROVE  Spec => []ValuesSurvive
<1>1. IInv => ValuesSurvive
    BY InvSurvives
<1> QED BY <1>1, InvHolds, PTL

\* CacheIsCurrent of ValueLifetimes: what a family may select again expands a
\* projection of its current value, however writes, resets and releases follow.
THEOREM CacheIsCurrentHolds ==
    ASSUME CopiesProjections = FALSE
    PROVE  Spec => []CacheIsCurrent
<1>1. IInv => CacheIsCurrent
    BY DEF IInv
<1> QED BY <1>1, InvHolds, PTL
=============================================================================
