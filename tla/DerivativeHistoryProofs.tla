----------------------- MODULE DerivativeHistoryProofs -----------------------
(***************************************************************************)
(* Machine-checked proofs about DerivativeHistory, for any leaves, bounds  *)
(* and recipes: what a reverse traversal delivers is the whole gradient,   *)
(* from saved values that are current, and every handle and saved value is *)
(* given back once, wherever the traversal fails.                          *)
(*                                                                         *)
(* The history.  Edges lead to nodes recorded earlier. The references of a *)
(* node are its holder and the edges into it, so the least set a release   *)
(* spreads to loses all its references and nobody else loses an edge.      *)
(*                                                                         *)
(* The traversal.  It walks a graph that does not change under it: the     *)
(* recipes and edges (Shape); what it consumes is not part of it. The      *)
(* paths to a node are a function P of the graph, defined from the output  *)
(* down; that there is one and that the recursive Paths of the model is it *)
(* follows by induction on the numbers of the nodes. The contributions     *)
(* that have arrived are the edges out of visited nodes; what a node has   *)
(* got is the sum of P over the edges into it that have arrived, and what  *)
(* is pending is how many have not. So a node is ready when it has P.      *)
(***************************************************************************)
EXTENDS DerivativeHistory, FiniteSetTheorems, SequenceTheorems, NaturalsInduction, WellFoundedInduction, TLAPS

-----------------------------------------------------------------------------
(* Least numbers, induction and sums                                        *)

\* A set of naturals that is not empty has a least element, and Min is it.
LEMMA MinIsLeast ==
    ASSUME NEW S \in SUBSET Nat, S # {}
    PROVE  Min(S) \in S /\ \A k \in S : Min(S) <= k
<1>1. PICK x \in S : \A y \in S : ~(<<y, x>> \in OpToRel(<, Nat))
    BY WFMin, NatLessThanWellFounded, Zenon
<1>2. \A y \in S : x <= y
  <2> SUFFICES ASSUME NEW y \in S
               PROVE  x <= y
    OBVIOUS
  <2>1. ~(<<y, x>> \in {ss \in Nat \X Nat : ss[1] < ss[2]})
    BY <1>1 DEF OpToRel
  <2> QED BY <2>1
<1> QED BY <1>2 DEF Min

\* A set of numbers that holds 0 and the successor of each of its members holds all.
LEMMA Induction ==
    ASSUME NEW T \in SUBSET Nat, 0 \in T, \A n \in T : n + 1 \in T
    PROVE  T = Nat
<1> SUFFICES ASSUME Nat \ T # {} PROVE FALSE
    OBVIOUS
<1>1. PICK n \in Nat \ T : \A m \in Nat \ T : n <= m
    BY MinIsLeast, Zenon
<1>2. n # 0 /\ n - 1 \in Nat
    BY <1>1
<1>3. n - 1 \in T
    BY <1>1, <1>2
<1>4. (n - 1) + 1 = n
    BY <1>1
<1> QED BY <1>1, <1>3, <1>4

----------------------------------------------------------------------------
(* Sums over finite sets, counted.                                          *)

\* The bytes that the members of s have under w, each as a pair.
Units(w, s) == {p \in s \X Nat : 1 <= p[2] /\ p[2] <= w[p[1]]}
Weight(w, s) == Cardinality(Units(w, s))

\* One member adds its own bytes.
LEMMA WeightGrows ==
    ASSUME NEW w, NEW s, NEW x \in s, w[x] \in Nat, IsFiniteSet(Units(w, s \ {x}))
    PROVE  IsFiniteSet(Units(w, s)) /\ Weight(w, s) = w[x] + Weight(w, s \ {x})
<1> DEFINE own == {x} \X (1..w[x])
           rest == Units(w, s \ {x})
<1>1. \A p : p \in Units(w, s) <=> p \in own \/ p \in rest
    BY DEF Units
<1>2. Units(w, s) = own \cup rest
    BY <1>1
<1>3. IsFiniteSet({x}) /\ Cardinality({x}) = 1
    BY FS_Singleton
<1>4. IsFiniteSet(1..w[x]) /\ Cardinality(1..w[x]) = w[x]
    BY FS_Interval
<1>5. IsFiniteSet(own) /\ Cardinality(own) = Cardinality({x}) * Cardinality(1..w[x])
    BY <1>3, <1>4, FS_Product
<1>6. Cardinality(own) = w[x]
    BY <1>3, <1>4, <1>5
<1>7. own \cap rest = {}
    BY DEF Units
<1>8. IsFiniteSet(own \cup rest) /\ Cardinality(own \cup rest) = Cardinality(own) + Cardinality(rest) - Cardinality(own \cap rest)
    BY <1>5, FS_Union
<1>9. Cardinality(own \cap rest) = 0 /\ Cardinality(rest) \in Nat
    BY <1>7, FS_EmptySet, FS_CardinalityType
<1> HIDE DEF own, rest
<1> QED BY <1>2, <1>6, <1>8, <1>9 DEF Weight, rest

\* No members, no bytes.
LEMMA WeightOfNone ==
    ASSUME NEW w
    PROVE  IsFiniteSet(Units(w, {})) /\ Weight(w, {}) = 0
<1>1. Units(w, {}) = {}
    BY DEF Units
<1> QED BY <1>1, FS_EmptySet DEF Weight

\* Finitely many members have finitely many bytes.
LEMMA WeightIsFinite ==
    ASSUME NEW s, IsFiniteSet(s), NEW w, \A x \in s : w[x] \in Nat
    PROVE  IsFiniteSet(Units(w, s)) /\ Weight(w, s) \in Nat
<1> DEFINE T == {n \in Nat : \A r \in SUBSET s : Cardinality(r) = n => IsFiniteSet(Units(w, r))}
<1>1. 0 \in T
  <2> SUFFICES ASSUME NEW r \in SUBSET s, Cardinality(r) = 0 PROVE IsFiniteSet(Units(w, r))
    OBVIOUS
  <2>1. IsFiniteSet(r)
    BY FS_Subset
  <2>2. r = {}
    BY <2>1, FS_EmptySet
  <2> QED BY <2>2, WeightOfNone
<1>2. ASSUME NEW n \in T PROVE n + 1 \in T
  <2> SUFFICES ASSUME NEW r \in SUBSET s, Cardinality(r) = n + 1 PROVE IsFiniteSet(Units(w, r))
    OBVIOUS
  <2>1. IsFiniteSet(r)
    BY FS_Subset
  <2>2. r # {}
    BY <2>1, FS_EmptySet
  <2>3. PICK x : x \in r
    BY <2>2
  <2>4. Cardinality(r \ {x}) = Cardinality(r) - 1
    BY <2>1, <2>3, FS_RemoveElement
  <2>5. Cardinality(r \ {x}) = n /\ r \ {x} \in SUBSET s
    BY <2>4
  <2>6. IsFiniteSet(Units(w, r \ {x}))
    BY <2>5
  <2> QED BY <2>3, <2>6, WeightGrows
<1>3. T = Nat
  <2> HIDE DEF T
  <2>1. T \in SUBSET Nat
    BY DEF T
  <2> QED BY <1>1, <1>2, <2>1, Induction
<1>4. Cardinality(s) \in T
    BY <1>3, FS_CardinalityType
<1>5. IsFiniteSet(Units(w, s))
    BY <1>4
<1> QED BY <1>5, FS_CardinalityType DEF Weight

\* A fold that adds the members up in some order is a function like this.
Adds(w, S, it) ==
    it = [s \in SUBSET S |-> IF s = {} THEN 0
                             ELSE w[CHOOSE x \in s : TRUE] + it[s \ {CHOOSE x \in s : TRUE}]]

\* There is such a function.
LEMMA AddsExists ==
    ASSUME NEW S, IsFiniteSet(S), NEW w, \A x \in S : w[x] \in Nat
    PROVE  \E it : Adds(w, S, it)
<1> DEFINE it == [s \in SUBSET S |-> Weight(w, s)]
<1>1. ASSUME NEW s \in SUBSET S, s # {}
      PROVE  Weight(w, s) = w[CHOOSE x \in s : TRUE] + it[s \ {CHOOSE x \in s : TRUE}]
  <2>1. PICK c : c = CHOOSE x \in s : TRUE
    OBVIOUS
  <2>2. c \in s
    BY <1>1, <2>1
  <2>3. IsFiniteSet(s \ {c})
    BY FS_Subset
  <2>4. IsFiniteSet(Units(w, s \ {c}))
    BY <2>3, WeightIsFinite
  <2>5. Weight(w, s) = w[c] + Weight(w, s \ {c})
    <3>1. w[c] \in Nat
      BY <2>2
    <3> QED BY ONLY <2>2, <2>4, <3>1, WeightGrows
  <2>6. it[s \ {c}] = Weight(w, s \ {c})
    OBVIOUS
  <2> QED BY <2>1, <2>5, <2>6
<1>2. ASSUME NEW s \in SUBSET S, s = {} PROVE Weight(w, s) = 0
    BY <1>2, WeightOfNone
<1>3. Adds(w, S, it)
    BY <1>1, <1>2 DEF Adds
<1> QED BY <1>3

\* Whatever the order, the fold is the number of bytes.
LEMMA AddsIsWeight ==
    ASSUME NEW S, IsFiniteSet(S), NEW w, \A x \in S : w[x] \in Nat, NEW it, Adds(w, S, it)
    PROVE  it[S] = Weight(w, S)
<1> DEFINE T == {n \in Nat : \A r \in SUBSET S : Cardinality(r) = n => it[r] = Weight(w, r)}
<1>1. 0 \in T
  <2> SUFFICES ASSUME NEW r \in SUBSET S, Cardinality(r) = 0 PROVE it[r] = Weight(w, r)
    OBVIOUS
  <2>1. IsFiniteSet(r)
    BY FS_Subset
  <2>2. r = {}
    BY <2>1, FS_EmptySet
  <2>3. it[r] = 0
    BY <2>2 DEF Adds
  <2> QED BY <2>2, <2>3, WeightOfNone
<1>2. ASSUME NEW n \in T PROVE n + 1 \in T
  <2> SUFFICES ASSUME NEW r \in SUBSET S, Cardinality(r) = n + 1 PROVE it[r] = Weight(w, r)
    OBVIOUS
  <2>1. IsFiniteSet(r)
    BY FS_Subset
  <2>2. r # {}
    BY <2>1, FS_EmptySet
  <2>3. PICK x : x = CHOOSE y \in r : TRUE
    OBVIOUS
  <2>4. x \in r
    BY <2>2, <2>3
  <2>5. Cardinality(r \ {x}) = Cardinality(r) - 1
    BY <2>1, <2>4, FS_RemoveElement
  <2>6. Cardinality(r \ {x}) = n /\ r \ {x} \in SUBSET S
    BY <2>5
  <2>7. it[r \ {x}] = Weight(w, r \ {x})
    BY <2>6
  <2>8. it[r] = w[x] + it[r \ {x}]
    BY <2>2, <2>3 DEF Adds
  <2>9. IsFiniteSet(Units(w, r \ {x}))
    BY <2>6, WeightIsFinite, FS_Subset
  <2>10. Weight(w, r) = w[x] + Weight(w, r \ {x})
    <3>1. w[x] \in Nat
      BY <2>4
    <3> QED BY ONLY <2>4, <2>9, <3>1, WeightGrows
  <2> QED BY <2>7, <2>8, <2>10
<1>3. T = Nat
  <2> HIDE DEF T
  <2>1. T \in SUBSET Nat
    BY DEF T
  <2> QED BY <1>1, <1>2, <2>1, Induction
<1>4. Cardinality(S) \in T
    BY <1>3, FS_CardinalityType
<1> QED BY <1>4

-----------------------------------------------------------------------------
(* Recorded history                                                         *)

SaveOf == [position : 1..2, value : Tensors, version : Nat]
NodeOf == [recipe : {"leaf", "pass", "mul", "copy"}, inputs : {<<>>} \cup [1..2 -> 0..MaxNodes],
           saved : SUBSET SaveOf, consumed : BOOLEAN, refs : Nat, held : BOOLEAN]

HistoryTyped ==
    /\ nodes \in Seq(NodeOf) /\ version \in [Tensors -> Nat] /\ saved \in Nat
    /\ \A n \in DOMAIN nodes : IsFiniteSet(nodes[n].saved)
    /\ Len(nodes) <= MaxNodes /\ gradients \subseteq Nat

\* An edge leads to a node that was recorded earlier, and a leaf has none.
EdgesDescend ==
    \A n \in DOMAIN nodes : /\ \A p \in Edges(n) : nodes[n].inputs[p] \in 1..(n - 1)
                            /\ Leaf(n) => nodes[n].inputs = <<>> /\ nodes[n].saved = {} /\ nodes[n].held

\* The references of a node are its holder and the edges into it; one without
\* references has nothing, any other has an edge unless it is a leaf.
Referred(n) ==
    /\ nodes[n].refs = (IF nodes[n].held THEN 1 ELSE 0) + Cardinality(Into(DOMAIN nodes, n))
    /\ nodes[n].refs = 0 => nodes[n].inputs = <<>> /\ nodes[n].saved = {}
    /\ nodes[n].refs > 0 /\ ~Leaf(n) => Edges(n) # {}
    /\ nodes[n].consumed => nodes[n].saved = {}
RefsAreEdges == \A n \in DOMAIN nodes : Referred(n)

History == HistoryTyped /\ EdgesDescend /\ RefsAreEdges /\ SavesAreBalanced

-----------------------------------------------------------------------------
(* The graph that a traversal walks                                         *)

\* What a traversal leaves alone of the nodes.
Shape == [n \in DOMAIN nodes |-> [recipe |-> nodes[n].recipe, inputs |-> nodes[n].inputs]]

\* The edges from some nodes into one, and what an edge passes on.
Arcs(g, s, n) == {e \in s \X {1, 2} : e[2] \in DOMAIN g[e[1]].inputs /\ g[e[1]].inputs[e[2]] = n}
Share(g, e) == IF g[e[1]].recipe = "copy" /\ e[2] = 1 THEN 0 ELSE 1
Flow(g, P) == [e \in (DOMAIN g) \X {1, 2} |-> Share(g, e) * P[e[1]]]

\* The paths from the output of a call to each node.
PathsTo(g, c, P, n) == IF n = c.output THEN 1 ELSE Weight(Flow(g, P), Arcs(g, c.needed, n))
PathsFit(g, c, P) == P \in [DOMAIN g -> Nat] /\ \A n \in DOMAIN g : P[n] = PathsTo(g, c, P, n)

-----------------------------------------------------------------------------
(* A traversal under way                                                    *)

Handle == [weight : Nat, closes : Nat]
WalkOf(g) == [phase : {"walking"}, kind : {"grad", "backward"}, output : DOMAIN g, needed : SUBSET DOMAIN g,
              targets : SUBSET DOMAIN g, pending : [DOMAIN g -> Int], ready : SUBSET DOMAIN g,
              incoming : [DOMAIN g -> Nat], made : Seq(Handle), owned : SUBSET Nat, results : {<<>>},
              failed : BOOLEAN, late : BOOLEAN, received : [DOMAIN g -> Int], misused : {FALSE}]

\* A handle that was made is open as long as it is a temporary or the seed.
Opened(c) ==
    /\ Len(c.made) >= 1 /\ c.owned \subseteq (DOMAIN c.made) \ {1}
    /\ \A t \in DOMAIN c.made : c.made[t].closes + (IF t \in c.owned \cup {1} THEN 1 ELSE 0) = 1
    /\ \A n \in c.ready : c.incoming[n] \in DOMAIN c.made

\* The plan: all but the output are needed by a node that is.
Planned(g, c) ==
    /\ c.output \in c.needed /\ c.needed \subseteq 1..c.output /\ c.targets \subseteq c.needed /\ c.ready \subseteq c.needed
    /\ \A m \in c.needed \ {c.output} : Arcs(g, c.needed, m) # {}

\* What a visited node received.
Earned(c, P) == \A n \in DOMAIN c.received : c.received[n] # -1 => n \in c.needed /\ c.received[n] = P[n]

\* The edges whose contributions have arrived, and what they add up to.
Visited(c) == {n \in DOMAIN c.received : c.received[n] # -1}
Arrivals(c) == {e \in c.needed \X {1, 2} : e[1] \in Visited(c)}
Summed(g, P, c, D, m) ==
    /\ c.pending[m] = Cardinality(Arcs(g, c.needed, m) \ D)
    /\ c.incoming[m] \in 0..Len(c.made)
    /\ m \in Visited(c) => m \notin c.ready /\ c.incoming[m] # 0 /\ c.made[c.incoming[m]].weight = c.received[m]
    /\ m = c.output => c.incoming[m] = 1 /\ c.made[1].weight = 1 /\ m \in c.ready \cup Visited(c)
    /\ m # c.output => /\ m \in c.ready \cup Visited(c) <=> Arcs(g, c.needed, m) \subseteq D
                       /\ c.incoming[m] = 0 <=> Arcs(g, c.needed, m) \cap D = {}
                       /\ c.incoming[m] # 0 => c.made[c.incoming[m]].weight = Weight(Flow(g, P), Arcs(g, c.needed, m) \cap D)
Summing(g, P, c, D) == \A m \in c.needed : Summed(g, P, c, D, m)

WalksWith(g, P, c, D) ==
    /\ c \in WalkOf(g) /\ Opened(c) /\ Planned(g, c) /\ Earned(c, P)
    /\ ~c.failed => Summing(g, P, c, D)
Walks(g, P, c) == WalksWith(g, P, c, Arrivals(c))

\* A traversal that ended: its handles closed, and what it has to show.
Ended(P, c) ==
    /\ c.phase = "done" /\ ~c.misused /\ Earned(c, P)
    /\ c.received \in [DOMAIN P -> Int] /\ c.needed \cup c.targets \subseteq DOMAIN P
    /\ DOMAIN c.results \subseteq 1..Cardinality(c.targets)
    /\ \A t \in DOMAIN c.made : c.made[t].closes = (IF t \in ToSet(c.results) THEN 0 ELSE 1)
    /\ ~c.failed => /\ c.needed \subseteq Visited(c)
                    /\ c.kind = "grad" => Len(c.results) = Cardinality(c.targets)
                    /\ \A k \in DOMAIN c.results : c.made[c.results[k]].weight = P[SetToSeq(c.targets)[k]]

-----------------------------------------------------------------------------
(* Nodes and edges                                                          *)

\* The fields of a node.
LEMMA NodeFields ==
    ASSUME NEW x \in NodeOf
    PROVE  /\ x.inputs = <<>> \/ x.inputs \in [1..2 -> 0..MaxNodes]
           /\ x.recipe \in {"leaf", "pass", "mul", "copy"} /\ x.saved \subseteq SaveOf
           /\ x.consumed \in BOOLEAN /\ x.refs \in Nat /\ x.held \in BOOLEAN
BY DEF NodeOf

\* Nodes are numbered from 1.
LEMMA NodesAreNumbered ==
    ASSUME HistoryTyped
    PROVE  /\ DOMAIN nodes = 1..Len(nodes) /\ Len(nodes) \in Nat /\ IsFiniteSet(DOMAIN nodes)
           /\ DOMAIN nodes \subseteq 1..MaxNodes /\ MaxNodes \in Nat
           /\ \A n \in DOMAIN nodes : nodes[n] \in NodeOf /\ n \in Nat
<1>1. DOMAIN nodes = 1..Len(nodes) /\ Len(nodes) \in Nat
    BY DEF HistoryTyped
<1>2. IsFiniteSet(1..Len(nodes))
    BY <1>1, FS_Interval
<1>3. MaxNodes \in Nat /\ Len(nodes) <= MaxNodes
    BY BoundsAssumption DEF HistoryTyped
<1>4. \A n \in DOMAIN nodes : nodes[n] \in NodeOf
    BY DEF HistoryTyped
<1> QED BY <1>1, <1>2, <1>3, <1>4

\* There are two positions.
LEMMA TwoPositions == 1..2 = {1, 2} /\ IsFiniteSet(1..2) /\ IsFiniteSet({1, 2})
<1>1. \A a, b \in Int : IsFiniteSet(a..b)
    BY FS_Interval
<1>2. IsFiniteSet(1..2)
  <2>1. 1 \in Int /\ 2 \in Int
      OBVIOUS
  <2> QED BY <1>1, <2>1, Zenon
<1>3. 1..2 = {1, 2}
    OBVIOUS
<1> QED BY <1>2, <1>3

\* A node has at most two edges.
LEMMA EdgesAreTwo ==
    ASSUME NEW n \in DOMAIN nodes, nodes[n] \in NodeOf
    PROVE  /\ Edges(n) \subseteq 1..2 /\ IsFiniteSet(Edges(n)) /\ Cardinality(Edges(n)) \in Nat
           /\ nodes[n].inputs = <<>> => Edges(n) = {}
           /\ \A p \in Edges(n) : nodes[n].inputs[p] \in 1..MaxNodes
<1>1. nodes[n].inputs = <<>> \/ nodes[n].inputs \in [1..2 -> 0..MaxNodes]
    BY NodeFields
<1>2. Edges(n) \subseteq 1..2
    BY <1>1 DEF Edges
<1>3. IsFiniteSet(1..2)
    BY TwoPositions
<1>4. \A p \in Edges(n) : nodes[n].inputs[p] \in 1..MaxNodes
    BY <1>1, BoundsAssumption DEF Edges
<1>5. IsFiniteSet(Edges(n))
    BY <1>2, <1>3, FS_Subset
<1>6. nodes[n].inputs = <<>> => Edges(n) = {}
    BY DEF Edges
<1> QED BY <1>2, <1>4, <1>5, <1>6, FS_CardinalityType

\* Finitely many nodes have finitely many edges between them.
LEMMA IntoIsFinite ==
    ASSUME HistoryTyped, NEW d \in SUBSET DOMAIN nodes, NEW n
    PROVE  /\ IsFiniteSet(Into(d, n)) /\ Cardinality(Into(d, n)) \in Nat
           /\ \A c \in SUBSET d : Into(c, n) \subseteq Into(d, n) /\ Cardinality(Into(c, n)) <= Cardinality(Into(d, n))
           /\ \A c \in SUBSET d : Into(d \ c, n) = Into(d, n) \ Into(c, n)
           /\ \A c \in SUBSET d : Cardinality(Into(d \ c, n)) = Cardinality(Into(d, n)) - Cardinality(Into(c, n))
<1>1. IsFiniteSet(d)
    BY NodesAreNumbered, FS_Subset
<1>2. IsFiniteSet({1, 2})
    BY TwoPositions
<1>3. IsFiniteSet(d \X {1, 2})
    BY <1>1, <1>2, FS_Product
<1>4. IsFiniteSet(Into(d, n)) /\ Cardinality(Into(d, n)) \in Nat
  <2>1. Into(d, n) \subseteq d \X {1, 2}
      BY DEF Into
  <2> QED BY <1>3, <2>1, FS_Subset, FS_CardinalityType
<1>5. ASSUME NEW c \in SUBSET d
      PROVE  /\ Into(c, n) \subseteq Into(d, n) /\ Cardinality(Into(c, n)) <= Cardinality(Into(d, n))
             /\ Into(d \ c, n) = Into(d, n) \ Into(c, n)
             /\ Cardinality(Into(d \ c, n)) = Cardinality(Into(d, n)) - Cardinality(Into(c, n))
  <2>1. Into(c, n) \subseteq Into(d, n) /\ Into(d \ c, n) = Into(d, n) \ Into(c, n)
      BY DEF Into
  <2>2. Cardinality(Into(c, n)) <= Cardinality(Into(d, n))
      BY <1>4, <2>1, FS_Subset
  <2>3. Cardinality(Into(d, n) \ Into(c, n)) = Cardinality(Into(d, n)) - Cardinality(Into(d, n) \cap Into(c, n))
      BY <1>4, FS_Difference
  <2>4. Into(d, n) \cap Into(c, n) = Into(c, n)
      BY <2>1
  <2> QED BY <2>1, <2>2, <2>3, <2>4
<1> QED BY <1>4, <1>5

\* Edges depend on the inputs alone.
LEMMA EdgesDepend ==
    ASSUME DOMAIN nodes' = DOMAIN nodes, \A n \in DOMAIN nodes : nodes'[n].inputs = nodes[n].inputs
    PROVE  /\ \A n \in DOMAIN nodes : Edges(n)' = Edges(n)
           /\ \A d \in SUBSET DOMAIN nodes : \A n : Into(d, n)' = Into(d, n)
<1>1. \A n \in DOMAIN nodes : Edges(n)' = Edges(n)
    BY DEF Edges
<1>2. ASSUME NEW d \in SUBSET DOMAIN nodes, NEW n PROVE Into(d, n)' = Into(d, n)
  <2>1. \A e : e \in Into(d, n)' <=> e \in Into(d, n)
      BY <1>1, <1>2 DEF Into
  <2> QED BY <2>1
<1> QED BY <1>1, <1>2


\* Finitely many nodes have finitely many saved values.
LEMMA SavesAreFinite ==
    ASSUME HistoryTyped, NEW d \in SUBSET DOMAIN nodes
    PROVE  IsFiniteSet(Saves(d)) /\ Cardinality(Saves(d)) \in Nat
<1>1. IsFiniteSet(d)
    BY NodesAreNumbered, FS_Subset
<1> DEFINE F == {{n} \X nodes[n].saved : n \in d}
<1>2. IsFiniteSet(F)
  <2> DEFINE f == [n \in d |-> {n} \X nodes[n].saved]
  <2>1. f \in [d -> F] /\ \A x \in F : \E n \in d : f[n] = x
      OBVIOUS
  <2> HIDE DEF f, F
  <2>2. f \in Surjection(d, F)
      BY <2>1 DEF Surjection
  <2> QED BY <1>1, <2>2, FS_Surjection DEF ExistsSurjection
<1>3. ASSUME NEW x \in F PROVE IsFiniteSet(x)
  <2>1. PICK n \in d : x = {n} \X nodes[n].saved
      OBVIOUS
  <2>2. IsFiniteSet({n}) /\ IsFiniteSet(nodes[n].saved)
      BY FS_Singleton DEF HistoryTyped
  <2> QED BY <2>1, <2>2, FS_Product
<1>4. IsFiniteSet(UNION F)
    BY <1>2, <1>3, FS_UNION
<1> QED BY <1>4, FS_CardinalityType DEF Saves

\* Two sets of nodes with no node in common have no saved value in common.
LEMMA SavesSplit ==
    ASSUME HistoryTyped, NEW d \in SUBSET DOMAIN nodes, NEW c \in SUBSET d
    PROVE  Cardinality(Saves(d)) = Cardinality(Saves(d \ c)) + Cardinality(Saves(c))
<1>1. IsFiniteSet(Saves(d \ c)) /\ IsFiniteSet(Saves(c)) /\ Cardinality(Saves(d \ c)) \in Nat /\ Cardinality(Saves(c)) \in Nat
    BY SavesAreFinite
<1>2. Saves(d) = Saves(d \ c) \cup Saves(c)
    BY DEF Saves
<1>3. Saves(d \ c) \cap Saves(c) = {}
    BY DEF Saves
<1>4. Cardinality(Saves(d \ c) \cup Saves(c)) = Cardinality(Saves(d \ c)) + Cardinality(Saves(c)) - Cardinality(Saves(d \ c) \cap Saves(c))
    BY <1>1, FS_Union
<1>5. Cardinality(Saves(d \ c) \cap Saves(c)) = 0
    BY <1>3, FS_EmptySet
<1> QED BY <1>1, <1>2, <1>4, <1>5

\* The saved values of one node.
LEMMA SavesOfOne ==
    ASSUME HistoryTyped, NEW n \in DOMAIN nodes
    PROVE  Cardinality(Saves({n})) = Cardinality(nodes[n].saved)
<1>1. Saves({n}) = {n} \X nodes[n].saved
    BY DEF Saves
<1>2. IsFiniteSet({n}) /\ Cardinality({n}) = 1 /\ IsFiniteSet(nodes[n].saved) /\ Cardinality(nodes[n].saved) \in Nat
    BY FS_Singleton, FS_CardinalityType DEF HistoryTyped
<1>3. Cardinality({n} \X nodes[n].saved) = Cardinality({n}) * Cardinality(nodes[n].saved)
    BY <1>2, FS_Product
<1>4. \A k \in Nat : 1 * k = k
    OBVIOUS
<1> QED BY <1>1, <1>2, <1>3, <1>4

-----------------------------------------------------------------------------
(* Releasing                                                                *)

\* What a release of n takes from m grows with the nodes it reaches, and is
\* never more than m has.
LEMMA LostIsReferred ==
    ASSUME HistoryTyped, RefsAreEdges, NEW n \in DOMAIN nodes, nodes[n].held, NEW m \in DOMAIN nodes,
           NEW d \in SUBSET DOMAIN nodes, NEW c \in SUBSET d
    PROVE  /\ Lost(n, c, m) \in Nat /\ Lost(n, d, m) \in Nat /\ Lost(n, c, m) <= Lost(n, d, m)
           /\ Lost(n, d, m) <= nodes[m].refs /\ nodes[m].refs \in Nat
<1>1. Cardinality(Into(c, m)) \in Nat /\ Cardinality(Into(d, m)) \in Nat /\ Cardinality(Into(c, m)) <= Cardinality(Into(d, m))
    BY IntoIsFinite
<1>2. Cardinality(Into(DOMAIN nodes, m)) \in Nat /\ Cardinality(Into(d, m)) <= Cardinality(Into(DOMAIN nodes, m))
    BY IntoIsFinite
<1>3. nodes[m].refs = (IF nodes[m].held THEN 1 ELSE 0) + Cardinality(Into(DOMAIN nodes, m))
    BY DEF RefsAreEdges, Referred
<1>4. nodes[m].refs \in Nat
    BY NodesAreNumbered, NodeFields
<1> QED BY <1>1, <1>2, <1>3, <1>4 DEF Lost

\* What a release reaches is closed, and each node in it loses all it has.
LEMMA DeadIsLeast ==
    ASSUME HistoryTyped, RefsAreEdges, NEW n \in DOMAIN nodes, nodes[n].held
    PROVE  /\ Dead(n) \subseteq DOMAIN nodes /\ Spreads(n, Dead(n))
           /\ \A m \in Dead(n) : nodes[m].refs = Lost(n, Dead(n), m) /\ nodes[m].refs # 0
<1> DEFINE dead == Dead(n)
<1>1. dead \subseteq DOMAIN nodes /\ \A d \in SUBSET DOMAIN nodes : Spreads(n, d) => dead \subseteq d
    BY DEF Dead
<1>2. ASSUME NEW m \in DOMAIN nodes, nodes[m].refs \in 1..Lost(n, dead, m) PROVE m \in dead
  <2> SUFFICES ASSUME NEW d \in SUBSET DOMAIN nodes, Spreads(n, d) PROVE m \in d
      BY <1>2 DEF Dead
  <2>1. dead \in SUBSET d
      BY <1>1
  <2> HIDE DEF dead
  <2>2. Lost(n, dead, m) \in Nat /\ Lost(n, d, m) \in Nat /\ Lost(n, dead, m) <= Lost(n, d, m)
      BY <2>1, LostIsReferred
  <2>3. nodes[m].refs \in 1..Lost(n, d, m)
      BY <1>2, <2>2
  <2> QED BY <2>3 DEF Spreads
<1>3. Spreads(n, dead)
    BY <1>2 DEF Spreads
<1>4. ASSUME NEW m \in dead PROVE nodes[m].refs \in 1..Lost(n, dead, m)
  <2> SUFFICES ASSUME nodes[m].refs \notin 1..Lost(n, dead, m) PROVE FALSE
      OBVIOUS
  <2> PICK d : d = dead \ {m}
      OBVIOUS
  <2>1. d \in SUBSET dead /\ dead \in SUBSET DOMAIN nodes /\ d \in SUBSET DOMAIN nodes
      BY <1>1
  <2> HIDE DEF dead
  <2>2. ASSUME NEW k \in DOMAIN nodes, nodes[k].refs \in 1..Lost(n, d, k) PROVE k \in d
    <3>1. Lost(n, d, k) \in Nat /\ Lost(n, dead, k) \in Nat /\ Lost(n, d, k) <= Lost(n, dead, k)
        BY <2>1, LostIsReferred
    <3>2. nodes[k].refs \in 1..Lost(n, dead, k)
        BY <2>2, <3>1
    <3>3. k \in dead
        BY <3>2, <1>3 DEF Spreads
    <3> QED BY <3>2, <3>3
  <2>3. Spreads(n, d)
      BY <2>2 DEF Spreads
  <2>4. dead \subseteq d
      BY <1>1, <2>1, <2>3
  <2> QED BY <2>4
<1>5. ASSUME NEW m \in dead PROVE nodes[m].refs = Lost(n, dead, m) /\ nodes[m].refs # 0
  <2> HIDE DEF dead
  <2>1. Lost(n, dead, m) <= nodes[m].refs /\ nodes[m].refs \in Nat /\ Lost(n, dead, m) \in Nat
      BY <1>1, LostIsReferred
  <2> QED BY <1>4, <2>1
<1> QED BY <1>1, <1>3, <1>5

\* What a release leaves of the nodes.
LEMMA ReleaseIs ==
    ASSUME History, NEW n \in DOMAIN nodes, Release(n), NEW dead, dead = Dead(n)
    PROVE  /\ nodes[n].held /\ ~Leaf(n) /\ dead \subseteq DOMAIN nodes
           /\ DOMAIN nodes' = DOMAIN nodes /\ nodes' \in Seq(NodeOf) /\ Len(nodes') = Len(nodes)
           /\ saved' = saved - Cardinality(Saves(dead)) /\ UNCHANGED <<version, gradients, call, calls>>
           /\ \A m \in DOMAIN nodes :
                /\ Lost(n, dead, m) \in Nat /\ Lost(n, dead, m) <= nodes[m].refs
                /\ nodes'[m].refs = nodes[m].refs - Lost(n, dead, m)
                /\ nodes'[m].held = (nodes[m].held /\ m # n)
                /\ nodes'[m].recipe = nodes[m].recipe /\ nodes'[m].consumed = nodes[m].consumed
                /\ nodes'[m].saved = (IF m \in dead THEN {} ELSE nodes[m].saved)
                /\ nodes'[m].inputs = (IF m \in dead THEN <<>> ELSE nodes[m].inputs)
<1>1. HistoryTyped /\ RefsAreEdges
    BY DEF History
<1>2. /\ nodes[n].held /\ ~Leaf(n)
      /\ nodes' = [m \in DOMAIN nodes |->
              LET less == [nodes[m] EXCEPT !.refs = @ - Lost(n, dead, m), !.held = @ /\ m # n]
              IN  IF m \in dead THEN [less EXCEPT !.saved = {}, !.inputs = <<>>] ELSE less]
      /\ saved' = saved - Cardinality(Saves(dead)) /\ UNCHANGED <<version, gradients, call, calls>>
    BY DEF Release
<1>3. dead \subseteq DOMAIN nodes
    BY <1>1, <1>2, DeadIsLeast
<1>4. ASSUME NEW m \in DOMAIN nodes
      PROVE  /\ nodes'[m] \in NodeOf
             /\ Lost(n, dead, m) \in Nat /\ Lost(n, dead, m) <= nodes[m].refs
                /\ nodes'[m].refs = nodes[m].refs - Lost(n, dead, m)
                /\ nodes'[m].held = (nodes[m].held /\ m # n)
                /\ nodes'[m].recipe = nodes[m].recipe /\ nodes'[m].consumed = nodes[m].consumed
                /\ nodes'[m].saved = (IF m \in dead THEN {} ELSE nodes[m].saved)
                /\ nodes'[m].inputs = (IF m \in dead THEN <<>> ELSE nodes[m].inputs)
  <2>1. PICK k : k = nodes[m].refs - Lost(n, dead, m)
      OBVIOUS
  <2>2. PICK h : h = (nodes[m].held /\ m # n)
      OBVIOUS
  <2>3. PICK f : f = [nodes[m] EXCEPT !.refs = k, !.held = h]
      OBVIOUS
  <2>4. PICK e : e = [f EXCEPT !.saved = {}, !.inputs = <<>>]
      OBVIOUS
  <2>5. Lost(n, dead, m) \in Nat /\ Lost(n, dead, m) <= nodes[m].refs /\ nodes[m].refs \in Nat
      BY <1>1, <1>2, <1>3, LostIsReferred
  <2>6. nodes[m] \in NodeOf /\ k \in Nat /\ h \in BOOLEAN
      BY <1>1, <2>1, <2>2, <2>5, NodesAreNumbered
  <2>7. /\ f \in NodeOf /\ f.refs = k /\ f.held = h /\ f.saved = nodes[m].saved /\ f.inputs = nodes[m].inputs
        /\ f.recipe = nodes[m].recipe /\ f.consumed = nodes[m].consumed
        /\ e \in NodeOf /\ e.refs = k /\ e.held = h /\ e.saved = {} /\ e.inputs = <<>>
        /\ e.recipe = nodes[m].recipe /\ e.consumed = nodes[m].consumed
    <3>1. PICK x : x = nodes[m]
        OBVIOUS
    <3>2. x \in NodeOf /\ f = [x EXCEPT !.refs = k, !.held = h] /\ e = [f EXCEPT !.saved = {}, !.inputs = <<>>]
        BY <2>3, <2>4, <2>6, <3>1
    <3>3. /\ f \in NodeOf /\ f.refs = k /\ f.held = h /\ f.saved = x.saved /\ f.inputs = x.inputs
          /\ f.recipe = x.recipe /\ f.consumed = x.consumed
        BY <2>6, <3>2 DEF NodeOf
    <3>4. /\ e \in NodeOf /\ e.refs = k /\ e.held = h /\ e.saved = {} /\ e.inputs = <<>>
          /\ e.recipe = x.recipe /\ e.consumed = x.consumed
        BY <3>2, <3>3 DEF NodeOf
    <3> QED BY <3>1, <3>3, <3>4
  <2>8. f = [nodes[m] EXCEPT !.refs = @ - Lost(n, dead, m), !.held = @ /\ m # n]
      BY <2>1, <2>2, <2>3, <2>6 DEF NodeOf
  <2>9. nodes'[m] = IF m \in dead THEN e ELSE f
      BY <1>2, <2>4, <2>8
  <2> QED BY <2>1, <2>2, <2>5, <2>7, <2>9
<1>5. DOMAIN nodes' = DOMAIN nodes
    BY <1>2
<1>6. nodes' \in Seq(NodeOf) /\ Len(nodes') = Len(nodes)
  <2>1. DOMAIN nodes' = 1..Len(nodes) /\ Len(nodes) \in Nat
      BY <1>1, <1>5, NodesAreNumbered
  <2>2. nodes' = [m \in 1..Len(nodes) |-> nodes'[m]]
      BY <1>2, <2>1
  <2>3. nodes' \in [1..Len(nodes) -> NodeOf]
      BY <1>4, <1>5, <2>1, <2>2
  <2> QED BY <2>1, <2>3
<1> QED BY <1>2, <1>3, <1>4, <1>5, <1>6

\* A release keeps the history in order.
LEMMA ReleaseKeeps ==
    ASSUME History, NEW n \in DOMAIN nodes, Release(n)
    PROVE  History'
<1> PICK dead : dead = Dead(n)
    OBVIOUS
<1>1. HistoryTyped /\ EdgesDescend /\ RefsAreEdges /\ SavesAreBalanced
    BY DEF History
<1>2. /\ nodes[n].held /\ ~Leaf(n) /\ dead \subseteq DOMAIN nodes
      /\ DOMAIN nodes' = DOMAIN nodes /\ nodes' \in Seq(NodeOf) /\ Len(nodes') = Len(nodes)
      /\ saved' = saved - Cardinality(Saves(dead)) /\ UNCHANGED <<version, gradients, call, calls>>
    BY ReleaseIs
<1>3. \A m \in DOMAIN nodes :
                /\ Lost(n, dead, m) \in Nat /\ Lost(n, dead, m) <= nodes[m].refs
                /\ nodes'[m].refs = nodes[m].refs - Lost(n, dead, m)
                /\ nodes'[m].held = (nodes[m].held /\ m # n)
                /\ nodes'[m].recipe = nodes[m].recipe /\ nodes'[m].consumed = nodes[m].consumed
                /\ nodes'[m].saved = (IF m \in dead THEN {} ELSE nodes[m].saved)
                /\ nodes'[m].inputs = (IF m \in dead THEN <<>> ELSE nodes[m].inputs)
    BY ReleaseIs
<1>4. Spreads(n, dead) /\ \A m \in dead : nodes[m].refs = Lost(n, dead, m) /\ nodes[m].refs # 0
    BY <1>1, <1>2, DeadIsLeast
<1>5. \A m \in DOMAIN nodes : Edges(m)' = (IF m \in dead THEN {} ELSE Edges(m))
    BY <1>2, <1>3 DEF Edges
<1>6. ASSUME NEW m \in DOMAIN nodes
      PROVE  Cardinality(Into(DOMAIN nodes, m))' = Cardinality(Into(DOMAIN nodes, m)) - Cardinality(Into(dead, m))
  <2>1. \A e : e \in Into(DOMAIN nodes, m)' <=> e \in Into((DOMAIN nodes) \ dead, m)
      BY <1>2, <1>3, <1>5 DEF Into
  <2>2. Into(DOMAIN nodes, m)' = Into((DOMAIN nodes) \ dead, m)
      BY <2>1
  <2>3. Cardinality(Into((DOMAIN nodes) \ dead, m)) = Cardinality(Into(DOMAIN nodes, m)) - Cardinality(Into(dead, m))
      BY <1>1, <1>2, IntoIsFinite
  <2> QED BY <2>2, <2>3
<1>7. ASSUME NEW m \in dead PROVE ~Leaf(m)
  <2> SUFFICES ASSUME Leaf(m) PROVE FALSE
      OBVIOUS
  <2>1. nodes[m].held /\ nodes[m].inputs = <<>>
      BY <1>1, <1>2 DEF EdgesDescend
  <2>2. m # n
      BY <1>2
  <2>3. Lost(n, dead, m) = Cardinality(Into(dead, m))
    <3>1. Cardinality(Into(dead, m)) \in Nat
        BY <1>1, <1>2, IntoIsFinite
    <3> QED BY <2>2, <3>1 DEF Lost
  <2>4. nodes[m].refs = 1 + Cardinality(Into(DOMAIN nodes, m))
      BY <2>1, <1>1, <1>2 DEF RefsAreEdges, Referred
  <2>5. Cardinality(Into(dead, m)) <= Cardinality(Into(DOMAIN nodes, m)) /\ Cardinality(Into(DOMAIN nodes, m)) \in Nat
        /\ Cardinality(Into(dead, m)) \in Nat
      BY <1>1, <1>2, IntoIsFinite
  <2> QED BY <1>4, <2>3, <2>4, <2>5
<1>8. HistoryTyped'
  <2>1. \A m \in DOMAIN nodes : IsFiniteSet(nodes'[m].saved)
      BY <1>1, <1>3, FS_EmptySet DEF HistoryTyped
  <2>2. saved' \in Nat
    <3>1. Cardinality(Saves(DOMAIN nodes)) = Cardinality(Saves((DOMAIN nodes) \ dead)) + Cardinality(Saves(dead))
        BY <1>1, <1>2, SavesSplit
    <3>2. Cardinality(Saves((DOMAIN nodes) \ dead)) \in Nat /\ Cardinality(Saves(dead)) \in Nat
        BY <1>1, <1>2, SavesAreFinite
    <3> QED BY <1>1, <1>2, <3>1, <3>2 DEF SavesAreBalanced
  <2> QED BY <1>1, <1>2, <2>1, <2>2 DEF HistoryTyped
<1>9. EdgesDescend'
  <2>1. ASSUME NEW m \in DOMAIN nodes
        PROVE  /\ \A p \in Edges(m)' : nodes'[m].inputs[p] \in 1..(m - 1)
               /\ Leaf(m)' => nodes'[m].inputs = <<>> /\ nodes'[m].saved = {} /\ nodes'[m].held
    <3>1. \A p \in Edges(m)' : nodes'[m].inputs[p] \in 1..(m - 1)
        BY <1>1, <1>3, <1>5 DEF EdgesDescend
    <3>2. Leaf(m)' => Leaf(m)
        BY <1>3 DEF Leaf
    <3>3. Leaf(m) => m \notin dead /\ m # n
        BY <1>2, <1>7
    <3> QED BY <1>1, <1>3, <3>1, <3>2, <3>3 DEF EdgesDescend
  <2> QED BY <1>2, <2>1 DEF EdgesDescend
<1>10. ASSUME NEW m \in DOMAIN nodes
       PROVE  /\ nodes'[m].refs \in Nat /\ nodes[m].refs \in Nat
              /\ m \in dead => nodes'[m].refs = 0
              /\ m \notin dead => (nodes'[m].refs = 0 <=> nodes[m].refs = 0)
  <2>1. nodes[m].refs \in Nat
      BY <1>1, NodesAreNumbered, NodeFields
  <2>2. Lost(n, dead, m) \in Nat /\ Lost(n, dead, m) <= nodes[m].refs /\ nodes'[m].refs = nodes[m].refs - Lost(n, dead, m)
      BY <1>3
  <2>3. m \notin dead => ~(nodes[m].refs \in 1..Lost(n, dead, m))
      BY <1>4 DEF Spreads
  <2>4. m \in dead => nodes[m].refs = Lost(n, dead, m)
      BY <1>4
  <2> QED BY <2>1, <2>2, <2>3, <2>4
<1>11. RefsAreEdges'
  <2>1. ASSUME NEW m \in DOMAIN nodes PROVE Referred(m)'
    <3>1. Referred(m)
        BY <1>1 DEF RefsAreEdges
    <3>2. nodes'[m].refs = (IF nodes'[m].held THEN 1 ELSE 0) + Cardinality(Into(DOMAIN nodes, m))'
      <4>1. Cardinality(Into(dead, m)) \in Nat /\ Cardinality(Into(DOMAIN nodes, m)) \in Nat
          BY <1>1, <1>2, IntoIsFinite
      <4>2. Lost(n, dead, m) = (IF m = n THEN 1 ELSE 0) + Cardinality(Into(dead, m))
          BY DEF Lost
      <4>3. nodes[m].refs = (IF nodes[m].held THEN 1 ELSE 0) + Cardinality(Into(DOMAIN nodes, m))
          BY <3>1 DEF Referred
      <4>4. nodes[m].held \in BOOLEAN /\ nodes'[m].refs = nodes[m].refs - Lost(n, dead, m) /\ nodes'[m].held = (nodes[m].held /\ m # n)
          BY <1>1, <1>3, NodesAreNumbered, NodeFields
      <4>5. m = n => nodes[m].held
          BY <1>2
      <4>6. Cardinality(Into(DOMAIN nodes, m))' = Cardinality(Into(DOMAIN nodes, m)) - Cardinality(Into(dead, m))
          BY <1>6
      <4>7. PICK i : i = Cardinality(Into(DOMAIN nodes, m))
          OBVIOUS
      <4>8. PICK j : j = Cardinality(Into(DOMAIN nodes, m))'
          OBVIOUS
      <4>9. CASE m = n
        <5>1. nodes'[m].held = FALSE
            BY <4>4, <4>9, Zenon
        <5>2. nodes[m].refs = 1 + i /\ Lost(n, dead, m) = 1 + Cardinality(Into(dead, m)) /\ j = i - Cardinality(Into(dead, m))
            BY <4>2, <4>3, <4>5, <4>6, <4>7, <4>8, <4>9
        <5> QED BY <4>1, <4>4, <4>7, <4>8, <5>1, <5>2
      <4>10. CASE m # n
        <5>1. nodes'[m].held = nodes[m].held
            BY <4>4, <4>10, Zenon
        <5>2. Lost(n, dead, m) = Cardinality(Into(dead, m)) /\ j = i - Cardinality(Into(dead, m))
            BY <4>1, <4>2, <4>6, <4>7, <4>8, <4>10
        <5> QED BY <4>1, <4>3, <4>4, <4>7, <4>8, <5>1, <5>2
      <4> QED BY <4>9, <4>10
    <3>4. nodes'[m].refs = 0 => nodes'[m].inputs = <<>> /\ nodes'[m].saved = {}
        BY <1>3, <1>10, <3>1 DEF Referred
    <3>5. nodes'[m].refs > 0 /\ ~Leaf(m)' => Edges(m)' # {}
      <4>1. Leaf(m)' <=> Leaf(m)
          BY <1>3 DEF Leaf
      <4>2. nodes'[m].refs > 0 => m \notin dead /\ nodes[m].refs > 0
          BY <1>10
      <4> QED BY <1>5, <3>1, <4>1, <4>2 DEF Referred
    <3>6. nodes'[m].consumed => nodes'[m].saved = {}
        BY <1>3, <3>1 DEF Referred
    <3> QED BY <1>2, <3>2, <3>4, <3>5, <3>6 DEF Referred
  <2> QED BY <1>2, <2>1 DEF RefsAreEdges
<1>12. SavesAreBalanced'
  <2>1. Saves(DOMAIN nodes)' = Saves((DOMAIN nodes) \ dead)
    <3>1. \A e : e \in Saves(DOMAIN nodes)' <=> e \in Saves((DOMAIN nodes) \ dead)
        BY <1>2, <1>3 DEF Saves
    <3> QED BY <3>1
  <2>2. Cardinality(Saves(DOMAIN nodes)) = Cardinality(Saves((DOMAIN nodes) \ dead)) + Cardinality(Saves(dead))
      BY <1>1, <1>2, SavesSplit
  <2>3. Cardinality(Saves((DOMAIN nodes) \ dead)) \in Nat /\ Cardinality(Saves(dead)) \in Nat
      BY <1>1, <1>2, SavesAreFinite
  <2>4. saved' = Cardinality(Saves(DOMAIN nodes)')
      BY <1>1, <1>2, <2>1, <2>2, <2>3 DEF SavesAreBalanced
  <2>5. ASSUME NEW m \in DOMAIN nodes, nodes'[m].recipe = "mul"
        PROVE  Cardinality(nodes'[m].saved) = IF nodes'[m].consumed \/ nodes'[m].refs = 0 THEN 0 ELSE Cardinality(Edges(m)')
    <3>1. Cardinality(nodes[m].saved) = IF nodes[m].consumed \/ nodes[m].refs = 0 THEN 0 ELSE Cardinality(Edges(m))
        BY <1>1, <1>3, <2>5 DEF SavesAreBalanced
    <3>2. CASE m \in dead
        BY <1>3, <1>10, <3>2, FS_EmptySet
    <3>3. CASE m \notin dead
        BY <1>3, <1>5, <1>10, <3>1, <3>3
    <3> QED BY <3>2, <3>3
  <2> QED BY <1>2, <2>4, <2>5 DEF SavesAreBalanced
<1> QED BY <1>8, <1>9, <1>11, <1>12 DEF History

-----------------------------------------------------------------------------
(* Recording                                                                *)

InputsOf(operands) == [p \in DOMAIN operands |-> IF operands[p] > 0 THEN operands[p] ELSE 0]
Links(operands, m) == {p \in DOMAIN operands : InputsOf(operands)[p] = m}
Recorded(recipe, operands) ==
    [recipe |-> recipe, inputs |-> InputsOf(operands), consumed |-> FALSE, refs |-> 1, held |-> TRUE,
     saved |-> SavedOperands(recipe, operands)]
Linked(operands, m) == [nodes[m] EXCEPT !.refs = @ + Cardinality(Links(operands, m))]

\* A product saves a value for each tracked operand, and nothing else saves any.
LEMMA SavedPerOperand ==
    ASSUME version \in [Tensors -> Nat], NEW recipe \in Recipes, NEW operands \in [1..2 -> Tensors]
    PROVE  /\ SavedOperands(recipe, operands) \subseteq SaveOf /\ IsFiniteSet(SavedOperands(recipe, operands))
           /\ Cardinality(SavedOperands(recipe, operands)) \in Nat
           /\ recipe = "mul" => Cardinality(SavedOperands(recipe, operands)) = Cardinality({q \in 1..2 : operands[q] > 0})
<1> DEFINE S == {q \in 1..2 : recipe = "mul" /\ operands[q] > 0}
           save(p) == [position |-> p, value |-> operands[3 - p], version |-> version[operands[3 - p]]]
           f == [p \in S |-> save(p)]
           saves == SavedOperands(recipe, operands)
<1>1. DOMAIN operands = 1..2
    OBVIOUS
<1>2. saves = {save(p) : p \in S}
    BY <1>1 DEF SavedOperands
<1>3. IsFiniteSet(S) /\ Cardinality(S) \in Nat
  <2>1. S \subseteq 1..2
      OBVIOUS
  <2> HIDE DEF S
  <2> QED BY <2>1, TwoPositions, FS_Subset, FS_CardinalityType
<1>4. \A p \in S : save(p) \in SaveOf
  <2> SUFFICES ASSUME NEW p \in S PROVE save(p) \in SaveOf
      OBVIOUS
  <2>1. p \in 1..2 /\ 3 - p \in 1..2
      OBVIOUS
  <2>2. operands[3 - p] \in Tensors
      BY <2>1
  <2>3. version[operands[3 - p]] \in Nat
      BY <2>2
  <2> QED BY <2>1, <2>2, <2>3 DEF SaveOf
<1>5. ExistsBijection(S, saves)
  <2>1. f \in [S -> saves] /\ \A x \in saves : \E p \in S : f[p] = x
      BY <1>2
  <2>2. \A p, q \in S : f[p] = f[q] => p = q
    <3> SUFFICES ASSUME NEW p \in S, NEW q \in S, f[p] = f[q] PROVE p = q
        OBVIOUS
    <3>1. f[p].position = p /\ f[q].position = q
        OBVIOUS
    <3> QED BY <3>1
  <2> HIDE DEF f, S, saves
  <2>3. f \in Bijection(S, saves)
      BY <2>1, <2>2 DEF Bijection, Injection, Surjection, IsInjective
  <2> QED BY <2>3 DEF ExistsBijection
<1>6. IsFiniteSet(saves) /\ Cardinality(saves) = Cardinality(S)
  <2> HIDE DEF S, saves
  <2> QED BY <1>3, <1>5, FS_Bijection
<1>7. recipe = "mul" => S = {q \in 1..2 : operands[q] > 0}
    OBVIOUS
<1>8. saves \subseteq SaveOf
    BY <1>2, <1>4
<1> HIDE DEF S
<1> QED BY <1>3, <1>6, <1>7, <1>8

\* What recording adds to the nodes.
LEMMA RecordIs ==
    ASSUME HistoryTyped, NEW recipe \in Recipes, NEW operands \in [1..2 -> Tensors],
           Record(recipe, operands), NEW N, N = Len(nodes) + 1
    PROVE  /\ N \in 1..MaxNodes /\ DOMAIN nodes' = (DOMAIN nodes) \cup {N} /\ N \notin DOMAIN nodes
           /\ nodes' \in Seq(NodeOf) /\ Len(nodes') = N
           /\ nodes'[N] = Recorded(recipe, operands) /\ \A m \in DOMAIN nodes : nodes'[m] = Linked(operands, m)
           /\ saved' = saved + Cardinality(SavedOperands(recipe, operands))
           /\ call = Idle /\ UNCHANGED <<version, gradients, call>>
           /\ operands \in [1..2 -> Tensors] /\ \E p \in 1..2 : operands[p] > 0
           /\ InputsOf(operands) \in [1..2 -> 0..Len(nodes)]
           /\ \A p \in 1..2 : operands[p] > 0 => operands[p] \in DOMAIN nodes /\ nodes[operands[p]].held
<1>1. /\ call = Idle /\ Len(nodes) < MaxNodes /\ UNCHANGED <<version, gradients, call>>
      /\ \E p \in DOMAIN operands : operands[p] > 0
      /\ \A p \in DOMAIN operands : Known(operands[p])
      /\ saved' = saved + Cardinality(SavedOperands(recipe, operands))
      /\ nodes' = Append([m \in DOMAIN nodes |-> Linked(operands, m)], Recorded(recipe, operands))
    BY DEF Record, User, Recorded, Linked, Links, InputsOf
<1>2. operands \in [1..2 -> Tensors] /\ DOMAIN operands = 1..2
    OBVIOUS
<1>3. DOMAIN nodes = 1..Len(nodes) /\ Len(nodes) \in Nat /\ MaxNodes \in Nat
    BY NodesAreNumbered
<1>4. ASSUME NEW p \in 1..2, operands[p] > 0 PROVE operands[p] \in DOMAIN nodes /\ nodes[operands[p]].held
  <2>1. operands[p] \in Int
      BY <1>2, <1>3 DEF Tensors
  <2>2. Known(operands[p])
      BY <1>1, <1>2
  <2>3. -operands[p] \notin Nat
      BY <1>4, <2>1
  <2>4. gradients \subseteq Nat
      BY DEF HistoryTyped
  <2>5. PICK v : v = operands[p]
      OBVIOUS
  <2>6. v > 0 /\ v \in Int /\ Known(v) /\ -v \notin gradients
      BY <1>4, <2>1, <2>2, <2>3, <2>4, <2>5
  <2>7. v \in DOMAIN nodes /\ nodes[v].held
      BY <2>6 DEF Known
  <2> QED BY <2>5, <2>7
<1>5. InputsOf(operands) \in [1..2 -> 0..Len(nodes)]
    BY <1>2, <1>3, <1>4 DEF InputsOf
<1>6. Recorded(recipe, operands) \in NodeOf
  <2>1. InputsOf(operands) \in [1..2 -> 0..MaxNodes]
    <3>1. Len(nodes) \in Nat /\ MaxNodes \in Nat /\ Len(nodes) < MaxNodes
        BY <1>1, <1>3
    <3>2. 0..Len(nodes) \subseteq 0..MaxNodes
        BY <3>1
    <3> QED BY <1>5, <3>2
  <2>2. SavedOperands(recipe, operands) \subseteq SaveOf
      BY <1>2, SavedPerOperand DEF HistoryTyped
  <2>3. recipe \in {"pass", "mul", "copy"}
      BY BoundsAssumption
  <2> QED BY <2>1, <2>2, <2>3 DEF NodeOf, Recorded
<1>7. ASSUME NEW m \in DOMAIN nodes PROVE Linked(operands, m) \in NodeOf
  <2>1. nodes[m] \in NodeOf
      BY DEF HistoryTyped
  <2>2. Cardinality(Links(operands, m)) \in Nat
    <3>1. Links(operands, m) \subseteq 1..2
        BY <1>2 DEF Links
    <3> QED BY <3>1, TwoPositions, FS_Subset, FS_CardinalityType
  <2> QED BY <2>1, <2>2 DEF NodeOf, Linked
<1> DEFINE linked == [m \in DOMAIN nodes |-> Linked(operands, m)]
<1>8. linked \in Seq(NodeOf) /\ Len(linked) = Len(nodes)
    BY <1>3, <1>7
<1>9. \A m \in DOMAIN nodes : linked[m] = Linked(operands, m)
    OBVIOUS
<1> HIDE DEF linked
<1>10. nodes' = Append(linked, Recorded(recipe, operands))
    BY <1>1 DEF linked
<1>11. /\ nodes' \in Seq(NodeOf) /\ Len(nodes') = N /\ nodes'[N] = Recorded(recipe, operands)
       /\ \A m \in DOMAIN nodes : nodes'[m] = linked[m]
    BY <1>3, <1>6, <1>8, <1>10
<1>12. N \in 1..MaxNodes /\ DOMAIN nodes' = (DOMAIN nodes) \cup {N} /\ N \notin DOMAIN nodes
    BY <1>1, <1>3, <1>11
<1> QED BY <1>1, <1>2, <1>4, <1>5, <1>9, <1>11, <1>12

\* Recording keeps the history in order.
LEMMA RecordKeeps ==
    ASSUME History, NEW recipe \in Recipes, NEW a \in Tensors, NEW b \in Tensors, Record(recipe, <<a, b>>)
    PROVE  History'
<1> PICK operands : operands = <<a, b>>
    OBVIOUS
<1> PICK N : N = Len(nodes) + 1
    OBVIOUS
<1>1. HistoryTyped /\ EdgesDescend /\ RefsAreEdges /\ SavesAreBalanced
    BY DEF History
<1>2. /\ N \in 1..MaxNodes /\ DOMAIN nodes' = (DOMAIN nodes) \cup {N} /\ N \notin DOMAIN nodes
      /\ nodes' \in Seq(NodeOf) /\ Len(nodes') = N
      /\ nodes'[N] = Recorded(recipe, operands) /\ \A m \in DOMAIN nodes : nodes'[m] = Linked(operands, m)
      /\ saved' = saved + Cardinality(SavedOperands(recipe, operands))
      /\ UNCHANGED <<version, gradients>>
      /\ operands \in [1..2 -> Tensors] /\ \E p \in 1..2 : operands[p] > 0
      /\ InputsOf(operands) \in [1..2 -> 0..Len(nodes)]
      /\ \A p \in 1..2 : operands[p] > 0 => operands[p] \in DOMAIN nodes /\ nodes[operands[p]].held
  <2>1. Record(recipe, operands)
      BY Zenon
  <2>2. operands \in [1..2 -> Tensors]
      OBVIOUS
  <2> QED BY <1>1, <2>1, <2>2, RecordIs
<1>3. /\ DOMAIN nodes = 1..Len(nodes) /\ Len(nodes) \in Nat /\ IsFiniteSet(DOMAIN nodes)
      /\ \A n \in DOMAIN nodes : nodes[n] \in NodeOf /\ n \in Nat
    BY <1>1, NodesAreNumbered
<1>4. /\ SavedOperands(recipe, operands) \subseteq SaveOf /\ IsFiniteSet(SavedOperands(recipe, operands))
      /\ Cardinality(SavedOperands(recipe, operands)) \in Nat
      /\ recipe = "mul" => Cardinality(SavedOperands(recipe, operands)) = Cardinality({q \in 1..2 : operands[q] > 0})
    BY <1>1, <1>2, SavedPerOperand DEF HistoryTyped
<1>5. ASSUME NEW m \in DOMAIN nodes
      PROVE  /\ nodes'[m].recipe = nodes[m].recipe /\ nodes'[m].inputs = nodes[m].inputs /\ nodes'[m].saved = nodes[m].saved
             /\ nodes'[m].consumed = nodes[m].consumed /\ nodes'[m].held = nodes[m].held
             /\ nodes'[m].refs = nodes[m].refs + Cardinality(Links(operands, m))
             /\ Edges(m)' = Edges(m)
  <2>1. nodes'[m] = Linked(operands, m) /\ nodes[m] \in NodeOf
      BY <1>2, <1>3
  <2>2. /\ nodes'[m].recipe = nodes[m].recipe /\ nodes'[m].inputs = nodes[m].inputs /\ nodes'[m].saved = nodes[m].saved
             /\ nodes'[m].consumed = nodes[m].consumed /\ nodes'[m].held = nodes[m].held
             /\ nodes'[m].refs = nodes[m].refs + Cardinality(Links(operands, m))
      BY <2>1 DEF NodeOf, Linked
  <2> QED BY <2>2 DEF Edges
<1>6. /\ nodes'[N].recipe = recipe /\ nodes'[N].inputs = InputsOf(operands) /\ nodes'[N].consumed = FALSE
      /\ nodes'[N].refs = 1 /\ nodes'[N].held = TRUE /\ nodes'[N].saved = SavedOperands(recipe, operands)
    BY <1>2 DEF Recorded
<1>7. recipe \in {"pass", "mul", "copy"}
    BY BoundsAssumption
<1>8. /\ \A p \in 1..2 : InputsOf(operands)[p] = (IF operands[p] > 0 THEN operands[p] ELSE 0)
      /\ DOMAIN operands = 1..2 /\ DOMAIN InputsOf(operands) = 1..2
    BY <1>2 DEF InputsOf
<1>9. Edges(N)' = {q \in 1..2 : operands[q] > 0}
  <2>1. \A q \in 1..2 : InputsOf(operands)[q] # 0 <=> operands[q] > 0
      BY <1>8
  <2> QED BY <1>6, <1>8, <2>1 DEF Edges
<1>10. HistoryTyped'
  <2>1. \A m \in DOMAIN nodes' : IsFiniteSet(nodes'[m].saved)
      BY <1>1, <1>2, <1>4, <1>5, <1>6 DEF HistoryTyped
  <2>2. saved' \in Nat
    <3>1. saved \in Nat /\ saved' = saved + Cardinality(SavedOperands(recipe, operands))
        BY <1>1, <1>2 DEF HistoryTyped
    <3> QED BY ONLY <1>4, <3>1
  <2>3. nodes' \in Seq(NodeOf) /\ Len(nodes') <= MaxNodes
      BY <1>2
  <2>4. version' \in [Tensors -> Nat] /\ gradients' \subseteq Nat
      BY <1>1, <1>2 DEF HistoryTyped
  <2> QED BY <2>1, <2>2, <2>3, <2>4 DEF HistoryTyped
<1>11. EdgesDescend'
  <2>1. ASSUME NEW m \in DOMAIN nodes
        PROVE  /\ \A p \in Edges(m)' : nodes'[m].inputs[p] \in 1..(m - 1)
               /\ Leaf(m)' => nodes'[m].inputs = <<>> /\ nodes'[m].saved = {} /\ nodes'[m].held
      BY <1>1, <1>5 DEF EdgesDescend, Leaf
  <2>2. \A p \in Edges(N)' : nodes'[N].inputs[p] \in 1..(N - 1)
      BY <1>2, <1>3, <1>6, <1>8, <1>9
  <2>3. ~Leaf(N)'
      BY <1>6, <1>7 DEF Leaf
  <2> QED BY <1>2, <2>1, <2>2, <2>3 DEF EdgesDescend
<1>12. ASSUME NEW m \in DOMAIN nodes'
       PROVE  /\ m \in DOMAIN nodes => Cardinality(Into(DOMAIN nodes, m))' = Cardinality(Into(DOMAIN nodes, m)) + Cardinality(Links(operands, m))
              /\ m = N => Cardinality(Into(DOMAIN nodes, m))' = 0
              /\ Cardinality(Links(operands, m)) \in Nat
  <2> DEFINE old == Into(DOMAIN nodes, m)
             new == {N} \X Links(operands, m)
  <2>1. Links(operands, m) \subseteq 1..2 /\ IsFiniteSet(Links(operands, m)) /\ Cardinality(Links(operands, m)) \in Nat
    <3>1. Links(operands, m) \subseteq 1..2
        BY <1>8 DEF Links
    <3> QED BY <3>1, TwoPositions, FS_Subset, FS_CardinalityType
  <2>2. m \in 1..N /\ m # 0 /\ N \in Nat
      BY <1>2, <1>3
  <2>3. \A e : e \in Into(DOMAIN nodes, m)' <=> e \in old \/ e \in new
    <3>1. \A p \in 1..2 : <<N, p>> \in Into(DOMAIN nodes, m)' <=> InputsOf(operands)[p] = m
      <4> SUFFICES ASSUME NEW p \in 1..2 PROVE <<N, p>> \in Into(DOMAIN nodes, m)' <=> InputsOf(operands)[p] = m
          OBVIOUS
      <4>1. <<N, p>> \in Into(DOMAIN nodes, m)' <=> p \in Edges(N)' /\ InputsOf(operands)[p] = m
          BY <1>2, <1>6, TwoPositions DEF Into
      <4>2. InputsOf(operands)[p] = m => p \in Edges(N)'
          BY <1>8, <1>9, <2>2
      <4> QED BY <4>1, <4>2
    <3>2. \A k \in DOMAIN nodes, p \in 1..2 : <<k, p>> \in Into(DOMAIN nodes, m)' <=> <<k, p>> \in old
        BY <1>2, <1>5, TwoPositions DEF Into
    <3>3. \A k, p : <<k, p>> \in Into(DOMAIN nodes, m)' => (k \in DOMAIN nodes \/ k = N) /\ p \in 1..2
        BY <1>2, TwoPositions DEF Into
    <3>4. \A k, p : <<k, p>> \in old => k \in DOMAIN nodes /\ p \in 1..2
        BY TwoPositions DEF Into
    <3>5. \A k, p : <<k, p>> \in new <=> k = N /\ p \in 1..2 /\ InputsOf(operands)[p] = m
        BY <1>8 DEF Links
    <3>6. \A e \in Into(DOMAIN nodes, m)' : e = <<e[1], e[2]>>
        BY DEF Into
    <3>7. \A e \in old : e = <<e[1], e[2]>>
        BY DEF Into
    <3>8. \A e \in new : e = <<e[1], e[2]>>
        OBVIOUS
    <3> HIDE DEF old, new
    <3>9. ASSUME NEW e \in Into(DOMAIN nodes, m)' PROVE e \in old \/ e \in new
      <4>1. PICK k, p : e = <<k, p>>
          BY <3>6
      <4>2. (k \in DOMAIN nodes \/ k = N) /\ p \in 1..2
          BY <3>3, <4>1
      <4>3. CASE k = N
        <5>1. InputsOf(operands)[p] = m
            BY <3>1, <4>1, <4>2, <4>3
        <5> QED BY <3>5, <4>1, <4>2, <4>3, <5>1
      <4>4. CASE k \in DOMAIN nodes
          BY <3>2, <4>1, <4>2, <4>4
      <4> QED BY <4>2, <4>3, <4>4
    <3>10. ASSUME NEW e \in old PROVE e \in Into(DOMAIN nodes, m)'
      <4>1. PICK k, p : e = <<k, p>>
          BY <3>7
      <4> QED BY <3>2, <3>4, <4>1
    <3>11. ASSUME NEW e \in new PROVE e \in Into(DOMAIN nodes, m)'
        BY <3>1, <3>5, <3>8
    <3> QED BY <3>9, <3>10, <3>11
  <2>4. Into(DOMAIN nodes, m)' = old \cup new
      BY <2>3
  <2>5. old \cap new = {}
      BY <1>2 DEF Into
  <2>6. IsFiniteSet(old) /\ Cardinality(old) \in Nat
      BY <1>1, IntoIsFinite
  <2>7. IsFiniteSet(new) /\ Cardinality(new) = Cardinality(Links(operands, m))
    <3>1. IsFiniteSet({N}) /\ Cardinality({N}) = 1
        BY FS_Singleton
    <3>2. IsFiniteSet(new) /\ Cardinality(new) = Cardinality({N}) * Cardinality(Links(operands, m))
        BY <2>1, <3>1, FS_Product
    <3>3. \A k \in Nat : 1 * k = k
        OBVIOUS
    <3> QED BY <2>1, <3>1, <3>2, <3>3
  <2> HIDE DEF old, new
  <2>8. Cardinality(old \cup new) = Cardinality(old) + Cardinality(new) - Cardinality(old \cap new)
      BY <2>6, <2>7, FS_Union
  <2>9. Cardinality(old \cap new) = 0
      BY <2>5, FS_EmptySet
  <2>10. Cardinality(Into(DOMAIN nodes, m))' = Cardinality(old) + Cardinality(Links(operands, m))
    <3>1. Cardinality(Into(DOMAIN nodes, m))' = Cardinality(old \cup new)
        BY <2>4
    <3> QED BY <2>1, <2>6, <2>7, <2>8, <2>9, <3>1
  <2>11. m = N => Cardinality(old) = 0 /\ Cardinality(Links(operands, m)) = 0
    <3> SUFFICES ASSUME m = N PROVE Cardinality(old) = 0 /\ Cardinality(Links(operands, m)) = 0
        OBVIOUS
    <3>1. old = {}
      <4>1. ASSUME NEW e \in old PROVE FALSE
        <5>1. e[1] \in DOMAIN nodes /\ e[2] \in Edges(e[1]) /\ nodes[e[1]].inputs[e[2]] = m
            BY DEF old, Into
        <5>2. m \in 1..(e[1] - 1)
            BY <1>1, <5>1 DEF EdgesDescend
        <5> QED BY <1>2, <1>3, <5>1, <5>2
      <4> QED BY <4>1
    <3>2. Links(operands, m) = {}
        BY <1>2, <1>3, <1>8 DEF Links
    <3> QED BY <3>1, <3>2, FS_EmptySet
  <2> QED BY <2>1, <2>10, <2>11 DEF old
<1>13. ASSUME NEW m \in DOMAIN nodes, nodes[m].refs = 0 PROVE Cardinality(Links(operands, m)) = 0
  <2>1. ~nodes[m].held
    <3>1. nodes[m].refs = (IF nodes[m].held THEN 1 ELSE 0) + Cardinality(Into(DOMAIN nodes, m)) /\ Cardinality(Into(DOMAIN nodes, m)) \in Nat
        BY <1>1, IntoIsFinite DEF RefsAreEdges, Referred
    <3> QED BY <1>13, <3>1
  <2>2. Links(operands, m) = {}
      BY <1>2, <1>3, <1>8, <2>1 DEF Links
  <2> QED BY <2>2, FS_EmptySet
<1>14. RefsAreEdges'
  <2>1. ASSUME NEW m \in DOMAIN nodes PROVE Referred(m)'
    <3>1. Referred(m)
        BY <1>1 DEF RefsAreEdges
    <3>2. Cardinality(Links(operands, m)) \in Nat /\ nodes[m].refs \in Nat /\ Cardinality(Into(DOMAIN nodes, m)) \in Nat
        BY <1>1, <1>2, <1>3, <1>12, IntoIsFinite, NodeFields
    <3>3. nodes'[m].refs = (IF nodes'[m].held THEN 1 ELSE 0) + Cardinality(Into(DOMAIN nodes, m))'
      <4>1. nodes[m].refs = (IF nodes[m].held THEN 1 ELSE 0) + Cardinality(Into(DOMAIN nodes, m))
          BY <3>1 DEF Referred
      <4>2. PICK i : i = (IF nodes[m].held THEN 1 ELSE 0)
          OBVIOUS
      <4>3. i \in Int
          BY <4>2
      <4>4. Cardinality(Into(DOMAIN nodes, m))' = Cardinality(Into(DOMAIN nodes, m)) + Cardinality(Links(operands, m))
          BY <1>2, <1>12
      <4>5. nodes'[m].refs = i + Cardinality(Into(DOMAIN nodes, m))'
          BY <1>5, <3>2, <4>1, <4>2, <4>3, <4>4
      <4> QED BY <1>5, <4>2, <4>5
    <3>4. nodes'[m].refs = 0 => nodes'[m].inputs = <<>> /\ nodes'[m].saved = {}
      <4>1. nodes'[m].refs = 0 => nodes[m].refs = 0
          BY <1>5, <3>2
      <4> QED BY <1>5, <3>1, <4>1 DEF Referred
    <3>5. nodes'[m].refs > 0 /\ ~Leaf(m)' => Edges(m)' # {}
      <4>1. nodes[m].refs = 0 => nodes'[m].refs = 0
          BY <1>5, <1>13, <3>2
      <4>2. Leaf(m)' <=> Leaf(m)
          BY <1>5 DEF Leaf
      <4>3. nodes'[m].refs > 0 => nodes[m].refs > 0
          BY <3>2, <4>1
      <4> QED BY <1>5, <3>1, <4>2, <4>3 DEF Referred
    <3>6. nodes'[m].consumed => nodes'[m].saved = {}
        BY <1>5, <3>1 DEF Referred
    <3> QED BY <3>3, <3>4, <3>5, <3>6 DEF Referred
  <2>2. Referred(N)'
    <3>1. Edges(N)' # {}
        BY <1>2, <1>9
    <3>2. Cardinality(Into(DOMAIN nodes, N))' = 0
        BY <1>2, <1>12
    <3> QED BY <1>6, <3>1, <3>2 DEF Referred
  <2> QED BY <1>2, <2>1, <2>2 DEF RefsAreEdges
<1>15. SavesAreBalanced'
  <2> DEFINE new == {N} \X SavedOperands(recipe, operands)
  <2>1. Saves(DOMAIN nodes)' = Saves(DOMAIN nodes) \cup new
    <3>1. \A e : e \in Saves(DOMAIN nodes)' <=> e \in Saves(DOMAIN nodes) \/ e \in new
      <4>1. \A e : e \in Saves(DOMAIN nodes)' <=> \E m \in DOMAIN nodes' : e \in {m} \X nodes'[m].saved
          BY DEF Saves
      <4>2. \A e : e \in Saves(DOMAIN nodes) <=> \E m \in DOMAIN nodes : e \in {m} \X nodes[m].saved
          BY DEF Saves
      <4>3. DOMAIN nodes' = (DOMAIN nodes) \cup {N} /\ nodes'[N].saved = SavedOperands(recipe, operands)
          BY <1>2, <1>6
      <4>4. \A m \in DOMAIN nodes : nodes'[m].saved = nodes[m].saved
          BY <1>5
      <4> QED BY ONLY <4>1, <4>2, <4>3, <4>4
    <3> QED BY <3>1
  <2>2. Saves(DOMAIN nodes) \cap new = {}
      BY <1>2 DEF Saves
  <2>3. IsFiniteSet(Saves(DOMAIN nodes)) /\ Cardinality(Saves(DOMAIN nodes)) \in Nat
      BY <1>1, SavesAreFinite
  <2>4. IsFiniteSet(new) /\ Cardinality(new) = Cardinality(SavedOperands(recipe, operands))
    <3>1. IsFiniteSet({N}) /\ Cardinality({N}) = 1
        BY FS_Singleton
    <3>2. IsFiniteSet(new) /\ Cardinality(new) = Cardinality({N}) * Cardinality(SavedOperands(recipe, operands))
        BY <1>4, <3>1, FS_Product
    <3>3. \A k \in Nat : 1 * k = k
        OBVIOUS
    <3> QED BY <1>4, <3>1, <3>2, <3>3
  <2> HIDE DEF new
  <2>5. Cardinality(Saves(DOMAIN nodes) \cup new) = Cardinality(Saves(DOMAIN nodes)) + Cardinality(new) - Cardinality(Saves(DOMAIN nodes) \cap new)
      BY <2>3, <2>4, FS_Union
  <2>6. Cardinality(Saves(DOMAIN nodes) \cap new) = 0
      BY <2>2, FS_EmptySet
  <2>7. saved' = Cardinality(Saves(DOMAIN nodes)')
    <3>1. saved = Cardinality(Saves(DOMAIN nodes)) /\ saved' = saved + Cardinality(SavedOperands(recipe, operands))
        BY <1>1, <1>2 DEF SavesAreBalanced
    <3>2. Cardinality(Saves(DOMAIN nodes)') = Cardinality(Saves(DOMAIN nodes) \cup new)
        BY <2>1
    <3> QED BY ONLY <1>4, <2>3, <2>4, <2>5, <2>6, <3>1, <3>2
  <2>8. ASSUME NEW m \in DOMAIN nodes', nodes'[m].recipe = "mul"
        PROVE  Cardinality(nodes'[m].saved) = IF nodes'[m].consumed \/ nodes'[m].refs = 0 THEN 0 ELSE Cardinality(Edges(m)')
    <3>1. CASE m = N
      <4>1. recipe = "mul"
          BY <1>6, <2>8, <3>1
      <4>2. Cardinality(nodes'[m].saved) = Cardinality(Edges(N)')
          BY <1>4, <1>6, <1>9, <3>1, <4>1
      <4>3. ~nodes'[m].consumed /\ nodes'[m].refs # 0
          BY <1>6, <3>1
      <4> QED BY <3>1, <4>2, <4>3
    <3>2. CASE m \in DOMAIN nodes
      <4>1. Cardinality(nodes[m].saved) = IF nodes[m].consumed \/ nodes[m].refs = 0 THEN 0 ELSE Cardinality(Edges(m))
          BY <1>1, <1>5, <2>8, <3>2 DEF SavesAreBalanced
      <4>2. nodes'[m].refs = 0 <=> nodes[m].refs = 0
        <5>1. Cardinality(Links(operands, m)) \in Nat /\ nodes[m].refs \in Nat
            BY <1>3, <1>12, <3>2, NodeFields
        <5>2. nodes'[m].refs = nodes[m].refs + Cardinality(Links(operands, m))
            BY <1>5, <3>2
        <5> QED BY <1>13, <3>2, <5>1, <5>2
      <4> QED BY <1>5, <3>2, <4>1, <4>2
    <3> QED BY <1>2, <3>1, <3>2
  <2> QED BY <2>7, <2>8 DEF SavesAreBalanced
<1> QED BY <1>10, <1>11, <1>14, <1>15 DEF History

-----------------------------------------------------------------------------
(* Writing and consuming                                                    *)

\* A step that leaves the nodes alone keeps the history in order.
LEMMA SameNodesKeep ==
    ASSUME History, UNCHANGED <<nodes, saved>>, version' \in [Tensors -> Nat], gradients' \subseteq Nat
    PROVE  History' /\ Shape' = Shape
<1>1. HistoryTyped'
    BY DEF History, HistoryTyped
<1>2. EdgesDescend' /\ Shape' = Shape
    BY DEF History, EdgesDescend, Edges, Leaf, Shape
<1>3. RefsAreEdges'
    BY DEF History, RefsAreEdges, Referred, Edges, Leaf, Into
<1>4. SavesAreBalanced'
    BY DEF History, SavesAreBalanced, Saves, Edges
<1> QED BY <1>1, <1>2, <1>3, <1>4 DEF History

\* Consuming what a node saved keeps the history in order.
LEMMA ConsumeKeeps ==
    ASSUME History, NEW n \in DOMAIN nodes, nodes' = [nodes EXCEPT ![n] = Consume(n)],
           saved' = saved - Cardinality(nodes[n].saved), version' \in [Tensors -> Nat], gradients' \subseteq Nat
    PROVE  History' /\ Shape' = Shape
<1>1. HistoryTyped /\ EdgesDescend /\ RefsAreEdges /\ SavesAreBalanced
    BY DEF History
<1>2. DOMAIN nodes' = DOMAIN nodes /\ Len(nodes') = Len(nodes) /\ nodes' \in Seq(NodeOf)
  <2>1. nodes \in Seq(NodeOf) /\ nodes[n] \in NodeOf
      BY <1>1, NodesAreNumbered DEF HistoryTyped
  <2>2. Consume(n) \in NodeOf
      BY <2>1 DEF Consume, NodeOf
  <2> QED BY <2>1, <2>2
<1>3. /\ nodes'[n].recipe = nodes[n].recipe /\ nodes'[n].inputs = nodes[n].inputs /\ nodes'[n].refs = nodes[n].refs
      /\ nodes'[n].held = nodes[n].held /\ nodes'[n].saved = {} /\ nodes'[n].consumed = TRUE
  <2>1. nodes[n] \in NodeOf /\ nodes'[n] = Consume(n)
      BY <1>1, NodesAreNumbered
  <2> QED BY <2>1 DEF Consume, NodeOf
<1>4. \A m \in DOMAIN nodes : m # n => nodes'[m] = nodes[m]
    OBVIOUS
<1>5. \A m \in DOMAIN nodes :
        /\ nodes'[m].recipe = nodes[m].recipe /\ nodes'[m].inputs = nodes[m].inputs /\ nodes'[m].refs = nodes[m].refs
        /\ nodes'[m].held = nodes[m].held /\ Leaf(m)' = Leaf(m)
        /\ nodes'[m].saved = {} \/ nodes'[m].saved = nodes[m].saved
        /\ nodes'[m].consumed => nodes[m].consumed \/ nodes'[m].saved = {}
    BY <1>3, <1>4 DEF Leaf
<1>6. /\ \A m \in DOMAIN nodes : Edges(m)' = Edges(m)
      /\ \A m : Into(DOMAIN nodes, m)' = Into(DOMAIN nodes, m)
  <2>1. DOMAIN nodes' = DOMAIN nodes /\ \A m \in DOMAIN nodes : nodes'[m].inputs = nodes[m].inputs
      BY <1>2, <1>5
  <2>2. \A m \in DOMAIN nodes : Edges(m)' = Edges(m)
      BY <2>1 DEF Edges
  <2>3. ASSUME NEW m PROVE Into(DOMAIN nodes, m)' = Into(DOMAIN nodes, m)
    <3>1. \A e : e \in Into(DOMAIN nodes, m)' <=> e \in Into(DOMAIN nodes, m)
        BY <2>1, <2>2 DEF Into
    <3> QED BY <3>1
  <2> QED BY <2>2, <2>3
<1>7. Shape' = Shape
  <2>1. Shape' = [m \in DOMAIN nodes |-> [recipe |-> nodes'[m].recipe, inputs |-> nodes'[m].inputs]]
      BY <1>2 DEF Shape
  <2> QED BY <1>5, <2>1 DEF Shape
<1>8. HistoryTyped'
  <2>1. \A m \in DOMAIN nodes' : IsFiniteSet(nodes'[m].saved)
      BY <1>1, <1>2, <1>5, FS_EmptySet DEF HistoryTyped
  <2>2. saved' \in Nat
    <3>1. Cardinality(Saves(DOMAIN nodes)) = Cardinality(Saves((DOMAIN nodes) \ {n})) + Cardinality(Saves({n}))
        BY <1>1, SavesSplit
    <3>2. Cardinality(Saves((DOMAIN nodes) \ {n})) \in Nat /\ Cardinality(Saves({n})) = Cardinality(nodes[n].saved)
        BY <1>1, SavesAreFinite, SavesOfOne
    <3>3. Cardinality(Saves({n})) \in Nat
        BY <1>1, SavesAreFinite
    <3> QED BY <1>1, <3>1, <3>2, <3>3 DEF SavesAreBalanced
  <2> QED BY <1>1, <1>2, <2>1, <2>2 DEF HistoryTyped
<1>9. EdgesDescend'
    BY <1>1, <1>2, <1>5, <1>6 DEF EdgesDescend
<1>10. RefsAreEdges'
  <2>1. ASSUME NEW m \in DOMAIN nodes PROVE Referred(m)'
    <3>1. Referred(m)
        BY <1>1 DEF RefsAreEdges
    <3>2. nodes'[m].refs = (IF nodes'[m].held THEN 1 ELSE 0) + Cardinality(Into(DOMAIN nodes, m))'
        BY <1>5, <1>6, <3>1 DEF Referred
    <3>3. nodes'[m].refs = 0 => nodes'[m].inputs = <<>> /\ nodes'[m].saved = {}
        BY <1>5, <3>1 DEF Referred
    <3>4. nodes'[m].refs > 0 /\ ~Leaf(m)' => Edges(m)' # {}
        BY <1>5, <1>6, <3>1 DEF Referred
    <3>5. nodes'[m].consumed => nodes'[m].saved = {}
        BY <1>5, <3>1 DEF Referred
    <3> QED BY <3>2, <3>3, <3>4, <3>5 DEF Referred
  <2> QED BY <1>2, <2>1 DEF RefsAreEdges
<1>11. SavesAreBalanced'
  <2>1. Saves(DOMAIN nodes)' = Saves((DOMAIN nodes) \ {n})
    <3>1. \A e : e \in Saves(DOMAIN nodes)' <=> \E m \in DOMAIN nodes : e \in {m} \X nodes'[m].saved
        BY <1>2 DEF Saves
    <3>2. \A e : e \in Saves((DOMAIN nodes) \ {n}) <=> \E m \in (DOMAIN nodes) \ {n} : e \in {m} \X nodes[m].saved
        BY DEF Saves
    <3>3. nodes'[n].saved = {}
        BY <1>3
    <3>4. \A e : e \in Saves(DOMAIN nodes)' <=> e \in Saves((DOMAIN nodes) \ {n})
        BY ONLY <1>4, <3>1, <3>2, <3>3
    <3> QED BY <3>4
  <2>2. Cardinality(Saves(DOMAIN nodes)) = Cardinality(Saves((DOMAIN nodes) \ {n})) + Cardinality(Saves({n}))
      BY <1>1, SavesSplit
  <2>3. Cardinality(Saves((DOMAIN nodes) \ {n})) \in Nat /\ Cardinality(Saves({n})) \in Nat /\ Cardinality(Saves({n})) = Cardinality(nodes[n].saved)
      BY <1>1, SavesAreFinite, SavesOfOne
  <2>4. saved' = Cardinality(Saves(DOMAIN nodes)')
      BY <1>1, <2>1, <2>2, <2>3 DEF SavesAreBalanced
  <2>5. ASSUME NEW m \in DOMAIN nodes, nodes'[m].recipe = "mul"
        PROVE  Cardinality(nodes'[m].saved) = IF nodes'[m].consumed \/ nodes'[m].refs = 0 THEN 0 ELSE Cardinality(Edges(m)')
    <3>1. CASE m = n
        BY <1>3, <3>1, FS_EmptySet
    <3>2. CASE m # n
        BY <1>1, <1>4, <1>6, <2>5, <3>2 DEF SavesAreBalanced
    <3> QED BY <3>1, <3>2
  <2> QED BY <1>2, <2>4, <2>5 DEF SavesAreBalanced
<1> QED BY <1>7, <1>8, <1>9, <1>10, <1>11 DEF History

\* At the start there are only leaves.
LEMMA HistoryStarts ==
    ASSUME Init
    PROVE  History
<1>1. nodes = [n \in 1..Leaves |-> NewLeaf] /\ saved = 0 /\ version = [v \in Tensors |-> 0] /\ gradients \in {{}, {1}}
    BY DEF Init
<1>2. Leaves \in Nat /\ Leaves <= MaxNodes
    BY BoundsAssumption
<1>3. DOMAIN nodes = 1..Leaves /\ Len(nodes) = Leaves /\ nodes \in Seq(NodeOf) /\ \A n \in DOMAIN nodes : nodes[n] = NewLeaf
  <2>1. NewLeaf \in NodeOf
      BY DEF NewLeaf, NodeOf
  <2> HIDE DEF NewLeaf
  <2> QED BY <1>1, <1>2, <2>1
<1>4. /\ NewLeaf.recipe = "leaf" /\ NewLeaf.inputs = <<>> /\ NewLeaf.saved = {} /\ NewLeaf.consumed = FALSE
      /\ NewLeaf.refs = 1 /\ NewLeaf.held = TRUE
    BY DEF NewLeaf
<1>5. \A n \in DOMAIN nodes : Edges(n) = {} /\ Leaf(n)
    BY <1>3, <1>4 DEF Edges, Leaf
<1>6. \A n : Into(DOMAIN nodes, n) = {}
    BY <1>5 DEF Into
<1>7. Saves(DOMAIN nodes) = {}
    BY <1>3, <1>4 DEF Saves
<1>8. HistoryTyped
  <2>1. \A n \in DOMAIN nodes : IsFiniteSet(nodes[n].saved)
      BY <1>3, <1>4, FS_EmptySet
  <2>2. version \in [Tensors -> Nat] /\ gradients \subseteq Nat
      BY <1>1
  <2> QED BY <1>1, <1>2, <1>3, <2>1, <2>2 DEF HistoryTyped
<1>9. EdgesDescend
    BY <1>3, <1>4, <1>5 DEF EdgesDescend
<1>10. RefsAreEdges
  <2>1. Cardinality({}) = 0
      BY FS_EmptySet
  <2>2. ASSUME NEW n \in DOMAIN nodes PROVE Referred(n)
    <3>1. nodes[n] = NewLeaf /\ Into(DOMAIN nodes, n) = {} /\ Leaf(n)
        BY <1>3, <1>5, <1>6
    <3>2. nodes[n].refs = 1 /\ nodes[n].held = TRUE /\ nodes[n].consumed = FALSE /\ Cardinality(Into(DOMAIN nodes, n)) = 0
        BY <1>4, <2>1, <3>1
    <3> QED BY <3>1, <3>2 DEF Referred
  <2> QED BY <2>2 DEF RefsAreEdges
<1>11. SavesAreBalanced
    BY <1>1, <1>3, <1>4, <1>7, FS_EmptySet DEF SavesAreBalanced
<1> QED BY <1>8, <1>9, <1>10, <1>11 DEF History

-----------------------------------------------------------------------------
(* Edges and paths                                                          *)

\* The graph of a call: edges lead to lower numbers.
Ordered(g, N) ==
    N \in Nat /\ DOMAIN g = 1..N /\ \A n \in 1..N : \A p \in DOMAIN g[n].inputs : g[n].inputs[p] \in 0..(n - 1)

\* What a traversal sees of the nodes is such a graph.
LEMMA ShapeIsOrdered ==
    ASSUME HistoryTyped, EdgesDescend
    PROVE  /\ Ordered(Shape, Len(nodes)) /\ DOMAIN Shape = DOMAIN nodes
           /\ \A s \in SUBSET DOMAIN nodes : \A n \in DOMAIN nodes : Into(s, n) = Arcs(Shape, s, n)
           /\ \A e \in (DOMAIN nodes) \X {1, 2} : Factor(e[1], e[2]) = Share(Shape, e)
<1>1. /\ DOMAIN nodes = 1..Len(nodes) /\ Len(nodes) \in Nat
      /\ \A n \in DOMAIN nodes : nodes[n] \in NodeOf /\ n \in Nat
    BY NodesAreNumbered
<1>2. DOMAIN Shape = DOMAIN nodes /\ \A n \in DOMAIN nodes : Shape[n].recipe = nodes[n].recipe /\ Shape[n].inputs = nodes[n].inputs
    BY DEF Shape
<1>3. ASSUME NEW n \in 1..Len(nodes), NEW p \in DOMAIN Shape[n].inputs PROVE Shape[n].inputs[p] \in 0..(n - 1)
  <2>1. p \in DOMAIN nodes[n].inputs /\ Shape[n].inputs[p] = nodes[n].inputs[p]
      BY <1>1, <1>2
  <2>2. p \in Edges(n) \/ nodes[n].inputs[p] = 0
      BY <2>1 DEF Edges
  <2>3. p \in Edges(n) => nodes[n].inputs[p] \in 1..(n - 1)
      BY <1>1 DEF EdgesDescend
  <2> QED BY <1>1, <2>1, <2>2, <2>3
<1>4. Ordered(Shape, Len(nodes))
    BY <1>1, <1>2, <1>3 DEF Ordered
<1>5. ASSUME NEW s \in SUBSET DOMAIN nodes, NEW n \in DOMAIN nodes PROVE Into(s, n) = Arcs(Shape, s, n)
  <2>1. n # 0
      BY <1>1
  <2>2. \A e \in s \X {1, 2} : e \in Into(s, n) <=> e \in Arcs(Shape, s, n)
    <3> SUFFICES ASSUME NEW e \in s \X {1, 2} PROVE e \in Into(s, n) <=> e \in Arcs(Shape, s, n)
        OBVIOUS
    <3>1. e[1] \in DOMAIN nodes
        OBVIOUS
    <3>2. Shape[e[1]].inputs = nodes[e[1]].inputs
        BY <1>2, <3>1
    <3>3. e \in Arcs(Shape, s, n) <=> e[2] \in DOMAIN nodes[e[1]].inputs /\ nodes[e[1]].inputs[e[2]] = n
        BY <3>2 DEF Arcs
    <3> QED BY <2>1, <3>3 DEF Into, Edges
  <2> QED BY <2>2 DEF Into, Arcs
<1>6. ASSUME NEW e \in (DOMAIN nodes) \X {1, 2} PROVE Factor(e[1], e[2]) = Share(Shape, e)
  <2>1. e[1] \in DOMAIN nodes
      OBVIOUS
  <2>2. Shape[e[1]].recipe = nodes[e[1]].recipe
      BY <1>2, <2>1
  <2> QED BY <2>2 DEF Factor, Share
<1> QED BY <1>2, <1>4, <1>5, <1>6

\* The edges into a node come from higher ones, and what they pass on is a number.
LEMMA ArcsDescend ==
    ASSUME NEW g, NEW N, Ordered(g, N), NEW s \in SUBSET DOMAIN g, NEW n \in DOMAIN g
    PROVE  /\ Arcs(g, s, n) \subseteq (DOMAIN g) \X {1, 2} /\ IsFiniteSet(Arcs(g, s, n))
           /\ \A e \in Arcs(g, s, n) : e[1] \in s /\ e[1] > n /\ e[1] \in Nat /\ e[2] \in {1, 2}
           /\ \A P \in [DOMAIN g -> Nat] : \A e \in (DOMAIN g) \X {1, 2} :
                Flow(g, P)[e] = Share(g, e) * P[e[1]] /\ Flow(g, P)[e] \in Nat
<1>1. N \in Nat /\ DOMAIN g = 1..N
    BY DEF Ordered
<1>2. Arcs(g, s, n) \subseteq (DOMAIN g) \X {1, 2}
    BY DEF Arcs
<1>3. IsFiniteSet((DOMAIN g) \X {1, 2})
  <2>1. \A a, b \in Int : IsFiniteSet(a..b)
      BY FS_Interval
  <2>2. IsFiniteSet(1..N)
    <3>1. 1 \in Int /\ N \in Int
        BY <1>1
    <3> QED BY <2>1, <3>1, Zenon
  <2>3. IsFiniteSet(DOMAIN g)
      BY <1>1, <2>2
  <2> QED BY <2>3, TwoPositions, FS_Product
<1>4. ASSUME NEW e \in Arcs(g, s, n) PROVE e[1] \in s /\ e[1] > n /\ e[1] \in Nat /\ e[2] \in {1, 2}
  <2>1. e[1] \in s /\ e[2] \in {1, 2} /\ e[2] \in DOMAIN g[e[1]].inputs /\ g[e[1]].inputs[e[2]] = n
      BY DEF Arcs
  <2>2. n \in 0..(e[1] - 1) /\ e[1] \in 1..N
      BY <1>1, <2>1 DEF Ordered
  <2> QED BY <1>1, <2>1, <2>2
<1>5. ASSUME NEW P \in [DOMAIN g -> Nat], NEW e \in (DOMAIN g) \X {1, 2}
      PROVE  Flow(g, P)[e] = Share(g, e) * P[e[1]] /\ Flow(g, P)[e] \in Nat
  <2>1. Flow(g, P)[e] = Share(g, e) * P[e[1]]
      BY DEF Flow
  <2>2. Share(g, e) \in {0, 1}
      BY DEF Share
  <2>3. P[e[1]] \in Nat
      OBVIOUS
  <2>4. \A k \in Nat : 0 * k = 0 /\ 1 * k = k
      OBVIOUS
  <2> QED BY <2>1, <2>2, <2>3, <2>4
<1> QED BY <1>2, <1>3, <1>4, <1>5, FS_Subset

\* The paths to a node depend on those to higher ones.
LEMMA PathsAgree ==
    ASSUME NEW g, NEW N, Ordered(g, N), NEW c, c.needed \subseteq DOMAIN g, NEW P \in [DOMAIN g -> Nat], NEW Q \in [DOMAIN g -> Nat],
           NEW n \in DOMAIN g, \A m \in DOMAIN g : m > n => P[m] = Q[m]
    PROVE  PathsTo(g, c, P, n) = PathsTo(g, c, Q, n) /\ PathsTo(g, c, P, n) \in Nat
<1> PICK s : s = Arcs(g, c.needed, n)
    OBVIOUS
<1>1. /\ s \subseteq (DOMAIN g) \X {1, 2} /\ IsFiniteSet(s)
      /\ \A e \in s : e[1] \in c.needed /\ e[1] > n
    BY ArcsDescend
<1>2. \A e \in s : Flow(g, P)[e] = Share(g, e) * P[e[1]] /\ Flow(g, P)[e] \in Nat /\ Flow(g, Q)[e] = Share(g, e) * Q[e[1]]
  <2>1. \A R \in [DOMAIN g -> Nat] : \A e \in (DOMAIN g) \X {1, 2} : Flow(g, R)[e] = Share(g, e) * R[e[1]] /\ Flow(g, R)[e] \in Nat
      BY ArcsDescend
  <2> QED BY <1>1, <2>1
<1>3. \A e \in s : P[e[1]] = Q[e[1]]
    BY <1>1
<1>4. \A e \in s : Flow(g, P)[e] = Flow(g, Q)[e]
    BY <1>2, <1>3
<1>5. \A x : x \in Units(Flow(g, P), s) <=> x \in Units(Flow(g, Q), s)
    BY <1>4 DEF Units
<1>6. Units(Flow(g, P), s) = Units(Flow(g, Q), s)
    BY <1>5
<1>7. Weight(Flow(g, P), s) = Weight(Flow(g, Q), s)
    BY <1>6 DEF Weight
<1>8. Weight(Flow(g, P), s) \in Nat
    BY <1>1, <1>2, WeightIsFinite
<1> QED BY <1>7, <1>8 DEF PathsTo

\* Every graph has its paths.
LEMMA PathsExist ==
    ASSUME NEW g, NEW N, Ordered(g, N), NEW c, c.needed \subseteq DOMAIN g
    PROVE  \E P : PathsFit(g, c, P)
<1>1. N \in Nat /\ DOMAIN g = 1..N
    BY DEF Ordered
<1> DEFINE Fits(k, P) == \A n \in DOMAIN g : n > N - k => P[n] = PathsTo(g, c, P, n)
           T == {k \in Nat : \E P \in [DOMAIN g -> Nat] : Fits(k, P)}
<1>2. 0 \in T
  <2>1. [n \in DOMAIN g |-> 0] \in [DOMAIN g -> Nat] /\ Fits(0, [n \in DOMAIN g |-> 0])
      BY <1>1
  <2> HIDE DEF Fits
  <2> QED BY <2>1
<1>3. ASSUME NEW k \in T PROVE k + 1 \in T
  <2>1. k \in Nat
      OBVIOUS
  <2>2. PICK P \in [DOMAIN g -> Nat] : Fits(k, P)
      OBVIOUS
  <2>3. CASE N - k < 1
    <3>1. Fits(k + 1, P)
        BY <1>1, <2>1, <2>2, <2>3
    <3> HIDE DEF Fits
    <3> QED BY <2>1, <3>1
  <2>4. CASE N - k >= 1
    <3> PICK m : m = N - k
        OBVIOUS
    <3> DEFINE Q == [P EXCEPT ![m] = PathsTo(g, c, P, m)]
    <3>1. m \in DOMAIN g
        BY <1>1, <2>1, <2>4
    <3>2. PathsTo(g, c, P, m) \in Nat
        BY <3>1, PathsAgree
    <3>3. Q \in [DOMAIN g -> Nat] /\ Q[m] = PathsTo(g, c, P, m) /\ \A n \in DOMAIN g : n # m => Q[n] = P[n]
        BY <3>1, <3>2
    <3> HIDE DEF Q
    <3>4. ASSUME NEW n \in DOMAIN g, n > N - (k + 1) PROVE Q[n] = PathsTo(g, c, Q, n)
      <4>1. n >= m /\ n \in Int /\ m \in Int
          BY <1>1, <2>1, <3>4
      <4>2. \A j \in DOMAIN g : j > n => Q[j] = P[j]
          BY <1>1, <3>3, <4>1
      <4>3. PathsTo(g, c, Q, n) = PathsTo(g, c, P, n)
          BY <3>3, <4>2, PathsAgree
      <4>4. CASE n = m
          BY <3>3, <4>3, <4>4
      <4>5. CASE n # m
        <5>1. n > N - k
            BY <4>1, <4>5
        <5>2. P[n] = PathsTo(g, c, P, n)
            BY <2>2, <5>1
        <5> QED BY <3>3, <4>3, <4>5, <5>2
      <4> QED BY <4>4, <4>5
    <3>5. Fits(k + 1, Q)
        BY <3>4
    <3> HIDE DEF Fits
    <3> QED BY <2>1, <3>3, <3>5
  <2>5. N - k < 1 \/ N - k >= 1
      BY <1>1, <2>1
  <2> HIDE DEF T
  <2> QED BY <2>3, <2>4, <2>5
<1>4. T = Nat
  <2>1. T \in SUBSET Nat
      OBVIOUS
  <2> HIDE DEF T
  <2> QED BY <1>2, <1>3, <2>1, Induction
<1>5. N \in T
    BY <1>1, <1>4
<1>6. PICK P \in [DOMAIN g -> Nat] : Fits(N, P)
    BY <1>5
<1>7. PathsFit(g, c, P)
    BY <1>1, <1>6 DEF PathsFit
<1> QED BY <1>7

\* Two functions with the same rule are the same.
LEMMA PathsAreUnique ==
    ASSUME NEW g, NEW N, Ordered(g, N), NEW c, c.needed \subseteq DOMAIN g, NEW P, PathsFit(g, c, P), NEW f,
           \A n \in DOMAIN g : (\A m \in DOMAIN g : m > n => f[m] = P[m]) => f[n] = P[n]
    PROVE  \A n \in DOMAIN g : f[n] = P[n]
<1>1. N \in Nat /\ DOMAIN g = 1..N
    BY DEF Ordered
<1> DEFINE T == {k \in Nat : \A n \in DOMAIN g : n > N - k => f[n] = P[n]}
<1>2. 0 \in T
    BY <1>1
<1>3. ASSUME NEW k \in T PROVE k + 1 \in T
  <2>1. k \in Nat /\ \A n \in DOMAIN g : n > N - k => f[n] = P[n]
      OBVIOUS
  <2>2. ASSUME NEW n \in DOMAIN g, n > N - (k + 1) PROVE f[n] = P[n]
    <3>1. \A m \in DOMAIN g : m > n => f[m] = P[m]
        BY <1>1, <2>1, <2>2
    <3> QED BY <3>1
  <2> QED BY <2>1, <2>2
<1>4. T = Nat
  <2>1. T \in SUBSET Nat
      OBVIOUS
  <2> HIDE DEF T
  <2> QED BY <1>2, <1>3, <2>1, Induction
<1>5. N \in T
    BY <1>1, <1>4
<1> QED BY <1>1, <1>5

\* What the edges in S add up to, when f is what their sources have.
SumOf(f, S) == MapThenSumSet(LAMBDA e : Factor(e[1], e[2]) * f[e[1]], S)
AddsFlow(f, S, it) ==
    it = [s \in SUBSET S |-> IF s = {} THEN 0
             ELSE Factor((CHOOSE x \in s : TRUE)[1], (CHOOSE x \in s : TRUE)[2]) * f[(CHOOSE x \in s : TRUE)[1]]
                  + it[s \ {CHOOSE x \in s : TRUE}]]

\* That sum is a weight.
LEMMA SumIsWeight ==
    ASSUME NEW S, IsFiniteSet(S), NEW f, NEW w, \A e \in S : w[e] \in Nat /\ w[e] = Factor(e[1], e[2]) * f[e[1]]
    PROVE  SumOf(f, S) = Weight(w, S)
<1>1. ASSUME NEW it PROVE Adds(w, S, it) <=> AddsFlow(f, S, it)
  <2>1. ASSUME NEW s \in SUBSET S, s # {}
        PROVE  w[CHOOSE x \in s : TRUE] = Factor((CHOOSE x \in s : TRUE)[1], (CHOOSE x \in s : TRUE)[2]) * f[(CHOOSE x \in s : TRUE)[1]]
    <3>1. PICK y : y = CHOOSE x \in s : TRUE
        OBVIOUS
    <3>2. y \in s
        BY <2>1, <3>1
    <3>3. w[y] = Factor(y[1], y[2]) * f[y[1]]
        BY <3>2
    <3> QED BY <3>1, <3>3
  <2> QED BY <2>1 DEF Adds, AddsFlow
<1> DEFINE it == CHOOSE it : AddsFlow(f, S, it)
<1>2. \E i : Adds(w, S, i)
    BY AddsExists
<1>3. \E i : AddsFlow(f, S, i)
    BY <1>1, <1>2
<1>4. AddsFlow(f, S, it)
    BY <1>3
<1>5. SumOf(f, S) = it[S]
    BY DEF SumOf, MapThenSumSet, MapThenFoldSet, AddsFlow
<1> HIDE DEF it
<1>6. it[S] = Weight(w, S)
    BY <1>1, <1>4, AddsIsWeight
<1> QED BY <1>5, <1>6

\* The paths that are compared with are the only ones there are.
LEMMA PathsAre ==
    ASSUME HistoryTyped, EdgesDescend, call.needed \subseteq DOMAIN nodes, NEW P, PathsFit(Shape, call, P)
    PROVE  \A n \in DOMAIN nodes : Paths[n] = P[n]
<1> PICK g : g = Shape
    OBVIOUS
<1> PICK c : c = call
    OBVIOUS
<1> PICK N : N = Len(nodes)
    OBVIOUS
<1>1. /\ Ordered(g, N) /\ DOMAIN g = DOMAIN nodes
      /\ \A n \in DOMAIN nodes : Into(c.needed, n) = Arcs(g, c.needed, n)
      /\ \A e \in (DOMAIN nodes) \X {1, 2} : Factor(e[1], e[2]) = Share(g, e)
    BY ShapeIsOrdered
<1>2. PathsFit(g, c, P) /\ c.needed \subseteq DOMAIN g
    BY <1>1
<1>3. P \in [DOMAIN g -> Nat] /\ \A n \in DOMAIN g : P[n] = PathsTo(g, c, P, n)
    BY <1>2 DEF PathsFit
<1> DEFINE Fit(f) == f = [n \in DOMAIN nodes |-> IF n = call.output THEN 1 ELSE SumOf(f, Into(call.needed, n))]
<1>4. ASSUME NEW f, NEW n \in DOMAIN g, \A m \in DOMAIN g : m > n => f[m] = P[m]
      PROVE  SumOf(f, Into(c.needed, n)) = Weight(Flow(g, P), Arcs(g, c.needed, n))
  <2> PICK S : S = Into(c.needed, n)
      OBVIOUS
  <2> PICK w : w = Flow(g, P)
      OBVIOUS
  <2>1. S = Arcs(g, c.needed, n)
      BY <1>1
  <2>2. /\ S \subseteq (DOMAIN g) \X {1, 2} /\ IsFiniteSet(S)
        /\ \A e \in S : e[1] \in c.needed /\ e[1] > n
        /\ \A R \in [DOMAIN g -> Nat] : \A e \in (DOMAIN g) \X {1, 2} : Flow(g, R)[e] = Share(g, e) * R[e[1]] /\ Flow(g, R)[e] \in Nat
    <3> PICK s : s = c.needed
        OBVIOUS
    <3>1. Ordered(g, N) /\ s \in SUBSET DOMAIN g /\ n \in DOMAIN g /\ S = Arcs(g, s, n)
        BY <1>1, <1>2, <2>1
    <3>2. /\ Arcs(g, s, n) \subseteq (DOMAIN g) \X {1, 2} /\ IsFiniteSet(Arcs(g, s, n))
          /\ \A e \in Arcs(g, s, n) : e[1] \in s /\ e[1] > n
        BY <3>1, ArcsDescend
    <3>3. \A R \in [DOMAIN g -> Nat] : \A e \in (DOMAIN g) \X {1, 2} : Flow(g, R)[e] = Share(g, e) * R[e[1]] /\ Flow(g, R)[e] \in Nat
        BY ONLY <3>1, ArcsDescend
    <3> QED BY <3>1, <3>2, <3>3
  <2>3. \A e \in S : w[e] \in Nat /\ w[e] = Factor(e[1], e[2]) * f[e[1]]
    <3> SUFFICES ASSUME NEW e \in S PROVE w[e] \in Nat /\ w[e] = Factor(e[1], e[2]) * f[e[1]]
        OBVIOUS
    <3>1. w[e] \in Nat /\ w[e] = Share(g, e) * P[e[1]]
        BY <1>3, <2>2
    <3>2. Factor(e[1], e[2]) = Share(g, e)
        BY <1>1, <2>2
    <3>3. f[e[1]] = P[e[1]]
        BY <1>2, <1>4, <2>2
    <3> QED BY <3>1, <3>2, <3>3
  <2>4. SumOf(f, S) = Weight(w, S)
    <3>1. IsFiniteSet(S)
        BY <2>2
    <3> HIDE DEF Fit
    <3> QED BY ONLY <2>3, <3>1, SumIsWeight
  <2> QED BY <2>1, <2>4
<1>5. Fit(P)
  <2>1. \A n \in DOMAIN nodes : P[n] = IF n = call.output THEN 1 ELSE SumOf(P, Into(call.needed, n))
    <3> SUFFICES ASSUME NEW n \in DOMAIN g PROVE P[n] = IF n = c.output THEN 1 ELSE SumOf(P, Into(c.needed, n))
        BY <1>1
    <3>1. SumOf(P, Into(c.needed, n)) = Weight(Flow(g, P), Arcs(g, c.needed, n))
        BY <1>4
    <3> QED BY <1>3, <3>1 DEF PathsTo
  <2> QED BY <1>1, <1>3, <2>1
<1> PICK f : f = CHOOSE h : Fit(h)
    OBVIOUS
<1>6. Fit(f)
    BY <1>5, Zenon
<1>7. Paths = f
    BY DEF Paths, SumOf
<1>8. ASSUME NEW n \in DOMAIN g, \A m \in DOMAIN g : m > n => f[m] = P[m] PROVE f[n] = P[n]
  <2>1. SumOf(f, Into(c.needed, n)) = Weight(Flow(g, P), Arcs(g, c.needed, n))
      BY <1>4, <1>8
  <2>2. f[n] = IF n = c.output THEN 1 ELSE SumOf(f, Into(c.needed, n))
      BY <1>1, <1>6
  <2> QED BY <1>3, <2>1, <2>2 DEF PathsTo
<1> HIDE DEF Fit
<1>9. \A n \in DOMAIN g : f[n] = P[n]
  <2>1. \A n \in DOMAIN g : (\A m \in DOMAIN g : m > n => f[m] = P[m]) => f[n] = P[n]
      BY <1>8
  <2>2. Ordered(g, N) /\ c.needed \subseteq DOMAIN g /\ PathsFit(g, c, P)
      BY <1>1, <1>2
  <2> QED BY ONLY <2>1, <2>2, PathsAreUnique
<1> QED BY <1>1, <1>7, <1>9

-----------------------------------------------------------------------------
(* The plan                                                                 *)

\* What can be reached from a node is the least set that follows the edges.
LEMMA ReachableIsLeast ==
    ASSUME HistoryTyped, EdgesDescend, NEW n \in DOMAIN nodes
    PROVE  /\ n \in Reachable(n) /\ Reachable(n) \subseteq DOMAIN nodes /\ Reachable(n) \subseteq 1..n /\ Follows(Reachable(n))
           /\ \A s \in SUBSET DOMAIN nodes : n \in s /\ Follows(s) => Reachable(n) \subseteq s
<1>1. DOMAIN nodes = 1..Len(nodes) /\ Len(nodes) \in Nat
    BY NodesAreNumbered
<1>2. n \in Reachable(n) /\ Reachable(n) \subseteq DOMAIN nodes
    BY DEF Reachable
<1>3. \A s \in SUBSET DOMAIN nodes : n \in s /\ Follows(s) => Reachable(n) \subseteq s
    BY DEF Reachable
<1>4. Reachable(n) \subseteq 1..n
  <2>1. 1..n \in SUBSET DOMAIN nodes /\ n \in 1..n
      BY <1>1
  <2>2. Follows(1..n)
    <3> SUFFICES ASSUME NEW m \in 1..n, NEW p \in Edges(m) PROVE nodes[m].inputs[p] \in 1..n
        BY DEF Follows
    <3>1. nodes[m].inputs[p] \in 1..(m - 1)
        BY <2>1 DEF EdgesDescend
    <3> QED BY <1>1, <3>1
  <2> QED BY <1>3, <2>1, <2>2
<1>5. Follows(Reachable(n))
  <2> SUFFICES ASSUME NEW m \in Reachable(n), NEW p \in Edges(m) PROVE nodes[m].inputs[p] \in Reachable(n)
      BY DEF Follows
  <2>1. nodes[m].inputs[p] \in 1..(m - 1) /\ m \in DOMAIN nodes
      BY <1>2 DEF EdgesDescend
  <2>2. nodes[m].inputs[p] \in DOMAIN nodes
      BY <1>1, <2>1
  <2>3. ASSUME NEW s \in SUBSET DOMAIN nodes, n \in s, Follows(s) PROVE nodes[m].inputs[p] \in s
    <3>1. m \in s
        BY <1>3, <2>3
    <3> QED BY <2>3, <3>1 DEF Follows
  <2> QED BY <2>2, <2>3 DEF Reachable
<1> QED BY <1>2, <1>3, <1>4, <1>5

\* All needed nodes but the output are needed by a needed one.
LEMMA NeededIsPlanned ==
    ASSUME HistoryTyped, EdgesDescend, NEW output \in DOMAIN nodes, NEW targets, NEW needed, needed = Needed(output, targets)
    PROVE  /\ needed \subseteq DOMAIN nodes /\ needed \subseteq 1..output
           /\ \A t \in targets \cap Reachable(output) : t \in needed /\ output \in needed
           /\ needed # {} => output \in needed
           /\ \A m \in needed \ {output} : Into(needed, m) # {}
<1>1. \A n \in needed : n \in Reachable(output) /\ Reachable(n) \cap targets # {}
    BY DEF Needed
<1>2. \A n \in Reachable(output) : Reachable(n) \cap targets # {} => n \in needed
    BY DEF Needed
<1>3. /\ output \in Reachable(output) /\ Reachable(output) \subseteq DOMAIN nodes /\ Reachable(output) \subseteq 1..output
      /\ Follows(Reachable(output))
      /\ \A s \in SUBSET DOMAIN nodes : output \in s /\ Follows(s) => Reachable(output) \subseteq s
    BY ReachableIsLeast
<1>4. ASSUME NEW k \in Reachable(output), NEW m \in Reachable(k), Reachable(m) \cap targets # {} PROVE Reachable(k) \cap targets # {}
  <2>1. k \in DOMAIN nodes
      BY <1>3
  <2>2. m \in DOMAIN nodes /\ Follows(Reachable(k)) /\ Reachable(k) \in SUBSET DOMAIN nodes
      BY <2>1, ReachableIsLeast
  <2>3. Reachable(m) \subseteq Reachable(k)
      BY <2>2, ReachableIsLeast
  <2> QED BY <1>4, <2>3
<1>5. \A t \in targets \cap Reachable(output) : t \in needed /\ output \in needed
  <2> SUFFICES ASSUME NEW t \in targets \cap Reachable(output) PROVE t \in needed /\ output \in needed
      OBVIOUS
  <2>1. t \in Reachable(t)
      BY <1>3, ReachableIsLeast
  <2>2. Reachable(t) \cap targets # {} /\ Reachable(output) \cap targets # {}
      BY <2>1
  <2> QED BY <1>2, <1>3, <2>2
<1>6. needed # {} => output \in needed
  <2> SUFFICES ASSUME NEW n \in needed PROVE output \in needed
      OBVIOUS
  <2>1. n \in Reachable(output) /\ Reachable(n) \cap targets # {}
      BY <1>1
  <2>2. Reachable(output) \cap targets # {}
      BY <1>3, <1>4, <2>1
  <2> QED BY <1>2, <1>3, <2>2
<1>7. ASSUME NEW m \in needed \ {output} PROVE Into(needed, m) # {}
  <2> PICK s : s = Reachable(output) \ {m}
      OBVIOUS
  <2>1. s \in SUBSET DOMAIN nodes /\ output \in s /\ m \in Reachable(output)
      BY <1>1, <1>3
  <2>2. ~Follows(s)
      BY <1>3, <2>1
  <2>3. PICK k \in s : \E p \in Edges(k) : nodes[k].inputs[p] \notin s
      BY <2>2 DEF Follows
  <2>4. PICK p \in Edges(k) : nodes[k].inputs[p] \notin s
      BY <2>3
  <2>5. k \in Reachable(output) /\ k \in DOMAIN nodes
      BY <1>3, <2>1
  <2>6. nodes[k].inputs[p] \in Reachable(output)
      BY <1>3, <2>4, <2>5 DEF Follows
  <2>7. nodes[k].inputs[p] = m
      BY <2>4, <2>6
  <2>8. m \in Reachable(k)
    <3>1. k \in Reachable(k) /\ Follows(Reachable(k))
        BY <2>5, ReachableIsLeast
    <3> QED BY <2>4, <2>7, <3>1 DEF Follows
  <2>9. k \in needed
      BY <1>1, <1>2, <1>4, <2>5, <2>8
  <2>10. p \in {1, 2}
    <3>1. Edges(k) \subseteq 1..2
        BY <2>5, NodesAreNumbered, EdgesAreTwo
    <3> QED BY <2>4, <3>1, TwoPositions
  <2>11. <<k, p>> \in Into(needed, m)
      BY <2>4, <2>7, <2>9, <2>10 DEF Into
  <2> QED BY <2>11
<1> QED BY <1>1, <1>3, <1>5, <1>6, <1>7

-----------------------------------------------------------------------------
(* Handles                                                                  *)

\* What the steps of a visit have in common.
Sound(g, c) == c \in WalkOf(g) /\ Opened(c)
Kept(c, d) ==
    /\ d.phase = c.phase /\ d.kind = c.kind /\ d.output = c.output /\ d.needed = c.needed /\ d.targets = c.targets
    /\ d.results = c.results /\ d.received = c.received /\ d.misused = c.misused
Still(c, d) == d.pending = c.pending /\ d.ready = c.ready /\ d.incoming = c.incoming /\ d.failed = c.failed /\ d.late = c.late
Weighs(c, d) ==
    /\ Len(c.made) \in Nat /\ Len(d.made) \in Nat /\ Len(c.made) <= Len(d.made)
    /\ \A t \in 1..Len(c.made) : d.made[t].weight = c.made[t].weight

\* The fields of a call.
LEMMA CallFields ==
    ASSUME NEW g, NEW c \in WalkOf(g)
    PROVE  /\ c.made \in Seq(Handle) /\ Len(c.made) \in Nat /\ DOMAIN c.made = 1..Len(c.made)
           /\ \A t \in 1..Len(c.made) : c.made[t] \in Handle /\ c.made[t].weight \in Nat /\ c.made[t].closes \in Nat
           /\ c.owned \subseteq Nat /\ c.ready \subseteq DOMAIN g /\ c.needed \subseteq DOMAIN g /\ c.targets \subseteq DOMAIN g
           /\ c.output \in DOMAIN g
           /\ c.incoming \in [DOMAIN g -> Nat] /\ c.pending \in [DOMAIN g -> Int] /\ c.received \in [DOMAIN g -> Int]
           /\ c.failed \in BOOLEAN /\ c.late \in BOOLEAN /\ c.misused = FALSE /\ c.results = <<>>
           /\ c.phase = "walking" /\ c.kind \in {"grad", "backward"}
<1>1. c.made \in Seq(Handle)
    BY DEF WalkOf
<1>2. Len(c.made) \in Nat /\ DOMAIN c.made = 1..Len(c.made) /\ \A t \in 1..Len(c.made) : c.made[t] \in Handle
    BY <1>1
<1>3. \A t \in 1..Len(c.made) : c.made[t].weight \in Nat /\ c.made[t].closes \in Nat
    BY <1>2 DEF Handle
<1>4. /\ c.owned \subseteq Nat /\ c.ready \subseteq DOMAIN g /\ c.needed \subseteq DOMAIN g /\ c.targets \subseteq DOMAIN g
      /\ c.output \in DOMAIN g
           /\ c.incoming \in [DOMAIN g -> Nat] /\ c.pending \in [DOMAIN g -> Int] /\ c.received \in [DOMAIN g -> Int]
           /\ c.failed \in BOOLEAN /\ c.late \in BOOLEAN /\ c.misused = FALSE /\ c.results = <<>>
           /\ c.phase = "walking" /\ c.kind \in {"grad", "backward"}
    BY DEF WalkOf
<1> QED BY <1>1, <1>2, <1>3, <1>4

\* A new temporary is open.
LEMMA MadeOne ==
    ASSUME NEW g, NEW c, Sound(g, c), NEW k \in Nat, NEW d, d = Own(Make(c, k)), NEW N, N = Len(c.made) + 1
    PROVE  /\ Sound(g, d) /\ Kept(c, d) /\ Still(c, d) /\ Weighs(c, d)
           /\ Newest(d) = N /\ Len(d.made) = N /\ N \in Nat /\ d.made[N].weight = k
<1>1. c \in WalkOf(g) /\ Opened(c)
    BY DEF Sound
<1>2. /\ c.made \in Seq(Handle) /\ Len(c.made) \in Nat /\ DOMAIN c.made = 1..Len(c.made)
      /\ \A t \in 1..Len(c.made) : c.made[t] \in Handle /\ c.made[t].weight \in Nat /\ c.made[t].closes \in Nat
      /\ c.owned \subseteq Nat
    BY <1>1, CallFields
<1> DEFINE handle == [weight |-> k, closes |-> 0]
<1> PICK made : made = Append(c.made, handle)
    OBVIOUS
<1>3. handle \in Handle /\ handle.weight = k /\ handle.closes = 0
    BY DEF Handle
<1> HIDE DEF handle
<1>4. /\ made \in Seq(Handle) /\ Len(made) = N /\ made[N] = handle /\ N \in Nat
      /\ \A t \in 1..Len(c.made) : made[t] = c.made[t]
    BY <1>2, <1>3
<1> PICK owned : owned = c.owned \cup {N}
    OBVIOUS
<1>5. d = [[c EXCEPT !.made = made] EXCEPT !.owned = owned]
  <2>1. PICK e : e = [c EXCEPT !.made = made]
      OBVIOUS
  <2>2. Make(c, k) = e
      BY <2>1, <1>1 DEF Make, handle, WalkOf
  <2>3. e.made = made /\ e.owned = c.owned
      BY <1>1, <2>1 DEF WalkOf
  <2>4. Own(e) = [e EXCEPT !.owned = owned]
      BY <1>1, <1>4, <2>1, <2>3 DEF Own, Newest, WalkOf
  <2> QED BY <2>1, <2>2, <2>4
<1>6. owned \subseteq Nat
    BY <1>2, <1>4
<1>7. d \in WalkOf(g) /\ d.made = made /\ d.owned = owned
    BY <1>1, <1>4, <1>5, <1>6 DEF WalkOf
<1>8. Kept(c, d) /\ Still(c, d)
    BY <1>1, <1>5 DEF WalkOf, Kept, Still
<1>9. Opened(d)
  <2>1. /\ Len(c.made) >= 1 /\ c.owned \subseteq (DOMAIN c.made) \ {1}
        /\ \A t \in DOMAIN c.made : c.made[t].closes + (IF t \in c.owned \cup {1} THEN 1 ELSE 0) = 1
        /\ \A n \in c.ready : c.incoming[n] \in DOMAIN c.made
      BY <1>1 DEF Opened
  <2>2. DOMAIN made = 1..N
      BY <1>4
  <2>3. \A t \in 1..N : made[t].closes + (IF t \in owned \cup {1} THEN 1 ELSE 0) = 1
    <3> SUFFICES ASSUME NEW t \in 1..N PROVE made[t].closes + (IF t \in owned \cup {1} THEN 1 ELSE 0) = 1
        OBVIOUS
    <3>1. CASE t = N
        BY <1>3, <1>4, <3>1
    <3>2. CASE t # N
      <4>1. t \in 1..Len(c.made) /\ (t \in owned <=> t \in c.owned)
          BY <1>2, <1>4, <3>2
      <4> QED BY <1>2, <1>4, <2>1, <4>1
    <3> QED BY <3>1, <3>2
  <2>4. owned \subseteq (1..N) \ {1}
      BY <1>2, <1>4, <2>1
  <2>5. \A n \in d.ready : d.incoming[n] \in 1..N
      BY <1>2, <1>4, <1>8, <2>1 DEF Still
  <2> QED BY <1>2, <1>4, <1>7, <2>1, <2>2, <2>3, <2>4, <2>5 DEF Opened
<1>10. Weighs(c, d)
    BY <1>2, <1>4, <1>7 DEF Weighs
<1> QED BY <1>3, <1>4, <1>7, <1>8, <1>9, <1>10 DEF Sound, Newest

\* A temporary is closed once, and then it is none.
LEMMA ReleasedOne ==
    ASSUME NEW g, NEW c, Sound(g, c), NEW r, NEW d, d = ReleaseTemporary(c, r)
    PROVE  Sound(g, d) /\ Kept(c, d) /\ Still(c, d) /\ Weighs(c, d) /\ Len(d.made) = Len(c.made)
<1>1. c \in WalkOf(g) /\ Opened(c)
    BY DEF Sound
<1>2. /\ c.made \in Seq(Handle) /\ Len(c.made) \in Nat /\ DOMAIN c.made = 1..Len(c.made)
      /\ \A t \in 1..Len(c.made) : c.made[t] \in Handle /\ c.made[t].weight \in Nat /\ c.made[t].closes \in Nat
      /\ c.owned \subseteq Nat
    BY <1>1, CallFields
<1>3. CASE r \notin c.owned
  <2>1. d = c
      BY <1>3 DEF ReleaseTemporary
  <2> QED BY <1>1, <1>2, <2>1 DEF Sound, Kept, Still, Weighs
<1>4. CASE r \in c.owned
  <2>1. /\ Len(c.made) >= 1 /\ c.owned \subseteq (DOMAIN c.made) \ {1}
        /\ \A t \in DOMAIN c.made : c.made[t].closes + (IF t \in c.owned \cup {1} THEN 1 ELSE 0) = 1
        /\ \A n \in c.ready : c.incoming[n] \in DOMAIN c.made
      BY <1>1 DEF Opened
  <2>2. r \in 1..Len(c.made) /\ r # 1
      BY <1>2, <1>4, <2>1
  <2> PICK handle : handle = [c.made[r] EXCEPT !.closes = @ + 1]
      OBVIOUS
  <2> PICK made : made = [c.made EXCEPT ![r] = handle]
      OBVIOUS
  <2> PICK owned : owned = c.owned \ {r}
      OBVIOUS
  <2>3. handle \in Handle /\ handle.weight = c.made[r].weight /\ handle.closes = c.made[r].closes + 1
      BY <1>2, <2>2 DEF Handle
  <2>4. /\ made \in Seq(Handle) /\ Len(made) = Len(c.made) /\ made[r] = handle
        /\ \A t \in 1..Len(c.made) : t # r => made[t] = c.made[t]
      BY <1>2, <2>2, <2>3
  <2>5. d = [[c EXCEPT !.made = made] EXCEPT !.owned = owned]
    <3>1. PICK e : e = [c EXCEPT !.made = made]
        OBVIOUS
    <3>2. CloseHandle(c, r) = e
        BY <3>1, <1>1, <2>2 DEF CloseHandle, WalkOf
    <3>3. e.owned = c.owned
        BY <1>1, <3>1 DEF WalkOf
    <3>4. d = [e EXCEPT !.owned = @ \ {r}]
        BY <1>4, <3>2 DEF ReleaseTemporary
    <3>5. [e EXCEPT !.owned = @ \ {r}] = [e EXCEPT !.owned = owned]
        BY <1>1, <3>1, <3>3 DEF WalkOf
    <3> QED BY <3>1, <3>4, <3>5
  <2>6. d \in WalkOf(g) /\ d.made = made /\ d.owned = owned
    <3>1. owned \subseteq Nat
        BY <1>2
    <3> QED BY <1>1, <2>4, <2>5, <3>1 DEF WalkOf
  <2>7. Kept(c, d) /\ Still(c, d)
      BY <1>1, <2>5 DEF WalkOf, Kept, Still
  <2>8. Opened(d)
    <3>1. DOMAIN made = 1..Len(c.made)
        BY <1>2, <2>4
    <3>2. \A t \in 1..Len(c.made) : made[t].closes + (IF t \in owned \cup {1} THEN 1 ELSE 0) = 1
      <4> SUFFICES ASSUME NEW t \in 1..Len(c.made) PROVE made[t].closes + (IF t \in owned \cup {1} THEN 1 ELSE 0) = 1
          OBVIOUS
      <4>1. c.made[t].closes + (IF t \in c.owned \cup {1} THEN 1 ELSE 0) = 1 /\ c.made[t].closes \in Nat
          BY <1>2, <2>1
      <4>2. CASE t = r
          BY <1>2, <1>4, <2>2, <2>3, <2>4, <4>1, <4>2
      <4>3. CASE t # r
          BY <2>4, <4>1, <4>3
      <4> QED BY <4>2, <4>3
    <3>3. owned \subseteq (DOMAIN made) \ {1}
        BY <1>2, <2>1, <3>1
    <3>4. \A n \in d.ready : d.incoming[n] \in DOMAIN made
        BY <1>2, <2>1, <2>7, <3>1 DEF Still
    <3> QED BY <1>2, <2>1, <2>4, <2>6, <3>1, <3>2, <3>3, <3>4 DEF Opened
  <2>9. Weighs(c, d) /\ Len(d.made) = Len(c.made)
    <3>1. \A t \in 1..Len(c.made) : made[t].weight = c.made[t].weight
        BY <2>3, <2>4
    <3> QED BY <1>2, <2>4, <2>6, <3>1 DEF Weighs
  <2> QED BY <2>6, <2>7, <2>8, <2>9 DEF Sound
<1> QED BY <1>3, <1>4

\* What the arrival of the contribution k does to the node m.
Arrives(c, d, m, k) ==
    /\ d.failed = c.failed /\ d.late = c.late /\ Len(d.made) = Len(c.made)
    /\ d.pending = [c.pending EXCEPT ![m] = @ - 1] /\ d.incoming = [c.incoming EXCEPT ![m] = k]
    /\ d.ready = (IF c.pending[m] = 1 THEN c.ready \cup {m} ELSE c.ready)

\* A contribution that arrives at a node.
LEMMA ArrivedOne ==
    ASSUME NEW g, NEW c, Sound(g, c), NEW m \in DOMAIN g, NEW k \in 1..Len(c.made),
           NEW e, e = [c EXCEPT !.incoming[m] = k], NEW d, d = Arrived(e, m)
    PROVE  Sound(g, d) /\ Kept(c, d) /\ Weighs(c, d) /\ Arrives(c, d, m, k)
<1>1. c \in WalkOf(g) /\ Opened(c)
    BY DEF Sound
<1>2. /\ c.made \in Seq(Handle) /\ Len(c.made) \in Nat /\ DOMAIN c.made = 1..Len(c.made)
      /\ c.incoming \in [DOMAIN g -> Nat] /\ c.pending \in [DOMAIN g -> Int] /\ c.ready \subseteq DOMAIN g
    BY <1>1, CallFields
<1> PICK incoming : incoming = [c.incoming EXCEPT ![m] = k]
    OBVIOUS
<1> PICK pending : pending = [c.pending EXCEPT ![m] = @ - 1]
    OBVIOUS
<1> PICK ready : ready = IF c.pending[m] = 1 THEN c.ready \cup {m} ELSE c.ready
    OBVIOUS
<1>3. incoming \in [DOMAIN g -> Nat] /\ pending \in [DOMAIN g -> Int] /\ ready \subseteq DOMAIN g
    BY <1>2
<1>4. d = [[[c EXCEPT !.incoming = incoming] EXCEPT !.pending = pending] EXCEPT !.ready = ready]
  <2>2. e = [c EXCEPT !.incoming = incoming]
      BY <1>1 DEF WalkOf
  <2>3. e.pending = c.pending /\ e.ready = c.ready
      BY <1>1, <2>2 DEF WalkOf
  <2>4. d = [e EXCEPT !.pending[m] = @ - 1, !.ready = IF e.pending[m] = 1 THEN @ \cup {m} ELSE @]
      BY DEF Arrived
  <2>5. PICK f : f = [e EXCEPT !.pending = pending]
      OBVIOUS
  <2>6. [e EXCEPT !.pending[m] = @ - 1] = f /\ f.ready = c.ready
      BY <1>1, <2>2, <2>3, <2>5 DEF WalkOf
  <2>7. d = [f EXCEPT !.ready = IF e.pending[m] = 1 THEN @ \cup {m} ELSE @]
      BY <2>4, <2>6
  <2>8. d = [f EXCEPT !.ready = ready]
      BY <1>1, <2>2, <2>3, <2>5, <2>6, <2>7 DEF WalkOf
  <2> QED BY <2>2, <2>5, <2>8
<1>5. d \in WalkOf(g) /\ d.pending = pending /\ d.incoming = incoming /\ d.ready = ready /\ d.made = c.made /\ d.owned = c.owned
    BY <1>1, <1>3, <1>4 DEF WalkOf
<1>6. Kept(c, d) /\ d.failed = c.failed /\ d.late = c.late
    BY <1>1, <1>4 DEF WalkOf, Kept
<1>7. Opened(d)
  <2>1. \A n \in c.ready : c.incoming[n] \in DOMAIN c.made
      BY <1>1 DEF Opened
  <2>2. \A n \in ready : incoming[n] \in DOMAIN c.made
      BY <1>2, <2>1
  <2> QED BY <1>1, <1>5, <2>2 DEF Opened
<1>8. Weighs(c, d) /\ Len(d.made) = Len(c.made)
  <2>1. Len(c.made) \in Nat /\ Len(c.made) <= Len(c.made)
      BY <1>2
  <2>2. d.made = c.made
      BY <1>5
  <2> QED BY ONLY <2>1, <2>2 DEF Weighs
<1>9. Arrives(c, d, m, k)
    BY <1>5, <1>6, <1>8 DEF Arrives
<1> QED BY <1>5, <1>6, <1>7, <1>8, <1>9 DEF Sound

-----------------------------------------------------------------------------
(* Contributions                                                            *)

\* A node that may be visited has the values its recipe saved, as they were.
Fresh(n) ==
    /\ nodes[n].recipe = "mul" => nodes[n].saved # {}
    /\ \A s \in nodes[n].saved : version[s.value] = s.version

\* A valid node with an edge has all it saved.
LEMMA ValidIsFresh ==
    ASSUME History, NEW n \in DOMAIN nodes, Valid(n), Edges(n) # {}
    PROVE  Fresh(n)
<1>1. HistoryTyped /\ RefsAreEdges /\ SavesAreBalanced
    BY DEF History
<1>2. ~nodes[n].consumed /\ \A s \in nodes[n].saved : version[s.value] = s.version
    BY DEF Valid
<1>3. nodes[n] \in NodeOf
    BY <1>1, NodesAreNumbered
<1>4. IsFiniteSet(Edges(n)) /\ Cardinality(Edges(n)) # 0
    BY <1>3, EdgesAreTwo, FS_EmptySet
<1>5. nodes[n].refs # 0
  <2>1. nodes[n].inputs = <<>> => Edges(n) = {}
      BY <1>3, EdgesAreTwo
  <2> QED BY <1>1, <2>1 DEF RefsAreEdges, Referred
<1>6. nodes[n].recipe = "mul" => Cardinality(nodes[n].saved) = Cardinality(Edges(n))
    BY <1>1, <1>2, <1>5 DEF SavesAreBalanced
<1>7. nodes[n].recipe = "mul" => nodes[n].saved # {}
    BY <1>4, <1>6, FS_EmptySet
<1> QED BY <1>2, <1>7 DEF Fresh

\* What a contribution does to the sums: it is added to what was there.
Delivers(g, c, d, m, w) ==
    /\ d.pending = [c.pending EXCEPT ![m] = @ - 1]
    /\ d.ready = (IF c.pending[m] = 1 THEN c.ready \cup {m} ELSE c.ready)
    /\ \E k \in 1..Len(d.made) :
         /\ d.incoming = [c.incoming EXCEPT ![m] = k]
         /\ d.made[k].weight = w + (IF c.incoming[m] = 0 THEN 0 ELSE c.made[c.incoming[m]].weight)

\* Weights stay what they are.
LEMMA WeighsOn ==
    ASSUME NEW c, NEW e, NEW d, Weighs(c, e), Weighs(e, d)
    PROVE  Weighs(c, d)
<1>1. /\ Len(c.made) \in Nat /\ Len(e.made) \in Nat /\ Len(d.made) \in Nat
      /\ Len(c.made) <= Len(e.made) /\ Len(e.made) <= Len(d.made)
      /\ \A t \in 1..Len(c.made) : e.made[t].weight = c.made[t].weight
      /\ \A t \in 1..Len(e.made) : d.made[t].weight = e.made[t].weight
    BY DEF Weighs
<1>2. \A t \in 1..Len(c.made) : t \in 1..Len(e.made)
    BY <1>1
<1> QED BY <1>1, <1>2 DEF Weighs

Delivered(g, c, d, n, p, m) ==
    /\ Sound(g, d) /\ Kept(c, d) /\ d.late = c.late /\ Weighs(c, d)
    /\ d.failed => d.ready = c.ready
    /\ ~d.failed => Delivers(g, c, d, m, Factor(n, p) * c.made[c.incoming[n]].weight)

\* A contribution arrives, or the call fails.
LEMMA DeliverIs ==
    ASSUME NEW g, NEW c, Sound(g, c), ~c.failed, NEW n \in DOMAIN g, c.incoming[n] \in 1..Len(c.made), Fresh(n),
           NEW p \in Edges(n), NEW m \in DOMAIN g, m = nodes[n].inputs[p], m \in c.needed, c.incoming[m] \in 0..Len(c.made),
           Factor(n, p) \in {0, 1}, NEW fault, NEW d, d = Deliver(c, n, p, fault)
    PROVE  Delivered(g, c, d, n, p, m)
<1>1. c \in WalkOf(g)
    BY DEF Sound
<1>2. /\ c.made \in Seq(Handle) /\ Len(c.made) \in Nat /\ DOMAIN c.made = 1..Len(c.made)
      /\ \A t \in 1..Len(c.made) : c.made[t] \in Handle /\ c.made[t].weight \in Nat
      /\ c.incoming \in [DOMAIN g -> Nat] /\ c.failed \in BOOLEAN /\ c.misused = FALSE
    BY <1>1, CallFields
<1>p. PICK previous : previous = c.incoming[m]
    OBVIOUS
<1>w. PICK w : w = Factor(n, p) * c.made[c.incoming[n]].weight
    OBVIOUS
<1>3. w \in Nat
  <2>1. c.made[c.incoming[n]].weight \in Nat
      BY <1>2
  <2>2. \A k \in Nat : 0 * k = 0 /\ 1 * k = k
      OBVIOUS
  <2> QED BY <1>w, <2>1, <2>2
<1>u. PICK used : used = Contribute(c, n, p)
    OBVIOUS
<1>4. Stale(n, p) = FALSE
    BY DEF Fresh, Stale
<1>5. used = Own(Make(c, w))
  <2>1. [c EXCEPT !.misused = @ \/ Stale(n, p)] = c
      BY <1>1, <1>2, <1>4 DEF WalkOf
  <2> QED BY <1>w, <1>u, <2>1 DEF Contribute
<1>n. PICK N : N = Len(c.made) + 1
    OBVIOUS
<1>6. /\ Sound(g, used) /\ Kept(c, used) /\ Still(c, used) /\ Weighs(c, used)
      /\ Newest(used) = N /\ Len(used.made) = N /\ N \in Nat /\ used.made[N].weight = w
    BY <1>5, <1>n, <1>3, MadeOne
<1>s. PICK sum : sum = used.made[N].weight + used.made[previous].weight
    OBVIOUS
<1>sm. PICK summed : summed = Own(Make(used, sum))
    OBVIOUS
<1>c2. PICK c2 : c2 = ReleaseTemporary(ReleaseTemporary(summed, previous), N)
    OBVIOUS
<1>7. d = IF fault = <<"apply", p>> THEN [c EXCEPT !.failed = TRUE]
          ELSE IF fault = <<"inherit", p>> THEN [used EXCEPT !.failed = TRUE]
          ELSE Arrived(Combine(used, m), m)
  <2>1. d = Deliver(c, n, p, fault) /\ m = nodes[n].inputs[p] /\ ~c.failed /\ p \in Edges(n) /\ m \in c.needed
      OBVIOUS
  <2> QED BY ONLY <1>u, <2>1 DEF Deliver
<1>8. c.failed = FALSE /\ used.failed = FALSE /\ used.incoming[m] = previous
    BY <1>p, <1>2, <1>6 DEF Still
<1>c. Combine(used, m) = IF previous = 0 THEN [used EXCEPT !.incoming[m] = N]
                         ELSE [c2 EXCEPT !.incoming[m] = Newest(c2)]
  <2>1. used.incoming[m] = previous /\ Newest(used) = N
      BY <1>6, <1>8
  <2> QED BY ONLY <1>s, <1>sm, <1>c2, <2>1 DEF Combine
<1>9. ASSUME NEW e, Sound(g, e), Kept(c, e), Still(c, e), Weighs(c, e), d = [e EXCEPT !.failed = TRUE]
      PROVE  /\ Sound(g, d) /\ Kept(c, d) /\ d.late = c.late /\ Weighs(c, d) /\ d.failed /\ d.ready = c.ready
  <2>1. e \in WalkOf(g) /\ Opened(e)
      BY <1>9 DEF Sound
  <2>2. d \in WalkOf(g) /\ d.failed = TRUE /\ d.made = e.made /\ d.owned = e.owned /\ d.ready = e.ready /\ d.incoming = e.incoming
        /\ d.late = e.late
      BY <1>9, <2>1 DEF WalkOf
  <2>3. Opened(d)
      BY <2>1, <2>2 DEF Opened
  <2>4. Kept(e, d)
      BY <1>9, <2>1 DEF WalkOf, Kept
  <2>5. Kept(c, d)
      BY <1>9, <2>4 DEF Kept
  <2>6. Weighs(c, d) /\ d.ready = c.ready /\ d.late = c.late
      BY <1>9, <2>2 DEF Weighs, Still
  <2> QED BY <2>2, <2>3, <2>5, <2>6 DEF Sound
<1>10. CASE fault = <<"apply", p>>
  <2>1. d = [c EXCEPT !.failed = TRUE]
      BY <1>7, <1>8, <1>10
  <2>2. Kept(c, c) /\ Still(c, c) /\ Weighs(c, c)
      BY <1>2 DEF Kept, Still, Weighs
  <2> QED BY <1>9, <2>1, <2>2 DEF Delivered
<1>11. CASE fault # <<"apply", p>> /\ fault = <<"inherit", p>>
  <2>1. d = [used EXCEPT !.failed = TRUE]
      BY <1>7, <1>8, <1>11
  <2> QED BY <1>6, <1>9, <2>1 DEF Delivered
<1>12. ASSUME fault # <<"apply", p>>, fault # <<"inherit", p>>, NEW e, NEW k \in 1..Len(e.made), Sound(g, e), Kept(c, e), Still(c, e),
              Weighs(c, e), d = Arrived([e EXCEPT !.incoming[m] = k], m),
              e.made[k].weight = w + (IF previous = 0 THEN 0 ELSE c.made[previous].weight)
       PROVE  /\ Sound(g, d) /\ Kept(c, d) /\ d.late = c.late /\ Weighs(c, d) /\ ~d.failed
              /\ Delivers(g, c, d, m, w)
  <2>1. /\ Sound(g, d) /\ Kept(e, d) /\ Weighs(e, d) /\ d.failed = e.failed /\ d.late = e.late /\ Len(d.made) = Len(e.made)
        /\ d.pending = [e.pending EXCEPT ![m] = @ - 1] /\ d.incoming = [e.incoming EXCEPT ![m] = k]
        /\ d.ready = (IF e.pending[m] = 1 THEN e.ready \cup {m} ELSE e.ready)
    <3>1. PICK f : f = [e EXCEPT !.incoming[m] = k]
        OBVIOUS
    <3>2. Sound(g, e) /\ m \in DOMAIN g /\ k \in 1..Len(e.made) /\ d = Arrived(f, m)
        BY <1>12, <3>1
    <3>3. Sound(g, d) /\ Kept(e, d) /\ Weighs(e, d) /\ Arrives(e, d, m, k)
        BY ONLY <3>1, <3>2, ArrivedOne
    <3> QED BY <3>3 DEF Arrives
  <2>2. e.pending = c.pending /\ e.ready = c.ready /\ e.incoming = c.incoming /\ e.failed = c.failed /\ e.late = c.late
      BY <1>12 DEF Still
  <2>3. Kept(c, d)
      BY <1>12, <2>1 DEF Kept
  <2>4. Weighs(c, d)
    <3>1. Weighs(c, e) /\ Weighs(e, d)
        BY <1>12, <2>1
    <3> QED BY ONLY <3>1, WeighsOn
  <2>5. d.made[k].weight = e.made[k].weight
      BY <1>12, <2>1 DEF Weighs
  <2>6. Delivers(g, c, d, m, w)
    <3>1. d.made[k].weight = w + (IF c.incoming[m] = 0 THEN 0 ELSE c.made[c.incoming[m]].weight) /\ k \in 1..Len(d.made)
        BY <1>p, <1>12, <2>1, <2>5
    <3>2. d.pending = [c.pending EXCEPT ![m] = @ - 1] /\ d.incoming = [c.incoming EXCEPT ![m] = k]
          /\ d.ready = (IF c.pending[m] = 1 THEN c.ready \cup {m} ELSE c.ready)
        BY <2>1, <2>2
    <3> QED BY <3>1, <3>2 DEF Delivers
  <2> QED BY <1>8, <2>1, <2>2, <2>3, <2>4, <2>6
<1>13. CASE fault # <<"apply", p>> /\ fault # <<"inherit", p>> /\ previous = 0
  <2>1. d = Arrived([used EXCEPT !.incoming[m] = N], m)
      BY <1>7, <1>c, <1>13
  <2>2. N \in 1..Len(used.made) /\ used.made[N].weight = w + (IF previous = 0 THEN 0 ELSE c.made[previous].weight)
    <3>1. N \in Nat /\ N >= 1 /\ Len(used.made) = N /\ used.made[N].weight = w
        BY <1>2, <1>n, <1>6
    <3>2. w + (IF previous = 0 THEN 0 ELSE c.made[previous].weight) = w
        BY <1>3, <1>13
    <3> QED BY <3>1, <3>2
  <2>3. Sound(g, used) /\ Kept(c, used) /\ Still(c, used) /\ Weighs(c, used)
      BY <1>6
  <2>4. /\ Sound(g, d) /\ Kept(c, d) /\ d.late = c.late /\ Weighs(c, d) /\ ~d.failed
        /\ Delivers(g, c, d, m, w)
      BY <1>12, <1>13, <2>1, <2>2, <2>3
  <2> QED BY <1>w, <2>4 DEF Delivered
<1>14. CASE fault # <<"apply", p>> /\ fault # <<"inherit", p>> /\ previous # 0
  <2>1. previous \in 1..Len(c.made) /\ used.made[previous].weight = c.made[previous].weight /\ c.made[previous].weight \in Nat
    <3>1. previous \in 1..Len(c.made)
        BY <1>p, <1>2, <1>14
    <3> QED BY <1>2, <1>6, <3>1 DEF Weighs
  <2>2. sum = w + c.made[previous].weight /\ sum \in Nat
      BY <1>s, <1>3, <1>6, <2>1
  <2>m. PICK M : M = Len(used.made) + 1
      OBVIOUS
  <2>3. /\ Sound(g, summed) /\ Kept(used, summed) /\ Still(used, summed) /\ Weighs(used, summed)
        /\ Newest(summed) = M /\ Len(summed.made) = M /\ M \in Nat /\ summed.made[M].weight = sum
    <3>1. Sound(g, used) /\ sum \in Nat /\ summed = Own(Make(used, sum)) /\ M = Len(used.made) + 1
        BY <1>sm, <2>m, <1>6, <2>2
    <3> QED BY ONLY <3>1, MadeOne
  <2>c1. PICK c1 : c1 = ReleaseTemporary(summed, previous)
      OBVIOUS
  <2>4. Sound(g, c1) /\ Kept(summed, c1) /\ Still(summed, c1) /\ Weighs(summed, c1) /\ Len(c1.made) = Len(summed.made)
      BY <2>c1, <2>3, ReleasedOne
  <2>5. c2 = ReleaseTemporary(c1, N)
      BY <1>c2, <2>c1
  <2>6. Sound(g, c2) /\ Kept(c1, c2) /\ Still(c1, c2) /\ Weighs(c1, c2) /\ Len(c2.made) = Len(c1.made)
      BY <2>4, <2>5, ReleasedOne
  <2>7. Kept(c, c2)
      BY <1>6, <2>3, <2>4, <2>6 DEF Kept
  <2>8. Still(c, c2)
      BY <1>6, <2>3, <2>4, <2>6 DEF Still
  <2>9. Weighs(c, c2) /\ c2.made[M].weight = sum
    <3>1. Weighs(c, summed)
        BY <1>6, <2>3, WeighsOn
    <3>2. Weighs(summed, c2)
        BY <2>4, <2>6, WeighsOn
    <3>3. Weighs(c, c2)
        BY <3>1, <3>2, WeighsOn
    <3>4. M \in 1..Len(summed.made)
      <4>1. N \in Nat /\ Len(used.made) = N
          BY <1>6
      <4> QED BY <2>m, <2>3, <4>1
    <3> QED BY <2>3, <3>2, <3>3, <3>4 DEF Weighs
  <2>10. d = Arrived([c2 EXCEPT !.incoming[m] = M], m)
    <3>1. Newest(c2) = M
        BY <2>3, <2>4, <2>6 DEF Newest
    <3> QED BY <1>7, <1>c, <1>14, <3>1
  <2>11. M \in 1..Len(c2.made) /\ c2.made[M].weight = w + (IF previous = 0 THEN 0 ELSE c.made[previous].weight)
    <3>1. Len(c2.made) = M /\ M \in Nat
        BY <2>3, <2>4, <2>6
    <3>2. M >= 1
      <4>1. N \in Nat /\ Len(used.made) = N
          BY <1>6
      <4> QED BY <2>m, <4>1
    <3>3. w + (IF previous = 0 THEN 0 ELSE c.made[previous].weight) = sum
        BY <1>14, <2>2
    <3> QED BY <2>9, <3>1, <3>2, <3>3
  <2>12. Sound(g, c2) /\ Kept(c, c2) /\ Still(c, c2) /\ Weighs(c, c2)
      BY <2>6, <2>7, <2>8, <2>9
  <2>13. /\ Sound(g, d) /\ Kept(c, d) /\ d.late = c.late /\ Weighs(c, d) /\ ~d.failed
         /\ Delivers(g, c, d, m, w)
      BY <1>12, <1>14, <2>10, <2>11, <2>12
  <2> QED BY <1>w, <2>13 DEF Delivered
<1> QED BY <1>10, <1>11, <1>13, <1>14

\* What a contribution leaves alone.
LEMMA SummedElsewhere ==
    ASSUME NEW g, NEW P, NEW c, c \in WalkOf(g), NEW D, NEW m \in DOMAIN g, NEW k \in c.needed, k # m, Summed(g, P, c, D, k),
           NEW e, e \notin Arcs(g, c.needed, k), NEW w,
           NEW d, d \in WalkOf(g), Kept(c, d), Weighs(c, d), Delivers(g, c, d, m, w)
    PROVE  Summed(g, P, d, D \cup {e}, k)
<1> DEFINE arcs == Arcs(g, c.needed, k)
<1>1. /\ c.incoming \in [DOMAIN g -> Nat] /\ c.pending \in [DOMAIN g -> Int] /\ c.needed \subseteq DOMAIN g
      /\ Len(c.made) \in Nat
    BY CallFields
<1>2. d.needed = c.needed /\ d.output = c.output /\ d.received = c.received /\ Visited(d) = Visited(c)
    BY DEF Kept, Visited
<1>3. d.incoming[k] = c.incoming[k] /\ d.pending[k] = c.pending[k] /\ (k \in d.ready <=> k \in c.ready)
    BY <1>1 DEF Delivers
<1>4. \A t \in 1..Len(c.made) : d.made[t].weight = c.made[t].weight /\ t \in 1..Len(d.made)
    BY DEF Weighs
<1>5. arcs \ (D \cup {e}) = arcs \ D /\ arcs \cap (D \cup {e}) = arcs \cap D /\ (arcs \subseteq D \cup {e} <=> arcs \subseteq D)
    OBVIOUS
<1> HIDE DEF arcs
<1>6. /\ c.pending[k] = Cardinality(arcs \ D)
      /\ c.incoming[k] \in 0..Len(c.made)
      /\ k \in Visited(c) => k \notin c.ready /\ c.incoming[k] # 0 /\ c.made[c.incoming[k]].weight = c.received[k]
      /\ k = c.output => c.incoming[k] = 1 /\ c.made[1].weight = 1 /\ k \in c.ready \cup Visited(c)
      /\ k # c.output => /\ k \in c.ready \cup Visited(c) <=> arcs \subseteq D
                         /\ c.incoming[k] = 0 <=> arcs \cap D = {}
                         /\ c.incoming[k] # 0 => c.made[c.incoming[k]].weight = Weight(Flow(g, P), arcs \cap D)
    BY DEF Summed, arcs
<1>7. Len(d.made) \in Nat /\ Len(c.made) <= Len(d.made)
    BY DEF Weighs
<1>8. c.incoming[k] # 0 => d.made[d.incoming[k]].weight = c.made[c.incoming[k]].weight
    BY <1>1, <1>3, <1>4, <1>6
<1>9. /\ d.pending[k] = Cardinality(arcs \ (D \cup {e}))
      /\ d.incoming[k] \in 0..Len(d.made)
      /\ k \in Visited(d) => k \notin d.ready /\ d.incoming[k] # 0 /\ d.made[d.incoming[k]].weight = d.received[k]
      /\ k = d.output => d.incoming[k] = 1 /\ d.made[1].weight = 1 /\ k \in d.ready \cup Visited(d)
  <2>1. d.pending[k] = Cardinality(arcs \ (D \cup {e}))
      BY <1>3, <1>5, <1>6
  <2>2. d.incoming[k] \in 0..Len(d.made)
      BY <1>1, <1>3, <1>6, <1>7
  <2>3. k \in Visited(d) => k \notin d.ready /\ d.incoming[k] # 0 /\ d.made[d.incoming[k]].weight = d.received[k]
      BY <1>2, <1>3, <1>6, <1>8
  <2>4. k = d.output => d.incoming[k] = 1 /\ d.made[1].weight = 1 /\ k \in d.ready \cup Visited(d)
      BY <1>1, <1>2, <1>3, <1>4, <1>6
  <2> QED BY <2>1, <2>2, <2>3, <2>4
<1>10. k # d.output => /\ k \in d.ready \cup Visited(d) <=> arcs \subseteq D \cup {e}
                       /\ d.incoming[k] = 0 <=> arcs \cap (D \cup {e}) = {}
                       /\ d.incoming[k] # 0 => d.made[d.incoming[k]].weight = Weight(Flow(g, P), arcs \cap (D \cup {e}))
    BY <1>2, <1>3, <1>5, <1>6, <1>8
<1> QED BY <1>2, <1>9, <1>10 DEF Summed, arcs

\* What a contribution adds.
LEMMA SummedHere ==
    ASSUME NEW g, NEW N, Ordered(g, N), NEW P \in [DOMAIN g -> Nat], NEW c, c \in WalkOf(g), NEW D,
           NEW m \in c.needed, m # c.output, Summed(g, P, c, D, m),
           NEW e, e \in Arcs(g, c.needed, m), e \notin D, NEW w, w = Flow(g, P)[e],
           NEW d, d \in WalkOf(g), Kept(c, d), Weighs(c, d), Delivers(g, c, d, m, w)
    PROVE  Summed(g, P, d, D \cup {e}, m)
<1> DEFINE arcs == Arcs(g, c.needed, m)
<1>1. /\ c.incoming \in [DOMAIN g -> Nat] /\ c.pending \in [DOMAIN g -> Int] /\ c.needed \subseteq DOMAIN g
      /\ Len(c.made) \in Nat
    BY CallFields
<1>2. d.needed = c.needed /\ d.output = c.output /\ Visited(d) = Visited(c)
    BY DEF Kept, Visited
<1>3. m \in DOMAIN g /\ c.needed \in SUBSET DOMAIN g
    BY <1>1
<1>4. arcs \subseteq (DOMAIN g) \X {1, 2} /\ IsFiniteSet(arcs)
  <2>1. PICK s : s = c.needed
      OBVIOUS
  <2>2. Arcs(g, s, m) \subseteq (DOMAIN g) \X {1, 2} /\ IsFiniteSet(Arcs(g, s, m))
      BY <1>3, <2>1, ArcsDescend
  <2> QED BY <2>1, <2>2
<1>5. \A x \in (DOMAIN g) \X {1, 2} : Flow(g, P)[x] \in Nat
  <2>1. PICK s : s = c.needed
      OBVIOUS
  <2>2. s \in SUBSET DOMAIN g
      BY <1>3, <2>1
  <2>3. \A R \in [DOMAIN g -> Nat] : \A x \in (DOMAIN g) \X {1, 2} : Flow(g, R)[x] = Share(g, x) * R[x[1]] /\ Flow(g, R)[x] \in Nat
      BY ONLY <1>3, <2>2, Ordered(g, N), ArcsDescend
  <2> QED BY <2>3
<1>6. e \in arcs
    OBVIOUS
<1> HIDE DEF arcs
<1>7. /\ c.pending[m] = Cardinality(arcs \ D)
      /\ c.incoming[m] \in 0..Len(c.made)
      /\ m \in c.ready \cup Visited(c) <=> arcs \subseteq D
      /\ c.incoming[m] = 0 <=> arcs \cap D = {}
      /\ c.incoming[m] # 0 => c.made[c.incoming[m]].weight = Weight(Flow(g, P), arcs \cap D)
    BY DEF Summed, arcs
<1>8. m \notin c.ready /\ m \notin Visited(c)
    BY <1>6, <1>7
<1>9. IsFiniteSet(arcs \ D) /\ Cardinality(arcs \ (D \cup {e})) = Cardinality(arcs \ D) - 1 /\ Cardinality(arcs \ D) \in Nat
  <2>1. IsFiniteSet(arcs \ D)
      BY <1>4, FS_Subset
  <2>2. Cardinality((arcs \ D) \ {e}) = Cardinality(arcs \ D) - 1
      BY <1>6, <2>1, FS_RemoveElement
  <2>3. (arcs \ D) \ {e} = arcs \ (D \cup {e})
      OBVIOUS
  <2> QED BY <2>1, <2>2, <2>3, FS_CardinalityType
<1>10. c.pending[m] = 1 <=> arcs \subseteq D \cup {e}
  <2>1. IsFiniteSet(arcs \ (D \cup {e}))
      BY <1>4, FS_Subset
  <2>2. Cardinality(arcs \ (D \cup {e})) = 0 <=> arcs \ (D \cup {e}) = {}
      BY <2>1, FS_EmptySet
  <2>3. arcs \ (D \cup {e}) = {} <=> arcs \subseteq D \cup {e}
      OBVIOUS
  <2> QED BY <1>7, <1>9, <2>2, <2>3
<1> DEFINE before == arcs \cap D
           after == arcs \cap (D \cup {e})
<1>11. Weight(Flow(g, P), after) = w + Weight(Flow(g, P), before) /\ Weight(Flow(g, P), before) \in Nat
  <2>1. e \in after /\ after \ {e} = before
      BY <1>6
  <2>2. IsFiniteSet(before) /\ \A x \in before : Flow(g, P)[x] \in Nat
      BY <1>4, <1>5, FS_Subset
  <2> HIDE DEF before, after
  <2>3. IsFiniteSet(Units(Flow(g, P), before)) /\ Weight(Flow(g, P), before) \in Nat
      BY <2>2, WeightIsFinite
  <2>4. PICK f : f = Flow(g, P)
      OBVIOUS
  <2>5. f[e] \in Nat
      BY <1>4, <1>5, <1>6, <2>4
  <2>6. IsFiniteSet(Units(f, after \ {e}))
      BY <2>1, <2>3, <2>4
  <2>7. Weight(f, after) = f[e] + Weight(f, after \ {e})
      BY ONLY <2>1, <2>5, <2>6, WeightGrows
  <2> QED BY <2>1, <2>3, <2>4, <2>7
<1>12. PICK k \in 1..Len(d.made) :
         /\ d.incoming = [c.incoming EXCEPT ![m] = k]
         /\ d.made[k].weight = w + (IF c.incoming[m] = 0 THEN 0 ELSE c.made[c.incoming[m]].weight)
    BY DEF Delivers
<1>13. d.pending[m] = c.pending[m] - 1 /\ d.incoming[m] = k /\ d.ready = (IF c.pending[m] = 1 THEN c.ready \cup {m} ELSE c.ready)
    BY <1>1, <1>3, <1>12 DEF Delivers
<1>14. d.made[k].weight = Weight(Flow(g, P), after)
  <2>1. CASE c.incoming[m] = 0
    <3>1. before = {}
        BY <1>7, <2>1
    <3>2. Weight(Flow(g, P), before) = 0
        BY <3>1, WeightOfNone
    <3> QED BY <1>11, <1>12, <2>1, <3>2
  <2>2. CASE c.incoming[m] # 0
      BY <1>7, <1>11, <1>12, <2>2
  <2> QED BY <2>1, <2>2
<1>15. Len(d.made) \in Nat
    BY DEF Weighs
<1>16. d.pending[m] = Cardinality(arcs \ (D \cup {e})) /\ d.incoming[m] \in 0..Len(d.made)
    BY <1>7, <1>9, <1>12, <1>13, <1>15
<1>17. m \in d.ready \cup Visited(d) <=> arcs \subseteq D \cup {e}
    BY <1>2, <1>8, <1>10, <1>13
<1>18. d.incoming[m] # 0 /\ after # {}
    BY <1>6, <1>12, <1>13
<1> QED BY <1>2, <1>8, <1>13, <1>14, <1>16, <1>17, <1>18 DEF Summed, arcs

\* A delivery keeps the sums in order, with one edge more, or fails.
LEMMA DeliverKeeps ==
    ASSUME HistoryTyped, EdgesDescend, NEW g, g = Shape, NEW c, NEW P \in [DOMAIN g -> Nat], NEW D, WalksWith(g, P, c, D),
           NEW n \in Visited(c), NEW p \in {1, 2}, NEW e, e = <<n, p>>, e \notin D,
           p \in Edges(n) /\ nodes[n].inputs[p] \in c.needed => Fresh(n),
           NEW fault, NEW d, d = Deliver(c, n, p, fault)
    PROVE  WalksWith(g, P, d, D \cup {e}) /\ Kept(c, d) /\ d.late = c.late /\ Weighs(c, d)
<1>1. c \in WalkOf(g) /\ Opened(c) /\ Planned(g, c) /\ Earned(c, P) /\ (~c.failed => Summing(g, P, c, D))
    BY DEF WalksWith
<1>2. /\ c.incoming \in [DOMAIN g -> Nat] /\ c.received \in [DOMAIN g -> Int] /\ c.needed \subseteq DOMAIN g
      /\ Len(c.made) \in Nat /\ c.failed \in BOOLEAN
    BY <1>1, CallFields
<1> PICK N : N = Len(nodes)
    OBVIOUS
<1>3. /\ Ordered(g, N) /\ DOMAIN g = DOMAIN nodes
      /\ \A x \in (DOMAIN nodes) \X {1, 2} : Factor(x[1], x[2]) = Share(g, x)
      /\ \A m \in DOMAIN nodes : Into(c.needed, m) = Arcs(g, c.needed, m)
  <2>1. PICK s : s = c.needed
      OBVIOUS
  <2>2. /\ Ordered(Shape, N) /\ DOMAIN Shape = DOMAIN nodes
        /\ \A s1 \in SUBSET DOMAIN nodes : \A m \in DOMAIN nodes : Into(s1, m) = Arcs(Shape, s1, m)
        /\ \A x \in (DOMAIN nodes) \X {1, 2} : Factor(x[1], x[2]) = Share(Shape, x)
      BY ShapeIsOrdered
  <2> QED BY <1>2, <2>1, <2>2
<1>4. n \in DOMAIN g /\ n \in c.needed
    BY <1>1, <1>2 DEF Visited, Earned
<1>5. CASE c.failed
  <2>1. d = c
    <3>1. (c.failed \/ p \notin Edges(n) \/ nodes[n].inputs[p] \notin c.needed) = TRUE
        BY <1>5
    <3>2. d = Deliver(c, n, p, fault)
        OBVIOUS
    <3> QED BY ONLY <3>1, <3>2 DEF Deliver
  <2> QED BY <1>1, <1>2, <1>5, <2>1 DEF WalksWith, Kept, Weighs
<1>6. CASE ~c.failed /\ ~(p \in Edges(n) /\ nodes[n].inputs[p] \in c.needed)
  <2>1. d = c
    <3>1. (c.failed \/ p \notin Edges(n) \/ nodes[n].inputs[p] \notin c.needed) = TRUE
        BY <1>6
    <3>2. d = Deliver(c, n, p, fault)
        OBVIOUS
    <3> QED BY ONLY <3>1, <3>2 DEF Deliver
  <2>2. ASSUME NEW k \in c.needed PROVE e \notin Arcs(g, c.needed, k)
    <3>1. k # 0 /\ k \in DOMAIN nodes
        BY <1>2, <1>3, NodesAreNumbered
    <3>2. Into(c.needed, k) = Arcs(g, c.needed, k)
        BY <1>3, <3>1
    <3>3. e \in Into(c.needed, k) => p \in Edges(n) /\ nodes[n].inputs[p] = k
        BY DEF Into
    <3> QED BY <1>6, <3>2, <3>3
  <2>3. ASSUME NEW k \in c.needed PROVE Summed(g, P, c, D \cup {e}, k)
    <3> DEFINE arcs == Arcs(g, c.needed, k)
    <3>1. arcs \ (D \cup {e}) = arcs \ D /\ arcs \cap (D \cup {e}) = arcs \cap D /\ (arcs \subseteq D \cup {e} <=> arcs \subseteq D)
        BY <2>2
    <3>2. Summed(g, P, c, D, k)
        BY <1>1, <1>6 DEF Summing
    <3> HIDE DEF arcs
    <3> QED BY <3>1, <3>2 DEF Summed, arcs
  <2>4. Summing(g, P, c, D \cup {e})
      BY <2>3 DEF Summing
  <2> QED BY <1>1, <1>2, <2>1, <2>4 DEF WalksWith, Kept, Weighs
<1>7. CASE ~c.failed /\ p \in Edges(n) /\ nodes[n].inputs[p] \in c.needed
  <2>1. PICK m : m = nodes[n].inputs[p]
      OBVIOUS
  <2>2. m \in c.needed /\ m \in DOMAIN g
      BY <1>2, <1>7, <2>1
  <2>3. Summed(g, P, c, D, n) /\ Summed(g, P, c, D, m)
      BY <1>1, <1>4, <1>7, <2>2 DEF Summing
  <2>4. /\ c.incoming[n] \in 0..Len(c.made) /\ c.incoming[n] # 0 /\ c.made[c.incoming[n]].weight = c.received[n]
        /\ c.incoming[m] \in 0..Len(c.made)
      BY <2>3 DEF Summed
  <2>5. c.incoming[n] \in 1..Len(c.made)
      BY <1>2, <2>4
  <2>6. c.received[n] = P[n]
      BY <1>1, <1>2 DEF Earned, Visited
  <2>7. Factor(n, p) = Share(g, e) /\ Factor(n, p) \in {0, 1}
    <3>1. e \in (DOMAIN nodes) \X {1, 2} /\ e[1] = n /\ e[2] = p
        BY <1>3, <1>4
    <3>2. Factor(n, p) = Share(g, e)
        BY <1>3, <3>1
    <3> QED BY <3>2 DEF Share
  <2>8. e \in Arcs(g, c.needed, m)
    <3>1. e \in Into(c.needed, m)
        BY <1>4, <1>7, <2>1 DEF Into
    <3> QED BY <1>3, <2>2, <3>1
  <2>9. PICK w : w = Factor(n, p) * c.made[c.incoming[n]].weight
      OBVIOUS
  <2>10. w = Flow(g, P)[e]
    <3>1. e \in (DOMAIN g) \X {1, 2} /\ e[1] = n
        BY <1>4
    <3>2. Flow(g, P)[e] = Share(g, e) * P[n]
        BY <3>1 DEF Flow
    <3> QED BY <2>4, <2>6, <2>7, <2>9, <3>2
  <2>11. /\ Sound(g, d) /\ Kept(c, d) /\ d.late = c.late /\ Weighs(c, d)
         /\ d.failed => d.ready = c.ready
         /\ ~d.failed => Delivers(g, c, d, m, Factor(n, p) * c.made[c.incoming[n]].weight)
    <3>1. Sound(g, c) /\ ~c.failed /\ Fresh(n) /\ p \in Edges(n) /\ n \in DOMAIN g
        BY <1>1, <1>4, <1>7 DEF Sound
    <3>2. m = nodes[n].inputs[p] /\ m \in DOMAIN g /\ m \in c.needed /\ c.incoming[m] \in 0..Len(c.made)
        BY <2>1, <2>2, <2>4
    <3>3. d = Deliver(c, n, p, fault) /\ c.incoming[n] \in 1..Len(c.made) /\ Factor(n, p) \in {0, 1}
        BY <2>5, <2>7
    <3>4. Delivered(g, c, d, n, p, m)
        BY ONLY <3>1, <3>2, <3>3, DeliverIs
    <3> QED BY <3>4 DEF Delivered
  <2>12. d \in WalkOf(g) /\ Opened(d)
      BY <2>11 DEF Sound
  <2>13. n > m /\ m # c.output
    <3>1. m \in 1..(n - 1) /\ n \in Nat
        BY <1>3, <1>4, <1>7, <2>1, NodesAreNumbered DEF EdgesDescend
    <3>2. n \in 1..c.output /\ c.output \in Nat
      <4>1. c.output \in DOMAIN nodes
          BY <1>1, <1>3, CallFields
      <4> QED BY <1>1, <1>4, <4>1, NodesAreNumbered DEF Planned
    <3> QED BY <3>1, <3>2
  <2>14. d.needed = c.needed /\ d.output = c.output /\ d.targets = c.targets /\ d.received = c.received
      BY <2>11 DEF Kept
  <2>15. d.ready \subseteq c.ready \cup {m}
    <3>1. CASE d.failed
        BY <2>11, <3>1
    <3>2. CASE ~d.failed
        BY <2>11, <3>2 DEF Delivers
    <3> QED BY <3>1, <3>2
  <2>16. Planned(g, d)
      BY <1>1, <2>2, <2>14, <2>15 DEF Planned
  <2>17. Earned(d, P)
      BY <1>1, <2>14 DEF Earned
  <2>18. ASSUME ~d.failed, NEW k \in c.needed PROVE Summed(g, P, d, D \cup {e}, k)
    <3>1. Delivers(g, c, d, m, w)
        BY <2>9, <2>11, <2>18
    <3>2. Summed(g, P, c, D, k)
        BY <1>1, <1>7 DEF Summing
    <3>3. Kept(c, d) /\ Weighs(c, d)
        BY <2>11
    <3>4. CASE k = m
      <4>1. e \notin D /\ c \in WalkOf(g) /\ P \in [DOMAIN g -> Nat]
          BY <1>1
      <4> QED BY ONLY <1>3, <2>2, <2>3, <2>8, <2>10, <2>12, <2>13, <3>1, <3>3, <3>4, <4>1, SummedHere
    <3>5. CASE k # m
      <4>1. e \notin Arcs(g, c.needed, k)
        <5>1. e \in Arcs(g, c.needed, k) => g[n].inputs[p] = k
            BY DEF Arcs
        <5>2. g[n].inputs[p] = m
            BY <2>8 DEF Arcs
        <5> QED BY <3>5, <5>1, <5>2
      <4>2. c \in WalkOf(g) /\ k \in c.needed
          BY <1>1
      <4> QED BY ONLY <2>2, <2>12, <3>1, <3>2, <3>3, <3>5, <4>1, <4>2, SummedElsewhere
    <3> QED BY <3>4, <3>5
  <2>19. ~d.failed => Summing(g, P, d, D \cup {e})
      BY <2>14, <2>18 DEF Summing
  <2> QED BY <2>11, <2>12, <2>16, <2>17, <2>19 DEF WalksWith
<1> QED BY <1>5, <1>6, <1>7

-----------------------------------------------------------------------------
(* A traversal begins                                                       *)

\* What begins is a traversal that has nothing yet.
LEMMA StartWalks ==
    ASSUME History, NEW kind \in {"grad", "backward"}, NEW output \in DOMAIN nodes, NEW targets \in SUBSET DOMAIN nodes, targets # {},
           NEW needed, needed = Needed(output, targets), targets \subseteq needed, Start(kind, output, targets, needed)
    PROVE  History' /\ call' # Idle /\ \E P : PathsFit(Shape, call, P)' /\ Walks(Shape, P, call)'
<1>1. HistoryTyped /\ EdgesDescend
    BY DEF History
<1>2. UNCHANGED <<nodes, version, events, gradients, saved>>
    BY DEF Start
<1>3. History' /\ Shape' = Shape
    BY <1>1, <1>2, SameNodesKeep DEF HistoryTyped
<1>g. PICK g : g = Shape
    OBVIOUS
<1>n. PICK N : N = Len(nodes)
    OBVIOUS
<1>4. /\ Ordered(g, N) /\ DOMAIN g = DOMAIN nodes
      /\ \A s \in SUBSET DOMAIN nodes : \A m \in DOMAIN nodes : Into(s, m) = Arcs(g, s, m)
    BY <1>1, <1>g, <1>n, ShapeIsOrdered
<1>5. /\ needed \subseteq DOMAIN nodes /\ needed \subseteq 1..output /\ output \in needed
      /\ \A m \in needed \ {output} : Into(needed, m) # {}
    BY <1>1, NeededIsPlanned
<1>6. \A m \in DOMAIN nodes : Into(needed, m) = Arcs(g, needed, m) /\ Cardinality(Into(needed, m)) \in Nat
    BY <1>1, <1>4, <1>5, IntoIsFinite
<1>p. PICK pending : pending = [n \in DOMAIN nodes |-> Cardinality(Into(needed, n))]
    OBVIOUS
<1>i. PICK incoming : incoming = [n \in DOMAIN nodes |-> IF n = output THEN 1 ELSE 0]
    OBVIOUS
<1>r. PICK received : received = [n \in DOMAIN nodes |-> -1]
    OBVIOUS
<1>m. PICK made : made = <<[weight |-> 1, closes |-> 0]>>
    OBVIOUS
<1>c. PICK c : c = [phase |-> "walking", kind |-> kind, output |-> output, needed |-> needed,
                targets |-> targets, pending |-> pending, ready |-> {output}, incoming |-> incoming, made |-> made,
                owned |-> {}, results |-> <<>>, failed |-> FALSE, late |-> FALSE,
                received |-> received, misused |-> FALSE]
    OBVIOUS
<1>7. call' = c
    BY <1>p, <1>i, <1>r, <1>m, <1>c DEF Start
<1>8. pending \in [DOMAIN g -> Int] /\ incoming \in [DOMAIN g -> Nat] /\ received \in [DOMAIN g -> Int]
    BY <1>p, <1>i, <1>r, <1>4, <1>6
<1>9. made \in Seq(Handle) /\ Len(made) = 1 /\ DOMAIN made = {1} /\ made[1].weight = 1 /\ made[1].closes = 0
    BY <1>m DEF Handle
<1>10. /\ c.phase = "walking" /\ c.kind = kind /\ c.output = output /\ c.needed = needed /\ c.targets = targets
       /\ c.pending = pending /\ c.ready = {output} /\ c.incoming = incoming /\ c.made = made /\ c.owned = {}
       /\ c.results = <<>> /\ c.failed = FALSE /\ c.late = FALSE /\ c.received = received /\ c.misused = FALSE
    BY <1>c
<1>11. c \in WalkOf(g)
    BY <1>c, <1>4, <1>5, <1>8, <1>9 DEF WalkOf
<1>12. Opened(c)
  <2>1. \A t \in {1} : made[t].closes + (IF t \in {1} THEN 1 ELSE 0) = 1
      BY <1>9
  <2>2. incoming[output] = 1
      BY <1>i
  <2>3. \A t \in DOMAIN c.made : c.made[t].closes + (IF t \in c.owned \cup {1} THEN 1 ELSE 0) = 1
      BY <1>9, <1>10, <2>1
  <2>4. \A n \in c.ready : c.incoming[n] \in DOMAIN c.made
      BY <1>9, <1>10, <2>2
  <2>5. Len(c.made) >= 1 /\ c.owned \subseteq (DOMAIN c.made) \ {1}
    <3>1. c.made = made /\ c.owned = {} /\ Len(made) = 1
        BY <1>9, <1>10
    <3> QED BY ONLY <3>1
  <2> QED BY <2>3, <2>4, <2>5 DEF Opened
<1>13. Planned(g, c)
    BY <1>4, <1>5, <1>6, <1>10 DEF Planned
<1>14. Visited(c) = {} /\ Arrivals(c) = {}
  <2>1. \A n \in DOMAIN nodes : received[n] = -1
      BY <1>r
  <2>2. Visited(c) = {}
      BY <1>r, <1>10, <2>1 DEF Visited
  <2> QED BY <2>2 DEF Arrivals
<1>15. ASSUME NEW P PROVE Earned(c, P)
    BY <1>14 DEF Earned, Visited
<1>16. ASSUME NEW P, NEW m \in needed PROVE Summed(g, P, c, {}, m)
  <2>1. pending[m] = Cardinality(Arcs(g, needed, m) \ {}) /\ m \in DOMAIN nodes
    <3>1. Arcs(g, needed, m) \ {} = Arcs(g, needed, m)
        OBVIOUS
    <3> QED BY <1>p, <1>5, <1>6, <3>1
  <2>2. incoming[m] = (IF m = output THEN 1 ELSE 0)
      BY <1>i, <2>1
  <2>3. m # output => Arcs(g, needed, m) # {}
      BY <1>5, <1>6, <2>1
  <2>4. incoming[m] \in 0..1
      BY <2>2
  <2>5. m = output => incoming[m] = 1 /\ made[1].weight = 1 /\ m \in {output} \cup {}
      BY <2>2, <1>9
  <2>6. m # output => /\ m \in {output} \cup {} <=> Arcs(g, needed, m) \subseteq {}
                      /\ incoming[m] = 0 <=> Arcs(g, needed, m) \cap {} = {}
                      /\ incoming[m] # 0 => made[incoming[m]].weight = Weight(Flow(g, P), Arcs(g, needed, m) \cap {})
      BY <2>2, <2>3
  <2> QED BY <1>9, <1>10, <1>14, <2>1, <2>4, <2>5, <2>6 DEF Summed
<1>17. \E P : PathsFit(g, c, P)
  <2>1. c.needed \subseteq DOMAIN g
      BY <1>4, <1>5, <1>10
  <2> QED BY <1>4, <2>1, PathsExist
<1>18. PICK P : PathsFit(g, c, P)
    BY <1>17
<1>19. Walks(g, P, c)
  <2>1. Summing(g, P, c, {})
      BY <1>10, <1>16 DEF Summing
  <2> QED BY <1>11, <1>12, <1>13, <1>14, <1>15, <2>1 DEF Walks, WalksWith
<1>20. PathsFit(Shape, call, P)' /\ Walks(Shape, P, call)'
    BY <1>g, <1>3, <1>7, <1>18, <1>19
<1>21. call' # Idle
    BY <1>7, <1>10 DEF Idle
<1> QED BY <1>3, <1>20, <1>21

\* Both calls begin one.
LEMMA TraversalStarts ==
    ASSUME History, NEW output \in DOMAIN nodes,
           Backward(output) \/ \E targets \in SUBSET DOMAIN nodes : Grad(output, targets)
    PROVE  History' /\ call' # Idle /\ \E P : PathsFit(Shape, call, P)' /\ Walks(Shape, P, call)'
<1>1. HistoryTyped /\ EdgesDescend
    BY DEF History
<1>2. CASE Backward(output)
  <2>t. PICK targets : targets = {n \in Reachable(output) : Leaf(n)}
      OBVIOUS
  <2>n. PICK needed : needed = Needed(output, targets)
      OBVIOUS
  <2>1. targets # {} /\ Start("backward", output, targets, needed)
      BY <1>2, <2>t, <2>n DEF Backward
  <2>2. Reachable(output) \subseteq DOMAIN nodes /\ targets \subseteq Reachable(output)
      BY <1>1, <2>t, ReachableIsLeast
  <2>3. targets \subseteq needed
    <3>1. \A t \in targets \cap Reachable(output) : t \in needed
        BY <1>1, <2>n, NeededIsPlanned
    <3> QED BY <2>2, <3>1
  <2>4. targets \in SUBSET DOMAIN nodes
      BY <2>2
  <2> QED BY <2>n, <2>1, <2>3, <2>4, StartWalks
<1>3. ASSUME NEW targets \in SUBSET DOMAIN nodes, Grad(output, targets)
      PROVE  History' /\ call' # Idle /\ \E P : PathsFit(Shape, call, P)' /\ Walks(Shape, P, call)'
  <2>n. PICK needed : needed = Needed(output, targets)
      OBVIOUS
  <2>1. Cardinality(targets) \in {1, 2} /\ targets \subseteq needed /\ Start("grad", output, targets, needed)
      BY <1>3, <2>n DEF Grad
  <2>2. targets # {}
      BY <2>1, FS_EmptySet
  <2> QED BY <2>n, <2>1, <2>2, StartWalks
<1> QED BY <1>2, <1>3

-----------------------------------------------------------------------------
(* A visit                                                                  *)

\* What closes handles alone keeps the sums.
LEMMA StillWalks ==
    ASSUME NEW g, NEW P, NEW c, NEW D, WalksWith(g, P, c, D),
           NEW d, Sound(g, d), Kept(c, d), Still(c, d), Weighs(c, d)
    PROVE  WalksWith(g, P, d, D)
<1>1. c \in WalkOf(g) /\ Opened(c) /\ Planned(g, c) /\ Earned(c, P) /\ (~c.failed => Summing(g, P, c, D))
    BY DEF WalksWith
<1>2. d \in WalkOf(g) /\ Opened(d)
    BY DEF Sound
<1>3. d.needed = c.needed /\ d.output = c.output /\ d.targets = c.targets /\ d.received = c.received
    BY DEF Kept
<1>4. d.pending = c.pending /\ d.ready = c.ready /\ d.incoming = c.incoming /\ d.failed = c.failed
    BY DEF Still
<1>5. /\ Len(c.made) \in Nat /\ Len(d.made) \in Nat /\ Len(c.made) <= Len(d.made) /\ Len(c.made) >= 1
      /\ \A t \in 1..Len(c.made) : d.made[t].weight = c.made[t].weight
    BY <1>1 DEF Weighs, Opened
<1>6. Planned(g, d) /\ Earned(d, P) /\ Visited(d) = Visited(c)
    BY <1>1, <1>3, <1>4 DEF Planned, Earned, Visited
<1>7. ASSUME NEW m \in c.needed, ~c.failed PROVE Summed(g, P, d, D, m)
  <2>1. Summed(g, P, c, D, m)
      BY <1>1, <1>7 DEF Summing
  <2>2. c.incoming[m] \in 0..Len(d.made) /\ (c.incoming[m] # 0 => d.made[c.incoming[m]].weight = c.made[c.incoming[m]].weight)
        /\ d.made[1].weight = c.made[1].weight
      BY <1>5, <2>1 DEF Summed
  <2> QED BY <1>3, <1>4, <1>6, <2>1, <2>2 DEF Summed
<1> QED BY <1>1, <1>2, <1>3, <1>4, <1>6, <1>7 DEF WalksWith, Summing

\* A call that fails, or fails later, keeps its handles and what it earned.
LEMMA FlagsKeep ==
    ASSUME NEW g, NEW P, NEW c, NEW D, WalksWith(g, P, c, D), NEW b \in BOOLEAN, NEW d,
           d = [c EXCEPT !.late = b] \/ (d = [c EXCEPT !.failed = b] /\ ~(c.failed /\ ~b))
    PROVE  WalksWith(g, P, d, D) /\ Kept(c, d) /\ (d.failed => c.failed \/ b)
<1>1. c \in WalkOf(g) /\ Opened(c) /\ Planned(g, c) /\ Earned(c, P) /\ (~c.failed => Summing(g, P, c, D))
    BY DEF WalksWith
<1>2. d \in WalkOf(g) /\ Kept(c, d)
    BY <1>1 DEF WalkOf, Kept
<1>3. /\ d.pending = c.pending /\ d.ready = c.ready /\ d.incoming = c.incoming /\ d.made = c.made /\ d.owned = c.owned
      /\ c.failed => d.failed
      /\ d.failed => c.failed \/ b
    BY <1>1 DEF WalkOf
<1>4. d.needed = c.needed /\ d.output = c.output /\ d.targets = c.targets /\ d.received = c.received
    BY <1>2 DEF Kept
<1>5. Opened(d)
    BY <1>1, <1>3 DEF Opened
<1>6. Planned(g, d) /\ Earned(d, P) /\ Visited(d) = Visited(c)
    BY <1>1, <1>3, <1>4 DEF Planned, Earned, Visited
<1>7. ASSUME ~d.failed PROVE Summing(g, P, d, D)
    BY <1>1, <1>3, <1>4, <1>6, <1>7 DEF Summing, Summed
<1> QED BY <1>1, <1>2, <1>3, <1>5, <1>6, <1>7 DEF WalksWith

\* A node that is ready has all its contributions.
LEMMA ReadyIsWhole ==
    ASSUME NEW g, NEW c, NEW P, PathsFit(g, c, P), NEW D, WalksWith(g, P, c, D), ~c.failed, NEW n \in c.ready
    PROVE  /\ n \in DOMAIN g /\ n \in c.needed /\ n \notin Visited(c)
           /\ c.incoming[n] \in 1..Len(c.made) /\ c.made[c.incoming[n]].weight = P[n] /\ P[n] \in Nat
<1>1. c \in WalkOf(g) /\ Opened(c) /\ Planned(g, c) /\ Summing(g, P, c, D)
    BY DEF WalksWith
<1>2. /\ c.needed \subseteq DOMAIN g /\ Len(c.made) \in Nat /\ DOMAIN c.made = 1..Len(c.made)
    BY <1>1, CallFields
<1>3. n \in c.needed /\ n \in DOMAIN g
    BY <1>1, <1>2 DEF Planned
<1>4. Summed(g, P, c, D, n)
    BY <1>1, <1>3 DEF Summing
<1>5. c.incoming[n] \in 1..Len(c.made) /\ n \notin Visited(c)
    BY <1>1, <1>2, <1>4 DEF Opened, Summed
<1>6. P[n] = PathsTo(g, c, P, n) /\ P[n] \in Nat
    BY <1>3 DEF PathsFit
<1>7. CASE n = c.output
    BY <1>3, <1>4, <1>5, <1>6, <1>7 DEF Summed, PathsTo
<1>8. CASE n # c.output
  <2> DEFINE arcs == Arcs(g, c.needed, n)
  <2>1. arcs \subseteq D /\ c.made[c.incoming[n]].weight = Weight(Flow(g, P), arcs \cap D)
      BY <1>2, <1>4, <1>5, <1>8 DEF Summed
  <2>2. arcs \cap D = arcs
      BY <2>1
  <2>3. P[n] = Weight(Flow(g, P), arcs)
      BY <1>6, <1>8 DEF PathsTo
  <2> HIDE DEF arcs
  <2> QED BY <1>3, <1>5, <1>6, <2>1, <2>2, <2>3
<1> QED BY <1>7, <1>8

\* The traversal d is c with n visited.
SeenAs(g, P, c, D, d, n) ==
    /\ WalksWith(g, P, d, D) /\ Visited(d) = Visited(c) \cup {n} /\ n \in DOMAIN g /\ n \notin Visited(c)
    /\ d.needed = c.needed /\ d.output = c.output /\ d.failed = FALSE /\ d.late = c.late /\ n \in c.needed

\* It is taken from the ready ones and has what it received.
LEMMA SeenKeeps ==
    ASSUME NEW g, NEW c, NEW P, PathsFit(g, c, P), NEW D, WalksWith(g, P, c, D), ~c.failed, NEW n \in c.ready,
           NEW w, w = c.made[c.incoming[n]].weight, NEW d, d = [c EXCEPT !.ready = @ \ {n}, !.received[n] = w]
    PROVE  SeenAs(g, P, c, D, d, n)
<1>1. c \in WalkOf(g) /\ Opened(c) /\ Planned(g, c) /\ Earned(c, P) /\ Summing(g, P, c, D)
    BY DEF WalksWith
<1>2. /\ n \in DOMAIN g /\ n \in c.needed /\ n \notin Visited(c)
      /\ c.incoming[n] \in 1..Len(c.made) /\ w = P[n] /\ w \in Nat
    BY ReadyIsWhole
<1>3. c.received \in [DOMAIN g -> Int] /\ c.ready \subseteq DOMAIN g /\ c.failed \in BOOLEAN
    BY <1>1, CallFields
<1>r. PICK ready : ready = c.ready \ {n}
    OBVIOUS
<1>v. PICK received : received = [c.received EXCEPT ![n] = w]
    OBVIOUS
<1>4. ready \subseteq DOMAIN g /\ received \in [DOMAIN g -> Int] /\ received[n] = w
      /\ \A m \in DOMAIN g : m # n => received[m] = c.received[m]
    BY <1>r, <1>v, <1>2, <1>3
<1>5. d = [[c EXCEPT !.ready = ready] EXCEPT !.received = received]
    BY <1>r, <1>v, <1>1 DEF WalkOf
<1>6. /\ d \in WalkOf(g) /\ d.ready = ready /\ d.received = received /\ d.needed = c.needed /\ d.output = c.output
      /\ d.targets = c.targets /\ d.failed = c.failed /\ d.late = c.late /\ d.made = c.made /\ d.owned = c.owned
      /\ d.incoming = c.incoming /\ d.pending = c.pending
    BY <1>1, <1>4, <1>5 DEF WalkOf
<1>7. Opened(d)
    BY <1>r, <1>1, <1>6 DEF Opened
<1>8. Planned(g, d)
    BY <1>r, <1>1, <1>6 DEF Planned
<1>9. Earned(d, P)
    BY <1>1, <1>2, <1>3, <1>4, <1>6 DEF Earned
<1>10. Visited(d) = Visited(c) \cup {n}
  <2>1. Visited(d) = {m \in DOMAIN g : received[m] # -1} /\ Visited(c) = {m \in DOMAIN g : c.received[m] # -1}
      BY <1>3, <1>4, <1>6 DEF Visited
  <2>2. w # -1
      BY <1>2
  <2> QED BY <1>2, <1>4, <2>1, <2>2
<1>11. ASSUME NEW m \in c.needed PROVE Summed(g, P, d, D, m)
  <2>1. Summed(g, P, c, D, m)
      BY <1>1 DEF Summing
  <2>2. m \in ready \cup (Visited(c) \cup {n}) <=> m \in c.ready \cup Visited(c)
      BY <1>r
  <2>3. m \in Visited(c) \cup {n} => m \notin ready /\ c.incoming[m] # 0 /\ c.made[c.incoming[m]].weight = received[m]
    <3>1. CASE m = n
      <4>1. Len(c.made) \in Nat
          BY <1>1, CallFields
      <4>2. c.incoming[n] # 0
          BY <1>2, <4>1
      <4> QED BY <1>r, <1>2, <1>4, <3>1, <4>2
    <3>2. CASE m # n
      <4>1. m \in DOMAIN g
          BY <1>1, CallFields
      <4> QED BY <1>r, <1>4, <2>1, <3>2, <4>1 DEF Summed
    <3> QED BY <3>1, <3>2
  <2> QED BY <1>6, <1>10, <2>1, <2>2, <2>3 DEF Summed
<1>12. Summing(g, P, d, D)
    BY <1>6, <1>11 DEF Summing
<1> QED BY <1>2, <1>3, <1>6, <1>7, <1>8, <1>9, <1>10, <1>12 DEF WalksWith, SeenAs

\* What a visit does to the sums, wherever it fails.
LEMMA VisitDelivers ==
    ASSUME History, NEW g, g = Shape, NEW P, PathsFit(g, call, P), NEW D, WalksWith(g, P, call, D), D = Arrivals(call),
           ~call.failed, NEW n \in call.ready, NEW fault,
           NEW seen, seen = [call EXCEPT !.ready = @ \ {n}, !.received[n] = call.made[call.incoming[n]].weight],
           Traversed(n) => Valid(n),
           NEW c, c = Deliver(Deliver(seen, n, 1, fault), n, 2, fault)
    PROVE  /\ WalksWith(g, P, c, Arrivals(c)) /\ c.needed = call.needed /\ c.output = call.output
           /\ Len(c.made) \in Nat
<1>1. HistoryTyped /\ EdgesDescend
    BY DEF History
<1>2. DOMAIN g = DOMAIN nodes
    BY <1>1, ShapeIsOrdered
<1>w. PICK w : w = call.made[call.incoming[n]].weight
    OBVIOUS
<1>p. PICK old : old = call
    OBVIOUS
<1>3. /\ WalksWith(g, P, seen, D) /\ Visited(seen) = Visited(old) \cup {n} /\ n \in DOMAIN g /\ n \notin Visited(old)
      /\ seen.needed = old.needed /\ seen.output = old.output /\ seen.failed = FALSE /\ seen.late = old.late /\ n \in old.needed
  <2>1. PathsFit(g, old, P) /\ WalksWith(g, P, old, D) /\ ~old.failed /\ n \in old.ready /\ w = old.made[old.incoming[n]].weight
        /\ seen = [old EXCEPT !.ready = @ \ {n}, !.received[n] = w]
      BY <1>w, <1>p
  <2>2. SeenAs(g, P, old, D, seen, n)
      BY ONLY <2>1, SeenKeeps
  <2> QED BY <2>2 DEF SeenAs
<1>4. P \in [DOMAIN g -> Nat]
    BY DEF PathsFit
<1>e. PICK e : e = <<n, 1>>
    OBVIOUS
<1>f. PICK f : f = <<n, 2>>
    OBVIOUS
<1>5. \A p \in Edges(n) : nodes[n].inputs[p] \in old.needed => Fresh(n)
  <2>1. ASSUME NEW p \in Edges(n), nodes[n].inputs[p] \in old.needed PROVE Fresh(n)
    <3>1. Traversed(n)
        BY <1>p, <2>1 DEF Traversed
    <3>2. Edges(n) # {} /\ Valid(n)
        BY <3>1
    <3> QED BY <1>2, <1>3, <3>2, ValidIsFresh
  <2> QED BY <2>1
<1>6. e \notin D /\ f \notin D \cup {e}
    BY <1>e, <1>f, <1>p, <1>3 DEF Arrivals
<1>d. PICK d : d = Deliver(seen, n, 1, fault)
    OBVIOUS
<1>7. WalksWith(g, P, d, D \cup {e}) /\ Kept(seen, d) /\ d.late = seen.late /\ Weighs(seen, d)
  <2>1. n \in Visited(seen) /\ 1 \in {1, 2} /\ (1 \in Edges(n) /\ nodes[n].inputs[1] \in seen.needed => Fresh(n))
    <3>1. n \in Visited(seen) /\ seen.needed = old.needed
        BY <1>3
    <3> QED BY ONLY <1>5, <3>1
  <2> QED BY ONLY <1>1, g = Shape, <1>3, <1>4, <1>e, <1>6, <1>d, <2>1, DeliverKeeps
<1>8. d.needed = seen.needed /\ d.output = seen.output /\ d.received = seen.received
    BY <1>7 DEF Kept
<1>9. WalksWith(g, P, c, (D \cup {e}) \cup {f}) /\ Kept(d, c) /\ c.late = d.late /\ Weighs(d, c)
  <2>s. PICK S : S = D \cup {e}
      OBVIOUS
  <2>1. n \in Visited(d) /\ 2 \in {1, 2} /\ (2 \in Edges(n) /\ nodes[n].inputs[2] \in d.needed => Fresh(n))
    <3>1. n \in Visited(seen) /\ seen.needed = old.needed
        BY <1>3
    <3>2. Visited(d) = Visited(seen)
        BY <1>8 DEF Visited
    <3> QED BY ONLY <1>5, <1>8, <3>1, <3>2
  <2>2. WalksWith(g, P, d, S) /\ f \notin S /\ c = Deliver(d, n, 2, fault)
      BY <2>s, <1>d, <1>6, <1>7
  <2>3. WalksWith(g, P, c, S \cup {f}) /\ Kept(d, c) /\ c.late = d.late /\ Weighs(d, c)
      BY ONLY <1>1, g = Shape, <1>4, <1>f, <2>1, <2>2, DeliverKeeps
  <2> QED BY <2>s, <2>3
<1>10. c.needed = d.needed /\ c.output = d.output /\ c.received = d.received /\ Len(c.made) \in Nat
    BY <1>9 DEF Kept, Weighs
<1>11. Arrivals(c) = (D \cup {e}) \cup {f}
  <2>1. c.needed = old.needed /\ Visited(c) = Visited(old) \cup {n}
    <3>1. Visited(c) = Visited(seen)
        BY <1>8, <1>10 DEF Visited
    <3> QED BY <1>3, <1>8, <1>10, <3>1
  <2>2. D = {x \in old.needed \X {1, 2} : x[1] \in Visited(old)}
      BY <1>p DEF Arrivals
  <2>3. Arrivals(c) = {x \in old.needed \X {1, 2} : x[1] \in Visited(old) \cup {n}}
      BY <2>1 DEF Arrivals
  <2>4. ASSUME NEW x PROVE x \in Arrivals(c) <=> x \in (D \cup {e}) \cup {f}
    <3>1. CASE x \in old.needed \X {1, 2}
      <4>1. x[1] = n => x = e \/ x = f
          BY <1>e, <1>f, <3>1
      <4>2. e[1] = n /\ f[1] = n
          BY <1>e, <1>f
      <4> QED BY <2>2, <2>3, <3>1, <4>1, <4>2
    <3>2. CASE x \notin old.needed \X {1, 2}
      <4>1. x # e /\ x # f
          BY <1>e, <1>f, <1>3, <3>2
      <4> QED BY <2>2, <2>3, <3>2, <4>1
    <3> QED BY <3>1, <3>2
  <2> QED BY <2>4
<1> QED BY <1>p, <1>3, <1>8, <1>9, <1>10, <1>11

\* A visit keeps a traversal in order.
LEMMA VisitKeeps ==
    ASSUME History, NEW P, PathsFit(Shape, call, P), Walks(Shape, P, call), NEW n \in DOMAIN nodes, NEW fault \in Faults, Visit(n, fault)
    PROVE  History' /\ call' # Idle /\ PathsFit(Shape, call, P)' /\ Walks(Shape, P, call)'
<1>1. HistoryTyped /\ EdgesDescend
    BY DEF History
<1>g. PICK g : g = Shape
    OBVIOUS
<1>D. PICK D : D = Arrivals(call)
    OBVIOUS
<1>2. PathsFit(g, call, P) /\ WalksWith(g, P, call, D) /\ call \in WalkOf(g)
    BY <1>g, <1>D DEF Walks, WalksWith
<1>s. PICK seen : seen = [call EXCEPT !.ready = @ \ {n}, !.received[n] = call.made[call.incoming[n]].weight]
    OBVIOUS
<1>r. PICK refused : refused = (fault[1] = "receive" \/ (Traversed(n) /\ ~Valid(n)))
    OBVIOUS
<1>c. PICK c : c = IF refused THEN [seen EXCEPT !.failed = TRUE] ELSE Deliver(Deliver(seen, n, 1, fault), n, 2, fault)
    OBVIOUS
<1>k. PICK consumes : consumes = (~c.failed /\ Traversed(n) /\ (nodes[n].saved # {} \/ nodes[n].recipe = "copy"))
    OBVIOUS
<1>l. PICK late : late = (c.late \/ (consumes /\ fault[1] = "saved"))
    OBVIOUS
<1>t. PICK spent : spent = [c EXCEPT !.late = @ \/ (consumes /\ fault[1] = "saved")]
    OBVIOUS
<1>3. /\ call.phase = "walking" /\ ~call.failed /\ Highest(n)
      /\ call' = IF c.failed \/ Returned(n) THEN spent
                 ELSE [ReleaseTemporary(spent, call.incoming[n]) EXCEPT !.failed = fault[1] = "release"]
      /\ IF consumes
         THEN nodes' = [nodes EXCEPT ![n] = Consume(n)] /\ saved' = saved - Cardinality(nodes[n].saved)
         ELSE UNCHANGED <<nodes, saved>>
      /\ IF Receives(n) /\ fault[1] # "receive"
         THEN /\ gradients' = gradients \cup {n}
              /\ version' = IF n \in gradients THEN [version EXCEPT ![-n] = @ + 1] ELSE version
         ELSE UNCHANGED <<gradients, version>>
  <2> DEFINE seen0 == [call EXCEPT !.ready = @ \ {n}, !.received[n] = call.made[call.incoming[n]].weight]
             refused0 == fault[1] = "receive" \/ (Traversed(n) /\ ~Valid(n))
             c0 == IF refused0 THEN [seen0 EXCEPT !.failed = TRUE] ELSE Deliver(Deliver(seen0, n, 1, fault), n, 2, fault)
             consumes0 == ~c0.failed /\ Traversed(n) /\ (nodes[n].saved # {} \/ nodes[n].recipe = "copy")
             spent0 == [c0 EXCEPT !.late = @ \/ (consumes0 /\ fault[1] = "saved")]
  <2>1. Visit(n, fault)
      OBVIOUS
  <2>2. /\ call.phase = "walking" /\ ~call.failed /\ Highest(n)
        /\ call' = IF c0.failed \/ Returned(n) THEN spent0
                   ELSE [ReleaseTemporary(spent0, call.incoming[n]) EXCEPT !.failed = fault[1] = "release"]
        /\ IF consumes0
           THEN nodes' = [nodes EXCEPT ![n] = Consume(n)] /\ saved' = saved - Cardinality(nodes[n].saved)
           ELSE UNCHANGED <<nodes, saved>>
        /\ IF Receives(n) /\ fault[1] # "receive"
           THEN /\ gradients' = gradients \cup {n}
                /\ version' = IF n \in gradients THEN [version EXCEPT ![-n] = @ + 1] ELSE version
           ELSE UNCHANGED <<gradients, version>>
      BY ONLY <2>1, Zenon DEF Visit
  <2>3. seen0 = seen /\ (refused0 = refused)
      BY <1>s, <1>r
  <2>4. c0 = c
    <3> HIDE DEF seen0, refused0
    <3> QED BY <1>c, <2>3
  <2>5. consumes0 = consumes
    <3> HIDE DEF c0
    <3> QED BY <1>k, <2>4
  <2>6. spent0 = spent
    <3> HIDE DEF c0, consumes0
    <3> QED BY <1>t, <2>4, <2>5
  <2> HIDE DEF c0, consumes0, spent0
  <2> QED BY ONLY <2>2, <2>4, <2>5, <2>6
<1>4. n \in call.ready
    BY <1>3 DEF Highest
<1>5. History' /\ Shape' = Shape
  <2>1. gradients' \subseteq Nat
      BY <1>1, <1>3, NodesAreNumbered DEF HistoryTyped
  <2>2. version' \in [Tensors -> Nat]
    <3>1. version \in [Tensors -> Nat]
        BY <1>1 DEF HistoryTyped
    <3>2. -n \in Tensors
        BY <1>1, NodesAreNumbered DEF Tensors
    <3>3. [version EXCEPT ![-n] = @ + 1] \in [Tensors -> Nat]
        BY <3>1, <3>2
    <3> QED BY <1>3, <3>1, <3>3
  <2>3. CASE consumes
      BY <1>3, <2>1, <2>2, <2>3, ConsumeKeeps
  <2>4. CASE ~consumes
      BY <1>3, <2>1, <2>2, <2>4, SameNodesKeep
  <2> QED BY <2>3, <2>4
<1>w. PICK w : w = call.made[call.incoming[n]].weight
    OBVIOUS
<1>o. PICK old : old = call
    OBVIOUS
<1>6. /\ WalksWith(g, P, seen, D) /\ Visited(seen) = Visited(old) \cup {n} /\ n \in DOMAIN g /\ n \notin Visited(old)
      /\ seen.needed = old.needed /\ seen.output = old.output /\ seen.failed = FALSE /\ seen.late = old.late /\ n \in old.needed
  <2>1. PathsFit(g, old, P) /\ WalksWith(g, P, old, D) /\ ~old.failed /\ n \in old.ready /\ w = old.made[old.incoming[n]].weight
        /\ seen = [old EXCEPT !.ready = @ \ {n}, !.received[n] = w]
      BY <1>w, <1>o, <1>s, <1>2, <1>3, <1>4
  <2>2. SeenAs(g, P, old, D, seen, n)
      BY ONLY <2>1, SeenKeeps
  <2> QED BY <2>2 DEF SeenAs
<1>7. WalksWith(g, P, c, Arrivals(c)) /\ c.needed = call.needed /\ c.output = call.output
  <2>1. CASE refused
    <3>1. c = [seen EXCEPT !.failed = TRUE] /\ TRUE \in BOOLEAN /\ ~(seen.failed /\ ~TRUE)
        BY <1>c, <2>1
    <3>2. WalksWith(g, P, c, D) /\ Kept(seen, c)
        BY ONLY <1>6, <3>1, FlagsKeep
    <3>3. seen \in WalkOf(g)
        BY <1>6 DEF WalksWith
    <3>4. c.failed = TRUE
        BY <3>1, <3>3 DEF WalkOf
    <3>5. WalksWith(g, P, c, Arrivals(c))
        BY <3>2, <3>4 DEF WalksWith
    <3> QED BY <1>o, <1>6, <3>2, <3>5 DEF Kept
  <2>2. CASE ~refused
    <3>1. c = Deliver(Deliver(seen, n, 1, fault), n, 2, fault) /\ (Traversed(n) => Valid(n))
        BY <1>c, <1>r, <2>2
    <3>2. History /\ g = Shape /\ PathsFit(g, call, P) /\ WalksWith(g, P, call, D) /\ D = Arrivals(call) /\ ~call.failed /\ n \in call.ready
        BY <1>g, <1>D, <1>2, <1>3, <1>4
    <3> QED BY ONLY <1>s, <3>1, <3>2, VisitDelivers
  <2> QED BY <2>1, <2>2
<1>A. PICK A : A = Arrivals(c)
    OBVIOUS
<1>8. c \in WalkOf(g) /\ late \in BOOLEAN /\ spent = [c EXCEPT !.late = late]
  <2>1. c \in WalkOf(g)
      BY <1>7 DEF WalksWith
  <2> QED BY <2>1, <1>l, <1>t DEF WalkOf
<1>9. WalksWith(g, P, spent, A) /\ Kept(c, spent) /\ spent.failed = c.failed
  <2>1. WalksWith(g, P, c, A)
      BY <1>A, <1>7
  <2>2. WalksWith(g, P, spent, A) /\ Kept(c, spent)
      BY ONLY <1>8, <2>1, FlagsKeep
  <2>3. spent.failed = c.failed
      BY <1>8 DEF WalkOf
  <2> QED BY <2>2, <2>3
<1>10. WalksWith(g, P, call', A) /\ Kept(c, call')
  <2>1. CASE c.failed \/ Returned(n)
    <3>1. call' = spent
        BY <1>3, <2>1
    <3> QED BY <1>9, <3>1
  <2>2. CASE ~(c.failed \/ Returned(n))
    <3>i. PICK i : i = call.incoming[n]
        OBVIOUS
    <3>e. PICK e : e = ReleaseTemporary(spent, i)
        OBVIOUS
    <3>b. PICK b : b = (fault[1] = "release")
        OBVIOUS
    <3>1. Sound(g, spent)
        BY <1>9 DEF WalksWith, Sound
    <3>2. Sound(g, e) /\ Kept(spent, e) /\ Still(spent, e) /\ Weighs(spent, e)
        BY ONLY <3>e, <3>1, ReleasedOne
    <3>3. WalksWith(g, P, e, A)
        BY ONLY <1>9, <3>2, StillWalks
    <3>4. ~e.failed /\ b \in BOOLEAN
        BY <1>9, <2>2, <3>b, <3>2 DEF Still
    <3>5. call' = [e EXCEPT !.failed = b]
        BY <1>3, <2>2, <3>i, <3>e, <3>b
    <3>d. PICK d : d = call'
        OBVIOUS
    <3>6. WalksWith(g, P, d, A) /\ Kept(e, d)
      <4>1. d = [e EXCEPT !.failed = b]
          BY <3>d, <3>5
      <4> QED BY ONLY <3>3, <3>4, <4>1, FlagsKeep
    <3>7. Kept(c, d)
        BY <1>9, <3>2, <3>6 DEF Kept
    <3> QED BY <3>d, <3>6, <3>7
  <2> QED BY <2>1, <2>2
<1>d. PICK d : d = call'
    OBVIOUS
<1>11. d.needed = call.needed /\ d.output = call.output /\ d.received = c.received /\ d.needed = c.needed
    BY <1>d, <1>7, <1>10 DEF Kept
<1>12. Arrivals(d) = A
    BY <1>A, <1>11 DEF Arrivals, Visited
<1>13. Walks(g, P, d)
    BY <1>d, <1>10, <1>12 DEF Walks
<1>14. PathsFit(g, d, P)
  <2>1. \A m : PathsTo(g, d, P, m) = PathsTo(g, call, P, m)
      BY <1>11 DEF PathsTo
  <2> QED BY <1>2, <2>1 DEF PathsFit
<1>15. d # Idle
  <2>1. d.phase = "walking"
      BY <1>13 DEF Walks, WalksWith, WalkOf
  <2> QED BY <2>1 DEF Idle
<1> QED BY <1>d, <1>g, <1>5, <1>13, <1>14, <1>15

-----------------------------------------------------------------------------
(* A traversal ends                                                         *)

\* Targets have an order.
LEMMA TargetsInOrder ==
    ASSUME NEW S, IsFiniteSet(S)
    PROVE  SetToSeq(S) \in [1..Cardinality(S) -> S] /\ Cardinality(S) \in Nat
<1>1. Cardinality(S) \in Nat /\ ExistsBijection(1..Cardinality(S), S)
    BY FS_CardinalityType
<1>2. PICK f \in [1..Cardinality(S) -> S] : IsInjective(f)
    BY <1>1 DEF ExistsBijection, Bijection, Injection
<1>3. SetToSeq(S) \in [1..Cardinality(S) -> S]
    BY <1>2, Zenon DEF SetToSeq
<1> QED BY <1>1, <1>3

\* When nothing is ready any more all needed nodes were visited.
LEMMA AllAreVisited ==
    ASSUME NEW g, NEW N, Ordered(g, N), NEW P, NEW c, WalksWith(g, P, c, Arrivals(c)), ~c.failed, c.ready = {}
    PROVE  c.needed \subseteq Visited(c)
<1>1. c \in WalkOf(g) /\ Summing(g, P, c, Arrivals(c))
    BY DEF WalksWith
<1>2. c.needed \subseteq 1..N /\ N \in Nat /\ c.needed \in SUBSET DOMAIN g
    BY <1>1, CallFields DEF Ordered
<1> DEFINE T == {k \in Nat : \A m \in c.needed : m > N - k => m \in Visited(c)}
<1>3. T = Nat
  <2>1. 0 \in T
      BY <1>2
  <2>2. ASSUME NEW k \in T PROVE k + 1 \in T
    <3>1. k \in Nat /\ \A m \in c.needed : m > N - k => m \in Visited(c)
        BY <2>2
    <3>2. ASSUME NEW m \in c.needed, m > N - (k + 1) PROVE m \in Visited(c)
      <4>1. m \in Nat /\ m \in DOMAIN g
          BY <1>2
      <4>2. \A i \in c.needed : i > m => i \in Visited(c)
          BY <1>2, <3>1, <3>2
      <4>3. Summed(g, P, c, Arrivals(c), m)
          BY <1>1 DEF Summing
      <4>4. m # c.output => (m \in Visited(c) <=> Arcs(g, c.needed, m) \subseteq Arrivals(c))
          BY <4>3 DEF Summed
      <4>5. Arcs(g, c.needed, m) \subseteq Arrivals(c)
        <5>s. PICK s : s = c.needed
            OBVIOUS
        <5>1. \A e \in Arcs(g, s, m) : e[1] \in s /\ e[1] > m
            BY <1>2, <4>1, <5>s, ArcsDescend
        <5>2. Arcs(g, c.needed, m) \subseteq c.needed \X {1, 2}
            BY DEF Arcs
        <5> QED BY <4>2, <5>s, <5>1, <5>2 DEF Arrivals
      <4>6. m = c.output => m \in Visited(c)
          BY <4>3 DEF Summed
      <4> QED BY <4>4, <4>5, <4>6
    <3> QED BY <3>1, <3>2
  <2> HIDE DEF T
  <2>3. T \in SUBSET Nat
      BY DEF T
  <2> QED BY <2>1, <2>2, <2>3, Induction
<1>4. N \in T
    BY <1>2, <1>3
<1>5. \A m \in c.needed : m > N - N => m \in Visited(c)
    BY <1>4
<1> QED BY <1>2, <1>5

\* What is collected: the results are handles of their own.
Gathered(a, c, u) ==
    /\ Len(c.made) = Len(a.made) + u /\ DOMAIN c.made = 1..(Len(a.made) + u)
    /\ \A t \in 1..Len(a.made) : c.made[t] = a.made[t]
    /\ \A k \in 1..u : c.made[Len(a.made) + k] = [weight |-> a.made[a.incoming[SetToSeq(a.targets)[k]]].weight, closes |-> 0]
    /\ c.results = [k \in 1..u |-> Len(a.made) + k]
    /\ c.kind = a.kind /\ c.output = a.output /\ c.needed = a.needed /\ c.targets = a.targets /\ c.owned = a.owned
    /\ c.received = a.received /\ c.misused = a.misused

\* Collecting adds a handle for each result.
LEMMA CollectedIs ==
    ASSUME NEW g, NEW a \in WalkOf(g), NEW u \in Nat, NEW c, c = Collected(a, u) \/ (c = a /\ u = 0)
    PROVE  Gathered(a, c, u) /\ (c = a \/ c = [a EXCEPT !.made = c.made, !.results = c.results])
<1>1. a.made \in Seq(Handle) /\ Len(a.made) \in Nat /\ DOMAIN a.made = 1..Len(a.made) /\ a.results = <<>>
    BY CallFields
<1>2. CASE c = a /\ u = 0
  <2>1. <<>> = [k \in 1..u |-> Len(a.made) + k]
      BY <1>2
  <2> QED BY <1>1, <1>2, <2>1 DEF Gathered
<1>3. CASE c = Collected(a, u)
  <2>o. PICK order : order = SetToSeq(a.targets)
      OBVIOUS
  <2>n. PICK new : new = [k \in 1..u |-> [weight |-> a.made[a.incoming[order[k]]].weight, closes |-> 0]]
      OBVIOUS
  <2>m. PICK made : made = a.made \o new
      OBVIOUS
  <2>r. PICK results : results = [k \in 1..u |-> Len(a.made) + k]
      OBVIOUS
  <2>1. /\ Len(made) = Len(a.made) + u /\ DOMAIN made = 1..(Len(a.made) + u)
        /\ \A t \in 1..Len(a.made) : made[t] = a.made[t]
        /\ \A k \in 1..u : made[Len(a.made) + k] = new[k]
    <3>x. PICK X : X = Handle \cup {new[k] : k \in 1..u}
        OBVIOUS
    <3>1. Len(new) = u /\ new \in Seq(X)
      <4>1. DOMAIN new = 1..u /\ \A k \in 1..u : new[k] \in X
          BY <2>n, <3>x
      <4>2. new \in [1..u -> X]
          BY <2>n, <4>1
      <4> QED BY <4>1, <4>2
    <3>2. a.made \in Seq(X)
      <4>1. \A t \in 1..Len(a.made) : a.made[t] \in X
          BY <1>1, <3>x
      <4>2. a.made = [t \in 1..Len(a.made) |-> a.made[t]]
          BY <1>1
      <4>3. a.made \in [1..Len(a.made) -> X]
          BY <4>1, <4>2
      <4> QED BY <1>1, <4>3
    <3>o. PICK first : first = a.made
        OBVIOUS
    <3>3. /\ Len(first \o new) = Len(first) + Len(new)
          /\ \A i \in 1..Len(first) + Len(new) : (first \o new)[i] = IF i <= Len(first) THEN first[i] ELSE new[i - Len(first)]
          /\ first \o new \in Seq(X)
        BY <3>1, <3>2, <3>o
    <3>4. made = first \o new /\ Len(first) = Len(a.made) /\ made \in Seq(X)
        BY <2>m, <3>o, <3>3
    <3>5. Len(made) = Len(a.made) + u /\ DOMAIN made = 1..(Len(a.made) + u)
        BY <3>1, <3>3, <3>4
    <3>6. ASSUME NEW k \in 1..u PROVE made[Len(a.made) + k] = new[k]
      <4>1. Len(a.made) + k \in 1..Len(first) + Len(new) /\ ~(Len(a.made) + k <= Len(first)) /\ (Len(a.made) + k) - Len(first) = k
          BY <1>1, <3>1, <3>4
      <4> QED BY <3>3, <3>4, <4>1
    <3>7. ASSUME NEW t \in 1..Len(a.made) PROVE made[t] = a.made[t]
      <4>1. t \in 1..Len(first) + Len(new) /\ t <= Len(first)
          BY <1>1, <3>1, <3>4
      <4> QED BY <3>3, <3>4, <3>o, <4>1
    <3> QED BY <3>5, <3>6, <3>7
  <2>2. c = [a EXCEPT !.made = made, !.results = results]
    <3>1. new = [k \in 1..u |-> [weight |-> a.made[[x \in 1..u |-> a.incoming[order[x]]][k]].weight, closes |-> 0]]
        BY <2>n
    <3>2. Newest(a) = Len(a.made)
        BY DEF Newest
    <3>3. c = [a EXCEPT !.made = @ \o [k \in 1..u |-> [weight |-> @[[x \in 1..u |-> a.incoming[order[x]]][k]].weight, closes |-> 0]],
                        !.results = [k \in 1..u |-> Newest(a) + k]]
        BY <1>3, <2>o DEF Collected
    <3>4. c = [a EXCEPT !.made = @ \o [k \in 1..u |-> [weight |-> @[[x \in 1..u |-> a.incoming[order[x]]][k]].weight, closes |-> 0]],
                        !.results = results]
        BY <2>r, <3>2, <3>3
    <3> QED BY <2>m, <3>1, <3>4
  <2>3. /\ c.made = made /\ c.results = results
        /\ c.kind = a.kind /\ c.output = a.output /\ c.needed = a.needed /\ c.targets = a.targets /\ c.owned = a.owned
        /\ c.received = a.received /\ c.misused = a.misused
      BY <2>2 DEF WalkOf
  <2>4. c = [a EXCEPT !.made = c.made, !.results = c.results]
      BY <2>2, <2>3
  <2>5. \A k \in 1..u : made[Len(a.made) + k] = [weight |-> a.made[a.incoming[SetToSeq(a.targets)[k]]].weight, closes |-> 0]
      BY <2>o, <2>n, <2>1
  <2> QED BY <2>r, <2>1, <2>3, <2>4, <2>5 DEF Gathered
<1> QED BY <1>2, <1>3

\* What a call that ends has closed, and what it has to show.
LEMMA FinishEnds ==
    ASSUME History, NEW P, PathsFit(Shape, call, P), Walks(Shape, P, call), Finish
    PROVE  History' /\ call' # Idle /\ PathsFit(Shape, call, P)' /\ Ended(P, call')
<1>1. HistoryTyped /\ EdgesDescend
    BY DEF History
<1>2. UNCHANGED <<nodes, version, events, gradients, saved>>
    BY DEF Finish
<1>3. History' /\ Shape' = Shape
    BY <1>1, <1>2, SameNodesKeep DEF HistoryTyped
<1>g. PICK g : g = Shape
    OBVIOUS
<1>N. PICK N : N = Len(nodes)
    OBVIOUS
<1>a. PICK a : a = call
    OBVIOUS
<1>4. Ordered(g, N)
    BY <1>1, <1>g, <1>N, ShapeIsOrdered
<1>5. PathsFit(g, a, P) /\ WalksWith(g, P, a, Arrivals(a)) /\ a \in WalkOf(g)
    BY <1>g, <1>a DEF Walks, WalksWith
<1>6. Opened(a) /\ Planned(g, a) /\ Earned(a, P) /\ (~a.failed => Summing(g, P, a, Arrivals(a)))
    BY <1>5 DEF WalksWith
<1>7. /\ a.made \in Seq(Handle) /\ Len(a.made) \in Nat /\ DOMAIN a.made = 1..Len(a.made)
      /\ \A t \in 1..Len(a.made) : a.made[t] \in Handle /\ a.made[t].closes \in Nat
      /\ a.needed \subseteq DOMAIN g /\ a.targets \subseteq DOMAIN g /\ a.misused = FALSE /\ a.received \in [DOMAIN g -> Int]
      /\ a.failed \in BOOLEAN /\ a.kind \in {"grad", "backward"}
    BY <1>5, CallFields
<1>8. IsFiniteSet(a.targets)
  <2>1. IsFiniteSet(DOMAIN g)
      BY <1>4, FS_Interval DEF Ordered
  <2> QED BY <1>7, <2>1, FS_Subset
<1>o. PICK order : order = SetToSeq(a.targets)
    OBVIOUS
<1>9. order \in [1..Cardinality(a.targets) -> a.targets] /\ Cardinality(a.targets) \in Nat
    BY <1>8, <1>o, TargetsInOrder
<1>10. a.failed \/ a.ready = {}
    BY <1>a DEF Finish
<1>11. PICK u \in 0..Cardinality(call.targets) :
         LET wants == ~call.failed /\ call.kind = "grad"
             c == IF wants THEN Collected(call, u) ELSE call
             failed == call.failed \/ call.late \/ (wants /\ u < Cardinality(call.targets))
             closing == {1} \cup c.owned \cup (IF failed THEN ToSet(c.results) ELSE {})
         IN  /\ wants \/ u = 0
             /\ call' = [c EXCEPT !.phase = "done", !.failed = failed, !.owned = {},
                                  !.made = [t \in DOMAIN c.made |->
                                              IF t \in closing THEN [c.made[t] EXCEPT !.closes = @ + 1] ELSE c.made[t]],
                                  !.results = IF failed THEN <<>> ELSE @]
    BY Zenon DEF Finish
<1>w. PICK wants : wants = (~a.failed /\ a.kind = "grad")
    OBVIOUS
<1>c. PICK c : c = IF wants THEN Collected(a, u) ELSE a
    OBVIOUS
<1>f. PICK failed : failed = (a.failed \/ a.late \/ (wants /\ u < Cardinality(a.targets)))
    OBVIOUS
<1>l. PICK closing : closing = {1} \cup c.owned \cup (IF failed THEN ToSet(c.results) ELSE {})
    OBVIOUS
<1>m. PICK made : made = [t \in DOMAIN c.made |-> IF t \in closing THEN [c.made[t] EXCEPT !.closes = @ + 1] ELSE c.made[t]]
    OBVIOUS
<1>r. PICK results : results = IF failed THEN <<>> ELSE c.results
    OBVIOUS
<1>d. PICK d : d = call'
    OBVIOUS
<1>12. (wants \/ u = 0) /\ d = [c EXCEPT !.phase = "done", !.failed = failed, !.owned = {}, !.made = made, !.results = results]
  <2>1. (wants \/ u = 0)
      BY <1>11, <1>w, <1>a
  <2>2. call' = [c EXCEPT !.phase = "done", !.failed = failed, !.owned = {}, !.made = made,
                          !.results = IF failed THEN <<>> ELSE @]
      BY <1>11, <1>a, <1>w, <1>c, <1>f, <1>l, <1>m
  <2>3. [c EXCEPT !.phase = "done", !.failed = failed, !.owned = {}, !.made = made, !.results = IF failed THEN <<>> ELSE @]
        = [c EXCEPT !.phase = "done", !.failed = failed, !.owned = {}, !.made = made, !.results = results]
      BY <1>r
  <2> QED BY <1>d, <2>1, <2>2, <2>3
<1>13. u \in Nat /\ u <= Cardinality(a.targets)
    BY <1>9, <1>11, <1>a
<1>14. Gathered(a, c, u) /\ (c = a \/ c = [a EXCEPT !.made = c.made, !.results = c.results])
  <2>1. c = Collected(a, u) \/ (c = a /\ u = 0)
      BY <1>c, <1>12
  <2> QED BY ONLY <1>5, <1>13, <2>1, CollectedIs
<1>15. /\ d.phase = "done" /\ d.failed = failed /\ d.made = made /\ d.results = results
       /\ d.kind = c.kind /\ d.output = c.output /\ d.needed = c.needed /\ d.targets = c.targets
       /\ d.received = c.received /\ d.misused = c.misused
  <2>1. CASE c = a
      BY <1>5, <1>12, <2>1 DEF WalkOf
  <2>2. CASE c = [a EXCEPT !.made = c.made, !.results = c.results]
      BY <1>5, <1>12, <2>2 DEF WalkOf
  <2> QED BY <1>14, <2>1, <2>2
<1>L. PICK L : L = Len(a.made)
    OBVIOUS
<1>16. /\ DOMAIN c.made = 1..(L + u) /\ L \in Nat /\ \A t \in 1..L : c.made[t] = a.made[t]
       /\ \A k \in 1..u : c.made[L + k] = [weight |-> a.made[a.incoming[order[k]]].weight, closes |-> 0]
       /\ c.results = [k \in 1..u |-> L + k]
       /\ c.kind = a.kind /\ c.output = a.output /\ c.needed = a.needed /\ c.targets = a.targets /\ c.owned = a.owned
       /\ c.received = a.received /\ c.misused = a.misused
    BY <1>L, <1>o, <1>7, <1>14 DEF Gathered
<1>17. d.kind = a.kind /\ d.output = a.output /\ d.needed = a.needed /\ d.targets = a.targets /\ d.received = a.received /\ d.misused = FALSE
    BY <1>7, <1>15, <1>16
<1>18. Earned(d, P) /\ Visited(d) = Visited(a)
    BY <1>6, <1>17 DEF Earned, Visited
<1>19. ToSet(c.results) = (L + 1)..(L + u)
  <2>1. ToSet(c.results) = {L + k : k \in 1..u}
    <3>1. c.results = [k \in 1..u |-> L + k]
        BY <1>16
    <3> QED BY ONLY <3>1 DEF ToSet
  <2>2. ASSUME NEW t \in (L + 1)..(L + u) PROVE t - L \in 1..u /\ t = L + (t - L)
      BY <1>13, <1>16
  <2>3. ASSUME NEW k \in 1..u PROVE L + k \in (L + 1)..(L + u)
      BY <1>13, <1>16
  <2> QED BY <2>1, <2>2, <2>3
<1>20. failed \in BOOLEAN /\ (failed => ToSet(results) = {}) /\ (~failed => results = c.results)
  <2>1. failed \in BOOLEAN
      BY <1>f
  <2>2. ToSet(<<>>) = {}
      BY DEF ToSet
  <2> QED BY <1>r, <2>1, <2>2
<1>21. a.owned \subseteq (1..L) \ {1} /\ L >= 1 /\ \A t \in 1..L : a.made[t].closes + (IF t \in a.owned \cup {1} THEN 1 ELSE 0) = 1
    BY <1>L, <1>6, <1>7 DEF Opened
<1>22. ASSUME NEW t \in DOMAIN d.made PROVE d.made[t].closes = (IF t \in ToSet(d.results) THEN 0 ELSE 1)
  <2>1. t \in 1..(L + u) /\ t \in Nat
      BY <1>m, <1>13, <1>15, <1>16, <1>22
  <2>2. made[t] = IF t \in closing THEN [c.made[t] EXCEPT !.closes = @ + 1] ELSE c.made[t]
      BY <1>m, <1>16, <2>1
  <2>3. CASE t <= L
    <3>1. t \in 1..L /\ t \notin (L + 1)..(L + u)
        BY <1>16, <2>1, <2>3
    <3>2. t \in closing <=> t \in a.owned \cup {1}
        BY <1>l, <1>16, <1>19, <3>1
    <3>3. c.made[t] = a.made[t] /\ a.made[t] \in Handle /\ a.made[t].closes \in Nat
        BY <1>L, <1>7, <1>16, <3>1
    <3>4. t \notin ToSet(results)
        BY <1>19, <1>20, <3>1
    <3>5. made[t].closes = a.made[t].closes + (IF t \in a.owned \cup {1} THEN 1 ELSE 0)
        BY <2>2, <3>2, <3>3 DEF Handle
    <3> QED BY <1>15, <1>21, <3>1, <3>4, <3>5
  <2>4. CASE t > L
    <3>1. t \in (L + 1)..(L + u) /\ t - L \in 1..u /\ t = L + (t - L) /\ t \notin a.owned \cup {1}
        BY <1>13, <1>16, <1>21, <2>1, <2>4
    <3>2. c.made[t].closes = 0 /\ [c.made[t] EXCEPT !.closes = @ + 1].closes = 1
      <4>k. PICK k : k = t - L
          OBVIOUS
      <4>1. c.made[t] = [weight |-> a.made[a.incoming[order[k]]].weight, closes |-> 0]
          BY <1>16, <3>1, <4>k
      <4> QED BY <4>1
    <3>3. t \in closing <=> failed
        BY <1>l, <1>16, <1>19, <3>1
    <3>4. t \in ToSet(results) <=> ~failed
        BY <1>19, <1>20, <3>1
    <3> QED BY <1>15, <1>20, <2>2, <3>2, <3>3, <3>4
  <2> QED BY <1>16, <2>1, <2>3, <2>4
<1>23. ASSUME ~d.failed
       PROVE  /\ d.needed \subseteq Visited(d)
              /\ d.kind = "grad" => Len(d.results) = Cardinality(d.targets)
              /\ \A k \in DOMAIN d.results : d.made[d.results[k]].weight = P[SetToSeq(d.targets)[k]]
  <2>1. ~failed /\ ~a.failed /\ a.ready = {} /\ results = c.results /\ (wants => u = Cardinality(a.targets)) /\ (wants <=> a.kind = "grad")
    <3>1. ~failed
        BY <1>15, <1>23
    <3>2. ~a.failed /\ ~(wants /\ u < Cardinality(a.targets))
        BY <1>f, <3>1
    <3>3. a.ready = {} /\ results = c.results
        BY <1>10, <1>20, <3>1, <3>2
    <3>4. wants => u = Cardinality(a.targets)
        BY <1>9, <1>13, <3>2
    <3>5. wants <=> a.kind = "grad"
        BY <1>w, <3>2
    <3> QED BY <3>1, <3>2, <3>3, <3>4, <3>5
  <2>2. a.needed \subseteq Visited(a)
      BY ONLY <1>4, <1>5, <2>1, AllAreVisited
  <2>3. Len(d.results) = u /\ DOMAIN d.results = 1..u
      BY <1>13, <1>15, <1>16, <2>1
  <2>4. ASSUME NEW k \in 1..u PROVE d.made[d.results[k]].weight = P[order[k]]
    <3>1. d.results[k] = L + k /\ L + k \in 1..(L + u) /\ L + k \in (L + 1)..(L + u)
        BY <1>13, <1>15, <1>16, <2>1
    <3>2. L + k \notin closing
      <4>1. L + k # 1 /\ L + k \notin a.owned
          BY <1>16, <1>21, <2>4
      <4> QED BY <1>l, <1>16, <2>1, <4>1
    <3>3. made[L + k] = c.made[L + k]
        BY <1>m, <1>16, <3>1, <3>2
    <3>4. d.made[d.results[k]].weight = a.made[a.incoming[order[k]]].weight
      <4>1. d.made[d.results[k]] = c.made[L + k]
          BY <1>15, <3>1, <3>3
      <4>2. c.made[L + k] = [weight |-> a.made[a.incoming[order[k]]].weight, closes |-> 0]
          BY <1>16
      <4> QED BY ONLY <4>1, <4>2
    <3>t. PICK t : t = order[k]
        OBVIOUS
    <3>5. t \in a.targets /\ t \in a.needed /\ t \in Visited(a)
      <4>1. k \in 1..Cardinality(a.targets)
          BY <1>9, <1>13, <2>4
      <4> QED BY <1>6, <1>9, <2>2, <3>t, <4>1 DEF Planned
    <3>6. a.made[a.incoming[t]].weight = a.received[t]
        BY <1>6, <2>1, <3>5 DEF Summing, Summed
    <3>7. a.received[t] = P[t]
        BY <1>6, <3>5 DEF Earned, Visited
    <3> QED BY <3>t, <3>4, <3>6, <3>7
  <2>5. d.kind = "grad" => Len(d.results) = Cardinality(d.targets)
      BY <1>17, <2>1, <2>3
  <2>6. SetToSeq(d.targets) = order
      BY <1>o, <1>17
  <2> QED BY <1>17, <1>18, <2>2, <2>3, <2>4, <2>5, <2>6
<1>24. Ended(P, d)
  <2>1. DOMAIN P = DOMAIN g
      BY <1>5 DEF PathsFit
  <2>2. DOMAIN d.results \subseteq 1..Cardinality(a.targets)
    <3>1. DOMAIN c.results = 1..u /\ DOMAIN <<>> = {}
        BY <1>16
    <3>2. d.results = <<>> \/ d.results = c.results
        BY <1>r, <1>15
    <3> QED BY <1>9, <1>13, <3>1, <3>2
  <2> QED BY <1>7, <1>15, <1>17, <1>18, <1>22, <1>23, <2>1, <2>2 DEF Ended
<1>25. PathsFit(g, d, P)
  <2>1. \A n : PathsTo(g, d, P, n) = PathsTo(g, a, P, n)
      BY <1>17 DEF PathsTo
  <2> QED BY <1>5, <2>1 DEF PathsFit
<1>26. d # Idle
  <2>1. d.phase = "done"
      BY <1>15
  <2> QED BY <2>1 DEF Idle
<1> QED BY <1>d, <1>g, <1>3, <1>24, <1>25, <1>26

-----------------------------------------------------------------------------
(* The theorems                                                             *)

\* A traversal under way adds up the paths to what it visited, and one that
\* ended has given back what it made.
Traverses == call # Idle => \E P : PathsFit(Shape, call, P) /\ (Walks(Shape, P, call) \/ Ended(P, call))
IInv == History /\ Traverses

\* It holds at the start.
LEMMA IInvStarts ==
    ASSUME Init
    PROVE  IInv
<1>1. History
    BY HistoryStarts
<1>2. call = Idle
    BY DEF Init
<1> QED BY <1>1, <1>2 DEF IInv, Traverses

\* A call that returned or has not begun owes nothing.
LEMMA IdleTraverses ==
    ASSUME call' = Idle
    PROVE  Traverses'
BY DEF Traverses, Idle

\* A traversal under way, one that ended.
LEMMA PhasesDiffer ==
    ASSUME NEW g, NEW P
    PROVE  (Walks(g, P, call) => call.phase = "walking") /\ (Ended(P, call) => call.phase = "done")
<1>1. Walks(g, P, call) => call.phase = "walking"
    BY DEF Walks, WalksWith, WalkOf
<1> QED BY <1>1 DEF Ended

\* Every step keeps it.
LEMMA IInvKeeps ==
    ASSUME IInv, [Next]_vars
    PROVE  IInv'
<1>1. History /\ HistoryTyped /\ Traverses
    BY DEF IInv, History
<1>2. ASSUME NEW recipe \in Recipes, NEW a \in Tensors, NEW b \in Tensors, Record(recipe, <<a, b>>) PROVE IInv'
  <2>1. History'
      BY <1>1, <1>2, RecordKeeps
  <2>2. call' = Idle
      BY <1>2 DEF Record, User
  <2> QED BY <2>1, <2>2, IdleTraverses DEF IInv
<1>3. ASSUME NEW n \in DOMAIN nodes, Release(n) PROVE IInv'
  <2>1. History'
      BY <1>1, <1>3, ReleaseKeeps
  <2>2. call' = Idle
      BY <1>3 DEF Release, User
  <2> QED BY <2>1, <2>2, IdleTraverses DEF IInv
<1>4. ASSUME NEW v \in Tensors, Modify(v) PROVE IInv'
  <2>1. version' \in [Tensors -> Nat] /\ gradients' \subseteq Nat /\ UNCHANGED <<nodes, saved>>
      BY <1>1, <1>4 DEF Modify, HistoryTyped
  <2>2. History'
      BY <1>1, <2>1, SameNodesKeep
  <2>3. call' = Idle
      BY <1>4 DEF Modify, User
  <2> QED BY <2>2, <2>3, IdleTraverses DEF IInv
<1>5. ASSUME NEW output \in DOMAIN nodes, Backward(output) \/ \E targets \in SUBSET DOMAIN nodes : Grad(output, targets)
      PROVE  IInv'
  <2>1. History' /\ call' # Idle /\ \E P : PathsFit(Shape, call, P)' /\ Walks(Shape, P, call)'
      BY <1>1, <1>5, TraversalStarts
  <2> QED BY <2>1 DEF IInv, Traverses
<1>6. ASSUME NEW n \in DOMAIN nodes, NEW fault \in Faults, Visit(n, fault) PROVE IInv'
  <2>1. call.phase = "walking" /\ call # Idle
    <3>1. call.phase = "walking"
        BY <1>6, Zenon DEF Visit
    <3> QED BY <3>1 DEF Idle
  <2>2. PICK P : PathsFit(Shape, call, P) /\ Walks(Shape, P, call)
      BY <1>1, <2>1, PhasesDiffer DEF Traverses
  <2>3. History' /\ call' # Idle /\ PathsFit(Shape, call, P)' /\ Walks(Shape, P, call)'
      BY <1>1, <1>6, <2>2, VisitKeeps
  <2> QED BY <2>3 DEF IInv, Traverses
<1>7. ASSUME Finish PROVE IInv'
  <2>1. call.phase = "walking" /\ call # Idle
      BY <1>7 DEF Finish, Idle
  <2>2. PICK P : PathsFit(Shape, call, P) /\ Walks(Shape, P, call)
      BY <1>1, <2>1, PhasesDiffer DEF Traverses
  <2>3. History' /\ call' # Idle /\ PathsFit(Shape, call, P)' /\ Ended(P, call')
      BY <1>1, <1>7, <2>2, FinishEnds
  <2> QED BY <2>3 DEF IInv, Traverses
<1>8. ASSUME Return PROVE IInv'
  <2>1. call' = Idle /\ UNCHANGED <<nodes, version, gradients, saved>>
      BY <1>8 DEF Return
  <2>2. History'
      BY <1>1, <2>1, SameNodesKeep DEF HistoryTyped
  <2> QED BY <2>1, <2>2, IdleTraverses DEF IInv
<1>9. ASSUME UNCHANGED vars PROVE IInv'
  <2>1. UNCHANGED <<nodes, version, gradients, saved, call>>
      BY <1>9 DEF vars
  <2>2. History' /\ Shape' = Shape
      BY <1>1, <2>1, SameNodesKeep DEF HistoryTyped
  <2>3. Traverses'
      BY <1>1, <2>1, <2>2 DEF Traverses
  <2> QED BY <2>2, <2>3 DEF IInv
<1> QED BY <1>2, <1>3, <1>4, <1>5, <1>6, <1>7, <1>8, <1>9 DEF Next

\* The recorded history is in order at any time, and a traversal adds up the
\* paths to each node it visits (DerivativeHistory and its nodes).
THEOREM HistoryIsInOrder == Spec => []IInv
<1>1. Init => IInv
    BY IInvStarts
<1>2. IInv /\ [Next]_vars => IInv'
    BY IInvKeeps
<1> QED BY <1>1, <1>2, PTL DEF Spec

\* No contribution is computed from a saved value that was modified or given
\* up (validateNode before a recipe is applied).
THEOREM SavedValuesAreCurrentHolds == Spec => []SavedValuesAreCurrent
<1>1. IInv => SavedValuesAreCurrent
  <2> SUFFICES ASSUME IInv, call # Idle PROVE ~call.misused
      BY DEF SavedValuesAreCurrent
  <2>1. PICK P : Walks(Shape, P, call) \/ Ended(P, call)
      BY DEF IInv, Traverses
  <2>2. Walks(Shape, P, call) => call.misused = FALSE
      BY CallFields DEF Walks, WalksWith
  <2> QED BY <2>1, <2>2 DEF Ended
<1> QED BY <1>1, HistoryIsInOrder, PTL

\* Every handle a traversal made closes once, but the results of one that
\* succeeded, and every saved value is given up once (the finally of execute,
\* release and consume).
THEOREM ReleasedExactlyOnceHolds == Spec => []ReleasedExactlyOnce
<1>1. IInv => ReleasedExactlyOnce
  <2> SUFFICES ASSUME IInv, call # Idle PROVE
          \A t \in DOMAIN call.made :
            IF call.phase = "done"
            THEN call.made[t].closes = (IF t \in ToSet(call.results) THEN 0 ELSE 1)
            ELSE call.made[t].closes + (IF t \in call.owned \cup {1} THEN 1 ELSE 0) = 1
      BY DEF ReleasedExactlyOnce, HandlesCloseOnce, IInv, History
  <2>1. PICK P : Walks(Shape, P, call) \/ Ended(P, call)
      BY DEF IInv, Traverses
  <2>2. CASE Walks(Shape, P, call)
    <3>1. call.phase = "walking" /\ Opened(call)
        BY <2>2, PhasesDiffer DEF Walks, WalksWith
    <3> QED BY <3>1 DEF Opened
  <2>3. CASE Ended(P, call)
      BY <2>3 DEF Ended
  <2> QED BY <2>1, <2>2, <2>3
<1> QED BY <1>1, HistoryIsInOrder, PTL

\* What a traversal delivers to a leaf or returns is the whole gradient, and
\* it succeeds only when it visited all that leads to a target (execute,
\* with the pending counts of plan and the sums of deliver).
THEOREM GradientsAreWholeHolds == Spec => []GradientsAreWhole
<1>1. IInv => GradientsAreWhole
  <2> SUFFICES ASSUME IInv, call # Idle
               PROVE  /\ \A n \in DOMAIN nodes : call.received[n] # -1 => call.received[n] = Paths[n]
                      /\ call.phase = "done" /\ ~call.failed =>
                           /\ \A n \in call.needed : call.received[n] # -1
                           /\ call.kind = "grad" => Len(call.results) = Cardinality(call.targets)
                           /\ \A k \in DOMAIN call.results :
                                call.made[call.results[k]].weight = Paths[SetToSeq(call.targets)[k]]
      BY DEF GradientsAreWhole
  <2>1. HistoryTyped /\ EdgesDescend
      BY DEF IInv, History
  <2>2. PICK P : PathsFit(Shape, call, P) /\ (Walks(Shape, P, call) \/ Ended(P, call))
      BY DEF IInv, Traverses
  <2>3. DOMAIN P = DOMAIN nodes
      BY <2>1, <2>2, ShapeIsOrdered DEF PathsFit
  <2>4. call.received \in [DOMAIN nodes -> Int] /\ call.needed \subseteq DOMAIN nodes /\ Earned(call, P)
    <3>1. CASE Walks(Shape, P, call)
      <4>1. call \in WalkOf(Shape) /\ Earned(call, P)
          BY <3>1 DEF Walks, WalksWith
      <4>2. DOMAIN Shape = DOMAIN nodes
          BY <2>1, ShapeIsOrdered
      <4> QED BY <4>1, <4>2, CallFields
    <3>2. CASE Ended(P, call)
        BY <2>3, <3>2 DEF Ended
    <3> QED BY <2>2, <3>1, <3>2
  <2>5. \A n \in DOMAIN nodes : Paths[n] = P[n]
      BY <2>1, <2>2, <2>4, PathsAre
  <2>6. \A n \in DOMAIN nodes : call.received[n] # -1 => call.received[n] = Paths[n]
      BY <2>4, <2>5 DEF Earned
  <2>7. ASSUME call.phase = "done", ~call.failed
        PROVE  /\ \A n \in call.needed : call.received[n] # -1
               /\ call.kind = "grad" => Len(call.results) = Cardinality(call.targets)
               /\ \A k \in DOMAIN call.results :
                    call.made[call.results[k]].weight = Paths[SetToSeq(call.targets)[k]]
    <3>1. Ended(P, call)
        BY <2>2, <2>7, PhasesDiffer
    <3>2. /\ call.needed \subseteq Visited(call)
          /\ call.kind = "grad" => Len(call.results) = Cardinality(call.targets)
          /\ \A k \in DOMAIN call.results : call.made[call.results[k]].weight = P[SetToSeq(call.targets)[k]]
          /\ DOMAIN call.results \subseteq 1..Cardinality(call.targets) /\ call.targets \subseteq DOMAIN nodes
        BY <2>3, <2>7, <3>1 DEF Ended
    <3>3. SetToSeq(call.targets) \in [1..Cardinality(call.targets) -> call.targets]
      <4>1. IsFiniteSet(call.targets)
          BY <2>1, <3>2, NodesAreNumbered, FS_Subset
      <4> QED BY <4>1, TargetsInOrder
    <3>4. \A k \in DOMAIN call.results : SetToSeq(call.targets)[k] \in DOMAIN nodes
        BY <3>2, <3>3
    <3>5. \A n \in call.needed : call.received[n] # -1
        BY <3>2 DEF Visited
    <3> QED BY <2>5, <3>2, <3>4, <3>5
  <2> QED BY <2>6, <2>7
<1> QED BY <1>1, HistoryIsInOrder, PTL

=============================================================================
