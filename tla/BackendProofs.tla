---------------------------- MODULE BackendProofs ----------------------------
(***************************************************************************)
(* Machine-checked proofs about the backends: InvocationStorage and the    *)
(* LinearMemory it extends, for any sizes, alignment, buffers, values,     *)
(* programs in flight and faults, and what a session may rely on when it   *)
(* waits for its backend (BackendPreparation and the DeviceAcquisition it  *)
(* extends), for any kinds of computations, requests and defects.          *)
(*                                                                         *)
(* Linear memory first: at any time the arena below the cursor is cut,     *)
(* without overlap and without gap, into the live reservations and the     *)
(* free segments, and the list holds the segments in ascending order. The  *)
(* binary search then finds the one place a released range can go to, and  *)
(* the allocator implements the first-fit store.                           *)
(*                                                                         *)
(* Then the invocations: at any step of one every buffer that exists is    *)
(* accounted for by exactly one party - the residents, the values of the   *)
(* program, the flights that created it - and what a flight merely pins is *)
(* a resident or its own. How linear memory places the buffers does not    *)
(* matter there.                                                           *)
(*                                                                         *)
(* Then the acquisition of a device: of its promise jobs at most one       *)
(* carries the browser's answer, one the cancellation, one the caller; who *)
(* owns a granted device is read off the job it travels in.                *)
(*                                                                         *)
(* At last the preparation: nothing unsound is used, failures are owned. A *)
(* part is "running" only with a sound past: the checks behind it have     *)
(* passed, and somebody waits for the artifact - so the session cannot     *)
(* have closed under it.                                                   *)
(***************************************************************************)
EXTENDS InvocationStorage, BackendPreparation, SequenceTheorems, FiniteSetTheorems, NaturalsInduction,
        WellFoundedInduction, TLAPS

-----------------------------------------------------------------------------
(* Least numbers and induction.                                             *)

\* A set of naturals that is not empty has a least element, and Min is it.
LEMMA MinIsLeast ==
    ASSUME NEW S \in SUBSET Nat, S # {}
    PROVE  Min(S) \in S /\ \A k \in S : Min(S) <= k
<1>1. PICK x \in S : \A y \in S : ~(<<y, x>> \in OpToRel(<, Nat))
    BY WFMin, NatLessThanWellFounded, Zenon
<1>2. \A y \in S : x <= y
  <2> SUFFICES ASSUME NEW y \in S
               PROVE  x <= y
    OBVIOUS
  <2>1. ~(<<y, x>> \in {ss \in Nat \X Nat : ss[1] < ss[2]})
    BY <1>1 DEF OpToRel
  <2> QED BY <2>1
<1> QED BY <1>2 DEF Min

\* A set of numbers that holds 0 and the successor of each of its members holds all.
LEMMA Induction ==
    ASSUME NEW T \in SUBSET Nat, 0 \in T, \A n \in T : n + 1 \in T
    PROVE  T = Nat
<1> SUFFICES ASSUME Nat \ T # {} PROVE FALSE
    OBVIOUS
<1>1. PICK n \in Nat \ T : \A m \in Nat \ T : n <= m
    BY MinIsLeast, Zenon
<1>2. n # 0 /\ n - 1 \in Nat
    BY <1>1
<1>3. n - 1 \in T
    BY <1>1, <1>2
<1>4. (n - 1) + 1 = n
    BY <1>1
<1> QED BY <1>1, <1>3, <1>4

----------------------------------------------------------------------------
(* Sums over finite sets, counted.                                          *)

\* The bytes that the members of s have under w, each as a pair.
Units(w, s) == {p \in s \X Nat : 1 <= p[2] /\ p[2] <= w[p[1]]}
Weight(w, s) == Cardinality(Units(w, s))

\* One member adds its own bytes.
LEMMA WeightGrows ==
    ASSUME NEW w, NEW s, NEW x \in s, w[x] \in Nat, IsFiniteSet(Units(w, s \ {x}))
    PROVE  IsFiniteSet(Units(w, s)) /\ Weight(w, s) = w[x] + Weight(w, s \ {x})
<1> DEFINE own == {x} \X (1..w[x])
           rest == Units(w, s \ {x})
<1>1. \A p : p \in Units(w, s) <=> p \in own \/ p \in rest
    BY DEF Units
<1>2. Units(w, s) = own \cup rest
    BY <1>1
<1>3. IsFiniteSet({x}) /\ Cardinality({x}) = 1
    BY FS_Singleton
<1>4. IsFiniteSet(1..w[x]) /\ Cardinality(1..w[x]) = w[x]
    BY FS_Interval
<1>5. IsFiniteSet(own) /\ Cardinality(own) = Cardinality({x}) * Cardinality(1..w[x])
    BY <1>3, <1>4, FS_Product
<1>6. Cardinality(own) = w[x]
    BY <1>3, <1>4, <1>5
<1>7. own \cap rest = {}
    BY DEF Units
<1>8. IsFiniteSet(own \cup rest) /\ Cardinality(own \cup rest) = Cardinality(own) + Cardinality(rest) - Cardinality(own \cap rest)
    BY <1>5, FS_Union
<1>9. Cardinality(own \cap rest) = 0 /\ Cardinality(rest) \in Nat
    BY <1>7, FS_EmptySet, FS_CardinalityType
<1> HIDE DEF own, rest
<1> QED BY <1>2, <1>6, <1>8, <1>9 DEF Weight, rest

\* No members, no bytes.
LEMMA WeightOfNone ==
    ASSUME NEW w
    PROVE  IsFiniteSet(Units(w, {})) /\ Weight(w, {}) = 0
<1>1. Units(w, {}) = {}
    BY DEF Units
<1> QED BY <1>1, FS_EmptySet DEF Weight

\* Finitely many members have finitely many bytes.
LEMMA WeightIsFinite ==
    ASSUME NEW s, IsFiniteSet(s), NEW w, \A x \in s : w[x] \in Nat
    PROVE  IsFiniteSet(Units(w, s)) /\ Weight(w, s) \in Nat
<1> DEFINE T == {n \in Nat : \A r \in SUBSET s : Cardinality(r) = n => IsFiniteSet(Units(w, r))}
<1>1. 0 \in T
  <2> SUFFICES ASSUME NEW r \in SUBSET s, Cardinality(r) = 0 PROVE IsFiniteSet(Units(w, r))
    OBVIOUS
  <2>1. IsFiniteSet(r)
    BY FS_Subset
  <2>2. r = {}
    BY <2>1, FS_EmptySet
  <2> QED BY <2>2, WeightOfNone
<1>2. ASSUME NEW n \in T PROVE n + 1 \in T
  <2> SUFFICES ASSUME NEW r \in SUBSET s, Cardinality(r) = n + 1 PROVE IsFiniteSet(Units(w, r))
    OBVIOUS
  <2>1. IsFiniteSet(r)
    BY FS_Subset
  <2>2. r # {}
    BY <2>1, FS_EmptySet
  <2>3. PICK x : x \in r
    BY <2>2
  <2>4. Cardinality(r \ {x}) = Cardinality(r) - 1
    BY <2>1, <2>3, FS_RemoveElement
  <2>5. Cardinality(r \ {x}) = n /\ r \ {x} \in SUBSET s
    BY <2>4
  <2>6. IsFiniteSet(Units(w, r \ {x}))
    BY <2>5
  <2> QED BY <2>3, <2>6, WeightGrows
<1>3. T = Nat
  <2> HIDE DEF T
  <2>1. T \in SUBSET Nat
    BY DEF T
  <2> QED BY <1>1, <1>2, <2>1, Induction
<1>4. Cardinality(s) \in T
    BY <1>3, FS_CardinalityType
<1>5. IsFiniteSet(Units(w, s))
    BY <1>4
<1> QED BY <1>5, FS_CardinalityType DEF Weight

\* A fold that adds the members up in some order is a function like this.
Adds(w, S, it) ==
    it = [s \in SUBSET S |-> IF s = {} THEN 0
                             ELSE w[CHOOSE x \in s : TRUE] + it[s \ {CHOOSE x \in s : TRUE}]]

\* There is such a function.
LEMMA AddsExists ==
    ASSUME NEW S, IsFiniteSet(S), NEW w, \A x \in S : w[x] \in Nat
    PROVE  \E it : Adds(w, S, it)
<1> DEFINE it == [s \in SUBSET S |-> Weight(w, s)]
<1>1. ASSUME NEW s \in SUBSET S, s # {}
      PROVE  Weight(w, s) = w[CHOOSE x \in s : TRUE] + it[s \ {CHOOSE x \in s : TRUE}]
  <2>1. PICK c : c = CHOOSE x \in s : TRUE
    OBVIOUS
  <2>2. c \in s
    BY <1>1, <2>1
  <2>3. IsFiniteSet(s \ {c})
    BY FS_Subset
  <2>4. IsFiniteSet(Units(w, s \ {c}))
    BY <2>3, WeightIsFinite
  <2>5. Weight(w, s) = w[c] + Weight(w, s \ {c})
    <3>1. w[c] \in Nat
      BY <2>2
    <3> QED BY ONLY <2>2, <2>4, <3>1, WeightGrows
  <2>6. it[s \ {c}] = Weight(w, s \ {c})
    OBVIOUS
  <2> QED BY <2>1, <2>5, <2>6
<1>2. ASSUME NEW s \in SUBSET S, s = {} PROVE Weight(w, s) = 0
    BY <1>2, WeightOfNone
<1>3. Adds(w, S, it)
    BY <1>1, <1>2 DEF Adds
<1> QED BY <1>3

\* Whatever the order, the fold is the number of bytes.
LEMMA AddsIsWeight ==
    ASSUME NEW S, IsFiniteSet(S), NEW w, \A x \in S : w[x] \in Nat, NEW it, Adds(w, S, it)
    PROVE  it[S] = Weight(w, S)
<1> DEFINE T == {n \in Nat : \A r \in SUBSET S : Cardinality(r) = n => it[r] = Weight(w, r)}
<1>1. 0 \in T
  <2> SUFFICES ASSUME NEW r \in SUBSET S, Cardinality(r) = 0 PROVE it[r] = Weight(w, r)
    OBVIOUS
  <2>1. IsFiniteSet(r)
    BY FS_Subset
  <2>2. r = {}
    BY <2>1, FS_EmptySet
  <2>3. it[r] = 0
    BY <2>2 DEF Adds
  <2> QED BY <2>2, <2>3, WeightOfNone
<1>2. ASSUME NEW n \in T PROVE n + 1 \in T
  <2> SUFFICES ASSUME NEW r \in SUBSET S, Cardinality(r) = n + 1 PROVE it[r] = Weight(w, r)
    OBVIOUS
  <2>1. IsFiniteSet(r)
    BY FS_Subset
  <2>2. r # {}
    BY <2>1, FS_EmptySet
  <2>3. PICK x : x = CHOOSE y \in r : TRUE
    OBVIOUS
  <2>4. x \in r
    BY <2>2, <2>3
  <2>5. Cardinality(r \ {x}) = Cardinality(r) - 1
    BY <2>1, <2>4, FS_RemoveElement
  <2>6. Cardinality(r \ {x}) = n /\ r \ {x} \in SUBSET S
    BY <2>5
  <2>7. it[r \ {x}] = Weight(w, r \ {x})
    BY <2>6
  <2>8. it[r] = w[x] + it[r \ {x}]
    BY <2>2, <2>3 DEF Adds
  <2>9. IsFiniteSet(Units(w, r \ {x}))
    BY <2>6, WeightIsFinite, FS_Subset
  <2>10. Weight(w, r) = w[x] + Weight(w, r \ {x})
    <3>1. w[x] \in Nat
      BY <2>4
    <3> QED BY ONLY <2>4, <2>9, <3>1, WeightGrows
  <2> QED BY <2>7, <2>8, <2>10
<1>3. T = Nat
  <2> HIDE DEF T
  <2>1. T \in SUBSET Nat
    BY DEF T
  <2> QED BY <1>1, <1>2, <2>1, Induction
<1>4. Cardinality(S) \in T
    BY <1>3, FS_CardinalityType
<1> QED BY <1>4

\* The sum of the reservations of a set of allocations.
LEMMA ReservedIsWeight ==
    ASSUME NEW S, IsFiniteSet(S), \A x \in S : reserved[x] \in Nat
    PROVE  FoldSet(LAMBDA a, n : reserved[a] + n, 0, S) = Weight(reserved, S)
<1> DEFINE it == CHOOSE it : Adds(reserved, S, it)
<1>1. Adds(reserved, S, it)
    BY AddsExists
<1>2. it[S] = Weight(reserved, S)
  <2> HIDE DEF it
  <2> QED BY <1>1, AddsIsWeight
<1>3. FoldSet(LAMBDA a, n : reserved[a] + n, 0, S) = it[S]
    BY DEF FoldSet, MapThenFoldSet, Adds
<1> QED BY <1>2, <1>3

\* The sum of the payloads of a set of allocations.
LEMMA BytesIsWeight ==
    ASSUME NEW S, IsFiniteSet(S), \A x \in S : bytes[x] \in Nat
    PROVE  FoldSet(LAMBDA a, n : bytes[a] + n, 0, S) = Weight(bytes, S)
<1> DEFINE it == CHOOSE it : Adds(bytes, S, it)
<1>1. Adds(bytes, S, it)
    BY AddsExists
<1>2. it[S] = Weight(bytes, S)
  <2> HIDE DEF it
  <2> QED BY <1>1, AddsIsWeight
<1>3. FoldSet(LAMBDA a, n : bytes[a] + n, 0, S) = it[S]
    BY DEF FoldSet, MapThenFoldSet, Adds
<1> QED BY <1>2, <1>3

Lengths == [i \in DOMAIN segments |-> segments[i].byteLength]

\* The fold over the free segments is a function like this.
AddsSegments(it) ==
    it = [s \in SUBSET DOMAIN segments |-> IF s = {} THEN 0
             ELSE segments[CHOOSE x \in s : TRUE].byteLength + it[s \ {CHOOSE x \in s : TRUE}]]

\* Adding the segments up is adding their lengths up.
LEMMA SegmentsHaveLengths ==
    ASSUME NEW it
    PROVE  Adds(Lengths, DOMAIN segments, it) <=> AddsSegments(it)
<1>1. ASSUME NEW s \in SUBSET DOMAIN segments, s # {}
      PROVE  Lengths[CHOOSE x \in s : TRUE] = segments[CHOOSE x \in s : TRUE].byteLength
  <2>1. (CHOOSE x \in s : TRUE) \in DOMAIN segments
    BY <1>1
  <2> QED BY <2>1 DEF Lengths
<1> QED BY <1>1 DEF Adds, AddsSegments

\* The sum of the free segments.
LEMMA SegmentsIsWeight ==
    ASSUME IsFiniteSet(DOMAIN segments), \A i \in DOMAIN segments : segments[i].byteLength \in Nat
    PROVE  FoldSeq(LAMBDA s, n : s.byteLength + n, 0, segments) = Weight(Lengths, DOMAIN segments)
<1> DEFINE it == CHOOSE it : AddsSegments(it)
<1>1. \A x \in DOMAIN segments : Lengths[x] \in Nat
    BY DEF Lengths
<1>2. \E f : Adds(Lengths, DOMAIN segments, f)
    BY <1>1, AddsExists
<1>3. \E f : AddsSegments(f)
    BY <1>2, SegmentsHaveLengths
<1>4. AddsSegments(it)
    BY <1>3
<1>5. FoldSeq(LAMBDA s, n : s.byteLength + n, 0, segments) = it[DOMAIN segments]
    BY DEF FoldSeq, FoldFunction, FoldFunctionOnSet, MapThenFoldSet, AddsSegments
<1> HIDE DEF it
<1>6. Adds(Lengths, DOMAIN segments, it)
    BY <1>4, SegmentsHaveLengths
<1>7. it[DOMAIN segments] = Weight(Lengths, DOMAIN segments)
    BY <1>1, <1>6, AddsIsWeight
<1> QED BY <1>5, <1>7

----------------------------------------------------------------------------
(* Memory is cut into live reservations and free segments.                  *)

Pieces == [offset : Nat, byteLength : Nat \ {0}]
Past(s) == s.offset + s.byteLength
Aside(at, n, to, m) == at + n <= to \/ to + m <= at
Within(x, at, n) == at <= x /\ x < at + n
Base == Align(ArenaBase)
Free == ToSet(segments)

\* Live reservations and free segments lie below the cursor, none overlap, and
\* together they are all there is.
InArena ==
    /\ \A a \in live : reserved[a] > 0 => Base <= offset[a] /\ offset[a] + reserved[a] <= cursor
    /\ \A s \in Free : Base <= s.offset /\ Past(s) <= cursor
NoOverlap ==
    /\ \A a, b \in live : a # b /\ reserved[a] > 0 /\ reserved[b] > 0 =>
           Aside(offset[a], reserved[a], offset[b], reserved[b])
    /\ \A a \in live, s \in Free : reserved[a] > 0 => Aside(offset[a], reserved[a], s.offset, s.byteLength)
    /\ \A s, o \in Free : s # o => Aside(s.offset, s.byteLength, o.offset, o.byteLength)
NoGap ==
    \A x \in Nat : Base <= x /\ x < cursor =>
        \/ \E a \in live : Within(x, offset[a], reserved[a])
        \/ \E s \in Free : Within(x, s.offset, s.byteLength)
Cut ==
    /\ live \in SUBSET Allocations /\ offset \in [Allocations -> Nat] /\ reserved \in [Allocations -> Nat]
    /\ Free \subseteq Pieces /\ cursor \in Nat /\ Base \in Nat /\ Base <= cursor
    /\ InArena /\ NoOverlap /\ NoGap

\* A new allocation of n bytes at a place.
Handed(a, at, n) ==
    /\ live' = live \cup {a}
    /\ offset' = [offset EXCEPT ![a] = at] /\ reserved' = [reserved EXCEPT ![a] = n]

\* What a new allocation leaves of the others.
LEMMA HandedKeepsOthers ==
    ASSUME Cut, NEW a \in Allocations, a \notin live, NEW at \in Nat, NEW n \in Nat, Handed(a, at, n)
    PROVE  /\ live' \in SUBSET Allocations /\ offset' \in [Allocations -> Nat] /\ reserved' \in [Allocations -> Nat]
           /\ offset'[a] = at /\ reserved'[a] = n /\ a \in live'
           /\ \A b \in live' : b # a => b \in live /\ offset'[b] = offset[b] /\ reserved'[b] = reserved[b]
           /\ \A b \in live : b \in live' /\ b # a /\ offset'[b] = offset[b] /\ reserved'[b] = reserved[b]
BY DEF Handed, Cut

\* Taking the front of a free segment.
LEMMA ReuseKeepsCut ==
    ASSUME Cut, NEW a \in Allocations, a \notin live, NEW n \in Nat, NEW s \in Free, n <= s.byteLength,
           Handed(a, s.offset, n), cursor' = cursor,
           Free' = (Free \ {s}) \cup (IF s.byteLength = n THEN {} ELSE {Segment(s.offset + n, s.byteLength - n)})
    PROVE  Cut'
<1>1. s \in Pieces /\ s.offset \in Nat /\ s.byteLength \in Nat /\ s.byteLength > 0
    BY DEF Cut, Pieces
<1>2. /\ live' \in SUBSET Allocations /\ offset' \in [Allocations -> Nat] /\ reserved' \in [Allocations -> Nat]
      /\ offset'[a] = s.offset /\ reserved'[a] = n /\ a \in live'
      /\ \A b \in live' : b # a => b \in live /\ offset'[b] = offset[b] /\ reserved'[b] = reserved[b]
      /\ \A b \in live : b \in live' /\ b # a /\ offset'[b] = offset[b] /\ reserved'[b] = reserved[b]
    BY <1>1, HandedKeepsOthers
<1> DEFINE r == Segment(s.offset + n, s.byteLength - n)
<1>3. r.offset = s.offset + n /\ r.byteLength = s.byteLength - n
    BY DEF Segment
<1>4. s.byteLength # n => r \in Pieces
    BY <1>1 DEF Segment, Pieces
<1>5. /\ \A o \in Free' : (o \in Free /\ o # s) \/ (o = r /\ s.byteLength # n)
      /\ \A o \in Free : o # s => o \in Free'
      /\ s.byteLength # n => r \in Free'
    OBVIOUS
<1> HIDE DEF r
<1>6. Free' \subseteq Pieces
    BY <1>4, <1>5 DEF Cut
<1>7. \A o \in Pieces : o.offset \in Nat /\ o.byteLength \in Nat /\ o.byteLength > 0
    BY DEF Pieces
<1>8. \A b \in live : offset[b] \in Nat /\ reserved[b] \in Nat
    BY DEF Cut
<1>9. /\ \A b \in live : reserved[b] > 0 => Aside(offset[b], reserved[b], s.offset, s.byteLength)
      /\ \A o \in Free : o # s => Aside(o.offset, o.byteLength, s.offset, s.byteLength)
      /\ Base <= s.offset /\ Past(s) <= cursor
    BY DEF Cut, NoOverlap, InArena, Aside
<1>10. InArena'
  <2>1. ASSUME NEW b \in live', reserved'[b] > 0 PROVE Base <= offset'[b] /\ offset'[b] + reserved'[b] <= cursor'
    BY <2>1, <1>1, <1>2, <1>9 DEF Cut, InArena, Past
  <2>2. ASSUME NEW o \in Free' PROVE Base <= o.offset /\ Past(o) <= cursor'
    BY <1>1, <1>3, <1>5, <1>9 DEF Cut, InArena, Past
  <2>3. Base' = Base
    BY DEF Base, Align
  <2> QED BY <2>1, <2>2, <2>3 DEF InArena, Past
<1>11. NoOverlap'
  <2>1. ASSUME NEW b \in live', NEW c \in live', b # c, reserved'[b] > 0, reserved'[c] > 0
        PROVE  Aside(offset'[b], reserved'[b], offset'[c], reserved'[c])
    <3>1. CASE b # a /\ c # a
      BY <2>1, <3>1, <1>2 DEF Cut, NoOverlap
    <3>2. CASE b = a
      <4>1. c \in live /\ Aside(offset[c], reserved[c], s.offset, s.byteLength) /\ offset[c] \in Nat /\ reserved[c] \in Nat
        BY <2>1, <3>2, <1>2, <1>8, <1>9
      <4>2. offset'[b] = s.offset /\ reserved'[b] = n /\ offset'[c] = offset[c] /\ reserved'[c] = reserved[c]
        BY <2>1, <3>2, <4>1, <1>2
      <4> QED BY ONLY <4>1, <4>2, <1>1, n \in Nat, n <= s.byteLength DEF Aside
    <3>3. CASE c = a
      <4>1. b \in live /\ Aside(offset[b], reserved[b], s.offset, s.byteLength) /\ offset[b] \in Nat /\ reserved[b] \in Nat
        BY <2>1, <3>3, <1>2, <1>8, <1>9
      <4>2. offset'[c] = s.offset /\ reserved'[c] = n /\ offset'[b] = offset[b] /\ reserved'[b] = reserved[b]
        BY <2>1, <3>3, <4>1, <1>2
      <4> QED BY ONLY <4>1, <4>2, <1>1, n \in Nat, n <= s.byteLength DEF Aside
    <3> QED BY <3>1, <3>2, <3>3
  <2>2. ASSUME NEW b \in live', NEW o \in Free', reserved'[b] > 0
        PROVE  Aside(offset'[b], reserved'[b], o.offset, o.byteLength)
    <3>1. o.offset \in Nat /\ o.byteLength \in Nat /\ o.byteLength > 0
      BY <1>6, <1>7
    <3>2. CASE b = a /\ o = r
      BY <3>2, <1>1, <1>2, <1>3 DEF Aside
    <3>3. CASE b = a /\ o # r
      <4>1. Aside(o.offset, o.byteLength, s.offset, s.byteLength)
        BY <3>3, <1>5, <1>9
      <4> QED BY <3>1, <3>3, <4>1, <1>1, <1>2 DEF Aside
    <3>4. CASE b # a /\ o = r
      <4>1. b \in live /\ Aside(offset[b], reserved[b], s.offset, s.byteLength) /\ offset[b] \in Nat /\ reserved[b] \in Nat
        BY <2>2, <3>4, <1>2, <1>8, <1>9
      <4> QED BY <3>4, <4>1, <1>1, <1>2, <1>3 DEF Aside
    <3>5. CASE b # a /\ o # r
      BY <2>2, <3>5, <1>2, <1>5 DEF Cut, NoOverlap
    <3> QED BY <3>2, <3>3, <3>4, <3>5
  <2>3. ASSUME NEW p \in Free', NEW o \in Free', p # o
        PROVE  Aside(p.offset, p.byteLength, o.offset, o.byteLength)
    <3>1. /\ o.offset \in Nat /\ o.byteLength \in Nat /\ o.byteLength > 0
          /\ p.offset \in Nat /\ p.byteLength \in Nat /\ p.byteLength > 0
      BY <1>6, <1>7
    <3>2. CASE p = r
      <4>1. Aside(o.offset, o.byteLength, s.offset, s.byteLength)
        BY <2>3, <3>2, <1>5, <1>9
      <4> QED BY <3>1, <3>2, <4>1, <1>1, <1>3 DEF Aside
    <3>3. CASE o = r
      <4>1. Aside(p.offset, p.byteLength, s.offset, s.byteLength)
        BY <2>3, <3>3, <1>5, <1>9
      <4> QED BY <3>1, <3>3, <4>1, <1>1, <1>3 DEF Aside
    <3>4. CASE p # r /\ o # r
      BY <2>3, <3>4, <1>5 DEF Cut, NoOverlap
    <3> QED BY <3>2, <3>3, <3>4
  <2> QED BY <2>1, <2>2, <2>3 DEF NoOverlap, Aside
<1>12. NoGap'
  <2> SUFFICES ASSUME NEW x \in Nat, Base <= x, x < cursor
               PROVE  \/ \E b \in live' : Within(x, offset'[b], reserved'[b])
                      \/ \E o \in Free' : Within(x, o.offset, o.byteLength)
    <3>1. Base' = Base
      BY DEF Base, Align
    <3> QED BY <3>1 DEF NoGap, Within
  <2>1. CASE \E b \in live : Within(x, offset[b], reserved[b])
    BY <2>1, <1>2
  <2>2. CASE \E o \in Free : Within(x, o.offset, o.byteLength) /\ o # s
    BY <2>2, <1>5
  <2>3. CASE Within(x, s.offset, s.byteLength)
    <3>1. CASE x < s.offset + n
      BY <2>3, <3>1, <1>2 DEF Within
    <3>2. CASE ~(x < s.offset + n)
      <4>1. s.byteLength # n
        BY <2>3, <3>2, <1>1 DEF Within
      <4>2. Within(x, r.offset, r.byteLength)
        BY <2>3, <3>2, <1>1, <1>3 DEF Within
      <4> QED BY <4>1, <4>2, <1>5
    <3> QED BY <3>1, <3>2
  <2>4. \/ \E b \in live : Within(x, offset[b], reserved[b])
        \/ \E o \in Free : Within(x, o.offset, o.byteLength)
    BY DEF Cut, NoGap
  <2> QED BY <2>1, <2>2, <2>3, <2>4
<1>13. Base' = Base
    BY DEF Base, Align
<1> QED BY <1>2, <1>6, <1>10, <1>11, <1>12, <1>13 DEF Cut

\* Taking untouched memory.
LEMMA ExtendKeepsCut ==
    ASSUME Cut, NEW a \in Allocations, a \notin live, NEW n \in Nat,
           Handed(a, cursor, n), cursor' = cursor + n, Free' = Free
    PROVE  Cut'
<1>1. /\ live' \in SUBSET Allocations /\ offset' \in [Allocations -> Nat] /\ reserved' \in [Allocations -> Nat]
      /\ offset'[a] = cursor /\ reserved'[a] = n /\ a \in live'
      /\ \A b \in live' : b # a => b \in live /\ offset'[b] = offset[b] /\ reserved'[b] = reserved[b]
      /\ \A b \in live : b \in live' /\ b # a /\ offset'[b] = offset[b] /\ reserved'[b] = reserved[b]
    BY HandedKeepsOthers DEF Cut
<1>2. cursor \in Nat /\ Base \in Nat /\ Base <= cursor /\ Base' = Base
    BY DEF Cut, Base, Align
<1>3. \A b \in live : /\ offset[b] \in Nat /\ reserved[b] \in Nat
                      /\ reserved[b] > 0 => Base <= offset[b] /\ offset[b] + reserved[b] <= cursor
    BY DEF Cut, InArena
<1>4. \A o \in Free : /\ o.offset \in Nat /\ o.byteLength \in Nat
                      /\ Base <= o.offset /\ o.offset + o.byteLength <= cursor
    BY DEF Cut, InArena, Pieces, Past
<1>5. InArena'
  <2>1. ASSUME NEW b \in live', reserved'[b] > 0 PROVE Base <= offset'[b] /\ offset'[b] + reserved'[b] <= cursor'
    BY <2>1, <1>1, <1>2, <1>3
  <2>2. ASSUME NEW o \in Free' PROVE Base <= o.offset /\ o.offset + o.byteLength <= cursor'
    BY <1>2, <1>4
  <2> QED BY <1>2, <2>1, <2>2 DEF InArena, Past
<1>6. NoOverlap'
  <2>1. ASSUME NEW b \in live', NEW c \in live', b # c, reserved'[b] > 0, reserved'[c] > 0
        PROVE  Aside(offset'[b], reserved'[b], offset'[c], reserved'[c])
    <3>1. CASE b # a /\ c # a
      BY <2>1, <3>1, <1>1 DEF Cut, NoOverlap
    <3>2. CASE b = a \/ c = a
      BY <2>1, <3>2, <1>1, <1>2, <1>3 DEF Aside
    <3> QED BY <3>1, <3>2
  <2>2. ASSUME NEW b \in live', NEW o \in Free', reserved'[b] > 0
        PROVE  Aside(offset'[b], reserved'[b], o.offset, o.byteLength)
    <3>1. CASE b # a
      BY <2>2, <3>1, <1>1 DEF Cut, NoOverlap
    <3>2. CASE b = a
      BY <3>2, <1>1, <1>2, <1>4 DEF Aside
    <3> QED BY <3>1, <3>2
  <2> QED BY <2>1, <2>2 DEF NoOverlap, Aside, Cut
<1>7. NoGap'
  <2> SUFFICES ASSUME NEW x \in Nat, Base <= x, x < cursor + n
               PROVE  \/ \E b \in live' : Within(x, offset'[b], reserved'[b])
                      \/ \E o \in Free' : Within(x, o.offset, o.byteLength)
    BY <1>2 DEF NoGap, Within
  <2>1. CASE x < cursor
    <3>1. \/ \E b \in live : Within(x, offset[b], reserved[b])
          \/ \E o \in Free : Within(x, o.offset, o.byteLength)
      BY <2>1 DEF Cut, NoGap
    <3> QED BY <3>1, <1>1
  <2>2. CASE ~(x < cursor)
    BY <2>2, <1>1, <1>2 DEF Within
  <2> QED BY <2>1, <2>2
<1>8. cursor + n \in Nat /\ Base <= cursor + n
    BY <1>2
<1> QED BY <1>1, <1>2, <1>5, <1>6, <1>7, <1>8 DEF Cut

\* One neighbour of a range, or none, with the bytes it has.
Neighbour(S, n) == (S = {} /\ n = 0) \/ \E s \in Free : S = {s} /\ n = s.byteLength

\* What a released allocation leaves of the others.
Given(a) ==
    /\ live' = live \ {a}
    /\ offset' = [offset EXCEPT ![a] = 0] /\ reserved' = [reserved EXCEPT ![a] = 0]

\* Putting a range back, with its free neighbours.
LEMMA ReleaseKeepsCut ==
    ASSUME Cut, NEW a \in live, reserved[a] > 0, Given(a), cursor' = cursor,
           NEW B \in SUBSET Free, NEW A \in SUBSET Free, NEW back, NEW ahead,
           Neighbour(B, back), \A s \in B : Past(s) = offset[a],
           Neighbour(A, ahead), \A s \in A : s.offset = offset[a] + reserved[a],
           Free' = (Free \ (B \cup A)) \cup {Segment(offset[a] - back, back + reserved[a] + ahead)}
    PROVE  Cut'
<1>1. PICK at, n : at = offset[a] /\ n = reserved[a]
    OBVIOUS
<1>2. at \in Nat /\ n \in Nat /\ n > 0 /\ cursor \in Nat /\ Base \in Nat /\ Base' = Base
    BY <1>1 DEF Cut, Base, Align
<1>3. \A o \in Free : /\ o.offset \in Nat /\ o.byteLength \in Nat /\ o.byteLength > 0
                      /\ Base <= o.offset /\ o.offset + o.byteLength <= cursor
                      /\ Aside(at, n, o.offset, o.byteLength)
    BY <1>1 DEF Cut, InArena, NoOverlap, Pieces, Past
<1>4. \A b \in live : /\ offset[b] \in Nat /\ reserved[b] \in Nat
                      /\ reserved[b] > 0 => Base <= offset[b] /\ offset[b] + reserved[b] <= cursor
                      /\ reserved[b] > 0 /\ b # a => Aside(at, n, offset[b], reserved[b])
    BY <1>1 DEF Cut, InArena, NoOverlap
<1>5. /\ live' \in SUBSET Allocations /\ offset' \in [Allocations -> Nat] /\ reserved' \in [Allocations -> Nat]
      /\ \A b \in live' : b \in live /\ b # a /\ offset'[b] = offset[b] /\ reserved'[b] = reserved[b]
      /\ \A b \in live : b # a => b \in live' /\ offset'[b] = offset[b] /\ reserved'[b] = reserved[b]
    BY DEF Given, Cut
<1>6. /\ back \in Nat /\ back <= at /\ Base <= at - back
      /\ \A s \in B : s.byteLength = back /\ s.offset = at - back
      /\ back > 0 => \E s \in B : TRUE
  <2>1. CASE B = {} /\ back = 0
    BY <2>1, <1>1, <1>2, <1>4 DEF Cut
  <2>2. ASSUME NEW s \in Free, B = {s}, back = s.byteLength
        PROVE  /\ back \in Nat /\ back <= at /\ Base <= at - back
               /\ \A t \in B : t.byteLength = back /\ t.offset = at - back
               /\ back > 0 => \E t \in B : TRUE
    <3>1. s.offset + s.byteLength = at
      BY <2>2, <1>1 DEF Past
    <3> QED BY <2>2, <3>1, <1>2, <1>3
  <2> QED BY <2>1, <2>2 DEF Neighbour
<1>7. /\ ahead \in Nat /\ at + n + ahead <= cursor
      /\ \A s \in A : s.byteLength = ahead /\ s.offset = at + n
      /\ ahead > 0 => \E s \in A : TRUE
  <2>1. CASE A = {} /\ ahead = 0
    BY <2>1, <1>1, <1>2, <1>4
  <2>2. ASSUME NEW s \in Free, A = {s}, ahead = s.byteLength
        PROVE  /\ ahead \in Nat /\ at + n + ahead <= cursor
               /\ \A t \in A : t.byteLength = ahead /\ t.offset = at + n
               /\ ahead > 0 => \E t \in A : TRUE
    <3>1. s.offset = at + n
      BY <2>2, <1>1
    <3> QED BY <2>2, <3>1, <1>2, <1>3
  <2> QED BY <2>1, <2>2 DEF Neighbour
<1>8. PICK m : m = Segment(at - back, back + n + ahead)
    OBVIOUS
<1>9. /\ m.offset = at - back /\ m.byteLength = back + n + ahead /\ m \in Pieces
      /\ Free' = (Free \ (B \cup A)) \cup {m}
    BY <1>1, <1>2, <1>6, <1>7, <1>8 DEF Segment, Pieces
<1>10. \A o \in Free' : o = m \/ (o \in Free /\ o \notin B /\ o \notin A)
    BY <1>9
\* Nothing else reaches into the merged range.
<1>11. ASSUME NEW lo \in Nat, NEW k \in Nat, k > 0, Aside(at, n, lo, k),
              \A s \in B : Aside(s.offset, s.byteLength, lo, k), \A s \in A : Aside(s.offset, s.byteLength, lo, k)
       PROVE  Aside(m.offset, m.byteLength, lo, k) /\ Aside(lo, k, m.offset, m.byteLength)
  <2>1. back > 0 => Aside(at - back, back, lo, k)
    <3> SUFFICES ASSUME back > 0 PROVE Aside(at - back, back, lo, k)
      OBVIOUS
    <3>1. PICK s \in B : TRUE
      BY <1>6
    <3>2. s.byteLength = back /\ s.offset = at - back /\ Aside(s.offset, s.byteLength, lo, k)
      BY <1>6, <1>11
    <3> QED BY <3>2
  <2>2. ahead > 0 => Aside(at + n, ahead, lo, k)
    <3> SUFFICES ASSUME ahead > 0 PROVE Aside(at + n, ahead, lo, k)
      OBVIOUS
    <3>1. PICK s \in A : TRUE
      BY <1>7
    <3>2. s.byteLength = ahead /\ s.offset = at + n /\ Aside(s.offset, s.byteLength, lo, k)
      BY <1>7, <1>11
    <3> QED BY <3>2
  <2>3. Aside(at, n, lo, k) /\ lo \in Nat /\ k \in Nat /\ k > 0
    BY <1>11
  <2>4. back \in Nat /\ ahead \in Nat /\ back <= at
    BY <1>6, <1>7
  <2> QED BY ONLY <2>1, <2>2, <2>3, <2>4, <1>2, <1>9 DEF Aside
<1>12. InArena'
  <2>1. ASSUME NEW b \in live', reserved'[b] > 0 PROVE Base <= offset'[b] /\ offset'[b] + reserved'[b] <= cursor'
    BY <2>1, <1>4, <1>5
  <2>2. ASSUME NEW o \in Free' PROVE Base <= o.offset /\ o.offset + o.byteLength <= cursor'
    <3>1. CASE o = m
      BY <3>1, <1>2, <1>6, <1>7, <1>9
    <3>2. CASE o # m
      BY <3>2, <1>3, <1>10
    <3> QED BY <3>1, <3>2
  <2> QED BY <1>2, <2>1, <2>2 DEF InArena, Past
<1>13. NoOverlap'
  <2>1. ASSUME NEW b \in live', NEW c \in live', b # c, reserved'[b] > 0, reserved'[c] > 0
        PROVE  Aside(offset'[b], reserved'[b], offset'[c], reserved'[c])
    BY <2>1, <1>5 DEF Cut, NoOverlap
  <2>2. ASSUME NEW b \in live', NEW o \in Free', reserved'[b] > 0
        PROVE  Aside(offset'[b], reserved'[b], o.offset, o.byteLength)
    <3>1. CASE o # m
      BY <2>2, <3>1, <1>5, <1>10 DEF Cut, NoOverlap
    <3>2. CASE o = m
      <4>1. /\ b \in live /\ b # a /\ reserved[b] > 0 /\ offset'[b] = offset[b] /\ reserved'[b] = reserved[b]
            /\ offset[b] \in Nat /\ reserved[b] \in Nat /\ Aside(at, n, offset[b], reserved[b])
        BY <2>2, <1>4, <1>5
      <4>2. \A s \in Free : Aside(s.offset, s.byteLength, offset[b], reserved[b])
        BY <4>1 DEF Cut, NoOverlap, Aside
      <4>3. Aside(offset[b], reserved[b], m.offset, m.byteLength)
        <5>1. PICK lo, k : lo = offset[b] /\ k = reserved[b]
          OBVIOUS
        <5>2. /\ lo \in Nat /\ k \in Nat /\ k > 0 /\ Aside(at, n, lo, k)
              /\ \A s \in B : Aside(s.offset, s.byteLength, lo, k)
              /\ \A s \in A : Aside(s.offset, s.byteLength, lo, k)
          BY <4>1, <4>2, <5>1
        <5>3. Aside(lo, k, m.offset, m.byteLength)
          BY <5>2, <1>11
        <5> QED BY <5>1, <5>3
      <4> QED BY <3>2, <4>1, <4>3
    <3> QED BY <3>1, <3>2
  <2>3. ASSUME NEW o \in Free', o # m
        PROVE  Aside(m.offset, m.byteLength, o.offset, o.byteLength) /\ Aside(o.offset, o.byteLength, m.offset, m.byteLength)
    <3>1. o \in Free /\ o \notin B /\ o \notin A
      BY <2>3, <1>10
    <3>2. PICK lo, k : lo = o.offset /\ k = o.byteLength
      OBVIOUS
    <3>3. lo \in Nat /\ k \in Nat /\ k > 0 /\ Aside(at, n, lo, k)
      BY <3>1, <3>2, <1>3
    <3>4. /\ \A s \in B : Aside(s.offset, s.byteLength, lo, k)
          /\ \A s \in A : Aside(s.offset, s.byteLength, lo, k)
      BY <3>1, <3>2 DEF Cut, NoOverlap
    <3>5. Aside(m.offset, m.byteLength, lo, k) /\ Aside(lo, k, m.offset, m.byteLength)
      BY <3>3, <3>4, <1>11
    <3> QED BY <3>2, <3>5
  <2>4. ASSUME NEW p \in Free', NEW o \in Free', p # o
        PROVE  Aside(p.offset, p.byteLength, o.offset, o.byteLength)
    <3>1. CASE p = m \/ o = m
      BY <2>3, <2>4, <3>1
    <3>2. CASE p # m /\ o # m
      BY <2>4, <3>2, <1>10 DEF Cut, NoOverlap
    <3> QED BY <3>1, <3>2
  <2> QED BY <2>1, <2>2, <2>4 DEF NoOverlap, Aside
<1>14. NoGap'
  <2> SUFFICES ASSUME NEW x \in Nat, Base <= x, x < cursor
               PROVE  \/ \E b \in live' : Within(x, offset'[b], reserved'[b])
                      \/ \E o \in Free' : Within(x, o.offset, o.byteLength)
    BY <1>2 DEF NoGap, Within
  <2>1. m \in Free'
    BY <1>9
  <2>2. CASE Within(x, m.offset, m.byteLength)
    BY <2>1, <2>2
  <2>3. CASE ~Within(x, m.offset, m.byteLength)
    <3>1. x < at - back \/ x >= at + n + ahead
      BY <2>3, <1>2, <1>6, <1>7, <1>9 DEF Within
    <3>2. CASE \E b \in live : Within(x, offset[b], reserved[b])
      <4>1. PICK b \in live : Within(x, offset[b], reserved[b])
        BY <3>2
      <4>2. b # a
        BY <4>1, <3>1, <1>1, <1>2, <1>6, <1>7 DEF Within
      <4> QED BY <4>1, <4>2, <1>5
    <3>3. CASE \E o \in Free : Within(x, o.offset, o.byteLength)
      <4>1. PICK o \in Free : Within(x, o.offset, o.byteLength)
        BY <3>3
      <4>2. o \notin B
        BY <4>1, <3>1, <1>2, <1>6, <1>7 DEF Within
      <4>3. o \notin A
        BY <4>1, <3>1, <1>2, <1>6, <1>7 DEF Within
      <4>4. o \in Free'
        BY <4>2, <4>3, <1>9
      <4> QED BY <4>1, <4>4
    <3>4. \/ \E b \in live : Within(x, offset[b], reserved[b])
          \/ \E o \in Free : Within(x, o.offset, o.byteLength)
      BY DEF Cut, NoGap
    <3> QED BY <3>2, <3>3, <3>4
  <2> QED BY <2>2, <2>3
<1>15. Free' \subseteq Pieces
    BY <1>9 DEF Cut
<1> QED BY <1>2, <1>5, <1>12, <1>13, <1>14, <1>15 DEF Cut

\* A reservation of no bytes is given up without a trace.
LEMMA EmptyReleaseKeepsCut ==
    ASSUME Cut, NEW a \in live, reserved[a] = 0, Given(a), cursor' = cursor, Free' = Free
    PROVE  Cut'
<1>1. /\ live' \in SUBSET Allocations /\ offset' \in [Allocations -> Nat] /\ reserved' \in [Allocations -> Nat]
      /\ \A b \in live' : b \in live /\ b # a /\ offset'[b] = offset[b] /\ reserved'[b] = reserved[b]
      /\ \A b \in live : b # a => b \in live' /\ offset'[b] = offset[b] /\ reserved'[b] = reserved[b]
    BY DEF Given, Cut
<1>2. Base' = Base
    BY DEF Base, Align
<1>3. InArena' /\ NoOverlap'
    BY <1>1, <1>2 DEF Cut, InArena, NoOverlap, Past, Aside
<1>4. ASSUME NEW x \in Nat PROVE ~Within(x, offset[a], reserved[a])
    BY DEF Within, Cut
<1>5. NoGap'
  <2> SUFFICES ASSUME NEW x \in Nat, Base <= x, x < cursor
               PROVE  \/ \E b \in live' : Within(x, offset'[b], reserved'[b])
                      \/ \E o \in Free' : Within(x, o.offset, o.byteLength)
    BY <1>2 DEF NoGap, Within
  <2>1. \/ \E b \in live : Within(x, offset[b], reserved[b])
        \/ \E o \in Free : Within(x, o.offset, o.byteLength)
    BY DEF Cut, NoGap
  <2> QED BY <2>1, <1>1, <1>4
<1> QED BY <1>1, <1>2, <1>3, <1>5 DEF Cut

----------------------------------------------------------------------------
(* The list of free segments.                                               *)

\* Segments in the order of their addresses.
Listed(s) ==
    /\ s \in Seq(Pieces)
    /\ \A i, j \in DOMAIN s : i < j => Past(s[i]) <= s[j].offset

\* Offsets ascend.
LEMMA ListAscends ==
    ASSUME NEW s, Listed(s)
    PROVE  /\ DOMAIN s = 1..Len(s) /\ Len(s) \in Nat
           /\ \A i \in DOMAIN s : s[i] \in Pieces /\ s[i].offset \in Nat /\ s[i].byteLength \in Nat /\ s[i].byteLength > 0
           /\ \A i, j \in DOMAIN s : i < j => s[i].offset < s[j].offset /\ s[i] # s[j]
<1>1. DOMAIN s = 1..Len(s) /\ Len(s) \in Nat /\ \A i \in DOMAIN s : s[i] \in Pieces
    BY DEF Listed
<1>2. \A i \in DOMAIN s : s[i].offset \in Nat /\ s[i].byteLength \in Nat /\ s[i].byteLength > 0
    BY <1>1 DEF Pieces
<1>3. ASSUME NEW i \in DOMAIN s, NEW j \in DOMAIN s, i < j PROVE s[i].offset < s[j].offset
    BY <1>2, <1>3 DEF Listed, Past
<1>4. ASSUME NEW i \in DOMAIN s, NEW j \in DOMAIN s, i < j PROVE s[i] # s[j]
    BY <1>2, <1>3, <1>4
<1> QED BY <1>1, <1>2, <1>3, <1>4

\* The members before k.
LEMMA PrefixIs ==
    ASSUME NEW S, NEW s \in Seq(S), NEW k \in 1..(Len(s) + 1)
    PROVE  /\ SubSeq(s, 1, k - 1) \in Seq(S) /\ Len(SubSeq(s, 1, k - 1)) = k - 1
           /\ \A i \in 1..(k - 1) : SubSeq(s, 1, k - 1)[i] = s[i]
<1>1. Len(s) \in Nat /\ DOMAIN s = 1..Len(s)
    OBVIOUS
<1>2. PICK n \in Nat : n = Len(s)
    BY <1>1
<1>3. k \in Nat /\ 1 <= k /\ k <= n + 1 /\ 1 \in Int /\ k - 1 \in Int
    BY <1>2
<1>4. \A i \in 1..(k - 1) : s[i] \in S
  <2> SUFFICES ASSUME NEW i \in 1..(k - 1) PROVE s[i] \in S
    OBVIOUS
  <2>1. i \in 1..n
    BY <1>3
  <2> QED BY <1>1, <1>2, <2>1
<1>5. /\ SubSeq(s, 1, k - 1) \in Seq(S)
      /\ Len(SubSeq(s, 1, k - 1)) = IF 1 <= k - 1 THEN (k - 1) - 1 + 1 ELSE 0
      /\ \A i \in 1..((k - 1) - 1 + 1) : SubSeq(s, 1, k - 1)[i] = s[1 + i - 1]
    BY <1>3, <1>4, SubSeqProperties
<1>6. (IF 1 <= k - 1 THEN (k - 1) - 1 + 1 ELSE 0) = k - 1 /\ (k - 1) - 1 + 1 = k - 1
    BY <1>3
<1>7. ASSUME NEW i \in 1..(k - 1) PROVE SubSeq(s, 1, k - 1)[i] = s[i]
  <2>1. i \in 1..((k - 1) - 1 + 1) /\ 1 + i - 1 = i
    BY <1>3
  <2> QED BY <1>5, <2>1
<1> QED BY <1>5, <1>6, <1>7

\* A list without its element k.
LEMMA RemoveAtIs ==
    ASSUME NEW S, NEW s \in Seq(S), NEW k \in 1..Len(s)
    PROVE  /\ RemoveAt(s, k) \in Seq(S) /\ Len(RemoveAt(s, k)) = Len(s) - 1
           /\ \A i \in 1..(k - 1) : RemoveAt(s, k)[i] = s[i]
           /\ \A i \in k..(Len(s) - 1) : RemoveAt(s, k)[i] = s[i + 1]
<1>1. Len(s) \in Nat /\ DOMAIN s = 1..Len(s)
    OBVIOUS
<1>2. PICK p, q : p = SubSeq(s, 1, k - 1) /\ q = SubSeq(s, k + 1, Len(s)) /\ RemoveAt(s, k) = p \o q
    BY DEF RemoveAt
<1>3. p \in Seq(S) /\ Len(p) = k - 1 /\ \A i \in 1..(k - 1) : p[i] = s[i]
    BY <1>1, <1>2, PrefixIs
<1>4. q \in Seq(S) /\ Len(q) = Len(s) - k /\ \A i \in 1..(Len(s) - k) : q[i] = s[k + i]
  <2>1. k + 1 \in Int /\ Len(s) \in Int /\ \A i \in (k + 1)..Len(s) : s[i] \in S
    BY <1>1
  <2>2. /\ q \in Seq(S) /\ Len(q) = IF k + 1 <= Len(s) THEN Len(s) - (k + 1) + 1 ELSE 0
        /\ \A i \in 1..(Len(s) - (k + 1) + 1) : q[i] = s[(k + 1) + i - 1]
    BY <1>2, <2>1, SubSeqProperties
  <2>3. Len(q) = Len(s) - k
    <3>1. PICK n \in Nat : n = Len(s)
      BY <1>1
    <3>2. k \in Nat /\ k <= n
      BY <3>1
    <3>3. Len(q) = IF k + 1 <= n THEN n - (k + 1) + 1 ELSE 0
      BY <2>2, <3>1
    <3>4. Len(q) = n - k
      BY ONLY <3>2, <3>3, n \in Nat
    <3> QED BY <3>1, <3>4
  <2>4. ASSUME NEW i \in 1..(Len(s) - k) PROVE q[i] = s[k + i]
    <3>1. i \in 1..(Len(s) - (k + 1) + 1) /\ (k + 1) + i - 1 = k + i
      BY <1>1
    <3> QED BY <2>2, <3>1
  <2> QED BY <2>2, <2>3, <2>4
<1>5. /\ p \o q \in Seq(S) /\ Len(p \o q) = Len(p) + Len(q)
      /\ \A i \in 1..(Len(p) + Len(q)) : (p \o q)[i] = IF i <= Len(p) THEN p[i] ELSE q[i - Len(p)]
    BY <1>3, <1>4, ConcatProperties
<1>6. \A i \in 1..(k - 1) : (p \o q)[i] = s[i]
    BY <1>1, <1>3, <1>4, <1>5
<1>7. ASSUME NEW i \in k..(Len(s) - 1) PROVE (p \o q)[i] = s[i + 1]
  <2>1. (p \o q)[i] = q[i - (k - 1)] /\ i - (k - 1) \in 1..(Len(s) - k) /\ k + (i - (k - 1)) = i + 1
    BY <1>1, <1>3, <1>4, <1>5
  <2> QED BY <1>4, <2>1
<1>8. p \o q \in Seq(S) /\ Len(p \o q) = Len(s) - 1
    BY <1>1, <1>3, <1>4, <1>5
<1> QED BY <1>2, <1>6, <1>7, <1>8

\* The list t is s with e inserted at k.
Inserted(S, s, k, e, t) ==
    /\ t \in Seq(S) /\ Len(t) = Len(s) + 1
    /\ \A i \in 1..(k - 1) : t[i] = s[i]
    /\ t[k] = e
    /\ \A i \in (k + 1)..(Len(s) + 1) : t[i] = s[i - 1]

\* A list with one more element at k.
LEMMA InsertAtIs ==
    ASSUME NEW S, NEW s \in Seq(S), NEW k \in 1..(Len(s) + 1), NEW e \in S
    PROVE  Inserted(S, s, k, e, InsertAt(s, k, e))
<1>1. Len(s) \in Nat /\ DOMAIN s = 1..Len(s)
    OBVIOUS
<1>2. PICK p, q : p = SubSeq(s, 1, k - 1) \o <<e>> /\ q = SubSeq(s, k, Len(s)) /\ InsertAt(s, k, e) = p \o q
    BY DEF InsertAt
<1>3. p \in Seq(S) /\ Len(p) = k /\ p[k] = e /\ \A i \in 1..(k - 1) : p[i] = s[i]
  <2>1. PICK o : o = SubSeq(s, 1, k - 1)
    OBVIOUS
  <2>2. o \in Seq(S) /\ Len(o) = k - 1 /\ \A i \in 1..(k - 1) : o[i] = s[i]
    BY <1>1, <2>1, PrefixIs
  <2>3. <<e>> \in Seq(S) /\ Len(<<e>>) = 1 /\ <<e>>[1] = e
    OBVIOUS
  <2>4. /\ o \o <<e>> \in Seq(S) /\ Len(o \o <<e>>) = Len(o) + 1
        /\ \A i \in 1..(Len(o) + 1) : (o \o <<e>>)[i] = IF i <= Len(o) THEN o[i] ELSE <<e>>[i - Len(o)]
    BY <2>2, <2>3, ConcatProperties
  <2>5. (o \o <<e>>)[k] = e
    BY <1>1, <2>2, <2>3, <2>4
  <2>6. \A i \in 1..(k - 1) : (o \o <<e>>)[i] = s[i]
    BY <1>1, <2>2, <2>4
  <2> QED BY <1>1, <1>2, <2>1, <2>2, <2>4, <2>5, <2>6
<1>4. q \in Seq(S) /\ Len(q) = Len(s) - k + 1 /\ \A i \in 1..(Len(s) - k + 1) : q[i] = s[k + i - 1]
  <2>1. k \in Int /\ Len(s) \in Int /\ \A i \in k..Len(s) : s[i] \in S
    BY <1>1
  <2>2. /\ q \in Seq(S) /\ Len(q) = IF k <= Len(s) THEN Len(s) - k + 1 ELSE 0
        /\ \A i \in 1..(Len(s) - k + 1) : q[i] = s[k + i - 1]
    BY <1>2, <2>1, SubSeqProperties
  <2> SUFFICES Len(q) = Len(s) - k + 1
    BY <2>2
  <2>3. PICK n \in Nat, h \in Nat : n = Len(s) /\ h = Len(q)
    <3>1. Len(q) \in Nat
      BY <2>2
    <3> QED BY <1>1, <3>1
  <2>4. k \in Nat /\ k <= n + 1
    BY <2>3
  <2>5. h = IF k <= n THEN n - k + 1 ELSE 0
    BY <2>2, <2>3
  <2>6. h = n - k + 1
    BY ONLY <2>4, <2>5, n \in Nat, h \in Nat
  <2> QED BY <2>3, <2>6
<1>5. /\ p \o q \in Seq(S) /\ Len(p \o q) = Len(p) + Len(q)
      /\ \A i \in 1..(Len(p) + Len(q)) : (p \o q)[i] = IF i <= Len(p) THEN p[i] ELSE q[i - Len(p)]
    BY <1>3, <1>4, ConcatProperties
<1>6. \A i \in 1..(k - 1) : (p \o q)[i] = s[i]
    BY <1>1, <1>3, <1>4, <1>5
<1>7. (p \o q)[k] = e
    BY <1>1, <1>3, <1>4, <1>5
<1>8. ASSUME NEW i \in (k + 1)..(Len(s) + 1) PROVE (p \o q)[i] = s[i - 1]
  <2>1. (p \o q)[i] = q[i - k] /\ i - k \in 1..(Len(s) - k + 1) /\ k + (i - k) - 1 = i - 1
    BY <1>1, <1>3, <1>4, <1>5
  <2> QED BY <1>4, <2>1
<1>9. p \o q \in Seq(S) /\ Len(p \o q) = Len(s) + 1
    BY <1>1, <1>3, <1>4, <1>5
<1> QED BY <1>2, <1>6, <1>7, <1>8, <1>9 DEF Inserted

\* t is s with m in place of whatever lies behind l and before r.
Spliced(s, t, l, m, r) ==
    /\ t \in Seq(Pieces) /\ Len(t) = l + 1 + (Len(s) - r + 1)
    /\ \A k \in 1..l : t[k] = s[k]
    /\ t[l + 1] = m
    /\ \A k \in (l + 2)..Len(t) : t[k] = s[k - (l + 2) + r]

\* Members of s that stay.
Stay(s, l, r) == {s[k] : k \in {j \in DOMAIN s : j <= l \/ j >= r}}

\* m lies behind all that comes before it and before all that comes behind it.
Between(s, l, m, r) ==
    \A k \in DOMAIN s : /\ k <= l => Past(s[k]) <= m.offset
                        /\ k >= r => Past(m) <= s[k].offset

\* A piece between its neighbours keeps the order.
LEMMA SpliceKeepsOrder ==
    ASSUME NEW s, Listed(s), NEW t, NEW l \in Nat, NEW r \in Nat, l < r, r <= Len(s) + 1, NEW m \in Pieces,
           Spliced(s, t, l, m, r), Between(s, l, m, r)
    PROVE  Listed(t) /\ ToSet(t) = Stay(s, l, r) \cup {m}
<1>1. /\ DOMAIN s = 1..Len(s) /\ Len(s) \in Nat /\ DOMAIN t = 1..Len(t)
      /\ Len(t) = l + 1 + (Len(s) - r + 1) /\ Len(t) \in Nat
    BY ListAscends DEF Spliced
<1> DEFINE From(k) == IF k <= l THEN k ELSE k - (l + 2) + r
<1>2. ASSUME NEW k \in DOMAIN t, k # l + 1
      PROVE  /\ From(k) \in DOMAIN s /\ t[k] = s[From(k)]
             /\ k <= l => From(k) <= l
             /\ k > l => From(k) >= r
  <2>1. CASE k <= l
    BY <1>1, <1>2, <2>1 DEF Spliced
  <2>2. CASE ~(k <= l)
    <3>1. k \in (l + 2)..Len(t)
      BY <1>1, <1>2, <2>2
    <3>2. From(k) = k - (l + 2) + r /\ From(k) \in 1..Len(s) /\ From(k) >= r
      BY <1>1, <2>2, <3>1
    <3> QED BY <1>1, <2>2, <3>1, <3>2 DEF Spliced
  <2> QED BY <2>1, <2>2
<1>3. t[l + 1] = m /\ l + 1 \in DOMAIN t
    BY <1>1 DEF Spliced
<1>4. ASSUME NEW i \in DOMAIN t, NEW j \in DOMAIN t, i < j
      PROVE  Past(t[i]) <= t[j].offset
  <2>1. CASE i = l + 1
    <3>1. From(j) \in DOMAIN s /\ t[j] = s[From(j)] /\ From(j) >= r
      BY <1>1, <1>2, <1>4, <2>1
    <3> QED BY <2>1, <3>1, <1>3 DEF Between
  <2>2. CASE j = l + 1
    <3>1. From(i) \in DOMAIN s /\ t[i] = s[From(i)] /\ From(i) <= l
      BY <1>1, <1>2, <1>4, <2>2
    <3> QED BY <2>2, <3>1, <1>3 DEF Between
  <2>3. CASE i # l + 1 /\ j # l + 1
    <3>1. From(i) \in DOMAIN s /\ t[i] = s[From(i)] /\ From(j) \in DOMAIN s /\ t[j] = s[From(j)]
      BY <2>3, <1>2
    <3>2. From(i) < From(j)
      BY <1>1, <1>4, <2>3
    <3> HIDE DEF From
    <3> QED BY <3>1, <3>2 DEF Listed
  <2> QED BY <2>1, <2>2, <2>3
<1>5. Listed(t)
    BY <1>4 DEF Listed, Spliced
<1>6. ASSUME NEW o \in ToSet(t) PROVE o \in Stay(s, l, r) \cup {m}
  <2>1. PICK k \in DOMAIN t : o = t[k]
    BY DEF ToSet
  <2>2. CASE k = l + 1
    BY <2>1, <2>2, <1>3
  <2>3. CASE k # l + 1
    <3>1. From(k) \in DOMAIN s /\ t[k] = s[From(k)] /\ (From(k) <= l \/ From(k) >= r)
      BY <1>1, <1>2, <2>3
    <3> HIDE DEF From
    <3> QED BY <2>1, <3>1 DEF Stay
  <2> QED BY <2>2, <2>3
<1>7. ASSUME NEW o \in Stay(s, l, r) PROVE o \in ToSet(t)
  <2>1. PICK j \in DOMAIN s : o = s[j] /\ (j <= l \/ j >= r)
    BY DEF Stay
  <2>2. CASE j <= l
    <3>1. j \in 1..l /\ j \in DOMAIN t /\ t[j] = s[j]
      BY <2>2, <1>1 DEF Spliced
    <3> QED BY <2>1, <3>1 DEF ToSet
  <2>3. CASE j >= r
    <3>1. PICK k \in Int : k = j + (l + 2) - r
      BY <1>1
    <3>2. j \in Nat /\ j <= Len(s)
      BY <1>1
    <3>3. l + 2 <= k /\ k <= Len(t) /\ k - (l + 2) + r = j
      <4>1. PICK n \in Nat, h \in Nat : n = Len(s) /\ h = Len(t)
        BY <1>1
      <4>2. h = l + 1 + (n - r + 1) /\ j <= n
        BY <1>1, <3>2, <4>1
      <4>3. l + 2 <= k /\ k <= h /\ k - (l + 2) + r = j
        BY ONLY <4>2, <2>3, <3>1, <3>2, n \in Nat, h \in Nat, k \in Int, l \in Nat, r \in Nat
      <4> QED BY <4>1, <4>3
    <3>4. k \in (l + 2)..Len(t) /\ k \in DOMAIN t
      BY <3>3, <1>1
    <3>5. t[k] = s[j]
      BY <3>3, <3>4 DEF Spliced
    <3> QED BY <2>1, <3>4, <3>5 DEF ToSet
  <2> QED BY <2>1, <2>2, <2>3, <1>1
<1>8. m \in ToSet(t)
    BY <1>3 DEF ToSet
<1> QED BY <1>5, <1>6, <1>7, <1>8

\* Leaving one out keeps the order too.
LEMMA RemoveKeepsOrder ==
    ASSUME NEW s, Listed(s), NEW k \in DOMAIN s
    PROVE  Listed(RemoveAt(s, k)) /\ ToSet(RemoveAt(s, k)) = ToSet(s) \ {s[k]}
<1>1. PICK t : t = RemoveAt(s, k)
    OBVIOUS
<1>2. DOMAIN s = 1..Len(s) /\ Len(s) \in Nat /\ \A i, j \in DOMAIN s : i < j => s[i] # s[j]
    BY ListAscends
<1>3. /\ t \in Seq(Pieces) /\ Len(t) = Len(s) - 1
      /\ \A i \in 1..(k - 1) : t[i] = s[i]
      /\ \A i \in k..(Len(s) - 1) : t[i] = s[i + 1]
  <2>1. s \in Seq(Pieces) /\ k \in 1..Len(s)
    BY <1>2 DEF Listed
  <2> QED BY <1>1, <2>1, RemoveAtIs
<1>4. DOMAIN t = 1..(Len(s) - 1)
    BY <1>3
<1> DEFINE From(i) == IF i < k THEN i ELSE i + 1
<1>5. ASSUME NEW i \in DOMAIN t PROVE From(i) \in DOMAIN s /\ t[i] = s[From(i)] /\ From(i) # k
    BY <1>2, <1>3, <1>4
<1>6. ASSUME NEW i \in DOMAIN t, NEW j \in DOMAIN t, i < j PROVE Past(t[i]) <= t[j].offset
  <2>1. From(i) < From(j)
    BY <1>2, <1>4, <1>6
  <2>2. From(i) \in DOMAIN s /\ t[i] = s[From(i)] /\ From(j) \in DOMAIN s /\ t[j] = s[From(j)]
    BY <1>5
  <2> HIDE DEF From
  <2> QED BY <2>1, <2>2 DEF Listed
<1>7. Listed(t)
    BY <1>3, <1>6 DEF Listed
<1>8. ASSUME NEW o \in ToSet(t) PROVE o \in ToSet(s) \ {s[k]}
  <2>1. PICK i \in DOMAIN t : o = t[i]
    BY DEF ToSet
  <2>2. From(i) \in DOMAIN s /\ t[i] = s[From(i)] /\ From(i) # k
    BY <1>5
  <2> HIDE DEF From
  <2>3. From(i) < k \/ k < From(i)
    BY <1>2, <2>2
  <2> QED BY <1>2, <2>1, <2>2, <2>3 DEF ToSet
<1>9. ASSUME NEW o \in ToSet(s), o # s[k] PROVE o \in ToSet(t)
  <2>1. PICK j \in DOMAIN s : o = s[j] /\ j # k
    BY <1>9 DEF ToSet
  <2>2. CASE j < k
    <3>1. j \in DOMAIN t /\ t[j] = s[j]
      BY <1>2, <1>3, <1>4, <2>2
    <3> QED BY <2>1, <3>1 DEF ToSet
  <2>3. CASE j > k
    <3>1. j - 1 \in k..(Len(s) - 1) /\ (j - 1) + 1 = j /\ j - 1 \in DOMAIN t
      BY <1>2, <1>4, <2>3
    <3>2. t[j - 1] = s[j]
      BY <1>3, <3>1
    <3> QED BY <2>1, <3>1, <3>2 DEF ToSet
  <2> QED BY <1>2, <2>1, <2>2, <2>3
<1> QED BY <1>1, <1>7, <1>8, <1>9

----------------------------------------------------------------------------
(* The binary search.                                                       *)

Bounds == 1..(Len(segments) + 1)

\* j splits the segments from low to before high: those before j lie at or below at.
Splits(at, low, high, j) ==
    /\ low <= j /\ j <= high
    /\ \A k \in DOMAIN segments : low <= k /\ k < high => (k < j <=> segments[k].offset <= at)

\* Bounds and indices are numbers.
LEMMA BoundsAreNumbers ==
    ASSUME Listed(segments)
    PROVE  /\ Bounds \subseteq Nat
           /\ \A low, high \in Bounds : low < high =>
                /\ (low + high) \div 2 \in DOMAIN segments /\ (low + high) \div 2 \in Bounds
                /\ (low + high) \div 2 + 1 \in Bounds
                /\ low <= (low + high) \div 2 /\ (low + high) \div 2 < high
<1>1. PICK n \in Nat : n = Len(segments) /\ DOMAIN segments = 1..n
    BY ListAscends
<1>2. Bounds = 1..(n + 1)
    BY <1>1 DEF Bounds
<1>3. ASSUME NEW low \in Nat, NEW high \in Nat, low < high
      PROVE  low <= (low + high) \div 2 /\ (low + high) \div 2 < high /\ (low + high) \div 2 \in Nat
    BY <1>3
<1>4. ASSUME NEW low \in Bounds, NEW high \in Bounds, low < high
      PROVE  /\ (low + high) \div 2 \in DOMAIN segments /\ (low + high) \div 2 \in Bounds
             /\ (low + high) \div 2 + 1 \in Bounds
             /\ low <= (low + high) \div 2 /\ (low + high) \div 2 < high
  <2>1. low \in Nat /\ high \in Nat /\ 1 <= low /\ high <= n + 1
    BY <1>2
  <2>2. PICK m \in Nat : m = (low + high) \div 2
    BY <1>3, <1>4, <2>1
  <2>3. low <= m /\ m < high
    BY <1>3, <1>4, <2>1, <2>2
  <2>4. m \in 1..n /\ m \in 1..(n + 1) /\ m + 1 \in 1..(n + 1)
    BY <2>1, <2>3
  <2> QED BY <1>1, <1>2, <2>2, <2>3, <2>4
<1> QED BY <1>2, <1>4

\* What splits the upper half, when the middle belongs below, splits the whole.
LEMMA SplitAbove ==
    ASSUME Listed(segments), NEW at \in Nat, NEW low \in Nat, NEW high \in Nat,
           NEW m \in DOMAIN segments, low <= m, m < high, segments[m].offset <= at,
           NEW j \in Nat, Splits(at, m + 1, high, j)
    PROVE  Splits(at, low, high, j)
<1>1. m \in Nat /\ DOMAIN segments \subseteq Nat /\ \A k \in DOMAIN segments : segments[k].offset \in Nat
    BY ListAscends
<1>2. ASSUME NEW k \in DOMAIN segments, low <= k, k < high PROVE k < j <=> segments[k].offset <= at
  <2>1. CASE m + 1 <= k
    BY <1>2, <2>1 DEF Splits
  <2>2. CASE ~(m + 1 <= k)
    <3>1. k <= m /\ k < j
      BY <1>1, <2>2 DEF Splits
    <3>2. segments[k].offset <= segments[m].offset
      BY <1>1, <3>1, ListAscends
    <3> QED BY <1>1, <3>1, <3>2
  <2> QED BY <2>1, <2>2
<1>3. low <= j /\ j <= high
    BY <1>1 DEF Splits
<1> QED BY <1>2, <1>3 DEF Splits

\* What splits the lower half, when the middle belongs above, splits the whole.
LEMMA SplitBelow ==
    ASSUME Listed(segments), NEW at \in Nat, NEW low \in Nat, NEW high \in Nat,
           NEW m \in DOMAIN segments, low <= m, m < high, ~(segments[m].offset <= at),
           NEW j \in Nat, Splits(at, low, m, j)
    PROVE  Splits(at, low, high, j)
<1>1. m \in Nat /\ DOMAIN segments \subseteq Nat /\ \A k \in DOMAIN segments : segments[k].offset \in Nat
    BY ListAscends
<1>2. ASSUME NEW k \in DOMAIN segments, low <= k, k < high PROVE k < j <=> segments[k].offset <= at
  <2>1. CASE k < m
    BY <1>2, <2>1 DEF Splits
  <2>2. CASE ~(k < m)
    <3>1. m <= k /\ ~(k < j)
      BY <1>1, <2>2 DEF Splits
    <3>2. segments[m].offset <= segments[k].offset
      BY <1>1, <3>1, ListAscends
    <3> QED BY <1>1, <3>1, <3>2
  <2> QED BY <2>1, <2>2
<1>3. low <= j /\ j <= high
    BY <1>1 DEF Splits
<1> QED BY <1>2, <1>3 DEF Splits

\* There is one place that splits, and only one.
LEMMA SplitIsUnique ==
    ASSUME Listed(segments), NEW at \in Nat, NEW low \in Bounds, NEW high \in Bounds,
           NEW i \in Nat, NEW j \in Nat, Splits(at, low, high, i), Splits(at, low, high, j)
    PROVE  i = j
<1>1. PICK n \in Nat : n = Len(segments) /\ DOMAIN segments = 1..n /\ Bounds = 1..(n + 1)
    BY ListAscends DEF Bounds
<1>2. ASSUME NEW p \in Nat, NEW q \in Nat, Splits(at, low, high, p), Splits(at, low, high, q), p < q
      PROVE  FALSE
  <2>1. low <= p /\ p < high /\ low \in Nat /\ high \in Nat /\ 1 <= low /\ high <= n + 1
    BY <1>1, <1>2 DEF Splits
  <2>2. p \in 1..n
    BY <2>1
  <2>3. p \in DOMAIN segments
    BY <1>1, <2>2
  <2>4. (p < p <=> segments[p].offset <= at) /\ (p < q <=> segments[p].offset <= at)
    BY <1>2, <2>1, <2>3 DEF Splits
  <2> QED BY <1>2, <2>4
<1>3. ~(i < j) /\ ~(j < i)
    BY <1>2
<1> QED BY <1>3

\* No segment lies between equal bounds.
LEMMA NothingToSplit ==
    ASSUME Listed(segments), NEW at \in Nat, NEW low \in Nat
    PROVE  Splits(at, low, low, low)
<1>1. DOMAIN segments \subseteq Nat
    BY ListAscends
<1> QED BY <1>1 DEF Splits

Split(at, low, high) == CHOOSE j \in Nat : Splits(at, low, high, j)

\* Some place splits the list between two bounds.
LEMMA SplitExists ==
    ASSUME Listed(segments), NEW at \in Nat, NEW low \in Bounds, NEW high \in Bounds, low <= high
    PROVE  Split(at, low, high) \in Nat /\ Splits(at, low, high, Split(at, low, high))
<1> DEFINE T == {j \in Nat : low <= j /\ (j = high \/ (j < high /\ segments[j].offset > at))}
<1>1. PICK n \in Nat : n = Len(segments) /\ DOMAIN segments = 1..n /\ Bounds = 1..(n + 1)
    BY ListAscends DEF Bounds
<1>2. low \in Nat /\ high \in Nat /\ 1 <= low /\ high <= n + 1 /\ DOMAIN segments \subseteq Nat
    BY <1>1
<1>3. high \in T /\ T \in SUBSET Nat
    BY <1>2
<1>4. Min(T) \in T /\ \A k \in T : Min(T) <= k
  <2> HIDE DEF T
  <2> QED BY <1>3, MinIsLeast
<1>5. PICK j : j = Min(T)
    OBVIOUS
<1>6. j \in Nat /\ low <= j /\ j <= high /\ (j < high => segments[j].offset > at)
    BY <1>2, <1>4, <1>5
<1>7. ASSUME NEW k \in DOMAIN segments, low <= k, k < high PROVE k < j <=> segments[k].offset <= at
  <2>1. k \in Nat /\ segments[k].offset \in Nat
    BY ListAscends
  <2>2. CASE k < j
    <3>1. k \notin T
      BY <1>4, <1>5, <1>6, <2>1, <2>2
    <3> QED BY <1>7, <2>1, <2>2, <3>1
  <2>3. CASE ~(k < j)
    <3>1. j < high /\ j \in DOMAIN segments
      BY <1>1, <1>2, <1>6, <1>7, <2>1, <2>3
    <3>2. segments[j].offset > at /\ segments[j].offset \in Nat
      BY <1>6, <3>1, ListAscends
    <3>3. segments[j].offset <= segments[k].offset
      BY <1>6, <2>1, <2>3, <3>1, ListAscends
    <3> QED BY <2>1, <2>3, <3>2, <3>3
  <2> QED BY <2>2, <2>3
<1>8. Splits(at, low, high, j)
    BY <1>6, <1>7 DEF Splits
<1> QED BY <1>6, <1>8 DEF Split

\* What the binary search computes, for every pair of bounds.
Halves(at, f) ==
    f = [range \in Bounds \X Bounds |->
            LET low == range[1]  high == range[2]  middle == (low + high) \div 2 IN
            IF low >= high THEN low
            ELSE IF segments[middle].offset <= at THEN f[<<middle + 1, high>>]
            ELSE f[<<low, middle>>]]

\* There is such a function: it finds the place that splits.
LEMMA HalvesExists ==
    ASSUME Listed(segments), NEW at \in Nat
    PROVE  \E f : Halves(at, f)
<1> DEFINE f == [range \in Bounds \X Bounds |->
                   IF range[1] >= range[2] THEN range[1] ELSE Split(at, range[1], range[2])]
<1>1. ASSUME NEW low \in Bounds, NEW high \in Bounds, low <= high
      PROVE  f[<<low, high>>] \in Nat /\ Splits(at, low, high, f[<<low, high>>])
  <2>1. low \in Nat /\ high \in Nat
    BY BoundsAreNumbers
  <2>2. CASE low = high
    <3>1. f[<<low, high>>] = low
      BY <2>1, <2>2
    <3> QED BY <2>1, <2>2, <3>1, NothingToSplit
  <2>3. CASE low # high
    <3>1. f[<<low, high>>] = Split(at, low, high)
      BY <1>1, <2>1, <2>3
    <3> QED BY <1>1, <3>1, SplitExists
  <2> QED BY <2>2, <2>3
<1>2. ASSUME NEW low \in Bounds, NEW high \in Bounds, low < high
      PROVE  Split(at, low, high) = IF segments[(low + high) \div 2].offset <= at
                                    THEN f[<<(low + high) \div 2 + 1, high>>] ELSE f[<<low, (low + high) \div 2>>]
  <2>1. PICK m : m = (low + high) \div 2
    OBVIOUS
  <2>2. /\ low \in Nat /\ high \in Nat /\ m \in DOMAIN segments /\ m \in Bounds /\ m + 1 \in Bounds
        /\ m \in Nat /\ low <= m /\ m < high /\ m + 1 <= high
    BY <1>2, <2>1, BoundsAreNumbers
  <2>3. Split(at, low, high) \in Nat /\ Splits(at, low, high, Split(at, low, high))
    <3>1. low <= high
      BY ONLY <1>2, <2>2
    <3> QED BY ONLY Listed(segments), at \in Nat, low \in Bounds, high \in Bounds, <3>1, SplitExists
  <2>4. CASE segments[m].offset <= at
    <3>1. PICK j : j = f[<<m + 1, high>>]
      OBVIOUS
    <3>2. j \in Nat /\ Splits(at, m + 1, high, j)
      BY <1>1, <2>2, <3>1
    <3>3. Splits(at, low, high, j)
      BY <2>2, <2>4, <3>2, SplitAbove
    <3>4. Split(at, low, high) = j
      BY <2>3, <3>2, <3>3, SplitIsUnique
    <3> QED BY <2>1, <2>4, <3>1, <3>4
  <2>5. CASE ~(segments[m].offset <= at)
    <3>1. PICK j : j = f[<<low, m>>]
      OBVIOUS
    <3>2. j \in Nat /\ Splits(at, low, m, j)
      BY <1>1, <2>2, <3>1
    <3>3. Splits(at, low, high, j)
      BY <2>2, <2>5, <3>2, SplitBelow
    <3>4. Split(at, low, high) = j
      BY <2>3, <3>2, <3>3, SplitIsUnique
    <3> QED BY <2>1, <2>5, <3>1, <3>4
  <2> QED BY <2>4, <2>5
<1>3. \A low, high \in Bounds : ~(low >= high) => low < high
    BY BoundsAreNumbers
<1>4. Halves(at, f)
    BY <1>2, <1>3 DEF Halves
<1> QED BY <1>4

\* Whatever satisfies the recursion finds the place that splits.
LEMMA HalvesSplits ==
    ASSUME Listed(segments), NEW at \in Nat, NEW f, Halves(at, f),
           NEW low \in Bounds, NEW high \in Bounds, low <= high
    PROVE  f[<<low, high>>] \in Nat /\ Splits(at, low, high, f[<<low, high>>])
<1> DEFINE Right(p, q) == f[<<p, q>>] \in Nat /\ Splits(at, p, q, f[<<p, q>>])
           T == {n \in Nat : \A p, q \in Bounds : p <= q /\ q - p <= n => Right(p, q)}
<1>1. \A p, q \in Bounds : f[<<p, q>>] = IF p >= q THEN p
                                     ELSE IF segments[(p + q) \div 2].offset <= at THEN f[<<(p + q) \div 2 + 1, q>>]
                                     ELSE f[<<p, (p + q) \div 2>>]
    BY DEF Halves
<1>2. Bounds \subseteq Nat
    BY BoundsAreNumbers
<1>3. ASSUME NEW p \in Bounds, NEW q \in Bounds, p = q PROVE Right(p, q)
  <2>1. p \in Nat /\ p >= q
    <3>1. p \in Nat
      BY <1>2
    <3> QED BY ONLY <3>1, <1>3
  <2>2. f[<<p, q>>] = p
    BY <1>1, <2>1
  <2>3. Splits(at, p, p, p)
    BY <2>1, NothingToSplit
  <2> QED BY <1>3, <2>1, <2>2, <2>3
<1>4. 0 \in T
  <2> SUFFICES ASSUME NEW p \in Bounds, NEW q \in Bounds, p <= q, q - p <= 0 PROVE Right(p, q)
    OBVIOUS
  <2>1. p = q
    BY <1>2
  <2> QED BY <2>1, <1>3
<1>5. ASSUME NEW n \in T PROVE n + 1 \in T
  <2> SUFFICES ASSUME NEW p \in Bounds, NEW q \in Bounds, p <= q, q - p <= n + 1 PROVE Right(p, q)
    OBVIOUS
  <2>1. PICK m : m = (p + q) \div 2
    OBVIOUS
  <2>2. CASE p = q
    BY <2>2, <1>3
  <2>3. CASE p # q
    <3>1. p \in Nat /\ q \in Nat /\ n \in Nat /\ p < q /\ ~(p >= q)
      <4>1. p \in Nat /\ q \in Nat /\ n \in Nat
        BY <1>2
      <4> QED BY ONLY <4>1, <2>3, p <= q
    <3>2. /\ m \in DOMAIN segments /\ m \in Bounds /\ m + 1 \in Bounds /\ m \in Nat /\ m + 1 \in Nat
          /\ p <= m /\ m < q /\ m + 1 <= q
      BY <2>1, <3>1, BoundsAreNumbers
    <3>3. CASE segments[m].offset <= at
      <4>1. q - (m + 1) <= n
        BY <3>1, <3>2
      <4>2. PICK j : j = f[<<m + 1, q>>]
        OBVIOUS
      <4>3. j \in Nat /\ Splits(at, m + 1, q, j)
        BY <3>2, <4>1, <4>2
      <4>4. f[<<p, q>>] = j
        BY <1>1, <2>1, <3>1, <3>3, <4>2
      <4>5. Splits(at, p, q, j)
        BY <3>1, <3>2, <3>3, <4>3, SplitAbove
      <4> QED BY <4>3, <4>4, <4>5
    <3>4. CASE ~(segments[m].offset <= at)
      <4>1. m - p <= n
        BY <3>1, <3>2
      <4>2. PICK j : j = f[<<p, m>>]
        OBVIOUS
      <4>3. j \in Nat /\ Splits(at, p, m, j)
        BY <3>2, <4>1, <4>2
      <4>4. f[<<p, q>>] = j
        BY <1>1, <2>1, <3>1, <3>4, <4>2
      <4>5. Splits(at, p, q, j)
        BY <3>1, <3>2, <3>4, <4>3, SplitBelow
      <4> QED BY <4>3, <4>4, <4>5
    <3> QED BY <3>3, <3>4
  <2> QED BY <2>2, <2>3
<1>6. T = Nat
  <2> HIDE DEF T
  <2>1. T \in SUBSET Nat
    BY DEF T
  <2> QED BY <1>4, <1>5, <2>1, Induction
<1>7. high - low \in Nat /\ high - low <= high - low
  <2>1. low \in Nat /\ high \in Nat
    BY <1>2
  <2> QED BY ONLY <2>1, low <= high
<1>8. high - low \in T
    BY <1>6, <1>7
<1> QED BY <1>7, <1>8

\* A segment goes in front of the first one that lies above it.
LEMMA PlaceIs ==
    ASSUME Listed(segments), NEW at \in Nat
    PROVE  /\ Place(at) \in 1..(Len(segments) + 1)
           /\ \A k \in DOMAIN segments : k < Place(at) <=> segments[k].offset <= at
<1>1. PICK n \in Nat : n = Len(segments) /\ DOMAIN segments = 1..n /\ Bounds = 1..(n + 1)
    BY ListAscends DEF Bounds
<1>2. Splits(at, 1, n + 1, Search(at)) /\ Search(at) \in Nat
  <2> DEFINE f == CHOOSE f : Halves(at, f)
  <2>1. Halves(at, f)
    BY HalvesExists
  <2>2. Search(at) = f[<<1, n + 1>>]
    BY <1>1 DEF Search, Halves, Bounds
  <2>3. 1 \in Bounds /\ n + 1 \in Bounds /\ 1 <= n + 1
    BY <1>1
  <2> HIDE DEF f
  <2> QED BY <2>1, <2>2, <2>3, HalvesSplits
<1>3. CASE segments = <<>> \/ Last(segments).offset <= at
  <2>1. Place(at) = n + 1
    BY <1>1, <1>3 DEF Place
  <2>2. ASSUME NEW k \in DOMAIN segments PROVE k < n + 1 /\ segments[k].offset <= at
    <3>1. k \in Nat /\ k <= n /\ n \in DOMAIN segments /\ segments # <<>>
      BY <1>1
    <3>2. segments[n].offset <= at
      BY <1>1, <1>3, <3>1 DEF Last
    <3>3. /\ segments[k].offset \in Nat /\ segments[n].offset \in Nat
          /\ k < n => segments[k].offset < segments[n].offset
      BY <3>1, ListAscends
    <3> QED BY <3>1, <3>2, <3>3
  <2> QED BY <1>1, <2>1, <2>2
<1>4. CASE ~(segments = <<>> \/ Last(segments).offset <= at)
  <2>1. Place(at) = Search(at)
    BY <1>4 DEF Place
  <2>2. PICK j \in Nat : j = Search(at) /\ Splits(at, 1, n + 1, j)
    BY <1>2
  <2>3. j \in 1..(n + 1)
    BY <2>2 DEF Splits
  <2>4. \A k \in DOMAIN segments : k < j <=> segments[k].offset <= at
    BY <1>1, <2>2 DEF Splits
  <2> QED BY <1>1, <2>1, <2>2, <2>3, <2>4
<1> QED BY <1>3, <1>4

----------------------------------------------------------------------------
(* What the operations make of the list.                                    *)

\* The members on either side of place i.
LEMMA StayAround ==
    ASSUME NEW s, Listed(s), NEW i \in DOMAIN s
    PROVE  Stay(s, i - 1, i + 1) = ToSet(s) \ {s[i]}
<1>1. DOMAIN s \subseteq Nat /\ \A j, k \in DOMAIN s : j < k => s[j] # s[k]
    BY ListAscends
<1>2. ASSUME NEW o \in Stay(s, i - 1, i + 1) PROVE o \in ToSet(s) \ {s[i]}
  <2>1. PICK j \in DOMAIN s : o = s[j] /\ (j <= i - 1 \/ j >= i + 1)
    BY DEF Stay
  <2>2. j < i \/ i < j
    BY <1>1, <2>1
  <2> QED BY <1>1, <2>1, <2>2 DEF ToSet
<1>3. ASSUME NEW o \in ToSet(s), o # s[i] PROVE o \in Stay(s, i - 1, i + 1)
  <2>1. PICK j \in DOMAIN s : o = s[j] /\ j # i
    BY <1>3 DEF ToSet
  <2>2. j <= i - 1 \/ j >= i + 1
    BY <1>1, <2>1
  <2> QED BY <2>1, <2>2 DEF Stay
<1> QED BY <1>2, <1>3

\* A free segment that is taken leaves the list, or its rest takes its place.
LEMMA TakenIs ==
    ASSUME Listed(segments), NEW n \in Nat, NEW i \in DOMAIN segments, n <= segments[i].byteLength
    PROVE  /\ Listed(Taken(i, n))
           /\ ToSet(Taken(i, n)) = (Free \ {segments[i]}) \cup
                 (IF segments[i].byteLength = n THEN {}
                  ELSE {Segment(segments[i].offset + n, segments[i].byteLength - n)})
<1>1. PICK s \in Pieces : s = segments[i]
    BY ListAscends
<1>2. s.offset \in Nat /\ s.byteLength \in Nat /\ s.byteLength > 0 /\ n <= s.byteLength
    BY <1>1, ListAscends
<1>3. CASE s.byteLength = n
  <2>1. Taken(i, n) = RemoveAt(segments, i)
    BY <1>1, <1>3 DEF Taken
  <2>2. Listed(RemoveAt(segments, i)) /\ ToSet(RemoveAt(segments, i)) = ToSet(segments) \ {segments[i]}
    BY RemoveKeepsOrder
  <2> QED BY <1>1, <1>3, <2>1, <2>2 DEF Free
<1>4. CASE s.byteLength # n
  <2>1. PICK m : m = Segment(s.offset + n, s.byteLength - n)
    OBVIOUS
  <2>2. m \in Pieces /\ m.offset = s.offset + n /\ m.byteLength = s.byteLength - n
    BY <1>2, <1>4, <2>1 DEF Segment, Pieces
  <2>3. PICK t : t = Taken(i, n)
    OBVIOUS
  <2>4. t = [segments EXCEPT ![i] = m]
    BY <1>1, <1>4, <2>1, <2>3 DEF Taken, ReplaceAt
  <2>5. PICK z \in Nat : z = Len(segments) /\ DOMAIN segments = 1..z
    BY ListAscends
  <2>6. /\ t \in Seq(Pieces) /\ Len(t) = z /\ t[i] = m
        /\ \A k \in 1..z : k # i => t[k] = segments[k]
    BY <2>2, <2>4, <2>5 DEF Listed
  <2>7. i \in Nat /\ 1 <= i /\ i <= z /\ i - 1 \in Nat /\ i + 1 \in Nat /\ i - 1 < i + 1
    BY <2>5
  <2>8. Spliced(segments, t, i - 1, m, i + 1)
    <3>1. Len(t) = (i - 1) + 1 + (Len(segments) - (i + 1) + 1)
      BY <2>5, <2>6, <2>7
    <3>2. \A k \in 1..(i - 1) : t[k] = segments[k]
      BY <2>5, <2>6, <2>7
    <3>3. t[(i - 1) + 1] = m
      BY <2>6, <2>7
    <3>4. ASSUME NEW k \in ((i - 1) + 2)..Len(t) PROVE t[k] = segments[k - ((i - 1) + 2) + (i + 1)]
      <4>1. k \in 1..z /\ k # i /\ k - ((i - 1) + 2) + (i + 1) = k
        BY <2>6, <2>7
      <4> QED BY <2>6, <4>1
    <3> QED BY <2>6, <3>1, <3>2, <3>3, <3>4 DEF Spliced
  <2>9. ASSUME NEW k \in DOMAIN segments
        PROVE  /\ k <= i - 1 => Past(segments[k]) <= m.offset
               /\ k >= i + 1 => Past(m) <= segments[k].offset
    <3>1. k \in Nat /\ segments[k].offset \in Nat /\ segments[k].byteLength \in Nat
      BY ListAscends
    <3>2. k < i => segments[k].offset + segments[k].byteLength <= s.offset
      BY <1>1 DEF Listed, Past
    <3>3. i < k => s.offset + s.byteLength <= segments[k].offset
      BY <1>1 DEF Listed, Past
    <3> QED BY <1>2, <2>2, <2>7, <3>1, <3>2, <3>3 DEF Past
  <2>10. i + 1 <= Len(segments) + 1 /\ Between(segments, i - 1, m, i + 1)
    BY <2>5, <2>7, <2>9 DEF Between
  <2>11. Listed(t) /\ ToSet(t) = Stay(segments, i - 1, i + 1) \cup {m}
    <3>1. PICK l, r : l = i - 1 /\ r = i + 1
      OBVIOUS
    <3>2. l \in Nat /\ r \in Nat /\ l < r /\ r <= Len(segments) + 1 /\ Spliced(segments, t, l, m, r) /\ Between(segments, l, m, r)
      BY <2>7, <2>8, <2>10, <3>1
    <3>3. Listed(t) /\ ToSet(t) = Stay(segments, l, r) \cup {m}
      BY ONLY Listed(segments), <2>2, <3>2, SpliceKeepsOrder
    <3> QED BY <3>1, <3>3
  <2>12. Stay(segments, i - 1, i + 1) = ToSet(segments) \ {segments[i]}
    BY StayAround
  <2> QED BY <1>1, <1>4, <2>1, <2>3, <2>11, <2>12 DEF Free
<1> QED BY <1>3, <1>4

\* The segments that end and that begin where a range does.
Before(at) == {s \in Free : Past(s) = at}
After(at) == {s \in Free : s.offset = at}

\* What #insertFreeSegment finds on the two sides of the place of a range that
\* overlaps no segment.
LEMMA PlaceBetween ==
    ASSUME Listed(segments), NEW at \in Nat, NEW n \in Nat, n > 0,
           \A s \in Free : Aside(at, n, s.offset, s.byteLength)
    PROVE  /\ Place(at) \in Nat /\ 1 <= Place(at) /\ Place(at) <= Len(segments) + 1
           /\ \A k \in DOMAIN segments : /\ k < Place(at) => Past(segments[k]) <= at
                                         /\ k >= Place(at) => at + n <= segments[k].offset
           /\ Before(at) = IF Touches(Place(at) - 1, at) THEN {segments[Place(at) - 1]} ELSE {}
           /\ After(at + n) = IF Follows(Place(at), at + n) THEN {segments[Place(at)]} ELSE {}
<1>1. PICK z \in Nat : z = Len(segments) /\ DOMAIN segments = 1..z
    BY ListAscends
<1>2. /\ Place(at) \in 1..(Len(segments) + 1)
      /\ \A k \in DOMAIN segments : k < Place(at) <=> segments[k].offset <= at
    BY PlaceIs
<1>3. PICK p : p = Place(at)
    OBVIOUS
<1>4. /\ p \in Nat /\ 1 <= p /\ p <= z + 1
      /\ \A k \in DOMAIN segments : k < p <=> segments[k].offset <= at
  <2>1. p \in 1..(z + 1)
    BY <1>1, <1>2, <1>3
  <2> QED BY <2>1, <1>2, <1>3
<1>5. p \in Nat /\ p = Place(at) /\ z = Len(segments) /\ DOMAIN segments = 1..z
    BY <1>1, <1>3, <1>4
<1>6. \A k \in DOMAIN segments : k \in Nat /\ segments[k].offset \in Nat /\ segments[k].byteLength \in Nat /\ segments[k].byteLength > 0
    BY ListAscends
<1>7. \A k \in DOMAIN segments : segments[k] \in Free /\ Aside(at, n, segments[k].offset, segments[k].byteLength)
    BY DEF Free, ToSet
<1>8. ASSUME NEW k \in DOMAIN segments
      PROVE  /\ k < p => segments[k].offset + segments[k].byteLength <= at
             /\ k >= p => at + n <= segments[k].offset
    BY <1>4, <1>6, <1>7 DEF Aside
<1>9. \A i, j \in DOMAIN segments : i < j => segments[i].offset + segments[i].byteLength <= segments[j].offset
    BY DEF Listed, Past
<1>10. ASSUME NEW k \in DOMAIN segments, Past(segments[k]) = at PROVE k = p - 1
  <2>1. segments[k].offset <= at /\ k < p
    BY <1>4, <1>6, <1>10 DEF Past
  <2>2. CASE k < p - 1
    <3>1. p - 1 \in DOMAIN segments /\ p - 1 < p
      BY <1>5, <1>4, <1>6, <2>2
    <3>2. segments[k].offset + segments[k].byteLength <= segments[p - 1].offset
      BY <1>9, <2>2, <3>1
    <3>3. segments[p - 1].offset + segments[p - 1].byteLength <= at
      BY <1>8, <3>1
    <3> QED BY <1>6, <1>10, <3>1, <3>2, <3>3 DEF Past
  <2> QED BY <1>4, <1>6, <2>1, <2>2
<1>11. ASSUME NEW k \in DOMAIN segments, segments[k].offset = at + n PROVE k = p
  <2>1. ~(segments[k].offset <= at) /\ k >= p
    BY <1>4, <1>6, <1>11
  <2>2. CASE p < k
    <3>1. p \in DOMAIN segments
      BY <1>5, <1>4, <1>6, <2>2
    <3>2. segments[p].offset + segments[p].byteLength <= segments[k].offset /\ at + n <= segments[p].offset
      BY <1>4, <1>8, <1>9, <2>2, <3>1
    <3> QED BY <1>6, <1>11, <3>1, <3>2
  <2> QED BY <1>4, <1>6, <2>1, <2>2
<1>12. \A s : s \in Before(at) <=> Touches(p - 1, at) /\ s = segments[p - 1]
  <2>1. ASSUME NEW s, s \in Before(at) PROVE Touches(p - 1, at) /\ s = segments[p - 1]
    <3>1. PICK k \in DOMAIN segments : s = segments[k]
      BY <2>1 DEF Before, Free, ToSet
    <3>2. Past(segments[k]) = at
      BY <2>1, <3>1 DEF Before
    <3>3. k = p - 1
      BY <1>10, <3>2
    <3> QED BY <3>1, <3>2, <3>3 DEF Touches, Past
  <2>2. ASSUME NEW s, Touches(p - 1, at), s = segments[p - 1] PROVE s \in Before(at)
    BY <2>2 DEF Before, Touches, Past, Free, ToSet
  <2> QED BY <2>1, <2>2
<1>13. \A s : s \in After(at + n) <=> Follows(p, at + n) /\ s = segments[p]
  <2>1. ASSUME NEW s, s \in After(at + n) PROVE Follows(p, at + n) /\ s = segments[p]
    <3>1. PICK k \in DOMAIN segments : s = segments[k]
      BY <2>1 DEF After, Free, ToSet
    <3>2. segments[k].offset = at + n
      BY <2>1, <3>1 DEF After
    <3>3. k = p
      BY <1>11, <3>2
    <3> QED BY <3>1, <3>2, <3>3 DEF Follows
  <2>2. ASSUME NEW s, Follows(p, at + n), s = segments[p] PROVE s \in After(at + n)
    BY <2>2 DEF After, Follows, Free, ToSet
  <2> QED BY <2>1, <2>2
<1>14. Before(at) = IF Touches(p - 1, at) THEN {segments[p - 1]} ELSE {}
    BY <1>12
<1>15. After(at + n) = IF Follows(p, at + n) THEN {segments[p]} ELSE {}
    BY <1>13
<1> QED BY <1>5, <1>4, <1>8, <1>14, <1>15 DEF Past

\* The list in which a range has been joined with the segments it touches.
LEMMA JoinedIs ==
    ASSUME NEW s, Listed(s), NEW z \in Nat, z = Len(s), NEW i \in Nat, 1 <= i, i <= z + 1,
           NEW m \in Pieces, NEW back \in BOOLEAN, NEW ahead \in BOOLEAN, back => i > 1, ahead => i <= z,
           NEW kept, kept = IF ahead THEN RemoveAt(s, i) ELSE s,
           NEW t, t = IF back THEN ReplaceAt(kept, i - 1, m) ELSE InsertAt(kept, i, m),
           NEW l, l = IF back THEN i - 2 ELSE i - 1,
           NEW r, r = IF ahead THEN i + 1 ELSE i
    PROVE  Spliced(s, t, l, m, r)
<1>1. DOMAIN s = 1..z /\ s \in Seq(Pieces) /\ z \in Nat
    BY DEF Listed
<1>2. PICK y \in Nat : y = IF ahead THEN z - 1 ELSE z
  <2>1. CASE ahead
    BY <2>1
  <2>2. CASE ~ahead
    BY <2>2
  <2> QED BY <2>1, <2>2
<1>3. /\ kept \in Seq(Pieces) /\ Len(kept) = y
      /\ \A k \in 1..(i - 1) : kept[k] = s[k]
      /\ \A k \in i..y : kept[k] = s[k - i + r]
  <2>1. CASE ahead
    <3>1. i \in 1..Len(s)
      BY <2>1
    <3>2. /\ kept \in Seq(Pieces) /\ Len(kept) = z - 1
          /\ \A k \in 1..(i - 1) : kept[k] = s[k]
          /\ \A k \in i..(z - 1) : kept[k] = s[k + 1]
      BY <1>1, <2>1, <3>1, RemoveAtIs
    <3>3. r = i + 1 /\ y = z - 1
      BY <1>2, <2>1
    <3>4. \A k \in i..(z - 1) : k - i + r = k + 1
      BY <3>3
    <3> QED BY <3>2, <3>3, <3>4
  <2>2. CASE ~ahead
    <3>1. r = i /\ y = z /\ kept = s
      BY <1>2, <2>2
    <3>2. \A k \in i..z : k - i + r = k
      BY <3>1
    <3> QED BY <1>1, <3>1, <3>2
  <2> QED BY <2>1, <2>2
<1>4. i \in 1..(Len(kept) + 1) /\ DOMAIN kept = 1..y
  <2>1. i <= y + 1
    BY <1>2
  <2> QED BY <1>3, <2>1
<1>5. CASE back
  <2>1. t = [kept EXCEPT ![i - 1] = m] /\ l = i - 2 /\ i - 1 \in Nat /\ i - 1 \in 1..y
    BY <1>3, <1>4, <1>5 DEF ReplaceAt
  <2>2. /\ t \in Seq(Pieces) /\ Len(t) = y /\ t[i - 1] = m
        /\ \A k \in 1..y : k # i - 1 => t[k] = kept[k]
    <3>1. PICK p : p = i - 1
      OBVIOUS
    <3>2. t = [kept EXCEPT ![p] = m] /\ p \in DOMAIN kept /\ DOMAIN kept = 1..y /\ kept \in Seq(Pieces) /\ Len(kept) = y
      BY <1>3, <1>4, <2>1, <3>1
    <3>3. t \in Seq(Pieces) /\ Len(t) = Len(kept)
      BY ONLY <3>2, m \in Pieces
    <3>4. t[p] = m /\ \A k \in 1..y : k # p => t[k] = kept[k]
      BY ONLY <3>2
    <3> QED BY <3>1, <3>2, <3>3, <3>4
  <2>3. \A k \in 1..l : t[k] = s[k]
    <3> SUFFICES ASSUME NEW k \in 1..l PROVE t[k] = s[k]
      OBVIOUS
    <3>1. k \in 1..y /\ k # i - 1 /\ k \in 1..(i - 1)
      BY <2>1
    <3> QED BY <1>3, <2>2, <3>1
  <2>4. ASSUME NEW k \in (l + 2)..y PROVE t[k] = s[k - (l + 2) + r]
    <3>1. k \in 1..y /\ k # i - 1 /\ k \in i..y /\ l + 2 = i
      BY <2>1
    <3> QED BY <1>3, <2>2, <3>1
  <2>5. y = l + 1 + (z - r + 1) /\ l + 1 = i - 1
    <3>1. CASE ahead
      BY <1>2, <2>1, <3>1
    <3>2. CASE ~ahead
      BY <1>2, <2>1, <3>2
    <3> QED BY <3>1, <3>2
  <2> QED BY <2>2, <2>3, <2>4, <2>5 DEF Spliced
<1>6. CASE ~back
  <2>1. t = InsertAt(kept, i, m) /\ l = i - 1
    BY <1>6
  <2>2. /\ t \in Seq(Pieces) /\ Len(t) = y + 1 /\ t[i] = m
        /\ \A k \in 1..(i - 1) : t[k] = kept[k]
        /\ \A k \in (i + 1)..(y + 1) : t[k] = kept[k - 1]
    <3>1. /\ InsertAt(kept, i, m) \in Seq(Pieces) /\ Len(InsertAt(kept, i, m)) = Len(kept) + 1
          /\ \A k \in 1..(i - 1) : InsertAt(kept, i, m)[k] = kept[k]
          /\ InsertAt(kept, i, m)[i] = m
          /\ \A k \in (i + 1)..(Len(kept) + 1) : InsertAt(kept, i, m)[k] = kept[k - 1]
      <4>1. kept \in Seq(Pieces) /\ i \in 1..(Len(kept) + 1)
        BY <1>3, <1>4
      <4>2. Inserted(Pieces, kept, i, m, InsertAt(kept, i, m))
        BY ONLY <4>1, m \in Pieces, InsertAtIs
      <4> QED BY ONLY <4>2 DEF Inserted
    <3> QED BY <1>3, <2>1, <3>1
  <2>3. \A k \in 1..l : t[k] = s[k]
    BY <1>3, <2>1, <2>2
  <2>4. ASSUME NEW k \in (l + 2)..(y + 1) PROVE t[k] = s[k - (l + 2) + r]
    <3>1. PICK j \in Int : j = k - 1
      BY <2>1
    <3>2. k \in (i + 1)..(y + 1) /\ j \in i..y /\ l + 2 = i + 1 /\ j - i = k - (l + 2)
      BY <2>1, <3>1
    <3>3. t[k] = kept[j] /\ kept[j] = s[j - i + r]
      BY <1>3, <2>2, <3>1, <3>2
    <3> QED BY <3>2, <3>3
  <2>5. y + 1 = l + 1 + (z - r + 1) /\ l + 1 = i
    <3>1. CASE ahead
      BY <1>2, <2>1, <3>1
    <3>2. CASE ~ahead
      BY <1>2, <2>1, <3>2
    <3> QED BY <3>1, <3>2
  <2> QED BY <2>2, <2>3, <2>4, <2>5 DEF Spliced
<1> QED BY <1>5, <1>6

\* Whether the member on the left, and on the right, of place i goes.
Leftmost(s, i, B, l) == (B = {} /\ l = i - 1) \/ (i - 1 \in DOMAIN s /\ B = {s[i - 1]} /\ l = i - 2)
Rightmost(s, i, A, r) == (A = {} /\ r = i) \/ (i \in DOMAIN s /\ A = {s[i]} /\ r = i + 1)

\* The members that stay when those at i - 1 and i may go.
LEMMA StayIs ==
    ASSUME NEW s, Listed(s), NEW i \in Nat, NEW B, NEW A, NEW l, NEW r,
           Leftmost(s, i, B, l), Rightmost(s, i, A, r)
    PROVE  Stay(s, l, r) = ToSet(s) \ (B \cup A)
<1>1. DOMAIN s \subseteq Nat /\ \A j, k \in DOMAIN s : j < k => s[j] # s[k]
    BY ListAscends
<1>2. ASSUME NEW j \in DOMAIN s, NEW k \in DOMAIN s, s[j] = s[k] PROVE j = k
  <2>1. ~(j < k) /\ ~(k < j)
    BY <1>1, <1>2
  <2> QED BY <1>1, <2>1
<1>3. ASSUME NEW j \in DOMAIN s PROVE (j <= l \/ j >= r) <=> s[j] \notin B /\ s[j] \notin A
  <2>1. j \in Nat
    BY <1>1
  <2>2. (j <= l \/ j = i - 1 \/ j >= i) /\ (j >= r \/ j = i \/ j <= i - 1)
    BY <2>1 DEF Leftmost, Rightmost
  <2>3. s[j] \in B <=> l = i - 2 /\ j = i - 1
    BY <1>2 DEF Leftmost
  <2>4. s[j] \in A <=> r = i + 1 /\ j = i
    BY <1>2 DEF Rightmost
  <2>5. (l = i - 1 \/ l = i - 2) /\ (r = i \/ r = i + 1)
    BY DEF Leftmost, Rightmost
  <2> QED BY ONLY <2>1, <2>3, <2>4, <2>5, i \in Nat
<1>4. ASSUME NEW o PROVE o \in Stay(s, l, r) <=> \E j \in DOMAIN s : o = s[j] /\ (j <= l \/ j >= r)
    BY DEF Stay
<1>5. ASSUME NEW o PROVE o \in Stay(s, l, r) <=> o \in ToSet(s) \ (B \cup A)
    BY <1>3, <1>4 DEF ToSet
<1> QED BY <1>5

\* What becomes of the list when a range is put back.
LEMMA InsertIs ==
    ASSUME Listed(segments), NEW at \in Nat, NEW n \in Nat, n > 0,
           \A s \in Free : Aside(at, n, s.offset, s.byteLength), InsertFreeSegment(at, n)
    PROVE  \E back, ahead \in Nat :
              /\ back <= at /\ Neighbour(Before(at), back) /\ Neighbour(After(at + n), ahead)
              /\ Listed(segments') /\ bound' = Max({bound, back + n + ahead})
              /\ Free' = (Free \ (Before(at) \cup After(at + n))) \cup {Segment(at - back, back + n + ahead)}
<1>1. PICK i : i = Place(at)
    OBVIOUS
<1>2. PICK z \in Nat : z = Len(segments) /\ DOMAIN segments = 1..z
    BY ListAscends
<1>3. /\ i \in Nat /\ 1 <= i /\ i <= Len(segments) + 1
      /\ \A k \in DOMAIN segments : /\ k < i => Past(segments[k]) <= at
                                    /\ k >= i => at + n <= segments[k].offset
      /\ Before(at) = IF Touches(i - 1, at) THEN {segments[i - 1]} ELSE {}
      /\ After(at + n) = IF Follows(i, at + n) THEN {segments[i]} ELSE {}
    BY <1>1, PlaceBetween
<1>4. i <= z + 1
    BY <1>2, <1>3
<1>5. \A k \in DOMAIN segments : segments[k] \in Free /\ segments[k].offset \in Nat /\ segments[k].byteLength \in Nat /\ segments[k].byteLength > 0
    BY ListAscends DEF Free, ToSet
<1>6. PICK below \in BOOLEAN, above \in BOOLEAN : (below <=> Touches(i - 1, at)) /\ (above <=> Follows(i, at + n))
    OBVIOUS
<1>7. PICK back, ahead : /\ back = IF below THEN segments[i - 1].byteLength ELSE 0
                         /\ ahead = IF above THEN segments[i].byteLength ELSE 0
    OBVIOUS
<1>8. below => i - 1 \in DOMAIN segments /\ segments[i - 1].offset + segments[i - 1].byteLength = at
    BY <1>6 DEF Touches
<1>9. above => i \in DOMAIN segments /\ segments[i].offset = at + n
    BY <1>6 DEF Follows
<1>10. back \in Nat /\ ahead \in Nat /\ (back > 0 <=> below) /\ (ahead > 0 <=> above) /\ back <= at
  <2>1. back \in Nat /\ (back > 0 <=> below) /\ back <= at
    BY <1>5, <1>7, <1>8
  <2>2. ahead \in Nat /\ (ahead > 0 <=> above)
    BY <1>5, <1>7, <1>9
  <2> QED BY <2>1, <2>2
<1>11. PICK m : m = Segment(at - back, back + n + ahead)
    OBVIOUS
<1>12. m \in Pieces /\ m.offset = at - back /\ m.byteLength = back + n + ahead
    BY <1>10, <1>11 DEF Segment, Pieces
<1>13. PICK kept : kept = IF above THEN RemoveAt(segments, i) ELSE segments
    OBVIOUS
<1>14. PICK t : t = IF below THEN ReplaceAt(kept, i - 1, m) ELSE InsertAt(kept, i, m)
    OBVIOUS
<1>15. segments' = t /\ bound' = Max({bound, m.byteLength})
  <2>1. back = IF Touches(i - 1, at) THEN segments[i - 1].byteLength ELSE 0
    BY <1>6, <1>7
  <2>2. ahead = IF Follows(i, at + n) THEN segments[i].byteLength ELSE 0
    BY <1>6, <1>7
  <2>3. kept = IF ahead > 0 THEN RemoveAt(segments, i) ELSE segments
    BY <1>10, <1>13
  <2>4. t = IF back > 0 THEN ReplaceAt(kept, i - 1, m) ELSE InsertAt(kept, i, m)
    BY <1>10, <1>14
  <2> QED BY <1>1, <1>11, <2>1, <2>2, <2>3, <2>4 DEF InsertFreeSegment
<1>16. PICK l, r : l = (IF below THEN i - 2 ELSE i - 1) /\ r = IF above THEN i + 1 ELSE i
    OBVIOUS
<1>17. below => i > 1
    BY <1>2, <1>3, <1>8
<1>18. above => i <= z
    BY <1>2, <1>3, <1>9
<1>19. Spliced(segments, t, l, m, r)
    BY <1>2, <1>3, <1>4, <1>12, <1>13, <1>14, <1>16, <1>17, <1>18, JoinedIs
<1>20. Stay(segments, l, r) = ToSet(segments) \ (Before(at) \cup After(at + n))
  <2>1. PICK B, A : B = Before(at) /\ A = After(at + n)
    OBVIOUS
  <2>2. Leftmost(segments, i, B, l)
    BY <1>3, <1>6, <1>8, <1>16, <2>1 DEF Leftmost
  <2>3. Rightmost(segments, i, A, r)
    BY <1>3, <1>6, <1>9, <1>16, <2>1 DEF Rightmost
  <2>4. Stay(segments, l, r) = ToSet(segments) \ (B \cup A)
    <3>1. i \in Nat
      BY <1>3
    <3> QED BY ONLY Listed(segments), <3>1, <2>2, <2>3, StayIs
  <2> QED BY <2>1, <2>4
<1>21. l \in Nat /\ r \in Nat /\ l < r /\ r <= z + 1
  <2>1. CASE below
    BY <1>3, <1>4, <1>16, <1>17, <1>18, <2>1
  <2>2. CASE ~below
    BY <1>3, <1>4, <1>16, <1>17, <1>18, <2>2
  <2> QED BY <2>1, <2>2
<1>22. ASSUME NEW k \in DOMAIN segments
       PROVE  (k <= l => Past(segments[k]) <= m.offset) /\ (k >= r => Past(m) <= segments[k].offset)
  <2>1. k \in Nat /\ segments[k].offset \in Nat /\ segments[k].byteLength \in Nat
    BY <1>2, <1>5
  <2>2. k <= l => Past(segments[k]) <= at - back
    <3> SUFFICES ASSUME k <= l PROVE Past(segments[k]) <= at - back
      OBVIOUS
    <3>1. CASE below
      <4>1. k < i - 1 /\ i - 1 \in DOMAIN segments
        BY <1>3, <1>8, <1>16, <2>1, <3>1
      <4>2. Past(segments[k]) <= segments[i - 1].offset
        BY <4>1 DEF Listed
      <4>3. segments[i - 1].offset = at - back
        BY <1>5, <1>7, <1>8, <3>1
      <4> QED BY <4>2, <4>3
    <3>2. CASE ~below
      <4>1. k < i /\ back = 0
        BY <1>3, <1>7, <1>16, <2>1, <3>2
      <4>2. Past(segments[k]) <= at
        BY <1>3, <4>1
      <4> QED BY <4>1, <4>2
    <3> QED BY <3>1, <3>2
  <2>3. k >= r => at + n + ahead <= segments[k].offset
    <3> SUFFICES ASSUME k >= r PROVE at + n + ahead <= segments[k].offset
      OBVIOUS
    <3>1. CASE above
      <4>1. i < k /\ i \in DOMAIN segments
        BY <1>3, <1>9, <1>16, <2>1, <3>1
      <4>2. Past(segments[i]) <= segments[k].offset
        BY <4>1 DEF Listed
      <4>3. Past(segments[i]) = at + n + ahead
        BY <1>5, <1>7, <1>9, <3>1 DEF Past
      <4> QED BY <4>2, <4>3
    <3>2. CASE ~above
      <4>1. k >= i /\ ahead = 0
        BY <1>3, <1>7, <1>16, <2>1, <3>2
      <4>2. at + n <= segments[k].offset
        BY <1>3, <4>1
      <4> QED BY <4>1, <4>2
    <3> QED BY <3>1, <3>2
  <2>4. Past(m) = at + n + ahead
    BY <1>10, <1>12 DEF Past
  <2> QED BY <1>12, <2>2, <2>3, <2>4
<1>23. r <= Len(segments) + 1
    BY <1>2, <1>21
<1>24. Between(segments, l, m, r)
    BY <1>22 DEF Between
<1>25. Listed(t) /\ ToSet(t) = Stay(segments, l, r) \cup {m}
  <2>1. l \in Nat /\ r \in Nat /\ l < r
    BY <1>21
  <2> QED BY <2>1, <1>12, <1>19, <1>23, <1>24, SpliceKeepsOrder
<1>26. Neighbour(Before(at), back)
  <2>1. CASE below
    BY <1>3, <1>5, <1>6, <1>7, <1>8, <2>1 DEF Neighbour
  <2>2. CASE ~below
    BY <1>3, <1>6, <1>7, <2>2 DEF Neighbour
  <2> QED BY <2>1, <2>2
<1>27. Neighbour(After(at + n), ahead)
  <2>1. CASE above
    BY <1>3, <1>5, <1>6, <1>7, <1>9, <2>1 DEF Neighbour
  <2>2. CASE ~above
    BY <1>3, <1>6, <1>7, <2>2 DEF Neighbour
  <2> QED BY <2>1, <2>2
<1>28. Free' = (Free \ (Before(at) \cup After(at + n))) \cup {m}
    BY <1>15, <1>20, <1>25 DEF Free
<1> QED BY <1>10, <1>11, <1>12, <1>15, <1>25, <1>26, <1>27, <1>28

----------------------------------------------------------------------------
(* Rounding up to the alignment and to pages.                               *)

\* Whole division.
LEMMA DivisionBounds ==
    ASSUME NEW n \in Nat, NEW d \in Nat, d > 0
    PROVE  /\ n \div d \in Nat
           /\ (n \div d) * d <= n /\ n < (n \div d) * d + d
OBVIOUS

\* What division leaves.
LEMMA DivisionRest ==
    ASSUME NEW n \in Nat, NEW d \in Nat, d > 0
    PROVE  n \div d \in Nat /\ n % d = n - d * (n \div d)
OBVIOUS

\* Rounding up loses less than the unit.
LEMMA RoundUp ==
    ASSUME NEW n \in Nat, NEW d \in Nat, d > 0
    PROVE  /\ (n + d - 1) \div d \in Nat
           /\ n <= ((n + d - 1) \div d) * d
           /\ ((n + d - 1) \div d) * d < n + d
<1> DEFINE m == n + d - 1
<1>1. m \in Nat
    OBVIOUS
<1>2. m \div d \in Nat /\ (m \div d) * d <= m /\ m < (m \div d) * d + d
    BY <1>1, DivisionBounds
<1>3. (m \div d) * d \in Nat
    BY <1>2
<1> QED BY <1>2, <1>3

\* Multiplication keeps the order.
LEMMA MultiplesAscend ==
    ASSUME NEW m \in Nat, NEW n \in Nat, NEW d \in Nat, m <= n
    PROVE  m * d \in Nat /\ n * d \in Nat /\ m * d <= n * d
<1>1. PICK k \in Nat : n = m + k
  <2>1. n - m \in Nat /\ n = m + (n - m)
    OBVIOUS
  <2> QED BY <2>1
<1>2. (m + k) * d = m * d + k * d /\ m * d \in Nat /\ k * d \in Nat
    OBVIOUS
<1> QED BY <1>1, <1>2

\* What the assumptions on the constants say.
LEMMA ConstantsAreNumbers ==
    /\ Alignment \in Nat /\ Alignment > 0 /\ PageBytes \in Nat /\ PageBytes > 0
    /\ ArenaBase \in Nat /\ MaximumPages \in Nat /\ MaximumAddress \in Nat
    /\ PageBytes % Alignment = 0
    /\ ArenaBase <= (MaximumPages - 1) * PageBytes /\ MaximumPages * PageBytes <= MaximumAddress + 1
BY MemoryAssumption

\* An aligned length covers what was asked for.
LEMMA AlignIs ==
    ASSUME NEW n \in Nat
    PROVE  Align(n) \in Nat /\ n <= Align(n) /\ Align(n) < n + Alignment
<1>1. PICK c : c = (n + Alignment - 1) \div Alignment
    OBVIOUS
<1>2. c \in Nat /\ n <= c * Alignment /\ c * Alignment < n + Alignment
    BY <1>1, ConstantsAreNumbers, RoundUp
<1>3. c * Alignment \in Nat
    BY <1>2, ConstantsAreNumbers
<1> QED BY <1>1, <1>2, <1>3 DEF Align

\* Enough pages are enough.
LEMMA PagesForIs ==
    ASSUME NEW n \in Nat
    PROVE  PagesFor(n) \in Nat /\ n <= PagesFor(n) * PageBytes /\ PagesFor(n) * PageBytes < n + PageBytes
BY ConstantsAreNumbers, RoundUp DEF PagesFor

\* The arena starts inside the first memory and below the last address.
LEMMA BaseIs ==
    /\ Base \in Nat /\ PagesFor(ArenaBase) \in Nat
    /\ Base <= PagesFor(ArenaBase) * PageBytes
    /\ PagesFor(ArenaBase) <= MaximumPages /\ Base <= MaximumAddress
<1>1. PICK A, P, M : A = Alignment /\ P = PageBytes /\ M = MaximumPages
    OBVIOUS
<1>2. A \in Nat /\ A > 0 /\ P \in Nat /\ P > 0 /\ M \in Nat /\ P % A = 0
    BY <1>1, ConstantsAreNumbers
<1>3. PICK q \in Nat : P = q * A /\ q > 0
  <2>1. PICK q : q = P \div A
    OBVIOUS
  <2>2. q \in Nat /\ 0 = P - A * q
    BY <1>2, <2>1, DivisionRest
  <2>3. P = q * A
    BY <1>2, <2>2
  <2>4. q # 0
    BY <1>2, <2>3
  <2> QED BY <2>2, <2>3, <2>4
<1>4. A <= P
  <2>1. 1 * A <= q * A
    BY <1>2, <1>3, MultiplesAscend
  <2> QED BY <1>2, <1>3, <2>1
<1>5. PICK k : k = PagesFor(ArenaBase)
    OBVIOUS
<1>6. k \in Nat /\ ArenaBase <= k * P /\ k * P < ArenaBase + P /\ k * P \in Nat
  <2>1. k \in Nat /\ ArenaBase <= k * P /\ k * P < ArenaBase + P
    BY <1>1, <1>5, ConstantsAreNumbers, PagesForIs
  <2> QED BY <1>2, <2>1
<1>7. PICK c : c = (ArenaBase + A - 1) \div A
    OBVIOUS
<1>8. Base = c * A /\ c \in Nat /\ ArenaBase <= c * A /\ c * A < ArenaBase + A /\ c * A \in Nat
  <2>1. Base = c * A
    BY <1>1, <1>7 DEF Base, Align
  <2>2. c \in Nat /\ ArenaBase <= c * A /\ c * A < ArenaBase + A
    BY <1>2, <1>7, ConstantsAreNumbers, RoundUp
  <2> QED BY <1>2, <2>1, <2>2
<1>9. Base <= k * P
  <2>1. PICK h \in Nat : h = k * q
    BY <1>3, <1>6
  <2>2. k * P = h * A
    BY <1>2, <1>3, <1>6, <2>1
  <2>3. CASE c <= h
    BY <1>2, <1>8, <2>1, <2>2, <2>3, MultiplesAscend
  <2>4. CASE ~(c <= h)
    <3>1. h + 1 <= c /\ h + 1 \in Nat
      BY <1>8, <2>1, <2>4
    <3>2. (h + 1) * A <= c * A
      BY <1>2, <1>8, <3>1, MultiplesAscend
    <3>3. (h + 1) * A = h * A + A
      BY <1>2, <2>1
    <3>4. h * A \in Nat
      BY <1>2, <2>1
    <3>5. c * A < h * A + A
      BY <1>2, <1>6, <1>8, <2>2, <3>4, ConstantsAreNumbers
    <3> QED BY <1>2, <1>8, <3>2, <3>3, <3>4, <3>5
  <2> QED BY <2>3, <2>4
<1>10. M >= 1 /\ M - 1 \in Nat
  <2>1. ArenaBase \in Nat /\ ArenaBase <= (M - 1) * P
    BY <1>1, ConstantsAreNumbers
  <2>2. CASE M = 0
    <3>1. (M - 1) * P = 0 - P
      BY <1>2, <2>2
    <3> QED BY <1>2, <2>1, <3>1
  <2>3. CASE M # 0
    BY <1>2, <2>3
  <2> QED BY <2>2, <2>3
<1>11. PICK j \in Nat : j = (M - 1) * P /\ ArenaBase <= j /\ M * P = j + P
  <2>1. (M - 1) * P \in Nat /\ M * P = (M - 1) * P + P
    BY <1>2, <1>10
  <2>2. ArenaBase <= (M - 1) * P
    BY <1>1, ConstantsAreNumbers
  <2> QED BY <2>1, <2>2
<1>12. k <= M
  <2>1. CASE ~(k <= M)
    <3>1. M <= k
      BY <1>2, <1>6, <2>1
    <3>2. M * P <= k * P
      BY <1>2, <1>6, <3>1, MultiplesAscend
    <3>3. ArenaBase \in Nat
      BY ConstantsAreNumbers
    <3> QED BY <1>2, <1>6, <1>11, <3>2, <3>3
  <2> QED BY <2>1
<1>13. Base <= MaximumAddress
  <2>1. M * P <= MaximumAddress + 1 /\ ArenaBase \in Nat /\ MaximumAddress \in Nat
    BY <1>1, ConstantsAreNumbers
  <2> QED BY <1>2, <1>4, <1>8, <1>11, <2>1
<1> QED BY <1>1, <1>5, <1>6, <1>8, <1>9, <1>12, <1>13

\* Memory that has been grown to hold an address holds it.
LEMMA GrownIs ==
    ASSUME NEW n \in Nat, pages \in Nat
    PROVE  Grown(n) \in Nat /\ n <= Grown(n) * PageBytes /\ (Grown(n) = pages \/ Grown(n) = PagesFor(n))
BY PagesForIs DEF Grown

----------------------------------------------------------------------------
(* The inductive invariant of linear memory.                                *)

SoundMemory ==
    /\ Cut /\ Listed(segments)
    /\ IsFiniteSet(live) /\ bytes \in [Allocations -> Nat]
    /\ bound \in Nat /\ payloadBytes \in Nat /\ reservedBytes \in Nat /\ pages \in Nat
    /\ cursor <= pages * PageBytes /\ pages <= MaximumPages /\ cursor <= MaximumAddress
    /\ BoundCoversSegments
    /\ reservedBytes = Weight(reserved, live) /\ payloadBytes = Weight(bytes, live)

\* The greatest member of a bounded set of numbers.
LEMMA MaxIsGreatest ==
    ASSUME NEW S \in SUBSET Nat, S # {}, NEW b \in Nat, \A k \in S : k <= b
    PROVE  Max(S) \in S /\ Max(S) \in Nat /\ \A k \in S : k <= Max(S)
<1> DEFINE T == {m \in Nat : \A k \in S : k <= m}
<1>1. T \in SUBSET Nat /\ b \in T
    OBVIOUS
<1>2. PICK m : m \in T /\ \A k \in T : m <= k
  <2> HIDE DEF T
  <2> QED BY <1>1, MinIsLeast
<1>3. m \in Nat /\ \A k \in S : k <= m
    BY <1>2
<1>4. m \in S
  <2> SUFFICES ASSUME m \notin S PROVE FALSE
    OBVIOUS
  <2>1. PICK k \in S : k \in Nat
    OBVIOUS
  <2>2. \A j \in S : j \in Nat /\ j < m
    BY <1>3
  <2>3. m - 1 \in Nat /\ \A j \in S : j <= m - 1
    BY <1>3, <2>1, <2>2
  <2>4. m - 1 \in T
    BY <2>3
  <2> QED BY <1>2, <1>3, <2>3, <2>4
<1>5. \E x \in S : \A y \in S : x >= y
    BY <1>3, <1>4
<1>6. Max(S) \in S /\ \A y \in S : Max(S) >= y
    BY <1>5 DEF Max
<1> QED BY <1>6

\* Sums depend on what is summed and on nothing else.
LEMMA WeightAgrees ==
    ASSUME NEW s, NEW v, NEW w, \A x \in s : v[x] = w[x]
    PROVE  Units(v, s) = Units(w, s) /\ Weight(v, s) = Weight(w, s)
<1>1. \A p : p \in Units(v, s) <=> p \in Units(w, s)
    BY DEF Units
<1>2. Units(v, s) = Units(w, s)
    BY <1>1
<1> QED BY <1>2 DEF Weight

\* One member more.
LEMMA WeightOfMore ==
    ASSUME NEW s, IsFiniteSet(s), NEW w, \A x \in s : w[x] \in Nat,
           NEW v, NEW a, a \notin s, v[a] \in Nat, \A x \in s : v[x] = w[x]
    PROVE  Weight(v, s \cup {a}) = Weight(w, s) + v[a] /\ Weight(w, s) \in Nat
<1>1. Weight(v, s) = Weight(w, s) /\ Units(v, s) = Units(w, s)
    BY WeightAgrees
<1>2. IsFiniteSet(Units(w, s)) /\ Weight(w, s) \in Nat
    BY WeightIsFinite
<1>3. PICK t : t = s \cup {a}
    OBVIOUS
<1>4. t \ {a} = s /\ a \in t
    BY <1>3
<1>5. Weight(v, t) = v[a] + Weight(v, t \ {a})
  <2>1. IsFiniteSet(Units(v, t \ {a}))
    BY <1>1, <1>2, <1>4
  <2> QED BY <1>4, <2>1, WeightGrows
<1>6. PICK k, m \in Nat : k = v[a] /\ m = Weight(w, s)
    BY <1>2
<1>7. Weight(v, t) = k + m
    BY <1>1, <1>4, <1>5, <1>6
<1>8. Weight(v, t) = m + k
    BY <1>6, <1>7
<1> QED BY <1>3, <1>6, <1>8

\* One member fewer.
LEMMA WeightOfLess ==
    ASSUME NEW s, IsFiniteSet(s), NEW w, \A x \in s : w[x] \in Nat,
           NEW v, NEW a \in s, \A x \in s \ {a} : v[x] = w[x]
    PROVE  /\ Weight(w, s) = Weight(v, s \ {a}) + w[a]
           /\ Weight(v, s \ {a}) \in Nat
<1>1. IsFiniteSet(s \ {a})
    BY FS_Subset
<1>2. IsFiniteSet(Units(w, s \ {a})) /\ Weight(w, s \ {a}) \in Nat
    BY <1>1, WeightIsFinite
<1>3. Weight(v, s \ {a}) = Weight(w, s \ {a})
    BY WeightAgrees
<1>4. Weight(w, s) = w[a] + Weight(w, s \ {a}) /\ w[a] \in Nat
  <2>1. w[a] \in Nat
    OBVIOUS
  <2> QED BY <1>2, <2>1, WeightGrows
<1>5. PICK k, m \in Nat : k = w[a] /\ m = Weight(w, s \ {a})
    BY <1>2, <1>4
<1> QED BY <1>3, <1>4, <1>5

\* What a new allocation adds to the counters.
LEMMA ConstructKeepsCounters ==
    ASSUME SoundMemory, NEW a \in Allocations, a \notin live, NEW n \in Nat, NEW at, Construct(a, n, at)
    PROVE  /\ Handed(a, at, Align(n))
           /\ IsFiniteSet(live') /\ bytes' \in [Allocations -> Nat]
           /\ payloadBytes' \in Nat /\ reservedBytes' \in Nat
           /\ reservedBytes' = Weight(reserved, live)' /\ payloadBytes' = Weight(bytes, live)'
<1>1. Align(n) \in Nat
    BY AlignIs
<1>2. live' = live \cup {a} /\ IsFiniteSet(live) /\ live \subseteq Allocations
    BY DEF SoundMemory, Cut, Construct
<1>3. IsFiniteSet(live')
    BY <1>2, FS_AddElement
<1>4. reserved \in [Allocations -> Nat] /\ bytes \in [Allocations -> Nat]
    BY DEF SoundMemory, Cut
<1>5. /\ bytes' \in [Allocations -> Nat] /\ bytes'[a] = n /\ \A x \in live : bytes'[x] = bytes[x]
      /\ reserved'[a] = Align(n) /\ \A x \in live : reserved'[x] = reserved[x]
    BY <1>2, <1>4 DEF Construct
<1>6. Weight(reserved', live \cup {a}) = Weight(reserved, live) + reserved'[a] /\ Weight(reserved, live) \in Nat
  <2>1. \A x \in live : reserved[x] \in Nat
    BY <1>2, <1>4
  <2>2. reserved'[a] \in Nat
    BY <1>1, <1>5
  <2> QED BY <1>2, <1>5, <2>1, <2>2, WeightOfMore
<1>7. Weight(bytes', live \cup {a}) = Weight(bytes, live) + bytes'[a] /\ Weight(bytes, live) \in Nat
  <2>1. \A x \in live : bytes[x] \in Nat
    BY <1>2, <1>4
  <2>2. bytes'[a] \in Nat
    BY <1>5
  <2> QED BY <1>2, <1>5, <2>1, <2>2, WeightOfMore
<1>8. /\ payloadBytes' = payloadBytes + n /\ reservedBytes' = reservedBytes + Align(n)
      /\ reservedBytes = Weight(reserved, live) /\ payloadBytes = Weight(bytes, live)
    BY DEF Construct, SoundMemory
<1>9. Handed(a, at, Align(n))
    BY DEF Construct, Handed
<1>10. Weight(reserved, live)' = Weight(reserved', live') /\ Weight(bytes, live)' = Weight(bytes', live')
    BY DEF Weight, Units
<1> QED BY <1>1, <1>2, <1>3, <1>5, <1>6, <1>7, <1>8, <1>9, <1>10

\* First fit keeps memory sound.
LEMMA AllocateFreeKeepsSound ==
    ASSUME SoundMemory, NEW a \in Allocations, NEW n \in Nat, AllocateFree(a, n)
    PROVE  SoundMemory'
<1>1. PICK size : size = Align(n)
    OBVIOUS
<1>2. size \in Nat
    BY <1>1, AlignIs
<1>3. PICK i : i = Min(Fitting(size))
    OBVIOUS
<1>4. a \notin live /\ Finds(size) /\ segments' = Taken(i, size) /\ Construct(a, n, segments[i].offset)
    BY <1>1, <1>3 DEF AllocateFree
<1>5. Listed(segments) /\ Cut
    BY DEF SoundMemory
<1>6. i \in DOMAIN segments /\ size <= segments[i].byteLength
  <2>1. DOMAIN segments \subseteq Nat
    BY <1>5, ListAscends
  <2>2. Fitting(size) \in SUBSET Nat /\ Fitting(size) # {}
    BY <1>4, <2>1 DEF Finds, Fitting
  <2>3. i \in Fitting(size)
    BY <1>3, <2>2, MinIsLeast
  <2>4. i \in DOMAIN segments /\ segments[i].byteLength >= size
    BY <2>3 DEF Fitting
  <2>5. segments[i].byteLength \in Nat
    BY <1>5, <2>4, ListAscends
  <2> QED BY <1>2, <2>4, <2>5
<1>7. PICK s : s = segments[i]
    OBVIOUS
<1>8. s \in Free /\ s.byteLength \in Nat /\ size <= s.byteLength
    BY <1>5, <1>6, <1>7, ListAscends DEF Free, ToSet
<1>9. Listed(segments') /\ Free' = (Free \ {s}) \cup
             (IF s.byteLength = size THEN {} ELSE {Segment(s.offset + size, s.byteLength - size)})
  <2>1. /\ Listed(Taken(i, size))
        /\ ToSet(Taken(i, size)) = (Free \ {segments[i]}) \cup
              (IF segments[i].byteLength = size THEN {}
               ELSE {Segment(segments[i].offset + size, segments[i].byteLength - size)})
    BY <1>2, <1>5, <1>6, TakenIs
  <2>2. Free' = ToSet(segments')
    BY DEF Free
  <2> QED BY <1>4, <1>7, <2>1, <2>2
<1>10. /\ Handed(a, s.offset, size)
       /\ IsFiniteSet(live') /\ bytes' \in [Allocations -> Nat]
       /\ payloadBytes' \in Nat /\ reservedBytes' \in Nat
       /\ reservedBytes' = Weight(reserved, live)' /\ payloadBytes' = Weight(bytes, live)'
    BY <1>1, <1>4, <1>7, ConstructKeepsCounters
<1>11. cursor' = cursor /\ bound' = bound /\ pages' = pages
    BY DEF AllocateFree
<1>12. Cut'
    BY <1>2, <1>4, <1>5, <1>8, <1>9, <1>10, <1>11, ReuseKeepsCut
<1>13. BoundCoversSegments'
  <2>1. ASSUME NEW o \in Free' PROVE o.byteLength <= bound
    <3>1. bound \in Nat /\ \A q \in Free : q.byteLength <= bound
      BY DEF SoundMemory, BoundCoversSegments, Free, ToSet
    <3>2. CASE o \in Free
      BY <3>1, <3>2
    <3>3. CASE o = Segment(s.offset + size, s.byteLength - size)
      <4>1. o.byteLength = s.byteLength - size
        BY <3>3 DEF Segment
      <4> QED BY <1>2, <1>8, <3>1, <4>1
    <3> QED BY <1>9, <3>2, <3>3
  <2> QED BY <1>11, <2>1 DEF BoundCoversSegments, Free, ToSet
<1> QED BY <1>9, <1>10, <1>11, <1>12, <1>13 DEF SoundMemory

\* What a search that found nothing makes of the bound.
LEMMA MissKeepsBound ==
    ASSUME SoundMemory, NEW size \in Nat
    PROVE  /\ BoundAfterSearch(size) \in Nat
           /\ \A i \in DOMAIN segments : segments[i].byteLength <= BoundAfterSearch(size)
<1>1. bound \in Nat /\ \A i \in DOMAIN segments : segments[i].byteLength \in Nat /\ segments[i].byteLength <= bound
  <2>1. Listed(segments) /\ bound \in Nat /\ BoundCoversSegments
    BY DEF SoundMemory
  <2> QED BY <2>1, ListAscends DEF BoundCoversSegments
<1>2. PICK S : S = {segments[i].byteLength : i \in DOMAIN segments}
    OBVIOUS
<1>3. S \in SUBSET Nat /\ \A k \in S : k <= bound
    BY <1>1, <1>2
<1>4. Largest = IF S = {} THEN 0 ELSE Max(S)
    BY <1>2 DEF Largest
<1>5. Largest \in Nat /\ \A i \in DOMAIN segments : segments[i].byteLength <= Largest
  <2>1. CASE S = {}
    BY <1>2, <1>4, <2>1
  <2>2. CASE S # {}
    <3>1. Max(S) \in Nat /\ \A k \in S : k <= Max(S)
      BY <1>1, <1>3, <2>2, MaxIsGreatest
    <3> QED BY <1>2, <1>4, <2>2, <3>1
  <2> QED BY <2>1, <2>2
<1> QED BY <1>1, <1>5 DEF BoundAfterSearch

\* Untouched memory keeps memory sound.
LEMMA AllocateBumpKeepsSound ==
    ASSUME SoundMemory, NEW a \in Allocations, NEW n \in Nat, AllocateBump(a, n)
    PROVE  SoundMemory'
<1>1. PICK size, end : size = Align(n) /\ end = cursor + size
    OBVIOUS
<1>2. size \in Nat /\ cursor \in Nat /\ pages \in Nat /\ end \in Nat
  <2>1. size \in Nat
    BY <1>1, AlignIs
  <2>2. cursor \in Nat /\ pages \in Nat
    BY DEF SoundMemory, Cut
  <2> QED BY <1>1, <2>1, <2>2
<1>3. /\ a \notin live /\ end <= MaximumAddress
      /\ end <= pages * PageBytes \/ PagesFor(end) <= MaximumPages
      /\ bound' = BoundAfterSearch(size) /\ cursor' = end /\ pages' = Grown(end)
      /\ Construct(a, n, cursor) /\ segments' = segments
    BY <1>1 DEF AllocateBump
<1>4. Listed(segments) /\ Cut /\ pages <= MaximumPages
    BY DEF SoundMemory
<1>5. /\ Handed(a, cursor, size)
      /\ IsFiniteSet(live') /\ bytes' \in [Allocations -> Nat]
      /\ payloadBytes' \in Nat /\ reservedBytes' \in Nat
      /\ reservedBytes' = Weight(reserved, live)' /\ payloadBytes' = Weight(bytes, live)'
    BY <1>1, <1>3, ConstructKeepsCounters
<1>6. Free' = Free
    BY <1>3 DEF Free
<1>7. Cut'
    BY <1>1, <1>2, <1>3, <1>4, <1>5, <1>6, ExtendKeepsCut
<1>8. bound' \in Nat /\ BoundCoversSegments'
  <2>1. BoundAfterSearch(size) \in Nat /\ \A i \in DOMAIN segments : segments[i].byteLength <= BoundAfterSearch(size)
    BY <1>2, MissKeepsBound
  <2> QED BY <1>3, <2>1 DEF BoundCoversSegments
<1>9. pages' \in Nat /\ cursor' <= pages' * PageBytes
  <2>1. Grown(end) \in Nat /\ end <= Grown(end) * PageBytes
    BY <1>2, GrownIs
  <2> QED BY <1>3, <2>1
<1>10. pages' <= MaximumPages
    BY <1>3, <1>4 DEF Grown
<1> QED BY <1>3, <1>4, <1>5, <1>7, <1>8, <1>9, <1>10 DEF SoundMemory

\* A request that fails leaves memory sound.
LEMMA AllocateFailsKeepsSound ==
    ASSUME SoundMemory, NEW n \in Nat, AllocateFails(n)
    PROVE  SoundMemory'
<1>1. PICK size : size = Align(n)
    OBVIOUS
<1>2. size \in Nat
    BY <1>1, AlignIs
<1>3. /\ bound' = BoundAfterSearch(size)
      /\ UNCHANGED <<live, offset, bytes, reserved, cursor, segments, payloadBytes, reservedBytes, pages>>
    BY <1>1 DEF AllocateFails, fields
<1>4. bound' \in Nat /\ BoundCoversSegments'
  <2>1. BoundAfterSearch(size) \in Nat /\ \A i \in DOMAIN segments : segments[i].byteLength <= BoundAfterSearch(size)
    BY <1>2, MissKeepsBound
  <2> QED BY <1>3, <2>1 DEF BoundCoversSegments
<1>5. Cut' /\ Listed(segments')
    BY <1>3 DEF SoundMemory, Cut, InArena, NoOverlap, NoGap, Free, Base, Align
<1>6. Weight(reserved, live)' = Weight(reserved, live) /\ Weight(bytes, live)' = Weight(bytes, live)
    BY <1>3 DEF Weight, Units
<1> QED BY <1>3, <1>4, <1>5, <1>6 DEF SoundMemory

\* What giving an allocation back takes from the counters.
LEMMA ReleaseKeepsCounters ==
    ASSUME SoundMemory, NEW a \in live, Release(a)
    PROVE  /\ Given(a)
           /\ IsFiniteSet(live') /\ bytes' \in [Allocations -> Nat]
           /\ payloadBytes' \in Nat /\ reservedBytes' \in Nat
           /\ reservedBytes' = Weight(reserved, live)' /\ payloadBytes' = Weight(bytes, live)'
<1>1. live' = live \ {a} /\ IsFiniteSet(live) /\ live \subseteq Allocations
    BY DEF SoundMemory, Cut, Release
<1>2. IsFiniteSet(live')
    BY <1>1, FS_Subset
<1>3. reserved \in [Allocations -> Nat] /\ bytes \in [Allocations -> Nat]
    BY DEF SoundMemory, Cut
<1>4. /\ bytes' \in [Allocations -> Nat] /\ \A x \in live \ {a} : bytes'[x] = bytes[x]
      /\ \A x \in live \ {a} : reserved'[x] = reserved[x]
    BY <1>1, <1>3 DEF Release
<1>5. Weight(reserved, live) = Weight(reserved', live \ {a}) + reserved[a] /\ Weight(reserved', live \ {a}) \in Nat
  <2>1. \A x \in live : reserved[x] \in Nat
    BY <1>1, <1>3
  <2> QED BY <1>1, <1>4, <2>1, WeightOfLess
<1>6. Weight(bytes, live) = Weight(bytes', live \ {a}) + bytes[a] /\ Weight(bytes', live \ {a}) \in Nat
  <2>1. \A x \in live : bytes[x] \in Nat
    BY <1>1, <1>3
  <2> QED BY <1>1, <1>4, <2>1, WeightOfLess
<1>7. /\ payloadBytes' = payloadBytes - bytes[a] /\ reservedBytes' = reservedBytes - reserved[a]
      /\ reservedBytes = Weight(reserved, live) /\ payloadBytes = Weight(bytes, live)
      /\ bytes[a] \in Nat /\ reserved[a] \in Nat
    BY <1>1, <1>3 DEF Release, SoundMemory
<1>8. Given(a)
    BY DEF Release, Given
<1>9. Weight(reserved, live)' = Weight(reserved', live') /\ Weight(bytes, live)' = Weight(bytes', live')
    BY DEF Weight, Units
<1>10. PICK k, m \in Nat : k = Weight(reserved', live \ {a}) /\ m = Weight(bytes', live \ {a})
    BY <1>5, <1>6
<1>11. reservedBytes' = k /\ payloadBytes' = m
    BY <1>5, <1>6, <1>7, <1>10
<1> QED BY <1>1, <1>2, <1>4, <1>8, <1>9, <1>10, <1>11

\* Giving an allocation back keeps memory sound.
LEMMA ReleaseKeepsSound ==
    ASSUME SoundMemory, NEW a, Release(a)
    PROVE  SoundMemory'
<1>1. a \in live /\ cursor' = cursor /\ pages' = pages /\ Cut /\ Listed(segments)
    BY DEF Release, SoundMemory
<1>2. /\ Given(a)
      /\ IsFiniteSet(live') /\ bytes' \in [Allocations -> Nat]
      /\ payloadBytes' \in Nat /\ reservedBytes' \in Nat
      /\ reservedBytes' = Weight(reserved, live)' /\ payloadBytes' = Weight(bytes, live)'
    BY <1>1, ReleaseKeepsCounters
<1>3. PICK at, n \in Nat : at = offset[a] /\ n = reserved[a]
    BY <1>1 DEF Cut
<1>4. CASE n > 0
  <2>1. InsertFreeSegment(at, n)
    BY <1>3, <1>4 DEF Release
  <2>2. \A s \in Free : Aside(at, n, s.offset, s.byteLength)
    BY <1>1, <1>3, <1>4 DEF Cut, NoOverlap
  <2>3. PICK back, ahead \in Nat :
              /\ back <= at /\ Neighbour(Before(at), back) /\ Neighbour(After(at + n), ahead)
              /\ Listed(segments') /\ bound' = Max({bound, back + n + ahead})
              /\ Free' = (Free \ (Before(at) \cup After(at + n))) \cup {Segment(at - back, back + n + ahead)}
    BY <1>1, <1>4, <2>1, <2>2, InsertIs
  <2>4. PICK B, A : B = Before(at) /\ A = After(at + n)
    OBVIOUS
  <2>5. /\ B \in SUBSET Free /\ \A s \in B : Past(s) = at
        /\ A \in SUBSET Free /\ \A s \in A : s.offset = at + n
    BY <2>4 DEF Before, After
  <2>6. Cut'
    BY <1>1, <1>2, <1>3, <1>4, <2>3, <2>4, <2>5, ReleaseKeepsCut
  <2>7. PICK m \in Nat : m = back + n + ahead
    OBVIOUS
  <2>8. bound \in Nat /\ \A q \in Free : q.byteLength <= bound
    BY DEF SoundMemory, BoundCoversSegments, Free, ToSet
  <2>9. bound' \in Nat /\ bound <= bound' /\ m <= bound'
    <3>1. {bound, m} \in SUBSET Nat /\ {bound, m} # {} /\ \A k \in {bound, m} : k <= bound + m
      BY <2>8
    <3>2. bound + m \in Nat
      BY <2>8
    <3>3. Max({bound, m}) \in Nat /\ \A k \in {bound, m} : k <= Max({bound, m})
      BY <3>1, <3>2, MaxIsGreatest
    <3> QED BY <2>3, <2>7, <3>3
  <2>10. BoundCoversSegments'
    <3>1. ASSUME NEW o \in Free' PROVE o.byteLength <= bound'
      <4>1. CASE o \in Free
        <5>1. o.byteLength \in Nat
          BY <1>1, <4>1 DEF Cut, Pieces
        <5> QED BY <2>8, <2>9, <4>1, <5>1
      <4>2. CASE o = Segment(at - back, back + n + ahead)
        BY <2>7, <2>9, <4>2 DEF Segment
      <4> QED BY <2>3, <4>1, <4>2
    <3> QED BY <3>1 DEF BoundCoversSegments, Free, ToSet
  <2> QED BY <1>1, <1>2, <2>3, <2>6, <2>9, <2>10 DEF SoundMemory
<1>5. CASE n = 0
  <2>1. segments' = segments /\ bound' = bound
    BY <1>3, <1>5 DEF Release
  <2>2. Free' = Free
    BY <2>1 DEF Free
  <2>3. Cut'
    BY <1>1, <1>2, <1>3, <1>5, <2>2, EmptyReleaseKeepsCut
  <2>4. BoundCoversSegments'
    BY <2>1 DEF SoundMemory, BoundCoversSegments
  <2> QED BY <1>1, <1>2, <2>1, <2>3, <2>4 DEF SoundMemory
<1> QED BY <1>3, <1>4, <1>5

\* Fresh memory is sound.
LEMMA InitIsSound == Init => SoundMemory
<1> SUFFICES ASSUME Init PROVE SoundMemory
    OBVIOUS
<1>1. /\ live = {} /\ segments = <<>> /\ bound = 0 /\ payloadBytes = 0 /\ reservedBytes = 0
      /\ offset = [a \in Allocations |-> 0] /\ bytes = [a \in Allocations |-> 0] /\ reserved = [a \in Allocations |-> 0]
      /\ cursor = Base /\ pages = PagesFor(ArenaBase)
    BY DEF Init, Base
<1>2. Free = {} /\ Listed(segments) /\ BoundCoversSegments
    BY <1>1 DEF Free, ToSet, Listed, BoundCoversSegments
<1>3. Cut
  <2>1. NoGap
    BY <1>1, BaseIs DEF NoGap
  <2> QED BY <1>1, <1>2, <2>1, BaseIs DEF Cut, InArena, NoOverlap
<1>4. IsFiniteSet(live) /\ Weight(reserved, live) = 0 /\ Weight(bytes, live) = 0
    BY <1>1, WeightOfNone, FS_EmptySet
<1> QED BY <1>1, <1>2, <1>3, <1>4, BaseIs DEF SoundMemory

\* The operations of the allocator, for requests of any length.
Operation ==
    \/ \E a \in Allocations, n \in Nat : AllocateFree(a, n) \/ AllocateBump(a, n)
    \/ \E n \in Nat : AllocateFails(n)
    \/ \E a \in live : Release(a)

\* Every operation keeps memory sound.
LEMMA OperationKeepsSound == ASSUME SoundMemory, Operation PROVE SoundMemory'
BY AllocateFreeKeepsSound, AllocateBumpKeepsSound, AllocateFailsKeepsSound, ReleaseKeepsSound DEF Operation

\* So does leaving it alone.
LEMMA StutterKeepsSound == ASSUME SoundMemory, UNCHANGED memoryVars PROVE SoundMemory'
<1>1. UNCHANGED <<live, offset, bytes, reserved, cursor, segments, bound, payloadBytes, reservedBytes, pages>>
    BY DEF memoryVars, fields
<1>2. Cut' /\ Listed(segments') /\ BoundCoversSegments'
    BY <1>1 DEF SoundMemory, Cut, InArena, NoOverlap, NoGap, Free, Base, Align, BoundCoversSegments
<1>3. Weight(reserved, live)' = Weight(reserved, live) /\ Weight(bytes, live)' = Weight(bytes, live)
    BY <1>1 DEF Weight, Units
<1> QED BY <1>1, <1>2, <1>3 DEF SoundMemory

----------------------------------------------------------------------------
(* No byte is lost: the addresses below the cursor are counted.             *)

\* The addresses that ranges of w bytes from o cover.
Covered(s, o, w) == {x \in Nat : \E a \in s : Within(x, o[a], w[a])}

\* Ranges that do not overlap cover as many addresses as they have bytes.
LEMMA CoveredCounts ==
    ASSUME NEW s, IsFiniteSet(s), NEW o, NEW w, \A a \in s : o[a] \in Nat /\ w[a] \in Nat,
           \A a, b \in s : a # b /\ w[a] > 0 /\ w[b] > 0 => Aside(o[a], w[a], o[b], w[b])
    PROVE  IsFiniteSet(Covered(s, o, w)) /\ Cardinality(Covered(s, o, w)) = Weight(w, s)
<1> DEFINE U == Units(w, s)
           C == Covered(s, o, w)
           f == [p \in U |-> o[p[1]] + p[2] - 1]
<1>1. \A p \in U : p = <<p[1], p[2]>> /\ p[1] \in s /\ p[2] \in Nat /\ 1 <= p[2] /\ p[2] <= w[p[1]]
    BY DEF Units
<1>2. f \in [U -> C]
  <2>1. ASSUME NEW p \in U PROVE o[p[1]] + p[2] - 1 \in C
    <3>1. PICK a, k : a = p[1] /\ k = p[2]
      OBVIOUS
    <3>2. a \in s /\ k \in Nat /\ 1 <= k /\ k <= w[a] /\ o[a] \in Nat /\ w[a] \in Nat
      BY <1>1, <3>1
    <3>3. o[a] + k - 1 \in Nat /\ Within(o[a] + k - 1, o[a], w[a])
      BY <3>2 DEF Within
    <3> QED BY <3>1, <3>2, <3>3 DEF Covered
  <2> HIDE DEF U, C
  <2> QED BY <2>1
<1>3. ASSUME NEW p \in U, NEW q \in U, f[p] = f[q] PROVE p = q
  <2>1. PICK a, b, k, m : a = p[1] /\ k = p[2] /\ b = q[1] /\ m = q[2]
    OBVIOUS
  <2>2. /\ a \in s /\ k \in Nat /\ 1 <= k /\ k <= w[a] /\ o[a] \in Nat /\ w[a] \in Nat /\ p = <<a, k>>
        /\ b \in s /\ m \in Nat /\ 1 <= m /\ m <= w[b] /\ o[b] \in Nat /\ w[b] \in Nat /\ q = <<b, m>>
    BY <1>1, <2>1
  <2>3. o[a] + k - 1 = o[b] + m - 1
    BY <1>3, <2>1
  <2>4. CASE a = b
    BY <2>2, <2>3, <2>4
  <2>5. CASE a # b
    <3>1. Aside(o[a], w[a], o[b], w[b])
      BY <2>2, <2>5
    <3> QED BY <2>2, <2>3, <3>1 DEF Aside
  <2> QED BY <2>4, <2>5
<1>4. ASSUME NEW x \in C PROVE \E p \in U : f[p] = x
  <2>1. PICK a \in s : Within(x, o[a], w[a]) /\ x \in Nat
    BY DEF Covered
  <2>2. PICK k \in Nat : k = x - o[a] + 1 /\ 1 <= k /\ k <= w[a]
    BY <2>1 DEF Within
  <2>3. <<a, k>> \in U
    BY <2>1, <2>2 DEF Units
  <2>4. f[<<a, k>>] = x
    <3>1. f[<<a, k>>] = o[a] + k - 1
      BY <2>3
    <3>2. o[a] \in Nat
      OBVIOUS
    <3> QED BY <2>1, <2>2, <3>1, <3>2
  <2> QED BY <2>3, <2>4
<1>5. f \in Bijection(U, C)
  <2> HIDE DEF U, C, f
  <2>1. DOMAIN f = U
    BY <1>2
  <2> QED BY <1>2, <1>3, <1>4, <2>1 DEF Bijection, Injection, Surjection, IsInjective
<1>6. IsFiniteSet(U)
    BY WeightIsFinite
<1>7. ExistsBijection(U, C)
    BY <1>5 DEF ExistsBijection
<1>8. IsFiniteSet(C) /\ Cardinality(C) = Cardinality(U)
  <2> HIDE DEF U, C
  <2> QED BY <1>6, <1>7, FS_Bijection
<1> QED BY <1>8 DEF Weight

\* The arena is the live reservations and the free segments, byte for byte.
LEMMA ArenaIsCounted ==
    ASSUME SoundMemory
    PROVE  cursor - Base = Weight(reserved, live) + Weight(Lengths, DOMAIN segments)
<1> DEFINE Offsets == [i \in DOMAIN segments |-> segments[i].offset]
           L == Covered(live, offset, reserved)
           F == Covered(DOMAIN segments, Offsets, Lengths)
<1>1. Cut /\ Listed(segments) /\ IsFiniteSet(live)
    BY DEF SoundMemory
<1>2. /\ \A a \in live : offset[a] \in Nat /\ reserved[a] \in Nat
      /\ cursor \in Nat /\ Base \in Nat /\ Base <= cursor
    BY <1>1 DEF Cut
<1>3. \A i \in DOMAIN segments : /\ segments[i] \in Free /\ segments[i].offset \in Nat /\ segments[i].byteLength \in Nat
                                 /\ Offsets[i] = segments[i].offset /\ Lengths[i] = segments[i].byteLength
    BY <1>1, ListAscends DEF Free, ToSet, Lengths
<1>4. IsFiniteSet(L) /\ Cardinality(L) = Weight(reserved, live)
  <2>1. \A a, b \in live : a # b /\ reserved[a] > 0 /\ reserved[b] > 0 => Aside(offset[a], reserved[a], offset[b], reserved[b])
    BY <1>1 DEF Cut, NoOverlap
  <2> QED BY <1>1, <1>2, <2>1, CoveredCounts
<1>5. IsFiniteSet(F) /\ Cardinality(F) = Weight(Lengths, DOMAIN segments)
  <2>1. ASSUME NEW i \in DOMAIN segments, NEW j \in DOMAIN segments, i # j
        PROVE  Aside(Offsets[i], Lengths[i], Offsets[j], Lengths[j])
    <3>1. i < j \/ j < i
      BY <1>1, <2>1, ListAscends
    <3>2. Past(segments[i]) <= segments[j].offset \/ Past(segments[j]) <= segments[i].offset
      BY <1>1, <3>1 DEF Listed
    <3> QED BY <1>3, <3>2 DEF Aside, Past
  <2>2. IsFiniteSet(DOMAIN segments)
    <3>1. DOMAIN segments = 1..Len(segments) /\ Len(segments) \in Nat
      BY <1>1, ListAscends
    <3> QED BY <3>1, FS_Interval
  <2>3. \A i \in DOMAIN segments : Offsets[i] \in Nat /\ Lengths[i] \in Nat
    BY <1>3
  <2> HIDE DEF Offsets
  <2> QED BY <2>1, <2>2, <2>3, CoveredCounts
<1>6. ASSUME NEW x \in L PROVE x \in Base..(cursor - 1) /\ x \notin F
  <2>1. PICK a \in live : Within(x, offset[a], reserved[a]) /\ x \in Nat
    BY DEF Covered
  <2>2. offset[a] \in Nat /\ reserved[a] \in Nat /\ reserved[a] > 0
    BY <1>2, <2>1 DEF Within
  <2>3. Base <= offset[a] /\ offset[a] + reserved[a] <= cursor
    BY <1>1, <2>2 DEF Cut, InArena
  <2>4. x \in Base..(cursor - 1)
    BY <1>2, <2>1, <2>2, <2>3 DEF Within
  <2>5. ASSUME NEW i \in DOMAIN segments PROVE ~Within(x, Offsets[i], Lengths[i])
    <3>1. Aside(offset[a], reserved[a], segments[i].offset, segments[i].byteLength)
      BY <1>1, <1>3, <2>2 DEF Cut, NoOverlap
    <3> QED BY <1>3, <2>1, <2>2, <3>1 DEF Aside, Within
  <2>6. x \notin F
    BY <2>5 DEF Covered
  <2> QED BY <2>4, <2>6
<1>7. ASSUME NEW x \in F PROVE x \in Base..(cursor - 1)
  <2>1. PICK i \in DOMAIN segments : Within(x, Offsets[i], Lengths[i]) /\ x \in Nat
    BY DEF Covered
  <2>2. Base <= segments[i].offset /\ segments[i].offset + segments[i].byteLength <= cursor
    BY <1>1, <1>3 DEF Cut, InArena, Past
  <2> QED BY <1>2, <1>3, <2>1, <2>2 DEF Within
<1>8. ASSUME NEW x \in Base..(cursor - 1) PROVE x \in L \cup F
  <2>1. x \in Nat /\ Base <= x /\ x < cursor
    BY <1>2
  <2>2. \/ \E a \in live : Within(x, offset[a], reserved[a])
        \/ \E q \in Free : Within(x, q.offset, q.byteLength)
    BY <1>1, <2>1 DEF Cut, NoGap
  <2>3. CASE \E a \in live : Within(x, offset[a], reserved[a])
    BY <2>1, <2>3 DEF Covered
  <2>4. CASE \E q \in Free : Within(x, q.offset, q.byteLength)
    <3>1. PICK i \in DOMAIN segments : Within(x, segments[i].offset, segments[i].byteLength)
      BY <2>4 DEF Free, ToSet
    <3> QED BY <1>3, <2>1, <3>1 DEF Covered
  <2> QED BY <2>2, <2>3, <2>4
<1> HIDE DEF L, F
<1>9. L \cup F = Base..(cursor - 1) /\ L \cap F = {}
    BY <1>6, <1>7, <1>8
<1>10. Cardinality(L \cup F) = Cardinality(L) + Cardinality(F) - Cardinality({})
    BY <1>4, <1>5, <1>9, FS_Union
<1>11. Cardinality({}) = 0
    BY FS_EmptySet
<1>12. Cardinality(Base..(cursor - 1)) = cursor - Base
  <2>1. Base \in Int /\ cursor - 1 \in Int
    BY <1>2
  <2>2. Cardinality(Base..(cursor - 1)) = IF Base > cursor - 1 THEN 0 ELSE (cursor - 1) - Base + 1
    BY <2>1, FS_Interval
  <2> QED BY <1>2, <2>2
<1>13. Cardinality(L) \in Nat /\ Cardinality(F) \in Nat
    BY <1>4, <1>5, FS_CardinalityType
<1>14. PICK m, n \in Nat : m = Cardinality(L) /\ n = Cardinality(F)
    BY <1>13
<1>15. cursor - Base = m + n - 0
    BY <1>9, <1>10, <1>11, <1>12, <1>14
<1>16. cursor - Base = m + n
    BY ONLY <1>15, m \in Nat, n \in Nat
<1> QED BY <1>4, <1>5, <1>14, <1>16

\* Sound memory is partitioned.
LEMMA SoundIsPartitioned == SoundMemory => MemoryIsPartitioned
<1> SUFFICES ASSUME SoundMemory PROVE MemoryIsPartitioned
    OBVIOUS
<1>1. Cut /\ Listed(segments) /\ IsFiniteSet(live) /\ BoundCoversSegments
    BY DEF SoundMemory
<1>2. TypeOK
  <2>1. \A a \in Allocations : {offset[a], bytes[a], reserved[a]} \subseteq Nat
    BY DEF SoundMemory, Cut
  <2>2. \A i \in DOMAIN segments : segments[i].offset \in Nat /\ segments[i].byteLength \in Nat \ {0}
    BY <1>1, ListAscends
  <2> QED BY <1>1, <2>1, <2>2 DEF TypeOK, SoundMemory, Cut
<1>3. EveryByteIsAccounted
  <2>1. \A a \in live : reserved[a] \in Nat /\ bytes[a] \in Nat
    BY DEF SoundMemory, Cut
  <2>2. FoldSet(LAMBDA a, n : reserved[a] + n, 0, live) = Weight(reserved, live)
    BY <1>1, <2>1, ReservedIsWeight
  <2>3. FoldSet(LAMBDA a, n : bytes[a] + n, 0, live) = Weight(bytes, live)
    BY <1>1, <2>1, BytesIsWeight
  <2>4. FoldSeq(LAMBDA s, n : s.byteLength + n, 0, segments) = Weight(Lengths, DOMAIN segments)
    <3>1. DOMAIN segments = 1..Len(segments) /\ Len(segments) \in Nat
      BY <1>1, ListAscends
    <3>2. IsFiniteSet(DOMAIN segments)
      BY <3>1, FS_Interval
    <3>3. \A i \in DOMAIN segments : segments[i].byteLength \in Nat
      BY <1>1, ListAscends
    <3> QED BY <3>2, <3>3, SegmentsIsWeight
  <2>5. cursor - Base = Weight(reserved, live) + Weight(Lengths, DOMAIN segments)
    BY ArenaIsCounted
  <2>6. reservedBytes = Weight(reserved, live) /\ payloadBytes = Weight(bytes, live)
    BY DEF SoundMemory
  <2>7. cursor - Align(ArenaBase) = reservedBytes + FoldSeq(LAMBDA s, n : s.byteLength + n, 0, segments)
    BY <2>4, <2>5, <2>6 DEF Base
  <2>8. reservedBytes = FoldSet(LAMBDA a, n : reserved[a] + n, 0, live)
    BY <2>2, <2>6
  <2>9. payloadBytes = FoldSet(LAMBDA a, n : bytes[a] + n, 0, live)
    BY <2>3, <2>6
  <2> QED BY <2>7, <2>8, <2>9 DEF EveryByteIsAccounted
<1>4. LiveBytesAreExclusive
    BY <1>1 DEF Cut, NoOverlap, Aside, Free, LiveBytesAreExclusive, Store!LiveBytesAreExclusive, Store!Apart
<1> QED BY <1>1, <1>2, <1>3, <1>4 DEF MemoryIsPartitioned

----------------------------------------------------------------------------
(* Every step of the machine is an operation of the allocator, or none.     *)

\* Requests are of sizes that are numbers, for allocations there can be.
LEMMA RequestsAreNumbers == New \subseteq Allocations /\ Sizes \subseteq Nat /\ ProgramSizes \subseteq Nat
BY MemoryAssumption, InvocationAssumption DEF New, Names

\* Obtaining and returning are operations.
LEMMA ObtainOperates ==
    ASSUME NEW a \in New, NEW n \in Nat, Obtain(a, n)
    PROVE  Operation \/ UNCHANGED memoryVars
BY RequestsAreNumbers DEF Obtain, Operation

\* Giving back is an operation.
LEMMA ReturnOperates == ASSUME NEW a, Return(a) PROVE Operation
BY DEF Return, Release, Operation

\* A step of an execution.
LEMMA ExecuteOperates == ASSUME ExecuteStep PROVE Operation \/ UNCHANGED memoryVars
<1>1. CASE Begin
    BY <1>1 DEF Begin, storeVars
<1>2. CASE Kernel
    BY <1>2 DEF Kernel
<1>3. CASE KernelFails
    BY <1>3 DEF KernelFails, storeVars
<1>4. CASE CompleteInputUse
  <2>1. (\E a : Return(a)) \/ UNCHANGED storeVars
    BY <1>4 DEF CompleteInputUse
  <2> QED BY <2>1, ReturnOperates DEF storeVars
<1>5. CASE Publish
    BY <1>5 DEF Publish
<1>6. CASE Rollback
  <2>1. (\E a : Return(a)) \/ UNCHANGED storeVars
    BY <1>6 DEF Rollback
  <2> QED BY <2>1, ReturnOperates DEF storeVars
<1>7. CASE Submit
    BY <1>7 DEF Submit
<1>8. CASE EncodingFails
    BY <1>8 DEF EncodingFails, storeVars
<1>9. ASSUME NEW plan \in Plans, NEW a \in New, NEW n \in ProgramSizes, BindHost(a, n, plan)
      PROVE  Operation \/ UNCHANGED memoryVars
  <2>1. n \in Nat /\ Obtain(a, n)
    BY <1>9, RequestsAreNumbers DEF BindHost
  <2> QED BY <2>1, ObtainOperates
<1>10. ASSUME NEW plan \in Plans, NEW a \in held, BindResident(a, plan)
       PROVE  UNCHANGED memoryVars
    BY <1>10 DEF BindResident, storeVars
<1>11. ASSUME NEW inputs, NEW a, NEW n \in ProgramSizes, NEW plan, Reserve(inputs, a, n, plan)
       PROVE  Operation \/ UNCHANGED memoryVars
  <2>1. UNCHANGED memoryVars \/ (a \in New /\ Obtain(a, n))
    BY <1>11 DEF Reserve
  <2>2. n \in Nat
    BY RequestsAreNumbers
  <2> QED BY <2>1, <2>2, ObtainOperates
<1>12. ASSUME NEW n \in ProgramSizes, Exhausted(n) PROVE Operation
  <2>1. n \in Nat /\ AllocateFails(n)
    BY <1>12, RequestsAreNumbers DEF Exhausted
  <2> QED BY <2>1 DEF Operation
<1> QED BY <1>1, <1>2, <1>3, <1>4, <1>5, <1>6, <1>7, <1>8, <1>9, <1>10, <1>11, <1>12 DEF ExecuteStep

\* Any step.
LEMMA StepOperates == ASSUME [NextInvocation]_allVars PROVE Operation \/ UNCHANGED memoryVars
<1>1. CASE MemoryStep
  <2>1. CASE \E a \in New, n \in Sizes : AllocateFree(a, n) \/ AllocateBump(a, n)
    BY <2>1, RequestsAreNumbers DEF Operation
  <2>2. CASE \E n \in Sizes : AllocateFails(n)
    BY <2>2, RequestsAreNumbers DEF Operation
  <2>3. CASE \E a \in live : Release(a)
    BY <2>3 DEF Operation
  <2> QED BY <1>1, <2>1, <2>2, <2>3 DEF MemoryStep
<1>2. CASE ExecuteStep
    BY <1>2, ExecuteOperates
<1>3. CASE DeviceStep
  <2>1. ASSUME NEW k \in DOMAIN flights,
               Executes(k) \/ Drained(k) \/ Mapped(k) \/ Succeeds(k) \/ ScopeFails(k) \/ CleanUp(k)
        PROVE  UNCHANGED memoryVars
    BY <2>1 DEF Executes, Drained, Mapped, Succeeds, ScopeFails, CleanUp, Destroy, storeVars
  <2>2. CASE DeviceLost
    BY <2>2 DEF DeviceLost, storeVars
  <2> QED BY <1>3, <2>1, <2>2 DEF DeviceStep
<1>4. CASE RuntimeStep
  <2>1. ASSUME NEW a \in held, ReleaseResident(a) PROVE Operation \/ UNCHANGED memoryVars
    BY <2>1, ReturnOperates DEF ReleaseResident, Destroy
  <2>2. ASSUME NEW a \in held, NEW b \in New, Read(a, b) PROVE UNCHANGED memoryVars
    BY <2>2 DEF Read, Obtain, Cpu, Gpu
  <2>3. CASE Close
    BY <2>3 DEF Close, Destroy, storeVars
  <2> QED BY <1>4, <2>1, <2>2, <2>3 DEF RuntimeStep
<1>5. CASE UNCHANGED allVars
    BY <1>5 DEF allVars, storeVars
<1> QED BY <1>1, <1>2, <1>3, <1>4, <1>5 DEF NextInvocation

\* Memory stays sound under every client of the allocator.
THEOREM SoundMemoryHolds == SpecInvocation => []SoundMemory
<1>1. InitInvocation => SoundMemory
    BY InitIsSound DEF InitInvocation
<1>2. SoundMemory /\ [NextInvocation]_allVars => SoundMemory'
    BY StepOperates, OperationKeepsSound, StutterKeepsSound
<1> QED BY <1>1, <1>2, PTL DEF SpecInvocation

\* Memory is cut into live reservations and free segments, without overlap and
\* without loss, through every split, exact fit and merge of linear-memory.ts,
\* whatever the sizes, the alignment and the order of releases; and the search
\* that the bound skips would have found nothing.
THEOREM MemoryIsPartitionedHolds == SpecInvocation => []MemoryIsPartitioned
BY SoundMemoryHolds, SoundIsPartitioned, PTL

----------------------------------------------------------------------------
(* Linear memory is a first-fit store.                                      *)

Top == Min({MaximumAddress, MaximumPages * PageBytes})

\* The highest address memory can have.
LEMMA TopIs ==
    /\ Top \in Nat
    /\ \A n \in Nat : n <= Top <=> n <= MaximumAddress /\ n <= MaximumPages * PageBytes
<1>1. PICK m, n \in Nat : m = MaximumAddress /\ n = MaximumPages * PageBytes
    BY ConstantsAreNumbers
<1>2. {m, n} \in SUBSET Nat /\ {m, n} # {}
    OBVIOUS
<1>3. Min({m, n}) \in {m, n} /\ \A k \in {m, n} : Min({m, n}) <= k
    BY <1>2, MinIsLeast
<1>4. PICK t : t = Top
    OBVIOUS
<1>5. t \in {m, n} /\ t <= m /\ t <= n
    BY <1>1, <1>3, <1>4 DEF Top
<1>6. ASSUME NEW k \in Nat PROVE k <= t <=> k <= m /\ k <= n
    BY <1>5
<1> QED BY <1>1, <1>4, <1>5, <1>6

\* The cursor stays below it.
LEMMA CursorIsBelowTop ==
    ASSUME SoundMemory
    PROVE  cursor \in Nat /\ cursor <= Top
<1>1. /\ cursor \in Nat /\ pages \in Nat /\ cursor <= pages * PageBytes /\ pages <= MaximumPages
      /\ cursor <= MaximumAddress
    BY DEF SoundMemory, Cut
<1>2. pages * PageBytes \in Nat /\ MaximumPages * PageBytes \in Nat /\ pages * PageBytes <= MaximumPages * PageBytes
    BY <1>1, ConstantsAreNumbers, MultiplesAscend
<1>3. cursor <= MaximumPages * PageBytes
    BY <1>1, <1>2
<1> QED BY <1>1, <1>3, TopIs

\* First fit takes the lowest free range that fits.
LEMMA FreeIsReuse ==
    ASSUME SoundMemory, NEW a \in Allocations, NEW n \in Nat, AllocateFree(a, n)
    PROVE  Store!Next
<1>1. PICK size : size = Align(n)
    OBVIOUS
<1>2. size \in Nat
    BY <1>1, AlignIs
<1>3. PICK i : i = Min(Fitting(size))
    OBVIOUS
<1>4. /\ a \notin live /\ Finds(size) /\ segments' = Taken(i, size) /\ Construct(a, n, segments[i].offset)
      /\ cursor' = cursor
    BY <1>1, <1>3 DEF AllocateFree
<1>5. Listed(segments) /\ Cut
    BY DEF SoundMemory
<1>6. i \in DOMAIN segments /\ segments[i].byteLength >= size /\ \A j \in Fitting(size) : i <= j
  <2>1. DOMAIN segments \subseteq Nat
    BY <1>5, ListAscends
  <2>2. Fitting(size) \in SUBSET Nat /\ Fitting(size) # {}
    BY <1>4, <2>1 DEF Finds, Fitting
  <2>3. i \in Fitting(size) /\ \A j \in Fitting(size) : i <= j
    BY <1>3, <2>2, MinIsLeast
  <2> QED BY <2>3 DEF Fitting
<1>7. PICK s : s = segments[i]
    OBVIOUS
<1>8. s \in Free /\ s.offset \in Nat /\ s.byteLength \in Nat /\ size <= s.byteLength /\ s.byteLength >= size
    BY <1>2, <1>5, <1>6, <1>7, ListAscends DEF Free, ToSet
<1>9. Free' = (Free \ {s}) \cup
             (IF s.byteLength = size THEN {} ELSE {Segment(s.offset + size, s.byteLength - size)})
  <2>1. ToSet(Taken(i, size)) = (Free \ {segments[i]}) \cup
              (IF segments[i].byteLength = size THEN {}
               ELSE {Segment(segments[i].offset + size, segments[i].byteLength - size)})
    BY <1>2, <1>5, <1>6, <1>7, <1>8, TakenIs
  <2>2. Free' = ToSet(segments')
    BY DEF Free
  <2> QED BY <1>4, <1>7, <2>1, <2>2
<1>10. ASSUME NEW o \in Free, o.byteLength >= size PROVE s.offset <= o.offset
  <2>1. PICK j \in DOMAIN segments : o = segments[j]
    BY DEF Free, ToSet
  <2>2. j \in Fitting(size)
    BY <1>10, <2>1 DEF Fitting
  <2>3. i <= j /\ i \in Nat /\ j \in Nat
    BY <1>5, <1>6, <2>2, ListAscends
  <2>4. i < j => s.offset < o.offset
    BY <1>5, <1>6, <1>7, <2>1, ListAscends
  <2>5. i = j => s.offset = o.offset
    BY <1>7, <2>1
  <2>6. s.offset \in Nat /\ o.offset \in Nat
    BY <1>5, <1>8, <2>1, ListAscends
  <2> QED BY ONLY <2>3, <2>4, <2>5, <2>6
<1>11. size \in 0..Top
  <2>1. s.offset + s.byteLength <= cursor
    BY <1>5, <1>8 DEF Cut, InArena, Past
  <2>2. cursor \in Nat /\ cursor <= Top /\ Top \in Nat
    BY CursorIsBelowTop, TopIs
  <2> QED BY <1>2, <1>8, <2>1, <2>2
<1>12. Store!Reuse(a, size, s)
  <2>1. Store!Lowest(s, size)
    BY <1>8, <1>10 DEF Store!Lowest, Store!Fits, Free
  <2>2. Store!HandOut(a, s.offset, size)
    BY <1>1, <1>4, <1>7 DEF Construct, Store!HandOut
  <2>3. ToSet(segments)' = (ToSet(segments) \ {s}) \cup
               (IF s.byteLength = size THEN {}
                ELSE {[offset |-> s.offset + size, byteLength |-> s.byteLength - size]})
    BY <1>9 DEF Free, Segment
  <2> QED BY <1>4, <2>1, <2>2, <2>3 DEF Store!Reuse
<1>13. s \in ToSet(segments)
    BY <1>8 DEF Free
<1> QED BY <1>11, <1>12, <1>13 DEF Store!Next, Top

\* Untouched memory is taken only when no free range fits.
LEMMA BumpIsExtend ==
    ASSUME SoundMemory, NEW a \in Allocations, NEW n \in Nat, AllocateBump(a, n)
    PROVE  Store!Next
<1>1. PICK size, end : size = Align(n) /\ end = cursor + size
    OBVIOUS
<1>2. size \in Nat /\ cursor \in Nat /\ pages \in Nat /\ end \in Nat
  <2>1. size \in Nat
    BY <1>1, AlignIs
  <2>2. cursor \in Nat /\ pages \in Nat
    BY DEF SoundMemory, Cut
  <2> QED BY <1>1, <2>1, <2>2
<1>3. /\ a \notin live /\ ~Finds(size) /\ end <= MaximumAddress
      /\ end <= pages * PageBytes \/ PagesFor(end) <= MaximumPages
      /\ cursor' = end /\ Construct(a, n, cursor) /\ segments' = segments
    BY <1>1 DEF AllocateBump
<1>4. end <= MaximumPages * PageBytes
  <2>1. pages <= MaximumPages
    BY DEF SoundMemory
  <2>2. PICK k \in Nat : k <= MaximumPages /\ end <= k * PageBytes
    BY <1>2, <1>3, <2>1, PagesForIs
  <2>3. k * PageBytes \in Nat /\ MaximumPages * PageBytes \in Nat /\ k * PageBytes <= MaximumPages * PageBytes
    BY <2>2, ConstantsAreNumbers, MultiplesAscend
  <2> QED BY <1>2, <2>2, <2>3
<1>5. end <= Top /\ Top \in Nat
    BY <1>2, <1>3, <1>4, TopIs
<1>6. ASSUME NEW s \in Free PROVE ~(s.byteLength >= size)
  <2>1. PICK j \in DOMAIN segments : s = segments[j]
    BY DEF Free, ToSet
  <2>2. s.byteLength \in Nat /\ bound \in Nat /\ s.byteLength <= bound
    BY <2>1, ListAscends DEF SoundMemory, BoundCoversSegments
  <2>3. CASE Searches(size)
    BY <1>3, <2>1, <2>3 DEF Finds, Fitting
  <2>4. CASE ~Searches(size)
    BY <1>2, <2>2, <2>4 DEF Searches
  <2> QED BY <2>3, <2>4
<1>7. size \in 0..Top /\ cursor + size <= Top
    BY <1>1, <1>2, <1>5
<1>8. Store!Extend(a, size)
  <2>1. ~\E s \in ToSet(segments) : Store!Fits(s, size)
    BY <1>6 DEF Store!Fits, Free
  <2>2. Store!HandOut(a, cursor, size)
    BY <1>1, <1>3 DEF Construct, Store!HandOut
  <2> QED BY <1>1, <1>3, <1>7, <2>1, <2>2 DEF Store!Extend, Top
<1> QED BY <1>7, <1>8 DEF Store!Next, Top

\* The bytes of the neighbour there is, if there is one.
LEMMA LengthIs ==
    ASSUME NEW S, NEW k, Neighbour(S, k)
    PROVE  Store!Length(S) = k
BY DEF Neighbour, Store!Length

\* A range that is given back joins its free neighbours.
LEMMA ReleaseIsRelease ==
    ASSUME SoundMemory, NEW a, Release(a)
    PROVE  Store!Next
<1>1. a \in live /\ cursor' = cursor /\ Cut /\ Listed(segments) /\ a \in Allocations
    BY DEF Release, SoundMemory, Cut
<1>2. PICK at, n \in Nat : at = offset[a] /\ n = reserved[a]
    BY <1>1 DEF Cut
<1>3. CASE n > 0
  <2>1. InsertFreeSegment(at, n)
    BY <1>2, <1>3 DEF Release
  <2>2. \A s \in Free : Aside(at, n, s.offset, s.byteLength)
    BY <1>1, <1>2, <1>3 DEF Cut, NoOverlap
  <2>3. PICK back, ahead \in Nat :
              /\ back <= at /\ Neighbour(Before(at), back) /\ Neighbour(After(at + n), ahead)
              /\ Listed(segments') /\ bound' = Max({bound, back + n + ahead})
              /\ Free' = (Free \ (Before(at) \cup After(at + n))) \cup {Segment(at - back, back + n + ahead)}
    BY <1>1, <1>3, <2>1, <2>2, InsertIs
  <2>4. Store!Before(at) = Before(at) /\ Store!After(at + n) = After(at + n)
    BY DEF Store!Before, Store!After, Store!End, Before, After, Past, Free
  <2>5. Store!Length(Store!Before(at)) = back /\ Store!Length(Store!After(at + n)) = ahead
    BY <2>3, <2>4, LengthIs
  <2>6. Store!Merged(at, n) = Segment(at - back, back + n + ahead)
    BY <2>5 DEF Store!Merged, Segment
  <2>7. ToSet(segments)' = (ToSet(segments) \ (Store!Before(at) \cup Store!After(at + n))) \cup {Store!Merged(at, n)}
    BY <2>3, <2>4, <2>6 DEF Free
  <2>8. Store!Release(a)
    BY <1>1, <1>2, <1>3, <2>7 DEF Release, Store!Release
  <2> QED BY <1>1, <2>8 DEF Store!Next
<1>4. CASE n = 0
  <2>1. segments' = segments
    BY <1>2, <1>4 DEF Release
  <2>2. Store!Release(a)
    BY <1>1, <1>2, <1>4, <2>1 DEF Release, Store!Release
  <2> QED BY <1>1, <2>2 DEF Store!Next
<1> QED BY <1>2, <1>3, <1>4

\* Every operation of linear memory is one of the store, or invisible to it.
LEMMA OperationImplements == ASSUME SoundMemory, Operation PROVE [Store!Next]_Store!vars
<1>1. ASSUME NEW n \in Nat, AllocateFails(n) PROVE UNCHANGED Store!vars
    BY <1>1 DEF AllocateFails, fields, Store!vars
<1> QED BY <1>1, FreeIsReuse, BumpIsExtend, ReleaseIsRelease DEF Operation

\* The list, the bound, the binary search and the growing memory of
\* linear-memory.ts implement a first-fit store: whatever the client, the lowest
\* free range that fits is taken, untouched memory only when none does, and a
\* released range joins its free neighbours.
THEOREM ImplementsFirstFitHolds == SpecInvocation => ImplementsFirstFit
<1>1. InitInvocation => Store!Init
  <2>1. segments = <<>> => ToSet(segments) = {}
    BY DEF ToSet
  <2> QED BY <2>1 DEF InitInvocation, Init, Store!Init
<1>2. SoundMemory /\ [NextInvocation]_allVars => [Store!Next]_Store!vars
  <2>1. UNCHANGED memoryVars => UNCHANGED Store!vars
    BY DEF memoryVars, fields, Store!vars
  <2> QED BY <2>1, StepOperates, OperationImplements
<1> QED BY <1>1, <1>2, SoundMemoryHolds, PTL DEF SpecInvocation, ImplementsFirstFit, Store!Spec

-----------------------------------------------------------------------------
(* The inductive invariant of invocations.                                  *)

ValueRecords == [uses : 0..2, retained : BOOLEAN, resident : BOOLEAN, at : Allocations \cup {None}]
Ends == {"none", "pending", "done", "failed"}
FlightRecords == [created : SUBSET Allocations, pins : SUBSET Allocations, busy : SUBSET Allocations,
                  result : Ends, drained : Ends, mapping : Ends]

Typed ==
    /\ device \in Devices
    /\ phase \in {"idle", "binding", "computing", "kernel", "retiring", "rollback"}
    /\ values \in Seq(ValueRecords) /\ retiring \in Seq(Nat) /\ Len(retiring) <= 2
    /\ flights \in Seq(FlightRecords)
    /\ contents \in [Allocations -> Int] /\ Existing \subseteq Allocations
    /\ created \subseteq Allocations /\ spare \subseteq created
    /\ phase = "idle" => values = <<>> /\ retiring = <<>> /\ created = {}
    /\ ~Gpu => flights = <<>> /\ created = {}
    /\ phase = "rollback" => Cpu
    /\ device = "memory" => held = {} /\ phase = "idle"

\* The entry of a value is a buffer of its own, and a resident exactly if the
\* value was one.
EntryOf(i) ==
    LET v == values[i] IN
    /\ v.at \in Existing
    /\ v.resident = (v.at \in held)
    /\ \A j \in DOMAIN values : j # i => values[j].at # v.at
    /\ Gpu /\ ~v.resident => v.at \in created /\ v.at \notin spare

\* Where the program is, and what of a value its buffer holds by then.
ValueOf(i) ==
    LET v == values[i] IN
    /\ v.at # None => EntryOf(i)
    /\ v.resident => v.at # None
    /\ phase # "rollback" /\ (v.uses > 0 \/ ~Scratch(i)) => v.at # None
    /\ phase # "rollback" /\ v.at # None =>
         \/ contents[v.at] = IF v.resident THEN Whole ELSE i
         \/ phase = "kernel" /\ i = Len(values)

\* The inputs still to complete have a use each, and the output is no resident.
Inputs ==
    /\ phase = "kernel" => values # <<>> /\ ~values[Len(values)].resident
    /\ phase \in {"kernel", "retiring"} =>
         /\ retiring # <<>>
         /\ \A k \in DOMAIN retiring :
              /\ retiring[k] \in DOMAIN values /\ values[retiring[k]].uses > 0
              /\ \A l \in DOMAIN retiring : l # k /\ retiring[l] = retiring[k] => values[retiring[k]].uses > 1

Residents == \A a \in held : a \in Existing /\ contents[a] = Whole

\* Whose the buffers are. On the CPU the program's own have no list.
OwnersOfMemory == Cpu => live = held \cup Entries
OwnersOfBuffers ==
    Gpu => /\ DOMAIN owned = held \cup created \cup UNION {flights[k].created : k \in DOMAIN flights}
           /\ created \cap held = {}

\* A flight pins residents and what it created; until it has succeeded nothing
\* it created is a resident.
FlightOf(k) ==
    LET f == flights[k] IN
    /\ f.created \cap held \subseteq f.pins
    /\ f.pins \subseteq held \cup f.created
    /\ f.result = "done" => f.pins \subseteq held
    /\ f.result # "done" => f.created \cap held = {}
    /\ f.result = "pending" => \A a \in f.pins : contents[a] = Whole
    /\ f.created \cap created = {}
    /\ \A l \in DOMAIN flights : l # k => f.created \cap flights[l].created = {}
    /\ f.busy \subseteq f.created \cup f.pins
    /\ f.drained # "pending" => f.busy = {}

IInv ==
    /\ Typed /\ Inputs /\ Residents /\ OwnersOfMemory /\ OwnersOfBuffers
    /\ \A i \in DOMAIN values : ValueOf(i)
    /\ \A k \in DOMAIN flights : FlightOf(k)

-----------------------------------------------------------------------------
(* The buffers that come and go.                                           *)

\* The next name is a new one.
LEMMA NewIsNew == New \subseteq Allocations \ Existing /\ None \notin Allocations /\ Whole \notin Allocations
BY InvocationAssumption DEF New, Names, None, Whole

\* A buffer that is obtained did not exist.
LEMMA ObtainFresh ==
    ASSUME NEW a, NEW n, Obtain(a, n), device' = device, Cpu \/ Gpu
    PROVE  a \notin Existing /\ Existing' = Existing \cup {a}
<1>1. CASE Cpu
  <2>1. a \notin live /\ live' = live \cup {a}
    BY <1>1 DEF Obtain, AllocateFree, AllocateBump, Construct
  <2> QED BY <1>1, <2>1 DEF Existing, Cpu, Gpu
<1>2. CASE Gpu
  <2>1. a \notin DOMAIN owned /\ owned' = WithBuffer(a, n)
    BY <1>2 DEF Obtain, Cpu, Gpu
  <2> QED BY <1>2, <2>1 DEF Existing, Gpu, WithBuffer
<1> QED BY <1>1, <1>2

\* A buffer the CPU returns is gone, and its contents with it.
LEMMA ReturnFrees ==
    ASSUME NEW a, Return(a), device' = device, ~Gpu
    PROVE  a \in Existing /\ Existing' = Existing \ {a} /\ contents' = Filled({a}, None)
BY DEF Return, Release, Existing, Gpu

\* The GPU destroys just the buffers it is told to.
LEMMA DestroyFrees ==
    ASSUME NEW S, Destroy(S), device' = device, Gpu
    PROVE  Existing' = Existing \ S /\ DOMAIN owned' = DOMAIN owned \ S /\ contents' = Filled(S, None)
BY DEF Destroy, Restrict, Existing, Gpu

\* Filling touches the named payloads only.
LEMMA FilledIsFilled ==
    ASSUME Typed, NEW S, NEW w \in Int
    PROVE  /\ Filled(S, w) \in [Allocations -> Int]
           /\ \A a \in Allocations : Filled(S, w)[a] = IF a \in S THEN w ELSE contents[a]
BY DEF Filled, Typed

\* The entries of a program as it grows.
LEMMA EntriesAppend ==
    ASSUME values \in Seq(ValueRecords), NEW v \in ValueRecords, values' = Append(values, v)
    PROVE  /\ Len(values') = Len(values) + 1 /\ DOMAIN values' = DOMAIN values \cup {Len(values) + 1}
           /\ Len(values) + 1 \notin DOMAIN values /\ Len(values) \in Nat
           /\ values'[Len(values) + 1] = v
           /\ \A i \in DOMAIN values : values'[i] = values[i] /\ i \in 1..Len(values)
           /\ values' \in Seq(ValueRecords)
           /\ Entries' = Entries \cup ({v.at} \ {None})
<1>1. /\ Len(values') = Len(values) + 1 /\ Len(values) \in Nat
      /\ DOMAIN values = 1..Len(values) /\ DOMAIN values' = 1..Len(values')
      /\ values'[Len(values) + 1] = v /\ values' \in Seq(ValueRecords)
      /\ \A i \in 1..Len(values) : values'[i] = values[i]
    OBVIOUS
<1>2. DOMAIN values' = DOMAIN values \cup {Len(values) + 1} /\ Len(values) + 1 \notin DOMAIN values
    BY <1>1
<1>3. Entries' = Entries \cup ({v.at} \ {None})
  <2>1. \A i \in DOMAIN values : values'[i] = values[i]
    BY <1>1
  <2> QED BY <1>1, <1>2, <2>1 DEF Entries
<1> QED BY <1>1, <1>2, <1>3

-----------------------------------------------------------------------------
(* What several steps have in common.                                      *)

\* What a flight created or pins exists, and no program that runs created it.
LEMMA FlightsAreApart ==
    ASSUME IInv, NEW k \in DOMAIN flights, NEW a \in flights[k].created \cup flights[k].pins
    PROVE  Gpu /\ a \in Existing /\ a \notin created
<1>1. Gpu
  <2>1. CASE ~Gpu
    BY <2>1 DEF IInv, Typed
  <2> QED BY <2>1
<1>2. /\ FlightOf(k) /\ Existing = DOMAIN owned
      /\ DOMAIN owned = held \cup created \cup UNION {flights[j].created : j \in DOMAIN flights}
      /\ created \cap held = {}
    BY <1>1 DEF IInv, OwnersOfBuffers, Existing
<1>3. a \in held \cup flights[k].created
    BY <1>2 DEF FlightOf
<1>4. flights[k].created \cap created = {}
    BY <1>2 DEF FlightOf
<1> QED BY <1>1, <1>2, <1>3, <1>4

\* A step of the running program leaves the flights as they are.
LEMMA FlightsFrame ==
    ASSUME IInv, UNCHANGED <<flights, held>>,
           \A k \in DOMAIN flights : created' \cap flights[k].created = {},
           \A k \in DOMAIN flights : \A a \in flights[k].pins : contents'[a] = contents[a]
    PROVE  \A k \in DOMAIN flights' : FlightOf(k)'
<1> SUFFICES ASSUME NEW k \in DOMAIN flights
             PROVE  FlightOf(k)'
    OBVIOUS
<1>1. FlightOf(k)
    BY DEF IInv
<1> QED BY <1>1 DEF FlightOf

\* A value joins the program: in a buffer that no other value has.
LEMMA ValueJoins ==
    ASSUME IInv, NEW v \in ValueRecords, values' = Append(values, v), UNCHANGED <<device, held>>,
           v.at \in Existing', v.at # None, Existing \subseteq Existing',
           \A i \in DOMAIN values : values[i].at # v.at,
           v.resident = (v.at \in held),
           Gpu /\ ~v.resident => v.at \in created' /\ v.at \notin spare',
           created \subseteq created', spare' \subseteq spare,
           \A a \in Existing : a # v.at => contents'[a] = contents[a],
           phase \in {"binding", "computing"},
           \/ phase' = "kernel"
           \/ phase' = "binding" /\ contents'[v.at] = IF v.resident THEN Whole ELSE Len(values) + 1
    PROVE  \A i \in DOMAIN values' : ValueOf(i)'
<1>1. /\ Len(values') = Len(values) + 1 /\ DOMAIN values' = DOMAIN values \cup {Len(values) + 1}
      /\ Len(values) + 1 \notin DOMAIN values /\ Len(values) \in Nat
      /\ values'[Len(values) + 1] = v
      /\ \A i \in DOMAIN values : values'[i] = values[i] /\ i \in 1..Len(values)
    BY EntriesAppend DEF IInv, Typed
<1>2. ASSUME NEW i \in DOMAIN values
      PROVE  ValueOf(i)'
  <2>1. ValueOf(i) /\ phase # "kernel" /\ phase # "rollback" /\ values'[i] = values[i]
    BY <1>1 DEF IInv
  <2>2. values[i].at # None => EntryOf(i) /\ values[i].at \in Existing /\ contents'[values[i].at] = contents[values[i].at]
    BY <2>1 DEF ValueOf, EntryOf
  <2>3. values[i].at # None => EntryOf(i)'
    <3> SUFFICES ASSUME values[i].at # None
                 PROVE  EntryOf(i)'
        OBVIOUS
    <3>1. EntryOf(i)
        BY <2>2
    <3>2. \A j \in DOMAIN values' : j # i => values'[j].at # values'[i].at
        BY <1>1, <2>1, <3>1 DEF EntryOf
    <3> QED BY <2>1, <3>1, <3>2 DEF EntryOf, Gpu
  <2>4. Scratch(i)' = Scratch(i)
    BY <2>1 DEF Scratch
  <2> QED BY <2>1, <2>2, <2>3, <2>4 DEF ValueOf
<1>3. PICK n : n = Len(values) + 1
    OBVIOUS
<1>4. ValueOf(n)'
  <2>1. EntryOf(n)'
    <3>1. \A j \in DOMAIN values' : j # n => values'[j].at # v.at
        BY <1>1, <1>3
    <3> QED BY <1>1, <1>3, <3>1 DEF EntryOf, Gpu
  <2> QED BY <1>1, <1>3, <2>1 DEF ValueOf
<1> QED BY <1>1, <1>2, <1>3, <1>4

-----------------------------------------------------------------------------
(* The steps of a program.                                                 *)

LEMMA BeginKeeps == ASSUME IInv, Begin PROVE IInv'
<1>1. Typed'
    BY DEF IInv, Typed, Begin, storeVars, memoryVars, encodeVars, outerVars, Existing, Gpu, Cpu
<1>2. \A k \in DOMAIN flights' : FlightOf(k)'
  <2>1. \A k \in DOMAIN flights : created \cap flights[k].created = {}
    BY DEF IInv, FlightOf
  <2> QED BY <2>1, FlightsFrame DEF Begin, storeVars, memoryVars, encodeVars, outerVars
<1>3. \A i \in DOMAIN values' : ValueOf(i)'
    BY DEF IInv, Typed, Begin
<1>4. Inputs' /\ Residents' /\ OwnersOfMemory' /\ OwnersOfBuffers'
    BY DEF IInv, Typed, Begin, storeVars, memoryVars, encodeVars, outerVars, Inputs, Residents, OwnersOfMemory, OwnersOfBuffers,
           Existing, Gpu, Cpu, Entries
<1> QED BY <1>1, <1>2, <1>3, <1>4 DEF IInv

\* A plan makes a value of the right kind.
LEMMA PlannedValue ==
    ASSUME NEW plan \in Plans, NEW resident \in BOOLEAN, NEW a \in Allocations
    PROVE  /\ Value(plan, resident, a) \in ValueRecords
           /\ Value(plan, resident, a).at = a /\ Value(plan, resident, a).resident = resident
<1>1. plan[1] \in 0..2 /\ plan[2] \in BOOLEAN
  <2>1. \/ plan = <<0, TRUE>> \/ plan = <<1, TRUE>>
        \/ plan = <<1, FALSE>> \/ plan = <<2, FALSE>>
    BY DEF Plans
  <2>2. 0 \in 0..2 /\ 1 \in 0..2 /\ 2 \in 0..2 /\ TRUE \in BOOLEAN /\ FALSE \in BOOLEAN
    OBVIOUS
  <2>3. CASE plan = <<0, TRUE>>
    BY <2>2, <2>3
  <2>4. CASE plan = <<1, TRUE>>
    BY <2>2, <2>4
  <2>5. CASE plan = <<1, FALSE>>
    BY <2>2, <2>5
  <2>6. CASE plan = <<2, FALSE>>
    BY <2>2, <2>6
  <2> QED BY <2>1, <2>3, <2>4, <2>5, <2>6
<1> QED BY <1>1 DEF Value, ValueRecords

\* A resident joins the program: it is whole, and no value of it yet.
LEMMA BindResidentKeeps ==
    ASSUME IInv, NEW a \in held, NEW plan, BindResident(a, plan)
    PROVE  IInv'
<1>1. /\ a \in Existing /\ a \in Allocations /\ a # None /\ contents[a] = Whole
    BY NewIsNew DEF IInv, Residents, Typed
<1>2. PICK v : v = Value(plan, TRUE, a)
    OBVIOUS
<1>3. v \in ValueRecords /\ v.at = a /\ v.resident = TRUE
    BY <1>1, <1>2, PlannedValue DEF BindResident, Binds, Planned
<1>4. /\ values' = Append(values, v) /\ phase = "binding" /\ phase' = "binding"
      /\ UNCHANGED <<storeVars, created, queuedWrites, retiring, spare, outerVars>>
      /\ \A i \in DOMAIN values : values[i].at # a
    BY <1>2 DEF BindResident, Binds
<1>5. /\ UNCHANGED <<device, held, flights, contents, created, spare, live, owned, retiring>>
      /\ Existing' = Existing /\ Gpu' = Gpu /\ Cpu' = Cpu
    BY <1>4 DEF storeVars, memoryVars, outerVars, Existing, Gpu, Cpu
<1>6. /\ values' \in Seq(ValueRecords)
      /\ Entries' = Entries \cup {a}
    BY <1>1, <1>3, <1>4, EntriesAppend DEF IInv, Typed
<1>7. Typed'
    BY <1>4, <1>5, <1>6 DEF IInv, Typed
<1>8. \A k \in DOMAIN flights' : FlightOf(k)'
  <2>1. \A k \in DOMAIN flights : created \cap flights[k].created = {}
    BY DEF IInv, FlightOf
  <2> QED BY <1>5, <2>1, FlightsFrame
<1>9. \A i \in DOMAIN values' : ValueOf(i)'
    BY <1>1, <1>3, <1>4, <1>5, ValueJoins
<1>10. Inputs' /\ Residents' /\ OwnersOfMemory' /\ OwnersOfBuffers'
    BY <1>1, <1>4, <1>5, <1>6 DEF IInv, Inputs, Residents, OwnersOfMemory, OwnersOfBuffers
<1> QED BY <1>7, <1>8, <1>9, <1>10 DEF IInv

\* Host data is uploaded to a buffer that did not exist.
LEMMA BindHostKeeps ==
    ASSUME IInv, NEW a, NEW n, NEW plan, BindHost(a, n, plan)
    PROVE  IInv'
<1>1. /\ a \in Allocations /\ a \notin Existing /\ a # None /\ a \notin held
    BY NewIsNew DEF BindHost, IInv, Residents
<1>2. PICK v : v = Value(plan, FALSE, a)
    OBVIOUS
<1>3. v \in ValueRecords /\ v.at = a /\ v.resident = FALSE
    BY <1>1, <1>2, PlannedValue DEF BindHost, Binds, Planned
<1>4. /\ values' = Append(values, v) /\ phase = "binding" /\ phase' = "binding"
      /\ UNCHANGED <<device, held, flights, spare, retiring>>
      /\ Obtain(a, n) /\ contents' = Filled({a}, Len(values) + 1)
      /\ created' = IF Cpu THEN {} ELSE created \cup {a}
    BY <1>2 DEF BindHost, Binds, outerVars
<1>5. Gpu' = Gpu /\ Cpu' = Cpu /\ (Cpu \/ Gpu) /\ ~(Cpu /\ Gpu)
    BY <1>4, InvocationAssumption DEF IInv, Typed, Gpu, Cpu
<1>6. Existing' = Existing \cup {a}
    BY <1>4, <1>5, ObtainFresh
<1>7. Len(values) \in Nat /\ Len(values) + 1 \in Int
    BY DEF IInv, Typed
<1>8. /\ contents' \in [Allocations -> Int] /\ contents'[a] = Len(values) + 1
      /\ \A b \in Allocations : b # a => contents'[b] = contents[b]
    BY <1>1, <1>4, <1>7, FilledIsFilled DEF IInv
<1>9. /\ values' \in Seq(ValueRecords)
      /\ Entries' = Entries \cup {a}
    BY <1>1, <1>3, <1>4, EntriesAppend DEF IInv, Typed
<1>10. \A i \in DOMAIN values : values[i].at # a
    BY <1>1 DEF IInv, ValueOf, EntryOf
<1>11. Typed'
    BY <1>1, <1>4, <1>5, <1>6, <1>8, <1>9 DEF IInv, Typed
<1>12. \A k \in DOMAIN flights' : FlightOf(k)'
  <2>1. \A k \in DOMAIN flights : created' \cap flights[k].created = {}
    BY <1>1, <1>4, FlightsAreApart
  <2>2. \A k \in DOMAIN flights : \A b \in flights[k].pins : contents'[b] = contents[b]
    BY <1>1, <1>8, FlightsAreApart DEF IInv, Typed
  <2> QED BY <1>4, <2>1, <2>2, FlightsFrame
<1>13. \A i \in DOMAIN values' : ValueOf(i)'
  <2>1. \A b \in Existing : b # a => contents'[b] = contents[b]
    BY <1>8 DEF IInv, Typed
  <2>2. a \notin spare /\ created \subseteq created' /\ (Gpu => a \in created')
    BY <1>1, <1>4, <1>5 DEF IInv, Typed, Existing, OwnersOfBuffers
  <2>3. v.resident = (v.at \in held)
    <3>1. ~(v.at \in held) /\ v.resident = FALSE
        BY <1>1, <1>3
    <3>2. (v.at \in held) = FALSE
        BY <3>1
    <3> QED BY <3>1, <3>2
  <2>4. /\ v.at \in Existing' /\ v.at # None /\ Existing \subseteq Existing'
        /\ \A i \in DOMAIN values : values[i].at # v.at
        /\ contents'[v.at] = IF v.resident THEN Whole ELSE Len(values) + 1
        /\ \A b \in Existing : b # v.at => contents'[b] = contents[b]
    BY <1>1, <1>3, <1>6, <1>8, <1>10, <2>1
  <2>5. /\ Gpu /\ ~v.resident => v.at \in created' /\ v.at \notin spare'
        /\ created \subseteq created' /\ spare' \subseteq spare
    BY <1>3, <1>4, <2>2
  <2> QED BY <1>3, <1>4, <2>3, <2>4, <2>5, ValueJoins
<1>14. Inputs' /\ Residents'
    BY <1>1, <1>4, <1>6, <1>8 DEF IInv, Inputs, Residents, Typed
<1>15. OwnersOfMemory'
    BY <1>1, <1>4, <1>5, <1>6, <1>9 DEF IInv, OwnersOfMemory, Existing
<1>16. OwnersOfBuffers'
  <2> SUFFICES ASSUME Gpu
               PROVE  /\ DOMAIN owned' = held \cup created' \cup UNION {flights[k].created : k \in DOMAIN flights}
                      /\ created' \cap held = {}
    BY <1>4, <1>5 DEF OwnersOfBuffers
  <2>1. DOMAIN owned' = DOMAIN owned \cup {a} /\ created' = created \cup {a}
    BY <1>4, <1>5, <1>6 DEF Existing
  <2> QED BY <1>1, <2>1 DEF IInv, OwnersOfBuffers
<1> QED BY <1>11, <1>12, <1>13, <1>14, <1>15, <1>16 DEF IInv

\* The inputs of an operation have a use each, and two for one that is both.
LEMMA InputListsAreUsed ==
    ASSUME IInv, NEW inputs \in InputLists
    PROVE  /\ inputs \in Seq(Nat) /\ inputs # <<>> /\ Len(inputs) <= 2
           /\ \A k \in DOMAIN inputs :
                /\ inputs[k] \in DOMAIN values /\ values[inputs[k]].uses > 0
                /\ \A l \in DOMAIN inputs : l # k /\ inputs[l] = inputs[k] => values[inputs[k]].uses > 1
<1> DEFINE used == {i \in DOMAIN values : values[i].uses > 0}
<1>1. \A i \in used : i \in Nat /\ i \in DOMAIN values /\ values[i].uses > 0
    BY DEF IInv, Typed
<1>2. CASE \E i \in used : inputs = <<i>>
    BY <1>1, <1>2
<1>3. CASE \E p \in {q \in used \X used : q[1] = q[2] => values[q[1]].uses > 1} : inputs = <<p[1], p[2]>>
  <2>1. PICK p \in used \X used : (p[1] = p[2] => values[p[1]].uses > 1) /\ inputs = <<p[1], p[2]>>
    BY <1>3
  <2>2. p[1] \in used /\ p[2] \in used
    OBVIOUS
  <2>3. Len(inputs) = 2 /\ DOMAIN inputs = {1, 2} /\ inputs[1] = p[1] /\ inputs[2] = p[2] /\ inputs \in Seq(Nat)
    BY <1>1, <2>1, <2>2
  <2>4. inputs # <<>>
    BY <2>1
  <2> HIDE DEF used
  <2> QED BY <1>1, <2>1, <2>2, <2>3, <2>4
<1> QED BY <1>2, <1>3 DEF InputLists

\* An output takes a buffer that did not exist, or a spare one of the program.
LEMMA ReserveKeeps ==
    ASSUME IInv, phase \in {"binding", "computing"},
           NEW inputs \in InputLists, NEW a \in New \cup spare, NEW n, NEW plan, Reserve(inputs, a, n, plan)
    PROVE  IInv'
<1>1. /\ plan \in Plans /\ spare' = spare \ {a} /\ created' = (IF Cpu THEN {} ELSE created \cup {a})
      /\ retiring' = inputs /\ phase' = "kernel"
      /\ UNCHANGED <<contents, device, held, flights>>
      /\ values' = Append(values, Value(plan, FALSE, a))
    BY DEF Reserve, Planned, outerVars
<1>2. Gpu' = Gpu /\ Cpu' = Cpu /\ (Cpu \/ Gpu) /\ ~(Cpu /\ Gpu)
    BY <1>1, InvocationAssumption DEF IInv, Typed, Gpu, Cpu
<1>3. /\ a \in Allocations /\ a # None /\ a \notin held
      /\ Existing' = Existing \cup {a} /\ (Cpu => a \notin Existing)
      /\ \A i \in DOMAIN values : values[i].at # a
      /\ \A k \in DOMAIN flights : a \notin flights[k].created
  <2>1. CASE Fits(n) # {} /\ a \in Fits(n) /\ UNCHANGED <<memoryVars, owned>>
    <3>1. a \in spare /\ a \in created /\ Gpu
        BY <2>1, <1>2 DEF Fits, IInv, Typed
    <3>2. a \in Existing /\ a \notin held /\ Existing' = Existing /\ a \in Allocations /\ a # None
        BY <3>1, <2>1, <1>2, NewIsNew DEF IInv, OwnersOfBuffers, Existing, memoryVars, Typed
    <3>3. \A i \in DOMAIN values : values[i].at # a
        BY <3>1, <3>2 DEF IInv, ValueOf, EntryOf
    <3>4. \A k \in DOMAIN flights : a \notin flights[k].created
        BY <3>1 DEF IInv, FlightOf
    <3> QED BY <3>1, <3>2, <3>3, <3>4, <1>2
  <2>2. CASE a \in New /\ Obtain(a, n)
    <3>1. a \in Allocations /\ a # None /\ a \notin Existing
        BY <2>2, NewIsNew
    <3>2. Existing' = Existing \cup {a}
        BY <1>1, <1>2, <2>2, ObtainFresh
    <3>3. a \notin held /\ \A i \in DOMAIN values : values[i].at # a
        BY <3>1 DEF IInv, Residents, ValueOf, EntryOf
    <3>4. \A k \in DOMAIN flights : a \notin flights[k].created
        BY <3>1, FlightsAreApart
    <3> QED BY <3>1, <3>2, <3>3, <3>4
  <2> QED BY <2>1, <2>2 DEF Reserve
<1>4. PICK v : v = Value(plan, FALSE, a)
    OBVIOUS
<1>5. v \in ValueRecords /\ v.at = a /\ v.resident = FALSE /\ values' = Append(values, v)
    BY <1>1, <1>3, <1>4, PlannedValue
<1>6. /\ Len(values') = Len(values) + 1 /\ DOMAIN values' = DOMAIN values \cup {Len(values) + 1}
      /\ Len(values) \in Nat /\ values'[Len(values) + 1] = v
      /\ \A i \in DOMAIN values : values'[i] = values[i]
      /\ values' \in Seq(ValueRecords) /\ Entries' = Entries \cup {a}
    BY <1>3, <1>5, EntriesAppend DEF IInv, Typed
<1>7. Typed'
  <2>1. spare' \subseteq created' /\ created' \subseteq Allocations
    BY <1>1, <1>2, <1>3 DEF IInv, Typed
  <2> QED BY <1>1, <1>2, <1>3, <1>6, <2>1, InputListsAreUsed DEF IInv, Typed
<1>8. \A k \in DOMAIN flights' : FlightOf(k)'
  <2>1. \A k \in DOMAIN flights : created' \cap flights[k].created = {}
    BY <1>1, <1>3 DEF IInv, FlightOf
  <2> QED BY <1>1, <2>1, FlightsFrame
<1>9. \A i \in DOMAIN values' : ValueOf(i)'
  <2>1. ~(v.at \in held) /\ v.resident = FALSE
    BY <1>3, <1>5
  <2>2. v.resident = (v.at \in held)
    BY <2>1, (v.at \in held) = FALSE
  <2>3. /\ v.at \in Existing' /\ v.at # None /\ Existing \subseteq Existing'
        /\ \A i \in DOMAIN values : values[i].at # v.at
        /\ \A b \in Existing : b # v.at => contents'[b] = contents[b]
    BY <1>1, <1>3, <1>5
  <2>4. /\ Gpu /\ ~v.resident => v.at \in created' /\ v.at \notin spare'
        /\ created \subseteq created' /\ spare' \subseteq spare
    BY <1>1, <1>2, <1>5 DEF IInv, Typed
  <2> QED BY <1>1, <1>5, <2>2, <2>3, <2>4, ValueJoins
<1>10. Inputs'
  <2>1. /\ inputs # <<>>
        /\ \A k \in DOMAIN inputs :
             /\ inputs[k] \in DOMAIN values /\ values[inputs[k]].uses > 0
             /\ \A l \in DOMAIN inputs : l # k /\ inputs[l] = inputs[k] => values[inputs[k]].uses > 1
    BY InputListsAreUsed
  <2>2. values' # <<>> /\ ~values'[Len(values')].resident
    BY <1>5, <1>6
  <2>3. \A k \in DOMAIN inputs : inputs[k] \in DOMAIN values' /\ values'[inputs[k]] = values[inputs[k]]
    BY <1>6, <2>1
  <2> QED BY <1>1, <2>1, <2>2, <2>3 DEF Inputs
<1>11. Residents' /\ OwnersOfMemory'
  <2>1. Residents'
    BY <1>1, <1>3 DEF IInv, Residents
  <2>2. Cpu => live' = live \cup {a}
    BY <1>2, <1>3 DEF Existing
  <2> QED BY <1>1, <1>2, <1>6, <2>1, <2>2 DEF IInv, OwnersOfMemory
<1>12. OwnersOfBuffers'
  <2> SUFFICES ASSUME Gpu
               PROVE  /\ DOMAIN owned' = held \cup created' \cup UNION {flights[k].created : k \in DOMAIN flights}
                      /\ created' \cap held = {}
    BY <1>1, <1>2 DEF OwnersOfBuffers
  <2>1. DOMAIN owned' = DOMAIN owned \cup {a} /\ created' = created \cup {a}
    BY <1>1, <1>2, <1>3 DEF Existing
  <2> QED BY <1>3, <2>1 DEF IInv, OwnersOfBuffers
<1> QED BY <1>7, <1>8, <1>9, <1>10, <1>11, <1>12 DEF IInv

\* A full memory changes nothing but the way to go on.
LEMMA ExhaustedKeeps == ASSUME IInv, NEW n, Exhausted(n) PROVE IInv'
<1>1. /\ Cpu /\ phase \in {"binding", "computing"} /\ phase' = "rollback" /\ live' = live
      /\ UNCHANGED <<owned, contents, values, retiring, created, spare, device, held, flights>>
    BY DEF Exhausted, AllocateFails, encodeVars, outerVars
<1>2. Existing' = Existing /\ Cpu' = Cpu /\ Gpu' = Gpu /\ ~Gpu /\ flights = <<>>
    BY <1>1 DEF Existing, Cpu, Gpu, IInv, Typed
<1>3. Typed'
    BY <1>1, <1>2 DEF IInv, Typed, Cpu
<1>4. \A k \in DOMAIN flights' : FlightOf(k)'
    BY <1>1, <1>2
<1>5. \A i \in DOMAIN values' : ValueOf(i)'
    BY <1>1, <1>2 DEF IInv, ValueOf, EntryOf
<1>6. Inputs' /\ Residents' /\ OwnersOfMemory' /\ OwnersOfBuffers'
    BY <1>1, <1>2 DEF IInv, Inputs, Residents, OwnersOfMemory, OwnersOfBuffers, Entries
<1> QED BY <1>3, <1>4, <1>5, <1>6 DEF IInv

\* Nor does a kernel that fails.
LEMMA KernelFailsKeeps == ASSUME IInv, KernelFails PROVE IInv'
<1>1. /\ Cpu /\ phase = "kernel" /\ phase' = "rollback" /\ live' = live
      /\ UNCHANGED <<owned, contents, values, retiring, created, spare, device, held, flights>>
    BY DEF KernelFails, storeVars, memoryVars, encodeVars
<1>2. Existing' = Existing /\ Cpu' = Cpu /\ Gpu' = Gpu /\ ~Gpu /\ flights = <<>>
    BY <1>1 DEF Existing, Cpu, Gpu, IInv, Typed
<1>3. Typed'
    BY <1>1, <1>2 DEF IInv, Typed, Cpu
<1>4. \A k \in DOMAIN flights' : FlightOf(k)'
    BY <1>1, <1>2
<1>5. \A i \in DOMAIN values' : ValueOf(i)'
    BY <1>1, <1>2 DEF IInv, ValueOf, EntryOf
<1>6. Inputs' /\ Residents' /\ OwnersOfMemory' /\ OwnersOfBuffers'
    BY <1>1, <1>2 DEF IInv, Inputs, Residents, OwnersOfMemory, OwnersOfBuffers, Entries
<1> QED BY <1>3, <1>4, <1>5, <1>6 DEF IInv

\* A kernel fills its output, which no other value has, and may make a parameter
\* buffer of its own.
LEMMA KernelKeeps == ASSUME IInv, Kernel PROVE IInv'
<1> DEFINE last == Len(values)
<1>1. /\ phase = "kernel" /\ phase' = "retiring" /\ contents' = Filled({Output}, Len(values))
      /\ UNCHANGED <<values, retiring, spare, device, held, flights, live>>
    BY DEF Kernel, memoryVars, outerVars
<1>2. Gpu' = Gpu /\ Cpu' = Cpu /\ (Gpu => ~Cpu)
    BY <1>1 DEF Gpu, Cpu
<1>3. PICK B \in SUBSET (Allocations \ Existing) :
        /\ Existing' = Existing \cup B /\ created' = created \cup B
        /\ Gpu => DOMAIN owned' = DOMAIN owned \cup B
        /\ ~Gpu => B = {}
  <2>1. CASE UNCHANGED <<owned, created, queuedWrites>>
    <3>1. Existing' = Existing \cup {} /\ created' = created \cup {} /\ DOMAIN owned' = DOMAIN owned \cup {}
        BY <1>1, <2>1 DEF Existing, Gpu
    <3> QED BY <3>1
  <2>2. CASE \E b \in New : Gpu /\ owned' = WithBuffer(b, 16) /\ created' = created \cup {b}
    <3>1. PICK b \in New : Gpu /\ owned' = WithBuffer(b, 16) /\ created' = created \cup {b}
        BY <2>2
    <3>2. DOMAIN owned' = DOMAIN owned \cup {b} /\ Existing' = Existing \cup {b}
        BY <1>2, <3>1 DEF WithBuffer, Existing
    <3>3. {b} \in SUBSET (Allocations \ Existing)
        BY NewIsNew
    <3> QED BY <3>1, <3>2, <3>3
  <2> QED BY <2>1, <2>2 DEF Kernel
<1>4. /\ last \in DOMAIN values /\ last \in Int /\ values[last].resident = FALSE /\ ValueOf(last)
      /\ Output = values[last].at
    BY <1>1 DEF IInv, Inputs, Typed, Output, ValueRecords
<1>5. /\ contents' \in [Allocations -> Int]
      /\ \A b \in Allocations : contents'[b] = IF b = Output THEN last ELSE contents[b]
    BY <1>1, <1>4, FilledIsFilled DEF IInv
<1>6. Output # None => Output \in Existing /\ Output \in Allocations /\ Output \notin held /\ (Gpu => Output \in created)
  <2> SUFFICES ASSUME Output # None
               PROVE  Output \in Existing /\ Output \in Allocations /\ Output \notin held /\ (Gpu => Output \in created)
    OBVIOUS
  <2>1. EntryOf(last)
    BY <1>4 DEF ValueOf
  <2> QED BY <1>4, <2>1 DEF EntryOf, IInv, Typed
<1>7. \A b \in held : b # Output /\ contents'[b] = contents[b] /\ b \in Existing
  <2>1. \A b \in held : b \in Existing /\ b \in Allocations /\ b # None
    BY NewIsNew DEF IInv, Residents, Typed
  <2> QED BY <1>5, <1>6, <2>1
<1>8. Typed'
    BY <1>1, <1>2, <1>3, <1>5 DEF IInv, Typed
<1>9. \A k \in DOMAIN flights' : FlightOf(k)'
  <2>1. \A k \in DOMAIN flights : created' \cap flights[k].created = {}
    BY <1>3, FlightsAreApart
  <2>2. \A k \in DOMAIN flights : \A b \in flights[k].pins : contents'[b] = contents[b]
    <3> SUFFICES ASSUME NEW k \in DOMAIN flights, NEW b \in flights[k].pins
                 PROVE  contents'[b] = contents[b]
        OBVIOUS
    <3>1. Gpu /\ b \in Existing /\ b \notin created
        BY FlightsAreApart
    <3>2. b \in Allocations /\ b # None
        BY <3>1, NewIsNew DEF IInv, Typed
    <3> QED BY <1>5, <1>6, <3>1, <3>2
  <2> QED BY <1>1, <2>1, <2>2, FlightsFrame
<1>10. \A i \in DOMAIN values' : ValueOf(i)'
  <2> SUFFICES ASSUME NEW i \in DOMAIN values
               PROVE  ValueOf(i)'
    BY <1>1
  <2>1. ValueOf(i) /\ values[i] \in ValueRecords
    BY DEF IInv, Typed
  <2>2. values[i].at # None => EntryOf(i)'
    <3> SUFFICES ASSUME values[i].at # None
                 PROVE  EntryOf(i)'
        OBVIOUS
    <3>1. EntryOf(i)
        BY <2>1 DEF ValueOf
    <3> QED BY <1>1, <1>2, <1>3, <3>1 DEF EntryOf
  <2>3. values[i].at # None => contents'[values[i].at] = IF values[i].resident THEN Whole ELSE i
    <3> SUFFICES ASSUME values[i].at # None
                 PROVE  contents'[values[i].at] = IF values[i].resident THEN Whole ELSE i
        OBVIOUS
    <3>1. EntryOf(i) /\ values[i].at \in Allocations
        BY <2>1 DEF ValueOf, ValueRecords
    <3>2. CASE i = last
        BY <1>4, <1>5, <3>1, <3>2
    <3>3. CASE i # last
        <4>1. values[i].at # Output
            BY <1>4, <3>1, <3>3 DEF EntryOf
        <4> QED BY <1>1, <1>5, <2>1, <3>1, <3>3, <4>1 DEF ValueOf
    <3> QED BY <3>2, <3>3
  <2>4. Scratch(i)' = Scratch(i)
    BY <1>1 DEF Scratch
  <2> QED BY <1>1, <2>1, <2>2, <2>3, <2>4 DEF ValueOf
<1>11. Inputs' /\ Residents' /\ OwnersOfMemory'
    BY <1>1, <1>2, <1>3, <1>7 DEF IInv, Inputs, Residents, OwnersOfMemory, Entries
<1>12. OwnersOfBuffers'
  <2> SUFFICES ASSUME Gpu
               PROVE  /\ DOMAIN owned' = held \cup created' \cup UNION {flights[k].created : k \in DOMAIN flights}
                      /\ created' \cap held = {}
    BY <1>1, <1>2 DEF OwnersOfBuffers
  <2> QED BY <1>3, <1>7 DEF IInv, OwnersOfBuffers
<1> QED BY <1>8, <1>9, <1>10, <1>11, <1>12 DEF IInv

\* The first of the inputs still to complete, and what is left of them.
LEMMA RetiringTail ==
    ASSUME NEW s \in Seq(Nat), s # <<>>, Len(s) <= 2
    PROVE  /\ Head(s) = s[1] /\ 1 \in DOMAIN s /\ Tail(s) \in Seq(Nat) /\ Len(Tail(s)) = Len(s) - 1
           /\ \A k \in DOMAIN Tail(s) : k = 1 /\ Len(s) = 2 /\ 2 \in DOMAIN s /\ Tail(s)[1] = s[2]
           /\ Len(s) \in Nat /\ (Len(s) # 1 => Tail(s) # <<>>)
<1>1. /\ Len(s) \in 1..2 /\ DOMAIN s = 1..Len(s) /\ Head(s) = s[1]
      /\ Tail(s) \in Seq(Nat) /\ Len(Tail(s)) = Len(s) - 1 /\ DOMAIN Tail(s) = 1..(Len(s) - 1)
      /\ \A k \in 1..(Len(s) - 1) : Tail(s)[k] = s[k + 1]
  <2>1. Len(s) \in Nat /\ Len(s) # 0 /\ DOMAIN s = 1..Len(s) /\ Head(s) = s[1]
    OBVIOUS
  <2>2. Tail(s) \in Seq(Nat) /\ Len(Tail(s)) = Len(s) - 1
    BY HeadTailProperties
  <2>3. \A k \in 1..(Len(s) - 1) : Tail(s)[k] = s[k + 1]
    BY HeadTailProperties, <2>2
  <2>4. DOMAIN Tail(s) = 1..(Len(s) - 1)
    BY <2>2
  <2> QED BY <2>1, <2>2, <2>3, <2>4
<1>2. \A k \in DOMAIN Tail(s) : k = 1 /\ Len(s) = 2
    BY <1>1
<1>3. \A k \in DOMAIN Tail(s) : Tail(s)[1] = s[2] /\ 2 \in DOMAIN s
    BY <1>1, <1>2
<1>4. Len(s) # 1 => Tail(s) # <<>>
    BY <1>1
<1> QED BY <1>1, <1>2, <1>3, <1>4

\* An input gives up its buffer only with its last use, and only if nobody else owns it.
LEMMA CompleteInputUseKeeps == ASSUME IInv, CompleteInputUse PROVE IInv'
<1>1. PICK i, a, last :
        /\ i = Head(retiring) /\ a = values[i].at
        /\ last = (values[i].uses = 1 /\ Scratch(i))
        /\ phase = "retiring"
        /\ values' = [values EXCEPT ![i].uses = @ - 1, ![i].at = IF last THEN None ELSE @]
        /\ retiring' = Tail(retiring)
        /\ phase' = IF Len(retiring) = 1 THEN "computing" ELSE phase
        /\ spare' = IF last /\ Gpu THEN spare \cup {a} ELSE spare
        /\ IF last /\ Cpu THEN Return(a) ELSE UNCHANGED storeVars
        /\ UNCHANGED <<created, device, held, flights>>
    BY DEF CompleteInputUse, outerVars
<1>2. /\ i \in DOMAIN values /\ values[i].uses > 0 /\ values[i] \in ValueRecords /\ ValueOf(i)
      /\ retiring # <<>> /\ retiring \in Seq(Nat) /\ Len(retiring) <= 2 /\ values \in Seq(ValueRecords)
      /\ i = retiring[1] /\ 1 \in DOMAIN retiring
    BY <1>1, RetiringTail DEF IInv, Inputs, Typed
<1>3. /\ Gpu' = Gpu /\ Cpu' = Cpu /\ ~(Cpu /\ Gpu)
      /\ Cpu \/ Gpu
    BY <1>1, InvocationAssumption DEF IInv, Typed, Gpu, Cpu
<1>4. a # None /\ EntryOf(i) /\ a \in Existing /\ a \in Allocations
    BY <1>1, <1>2 DEF ValueOf, EntryOf, ValueRecords
<1>5. PICK w \in ValueRecords :
        /\ w.uses = values[i].uses - 1 /\ w.at = (IF last THEN None ELSE a)
        /\ w.retained = values[i].retained /\ w.resident = values[i].resident
        /\ values' = [values EXCEPT ![i] = w]
  <2>1. PICK w : w = [[values[i] EXCEPT !.uses = @ - 1] EXCEPT !.at = IF last THEN None ELSE @]
    OBVIOUS
  <2>2. w = [uses |-> values[i].uses - 1, retained |-> values[i].retained,
             resident |-> values[i].resident, at |-> IF last THEN None ELSE a]
    <3>1. PICK u : u = [values[i] EXCEPT !.uses = @ - 1]
        OBVIOUS
    <3>2. u = [uses |-> values[i].uses - 1, retained |-> values[i].retained,
               resident |-> values[i].resident, at |-> a]
        BY <1>1, <1>2, <3>1 DEF ValueRecords
    <3>3. w = [u EXCEPT !.at = IF last THEN None ELSE @]
        BY <2>1, <3>1
    <3> QED BY <3>2, <3>3
  <2>3. w \in ValueRecords
    <3>1. /\ values[i].uses - 1 \in 0..2 /\ values[i].retained \in BOOLEAN /\ values[i].resident \in BOOLEAN
          /\ (IF last THEN None ELSE a) \in Allocations \cup {None}
        BY <1>2, <1>4 DEF ValueRecords
    <3> QED BY <2>2, <3>1 DEF ValueRecords
  <2>4. values' = [values EXCEPT ![i] = w]
    BY <1>1, <2>1, Zenon
  <2> QED BY <2>2, <2>3, <2>4
<1>6. /\ values' \in Seq(ValueRecords) /\ DOMAIN values' = DOMAIN values /\ Len(values') = Len(values)
      /\ values'[i] = w /\ \A j \in DOMAIN values : j # i => values'[j] = values[j]
    BY <1>2, <1>5
<1>7. PICK R \in SUBSET {a} :
        /\ Existing' = Existing \ R /\ (Cpu => live' = live \ R) /\ DOMAIN owned' = DOMAIN owned
        /\ R = IF last /\ Cpu THEN {a} ELSE {}
        /\ \A b \in Allocations : b \notin R => contents'[b] = contents[b]
        /\ contents' \in [Allocations -> Int]
  <2>1. CASE last /\ Cpu
    <3>1. ~Gpu /\ Return(a)
        BY <1>1, <1>3, <2>1
    <3>2. a \in Existing /\ Existing' = Existing \ {a} /\ contents' = Filled({a}, None)
        BY <1>1, <3>1, ReturnFrees
    <3>3. live' = live \ {a} /\ owned' = owned
        BY <3>1 DEF Return, Release
    <3>4. /\ contents' \in [Allocations -> Int]
          /\ \A b \in Allocations : b # a => contents'[b] = contents[b]
        BY <3>2, None \in Int, FilledIsFilled DEF IInv, None
    <3> QED BY <2>1, <3>2, <3>3, <3>4
  <2>2. CASE ~(last /\ Cpu)
    <3>1. UNCHANGED <<live, owned, contents>>
        BY <1>1, <2>2 DEF storeVars, memoryVars
    <3>2. Existing' = Existing \ {} /\ live' = live \ {} /\ contents' \in [Allocations -> Int]
        BY <1>3, <3>1 DEF Existing, IInv, Typed
    <3> QED BY <2>2, <3>1, <3>2
  <2> QED BY <2>1, <2>2
<1>8. last => ~values[i].resident /\ a \notin held /\ (Gpu => a \in created /\ a \notin spare) /\ values[i].uses = 1
              /\ ~values[i].retained
  <2> SUFFICES ASSUME last
               PROVE  ~values[i].resident /\ a \notin held /\ (Gpu => a \in created /\ a \notin spare) /\ values[i].uses = 1
                      /\ ~values[i].retained
    OBVIOUS
  <2>1. values[i].uses = 1 /\ ~values[i].resident /\ ~values[i].retained
    BY <1>1 DEF Scratch
  <2> QED BY <1>1, <1>4, <2>1 DEF EntryOf
<1>9. \A b \in held : b \notin R /\ b \in Allocations /\ b \in Existing
  <2>1. \A b \in held : b \in Existing /\ b \in Allocations
    BY DEF IInv, Residents, Typed
  <2> QED BY <1>7, <1>8, <2>1
<1>10. Typed'
  <2>1. spare' \subseteq created' /\ phase' \in {"computing", "retiring"}
    BY <1>1, <1>8 DEF IInv, Typed
  <2>2. retiring' \in Seq(Nat) /\ Len(retiring') <= 2
    BY <1>1, <1>2, RetiringTail
  <2>3. Existing' \subseteq Allocations
    BY <1>7 DEF IInv, Typed
  <2> QED BY <1>1, <1>3, <1>6, <1>7, <2>1, <2>2, <2>3 DEF IInv, Typed
<1>11. \A k \in DOMAIN flights' : FlightOf(k)'
  <2>1. \A k \in DOMAIN flights : created' \cap flights[k].created = {}
    BY <1>1 DEF IInv, FlightOf
  <2>2. \A k \in DOMAIN flights : \A b \in flights[k].pins : contents'[b] = contents[b]
    BY <1>3, <1>7, FlightsAreApart DEF IInv, Typed
  <2> QED BY <1>1, <2>1, <2>2, FlightsFrame
<1>12. ASSUME NEW j \in DOMAIN values
       PROVE  ValueOf(j)'
  <2>1. ValueOf(j) /\ values[j] \in ValueRecords /\ phase' # "rollback" /\ phase = "retiring" /\ phase' # "kernel"
    BY <1>1, <1>2 DEF IInv
  <2>2. CASE j # i
    <3>1. values'[j] = values[j] /\ Scratch(j)' = Scratch(j)
        BY <1>6, <2>2 DEF Scratch
    <3>2. values[j].at # None => EntryOf(j) /\ values[j].at # a /\ values[j].at \in Allocations
        BY <1>1, <1>2, <2>1, <2>2 DEF ValueOf, EntryOf, ValueRecords
    <3>3. values[j].at # None => EntryOf(j)'
        <4> SUFFICES ASSUME values[j].at # None
                     PROVE  EntryOf(j)'
            OBVIOUS
        <4>1. EntryOf(j) /\ values[j].at # a
            BY <3>2
        <4>2. values[j].at \in Existing' /\ (values[j].at \in spare' => values[j].at \in spare)
            BY <1>1, <1>7, <4>1 DEF EntryOf
        <4>3. \A l \in DOMAIN values : l # j => values'[l].at # values[j].at
            BY <1>4, <1>5, <1>6, <4>1 DEF EntryOf
        <4> QED BY <1>1, <1>3, <1>6, <3>1, <4>1, <4>2, <4>3 DEF EntryOf
    <3>4. values[j].at # None => contents'[values[j].at] = contents[values[j].at]
        BY <1>7, <3>2
    <3> QED BY <2>1, <3>1, <3>2, <3>3, <3>4 DEF ValueOf
  <2>3. CASE j = i /\ last
    <3>1. values'[i].at = None /\ ~values'[i].resident /\ values'[i].uses = 0 /\ ~values'[i].retained
        BY <1>5, <1>6, <1>8, <2>3
    <3> QED BY <2>3, <3>1 DEF ValueOf, Scratch
  <2>4. CASE j = i /\ ~last
    <3>1. values'[i].at = a /\ values'[i].resident = values[i].resident /\ R = {}
        BY <1>5, <1>6, <1>7, <2>4
    <3>2. \A l \in DOMAIN values : l # i => values'[l].at # a
        BY <1>1, <1>4, <1>6 DEF EntryOf
    <3>3. EntryOf(i)'
        BY <1>1, <1>3, <1>4, <1>6, <1>7, <2>4, <3>1, <3>2 DEF EntryOf
    <3>4. contents'[a] = IF values[i].resident THEN Whole ELSE i
        BY <1>1, <1>2, <1>4, <1>7, <2>1, <3>1 DEF ValueOf
    <3> QED BY <1>4, <2>4, <3>1, <3>3, <3>4 DEF ValueOf
  <2> QED BY <2>2, <2>3, <2>4
<1>13. Inputs'
  <2>1. phase' # "kernel"
    BY <1>1
  <2>2. ASSUME phase' \in {"kernel", "retiring"}, NEW k \in DOMAIN retiring'
        PROVE  /\ retiring'[k] \in DOMAIN values' /\ values'[retiring'[k]].uses > 0
               /\ \A l \in DOMAIN retiring' : l = k
    <3>1. k = 1 /\ 2 \in DOMAIN retiring /\ retiring'[1] = retiring[2]
        BY <1>1, <1>2, RetiringTail
    <3>2. /\ retiring[2] \in DOMAIN values /\ values[retiring[2]].uses > 0
          /\ retiring[2] = i => values[i].uses > 1
        BY <1>1, <1>2, <3>1 DEF IInv, Inputs
    <3>3. \A l \in DOMAIN retiring' : l = k
        BY <1>1, <1>2, <3>1, RetiringTail
    <3>4. values'[retiring[2]].uses > 0
        <4>1. CASE retiring[2] = i
            BY <1>2, <1>5, <1>6, <3>2, <4>1 DEF ValueRecords
        <4>2. CASE retiring[2] # i
            BY <1>6, <3>2, <4>2
        <4> QED BY <4>1, <4>2
    <3> QED BY <1>6, <3>1, <3>2, <3>3, <3>4
  <2>3. phase' = "retiring" => retiring' # <<>>
    BY <1>1, <1>2, RetiringTail
  <2> QED BY <2>1, <2>2, <2>3 DEF Inputs
<1>14. Residents'
  <2> SUFFICES ASSUME NEW b \in held
               PROVE  b \in Existing' /\ contents'[b] = Whole
    BY <1>1 DEF Residents
  <2> QED BY <1>7, <1>9 DEF IInv, Residents
<1>15. OwnersOfMemory'
  <2> SUFFICES ASSUME Cpu
               PROVE  live' = held \cup Entries'
    BY <1>1, <1>3 DEF OwnersOfMemory
  <2>1. live = held \cup Entries /\ live' = live \ R
    BY <1>7 DEF IInv, OwnersOfMemory
  <2>2. CASE last
    <3>1. Entries' = Entries \ {a}
        <4>1. \A j \in DOMAIN values : j # i => values[j].at # a
            BY <1>1, <1>4 DEF EntryOf
        <4>2. values'[i].at = None /\ values[i].at = a /\ a # None
            BY <1>1, <1>4, <1>5, <1>6, <2>2
        <4>3. ASSUME NEW e
              PROVE  e \in Entries' <=> e \in Entries \ {a}
            <5>1. e \in Entries' <=> e # None /\ \E j \in DOMAIN values : values'[j].at = e
                BY <1>6 DEF Entries
            <5>2. e \in Entries <=> e # None /\ \E j \in DOMAIN values : values[j].at = e
                BY DEF Entries
            <5> QED BY <1>2, <1>6, <4>1, <4>2, <5>1, <5>2
        <4> QED BY <4>3
    <3> QED BY <1>7, <1>8, <2>1, <2>2, <3>1
  <2>3. CASE ~last
    <3>1. Entries' = Entries
        <4>1. \A j \in DOMAIN values : values'[j].at = values[j].at
            BY <1>1, <1>5, <1>6, <2>3
        <4> QED BY <1>6, <4>1 DEF Entries
    <3> QED BY <1>7, <2>1, <2>3, <3>1
  <2> QED BY <2>2, <2>3
<1>16. OwnersOfBuffers'
    BY <1>1, <1>3, <1>7 DEF IInv, OwnersOfBuffers
<1> QED BY <1>6, <1>10, <1>11, <1>12, <1>13, <1>14, <1>15, <1>16 DEF IInv

\* Nothing of a program is left.
LEMMA ForgotValues ==
    ASSUME Forget
    PROVE  /\ \A i \in DOMAIN values' : ValueOf(i)'
           /\ Inputs' /\ Entries' = {} /\ values' = <<>> /\ retiring' = <<>>
           /\ created' = {} /\ spare' = {} /\ phase' = "idle"
BY DEF Forget, Inputs, Entries

\* A result hands its buffers to the residents; nothing else of the program is left.
LEMMA PublishKeeps == ASSUME IInv, Publish PROVE IInv'
<1>1. /\ Cpu /\ held' = held \cup Entries /\ contents' = Filled(Entries, Whole) /\ Forget
      /\ UNCHANGED <<live, owned, device, flights>>
    BY DEF Publish, memoryVars
<1>2. Cpu' = Cpu /\ ~Gpu /\ Gpu' = Gpu /\ flights = <<>> /\ Existing = live /\ Existing' = live /\ device # "memory"
    BY <1>1 DEF Cpu, Gpu, Existing, IInv, Typed
<1>3. live = held \cup Entries
    BY <1>1 DEF IInv, OwnersOfMemory
<1>4. /\ contents' \in [Allocations -> Int]
      /\ \A a \in Allocations : contents'[a] = IF a \in Entries THEN Whole ELSE contents[a]
    BY <1>1, FilledIsFilled, Whole \in Int DEF IInv, Whole
<1>5. Typed'
    BY <1>1, <1>2, <1>4, ForgotValues DEF IInv, Typed
<1>6. Residents'
    BY <1>1, <1>2, <1>3, <1>4 DEF IInv, Residents, Typed
<1>7. OwnersOfMemory' /\ OwnersOfBuffers'
    BY <1>1, <1>2, <1>3, ForgotValues DEF OwnersOfMemory, OwnersOfBuffers
<1>8. \A k \in DOMAIN flights' : FlightOf(k)'
    BY <1>1, <1>2
<1> QED BY <1>1, <1>5, <1>6, <1>7, <1>8, ForgotValues DEF IInv

\* A failure gives back, one at a time, what is not a resident.
LEMMA RollbackKeeps == ASSUME IInv, Rollback PROVE IInv'
<1>1. /\ Cpu /\ ~Gpu /\ phase = "rollback" /\ UNCHANGED <<device, held, flights>>
      /\ flights = <<>> /\ live = held \cup Entries /\ Existing = live
      /\ Cpu' /\ ~Gpu' /\ Existing' = live' /\ device # "memory"
    BY DEF Rollback, outerVars, IInv, Typed, Cpu, Gpu, OwnersOfMemory, Existing
<1>2. \A k \in DOMAIN flights' : FlightOf(k)'
    BY <1>1
<1>3. OwnersOfBuffers'
    BY <1>1 DEF OwnersOfBuffers
<1>4. CASE Unreturned = {} /\ Forget /\ UNCHANGED storeVars
  <2>1. \A i \in DOMAIN values : values[i].at # None => values[i].at \in held
    BY <1>4 DEF Unreturned, IInv, ValueOf, EntryOf
  <2>2. live = held
    BY <1>1, <2>1 DEF Entries
  <2>3. UNCHANGED <<live, owned, contents>>
    BY <1>4 DEF storeVars, memoryVars
  <2>4. Typed'
    BY <1>1, <1>4, <2>3, ForgotValues DEF IInv, Typed
  <2>5. Residents' /\ OwnersOfMemory'
    BY <1>1, <1>4, <2>2, <2>3, ForgotValues DEF IInv, Residents, OwnersOfMemory
  <2> QED BY <1>2, <1>3, <1>4, <2>4, <2>5, ForgotValues DEF IInv
<1>5. CASE Unreturned # {}
  <2>1. PICK i : /\ i = Min(Unreturned) /\ Return(values[i].at)
                 /\ values' = [values EXCEPT ![i].at = None]
                 /\ UNCHANGED <<phase, retiring, created, spare>>
    BY <1>5 DEF Rollback, encodeVars
  <2>2. i \in Unreturned
    <3>1. Unreturned \in SUBSET Nat
        BY DEF Unreturned, IInv, Typed
    <3> QED BY <1>5, <2>1, <3>1, MinIsLeast
  <2> DEFINE a == values[i].at
  <2>3. /\ i \in DOMAIN values /\ a # None /\ ~values[i].resident /\ values[i] \in ValueRecords
        /\ values \in Seq(ValueRecords) /\ EntryOf(i) /\ a \in Allocations
    <3>1. i \in DOMAIN values /\ a # None /\ ~values[i].resident
        BY <2>2 DEF Unreturned
    <3>2. values[i] \in ValueRecords /\ values \in Seq(ValueRecords) /\ ValueOf(i)
        BY <3>1 DEF IInv, Typed
    <3> QED BY <3>1, <3>2 DEF ValueOf, ValueRecords
  <2>4. a \in live /\ a \notin held
    BY <1>1, <2>3 DEF EntryOf
  <2>5. /\ Existing' = Existing \ {a} /\ live' = live \ {a} /\ contents' = Filled({a}, None)
    <3>1. Existing' = Existing \ {a} /\ contents' = Filled({a}, None)
        BY <1>1, <2>1, ReturnFrees
    <3> QED BY <1>1, <3>1
  <2>6. /\ contents' \in [Allocations -> Int]
        /\ \A b \in Allocations : b # a => contents'[b] = contents[b]
    BY <2>5, None \in Int, FilledIsFilled DEF IInv, None
  <2>7. PICK w \in ValueRecords :
          /\ w.uses = values[i].uses /\ w.at = None /\ w.resident = values[i].resident
          /\ values' = [values EXCEPT ![i] = w]
    <3>1. PICK w : w = [values[i] EXCEPT !.at = None]
        OBVIOUS
    <3>2. w \in ValueRecords /\ w.uses = values[i].uses /\ w.at = None /\ w.resident = values[i].resident
        BY <2>3, <3>1 DEF ValueRecords
    <3>3. values' = [values EXCEPT ![i] = w]
        BY <2>1, <3>1, Zenon
    <3> QED BY <3>2, <3>3
  <2>8. /\ values' \in Seq(ValueRecords) /\ DOMAIN values' = DOMAIN values
        /\ values'[i] = w /\ \A j \in DOMAIN values : j # i => values'[j] = values[j]
    BY <2>3, <2>7
  <2>9. Typed'
    BY <1>1, <2>1, <2>5, <2>6, <2>8 DEF IInv, Typed
  <2>10. ASSUME NEW j \in DOMAIN values
         PROVE  ValueOf(j)'
    <3>1. CASE j = i
        BY <1>1, <2>1, <2>3, <2>7, <2>8, <3>1 DEF ValueOf
    <3>2. CASE j # i
        <4>1. ValueOf(j) /\ values'[j] = values[j]
            BY <2>8, <3>2 DEF IInv
        <4>2. values[j].at # None => EntryOf(j)'
            <5> SUFFICES ASSUME values[j].at # None
                         PROVE  EntryOf(j)'
                OBVIOUS
            <5>1. EntryOf(j)
                BY <4>1 DEF ValueOf
            <5>2. values[j].at # a
                BY <2>3, <3>2 DEF EntryOf
            <5>3. \A l \in DOMAIN values : l # j => values'[l].at # values[j].at
                BY <2>7, <2>8, <5>1 DEF EntryOf
            <5> QED BY <1>1, <2>5, <2>8, <4>1, <5>1, <5>2, <5>3 DEF EntryOf
        <4> QED BY <1>1, <2>1, <4>1, <4>2 DEF ValueOf
    <3> QED BY <3>1, <3>2
  <2>11. Residents'
    <3> SUFFICES ASSUME NEW b \in held
                 PROVE  b \in Existing' /\ contents'[b] = Whole
        BY <1>1 DEF Residents
    <3>1. b \in Existing /\ contents[b] = Whole /\ b \in Allocations /\ b # a
        BY <2>4 DEF IInv, Residents, Typed
    <3> QED BY <2>5, <2>6, <3>1
  <2>12. OwnersOfMemory'
    <3>1. Entries' = Entries \ {a}
        <4>1. \A j \in DOMAIN values : j # i => values[j].at # a
            BY <2>3 DEF EntryOf
        <4>2. ASSUME NEW e
              PROVE  e \in Entries' <=> e \in Entries \ {a}
            <5>1. e \in Entries' <=> e # None /\ \E j \in DOMAIN values : values'[j].at = e
                BY <2>8 DEF Entries
            <5>2. e \in Entries <=> e # None /\ \E j \in DOMAIN values : values[j].at = e
                BY DEF Entries
            <5> QED BY <2>3, <2>7, <2>8, <4>1, <5>1, <5>2
        <4> QED BY <4>2
    <3> QED BY <1>1, <2>4, <2>5, <3>1 DEF OwnersOfMemory
  <2>13. Inputs'
    BY <1>1, <2>1 DEF Inputs
  <2> QED BY <1>2, <1>3, <2>8, <2>9, <2>10, <2>11, <2>12, <2>13 DEF IInv
<1>6. Unreturned = {} => Forget /\ UNCHANGED storeVars
    BY DEF Rollback
<1> QED BY <1>4, <1>5, <1>6

-----------------------------------------------------------------------------
(* What the GPU has in flight.                                             *)

\* A program that ends, or a readback, becomes the youngest flight f. What f
\* created was the program's or is new; what it pins was too, or is a resident.
LEMMA FlightJoins ==
    ASSUME IInv, Gpu, NEW f \in FlightRecords, flights' = Append(flights, f), UNCHANGED <<device, held>>,
           created' = {}, DOMAIN owned' = held \cup f.created \cup UNION {flights[k].created : k \in DOMAIN flights},
           f.created \cap held = {},
           \A k \in DOMAIN flights : f.created \cap flights[k].created = {},
           f.pins \subseteq held \cup f.created, f.result \in {"pending", "failed"},
           f.result = "pending" => \A a \in f.pins : contents'[a] = Whole,
           f.busy \subseteq f.created \cup f.pins, f.drained # "pending" => f.busy = {},
           \A k \in DOMAIN flights : \A a \in flights[k].pins : contents'[a] \in {contents[a], Whole},
           \A a \in held : contents'[a] \in {contents[a], Whole}
    PROVE  /\ flights' \in Seq(FlightRecords) /\ Residents' /\ OwnersOfMemory' /\ OwnersOfBuffers'
           /\ \A k \in DOMAIN flights' : FlightOf(k)'
<1>1. /\ flights \in Seq(FlightRecords) /\ flights' \in Seq(FlightRecords) /\ Len(flights) \in Nat
      /\ Len(flights') = Len(flights) + 1 /\ DOMAIN flights' = 1..Len(flights')
      /\ DOMAIN flights = 1..Len(flights)
      /\ \A k \in DOMAIN flights : flights'[k] = flights[k]
      /\ flights'[Len(flights) + 1] = f
    BY DEF IInv, Typed
<1>2. PICK n : n = Len(flights) + 1
    OBVIOUS
<1>3. DOMAIN flights' = DOMAIN flights \cup {n} /\ n \notin DOMAIN flights /\ flights'[n] = f
    BY <1>1, <1>2
<1>4. Gpu' /\ ~Cpu' /\ Existing = DOMAIN owned /\ Existing' = DOMAIN owned'
    BY DEF Gpu, Cpu, Existing
<1>5. ASSUME NEW k \in DOMAIN flights
      PROVE  FlightOf(k)'
  <2>1. FlightOf(k) /\ flights'[k] = flights[k]
    BY <1>1 DEF IInv
  <2>2. \A l \in DOMAIN flights' : l # k => flights[k].created \cap flights'[l].created = {}
    <3> SUFFICES ASSUME NEW l \in DOMAIN flights', l # k
                 PROVE  flights[k].created \cap flights'[l].created = {}
        OBVIOUS
    <3>1. CASE l = n
        BY <1>3, <3>1
    <3>2. CASE l \in DOMAIN flights
        BY <1>1, <2>1, <3>2 DEF FlightOf
    <3> QED BY <1>3, <3>1, <3>2
  <2> QED BY <2>1, <2>2 DEF FlightOf
<1>6. FlightOf(n)'
  <2>1. \A l \in DOMAIN flights' : l # n => f.created \cap flights'[l].created = {}
    BY <1>1, <1>3
  <2> QED BY <1>3, <2>1 DEF FlightOf
<1>7. Residents'
  <2> SUFFICES ASSUME NEW a \in held
               PROVE  a \in Existing' /\ contents'[a] = Whole
    BY DEF Residents
  <2> QED BY <1>4 DEF IInv, Residents
<1>8. OwnersOfBuffers'
  <2>1. UNION {flights'[k].created : k \in DOMAIN flights'}
            = f.created \cup UNION {flights[k].created : k \in DOMAIN flights}
    BY <1>1, <1>3
  <2> QED BY <2>1 DEF OwnersOfBuffers
<1> QED BY <1>1, <1>3, <1>4, <1>5, <1>6, <1>7, <1>8 DEF OwnersOfMemory

\* The entries of a program on the GPU are residents, or its own buffers.
LEMMA EntriesOnGpu ==
    ASSUME IInv, Gpu
    PROVE  Entries \subseteq held \cup created /\ Entries \subseteq Allocations
<1> SUFFICES ASSUME NEW i \in DOMAIN values, values[i].at # None
             PROVE  values[i].at \in held \cup created /\ values[i].at \in Allocations
    BY DEF Entries
<1>1. EntryOf(i)
    BY DEF IInv, ValueOf
<1> QED BY <1>1 DEF EntryOf, IInv, Typed

\* A submission hands the buffers of the program to its flight.
LEMMA SubmitKeeps == ASSUME IInv, Submit PROVE IInv'
<1>1. PICK f : f = Flight(created, Entries, created \cup Entries, "pending", "pending", "none")
    OBVIOUS
<1>2. /\ Gpu /\ flights' = Append(flights, f) /\ contents' = Filled(Entries, Whole) /\ Forget
      /\ UNCHANGED <<live, owned, device, held>>
    BY <1>1 DEF Submit, memoryVars
<1>3. /\ f.created = created /\ f.pins = Entries /\ f.busy = created \cup Entries
      /\ f.result = "pending" /\ f.drained = "pending" /\ f \in FlightRecords
    BY <1>1, <1>2, EntriesOnGpu DEF Flight, FlightRecords, Ends, IInv, Typed
<1>4. /\ contents' \in [Allocations -> Int]
      /\ \A a \in Allocations : contents'[a] = IF a \in Entries THEN Whole ELSE contents[a]
    BY <1>2, FilledIsFilled, Whole \in Int DEF IInv, Whole
<1>5. /\ DOMAIN owned = held \cup created \cup UNION {flights[k].created : k \in DOMAIN flights}
      /\ created \cap held = {}
      /\ held \subseteq Allocations
      /\ \A k \in DOMAIN flights : created \cap flights[k].created = {}
      /\ \A k \in DOMAIN flights : flights[k].pins \subseteq Allocations
      /\ device # "memory"
  <2>1. \A k \in DOMAIN flights : flights[k].pins \subseteq Allocations
    BY FlightsAreApart DEF IInv, Typed
  <2>2. \A k \in DOMAIN flights : created \cap flights[k].created = {}
    BY DEF IInv, FlightOf
  <2>3. held \subseteq Allocations /\ device # "memory"
    BY <1>2 DEF IInv, Residents, Typed, Gpu
  <2> QED BY <1>2, <2>1, <2>2, <2>3 DEF IInv, OwnersOfBuffers
<1>6. /\ flights' \in Seq(FlightRecords) /\ Residents' /\ OwnersOfMemory' /\ OwnersOfBuffers'
      /\ \A k \in DOMAIN flights' : FlightOf(k)'
  <2>1. \A a \in f.pins : contents'[a] = Whole
    BY <1>2, <1>3, <1>4, EntriesOnGpu
  <2>2. /\ \A k \in DOMAIN flights : \A a \in flights[k].pins : contents'[a] \in {contents[a], Whole}
        /\ \A a \in held : contents'[a] \in {contents[a], Whole}
    BY <1>4, <1>5
  <2>3. /\ f.pins \subseteq held \cup f.created /\ f.busy \subseteq f.created \cup f.pins
        /\ created' = {} /\ DOMAIN owned' = held \cup f.created \cup UNION {flights[k].created : k \in DOMAIN flights}
    BY <1>2, <1>3, <1>5, EntriesOnGpu, ForgotValues
  <2> QED BY <1>2, <1>3, <1>5, <2>1, <2>2, <2>3, FlightJoins
<1>7. Typed'
    BY <1>2, <1>4, <1>5, <1>6, ForgotValues DEF IInv, Typed, Existing, Gpu
<1> QED BY <1>2, <1>6, <1>7, ForgotValues DEF IInv

\* So does a failure to encode, drained or not.
LEMMA EncodingFailsKeeps == ASSUME IInv, EncodingFails PROVE IInv'
<1>1. PICK f : f = Flight(created, Entries, IF queuedWrites THEN created ELSE {}, "failed",
                          IF OwesDrain THEN "pending" ELSE "none", "none")
    OBVIOUS
<1>2. /\ Gpu /\ flights' = Append(flights, f) /\ Forget
      /\ UNCHANGED <<live, owned, device, held, contents>>
    BY <1>1 DEF EncodingFails, storeVars, memoryVars
<1>3. /\ f.created = created /\ f.pins = Entries /\ f.busy \subseteq created
      /\ f.result = "failed" /\ f \in FlightRecords
      /\ f.drained # "pending" => f.busy = {}
    BY <1>1, <1>2, EntriesOnGpu DEF Flight, FlightRecords, Ends, IInv, Typed, OwesDrain
<1>5. /\ DOMAIN owned = held \cup created \cup UNION {flights[k].created : k \in DOMAIN flights}
      /\ created \cap held = {}
      /\ \A k \in DOMAIN flights : created \cap flights[k].created = {}
      /\ device # "memory"
    BY <1>2 DEF IInv, OwnersOfBuffers, FlightOf, Typed, Residents, Gpu
<1>6. /\ flights' \in Seq(FlightRecords) /\ Residents' /\ OwnersOfMemory' /\ OwnersOfBuffers'
      /\ \A k \in DOMAIN flights' : FlightOf(k)'
  <2>2. /\ \A k \in DOMAIN flights : \A a \in flights[k].pins : contents'[a] \in {contents[a], Whole}
        /\ \A a \in held : contents'[a] \in {contents[a], Whole}
    BY <1>2
  <2>3. /\ f.pins \subseteq held \cup f.created /\ f.busy \subseteq f.created \cup f.pins
        /\ created' = {} /\ DOMAIN owned' = held \cup f.created \cup UNION {flights[k].created : k \in DOMAIN flights}
    BY <1>2, <1>3, <1>5, EntriesOnGpu, ForgotValues
  <2>4. f.result \in {"pending", "failed"} /\ f.result # "pending"
    BY <1>3
  <2> QED BY <1>2, <1>3, <1>5, <2>2, <2>3, <2>4, FlightJoins
<1>7. Typed'
    BY <1>2, <1>5, <1>6, ForgotValues DEF IInv, Typed, Existing, Gpu
<1> QED BY <1>2, <1>6, <1>7, ForgotValues DEF IInv

\* An idle device: no program runs that could own a buffer.
LEMMA ReadKeeps == ASSUME IInv, NEW a, NEW b \in New, Read(a, b) PROVE IInv'
<1>1. PICK f : f = Flight({b}, {a}, {a, b}, "pending", "pending", "pending")
    OBVIOUS
<1>2. /\ Gpu /\ phase = "idle" /\ a \in held /\ Obtain(b, owned[a]) /\ flights' = Append(flights, f)
      /\ UNCHANGED <<contents, device, held, phase, values, retiring, created, spare>>
    BY <1>1 DEF Read, programVars, encodeVars
<1>3. /\ a \in Existing /\ a \in Allocations /\ contents[a] = Whole
      /\ b \in Allocations /\ b \notin Existing /\ held \subseteq Existing
    BY <1>2, NewIsNew DEF IInv, Residents, Typed
<1>4. /\ f.created = {b} /\ f.pins = {a} /\ f.busy = {a, b}
      /\ f.result = "pending" /\ f.drained = "pending" /\ f \in FlightRecords
    BY <1>1, <1>3 DEF Flight, FlightRecords, Ends
<1>5. Existing' = Existing \cup {b} /\ Gpu' /\ Existing = DOMAIN owned /\ Existing' = DOMAIN owned'
  <2>1. Existing' = Existing \cup {b}
    BY <1>2, ObtainFresh
  <2> QED BY <1>2, <2>1 DEF Existing, Gpu
<1>6. /\ created = {} /\ values = <<>> /\ created' = {} /\ values' = <<>> /\ device # "memory"
      /\ DOMAIN owned = held \cup created \cup UNION {flights[k].created : k \in DOMAIN flights}
    BY <1>2 DEF IInv, Typed, OwnersOfBuffers, Gpu
<1>7. /\ flights' \in Seq(FlightRecords) /\ Residents' /\ OwnersOfMemory' /\ OwnersOfBuffers'
      /\ \A k \in DOMAIN flights' : FlightOf(k)'
  <2>1. /\ f.created \cap held = {} /\ f.pins \subseteq held \cup f.created /\ f.busy \subseteq f.created \cup f.pins
        /\ \A c \in f.pins : contents'[c] = Whole
        /\ \A k \in DOMAIN flights : \A c \in flights[k].pins : contents'[c] \in {contents[c], Whole}
        /\ \A c \in held : contents'[c] \in {contents[c], Whole}
    BY <1>2, <1>3, <1>4
  <2>2. \A k \in DOMAIN flights : f.created \cap flights[k].created = {}
    BY <1>3, <1>4, FlightsAreApart
  <2>3. DOMAIN owned' = held \cup f.created \cup UNION {flights[k].created : k \in DOMAIN flights}
    BY <1>4, <1>5, <1>6
  <2> QED BY <1>2, <1>4, <1>6, <2>1, <2>2, <2>3, FlightJoins
<1>8. Typed'
    BY <1>2, <1>3, <1>5, <1>6, <1>7 DEF IInv, Typed, Gpu, Cpu
<1>9. Inputs' /\ \A i \in DOMAIN values' : ValueOf(i)'
    BY <1>2, <1>6 DEF Inputs
<1> QED BY <1>7, <1>8, <1>9 DEF IInv

\* Work in flight goes on: it starts no new access, succeeds nowhere, and is
\* drained only when the device is through with it.
LEMMA FlightsMove ==
    ASSUME IInv, phase = "idle", UNCHANGED <<storeVars, programVars, encodeVars, device, held>>,
           flights' \in Seq(FlightRecords), DOMAIN flights' = DOMAIN flights, Gpu,
           \A k \in DOMAIN flights :
             /\ flights'[k].created = flights[k].created /\ flights'[k].pins = flights[k].pins
             /\ flights'[k].busy \subseteq flights[k].busy
             /\ \/ flights'[k].result = flights[k].result
                \/ flights[k].result = "pending" /\ flights'[k].result = "failed"
             /\ flights'[k].drained # "pending" => flights'[k].busy = {}
    PROVE  IInv'
<1>1. /\ UNCHANGED <<live, owned, contents, phase, values, retiring, created, spare, device, held>>
      /\ Gpu' = Gpu /\ Cpu' = Cpu /\ Existing' = Existing /\ ~Cpu
    BY DEF storeVars, memoryVars, programVars, encodeVars, Gpu, Cpu, Existing
<1>2. Typed'
    BY <1>1 DEF IInv, Typed
<1>3. ASSUME NEW k \in DOMAIN flights
      PROVE  FlightOf(k)'
  <2>1. FlightOf(k)
    BY DEF IInv
  <2>2. \A l \in DOMAIN flights' : l # k => flights'[k].created \cap flights'[l].created = {}
    BY <2>1 DEF FlightOf
  <2>3. flights'[k].result = "done" => flights[k].result = "done"
    OBVIOUS
  <2>4. flights'[k].result = "pending" => flights[k].result = "pending"
    OBVIOUS
  <2> QED BY <1>1, <2>1, <2>2, <2>3, <2>4 DEF FlightOf
<1>4. OwnersOfBuffers'
    BY <1>1 DEF IInv, OwnersOfBuffers
<1>5. Inputs' /\ Residents' /\ OwnersOfMemory' /\ \A i \in DOMAIN values' : ValueOf(i)'
    BY <1>1 DEF IInv, Typed, Inputs, Residents, OwnersOfMemory
<1> QED BY <1>2, <1>3, <1>4, <1>5 DEF IInv

\* One field of one flight changes.
LEMMA SetIsSet ==
    ASSUME flights \in Seq(FlightRecords), NEW k \in DOMAIN flights, NEW f \in FlightRecords,
           flights' = [flights EXCEPT ![k] = f]
    PROVE  /\ flights' \in Seq(FlightRecords) /\ DOMAIN flights' = DOMAIN flights
           /\ flights'[k] = f /\ \A l \in DOMAIN flights : l # k => flights'[l] = flights[l]
OBVIOUS

\* Executing, draining, mapping and a failed error scope only move a flight on.
LEMMA DeviceMovesKeep ==
    ASSUME IInv, NEW k \in DOMAIN flights,
           Executes(k) \/ Drained(k) \/ Mapped(k) \/ ScopeFails(k)
    PROVE  IInv'
<1>1. flights \in Seq(FlightRecords) /\ flights[k] \in FlightRecords /\ FlightOf(k)
    BY DEF IInv, Typed
<1>2. PICK f \in FlightRecords :
        /\ flights' = [flights EXCEPT ![k] = f]
        /\ f.created = flights[k].created /\ f.pins = flights[k].pins
        /\ f.busy \subseteq flights[k].busy
        /\ \/ f.result = flights[k].result
           \/ flights[k].result = "pending" /\ f.result = "failed"
        /\ f.drained # "pending" => f.busy = {}
  <2>1. CASE Executes(k)
    <3>1. PICK f : f = [flights[k] EXCEPT !.busy = {}]
        OBVIOUS
    <3>2. flights' = [flights EXCEPT ![k] = f]
        BY <2>1, <3>1, Zenon DEF Executes, Set
    <3>4. /\ f \in FlightRecords /\ f.created = flights[k].created /\ f.pins = flights[k].pins
          /\ f.busy \subseteq flights[k].busy /\ (f.drained # "pending" => f.busy = {})
          /\ \/ f.result = flights[k].result
             \/ flights[k].result = "pending" /\ f.result = "failed"
        BY <1>1, <3>1 DEF FlightRecords, FlightOf, Ends
    <3> QED BY <3>2, <3>4
  <2>2. CASE Drained(k)
    <3>1. PICK f : f = [flights[k] EXCEPT !.drained = "done"]
        OBVIOUS
    <3>2. flights' = [flights EXCEPT ![k] = f]
        BY <2>2, <3>1, Zenon DEF Drained, Set
    <3>3. flights[k].busy = {}
        BY <2>2 DEF Drained
    <3>4. /\ f \in FlightRecords /\ f.created = flights[k].created /\ f.pins = flights[k].pins
          /\ f.busy \subseteq flights[k].busy /\ (f.drained # "pending" => f.busy = {})
          /\ \/ f.result = flights[k].result
             \/ flights[k].result = "pending" /\ f.result = "failed"
        BY <1>1, <3>1, <3>3 DEF FlightRecords, FlightOf, Ends
    <3> QED BY <3>2, <3>4
  <2>3. CASE Mapped(k)
    <3>1. PICK f : f = [flights[k] EXCEPT !.mapping = "done"]
        OBVIOUS
    <3>2. flights' = [flights EXCEPT ![k] = f]
        BY <2>3, <3>1, Zenon DEF Mapped, Set
    <3>4. /\ f \in FlightRecords /\ f.created = flights[k].created /\ f.pins = flights[k].pins
          /\ f.busy \subseteq flights[k].busy /\ (f.drained # "pending" => f.busy = {})
          /\ \/ f.result = flights[k].result
             \/ flights[k].result = "pending" /\ f.result = "failed"
        BY <1>1, <3>1 DEF FlightRecords, FlightOf, Ends
    <3> QED BY <3>2, <3>4
  <2>4. CASE ScopeFails(k)
    <3>1. PICK f : f = [flights[k] EXCEPT !.result = "failed"]
        OBVIOUS
    <3>2. flights' = [flights EXCEPT ![k] = f]
        BY <2>4, <3>1, Zenon DEF ScopeFails, Set
    <3>3. flights[k].result = "pending"
        BY <2>4 DEF ScopeFails
    <3>4. /\ f \in FlightRecords /\ f.created = flights[k].created /\ f.pins = flights[k].pins
          /\ f.busy \subseteq flights[k].busy /\ (f.drained # "pending" => f.busy = {})
          /\ \/ f.result = flights[k].result
             \/ flights[k].result = "pending" /\ f.result = "failed"
        BY <1>1, <3>1, <3>3 DEF FlightRecords, FlightOf, Ends
    <3> QED BY <3>2, <3>4
  <2> QED BY <2>1, <2>2, <2>3, <2>4
<1>3. /\ flights' \in Seq(FlightRecords) /\ DOMAIN flights' = DOMAIN flights
      /\ flights'[k] = f /\ \A l \in DOMAIN flights : l # k => flights'[l] = flights[l]
    BY <1>1, <1>2, SetIsSet
<1>4. ASSUME NEW l \in DOMAIN flights
      PROVE  /\ flights'[l].created = flights[l].created /\ flights'[l].pins = flights[l].pins
             /\ flights'[l].busy \subseteq flights[l].busy
             /\ \/ flights'[l].result = flights[l].result
                \/ flights[l].result = "pending" /\ flights'[l].result = "failed"
             /\ flights'[l].drained # "pending" => flights'[l].busy = {}
  <2>1. CASE l = k
    BY <1>2, <1>3, <2>1
  <2>2. CASE l # k
    BY <1>3, <2>2 DEF IInv, FlightOf
  <2> QED BY <2>1, <2>2
<1>5. phase = "idle" /\ Gpu /\ UNCHANGED <<storeVars, programVars, encodeVars, device, held>>
    BY DEF Executes, Drained, Mapped, ScopeFails, Asynchronous, Gpu
<1> QED BY <1>3, <1>4, <1>5, FlightsMove

\* A lost device ends every flight at once; the buffers stay for the cleanups.
LEMMA DeviceLostKeeps == ASSUME IInv, DeviceLost PROVE IInv'
<1>1. flights \in Seq(FlightRecords)
    BY DEF IInv, Typed
<1>2. ASSUME NEW k \in DOMAIN flights
      PROVE  \E f \in FlightRecords :
                /\ f = [flights[k] EXCEPT !.busy = {}, !.result = Ended(@), !.drained = Ended(@), !.mapping = Ended(@)]
                /\ f.created = flights[k].created /\ f.pins = flights[k].pins /\ f.busy = {}
                /\ f.result = Ended(flights[k].result)
  <2>1. flights[k] \in FlightRecords
    BY <1>1
  <2>2. PICK b : b = [flights[k] EXCEPT !.busy = {}]
    OBVIOUS
  <2>3. PICK r : r = [b EXCEPT !.result = Ended(@)]
    OBVIOUS
  <2>4. PICK d : d = [r EXCEPT !.drained = Ended(@)]
    OBVIOUS
  <2>5. PICK m : m = [d EXCEPT !.mapping = Ended(@)]
    OBVIOUS
  <2>6. m = [flights[k] EXCEPT !.busy = {}, !.result = Ended(@), !.drained = Ended(@), !.mapping = Ended(@)]
    BY <2>2, <2>3, <2>4, <2>5, Zenon
  <2>7. /\ b \in FlightRecords /\ b.busy = {} /\ b.created = flights[k].created /\ b.pins = flights[k].pins
        /\ b.result = flights[k].result
    BY <2>1, <2>2 DEF FlightRecords
  <2>8. /\ r \in FlightRecords /\ r.busy = {} /\ r.created = flights[k].created /\ r.pins = flights[k].pins
        /\ r.result = Ended(flights[k].result)
    BY <2>3, <2>7 DEF FlightRecords, Ended, Ends
  <2>9. /\ d \in FlightRecords /\ d.busy = {} /\ d.created = flights[k].created /\ d.pins = flights[k].pins
        /\ d.result = Ended(flights[k].result)
    BY <2>4, <2>8 DEF FlightRecords, Ended, Ends
  <2>10. /\ m \in FlightRecords /\ m.busy = {} /\ m.created = flights[k].created /\ m.pins = flights[k].pins
         /\ m.result = Ended(flights[k].result)
    BY <2>5, <2>9 DEF FlightRecords, Ended, Ends
  <2> QED BY <2>6, <2>10
<1>3. /\ DOMAIN flights' = DOMAIN flights
      /\ \A k \in DOMAIN flights :
            flights'[k] = [flights[k] EXCEPT !.busy = {}, !.result = Ended(@), !.drained = Ended(@), !.mapping = Ended(@)]
    BY DEF DeviceLost
<1>4. flights' \in Seq(FlightRecords)
  <2>1. flights' = [k \in 1..Len(flights) |-> flights'[k]]
    <3>1. DOMAIN flights = 1..Len(flights)
        BY <1>1
    <3>2. flights' = [k \in DOMAIN flights |-> flights'[k]]
        BY Zenon DEF DeviceLost
    <3> QED BY <3>1, <3>2
  <2>2. \A k \in 1..Len(flights) : flights'[k] \in FlightRecords
    <3> SUFFICES ASSUME NEW k \in DOMAIN flights
                 PROVE  flights'[k] \in FlightRecords
        BY <1>1
    <3>1. PICK f \in FlightRecords :
            f = [flights[k] EXCEPT !.busy = {}, !.result = Ended(@), !.drained = Ended(@), !.mapping = Ended(@)]
        BY <1>2, Zenon
    <3> QED BY <1>3, <3>1, Zenon
  <2>3. Len(flights) \in Nat
    BY <1>1
  <2> QED BY <2>1, <2>2, <2>3, IsASeq
<1>5. \A k \in DOMAIN flights :
        /\ flights'[k].created = flights[k].created /\ flights'[k].pins = flights[k].pins
        /\ flights'[k].busy = {} /\ flights'[k].result = Ended(flights[k].result)
    BY <1>2, <1>3
<1>6. \A k \in DOMAIN flights :
        /\ flights'[k].busy \subseteq flights[k].busy
        /\ \/ flights'[k].result = flights[k].result
           \/ flights[k].result = "pending" /\ flights'[k].result = "failed"
    BY <1>5 DEF Ended
<1>7. phase = "idle" /\ Gpu /\ UNCHANGED <<storeVars, programVars, encodeVars, device, held>>
    BY DEF DeviceLost, Asynchronous, Gpu
<1> QED BY <1>3, <1>4, <1>5, <1>6, <1>7, FlightsMove

\* A success makes residents of what the flight pins.
LEMMA SucceedsKeeps == ASSUME IInv, NEW k \in DOMAIN flights, Succeeds(k) PROVE IInv'
<1>1. /\ flights \in Seq(FlightRecords) /\ flights[k] \in FlightRecords /\ FlightOf(k)
      /\ flights[k].result = "pending" /\ flights[k].drained = "done" /\ phase = "idle" /\ Gpu
      /\ held' = held \cup flights[k].pins
      /\ UNCHANGED <<storeVars, programVars, encodeVars, device>>
    BY DEF IInv, Typed, Succeeds, Asynchronous, Gpu
<1>2. PICK f : f = [flights[k] EXCEPT !.result = "done"]
    OBVIOUS
<1>3. /\ f \in FlightRecords /\ f.created = flights[k].created /\ f.pins = flights[k].pins /\ f.busy = flights[k].busy
      /\ f.result = "done" /\ f.drained = "done"
    BY <1>1, <1>2 DEF FlightRecords, Ends
<1>4. flights' = [flights EXCEPT ![k] = f]
    BY <1>2, Zenon DEF Succeeds, Set
<1>5. /\ flights' \in Seq(FlightRecords) /\ DOMAIN flights' = DOMAIN flights
      /\ flights'[k] = f /\ \A l \in DOMAIN flights : l # k => flights'[l] = flights[l]
    BY <1>1, <1>3, <1>4, SetIsSet
<1>6. /\ UNCHANGED <<live, owned, contents, phase, values, retiring, created, spare, device>>
      /\ Gpu' = Gpu /\ Cpu' = Cpu /\ Existing' = Existing /\ ~Cpu /\ created = {} /\ values = <<>> /\ device # "memory"
    BY <1>1 DEF storeVars, memoryVars, programVars, encodeVars, Gpu, Cpu, Existing, IInv, Typed
<1>7. Typed'
    BY <1>1, <1>5, <1>6 DEF IInv, Typed
<1>8. ASSUME NEW l \in DOMAIN flights
      PROVE  FlightOf(l)'
  <2>1. FlightOf(l) /\ created' = {}
    BY <1>6 DEF IInv
  <2>2. \A m \in DOMAIN flights' : flights'[m].created = flights[m].created /\ flights'[m].pins = flights[m].pins
    BY <1>3, <1>5
  <2>3. \A m \in DOMAIN flights' : m # l => flights'[l].created \cap flights'[m].created = {}
    BY <1>5, <2>1, <2>2 DEF FlightOf
  <2>4. CASE l = k
    BY <1>1, <1>3, <1>5, <1>6, <2>1, <2>3, <2>4 DEF FlightOf
  <2>5. CASE l # k
    <3>1. flights[l].created \cap flights[k].pins \subseteq held
        BY <1>1, <2>1, <2>5 DEF FlightOf
    <3> QED BY <1>1, <1>5, <1>6, <2>1, <2>3, <2>5, <3>1 DEF FlightOf
  <2> QED BY <2>4, <2>5
<1>9. Residents'
  <2>1. \A a \in flights[k].pins : a \in Existing /\ contents[a] = Whole
    BY <1>1, FlightsAreApart DEF FlightOf
  <2> QED BY <1>1, <1>6, <2>1 DEF IInv, Residents
<1>10. OwnersOfBuffers'
  <2>1. {flights'[l].created : l \in DOMAIN flights'} = {flights[l].created : l \in DOMAIN flights}
    BY <1>3, <1>5
  <2>2. flights[k].pins \subseteq held \cup flights[k].created
    BY <1>1 DEF FlightOf
  <2>3. DOMAIN owned = held \cup UNION {flights[l].created : l \in DOMAIN flights}
    BY <1>1, <1>6 DEF IInv, OwnersOfBuffers
  <2> QED BY <1>1, <1>6, <2>1, <2>2, <2>3 DEF OwnersOfBuffers
<1>11. Inputs' /\ OwnersOfMemory' /\ \A i \in DOMAIN values' : ValueOf(i)'
    BY <1>1, <1>6 DEF Inputs, OwnersOfMemory
<1> QED BY <1>5, <1>7, <1>8, <1>9, <1>10, <1>11 DEF IInv

\* Without a flight, the older ones keep their place and the younger move up.
LEMMA RemoveAtMoves ==
    ASSUME NEW S, NEW s \in Seq(S), NEW k \in DOMAIN s
    PROVE  /\ RemoveAt(s, k) \in Seq(S)
           /\ \A i \in DOMAIN RemoveAt(s, k) :
                LET from == IF i < k THEN i ELSE i + 1
                IN  from \in DOMAIN s /\ from # k /\ RemoveAt(s, k)[i] = s[from]
           /\ \A j \in DOMAIN s : j # k => \E i \in DOMAIN RemoveAt(s, k) : RemoveAt(s, k)[i] = s[j]
<1>1. Len(s) \in Nat /\ k \in 1..Len(s) /\ DOMAIN s = 1..Len(s)
    OBVIOUS
<1>2. /\ SubSeq(s, 1, k - 1) \in Seq(S) /\ Len(SubSeq(s, 1, k - 1)) = k - 1
      /\ \A i \in 1..(k - 1) : SubSeq(s, 1, k - 1)[i] = s[i]
    BY <1>1
<1>3. /\ SubSeq(s, k + 1, Len(s)) \in Seq(S) /\ Len(SubSeq(s, k + 1, Len(s))) = Len(s) - k
      /\ \A i \in 1..(Len(s) - k) : SubSeq(s, k + 1, Len(s))[i] = s[k + i]
    BY <1>1
<1>4. /\ RemoveAt(s, k) \in Seq(S) /\ Len(RemoveAt(s, k)) = Len(s) - 1
      /\ \A i \in 1..(k - 1) : RemoveAt(s, k)[i] = s[i]
      /\ \A i \in k..(Len(s) - 1) : RemoveAt(s, k)[i] = s[i + 1]
  <2>1. PICK p, q : p = SubSeq(s, 1, k - 1) /\ q = SubSeq(s, k + 1, Len(s)) /\ RemoveAt(s, k) = p \o q
    BY DEF RemoveAt
  <2>2. p \in Seq(S) /\ q \in Seq(S) /\ Len(p) = k - 1 /\ Len(q) = Len(s) - k
    BY <1>2, <1>3, <2>1
  <2>3. /\ p \o q \in Seq(S) /\ Len(p \o q) = Len(p) + Len(q)
        /\ \A i \in 1..(Len(p) + Len(q)) : (p \o q)[i] = IF i <= Len(p) THEN p[i] ELSE q[i - Len(p)]
    BY <2>2, ConcatProperties
  <2>4. \A i \in k..(Len(s) - 1) : (p \o q)[i] = s[i + 1]
    <3> SUFFICES ASSUME NEW i \in k..(Len(s) - 1)
                 PROVE  (p \o q)[i] = s[i + 1]
        OBVIOUS
    <3>1. (p \o q)[i] = q[i - (k - 1)] /\ i - (k - 1) \in 1..(Len(s) - k) /\ k + (i - (k - 1)) = i + 1
        BY <1>1, <2>2, <2>3
    <3> QED BY <1>3, <2>1, <3>1
  <2>5. \A i \in 1..(k - 1) : (p \o q)[i] = s[i]
    BY <1>1, <1>2, <2>1, <2>2, <2>3
  <2>6. p \o q \in Seq(S) /\ Len(p \o q) = Len(s) - 1
    BY <1>1, <2>2, <2>3
  <2> QED BY <2>1, <2>4, <2>5, <2>6
<1>5. DOMAIN RemoveAt(s, k) = 1..(Len(s) - 1)
    BY <1>4
<1>6. ASSUME NEW j \in DOMAIN s, j # k
      PROVE  \E i \in DOMAIN RemoveAt(s, k) : RemoveAt(s, k)[i] = s[j]
  <2>1. CASE j < k
    BY <1>1, <1>4, <1>5, <2>1
  <2>2. CASE j > k
    <3>1. j - 1 \in k..(Len(s) - 1) /\ (j - 1) + 1 = j /\ j - 1 \in 1..(Len(s) - 1)
        BY <1>1, <2>2
    <3> QED BY <1>4, <1>5, <3>1
  <2> QED BY <1>1, <1>6, <2>1, <2>2
<1>7. ASSUME NEW i \in DOMAIN RemoveAt(s, k), NEW from, from = IF i < k THEN i ELSE i + 1
      PROVE  from \in DOMAIN s /\ from # k /\ RemoveAt(s, k)[i] = s[from]
    BY <1>1, <1>4, <1>5, <1>7
<1> QED BY <1>4, <1>6, <1>7

\* A cleanup destroys what its flight created and no value owns.
LEMMA CleanUpKeeps == ASSUME IInv, NEW k \in DOMAIN flights, CleanUp(k) PROVE IInv'
<1> DEFINE From(i) == IF i < k THEN i ELSE i + 1
<1>1. /\ flights \in Seq(FlightRecords) /\ flights[k] \in FlightRecords /\ FlightOf(k)
      /\ flights[k].result # "pending" /\ flights[k].drained # "pending" /\ phase = "idle" /\ Gpu
      /\ Destroy(Scrap(flights[k])) /\ flights' = RemoveAt(flights, k)
      /\ UNCHANGED <<programVars, encodeVars, device, held>>
    BY DEF IInv, Typed, CleanUp, Asynchronous, Gpu, Settled
<1>2. /\ flights' \in Seq(FlightRecords)
      /\ \A i \in DOMAIN flights' : From(i) \in DOMAIN flights /\ From(i) # k /\ flights'[i] = flights[From(i)]
      /\ \A j \in DOMAIN flights : j # k => \E i \in DOMAIN flights' : flights'[i] = flights[j]
    BY <1>1, RemoveAtMoves
<1>3. PICK S : S = Scrap(flights[k])
    OBVIOUS
<1>4. Existing' = Existing \ S /\ DOMAIN owned' = DOMAIN owned \ S /\ contents' = Filled(S, None)
    BY <1>1, <1>3, DestroyFrees
<1>5. /\ UNCHANGED <<phase, values, retiring, created, spare, device, held>>
      /\ Gpu' = Gpu /\ Cpu' = Cpu /\ ~Cpu /\ created = {} /\ values = <<>> /\ device # "memory"
    BY <1>1 DEF programVars, encodeVars, Gpu, Cpu, IInv, Typed
<1>6. /\ contents' \in [Allocations -> Int]
      /\ \A a \in Allocations : a \notin S => contents'[a] = contents[a]
    BY <1>4, None \in Int, FilledIsFilled DEF IInv, None
<1>7. /\ S \subseteq flights[k].created /\ S \cap held = {} /\ flights[k].created \subseteq S \cup held
    BY <1>1, <1>3 DEF Scrap, FlightOf
<1>8. ASSUME NEW j \in DOMAIN flights, j # k
      PROVE  flights[j].created \cap S = {} /\ flights[j].pins \cap S = {}
  <2>1. FlightOf(j)
    BY DEF IInv
  <2> QED BY <1>7, <1>8, <2>1 DEF FlightOf
<1>9. Typed'
    BY <1>1, <1>2, <1>4, <1>5, <1>6 DEF IInv, Typed
<1>10. ASSUME NEW i \in DOMAIN flights'
       PROVE  FlightOf(i)'
  <2>1. PICK j : j = From(i)
    OBVIOUS
  <2>2. j \in DOMAIN flights /\ j # k /\ flights'[i] = flights[j] /\ FlightOf(j)
    BY <1>2, <2>1 DEF IInv
  <2>3. \A a \in flights[j].pins : contents'[a] = contents[a]
    BY <1>6, <1>8, <2>2, FlightsAreApart DEF IInv, Typed
  <2>4. \A l \in DOMAIN flights' : l # i => flights[j].created \cap flights'[l].created = {}
    <3> SUFFICES ASSUME NEW l \in DOMAIN flights', l # i
                 PROVE  flights[j].created \cap flights'[l].created = {}
        OBVIOUS
    <3>1. From(l) \in DOMAIN flights /\ flights'[l] = flights[From(l)] /\ From(l) # j
        <4>1. i \in Nat /\ l \in Nat /\ k \in Nat
            BY <1>1, <1>2
        <4> QED BY <1>2, <2>1, <4>1
    <3> QED BY <2>2, <3>1 DEF FlightOf
  <2>5. created' = {}
    BY <1>5
  <2> QED BY <1>5, <2>2, <2>3, <2>4, <2>5 DEF FlightOf
<1>11. Residents'
    BY <1>4, <1>5, <1>6, <1>7 DEF IInv, Residents, Typed
<1>12. OwnersOfBuffers'
  <2>1. DOMAIN owned = held \cup UNION {flights[l].created : l \in DOMAIN flights}
    BY <1>1, <1>5 DEF IInv, OwnersOfBuffers
  <2>2. ASSUME NEW a
        PROVE  a \in DOMAIN owned' <=> a \in held \cup UNION {flights'[i].created : i \in DOMAIN flights'}
    <3>1. ASSUME a \in DOMAIN owned', a \notin held
          PROVE  \E i \in DOMAIN flights' : a \in flights'[i].created
        <4>1. PICK l \in DOMAIN flights : a \in flights[l].created
            BY <1>4, <2>1, <3>1
        <4>2. l # k
            BY <1>4, <1>7, <3>1, <4>1
        <4> QED BY <1>2, <4>1, <4>2
    <3>2. ASSUME a \in held
          PROVE  a \in DOMAIN owned'
        BY <1>4, <1>7, <2>1, <3>2
    <3>3. ASSUME NEW i \in DOMAIN flights', a \in flights'[i].created
          PROVE  a \in DOMAIN owned'
        <4>1. PICK j \in DOMAIN flights : j # k /\ a \in flights[j].created
            BY <1>2, <3>3
        <4> QED BY <1>4, <1>8, <2>1, <4>1
    <3> QED BY <3>1, <3>2, <3>3
  <2> HIDE DEF From
  <2>3. DOMAIN owned' = held \cup created' \cup UNION {flights'[i].created : i \in DOMAIN flights'}
    BY <1>5, <2>2
  <2> QED BY <1>5, <2>3 DEF OwnersOfBuffers
<1>13. Inputs' /\ OwnersOfMemory' /\ \A i \in DOMAIN values' : ValueOf(i)'
    BY <1>1, <1>5 DEF Inputs, OwnersOfMemory
<1> QED BY <1>9, <1>10, <1>11, <1>12, <1>13 DEF IInv

\* A released resident is pinned by no flight, and so created by none.
LEMMA ReleaseResidentKeeps == ASSUME IInv, NEW a \in held, ReleaseResident(a) PROVE IInv'
<1>1. /\ phase = "idle" /\ \A k \in DOMAIN flights : a \notin flights[k].pins
      /\ held' = held \ {a}
      /\ UNCHANGED <<phase, values, retiring, created, spare, device, flights>>
      /\ IF Cpu THEN Return(a) ELSE Destroy({a})
    BY DEF ReleaseResident, programVars, encodeVars
<1>2. /\ created = {} /\ values = <<>> /\ retiring = <<>> /\ (Cpu \/ Gpu) /\ ~(Cpu /\ Gpu) /\ device # "memory"
      /\ Cpu' = Cpu /\ Gpu' = Gpu
    BY <1>1, InvocationAssumption DEF IInv, Typed, Cpu, Gpu
<1>3. /\ Existing' = Existing \ {a} /\ contents' = Filled({a}, None)
      /\ Gpu => DOMAIN owned' = DOMAIN owned \ {a}
      /\ Cpu => live' = live \ {a}
  <2>1. CASE Cpu
    <3>1. Existing' = Existing \ {a} /\ contents' = Filled({a}, None)
        BY <1>1, <1>2, <2>1, ReturnFrees
    <3> QED BY <1>2, <2>1, <3>1 DEF Existing
  <2>2. CASE Gpu
    BY <1>1, <1>2, <2>2, DestroyFrees
  <2> QED BY <1>2, <2>1, <2>2
<1>4. /\ contents' \in [Allocations -> Int]
      /\ \A b \in Allocations : b # a => contents'[b] = contents[b]
    BY <1>3, None \in Int, FilledIsFilled DEF IInv, None
<1>5. Typed'
    BY <1>1, <1>2, <1>3, <1>4 DEF IInv, Typed
<1>6. ASSUME NEW k \in DOMAIN flights
      PROVE  FlightOf(k)' /\ a \notin flights[k].created
  <2>1. FlightOf(k) /\ created' = {}
    BY <1>1, <1>2 DEF IInv
  <2>2. \A b \in flights[k].pins : contents'[b] = contents[b]
    BY <1>1, <1>4, FlightsAreApart DEF IInv, Typed
  <2>3. a \notin flights[k].created
    BY <1>1, <2>1 DEF FlightOf
  <2> QED BY <1>1, <2>1, <2>2, <2>3 DEF FlightOf
<1>7. Residents'
    BY <1>1, <1>3, <1>4 DEF IInv, Residents, Typed
<1>8. OwnersOfBuffers'
    BY <1>1, <1>2, <1>3, <1>6 DEF IInv, OwnersOfBuffers
<1>9. OwnersOfMemory'
    BY <1>1, <1>2, <1>3 DEF IInv, OwnersOfMemory, Entries
<1>10. Inputs' /\ \A i \in DOMAIN values' : ValueOf(i)'
    BY <1>1, <1>2 DEF Inputs
<1> QED BY <1>1, <1>5, <1>6, <1>7, <1>8, <1>9, <1>10 DEF IInv

\* A closed device has no residents and no flights left.
LEMMA CloseKeeps == ASSUME IInv, Close PROVE IInv'
<1>1. /\ phase = "idle" /\ flights = <<>> /\ held = {} /\ device # "memory"
      /\ UNCHANGED <<phase, values, retiring, created, spare, device, held, flights>>
      /\ IF Cpu THEN UNCHANGED storeVars ELSE Destroy(DOMAIN owned)
    BY DEF Close, programVars, encodeVars
<1>2. /\ created = {} /\ values = <<>> /\ retiring = <<>> /\ (Cpu \/ Gpu) /\ ~(Cpu /\ Gpu)
      /\ Cpu' = Cpu /\ Gpu' = Gpu
    BY <1>1, InvocationAssumption DEF IInv, Typed, Cpu, Gpu
<1>3. /\ Existing' \subseteq Existing /\ contents' \in [Allocations -> Int]
      /\ Gpu => DOMAIN owned' = {}
      /\ Cpu => live' = live
  <2>1. CASE Cpu
    BY <1>1, <1>2, <2>1 DEF storeVars, memoryVars, Existing, IInv, Typed
  <2>2. CASE Gpu
    <3>1. contents' = Filled(DOMAIN owned, None) /\ DOMAIN owned' = {} /\ Existing' = Existing \ DOMAIN owned
        BY <1>1, <1>2, <2>2, DestroyFrees
    <3> QED BY <1>2, <2>2, <3>1, None \in Int, FilledIsFilled DEF IInv, None
  <2> QED BY <1>2, <2>1, <2>2
<1>4. Typed'
    BY <1>1, <1>2, <1>3 DEF IInv, Typed
<1>5. OwnersOfBuffers' /\ OwnersOfMemory'
  <2>1. OwnersOfBuffers'
    <3>1. flights' = <<>> /\ held' = {} /\ created' = {}
        BY <1>1, <1>2
    <3>2. UNION {flights'[k].created : k \in DOMAIN flights'} = {}
        BY <3>1
    <3> QED BY <1>2, <1>3, <3>1, <3>2 DEF OwnersOfBuffers
  <2>2. Entries' = Entries
    BY <1>1 DEF Entries
  <2> QED BY <1>1, <1>2, <1>3, <2>1, <2>2 DEF IInv, OwnersOfMemory
<1>6. Inputs' /\ Residents' /\ (\A i \in DOMAIN values' : ValueOf(i)') /\ \A k \in DOMAIN flights' : FlightOf(k)'
    BY <1>1, <1>2 DEF Inputs, Residents
<1> QED BY <1>4, <1>5, <1>6 DEF IInv

\* Any other client of linear memory keeps within its allocations.
LEMMA MemoryStepKeeps == ASSUME IInv, MemoryStep PROVE IInv'
<1>1. /\ device = "memory" /\ ~Cpu /\ ~Gpu /\ ~Cpu' /\ ~Gpu'
      /\ UNCHANGED <<contents, phase, values, retiring, created, spare, device, held, flights>>
      /\ Existing = live /\ Existing' = live'
    BY DEF MemoryStep, programVars, encodeVars, outerVars, Cpu, Gpu, Existing
<1>2. held = {} /\ values = <<>> /\ phase = "idle" /\ flights = <<>>
    BY <1>1 DEF IInv, Typed
<1>3. live' \subseteq Allocations
  <2>1. live \subseteq Allocations
    BY <1>1 DEF IInv, Typed
  <2>2. live' = live \/ (\E a \in Allocations : live' = live \cup {a}) \/ \E a \in live : live' = live \ {a}
    <3>1. ASSUME NEW a \in New, NEW n, AllocateFree(a, n) \/ AllocateBump(a, n)
          PROVE  \E b \in Allocations : live' = live \cup {b}
        BY <3>1, NewIsNew DEF AllocateFree, AllocateBump, Construct
    <3>2. ASSUME NEW n, AllocateFails(n)
          PROVE  live' = live
        BY <3>2 DEF AllocateFails
    <3>3. ASSUME NEW a \in live, Release(a)
          PROVE  live' = live \ {a}
        BY <3>3 DEF Release
    <3> QED BY <3>1, <3>2, <3>3 DEF MemoryStep
  <2> QED BY <2>1, <2>2
<1>4. Typed'
    BY <1>1, <1>2, <1>3 DEF IInv, Typed
<1>5. Inputs' /\ Residents' /\ OwnersOfMemory' /\ OwnersOfBuffers'
    BY <1>1, <1>2 DEF Inputs, Residents, OwnersOfMemory, OwnersOfBuffers
<1> QED BY <1>1, <1>2, <1>4, <1>5 DEF IInv

-----------------------------------------------------------------------------
(* The invariant, and the properties.                                      *)

\* A step of the storage keeps the invariant.
LEMMA StepKeeps == ASSUME IInv, NextInvocation PROVE IInv'
<1>1. CASE MemoryStep
    BY <1>1, MemoryStepKeeps
<1>2. CASE ExecuteStep
  <2>1. ASSUME phase = "binding", NEW plan, NEW a, NEW n, BindHost(a, n, plan)
        PROVE  IInv'
    BY <2>1, BindHostKeeps
  <2>2. ASSUME NEW plan, NEW a \in held, BindResident(a, plan)
        PROVE  IInv'
    BY <2>2, BindResidentKeeps
  <2>3. ASSUME phase \in {"binding", "computing"},
               NEW inputs \in InputLists, NEW a \in New \cup spare, NEW n, NEW plan, Reserve(inputs, a, n, plan)
        PROVE  IInv'
    BY <2>3, ReserveKeeps
  <2>4. ASSUME NEW n, Exhausted(n)
        PROVE  IInv'
    BY <2>4, ExhaustedKeeps
  <2> QED BY <1>2, <2>1, <2>2, <2>3, <2>4, BeginKeeps, KernelKeeps, KernelFailsKeeps, CompleteInputUseKeeps,
             PublishKeeps, RollbackKeeps, SubmitKeeps, EncodingFailsKeeps DEF ExecuteStep
<1>3. CASE DeviceStep
    BY <1>3, DeviceMovesKeep, SucceedsKeeps, CleanUpKeeps, DeviceLostKeeps DEF DeviceStep
<1>4. CASE RuntimeStep
    BY <1>4, ReleaseResidentKeeps, ReadKeeps, CloseKeeps DEF RuntimeStep
<1> QED BY <1>1, <1>2, <1>3, <1>4 DEF NextInvocation

\* Every buffer is accounted for by exactly one party at any step.
THEOREM InvariantHolds == SpecInvocation => []IInv
<1>1. InitInvocation => IInv
  <2> SUFFICES ASSUME InitInvocation
               PROVE  IInv
    OBVIOUS
  <2>1. /\ device \in Devices /\ phase = "idle" /\ values = <<>> /\ retiring = <<>> /\ flights = <<>> /\ live = {}
        /\ DOMAIN owned = {} /\ created = {} /\ spare = {} /\ held = {} /\ contents = [a \in Allocations |-> None]
    BY DEF InitInvocation, Init
  <2>2. Existing = {}
    BY <2>1 DEF Existing
  <2>3. contents \in [Allocations -> Int]
    BY <2>1, None \in Int DEF None
  <2>4. Len(retiring) <= 2 /\ retiring \in Seq(Nat) /\ values \in Seq(ValueRecords) /\ flights \in Seq(FlightRecords)
    BY <2>1
  <2>5. Typed
    BY <2>1, <2>2, <2>3, <2>4 DEF Typed
  <2> QED BY <2>1, <2>5 DEF IInv, Inputs, Residents, OwnersOfMemory, OwnersOfBuffers, Entries
<1>2. IInv /\ [NextInvocation]_allVars => IInv'
  <2> SUFFICES ASSUME IInv, [NextInvocation]_allVars
               PROVE  IInv'
    OBVIOUS
  <2>1. CASE NextInvocation
    BY <2>1, StepKeeps
  <2>2. CASE UNCHANGED allVars
    <3>1. UNCHANGED <<live, owned, contents, phase, values, retiring, created, spare, device, held, flights>>
        BY <2>2 DEF allVars, storeVars, memoryVars, programVars, encodeVars, outerVars
    <3>2. Existing' = Existing /\ Gpu' = Gpu /\ Cpu' = Cpu /\ Entries' = Entries
        BY <3>1 DEF Existing, Gpu, Cpu, Entries
    <3>3. \A i \in DOMAIN values : ValueOf(i)' = ValueOf(i)
        BY <3>1, <3>2 DEF ValueOf, EntryOf, Scratch
    <3>4. \A k \in DOMAIN flights : FlightOf(k)' = FlightOf(k)
        BY <3>1 DEF FlightOf
    <3> QED BY <3>1, <3>2, <3>3, <3>4 DEF IInv, Typed, Inputs, Residents, OwnersOfMemory, OwnersOfBuffers
  <2> QED BY <2>1, <2>2
<1> QED BY <1>1, <1>2, PTL DEF SpecInvocation

\* What a later computation, an owner or work in flight needs is in a buffer of
\* its own and still there: no output takes a retained or resident payload, or
\* that of an input before its last use.
THEOREM NeededValuesAreIntactHolds == SpecInvocation => []NeededValuesAreIntact
<1>1. IInv => NeededValuesAreIntact
  <2> SUFFICES ASSUME IInv
               PROVE  NeededValuesAreIntact
    OBVIOUS
  <2>1. ASSUME phase \in {"computing", "kernel", "retiring"}, NEW i \in DOMAIN values,
               values[i].uses > 0 \/ ~Scratch(i), ~(phase = "kernel" /\ i = Len(values))
        PROVE  /\ values[i].at \in Existing
               /\ contents[values[i].at] = IF values[i].resident THEN Whole ELSE i
               /\ \A j \in DOMAIN values \ {i} : values[j].at # values[i].at
    <3>1. ValueOf(i) /\ phase # "rollback"
        BY <2>1 DEF IInv
    <3>2. values[i].at # None
        BY <2>1, <3>1 DEF ValueOf
    <3>3. EntryOf(i)
        BY <3>1, <3>2 DEF ValueOf
    <3> QED BY <2>1, <3>1, <3>2, <3>3 DEF ValueOf, EntryOf
  <2>2. \A a \in held : a \in Existing /\ contents[a] = Whole
    BY DEF IInv, Residents
  <2>3. \A k \in DOMAIN flights : flights[k].result = "pending" =>
          \A a \in flights[k].pins : a \in Existing /\ contents[a] = Whole
    BY FlightsAreApart DEF IInv, FlightOf
  <2> QED BY <2>1, <2>2, <2>3 DEF NeededValuesAreIntact
<1> QED BY <1>1, InvariantHolds, PTL

\* Between invocations only residents and the buffers of unfinished work exist,
\* whatever failed before.
THEOREM NothingLeaksHolds == SpecInvocation => []NothingLeaks
<1>1. IInv => NothingLeaks
  <2> SUFFICES ASSUME IInv, device # "memory", phase = "idle"
               PROVE  Existing = held \cup UNION {flights[k].created : k \in DOMAIN flights}
    BY DEF NothingLeaks
  <2>1. values = <<>> /\ created = {} /\ (Cpu \/ Gpu) /\ ~(Cpu /\ Gpu)
    BY InvocationAssumption DEF IInv, Typed, Cpu, Gpu
  <2>2. CASE Cpu
    BY <2>1, <2>2 DEF IInv, Typed, OwnersOfMemory, Entries, Existing
  <2>3. CASE Gpu
    BY <2>1, <2>3 DEF IInv, OwnersOfBuffers, Existing
  <2> QED BY <2>1, <2>2, <2>3
<1> QED BY <1>1, InvariantHolds, PTL

-----------------------------------------------------------------------------
(* When buffers go.                                                        *)

\* A buffer the device may still touch belongs to a flight: it created it or
\* pins it, and the flight has not been cleaned up.
LEMMA InUseIsAFlights ==
    ASSUME IInv, NEW b \in InUse
    PROVE  \E k \in DOMAIN flights :
             \/ b \in flights[k].busy
             \/ b \in flights[k].created /\ flights[k].mapping = "pending"
<1>1. \/ b \in UNION {flights[k].busy : k \in DOMAIN flights}
      \/ b \in UNION {flights[k].created : k \in {j \in DOMAIN flights : flights[j].mapping = "pending"}}
    BY DEF InUse
<1>2. ASSUME b \in UNION {flights[k].busy : k \in DOMAIN flights}
      PROVE  \E k \in DOMAIN flights : b \in flights[k].busy
    BY <1>2
<1>3. ASSUME b \in UNION {flights[k].created : k \in {j \in DOMAIN flights : flights[j].mapping = "pending"}}
      PROVE  \E k \in DOMAIN flights : b \in flights[k].created /\ flights[k].mapping = "pending"
    BY <1>3
<1> QED BY <1>1, <1>2, <1>3

\* A step that only makes buffers destroys none.
LEMMA ObtainKeepsOwned == ASSUME NEW a, NEW n, Obtain(a, n) PROVE DOMAIN owned \subseteq DOMAIN owned'
BY DEF Obtain, WithBuffer

\* An invocation destroys no buffer on its way: it hands them to the flight.
LEMMA ExecuteKeepsOwned == ASSUME IInv, ExecuteStep PROVE DOMAIN owned \subseteq DOMAIN owned'
<1>1. ASSUME Begin \/ KernelFails \/ Publish \/ Submit \/ EncodingFails
      PROVE  owned' = owned
    BY <1>1 DEF Begin, KernelFails, Publish, Submit, EncodingFails, storeVars
<1>2. ASSUME Kernel
      PROVE  DOMAIN owned \subseteq DOMAIN owned'
  <2>1. owned' = owned \/ \E b \in New : owned' = WithBuffer(b, 16)
    BY <1>2 DEF Kernel
  <2> QED BY <2>1 DEF WithBuffer
<1>3. ASSUME CompleteInputUse
      PROVE  owned' = owned
  <2>1. PICK last, a : IF last /\ Cpu THEN Return(a) ELSE UNCHANGED storeVars
    BY <1>3 DEF CompleteInputUse
  <2> QED BY <2>1 DEF Return, storeVars
<1>4. ASSUME Rollback
      PROVE  owned' = owned
  <2>1. UNCHANGED storeVars \/ \E a : Return(a)
    BY <1>4 DEF Rollback
  <2> QED BY <2>1 DEF Return, storeVars
<1>5. ASSUME NEW plan, NEW a, NEW n, BindHost(a, n, plan)
      PROVE  DOMAIN owned \subseteq DOMAIN owned'
    BY <1>5, ObtainKeepsOwned DEF BindHost
<1>6. ASSUME NEW plan, NEW a, BindResident(a, plan)
      PROVE  owned' = owned
    BY <1>6 DEF BindResident, storeVars
<1>7. ASSUME NEW inputs, NEW a, NEW n, NEW plan, Reserve(inputs, a, n, plan)
      PROVE  DOMAIN owned \subseteq DOMAIN owned'
  <2>1. owned' = owned \/ Obtain(a, n)
    BY <1>7 DEF Reserve
  <2> QED BY <2>1, ObtainKeepsOwned
<1>8. ASSUME NEW n, Exhausted(n)
      PROVE  owned' = owned
    BY <1>8 DEF Exhausted
<1> QED BY <1>1, <1>2, <1>3, <1>4, <1>5, <1>6, <1>7, <1>8 DEF ExecuteStep

\* The buffers a flight leaves behind are out of the device's reach: its own
\* work has ended, and no other flight created or pins them.
LEMMA CleanUpSparesWork ==
    ASSUME IInv, NEW k \in DOMAIN flights, CleanUp(k)
    PROVE  InUse \cap (DOMAIN owned \ DOMAIN owned') = {}
<1> SUFFICES ASSUME NEW b \in InUse, b \in DOMAIN owned \ DOMAIN owned'
             PROVE  FALSE
    OBVIOUS
<1>1. /\ FlightOf(k) /\ flights[k].result # "pending" /\ flights[k].drained # "pending"
      /\ flights[k].mapping # "pending" /\ Destroy(Scrap(flights[k])) /\ device' = device /\ Gpu
    BY DEF IInv, CleanUp, Settled, Asynchronous, Gpu
<1>2. b \in Scrap(flights[k])
    BY <1>1, DestroyFrees
<1>3. b \in flights[k].created /\ b \notin held /\ flights[k].busy = {}
    BY <1>1, <1>2 DEF Scrap, FlightOf
<1>4. PICK j \in DOMAIN flights :
        \/ b \in flights[j].busy
        \/ b \in flights[j].created /\ flights[j].mapping = "pending"
    BY InUseIsAFlights
<1>5. j # k
    BY <1>1, <1>3, <1>4
<1>6. FlightOf(j)
    BY DEF IInv
<1>7. b \in flights[j].created
    BY <1>3, <1>4, <1>6 DEF FlightOf
<1> QED BY <1>1, <1>3, <1>5, <1>7 DEF FlightOf

\* A resident is released only when no flight pins it, and a flight pins what it
\* created once that is a resident.
LEMMA ReleaseSparesWork ==
    ASSUME IInv, NEW a \in held, ReleaseResident(a)
    PROVE  InUse \cap (DOMAIN owned \ DOMAIN owned') = {}
<1> SUFFICES ASSUME NEW b \in InUse, b \in DOMAIN owned \ DOMAIN owned'
             PROVE  FALSE
    OBVIOUS
<1>1. PICK j \in DOMAIN flights : b \in flights[j].busy \cup flights[j].created
    BY InUseIsAFlights
<1>2. FlightOf(j) /\ Gpu
    BY <1>1, FlightsAreApart DEF IInv, FlightOf
<1>3. Destroy({a}) /\ device' = device /\ a \notin flights[j].pins
    BY <1>2 DEF ReleaseResident, Cpu, Gpu
<1>4. DOMAIN owned' = DOMAIN owned \ {a}
    BY <1>2, <1>3 DEF Destroy, Restrict
<1>5. b = a
    BY <1>4
<1> QED BY <1>1, <1>2, <1>3, <1>5 DEF FlightOf

\* A step destroys no buffer that the device may still read or write, or that is
\* being mapped: a failed or finished execution keeps its buffers until its work
\* has drained, and no release of a value gets ahead of the device.
THEOREM BuffersOutliveTheirWorkHolds == SpecInvocation => BuffersOutliveTheirWork
<1>1. IInv /\ [NextInvocation]_allVars => [InUse \cap (DOMAIN owned \ DOMAIN owned') = {}]_allVars
  <2> SUFFICES ASSUME IInv, NextInvocation
               PROVE  InUse \cap (DOMAIN owned \ DOMAIN owned') = {}
    BY DEF allVars
  <2>1. ASSUME DOMAIN owned \subseteq DOMAIN owned'
        PROVE  InUse \cap (DOMAIN owned \ DOMAIN owned') = {}
    BY <2>1
  <2>2. CASE MemoryStep
    BY <2>1, <2>2 DEF MemoryStep
  <2>3. CASE ExecuteStep
    BY <2>1, <2>3, ExecuteKeepsOwned
  <2>4. CASE DeviceStep
    <3>1. ASSUME NEW k \in DOMAIN flights,
                 Executes(k) \/ Drained(k) \/ Mapped(k) \/ Succeeds(k) \/ ScopeFails(k)
          PROVE  owned' = owned
        BY <3>1 DEF Executes, Drained, Mapped, Succeeds, ScopeFails, storeVars
    <3>2. DeviceLost => owned' = owned
        BY DEF DeviceLost, storeVars
    <3> QED BY <2>1, <2>4, <3>1, <3>2, CleanUpSparesWork DEF DeviceStep
  <2>5. CASE RuntimeStep
    <3>1. ASSUME NEW a, NEW b, Read(a, b)
          PROVE  DOMAIN owned \subseteq DOMAIN owned'
        BY <3>1, ObtainKeepsOwned DEF Read
    <3>2. Close => InUse = {}
        BY DEF Close, InUse
    <3> QED BY <2>1, <2>5, <3>1, <3>2, ReleaseSparesWork DEF RuntimeStep
  <2> QED BY <2>2, <2>3, <2>4, <2>5 DEF NextInvocation
<1> QED BY <1>1, InvariantHolds, PTL DEF SpecInvocation, BuffersOutliveTheirWork
-----------------------------------------------------------------------------
(* The acquisition of a device                                             *)

Answers == {"acquired", "raced"}
Callers == {"resume", "made", "publish"}
Dos == Answers \cup Callers \cup {"cancelled"}
JobRecord == [do : Dos, ok : BOOLEAN]

AcquisitionTyped ==
    /\ asked \in {"nothing", "adapter", "device", "answered"}
    /\ granted \in BOOLEAN /\ acquired \in BOOLEAN /\ aborted \in BOOLEAN /\ lost \in BOOLEAN
    /\ destroyed \in 0..1
    /\ race \in {"pending", "device", "error"}
    /\ setup \in {"asked", "acquiring", "session", "failed"}
    /\ jobs \in Seq(JobRecord)

Kin(a, b) == a = b \/ {a, b} \subseteq Answers \/ {a, b} \subseteq Callers

\* One answer, one cancellation and one caller at most are under way.
OneOfEach == \A i, j \in DOMAIN jobs : Kin(jobs[i].do, jobs[j].do) => i = j

\* The answer of the browser: who holds the device it granted.
AnswerIsTrue(i) ==
    /\ jobs[i].do \in Answers => asked = "answered"
    /\ jobs[i].do = "acquired" =>
        /\ ~acquired
        /\ jobs[i].ok => i = 1 /\ destroyed = 0 /\ race = "pending" /\ setup = "acquiring"
        /\ jobs[i].ok <=> granted /\ destroyed = 0
    /\ jobs[i].do = "raced" => jobs[i].ok = acquired

CancelIsTrue(i) ==
    jobs[i].do = "cancelled" =>
        /\ ~jobs[i].ok /\ aborted /\ asked # "nothing"
        /\ race = "pending" => setup = "acquiring"

\* The caller goes on once the race is over, or when nothing was asked.
CallerIsTrue(i) ==
    jobs[i].do \in Callers =>
        /\ setup = "acquiring"
        /\ race # "pending" \/ (asked = "nothing" /\ aborted /\ jobs[i] = Job("made", FALSE))
        /\ jobs[i].do = "publish" => jobs[i].ok
        /\ jobs[i].do = "resume" => (acquired => destroyed = 0)
        /\ jobs[i].do # "resume" => IF jobs[i].ok THEN race = "device" /\ destroyed = 0
                                    ELSE granted => destroyed = 1

JobsAreTrue == \A i \in DOMAIN jobs : AnswerIsTrue(i) /\ CancelIsTrue(i) /\ CallerIsTrue(i)

Queued(dos) == \E i \in DOMAIN jobs : jobs[i].do \in dos

\* The acquisition goes on as long as its caller waits for it.
SetupGoesOn ==
    /\ asked = "nothing" => race = "pending" /\ (setup = "asked" \/ aborted)
    /\ setup = "asked" => asked = "nothing" /\ jobs = <<>>
    /\ setup \in {"session", "failed"} /\ race = "pending" => asked = "nothing"
    /\ asked \in {"adapter", "device"} /\ race # "pending" => aborted
    /\ setup = "acquiring" /\ (race # "pending" \/ aborted) => Queued(Callers \cup {"cancelled"})
    /\ setup = "acquiring" /\ race # "pending" => Queued(Callers)

\* The device is on its way in a job, its caller's, the session's or destroyed.
DeviceIsOwned ==
    /\ granted => asked = "answered"
    /\ acquired => granted
    /\ destroyed = 1 => granted
    /\ race = "device" => acquired
    /\ race = "pending" /\ acquired => destroyed = 0
    /\ granted /\ destroyed = 0 /\ ~acquired => jobs # <<>> /\ jobs[1] = Job("acquired", TRUE)
    /\ setup = "failed" /\ granted => destroyed = 1
    /\ setup = "session" => race = "device"

Acquisition == AcquisitionTyped /\ OneOfEach /\ JobsAreTrue /\ SetupGoesOn /\ DeviceIsOwned

\* A session on the CPU acquires nothing; a GPU session owns its device.
NoDevice ==
    /\ asked = "nothing" /\ ~granted /\ destroyed = 0 /\ ~acquired
    /\ race = "pending" /\ setup = "session" /\ ~lost
    /\ jobs = <<>>
    /\ aborted = FALSE

DeviceInv ==
    /\ target \in {"cpu", "webgpu"} /\ ending \in {"open", "joining", "closed"}
    /\ IF target = "cpu" THEN NoDevice ELSE Acquisition
    /\ ending # "open" => setup = "session"
    /\ target = "webgpu" /\ setup = "session" => destroyed = (IF ending = "closed" THEN 1 ELSE 0)

-----------------------------------------------------------------------------
(* The preparation of parts                                                *)

Phases == {"manifest-fetch", "manifest-parse", "manifest-validation", "capability-selection",
           "module-fetch", "integrity-validation", "compilation", "instantiation", "abi-validation"}
PartStates == {"none", "running", "ready", "unavailable", "preparation"} \cup Phases
AskRecord == [needs : SUBSET Parts, state : {"queued", "waiting", "prepared"} \cup Over,
              error : PartStates, blamed : SUBSET Parts]

PreparationTyped ==
    /\ parts \in [Parts -> PartStates]
    /\ stage \in DOMAIN Stages
    /\ usable \in SUBSET Parts
    /\ starts \in [Parts -> 0..1]
    /\ asks \in Seq(AskRecord)
    /\ preparation \in Nat
    /\ lost \in BOOLEAN

\* The checks of a stage find nothing wrong.
Passes(s) == \A j \in DOMAIN Stages[s] : Stages[s][j].defect \notin Wrong

\* What a part has come to is true of what is served.
PartsAreTrue ==
    /\ Artifact \notin served.defects
    /\ parts[Artifact] = "running" => \A s \in 1..(stage - 1) : Passes(s)
    /\ parts[Artifact] \in {"none", "running", "ready"} \cup {Phase(d) : d \in Wrong}
    /\ \A k \in Kinds :
        /\ parts[k] \in {"none", "running", "ready", "unavailable", "preparation"}
        /\ parts[k] = "preparation" => k \in served.defects
        /\ parts[k] = "unavailable" => lost \/ ending = "closed"

\* What is ready is held until the close, and nothing is started again.
PartsAreKept ==
    \A p \in Parts : ending # "closed" =>
        /\ parts[p] = "ready" => p \in usable
        /\ parts[p] = "none" => starts[p] = 0

UsableIsSound ==
    /\ Artifact \in usable => Wrong \cap ArtifactDefects = {}
    /\ usable \cap served.defects = {}
    /\ ending = "closed" => usable = {}

\* A request needs the artifact or pipelines, and executes with what it needs.
AskIsTrue(r) ==
    /\ Artifact \in asks[r].needs => asks[r].needs = {Artifact}
    /\ asks[r].state = "prepared" => asks[r].needs \subseteq usable
    /\ asks[r].state # "unprepared"
    /\ ending = "closed" => asks[r].state \in Over

\* Somebody waits for the artifact while it is loaded.
SomebodyWaits ==
    parts[Artifact] = "running" =>
        \E r \in DOMAIN asks : asks[r].state = "waiting" /\ asks[r].needs = {Artifact}

PreparationInv ==
    /\ PreparationTyped /\ PartsAreTrue /\ PartsAreKept /\ UsableIsSound
    /\ \A r \in DOMAIN asks : AskIsTrue(r)
    /\ SomebodyWaits
    /\ FailuresAreOwned

-----------------------------------------------------------------------------
(* The queue of promise jobs                                               *)

\* A job that is queued comes behind all others, which stay where they are.
LEMMA QueueFacts ==
    ASSUME jobs \in Seq(JobRecord), NEW do \in Dos, NEW ok \in BOOLEAN, Queue(do, ok)
    PROVE  /\ jobs' \in Seq(JobRecord) /\ jobs' # <<>>
           /\ Len(jobs) \in Nat /\ DOMAIN jobs = 1..Len(jobs) /\ DOMAIN jobs' = 1..(Len(jobs) + 1)
           /\ \A i \in DOMAIN jobs : jobs'[i] = jobs[i]
           /\ jobs'[Len(jobs) + 1] = Job(do, ok)
           /\ Job(do, ok).do = do /\ Job(do, ok).ok = ok
<1>1. Job(do, ok) \in JobRecord /\ Job(do, ok).do = do /\ Job(do, ok).ok = ok
    BY DEF Job, JobRecord
<1>2. jobs' = Append(jobs, Job(do, ok))
    BY DEF Queue
<1>3. /\ jobs' \in Seq(JobRecord) /\ Len(jobs') = Len(jobs) + 1
      /\ \A i \in 1..Len(jobs) : jobs'[i] = jobs[i]
      /\ jobs'[Len(jobs) + 1] = Job(do, ok)
    BY <1>1, <1>2, AppendProperties
<1>4. Len(jobs) \in Nat /\ DOMAIN jobs = 1..Len(jobs) /\ DOMAIN jobs' = 1..Len(jobs')
    BY <1>3, LenProperties
<1>5. jobs' # <<>>
    BY <1>3, <1>4, EmptySeq
<1> QED BY <1>1, <1>3, <1>4, <1>5

\* The job that runs is the first one.
LEMMA HeadFacts ==
    ASSUME jobs \in Seq(JobRecord), jobs # <<>>
    PROVE  /\ 1 \in DOMAIN jobs /\ Head(jobs) = jobs[1]
           /\ jobs[1].do \in Dos /\ jobs[1].ok \in BOOLEAN
           /\ jobs[1] = Job(jobs[1].do, jobs[1].ok)
<1>1. Len(jobs) \in Nat /\ Len(jobs) # 0 /\ DOMAIN jobs = 1..Len(jobs)
    BY EmptySeq, LenProperties
<1>2. 1 \in DOMAIN jobs /\ Head(jobs) = jobs[1] /\ jobs[1] \in JobRecord
    BY <1>1, ElementOfSeq
<1> QED BY <1>2 DEF JobRecord, Job

\* The jobs behind the one that has run move up.
LEMMA TailFacts ==
    ASSUME jobs \in Seq(JobRecord), jobs # <<>>, jobs' = Tail(jobs)
    PROVE  /\ jobs' \in Seq(JobRecord) /\ Len(jobs) \in Nat \ {0}
           /\ DOMAIN jobs = 1..Len(jobs) /\ DOMAIN jobs' = 1..(Len(jobs) - 1)
           /\ \A i \in DOMAIN jobs' : i + 1 \in DOMAIN jobs /\ i \in Nat \ {0} /\ jobs'[i] = jobs[i + 1]
<1>1. /\ jobs' \in Seq(JobRecord) /\ Len(jobs') = Len(jobs) - 1
      /\ \A i \in 1..Len(jobs') : jobs'[i] = jobs[i + 1]
    BY HeadTailProperties
<1>2. /\ Len(jobs) \in Nat \ {0} /\ DOMAIN jobs = 1..Len(jobs)
      /\ DOMAIN jobs' = 1..Len(jobs')
    BY <1>1, EmptySeq, LenProperties
<1> QED BY <1>1, <1>2

\* A job that queues another.
LEMMA ThenFacts ==
    ASSUME jobs \in Seq(JobRecord), jobs # <<>>, NEW do \in Dos, NEW ok \in BOOLEAN, Then(do, ok)
    PROVE  /\ jobs' \in Seq(JobRecord) /\ jobs' # <<>>
           /\ Len(jobs) \in Nat \ {0} /\ DOMAIN jobs = 1..Len(jobs) /\ DOMAIN jobs' = 1..Len(jobs)
           /\ \A i \in 1..(Len(jobs) - 1) : i + 1 \in DOMAIN jobs /\ jobs'[i] = jobs[i + 1]
           /\ jobs'[Len(jobs)] = Job(do, ok)
           /\ Job(do, ok).do = do /\ Job(do, ok).ok = ok
<1>1. /\ Tail(jobs) \in Seq(JobRecord) /\ Len(Tail(jobs)) = Len(jobs) - 1
      /\ \A i \in 1..Len(Tail(jobs)) : Tail(jobs)[i] = jobs[i + 1]
    BY HeadTailProperties
<1>2. Len(jobs) \in Nat \ {0} /\ DOMAIN jobs = 1..Len(jobs)
    BY EmptySeq, LenProperties
<1>3. Job(do, ok) \in JobRecord /\ Job(do, ok).do = do /\ Job(do, ok).ok = ok
    BY DEF Job, JobRecord
<1>4. jobs' = Append(Tail(jobs), Job(do, ok))
    BY DEF Then
<1>5. /\ jobs' \in Seq(JobRecord) /\ Len(jobs') = Len(jobs)
      /\ \A i \in 1..(Len(jobs) - 1) : jobs'[i] = jobs[i + 1]
      /\ jobs'[Len(jobs)] = Job(do, ok)
    <2>1. /\ jobs' \in Seq(JobRecord) /\ Len(jobs') = Len(Tail(jobs)) + 1
          /\ \A i \in 1..Len(Tail(jobs)) : jobs'[i] = Tail(jobs)[i]
          /\ jobs'[Len(Tail(jobs)) + 1] = Job(do, ok)
        BY <1>1, <1>3, <1>4, AppendProperties
    <2> QED BY <2>1, <1>1, <1>2
<1>6. DOMAIN jobs' = 1..Len(jobs)
    BY <1>5, LenProperties
<1>7. jobs' # <<>>
    BY <1>5, <1>2, EmptySeq
<1>8. \A i \in 1..(Len(jobs) - 1) : i + 1 \in DOMAIN jobs
    BY <1>2
<1> QED BY <1>2, <1>3, <1>5, <1>6, <1>7, <1>8

\* A new job is the only one of its kin.
LEMMA QueueKeepsOne ==
    ASSUME jobs \in Seq(JobRecord), OneOfEach, NEW do \in Dos, NEW ok \in BOOLEAN, Queue(do, ok),
           \A i \in DOMAIN jobs : ~Kin(jobs[i].do, do)
    PROVE  OneOfEach'
<1>1. \A a, b : Kin(a, b) => Kin(b, a)
    BY DEF Kin
<1> QED BY <1>1, QueueFacts DEF OneOfEach

\* The jobs that are left are still one of each.
LEMMA TailKeepsOne ==
    ASSUME jobs \in Seq(JobRecord), jobs # <<>>, OneOfEach, jobs' = Tail(jobs)
    PROVE  OneOfEach'
<1> SUFFICES ASSUME NEW i \in DOMAIN jobs', NEW j \in DOMAIN jobs', Kin(jobs'[i].do, jobs'[j].do)
             PROVE  i = j
    BY DEF OneOfEach
<1>1. /\ i + 1 \in DOMAIN jobs /\ jobs'[i] = jobs[i + 1] /\ i \in Nat
      /\ j + 1 \in DOMAIN jobs /\ jobs'[j] = jobs[j + 1] /\ j \in Nat
    BY TailFacts
<1>2. i + 1 = j + 1
    BY <1>1 DEF OneOfEach
<1> QED BY <1>1, <1>2

\* A job that replaces the first one, its kin, keeps one of each.
LEMMA ThenKeepsOne ==
    ASSUME jobs \in Seq(JobRecord), jobs # <<>>, OneOfEach,
           NEW do \in Dos, NEW ok \in BOOLEAN, Then(do, ok),
           \A i \in DOMAIN jobs : i # 1 => ~Kin(jobs[i].do, do)
    PROVE  OneOfEach'
<1>1. \A a, b : Kin(a, b) => Kin(b, a)
    BY DEF Kin
<1>2. /\ Len(jobs) \in Nat \ {0} /\ DOMAIN jobs = 1..Len(jobs) /\ DOMAIN jobs' = 1..Len(jobs)
      /\ \A i \in 1..(Len(jobs) - 1) : i + 1 \in DOMAIN jobs /\ jobs'[i] = jobs[i + 1]
      /\ jobs'[Len(jobs)].do = do
    BY ThenFacts
<1>3. \A i \in 1..(Len(jobs) - 1) : i + 1 # 1 /\ ~Kin(jobs'[i].do, do) /\ ~Kin(do, jobs'[i].do)
    BY <1>1, <1>2
<1>4. SUFFICES ASSUME NEW i \in DOMAIN jobs', NEW j \in DOMAIN jobs', Kin(jobs'[i].do, jobs'[j].do)
               PROVE  i = j
    BY DEF OneOfEach
<1>5. CASE i \in 1..(Len(jobs) - 1) /\ j \in 1..(Len(jobs) - 1)
    <2>1. i + 1 = j + 1
        BY <1>2, <1>4, <1>5 DEF OneOfEach
    <2> QED BY <2>1, <1>2
<1>6. i \in 1..(Len(jobs) - 1) \/ i = Len(jobs)
    BY <1>2
<1>7. j \in 1..(Len(jobs) - 1) \/ j = Len(jobs)
    BY <1>2
<1> QED BY <1>2, <1>3, <1>4, <1>5, <1>6, <1>7

\* The kin of a job that is due is nowhere else in the queue.
LEMMA NoOtherKin ==
    ASSUME OneOfEach, NEW i \in DOMAIN jobs, NEW do, Kin(jobs[i].do, do),
           NEW j \in DOMAIN jobs, j # i
    PROVE  ~Kin(jobs[j].do, do)
<1>1. \A a, b, c : Kin(a, b) /\ Kin(c, b) => Kin(a, c)
    BY DEF Kin, Answers, Callers
<1> QED BY <1>1 DEF OneOfEach

\* The only job of a queue that was empty.
LEMMA FirstJob ==
    ASSUME jobs \in Seq(JobRecord), jobs = <<>>, NEW do \in Dos, NEW ok \in BOOLEAN, Queue(do, ok)
    PROVE  /\ jobs' \in Seq(JobRecord) /\ jobs' # <<>> /\ DOMAIN jobs' = {1}
           /\ jobs'[1].do = do /\ jobs'[1].ok = ok /\ jobs'[1] = Job(do, ok)
           /\ OneOfEach'
<1>1. Len(jobs) = 0
    BY EmptySeq
<1>2. /\ jobs' \in Seq(JobRecord) /\ jobs' # <<>> /\ DOMAIN jobs' = {1}
      /\ jobs'[1] = Job(do, ok) /\ Job(do, ok).do = do /\ Job(do, ok).ok = ok
    BY <1>1, QueueFacts
<1> QED BY <1>2 DEF OneOfEach

\* What nobody asks for is not there.
LEMMA NothingIsQueued == jobs = <<>> => DOMAIN jobs = {}
BY LenProperties, EmptySeq

-----------------------------------------------------------------------------
(* The steps of an acquisition                                             *)

\* The caller asks for a device, or finds that it cannot.
LEMMA AcquireKeepsIt ==
    ASSUME Acquisition, AcquireWebGpuDevice
    PROVE  Acquisition'
<1>1. /\ AcquisitionTyped /\ jobs \in Seq(JobRecord) /\ jobs = <<>> /\ asked = "nothing" /\ setup = "asked"
      /\ race = "pending" /\ granted = FALSE /\ acquired = FALSE /\ destroyed = 0 /\ DOMAIN jobs = {}
    BY NothingIsQueued DEF Acquisition, AcquisitionTyped, SetupGoesOn, DeviceIsOwned, AcquireWebGpuDevice
<1>2. /\ setup' = "acquiring" /\ race' = "pending" /\ granted' = FALSE /\ acquired' = FALSE /\ destroyed' = 0
      /\ aborted' = aborted /\ lost' = lost
    BY <1>1 DEF AcquireWebGpuDevice
<1>3. CASE aborted /\ Queue("made", FALSE) /\ UNCHANGED asked
    <2>1. /\ jobs' \in Seq(JobRecord) /\ DOMAIN jobs' = {1} /\ OneOfEach'
          /\ jobs'[1].do = "made" /\ jobs'[1].ok = FALSE /\ jobs'[1] = Job("made", FALSE)
        BY <1>1, <1>3, FirstJob DEF Dos, Callers
    <2>2. AcquisitionTyped'
        BY <1>1, <1>2, <1>3, <2>1 DEF AcquisitionTyped
    <2>3. JobsAreTrue'
        BY <1>1, <1>2, <1>3, <2>1 DEF JobsAreTrue, AnswerIsTrue, CancelIsTrue, CallerIsTrue, Answers, Callers
    <2>4. SetupGoesOn'
        BY <1>1, <1>2, <1>3, <2>1 DEF SetupGoesOn, Queued, Callers
    <2>5. DeviceIsOwned'
        BY <1>1, <1>2, <1>3, <2>1 DEF DeviceIsOwned, Job
    <2> QED BY <2>1, <2>2, <2>3, <2>4, <2>5 DEF Acquisition
<1>4. CASE ~aborted /\ asked' = "answered" /\ Queue("acquired", FALSE)
    <2>1. /\ jobs' \in Seq(JobRecord) /\ DOMAIN jobs' = {1} /\ OneOfEach'
          /\ jobs'[1].do = "acquired" /\ jobs'[1].ok = FALSE
        BY <1>1, <1>4, FirstJob DEF Dos, Answers
    <2>2. AcquisitionTyped'
        BY <1>1, <1>2, <1>4, <2>1 DEF AcquisitionTyped
    <2>3. JobsAreTrue'
        BY <1>1, <1>2, <1>4, <2>1 DEF JobsAreTrue, AnswerIsTrue, CancelIsTrue, CallerIsTrue, Answers, Callers
    <2>4. SetupGoesOn'
        BY <1>1, <1>2, <1>4 DEF SetupGoesOn
    <2>5. DeviceIsOwned'
        BY <1>1, <1>2, <1>4 DEF DeviceIsOwned, Job
    <2> QED BY <2>1, <2>2, <2>3, <2>4, <2>5 DEF Acquisition
<1>5. CASE ~aborted /\ asked' = "adapter" /\ UNCHANGED jobs
    <2>2. AcquisitionTyped' /\ OneOfEach'
        BY <1>1, <1>2, <1>5 DEF AcquisitionTyped, Acquisition, OneOfEach
    <2>3. JobsAreTrue'
        BY <1>1, <1>5 DEF JobsAreTrue
    <2>4. SetupGoesOn' /\ DeviceIsOwned'
        BY <1>1, <1>2, <1>5 DEF SetupGoesOn, DeviceIsOwned
    <2> QED BY <2>2, <2>3, <2>4 DEF Acquisition
<1> QED BY <1>3, <1>4, <1>5 DEF AcquireWebGpuDevice

\* The browser answers with an adapter or without.
LEMMA AdapterKeepsIt ==
    ASSUME Acquisition, NEW found \in BOOLEAN, AdapterAnswers(found)
    PROVE  Acquisition' /\ destroyed' = destroyed /\ setup' = setup
<1>1. /\ AcquisitionTyped /\ jobs \in Seq(JobRecord) /\ jobs = <<>> /\ asked = "adapter"
      /\ granted = FALSE /\ acquired = FALSE /\ destroyed = 0 /\ DOMAIN jobs = {} /\ race # "device"
    BY NothingIsQueued DEF Acquisition, AcquisitionTyped, DeviceIsOwned, AdapterAnswers
<1>2. /\ setup' = setup /\ race' = race /\ granted' = FALSE /\ acquired' = FALSE /\ destroyed' = 0
      /\ aborted' = aborted /\ lost' = lost
    BY <1>1 DEF AdapterAnswers
<1>3. setup # "asked" /\ (setup = "acquiring" => race = "pending" /\ ~aborted)
    BY <1>1 DEF Acquisition, SetupGoesOn, Queued
<1>6. setup \in {"session", "failed"} => race # "pending" /\ aborted
    BY <1>1 DEF Acquisition, SetupGoesOn
<1>7. race # "pending" => aborted
    BY <1>1 DEF Acquisition, SetupGoesOn
<1>8. setup \in {"acquiring", "failed"}
    BY <1>1, <1>3 DEF AcquisitionTyped, Acquisition, DeviceIsOwned
<1>4. CASE asked' = "device" /\ UNCHANGED jobs
    <2>2. AcquisitionTyped' /\ OneOfEach'
        BY <1>1, <1>2, <1>4 DEF AcquisitionTyped, Acquisition, OneOfEach
    <2>3. JobsAreTrue'
        BY <1>1, <1>4 DEF JobsAreTrue
    <2>4. SetupGoesOn' /\ DeviceIsOwned'
        BY <1>1, <1>2, <1>3, <1>4, <1>6, <1>7, <1>8 DEF SetupGoesOn, DeviceIsOwned
    <2> QED BY <1>1, <1>2, <2>2, <2>3, <2>4 DEF Acquisition
<1>5. CASE asked' = "answered" /\ Queue("acquired", FALSE)
    <2>1. /\ jobs' \in Seq(JobRecord) /\ DOMAIN jobs' = {1} /\ OneOfEach'
          /\ jobs'[1].do = "acquired" /\ jobs'[1].ok = FALSE
        BY <1>1, <1>5, FirstJob DEF Dos, Answers
    <2>2. AcquisitionTyped'
        BY <1>1, <1>2, <1>5, <2>1 DEF AcquisitionTyped
    <2>3. JobsAreTrue'
        BY <1>1, <1>2, <1>5, <2>1 DEF JobsAreTrue, AnswerIsTrue, CancelIsTrue, CallerIsTrue, Answers, Callers
    <2>4. SetupGoesOn'
        BY <1>1, <1>2, <1>3, <1>5, <1>6, <1>7, <1>8 DEF SetupGoesOn
    <2>5. DeviceIsOwned'
        BY <1>1, <1>2, <1>5, <1>8 DEF DeviceIsOwned, Job
    <2> QED BY <1>1, <1>2, <2>1, <2>2, <2>3, <2>4, <2>5 DEF Acquisition
<1> QED BY <1>4, <1>5 DEF AdapterAnswers

\* The browser grants a device, perhaps too late, or refuses it.
LEMMA GrantKeeps ==
    ASSUME Acquisition, NEW ok \in BOOLEAN, DeviceAnswers(ok)
    PROVE  Acquisition' /\ setup' = setup /\ setup # "session"
<1>1. /\ AcquisitionTyped /\ jobs \in Seq(JobRecord) /\ jobs = <<>> /\ asked = "device"
      /\ granted = FALSE /\ acquired = FALSE /\ destroyed = 0 /\ DOMAIN jobs = {} /\ race # "device"
    BY NothingIsQueued DEF Acquisition, AcquisitionTyped, DeviceIsOwned, DeviceAnswers
<1>2. /\ setup' = setup /\ race' = race /\ acquired' = FALSE
      /\ aborted' = aborted /\ lost' = lost /\ asked' = "answered"
    BY <1>1 DEF DeviceAnswers, Late
<1>3. setup # "asked" /\ (setup = "acquiring" => race = "pending" /\ ~aborted)
    BY <1>1 DEF Acquisition, SetupGoesOn, Queued
<1>6. setup \in {"session", "failed"} => race # "pending" /\ aborted
    BY <1>1 DEF Acquisition, SetupGoesOn
<1>7. race # "pending" => aborted
    BY <1>1 DEF Acquisition, SetupGoesOn
<1>8. setup \in {"acquiring", "failed"} /\ aborted \in BOOLEAN
    BY <1>1, <1>3 DEF AcquisitionTyped, Acquisition, DeviceIsOwned
<1>9. SetupGoesOn'
    BY <1>1, <1>2, <1>3, <1>6, <1>7, <1>8 DEF SetupGoesOn
<1>10. CASE ok = FALSE
    <2>1. granted' = FALSE /\ destroyed' = 0 /\ Queue("acquired", FALSE)
        BY <1>1, <1>2, <1>6, <1>7, <1>8, <1>10 DEF DeviceAnswers, Late
    <2>2. /\ jobs' \in Seq(JobRecord) /\ DOMAIN jobs' = {1} /\ OneOfEach' /\ jobs' # <<>>
          /\ jobs'[1].do = "acquired" /\ jobs'[1].ok = FALSE /\ jobs'[1] = Job("acquired", FALSE)
        BY <1>1, <2>1, FirstJob DEF Dos, Answers
    <2>3. AcquisitionTyped'
        BY <1>1, <1>2, <2>1, <2>2, 0 \in 0..1, 1 \in 0..1 DEF AcquisitionTyped
    <2>4. JobsAreTrue'
        BY <1>2, <2>1, <2>2 DEF JobsAreTrue, AnswerIsTrue, CancelIsTrue, CallerIsTrue, Answers, Callers
    <2>5. DeviceIsOwned'
        BY <1>1, <1>2, <1>8, <2>1, <2>2 DEF DeviceIsOwned, Job
    <2> QED BY <1>2, <1>8, <1>9, <2>2, <2>3, <2>4, <2>5 DEF Acquisition
<1>11. CASE ok = TRUE /\ aborted = TRUE
    <2>1. granted' = TRUE /\ destroyed' = 1 /\ Queue("acquired", FALSE)
        <3>1. granted' = TRUE /\ Queue("acquired", FALSE)
            BY <1>11 DEF DeviceAnswers, Late
        <3>2. destroyed' = destroyed + 1
            BY <1>11 DEF DeviceAnswers, Late
        <3>3. destroyed' = 1
            BY <1>1, <3>2
        <3> QED BY <3>1, <3>3
    <2>2. /\ jobs' \in Seq(JobRecord) /\ DOMAIN jobs' = {1} /\ OneOfEach' /\ jobs' # <<>>
          /\ jobs'[1].do = "acquired" /\ jobs'[1].ok = FALSE /\ jobs'[1] = Job("acquired", FALSE)
        BY <1>1, <2>1, FirstJob DEF Dos, Answers
    <2>3. AcquisitionTyped'
        BY <1>1, <1>2, <2>1, <2>2, 0 \in 0..1, 1 \in 0..1 DEF AcquisitionTyped
    <2>4. JobsAreTrue'
        <3>1. AnswerIsTrue(1)'
            <4>1. granted' = TRUE /\ destroyed' = 1 /\ 1 # 0
                BY <2>1
            <4> QED BY <1>2, <2>2, <4>1 DEF AnswerIsTrue, Answers
        <3>2. CancelIsTrue(1)' /\ CallerIsTrue(1)'
            BY <2>2 DEF CancelIsTrue, CallerIsTrue, Callers
        <3> QED BY <2>2, <3>1, <3>2 DEF JobsAreTrue
    <2>5. DeviceIsOwned'
        BY <1>1, <1>2, <1>8, <2>1, <2>2 DEF DeviceIsOwned, Job
    <2> QED BY <1>2, <1>8, <1>9, <2>2, <2>3, <2>4, <2>5 DEF Acquisition
<1>12. CASE ok = TRUE /\ aborted = FALSE
    <2>1. granted' = TRUE /\ destroyed' = 0 /\ Queue("acquired", TRUE) /\ race' = "pending" /\ setup' = "acquiring"
        BY <1>1, <1>2, <1>6, <1>7, <1>8, <1>12 DEF DeviceAnswers, Late
    <2>2. /\ jobs' \in Seq(JobRecord) /\ DOMAIN jobs' = {1} /\ OneOfEach' /\ jobs' # <<>>
          /\ jobs'[1].do = "acquired" /\ jobs'[1].ok = TRUE /\ jobs'[1] = Job("acquired", TRUE)
        BY <1>1, <2>1, FirstJob DEF Dos, Answers
    <2>3. AcquisitionTyped'
        BY <1>1, <1>2, <2>1, <2>2, 0 \in 0..1, 1 \in 0..1 DEF AcquisitionTyped
    <2>4. JobsAreTrue'
        BY <1>2, <2>1, <2>2 DEF JobsAreTrue, AnswerIsTrue, CancelIsTrue, CallerIsTrue, Answers, Callers
    <2>5. DeviceIsOwned'
        BY <1>1, <1>2, <1>8, <2>1, <2>2 DEF DeviceIsOwned, Job
    <2> QED BY <1>2, <1>8, <1>9, <2>2, <2>3, <2>4, <2>5 DEF Acquisition
<1> QED BY <1>8, <1>10, <1>11, <1>12

\* The device is lost: nobody owns it less.
LEMMA LossKeepsIt ==
    ASSUME Acquisition, LoseDevice
    PROVE  Acquisition' /\ destroyed' = destroyed /\ setup' = setup
<1>1. UNCHANGED <<asked, granted, destroyed, acquired, race, setup, aborted, jobs>> /\ lost' = TRUE
    BY DEF LoseDevice
<1>2. AcquisitionTyped' /\ OneOfEach'
    BY <1>1 DEF Acquisition, AcquisitionTyped, OneOfEach
<1>3. JobsAreTrue'
    BY <1>1 DEF Acquisition, JobsAreTrue, AnswerIsTrue, CancelIsTrue, CallerIsTrue
<1>4. SetupGoesOn' /\ DeviceIsOwned'
    BY <1>1 DEF Acquisition, SetupGoesOn, DeviceIsOwned, Queued
<1> QED BY <1>1, <1>2, <1>3, <1>4 DEF Acquisition

\* The caller cancels.
LEMMA AbortKeepsIt ==
    ASSUME Acquisition, Abort
    PROVE  Acquisition' /\ destroyed' = destroyed /\ setup' = setup
<1>1. /\ UNCHANGED <<asked, granted, destroyed, acquired, race, setup, lost>>
      /\ ~aborted /\ aborted' = TRUE
    BY DEF Abort
<1>2. AcquisitionTyped /\ jobs \in Seq(JobRecord) /\ OneOfEach /\ JobsAreTrue /\ SetupGoesOn /\ DeviceIsOwned
    BY DEF Acquisition, AcquisitionTyped
<1>3. CASE setup = "acquiring" /\ race = "pending" /\ Queue("cancelled", FALSE)
    <2>1. \A i \in DOMAIN jobs : jobs[i].do # "cancelled"
        BY <1>1, <1>2 DEF JobsAreTrue, CancelIsTrue
    <2>2. \A i \in DOMAIN jobs : ~Kin(jobs[i].do, "cancelled")
        BY <2>1 DEF Kin, Answers, Callers
    <2>3. "cancelled" \in Dos /\ FALSE \in BOOLEAN
        BY DEF Dos
    <2>4. OneOfEach'
        BY <1>2, <1>3, <2>2, <2>3, QueueKeepsOne
    <2>5. /\ jobs' \in Seq(JobRecord) /\ jobs' # <<>>
          /\ Len(jobs) \in Nat /\ DOMAIN jobs = 1..Len(jobs) /\ DOMAIN jobs' = 1..(Len(jobs) + 1)
          /\ \A i \in DOMAIN jobs : jobs'[i] = jobs[i]
          /\ jobs'[Len(jobs) + 1].do = "cancelled" /\ jobs'[Len(jobs) + 1].ok = FALSE
        BY <1>2, <1>3, <2>3, QueueFacts
    <2>6. AcquisitionTyped'
        BY <1>1, <1>2, <2>5 DEF AcquisitionTyped
    <2>7. asked # "nothing"
        BY <1>1, <1>2, <1>3 DEF SetupGoesOn
    <2>8. JobsAreTrue'
        <3> SUFFICES ASSUME NEW i \in DOMAIN jobs'
                     PROVE  AnswerIsTrue(i)' /\ CancelIsTrue(i)' /\ CallerIsTrue(i)'
            BY DEF JobsAreTrue
        <3>1. CASE i = Len(jobs) + 1
            BY <1>1, <1>3, <2>5, <2>7, <3>1 DEF AnswerIsTrue, CancelIsTrue, CallerIsTrue, Answers, Callers
        <3>2. CASE i \in DOMAIN jobs
            <4>1. AnswerIsTrue(i) /\ CancelIsTrue(i) /\ CallerIsTrue(i) /\ jobs'[i] = jobs[i]
                BY <1>2, <2>5, <3>2 DEF JobsAreTrue
            <4> QED BY <1>1, <4>1 DEF AnswerIsTrue, CancelIsTrue, CallerIsTrue
        <3> QED BY <2>5, <3>1, <3>2
    <2>9. Queued(Callers \cup {"cancelled"})'
        BY <2>5 DEF Queued
    <2>10. setup # "asked"
        BY <1>3
    <2>11. SetupGoesOn'
        BY <1>1, <1>2, <1>3, <2>7, <2>9, <2>10 DEF SetupGoesOn
    <2>12. jobs # <<>> => jobs'[1] = jobs[1]
        BY <1>2, <2>5, HeadFacts
    <2>13. DeviceIsOwned'
        BY <1>1, <1>2, <2>5, <2>12 DEF DeviceIsOwned
    <2> QED BY <1>1, <2>4, <2>6, <2>8, <2>11, <2>13 DEF Acquisition
<1>4. CASE ~(setup = "acquiring" /\ race = "pending") /\ UNCHANGED jobs
    <2>1. AcquisitionTyped' /\ OneOfEach' /\ DeviceIsOwned'
        BY <1>1, <1>2, <1>4 DEF AcquisitionTyped, OneOfEach, DeviceIsOwned
    <2>2. JobsAreTrue'
        BY <1>1, <1>2, <1>4 DEF JobsAreTrue, AnswerIsTrue, CancelIsTrue, CallerIsTrue
    <2>3. Queued(Callers) => Queued(Callers \cup {"cancelled"})
        BY DEF Queued
    <2>4. SetupGoesOn'
        BY <1>1, <1>2, <1>4, <2>3 DEF SetupGoesOn, Queued
    <2> QED BY <1>1, <2>1, <2>2, <2>4 DEF Acquisition
<1> QED BY <1>3, <1>4 DEF Abort

\* What the jobs behind the first one know of each other.
LEMMA BehindTheFirst ==
    ASSUME Acquisition, jobs # <<>>, NEW k \in DOMAIN jobs, k # 1
    PROVE  /\ AnswerIsTrue(k) /\ CancelIsTrue(k) /\ CallerIsTrue(k)
           /\ jobs[k].do = "acquired" => jobs[k].ok = FALSE
           /\ jobs[1].do \in Answers => jobs[k].do \notin Answers
           /\ jobs[1].do \in Callers => jobs[k].do \notin Callers
<1>1. AnswerIsTrue(k) /\ CancelIsTrue(k) /\ CallerIsTrue(k)
    BY DEF Acquisition, JobsAreTrue
<1>2. jobs \in Seq(JobRecord)
    BY DEF Acquisition, AcquisitionTyped
<1>3. 1 \in DOMAIN jobs /\ jobs[k].ok \in BOOLEAN
    <2>1. k \in 1..Len(jobs) /\ 1 \in DOMAIN jobs
        BY <1>2, HeadFacts, LenProperties
    <2>2. jobs[k] \in JobRecord
        BY <1>2, <2>1, ElementOfSeq
    <2> QED BY <2>1, <2>2 DEF JobRecord
<1>4. ~Kin(jobs[1].do, jobs[k].do)
    BY <1>3 DEF Acquisition, OneOfEach
<1>5. jobs[k].do = "acquired" => jobs[k].ok = FALSE
    BY <1>1, <1>3 DEF AnswerIsTrue
<1> QED BY <1>1, <1>4, <1>5 DEF Kin

\* A job that waits behind the first still waits when that one has run.
LEMMA StillQueued ==
    ASSUME jobs \in Seq(JobRecord), jobs # <<>>, NEW dos, jobs[1].do \notin dos, Queued(dos),
           \A i \in 1..(Len(jobs) - 1) : i \in DOMAIN jobs' /\ jobs'[i] = jobs[i + 1]
    PROVE  Queued(dos)'
<1>1. PICK k \in DOMAIN jobs : jobs[k].do \in dos
    BY DEF Queued
<1>2. k # 1 /\ k \in 1..Len(jobs) /\ Len(jobs) \in Nat
    BY <1>1, LenProperties
<1>3. k - 1 \in 1..(Len(jobs) - 1) /\ (k - 1) + 1 = k
    BY <1>2
<1>4. k - 1 \in DOMAIN jobs' /\ jobs'[k - 1] = jobs[k]
    BY <1>3
<1> QED BY <1>1, <1>4 DEF Queued

\* acquireWebGpuDevice() learns what the browser answered.
LEMMA AcquiredKeepsIt ==
    ASSUME Acquisition, Acquired
    PROVE  Acquisition' /\ destroyed' = destroyed /\ setup' = setup
<1>1. /\ UNCHANGED <<asked, granted, destroyed, race, setup, aborted, lost>> /\ jobs # <<>>
      /\ Head(jobs).do = "acquired" /\ acquired' = Head(jobs).ok /\ Then("raced", Head(jobs).ok)
    BY DEF Acquired, Runs
<1>2. AcquisitionTyped /\ jobs \in Seq(JobRecord) /\ OneOfEach /\ JobsAreTrue /\ SetupGoesOn /\ DeviceIsOwned
    BY DEF Acquisition, AcquisitionTyped
<1>3. /\ 1 \in DOMAIN jobs /\ Head(jobs) = jobs[1] /\ jobs[1].ok \in BOOLEAN
      /\ AnswerIsTrue(1) /\ jobs[1].do = "acquired"
    BY <1>1, <1>2, HeadFacts DEF JobsAreTrue
<1>4. PICK ok \in BOOLEAN : ok = jobs[1].ok
    BY <1>3
<1>5. Then("raced", ok) /\ acquired' = ok /\ "raced" \in Dos /\ "acquired" \in Answers /\ "raced" \in Answers
    BY <1>1, <1>3, <1>4 DEF Dos, Answers
<1>6. OneOfEach'
    <2>1. \A i \in DOMAIN jobs : i # 1 => ~Kin(jobs[i].do, "raced")
        BY <1>2, <1>3, <1>5, NoOtherKin DEF Kin
    <2> QED BY <1>1, <1>2, <1>5, <2>1, ThenKeepsOne
<1>7. /\ jobs' \in Seq(JobRecord) /\ jobs' # <<>>
      /\ Len(jobs) \in Nat \ {0} /\ DOMAIN jobs = 1..Len(jobs) /\ DOMAIN jobs' = 1..Len(jobs)
      /\ \A i \in 1..(Len(jobs) - 1) : i + 1 \in DOMAIN jobs /\ jobs'[i] = jobs[i + 1]
      /\ jobs'[Len(jobs)].do = "raced" /\ jobs'[Len(jobs)].ok = ok
    BY <1>1, <1>2, <1>5, ThenFacts
<1>8. AcquisitionTyped'
    BY <1>1, <1>2, <1>5, <1>7 DEF AcquisitionTyped
<1>9. /\ asked = "answered" /\ acquired = FALSE /\ (ok => destroyed = 0 /\ granted)
      /\ ~ok => ~(granted /\ destroyed = 0)
    BY <1>2, <1>3, <1>4, <1>5 DEF AnswerIsTrue, AcquisitionTyped
<1>10. race # "device"
    BY <1>2, <1>9 DEF DeviceIsOwned
<1>11. JobsAreTrue'
    <2> SUFFICES ASSUME NEW i \in DOMAIN jobs'
                 PROVE  AnswerIsTrue(i)' /\ CancelIsTrue(i)' /\ CallerIsTrue(i)'
        BY DEF JobsAreTrue
    <2>1. CASE i = Len(jobs)
        BY <1>1, <1>5, <1>7, <1>9, <2>1 DEF AnswerIsTrue, CancelIsTrue, CallerIsTrue, Answers, Callers
    <2>2. CASE i \in 1..(Len(jobs) - 1)
        <3>1. PICK k \in DOMAIN jobs : k # 1 /\ jobs'[i] = jobs[k]
            <4>1. i + 1 \in DOMAIN jobs /\ i + 1 # 1 /\ jobs'[i] = jobs[i + 1]
                BY <1>7, <2>2
            <4> QED BY <4>1
        <3>2. /\ CancelIsTrue(k) /\ CallerIsTrue(k) /\ jobs[k].do \notin Answers
            BY <1>1, <1>3, <1>5, <3>1, BehindTheFirst
        <3>3. AnswerIsTrue(i)'
            BY <3>1, <3>2 DEF AnswerIsTrue, Answers
        <3>4. CancelIsTrue(i)'
            BY <1>1, <3>1, <3>2 DEF CancelIsTrue
        <3>5. CallerIsTrue(i)'
            BY <1>1, <1>5, <1>9, <1>10, <3>1, <3>2 DEF CallerIsTrue
        <3> QED BY <3>3, <3>4, <3>5
    <2> QED BY <1>7, <2>1, <2>2
<1>12. SetupGoesOn'
    <2>1. "acquired" \notin Callers /\ "acquired" \notin Callers \cup {"cancelled"}
        BY DEF Callers
    <2>2. Queued(Callers) => Queued(Callers)'
        BY <1>1, <1>2, <1>3, <1>7, <2>1, StillQueued
    <2>3. Queued(Callers \cup {"cancelled"}) => Queued(Callers \cup {"cancelled"})'
        BY <1>1, <1>2, <1>3, <1>7, <2>1, StillQueued
    <2>4. setup # "asked"
        BY <1>1, <1>2 DEF SetupGoesOn
    <2> QED BY <1>1, <1>2, <2>2, <2>3, <2>4 DEF SetupGoesOn
<1>13. DeviceIsOwned'
    BY <1>1, <1>2, <1>5, <1>9, <1>10 DEF DeviceIsOwned, Job
<1> QED BY <1>1, <1>6, <1>7, <1>8, <1>11, <1>12, <1>13 DEF Acquisition

\* The first of the answer and the cancellation settles the race.
LEMMA RacedKeepsIt ==
    ASSUME Acquisition, Raced
    PROVE  Acquisition' /\ destroyed' = destroyed /\ setup' = setup
<1>1. /\ UNCHANGED <<asked, granted, destroyed, acquired, setup, aborted, lost>> /\ jobs # <<>>
      /\ Head(jobs).do \in {"raced", "cancelled"}
    BY DEF Raced, Runs
<1>2. AcquisitionTyped /\ jobs \in Seq(JobRecord) /\ OneOfEach /\ JobsAreTrue /\ SetupGoesOn /\ DeviceIsOwned
    BY DEF Acquisition, AcquisitionTyped
<1>3. /\ 1 \in DOMAIN jobs /\ Head(jobs) = jobs[1] /\ jobs[1].ok \in BOOLEAN
      /\ AnswerIsTrue(1) /\ CancelIsTrue(1) /\ jobs[1].do \in {"raced", "cancelled"}
    BY <1>1, <1>2, HeadFacts DEF JobsAreTrue
<1>4. /\ asked # "nothing" /\ setup # "asked" /\ (asked \in {"adapter", "device"} => aborted)
      /\ jobs[1].do = "acquired" => FALSE
      /\ jobs[1].ok => acquired
    BY <1>1, <1>2, <1>3 DEF AnswerIsTrue, CancelIsTrue, Answers, SetupGoesOn
<1>5. ~(granted /\ destroyed = 0 /\ ~acquired)
    <2>1. jobs[1] # Job("acquired", TRUE)
        BY <1>3 DEF Job
    <2> QED BY <1>2, <2>1 DEF DeviceIsOwned
<1>6. CASE race = "pending"
    <2>1. /\ race' = (IF jobs[1].ok THEN "device" ELSE "error") /\ Then("resume", TRUE)
          /\ "resume" \in Dos /\ TRUE \in BOOLEAN
        BY <1>3, <1>6 DEF Raced, Dos, Callers
    <2>2. race' \in {"device", "error"} /\ (race' = "device" => acquired)
        BY <1>3, <1>4, <2>1
    <2>3. setup = "acquiring" /\ \A i \in DOMAIN jobs : jobs[i].do \notin Callers
        BY <1>2, <1>4, <1>6 DEF AcquisitionTyped, SetupGoesOn, JobsAreTrue, CallerIsTrue
    <2>4. OneOfEach'
        <3>1. \A i \in DOMAIN jobs : i # 1 => ~Kin(jobs[i].do, "resume")
            BY <2>3 DEF Kin, Callers, Answers
        <3> QED BY <1>1, <1>2, <2>1, <3>1, ThenKeepsOne
    <2>5. /\ jobs' \in Seq(JobRecord) /\ jobs' # <<>>
          /\ Len(jobs) \in Nat \ {0} /\ DOMAIN jobs = 1..Len(jobs) /\ DOMAIN jobs' = 1..Len(jobs)
          /\ \A i \in 1..(Len(jobs) - 1) : i + 1 \in DOMAIN jobs /\ jobs'[i] = jobs[i + 1]
          /\ jobs'[Len(jobs)].do = "resume" /\ jobs'[Len(jobs)].ok = TRUE
        BY <1>1, <1>2, <2>1, ThenFacts
    <2>6. AcquisitionTyped'
        BY <1>1, <1>2, <2>2, <2>5 DEF AcquisitionTyped
    <2>7. acquired => destroyed = 0
        BY <1>2, <1>6 DEF DeviceIsOwned
    <2>8. JobsAreTrue'
        <3> SUFFICES ASSUME NEW i \in DOMAIN jobs'
                     PROVE  AnswerIsTrue(i)' /\ CancelIsTrue(i)' /\ CallerIsTrue(i)'
            BY DEF JobsAreTrue
        <3>1. CASE i = Len(jobs)
            BY <1>1, <2>2, <2>3, <2>5, <2>7, <3>1 DEF AnswerIsTrue, CancelIsTrue, CallerIsTrue, Answers, Callers
        <3>2. CASE i \in 1..(Len(jobs) - 1)
            <4>1. PICK k \in DOMAIN jobs : k # 1 /\ jobs'[i] = jobs[k]
                <5>1. i + 1 \in DOMAIN jobs /\ i + 1 # 1 /\ jobs'[i] = jobs[i + 1]
                    BY <2>5, <3>2
                <5> QED BY <5>1
            <4>2. /\ AnswerIsTrue(k) /\ CancelIsTrue(k) /\ jobs[k].do \notin Callers
                  /\ jobs[k].do = "acquired" => jobs[k].ok = FALSE
                BY <1>1, <2>3, <4>1, BehindTheFirst
            <4>3. AnswerIsTrue(i)'
                BY <1>1, <1>5, <4>1, <4>2 DEF AnswerIsTrue
            <4>4. CancelIsTrue(i)'
                BY <1>1, <2>3, <4>1, <4>2 DEF CancelIsTrue
            <4>5. CallerIsTrue(i)'
                BY <4>1, <4>2 DEF CallerIsTrue
            <4> QED BY <4>3, <4>4, <4>5
        <3> QED BY <2>5, <3>1, <3>2
    <2>9. Queued(Callers)' /\ Queued(Callers \cup {"cancelled"})'
        BY <2>5 DEF Queued, Callers
    <2>10. SetupGoesOn'
        BY <1>1, <1>4, <2>2, <2>3, <2>9 DEF SetupGoesOn
    <2>11. DeviceIsOwned'
        BY <1>1, <1>2, <1>5, <2>2, <2>3, <2>7 DEF DeviceIsOwned
    <2> QED BY <1>1, <2>4, <2>5, <2>6, <2>8, <2>10, <2>11 DEF Acquisition
<1>7. CASE race # "pending"
    <2>1. race' = race /\ jobs' = Tail(jobs)
        BY <1>7 DEF Raced
    <2>2. /\ jobs' \in Seq(JobRecord) /\ Len(jobs) \in Nat \ {0}
          /\ DOMAIN jobs = 1..Len(jobs) /\ DOMAIN jobs' = 1..(Len(jobs) - 1)
          /\ \A i \in DOMAIN jobs' : i + 1 \in DOMAIN jobs /\ i \in Nat \ {0} /\ jobs'[i] = jobs[i + 1]
        BY <1>1, <1>2, <2>1, TailFacts
    <2>3. OneOfEach'
        BY <1>1, <1>2, <2>1, TailKeepsOne
    <2>4. AcquisitionTyped'
        BY <1>1, <1>2, <2>1, <2>2 DEF AcquisitionTyped
    <2>5. JobsAreTrue'
        <3> SUFFICES ASSUME NEW i \in DOMAIN jobs'
                     PROVE  AnswerIsTrue(i)' /\ CancelIsTrue(i)' /\ CallerIsTrue(i)'
            BY DEF JobsAreTrue
        <3>1. PICK k \in DOMAIN jobs : k # 1 /\ jobs'[i] = jobs[k]
            <4>1. i + 1 \in DOMAIN jobs /\ i + 1 # 1 /\ jobs'[i] = jobs[i + 1]
                BY <2>2
            <4> QED BY <4>1
        <3>2. /\ AnswerIsTrue(k) /\ CancelIsTrue(k) /\ CallerIsTrue(k)
              /\ jobs[k].do = "acquired" => jobs[k].ok = FALSE
            BY <1>1, <3>1, BehindTheFirst
        <3>3. AnswerIsTrue(i)'
            BY <1>1, <3>1, <3>2 DEF AnswerIsTrue
        <3>4. CancelIsTrue(i)' /\ CallerIsTrue(i)'
            BY <1>1, <1>7, <2>1, <3>1, <3>2 DEF CancelIsTrue, CallerIsTrue
        <3> QED BY <3>3, <3>4
    <2>6. setup = "acquiring" => Queued(Callers)' /\ Queued(Callers \cup {"cancelled"})'
        <3>1. jobs[1].do \notin Callers
            BY <1>3 DEF Callers
        <3>2. \A i \in 1..(Len(jobs) - 1) : i \in DOMAIN jobs' /\ jobs'[i] = jobs[i + 1]
            BY <2>2
        <3>3. Queued(Callers) => Queued(Callers)'
            BY <1>1, <1>2, <3>1, <3>2, StillQueued
        <3>4. Queued(Callers)' => Queued(Callers \cup {"cancelled"})'
            BY DEF Queued
        <3> QED BY <1>2, <1>7, <3>3, <3>4 DEF SetupGoesOn
    <2>7. SetupGoesOn'
        BY <1>1, <1>2, <1>4, <1>7, <2>1, <2>6 DEF SetupGoesOn
    <2>8. DeviceIsOwned'
        BY <1>1, <1>2, <1>5, <1>7, <2>1 DEF DeviceIsOwned
    <2> QED BY <1>1, <2>2, <2>3, <2>4, <2>5, <2>7, <2>8 DEF Acquisition
<1> QED BY <1>6, <1>7

\* The caller of an acquisition whose job runs: the first job is its only one.
LEMMA CallerRuns ==
    ASSUME Acquisition, jobs # <<>>, Head(jobs).do \in Callers
    PROVE  /\ AcquisitionTyped /\ jobs \in Seq(JobRecord) /\ OneOfEach /\ JobsAreTrue
           /\ SetupGoesOn /\ DeviceIsOwned
           /\ 1 \in DOMAIN jobs /\ Head(jobs) = jobs[1] /\ jobs[1].ok \in BOOLEAN
           /\ CallerIsTrue(1) /\ jobs[1].do \in Callers /\ setup = "acquiring"
           /\ \A i \in DOMAIN jobs : i # 1 => jobs[i].do \notin Callers
           /\ ~(granted /\ destroyed = 0 /\ ~acquired)
<1>1. AcquisitionTyped /\ jobs \in Seq(JobRecord) /\ OneOfEach /\ JobsAreTrue /\ SetupGoesOn /\ DeviceIsOwned
    BY DEF Acquisition, AcquisitionTyped
<1>2. /\ 1 \in DOMAIN jobs /\ Head(jobs) = jobs[1] /\ jobs[1].ok \in BOOLEAN
      /\ CallerIsTrue(1) /\ jobs[1].do \in Callers
    BY <1>1, HeadFacts DEF JobsAreTrue
<1>3. setup = "acquiring"
    BY <1>2 DEF CallerIsTrue
<1>4. \A i \in DOMAIN jobs : i # 1 => jobs[i].do \notin Callers
    BY <1>2, BehindTheFirst
<1>5. jobs[1] # Job("acquired", TRUE)
    BY <1>2 DEF Job, Callers
<1>6. ~(granted /\ destroyed = 0 /\ ~acquired)
    BY <1>1, <1>5 DEF DeviceIsOwned
<1> QED BY <1>1, <1>2, <1>3, <1>4, <1>6

\* The jobs behind the caller's job stay true while it settles the device.
LEMMA OthersStayTrue ==
    ASSUME Acquisition, jobs # <<>>, Head(jobs).do \in Callers, NEW k \in DOMAIN jobs, k # 1,
           NEW i, jobs'[i] = jobs[k],
           UNCHANGED <<asked, granted, acquired, race, aborted>>,
           destroyed = 0 \/ destroyed' = destroyed,
           granted /\ ~acquired => destroyed' = destroyed,
           setup' = setup \/ race # "pending" \/ asked = "nothing"
    PROVE  AnswerIsTrue(i)' /\ CancelIsTrue(i)' /\ CallerIsTrue(i)'
<1>1. /\ AnswerIsTrue(k) /\ CancelIsTrue(k) /\ jobs[k].do \notin Callers
      /\ jobs[k].do = "acquired" => jobs[k].ok = FALSE
      /\ ~(granted /\ destroyed = 0 /\ ~acquired)
    BY CallerRuns, BehindTheFirst
<1>2. AnswerIsTrue(i)'
    <2>1. CASE jobs[k].do = "acquired"
        BY <1>1, <2>1 DEF AnswerIsTrue, Answers
    <2>2. CASE jobs[k].do # "acquired"
        BY <1>1, <2>2 DEF AnswerIsTrue
    <2> QED BY <2>1, <2>2
<1>3. CancelIsTrue(i)' /\ CallerIsTrue(i)'
    BY <1>1 DEF CancelIsTrue, CallerIsTrue
<1> QED BY <1>2, <1>3

\* acquireWebGpuDevice() returns the device, or destroys it and throws.
LEMMA ResumeKeepsIt ==
    ASSUME Acquisition, Resume
    PROVE  Acquisition' /\ setup' = setup /\ setup # "session"
<1>1. /\ UNCHANGED <<asked, granted, acquired, race, setup, aborted, lost>> /\ jobs # <<>>
      /\ Head(jobs).do = "resume" /\ Head(jobs).do \in Callers
    BY DEF Resume, Runs, Callers
<1>2. /\ AcquisitionTyped /\ jobs \in Seq(JobRecord) /\ OneOfEach /\ JobsAreTrue
      /\ SetupGoesOn /\ DeviceIsOwned
      /\ 1 \in DOMAIN jobs /\ Head(jobs) = jobs[1] /\ CallerIsTrue(1) /\ setup = "acquiring"
      /\ \A i \in DOMAIN jobs : i # 1 => jobs[i].do \notin Callers
      /\ ~(granted /\ destroyed = 0 /\ ~acquired)
    BY <1>1, CallerRuns
<1>3. race # "pending" /\ (acquired => destroyed = 0)
    BY <1>1, <1>2 DEF CallerIsTrue, Job
<1>4. race \in {"device", "error"} /\ aborted \in BOOLEAN /\ granted \in BOOLEAN /\ acquired \in BOOLEAN
    BY <1>2, <1>3 DEF AcquisitionTyped
<1>5. PICK ok \in BOOLEAN : /\ Then("made", ok)
                            /\ ok => race = "device" /\ destroyed' = destroyed
                            /\ ~ok => destroyed' = IF acquired THEN destroyed + 1 ELSE destroyed
    <2>1. CASE race = "error" \/ aborted
        <3>1. Then("made", FALSE) /\ destroyed' = IF acquired THEN destroyed + 1 ELSE destroyed
            BY <2>1 DEF Resume
        <3> QED BY <3>1
    <2>2. CASE ~(race = "error" \/ aborted)
        <3>1. Then("made", TRUE) /\ destroyed' = destroyed /\ race = "device"
            BY <1>4, <2>2 DEF Resume
        <3> QED BY <3>1
    <2> QED BY <2>1, <2>2
<1>6. destroyed' \in 0..1 /\ (destroyed' = 1 => granted) /\ (destroyed = 0 \/ destroyed' = destroyed)
    <2>1. CASE ok
        BY <1>2, <1>5, <2>1 DEF AcquisitionTyped, DeviceIsOwned
    <2>2. CASE ~ok /\ acquired
        BY <1>2, <1>3, <1>5, <2>2 DEF AcquisitionTyped, DeviceIsOwned
    <2>3. CASE ~ok /\ ~acquired
        BY <1>2, <1>5, <2>3 DEF AcquisitionTyped, DeviceIsOwned
    <2> QED BY <2>1, <2>2, <2>3
<1>7. (granted /\ ~acquired => destroyed' = destroyed) /\ ~(granted /\ destroyed' = 0 /\ ~acquired)
    BY <1>2, <1>5
<1>8. /\ ok => race = "device" /\ destroyed' = 0
      /\ ~ok => (granted => destroyed' = 1)
    <2>1. ok => race = "device" /\ destroyed' = 0
        BY <1>2, <1>3, <1>5 DEF DeviceIsOwned
    <2>2. CASE ~ok /\ acquired
        BY <1>3, <1>5, <2>2
    <2>3. CASE ~ok /\ ~acquired
        BY <1>2, <1>5, <2>3 DEF AcquisitionTyped
    <2> QED BY <2>1, <2>2, <2>3
<1>9. "made" \in Dos /\ "made" \in Callers
    BY DEF Dos, Callers
<1>10. OneOfEach'
    <2>1. \A i \in DOMAIN jobs : i # 1 => ~Kin(jobs[i].do, "made")
        BY <1>2, <1>9 DEF Kin, Callers, Answers
    <2> QED BY <1>1, <1>2, <1>5, <1>9, <2>1, ThenKeepsOne
<1>11. /\ jobs' \in Seq(JobRecord) /\ jobs' # <<>>
       /\ Len(jobs) \in Nat \ {0} /\ DOMAIN jobs = 1..Len(jobs) /\ DOMAIN jobs' = 1..Len(jobs)
       /\ \A i \in 1..(Len(jobs) - 1) : i + 1 \in DOMAIN jobs /\ jobs'[i] = jobs[i + 1]
       /\ jobs'[Len(jobs)].do = "made" /\ jobs'[Len(jobs)].ok = ok
    BY <1>1, <1>2, <1>5, <1>9, ThenFacts
<1>12. AcquisitionTyped'
    BY <1>1, <1>2, <1>6, <1>11 DEF AcquisitionTyped
<1>13. JobsAreTrue'
    <2> SUFFICES ASSUME NEW i \in DOMAIN jobs'
                 PROVE  AnswerIsTrue(i)' /\ CancelIsTrue(i)' /\ CallerIsTrue(i)'
        BY DEF JobsAreTrue
    <2>1. CASE i = Len(jobs)
        BY <1>1, <1>2, <1>3, <1>8, <1>11, <2>1 DEF AnswerIsTrue, CancelIsTrue, CallerIsTrue, Answers, Callers
    <2>2. CASE i \in 1..(Len(jobs) - 1)
        <3>1. PICK k \in DOMAIN jobs : k # 1 /\ jobs'[i] = jobs[k]
            <4>1. i + 1 \in DOMAIN jobs /\ i + 1 # 1 /\ jobs'[i] = jobs[i + 1]
                BY <1>11, <2>2
            <4> QED BY <4>1
        <3> QED BY <1>1, <1>6, <1>7, <3>1, OthersStayTrue
    <2> QED BY <1>11, <2>1, <2>2
<1>14. Queued(Callers)' /\ Queued(Callers \cup {"cancelled"})'
    BY <1>9, <1>11 DEF Queued
<1>15. SetupGoesOn'
    BY <1>1, <1>2, <1>14 DEF SetupGoesOn
<1>16. DeviceIsOwned'
    BY <1>1, <1>2, <1>3, <1>6, <1>7 DEF DeviceIsOwned
<1> QED BY <1>1, <1>2, <1>10, <1>11, <1>12, <1>13, <1>15, <1>16 DEF Acquisition

\* createWebGpuRuntimeSession() goes on with the device or fails.
LEMMA MadeKeepsIt ==
    ASSUME Acquisition, Made
    PROVE  Acquisition' /\ destroyed' = destroyed /\ setup # "session" /\ setup' # "session"
<1>1. /\ UNCHANGED <<asked, granted, destroyed, acquired, race, aborted, lost>> /\ jobs # <<>>
      /\ Head(jobs).do = "made" /\ Head(jobs).do \in Callers
    BY DEF Made, Runs, Callers
<1>2. /\ AcquisitionTyped /\ jobs \in Seq(JobRecord) /\ OneOfEach /\ JobsAreTrue
      /\ SetupGoesOn /\ DeviceIsOwned
      /\ 1 \in DOMAIN jobs /\ Head(jobs) = jobs[1] /\ CallerIsTrue(1) /\ setup = "acquiring"
      /\ \A i \in DOMAIN jobs : i # 1 => jobs[i].do \notin Callers
      /\ ~(granted /\ destroyed = 0 /\ ~acquired)
    BY <1>1, CallerRuns
<1>3. CASE Head(jobs).ok
    <2>1. setup' = setup /\ Then("publish", TRUE) /\ "publish" \in Dos /\ "publish" \in Callers /\ TRUE \in BOOLEAN
        BY <1>3 DEF Made, Dos, Callers
    <2>2. race = "device" /\ destroyed = 0
        BY <1>1, <1>2, <1>3 DEF CallerIsTrue
    <2>3. OneOfEach'
        <3>1. \A i \in DOMAIN jobs : i # 1 => ~Kin(jobs[i].do, "publish")
            BY <1>2, <2>1 DEF Kin, Callers, Answers
        <3> QED BY <1>1, <1>2, <2>1, <3>1, ThenKeepsOne
    <2>4. /\ jobs' \in Seq(JobRecord) /\ jobs' # <<>>
          /\ Len(jobs) \in Nat \ {0} /\ DOMAIN jobs = 1..Len(jobs) /\ DOMAIN jobs' = 1..Len(jobs)
          /\ \A i \in 1..(Len(jobs) - 1) : i + 1 \in DOMAIN jobs /\ jobs'[i] = jobs[i + 1]
          /\ jobs'[Len(jobs)].do = "publish" /\ jobs'[Len(jobs)].ok = TRUE
        BY <1>1, <1>2, <2>1, ThenFacts
    <2>5. AcquisitionTyped'
        BY <1>1, <1>2, <2>1, <2>4 DEF AcquisitionTyped
    <2>6. JobsAreTrue'
        <3> SUFFICES ASSUME NEW i \in DOMAIN jobs'
                     PROVE  AnswerIsTrue(i)' /\ CancelIsTrue(i)' /\ CallerIsTrue(i)'
            BY DEF JobsAreTrue
        <3>1. CASE i = Len(jobs)
            BY <1>1, <1>2, <2>1, <2>2, <2>4, <3>1 DEF AnswerIsTrue, CancelIsTrue, CallerIsTrue, Answers, Callers
        <3>2. CASE i \in 1..(Len(jobs) - 1)
            <4>1. PICK k \in DOMAIN jobs : k # 1 /\ jobs'[i] = jobs[k]
                <5>1. i + 1 \in DOMAIN jobs /\ i + 1 # 1 /\ jobs'[i] = jobs[i + 1]
                    BY <2>4, <3>2
                <5> QED BY <5>1
            <4> QED BY <1>1, <2>1, <4>1, OthersStayTrue
        <3> QED BY <2>4, <3>1, <3>2
    <2>7. Queued(Callers)' /\ Queued(Callers \cup {"cancelled"})'
        BY <2>1, <2>4 DEF Queued
    <2>8. SetupGoesOn'
        BY <1>1, <1>2, <2>1, <2>7 DEF SetupGoesOn
    <2>9. DeviceIsOwned'
        BY <1>1, <1>2, <2>1, <2>2 DEF DeviceIsOwned
    <2> QED BY <1>1, <1>2, <2>1, <2>3, <2>4, <2>5, <2>6, <2>8, <2>9 DEF Acquisition
<1>4. CASE ~Head(jobs).ok
    <2>1. jobs' = Tail(jobs) /\ setup' = "failed"
        BY <1>4 DEF Made
    <2>2. (granted => destroyed = 1) /\ (race # "pending" \/ (asked = "nothing" /\ aborted))
        BY <1>1, <1>2, <1>4 DEF CallerIsTrue
    <2>3. /\ jobs' \in Seq(JobRecord) /\ Len(jobs) \in Nat \ {0}
          /\ DOMAIN jobs = 1..Len(jobs) /\ DOMAIN jobs' = 1..(Len(jobs) - 1)
          /\ \A i \in DOMAIN jobs' : i + 1 \in DOMAIN jobs /\ i \in Nat \ {0} /\ jobs'[i] = jobs[i + 1]
        BY <1>1, <1>2, <2>1, TailFacts
    <2>4. OneOfEach' /\ AcquisitionTyped'
        <3>1. OneOfEach'
            BY <1>1, <1>2, <2>1, TailKeepsOne
        <3> QED BY <1>1, <1>2, <2>1, <2>3, <3>1 DEF AcquisitionTyped
    <2>5. JobsAreTrue'
        <3> SUFFICES ASSUME NEW i \in DOMAIN jobs'
                     PROVE  AnswerIsTrue(i)' /\ CancelIsTrue(i)' /\ CallerIsTrue(i)'
            BY DEF JobsAreTrue
        <3>1. PICK k \in DOMAIN jobs : k # 1 /\ jobs'[i] = jobs[k]
            <4>1. i + 1 \in DOMAIN jobs /\ i + 1 # 1 /\ jobs'[i] = jobs[i + 1]
                BY <2>3
            <4> QED BY <4>1
        <3> QED BY <1>1, <2>2, <3>1, OthersStayTrue
    <2>6. SetupGoesOn'
        BY <1>1, <1>2, <2>1, <2>2 DEF SetupGoesOn
    <2>7. DeviceIsOwned'
        BY <1>1, <1>2, <2>1, <2>2 DEF DeviceIsOwned
    <2> QED BY <1>1, <1>2, <2>1, <2>3, <2>4, <2>5, <2>6, <2>7 DEF Acquisition
<1> QED BY <1>3, <1>4

\* The session takes the device over, or the device is destroyed.
LEMMA PublishKeepsIt ==
    ASSUME Acquisition, PublishSession
    PROVE  Acquisition' /\ setup # "session" /\ (setup' = "session" => destroyed' = 0)
<1>1. /\ UNCHANGED <<asked, granted, acquired, race, aborted, lost>> /\ jobs # <<>>
      /\ Head(jobs).do = "publish" /\ Head(jobs).do \in Callers /\ jobs' = Tail(jobs)
    BY DEF PublishSession, Runs, Callers
<1>2. /\ AcquisitionTyped /\ jobs \in Seq(JobRecord) /\ OneOfEach /\ JobsAreTrue
      /\ SetupGoesOn /\ DeviceIsOwned
      /\ 1 \in DOMAIN jobs /\ Head(jobs) = jobs[1] /\ CallerIsTrue(1) /\ setup = "acquiring"
      /\ \A i \in DOMAIN jobs : i # 1 => jobs[i].do \notin Callers
      /\ ~(granted /\ destroyed = 0 /\ ~acquired)
    BY <1>1, CallerRuns
<1>3. race = "device" /\ destroyed = 0 /\ acquired /\ granted /\ asked = "answered"
    BY <1>1, <1>2 DEF CallerIsTrue, DeviceIsOwned
<1>4. (setup' = "failed" /\ destroyed' = 1) \/ (setup' = "session" /\ destroyed' = 0)
    <2>1. (setup' = "failed" /\ destroyed' = destroyed + 1) \/ (setup' = "session" /\ destroyed' = destroyed)
        BY DEF PublishSession
    <2> QED BY <1>3, <2>1
<1>5. /\ jobs' \in Seq(JobRecord) /\ Len(jobs) \in Nat \ {0}
      /\ DOMAIN jobs = 1..Len(jobs) /\ DOMAIN jobs' = 1..(Len(jobs) - 1)
      /\ \A i \in DOMAIN jobs' : i + 1 \in DOMAIN jobs /\ i \in Nat \ {0} /\ jobs'[i] = jobs[i + 1]
    BY <1>1, <1>2, TailFacts
<1>6. OneOfEach'
    BY <1>1, <1>2, TailKeepsOne
<1>7. AcquisitionTyped'
    <2>1. destroyed' \in 0..1 /\ setup' \in {"asked", "acquiring", "session", "failed"}
        BY <1>4
    <2> QED BY <1>1, <1>2, <1>5, <2>1 DEF AcquisitionTyped
<1>8. JobsAreTrue'
    <2> SUFFICES ASSUME NEW i \in DOMAIN jobs'
                 PROVE  AnswerIsTrue(i)' /\ CancelIsTrue(i)' /\ CallerIsTrue(i)'
        BY DEF JobsAreTrue
    <2>1. PICK k \in DOMAIN jobs : k # 1 /\ jobs'[i] = jobs[k]
        <3>1. i + 1 \in DOMAIN jobs /\ i + 1 # 1 /\ jobs'[i] = jobs[i + 1]
            BY <1>5
        <3> QED BY <3>1
    <2>2. race # "pending"
        BY <1>3
    <2> QED BY <1>1, <1>3, <2>1, <2>2, OthersStayTrue
<1>9. SetupGoesOn'
    BY <1>1, <1>2, <1>3, <1>4 DEF SetupGoesOn
<1>10. DeviceIsOwned'
    BY <1>1, <1>2, <1>3, <1>4 DEF DeviceIsOwned
<1> QED BY <1>2, <1>4, <1>5, <1>6, <1>7, <1>8, <1>9, <1>10 DEF Acquisition

-----------------------------------------------------------------------------
(* The device of a session                                                 *)

\* A step of the acquisition; only the last one makes a session.
LEMMA AcquisitionSteps ==
    ASSUME Acquisition, NextAcquisition
    PROVE  /\ Acquisition'
           /\ setup = "session" => setup' = "session" /\ destroyed' = destroyed
           /\ setup # "session" /\ setup' = "session" => destroyed' = 0
<1>1. CASE AcquireWebGpuDevice
    <2>1. setup # "session" /\ setup' # "session"
        BY <1>1 DEF AcquireWebGpuDevice
    <2> QED BY <1>1, <2>1, AcquireKeepsIt
<1>2. CASE Abort
    BY <1>2, AbortKeepsIt
<1>3. CASE LoseDevice
    BY <1>3, LossKeepsIt
<1>4. ASSUME NEW ok \in BOOLEAN, AdapterAnswers(ok)
      PROVE  Acquisition' /\ destroyed' = destroyed /\ setup' = setup
    BY <1>4, AdapterKeepsIt
<1>5. ASSUME NEW ok \in BOOLEAN, DeviceAnswers(ok)
      PROVE  Acquisition' /\ setup' = setup /\ setup # "session"
    BY <1>5, GrantKeeps
<1>6. CASE Acquired
    BY <1>6, AcquiredKeepsIt
<1>7. CASE Raced
    BY <1>7, RacedKeepsIt
<1>8. CASE Resume
    BY <1>8, ResumeKeepsIt
<1>9. CASE Made
    BY <1>9, MadeKeepsIt
<1>10. CASE PublishSession
    BY <1>10, PublishKeepsIt
<1> QED BY <1>1, <1>2, <1>3, <1>4, <1>5, <1>6, <1>7, <1>8, <1>9, <1>10 DEF NextAcquisition

\* Nothing is acquired yet, or nothing ever will be.
LEMMA DeviceInit == InitPreparation => DeviceInv
<1> SUFFICES ASSUME InitPreparation
             PROVE  DeviceInv
    OBVIOUS
<1>1. target \in {"cpu", "webgpu"} /\ ending = "open"
    BY DEF InitPreparation
<1>2. CASE target = "cpu"
    <2>1. NoDevice
        BY <1>2 DEF InitPreparation, NoDevice
    <2> QED BY <1>1, <1>2, <2>1 DEF DeviceInv
<1>3. CASE target = "webgpu"
    <2>1. /\ asked = "nothing" /\ granted = FALSE /\ destroyed = 0 /\ acquired = FALSE
          /\ race = "pending" /\ setup = "asked" /\ aborted = FALSE /\ lost = FALSE /\ jobs = <<>>
        BY <1>3 DEF InitPreparation, InitAcquisition
    <2>2. DOMAIN jobs = {} /\ jobs \in Seq(JobRecord)
        BY <2>1, NothingIsQueued, EmptySeq
    <2>3. AcquisitionTyped /\ OneOfEach /\ JobsAreTrue
        <3>1. OneOfEach /\ JobsAreTrue
            BY <2>2 DEF OneOfEach, JobsAreTrue
        <3>2. AcquisitionTyped
            BY <2>1, <2>2, 0 \in 0..1 DEF AcquisitionTyped
        <3> QED BY <3>1, <3>2
    <2>4. SetupGoesOn
        BY <2>1 DEF SetupGoesOn
    <2>5. DeviceIsOwned
        BY <2>1 DEF DeviceIsOwned, Job
    <2> QED BY <1>1, <1>3, <2>1, <2>3, <2>4, <2>5 DEF DeviceInv, Acquisition
<1> QED BY <1>1, <1>2, <1>3

\* A step that leaves the device alone.
LEMMA DeviceFrame ==
    ASSUME DeviceInv, UNCHANGED <<target, acquisitionVars>>,
           ending' = ending \/ (ending = "open" /\ ending' = "joining" /\ setup = "session")
    PROVE  DeviceInv'
<1>1. UNCHANGED <<target, asked, granted, destroyed, acquired, race, setup, aborted, lost, jobs>>
    BY DEF acquisitionVars
<1>2. NoDevice => NoDevice'
    BY <1>1 DEF NoDevice
<1>3. Acquisition => Acquisition'
    BY <1>1 DEF Acquisition, AcquisitionTyped, OneOfEach, JobsAreTrue, AnswerIsTrue, CancelIsTrue,
                CallerIsTrue, SetupGoesOn, DeviceIsOwned, Queued
<1> QED BY <1>1, <1>2, <1>3 DEF DeviceInv

\* The close of the backends destroys the device of a GPU session.
LEMMA CloseKeepsDevice ==
    ASSUME DeviceInv, CloseBackends
    PROVE  DeviceInv'
<1>1. /\ UNCHANGED <<target, asked, granted, acquired, race, setup, aborted, lost, jobs>>
      /\ ending = "joining" /\ ending' = "closed" /\ setup = "session"
    BY DEF CloseBackends, DeviceInv
<1>2. CASE target = "cpu"
    <2>1. NoDevice /\ destroyed' = destroyed
        BY <1>2 DEF CloseBackends, DeviceInv
    <2>2. NoDevice'
        BY <1>1, <2>1 DEF NoDevice
    <2> QED BY <1>1, <1>2, <2>2 DEF DeviceInv
<1>3. CASE target = "webgpu"
    <2>1. Acquisition /\ destroyed = 0 /\ destroyed' = destroyed + 1
        BY <1>1, <1>3 DEF CloseBackends, DeviceInv
    <2>2. destroyed' = 1 /\ 1 \in 0..1 /\ 1 # 0
        BY <2>1
    <2>3. acquired /\ granted /\ race = "device" /\ asked = "answered"
        BY <1>1, <2>1 DEF Acquisition, DeviceIsOwned
    <2>4. AcquisitionTyped' /\ OneOfEach'
        BY <1>1, <2>1, <2>2 DEF Acquisition, AcquisitionTyped, OneOfEach
    <2>5. JobsAreTrue'
        <3> SUFFICES ASSUME NEW i \in DOMAIN jobs'
                     PROVE  AnswerIsTrue(i)' /\ CancelIsTrue(i)' /\ CallerIsTrue(i)'
            BY DEF JobsAreTrue
        <3>1. AnswerIsTrue(i) /\ CancelIsTrue(i) /\ CallerIsTrue(i)
            BY <1>1, <2>1 DEF Acquisition, JobsAreTrue
        <3>2. jobs[i].do # "acquired" /\ jobs[i].do \notin Callers
            BY <1>1, <2>3, <3>1 DEF AnswerIsTrue, CallerIsTrue
        <3>3. AnswerIsTrue(i)' /\ CancelIsTrue(i)' /\ CallerIsTrue(i)'
            BY <1>1, <3>1, <3>2 DEF AnswerIsTrue, CancelIsTrue, CallerIsTrue
        <3> QED BY <3>3
    <2>6. SetupGoesOn'
        BY <1>1, <2>1 DEF Acquisition, SetupGoesOn
    <2>7. DeviceIsOwned'
        BY <1>1, <2>2, <2>3 DEF DeviceIsOwned
    <2> QED BY <1>1, <1>3, <2>2, <2>4, <2>5, <2>6, <2>7 DEF DeviceInv, Acquisition
<1> QED BY <1>2, <1>3 DEF DeviceInv

\* Every step keeps track of the device.
LEMMA DeviceKeepsIt == DeviceInv /\ [NextPreparation]_backendVars => DeviceInv'
<1> SUFFICES ASSUME DeviceInv, [NextPreparation]_backendVars
             PROVE  DeviceInv'
    OBVIOUS
<1>1. CASE target = "webgpu" /\ NextAcquisition /\ UNCHANGED preparationVars
    <2>1. UNCHANGED <<target, ending>> /\ Acquisition
        BY <1>1 DEF preparationVars, DeviceInv
    <2>2. /\ Acquisition'
          /\ setup = "session" => setup' = "session" /\ destroyed' = destroyed
          /\ setup # "session" /\ setup' = "session" => destroyed' = 0
        BY <1>1, <2>1, AcquisitionSteps
    <2> QED BY <1>1, <2>1, <2>2 DEF DeviceInv
<1>2. CASE LoadArtifact
    BY <1>2, DeviceFrame DEF LoadArtifact
<1>3. ASSUME NEW kind \in Kinds, Compile(kind)
      PROVE  DeviceInv'
    BY <1>3, DeviceFrame DEF Compile
<1>4. ASSUME NEW needs \in SUBSET Parts, Request(needs)
      PROVE  DeviceInv'
    BY <1>4, DeviceFrame DEF Request, Accept
<1>5. CASE PrepareSession
    BY <1>5, DeviceFrame DEF PrepareSession, Accept
<1>6. ASSUME NEW r \in DOMAIN asks, Prepare(r) \/ Continue(r) \/ ExecutePrepared(r)
      PROVE  DeviceInv'
    BY <1>6, DeviceFrame DEF Prepare, Continue, ExecutePrepared
<1>7. CASE CloseSession
    BY <1>7, DeviceFrame DEF CloseSession
<1>8. CASE CloseBackends
    BY <1>8, CloseKeepsDevice
<1>9. CASE UNCHANGED backendVars
    BY <1>9, DeviceFrame DEF backendVars, preparationVars
<1> QED BY <1>1, <1>2, <1>3, <1>4, <1>5, <1>6, <1>7, <1>8, <1>9 DEF NextPreparation

\* A device the browser grants, however late, belongs to the session or is
\* destroyed, once, and a cancelled setup ends (webgpu-device.ts, runtime.ts).
THEOREM DeviceHasOneOwnerHolds == SpecPreparation => []DeviceHasOneOwner
<1>1. DeviceInv => DeviceHasOneOwner
    <2> SUFFICES ASSUME DeviceInv
                 PROVE  DeviceHasOneOwner
        OBVIOUS
    <2>1. CASE target = "cpu"
        <3>1. NoDevice
            BY <2>1 DEF DeviceInv
        <3> QED BY <3>1 DEF NoDevice, DeviceHasOneOwner
    <2>2. CASE target = "webgpu"
        <3>1. AcquisitionTyped /\ SetupGoesOn /\ DeviceIsOwned
            BY <2>2 DEF DeviceInv, Acquisition
        <3>2. destroyed \in 0..1
            BY <3>1 DEF AcquisitionTyped
        <3>3. setup = "session" => destroyed = (IF ending = "closed" THEN 1 ELSE 0)
            BY <2>2 DEF DeviceInv
        <3>4. ending = "closed" => setup = "session"
            BY DEF DeviceInv
        <3>5. setup = "failed" /\ granted => destroyed = 1
            BY <3>1 DEF DeviceIsOwned
        <3>6. aborted /\ jobs = <<>> => setup \in {"asked", "session", "failed"}
            BY <3>1, NothingIsQueued DEF AcquisitionTyped, SetupGoesOn, Queued
        <3> QED BY <3>2, <3>3, <3>4, <3>5, <3>6 DEF DeviceHasOneOwner
    <2> QED BY <2>1, <2>2 DEF DeviceInv
<1> QED BY <1>1, DeviceInit, DeviceKeepsIt, PTL DEF SpecPreparation

-----------------------------------------------------------------------------
(* The checks of the artifact                                              *)

Checks == {FetchManifest, ParseManifest, SelectVariant, FetchModule, CheckLength, CheckHash,
           Instantiate, ValidateExports}
          \cup {ValidateManifest[1], ValidateManifest[2], CompileModule[1], CompileModule[2]}
          \cup {ValidateAbi[1], ValidateAbi[2], ValidateAbi[3]}

\* What a failed check reports is the phase the documentation gives its defect.
Known(check) ==
    /\ Reported(check) = Phase(check.defect)
    /\ Phase(check.defect) \in Phases
    /\ check.defect # Artifact

\* load() names the phase in which the defect lies, whatever phase it is in.
LEMMA ChecksAreKnown == \A check \in Checks : Known(check)
<1>1. Known(FetchManifest) /\ Known(ParseManifest)
    BY DEF Known, FetchManifest, ParseManifest, Check, Reported, Phase, Phases, Artifact
<1>2. Known(ValidateManifest[1]) /\ Known(ValidateManifest[2])
    BY DEF Known, ValidateManifest, Check, Reported, Phase, Phases, Artifact
<1>3. Known(SelectVariant) /\ Known(FetchModule)
    BY DEF Known, SelectVariant, FetchModule, Check, Reported, Phase, Phases, Artifact
<1>4. Known(CheckLength) /\ Known(CheckHash)
    BY DEF Known, CheckLength, CheckHash, Check, Reported, Phase, Phases, Artifact
<1>5. Known(CompileModule[1]) /\ Known(CompileModule[2])
    BY DEF Known, CompileModule, Check, Reported, Phase, Phases, Artifact
<1>6. Known(Instantiate) /\ Known(ValidateExports)
    BY DEF Known, Instantiate, ValidateExports, Check, Reported, Phase, Phases, Artifact
<1>7. Known(ValidateAbi[1]) /\ Known(ValidateAbi[2]) /\ Known(ValidateAbi[3])
    BY DEF Known, ValidateAbi, Check, Reported, Phase, Phases, Artifact
<1> QED BY <1>1, <1>2, <1>3, <1>4, <1>5, <1>6, <1>7 DEF Checks

\* load() awaits seven times, and checks something after each.
LEMMA StagesAreOfChecks ==
    /\ Len(Stages) = 7 /\ DOMAIN Stages = 1..7
    /\ \A s \in 1..7 : Stages[s] \in Seq(Checks)
<1>1. /\ Len(Stages) = 7 /\ DOMAIN Stages = 1..7
      /\ Stages[1] = <<FetchManifest>>
      /\ Stages[2] = <<ParseManifest>> \o ValidateManifest \o <<SelectVariant>>
      /\ Stages[3] = <<FetchModule>> /\ Stages[4] = <<CheckLength>> /\ Stages[5] = <<CheckHash>>
      /\ Stages[6] = CompileModule
      /\ Stages[7] = <<Instantiate, ValidateExports>> \o ValidateAbi
    <2>1. Len(Stages) = 7 /\ DOMAIN Stages = 1..7
        BY DEF Stages
    <2>2. Stages[1] = <<FetchManifest>>
        BY DEF Stages
    <2>3. Stages[2] = <<ParseManifest>> \o ValidateManifest \o <<SelectVariant>>
        BY DEF Stages
    <2>4. Stages[3] = <<FetchModule>> /\ Stages[4] = <<CheckLength>> /\ Stages[5] = <<CheckHash>>
        BY DEF Stages
    <2>5. Stages[6] = CompileModule
        BY DEF Stages
    <2>6. Stages[7] = <<Instantiate, ValidateExports>> \o ValidateAbi
        BY DEF Stages
    <2> QED BY <2>1, <2>2, <2>3, <2>4, <2>5, <2>6
<1>2. /\ <<FetchManifest>> \in Seq(Checks) /\ <<ParseManifest>> \in Seq(Checks)
      /\ <<SelectVariant>> \in Seq(Checks) /\ <<FetchModule>> \in Seq(Checks)
      /\ <<CheckLength>> \in Seq(Checks) /\ <<CheckHash>> \in Seq(Checks)
      /\ <<Instantiate, ValidateExports>> \in Seq(Checks)
    BY DEF Checks
<1>3. ValidateManifest \in Seq(Checks)
    <2>1. ValidateManifest = <<ValidateManifest[1], ValidateManifest[2]>>
        BY DEF ValidateManifest
    <2>2. ValidateManifest[1] \in Checks /\ ValidateManifest[2] \in Checks
        BY DEF Checks
    <2>3. <<ValidateManifest[1], ValidateManifest[2]>> \in Seq(Checks)
        BY <2>2
    <2> QED BY <2>1, <2>3
<1>4. CompileModule \in Seq(Checks)
    <2>1. CompileModule = <<CompileModule[1], CompileModule[2]>>
        BY DEF CompileModule
    <2>2. CompileModule[1] \in Checks /\ CompileModule[2] \in Checks
        BY DEF Checks
    <2>3. <<CompileModule[1], CompileModule[2]>> \in Seq(Checks)
        BY <2>2
    <2> QED BY <2>1, <2>3
<1>5. ValidateAbi \in Seq(Checks)
    <2>1. ValidateAbi = <<ValidateAbi[1], ValidateAbi[2], ValidateAbi[3]>>
        BY DEF ValidateAbi
    <2>2. ValidateAbi[1] \in Checks /\ ValidateAbi[2] \in Checks /\ ValidateAbi[3] \in Checks
        BY DEF Checks
    <2>3. <<ValidateAbi[1], ValidateAbi[2], ValidateAbi[3]>> \in Seq(Checks)
        BY <2>2
    <2> QED BY <2>1, <2>3
<1>6. Stages[2] \in Seq(Checks)
    <2>1. <<ParseManifest>> \o ValidateManifest \in Seq(Checks)
        BY <1>2, <1>3, ConcatProperties
    <2> QED BY <1>1, <1>2, <2>1, ConcatProperties
<1>7. Stages[7] \in Seq(Checks)
    BY <1>1, <1>2, <1>5, ConcatProperties
<1>8. \A s \in 1..7 : s = 1 \/ s = 2 \/ s = 3 \/ s = 4 \/ s = 5 \/ s = 6 \/ s = 7
    OBVIOUS
<1> QED BY <1>1, <1>2, <1>4, <1>6, <1>7, <1>8

\* Every check of a stage is a known one.
LEMMA StageChecks ==
    ASSUME NEW s \in DOMAIN Stages, NEW j \in DOMAIN Stages[s]
    PROVE  Known(Stages[s][j]) /\ j \in Nat \ {0} /\ Stages[s][j].defect \in ArtifactDefects
<1>1. Stages[s] \in Seq(Checks)
    BY StagesAreOfChecks
<1>2. j \in 1..Len(Stages[s]) /\ Len(Stages[s]) \in Nat
    BY <1>1, LenProperties
<1>3. Stages[s][j] \in Checks
    BY <1>1, <1>2, ElementOfSeq
<1>4. Stages[s][j].defect \in ArtifactDefects
    BY DEF ArtifactDefects
<1> QED BY <1>2, <1>3, <1>4, ChecksAreKnown

\* A nonempty set of natural numbers has a least element.
LEMMA LeastOfSome ==
    ASSUME NEW S \in SUBSET Nat, S # {}
    PROVE  \E n \in S : \A k \in S : n <= k
<1>1. PICK n \in S : \A k \in S : ~(<<k, n>> \in OpToRel(<, Nat))
    BY WFMin, NatLessThanWellFounded, Zenon
<1>2. \A k \in S : <<k, n>> \in OpToRel(<, Nat) <=> k < n
    BY DEF OpToRel
<1>3. \A k \in S : ~(k < n)
    BY <1>1, <1>2
<1> QED BY <1>3

\* The check that fails first, if one does, finds a defect of what is served.
LEMMA FailsIsTrue ==
    ASSUME NEW s \in DOMAIN Stages
    PROVE  \/ Fails(s) = 0 /\ Passes(s)
           \/ /\ Fails(s) \in DOMAIN Stages[s] /\ Fails(s) > 0
              /\ Stages[s][Fails(s)].defect \in Wrong
<1> DEFINE failing == {j \in DOMAIN Stages[s] : Stages[s][j].defect \in Wrong}
<1>1. CASE failing = {}
    BY <1>1 DEF Fails, Passes
<1>2. CASE failing # {}
    <2>1. failing \in SUBSET Nat
        BY StageChecks
    <2>2. \E n \in failing : \A k \in failing : n <= k
        BY <1>2, <2>1, LeastOfSome
    <2>3. Fails(s) = CHOOSE j \in failing : \A k \in failing : j <= k
        BY <1>2 DEF Fails
    <2>4. Fails(s) \in failing
        BY <2>2, <2>3
    <2>5. Fails(s) \in Nat \ {0}
        BY <2>4, StageChecks
    <2> QED BY <2>4, <2>5
<1> QED BY <1>1, <1>2

\* The artifact is no defect of anything served.
LEMMA ArtifactIsNoDefect == Artifact \notin ArtifactDefects
<1> SUFFICES ASSUME Artifact \in ArtifactDefects
             PROVE  FALSE
    OBVIOUS
<1>1. PICK s \in DOMAIN Stages : Artifact \in {Stages[s][j].defect : j \in DOMAIN Stages[s]}
    BY DEF ArtifactDefects
<1>2. PICK j \in DOMAIN Stages[s] : Stages[s][j].defect = Artifact
    BY <1>1
<1> QED BY <1>2, StageChecks DEF Known

-----------------------------------------------------------------------------
(* The steps of the preparation                                            *)

PreparationIInv == DeviceInv /\ PreparationInv

\* What is wrong with what is served does not change.
LEMMA WrongStays == UNCHANGED served => Wrong' = Wrong
BY DEF Wrong, SelectedVariant

\* The artifact is a part, and no pipeline is it.
LEMMA ArtifactIsPart == Artifact \in Parts /\ \A k \in Kinds : k \in Parts /\ k # Artifact
BY ArtifactIsNoKind DEF Parts

\* Failures stay true of requests that stay as they are.
LEMMA OwnedFrame ==
    ASSUME FailuresAreOwned, UNCHANGED <<asks, served>>, lost => lost'
    PROVE  FailuresAreOwned'
<1>1. Wrong' = Wrong
    BY WrongStays
<1>2. \A r \in DOMAIN asks' : asks'[r] = asks[r] /\ r \in DOMAIN asks
    OBVIOUS
<1> QED BY <1>1, <1>2 DEF FailuresAreOwned

\* A session whose requests are not all over has not closed its backends.
LEMMA NotClosed ==
    ASSUME PreparationInv, NEW r \in DOMAIN asks, asks[r].state \notin Over
    PROVE  ending # "closed"
BY DEF PreparationInv, AskIsTrue

\* A request that changes leaves the others as they are.
LEMMA AskChanges ==
    ASSUME asks \in Seq(AskRecord), NEW r \in DOMAIN asks,
           NEW st \in {"queued", "waiting", "prepared"} \cup Over,
           NEW er \in PartStates, NEW bl \in SUBSET Parts,
           asks' = [asks EXCEPT ![r] = [needs |-> asks[r].needs, state |-> st, error |-> er, blamed |-> bl]]
    PROVE  /\ asks' \in Seq(AskRecord) /\ DOMAIN asks' = DOMAIN asks
           /\ \A q \in DOMAIN asks : q # r => asks'[q] = asks[q]
           /\ asks'[r].needs = asks[r].needs /\ asks'[r].state = st
           /\ asks'[r].error = er /\ asks'[r].blamed = bl
<1>1. DOMAIN asks = 1..Len(asks) /\ r \in 1..Len(asks)
    BY LenProperties
<1>2. asks[r] \in AskRecord
    BY <1>1, ElementOfSeq
<1>3. [needs |-> asks[r].needs, state |-> st, error |-> er, blamed |-> bl] \in AskRecord
    BY <1>2 DEF AskRecord
<1>4. /\ asks' \in Seq(AskRecord) /\ Len(asks') = Len(asks)
      /\ \A q \in 1..Len(asks) : asks'[q] = IF q = r
             THEN [needs |-> asks[r].needs, state |-> st, error |-> er, blamed |-> bl] ELSE asks[q]
    BY <1>1, <1>3, ExceptSeq
<1>5. DOMAIN asks' = DOMAIN asks
    BY <1>1, <1>4, LenProperties
<1> QED BY <1>1, <1>4, <1>5

\* Requests and their failures stay true when one request changes as it may.
LEMMA AskStaysTrue ==
    ASSUME PreparationInv, NEW r \in DOMAIN asks,
           NEW st \in {"queued", "waiting", "prepared"} \cup Over,
           NEW er \in PartStates, NEW bl \in SUBSET Parts,
           asks' = [asks EXCEPT ![r] = [needs |-> asks[r].needs, state |-> st, error |-> er, blamed |-> bl]],
           UNCHANGED <<served, usable, ending, lost>>,
           asks[r].state \notin Over,
           st = "prepared" => asks[r].needs \subseteq usable,
           st # "unprepared",
           st = "failed" =>
               IF er = "unavailable" THEN lost
               ELSE /\ bl # {} /\ bl \subseteq asks[r].needs
                    /\ \A p \in bl : IF p = Artifact THEN er \in {Phase(d) : d \in Wrong}
                                     ELSE p \in served.defects
    PROVE  /\ asks' \in Seq(AskRecord)
           /\ \A q \in DOMAIN asks' : AskIsTrue(q)'
           /\ FailuresAreOwned'
           /\ UsableIsSound'
<1>1. /\ asks' \in Seq(AskRecord) /\ DOMAIN asks' = DOMAIN asks
      /\ \A q \in DOMAIN asks : q # r => asks'[q] = asks[q]
      /\ asks'[r].needs = asks[r].needs /\ asks'[r].state = st
      /\ asks'[r].error = er /\ asks'[r].blamed = bl
    BY AskChanges DEF PreparationInv, PreparationTyped
<1>2. ending # "closed"
    BY NotClosed
<1>3. Wrong' = Wrong
    BY WrongStays
<1>4. ASSUME NEW q \in DOMAIN asks
      PROVE  AskIsTrue(q)'
    <2>1. AskIsTrue(q)
        BY DEF PreparationInv
    <2>2. CASE q = r
        BY <1>1, <1>2, <2>1, <2>2 DEF AskIsTrue
    <2>3. CASE q # r
        BY <1>1, <2>1, <2>3 DEF AskIsTrue
    <2> QED BY <2>2, <2>3
<1>5. FailuresAreOwned'
    <2> SUFFICES ASSUME NEW q \in DOMAIN asks', asks'[q].state = "failed"
                 PROVE  IF asks'[q].error = "unavailable" THEN lost'
                        ELSE /\ asks'[q].blamed # {} /\ asks'[q].blamed \subseteq asks'[q].needs
                             /\ \A p \in asks'[q].blamed :
                                   IF p = Artifact THEN asks'[q].error \in {Phase(d) : d \in Wrong'}
                                   ELSE p \in served'.defects
        BY DEF FailuresAreOwned
    <2>1. CASE q = r
        BY <1>1, <1>3, <2>1
    <2>2. CASE q # r
        BY <1>1, <1>3, <2>2 DEF PreparationInv, FailuresAreOwned
    <2> QED BY <2>1, <2>2
<1>6. UsableIsSound'
    BY <1>3 DEF PreparationInv, UsableIsSound
<1> QED BY <1>1, <1>4, <1>5, <1>6

\* Parts stay true when nothing about them changes.
LEMMA PartsFrame ==
    ASSUME PartsAreTrue, PartsAreKept,
           UNCHANGED <<served, parts, stage, usable, starts, ending>>, lost => lost'
    PROVE  PartsAreTrue' /\ PartsAreKept'
<1>1. Wrong' = Wrong
    BY WrongStays
<1>2. \A s : Passes(s)' <=> Passes(s)
    BY <1>1 DEF Passes
<1>3. PartsAreTrue'
    BY <1>1, <1>2 DEF PartsAreTrue
<1>4. PartsAreKept'
    BY DEF PartsAreKept
<1> QED BY <1>3, <1>4

\* The artifact loads on, fails a check or is ready.
LEMMA LoadKeepsIt ==
    ASSUME PreparationInv, LoadArtifact
    PROVE  PreparationInv'
<1>1. /\ UNCHANGED <<target, served, starts, asks, preparation, ending, lost>>
      /\ parts[Artifact] = "running"
    BY DEF LoadArtifact, acquisitionVars
<1>2. /\ PreparationTyped /\ PartsAreTrue /\ PartsAreKept /\ UsableIsSound /\ FailuresAreOwned
      /\ \A r \in DOMAIN asks : AskIsTrue(r)
    BY DEF PreparationInv
<1>3. /\ parts \in [Parts -> PartStates] /\ stage \in DOMAIN Stages /\ stage \in 1..7
      /\ usable \in SUBSET Parts
    BY <1>2, StagesAreOfChecks DEF PreparationTyped
<1>4. Wrong' = Wrong /\ \A s : Passes(s)' <=> Passes(s)
    <2>1. Wrong' = Wrong
        BY <1>1, WrongStays
    <2> QED BY <2>1 DEF Passes
<1>5. PICK r \in DOMAIN asks : asks[r].state = "waiting" /\ asks[r].needs = {Artifact}
    BY <1>1 DEF PreparationInv, SomebodyWaits
<1>6. ending # "closed"
    BY <1>5, NotClosed DEF Over
<1>7. FailuresAreOwned'
    BY <1>1, <1>2, OwnedFrame
<1>8. CASE Fails(stage) > 0
    <2>1. Fails(stage) \in DOMAIN Stages[stage] /\ Stages[stage][Fails(stage)].defect \in Wrong
        BY <1>3, <1>8, FailsIsTrue
    <2>2. PICK defect \in Wrong : Reported(Stages[stage][Fails(stage)]) = Phase(defect) /\ Phase(defect) \in Phases
        BY <1>3, <2>1, StageChecks DEF Known
    <2>3. parts' = [parts EXCEPT ![Artifact] = Phase(defect)] /\ UNCHANGED <<stage, usable>>
        BY <1>8, <2>2 DEF LoadArtifact
    <2>4. parts' \in [Parts -> PartStates]
        BY <1>3, <2>2, <2>3 DEF PartStates
    <2>5. parts'[Artifact] = Phase(defect) /\ \A k \in Parts : k # Artifact => parts'[k] = parts[k]
        BY <1>3, <2>3, ArtifactIsPart
    <2>6. Phase(defect) \notin {"none", "running", "ready"}
        BY <2>2 DEF Phases
    <2>7. PartsAreTrue'
        BY <1>1, <1>2, <1>4, <2>2, <2>5, <2>6, ArtifactIsPart DEF PartsAreTrue
    <2>8. PartsAreKept'
        BY <1>1, <1>2, <2>3, <2>5, <2>6 DEF PartsAreKept
    <2>9. UsableIsSound' /\ \A q \in DOMAIN asks' : AskIsTrue(q)'
        BY <1>1, <1>2, <1>4, <2>3 DEF UsableIsSound, AskIsTrue
    <2>10. SomebodyWaits' /\ PreparationTyped'
        BY <1>1, <1>2, <2>3, <2>4, <2>5, <2>6 DEF SomebodyWaits, PreparationTyped
    <2> QED BY <1>7, <2>7, <2>8, <2>9, <2>10 DEF PreparationInv
<1>9. CASE ~(Fails(stage) > 0) /\ stage < Len(Stages)
    <2>1. stage' = stage + 1 /\ UNCHANGED <<parts, usable>> /\ stage < 7
        BY <1>9, StagesAreOfChecks DEF LoadArtifact
    <2>2. Passes(stage)
        BY <1>3, <1>9, FailsIsTrue
    <2>3. \A s \in 1..(stage' - 1) : Passes(s)
        BY <1>1, <1>2, <1>3, <2>1, <2>2 DEF PartsAreTrue
    <2>4. PartsAreTrue'
        BY <1>1, <1>2, <1>4, <2>1, <2>3 DEF PartsAreTrue
    <2>5. PartsAreKept' /\ UsableIsSound' /\ SomebodyWaits'
        BY <1>1, <1>2, <1>4, <1>5, <2>1 DEF PartsAreKept, UsableIsSound, SomebodyWaits
    <2>6. \A q \in DOMAIN asks' : AskIsTrue(q)'
        BY <1>1, <1>2, <2>1 DEF AskIsTrue
    <2>7. stage' \in DOMAIN Stages
        BY <1>3, <2>1, StagesAreOfChecks
    <2>8. PreparationTyped'
        BY <1>1, <1>2, <2>1, <2>7 DEF PreparationTyped
    <2> QED BY <1>7, <2>4, <2>5, <2>6, <2>8 DEF PreparationInv
<1>10. CASE ~(Fails(stage) > 0) /\ ~(stage < Len(Stages))
    <2>1. /\ parts' = [parts EXCEPT ![Artifact] = "ready"] /\ usable' = usable \cup {Artifact}
          /\ UNCHANGED stage /\ stage = 7
        BY <1>3, <1>10, StagesAreOfChecks DEF LoadArtifact
    <2>2. Passes(stage)
        BY <1>3, <1>10, FailsIsTrue
    <2>3. \A s \in DOMAIN Stages : Passes(s)
        BY <1>1, <1>2, <1>3, <2>1, <2>2, StagesAreOfChecks DEF PartsAreTrue
    <2>4. Wrong \cap ArtifactDefects = {}
        <3> SUFFICES ASSUME NEW d \in Wrong, d \in ArtifactDefects
                     PROVE  FALSE
            OBVIOUS
        <3>1. PICK s \in DOMAIN Stages : d \in {Stages[s][j].defect : j \in DOMAIN Stages[s]}
            BY DEF ArtifactDefects
        <3>2. PICK j \in DOMAIN Stages[s] : d = Stages[s][j].defect
            BY <3>1
        <3> QED BY <2>3, <3>2 DEF Passes
    <2>5. parts' \in [Parts -> PartStates]
        BY <1>3, <2>1 DEF PartStates
    <2>6. parts'[Artifact] = "ready" /\ \A k \in Parts : k # Artifact => parts'[k] = parts[k]
        BY <1>3, <2>1, ArtifactIsPart
    <2>7. PartsAreTrue'
        BY <1>1, <1>2, <1>4, <2>6, ArtifactIsPart DEF PartsAreTrue
    <2>8. PartsAreKept'
        BY <1>1, <1>2, <2>1, <2>6 DEF PartsAreKept
    <2>9. UsableIsSound'
        BY <1>1, <1>2, <1>4, <1>6, <2>1, <2>4 DEF UsableIsSound, PartsAreTrue
    <2>10. \A q \in DOMAIN asks' : AskIsTrue(q)'
        BY <1>1, <1>2, <2>1 DEF AskIsTrue
    <2>11. usable' \in SUBSET Parts
        BY <1>3, <2>1, ArtifactIsPart
    <2>12. SomebodyWaits' /\ PreparationTyped'
        BY <1>1, <1>2, <2>1, <2>5, <2>6, <2>11 DEF SomebodyWaits, PreparationTyped
    <2> QED BY <1>7, <2>7, <2>8, <2>9, <2>10, <2>12 DEF PreparationInv
<1> QED BY <1>8, <1>9, <1>10

\* A pipeline is ready, fails, or comes too late.
LEMMA CompileKeepsIt ==
    ASSUME PreparationInv, lost \in BOOLEAN, NEW kind \in Kinds, Compile(kind)
    PROVE  PreparationInv'
<1>1. /\ UNCHANGED <<target, served, stage, starts, asks, preparation, ending, lost>>
      /\ parts[kind] = "running"
    BY DEF Compile, acquisitionVars
<1>2. /\ PreparationTyped /\ PartsAreTrue /\ PartsAreKept /\ UsableIsSound /\ FailuresAreOwned
      /\ SomebodyWaits /\ parts \in [Parts -> PartStates] /\ usable \in SUBSET Parts
      /\ \A r \in DOMAIN asks : AskIsTrue(r)
    BY DEF PreparationInv, PreparationTyped
<1>3. Wrong' = Wrong /\ \A s : Passes(s)' <=> Passes(s)
    <2>1. Wrong' = Wrong
        BY <1>1, WrongStays
    <2> QED BY <2>1 DEF Passes
<1>4. FailuresAreOwned'
    BY <1>1, <1>2, OwnedFrame
<1>5. PICK news \in {"unavailable", "preparation", "ready"} :
          /\ parts' = [parts EXCEPT ![kind] = news]
          /\ news = "unavailable" => (lost \/ ending = "closed") /\ usable' = usable
          /\ news = "preparation" => kind \in served.defects /\ usable' = usable
          /\ news = "ready" => /\ kind \notin served.defects /\ ending # "closed"
                               /\ usable' = usable \cup {kind}
    <2>1. CASE ~StillAvailable
        BY <2>1 DEF Compile, StillAvailable, Available
    <2>2. CASE StillAvailable /\ kind \in served.defects
        BY <2>2 DEF Compile
    <2>3. CASE StillAvailable /\ kind \notin served.defects
        BY <2>3 DEF Compile, StillAvailable, Available
    <2> QED BY <2>1, <2>2, <2>3
<1>6. /\ parts'[kind] = news /\ \A p \in Parts : p # kind => parts'[p] = parts[p]
      /\ parts' \in [Parts -> PartStates] /\ kind \in Parts /\ kind # Artifact
      /\ parts'[Artifact] = parts[Artifact]
    BY <1>2, <1>5, ArtifactIsPart DEF PartStates
<1>7. PartsAreTrue'
    <2>1. /\ Artifact \notin served'.defects
          /\ parts'[Artifact] = "running" => \A s \in 1..(stage' - 1) : Passes(s)'
          /\ parts'[Artifact] \in {"none", "running", "ready"} \cup {Phase(d) : d \in Wrong'}
        BY <1>1, <1>2, <1>3, <1>6 DEF PartsAreTrue
    <2>2. ASSUME NEW k \in Kinds
          PROVE  /\ parts'[k] \in {"none", "running", "ready", "unavailable", "preparation"}
                 /\ parts'[k] = "preparation" => k \in served'.defects
                 /\ parts'[k] = "unavailable" => lost' \/ ending' = "closed"
        <3>1. CASE k = kind
            BY <1>1, <1>5, <1>6, <3>1
        <3>2. CASE k # kind
            BY <1>1, <1>2, <1>6, <3>2, ArtifactIsPart DEF PartsAreTrue
        <3> QED BY <3>1, <3>2
    <2> QED BY <2>1, <2>2 DEF PartsAreTrue
<1>8. usable \subseteq usable' /\ usable' \subseteq usable \cup {kind} /\ (news = "ready" => kind \in usable')
      /\ (kind \in usable' => kind \in usable \/ news = "ready")
    BY <1>5
<1>9. PartsAreKept'
    BY <1>1, <1>2, <1>5, <1>6, <1>8 DEF PartsAreKept
<1>10. UsableIsSound'
    <2>1. Artifact \in usable' => Artifact \in usable
        BY <1>6, <1>8
    <2>2. usable' \cap served.defects = {}
        BY <1>2, <1>5, <1>8 DEF UsableIsSound
    <2>3. ending = "closed" => usable' = usable
        BY <1>5
    <2> QED BY <1>1, <1>2, <1>3, <2>1, <2>2, <2>3 DEF UsableIsSound
<1>11. \A q \in DOMAIN asks' : AskIsTrue(q)'
    BY <1>1, <1>2, <1>8 DEF AskIsTrue
<1>12. usable' \in SUBSET Parts
    BY <1>2, <1>6, <1>8
<1>13. SomebodyWaits' /\ PreparationTyped'
    BY <1>1, <1>2, <1>6, <1>12 DEF SomebodyWaits, PreparationTyped
<1> QED BY <1>4, <1>7, <1>9, <1>10, <1>11, <1>13 DEF PreparationInv

\* A request is accepted.
LEMMA AcceptKeepsIt ==
    ASSUME PreparationInv, NEW needs \in SUBSET Parts, Accept(needs),
           Artifact \in needs => needs = {Artifact}, preparation' \in Nat
    PROVE  PreparationInv'
<1>1. /\ UNCHANGED <<target, served, parts, stage, usable, starts, ending, lost>>
      /\ ending = "open" /\ asks' = Append(asks, Ask(needs))
    BY DEF Accept, acquisitionVars
<1>2. /\ PreparationTyped /\ PartsAreTrue /\ PartsAreKept /\ UsableIsSound /\ FailuresAreOwned
      /\ SomebodyWaits /\ asks \in Seq(AskRecord)
      /\ \A r \in DOMAIN asks : AskIsTrue(r)
    BY DEF PreparationInv, PreparationTyped
<1>3. /\ Ask(needs) \in AskRecord /\ Ask(needs).needs = needs /\ Ask(needs).state = "queued"
    BY DEF Ask, AskRecord, PartStates
<1>4. /\ asks' \in Seq(AskRecord) /\ Len(asks') = Len(asks) + 1
      /\ \A q \in 1..Len(asks) : asks'[q] = asks[q]
      /\ asks'[Len(asks) + 1] = Ask(needs)
    BY <1>1, <1>2, <1>3, AppendProperties
<1>5. /\ DOMAIN asks = 1..Len(asks) /\ DOMAIN asks' = 1..(Len(asks) + 1) /\ Len(asks) \in Nat
    BY <1>2, <1>4, LenProperties
<1>6. \A q \in DOMAIN asks' : q \in DOMAIN asks \/ q = Len(asks) + 1
    BY <1>5
<1>7. Wrong' = Wrong
    BY <1>1, WrongStays
<1>8. \A q \in DOMAIN asks' : AskIsTrue(q)'
    <2> SUFFICES ASSUME NEW q \in DOMAIN asks'
                 PROVE  AskIsTrue(q)'
        OBVIOUS
    <2>1. CASE q = Len(asks) + 1
        BY <1>1, <1>3, <1>4, <2>1 DEF AskIsTrue
    <2>2. CASE q \in DOMAIN asks
        BY <1>1, <1>2, <1>4, <1>5, <2>2 DEF AskIsTrue
    <2> QED BY <1>6, <2>1, <2>2
<1>9. FailuresAreOwned'
    <2>1. \A q \in DOMAIN asks' : asks'[q].state = "failed" => q \in DOMAIN asks /\ asks'[q] = asks[q]
        BY <1>3, <1>4, <1>5, <1>6
    <2> QED BY <1>1, <1>2, <1>7, <2>1 DEF FailuresAreOwned
<1>10. SomebodyWaits'
    <2>1. \A q \in DOMAIN asks : q \in DOMAIN asks' /\ asks'[q] = asks[q]
        BY <1>4, <1>5
    <2> QED BY <1>1, <1>2, <2>1 DEF SomebodyWaits
<1>11. UsableIsSound' /\ PreparationTyped'
    BY <1>1, <1>2, <1>4, <1>7 DEF UsableIsSound, PreparationTyped
<1>12. PartsAreTrue' /\ PartsAreKept'
    BY <1>1, <1>2, PartsFrame
<1> QED BY <1>8, <1>9, <1>10, <1>11, <1>12 DEF PreparationInv

\* Records that differ in a few fields only.
LEMMA RecordChanges ==
    ASSUME NEW a \in AskRecord, NEW st, NEW er
    PROVE  /\ [a EXCEPT !.state = st] =
                  [needs |-> a.needs, state |-> st, error |-> a.error, blamed |-> a.blamed]
           /\ [[a EXCEPT !.state = st] EXCEPT !.error = er] =
                  [needs |-> a.needs, state |-> st, error |-> er, blamed |-> a.blamed]
<1>1. a = [needs |-> a.needs, state |-> a.state, error |-> a.error, blamed |-> a.blamed]
    BY DEF AskRecord
<1>2. PICK n, s, e, b : a = [needs |-> n, state |-> s, error |-> e, blamed |-> b]
    BY <1>1
<1>3. [a EXCEPT !.state = st] = [needs |-> n, state |-> st, error |-> e, blamed |-> b]
    BY <1>2
<1>4. [[a EXCEPT !.state = st] EXCEPT !.error = er] = [needs |-> n, state |-> st, error |-> er, blamed |-> b]
    <2>1. PICK c : c = [a EXCEPT !.state = st]
        OBVIOUS
    <2>2. c = [needs |-> n, state |-> st, error |-> e, blamed |-> b]
        BY <1>3, <2>1
    <2>3. [c EXCEPT !.error = er] = [needs |-> n, state |-> st, error |-> er, blamed |-> b]
        BY <2>2
    <2> QED BY <2>1, <2>3, Zenon
<1>5. a.needs = n /\ a.error = e /\ a.blamed = b
    BY <1>2
<1> QED BY <1>3, <1>4, <1>5

\* A request is one of the record's kind, and may be changed field by field.
LEMMA AskUpdate ==
    ASSUME asks \in Seq(AskRecord), NEW r \in DOMAIN asks
    PROVE  /\ asks[r] \in AskRecord /\ asks[r].needs \in SUBSET Parts
           /\ asks[r].error \in PartStates /\ asks[r].blamed \in SUBSET Parts
           /\ \A st : [asks EXCEPT ![r].state = st] =
                  [asks EXCEPT ![r] = [needs |-> asks[r].needs, state |-> st,
                                       error |-> asks[r].error, blamed |-> asks[r].blamed]]
<1>1. r \in 1..Len(asks)
    BY LenProperties
<1>2. asks[r] \in AskRecord
    BY <1>1, ElementOfSeq
<1>3. /\ asks[r].needs \in SUBSET Parts
      /\ asks[r].error \in PartStates /\ asks[r].blamed \in SUBSET Parts
    BY <1>2 DEF AskRecord
<1>4. \A st : [asks EXCEPT ![r].state = st] = [asks EXCEPT ![r] = [asks[r] EXCEPT !.state = st]]
    OBVIOUS
<1>5. \A st : [asks EXCEPT ![r].state = st] =
          [asks EXCEPT ![r] = [needs |-> asks[r].needs, state |-> st,
                               error |-> asks[r].error, blamed |-> asks[r].blamed]]
    BY <1>2, <1>4, RecordChanges
<1> QED BY <1>2, <1>3, <1>5

\* A request that fails is changed in two fields.
LEMMA AskFails ==
    ASSUME asks \in Seq(AskRecord), NEW r \in DOMAIN asks, NEW st, NEW er,
           asks' = [asks EXCEPT ![r].state = st, ![r].error = er]
    PROVE  asks' = [asks EXCEPT ![r] = [needs |-> asks[r].needs, state |-> st,
                                        error |-> er, blamed |-> asks[r].blamed]]
<1>1. asks[r] \in AskRecord
    BY AskUpdate
<1>2. PICK c : c = [[asks[r] EXCEPT !.state = st] EXCEPT !.error = er]
    OBVIOUS
<1>3. c = [needs |-> asks[r].needs, state |-> st, error |-> er, blamed |-> asks[r].blamed]
    BY <1>1, <1>2, RecordChanges, Zenon
<1>4. asks' = [asks EXCEPT ![r] = c]
    BY <1>2
<1> QED BY <1>3, <1>4, Zenon

\* A request starts what it needs, or goes on with what is there.
LEMMA PrepareKeepsIt ==
    ASSUME PreparationInv, NEW r \in DOMAIN asks, Prepare(r)
    PROVE  PreparationInv'
<1>1. /\ UNCHANGED <<target, served, usable, preparation, ending, lost>>
      /\ asks[r].state = "queued" /\ asks[r].state \notin Over
    BY DEF Prepare, acquisitionVars, Over
<1>2. /\ PreparationTyped /\ PartsAreTrue /\ PartsAreKept /\ UsableIsSound /\ FailuresAreOwned
      /\ SomebodyWaits /\ asks \in Seq(AskRecord) /\ AskIsTrue(r)
      /\ \A q \in DOMAIN asks : AskIsTrue(q)
    BY DEF PreparationInv, PreparationTyped
<1>3. ending # "closed"
    BY <1>1, NotClosed
<1>4. /\ asks[r].needs \in SUBSET Parts /\ asks[r].error \in PartStates /\ asks[r].blamed \in SUBSET Parts
    BY <1>2, AskUpdate
<1>5. CASE NeedsDevice(r) /\ ~Available
    <2>1. /\ asks' = [asks EXCEPT ![r].state = "failed", ![r].error = "unavailable"]
          /\ UNCHANGED <<parts, starts, stage>>
        BY <1>5 DEF Prepare
    <2>2. lost
        BY <1>3, <1>5 DEF Available
    <2>3. asks' = [asks EXCEPT ![r] = [needs |-> asks[r].needs, state |-> "failed",
                                       error |-> "unavailable", blamed |-> asks[r].blamed]]
        BY <1>2, <2>1, AskFails, Zenon
    <2>4. "failed" \in {"queued", "waiting", "prepared"} \cup Over /\ "unavailable" \in PartStates
        BY DEF Over, PartStates
    <2>5. /\ asks' \in Seq(AskRecord) /\ FailuresAreOwned' /\ UsableIsSound'
          /\ \A q \in DOMAIN asks' : AskIsTrue(q)'
        BY <1>1, <1>4, <2>2, <2>3, <2>4, AskStaysTrue
    <2>6. PartsAreTrue' /\ PartsAreKept'
        BY <1>1, <1>2, <2>1, PartsFrame
    <2>7. SomebodyWaits'
        <3>1. DOMAIN asks' = DOMAIN asks /\ \A q \in DOMAIN asks : q # r => asks'[q] = asks[q]
            BY <1>2, <1>4, <2>3, <2>4, AskChanges
        <3> QED BY <1>1, <1>2, <2>1, <3>1 DEF SomebodyWaits
    <2>8. PreparationTyped'
        BY <1>1, <1>2, <2>1, <2>5 DEF PreparationTyped
    <2> QED BY <2>5, <2>6, <2>7, <2>8 DEF PreparationInv
<1>6. CASE ~(NeedsDevice(r) /\ ~Available)
    <2>1. PICK new : new = {p \in Missing(r) : Starts(p)}
        OBVIOUS
    <2>2. PICK st \in {"prepared", "waiting"} :
              /\ st = IF Missing(r) = {} THEN "prepared" ELSE "waiting"
              /\ asks' = [asks EXCEPT ![r].state = st]
        BY <1>6 DEF Prepare
    <2>3. /\ parts' = [p \in Parts |-> IF p \in new THEN "running" ELSE parts[p]]
          /\ starts' = [p \in Parts |-> IF p \in new THEN starts[p] + 1 ELSE starts[p]]
          /\ stage' = IF Artifact \in new THEN 1 ELSE stage
        BY <1>6, <2>1 DEF Prepare
    <2>4. /\ new \subseteq Missing(r) /\ new \subseteq asks[r].needs /\ new \subseteq Parts
          /\ \A p \in new : parts[p] = "none"
        BY <1>4, <2>1 DEF Missing, Starts
    <2>5. st \in {"queued", "waiting", "prepared"} \cup Over /\ st # "failed" /\ st # "unprepared"
        BY <2>2 DEF Over
    <2>6. asks' = [asks EXCEPT ![r] = [needs |-> asks[r].needs, state |-> st,
                                       error |-> asks[r].error, blamed |-> asks[r].blamed]]
        BY <1>2, <2>2, AskUpdate
    <2>7. st = "prepared" => asks[r].needs \subseteq usable
        BY <2>2 DEF Missing
    <2>8. /\ asks' \in Seq(AskRecord) /\ FailuresAreOwned' /\ UsableIsSound'
          /\ \A q \in DOMAIN asks' : AskIsTrue(q)'
        BY <1>1, <1>4, <2>5, <2>6, <2>7, AskStaysTrue
    <2>9. /\ DOMAIN asks' = DOMAIN asks /\ asks'[r].needs = asks[r].needs /\ asks'[r].state = st
          /\ \A q \in DOMAIN asks : q # r => asks'[q] = asks[q]
        BY <1>2, <1>4, <2>5, <2>6, AskChanges
    <2>10. SomebodyWaits'
        <3> SUFFICES ASSUME parts'[Artifact] = "running"
                     PROVE  \E q \in DOMAIN asks' : asks'[q].state = "waiting" /\ asks'[q].needs = {Artifact}
            BY DEF SomebodyWaits
        <3>1. CASE Artifact \in new
            <4>1. asks[r].needs = {Artifact} /\ Missing(r) # {}
                BY <1>2, <2>4, <3>1 DEF AskIsTrue
            <4> QED BY <2>2, <2>9, <4>1
        <3>2. CASE Artifact \notin new
            <4>1. parts[Artifact] = "running"
                BY <2>3, <3>2, ArtifactIsPart
            <4>2. PICK q \in DOMAIN asks : asks[q].state = "waiting" /\ asks[q].needs = {Artifact}
                BY <1>2, <4>1 DEF SomebodyWaits
            <4> QED BY <1>1, <2>9, <4>2
        <3> QED BY <3>1, <3>2
    <2>11. \A p \in new : starts[p] = 0
        BY <1>2, <1>3, <2>4 DEF PartsAreKept
    <2>12. /\ \A p \in new : parts'[p] = "running" /\ starts'[p] = 1
           /\ \A p \in Parts : p \notin new => parts'[p] = parts[p] /\ starts'[p] = starts[p]
        BY <2>3, <2>4, <2>11
    <2>13. parts' \in [Parts -> PartStates] /\ starts' \in [Parts -> 0..1]
        <3>1. \A p \in Parts : parts'[p] \in PartStates /\ starts'[p] \in 0..1
            BY <1>2, <2>12 DEF PreparationTyped, PartStates
        <3> QED BY <2>3, <3>1
    <2>14. stage' \in DOMAIN Stages
        BY <1>2, <2>3, StagesAreOfChecks DEF PreparationTyped
    <2>15. PreparationTyped'
        BY <1>1, <1>2, <2>8, <2>13, <2>14 DEF PreparationTyped
    <2>16. PartsAreKept'
        BY <1>1, <1>2, <2>12 DEF PartsAreKept
    <2>17. Wrong' = Wrong /\ \A s : Passes(s)' <=> Passes(s)
        <3>1. Wrong' = Wrong
            BY <1>1, WrongStays
        <3> QED BY <3>1 DEF Passes
    <2>18. PartsAreTrue'
        <3>1. Artifact \notin served'.defects
            BY <1>1, <1>2 DEF PartsAreTrue
        <3>2. parts'[Artifact] = "running" => \A s \in 1..(stage' - 1) : Passes(s)'
            <4>1. CASE Artifact \in new
                <5>1. stage' = 1
                    BY <2>3, <4>1
                <5>2. 1..(stage' - 1) = {}
                    BY <5>1
                <5> QED BY <5>2
            <4>2. CASE Artifact \notin new
                BY <1>2, <2>3, <2>12, <2>17, <4>2, ArtifactIsPart DEF PartsAreTrue
            <4> QED BY <4>1, <4>2
        <3>3. parts'[Artifact] \in {"none", "running", "ready"} \cup {Phase(d) : d \in Wrong'}
            BY <1>2, <2>12, <2>17, ArtifactIsPart DEF PartsAreTrue
        <3>4. ASSUME NEW k \in Kinds
              PROVE  /\ parts'[k] \in {"none", "running", "ready", "unavailable", "preparation"}
                     /\ parts'[k] = "preparation" => k \in served'.defects
                     /\ parts'[k] = "unavailable" => lost' \/ ending' = "closed"
            <4>1. CASE k \in new
                BY <2>12, <4>1
            <4>2. CASE k \notin new
                BY <1>1, <1>2, <2>12, <4>2, ArtifactIsPart DEF PartsAreTrue
            <4> QED BY <4>1, <4>2
        <3> QED BY <3>1, <3>2, <3>3, <3>4 DEF PartsAreTrue
    <2> QED BY <2>8, <2>10, <2>15, <2>16, <2>18 DEF PreparationInv
<1> QED BY <1>5, <1>6

\* A request whose wait is over leaves the parts alone.
LEMMA AskKeepsIt ==
    ASSUME PreparationInv, NEW r \in DOMAIN asks,
           NEW st \in {"queued", "waiting", "prepared"} \cup Over,
           NEW er \in PartStates, NEW bl \in SUBSET Parts,
           asks' = [asks EXCEPT ![r] = [needs |-> asks[r].needs, state |-> st, error |-> er, blamed |-> bl]],
           UNCHANGED <<served, parts, stage, usable, starts, preparation, ending, lost>>,
           asks[r].state \notin Over,
           st = "prepared" => asks[r].needs \subseteq usable,
           st # "unprepared",
           st = "failed" =>
               IF er = "unavailable" THEN lost
               ELSE /\ bl # {} /\ bl \subseteq asks[r].needs
                    /\ \A p \in bl : IF p = Artifact THEN er \in {Phase(d) : d \in Wrong}
                                     ELSE p \in served.defects,
           asks[r].state = "waiting" /\ asks[r].needs = {Artifact} => parts[Artifact] # "running"
    PROVE  PreparationInv'
<1>1. /\ PreparationTyped /\ PartsAreTrue /\ PartsAreKept /\ SomebodyWaits
    BY DEF PreparationInv
<1>2. /\ asks' \in Seq(AskRecord) /\ FailuresAreOwned' /\ UsableIsSound'
      /\ \A q \in DOMAIN asks' : AskIsTrue(q)'
    BY AskStaysTrue
<1>3. DOMAIN asks' = DOMAIN asks /\ \A q \in DOMAIN asks : q # r => asks'[q] = asks[q]
    BY <1>1, AskChanges DEF PreparationTyped
<1>4. SomebodyWaits'
    BY <1>1, <1>3 DEF SomebodyWaits
<1>5. PreparationTyped'
    BY <1>1, <1>2 DEF PreparationTyped
<1>6. PartsAreTrue' /\ PartsAreKept'
    BY <1>1, PartsFrame
<1> QED BY <1>2, <1>4, <1>5, <1>6 DEF PreparationInv

\* A request goes on with all it waited for, or fails with a part of its own.
LEMMA ContinueKeepsIt ==
    ASSUME PreparationInv, NEW r \in DOMAIN asks, Continue(r)
    PROVE  PreparationInv'
<1>1. /\ UNCHANGED <<target, served, parts, stage, usable, starts, preparation, ending, lost>>
      /\ asks[r].state = "waiting" /\ asks[r].state \notin Over
    BY DEF Continue, acquisitionVars, Over
<1>2. /\ PreparationTyped /\ PartsAreTrue /\ PartsAreKept /\ asks \in Seq(AskRecord) /\ AskIsTrue(r)
    BY DEF PreparationInv, PreparationTyped
<1>3. ending # "closed"
    BY <1>1, NotClosed
<1>4. /\ asks[r].needs \in SUBSET Parts /\ asks[r].error \in PartStates /\ asks[r].blamed \in SUBSET Parts
    BY <1>2, AskUpdate
<1>5. CASE /\ \A p \in asks[r].needs : parts[p] = "ready"
           /\ asks' = [asks EXCEPT ![r].state = "prepared"]
    <2>1. asks' = [asks EXCEPT ![r] = [needs |-> asks[r].needs, state |-> "prepared",
                                       error |-> asks[r].error, blamed |-> asks[r].blamed]]
        BY <1>2, <1>5, AskUpdate
    <2>2. asks[r].needs \subseteq usable
        BY <1>2, <1>3, <1>4, <1>5 DEF PartsAreKept
    <2>3. asks[r].needs = {Artifact} => parts[Artifact] # "running"
        BY <1>5
    <2> QED BY <1>1, <1>4, <2>1, <2>2, <2>3, AskKeepsIt
<1>6. ASSUME NEW p \in asks[r].needs \cap Errors,
             asks' = [asks EXCEPT ![r].state = "failed", ![r].error = parts[p],
                                  ![r].blamed = IF parts[p] = "unavailable" THEN {} ELSE {p}]
      PROVE  PreparationInv'
    <2>1. PICK bl : bl = IF parts[p] = "unavailable" THEN {} ELSE {p}
        OBVIOUS
    <2>2. asks' = [asks EXCEPT ![r] = [needs |-> asks[r].needs, state |-> "failed",
                                       error |-> parts[p], blamed |-> bl]]
        <3>1. PICK er : er = parts[p]
            OBVIOUS
        <3>2. asks' = [asks EXCEPT ![r].state = "failed", ![r].error = er, ![r].blamed = bl]
            BY <1>6, <2>1, <3>1, Zenon
        <3>3. PICK c : c = [[asks[r] EXCEPT !.state = "failed"] EXCEPT !.error = er]
            OBVIOUS
        <3>4. c = [needs |-> asks[r].needs, state |-> "failed", error |-> er, blamed |-> asks[r].blamed]
            <4>1. asks[r] \in AskRecord
                BY <1>2, AskUpdate
            <4> QED BY <3>3, <4>1, RecordChanges, Zenon
        <3>5. [c EXCEPT !.blamed = bl] =
                  [needs |-> asks[r].needs, state |-> "failed", error |-> er, blamed |-> bl]
            BY <3>4
        <3>6. asks' = [asks EXCEPT ![r] = [c EXCEPT !.blamed = bl]]
            BY <3>2, <3>3
        <3> QED BY <3>1, <3>5, <3>6, Zenon
    <2>3. /\ p \in Parts /\ p \in asks[r].needs /\ bl \in SUBSET Parts /\ parts[p] \in PartStates
          /\ parts[p] \notin {"none", "running", "ready"}
        BY <1>2, <1>4, <2>1 DEF Errors, PreparationTyped
    <2>4. p = Artifact => parts[p] \in {Phase(d) : d \in Wrong}
        BY <1>2, <2>3 DEF PartsAreTrue
    <2>5. p # Artifact => IF parts[p] = "unavailable" THEN lost ELSE p \in served.defects
        BY <1>2, <1>3, <2>3 DEF PartsAreTrue, Parts
    <2>6. parts[p] = "unavailable" => p # Artifact
        <3> SUFFICES ASSUME parts[Artifact] = "unavailable"
                     PROVE  FALSE
            OBVIOUS
        <3>1. PICK d : Phase(d) = "unavailable"
            BY <1>2 DEF PartsAreTrue
        <3> QED BY <3>1 DEF Phase
    <2>7. IF parts[p] = "unavailable" THEN lost
          ELSE /\ bl # {} /\ bl \subseteq asks[r].needs
               /\ \A x \in bl : IF x = Artifact THEN parts[p] \in {Phase(d) : d \in Wrong}
                                ELSE x \in served.defects
        BY <2>1, <2>3, <2>4, <2>5, <2>6
    <2>8. asks[r].needs = {Artifact} => parts[Artifact] # "running"
        BY <2>3
    <2>9. "failed" \in {"queued", "waiting", "prepared"} \cup Over
        BY DEF Over
    <2> QED BY <1>1, <2>2, <2>3, <2>7, <2>8, <2>9, AskKeepsIt
<1> QED BY <1>5, <1>6 DEF Continue

\* A request executes with what it needs, unless the device is lost.
LEMMA ExecuteKeepsIt ==
    ASSUME PreparationInv, NEW r \in DOMAIN asks, ExecutePrepared(r)
    PROVE  PreparationInv'
<1>1. /\ UNCHANGED <<target, served, parts, stage, usable, starts, preparation, ending, lost>>
      /\ asks[r].state = "prepared" /\ asks[r].state \notin Over /\ asks[r].state # "waiting"
    BY DEF ExecutePrepared, acquisitionVars, Over
<1>2. /\ asks \in Seq(AskRecord) /\ AskIsTrue(r)
    BY DEF PreparationInv, PreparationTyped
<1>3. ending # "closed" /\ Missing(r) = {}
    BY <1>1, <1>2, NotClosed DEF AskIsTrue, Missing
<1>4. /\ asks[r].needs \in SUBSET Parts /\ asks[r].error \in PartStates /\ asks[r].blamed \in SUBSET Parts
    BY <1>2, AskUpdate
<1>5. CASE NeedsDevice(r) /\ ~Available
    <2>1. asks' = [asks EXCEPT ![r].state = "failed", ![r].error = "unavailable"]
        BY <1>5 DEF ExecutePrepared
    <2>2. asks' = [asks EXCEPT ![r] = [needs |-> asks[r].needs, state |-> "failed",
                                       error |-> "unavailable", blamed |-> asks[r].blamed]]
        BY <1>2, <2>1, AskFails, Zenon
    <2>3. lost
        BY <1>3, <1>5 DEF Available
    <2>4. "failed" \in {"queued", "waiting", "prepared"} \cup Over /\ "unavailable" \in PartStates
        BY DEF Over, PartStates
    <2> QED BY <1>1, <1>4, <2>2, <2>3, <2>4, AskKeepsIt
<1>6. CASE ~(NeedsDevice(r) /\ ~Available)
    <2>1. asks' = [asks EXCEPT ![r].state = "done", ![r].error = asks[r].error]
        BY <1>3, <1>6 DEF ExecutePrepared
    <2>2. asks' = [asks EXCEPT ![r] = [needs |-> asks[r].needs, state |-> "done",
                                       error |-> asks[r].error, blamed |-> asks[r].blamed]]
        BY <1>2, <2>1, AskFails, Zenon
    <2>3. "done" \in {"queued", "waiting", "prepared"} \cup Over
        BY DEF Over
    <2> QED BY <1>1, <1>4, <2>2, <2>3, AskKeepsIt
<1> QED BY <1>5, <1>6

\* The close begins, or the device is on its way: nothing about the requests.
LEMMA OthersKeepIt ==
    ASSUME PreparationInv, UNCHANGED <<target, served, parts, stage, usable, starts, asks, preparation>>,
           lost => lost', lost' \in BOOLEAN,
           ending' = ending \/ (ending # "closed" /\ ending' # "closed")
    PROVE  PreparationInv'
<1>1. /\ PreparationTyped /\ PartsAreTrue /\ PartsAreKept /\ UsableIsSound /\ FailuresAreOwned
      /\ SomebodyWaits /\ \A r \in DOMAIN asks : AskIsTrue(r)
    BY DEF PreparationInv
<1>2. Wrong' = Wrong /\ \A s : Passes(s)' <=> Passes(s)
    <2>1. Wrong' = Wrong
        BY WrongStays
    <2> QED BY <2>1 DEF Passes
<1>3. ending' = "closed" <=> ending = "closed"
    OBVIOUS
<1>4. FailuresAreOwned'
    BY <1>1, OwnedFrame
<1>5. PartsAreTrue'
    BY <1>1, <1>2, <1>3 DEF PartsAreTrue
<1>6. PartsAreKept' /\ UsableIsSound' /\ SomebodyWaits'
    BY <1>1, <1>2, <1>3 DEF PartsAreKept, UsableIsSound, SomebodyWaits
<1>7. \A r \in DOMAIN asks' : AskIsTrue(r)'
    BY <1>1, <1>3 DEF AskIsTrue
<1>8. PreparationTyped'
    BY <1>1 DEF PreparationTyped
<1> QED BY <1>4, <1>5, <1>6, <1>7, <1>8 DEF PreparationInv

\* The backends close when every request is over: nobody loads any more.
LEMMA CloseKeepsIt ==
    ASSUME PreparationInv, CloseBackends
    PROVE  PreparationInv'
<1>1. /\ UNCHANGED <<target, served, stage, starts, asks, preparation, lost>>
      /\ ending' = "closed" /\ usable' = {}
      /\ parts' = [p \in Parts |-> IF parts[p] = "running" THEN "running" ELSE "none"]
      /\ \A r \in DOMAIN asks : asks[r].state \in Over
    BY DEF CloseBackends
<1>2. /\ PreparationTyped /\ PartsAreTrue /\ FailuresAreOwned /\ SomebodyWaits
      /\ \A r \in DOMAIN asks : AskIsTrue(r)
    BY DEF PreparationInv
<1>3. Wrong' = Wrong
    BY <1>1, WrongStays
<1>4. parts[Artifact] # "running"
    BY <1>1, <1>2 DEF SomebodyWaits, Over
<1>5. parts'[Artifact] = "none" /\ \A p \in Parts : parts'[p] \in {"none", "running"}
    BY <1>1, <1>4, ArtifactIsPart
<1>6. FailuresAreOwned'
    BY <1>1, <1>2, OwnedFrame
<1>7. PartsAreTrue' /\ PartsAreKept'
    BY <1>1, <1>2, <1>5, ArtifactIsPart DEF PartsAreTrue, PartsAreKept
<1>8. UsableIsSound' /\ SomebodyWaits'
    BY <1>1, <1>5 DEF UsableIsSound, SomebodyWaits
<1>9. \A r \in DOMAIN asks' : AskIsTrue(r)'
    BY <1>1, <1>2 DEF AskIsTrue, Over
<1>10. PreparationTyped'
    <2>1. parts' \in [Parts -> PartStates]
        BY <1>1, <1>5 DEF PartStates
    <2> QED BY <1>1, <1>2, <2>1 DEF PreparationTyped
<1> QED BY <1>6, <1>7, <1>8, <1>9, <1>10 DEF PreparationInv

\* Nothing is prepared, asked or wrong with what nobody looks at.
LEMMA PreparationInit == InitPreparation => PreparationInv
<1> SUFFICES ASSUME InitPreparation
             PROVE  PreparationInv
    OBVIOUS
<1>1. /\ target \in {"cpu", "webgpu"} /\ served \in Worlds
      /\ parts = [p \in Parts |-> "none"] /\ stage = 1 /\ usable = {}
      /\ starts = [p \in Parts |-> 0] /\ asks = <<>> /\ preparation = 0 /\ ending = "open"
    BY DEF InitPreparation
<1>2. lost = FALSE
    <2>1. CASE target = "cpu"
        BY <2>1 DEF InitPreparation
    <2>2. CASE target = "webgpu"
        BY <2>2 DEF InitPreparation, InitAcquisition
    <2> QED BY <1>1, <2>1, <2>2
<1>3. asks \in Seq(AskRecord) /\ DOMAIN asks = {}
    <2>1. asks \in Seq(AskRecord) /\ Len(asks) = 0
        BY <1>1, EmptySeq
    <2> QED BY <2>1, LenProperties
<1>4. Artifact \notin served.defects
    <2>1. PICK wrong : /\ wrong = IF target = "cpu" THEN ArtifactDefects \ {"no SIMD"} ELSE Kinds
                       /\ served.defects \in SUBSET wrong
        BY <1>1 DEF Worlds
    <2> QED BY <2>1, ArtifactIsNoDefect, ArtifactIsNoKind
<1>5. PreparationTyped
    <2>1. 1 \in DOMAIN Stages
        BY StagesAreOfChecks
    <2>2. parts \in [Parts -> PartStates] /\ starts \in [Parts -> 0..1]
        BY <1>1 DEF PartStates
    <2>3. usable \in SUBSET Parts /\ preparation \in Nat /\ lost \in BOOLEAN
        BY <1>1, <1>2
    <2> QED BY <1>1, <1>3, <2>1, <2>2, <2>3 DEF PreparationTyped
<1>6. \A p \in Parts : parts[p] = "none" /\ starts[p] = 0
    BY <1>1
<1>7. PartsAreTrue
    BY <1>4, <1>6, ArtifactIsPart DEF PartsAreTrue
<1>8. PartsAreKept /\ UsableIsSound
    BY <1>1, <1>6 DEF PartsAreKept, UsableIsSound
<1>9. SomebodyWaits /\ FailuresAreOwned /\ \A r \in DOMAIN asks : AskIsTrue(r)
    BY <1>3, <1>6, ArtifactIsPart DEF SomebodyWaits, FailuresAreOwned
<1> QED BY <1>5, <1>7, <1>8, <1>9 DEF PreparationInv

\* A device once lost is lost.
LEMMA LossIsFinal == NextAcquisition /\ lost => lost'
BY DEF NextAcquisition, AcquireWebGpuDevice, Abort, LoseDevice, AdapterAnswers, DeviceAnswers,
       Acquired, Raced, Resume, Made, PublishSession

\* Every step keeps what is prepared sound.
LEMMA PreparationStep == PreparationIInv /\ [NextPreparation]_backendVars => PreparationInv'
<1> SUFFICES ASSUME PreparationIInv, [NextPreparation]_backendVars
             PROVE  PreparationInv'
    OBVIOUS
<1>1. PreparationInv /\ DeviceInv /\ lost \in BOOLEAN /\ preparation \in Nat
    BY DEF PreparationIInv, PreparationInv, PreparationTyped
<1>2. CASE target = "webgpu" /\ NextAcquisition /\ UNCHANGED preparationVars
    <2>1. Acquisition'
        BY <1>1, <1>2, AcquisitionSteps DEF DeviceInv
    <2>2. lost' \in BOOLEAN /\ (lost => lost')
        BY <1>2, <2>1, LossIsFinal DEF Acquisition, AcquisitionTyped
    <2>3. UNCHANGED <<target, served, parts, stage, usable, starts, asks, preparation, ending>>
        BY <1>2 DEF preparationVars
    <2> QED BY <1>1, <2>2, <2>3, OthersKeepIt
<1>3. CASE LoadArtifact
    BY <1>1, <1>3, LoadKeepsIt
<1>4. ASSUME NEW kind \in Kinds, Compile(kind)
      PROVE  PreparationInv'
    BY <1>1, <1>4, CompileKeepsIt
<1>5. ASSUME NEW needs \in SUBSET Parts, Request(needs)
      PROVE  PreparationInv'
    <2>1. Artifact \in needs => needs = {Artifact}
        BY <1>5, ArtifactIsNoKind DEF Request
    <2>2. Accept(needs) /\ preparation' \in Nat
        BY <1>1, <1>5 DEF Request
    <2> QED BY <1>1, <2>1, <2>2, AcceptKeepsIt
<1>6. CASE PrepareSession
    <2>1. Accept({Artifact}) /\ preparation' = Len(asks) + 1
        BY <1>6 DEF PrepareSession
    <2>2. Len(asks) \in Nat
        BY <1>1, LenProperties DEF PreparationInv, PreparationTyped
    <2>3. {Artifact} \in SUBSET Parts /\ preparation' \in Nat
        BY <2>1, <2>2, ArtifactIsPart
    <2> QED BY <1>1, <2>1, <2>3, AcceptKeepsIt
<1>7. ASSUME NEW r \in DOMAIN asks, Prepare(r) \/ Continue(r) \/ ExecutePrepared(r)
      PROVE  PreparationInv'
    BY <1>1, <1>7, PrepareKeepsIt, ContinueKeepsIt, ExecuteKeepsIt
<1>8. CASE CloseSession
    BY <1>1, <1>8, OthersKeepIt DEF CloseSession, acquisitionVars
<1>9. CASE CloseBackends
    BY <1>1, <1>9, CloseKeepsIt
<1>10. CASE UNCHANGED backendVars
    BY <1>1, <1>10, OthersKeepIt DEF backendVars, preparationVars, acquisitionVars
<1> QED BY <1>2, <1>3, <1>4, <1>5, <1>6, <1>7, <1>8, <1>9, <1>10 DEF NextPreparation

\* Shared preparation is as good as one's own: what executes has passed every
\* check, is started once and not held past the close, and who fails learns
\* what is wrong with what it asked for (artifact-loader.ts, the backends).
THEOREM PreparationIsSoundHolds == SpecPreparation => []PreparationIsSound
<1>1. InitPreparation => PreparationIInv
    BY DeviceInit, PreparationInit DEF PreparationIInv
<1>2. PreparationIInv /\ [NextPreparation]_backendVars => PreparationIInv'
    BY DeviceKeepsIt, PreparationStep DEF PreparationIInv
<1>3. PreparationIInv => PreparationIsSound
    <2> SUFFICES ASSUME PreparationIInv
                 PROVE  PreparationIsSound
        OBVIOUS
    <2>1. /\ PreparationTyped /\ UsableIsSound /\ FailuresAreOwned
          /\ \A r \in DOMAIN asks : AskIsTrue(r)
        BY DEF PreparationIInv, PreparationInv
    <2>2. \A p \in Parts : starts[p] <= 1
        BY <2>1 DEF PreparationTyped
    <2> QED BY <2>1, <2>2 DEF PreparationIsSound, NothingUnsoundIsUsed, UsableIsSound, AskIsTrue
<1> QED BY <1>1, <1>2, <1>3, PTL DEF SpecPreparation

=============================================================================
