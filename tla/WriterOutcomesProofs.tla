------------------------ MODULE WriterOutcomesProofs ------------------------
(***************************************************************************)
(* Machine-checked proofs about WriterOutcomes, for any number of tensors, *)
(* values and requests. The idea is the invariant Covering: although each  *)
(* capture drops the outcomes of completed writes, every write some        *)
(* content was built from is completed, still captured with that content,  *)
(* or part of the history of a write that is still captured.               *)
(***************************************************************************)
EXTENDS WriterOutcomes, FiniteSetTheorems, TLAPS

\* Accepted requests that publish a writer outcome.
Writers == {w \in 1..accepted : kind[w] = "copy"}

\* The part of the type invariant the proofs need, with tighter ranges.
Shape ==
    /\ accepted \in 0..MaxRequests /\ published \in 0..accepted
    /\ created \in 0..MaxValues
    /\ running \in BOOLEAN
    /\ mutationFailure \in 0..published
    /\ current \in [Tensors -> 0..created]
    /\ snapshot \in [Tensors -> 0..created]
    /\ controls \in [Tensors -> SUBSET Writers]
    /\ lineage \in [Tensors -> SUBSET Writers]
    /\ outcomes \in [Values -> SUBSET Writers]
    /\ kind \in [Requests -> {"none", "copy", "observation"}]
    /\ captured \in [Requests -> 0..created]
    /\ prerequisites \in [Requests -> SUBSET Writers]
    /\ history \in [Requests -> SUBSET Writers]
    /\ state \in [Requests -> {"pending", "success", "failure"}]
    /\ cause \in [Requests -> 0..MaxRequests]

\* Requests publish in order and capture only writes accepted before them.
Sound(r) ==
    /\ kind[r] \in {"copy", "observation"}
    /\ captured[r] \in 1..created
    /\ Needs(r) \subseteq 1..(r - 1)

Order ==
    /\ \A r \in Requests : state[r] = "pending" <=> published < r
    /\ \A r \in 1..accepted : Sound(r)

\* The captured set S answers for the writes P: whoever waits for S and finds
\* no failure may rely on all of P.
Covered(P, S) ==
    \A w \in P : \/ state[w] = "success"
                 \/ w \in S
                 \/ \E x \in S : w \in history[x]

CoveredTensor(t) ==
    /\ current[t] = 0 => snapshot[t] = 0
    /\ current[t] # 0 => Covered(lineage[t], Carried(t))
    /\ current[t] # 0 /\ snapshot[t] # 0 => Covered(lineage[t], outcomes[snapshot[t]])

Covering ==
    /\ \A t \in Tensors : CoveredTensor(t)
    /\ \A r \in 1..accepted : Covered(history[r], Needs(r))

\* The head that passed its writer checks keeps what they established.
Checked ==
    running => /\ published < accepted
               /\ Failed(Needs(published + 1)) = {}
               /\ kind[published + 1] = "copy" => mutationFailure = 0

OneFailure ==
    \A w \in Requests : kind[w] = "copy" =>
        /\ state[w] = "failure" => mutationFailure # 0 /\ cause[w] = mutationFailure
        /\ state[w] = "success" /\ mutationFailure # 0 => w < mutationFailure

IInv == Shape /\ Order /\ Covering /\ Checked /\ SuccessIsHonest /\ OneFailure

-----------------------------------------------------------------------------
(* Capturing.                                                              *)

\* Dropping completed writes from a capture loses no cover, because a completed
\* write answers for its whole history.
LEMMA CaptureKeepsCover ==
    ASSUME SuccessIsHonest, NEW P, NEW S, S \subseteq Requests, Covered(P, S)
    PROVE  Covered(P, Capture(S))
<1> SUFFICES ASSUME NEW w \in P
             PROVE  \/ state[w] = "success"
                    \/ w \in Capture(S)
                    \/ \E x \in Capture(S) : w \in history[x]
    BY DEF Covered
<1>1. CASE state[w] = "success"
    BY <1>1
<1>2. CASE w \in S
    BY <1>2 DEF Capture
<1>3. CASE \E x \in S : w \in history[x]
    <2>1. PICK x \in S : w \in history[x]
        BY <1>3
    <2>2. CASE state[x] = "success"
        BY <2>1, <2>2 DEF SuccessIsHonest
    <2>3. CASE state[x] # "success"
        BY <2>1, <2>3 DEF Capture
    <2> QED BY <2>2, <2>3
<1> QED BY <1>1, <1>2, <1>3 DEF Covered

-----------------------------------------------------------------------------
(* Steps of open tensors: the past is untouched, except that an unowned     *)
(* value may drop the completed writes it still named.                      *)

Grow ==
    /\ UNCHANGED <<published, running, state, cause, mutationFailure>>
    /\ accepted' \in {accepted, accepted + 1}
    /\ created \in 0..created'
    /\ \A x \in 1..accepted :
        /\ kind'[x] = kind[x] /\ captured'[x] = captured[x]
        /\ prerequisites'[x] = prerequisites[x] /\ history'[x] = history[x]
    /\ \A v \in 1..created : outcomes'[v] \in {outcomes[v], Capture(outcomes[v])}

\* What a newly accepted request must bring.
Newcomer ==
    accepted' # accepted => Sound(accepted)' /\ Covered(history[accepted], Needs(accepted))'

\* Covered for two given sets, in the state after the step.
CoveredNext(P, S) ==
    \A w \in P : state'[w] = "success" \/ w \in S \/ \E x \in S : w \in history'[x]

\* A cover of the past is a cover of the present.
LEMMA GrowKeepsCover ==
    ASSUME IInv, Grow, NEW P, NEW S, NEW T,
           S \subseteq 1..accepted, T = S \/ T = Capture(S), Covered(P, S)
    PROVE  CoveredNext(P, T)
<1>1. Covered(P, T)
    <2>1. S \subseteq Requests
        BY RequestBoundAssumption DEF IInv, Shape, Requests
    <2>2. Covered(P, Capture(S))
        BY <2>1, CaptureKeepsCover DEF IInv
    <2> QED BY <2>2
<1>2. \A x \in T : history'[x] = history[x]
    BY DEF Grow, Capture
<1> QED BY <1>1, <1>2 DEF Covered, CoveredNext, Grow

\* A tensor the step does not touch stays covered, and so does its snapshot.
LEMMA GrowKeepsTensor ==
    ASSUME IInv, Grow, NEW t \in Tensors, current[t] # 0,
           current'[t] = current[t], controls'[t] = controls[t], lineage'[t] = lineage[t]
    PROVE  /\ Covered(lineage[t], Carried(t))'
           /\ snapshot'[t] = snapshot[t] => CoveredTensor(t)'
<1> DEFINE c == current[t]  s == snapshot[t]
<1>1. /\ c \in 1..created /\ s \in 0..created
      /\ \A x \in 1..created : outcomes[x] \subseteq 1..accepted
      /\ controls[t] \subseteq 1..accepted
    BY ValueBoundAssumption DEF IInv, Shape, Values, Writers
<1>2. \A x \in 1..created : outcomes'[x] \in {outcomes[x], Capture(outcomes[x])}
    BY DEF Grow
<1>3. Covered(lineage[t], Carried(t))'
    <2>1. Covered(lineage[t], Carried(t)) /\ Carried(t) \subseteq 1..accepted
        BY <1>1 DEF IInv, Covering, CoveredTensor, Carried
    <2> DEFINE P == lineage[t]  S == Carried(t)  T == Capture(Carried(t))
    <2>2. CoveredNext(P, T)
        BY <2>1, GrowKeepsCover
    <2>3. T \subseteq outcomes'[c] \cup controls[t]
        BY <1>1, <1>2 DEF Capture, Carried
    <2> HIDE DEF P, S, T
    <2>4. Carried(t)' = outcomes'[c] \cup controls[t]
        BY DEF Carried
    <2>5. lineage'[t] = P
        BY DEF P
    <2> QED BY <2>2, <2>3, <2>4, <2>5 DEF Covered, CoveredNext
<1>4. ASSUME s # 0, snapshot'[t] = snapshot[t]
      PROVE  Covered(lineage[t], outcomes[snapshot[t]])'
    <2>1. Covered(lineage[t], outcomes[s]) /\ outcomes[s] \subseteq 1..accepted
        BY <1>1, <1>4 DEF IInv, Covering, CoveredTensor
    <2>2. ASSUME NEW T \in {outcomes[s], Capture(outcomes[s])}
          PROVE  CoveredNext(lineage[t], T)
        BY <2>1, GrowKeepsCover
    <2> QED BY <1>1, <1>2, <1>4, <2>2 DEF Covered, CoveredNext
<1> QED BY <1>3, <1>4 DEF CoveredTensor

\* What such a step leaves to show: its shape, its new request, its tensors.
LEMMA GrowStep ==
    ASSUME IInv, Grow, Shape', Newcomer, \A t \in Tensors : CoveredTensor(t)'
    PROVE  IInv'
<1>0. \A r \in Requests : state[r] # "pending" => r \in 1..accepted
    BY RequestBoundAssumption DEF IInv, Order, Shape, Requests
<1>1. \A r \in 1..accepted : Needs(r)' \in {Needs(r), Capture(Needs(r))}
    BY DEF IInv, Order, Sound, Grow, Needs
<1>2. \A r \in 1..accepted' : r \in 1..accepted \/ (r = accepted' /\ accepted' # accepted)
    BY DEF IInv, Shape, Grow
<1>3. Order'
    <2>1. \A r \in Requests : (state[r] = "pending" <=> published < r)'
        BY DEF IInv, Order, Grow
    <2>2. ASSUME NEW r \in 1..accepted
          PROVE  Sound(r)'
        <3>1. kind'[r] \in {"copy", "observation"} /\ captured'[r] \in 1..created'
            BY DEF IInv, Shape, Order, Sound, Grow
        <3>2. Needs(r)' \subseteq 1..(r - 1)
            BY <1>1 DEF IInv, Order, Sound, Capture
        <3> QED BY <3>1, <3>2 DEF Sound
    <2> QED BY <1>2, <2>1, <2>2 DEF Order, Newcomer
<1>4. Covering'
    <2>1. ASSUME NEW r \in 1..accepted
          PROVE  Covered(history[r], Needs(r))'
        <3>1. Covered(history[r], Needs(r)) /\ Needs(r) \subseteq 1..accepted
            BY DEF IInv, Covering, Order, Sound, Shape
        <3>2. history'[r] = history[r]
            BY DEF Grow
        <3>3. CoveredNext(history[r], Needs(r)')
            BY <1>1, <3>1, GrowKeepsCover
        <3> QED BY <3>2, <3>3 DEF Covered, CoveredNext
    <2> QED BY <1>2, <2>1 DEF Covering, Newcomer
<1>5. Checked'
    <2> SUFFICES ASSUME running'
                 PROVE  Checked'
        BY DEF Checked
    <2>1. published < accepted /\ published + 1 \in 1..accepted
        BY DEF IInv, Checked, Shape, Grow
    <2>2. Failed(Needs(published + 1))' \subseteq Failed(Needs(published + 1))
        BY <1>1, <2>1 DEF Failed, Capture, Grow
    <2> QED BY <2>1, <2>2 DEF IInv, Checked, Shape, Grow
<1>6. SuccessIsHonest'
    BY <1>0 DEF IInv, SuccessIsHonest, Grow
<1>7. OneFailure'
    BY <1>0 DEF IInv, OneFailure, Grow
<1> QED BY <1>3, <1>4, <1>5, <1>6, <1>7 DEF IInv

-----------------------------------------------------------------------------
(* The acceptance steps.                                                   *)

\* The value a tensor hands out names outcomes that answer for its lineage.
LEMMA CapturedValueCovers ==
    ASSUME IInv, NEW t \in Tensors, Open(t)
    PROVE  /\ CapturedValue(t) \in 1..(created + 1)
           /\ CapturedOutcomes(t) \subseteq Writers
           /\ Covered(lineage[t], CapturedOutcomes(t))
           /\ CapturedValue(t) # created + 1 =>
                CapturedOutcomes(t) \in {outcomes[CapturedValue(t)],
                                         Capture(outcomes[CapturedValue(t)])}
<1> DEFINE v == CapturedValue(t)
<1>1. /\ current[t] \in 1..created /\ snapshot[t] \in 0..created /\ created \in Nat
      /\ controls[t] \subseteq Writers
      /\ \A x \in 1..created : outcomes[x] \subseteq Writers
    BY ValueBoundAssumption DEF IInv, Shape, Open, Values
<1>2. Writers \subseteq Requests
    BY RequestBoundAssumption DEF IInv, Shape, Writers, Requests
<1>3. Covered(lineage[t], Carried(t))
    BY DEF IInv, Covering, CoveredTensor, Open
<1>4. v \in 1..(created + 1)
    BY <1>1 DEF CapturedValue
<1>5. CASE v = created + 1
    <2>1. CapturedOutcomes(t) = Capture(Carried(t))
        BY <1>5 DEF CapturedOutcomes
    <2>2. Carried(t) \subseteq Writers
        BY <1>1 DEF Carried
    <2>3. Covered(lineage[t], Capture(Carried(t)))
        BY <1>2, <1>3, <2>2, CaptureKeepsCover DEF IInv
    <2> QED BY <1>4, <1>5, <2>1, <2>2, <2>3 DEF Capture
<1>6. CASE v # created + 1
    <2>1. v \in 1..created
        BY <1>1, <1>4, <1>6
    <2>2. Covered(lineage[t], outcomes[v])
        <3>1. CASE controls[t] = {} /\ v = current[t]
            BY <1>3, <3>1 DEF Carried
        <3>2. CASE snapshot[t] # 0 /\ v = snapshot[t]
            BY <3>2 DEF IInv, Covering, CoveredTensor, Open
        <3> QED BY <1>1, <1>6, <3>1, <3>2 DEF CapturedValue
    <2>3. CapturedOutcomes(t) \in {outcomes[v], Capture(outcomes[v])}
        BY <1>6 DEF CapturedOutcomes
    <2>4. Covered(lineage[t], Capture(outcomes[v]))
        BY <1>1, <1>2, <2>1, <2>2, CaptureKeepsCover DEF IInv
    <2> QED BY <1>1, <1>4, <1>6, <2>1, <2>2, <2>3, <2>4 DEF Capture
<1> QED BY <1>5, <1>6

\* An accepted copy joins the writers.
LEMMA NewWriter ==
    ASSUME Shape, accepted + 1 \in Requests, accepted' = accepted + 1,
           NEW k, kind' = [kind EXCEPT ![accepted + 1] = k]
    PROVE  /\ Writers \subseteq Writers' /\ accepted + 1 \notin Writers
           /\ k = "copy" => accepted + 1 \in Writers'
<1>1. accepted \in Nat /\ 1..accepted \subseteq Requests
    BY RequestBoundAssumption DEF Shape, Requests
<1>2. \A x \in Requests : kind'[x] = IF x = accepted + 1 THEN k ELSE kind[x]
    BY DEF Shape
<1> QED BY <1>1, <1>2 DEF Writers

\* A write: its one new outcome answers, through its history, for everything
\* the old content and the source were built from.
LEMMA WriteStep ==
    ASSUME IInv, NEW dst \in Tensors, NEW src \in Tensors, Write(dst, src)
    PROVE  IInv'
<1> DEFINE r == accepted + 1
           v == CapturedValue(src)
           n == created + (IF v = created + 1 THEN 2 ELSE 1)
           needs == Capture(outcomes[current[dst]] \cup controls[dst] \cup Carried(src))
<1>1. /\ Open(dst) /\ Open(src) /\ n <= MaxValues /\ r \in Requests
      /\ accepted' = r /\ created' = n
      /\ kind' = [kind EXCEPT ![r] = "copy"]
      /\ captured' = [captured EXCEPT ![r] = v]
      /\ prerequisites' = [prerequisites EXCEPT ![r] = needs]
      /\ history' = [history EXCEPT ![r] = lineage[dst] \cup lineage[src]]
      /\ outcomes' = [outcomes EXCEPT ![v] = CapturedOutcomes(src), ![n] = {r}]
      /\ current' = [current EXCEPT ![dst] = n]
      /\ controls' = [controls EXCEPT ![dst] = {}]
      /\ snapshot' = [snapshot EXCEPT ![dst] = 0,
                          ![src] = IF src # dst /\ v # current[src] THEN v ELSE 0]
      /\ lineage' = [lineage EXCEPT ![dst] = lineage[dst] \cup lineage[src] \cup {r}]
      /\ UNCHANGED <<published, running, state, cause, mutationFailure>>
    BY RequestBoundAssumption DEF Write, Accept, IInv, Shape, effectVars, Requests
<1>2. /\ v \in 1..(created + 1) /\ CapturedOutcomes(src) \subseteq Writers
      /\ Covered(lineage[src], CapturedOutcomes(src))
      /\ v # created + 1 => CapturedOutcomes(src) \in {outcomes[v], Capture(outcomes[v])}
    BY <1>1, CapturedValueCovers
<1>3. created \in Nat /\ n \in Values /\ v \in Values /\ v # n /\ n > created
    BY <1>1, <1>2, ValueBoundAssumption DEF IInv, Shape, Values
<1>4. Writers \subseteq Writers' /\ r \in Writers' /\ r \notin Writers
    BY <1>1, NewWriter DEF IInv
<1>5. needs \subseteq Writers
    <2>1. current[dst] \in Values /\ current[src] \in Values
        BY <1>1, <1>3, ValueBoundAssumption DEF IInv, Shape, Open, Values
    <2> QED BY <2>1 DEF IInv, Shape, Carried, Capture
<1>6. Shape'
    <2>1. accepted' \in 0..MaxRequests /\ published' \in 0..accepted' /\ created' \in 0..MaxValues
          /\ running' \in BOOLEAN /\ mutationFailure' \in 0..published'
        BY <1>1, <1>3, RequestBoundAssumption, ValueBoundAssumption DEF IInv, Shape, Requests, Values
    <2>2. current' \in [Tensors -> 0..created'] /\ snapshot' \in [Tensors -> 0..created']
        BY <1>1, <1>2, <1>3 DEF IInv, Shape
    <2>3. controls' \in [Tensors -> SUBSET Writers']
        BY <1>1, <1>4 DEF IInv, Shape
    <2>4. lineage' \in [Tensors -> SUBSET Writers']
        BY <1>1, <1>4 DEF IInv, Shape
    <2>5. outcomes' \in [Values -> SUBSET Writers']
        BY <1>1, <1>2, <1>4 DEF IInv, Shape
    <2>6. kind' \in [Requests -> {"none", "copy", "observation"}]
        BY <1>1 DEF IInv, Shape
    <2>7. captured' \in [Requests -> 0..created']
        BY <1>1, <1>2, <1>3 DEF IInv, Shape
    <2>8. prerequisites' \in [Requests -> SUBSET Writers']
        BY <1>1, <1>4, <1>5 DEF IInv, Shape
    <2>9. history' \in [Requests -> SUBSET Writers']
        BY <1>1, <1>4 DEF IInv, Shape
    <2> QED BY <1>1, <2>1, <2>2, <2>3, <2>4, <2>5, <2>6, <2>7, <2>8, <2>9 DEF IInv, Shape
<1>7. Grow
    <2>1. \A x \in 1..accepted :
            /\ kind'[x] = kind[x] /\ captured'[x] = captured[x]
            /\ prerequisites'[x] = prerequisites[x] /\ history'[x] = history[x]
        BY <1>1, RequestBoundAssumption DEF IInv, Shape, Requests
    <2>2. \A x \in 1..created : outcomes'[x] \in {outcomes[x], Capture(outcomes[x])}
        <3> SUFFICES ASSUME NEW x \in 1..created
                     PROVE  outcomes'[x] \in {outcomes[x], Capture(outcomes[x])}
            OBVIOUS
        <3>1. x \in Values /\ x # n
            BY <1>3, ValueBoundAssumption DEF IInv, Shape, Values
        <3>2. outcomes'[x] = IF x = v THEN CapturedOutcomes(src) ELSE outcomes[x]
            BY <1>1, <1>3, <3>1 DEF IInv, Shape
        <3> QED BY <1>2, <1>3, <3>2
    <2>3. created \in 0..created' /\ accepted' \in {accepted, accepted + 1}
        BY <1>1, <1>3
    <2> QED BY <1>1, <2>1, <2>2, <2>3 DEF Grow
<1>8. Newcomer
    <2>1. Covered(lineage[dst] \cup lineage[src], needs)
        <3> DEFINE S == outcomes[current[dst]] \cup controls[dst] \cup Carried(src)
        <3>1. Covered(lineage[dst], Carried(dst)) /\ Covered(lineage[src], Carried(src))
            BY <1>1 DEF IInv, Covering, CoveredTensor, Open
        <3>2. Covered(lineage[dst], S) /\ Covered(lineage[src], S)
            BY <3>1 DEF Covered, Carried
        <3>3. Covered(lineage[dst] \cup lineage[src], S)
            BY <3>2 DEF Covered
        <3>4. S \subseteq Requests
            BY <1>1, <1>3, RequestBoundAssumption, ValueBoundAssumption
               DEF IInv, Shape, Open, Values, Requests, Writers, Carried
        <3> QED BY <3>3, <3>4, CaptureKeepsCover DEF IInv
    <2>2. needs \subseteq 1..accepted
        BY <1>5 DEF Writers
    <2>3. /\ kind'[r] = "copy" /\ captured'[r] = v /\ prerequisites'[r] = needs
          /\ history'[r] = lineage[dst] \cup lineage[src]
        BY <1>1 DEF IInv, Shape
    <2>4. Needs(accepted)' = needs
        BY <1>1, <2>3 DEF Needs
    <2>5. Sound(accepted)'
        <3>1. r - 1 = accepted /\ v \in 1..created'
            BY <1>1, <1>2, <1>3 DEF IInv, Shape
        <3> QED BY <1>1, <2>2, <2>3, <2>4, <3>1 DEF Sound
    <2>6. CoveredNext(lineage[dst] \cup lineage[src], needs)
        BY <1>7, <2>1, <2>2, GrowKeepsCover
    <2>7. Covered(history[accepted], Needs(accepted))'
        BY <1>1, <2>3, <2>4, <2>6 DEF Covered, CoveredNext
    <2> QED BY <2>5, <2>7 DEF Newcomer
<1>9. ASSUME NEW t \in Tensors
      PROVE  CoveredTensor(t)'
    <2>1. CASE t = dst
        <3>1. /\ current'[t] = n /\ controls'[t] = {} /\ snapshot'[t] = 0
              /\ lineage'[t] = lineage[dst] \cup lineage[src] \cup {r}
              /\ outcomes'[n] = {r} /\ history'[r] = lineage[dst] \cup lineage[src]
            BY <1>1, <1>3, <2>1 DEF IInv, Shape
        <3>2. Carried(t)' = {r}
            BY <3>1 DEF Carried
        <3> QED BY <1>3, <3>1, <3>2 DEF CoveredTensor, Covered
    <2>2. CASE t # dst
        <3>1. /\ current'[t] = current[t] /\ controls'[t] = controls[t]
              /\ lineage'[t] = lineage[t]
            BY <1>1, <2>2 DEF IInv, Shape
        <3>2. CASE current[t] = 0
            <4>1. t # src /\ snapshot'[t] = snapshot[t] /\ snapshot[t] = 0
                BY <1>1, <2>2, <3>2 DEF IInv, Shape, Open, Covering, CoveredTensor
            <4> QED BY <3>1, <3>2, <4>1 DEF CoveredTensor
        <3>3. CASE current[t] # 0 /\ t # src
            <4>1. snapshot'[t] = snapshot[t]
                BY <1>1, <2>2, <3>3 DEF IInv, Shape
            <4> QED BY <1>7, <3>1, <3>3, <4>1, GrowKeepsTensor
        <3>4. CASE t = src
            <4>1. Covered(lineage[t], Carried(t))'
                BY <1>1, <1>7, <3>1, <3>4, GrowKeepsTensor DEF Open
            <4>2. snapshot'[t] \in {0, v} /\ outcomes'[v] = CapturedOutcomes(src)
                BY <1>1, <1>3, <2>2, <3>4 DEF IInv, Shape
            <4>3. CapturedOutcomes(src) \subseteq 1..accepted
                BY <1>2 DEF Writers
            <4>4. CoveredNext(lineage[t], CapturedOutcomes(src))
                BY <1>2, <1>7, <3>4, <4>3, GrowKeepsCover
            <4>5. snapshot'[t] # 0 => Covered(lineage[t], outcomes[snapshot[t]])'
                BY <3>1, <4>2, <4>4 DEF Covered, CoveredNext
            <4>6. current'[t] # 0
                BY <1>1, <3>1, <3>4 DEF Open
            <4> QED BY <4>1, <4>5, <4>6 DEF CoveredTensor
        <3> QED BY <3>2, <3>3, <3>4
    <2> QED BY <2>1, <2>2
<1> QED BY <1>6, <1>7, <1>8, <1>9, GrowStep

\* A lazy operation: its value captures from the values it is derived from.
LEMMA DeriveStep ==
    ASSUME IInv, NEW dst \in Tensors, NEW left \in Tensors, NEW right \in Tensors,
           Derive(dst, left, right)
    PROVE  IInv'
<1> DEFINE n == created + 1
           S == Carried(left) \cup Carried(right)
           P == lineage[left] \cup lineage[right]
<1>1. /\ Open(left) /\ Open(right) /\ current[dst] = 0 /\ n <= MaxValues
      /\ created' = n
      /\ outcomes' = [outcomes EXCEPT ![n] = Capture(S)]
      /\ current' = [current EXCEPT ![dst] = n]
      /\ lineage' = [lineage EXCEPT ![dst] = P]
      /\ UNCHANGED <<controls, snapshot, requestVars, mutationFailure>>
    BY DEF Derive, effectVars
<1>2. created \in Nat /\ n \in Values
    BY <1>1, ValueBoundAssumption DEF IInv, Shape, Values
<1>3. Writers' = Writers /\ S \subseteq Writers /\ Writers \subseteq Requests
    BY <1>1, <1>2, RequestBoundAssumption, ValueBoundAssumption
       DEF IInv, Shape, Writers, requestVars, Open, Carried, Values, Requests
<1>4. Shape'
    <2>1. outcomes' \in [Values -> SUBSET Writers']
        BY <1>1, <1>3 DEF IInv, Shape, Capture
    <2>2. current' \in [Tensors -> 0..created'] /\ snapshot' \in [Tensors -> 0..created']
          /\ captured' \in [Requests -> 0..created']
        BY <1>1, <1>2 DEF IInv, Shape, requestVars
    <2>3. lineage' \in [Tensors -> SUBSET Writers'] /\ controls' \in [Tensors -> SUBSET Writers']
        BY <1>1, <1>3 DEF IInv, Shape
    <2>4. created' \in 0..MaxValues
        BY <1>1, <1>2, ValueBoundAssumption
    <2> QED BY <1>1, <1>3, <2>1, <2>2, <2>3, <2>4 DEF IInv, Shape, requestVars
<1>5. Grow
    BY <1>1, <1>2, ValueBoundAssumption DEF IInv, Shape, Grow, requestVars, Values
<1>6. Newcomer
    BY <1>1 DEF Newcomer, requestVars
<1>7. ASSUME NEW t \in Tensors
      PROVE  CoveredTensor(t)'
    <2>1. CASE t = dst
        <3>1. /\ current'[t] = n /\ snapshot'[t] = 0 /\ lineage'[t] = P
              /\ outcomes'[n] = Capture(S)
            BY <1>1, <1>2, <2>1 DEF IInv, Shape, Covering, CoveredTensor
        <3>2. Covered(P, S)
            BY <1>1 DEF IInv, Covering, CoveredTensor, Covered, Open
        <3>3. CoveredNext(P, Capture(S))
            BY <1>3, <1>5, <3>2, GrowKeepsCover DEF Writers
        <3> QED BY <3>1, <3>3 DEF CoveredTensor, Covered, CoveredNext, Carried
    <2>2. CASE t # dst
        <3>1. /\ current'[t] = current[t] /\ controls'[t] = controls[t]
              /\ lineage'[t] = lineage[t] /\ snapshot'[t] = snapshot[t]
            BY <1>1, <2>2 DEF IInv, Shape
        <3>2. CASE current[t] = 0
            BY <3>1, <3>2 DEF CoveredTensor, IInv, Covering
        <3>3. CASE current[t] # 0
            BY <1>5, <3>1, <3>3, GrowKeepsTensor
        <3> QED BY <3>2, <3>3
    <2> QED BY <2>1, <2>2
<1> QED BY <1>4, <1>5, <1>6, <1>7, GrowStep

\* A released tensor takes nothing with it that others still need.
LEMMA ReleaseStep ==
    ASSUME IInv, NEW u \in Tensors, Release(u)
    PROVE  IInv'
<1>1. /\ current' = [current EXCEPT ![u] = 0] /\ controls' = [controls EXCEPT ![u] = {}]
      /\ snapshot' = [snapshot EXCEPT ![u] = 0] /\ lineage' = [lineage EXCEPT ![u] = {}]
      /\ UNCHANGED <<created, outcomes, requestVars, mutationFailure>>
    BY DEF Release, effectVars
<1>2. Writers' = Writers
    BY <1>1 DEF Writers, requestVars
<1>3. Shape'
    <2>1. current' \in [Tensors -> 0..created'] /\ snapshot' \in [Tensors -> 0..created']
        BY <1>1, ValueBoundAssumption DEF IInv, Shape
    <2>2. lineage' \in [Tensors -> SUBSET Writers'] /\ controls' \in [Tensors -> SUBSET Writers']
        BY <1>1, <1>2 DEF IInv, Shape
    <2> QED BY <1>1, <1>2, <2>1, <2>2 DEF IInv, Shape, requestVars
<1>4. Grow
    BY <1>1, ValueBoundAssumption DEF IInv, Shape, Grow, requestVars
<1>5. Newcomer
    BY <1>1 DEF Newcomer, requestVars
<1>6. ASSUME NEW t \in Tensors
      PROVE  CoveredTensor(t)'
    <2>1. CASE t = u
        BY <1>1, <2>1 DEF CoveredTensor, IInv, Shape
    <2>2. CASE t # u
        <3>1. /\ current'[t] = current[t] /\ controls'[t] = controls[t]
              /\ lineage'[t] = lineage[t] /\ snapshot'[t] = snapshot[t]
            BY <1>1, <2>2 DEF IInv, Shape
        <3>2. CASE current[t] = 0
            BY <3>1, <3>2 DEF CoveredTensor, IInv, Covering
        <3>3. CASE current[t] # 0
            BY <1>4, <3>1, <3>3, GrowKeepsTensor
        <3> QED BY <3>2, <3>3
    <2> QED BY <2>1, <2>2
<1> QED BY <1>3, <1>4, <1>5, <1>6, GrowStep

\* close() releases them all.
LEMMA CloseStep ==
    ASSUME IInv, Close
    PROVE  IInv'
<1>1. /\ current' = [t \in Tensors |-> 0] /\ controls' = [t \in Tensors |-> {}]
      /\ snapshot' = [t \in Tensors |-> 0] /\ lineage' = [t \in Tensors |-> {}]
      /\ UNCHANGED <<created, outcomes, requestVars, mutationFailure>>
    BY DEF Close, effectVars
<1>2. Writers' = Writers
    BY <1>1 DEF Writers, requestVars
<1>3. Shape'
    <2>1. current' \in [Tensors -> 0..created'] /\ snapshot' \in [Tensors -> 0..created']
        BY <1>1, ValueBoundAssumption DEF IInv, Shape
    <2>2. lineage' \in [Tensors -> SUBSET Writers'] /\ controls' \in [Tensors -> SUBSET Writers']
        BY <1>1
    <2> QED BY <1>1, <1>2, <2>1, <2>2 DEF IInv, Shape, requestVars
<1>4. Grow
    BY <1>1, ValueBoundAssumption DEF IInv, Shape, Grow, requestVars
<1>5. Newcomer
    BY <1>1 DEF Newcomer, requestVars
<1>6. ASSUME NEW t \in Tensors
      PROVE  CoveredTensor(t)'
    BY <1>1 DEF CoveredTensor
<1> QED BY <1>3, <1>4, <1>5, <1>6, GrowStep

\* A gradient acquisition: the new value answers for the borrowed one, and the
\* new identity is controlled by the acquiring effect as well.
LEMMA AcquireStep ==
    ASSUME IInv, NEW dst \in Tensors, NEW src \in Tensors, Acquire(dst, src)
    PROVE  IInv'
<1> DEFINE r == accepted + 1
           n == created + 1
           S == Carried(src)
           P == lineage[src]
<1>1. /\ Open(src) /\ current[dst] = 0 /\ n <= MaxValues /\ r \in Requests
      /\ accepted' = r /\ created' = n
      /\ kind' = [kind EXCEPT ![r] = "copy"]
      /\ captured' = [captured EXCEPT ![r] = n]
      /\ prerequisites' = [prerequisites EXCEPT ![r] = Capture(S)]
      /\ history' = [history EXCEPT ![r] = P]
      /\ outcomes' = [outcomes EXCEPT ![n] = Capture(S)]
      /\ current' = [current EXCEPT ![dst] = n]
      /\ controls' = [controls EXCEPT ![dst] = {r}]
      /\ lineage' = [lineage EXCEPT ![dst] = P \cup {r}]
      /\ UNCHANGED <<snapshot, published, running, state, cause, mutationFailure>>
    BY RequestBoundAssumption DEF Acquire, Accept, IInv, Shape, effectVars, Requests
<1>2. created \in Nat /\ n \in Values
    BY <1>1, ValueBoundAssumption DEF IInv, Shape, Values
<1>3. Writers \subseteq Writers' /\ r \in Writers' /\ r \notin Writers
    BY <1>1, NewWriter DEF IInv
<1>4. S \subseteq Writers /\ Capture(S) \subseteq Writers
    BY <1>1, <1>2, ValueBoundAssumption DEF IInv, Shape, Open, Carried, Values, Capture
<1>5. Shape'
    <2>1. accepted' \in 0..MaxRequests /\ published' \in 0..accepted' /\ created' \in 0..MaxValues
          /\ running' \in BOOLEAN /\ mutationFailure' \in 0..published'
        BY <1>1, <1>2, RequestBoundAssumption, ValueBoundAssumption DEF IInv, Shape, Requests, Values
    <2>2. current' \in [Tensors -> 0..created'] /\ snapshot' \in [Tensors -> 0..created']
        BY <1>1, <1>2 DEF IInv, Shape
    <2>3. controls' \in [Tensors -> SUBSET Writers']
        BY <1>1, <1>3 DEF IInv, Shape
    <2>4. lineage' \in [Tensors -> SUBSET Writers']
        BY <1>1, <1>3 DEF IInv, Shape
    <2>5. outcomes' \in [Values -> SUBSET Writers']
        BY <1>1, <1>3, <1>4 DEF IInv, Shape
    <2>6. kind' \in [Requests -> {"none", "copy", "observation"}]
        BY <1>1 DEF IInv, Shape
    <2>7. captured' \in [Requests -> 0..created']
        BY <1>1, <1>2 DEF IInv, Shape
    <2>8. prerequisites' \in [Requests -> SUBSET Writers']
        BY <1>1, <1>3, <1>4 DEF IInv, Shape
    <2>9. history' \in [Requests -> SUBSET Writers']
        BY <1>1, <1>3 DEF IInv, Shape
    <2> QED BY <1>1, <2>1, <2>2, <2>3, <2>4, <2>5, <2>6, <2>7, <2>8, <2>9 DEF IInv, Shape
<1>6. Grow
    <2>1. \A x \in 1..accepted :
            /\ kind'[x] = kind[x] /\ captured'[x] = captured[x]
            /\ prerequisites'[x] = prerequisites[x] /\ history'[x] = history[x]
        BY <1>1, RequestBoundAssumption DEF IInv, Shape, Requests
    <2>2. \A x \in 1..created : outcomes'[x] = outcomes[x]
        BY <1>1, <1>2, ValueBoundAssumption DEF IInv, Shape, Values
    <2>3. created \in 0..created' /\ accepted' \in {accepted, accepted + 1}
        BY <1>1, <1>2
    <2> QED BY <1>1, <2>1, <2>2, <2>3 DEF Grow
<1>7. CoveredNext(P, Capture(S))
    <2>1. Covered(P, S)
        BY <1>1 DEF IInv, Covering, CoveredTensor, Open
    <2> QED BY <1>4, <1>6, <2>1, GrowKeepsCover DEF Writers
<1>8. Newcomer
    <2>1. /\ kind'[r] = "copy" /\ captured'[r] = n /\ prerequisites'[r] = Capture(S)
          /\ history'[r] = P
        BY <1>1 DEF IInv, Shape
    <2>2. Needs(accepted)' = Capture(S)
        BY <1>1, <2>1 DEF Needs
    <2>3. r - 1 = accepted /\ n \in 1..created' /\ Capture(S) \subseteq 1..accepted
        BY <1>1, <1>2, <1>4 DEF IInv, Shape, Writers
    <2>4. Sound(accepted)'
        BY <1>1, <2>1, <2>2, <2>3 DEF Sound
    <2>5. Covered(history[accepted], Needs(accepted))'
        BY <1>1, <1>7, <2>1, <2>2 DEF Covered, CoveredNext
    <2> QED BY <2>4, <2>5 DEF Newcomer
<1>9. ASSUME NEW t \in Tensors
      PROVE  CoveredTensor(t)'
    <2>1. CASE t = dst
        <3>1. /\ current'[t] = n /\ controls'[t] = {r} /\ snapshot'[t] = 0
              /\ lineage'[t] = P \cup {r} /\ outcomes'[n] = Capture(S)
            BY <1>1, <1>2, <2>1 DEF IInv, Shape, Covering, CoveredTensor
        <3>2. Carried(t)' = Capture(S) \cup {r}
            BY <3>1 DEF Carried
        <3> QED BY <1>2, <1>7, <3>1, <3>2 DEF CoveredTensor, Covered, CoveredNext
    <2>2. CASE t # dst
        <3>1. /\ current'[t] = current[t] /\ controls'[t] = controls[t]
              /\ lineage'[t] = lineage[t] /\ snapshot'[t] = snapshot[t]
            BY <1>1, <2>2 DEF IInv, Shape
        <3>2. CASE current[t] = 0
            BY <3>1, <3>2 DEF CoveredTensor, IInv, Covering
        <3>3. CASE current[t] # 0
            BY <1>6, <3>1, <3>3, GrowKeepsTensor
        <3> QED BY <3>2, <3>3
    <2> QED BY <2>1, <2>2
<1> QED BY <1>5, <1>6, <1>8, <1>9, GrowStep

\* An observation: the pinned value answers for the tensor as it is now.
LEMMA ObserveStep ==
    ASSUME IInv, NEW u \in Tensors, Observe(u)
    PROVE  IInv'
<1> DEFINE r == accepted + 1
           v == CapturedValue(u)
           S == CapturedOutcomes(u)
           P == lineage[u]
<1>1. /\ Open(u) /\ v <= MaxValues /\ r \in Requests
      /\ accepted' = r /\ created' = IF v = created + 1 THEN v ELSE created
      /\ kind' = [kind EXCEPT ![r] = "observation"]
      /\ captured' = [captured EXCEPT ![r] = v]
      /\ prerequisites' = [prerequisites EXCEPT ![r] = {}]
      /\ history' = [history EXCEPT ![r] = P]
      /\ outcomes' = [outcomes EXCEPT ![v] = S]
      /\ snapshot' = [snapshot EXCEPT ![u] = IF v = current[u] THEN snapshot[u] ELSE v]
      /\ UNCHANGED <<current, controls, lineage, published, running, state, cause, mutationFailure>>
    BY RequestBoundAssumption DEF Observe, Accept, IInv, Shape, effectVars, Requests
<1>2. /\ v \in 1..(created + 1) /\ S \subseteq Writers /\ Covered(P, S)
      /\ v # created + 1 => S \in {outcomes[v], Capture(outcomes[v])}
    BY <1>1, CapturedValueCovers
<1>3. /\ created \in Nat /\ created' \in Nat /\ created <= created' /\ created' <= MaxValues
      /\ v \in 1..created' /\ v \in Values
    <2>1. created \in Nat /\ created <= MaxValues /\ MaxValues \in Nat
        BY ValueBoundAssumption DEF IInv, Shape
    <2> HIDE DEF v
    <2>2. CASE v = created + 1
        BY <1>1, <1>2, <2>1, <2>2 DEF Values
    <2>3. CASE v # created + 1
        BY <1>1, <1>2, <2>1, <2>3 DEF Values
    <2> QED BY <2>2, <2>3
<1>4. Writers \subseteq Writers'
    BY <1>1, NewWriter DEF IInv
<1>5. Shape'
    <2>1. accepted' \in 0..MaxRequests /\ published' \in 0..accepted' /\ created' \in 0..MaxValues
          /\ running' \in BOOLEAN /\ mutationFailure' \in 0..published'
        BY <1>1, <1>3, RequestBoundAssumption, ValueBoundAssumption DEF IInv, Shape, Requests, Values
    <2>2. current' \in [Tensors -> 0..created'] /\ snapshot' \in [Tensors -> 0..created']
        BY <1>1, <1>3 DEF IInv, Shape
    <2>3. controls' \in [Tensors -> SUBSET Writers'] /\ lineage' \in [Tensors -> SUBSET Writers']
        BY <1>1, <1>4 DEF IInv, Shape
    <2>4. outcomes' \in [Values -> SUBSET Writers']
        BY <1>1, <1>2, <1>4 DEF IInv, Shape
    <2>5. kind' \in [Requests -> {"none", "copy", "observation"}]
        BY <1>1 DEF IInv, Shape
    <2>6. captured' \in [Requests -> 0..created']
        BY <1>1, <1>3 DEF IInv, Shape
    <2>7. prerequisites' \in [Requests -> SUBSET Writers']
        BY <1>1, <1>4 DEF IInv, Shape
    <2>8. history' \in [Requests -> SUBSET Writers']
        BY <1>1, <1>4 DEF IInv, Shape
    <2> QED BY <1>1, <2>1, <2>2, <2>3, <2>4, <2>5, <2>6, <2>7, <2>8 DEF IInv, Shape
<1>6. Grow
    <2>1. \A x \in 1..accepted :
            /\ kind'[x] = kind[x] /\ captured'[x] = captured[x]
            /\ prerequisites'[x] = prerequisites[x] /\ history'[x] = history[x]
        BY <1>1, RequestBoundAssumption DEF IInv, Shape, Requests
    <2>2. ASSUME NEW x \in 1..created
          PROVE  outcomes'[x] \in {outcomes[x], Capture(outcomes[x])}
        <3>1. x \in Values /\ x # created + 1
            BY <1>3, ValueBoundAssumption DEF IInv, Shape, Values
        <3>2. outcomes'[x] = IF x = v THEN S ELSE outcomes[x]
            BY <1>1, <3>1 DEF IInv, Shape
        <3> QED BY <1>2, <3>1, <3>2
    <2>3. created \in 0..created' /\ accepted' \in {accepted, accepted + 1}
        BY <1>1, <1>3
    <2> QED BY <1>1, <2>1, <2>2, <2>3 DEF Grow
<1>7. CoveredNext(P, S)
    BY <1>2, <1>6, GrowKeepsCover DEF Writers
<1>8. outcomes'[v] = S
    BY <1>1, <1>3 DEF IInv, Shape
<1>9. Newcomer
    <2>1. kind'[r] = "observation" /\ captured'[r] = v /\ history'[r] = P
        BY <1>1 DEF IInv, Shape
    <2>2. Needs(accepted)' = S
        BY <1>1, <1>8, <2>1 DEF Needs
    <2>3. r - 1 = accepted /\ S \subseteq 1..accepted
        BY <1>1, <1>2 DEF IInv, Shape, Writers
    <2>4. Sound(accepted)'
        BY <1>1, <1>3, <2>1, <2>2, <2>3 DEF Sound
    <2>5. Covered(history[accepted], Needs(accepted))'
        BY <1>1, <1>7, <2>1, <2>2 DEF Covered, CoveredNext
    <2> QED BY <2>4, <2>5 DEF Newcomer
<1>10. ASSUME NEW t \in Tensors
       PROVE  CoveredTensor(t)'
    <2>1. /\ current'[t] = current[t] /\ controls'[t] = controls[t] /\ lineage'[t] = lineage[t]
        BY <1>1
    <2>2. CASE current[t] = 0
        <3>1. t # u /\ snapshot'[t] = snapshot[t]
            BY <1>1, <2>2 DEF IInv, Shape, Open
        <3> QED BY <2>1, <2>2, <3>1 DEF CoveredTensor, IInv, Covering
    <2>3. CASE current[t] # 0 /\ snapshot'[t] = snapshot[t]
        BY <1>6, <2>1, <2>3, GrowKeepsTensor
    <2>4. CASE current[t] # 0 /\ snapshot'[t] # snapshot[t]
        <3>1. t = u /\ snapshot'[t] = v
            BY <1>1, <2>4 DEF IInv, Shape
        <3>2. Covered(lineage[t], Carried(t))'
            BY <1>6, <2>1, <2>4, GrowKeepsTensor
        <3>3. Covered(lineage[t], outcomes[snapshot[t]])'
            BY <1>7, <1>8, <2>1, <3>1 DEF Covered, CoveredNext
        <3> QED BY <2>1, <2>4, <3>2, <3>3 DEF CoveredTensor
    <2> QED BY <2>2, <2>3, <2>4
<1> QED BY <1>5, <1>6, <1>9, <1>10, GrowStep

-----------------------------------------------------------------------------
(* The head of the queue.                                                  *)

\* The step neither accepts anything nor touches what exists.
Settled ==
    UNCHANGED <<accepted, created, current, snapshot, controls, lineage, outcomes, kind,
                captured, prerequisites, history>>

\* Everything the head captured is published already.
LEMMA HeadFindsResults ==
    ASSUME IInv, NEW r \in Requests, IsHead(r)
    PROVE  /\ r \in 1..accepted /\ state[r] = "pending"
           /\ \A w \in Needs(r) : w \in Requests /\ w < r /\ state[w] \in {"success", "failure"}
<1>1. r \in 1..accepted /\ published \in Nat /\ r = published + 1
    BY RequestBoundAssumption DEF IInv, Shape, IsHead, Requests
<1>2. state[r] = "pending"
    BY <1>1 DEF IInv, Order
<1>3. ASSUME NEW w \in Needs(r)
      PROVE  w \in Requests /\ w < r /\ state[w] \in {"success", "failure"}
    <2>1. w \in 1..(r - 1)
        BY <1>1 DEF IInv, Order, Sound
    <2>2. w \in Requests /\ w < r /\ ~(published < w)
        BY <1>1, <2>1, RequestBoundAssumption DEF Requests
    <2> QED BY <2>2 DEF IInv, Order, Shape
<1> QED BY <1>1, <1>2, <1>3

\* Publication of the head's outcome. A success needs a request whose writers
\* were checked, a failure of a write needs the session's one cause.
LEMMA PublishStep ==
    ASSUME IInv, NEW r \in Requests, NEW o \in {"success", "failure"}, IsHead(r),
           Publish(r, o), Settled,
           o = "success" => running /\ cause' = cause /\ mutationFailure' = mutationFailure,
           cause' \in [Requests -> 0..MaxRequests],
           \A w \in Requests \ {r} : cause'[w] = cause[w],
           mutationFailure' \in {mutationFailure, r},
           mutationFailure # 0 => mutationFailure' = mutationFailure,
           kind[r] = "copy" /\ o = "failure" =>
                mutationFailure' # 0 /\ cause'[r] = mutationFailure',
           kind[r] = "observation" => mutationFailure' = mutationFailure
    PROVE  IInv'
<1>1. /\ r \in 1..accepted /\ state[r] = "pending" /\ r = published + 1
      /\ published \in Nat /\ accepted \in 0..MaxRequests /\ published' = r /\ running' = FALSE
      /\ state' = [state EXCEPT ![r] = o]
    BY HeadFindsResults, RequestBoundAssumption DEF IInv, Shape, Publish, IsHead
<1>2. /\ \A w \in Requests : state'[w] = IF w = r THEN o ELSE state[w]
      /\ \A w \in Requests : state[w] = "success" => state'[w] = "success"
    BY <1>1 DEF IInv, Shape
<1>3. Writers' = Writers /\ \A x \in Requests : Needs(x)' = Needs(x)
    BY DEF Settled, Writers, Needs
<1>4. Shape'
    <2>1. published' \in 0..accepted' /\ mutationFailure' \in 0..published' /\ running' \in BOOLEAN
        <3>1. accepted' = accepted /\ mutationFailure \in 0..published
            BY DEF Settled, IInv, Shape
        <3>2. published' \in 0..accepted'
            BY <1>1, <3>1
        <3>3. mutationFailure' \in 0..published'
            BY <1>1, <3>1
        <3> QED BY <1>1, <3>2, <3>3
    <2>2. state' \in [Requests -> {"pending", "success", "failure"}]
        BY <1>1 DEF IInv, Shape
    <2> QED BY <1>3, <2>1, <2>2 DEF IInv, Shape, Settled
<1>5. Order'
    <2>1. \A w \in Requests : (state[w] = "pending" <=> published < w)'
        BY <1>1, <1>2, RequestBoundAssumption DEF IInv, Order, Requests
    <2>2. \A w \in 1..accepted : Sound(w)'
        BY <1>3, RequestBoundAssumption DEF IInv, Order, Sound, Settled, Shape, Requests
    <2> QED BY <2>1, <2>2 DEF Order, Settled
<1>6. Covering'
    <2>1. ASSUME NEW P \in SUBSET Writers, NEW S, Covered(P, S)
          PROVE  CoveredNext(P, S)
        <3>1. P \subseteq Requests
            BY <1>1, RequestBoundAssumption DEF Writers, Requests
        <3> QED BY <1>2, <2>1, <3>1 DEF Covered, CoveredNext, Settled
    <2>2. ASSUME NEW t \in Tensors
          PROVE  CoveredTensor(t)'
        <3>1. lineage[t] \subseteq Writers /\ CoveredTensor(t)
            BY DEF IInv, Shape, Covering
        <3>2. Carried(t)' = Carried(t)
            BY DEF Carried, Settled
        <3> QED BY <2>1, <3>1, <3>2 DEF CoveredTensor, Covered, CoveredNext, Settled
    <2>3. ASSUME NEW x \in 1..accepted
          PROVE  Covered(history[x], Needs(x))'
        <3>1. x \in Requests /\ history[x] \subseteq Writers
            BY <1>1, RequestBoundAssumption DEF IInv, Shape, Requests
        <3>2. CoveredNext(history[x], Needs(x))
            BY <2>1, <3>1 DEF IInv, Covering
        <3> QED BY <1>3, <3>1, <3>2 DEF Covered, CoveredNext, Settled
    <2> QED BY <2>2, <2>3 DEF Covering, Settled
<1>7. Checked'
    BY <1>1 DEF Checked
<1>8. SuccessIsHonest'
    <2>1. ASSUME o = "success", NEW w \in history[r]
          PROVE  state[w] = "success"
        <3>1. \A x \in Needs(r) : x \in Requests /\ state[x] = "success"
            BY <1>1, <2>1, HeadFindsResults DEF IInv, Checked, Failed
        <3>2. Covered(history[r], Needs(r))
            BY <1>1 DEF IInv, Covering
        <3> QED BY <3>1, <3>2 DEF Covered, IInv, SuccessIsHonest
    <2>2. \A x \in Requests : history[x] \subseteq Requests
        BY <1>1, RequestBoundAssumption DEF IInv, Shape, Writers, Requests
    <2> QED BY <1>1, <1>2, <2>1, <2>2 DEF SuccessIsHonest, IInv, Settled
<1>9. OneFailure'
    <2> SUFFICES ASSUME NEW w \in Requests, kind[w] = "copy"
                 PROVE  /\ state'[w] = "failure" => mutationFailure' # 0 /\ cause'[w] = mutationFailure'
                        /\ state'[w] = "success" /\ mutationFailure' # 0 => w < mutationFailure'
        BY DEF OneFailure, Settled
    <2>1. CASE w = r
        BY <1>1, <1>2, <2>1 DEF IInv, Checked
    <2>2. CASE w # r
        <3>1. state'[w] = state[w] /\ cause'[w] = cause[w]
            BY <1>2, <2>2
        <3>2. state[w] = "success" => w < r
            BY <1>1, <2>2, RequestBoundAssumption DEF IInv, Order, Requests
        <3> QED BY <3>1, <3>2 DEF IInv, OneFailure
    <2> QED BY <2>1, <2>2
<1> QED BY <1>4, <1>5, <1>6, <1>7, <1>8, <1>9 DEF IInv

\* A copy that inherits a failure reports the session's one cause.
LEMMA InheritFailureStep ==
    ASSUME IInv, NEW r \in Requests, InheritFailure(r)
    PROVE  IInv'
<1>1. /\ IsHead(r) /\ kind[r] = "copy" /\ Publish(r, "failure") /\ Settled
      /\ mutationFailure' = mutationFailure
    BY DEF InheritFailure, Settled, tensorVars, valueVars, effectVars, Publish
<1>2. mutationFailure # 0 /\ cause' = [cause EXCEPT ![r] = mutationFailure]
    <2>1. CASE \E w \in Failed(prerequisites[r]) : cause' = [cause EXCEPT ![r] = cause[w]]
        <3>1. PICK w \in Failed(prerequisites[r]) : cause' = [cause EXCEPT ![r] = cause[w]]
            BY <2>1
        <3>2. w \in Requests /\ kind[w] = "copy" /\ state[w] = "failure"
            BY <3>1, RequestBoundAssumption DEF Failed, IInv, Shape, Writers, Requests
        <3> QED BY <3>1, <3>2 DEF IInv, OneFailure
    <2>2. CASE mutationFailure # 0 /\ cause' = [cause EXCEPT ![r] = mutationFailure]
        BY <2>2
    <2> QED BY <2>1, <2>2 DEF InheritFailure
<1>3. mutationFailure \in 0..MaxRequests
    BY RequestBoundAssumption DEF IInv, Shape
<1>4. cause' \in [Requests -> 0..MaxRequests] /\ cause'[r] = mutationFailure
      /\ \A w \in Requests \ {r} : cause'[w] = cause[w]
    BY <1>2, <1>3 DEF IInv, Shape
<1> QED BY <1>1, <1>2, <1>4, PublishStep

\* A copy that ran either succeeds or becomes the session's one cause.
LEMMA FinishCopyStep ==
    ASSUME IInv, NEW r \in Requests, FinishCopy(r)
    PROVE  IInv'
<1>1. /\ IsHead(r) /\ kind[r] = "copy" /\ running /\ Settled /\ mutationFailure = 0
    BY DEF FinishCopy, Settled, tensorVars, valueVars, Publish, IInv, Checked, IsHead
<1>2. CASE Publish(r, "success") /\ UNCHANGED <<cause, effectVars>>
    <2>1. cause' = cause /\ mutationFailure' = mutationFailure
        BY <1>2 DEF effectVars
    <2>2. cause' \in [Requests -> 0..MaxRequests]
        BY <2>1 DEF IInv, Shape
    <2> QED BY <1>1, <1>2, <2>1, <2>2, PublishStep
<1>3. CASE /\ Publish(r, "failure")
           /\ cause' = [cause EXCEPT ![r] = r]
           /\ mutationFailure' = IF mutationFailure = 0 THEN r ELSE mutationFailure
    <2>1. mutationFailure' = r /\ r # 0 /\ r \in 0..MaxRequests
        BY <1>1, <1>3, RequestBoundAssumption DEF Requests
    <2>2. cause' \in [Requests -> 0..MaxRequests] /\ cause'[r] = r
          /\ \A w \in Requests \ {r} : cause'[w] = cause[w]
        BY <1>3, <2>1 DEF IInv, Shape
    <2> QED BY <1>1, <1>3, <2>1, <2>2, PublishStep
<1> QED BY <1>2, <1>3 DEF FinishCopy

\* An observation is not a write: its outcome concerns its caller only.
LEMMA ObservationStep ==
    ASSUME IInv, NEW r \in Requests, DeliverToObserver(r) \/ FinishObservation(r)
    PROVE  IInv'
<1>1. /\ IsHead(r) /\ kind[r] = "observation" /\ Settled
      /\ cause' = cause /\ mutationFailure' = mutationFailure
    BY DEF DeliverToObserver, FinishObservation, Settled, tensorVars, valueVars, effectVars, Publish
<1>2. cause' \in [Requests -> 0..MaxRequests]
    BY <1>1 DEF IInv, Shape
<1>3. CASE DeliverToObserver(r)
    <2>1. Publish(r, "failure")
        BY <1>3 DEF DeliverToObserver
    <2> QED BY <1>1, <1>2, <2>1, PublishStep
<1>4. CASE FinishObservation(r)
    <2>1. PICK o \in {"success", "failure"} : Publish(r, o)
        BY <1>4 DEF FinishObservation
    <2>2. running
        BY <1>4 DEF FinishObservation
    <2> QED BY <1>1, <1>2, <2>1, <2>2, PublishStep
<1> QED BY <1>3, <1>4

\* The head's generator starts only behind its writer checks.
LEMMA StartStep ==
    ASSUME IInv, NEW r \in Requests, StartCopy(r) \/ StartObservation(r)
    PROVE  IInv'
<1>1. /\ IsHead(r) /\ running' = TRUE /\ Settled
      /\ UNCHANGED <<published, state, cause, mutationFailure>>
      /\ Failed(Needs(r)) = {}
      /\ kind[r] = "copy" => mutationFailure = 0
    BY DEF StartCopy, StartObservation, Settled, tensorVars, valueVars, effectVars, Needs
<1>2. r = published + 1 /\ published < accepted
    BY <1>1, RequestBoundAssumption DEF IsHead, IInv, Shape, Requests
<1>3. \A x \in Requests : Needs(x)' = Needs(x)
    BY <1>1 DEF Settled, Needs
<1>4. Shape'
    BY <1>1 DEF IInv, Shape, Settled, Writers
<1>5. Order'
    BY <1>1 DEF IInv, Order, Sound, Needs, Settled
<1>6. Covering'
    BY <1>1 DEF IInv, Covering, CoveredTensor, Covered, Carried, Needs, Settled
<1>7. Checked'
    <2>1. Failed(Needs(published + 1))' = Failed(Needs(published + 1))
        BY <1>1 DEF Failed, Needs, Settled
    <2>2. Failed(Needs(published + 1)) = {} /\ kind[published + 1] = kind[r]
        BY <1>1, <1>2
    <2>3. accepted' = accepted /\ published' = published /\ kind' = kind
        BY <1>1 DEF Settled
    <2> QED BY <1>1, <1>2, <2>1, <2>2, <2>3 DEF Checked
<1>8. SuccessIsHonest' /\ OneFailure'
    BY <1>1 DEF IInv, SuccessIsHonest, OneFailure, Settled
<1> QED BY <1>4, <1>5, <1>6, <1>7, <1>8 DEF IInv

-----------------------------------------------------------------------------
(* The theorems.                                                           *)

invariantVars == <<accepted, published, created, running, mutationFailure, current, snapshot,
                   controls, lineage, outcomes, kind, captured, prerequisites, history,
                   state, cause>>

\* The invariant reads none of the join, retirement or session state.
LEMMA UnchangedStep ==
    ASSUME IInv, UNCHANGED invariantVars
    PROVE  IInv'
<1>1. Shape' /\ Order' /\ Checked'
    BY DEF IInv, Shape, Order, Sound, Checked, Needs, Failed, Writers, invariantVars
<1>2. Covering'
    BY DEF IInv, Covering, CoveredTensor, Covered, Carried, Needs, invariantVars
<1>3. SuccessIsHonest' /\ OneFailure'
    BY DEF IInv, SuccessIsHonest, OneFailure, invariantVars
<1> QED BY <1>1, <1>2, <1>3 DEF IInv

\* An empty session satisfies the invariant.
LEMMA Initial == Init => IInv
<1> SUFFICES ASSUME Init PROVE IInv
    OBVIOUS
<1> USE RequestBoundAssumption, ValueBoundAssumption
<1>1. Writers = {} /\ created \in 0..MaxValues
    BY DEF Init, Writers
<1>2. Shape
    <2>1. accepted \in 0..MaxRequests /\ published \in 0..accepted /\ mutationFailure \in 0..published
        BY DEF Init
    <2>2. current \in [Tensors -> 0..created] /\ snapshot \in [Tensors -> 0..created]
        BY DEF Init
    <2>3. /\ controls \in [Tensors -> SUBSET Writers] /\ lineage \in [Tensors -> SUBSET Writers]
          /\ outcomes \in [Values -> SUBSET Writers]
          /\ prerequisites \in [Requests -> SUBSET Writers]
          /\ history \in [Requests -> SUBSET Writers]
        BY DEF Init
    <2>4. /\ kind \in [Requests -> {"none", "copy", "observation"}]
          /\ captured \in [Requests -> 0..created]
          /\ state \in [Requests -> {"pending", "success", "failure"}]
          /\ cause \in [Requests -> 0..MaxRequests]
        BY <1>1 DEF Init
    <2>5. running \in BOOLEAN
        BY DEF Init
    <2> QED BY <1>1, <2>1, <2>2, <2>3, <2>4, <2>5 DEF Shape
<1>3. Order
    BY DEF Init, Order, Requests
<1>4. Covering
    BY DEF Init, Covering, CoveredTensor, Covered
<1>5. Checked /\ SuccessIsHonest /\ OneFailure
    BY DEF Init, Checked, SuccessIsHonest, OneFailure
<1> QED BY <1>2, <1>3, <1>4, <1>5 DEF IInv

\* Every operation, head step, retirement and join preserves it.
LEMMA Inductive == IInv /\ [Next]_vars => IInv'
<1> SUFFICES ASSUME IInv, [Next]_vars PROVE IInv'
    OBVIOUS
<1>1. ASSUME NEW dst \in Tensors, NEW src \in Tensors, Write(dst, src) \/ Acquire(dst, src)
      PROVE  IInv'
    BY <1>1, WriteStep, AcquireStep
<1>2. ASSUME NEW dst \in Tensors, NEW left \in Tensors, NEW right \in Tensors,
             Derive(dst, left, right)
      PROVE  IInv'
    BY <1>2, DeriveStep
<1>3. ASSUME NEW t \in Tensors, Observe(t) \/ Release(t)
      PROVE  IInv'
    BY <1>3, ObserveStep, ReleaseStep
<1>4. ASSUME NEW r \in Requests, InheritFailure(r) \/ StartCopy(r) \/ FinishCopy(r)
      PROVE  IInv'
    BY <1>4, InheritFailureStep, StartStep, FinishCopyStep
<1>5. ASSUME NEW r \in Requests,
             DeliverToObserver(r) \/ StartObservation(r) \/ FinishObservation(r)
      PROVE  IInv'
    BY <1>5, ObservationStep, StartStep
<1>6. ASSUME NEW r \in Requests, Retire(r)
      PROVE  IInv'
    <2>1. UNCHANGED invariantVars
        BY <1>6 DEF Retire, invariantVars, tensorVars, requestVars, effectVars
    <2> QED BY <2>1, UnchangedStep
<1>7. ASSUME NEW t \in Tensors, CompleteGradient(t)
      PROVE  IInv'
    <2>1. UNCHANGED invariantVars
        BY <1>7 DEF CompleteGradient, invariantVars, tensorVars, valueVars, requestVars
    <2> QED BY <2>1, UnchangedStep
<1>8. CASE Complete \/ CompleteReturns \/ FinishClose
    <2>1. UNCHANGED invariantVars
        BY <1>8 DEF Complete, CompleteReturns, FinishClose, DeliverAll, invariantVars,
                    tensorVars, valueVars, requestVars, effectVars
    <2> QED BY <2>1, UnchangedStep
<1>9. CASE Close
    BY <1>9, CloseStep
<1>10. CASE UNCHANGED vars
    <2>1. UNCHANGED invariantVars
        BY <1>10 DEF vars, invariantVars, tensorVars, valueVars, requestVars, effectVars
    <2> QED BY <2>1, UnchangedStep
<1> QED BY <1>1, <1>2, <1>3, <1>4, <1>5, <1>6, <1>7, <1>8, <1>9, <1>10 DEF Next

\* The invariant of captures: whatever a content was built from stays covered
\* (captureWriterOutcomes drops completed writes only).
THEOREM InvariantHolds == Spec => []IInv
<1> QED BY Initial, Inductive, PTL DEF Spec

\* A request succeeds only if every write its operands were built from has
\* succeeded (captureWriterOutcomes, failedWriterOutcome, #copyEffect).
THEOREM SuccessIsHonestHolds == Spec => []SuccessIsHonest
<1>1. IInv => SuccessIsHonest
    BY DEF IInv
<1> QED BY <1>1, InvariantHolds, PTL

\* failedWriterOutcome never meets a pending outcome at the head of the queue.
THEOREM CapturedWritersPublishedHolds == Spec => []CapturedWritersPublished
<1>1. IInv => CapturedWritersPublished
    BY HeadFindsResults DEF CapturedWritersPublished
<1> QED BY <1>1, InvariantHolds, PTL

\* One failed write decides every later write of the session (#mutationFailure).
THEOREM OneFailureRulesHolds == Spec => []OneFailureRules
<1>1. IInv => OneFailureRules
    BY DEF IInv, OneFailure, OneFailureRules
<1> QED BY <1>1, InvariantHolds, PTL

-----------------------------------------------------------------------------
(* Joins: who learns of a failure, and what complete() waits for.          *)

UnretiredCopies == {r \in (1..accepted) \ retired : kind[r] = "copy"}

Join ==
    /\ retired \subseteq 1..published
    /\ joined \in 0..accepted
    /\ session = "closed" => published = accepted
    /\ pendingCopies = Cardinality(UnretiredCopies)
    /\ FailureIsReported
    /\ CompleteJoinsEarlierWrites

\* What Join reads; every other step changes none of it.
joinInvariantVars == <<accepted, published, kind, state, effectVars, joinVars, retired, session>>

\* A new request joins neither a running complete() nor a closing session.
LEMMA AcceptKeepsJoin ==
    ASSUME IInv, Join, NEW k, accepted + 1 \in Requests, session = "open",
           accepted' = accepted + 1, kind' = [kind EXCEPT ![accepted + 1] = k],
           pendingCopies' = pendingCopies + One(k = "copy"),
           UNCHANGED <<published, state, effectVars, completion, joined, retired, session>>
    PROVE  Join'
<1> DEFINE r == accepted + 1
<1>1. /\ accepted \in Nat /\ published \in 0..accepted /\ 1..accepted \subseteq Requests
      /\ retired \subseteq 1..accepted /\ r \notin 1..accepted
    BY RequestBoundAssumption DEF IInv, Shape, Join, Requests
<1>2. \A x \in Requests : kind'[x] = IF x = r THEN k ELSE kind[x]
    BY DEF IInv, Shape
<1>3. UnretiredCopies' = UnretiredCopies \cup (IF k = "copy" THEN {r} ELSE {})
    <2>1. 1..accepted' = (1..accepted) \cup {r}
        BY <1>1
    <2> QED BY <1>1, <1>2, <2>1 DEF UnretiredCopies
<1>4. pendingCopies' = Cardinality(UnretiredCopies)'
    <2>1. IsFiniteSet(UnretiredCopies) /\ r \notin UnretiredCopies
        BY <1>1, FS_Interval, FS_Subset DEF UnretiredCopies
    <2>2. Cardinality(UnretiredCopies \cup {r}) = Cardinality(UnretiredCopies) + 1
        BY <2>1, FS_AddElement
    <2>3. CASE k = "copy"
        BY <1>3, <2>2, <2>3 DEF Join, One
    <2>4. CASE k # "copy"
        <3>1. UnretiredCopies' = UnretiredCopies /\ pendingCopies' = pendingCopies + 0
            BY <1>3, <2>4 DEF One
        <3>2. Cardinality(UnretiredCopies) \in Nat
            BY <2>1, FS_CardinalityType
        <3> QED BY <3>1, <3>2 DEF Join
    <2> QED BY <2>3, <2>4
<1>5. FailureIsReported'
    BY DEF Join, FailureIsReported, effectVars
<1>6. CompleteJoinsEarlierWrites'
    BY <1>1, <1>2 DEF Join, CompleteJoinsEarlierWrites
<1>7. joined' \in 0..accepted'
    BY <1>1 DEF Join
<1> QED BY <1>1, <1>4, <1>5, <1>6, <1>7 DEF Join

\* A publication resolves a request and never loses a failure.
LEMMA PublishKeepsJoin ==
    ASSUME IInv, Join, NEW r \in Requests, NEW o \in {"success", "failure"}, IsHead(r),
           Publish(r, o), UNCHANGED <<joinVars, retired, session>>,
           mutationFailure' # 0 => mutationFailure' \in undelivered' \cup reported'
    PROVE  Join'
<1>1. /\ published \in Nat /\ r = published + 1 /\ published' = r /\ published < accepted
      /\ accepted' = accepted /\ kind' = kind
      /\ \A w \in Requests : state'[w] = IF w = r THEN o ELSE state[w]
    BY RequestBoundAssumption DEF IInv, Shape, IsHead, Publish, Requests
<1>2. session' # "closed"
    BY <1>1 DEF Join
<1>3. UnretiredCopies' = UnretiredCopies
    BY <1>1 DEF UnretiredCopies
<1>4. CompleteJoinsEarlierWrites'
    <2>1. completion' = completion /\ joined' = joined
        BY DEF joinVars
    <2>2. \A w \in 1..joined : w \in Requests
        BY <1>1, RequestBoundAssumption DEF Join, IInv, Shape, Requests
    <2> QED BY <1>1, <2>1, <2>2 DEF Join, CompleteJoinsEarlierWrites
<1>5. retired' \subseteq 1..published' /\ joined' \in 0..accepted'
      /\ pendingCopies' = Cardinality(UnretiredCopies)'
    BY <1>1, <1>3 DEF Join, joinVars
<1>6. FailureIsReported'
    BY <1>2 DEF FailureIsReported
<1> QED BY <1>2, <1>4, <1>5, <1>6 DEF Join

\* The last retired copy resolves complete(): by then every copy is published.
LEMMA RetireKeepsJoin ==
    ASSUME IInv, Join, NEW r \in Requests, Retire(r)
    PROVE  Join'
<1>1. /\ published \in Nat /\ accepted \in Nat /\ published <= accepted
      /\ r \in (1..published) \ retired /\ retired' = retired \cup {r}
      /\ UNCHANGED <<joined, accepted, published, kind, state, effectVars, session>>
    BY RequestBoundAssumption DEF IInv, Shape, Retire, requestVars
<1>2. pendingCopies' = Cardinality(UnretiredCopies')
    <2>1. IsFiniteSet(UnretiredCopies)
        <3>1. IsFiniteSet(1..accepted) /\ UnretiredCopies \subseteq 1..accepted
            BY <1>1, FS_Interval DEF UnretiredCopies
        <3> QED BY <3>1, FS_Subset
    <2>2. UnretiredCopies' = UnretiredCopies \ {r}
        BY <1>1 DEF UnretiredCopies
    <2>3. kind[r] = "copy" <=> r \in UnretiredCopies
        BY <1>1 DEF UnretiredCopies
    <2>4. Cardinality(UnretiredCopies \ {r}) =
            IF r \in UnretiredCopies THEN Cardinality(UnretiredCopies) - 1
            ELSE Cardinality(UnretiredCopies)
        BY <2>1, FS_RemoveElement
    <2>5. pendingCopies' = pendingCopies - One(kind[r] = "copy")
        BY DEF Retire
    <2>6. Cardinality(UnretiredCopies) \in Nat
        BY <2>1, FS_CardinalityType
    <2> QED BY <2>2, <2>3, <2>4, <2>5, <2>6 DEF Join, One
<1>3. pendingCopies' = 0 => \A w \in 1..accepted : kind[w] = "copy" => state[w] # "pending"
    <2> SUFFICES ASSUME pendingCopies' = 0, NEW w \in 1..accepted, kind[w] = "copy"
                 PROVE  state[w] # "pending"
        OBVIOUS
    <2>1. UnretiredCopies' = {}
        <3>1. IsFiniteSet(1..accepted) /\ UnretiredCopies' \subseteq 1..accepted
            BY <1>1, FS_Interval DEF UnretiredCopies
        <3>2. IsFiniteSet(UnretiredCopies')
            BY <3>1, FS_Subset
        <3> QED BY <1>2, <3>2, FS_EmptySet
    <2>2. w \in retired'
        BY <1>1, <2>1 DEF UnretiredCopies
    <2>3. w \in 1..published /\ w \in Requests
        BY <1>1, <2>2, RequestBoundAssumption DEF Join, IInv, Shape, Requests
    <2> QED BY <1>1, <2>3 DEF IInv, Order
<1>4. CompleteJoinsEarlierWrites'
    <2>1. completion' = "resolved" => completion = "resolved" \/ pendingCopies' = 0
        BY DEF Retire
    <2> QED BY <1>1, <1>3, <2>1 DEF Join, CompleteJoinsEarlierWrites
<1>5. FailureIsReported'
    BY <1>1 DEF Join, FailureIsReported, effectVars
<1> QED BY <1>1, <1>2, <1>4, <1>5 DEF Join

\* Every step preserves what the joins rely on.
LEMMA JoinInductive == IInv /\ IInv' /\ Join /\ [Next]_vars => Join'
<1> SUFFICES ASSUME IInv, IInv', Join, [Next]_vars PROVE Join'
    OBVIOUS
<1>1. ASSUME UNCHANGED joinInvariantVars
      PROVE  Join'
    BY <1>1 DEF Join, UnretiredCopies, FailureIsReported, CompleteJoinsEarlierWrites,
                joinInvariantVars, effectVars, joinVars
<1>2. ASSUME NEW dst \in Tensors, NEW src \in Tensors, Write(dst, src) \/ Acquire(dst, src)
      PROVE  Join'
    <2>1. /\ accepted + 1 \in Requests /\ session = "open" /\ accepted' = accepted + 1
          /\ kind' = [kind EXCEPT ![accepted + 1] = "copy"]
          /\ pendingCopies' = pendingCopies + One("copy" = "copy")
          /\ UNCHANGED <<published, state, effectVars, completion, joined, retired, session>>
        <3>1. accepted \in Nat
            BY RequestBoundAssumption DEF IInv, Shape
        <3>2. CASE Write(dst, src)
            BY <3>1, <3>2, RequestBoundAssumption DEF Write, Accept, Open, One, Requests
        <3>3. CASE Acquire(dst, src)
            BY <3>1, <3>3, RequestBoundAssumption DEF Acquire, Accept, Open, One, Requests
        <3> QED BY <1>2, <3>2, <3>3
    <2> QED BY <2>1, AcceptKeepsJoin
<1>3. ASSUME NEW t \in Tensors, Observe(t)
      PROVE  Join'
    <2>1. /\ accepted + 1 \in Requests /\ session = "open" /\ accepted' = accepted + 1
          /\ kind' = [kind EXCEPT ![accepted + 1] = "observation"]
          /\ UNCHANGED <<published, state, effectVars, joinVars, retired, session>>
        BY <1>3, RequestBoundAssumption DEF Observe, Accept, Open, IInv, Shape, Requests
    <2>2. pendingCopies' = pendingCopies + One("observation" = "copy")
        <3>1. IsFiniteSet(1..accepted) /\ UnretiredCopies \subseteq 1..accepted
            BY FS_Interval DEF UnretiredCopies, IInv, Shape
        <3>2. pendingCopies \in Nat
            BY <3>1, FS_Subset, FS_CardinalityType DEF Join
        <3> QED BY <2>1, <3>2 DEF joinVars, One
    <2> QED BY <2>1, <2>2, AcceptKeepsJoin DEF joinVars
<1>4. ASSUME NEW dst \in Tensors, NEW left \in Tensors, NEW right \in Tensors,
             Derive(dst, left, right) \/ Release(dst)
      PROVE  Join'
    BY <1>1, <1>4 DEF Derive, Release, joinInvariantVars, requestVars
<1>5. ASSUME NEW r \in Requests, StartCopy(r) \/ StartObservation(r)
      PROVE  Join'
    BY <1>1, <1>5 DEF StartCopy, StartObservation, joinInvariantVars
<1>6. ASSUME NEW r \in Requests, InheritFailure(r)
      PROVE  Join'
    <2>1. /\ IsHead(r) /\ Publish(r, "failure") /\ UNCHANGED <<joinVars, retired, session>>
          /\ mutationFailure' # 0 => mutationFailure' \in undelivered' \cup reported'
        BY <1>6 DEF InheritFailure, Join, FailureIsReported, effectVars
    <2> QED BY <2>1, PublishKeepsJoin
<1>7. ASSUME NEW r \in Requests, FinishCopy(r)
      PROVE  Join'
    <2>1. IsHead(r) /\ UNCHANGED <<joinVars, retired, session>>
        BY <1>7 DEF FinishCopy
    <2>2. CASE Publish(r, "success") /\ UNCHANGED <<cause, effectVars>>
        BY <2>1, <2>2, PublishKeepsJoin DEF Join, FailureIsReported, effectVars
    <2>3. CASE /\ Publish(r, "failure") /\ undelivered' = undelivered \cup {r}
               /\ mutationFailure' = IF mutationFailure = 0 THEN r ELSE mutationFailure
               /\ UNCHANGED reported
        BY <2>1, <2>3, PublishKeepsJoin DEF Join, FailureIsReported
    <2> QED BY <1>7, <2>2, <2>3 DEF FinishCopy
<1>8. ASSUME NEW r \in Requests, DeliverToObserver(r)
      PROVE  Join'
    <2>1. /\ IsHead(r) /\ Publish(r, "failure") /\ UNCHANGED <<joinVars, retired, session>>
          /\ mutationFailure' # 0 => mutationFailure' \in undelivered' \cup reported'
        BY <1>8 DEF DeliverToObserver, Join, FailureIsReported
    <2> QED BY <2>1, PublishKeepsJoin
<1>9. ASSUME NEW r \in Requests, FinishObservation(r)
      PROVE  Join'
    <2>1. PICK o \in {"success", "failure"} : Publish(r, o)
        BY <1>9 DEF FinishObservation
    <2>2. /\ IsHead(r) /\ UNCHANGED <<joinVars, retired, session>>
          /\ mutationFailure' # 0 => mutationFailure' \in undelivered' \cup reported'
        BY <1>9 DEF FinishObservation, Join, FailureIsReported, effectVars
    <2> QED BY <2>1, <2>2, PublishKeepsJoin
<1>10. ASSUME NEW r \in Requests, Retire(r)
       PROVE  Join'
    BY <1>10, RetireKeepsJoin
<1>11. ASSUME NEW t \in Tensors, CompleteGradient(t)
       PROVE  Join'
    <2>1. /\ UNCHANGED <<accepted, published, kind, state, joinVars, mutationFailure, retired, session>>
          /\ undelivered' \subseteq undelivered /\ undelivered \cup reported \subseteq undelivered' \cup reported'
        BY <1>11 DEF CompleteGradient, requestVars
    <2> QED BY <2>1 DEF Join, UnretiredCopies, FailureIsReported, CompleteJoinsEarlierWrites, joinVars
<1>12. CASE Complete \/ CompleteReturns
    <2>1. /\ UNCHANGED <<accepted, published, kind, state, mutationFailure, pendingCopies, retired, session>>
          /\ undelivered' \subseteq undelivered /\ undelivered \cup reported = undelivered' \cup reported'
        BY <1>12 DEF Complete, CompleteReturns, DeliverAll, requestVars, effectVars
    <2>2. joined' \in {joined, accepted, 0} /\ (completion' = "resolved" => UNCHANGED <<completion, joined>>)
        BY <1>12 DEF Complete, CompleteReturns
    <2>3. joined' \in 0..accepted'
        BY <2>1, <2>2 DEF Join, IInv, Shape
    <2>4. UnretiredCopies' = UnretiredCopies
        BY <2>1 DEF UnretiredCopies
    <2>5. FailureIsReported' /\ CompleteJoinsEarlierWrites'
        BY <2>1, <2>2 DEF Join, FailureIsReported, CompleteJoinsEarlierWrites
    <2> QED BY <2>1, <2>3, <2>4, <2>5 DEF Join
<1>13. CASE Close
    <2>1. session' # "closed" /\ UNCHANGED <<requestVars, effectVars, joinVars, retired>>
        BY <1>13 DEF Close
    <2> QED BY <2>1 DEF Join, UnretiredCopies, FailureIsReported, CompleteJoinsEarlierWrites,
                        requestVars, effectVars, joinVars
<1>14. CASE FinishClose
    <2>1. /\ UNCHANGED <<accepted, published, kind, state, mutationFailure, joinVars, retired>>
          /\ undelivered' = {} /\ reported' = reported \cup undelivered /\ retired = 1..accepted
        BY <1>14 DEF FinishClose, DeliverAll, requestVars
    <2>2. published = accepted
        <3>1. accepted \in Nat /\ published \in 0..accepted /\ 1..accepted \subseteq 1..published
            <4>1. accepted \in Nat /\ published \in 0..accepted
                BY RequestBoundAssumption DEF IInv, Shape
            <4>2. 1..accepted \subseteq 1..published
                BY <2>1 DEF Join
            <4> QED BY <4>1, <4>2
        <3>2. CASE accepted = 0
            BY <3>1, <3>2
        <3>3. CASE accepted # 0
            <4>1. accepted \in 1..published
                BY <3>1, <3>3
            <4> QED BY <3>1, <4>1
        <3> QED BY <3>2, <3>3
    <2> QED BY <2>1, <2>2 DEF Join, UnretiredCopies, FailureIsReported, CompleteJoinsEarlierWrites,
                              joinVars
<1>15. CASE UNCHANGED vars
    BY <1>1, <1>15 DEF vars, joinInvariantVars, requestVars
<1> QED BY <1>2, <1>3, <1>4, <1>5, <1>6, <1>7, <1>8, <1>9, <1>10, <1>11, <1>12, <1>13, <1>14, <1>15
        DEF Next

\* Nothing is pending in an empty session.
LEMMA JoinInitial == Init => Join
<1> SUFFICES ASSUME Init PROVE Join
    OBVIOUS
<1>1. UnretiredCopies = {}
    BY DEF Init, UnretiredCopies
<1> QED BY <1>1, FS_EmptySet DEF Init, Join, FailureIsReported, CompleteJoinsEarlierWrites

\* #pendingCopies counts the unretired copy effects exactly, and the joins that
\* read it (complete, #finishClose) deliver what they promise.
THEOREM JoinHolds == Spec => []Join
<1> QED BY JoinInitial, JoinInductive, InvariantHolds, PTL DEF Spec

\* A failed write stays deliverable until some call has rejected with it.
THEOREM FailureIsReportedHolds == Spec => []FailureIsReported
<1>1. Join => FailureIsReported
    BY DEF Join
<1> QED BY <1>1, JoinHolds, PTL

\* complete() resolves only behind every write accepted before it.
THEOREM CompleteJoinsEarlierWritesHolds == Spec => []CompleteJoinsEarlierWrites
<1>1. Join => CompleteJoinsEarlierWrites
    BY DEF Join
<1> QED BY <1>1, JoinHolds, PTL

-----------------------------------------------------------------------------
(* The ledger: how often each writer outcome and each value is held.       *)

Unretired == (1..accepted) \ retired
Viewers(v) == {t \in Tensors : current[t] = v}
Pinners(v) == {r \in Unretired : captured[r] = v}
Same(a, b) == IF a = b THEN 1 ELSE 0
Named(w) == {v \in Values : references[v] > 0 /\ w \in outcomes[v]}
Controlled(w) == {t \in Tensors : w \in controls[t]}
Required(w) == {r \in Unretired : w \in prerequisites[r]}

\* A value is held by the tensors that show it and the requests that captured
\* it, an outcome by the held values, the tensors and the requests that name it.
Ledger ==
    /\ references \in [Values -> Nat] /\ held \in [Requests -> Nat]
    /\ \A t \in Tensors : current[t] = 0 => controls[t] = {}
    /\ \A v \in Values : references[v] = Cardinality(Viewers(v)) + Cardinality(Pinners(v))
    /\ \A w \in Requests :
         held[w] = Cardinality(Named(w)) + Cardinality(Controlled(w)) + Cardinality(Required(w))

\* A set that changes in one element at most changes its size accordingly.
LEMMA CountMoves ==
    ASSUME NEW A, NEW B, NEW e, IsFiniteSet(A), A \ {e} = B \ {e}
    PROVE  /\ IsFiniteSet(B)
           /\ Cardinality(A) \in Nat /\ Cardinality(B) \in Nat
           /\ Cardinality(B) = Cardinality(A) + One(e \in B) - One(e \in A)
<1> DEFINE C == A \ {e}
<1>1. /\ IsFiniteSet(C) /\ Cardinality(A) \in Nat /\ Cardinality(C) \in Nat /\ e \notin C
      /\ Cardinality(C) = IF e \in A THEN Cardinality(A) - 1 ELSE Cardinality(A)
  <2>1. IsFiniteSet(C) /\ Cardinality(C) = IF e \in A THEN Cardinality(A) - 1 ELSE Cardinality(A)
    BY FS_RemoveElement
  <2> QED BY <2>1, FS_CardinalityType
<1>2. B = IF e \in B THEN C \cup {e} ELSE C
    OBVIOUS
<1>3. IsFiniteSet(C \cup {e}) /\ Cardinality(C \cup {e}) = Cardinality(C) + 1
    BY <1>1, FS_AddElement
<1> HIDE DEF C
<1>4. CASE e \in B
  <2>1. One(e \in B) = 1 /\ B = C \cup {e} /\ Cardinality(B) = Cardinality(C) + 1 /\ IsFiniteSet(B)
    BY <1>2, <1>3, <1>4 DEF One
  <2>2. One(e \in A) = IF e \in A THEN 1 ELSE 0
    BY DEF One
  <2> QED BY <1>1, <2>1, <2>2
<1>5. CASE e \notin B
    BY <1>1, <1>2, <1>5 DEF One
<1> QED BY <1>4, <1>5

\* Likewise for two elements.
LEMMA CountMovesTwice ==
    ASSUME NEW A, NEW B, NEW e, NEW f, IsFiniteSet(A), e # f, A \ {e, f} = B \ {e, f}
    PROVE  Cardinality(B) = Cardinality(A) + One(e \in B) - One(e \in A) + One(f \in B) - One(f \in A)
<1> DEFINE C == IF e \in B THEN A \cup {e} ELSE A \ {e}
<1>1. A \ {e} = C \ {e} /\ (e \in C <=> e \in B) /\ C \ {f} = B \ {f} /\ (f \in C <=> f \in A)
    OBVIOUS
<1> HIDE DEF C
<1>2. /\ IsFiniteSet(C) /\ Cardinality(A) \in Nat /\ Cardinality(C) \in Nat
      /\ Cardinality(C) = Cardinality(A) + One(e \in C) - One(e \in A)
    BY <1>1, CountMoves
<1>3. Cardinality(B) = Cardinality(C) + One(f \in B) - One(f \in C)
    BY <1>1, <1>2, CountMoves
<1> QED BY <1>1, <1>2, <1>3 DEF One

\* The same for three elements.
LEMMA CountMovesThrice ==
    ASSUME NEW A, NEW B, NEW e, NEW f, NEW g, IsFiniteSet(A), e # f, e # g, f # g,
           A \ {e, f, g} = B \ {e, f, g}
    PROVE  Cardinality(B) = Cardinality(A) + One(e \in B) - One(e \in A)
                              + One(f \in B) - One(f \in A) + One(g \in B) - One(g \in A)
<1> DEFINE C == IF e \in B THEN A \cup {e} ELSE A \ {e}
<1>1. A \ {e} = C \ {e} /\ (e \in C <=> e \in B) /\ (f \in C <=> f \in A) /\ (g \in C <=> g \in A)
      /\ C \ {f, g} = B \ {f, g}
    OBVIOUS
<1> HIDE DEF C
<1>2. /\ IsFiniteSet(C) /\ Cardinality(A) \in Nat /\ Cardinality(C) \in Nat
      /\ Cardinality(C) = Cardinality(A) + One(e \in C) - One(e \in A)
    BY <1>1, CountMoves
<1>3. Cardinality(B) = Cardinality(C) + One(f \in B) - One(f \in C) + One(g \in B) - One(g \in C)
    BY <1>1, <1>2, CountMovesTwice
<1> QED BY <1>1, <1>2, <1>3 DEF One

\* All the holders are finitely many.
LEMMA HoldersAreFinite ==
    ASSUME IInv, NEW x
    PROVE  /\ IsFiniteSet(Viewers(x)) /\ IsFiniteSet(Pinners(x)) /\ IsFiniteSet(Named(x))
           /\ IsFiniteSet(Controlled(x)) /\ IsFiniteSet(Required(x))
           /\ Cardinality(Viewers(x)) \in Nat /\ Cardinality(Pinners(x)) \in Nat
           /\ Cardinality(Named(x)) \in Nat
           /\ Cardinality(Controlled(x)) \in Nat /\ Cardinality(Required(x)) \in Nat
<1>1. IsFiniteSet(1..accepted) /\ IsFiniteSet(Values) /\ IsFiniteSet(Tensors)
    BY FS_Interval, TensorsAssumption, ValueBoundAssumption DEF IInv, Shape, Values
<1>2. Viewers(x) \in SUBSET Tensors /\ Controlled(x) \in SUBSET Tensors
    BY DEF Viewers, Controlled
<1>3. Pinners(x) \in SUBSET (1..accepted) /\ Required(x) \in SUBSET (1..accepted)
    BY DEF Pinners, Required, Unretired
<1>4. Named(x) \in SUBSET Values
    BY DEF Named
<1>5. /\ IsFiniteSet(Viewers(x)) /\ IsFiniteSet(Pinners(x)) /\ IsFiniteSet(Named(x))
      /\ IsFiniteSet(Controlled(x)) /\ IsFiniteSet(Required(x))
    BY <1>1, <1>2, <1>3, <1>4, FS_Subset
<1> QED BY <1>5, FS_CardinalityType

\* And they stay so.
LEMMA HoldersStayFinite ==
    ASSUME accepted' \in Nat, NEW x
    PROVE  /\ Cardinality(Named(x)') \in Nat
           /\ Cardinality(Controlled(x)') \in Nat /\ Cardinality(Required(x)') \in Nat
<1>1. IsFiniteSet(1..accepted') /\ IsFiniteSet(Values) /\ IsFiniteSet(Tensors)
    BY FS_Interval, TensorsAssumption, ValueBoundAssumption DEF Values
<1>2. Controlled(x)' \in SUBSET Tensors /\ Required(x)' \in SUBSET (1..accepted') /\ Named(x)' \in SUBSET Values
    BY DEF Controlled, Required, Unretired, Named
<1>3. IsFiniteSet(Named(x)') /\ IsFiniteSet(Controlled(x)') /\ IsFiniteSet(Required(x)')
    BY <1>1, <1>2, FS_Subset
<1> QED BY <1>3, FS_CardinalityType

\* A tensor shows another value.
LEMMA ViewersMove ==
    ASSUME IInv, NEW dst \in Tensors, NEW n, NEW x, current' = [current EXCEPT ![dst] = n]
    PROVE  Cardinality(Viewers(x)') = Cardinality(Viewers(x)) + Same(x, n) - Same(x, current[dst])
<1>1. \A t \in Tensors : current'[t] = IF t = dst THEN n ELSE current[t]
    BY DEF IInv, Shape
<1>2. /\ Viewers(x) \ {dst} = Viewers(x)' \ {dst}
      /\ (dst \in Viewers(x)' <=> x = n) /\ (dst \in Viewers(x) <=> x = current[dst])
    BY <1>1 DEF Viewers
<1>3. Cardinality(Viewers(x)') = Cardinality(Viewers(x)) + One(dst \in Viewers(x)') - One(dst \in Viewers(x))
    BY <1>2, HoldersAreFinite, CountMoves
<1> QED BY <1>2, <1>3 DEF One, Same

\* The effects that control a tensor are replaced.
LEMMA ControlledMove ==
    ASSUME IInv, NEW dst \in Tensors, NEW C, NEW w, controls' = [controls EXCEPT ![dst] = C]
    PROVE  Cardinality(Controlled(w)') = Cardinality(Controlled(w)) + One(w \in C) - One(w \in controls[dst])
<1>1. \A t \in Tensors : controls'[t] = IF t = dst THEN C ELSE controls[t]
    BY DEF IInv, Shape
<1>2. /\ Controlled(w) \ {dst} = Controlled(w)' \ {dst}
      /\ (dst \in Controlled(w)' <=> w \in C) /\ (dst \in Controlled(w) <=> w \in controls[dst])
    BY <1>1 DEF Controlled
<1>3. Cardinality(Controlled(w)') = Cardinality(Controlled(w)) + One(dst \in Controlled(w)') - One(dst \in Controlled(w))
    BY <1>2, HoldersAreFinite, CountMoves
<1> QED BY <1>2, <1>3 DEF One

\* A new request pins its value and its prerequisites.
LEMMA RequestPins ==
    ASSUME IInv, Join, NEW k, NEW v, NEW needs, NEW past, NEW x,
           Accept(accepted + 1, k, v, needs, past), UNCHANGED retired
    PROVE  /\ Cardinality(Pinners(x)') = Cardinality(Pinners(x)) + Same(x, v)
           /\ Cardinality(Required(x)') = Cardinality(Required(x)) + One(x \in needs)
<1> DEFINE r == accepted + 1
<1>1. /\ accepted \in Nat /\ r \in Requests /\ r \notin 1..accepted /\ accepted' = r
      /\ retired \subseteq 1..accepted /\ 1..accepted \subseteq Requests
    BY RequestBoundAssumption DEF IInv, Shape, Join, Accept, Requests
<1>2. Unretired' = Unretired \cup {r} /\ r \notin Unretired /\ Unretired \subseteq Requests
  <2>1. 1..accepted' = (1..accepted) \cup {r}
    BY <1>1
  <2> QED BY <1>1, <2>1 DEF Unretired
<1>3. \A y \in Requests : /\ captured'[y] = IF y = r THEN v ELSE captured[y]
                          /\ prerequisites'[y] = IF y = r THEN needs ELSE prerequisites[y]
    BY DEF Accept, IInv, Shape
<1> HIDE DEF r
<1>4. Pinners(x) \ {r} = Pinners(x)' \ {r} /\ (r \in Pinners(x)' <=> x = v) /\ r \notin Pinners(x)
    BY <1>1, <1>2, <1>3 DEF Pinners
<1>5. Required(x) \ {r} = Required(x)' \ {r} /\ (r \in Required(x)' <=> x \in needs) /\ r \notin Required(x)
    BY <1>1, <1>2, <1>3 DEF Required
<1>6. Cardinality(Pinners(x)') = Cardinality(Pinners(x)) + One(r \in Pinners(x)') - One(r \in Pinners(x))
    BY <1>4, HoldersAreFinite, CountMoves
<1>7. Cardinality(Required(x)') = Cardinality(Required(x)) + One(r \in Required(x)') - One(r \in Required(x))
    BY <1>5, HoldersAreFinite, CountMoves
<1>8. Cardinality(Pinners(x)) \in Nat /\ Cardinality(Required(x)) \in Nat
    BY HoldersAreFinite
<1> QED BY <1>4, <1>5, <1>6, <1>7, <1>8 DEF One, Same

\* What an operation adds to and takes from the ledger, outcome by outcome.
LEMMA AccountAt ==
    ASSUME NEW acquired, NEW released, Account(acquired, released), NEW w \in Requests
    PROVE  held'[w] = held[w] + acquired[w] - released[w]
BY DEF Account

\* The terms of an account.
LEMMA OccurrencesAt ==
    ASSUME NEW w \in Requests, NEW S, NEW f, NEW g
    PROVE  /\ Occurrences(S)[w] = One(w \in S) /\ NoOutcomes[w] = 0
           /\ Both(f, g)[w] = f[w] + g[w]
BY DEF Occurrences, NoOutcomes, Both

\* What a tensor shows is held.
LEMMA ShownIsHeld ==
    ASSUME IInv, Ledger, NEW t \in Tensors, current[t] # 0
    PROVE  current[t] \in Values /\ references[current[t]] >= 1
<1>1. current[t] \in Values
    BY ValueBoundAssumption DEF IInv, Shape, Values
<1>2. Viewers(current[t]) # {}
    BY DEF Viewers
<1>3. Cardinality(Viewers(current[t])) # 0
    BY <1>2, HoldersAreFinite, FS_EmptySet
<1>4. references[current[t]] = Cardinality(Viewers(current[t])) + Cardinality(Pinners(current[t]))
    BY <1>1 DEF Ledger
<1> QED BY <1>1, <1>3, <1>4, HoldersAreFinite

\* A value that does not exist yet is held by nobody.
LEMMA UnbornIsUnheld ==
    ASSUME IInv, Ledger, NEW n \in Values, n > created
    PROVE  references[n] = 0 /\ Viewers(n) = {} /\ Pinners(n) = {}
           /\ Cardinality(Viewers(n)) = 0 /\ Cardinality(Pinners(n)) = 0
<1>1. created \in Nat /\ n \in Nat /\ 1..accepted \subseteq Requests
    BY RequestBoundAssumption, ValueBoundAssumption DEF IInv, Shape, Values, Requests
<1>2. Viewers(n) = {}
    BY <1>1 DEF Viewers, IInv, Shape
<1>3. Pinners(n) = {}
    BY <1>1 DEF Pinners, Unretired, IInv, Shape
<1>4. Cardinality(Viewers(n)) = 0 /\ Cardinality(Pinners(n)) = 0
    BY <1>2, <1>3, FS_EmptySet
<1>5. references[n] = Cardinality(Viewers(n)) + Cardinality(Pinners(n))
    BY DEF Ledger
<1> QED BY <1>2, <1>3, <1>4, <1>5

\* The value an operation captures is new or exists, and a held one keeps its
\* outcomes.
LEMMA CapturedIs ==
    ASSUME IInv, Ledger, NEW t \in Tensors, Open(t), NEW v, v = CapturedValue(t), v <= MaxValues
    PROVE  /\ v \in Values /\ v \in 1..(created + 1)
           /\ references[v] > 0 => v <= created /\ CapturedOutcomes(t) = outcomes[v]
           /\ v = created + 1 => references[v] = 0
           /\ (v = created + 1 \/ references[v] = 0) = (references[v] = 0)
<1>1. created \in Nat /\ current[t] \in 1..created /\ snapshot[t] \in 0..created /\ MaxValues \in Nat
    BY ValueBoundAssumption DEF IInv, Shape, Open
<1>2. v \in 1..(created + 1)
    BY <1>1 DEF CapturedValue
<1>3. v \in Values
    BY <1>1, <1>2 DEF Values
<1>4. v = created + 1 => references[v] = 0
    BY <1>1, <1>3, UnbornIsUnheld
<1>5. references[v] > 0 => v # created + 1 /\ references[v] # 0
    BY <1>4
<1>6. CapturedOutcomes(t) = IF v = created + 1 THEN Capture(Carried(t))
                            ELSE IF references[v] = 0 THEN Capture(outcomes[v]) ELSE outcomes[v]
    BY DEF CapturedOutcomes
<1> QED BY <1>1, <1>2, <1>3, <1>4, <1>5, <1>6

\* A write installs a new value, drops the old one and pins the source's.
LEMMA WriteBalances ==
    ASSUME IInv, Join, Ledger, NEW dst \in Tensors, NEW src \in Tensors, Write(dst, src)
    PROVE  Ledger'
<1>1. PICK r, v, n, old, needs, gained :
        /\ r = accepted + 1 /\ v = CapturedValue(src) /\ old = current[dst]
        /\ n = created + (IF v = created + 1 THEN 2 ELSE 1)
        /\ needs = Capture(outcomes[old] \cup controls[dst] \cup Carried(src))
        /\ gained = CapturedOutcomes(src)
    OBVIOUS
<1>2. /\ Open(dst) /\ Open(src) /\ n <= MaxValues
      /\ Accept(r, "copy", v, needs, lineage[dst] \cup lineage[src])
      /\ outcomes' = [outcomes EXCEPT ![v] = gained, ![n] = {r}]
      /\ references' = [x \in Values |-> IF x = n THEN 1
                                         ELSE references[x] + One(x = v) - One(x = old)]
      /\ current' = [current EXCEPT ![dst] = n]
      /\ controls' = [controls EXCEPT ![dst] = {}]
      /\ Account(Both(Occurrences({r}), Both(Occurrences(needs),
                      IF v = created + 1 \/ references[v] = 0 THEN Occurrences(gained) ELSE NoOutcomes)),
                 Both(Occurrences(controls[dst]), IF v = old THEN NoOutcomes ELSE Dropped(old)))
      /\ UNCHANGED retired
    BY <1>1 DEF Write
<1>3. /\ created \in Nat /\ n \in Values /\ n > created /\ n # v /\ n # old /\ v <= MaxValues
      /\ current[dst] # 0 /\ MaxValues \in Nat
  <2>1. created \in Nat /\ old \in 1..created /\ MaxValues \in Nat
    BY <1>1, <1>2, ValueBoundAssumption DEF IInv, Shape, Open
  <2>2. CapturedValue(src) \in 1..(created + 1)
    BY <1>2, <2>1 DEF IInv, Shape, Open, CapturedValue
  <2> QED BY <1>1, <1>2, <2>1, <2>2 DEF Values, Open
<1>4. /\ v \in Values /\ (references[v] > 0 => gained = outcomes[v])
      /\ (v = created + 1 \/ references[v] = 0) = (references[v] = 0)
    BY <1>1, <1>2, <1>3, CapturedIs
<1>5. old \in Values /\ references[old] >= 1 /\ old # 0
    BY <1>1, <1>3, ShownIsHeld
<1>6. references[n] = 0 /\ Cardinality(Viewers(n)) = 0 /\ Cardinality(Pinners(n)) = 0
    BY <1>3, UnbornIsUnheld
<1>7. references \in [Values -> Nat] /\ held \in [Requests -> Nat] /\ outcomes \in [Values -> SUBSET Writers]
    BY DEF Ledger, IInv, Shape
<1>8. \A x \in Values : references'[x] = IF x = n THEN 1 ELSE references[x] + One(x = v) - One(x = old)
    BY <1>2
<1>9. \A x \in Values : outcomes'[x] = IF x = n THEN {r} ELSE IF x = v THEN gained ELSE outcomes[x]
    BY <1>2, <1>3, <1>7
<1>10. references' \in [Values -> Nat]
  <2>1. \A x \in Values : references'[x] \in Nat
    BY <1>5, <1>7, <1>8 DEF One
  <2> QED BY <1>2, <2>1
<1>a. Accept(accepted + 1, "copy", v, needs, lineage[dst] \cup lineage[src]) /\ accepted' \in Nat /\ UNCHANGED retired
    BY <1>1, <1>2 DEF Accept, IInv, Shape
<1>11. ASSUME NEW x \in Values
       PROVE  references'[x] = Cardinality(Viewers(x)') + Cardinality(Pinners(x)')
  <2>1. references[x] = Cardinality(Viewers(x)) + Cardinality(Pinners(x))
    BY DEF Ledger
  <2>2. Cardinality(Viewers(x)') = Cardinality(Viewers(x)) + Same(x, n) - Same(x, old)
    <3>1. Cardinality(Viewers(x)') = Cardinality(Viewers(x)) + Same(x, n) - Same(x, current[dst])
        BY <1>2, ViewersMove
    <3> QED BY <1>1, <3>1
  <2>3. Cardinality(Pinners(x)') = Cardinality(Pinners(x)) + Same(x, v)
    BY <1>a, RequestPins
  <2> QED BY <1>3, <1>6, <1>8, <2>1, <2>2, <2>3, HoldersAreFinite DEF One, Same
<1>12. ASSUME NEW w \in Requests
       PROVE  /\ held'[w] = Cardinality(Named(w)') + Cardinality(Controlled(w)') + Cardinality(Required(w)')
              /\ held'[w] \in Nat
  <2>1. held[w] = Cardinality(Named(w)) + Cardinality(Controlled(w)) + Cardinality(Required(w))
    BY DEF Ledger
  <2>2. Cardinality(Controlled(w)') = Cardinality(Controlled(w)) + One(w \in {}) - One(w \in controls[dst])
    BY <1>2, ControlledMove
  <2>3. Cardinality(Required(w)') = Cardinality(Required(w)) + One(w \in needs)
    BY <1>a, RequestPins
  <2>4. held'[w] = held[w] + (One(w \in {r}) + (One(w \in needs)
                                + (IF references[v] = 0 THEN One(w \in gained) ELSE 0)))
                   - (One(w \in controls[dst])
                       + (IF v # old /\ references[old] = 1 THEN One(w \in outcomes[old]) ELSE 0))
    BY <1>2, <1>4, AccountAt, OccurrencesAt DEF Dropped
  <2>5. n \notin Named(w) /\ (n \in Named(w)' <=> w \in {r})
    BY <1>3, <1>6, <1>8, <1>9 DEF Named
  <2>6. \A x \in Values \ {n, v, old} : x \in Named(w)' <=> x \in Named(w)
    BY <1>7, <1>8, <1>9 DEF Named, One
  <2>7. Named(w) \subseteq Values /\ Named(w)' \subseteq Values
    BY DEF Named
  <2>8. Cardinality(Named(w)') = Cardinality(Named(w)) + One(w \in {r})
          + (IF references[v] = 0 THEN One(w \in gained) ELSE 0)
          - (IF v # old /\ references[old] = 1 THEN One(w \in outcomes[old]) ELSE 0)
    <3>1. CASE v = old
      <4>1. references[v] # 0 /\ (v \in Named(w)' <=> v \in Named(w))
        BY <1>3, <1>4, <1>5, <1>7, <1>8, <1>9, <3>1 DEF Named, One
      <4>2. Named(w) \ {n} = Named(w)' \ {n}
        BY <2>6, <2>7, <3>1, <4>1
      <4>3. Cardinality(Named(w)') = Cardinality(Named(w)) + One(n \in Named(w)') - One(n \in Named(w))
        BY <4>2, HoldersAreFinite, CountMoves
      <4> QED BY <2>5, <3>1, <4>1, <4>3, HoldersAreFinite DEF One
    <3>2. CASE v # old
      <4>1. Named(w) \ {n, v, old} = Named(w)' \ {n, v, old}
        BY <2>6, <2>7
      <4>2. Cardinality(Named(w)') = Cardinality(Named(w)) + One(n \in Named(w)') - One(n \in Named(w))
              + One(v \in Named(w)') - One(v \in Named(w)) + One(old \in Named(w)') - One(old \in Named(w))
        BY <1>3, <3>2, <4>1, HoldersAreFinite, CountMovesThrice
      <4>3. (v \in Named(w)' <=> w \in gained) /\ (v \in Named(w) <=> references[v] # 0 /\ w \in gained)
        BY <1>3, <1>4, <1>7, <1>8, <1>9, <3>2 DEF Named, One
      <4>4. (old \in Named(w)' <=> references[old] # 1 /\ w \in outcomes[old]) /\ (old \in Named(w) <=> w \in outcomes[old])
        BY <1>3, <1>5, <1>7, <1>8, <1>9, <3>2 DEF Named, One
      <4>5. /\ One(n \in Named(w)') = One(w \in {r}) /\ One(n \in Named(w)) = 0
            /\ One(v \in Named(w)') - One(v \in Named(w)) = IF references[v] = 0 THEN One(w \in gained) ELSE 0
            /\ One(old \in Named(w)) - One(old \in Named(w)') = IF references[old] = 1 THEN One(w \in outcomes[old]) ELSE 0
        BY <2>5, <4>3, <4>4 DEF One
      <4> QED BY <3>2, <4>2, <4>5, HoldersAreFinite DEF One
    <3> QED BY <3>1, <3>2
  <2>9. held'[w] = Cardinality(Named(w)') + Cardinality(Controlled(w)') + Cardinality(Required(w)')
    BY <2>1, <2>2, <2>3, <2>4, <2>8, HoldersAreFinite DEF One
  <2>10. Cardinality(Named(w)') \in Nat /\ Cardinality(Controlled(w)') \in Nat /\ Cardinality(Required(w)') \in Nat
    BY <1>a, HoldersStayFinite
  <2> QED BY <2>9, <2>10
<1>13. held' \in [Requests -> Nat]
    BY <1>2, <1>12 DEF Account
<1>14. \A t \in Tensors : current'[t] = 0 => controls'[t] = {}
    BY <1>2, <1>3 DEF Ledger, IInv, Shape, Values
<1> QED BY <1>10, <1>11, <1>12, <1>13, <1>14 DEF Ledger

\* A derived tensor shows a value of its own.
LEMMA DeriveBalances ==
    ASSUME IInv, Join, Ledger, NEW dst \in Tensors, NEW left \in Tensors, NEW right \in Tensors,
           Derive(dst, left, right)
    PROVE  Ledger'
<1>1. PICK n, carried : n = created + 1 /\ carried = Capture(Carried(left) \cup Carried(right))
    OBVIOUS
<1>2. /\ current[dst] = 0 /\ n <= MaxValues
      /\ outcomes' = [outcomes EXCEPT ![n] = carried]
      /\ references' = [references EXCEPT ![n] = 1]
      /\ current' = [current EXCEPT ![dst] = n]
      /\ Account(Occurrences(carried), NoOutcomes)
      /\ UNCHANGED <<controls, accepted, captured, prerequisites, retired>>
    BY <1>1 DEF Derive, requestVars
<1>3. created \in Nat /\ n \in Values /\ n > created /\ n # 0
    BY <1>1, <1>2, ValueBoundAssumption DEF IInv, Shape, Values
<1>4. references[n] = 0 /\ Cardinality(Viewers(n)) = 0 /\ Cardinality(Pinners(n)) = 0
    BY <1>3, UnbornIsUnheld
<1>5. references \in [Values -> Nat] /\ held \in [Requests -> Nat] /\ outcomes \in [Values -> SUBSET Writers]
    BY DEF Ledger, IInv, Shape
<1>6. /\ \A x \in Values : references'[x] = IF x = n THEN 1 ELSE references[x]
      /\ \A x \in Values : outcomes'[x] = IF x = n THEN carried ELSE outcomes[x]
      /\ references' \in [Values -> Nat]
    BY <1>2, <1>5
<1>7. ASSUME NEW x \in Values
      PROVE  references'[x] = Cardinality(Viewers(x)') + Cardinality(Pinners(x)')
  <2>1. references[x] = Cardinality(Viewers(x)) + Cardinality(Pinners(x))
    BY DEF Ledger
  <2>2. Cardinality(Viewers(x)') = Cardinality(Viewers(x)) + Same(x, n) - Same(x, current[dst])
    BY <1>2, ViewersMove
  <2>3. Pinners(x)' = Pinners(x)
    BY <1>2 DEF Pinners, Unretired
  <2>4. Same(x, current[dst]) = 0
    BY <1>2, ValueBoundAssumption DEF Same, Values
  <2> QED BY <1>4, <1>6, <2>1, <2>2, <2>3, <2>4, HoldersAreFinite DEF Same
<1>8. ASSUME NEW w \in Requests
      PROVE  /\ held'[w] = Cardinality(Named(w)') + Cardinality(Controlled(w)') + Cardinality(Required(w)')
             /\ held'[w] \in Nat
  <2>1. held[w] = Cardinality(Named(w)) + Cardinality(Controlled(w)) + Cardinality(Required(w))
    BY DEF Ledger
  <2>2. Controlled(w)' = Controlled(w) /\ Required(w)' = Required(w)
    BY <1>2 DEF Controlled, Required, Unretired
  <2>3. held'[w] = held[w] + One(w \in carried) - 0
    BY <1>2, AccountAt, OccurrencesAt
  <2>4. n \notin Named(w) /\ (n \in Named(w)' <=> w \in carried) /\ Named(w) \ {n} = Named(w)' \ {n}
    BY <1>3, <1>4, <1>6 DEF Named
  <2>5. Cardinality(Named(w)') = Cardinality(Named(w)) + One(n \in Named(w)') - One(n \in Named(w))
    BY <2>4, HoldersAreFinite, CountMoves
  <2>6. Cardinality(Named(w)') = Cardinality(Named(w)) + One(w \in carried)
    BY <2>4, <2>5, HoldersAreFinite DEF One
  <2> QED BY <2>1, <2>2, <2>3, <2>6, HoldersAreFinite DEF One
<1>9. held' \in [Requests -> Nat]
    BY <1>2, <1>8 DEF Account
<1>10. \A t \in Tensors : current'[t] = 0 => controls'[t] = {}
    BY <1>2, <1>3 DEF Ledger, IInv, Shape
<1> QED BY <1>6, <1>7, <1>8, <1>9, <1>10 DEF Ledger

\* An acquired gradient shows the value its effect pins.
LEMMA AcquireBalances ==
    ASSUME IInv, Join, Ledger, NEW dst \in Tensors, NEW src \in Tensors, Acquire(dst, src)
    PROVE  Ledger'
<1>1. PICK n, r, carried : n = created + 1 /\ r = accepted + 1 /\ carried = Capture(Carried(src))
    OBVIOUS
<1>2. /\ current[dst] = 0 /\ n <= MaxValues
      /\ Accept(r, "copy", n, carried, lineage[src])
      /\ outcomes' = [outcomes EXCEPT ![n] = carried]
      /\ references' = [references EXCEPT ![n] = 2]
      /\ current' = [current EXCEPT ![dst] = n]
      /\ controls' = [controls EXCEPT ![dst] = {r}]
      /\ Account(Both(Occurrences({r}), Both(Occurrences(carried), Occurrences(carried))), NoOutcomes)
      /\ UNCHANGED retired
    BY <1>1 DEF Acquire
<1>3. created \in Nat /\ n \in Values /\ n > created /\ n # 0
    BY <1>1, <1>2, ValueBoundAssumption DEF IInv, Shape, Values
<1>4. references[n] = 0 /\ Cardinality(Viewers(n)) = 0 /\ Cardinality(Pinners(n)) = 0 /\ controls[dst] = {}
    BY <1>2, <1>3, UnbornIsUnheld DEF Ledger
<1>5. references \in [Values -> Nat] /\ held \in [Requests -> Nat] /\ outcomes \in [Values -> SUBSET Writers]
    BY DEF Ledger, IInv, Shape
<1>6. /\ \A x \in Values : references'[x] = IF x = n THEN 2 ELSE references[x]
      /\ \A x \in Values : outcomes'[x] = IF x = n THEN carried ELSE outcomes[x]
      /\ references' \in [Values -> Nat]
    BY <1>2, <1>5
<1>a. Accept(accepted + 1, "copy", n, carried, lineage[src]) /\ accepted' \in Nat /\ UNCHANGED retired
    BY <1>1, <1>2 DEF Accept, IInv, Shape
<1>7. ASSUME NEW x \in Values
      PROVE  references'[x] = Cardinality(Viewers(x)') + Cardinality(Pinners(x)')
  <2>1. references[x] = Cardinality(Viewers(x)) + Cardinality(Pinners(x))
    BY DEF Ledger
  <2>2. Cardinality(Viewers(x)') = Cardinality(Viewers(x)) + Same(x, n) - Same(x, current[dst])
    BY <1>2, ViewersMove
  <2>3. Cardinality(Pinners(x)') = Cardinality(Pinners(x)) + Same(x, n)
    BY <1>a, RequestPins
  <2>4. Same(x, current[dst]) = 0
    BY <1>2, ValueBoundAssumption DEF Same, Values
  <2> QED BY <1>4, <1>6, <2>1, <2>2, <2>3, <2>4, HoldersAreFinite DEF Same
<1>8. ASSUME NEW w \in Requests
      PROVE  /\ held'[w] = Cardinality(Named(w)') + Cardinality(Controlled(w)') + Cardinality(Required(w)')
             /\ held'[w] \in Nat
  <2>1. held[w] = Cardinality(Named(w)) + Cardinality(Controlled(w)) + Cardinality(Required(w))
    BY DEF Ledger
  <2>2. Cardinality(Controlled(w)') = Cardinality(Controlled(w)) + One(w \in {r}) - One(w \in controls[dst])
    BY <1>2, ControlledMove
  <2>7. One(w \in controls[dst]) = 0
    BY <1>4 DEF One
  <2>8. Cardinality(Required(w)') = Cardinality(Required(w)) + One(w \in carried)
    BY <1>a, RequestPins
  <2>3. held'[w] = held[w] + (One(w \in {r}) + (One(w \in carried) + One(w \in carried))) - 0
    BY <1>2, AccountAt, OccurrencesAt
  <2>4. n \notin Named(w) /\ (n \in Named(w)' <=> w \in carried) /\ Named(w) \ {n} = Named(w)' \ {n}
    BY <1>3, <1>4, <1>6 DEF Named
  <2>5. Cardinality(Named(w)') = Cardinality(Named(w)) + One(n \in Named(w)') - One(n \in Named(w))
    BY <2>4, HoldersAreFinite, CountMoves
  <2>6. Cardinality(Named(w)') = Cardinality(Named(w)) + One(w \in carried)
    BY <2>4, <2>5, HoldersAreFinite DEF One
  <2> QED BY <2>1, <2>2, <2>3, <2>6, <2>7, <2>8, HoldersAreFinite DEF One
<1>9. held' \in [Requests -> Nat]
    BY <1>2, <1>8 DEF Account
<1>10. \A t \in Tensors : current'[t] = 0 => controls'[t] = {}
    BY <1>2, <1>3 DEF Ledger, IInv, Shape
<1> QED BY <1>6, <1>7, <1>8, <1>9, <1>10 DEF Ledger

\* An observation pins the value it captured, and retains what that names unless
\* somebody holds it already.
LEMMA ObserveBalances ==
    ASSUME IInv, Join, Ledger, NEW t \in Tensors, Observe(t)
    PROVE  Ledger'
<1>1. PICK v, gained : v = CapturedValue(t) /\ gained = CapturedOutcomes(t)
    OBVIOUS
<1>2. /\ Open(t) /\ v <= MaxValues
      /\ Accept(accepted + 1, "observation", v, {}, lineage[t])
      /\ outcomes' = [outcomes EXCEPT ![v] = gained]
      /\ references' = [references EXCEPT ![v] = @ + 1]
      /\ Account(IF references[v] = 0 THEN Occurrences(gained) ELSE NoOutcomes, NoOutcomes)
      /\ UNCHANGED <<current, controls, retired>>
    BY <1>1 DEF Observe
<1>3. v \in Values /\ (references[v] > 0 => gained = outcomes[v])
    BY <1>1, <1>2, CapturedIs
<1>5. references \in [Values -> Nat] /\ held \in [Requests -> Nat] /\ outcomes \in [Values -> SUBSET Writers]
    BY DEF Ledger, IInv, Shape
<1>6. /\ \A x \in Values : references'[x] = IF x = v THEN references[x] + 1 ELSE references[x]
      /\ \A x \in Values : outcomes'[x] = IF x = v THEN gained ELSE outcomes[x]
      /\ references' \in [Values -> Nat]
    BY <1>2, <1>3, <1>5
<1>a. Accept(accepted + 1, "observation", v, {}, lineage[t]) /\ accepted' \in Nat /\ UNCHANGED retired
    BY <1>2 DEF Accept, IInv, Shape
<1>7. ASSUME NEW x \in Values
      PROVE  references'[x] = Cardinality(Viewers(x)') + Cardinality(Pinners(x)')
  <2>1. references[x] = Cardinality(Viewers(x)) + Cardinality(Pinners(x))
    BY DEF Ledger
  <2>2. Viewers(x)' = Viewers(x)
    BY <1>2 DEF Viewers
  <2>3. Cardinality(Pinners(x)') = Cardinality(Pinners(x)) + Same(x, v)
    BY <1>a, RequestPins
  <2> QED BY <1>6, <2>1, <2>2, <2>3, HoldersAreFinite DEF Same
<1>8. ASSUME NEW w \in Requests
      PROVE  /\ held'[w] = Cardinality(Named(w)') + Cardinality(Controlled(w)') + Cardinality(Required(w)')
             /\ held'[w] \in Nat
  <2>1. held[w] = Cardinality(Named(w)) + Cardinality(Controlled(w)) + Cardinality(Required(w))
    BY DEF Ledger
  <2>2. Controlled(w)' = Controlled(w)
    BY <1>2 DEF Controlled
  <2>8. Cardinality(Required(w)') = Cardinality(Required(w)) + One(w \in {})
    BY <1>a, RequestPins
  <2>3. held'[w] = held[w] + (IF references[v] = 0 THEN One(w \in gained) ELSE 0) - 0
    BY <1>2, AccountAt, OccurrencesAt
  <2>4. /\ (v \in Named(w) <=> references[v] # 0 /\ w \in gained) /\ (v \in Named(w)' <=> w \in gained)
        /\ Named(w) \ {v} = Named(w)' \ {v}
    BY <1>3, <1>5, <1>6 DEF Named
  <2>5. Cardinality(Named(w)') = Cardinality(Named(w)) + One(v \in Named(w)') - One(v \in Named(w))
    BY <2>4, HoldersAreFinite, CountMoves
  <2>6. Cardinality(Named(w)') = Cardinality(Named(w)) + IF references[v] = 0 THEN One(w \in gained) ELSE 0
    BY <2>4, <2>5, HoldersAreFinite DEF One
  <2> QED BY <2>1, <2>2, <2>3, <2>6, <2>8, HoldersAreFinite DEF One
<1>9. held' \in [Requests -> Nat]
    BY <1>2, <1>8 DEF Account
<1>10. \A u \in Tensors : current'[u] = 0 => controls'[u] = {}
    BY <1>2 DEF Ledger
<1> QED BY <1>6, <1>7, <1>8, <1>9, <1>10 DEF Ledger

\* A released tensor gives up its value and its controls.
LEMMA ReleaseBalances ==
    ASSUME IInv, Join, Ledger, NEW t \in Tensors, Release(t)
    PROVE  Ledger'
<1>1. PICK v : v = current[t]
    OBVIOUS
<1>2. /\ v # 0
      /\ current' = [current EXCEPT ![t] = 0]
      /\ controls' = [controls EXCEPT ![t] = {}]
      /\ references' = [references EXCEPT ![v] = @ - 1]
      /\ Account(NoOutcomes, Both(Occurrences(controls[t]), Dropped(v)))
      /\ UNCHANGED <<outcomes, accepted, captured, prerequisites, retired>>
    BY <1>1 DEF Release, Open, requestVars
<1>3. v \in Values /\ references[v] >= 1
    BY <1>1, <1>2, ShownIsHeld
<1>5. references \in [Values -> Nat] /\ held \in [Requests -> Nat]
    BY DEF Ledger
<1>6. /\ \A x \in Values : references'[x] = IF x = v THEN references[x] - 1 ELSE references[x]
      /\ references' \in [Values -> Nat]
    BY <1>2, <1>3, <1>5
<1>7. ASSUME NEW x \in Values
      PROVE  references'[x] = Cardinality(Viewers(x)') + Cardinality(Pinners(x)')
  <2>1. references[x] = Cardinality(Viewers(x)) + Cardinality(Pinners(x))
    BY DEF Ledger
  <2>2. Cardinality(Viewers(x)') = Cardinality(Viewers(x)) + Same(x, 0) - Same(x, current[t])
    BY <1>2, ViewersMove
  <2>3. Pinners(x)' = Pinners(x)
    BY <1>2 DEF Pinners, Unretired
  <2>4. Same(x, 0) = 0 /\ Same(x, current[t]) = Same(x, v)
    BY <1>1, ValueBoundAssumption DEF Same, Values
  <2> QED BY <1>6, <2>1, <2>2, <2>3, <2>4, HoldersAreFinite DEF Same
<1>8. ASSUME NEW w \in Requests
      PROVE  /\ held'[w] = Cardinality(Named(w)') + Cardinality(Controlled(w)') + Cardinality(Required(w)')
             /\ held'[w] \in Nat
  <2>1. held[w] = Cardinality(Named(w)) + Cardinality(Controlled(w)) + Cardinality(Required(w))
    BY DEF Ledger
  <2>2. Cardinality(Controlled(w)') = Cardinality(Controlled(w)) + One(w \in {}) - One(w \in controls[t])
    BY <1>2, ControlledMove
  <2>7. Required(w)' = Required(w)
    BY <1>2 DEF Required, Unretired
  <2>3. held'[w] = held[w] + 0
                   - (One(w \in controls[t]) + (IF references[v] = 1 THEN One(w \in outcomes[v]) ELSE 0))
    BY <1>2, AccountAt, OccurrencesAt DEF Dropped
  <2>4. /\ (v \in Named(w) <=> w \in outcomes[v]) /\ (v \in Named(w)' <=> references[v] # 1 /\ w \in outcomes[v])
        /\ Named(w) \ {v} = Named(w)' \ {v}
    BY <1>2, <1>3, <1>5, <1>6 DEF Named
  <2>5. Cardinality(Named(w)') = Cardinality(Named(w)) + One(v \in Named(w)') - One(v \in Named(w))
    BY <2>4, HoldersAreFinite, CountMoves
  <2>6. Cardinality(Named(w)') = Cardinality(Named(w)) - IF references[v] = 1 THEN One(w \in outcomes[v]) ELSE 0
    BY <2>4, <2>5, HoldersAreFinite DEF One
  <2>8. accepted' \in Nat
    BY <1>2 DEF IInv, Shape
  <2>9. held'[w] = Cardinality(Named(w)') + Cardinality(Controlled(w)') + Cardinality(Required(w)')
    BY <2>1, <2>2, <2>3, <2>6, <2>7, HoldersAreFinite DEF One
  <2> QED BY <2>8, <2>9, HoldersStayFinite
<1>9. held' \in [Requests -> Nat]
    BY <1>2, <1>8 DEF Account
<1>10. \A u \in Tensors : current'[u] = 0 => controls'[u] = {}
    BY <1>2 DEF Ledger, IInv, Shape
<1> QED BY <1>6, <1>7, <1>8, <1>9, <1>10 DEF Ledger

\* A retired request gives up its pin and its prerequisites.
LEMMA RetireBalances ==
    ASSUME IInv, Join, Ledger, NEW r \in Requests, Retire(r)
    PROVE  Ledger'
<1>1. PICK v : v = captured[r]
    OBVIOUS
<1>2. /\ r \in (1..published) \ retired /\ retired' = retired \cup {r}
      /\ references' = [references EXCEPT ![v] = @ - 1]
      /\ Account(NoOutcomes, Both(Occurrences(prerequisites[r]), Dropped(v)))
      /\ UNCHANGED <<outcomes, accepted, captured, prerequisites, current, controls>>
    BY <1>1 DEF Retire, requestVars, tensorVars
<1>3. r \in 1..accepted /\ r \in Unretired /\ v \in Values
    BY <1>1, <1>2, ValueBoundAssumption DEF IInv, Shape, Order, Sound, Unretired, Values
<1>4. references[v] >= 1
  <2>1. Pinners(v) # {}
    BY <1>1, <1>3 DEF Pinners
  <2>2. Cardinality(Pinners(v)) # 0
    BY <2>1, HoldersAreFinite, FS_EmptySet
  <2>3. references[v] = Cardinality(Viewers(v)) + Cardinality(Pinners(v))
    BY <1>3 DEF Ledger
  <2> QED BY <2>2, <2>3, HoldersAreFinite
<1>5. references \in [Values -> Nat] /\ held \in [Requests -> Nat]
    BY DEF Ledger
<1>6. /\ \A x \in Values : references'[x] = IF x = v THEN references[x] - 1 ELSE references[x]
      /\ references' \in [Values -> Nat]
    BY <1>2, <1>3, <1>4, <1>5
<1>11. Unretired' = Unretired \ {r}
    BY <1>2 DEF Unretired
<1>7. ASSUME NEW x \in Values
      PROVE  references'[x] = Cardinality(Viewers(x)') + Cardinality(Pinners(x)')
  <2>1. references[x] = Cardinality(Viewers(x)) + Cardinality(Pinners(x))
    BY DEF Ledger
  <2>2. Viewers(x)' = Viewers(x)
    BY <1>2 DEF Viewers
  <2>3. Pinners(x) \ {r} = Pinners(x)' \ {r} /\ r \notin Pinners(x)' /\ (r \in Pinners(x) <=> x = v)
    BY <1>1, <1>2, <1>3, <1>11 DEF Pinners
  <2>4. Cardinality(Pinners(x)') = Cardinality(Pinners(x)) + One(r \in Pinners(x)') - One(r \in Pinners(x))
    BY <2>3, HoldersAreFinite, CountMoves
  <2> QED BY <1>6, <2>1, <2>2, <2>3, <2>4, HoldersAreFinite DEF One
<1>8. ASSUME NEW w \in Requests
      PROVE  /\ held'[w] = Cardinality(Named(w)') + Cardinality(Controlled(w)') + Cardinality(Required(w)')
             /\ held'[w] \in Nat
  <2>1. held[w] = Cardinality(Named(w)) + Cardinality(Controlled(w)) + Cardinality(Required(w))
    BY DEF Ledger
  <2>2. Controlled(w)' = Controlled(w)
    BY <1>2 DEF Controlled
  <2>3. held'[w] = held[w] + 0
                   - (One(w \in prerequisites[r]) + (IF references[v] = 1 THEN One(w \in outcomes[v]) ELSE 0))
    BY <1>2, AccountAt, OccurrencesAt DEF Dropped
  <2>4. /\ (v \in Named(w) <=> w \in outcomes[v]) /\ (v \in Named(w)' <=> references[v] # 1 /\ w \in outcomes[v])
        /\ Named(w) \ {v} = Named(w)' \ {v}
    BY <1>2, <1>3, <1>4, <1>5, <1>6 DEF Named
  <2>5. Cardinality(Named(w)') = Cardinality(Named(w)) + One(v \in Named(w)') - One(v \in Named(w))
    BY <2>4, HoldersAreFinite, CountMoves
  <2>6. Cardinality(Named(w)') = Cardinality(Named(w)) - IF references[v] = 1 THEN One(w \in outcomes[v]) ELSE 0
    BY <2>4, <2>5, HoldersAreFinite DEF One
  <2>7. /\ Required(w) \ {r} = Required(w)' \ {r} /\ r \notin Required(w)'
        /\ (r \in Required(w) <=> w \in prerequisites[r])
    BY <1>2, <1>3, <1>11 DEF Required
  <2>8. Cardinality(Required(w)') = Cardinality(Required(w)) + One(r \in Required(w)') - One(r \in Required(w))
    BY <2>7, HoldersAreFinite, CountMoves
  <2>9. Cardinality(Required(w)') = Cardinality(Required(w)) - One(w \in prerequisites[r])
    BY <2>7, <2>8, HoldersAreFinite DEF One
  <2>10. accepted' \in Nat
    BY <1>2 DEF IInv, Shape
  <2>11. held'[w] = Cardinality(Named(w)') + Cardinality(Controlled(w)') + Cardinality(Required(w)')
    BY <2>1, <2>2, <2>3, <2>6, <2>9, HoldersAreFinite DEF One
  <2> QED BY <2>10, <2>11, HoldersStayFinite
<1>9. held' \in [Requests -> Nat]
    BY <1>2, <1>8 DEF Account
<1>10. \A u \in Tensors : current'[u] = 0 => controls'[u] = {}
    BY <1>2 DEF Ledger
<1> QED BY <1>6, <1>7, <1>8, <1>9, <1>10 DEF Ledger

\* close() gives up at once what every open tensor holds.
LEMMA CloseBalances ==
    ASSUME IInv, Join, Ledger, Close
    PROVE  Ledger'
<1>1. PICK pins : pins = [v \in Values |-> Cardinality(Viewers(v))]
    OBVIOUS
<1>2. PICK freed : freed = {v \in Values : pins[v] > 0 /\ references[v] = pins[v]}
    OBVIOUS
<1>3. /\ current' = [t \in Tensors |-> 0] /\ controls' = [t \in Tensors |-> {}]
      /\ references' = [v \in Values |-> references[v] - pins[v]]
      /\ Account(NoOutcomes, [w \in Requests |-> Cardinality(Controlled(w))
                                                 + Cardinality({v \in freed : w \in outcomes[v]})])
      /\ UNCHANGED <<outcomes, accepted, captured, prerequisites, retired>>
    BY <1>1, <1>2 DEF Close, Viewers, Controlled, requestVars
<1>4. references \in [Values -> Nat] /\ held \in [Requests -> Nat]
    BY DEF Ledger
<1>5. ASSUME NEW x \in Values
      PROVE  /\ references'[x] = Cardinality(Viewers(x)') + Cardinality(Pinners(x)')
             /\ references'[x] \in Nat /\ references'[x] = references[x] - pins[x]
             /\ references[x] \in Nat /\ pins[x] \in Nat /\ pins[x] <= references[x]
  <2>1. references[x] = Cardinality(Viewers(x)) + Cardinality(Pinners(x))
    BY DEF Ledger
  <2>2. references'[x] = references[x] - Cardinality(Viewers(x)) /\ pins[x] = Cardinality(Viewers(x))
    BY <1>1, <1>3
  <2>3. Pinners(x)' = Pinners(x)
    BY <1>3 DEF Pinners, Unretired
  <2>4. Viewers(x)' = {}
    BY <1>3, ValueBoundAssumption DEF Viewers, Values
  <2>5. Cardinality(Viewers(x)') = 0
    BY <2>4, FS_EmptySet
  <2> QED BY <1>4, <2>1, <2>2, <2>3, <2>5, HoldersAreFinite
<1>6. references' \in [Values -> Nat]
    BY <1>3, <1>5
<1>7. ASSUME NEW w \in Requests
      PROVE  /\ held'[w] = Cardinality(Named(w)') + Cardinality(Controlled(w)') + Cardinality(Required(w)')
             /\ held'[w] \in Nat
  <2> DEFINE F == {v \in freed : w \in outcomes[v]}
  <2>1. held[w] = Cardinality(Named(w)) + Cardinality(Controlled(w)) + Cardinality(Required(w))
    BY DEF Ledger
  <2>2. Controlled(w)' = {} /\ Required(w)' = Required(w)
    BY <1>3 DEF Controlled, Required, Unretired
  <2>3. Cardinality(Controlled(w)') = 0
    BY <2>2, FS_EmptySet
  <2>4. held'[w] = held[w] + 0 - (Cardinality(Controlled(w)) + Cardinality(F))
    <3>1. PICK out : out = [y \in Requests |-> Cardinality(Controlled(y)) + Cardinality({v \in freed : y \in outcomes[v]})]
        OBVIOUS
    <3>2. Account(NoOutcomes, out) /\ out[w] = Cardinality(Controlled(w)) + Cardinality(F)
        BY <1>3, <3>1
    <3> HIDE DEF F
    <3> QED BY <3>2, AccountAt, OccurrencesAt
  <2>5. Named(w) \cap F = F /\ Named(w)' = Named(w) \ F
    <3>1. \A v \in F : v \in Values /\ w \in outcomes[v] /\ references[v] > 0 /\ references'[v] = 0
        BY <1>2, <1>5
    <3>2. \A v \in Named(w) \ F : references'[v] > 0
        <4> SUFFICES ASSUME NEW v \in Named(w), v \notin F
                     PROVE  references'[v] > 0
            OBVIOUS
        <4>1. v \in Values /\ references[v] > 0 /\ w \in outcomes[v] /\ v \notin freed
            BY DEF Named
        <4> QED BY <1>2, <1>5, <4>1
    <3>3. \A v \in Values : references'[v] > 0 => references[v] > 0
        BY <1>5
    <3> HIDE DEF F
    <3>4. F \subseteq Named(w)
        BY <3>1 DEF Named
    <3>5. \A v : v \in Named(w)' <=> v \in Named(w) \ F
        BY <1>3, <3>1, <3>2, <3>3 DEF Named
    <3> QED BY <3>4, <3>5
  <2> HIDE DEF F
  <2>6. Cardinality(Named(w) \ F) = Cardinality(Named(w)) - Cardinality(Named(w) \cap F)
    BY HoldersAreFinite, FS_Difference
  <2>7. Cardinality(F) \in Nat
    <3>1. IsFiniteSet(Named(w) \cap F)
        BY HoldersAreFinite, FS_Intersection
    <3> QED BY <2>5, <3>1, FS_CardinalityType
  <2>8. accepted' \in Nat
    BY <1>3 DEF IInv, Shape
  <2>10. Cardinality(Named(w)') = Cardinality(Named(w)) - Cardinality(F)
    BY <2>5, <2>6
  <2>11. Cardinality(Required(w)') = Cardinality(Required(w))
    BY <2>2
  <2>9. held'[w] = Cardinality(Named(w)') + Cardinality(Controlled(w)') + Cardinality(Required(w)')
    BY <2>1, <2>3, <2>4, <2>7, <2>10, <2>11, HoldersAreFinite
  <2> QED BY <2>8, <2>9, HoldersStayFinite
<1>8. held' \in [Requests -> Nat]
    BY <1>3, <1>7 DEF Account
<1>9. \A u \in Tensors : current'[u] = 0 => controls'[u] = {}
    BY <1>3
<1> QED BY <1>5, <1>6, <1>7, <1>8, <1>9 DEF Ledger

\* What the ledger reads; every other step changes none of it.
ledgerVars == <<current, controls, outcomes, references, accepted, captured, prerequisites, retired, held>>

\* Every step keeps the ledger balanced.
LEMMA LedgerInductive == IInv /\ Join /\ Ledger /\ [Next]_vars => Ledger'
<1> SUFFICES ASSUME IInv, Join, Ledger, [Next]_vars PROVE Ledger'
    OBVIOUS
<1>1. ASSUME UNCHANGED ledgerVars
      PROVE  Ledger'
    BY <1>1 DEF Ledger, Viewers, Pinners, Named, Controlled, Required, Unretired, ledgerVars
<1>2. ASSUME NEW r \in Requests, InheritFailure(r) \/ StartCopy(r) \/ FinishCopy(r)
                                 \/ DeliverToObserver(r) \/ StartObservation(r) \/ FinishObservation(r)
      PROVE  UNCHANGED ledgerVars
    BY <1>2 DEF InheritFailure, StartCopy, FinishCopy, DeliverToObserver, StartObservation, FinishObservation,
                Publish, ledgerVars, tensorVars, valueVars
<1>3. ASSUME Complete \/ CompleteReturns \/ FinishClose \/ \E t \in Tensors : CompleteGradient(t)
      PROVE  UNCHANGED ledgerVars
    BY <1>3 DEF Complete, CompleteReturns, FinishClose, CompleteGradient, ledgerVars, tensorVars, valueVars, requestVars
<1>4. CASE UNCHANGED vars
    BY <1>1, <1>4 DEF vars, ledgerVars, tensorVars, valueVars, requestVars
<1>5. CASE Next
  <2>1. ASSUME NEW dst \in Tensors, NEW src \in Tensors, Write(dst, src) \/ Acquire(dst, src)
        PROVE  Ledger'
    BY <2>1, WriteBalances, AcquireBalances
  <2>2. ASSUME NEW dst \in Tensors, NEW left \in Tensors, NEW right \in Tensors, Derive(dst, left, right)
        PROVE  Ledger'
    BY <2>2, DeriveBalances
  <2>3. ASSUME NEW t \in Tensors, Observe(t) \/ Release(t)
        PROVE  Ledger'
    BY <2>3, ObserveBalances, ReleaseBalances
  <2>4. ASSUME NEW r \in Requests, Retire(r)
        PROVE  Ledger'
    BY <2>4, RetireBalances
  <2> QED BY <1>1, <1>2, <1>3, <1>5, <2>1, <2>2, <2>3, <2>4, CloseBalances DEF Next
<1> QED BY <1>4, <1>5

\* A new session holds its first value once, and no outcome.
LEMMA LedgerInitial == Init => Ledger
<1> SUFFICES ASSUME Init PROVE Ledger
    OBVIOUS
<1>1. IInv
    BY Initial
<1>2. PICK s \in Tensors : current = [u \in Tensors |-> IF u = s THEN 1 ELSE 0]
    BY DEF Init
<1>3. references = [v \in Values |-> IF v = 1 THEN 1 ELSE 0]
    BY DEF Init
<1>4. Unretired = {}
    BY DEF Init, Unretired
<1>5. ASSUME NEW v \in Values
      PROVE  references[v] = Cardinality(Viewers(v)) + Cardinality(Pinners(v))
  <2>1. Pinners(v) = {} /\ Viewers(v) = IF v = 1 THEN {s} ELSE {}
    BY <1>2, <1>4, ValueBoundAssumption DEF Pinners, Viewers, Values
  <2>2. Cardinality(Pinners(v)) = 0 /\ Cardinality(Viewers(v)) = IF v = 1 THEN 1 ELSE 0
    BY <2>1, FS_EmptySet, FS_Singleton
  <2> QED BY <1>3, <2>2
<1>6. ASSUME NEW w \in Requests
      PROVE  held[w] = Cardinality(Named(w)) + Cardinality(Controlled(w)) + Cardinality(Required(w))
  <2>1. Named(w) = {} /\ Controlled(w) = {} /\ Required(w) = {}
    BY <1>4 DEF Named, Controlled, Required, Init
  <2>2. Cardinality(Named(w)) = 0 /\ Cardinality(Controlled(w)) = 0 /\ Cardinality(Required(w)) = 0
    BY <2>1, FS_EmptySet
  <2> QED BY <2>2 DEF Init
<1> QED BY <1>3, <1>5, <1>6 DEF Ledger, Init

\* References are owners, counted exactly, and the ledger is theirs.
THEOREM LedgerHolds == Spec => []Ledger
BY LedgerInitial, LedgerInductive, InvariantHolds, JoinHolds, PTL DEF Spec

\* A value or identity releases the very outcomes it retained, even if a writer
\* completed meanwhile, so that none is freed under a holder or kept for nobody.
THEOREM LedgerIsBalancedHolds == Spec => []LedgerIsBalanced
<1>1. Ledger /\ Join => LedgerIsBalanced
    BY DEF Ledger, Join, LedgerIsBalanced, Named, Controlled, Required, Unretired, UnretiredCopies
<1> QED BY <1>1, LedgerHolds, JoinHolds, PTL

=============================================================================
