--------------------------- MODULE ValueLifetimes ---------------------------
(***************************************************************************)
(* Who keeps the numbers of a tensor alive (runtime/runtime.ts: the value  *)
(* reference counts, lazy producers, scalar projections, the program cut   *)
(* and the retained slots of an invocation).                               *)
(*                                                                         *)
(* A storage is owned by the families whose current value it is, by the    *)
(* inputs of owned producers, by accepted requests until they retire, and  *)
(* by the optional expansion cache of a family. A family is a mutable      *)
(* tensor; its handles are "plain", or scalar projections named by their   *)
(* shape. The values that share a storage are collapsed onto it: only      *)
(* storage ownership decides what is freed. User calls are synchronous;    *)
(* the queue runs between them, and where a call enqueues work, inside it. *)
(***************************************************************************)
EXTENDS Integers, Sequences, FiniteSets, FiniteSetsExt

CONSTANTS
    Families,             \* mutable tensors
    Sizes,                \* the shapes a scalar projects to, "many" or "empty"
    Leaves,               \* the shapes of the tensors users create from data
    MaxStorages,          \* bound on the storages that exist at once
    MaxRequests,          \* bound on the accepted requests that have not retired
    CopiesProjections     \* whether a plain tensor copies an unowned projection

ASSUME FamiliesAssumption == IsFiniteSet(Families)
ASSUME SizesAssumption == Sizes \subseteq {"many", "empty"} /\ Leaves \subseteq {"one"} \cup Sizes
ASSUME BoundsAssumption == MaxStorages \in Nat /\ MaxRequests \in Nat /\ CopiesProjections \in BOOLEAN

Storages == 1..MaxStorages
None == 0
Handles == {"plain"} \cup Sizes
Shapes == {"one"} \cup Sizes

VARIABLES
    current,              \* TensorFamily.current: its storage, None when retired
    open,                 \* the retained identities of a family
    origin,               \* projectionMetadata: a weak reference
    cache,                \* projectionCache: an owning one
    heap,                 \* the storages
    leaving,              \* what a write still has to release before it returns
    queue,                \* accepted requests, the running one first
    step,                 \* how far the head of the queue is
    drains                \* published requests that still pin their root

vars == <<current, open, origin, cache, heap, leaving, queue, step, drains>>

\* References by storage: none, one to s (None gives none), and both.
NoRefs == [s \in Storages |-> 0]
One(s) == [t \in Storages |-> IF t = s THEN 1 ELSE 0]
Both(b, c) == [s \in Storages |-> b[s] + c[s]]

\* A storage nobody owns is no object at all.
Blank == [refs |-> 0, inputs |-> <<>>, material |-> "none",
          shape |-> "one", expands |-> {}]
Idle == [at |-> "idle", slots |-> {}, computed |-> {}, kept |-> {}]

----------------------------------------------------------------------------
(* Ownership.                                                               *)

Fresh(h) == Min({s \in Storages : h[s] = Blank})
Room(h) == Cardinality({s \in Storages : h[s] = Blank})

\* The input positions of the producers in cs that hold s: each owns one
\* reference, repeated operands too.
Uses(h, cs, s) ==
    Cardinality({c \in cs : Len(h[c].inputs) > 0 /\ h[c].inputs[1] = s})
    + Cardinality({c \in cs : Len(h[c].inputs) > 1 /\ h[c].inputs[2] = s})
Inputs(h, s) == {h[s].inputs[i] : i \in DOMAIN h[s].inputs}

RetainWithoutActivation(h, s) == [h EXCEPT ![s].refs = @ + 1]

\* An unowned projection owns its scalar only from its own first owner on.
Retain(h, s) ==
    LET activated == IF h[s].refs = 0 /\ h[s].expands # {}
                     THEN [t \in Storages |-> [h[t] EXCEPT !.refs = @ + Uses(h, {s}, t)]]
                     ELSE h
    IN  [activated EXCEPT ![s].refs = @ + 1]

\* The references a storage loses when b is released and the storages in
\* dead release their inputs, and the storages that end.
Losses(h, b, dead, s) == b[s] + Uses(h, dead, s)
DyingLate(h, b) ==
    LET Round[n \in 0..MaxStorages] ==
          IF n = 0 THEN {}
          ELSE LET dead == Round[n - 1]
               IN  {s \in Storages : Losses(h, b, dead, s) > h[s].refs}
    IN  Round[MaxStorages]
Dying(h, b) ==
    LET Round[n \in 0..MaxStorages] ==
          IF n = 0 THEN {}
          ELSE LET dead == Round[n - 1]
               IN  {s \in Storages : LET lost == Losses(h, b, dead, s)
                                     IN  lost > 0 /\ lost >= h[s].refs}
    IN  Round[MaxStorages]
Release(h, b) ==
    LET dead == Dying(h, b)
    IN  [s \in Storages |-> IF s \in dead THEN Blank
                            ELSE [h[s] EXCEPT !.refs = @ - Losses(h, b, dead, s)]]

\* A weak reference to a storage that has ended yields nothing reusable.
Reachable(o, h) == [f \in Families |-> IF o[f] # None /\ h[o[f]] = Blank THEN None ELSE o[f]]

Becomes(h, o) == heap' = h /\ origin' = Reachable(o, h)

----------------------------------------------------------------------------
(* Handles and the values they select.                                      *)

Projected(f) == open[f] \ {"plain"}
ShapeOf(f, k) == IF k = "plain" THEN heap[current[f]].shape ELSE k

\* The reusable expansion of the current scalar, or a new one of this size.
Reuses(o, h, f, k) == o[f] # None /\ h[o[f]].shape = k
ScalarProjection(m, f, k) ==
    IF k = "plain" \/ Reuses(m.origin, m.heap, f, k) THEN m
    ELSE LET s == Fresh(m.heap)
         IN  [heap |-> [m.heap EXCEPT ![s] = [Blank EXCEPT !.inputs = <<current[f]>>,
                                                           !.shape = k, !.expands = {f}]],
              origin |-> [m.origin EXCEPT ![f] = s]]
Selected(m, f, k) == IF k = "plain" THEN current[f] ELSE m.origin[f]

\* The expansions these handles would have to create.
Missing(hs) == Cardinality({h \in hs : h[2] # "plain" /\ ~Reuses(origin, heap, h[1], h[2])})

Now == [heap |-> heap, origin |-> origin]

\* The queue starts its head in the turn that makes it the head: no user call
\* finds it idle. A write has returned when it has nothing left to release.
Started == queue = <<>> \/ step.at # "idle"
Returned == leaving = NoRefs
Pins == Len(queue) + MapThenSumSet(LAMBDA s : drains[s], Storages)
Accepts(root) == queue' = Append(queue, root)

Init ==
    /\ current = [f \in Families |-> None]
    /\ open = [f \in Families |-> {}]
    /\ origin = [f \in Families |-> None]
    /\ cache = [f \in Families |-> None]
    /\ heap = [s \in Storages |-> Blank]
    /\ leaving = NoRefs
    /\ queue = <<>> /\ step = Idle
    /\ drains = NoRefs

----------------------------------------------------------------------------
(* User calls.                                                              *)

\* A new family on the storage s.
Opens(f, s) ==
    /\ current' = [current EXCEPT ![f] = s]
    /\ open' = [open EXCEPT ![f] = {"plain"}]
    /\ UNCHANGED <<cache, leaving, step, drains>>

Tensor(f, shape) ==
    /\ Room(heap) > 0
    /\ LET s == Fresh(heap)
       IN  /\ Opens(f, s)
           /\ Becomes([heap EXCEPT ![s] = [Blank EXCEPT !.refs = 1, !.material = "host", !.shape = shape]],
                      origin)
    /\ UNCHANGED queue

\* The result of an operation owns its inputs until it is computed.
Records(f, h, inputs, shape) ==
    LET s == Fresh(h)
    IN  /\ Opens(f, s)
        /\ heap' = [h EXCEPT ![s] = [Blank EXCEPT !.refs = 1, !.inputs = inputs, !.shape = shape]]
        /\ UNCHANGED queue

\* (The sum of a scalar is left out: one more link of the same kind.)
Sum(f, g, j) ==
    /\ ShapeOf(g, j) # "one"
    /\ Room(heap) > Missing({<<g, j>>})
    /\ LET m == ScalarProjection(Now, g, j)
           s == Selected(m, g, j)
       IN  /\ Records(f, Retain(m.heap, s), <<s>>, "one")
           /\ origin' = m.origin

Add(f, g, j, e, k) ==
    /\ ShapeOf(g, j) = ShapeOf(e, k) /\ Room(heap) > Missing({<<g, j>>, <<e, k>>})
    /\ LET m == ScalarProjection(ScalarProjection(Now, g, j), e, k)
           s == Selected(m, g, j)
           t == Selected(m, e, k)
       IN  /\ Records(f, Retain(Retain(m.heap, s), t), <<Min({s, t}), Max({s, t})>>, ShapeOf(g, j))
           /\ origin' = m.origin

\* The gradient of a sum is its scalar, seen in the shape of the input.
ExpandIncoming(f, k) ==
    /\ "plain" \in open[f] /\ k \in Sizes \ open[f]
    /\ heap[current[f]].shape = "one"
    /\ open' = [open EXCEPT ![f] = @ \cup {k}]
    /\ UNCHANGED <<current, origin, cache, heap, leaving, queue, step, drains>>

Observe(f, k) ==
    /\ Pins < MaxRequests /\ Room(heap) >= Missing({<<f, k>>})
    /\ LET m == ScalarProjection(Now, f, k)
           s == Selected(m, f, k)
       IN  /\ Becomes(Retain(m.heap, s), m.origin)
           /\ Accepts(s)
    /\ UNCHANGED <<current, open, cache, leaving, step, drains>>

\* A cloned gradient: a family of its own on the incoming storage, which a
\* mandatory effect also pins until it is computed.
Acquire(f, g, j) ==
    /\ Pins < MaxRequests /\ Room(heap) >= Missing({<<g, j>>})
    /\ LET m == ScalarProjection(Now, g, j)
           s == Selected(m, g, j)
       IN  /\ Opens(f, s)
           /\ Becomes(Retain(Retain(m.heap, s), s), m.origin)
           /\ Accepts(s)

CloseKeepingCache(f, k) ==
    /\ LET last == open[f] = {k}
           released == Both(One(IF last THEN cache[f] ELSE None), One(IF last THEN current[f] ELSE None))
       IN  /\ open' = [open EXCEPT ![f] = @ \ {k}]
           /\ cache' = [cache EXCEPT ![f] = IF last THEN None ELSE @]
           /\ current' = [current EXCEPT ![f] = IF last THEN None ELSE @]
           /\ Becomes(Release(heap, released), [origin EXCEPT ![f] = IF last THEN None ELSE @])
    /\ UNCHANGED <<leaving, queue, step, drains>>

CloseLosingCache(f, k) ==
    /\ LET cached == k \in Sizes /\ Projected(f) = {k}
           last == open[f] = {k}
       IN  /\ open' = [open EXCEPT ![f] = @ \ {k}]
           /\ cache' = [cache EXCEPT ![f] = IF cached THEN None ELSE @]
           /\ current' = [current EXCEPT ![f] = IF last THEN None ELSE @]
           /\ Becomes(Release(heap, One(IF last THEN current[f] ELSE None)),
                      [origin EXCEPT ![f] = IF cached THEN None ELSE @])
    /\ UNCHANGED <<leaving, queue, step, drains>>

\* The last projection of a family ends its cache, its last identity the
\* pin on its current value.
Close(f, k) ==
    /\ LET cached == k \in Sizes /\ Projected(f) = {k}
           last == open[f] = {k}
           released == Both(One(IF cached THEN cache[f] ELSE None), One(IF last THEN current[f] ELSE None))
       IN  /\ open' = [open EXCEPT ![f] = @ \ {k}]
           /\ cache' = [cache EXCEPT ![f] = IF cached THEN None ELSE @]
           /\ current' = [current EXCEPT ![f] = IF last THEN None ELSE @]
           /\ Becomes(Release(heap, released), [origin EXCEPT ![f] = IF cached THEN None ELSE @])
    /\ UNCHANGED <<leaving, queue, step, drains>>

(* Writes publish a new current value at once and enqueue the effect that   *)
(* computes it; the predecessors are released after the queue has run.      *)

\* The expansions of the old value are not expansions of the new one.
Unexpanded(h, f) == [s \in Storages |-> [h[s] EXCEPT !.expands = @ \ {f}]]

WriteReleasingFirst(f, next, captured, m) ==
    LET released == Release(m.heap, Both(One(cache[f]), One(current[f])))
        owned == [released EXCEPT ![next].refs = @ + 1]
    IN  /\ Becomes(Unexpanded(Retain(owned, captured), f), [m.origin EXCEPT ![f] = None])
        /\ current' = [current EXCEPT ![f] = next]
        /\ cache' = [cache EXCEPT ![f] = None]
        /\ Accepts(captured)
        /\ UNCHANGED <<open, leaving, step, drains>>

\* The new current shares the storage next, the effect pins captured.
Write(f, next, captured, m) ==
    LET owned == [m.heap EXCEPT ![next].refs = @ + 1]
    IN  /\ Becomes(Unexpanded(Retain(owned, captured), f), [m.origin EXCEPT ![f] = None])
        /\ current' = [current EXCEPT ![f] = next]
        /\ cache' = [cache EXCEPT ![f] = None]
        /\ leaving' = Both(One(cache[f]), One(current[f]))
        /\ Accepts(captured)
        /\ UNCHANGED <<open, step, drains>>

\* A plain tensor takes the storage of the source. A projected gradient of
\* many elements is reset in the same way, by filling its scalar.
Copy(f, k, g, j) ==
    /\ k = "plain" \/ (k = "many" /\ j = "plain")
    /\ heap[current[f]].shape = ShapeOf(g, j)
    /\ Room(heap) >= Missing({<<g, j>>})
    /\ LET m == ScalarProjection(Now, g, j)
           s == Selected(m, g, j)
       IN  /\ CopiesProjections \/ m.heap[s].refs > 0
           /\ Write(f, s, s, m)

\* A projection of many elements takes only itself, and only a version.
CopySelf(f) ==
    /\ "many" \in open[f]
    /\ Write(f, current[f], current[f], Now)

\* An empty projection takes any empty source, and only a version.
CopyEmpty(f, g, j) ==
    /\ "empty" \in open[f] /\ ShapeOf(g, j) = "empty" /\ Room(heap) >= Missing({<<g, j>>})
    /\ LET m == ScalarProjection(Now, g, j)
       IN  Write(f, current[f], Selected(m, g, j), m)

\* #write returns after it has released the predecessors.
WriteReturns ==
    /\ ~Returned /\ Started
    /\ Becomes(Release(heap, leaving), origin)
    /\ leaving' = NoRefs
    /\ UNCHANGED <<current, open, cache, queue, step, drains>>

----------------------------------------------------------------------------
(* The queue.                                                               *)

Root == Head(queue)

\* What a request needs: the root, and the inputs of what is not resident.
Computes(s) == heap[s].material # "resident" /\ heap[s].inputs # <<>>
Closure(s) ==
    LET Reach[n \in 0..MaxStorages] ==
          IF n = 0 THEN {s}
          ELSE LET near == Reach[n - 1]
               IN  near \cup UNION {Inputs(heap, c) : c \in {d \in near : Computes(d)}}
    IN  Reach[MaxStorages]

FormProgram ==
    /\ step.at = "idle" /\ queue # <<>>
    /\ LET slots == Closure(Root)
       IN  step' = [at |-> "formed", slots |-> slots, computed |-> {s \in slots : Computes(s)}, kept |-> {}]
    /\ UNCHANGED <<current, open, origin, cache, heap, leaving, queue, drains>>

\* The physical input occurrences of a slot.
StorageUseCount(s) == Uses(heap, step.computed, s)

\* A later capture may still select this output, without owning it yet.
CanCaptureProjection(s, h) ==
    \E f \in h[s].expands : Projected(f) # {} /\ origin[f] = s
RetainedByUsesOnly(h) == {s \in step.slots : h[s].refs > StorageUseCount(s)}
Retained(h) == {s \in step.slots : CanCaptureProjection(s, h) \/ h[s].refs > StorageUseCount(s)}

\* The expansions that their family may adopt as its cache. The budget of
\* owners may refuse any of them; the last one adopted replaces the others.
Adoptable == {s \in step.slots : \E f \in heap[s].expands : Projected(f) # {} /\ cache[f] # s}
Adoptions == {chosen \in SUBSET Adoptable :
              \A s, t \in chosen : heap[s].expands = heap[t].expands => s = t}

\* The backend takes the program: ownership is read here, after preparation.
Admit ==
    /\ step.at = "formed"
    /\ \E chosen \in Adoptions :
         LET adopters == UNION {heap[s].expands : s \in chosen}
             pinned == [s \in Storages |-> IF s \in chosen THEN [heap[s] EXCEPT !.refs = @ + 1] ELSE heap[s]]
             h == Release(pinned, [s \in Storages |-> Cardinality({f \in adopters : cache[f] = s})])
         IN  /\ Becomes(h, origin)
             /\ cache' = [f \in Families |-> IF f \in adopters
                                            THEN CHOOSE s \in chosen : f \in heap[s].expands ELSE cache[f]]
             /\ step' = IF heap[Root].material = "resident"
                        THEN [step EXCEPT !.at = "materialized"]
                        ELSE [step EXCEPT !.at = "executing",
                                !.kept = Retained(h) \cup {s \in step.slots : h[s].material = "resident"}]
    /\ UNCHANGED <<current, open, leaving, queue, drains>>

\* The surviving slots become resident, then the completed producers let go.
Completed ==
    LET installed == [s \in Storages |->
            IF s \in step.kept THEN [heap[s] EXCEPT !.material = "resident"] ELSE heap[s]]
        detached == [s \in Storages |->
            IF s \in step.computed THEN [installed[s] EXCEPT !.inputs = <<>>] ELSE installed[s]]
    IN  Release(detached, [s \in Storages |-> StorageUseCount(s)])

Complete ==
    /\ step.at = "executing"
    /\ Becomes(Completed, origin)
    /\ step' = [step EXCEPT !.at = "materialized"]
    /\ UNCHANGED <<current, open, cache, leaving, queue, drains>>

\* A request ends with its read or its publication, or earlier: preparation,
\* execution or the read may fail, and an effect or an observation on the CPU
\* whose root has host data executes nothing. Publication keeps the pin of
\* the request until its device work drains.
Conclude ==
    /\ step.at # "idle"
    /\ drains' = [drains EXCEPT ![Root] = @ + 1]
    /\ queue' = Tail(queue)
    /\ step' = Idle
    /\ UNCHANGED <<current, open, origin, cache, heap, leaving>>

Retire(s) ==
    /\ drains[s] > 0
    /\ drains' = [drains EXCEPT ![s] = @ - 1]
    /\ Becomes(Release(heap, One(s)), origin)
    /\ UNCHANGED <<current, open, cache, leaving, queue, step>>

----------------------------------------------------------------------------

Retired == {f \in Families : current[f] = None}

UserCall ==
    /\ Returned /\ Started
    /\ \/ \E f \in Retired :
            \/ \E shape \in Leaves : Tensor(f, shape)
            \/ \E g \in Families : \E j \in open[g] :
                 \/ Sum(f, g, j) \/ Acquire(f, g, j)
                 \/ \E e \in Families : \E k \in open[e] : Add(f, g, j, e, k)
       \/ \E f \in Families :
            \/ \E k \in Sizes : ExpandIncoming(f, k)
            \/ \E k \in open[f] : Observe(f, k) \/ Close(f, k)
       \/ \E f \in Families :
            /\ Pins < MaxRequests
            /\ \/ CopySelf(f)
               \/ \E g \in Families : \E j \in open[g] :
                    CopyEmpty(f, g, j) \/ \E k \in open[f] : Copy(f, k, g, j)

QueueStep ==
    \/ FormProgram \/ Admit \/ Complete \/ Conclude
    \/ \E s \in Storages : Retire(s)

Next == UserCall \/ WriteReturns \/ QueueStep
Spec == Init /\ [][Next]_vars

----------------------------------------------------------------------------
(* Properties.                                                              *)

TypeOK ==
    /\ current \in [Families -> Storages \cup {None}]
    /\ open \in [Families -> SUBSET Handles]
    /\ origin \in [Families -> Storages \cup {None}]
    /\ cache \in [Families -> Storages \cup {None}]
    /\ \A s \in Storages :
         /\ heap[s].refs \in Nat /\ heap[s].shape \in Shapes
         /\ Len(heap[s].inputs) <= 2 /\ Inputs(heap, s) \subseteq Storages
         /\ heap[s].material \in {"none", "host", "resident"}
         /\ heap[s].expands \subseteq Families /\ Cardinality(heap[s].expands) <= 1
    /\ leaving \in [Storages -> Nat] /\ drains \in [Storages -> Nat]
    /\ queue \in Seq(Storages)
    /\ step \in [at : {"idle", "formed", "executing", "materialized"}, slots : SUBSET Storages,
                 computed : SUBSET Storages, kept : SUBSET Storages]

\* Every reference a storage counts belongs to one owner, and every owner is
\* counted: families, caches, producers of owned storages, and requests. What
\* nobody owns is gone.
Owners(s) ==
    Cardinality({f \in Families : current[f] = s}) + Cardinality({f \in Families : cache[f] = s})
    + Uses(heap, Storages, s)
    + Cardinality({i \in DOMAIN queue : queue[i] = s})
    + drains[s] + leaving[s]
RefsAreOwners ==
    \A s \in Storages : heap[s].refs = Owners(s) /\ (heap[s].refs = 0 => heap[s] = Blank)

\* An owned storage has its numbers, or can still compute them.
NothingIsLost ==
    \A s \in Storages : heap[s].refs > 0 => heap[s].material # "none" \/ heap[s].inputs # <<>>

\* A program stays executable from its formation to its completion, and its
\* result readable after it, whatever users close or write meanwhile.
InvocationStaysValid ==
    /\ step.at \in {"formed", "executing"} =>
         /\ \A s \in step.slots : heap[s].refs > 0
         /\ \A s \in step.computed : Computes(s) /\ Inputs(heap, s) \subseteq step.slots
         /\ \A s \in step.slots \ step.computed : heap[s].material # "none"
    /\ step.at = "materialized" => heap[Root].refs > 0 /\ heap[Root].material = "resident"

\* No closing or writing in between takes numbers away that are still needed.
ValuesSurvive == TypeOK /\ NothingIsLost /\ InvocationStaysValid

\* What a family may select again expands its current value, and is kept
\* only for a projection that can select it.
CacheIsCurrent ==
    \A f \in Families : \A s \in {origin[f], cache[f]} \ {None} :
        Projected(f) # {} /\ heap[s].expands = {f}
=============================================================================
