--------------------------- MODULE WriterOutcomes ---------------------------
(***************************************************************************)
(* Persistent writes and what later readers learn about them               *)
(* (runtime/writer-outcome.ts and the copy, gradient acquisition,          *)
(* observation and completion paths of runtime/runtime.ts).                *)
(*                                                                         *)
(* A write installs its new tensor value at once and leaves the physical   *)
(* copy to a queued effect. The value names the effect's WriterOutcome, so *)
(* whoever consumes the value first asks whether the write worked. Only    *)
(* unresolved or failed outcomes are captured: a graph of completed writes *)
(* is never retained. One failed write poisons the session's later writes. *)
(*                                                                         *)
(* Requests are published in acceptance order: ExecutionQueue shows that   *)
(* the queue provides this (OrderedExecution). A request's number names    *)
(* the writer outcome it publishes.                                        *)
(***************************************************************************)
EXTENDS Naturals, FiniteSets

CONSTANTS
    Tensors,              \* tensor identities of the session
    MaxRequests,          \* bound on accepted requests
    MaxValues,            \* bound on tensor values ever created
    PendingCopies         \* #updateLimits.pendingCopies

ASSUME TensorsAssumption == IsFiniteSet(Tensors)
ASSUME RequestBoundAssumption == MaxRequests \in Nat
ASSUME ValueBoundAssumption == MaxValues \in Nat \ {0}
ASSUME PendingCopiesAssumption == PendingCopies \in Nat

Requests == 1..MaxRequests
Values == 1..MaxValues

VARIABLES
    \* tensor identities and families
    current,              \* family.current, 0 for a released identity
    controls,             \* identity.controls
    snapshot,             \* identity.#snapshot when valid, else 0
    \* tensor values
    created,              \* how many values exist
    outcomes,             \* value.outcomes
    references,           \* value.references
    \* the session
    accepted, published,  \* requests accepted and published so far
    running,              \* the head's generator has passed its writer checks
    kind,                 \* "copy" or "observation"
    captured,             \* the value the request pins
    prerequisites,        \* the outcomes a copy effect captured
    state,                \* writer outcome of a copy, result of an observation
    cause,                \* the failed write a failed writer reports
    retired,              \* requests whose pins are released
    pendingCopies,        \* #pendingCopies
    mutationFailure,      \* #mutationFailure: the write that failed, or 0
    undelivered,          \* #undeliveredEffects
    held,                 \* WriterOutcome.references
    completion,           \* complete(): "none", "waiting" or "resolved"
    session,              \* "open", "closing" or "closed"
    \* history, used by properties only
    lineage,              \* lineage[t]: every write the content of t depends on
    history,              \* history[r]: every write request r depends on
    joined,               \* requests accepted before complete() was called
    reported              \* failures some call has rejected with

tensorVars == <<current, controls, snapshot, lineage>>
valueVars == <<created, outcomes, references>>
requestVars == <<accepted, published, running, kind, captured, prerequisites, state,
                 cause, history>>
effectVars == <<mutationFailure, undelivered, reported>>
joinVars == <<pendingCopies, completion, joined>>
vars == <<tensorVars, valueVars, requestVars, effectVars, joinVars, retired, held, session>>

TypeOK ==
    /\ current \in [Tensors -> 0..MaxValues]
    /\ controls \in [Tensors -> SUBSET Requests]
    /\ snapshot \in [Tensors -> 0..MaxValues]
    /\ lineage \in [Tensors -> SUBSET Requests]
    /\ created \in 0..MaxValues
    /\ outcomes \in [Values -> SUBSET Requests]
    /\ references \in [Values -> Nat]
    /\ accepted \in 0..MaxRequests /\ published \in 0..accepted
    /\ running \in BOOLEAN
    /\ kind \in [Requests -> {"none", "copy", "observation"}]
    /\ captured \in [Requests -> 0..MaxValues]
    /\ prerequisites \in [Requests -> SUBSET Requests]
    /\ state \in [Requests -> {"pending", "success", "failure"}]
    /\ cause \in [Requests -> 0..MaxRequests]
    /\ history \in [Requests -> SUBSET Requests]
    /\ retired \in SUBSET (1..published)
    /\ pendingCopies \in Nat
    /\ mutationFailure \in 0..MaxRequests
    /\ undelivered \in SUBSET Requests /\ reported \in SUBSET Requests
    /\ held \in [Requests -> Nat]
    /\ completion \in {"none", "waiting", "resolved"} /\ joined \in 0..MaxRequests
    /\ session \in {"open", "closing", "closed"}

\* The session starts with one open tensor; the others are free names.
Init ==
    /\ created = 1
    /\ \E t \in Tensors : current = [u \in Tensors |-> IF u = t THEN 1 ELSE 0]
    /\ controls = [t \in Tensors |-> {}]
    /\ snapshot = [t \in Tensors |-> 0]
    /\ lineage = [t \in Tensors |-> {}]
    /\ outcomes = [v \in Values |-> {}]
    /\ references = [v \in Values |-> IF v = 1 THEN 1 ELSE 0]
    /\ accepted = 0 /\ published = 0 /\ running = FALSE
    /\ kind = [r \in Requests |-> "none"]
    /\ captured = [r \in Requests |-> 0]
    /\ prerequisites = [r \in Requests |-> {}]
    /\ state = [r \in Requests |-> "pending"]
    /\ cause = [r \in Requests |-> 0]
    /\ history = [r \in Requests |-> {}]
    /\ retired = {} /\ pendingCopies = 0 /\ mutationFailure = 0
    /\ undelivered = {} /\ reported = {}
    /\ held = [r \in Requests |-> 0]
    /\ completion = "none" /\ joined = 0
    /\ session = "open"

-----------------------------------------------------------------------------
(* Writer outcomes and tensor values.                                      *)

\* Mutation: failed outcomes are dropped together with completed ones.
CapturePending(ws) == {w \in ws : state[w] = "pending"}

\* captureWriterOutcomes: a completed write needs no further control.
Capture(ws) == {w \in ws : state[w] # "success"}

One(b) == IF b THEN 1 ELSE 0

\* retainWriterOutcomes of the set on the left, releaseWriterOutcomes of the right.
Account(acquired, released) ==
    held' = [w \in Requests |-> held[w] + acquired[w] - released[w]]

NoOutcomes == [w \in Requests |-> 0]
Occurrences(ws) == [w \in Requests |-> One(w \in ws)]
Both(f, g) == [w \in Requests |-> f[w] + g[w]]

\* Dropping one reference of v releases the outcomes v holds with its last one.
Dropped(v) == IF references[v] = 1 THEN Occurrences(outcomes[v]) ELSE NoOutcomes

Open(t) == session = "open" /\ current[t] # 0

\* What identity.value carries: the family's outcomes and the identity's controls.
Carried(t) == outcomes[current[t]] \cup controls[t]

\* A value object to capture for t: the family current, the cached snapshot, or
\* a new snapshot. #retainValue refreshes the outcomes of a value nobody owns.
CapturedValue(t) ==
    CASE controls[t] = {} -> current[t]
      [] controls[t] # {} /\ snapshot[t] # 0 -> snapshot[t]
      [] OTHER -> created + 1

\* Mutation: an owned value is refreshed too, under the feet of its first owner.
RefreshedOutcomes(t) ==
    LET v == CapturedValue(t) IN
    IF v = created + 1 THEN Capture(Carried(t)) ELSE Capture(outcomes[v])

CapturedOutcomes(t) ==
    LET v == CapturedValue(t) IN
    IF v = created + 1 THEN Capture(Carried(t))
    ELSE IF references[v] = 0 THEN Capture(outcomes[v]) ELSE outcomes[v]

-----------------------------------------------------------------------------
(* Operations on open tensors.                                             *)

\* #enqueueEffect and #enqueue: the request is accepted behind all others.
Accept(r, k, v, needs, past) ==
    /\ r = accepted + 1 /\ r <= MaxRequests
    /\ accepted' = r
    /\ kind' = [kind EXCEPT ![r] = k]
    /\ captured' = [captured EXCEPT ![r] = v]
    /\ prerequisites' = [prerequisites EXCEPT ![r] = needs]
    /\ history' = [history EXCEPT ![r] = past]
    /\ UNCHANGED <<published, running, state, cause>>

\* A write is refused once a write has failed, or at the pending-copy limit.
WriteAdmitted == mutationFailure = 0 /\ pendingCopies < PendingCopies

\* #write: the destination's family gets a value that names only the new
\* outcome; whatever the old value and the source still wait for becomes a
\* prerequisite of the copy effect, which pins the source value.
Write(dst, src) ==
    LET r == accepted + 1
        v == CapturedValue(src)
        n == created + (IF v = created + 1 THEN 2 ELSE 1)
        old == current[dst]
        needs == Capture(outcomes[old] \cup controls[dst] \cup Carried(src))
    IN
    /\ Open(dst) /\ Open(src) /\ WriteAdmitted
    /\ n <= MaxValues
    /\ Accept(r, "copy", v, needs, lineage[dst] \cup lineage[src])
    /\ created' = n
    /\ outcomes' = [outcomes EXCEPT ![v] = CapturedOutcomes(src), ![n] = {r}]
    /\ references' = [x \in Values |-> IF x = n THEN 1
                                       ELSE references[x] + One(x = v) - One(x = old)]
    /\ current' = [current EXCEPT ![dst] = n]
    /\ controls' = [controls EXCEPT ![dst] = {}]
    /\ snapshot' = [snapshot EXCEPT ![dst] = 0,
                                    ![src] = IF src # dst /\ v # current[src] THEN v ELSE 0]
    /\ lineage' = [lineage EXCEPT ![dst] = @ \cup lineage[src] \cup {r}]
    /\ pendingCopies' = pendingCopies + 1
    /\ Account(Both(Occurrences({r}), Both(Occurrences(needs),
                    IF v = created + 1 \/ references[v] = 0
                    THEN Occurrences(CapturedOutcomes(src)) ELSE NoOutcomes)),
               Both(Occurrences(controls[dst]), IF v = old THEN NoOutcomes ELSE Dropped(old)))
    /\ UNCHANGED <<effectVars, completion, joined, retired, session>>

\* #recordOperation: a lazy operation's result carries what its inputs wait for.
Derive(dst, left, right) ==
    LET n == created + 1
        carried == Capture(Carried(left) \cup Carried(right))
    IN
    /\ Open(left) /\ Open(right) /\ current[dst] = 0
    /\ n <= MaxValues
    /\ created' = n
    /\ outcomes' = [outcomes EXCEPT ![n] = carried]
    /\ references' = [references EXCEPT ![n] = 1]
    /\ current' = [current EXCEPT ![dst] = n]
    /\ lineage' = [lineage EXCEPT ![dst] = lineage[left] \cup lineage[right]]
    /\ Account(Occurrences(carried), NoOutcomes)
    /\ UNCHANGED <<controls, snapshot, requestVars, effectVars, joinVars, retired, session>>

\* #accumulateGradient, first acquisition: a new gradient tensor borrows the
\* incoming value, and its identity is controlled by the acquiring effect.
Acquire(dst, src) ==
    LET r == accepted + 1
        n == created + 1
        carried == Capture(Carried(src))
    IN
    /\ Open(src) /\ current[dst] = 0 /\ WriteAdmitted
    /\ n <= MaxValues
    /\ Accept(r, "copy", n, carried, lineage[src])
    /\ created' = n
    /\ outcomes' = [outcomes EXCEPT ![n] = carried]
    /\ references' = [references EXCEPT ![n] = 2]
    /\ current' = [current EXCEPT ![dst] = n]
    /\ controls' = [controls EXCEPT ![dst] = {r}]
    /\ lineage' = [lineage EXCEPT ![dst] = lineage[src] \cup {r}]
    /\ pendingCopies' = pendingCopies + 1
    /\ Account(Both(Occurrences({r}), Both(Occurrences(carried), Occurrences(carried))), NoOutcomes)
    /\ UNCHANGED <<snapshot, effectVars, completion, joined, retired, session>>

\* #observe: the observation pins the value as it is now.
Observe(t) ==
    LET r == accepted + 1
        v == CapturedValue(t)
    IN
    /\ Open(t) /\ v <= MaxValues
    /\ Accept(r, "observation", v, {}, lineage[t])
    /\ created' = IF v = created + 1 THEN v ELSE created
    /\ outcomes' = [outcomes EXCEPT ![v] = CapturedOutcomes(t)]
    /\ references' = [references EXCEPT ![v] = @ + 1]
    /\ snapshot' = [snapshot EXCEPT ![t] = IF v = current[t] THEN @ ELSE v]
    /\ Account(IF references[v] = 0 THEN Occurrences(CapturedOutcomes(t)) ELSE NoOutcomes,
               NoOutcomes)
    /\ UNCHANGED <<current, controls, lineage, effectVars, joinVars, retired, session>>

\* #releaseIdentity: the identity's controls and its pin of the family current.
Release(t) ==
    /\ Open(t)
    /\ current' = [current EXCEPT ![t] = 0]
    /\ controls' = [controls EXCEPT ![t] = {}]
    /\ snapshot' = [snapshot EXCEPT ![t] = 0]
    /\ lineage' = [lineage EXCEPT ![t] = {}]
    /\ references' = [references EXCEPT ![current[t]] = @ - 1]
    /\ Account(NoOutcomes, Both(Occurrences(controls[t]), Dropped(current[t])))
    /\ UNCHANGED <<created, outcomes, requestVars, effectVars, joinVars, retired, session>>

-----------------------------------------------------------------------------
(* The head of the queue.                                                  *)

\* Mutation: any accepted request may run, not only the oldest.
IsAccepted(r) == published < r /\ r <= accepted

IsHead(r) == r = published + 1 /\ r <= accepted

Publish(r, o) ==
    /\ published' = r
    /\ running' = FALSE
    /\ state' = [state EXCEPT ![r] = o]
    /\ UNCHANGED <<accepted, kind, captured, prerequisites, history>>

\* failedWriterOutcome: the failures found among captured outcomes.
Failed(ws) == {w \in ws : state[w] = "failure"}

\* #copyEffect, first check: a failed prerequisite, else an earlier failed
\* write, is inherited without touching the device.
InheritFailure(r) ==
    /\ IsHead(r) /\ kind[r] = "copy" /\ ~running
    /\ \/ \E w \in Failed(prerequisites[r]) : cause' = [cause EXCEPT ![r] = cause[w]]
       \/ /\ Failed(prerequisites[r]) = {} /\ mutationFailure # 0
          /\ cause' = [cause EXCEPT ![r] = mutationFailure]
    /\ Publish(r, "failure")
    /\ UNCHANGED <<tensorVars, valueVars, effectVars, joinVars, retired, held, session>>

\* Mutation: an effect accepted before the failure is not stopped by it.
StartCopyAnyway(r) ==
    /\ IsHead(r) /\ kind[r] = "copy" /\ ~running
    /\ Failed(prerequisites[r]) = {}
    /\ running' = TRUE
    /\ UNCHANGED <<accepted, published, kind, captured, prerequisites, state, cause, history,
                   tensorVars, valueVars, effectVars, joinVars, retired, held, session>>

\* #copyEffect goes on to form, prepare and materialize, and may suspend there.
StartCopy(r) ==
    /\ IsHead(r) /\ kind[r] = "copy" /\ ~running
    /\ Failed(prerequisites[r]) = {} /\ mutationFailure = 0
    /\ running' = TRUE
    /\ UNCHANGED <<accepted, published, kind, captured, prerequisites, state, cause, history,
                   tensorVars, valueVars, effectVars, joinVars, retired, held, session>>

FinishCopy(r) ==
    /\ IsHead(r) /\ kind[r] = "copy" /\ running
    /\ \/ /\ Publish(r, "success")
          /\ UNCHANGED <<cause, effectVars>>
       \/ /\ Publish(r, "failure")
          /\ cause' = [cause EXCEPT ![r] = r]
          /\ undelivered' = undelivered \cup {r}
          /\ mutationFailure' = IF mutationFailure = 0 THEN r ELSE mutationFailure
          /\ UNCHANGED reported
    /\ UNCHANGED <<tensorVars, valueVars, joinVars, retired, held, session>>

\* #observation: a failed writer is delivered to the observer and thrown.
DeliverToObserver(r) ==
    /\ IsHead(r) /\ kind[r] = "observation" /\ ~running
    /\ \E w \in Failed(outcomes[captured[r]]) :
        /\ undelivered' = undelivered \ {cause[w]}
        /\ reported' = reported \cup {cause[w]}
    /\ Publish(r, "failure")
    /\ UNCHANGED <<cause, mutationFailure, tensorVars, valueVars, joinVars, retired, held, session>>

StartObservation(r) ==
    /\ IsHead(r) /\ kind[r] = "observation" /\ ~running
    /\ Failed(outcomes[captured[r]]) = {}
    /\ running' = TRUE
    /\ UNCHANGED <<accepted, published, kind, captured, prerequisites, state, cause, history,
                   tensorVars, valueVars, effectVars, joinVars, retired, held, session>>

\* Execution or readback ends; its own failure is the observer's alone.
FinishObservation(r) ==
    /\ IsHead(r) /\ kind[r] = "observation" /\ running
    /\ \E o \in {"success", "failure"} : Publish(r, o)
    /\ UNCHANGED <<cause, tensorVars, valueVars, effectVars, joinVars, retired, held, session>>

\* Mutation: any retired copy completes the join.
RetireResolves(r) ==
    /\ r \in (1..published) \ retired
    /\ retired' = retired \cup {r}
    /\ pendingCopies' = pendingCopies - One(kind[r] = "copy")
    /\ completion' = IF kind[r] = "copy" /\ completion = "waiting" THEN "resolved" ELSE completion
    /\ references' = [references EXCEPT ![captured[r]] = @ - 1]
    /\ Account(NoOutcomes, Both(Occurrences(prerequisites[r]), Dropped(captured[r])))
    /\ UNCHANGED <<created, outcomes, joined, tensorVars, requestVars, effectVars, session>>

\* Mutation: the release callback may run twice.
RetireTwice(r) ==
    /\ r \in 1..published
    /\ retired' = retired \cup {r}
    /\ pendingCopies' = pendingCopies - One(kind[r] = "copy")
    /\ references' = [references EXCEPT ![captured[r]] = @ - 1]
    /\ UNCHANGED <<created, outcomes, joined, completion, held, tensorVars, requestVars,
                   effectVars, session>>

\* The release callback of the request, after its tickets have drained:
\* #retireCopyEffect for a copy, #releaseValue for an observation.
Retire(r) ==
    LET copies == pendingCopies - One(kind[r] = "copy") IN
    /\ r \in (1..published) \ retired
    /\ retired' = retired \cup {r}
    /\ pendingCopies' = copies
    /\ completion' = IF kind[r] = "copy" /\ copies = 0 /\ completion = "waiting"
                     THEN "resolved" ELSE completion
    /\ references' = [references EXCEPT ![captured[r]] = @ - 1]
    /\ Account(NoOutcomes, Both(Occurrences(prerequisites[r]), Dropped(captured[r])))
    /\ UNCHANGED <<created, outcomes, joined, tensorVars, requestVars, effectVars, session>>

-----------------------------------------------------------------------------
(* Joins.                                                                  *)

\* Undelivered failures are handed, all at once, to the caller that joins.
DeliverAll ==
    /\ undelivered' = {}
    /\ reported' = reported \cup undelivered
    /\ UNCHANGED mutationFailure

\* complete() without pending copies delivers in the same turn.
Complete ==
    /\ session = "open" /\ completion = "none"
    /\ IF pendingCopies = 0
       THEN DeliverAll /\ UNCHANGED <<completion, joined>>
       ELSE /\ completion' = "waiting" /\ joined' = accepted
            /\ UNCHANGED effectVars
    /\ UNCHANGED <<tensorVars, valueVars, requestVars, pendingCopies, retired, held, session>>

\* The continuation of complete(), in a turn after #copyCompletion resolved.
CompleteReturns ==
    /\ completion = "resolved"
    /\ DeliverAll
    /\ completion' = "none"
    /\ joined' = 0
    /\ UNCHANGED <<tensorVars, valueVars, requestVars, pendingCopies, retired, held, session>>

\* #completeGradient drives the queue and, once it is empty, delivers the failure
\* of a writer the gradient's value still names. It accepts no request.
CompleteGradient(t) ==
    /\ Open(t) /\ published = accepted
    /\ \E w \in Failed(CapturedOutcomes(t)) :
        /\ undelivered' = undelivered \ {cause[w]}
        /\ reported' = reported \cup {cause[w]}
    /\ UNCHANGED <<mutationFailure, tensorVars, valueVars, requestVars, joinVars, retired,
                   held, session>>

\* close() releases every open tensor, like #releaseIdentity of each.
Close ==
    LET pins == [v \in Values |-> Cardinality({t \in Tensors : current[t] = v})]
        freed == {v \in Values : pins[v] > 0 /\ references[v] = pins[v]}
    IN
    /\ session = "open"
    /\ session' = "closing"
    /\ current' = [t \in Tensors |-> 0]
    /\ controls' = [t \in Tensors |-> {}]
    /\ snapshot' = [t \in Tensors |-> 0]
    /\ lineage' = [t \in Tensors |-> {}]
    /\ references' = [v \in Values |-> references[v] - pins[v]]
    /\ Account(NoOutcomes, [w \in Requests |->
                   Cardinality({t \in Tensors : w \in controls[t]})
                   + Cardinality({v \in freed : w \in outcomes[v]})])
    /\ UNCHANGED <<created, outcomes, requestVars, effectVars, joinVars, retired>>

\* Mutation: close() forgets the failures nobody joined.
FinishCloseSilently ==
    /\ session = "closing" /\ retired = 1..accepted
    /\ session' = "closed"
    /\ undelivered' = {}
    /\ UNCHANGED <<mutationFailure, reported, tensorVars, valueVars, requestVars, joinVars,
                   retired, held>>

\* #finishClose, after the last lease is gone.
FinishClose ==
    /\ session = "closing" /\ retired = 1..accepted
    /\ session' = "closed"
    /\ DeliverAll
    /\ UNCHANGED <<tensorVars, valueVars, requestVars, joinVars, retired, held>>

-----------------------------------------------------------------------------
Next ==
    \/ \E dst, src \in Tensors : Write(dst, src) \/ Acquire(dst, src)
    \/ \E dst, left, right \in Tensors : Derive(dst, left, right)
    \/ \E t \in Tensors : Observe(t) \/ Release(t) \/ CompleteGradient(t)
    \/ \E r \in Requests :
        \/ InheritFailure(r) \/ StartCopy(r) \/ FinishCopy(r)
        \/ DeliverToObserver(r) \/ StartObservation(r) \/ FinishObservation(r)
        \/ Retire(r)
    \/ Complete \/ CompleteReturns \/ Close \/ FinishClose

Spec == Init /\ [][Next]_vars

-----------------------------------------------------------------------------
(* Properties.                                                             *)

\* What a request still depends on when its generator first runs.
Needs(r) == IF kind[r] = "copy" THEN prerequisites[r] ELSE outcomes[captured[r]]

\* failedWriterOutcome never meets a pending outcome ("A captured writer has not
\* published its result."): everything an accepted request captured is resolved
\* by the time the request reaches the head of the queue.
CapturedWritersPublished ==
    \A r \in Requests : IsHead(r) => \A w \in Needs(r) : state[w] # "pending"

\* A request succeeds only when every write its operands were ever built from has
\* succeeded, although completed controls are dropped from each capture and a
\* write keeps none of its predecessors.
SuccessIsHonest ==
    \A r \in Requests : state[r] = "success" =>
        \A w \in history[r] : state[w] = "success"

\* After one failed write no later write succeeds, and all of them report that
\* one failure, also those accepted before it was known.
OneFailureRules ==
    \A w \in Requests : kind[w] = "copy" =>
        /\ state[w] = "failure" => cause[w] = mutationFailure
        /\ state[w] = "success" /\ mutationFailure # 0 => w < mutationFailure

\* A failed write is never swallowed: until some call has rejected with it, it is
\* kept for the next join, and close() is the last one.
FailureIsReported ==
    /\ mutationFailure # 0 => mutationFailure \in undelivered \cup reported
    /\ session = "closed" => undelivered = {}

\* complete() waits for every write accepted before the call, whatever else is
\* accepted or retired while it waits.
CompleteJoinsEarlierWrites ==
    completion = "resolved" =>
        \A w \in 1..joined : kind[w] = "copy" => state[w] # "pending"

\* The writer ledger counts exactly the live captures: a value or identity
\* releases the very snapshot it retained, even if a writer completed meanwhile.
LedgerIsBalanced ==
    /\ \A w \in Requests : held[w] =
        Cardinality({v \in Values : references[v] > 0 /\ w \in outcomes[v]})
        + Cardinality({t \in Tensors : w \in controls[t]})
        + Cardinality({r \in (1..accepted) \ retired : w \in prerequisites[r]})
    /\ pendingCopies = Cardinality({r \in (1..accepted) \ retired : kind[r] = "copy"})
=============================================================================
