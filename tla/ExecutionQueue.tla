--------------------------- MODULE ExecutionQueue ---------------------------
(***************************************************************************)
(* The session's queue of execution requests (runtime/execution-request.ts *)
(* and the request section of runtime/runtime.ts).                         *)
(*                                                                         *)
(* A request wraps a generator. The session advances only the head of the  *)
(* queue. A generator step yields either a plain Promise (CPU preparation),*)
(* a ticket of the local WebGPU backend or a ticket of the connected one;  *)
(* the last kind can also be read synchronously from shared memory. When   *)
(* the generator ends, the request publishes its outcome, leaves the queue,*)
(* and keeps its lease until every ticket it yielded has drained.          *)
(*                                                                         *)
(* JavaScript runs to completion, so one turn is `advancing' together with *)
(* the suspended public call `caller'; only the backend acts in between.   *)
(***************************************************************************)
EXTENDS Naturals, Sequences, FiniteSets

CONSTANTS
    MaxRequests,          \* bound on accepted requests
    MaxSteps              \* bound on the steps one generator yields

ASSUME MaxStepsAssumption == MaxSteps \in Nat
ASSUME RequestBoundAssumption == MaxRequests \in Nat

Requests == 1..MaxRequests
Steps == 1..MaxSteps

VARIABLES
    gpu,                  \* which WebGPU backend the session has
    \* RuntimeSession
    queue,                \* #requestHead ... #requestTail
    accepted,             \* requests enqueued so far; the newest is `accepted'
    advancing,            \* #advancing
    requestLeases,        \* #requestLeases
    session,              \* "open", "draining" (#drainCompletion), "drained", "closed"
    caller,               \* the public call whose turn is running, and its request
    \* ExecutionRequest, one entry per request
    kind,                 \* who asked: an effect, a Promise consumer, a reader
    waiting,              \* #waiting: the step waited on, 0 when undefined
    yielded,              \* how many steps the generator has yielded
    input,                \* #input
    outcome,              \* #outcome
    progress,             \* #asyncProgress, or #completion is defined
    drains,               \* after settlement: tickets that retirement awaits
    retired,              \* the #retire callback has run
    \* one entry per yielded step
    form,                 \* "promise", "local" or "shared"
    result,               \* what the backend has published
    drained,              \* the physical work is accounted for
    watch                 \* Promise reaction: "none", "armed" or "delivered"

requestVars == <<kind, waiting, yielded, input, outcome, progress>>
sessionVars == <<queue, accepted, advancing, caller>>
retireVars == <<drains, retired, requestLeases, session>>
stepVars == <<form, result, drained, watch>>
vars == <<gpu, sessionVars, requestVars, retireVars, stepVars>>

Idle == [op |-> "none", req |-> 0]
Callers == [op : {"none", "effect", "promise", "read", "drive"}, req : 0..MaxRequests]

TypeOK ==
    /\ gpu \in {"local", "shared"}
    /\ queue \in Seq(Requests)
    /\ accepted \in 0..MaxRequests
    /\ advancing \in BOOLEAN
    /\ requestLeases \in Nat
    /\ session \in {"open", "draining", "drained", "closed"}
    /\ caller \in Callers
    /\ kind \in [Requests -> {"none", "effect", "promise", "sync"}]
    /\ waiting \in [Requests -> 0..MaxSteps]
    /\ yielded \in [Requests -> 0..MaxSteps]
    /\ input \in [Requests -> {"none", "success", "failure"}]
    /\ outcome \in [Requests -> {"pending", "success", "failure"}]
    /\ progress \in [Requests -> BOOLEAN]
    /\ drains \in [Requests -> SUBSET Steps]
    /\ retired \in SUBSET Requests
    /\ form \in [Requests -> [Steps -> {"none", "promise", "local", "shared"}]]
    /\ result \in [Requests -> [Steps -> {"pending", "success", "failure"}]]
    /\ drained \in [Requests -> [Steps -> BOOLEAN]]
    /\ watch \in [Requests -> [Steps -> {"none", "armed", "delivered"}]]

Init ==
    /\ gpu \in {"local", "shared"}
    /\ queue = <<>> /\ accepted = 0 /\ advancing = FALSE /\ caller = Idle
    /\ requestLeases = 0 /\ session = "open" /\ retired = {}
    /\ kind = [r \in Requests |-> "none"]
    /\ waiting = [r \in Requests |-> 0]
    /\ yielded = [r \in Requests |-> 0]
    /\ input = [r \in Requests |-> "none"]
    /\ outcome = [r \in Requests |-> "pending"]
    /\ progress = [r \in Requests |-> FALSE]
    /\ drains = [r \in Requests |-> {}]
    /\ form = [r \in Requests |-> [i \in Steps |-> "none"]]
    /\ result = [r \in Requests |-> [i \in Steps |-> "pending"]]
    /\ drained = [r \in Requests |-> [i \in Steps |-> FALSE]]
    /\ watch = [r \in Requests |-> [i \in Steps |-> "none"]]

-----------------------------------------------------------------------------
(* Session entry points.                                                   *)

\* No public call and no queue loop is on the stack.
TurnIsFree == caller = Idle /\ ~advancing

\* #enqueue: take a lease, link the request at the tail, run the queue loop.
\* The returned request is then handed to `op', the rest of the public call.
Enqueue(k, op) ==
    LET r == accepted + 1 IN
    /\ accepted < MaxRequests
    /\ accepted' = r
    /\ kind' = [kind EXCEPT ![r] = k]
    /\ queue' = Append(queue, r)
    /\ requestLeases' = requestLeases + 1
    /\ advancing' = TRUE
    /\ caller' = [op |-> op, req |-> r]
    /\ UNCHANGED <<gpu, waiting, yielded, input, outcome, progress, drains,
                   retired, session, stepVars>>

\* #enqueueEffect (persistent writes), #prepare and #observe.
Accept(k) ==
    /\ TurnIsFree /\ session = "open"
    /\ Enqueue(k, k)

\* #observeSynchronously and #completeGradient first drive the predecessors.
Drive ==
    /\ TurnIsFree /\ session = "open"
    /\ caller' = [op |-> "drive", req |-> 0]
    /\ UNCHANGED <<gpu, queue, accepted, advancing, requestVars, retireVars, stepVars>>

\* Mutation: close() joins when the queue is empty, forgetting held leases.
CloseOnEmptyQueue ==
    /\ TurnIsFree /\ session = "open"
    /\ session' = IF queue = <<>> THEN "drained" ELSE "draining"
    /\ UNCHANGED <<gpu, sessionVars, requestVars, drains, retired, requestLeases, stepVars>>

\* close() reaches #drainRequests in the same turn; a second call joins the first.
Close ==
    /\ TurnIsFree /\ session = "open"
    /\ session' = IF requestLeases = 0 THEN "drained" ELSE "draining"
    /\ UNCHANGED <<gpu, sessionVars, requestVars, drains, retired, requestLeases, stepVars>>

\* The continuation of #finishClose: release residents, close the backends.
FinishClose ==
    /\ TurnIsFree /\ session = "drained"
    /\ session' = "closed"
    /\ UNCHANGED <<gpu, sessionVars, requestVars, drains, retired, requestLeases, stepVars>>

-----------------------------------------------------------------------------
(* One ExecutionRequest.                                                   *)

IsTicket(r, i) == form[r][i] \in {"local", "shared"}

\* The ticket has a `synchronous' side: its result can be read by blocking.
IsSynchronous(r, i) == form[r][i] = "shared"

\* Mutation: any notification resumes whatever step is waited on.
ResumeAnyStep(r, i, value) ==
    IF waiting[r] # 0
    THEN /\ waiting' = [waiting EXCEPT ![r] = 0]
         /\ input' = [input EXCEPT ![r] = value]
         /\ advancing' = TRUE
    ELSE UNCHANGED <<waiting, input, advancing>>

\* #resume: a notification for a step no longer waited on changes nothing.
Resume(r, i, value) ==
    IF waiting[r] = i
    THEN /\ waiting' = [waiting EXCEPT ![r] = 0]
         /\ input' = [input EXCEPT ![r] = value]
         /\ advancing' = TRUE
    ELSE UNCHANGED <<waiting, input, advancing>>

\* Mutation: mandatory progress requested before the step existed is forgotten.
ObservesUnreadableOnly(r, f) == f # "shared"

\* Whether #advance attaches the Promise reaction as soon as the step is yielded.
ObservesAtOnce(r, f) == f # "shared" \/ progress[r]

\* advance(), the generator yields. The head is unchanged, so the loop ends.
\* A generator whose last step failed never yields again; a synchronous
\* observation runs on a prepared backend and yields readable tickets only.
Yield(r, f) ==
    LET i == yielded[r] + 1 IN
    /\ advancing /\ queue # <<>> /\ r = Head(queue)
    /\ waiting[r] = 0 /\ outcome[r] = "pending"
    /\ input[r] # "failure" /\ i <= MaxSteps
    /\ f \in {"promise", gpu}
    /\ kind[r] = "sync" => f = "shared"
    /\ yielded' = [yielded EXCEPT ![r] = i]
    /\ waiting' = [waiting EXCEPT ![r] = i]
    /\ input' = [input EXCEPT ![r] = "none"]
    /\ form' = [form EXCEPT ![r][i] = f]
    /\ watch' = [watch EXCEPT ![r][i] = IF ObservesAtOnce(r, f) THEN "armed" ELSE "none"]
    /\ advancing' = FALSE
    /\ UNCHANGED <<gpu, queue, accepted, caller, kind, outcome, progress, retireVars,
                   result, drained>>

\* Mutation: a published failure is taken for the end of the physical work.
UndrainedUnanswered(r) == {i \in 1..yielded[r] : IsTicket(r, i) /\ result[r][i] = "pending"}

\* The tickets #settle still has to wait for: a local ticket cannot be asked.
Undrained(r) ==
    {i \in 1..yielded[r] : IsTicket(r, i) /\ ~(IsSynchronous(r, i) /\ drained[r][i])}

\* Mutation: the last retirement does not complete the join close() awaits.
RetireWithoutJoin(r) ==
    /\ retired' = retired \cup {r}
    /\ requestLeases' = requestLeases - 1
    /\ UNCHANGED session

\* The retire callback built by #enqueue.
Retire(r) ==
    /\ retired' = retired \cup {r}
    /\ requestLeases' = requestLeases - 1
    /\ session' = IF requestLeases' = 0 /\ session = "draining" THEN "drained" ELSE session

\* #settle retires at once when nothing is outstanding, else after the drains.
RetireOrAwait(r) ==
    /\ drains' = [drains EXCEPT ![r] = Undrained(r)]
    /\ IF Undrained(r) = {} THEN Retire(r)
       ELSE UNCHANGED <<retired, requestLeases, session>>

\* How the generator can end: a copy effect keeps its failure in the writer
\* outcome and returns; any other request rethrows a failed step.
Ends(r, o) ==
    /\ kind[r] = "effect" => o = "success"
    /\ kind[r] # "effect" /\ input[r] = "failure" => o = "failure"

\* advance(), the generator ends: #settle and #publishRequest. The queue loop
\* goes on with the next head.
Settle(r, o) ==
    /\ advancing /\ queue # <<>> /\ r = Head(queue)
    /\ waiting[r] = 0 /\ outcome[r] = "pending"
    /\ Ends(r, o)
    /\ outcome' = [outcome EXCEPT ![r] = o]
    /\ input' = [input EXCEPT ![r] = "none"]
    /\ queue' = Tail(queue)
    /\ advancing' = (Tail(queue) # <<>>)
    /\ RetireOrAwait(r)
    /\ UNCHANGED <<gpu, accepted, caller, kind, waiting, yielded, progress, stepVars>>

\* advance() returns at once for a waiting head, and the queue loop ends.
HeadIsWaiting ==
    /\ advancing /\ queue # <<>> /\ waiting[Head(queue)] # 0
    /\ advancing' = FALSE
    /\ UNCHANGED <<gpu, queue, accepted, caller, requestVars, retireVars, stepVars>>

-----------------------------------------------------------------------------
(* The rest of the public call, once its queue loop has ended.             *)

\* Mutation: a late observer records itself but never subscribes to the step.
ObserveWithoutReaction ==
    LET r == caller.req IN
    /\ ~advancing /\ caller.op \in {"effect", "promise"}
    /\ caller' = Idle
    /\ progress' = [progress EXCEPT ![r] = TRUE]
    /\ UNCHANGED <<gpu, queue, accepted, advancing, kind, waiting, yielded, input,
                   outcome, retireVars, stepVars>>

\* startAsyncProgress and asPromise: attach the reaction the step still lacks.
Observe ==
    LET r == caller.req IN
    /\ ~advancing /\ caller.op \in {"effect", "promise"}
    /\ caller' = Idle
    /\ IF outcome[r] = "pending"
       THEN /\ progress' = [progress EXCEPT ![r] = TRUE]
            /\ watch' = IF waiting[r] # 0 /\ watch[r][waiting[r]] = "none"
                        THEN [watch EXCEPT ![r][waiting[r]] = "armed"] ELSE watch
       ELSE UNCHANGED <<progress, watch>>
    /\ UNCHANGED <<gpu, queue, accepted, advancing, kind, waiting, yielded, input,
                   outcome, retireVars, form, result, drained>>

\* One blocking read of advanceSynchronously on request r.
ReadStep(r) ==
    LET i == waiting[r] IN
    /\ ~advancing /\ i # 0 /\ IsSynchronous(r, i)
    /\ result[r][i] # "pending"
    /\ Resume(r, i, result[r][i])
    /\ UNCHANGED <<gpu, queue, accepted, caller, kind, yielded, outcome, progress,
                   retireVars, stepVars>>

\* read() of the request the synchronous observation enqueued.
Read == caller.op = "read" /\ ReadStep(caller.req)

\* read() returns the outcome or throws it.
ReturnRead ==
    /\ ~advancing /\ caller.op = "read" /\ outcome[caller.req] # "pending"
    /\ caller' = Idle
    /\ UNCHANGED <<gpu, queue, accepted, advancing, requestVars, retireVars, stepVars>>

HeadIsReadable(r) ==
    queue # <<>> /\ r = Head(queue) /\ waiting[r] # 0 /\ IsSynchronous(r, waiting[r])

\* while (#requestHead !== undefined && #requestHead.advanceSynchronously())
DriveHead == caller.op = "drive" /\ queue # <<>> /\ ReadStep(Head(queue))

\* Mutation: a synchronous observation does not refuse a pending predecessor.
DriveDoneEarly ==
    /\ ~advancing /\ caller.op = "drive"
    /\ Enqueue("sync", "read")

\* The queue is empty: a synchronous observation enqueues its own request.
DriveDone ==
    /\ ~advancing /\ caller.op = "drive" /\ queue = <<>>
    /\ Enqueue("sync", "read")

\* #completeGradient returns, an unprepared or unreadable backend refuses, or
\* a predecessor needs the event loop: the call ends without a request.
DriveEnds ==
    /\ ~advancing /\ caller.op = "drive"
    /\ ~\E r \in Requests : HeadIsReadable(r)
    /\ caller' = Idle
    /\ UNCHANGED <<gpu, queue, accepted, advancing, requestVars, retireVars, stepVars>>

-----------------------------------------------------------------------------
(* The backend and the event loop.                                         *)

\* A step's result becomes available. The GPU worker publishes a success only
\* after its drain; a failure may precede it, or come with accounted loss.
\* A local ticket drains after its result.
Complete(r, i, o, d) ==
    /\ i <= yielded[r] /\ result[r][i] = "pending"
    /\ d => form[r][i] = "shared"
    /\ form[r][i] = "shared" /\ o = "success" => d
    /\ result' = [result EXCEPT ![r][i] = o]
    /\ drained' = [drained EXCEPT ![r][i] = d]
    /\ UNCHANGED <<gpu, sessionVars, requestVars, retireVars, form, watch>>

Drain(r, i) ==
    /\ result[r][i] # "pending" /\ IsTicket(r, i) /\ ~drained[r][i]
    /\ drained' = [drained EXCEPT ![r][i] = TRUE]
    /\ UNCHANGED <<gpu, sessionVars, requestVars, retireVars, form, result, watch>>

\* The Promise reaction of #observePending runs in a turn of its own.
Notify(r, i) ==
    /\ TurnIsFree
    /\ watch[r][i] = "armed" /\ result[r][i] # "pending"
    /\ watch' = [watch EXCEPT ![r][i] = "delivered"]
    /\ Resume(r, i, result[r][i])
    /\ UNCHANGED <<gpu, queue, accepted, caller, kind, yielded, outcome, progress,
                   retireVars, form, result, drained>>

\* Mutation: each drained ticket retires the request.
CountDownEachDrain(r, i) ==
    /\ ~advancing /\ (form[r][i] = "local" => caller = Idle)
    /\ i \in drains[r] /\ drained[r][i]
    /\ drains' = [drains EXCEPT ![r] = @ \ {i}]
    /\ Retire(r)
    /\ UNCHANGED <<gpu, sessionVars, requestVars, stepVars>>

\* retireAfterDrain counts one ticket down. A shared ticket calls back while
\* shared state advances (also inside a blocking read), a local one in a turn.
CountDownDrain(r, i) ==
    /\ ~advancing /\ (form[r][i] = "local" => caller = Idle)
    /\ i \in drains[r] /\ drained[r][i]
    /\ drains' = [drains EXCEPT ![r] = @ \ {i}]
    /\ IF drains[r] = {i} THEN Retire(r) ELSE UNCHANGED <<retired, requestLeases, session>>
    /\ UNCHANGED <<gpu, sessionVars, requestVars, stepVars>>

-----------------------------------------------------------------------------
Backend ==
    \E r \in Requests, i \in Steps :
        \/ \E o \in {"success", "failure"}, d \in BOOLEAN : Complete(r, i, o, d)
        \/ Drain(r, i)

EventLoop == \E r \in Requests, i \in Steps : Notify(r, i) \/ CountDownDrain(r, i)

QueueLoop ==
    \/ HeadIsWaiting
    \/ \E r \in Requests :
        \/ \E f \in {"promise", "local", "shared"} : Yield(r, f)
        \/ \E o \in {"success", "failure"} : Settle(r, o)

Turn == Observe \/ Read \/ ReturnRead \/ DriveHead \/ DriveDone \/ DriveEnds

\* The calls the program's user makes; nothing obliges anyone to make them.
User == Drive \/ Close \/ \E k \in {"effect", "promise"} : Accept(k)

Next == User \/ QueueLoop \/ Turn \/ FinishClose \/ EventLoop \/ Backend

Spec == Init /\ [][Next]_vars

\* A turn that has begun runs to its end. The event loop delivers what is due
\* between two calls of the user, however many calls there are. The backend
\* eventually answers every ticket or accounts for it. Only finitely many
\* deliveries and answers exist, so fairness of each group is fairness of each.
Fairness ==
    /\ WF_vars(QueueLoop \/ Turn)
    /\ SF_vars(EventLoop \/ FinishClose)
    /\ WF_vars(Backend)

FairSpec == Spec /\ Fairness

-----------------------------------------------------------------------------
(* Properties.                                                             *)

\* No work is stranded. Whenever the session hands control back to the event
\* loop with requests queued, the head waits on a step whose Promise reaction
\* is attached and not yet used up, so some later turn resumes the queue. An
\* observer attached too late, or a head left runnable, would hang the session.
PendingWorkHasWaker ==
    TurnIsFree /\ queue # <<>> =>
        LET h == Head(queue) IN waiting[h] # 0 /\ watch[h][waiting[h]] = "armed"

\* read() never reaches its "has not reached a terminal result" throw: while it
\* has no outcome, the request it reads is at a step that can be read by blocking.
ReadReachesTerminal ==
    caller.op = "read" /\ ~advancing /\ outcome[caller.req] = "pending" =>
        waiting[caller.req] # 0 /\ IsSynchronous(caller.req, waiting[caller.req])

\* A generator is resumed with the result of the very step it yielded last, also
\* when a blocking read overtook the Promise reaction of an earlier step.
InputMatchesStep ==
    \A r \in Requests : input[r] # "none" =>
        yielded[r] # 0 /\ input[r] = result[r][yielded[r]]

\* The pins of a request (captured values, prerequisites, device memory) outlive
\* every ticket it yielded, including tickets whose failure was published early.
RetiredOnlyAfterDrain ==
    \A r \in retired :
        /\ outcome[r] # "pending"
        /\ \A i \in 1..yielded[r] : IsTicket(r, i) => drained[r][i]

\* Whatever order promises, device work and blocking reads finish in: no request
\* is stranded, read too early, fed a foreign result or retired under its work.
QueueIsSound ==
    TypeOK /\ PendingWorkHasWaker /\ ReadReachesTerminal /\ InputMatchesStep /\ RetiredOnlyAfterDrain

\* The queue keeps the session's promise: outcomes in acceptance order, one
\* retirement each, and a close() join that waits for all of them.
Abstract == INSTANCE OrderedExecution WITH
    published <- {r \in Requests : outcome[r] # "pending"},
    session <- CASE session = "open" -> "open"
                 [] session \in {"draining", "drained"} -> "closing"
                 [] OTHER -> "joined"

ImplementsOrderedExecution == Abstract!Spec

\* Every accepted request publishes an outcome, whoever observes it, and close()
\* always completes, whatever was in flight when it was called.
AcceptedWorkSettles ==
    /\ \A r \in Requests : r <= accepted ~> outcome[r] # "pending"
    /\ session # "open" ~> session = "closed"
=============================================================================
