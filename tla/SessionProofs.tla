---------------------------- MODULE SessionProofs ----------------------------
(***************************************************************************)
(* What a session keeps on the side of the program: proofs about           *)
(* ExecutionQueue, for any number of requests and steps, and about         *)
(* PythonConnection, for any number of attachments and commands. Every     *)
(* step of the queue is one of OrderedExecution too, or leaves that        *)
(* abstraction alone.                                                      *)
(*                                                                         *)
(* The idea for the queue: requests are numbered as accepted, and the      *)
(* queue is always the interval of those that have not published. Only its *)
(* head can have yielded, and only the request of the call whose turn is   *)
(* running can be unobserved, so a waiting head whose Promise reaction is  *)
(* missing is that request, and the rest of the call will read it or       *)
(* attach the reaction.                                                    *)
(*                                                                         *)
(* The idea for the connection: how a command ended is written once (a     *)
(* script that belongs to a command is the one the service runs, and no    *)
(* other step settles that command), so a message on its way to the client *)
(* stays true; and the client's close is the last command it sends, so the *)
(* answer it takes for the close's is the close's.                         *)
(***************************************************************************)
EXTENDS ExecutionQueue, PythonConnection, FiniteSetTheorems, SequenceTheorems, TLAPS

\* Requests that have published: those accepted before the ones in the queue.
Published == accepted - Len(queue)

Order ==
    /\ Len(queue) <= accepted
    /\ \A i \in 1..Len(queue) : queue[i] = Published + i
    /\ \A r \in Requests : outcome[r] # "pending" <=> r <= Published

\* One request's generator: what lies beyond its last yield is untouched.
StepsOf(r) ==
    /\ waiting[r] \in {0, yielded[r]}
    /\ yielded[r] # 0 => r <= accepted /\ r <= Published + 1
    /\ waiting[r] # 0 => outcome[r] = "pending" /\ input[r] = "none"
    /\ input[r] # "none" => /\ outcome[r] = "pending" /\ yielded[r] # 0
                            /\ input[r] = result[r][yielded[r]]
    /\ kind[r] = "sync" => \A i \in 1..yielded[r] : form[r][i] = "shared"
    /\ \A i \in Steps :
        /\ i > yielded[r] => result[r][i] = "pending" /\ watch[r][i] = "none"
        /\ drained[r][i] => result[r][i] # "pending"

\* A step waited on has its reaction attached, or nobody has asked for one yet.
Awaited(r) ==
    waiting[r] # 0 => \/ watch[r][waiting[r]] = "armed"
                      \/ watch[r][waiting[r]] = "none" /\ ~progress[r]

\* Only the request of the call whose turn is running may be without observer.
Observed ==
    /\ \A r \in Requests : Awaited(r)
    /\ \A r \in 1..accepted : outcome[r] = "pending" /\ ~progress[r] =>
        caller.op \in {"effect", "promise", "read"} /\ caller.req = r
    /\ ~advancing /\ queue # <<>> => waiting[Head(queue)] # 0

\* The request of the running call is the newest; a read has no predecessor.
Calls ==
    /\ caller # Idle => session = "open"
    /\ caller.op = "none" => caller = Idle
    /\ caller.op \in {"effect", "promise", "read"} => caller.req = accepted /\ accepted # 0
    /\ caller.op = "read" => kind[caller.req] = "sync" /\ Len(queue) <= 1

\* A settled request stays leased while a ticket it yielded is undrained.
DrainsOf(r) ==
    /\ drains[r] \subseteq 1..yielded[r]
    /\ outcome[r] = "pending" => drains[r] = {} /\ r \notin retired
    /\ outcome[r] # "pending" =>
        /\ r \in retired <=> drains[r] = {}
        /\ \A i \in 1..yielded[r] : IsTicket(r, i) => drained[r][i] \/ i \in drains[r]

Leased == (1..accepted) \ retired

Leases ==
    /\ requestLeases = Cardinality(Leased)
    /\ session \in {"drained", "closed"} => requestLeases = 0

IInv ==
    /\ TypeOK /\ Order /\ Observed /\ Calls /\ Leases
    /\ \A r \in Requests : StepsOf(r) /\ DrainsOf(r)

-----------------------------------------------------------------------------
(* What a step leaves alone.                                               *)

\* The step does not touch request x.
Same(x) ==
    /\ kind'[x] = kind[x] /\ waiting'[x] = waiting[x] /\ yielded'[x] = yielded[x]
    /\ input'[x] = input[x] /\ outcome'[x] = outcome[x] /\ progress'[x] = progress[x]
    /\ form'[x] = form[x] /\ result'[x] = result[x]
    /\ drained'[x] = drained[x] /\ watch'[x] = watch[x]

\* The head of the queue is the oldest request that has not published.
LEMMA HeadIsNext ==
    ASSUME TypeOK, Order, queue # <<>>
    PROVE  /\ Head(queue) = Published + 1 /\ Published + 1 \in 1..accepted
           /\ Published \in Nat /\ Len(queue) > 0
           /\ Head(queue) \in Requests /\ outcome[Head(queue)] = "pending"
<1>1. Len(queue) \in Nat /\ Len(queue) > 0 /\ Head(queue) = queue[1] /\ queue[1] \in Requests
    BY DEF TypeOK
<1>2. queue[1] = Published + 1 /\ Published \in Nat
    BY <1>1 DEF Order, Published, TypeOK
<1>3. Published + 1 \in 1..accepted
    BY <1>1, <1>2 DEF Published, TypeOK
<1>4. outcome[Published + 1] = "pending"
    <2>1. Published + 1 \in Requests
        BY <1>1, <1>2
    <2> QED BY <2>1, <1>2 DEF Order
<1> QED BY <1>1, <1>2, <1>3, <1>4

\* Only the outcomes of a request's steps decide what its generator yielded.
LEMMA StepsFrame ==
    ASSUME NEW x \in Requests, StepsOf(x), Same(x), TypeOK, accepted' \in Nat, Len(queue') \in Nat,
           accepted <= accepted', Published <= Published'
    PROVE  StepsOf(x)'
<1> USE RequestBoundAssumption, MaxStepsAssumption DEF Requests, Steps
<1>1. /\ yielded[x] \in Nat /\ accepted \in Nat /\ Len(queue) \in Nat
    BY DEF TypeOK
<1>2. yielded[x] # 0 => x <= accepted' /\ x <= Published' + 1
    BY <1>1 DEF StepsOf, Published
<1> QED BY <1>2 DEF StepsOf, Same

\* Only the drains decide which of a request's drains are still open.
LEMMA DrainsFrame ==
    ASSUME NEW x \in Requests, DrainsOf(x), Same(x),
           drains'[x] = drains[x], x \in retired' <=> x \in retired
    PROVE  DrainsOf(x)'
BY DEF DrainsOf, Same, IsTicket

-----------------------------------------------------------------------------
(* The generator and the queue loop.                                       *)

LEMMA YieldKeeps ==
    ASSUME IInv, NEW r \in Requests, NEW f \in {"promise", "local", "shared"}, Yield(r, f)
    PROVE  IInv'
<1> DEFINE i == yielded[r] + 1
<1>1. /\ TypeOK /\ Order /\ Observed /\ Calls /\ Leases
      /\ \A x \in Requests : StepsOf(x) /\ DrainsOf(x)
    BY DEF IInv
<1>2. /\ r = Published + 1 /\ r \in 1..accepted /\ Published \in Nat /\ r = Head(queue)
    BY <1>1, HeadIsNext DEF Yield
<1>3. i \in Steps /\ yielded[r] \in Nat
    BY <1>1 DEF Yield, TypeOK, Steps
<1>4. UNCHANGED <<queue, accepted, outcome, kind, progress, caller, session, drains, retired,
                  requestLeases, result, drained, gpu>>
    BY DEF Yield, retireVars
<1>5. /\ yielded' = [yielded EXCEPT ![r] = i] /\ waiting' = [waiting EXCEPT ![r] = i]
      /\ input' = [input EXCEPT ![r] = "none"] /\ advancing' = FALSE
      /\ form' = [form EXCEPT ![r] = [form[r] EXCEPT ![i] = f]]
      /\ watch' = [watch EXCEPT ![r] =
                       [watch[r] EXCEPT ![i] = IF f # "shared" \/ progress[r] THEN "armed" ELSE "none"]]
    BY <1>1, <1>3 DEF Yield, ObservesAtOnce, TypeOK
<1>6. TypeOK'
    <2>1. yielded' \in [Requests -> 0..MaxSteps] /\ waiting' \in [Requests -> 0..MaxSteps]
        BY <1>1, <1>3, <1>5, MaxStepsAssumption DEF TypeOK, Steps
    <2>2. form' \in [Requests -> [Steps -> {"none", "promise", "local", "shared"}]]
        BY <1>1, <1>3, <1>5 DEF TypeOK
    <2>3. watch' \in [Requests -> [Steps -> {"none", "armed", "delivered"}]]
        BY <1>1, <1>3, <1>5 DEF TypeOK
    <2>4. input' \in [Requests -> {"none", "success", "failure"}]
        BY <1>1, <1>5 DEF TypeOK
    <2> QED BY <1>1, <1>4, <1>5, <2>1, <2>2, <2>3, <2>4 DEF TypeOK
<1>7. Order' /\ Calls' /\ Leases'
    BY <1>1, <1>4 DEF Order, Calls, Leases, Leased, Published
<1>8. \A x \in Requests : x # r => Same(x)
    BY <1>1, <1>4, <1>5 DEF Same, TypeOK
<1>9. Observed'
    <2>1. waiting'[r] = i /\ waiting'[r] # 0
        BY <1>1, <1>3, <1>5 DEF TypeOK
    <2>2. watch'[r][i] = IF f # "shared" \/ progress[r] THEN "armed" ELSE "none"
        BY <1>1, <1>3, <1>5 DEF TypeOK
    <2>3. Awaited(r)'
        BY <1>4, <2>1, <2>2 DEF Awaited
    <2>4. \A x \in Requests : x # r => Awaited(x)'
        BY <1>1, <1>8 DEF Observed, Awaited, Same
    <2> QED BY <1>1, <1>2, <1>4, <2>1, <2>3, <2>4 DEF Observed
<1>10. StepsOf(r)'
    <2>1. yielded'[r] = i /\ waiting'[r] = i /\ input'[r] = "none" /\ outcome[r] = "pending"
        BY <1>1, <1>5, <1>3 DEF TypeOK, Yield
    <2>2. kind[r] = "sync" => \A j \in 1..i : form'[r][j] = "shared"
        <3> SUFFICES ASSUME kind[r] = "sync", NEW j \in 1..i PROVE form'[r][j] = "shared"
            OBVIOUS
        <3>1. f = "shared"
            BY DEF Yield
        <3>2. j \in Steps /\ (j # i => j \in 1..yielded[r])
            BY <1>3, MaxStepsAssumption DEF Steps
        <3>3. j # i => form[r][j] = "shared"
            BY <1>1, <3>2 DEF StepsOf
        <3> QED BY <1>1, <1>3, <1>5, <3>1, <3>2, <3>3 DEF TypeOK
    <2>3. \A j \in Steps : j > i => result[r][j] = "pending" /\ watch'[r][j] = "none"
        <3> SUFFICES ASSUME NEW j \in Steps, j > i
                     PROVE  result[r][j] = "pending" /\ watch'[r][j] = "none"
            OBVIOUS
        <3>1. j > yielded[r] /\ j # i
            BY <1>3 DEF Steps
        <3>2. watch'[r][j] = watch[r][j]
            BY <1>1, <1>5, <3>1 DEF TypeOK
        <3> QED BY <1>1, <3>1, <3>2 DEF StepsOf
    <2>4. \A j \in Steps : drained[r][j] => result[r][j] # "pending"
        BY <1>1 DEF StepsOf
    <2>5. Published' = Published
        BY <1>4 DEF Published
    <2> QED BY <1>2, <1>4, <2>1, <2>2, <2>3, <2>4, <2>5 DEF StepsOf
<1>11. \A x \in Requests : StepsOf(x)'
    <2> SUFFICES ASSUME NEW x \in Requests, x # r PROVE StepsOf(x)'
        BY <1>10
    <2>1. Published' = Published
        BY <1>4 DEF Published
    <2>2. accepted \in Nat /\ Len(queue) \in Nat
        BY <1>1 DEF TypeOK
    <2> QED BY <1>1, <1>2, <1>4, <1>8, <2>1, <2>2, StepsFrame
<1>12. \A x \in Requests : DrainsOf(x)'
    <2>1. DrainsOf(r)'
        <3>1. outcome[r] = "pending" /\ drains'[r] = {} /\ r \notin retired'
            BY <1>1, <1>4 DEF Yield, DrainsOf
        <3> QED BY <1>4, <3>1 DEF DrainsOf
    <2> QED BY <1>1, <1>4, <1>8, <2>1, DrainsFrame
<1> QED BY <1>6, <1>7, <1>9, <1>11, <1>12 DEF IInv

-----------------------------------------------------------------------------
(* Steps that touch no request.                                            *)

\* The parts of the invariant about requests only see requests.
LEMMA NoRequestFrame ==
    ASSUME IInv, UNCHANGED <<queue, accepted, requestVars, stepVars, drains, retired>>
    PROVE  /\ Order' /\ \A x \in Requests : StepsOf(x)' /\ DrainsOf(x)' /\ Awaited(x)'
           /\ Published' = Published /\ Leased' = Leased
<1>1. Order' /\ Published' = Published /\ Leased' = Leased
    BY DEF IInv, Order, Published, Leased, requestVars
<1>2. \A x \in Requests : StepsOf(x)'
    BY DEF IInv, StepsOf, requestVars, stepVars, Published
<1>3. \A x \in Requests : DrainsOf(x)'
    BY DEF IInv, DrainsOf, IsTicket, requestVars, stepVars
<1>4. \A x \in Requests : Awaited(x)'
    BY DEF IInv, Observed, Awaited, requestVars, stepVars
<1> QED BY <1>1, <1>2, <1>3, <1>4

\* The loop reaching a head that waits leaves everything but the loop alone.
LEMMA HeadIsWaitingKeeps ==
    ASSUME IInv, HeadIsWaiting
    PROVE  IInv'
<1>1. /\ TypeOK /\ Order /\ Observed /\ Calls /\ Leases
      /\ UNCHANGED <<gpu, queue, accepted, requestVars, stepVars, drains, retired, requestLeases>>
    BY DEF IInv, HeadIsWaiting, sessionVars, retireVars
<1>2. /\ Order' /\ \A x \in Requests : StepsOf(x)' /\ DrainsOf(x)' /\ Awaited(x)'
      /\ Leased' = Leased
    BY <1>1, NoRequestFrame
<1>3. TypeOK'
    <2>1. caller' \in Callers /\ advancing' \in BOOLEAN /\ session' \in {"open", "draining", "drained", "closed"}
        BY <1>1, RequestBoundAssumption DEF TypeOK, Callers, Idle, HeadIsWaiting, sessionVars, retireVars
    <2> QED BY <1>1, <2>1 DEF TypeOK, requestVars, stepVars
<1>4. Observed'
    BY <1>1, <1>2 DEF Observed, Calls, HeadIsWaiting, TurnIsFree, Idle, requestVars, sessionVars
<1>5. Calls'
    BY <1>1 DEF Calls, HeadIsWaiting, TurnIsFree, Idle, requestVars, sessionVars, retireVars
<1>6. Leases'
    BY <1>1, <1>2 DEF Leases, HeadIsWaiting, retireVars
<1> QED BY <1>2, <1>3, <1>4, <1>5, <1>6 DEF IInv

\* A blocking read returns once its request has published.
LEMMA ReturnReadKeeps ==
    ASSUME IInv, ReturnRead
    PROVE  IInv'
<1>1. /\ TypeOK /\ Order /\ Observed /\ Calls /\ Leases
      /\ UNCHANGED <<gpu, queue, accepted, requestVars, stepVars, drains, retired, requestLeases>>
    BY DEF IInv, ReturnRead, sessionVars, retireVars
<1>2. /\ Order' /\ \A x \in Requests : StepsOf(x)' /\ DrainsOf(x)' /\ Awaited(x)'
      /\ Leased' = Leased
    BY <1>1, NoRequestFrame
<1>3. TypeOK'
    <2>1. caller' \in Callers /\ advancing' \in BOOLEAN /\ session' \in {"open", "draining", "drained", "closed"}
        BY <1>1, RequestBoundAssumption DEF TypeOK, Callers, Idle, ReturnRead, sessionVars, retireVars
    <2> QED BY <1>1, <2>1 DEF TypeOK, requestVars, stepVars
<1>4. Observed'
    BY <1>1, <1>2 DEF Observed, Calls, ReturnRead, TurnIsFree, Idle, requestVars, sessionVars
<1>5. Calls'
    BY <1>1 DEF Calls, ReturnRead, TurnIsFree, Idle, requestVars, sessionVars, retireVars
<1>6. Leases'
    BY <1>1, <1>2 DEF Leases, ReturnRead, retireVars
<1> QED BY <1>2, <1>3, <1>4, <1>5, <1>6 DEF IInv

\* A synchronous call that ends without a request leaves only itself behind.
LEMMA DriveEndsKeeps ==
    ASSUME IInv, DriveEnds
    PROVE  IInv'
<1>1. /\ TypeOK /\ Order /\ Observed /\ Calls /\ Leases
      /\ UNCHANGED <<gpu, queue, accepted, requestVars, stepVars, drains, retired, requestLeases>>
    BY DEF IInv, DriveEnds, sessionVars, retireVars
<1>2. /\ Order' /\ \A x \in Requests : StepsOf(x)' /\ DrainsOf(x)' /\ Awaited(x)'
      /\ Leased' = Leased
    BY <1>1, NoRequestFrame
<1>3. TypeOK'
    <2>1. caller' \in Callers /\ advancing' \in BOOLEAN /\ session' \in {"open", "draining", "drained", "closed"}
        BY <1>1, RequestBoundAssumption DEF TypeOK, Callers, Idle, DriveEnds, sessionVars, retireVars
    <2> QED BY <1>1, <2>1 DEF TypeOK, requestVars, stepVars
<1>4. Observed'
    BY <1>1, <1>2 DEF Observed, Calls, DriveEnds, TurnIsFree, Idle, requestVars, sessionVars
<1>5. Calls'
    BY <1>1 DEF Calls, DriveEnds, TurnIsFree, Idle, requestVars, sessionVars, retireVars
<1>6. Leases'
    BY <1>1, <1>2 DEF Leases, DriveEnds, retireVars
<1> QED BY <1>2, <1>3, <1>4, <1>5, <1>6 DEF IInv

\* A synchronous call starts in a free turn.
LEMMA DriveKeeps ==
    ASSUME IInv, Drive
    PROVE  IInv'
<1>1. /\ TypeOK /\ Order /\ Observed /\ Calls /\ Leases
      /\ UNCHANGED <<gpu, queue, accepted, requestVars, stepVars, drains, retired, requestLeases>>
    BY DEF IInv, Drive, sessionVars, retireVars
<1>2. /\ Order' /\ \A x \in Requests : StepsOf(x)' /\ DrainsOf(x)' /\ Awaited(x)'
      /\ Leased' = Leased
    BY <1>1, NoRequestFrame
<1>3. TypeOK'
    <2>1. caller' \in Callers /\ advancing' \in BOOLEAN /\ session' \in {"open", "draining", "drained", "closed"}
        BY <1>1, RequestBoundAssumption DEF TypeOK, Callers, Idle, Drive, sessionVars, retireVars
    <2> QED BY <1>1, <2>1 DEF TypeOK, requestVars, stepVars
<1>4. Observed'
    BY <1>1, <1>2 DEF Observed, Calls, Drive, TurnIsFree, Idle, requestVars, sessionVars
<1>5. Calls'
    BY <1>1 DEF Calls, Drive, TurnIsFree, Idle, requestVars, sessionVars, retireVars
<1>6. Leases'
    BY <1>1, <1>2 DEF Leases, Drive, retireVars
<1> QED BY <1>2, <1>3, <1>4, <1>5, <1>6 DEF IInv

\* close() stops admissions and waits for the queue.
LEMMA CloseKeeps ==
    ASSUME IInv, Close
    PROVE  IInv'
<1>1. /\ TypeOK /\ Order /\ Observed /\ Calls /\ Leases
      /\ UNCHANGED <<gpu, queue, accepted, requestVars, stepVars, drains, retired, requestLeases>>
    BY DEF IInv, Close, sessionVars, retireVars
<1>2. /\ Order' /\ \A x \in Requests : StepsOf(x)' /\ DrainsOf(x)' /\ Awaited(x)'
      /\ Leased' = Leased
    BY <1>1, NoRequestFrame
<1>3. TypeOK'
    <2>1. caller' \in Callers /\ advancing' \in BOOLEAN /\ session' \in {"open", "draining", "drained", "closed"}
        BY <1>1, RequestBoundAssumption DEF TypeOK, Callers, Idle, Close, sessionVars, retireVars
    <2> QED BY <1>1, <2>1 DEF TypeOK, requestVars, stepVars
<1>4. Observed'
    BY <1>1, <1>2 DEF Observed, Calls, Close, TurnIsFree, Idle, requestVars, sessionVars
<1>5. Calls'
    BY <1>1 DEF Calls, Close, TurnIsFree, Idle, requestVars, sessionVars, retireVars
<1>6. Leases'
    BY <1>1, <1>2 DEF Leases, Close, retireVars
<1> QED BY <1>2, <1>3, <1>4, <1>5, <1>6 DEF IInv

\* The session closes behind the last request.
LEMMA FinishCloseKeeps ==
    ASSUME IInv, FinishClose
    PROVE  IInv'
<1>1. /\ TypeOK /\ Order /\ Observed /\ Calls /\ Leases
      /\ UNCHANGED <<gpu, queue, accepted, requestVars, stepVars, drains, retired, requestLeases>>
    BY DEF IInv, FinishClose, sessionVars, retireVars
<1>2. /\ Order' /\ \A x \in Requests : StepsOf(x)' /\ DrainsOf(x)' /\ Awaited(x)'
      /\ Leased' = Leased
    BY <1>1, NoRequestFrame
<1>3. TypeOK'
    <2>1. caller' \in Callers /\ advancing' \in BOOLEAN /\ session' \in {"open", "draining", "drained", "closed"}
        BY <1>1, RequestBoundAssumption DEF TypeOK, Callers, Idle, FinishClose, sessionVars, retireVars
    <2> QED BY <1>1, <2>1 DEF TypeOK, requestVars, stepVars
<1>4. Observed'
    BY <1>1, <1>2 DEF Observed, Calls, FinishClose, TurnIsFree, Idle, requestVars, sessionVars
<1>5. Calls'
    BY <1>1 DEF Calls, FinishClose, TurnIsFree, Idle, requestVars, sessionVars, retireVars
<1>6. Leases'
    BY <1>1, <1>2 DEF Leases, FinishClose, retireVars
<1> QED BY <1>2, <1>3, <1>4, <1>5, <1>6 DEF IInv

-----------------------------------------------------------------------------
(* Results, drains and notifications.                                      *)

\* A Promise reaction or a blocking read delivers the result of step i.
LEMMA ResumeKeeps ==
    ASSUME IInv, NEW r \in Requests, NEW i \in Steps,
           result[r][i] # "pending", Resume(r, i, result[r][i]),
           UNCHANGED <<gpu, queue, accepted, caller, kind, yielded, outcome, progress,
                       retireVars, form, result, drained>>,
           \/ UNCHANGED watch /\ waiting[r] = i
           \/ watch' = [watch EXCEPT ![r] = [watch[r] EXCEPT ![i] = "delivered"]]
    PROVE  IInv'
<1>1. /\ TypeOK /\ Order /\ Observed /\ Calls /\ Leases
      /\ \A x \in Requests : StepsOf(x) /\ DrainsOf(x)
    BY DEF IInv
<1>2. i \in 1..MaxSteps /\ i \in Nat /\ yielded[r] \in Nat /\ i <= yielded[r]
    BY <1>1, MaxStepsAssumption DEF Steps, TypeOK, StepsOf
<1>3. \A x \in Requests : x # r => Same(x) /\ waiting'[x] = waiting[x]
    BY <1>1 DEF Same, TypeOK, Resume
<1>4. /\ waiting[r] = i => waiting'[r] = 0 /\ input'[r] = result[r][i] /\ advancing' = TRUE
      /\ waiting[r] # i => UNCHANGED <<waiting, input, advancing>>
    BY <1>1 DEF Resume, TypeOK
<1>5. \A j \in Steps : j # i => watch'[r][j] = watch[r][j]
    BY <1>1 DEF TypeOK
<1>6. TypeOK'
    <2>1. watch' \in [Requests -> [Steps -> {"none", "armed", "delivered"}]]
        <3>1. CASE UNCHANGED watch
            BY <1>1, <3>1 DEF TypeOK
        <3>2. CASE watch' = [watch EXCEPT ![r] = [watch[r] EXCEPT ![i] = "delivered"]]
            BY <1>1, <3>2 DEF TypeOK
        <3> QED BY <3>1, <3>2
    <2>2. result[r][i] \in {"success", "failure"}
        BY <1>1 DEF TypeOK
    <2>3. waiting' \in [Requests -> 0..MaxSteps] /\ advancing' \in BOOLEAN
        <3>1. 0 \in 0..MaxSteps
            BY MaxStepsAssumption
        <3>2. CASE waiting[r] = i
            <4>1. waiting' = [waiting EXCEPT ![r] = 0] /\ advancing' = TRUE
                BY <3>2 DEF Resume
            <4>2. waiting \in [Requests -> 0..MaxSteps]
                BY <1>1 DEF TypeOK
            <4> QED BY <3>1, <4>1, <4>2
        <3>3. CASE waiting[r] # i
            BY <1>1, <3>3 DEF TypeOK, Resume
        <3> QED BY <3>2, <3>3
    <2>4. input' \in [Requests -> {"none", "success", "failure"}]
        BY <1>1, <2>2 DEF TypeOK, Resume
    <2> QED BY <1>1, <2>1, <2>3, <2>4 DEF TypeOK, retireVars
<1>7. Order' /\ Calls' /\ Leases'
    BY <1>1 DEF Order, Calls, Leases, Leased, Published, retireVars
<1>8. StepsOf(r)'
    <2>1. Published' = Published
        BY DEF Published
    <2>2. \A j \in Steps : j > yielded[r] => watch'[r][j] = "none"
        BY <1>1, <1>2, <1>5 DEF StepsOf
    <2>3. CASE waiting[r] = i
        <3>1. i # 0 /\ yielded[r] = i /\ outcome[r] = "pending"
            BY <1>1, <1>2, <2>3 DEF StepsOf
        <3> QED BY <1>1, <1>4, <2>1, <2>2, <2>3, <3>1 DEF StepsOf
    <2>4. CASE waiting[r] # i
        BY <1>1, <1>4, <2>1, <2>2, <2>4 DEF StepsOf
    <2> QED BY <2>3, <2>4
<1>9. \A x \in Requests : StepsOf(x)'
    <2>1. Published' = Published /\ accepted \in Nat /\ Len(queue) \in Nat /\ Published \in Int
        BY <1>1 DEF Published, TypeOK
    <2> QED BY <1>1, <1>3, <1>8, <2>1, StepsFrame
<1>10. \A x \in Requests : DrainsOf(x)'
    BY <1>1 DEF DrainsOf, IsTicket, retireVars
<1>11. Observed'
    <2>1. Awaited(r)'
        <3>1. CASE waiting[r] = i
            BY <1>4, <3>1 DEF Awaited
        <3>2. CASE waiting[r] # i
            <4>1. waiting[r] # 0 => waiting[r] \in Steps
                BY <1>1, MaxStepsAssumption DEF TypeOK, Steps
            <4> QED BY <1>1, <1>4, <1>5, <3>2, <4>1 DEF Awaited, Observed
        <3> QED BY <3>1, <3>2
    <2>2. \A x \in Requests : x # r => Awaited(x)'
        BY <1>1, <1>3 DEF Awaited, Observed, Same
    <2>3. ~advancing' /\ queue # <<>> => waiting'[Head(queue)] # 0
        BY <1>1, <1>4 DEF Observed
    <2> QED BY <1>1, <2>1, <2>2, <2>3 DEF Observed
<1> QED BY <1>6, <1>7, <1>9, <1>10, <1>11 DEF IInv

\* A blocking read resumes its request with the result of the step it waited on.
LEMMA ReadStepKeeps ==
    ASSUME IInv, NEW r \in Requests, ReadStep(r)
    PROVE  IInv'
<1>1. waiting[r] \in Steps
    BY MaxStepsAssumption DEF IInv, TypeOK, Steps, ReadStep
<1> QED BY <1>1, ResumeKeeps DEF ReadStep, retireVars, stepVars

\* A Promise reaction resumes its request with the result of the step.
LEMMA NotifyKeeps ==
    ASSUME IInv, NEW r \in Requests, NEW i \in Steps, Notify(r, i)
    PROVE  IInv'
<1>1. watch' = [watch EXCEPT ![r] = [watch[r] EXCEPT ![i] = "delivered"]]
    BY DEF Notify
<1> QED BY <1>1, ResumeKeeps DEF Notify

\* The backend answers or accounts for a step; nobody has been told yet.
LEMMA BackendKeeps ==
    ASSUME IInv, NEW r \in Requests, NEW i \in Steps,
           UNCHANGED <<gpu, sessionVars, requestVars, retireVars, form, watch>>,
           NEW o \in {"success", "failure"}, NEW d \in BOOLEAN,
           i <= yielded[r], result[r][i] # "pending" => result[r][i] = o,
           result' = [result EXCEPT ![r] = [result[r] EXCEPT ![i] = o]],
           drained[r][i] => d,
           drained' = [drained EXCEPT ![r] = [drained[r] EXCEPT ![i] = d]]
    PROVE  IInv'
<1>1. /\ TypeOK /\ Order /\ Observed /\ Calls /\ Leases
      /\ \A x \in Requests : StepsOf(x) /\ DrainsOf(x)
    BY DEF IInv
<1>2. /\ UNCHANGED <<queue, accepted, advancing, caller, kind, waiting, yielded, input, outcome>>
      /\ UNCHANGED <<progress, drains, retired, requestLeases, session, form, watch>>
    BY DEF sessionVars, requestVars, retireVars
<1>3. TypeOK'
    BY <1>1, <1>2 DEF TypeOK
<1>4. Order' /\ Calls' /\ Leases' /\ Observed'
    BY <1>1, <1>2 DEF Order, Calls, Leases, Leased, Published, Observed, Awaited
<1>5. \A x \in Requests, j \in Steps :
        /\ result[x][j] # "pending" => result'[x][j] = result[x][j]
        /\ drained[x][j] => drained'[x][j]
        /\ x # r \/ j # i => result'[x][j] = result[x][j] /\ drained'[x][j] = drained[x][j]
    BY <1>1 DEF TypeOK
<1>6. \A x \in Requests : DrainsOf(x)'
    <2> SUFFICES ASSUME NEW x \in Requests PROVE DrainsOf(x)'
        OBVIOUS
    <2>1. 1..yielded[x] \subseteq Steps
        BY <1>1, MaxStepsAssumption DEF TypeOK, Steps
    <2> QED BY <1>1, <1>2, <1>5, <2>1 DEF DrainsOf, IsTicket
<1>7. \A x \in Requests : StepsOf(x)'
    <2> SUFFICES ASSUME NEW x \in Requests PROVE StepsOf(x)'
        OBVIOUS
    <2>1. Published' = Published
        BY <1>2 DEF Published
    <2>2. input[x] # "none" => input[x] = result'[x][yielded[x]]
        <3> SUFFICES ASSUME input[x] # "none" PROVE input[x] = result'[x][yielded[x]]
            OBVIOUS
        <3>1. /\ yielded[x] \in Steps /\ input[x] = result[x][yielded[x]]
              /\ input[x] \in {"success", "failure"}
            BY <1>1, MaxStepsAssumption DEF StepsOf, TypeOK, Steps
        <3> QED BY <1>5, <3>1
    <2>3. \A j \in Steps : j > yielded[x] => result'[x][j] = "pending"
        <3>1. \A j \in Steps : j > yielded[x] => x # r \/ j # i
            BY <1>1, MaxStepsAssumption DEF TypeOK, Steps
        <3> QED BY <1>1, <1>5, <3>1 DEF StepsOf
    <2>4. \A j \in Steps : drained'[x][j] => result'[x][j] # "pending"
        <3>1. result'[r][i] # "pending"
            BY <1>1 DEF TypeOK
        <3> QED BY <1>1, <1>5, <3>1 DEF StepsOf
    <2> QED BY <1>1, <1>2, <2>1, <2>2, <2>3, <2>4 DEF StepsOf
<1> QED BY <1>3, <1>4, <1>6, <1>7 DEF IInv

\* A result is that of a step its request has yielded.
LEMMA CompleteKeeps ==
    ASSUME IInv, NEW r \in Requests, NEW i \in Steps,
           NEW o \in {"success", "failure"}, NEW d \in BOOLEAN, Complete(r, i, o, d)
    PROVE  IInv'
<1>1. StepsOf(r)
    BY DEF IInv
<1>2. /\ result' = [result EXCEPT ![r] = [result[r] EXCEPT ![i] = o]]
      /\ drained' = [drained EXCEPT ![r] = [drained[r] EXCEPT ![i] = d]]
      /\ i <= yielded[r] /\ result[r][i] = "pending"
    BY DEF Complete
<1> QED BY <1>1, <1>2, BackendKeeps DEF Complete, StepsOf

\* A drain follows the result of its step.
LEMMA DrainKeeps ==
    ASSUME IInv, NEW r \in Requests, NEW i \in Steps, Drain(r, i)
    PROVE  IInv'
<1>1. /\ TypeOK /\ StepsOf(r)
    BY DEF IInv
<1>2. i <= yielded[r]
    BY <1>1, MaxStepsAssumption DEF StepsOf, TypeOK, Drain, Steps
<1>3. result[r][i] \in {"success", "failure"}
    BY <1>1 DEF TypeOK, Drain
<1>4. result' = [result EXCEPT ![r] = [result[r] EXCEPT ![i] = result[r][i]]]
    BY <1>1 DEF TypeOK, Drain
<1>5. drained' = [drained EXCEPT ![r] = [drained[r] EXCEPT ![i] = TRUE]]
    BY DEF Drain
<1> QED BY <1>2, <1>3, <1>4, <1>5, BackendKeeps DEF Drain

-----------------------------------------------------------------------------
(* Observers.                                                              *)

LEMMA ObserveKeeps ==
    ASSUME IInv, Observe
    PROVE  IInv'
<1>1. /\ TypeOK /\ Order /\ Observed /\ Calls /\ Leases
      /\ \A x \in Requests : StepsOf(x) /\ DrainsOf(x)
    BY DEF IInv
<1> PICK r \in Requests : r = caller.req
    BY <1>1, RequestBoundAssumption DEF Observe, Calls, TypeOK, Requests
<1>2. r = accepted /\ r = caller.req /\ ~advancing /\ caller' = Idle
    BY <1>1 DEF Observe, Calls
<1>3. /\ UNCHANGED <<gpu, queue, accepted, advancing, kind, waiting, yielded, input, outcome>>
      /\ UNCHANGED <<drains, retired, requestLeases, session, form, result, drained>>
    BY DEF Observe, retireVars
<1>4. \A x \in Requests : x # r => Same(x)
    BY <1>1, <1>3 DEF Observe, Same, TypeOK
<1>5. /\ progress' \in [Requests -> BOOLEAN]
      /\ outcome[r] = "pending" => progress'[r]
      /\ \A j \in Steps : j # waiting[r] => watch'[r][j] = watch[r][j]
      /\ watch' \in [Requests -> [Steps -> {"none", "armed", "delivered"}]]
      /\ waiting[r] # 0 => watch'[r][waiting[r]] = "armed"
    <2>1. waiting[r] # 0 => waiting[r] \in Steps /\ outcome[r] = "pending"
        BY <1>1, <1>2, MaxStepsAssumption DEF TypeOK, Steps, StepsOf
    <2>2. waiting[r] # 0 => watch[r][waiting[r]] \in {"armed", "none"}
        BY <1>1, <1>2 DEF Observed, Awaited
    <2>3. CASE outcome[r] = "pending" /\ waiting[r] # 0 /\ watch[r][waiting[r]] = "none"
        <3>1. /\ progress' = [progress EXCEPT ![r] = TRUE]
              /\ watch' = [watch EXCEPT ![r] = [watch[r] EXCEPT ![waiting[r]] = "armed"]]
            BY <2>3 DEF Observe
        <3> QED BY <1>1, <1>2, <2>1, <2>3, <3>1 DEF TypeOK
    <2>4. CASE ~(outcome[r] = "pending" /\ waiting[r] # 0 /\ watch[r][waiting[r]] = "none")
        BY <1>1, <1>2, <2>1, <2>2, <2>4 DEF Observe, TypeOK
    <2> QED BY <2>3, <2>4
<1>6. TypeOK'
    <2>1. caller' \in Callers
        BY <1>2, RequestBoundAssumption DEF Callers, Idle
    <2> QED BY <1>1, <1>3, <1>5, <2>1 DEF TypeOK
<1>7. Order' /\ Calls' /\ Leases'
    BY <1>1, <1>2, <1>3 DEF Order, Calls, Leases, Leased, Published, Idle
<1>8. Observed'
    <2>1. Awaited(r)'
        BY <1>3, <1>5 DEF Awaited
    <2>2. \A x \in Requests : x # r => Awaited(x)'
        BY <1>1, <1>4 DEF Awaited, Observed, Same
    <2>3. \A x \in 1..accepted : outcome[x] = "pending" => progress'[x]
        <3>1. \A x \in 1..accepted : x \in Requests
            BY <1>1, RequestBoundAssumption DEF TypeOK, Requests
        <3> QED BY <1>1, <1>2, <1>4, <1>5, <3>1 DEF Observed, Same
    <2> QED BY <1>1, <1>2, <1>3, <2>1, <2>2, <2>3 DEF Observed
<1>9. \A x \in Requests : StepsOf(x)'
    <2>1. /\ Published' = Published /\ accepted \in Nat /\ Len(queue) \in Nat /\ Published \in Int
        BY <1>1, <1>3 DEF Published, TypeOK
    <2>2. \A x \in Requests : x # r => StepsOf(x)'
        BY <1>1, <1>3, <1>4, <2>1, StepsFrame
    <2>3. \A j \in Steps : j > yielded[r] => watch'[r][j] = "none"
        <3>1. \A j \in Steps : j > yielded[r] => j # waiting[r]
            <4>1. waiting[r] \in {0, yielded[r]} /\ yielded[r] \in Nat
                BY <1>1, MaxStepsAssumption DEF StepsOf, TypeOK
            <4> QED BY <4>1, MaxStepsAssumption DEF Steps
        <3> QED BY <1>1, <1>2, <1>5, <3>1 DEF StepsOf
    <2>4. StepsOf(r)'
        BY <1>1, <1>2, <1>3, <2>1, <2>3 DEF StepsOf
    <2> QED BY <2>2, <2>4
<1>10. \A x \in Requests : DrainsOf(x)'
    BY <1>1, <1>3 DEF DrainsOf, IsTicket
<1> QED BY <1>6, <1>7, <1>8, <1>9, <1>10 DEF IInv

-----------------------------------------------------------------------------
(* Leases.                                                                 *)

\* A retirement gives back exactly one of the leases that are held.
LEMMA RetireKeepsLeases ==
    ASSUME TypeOK, Leases, NEW r \in 1..accepted, r \notin retired, Retire(r), accepted' = accepted
    PROVE  /\ Leases' /\ requestLeases' \in Nat
           /\ session' \in {"open", "draining", "drained", "closed"}
<1>1. IsFiniteSet(Leased) /\ r \in Leased
    <2>1. accepted \in Nat
        BY DEF TypeOK
    <2>2. IsFiniteSet(1..accepted)
        BY <2>1, FS_Interval
    <2> QED BY <2>2, FS_Difference DEF Leased
<1>2. Leased' = Leased \ {r}
    BY DEF Leased, Retire
<1>3. /\ Cardinality(Leased') = Cardinality(Leased) - 1
      /\ Cardinality(Leased) \in Nat /\ Cardinality(Leased') \in Nat
      /\ Cardinality(Leased) # 0
    BY <1>1, <1>2, FS_RemoveElement, FS_EmptySet, FS_CardinalityType
<1>4. requestLeases' = Cardinality(Leased')
    BY <1>3 DEF Retire, Leases
<1>5. session' \in {"drained", "closed"} => requestLeases' = 0
    BY <1>3 DEF Retire, Leases
<1>6. session' \in {"open", "draining", "drained", "closed"}
    BY DEF Retire, TypeOK
<1> QED BY <1>3, <1>4, <1>5, <1>6 DEF Leases

\* A request publishes its outcome once, at the head of the queue.
LEMMA SettleKeeps ==
    ASSUME IInv, NEW r \in Requests, NEW o \in {"success", "failure"}, Settle(r, o)
    PROVE  IInv'
<1>1. /\ TypeOK /\ Order /\ Observed /\ Calls /\ Leases
      /\ \A x \in Requests : StepsOf(x) /\ DrainsOf(x)
    BY DEF IInv
<1>2. /\ r = Published + 1 /\ r \in 1..accepted /\ Published \in Nat /\ r = Head(queue)
      /\ Len(queue) > 0 /\ outcome[r] = "pending" /\ queue # <<>>
    BY <1>1, HeadIsNext DEF Settle
<1>3. /\ UNCHANGED <<gpu, accepted, caller, kind, waiting, yielded, progress>>
      /\ UNCHANGED <<form, result, drained, watch>>
      /\ outcome' = [outcome EXCEPT ![r] = o] /\ input' = [input EXCEPT ![r] = "none"]
      /\ drains' = [drains EXCEPT ![r] = Undrained(r)]
      /\ queue' = Tail(queue) /\ advancing' = (Tail(queue) # <<>>)
    BY DEF Settle, RetireOrAwait, stepVars
<1>4. /\ queue' \in Seq(Requests) /\ Len(queue') = Len(queue) - 1 /\ Len(queue) \in Nat
      /\ \A i \in 1..Len(queue') : queue'[i] = queue[i + 1]
    BY <1>1, <1>2, <1>3, HeadTailProperties DEF TypeOK
<1>5. Published' = Published + 1 /\ accepted \in Nat
    BY <1>1, <1>3, <1>4 DEF Published, TypeOK
<1>6. Undrained(r) \subseteq 1..yielded[r] /\ 1..yielded[r] \subseteq Steps
    BY <1>1, MaxStepsAssumption DEF Undrained, TypeOK, Steps
<1>7. /\ drains[r] = {} /\ r \notin retired /\ retired' \in SUBSET Requests
      /\ r \in retired' <=> Undrained(r) = {}
      /\ \A x \in Requests : x # r => (x \in retired' <=> x \in retired)
    <2>1. drains[r] = {} /\ r \notin retired /\ retired \in SUBSET Requests
        BY <1>1, <1>2 DEF DrainsOf, TypeOK
    <2>2. retired' = IF Undrained(r) = {} THEN retired \cup {r} ELSE retired
        BY DEF Settle, RetireOrAwait, Retire
    <2> QED BY <2>1, <2>2
<1>8. /\ Leases' /\ requestLeases' \in Nat
      /\ session' \in {"open", "draining", "drained", "closed"}
      /\ session # "open" => session' # "open"
      /\ session = "open" => session' = "open"
    <2>1. CASE Undrained(r) = {}
        <3>1. Retire(r)
            BY <2>1 DEF Settle, RetireOrAwait
        <3> QED BY <1>1, <1>2, <1>3, <1>7, <3>1, RetireKeepsLeases DEF Retire
    <2>2. CASE Undrained(r) # {}
        <3>1. UNCHANGED <<retired, requestLeases, session, accepted>>
            BY <1>3, <2>2 DEF Settle, RetireOrAwait
        <3> QED BY <1>1, <3>1 DEF Leases, Leased, TypeOK
    <2> QED BY <2>1, <2>2
<1>9. TypeOK'
    <2>1. outcome' \in [Requests -> {"pending", "success", "failure"}]
        BY <1>1, <1>3 DEF TypeOK
    <2>2. input' \in [Requests -> {"none", "success", "failure"}]
        BY <1>1, <1>3 DEF TypeOK
    <2>3. drains' \in [Requests -> SUBSET Steps]
        BY <1>1, <1>3, <1>6 DEF TypeOK
    <2>4. advancing' \in BOOLEAN
        BY <1>3
    <2> QED BY <1>1, <1>3, <1>4, <1>7, <1>8, <2>1, <2>2, <2>3, <2>4 DEF TypeOK
<1>10. Order'
    <2>1. Len(queue') <= accepted'
        BY <1>1, <1>3, <1>4 DEF Order, TypeOK
    <2>2. \A i \in 1..Len(queue') : queue'[i] = Published' + i
        BY <1>1, <1>2, <1>4, <1>5 DEF Order
    <2>3. \A x \in Requests : outcome'[x] # "pending" <=> x <= Published'
        <3> SUFFICES ASSUME NEW x \in Requests PROVE outcome'[x] # "pending" <=> x <= Published'
            OBVIOUS
        <3>1. CASE x = r
            BY <1>1, <1>2, <1>3, <1>5, <3>1 DEF TypeOK
        <3>2. CASE x # r
            <4>1. outcome'[x] = outcome[x] /\ x \in Int
                BY <1>1, <1>3, <3>2 DEF TypeOK, Requests
            <4>2. outcome[x] # "pending" <=> x <= Published
                BY <1>1 DEF Order
            <4> QED BY <1>2, <1>5, <3>2, <4>1, <4>2
        <3> QED BY <3>1, <3>2
    <2> QED BY <2>1, <2>2, <2>3 DEF Order
<1>11. \A x \in Requests : x # r => Same(x) /\ drains'[x] = drains[x]
    BY <1>1, <1>3 DEF Same, TypeOK
<1>12. /\ waiting[r] = 0 /\ input'[r] = "none" /\ outcome'[r] = o /\ drains'[r] = Undrained(r)
    BY <1>1, <1>3 DEF Settle, TypeOK
<1>13. Observed'
    <2>1. \A x \in Requests : Awaited(x)'
        BY <1>1, <1>3 DEF Observed, Awaited
    <2>2. \A x \in 1..accepted : outcome'[x] = "pending" => outcome[x] = "pending"
        BY <1>1, <1>2, <1>3, <1>11 DEF TypeOK
    <2>3. advancing' \/ queue' = <<>>
        BY <1>3
    <2> QED BY <1>1, <1>3, <2>1, <2>2, <2>3 DEF Observed
<1>14. Calls'
    BY <1>1, <1>3, <1>4, <1>8 DEF Calls, Idle
<1>15. \A x \in Requests : StepsOf(x)'
    <2>1. StepsOf(r)'
        <3>1. r <= accepted' /\ r <= Published' + 1
            BY <1>2, <1>3, <1>5
        <3>2. /\ kind[r] = "sync" => \A i \in 1..yielded[r] : form[r][i] = "shared"
              /\ \A i \in Steps : i > yielded[r] => result[r][i] = "pending" /\ watch[r][i] = "none"
              /\ \A i \in Steps : drained[r][i] => result[r][i] # "pending"
            BY <1>1 DEF StepsOf
        <3> QED BY <1>3, <1>12, <3>1, <3>2 DEF StepsOf
    <2>2. Published \in Int /\ Published <= Published' /\ accepted <= accepted'
        BY <1>2, <1>3, <1>5
    <2> QED BY <1>1, <1>3, <1>4, <1>5, <1>11, <2>1, <2>2, StepsFrame
<1>16. \A x \in Requests : DrainsOf(x)'
    <2>1. DrainsOf(r)'
        <3>1. \A i \in 1..yielded[r] : IsTicket(r, i) => drained[r][i] \/ i \in Undrained(r)
            BY DEF Undrained
        <3>2. outcome'[r] # "pending" /\ yielded' = yielded /\ drained' = drained /\ form' = form
            BY <1>3, <1>12
        <3> QED BY <1>6, <1>7, <1>12, <3>1, <3>2 DEF DrainsOf, IsTicket
    <2> QED BY <1>1, <1>7, <1>11, <2>1, DrainsFrame
<1> QED BY <1>8, <1>9, <1>10, <1>13, <1>14, <1>15, <1>16 DEF IInv

\* The last drain of a published request retires it.
LEMMA CountDownDrainKeeps ==
    ASSUME IInv, NEW r \in Requests, NEW i \in Steps, CountDownDrain(r, i)
    PROVE  IInv'
<1>1. /\ TypeOK /\ Order /\ Observed /\ Calls /\ Leases
      /\ \A x \in Requests : StepsOf(x) /\ DrainsOf(x)
    BY DEF IInv
<1>2. /\ UNCHANGED <<gpu, queue, accepted, advancing, caller, kind, waiting, yielded, input>>
      /\ UNCHANGED <<outcome, progress, form, result, drained, watch>>
    BY DEF CountDownDrain, sessionVars, requestVars, stepVars
<1>3. /\ drains' = [drains EXCEPT ![r] = drains[r] \ {i}]
      /\ i \in drains[r] /\ drained[r][i]
    BY DEF CountDownDrain
<1>4. outcome[r] # "pending" /\ r \notin retired /\ r \in 1..accepted
    BY <1>1, <1>3 DEF DrainsOf, Order, Published, TypeOK, Requests
<1>5. /\ retired' \in SUBSET Requests
      /\ r \in retired' <=> drains'[r] = {}
      /\ \A x \in Requests : x # r => (x \in retired' <=> x \in retired)
    <2>1. drains'[r] = drains[r] \ {i} /\ retired \in SUBSET Requests
        BY <1>1, <1>3 DEF TypeOK
    <2>2. retired' = IF drains[r] = {i} THEN retired \cup {r} ELSE retired
        BY DEF CountDownDrain, Retire
    <2> QED BY <1>3, <1>4, <2>1, <2>2
<1>6. /\ Leases' /\ requestLeases' \in Nat
      /\ session' \in {"open", "draining", "drained", "closed"}
      /\ session = "open" => session' = "open"
    <2>1. CASE drains[r] = {i}
        <3>1. Retire(r)
            BY <2>1 DEF CountDownDrain
        <3> QED BY <1>1, <1>2, <1>4, <3>1, RetireKeepsLeases DEF Retire
    <2>2. CASE drains[r] # {i}
        <3>1. UNCHANGED <<retired, requestLeases, session, accepted>>
            BY <1>2, <2>2 DEF CountDownDrain
        <3> QED BY <1>1, <3>1 DEF Leases, Leased, TypeOK
    <2> QED BY <2>1, <2>2
<1>7. TypeOK'
    <2>1. drains' \in [Requests -> SUBSET Steps]
        BY <1>1, <1>3 DEF TypeOK
    <2> QED BY <1>1, <1>2, <1>5, <1>6, <2>1 DEF TypeOK
<1>8. Order' /\ Observed' /\ Calls'
    BY <1>1, <1>2, <1>6 DEF Order, Published, Observed, Awaited, Calls
<1>9. \A x \in Requests : StepsOf(x)'
    BY <1>1, <1>2 DEF StepsOf, Published
<1>10. \A x \in Requests : DrainsOf(x)'
    <2>1. DrainsOf(r)'
        <3>1. drains'[r] = drains[r] \ {i}
            BY <1>1, <1>3 DEF TypeOK
        <3> QED BY <1>1, <1>2, <1>3, <1>4, <1>5, <3>1 DEF DrainsOf, IsTicket
    <2>2. \A x \in Requests : x # r => Same(x) /\ drains'[x] = drains[x]
        BY <1>1, <1>2, <1>3 DEF Same, TypeOK
    <2> QED BY <1>1, <1>5, <2>1, <2>2, DrainsFrame
<1> QED BY <1>6, <1>7, <1>8, <1>9, <1>10 DEF IInv

-----------------------------------------------------------------------------
(* New requests.                                                           *)

\* The request of a public call joins the queue and gets its first turn.
LEMMA EnqueueKeeps ==
    ASSUME IInv, NEW k \in {"effect", "promise", "sync"}, NEW op \in {"effect", "promise", "read"},
           op = "read" <=> k = "sync", k = "sync" => queue = <<>>,
           session = "open", caller.op \in {"none", "drive"}, Enqueue(k, op)
    PROVE  IInv'
<1> PICK r \in Nat : r = accepted + 1
    BY DEF IInv, TypeOK
<1>1. /\ TypeOK /\ Order /\ Observed /\ Calls /\ Leases
      /\ \A x \in Requests : StepsOf(x) /\ DrainsOf(x)
    BY DEF IInv
<1>2. /\ accepted \in Nat /\ r = accepted + 1 /\ r \in Requests /\ accepted' = r
      /\ UNCHANGED <<gpu, waiting, yielded, input, outcome, progress, drains, retired, session>>
      /\ UNCHANGED <<form, result, drained, watch>>
      /\ kind' = [kind EXCEPT ![r] = k] /\ queue' = Append(queue, r)
      /\ requestLeases' = requestLeases + 1 /\ advancing' = TRUE /\ caller' = [op |-> op, req |-> r]
    BY <1>1, RequestBoundAssumption DEF Enqueue, TypeOK, Requests, stepVars
<1>3. /\ queue' \in Seq(Requests) /\ Len(queue') = Len(queue) + 1 /\ Len(queue) \in Nat
      /\ \A i \in 1..Len(queue) : queue'[i] = queue[i]
      /\ queue'[Len(queue) + 1] = r
    BY <1>1, <1>2, AppendProperties DEF TypeOK
<1>4. Published' = Published /\ Published \in Nat
    BY <1>1, <1>2, <1>3 DEF Published, Order
<1>5. Order'
    <2>1. \A i \in 1..Len(queue') : queue'[i] = Published' + i
        <3> SUFFICES ASSUME NEW i \in 1..Len(queue') PROVE queue'[i] = Published' + i
            OBVIOUS
        <3>1. CASE i \in 1..Len(queue)
            BY <1>1, <1>3, <1>4, <3>1 DEF Order
        <3>2. CASE i = Len(queue) + 1
            BY <1>2, <1>3, <1>4, <3>2 DEF Published
        <3> QED BY <1>3, <3>1, <3>2
    <2> QED BY <1>1, <1>2, <1>3, <1>4, <2>1 DEF Order
<1>6. yielded[r] = 0 /\ outcome[r] = "pending" /\ waiting[r] = 0 /\ r \notin retired
    <2>1. yielded[r] = 0 /\ waiting[r] = 0
        BY <1>1, <1>2 DEF StepsOf
    <2>2. ~(r <= Published)
        BY <1>1, <1>2, <1>3 DEF Published
    <2> QED BY <1>1, <1>2, <2>1, <2>2 DEF Order, DrainsOf
<1>7. TypeOK'
    <2>1. kind' \in [Requests -> {"none", "effect", "promise", "sync"}]
        BY <1>1, <1>2 DEF TypeOK
    <2>2. caller' \in Callers /\ accepted' \in 0..MaxRequests
        BY <1>2, RequestBoundAssumption DEF Callers, Requests
    <2>3. requestLeases' \in Nat
        BY <1>1, <1>2 DEF TypeOK
    <2> QED BY <1>1, <1>2, <1>3, <2>1, <2>2, <2>3 DEF TypeOK
<1>8. Leases'
    <2>1. retired \subseteq 1..accepted
        BY <1>1, <1>2, <1>3 DEF TypeOK, DrainsOf, Order, Published, Requests
    <2>2. Leased' = Leased \cup {r} /\ r \notin Leased
        BY <1>2, <1>6 DEF Leased
    <2>3. IsFiniteSet(Leased)
        <3>1. IsFiniteSet(1..accepted)
            BY <1>2, FS_Interval
        <3> QED BY <3>1, FS_Difference DEF Leased
    <2>4. Cardinality(Leased') = Cardinality(Leased) + 1
        BY <2>2, <2>3, FS_AddElement
    <2> QED BY <1>1, <1>2, <2>4 DEF Leases
<1>9. Calls'
    <2>1. kind'[r] = k
        BY <1>1, <1>2 DEF TypeOK
    <2>2. k = "sync" => Len(queue') <= 1
        BY <1>3
    <2> QED BY <1>2, <2>1, <2>2 DEF Calls
<1>10. Observed'
    <2>1. \A x \in Requests : Awaited(x)'
        BY <1>1, <1>2 DEF Observed, Awaited
    <2>2. \A x \in 1..accepted : outcome[x] = "pending" => progress[x]
        BY <1>1 DEF Observed
    <2>3. \A x \in 1..accepted' : x \in 1..accepted \/ x = r
        BY <1>2
    <2> QED BY <1>2, <2>1, <2>2, <2>3 DEF Observed
<1>11. \A x \in Requests : StepsOf(x)'
    <2>1. StepsOf(r)'
        BY <1>1, <1>2, <1>4, <1>6 DEF StepsOf
    <2>2. \A x \in Requests : x # r => Same(x)
        BY <1>1, <1>2 DEF Same, TypeOK
    <2> QED BY <1>1, <1>2, <1>3, <1>4, <2>1, <2>2, StepsFrame
<1>12. \A x \in Requests : DrainsOf(x)'
    BY <1>1, <1>2 DEF DrainsOf, IsTicket
<1> QED BY <1>5, <1>7, <1>8, <1>9, <1>10, <1>11, <1>12 DEF IInv

\* Acceptance is an enqueue behind the admission checks.
LEMMA AcceptKeeps ==
    ASSUME IInv, NEW k \in {"effect", "promise"}, Accept(k)
    PROVE  IInv'
BY EnqueueKeeps DEF Accept, TurnIsFree, Idle

\* An emptied queue lets a synchronous observation enqueue its own request.
LEMMA DriveDoneKeeps ==
    ASSUME IInv, DriveDone
    PROVE  IInv'
<1>1. session = "open"
    BY DEF IInv, Calls, DriveDone, Idle
<1> QED BY <1>1, EnqueueKeeps DEF DriveDone

\* An empty session satisfies the invariant.
LEMMA InitSatisfiesIInv ==
    ASSUME Init
    PROVE  IInv
<1> USE RequestBoundAssumption, MaxStepsAssumption DEF Requests, Steps, Init
<1>1. TypeOK
    <2>1. /\ queue \in Seq(Requests) /\ accepted \in 0..MaxRequests /\ requestLeases \in Nat
          /\ caller \in Callers /\ advancing \in BOOLEAN /\ gpu \in {"local", "shared"}
        <3>1. queue = <<>> /\ 0 \in 0..MaxRequests
            OBVIOUS
        <3>2. queue \in Seq(Requests)
            BY <3>1, EmptySeq
        <3> QED BY <3>1, <3>2 DEF Callers, Idle
    <2>2. /\ waiting \in [Requests -> 0..MaxSteps] /\ yielded \in [Requests -> 0..MaxSteps]
          /\ kind \in [Requests -> {"none", "effect", "promise", "sync"}]
          /\ input \in [Requests -> {"none", "success", "failure"}]
        OBVIOUS
    <2>3. /\ outcome \in [Requests -> {"pending", "success", "failure"}]
          /\ progress \in [Requests -> BOOLEAN]
          /\ drains \in [Requests -> SUBSET Steps]
        OBVIOUS
    <2>4. /\ form \in [Requests -> [Steps -> {"none", "promise", "local", "shared"}]]
          /\ result \in [Requests -> [Steps -> {"pending", "success", "failure"}]]
        OBVIOUS
    <2>5. /\ drained \in [Requests -> [Steps -> BOOLEAN]]
          /\ watch \in [Requests -> [Steps -> {"none", "armed", "delivered"}]]
        OBVIOUS
    <2> QED BY <2>1, <2>2, <2>3, <2>4, <2>5 DEF TypeOK
<1>2. Order /\ Observed /\ Calls
    BY DEF Order, Observed, Awaited, Calls, Published, Idle
<1>3. Leases
    <2>1. Leased = {}
        BY DEF Leased
    <2> QED BY <2>1, FS_EmptySet DEF Leases
<1>4. \A r \in Requests : StepsOf(r) /\ DrainsOf(r)
    BY DEF StepsOf, DrainsOf, Published
<1> QED BY <1>1, <1>2, <1>3, <1>4 DEF IInv

\* Every step preserves the invariant: one case per action.
LEMMA NextKeepsIInv ==
    ASSUME IInv, [Next]_vars
    PROVE  IInv'
<1>1. CASE User
    BY <1>1, DriveKeeps, CloseKeeps, AcceptKeeps DEF User
<1>2. CASE QueueLoop
    BY <1>2, HeadIsWaitingKeeps, YieldKeeps, SettleKeeps DEF QueueLoop
<1>3. CASE Turn
    <2>1. CASE Read
        <3>1. caller.req \in Requests
            BY <2>1, RequestBoundAssumption DEF Read, IInv, Calls, TypeOK, Requests
        <3> QED BY <2>1, <3>1, ReadStepKeeps DEF Read
    <2>2. CASE DriveHead
        <3>1. Head(queue) \in Requests
            BY <2>2, HeadIsNext DEF DriveHead, IInv
        <3> QED BY <2>2, <3>1, ReadStepKeeps DEF DriveHead
    <2> QED BY <1>3, <2>1, <2>2, ObserveKeeps, ReturnReadKeeps, DriveDoneKeeps, DriveEndsKeeps DEF Turn
<1>4. CASE FinishClose
    BY <1>4, FinishCloseKeeps
<1>5. CASE EventLoop
    BY <1>5, NotifyKeeps, CountDownDrainKeeps DEF EventLoop
<1>6. CASE Backend
    BY <1>6, CompleteKeeps, DrainKeeps DEF Backend
<1>7. CASE UNCHANGED vars
    <2>1. /\ UNCHANGED <<queue, accepted, requestVars, stepVars, drains, retired>>
          /\ UNCHANGED <<gpu, advancing, caller, requestLeases, session>>
        BY <1>7 DEF vars, sessionVars, retireVars
    <2>2. /\ Order' /\ \A x \in Requests : StepsOf(x)' /\ DrainsOf(x)' /\ Awaited(x)'
          /\ Leased' = Leased
        BY <2>1, NoRequestFrame
    <2>3. TypeOK'
        BY <2>1 DEF IInv, TypeOK, requestVars, stepVars
    <2>4. Observed' /\ Calls' /\ Leases'
        BY <2>1, <2>2 DEF IInv, Observed, Calls, Leases, requestVars
    <2> QED BY <2>2, <2>3, <2>4 DEF IInv
<1> QED BY <1>1, <1>2, <1>3, <1>4, <1>5, <1>6, <1>7 DEF Next

\* In every reachable state the queue is the interval of unpublished requests,
\* each is at its last yielded step, and leases are held until drains are done.
THEOREM InvariantHolds == Spec => []IInv
<1>1. Init => IInv
    BY InitSatisfiesIInv
<1>2. IInv /\ [Next]_vars => IInv'
    BY NextKeepsIInv
<1> QED BY <1>1, <1>2, PTL DEF Spec

\* A session never strands, misreads or misfeeds a request, and never retires
\* one under its device work, however many requests and steps there are
\* (#advanceRequests, ExecutionRequest.advance and #settle).
THEOREM QueueIsSoundHolds == Spec => []QueueIsSound
<1>1. ASSUME IInv PROVE QueueIsSound
    <2>1. TypeOK /\ Order /\ Observed /\ Calls /\ \A r \in Requests : StepsOf(r) /\ DrainsOf(r)
        BY <1>1 DEF IInv
    <2>2. PendingWorkHasWaker
        <3> SUFFICES ASSUME TurnIsFree, queue # <<>>
                     PROVE  waiting[Head(queue)] # 0 /\ watch[Head(queue)][waiting[Head(queue)]] = "armed"
            BY DEF PendingWorkHasWaker
        <3>1. PICK h \in Requests : h = Head(queue) /\ h \in 1..accepted /\ outcome[h] = "pending"
            BY <2>1, HeadIsNext
        <3>2. waiting[h] # 0 /\ Awaited(h)
            BY <2>1, <3>1 DEF Observed, TurnIsFree
        <3>3. progress[h]
            BY <2>1, <3>1 DEF Observed, TurnIsFree, Idle
        <3> QED BY <3>1, <3>2, <3>3 DEF Awaited
    <2>3. ReadReachesTerminal
        <3> SUFFICES ASSUME caller.op = "read", ~advancing, outcome[caller.req] = "pending"
                     PROVE  waiting[caller.req] # 0 /\ IsSynchronous(caller.req, waiting[caller.req])
            BY DEF ReadReachesTerminal
        <3>1. PICK r \in Requests : r = caller.req /\ r = accepted /\ kind[r] = "sync" /\ Len(queue) <= 1
            BY <2>1, RequestBoundAssumption DEF Calls, TypeOK, Requests
        <3>2. queue # <<>> /\ Head(queue) = r
            <4>1. ~(r <= Published)
                BY <2>1, <3>1 DEF Order
            <4>2. Len(queue) \in Nat /\ accepted \in Nat
                BY <2>1 DEF TypeOK
            <4>3. Len(queue) # 0
                BY <3>1, <4>1, <4>2 DEF Published
            <4>4. queue # <<>>
                BY <4>3
            <4>5. Published + 1 = accepted
                BY <3>1, <4>2, <4>3 DEF Published
            <4> QED BY <2>1, <3>1, <4>4, <4>5, HeadIsNext
        <3>3. waiting[r] # 0 /\ waiting[r] = yielded[r] /\ yielded[r] \in Nat
            BY <2>1, <3>2, MaxStepsAssumption DEF Observed, StepsOf, TypeOK
        <3>4. form[r][yielded[r]] = "shared"
            BY <2>1, <3>1, <3>3 DEF StepsOf
        <3> QED BY <3>1, <3>3, <3>4 DEF IsSynchronous
    <2>4. InputMatchesStep
        BY <2>1 DEF InputMatchesStep, StepsOf
    <2>5. RetiredOnlyAfterDrain
        BY <2>1 DEF RetiredOnlyAfterDrain, DrainsOf, TypeOK
    <2> QED BY <2>1, <2>2, <2>3, <2>4, <2>5 DEF QueueIsSound
<1> QED BY <1>1, InvariantHolds, PTL

-----------------------------------------------------------------------------
(* Refinement.                                                             *)

\* The refinement mapping of ImplementsOrderedExecution.
Outcomes == {r \in Requests : outcome[r] # "pending"}
Phase == CASE session = "open" -> "open"
           [] session \in {"draining", "drained"} -> "closing"
           [] OTHER -> "joined"

\* What the code has published is what the abstract queue has finished, in order.
LEMMA OutcomesAreInOrder ==
    ASSUME IInv
    PROVE  /\ Outcomes \subseteq 1..accepted
           /\ \A r \in Outcomes : 1..(r - 1) \subseteq Outcomes
           /\ retired \subseteq Outcomes
<1>1. /\ TypeOK /\ Order /\ \A r \in Requests : DrainsOf(r)
    BY DEF IInv
<1>2. /\ accepted \in Nat /\ Len(queue) \in Nat /\ Len(queue) <= accepted /\ Published \in Nat
    BY <1>1 DEF TypeOK, Order, Published
<1>3. \A r \in Requests : r \in Outcomes <=> r <= Published
    BY <1>1 DEF Order, Outcomes
<1>4. Outcomes \subseteq 1..accepted
    BY <1>2, <1>3 DEF Outcomes, Requests, Published
<1>5. \A r \in Outcomes : 1..(r - 1) \subseteq Outcomes
    <2> SUFFICES ASSUME NEW r \in Outcomes, NEW q \in 1..(r - 1) PROVE q \in Outcomes
        OBVIOUS
    <2>1. r \in Requests /\ r <= Published
        BY <1>3 DEF Outcomes
    <2>2. q \in Requests /\ q <= Published
        BY <2>1, <1>2, RequestBoundAssumption DEF Requests
    <2> QED BY <1>3, <2>2
<1>6. retired \subseteq Outcomes
    BY <1>1 DEF DrainsOf, Outcomes, TypeOK
<1> QED BY <1>4, <1>5, <1>6

\* Every step publishes at most the oldest pending request, retires at most one
\* published request, or accepts, closes or joins as the abstraction does.
LEMMA StepImplements ==
    ASSUME IInv, IInv', [Next]_vars
    PROVE  [Abstract!Next]_(Abstract!vars)
<1> USE DEF Abstract!Next, Abstract!vars
<1>1. /\ TypeOK /\ Order /\ Calls /\ Leases /\ \A r \in Requests : DrainsOf(r)
    BY DEF IInv
<1>2. ASSUME UNCHANGED <<accepted, outcome, retired, session>>
      PROVE  UNCHANGED Abstract!vars
    BY <1>2
<1>3. ASSUME NEW k, NEW op, Enqueue(k, op), session = "open"
      PROVE  Abstract!Accept
    BY <1>3 DEF Enqueue, Abstract!Accept
<1>4. ASSUME Close PROVE Abstract!Close
    BY <1>4, <1>1 DEF Close, Abstract!Close, sessionVars, requestVars
<1>5. ASSUME FinishClose PROVE Abstract!Join
    <2>1. retired = 1..accepted
        <3>1. Cardinality(Leased) = 0
            BY <1>1, <1>5 DEF Leases, FinishClose
        <3>2. IsFiniteSet(Leased)
            <4>1. IsFiniteSet(1..accepted)
                BY <1>1, FS_Interval DEF TypeOK
            <4> QED BY <4>1, FS_Difference DEF Leased
        <3>3. Leased = {}
            BY <3>1, <3>2, FS_EmptySet
        <3> QED BY <3>3, OutcomesAreInOrder DEF Leased
    <2> QED BY <1>5, <2>1 DEF FinishClose, Abstract!Join, sessionVars, requestVars
<1>6. ASSUME NEW r \in Requests, NEW o \in {"success", "failure"}, Settle(r, o)
      PROVE  Abstract!Publish(r)
    <2>1. r = Published + 1 /\ r \in 1..accepted /\ outcome[r] = "pending" /\ Published \in Nat
        BY <1>1, <1>6, HeadIsNext DEF Settle
    <2>2. outcome' = [outcome EXCEPT ![r] = o] /\ accepted' = accepted
        BY <1>6 DEF Settle
    <2>3. Outcomes' = Outcomes \cup {r}
        BY <1>1, <2>2 DEF Outcomes, TypeOK
    <2>4. retired' \in {retired, retired \cup {r}}
        BY <1>6 DEF Settle, RetireOrAwait, Retire
    <2>5. 1..(r - 1) \subseteq Outcomes
        <3>1. accepted \in Nat /\ accepted <= MaxRequests /\ r = Published + 1
            BY <1>1, <2>1, RequestBoundAssumption DEF TypeOK
        <3>2. \A q \in 1..(r - 1) : q \in Requests /\ q <= Published
            BY <2>1, <3>1, RequestBoundAssumption DEF Requests
        <3> QED BY <1>1, <3>2 DEF Order, Outcomes
    <2>6. Phase' = Phase
        BY <1>6 DEF Phase, Settle, RetireOrAwait, Retire
    <2> QED BY <2>1, <2>2, <2>3, <2>4, <2>5, <2>6 DEF Abstract!Publish, Outcomes, Phase
<1>7. ASSUME NEW r \in Requests, NEW i \in Steps, CountDownDrain(r, i)
      PROVE  Abstract!Retire(r) \/ UNCHANGED Abstract!vars
    <2>1. UNCHANGED <<accepted, outcome>>
        BY <1>7 DEF CountDownDrain, sessionVars, requestVars
    <2>2. CASE drains[r] = {i}
        <3>1. r \in Outcomes \ retired
            BY <1>1, <2>2 DEF DrainsOf, Outcomes
        <3>2. retired' = retired \cup {r} /\ Phase' = Phase
            BY <1>7, <2>2 DEF CountDownDrain, Retire, Phase
        <3> QED BY <2>1, <3>1, <3>2 DEF Abstract!Retire, Outcomes, Phase
    <2>3. CASE drains[r] # {i}
        BY <1>7, <2>1, <2>3, <1>2 DEF CountDownDrain
    <2> QED BY <2>2, <2>3
<1>8. CASE User
    <2>1. CASE Drive
        BY <2>1, <1>2 DEF Drive, requestVars, retireVars
    <2>2. ASSUME NEW k, Accept(k) PROVE Abstract!Accept
        BY <2>2, <1>3 DEF Accept
    <2> QED BY <1>8, <2>1, <2>2, <1>4 DEF User
<1>9. CASE QueueLoop
    <2>1. CASE HeadIsWaiting
        BY <2>1, <1>2 DEF HeadIsWaiting, requestVars, retireVars
    <2>2. ASSUME NEW r, NEW f, Yield(r, f) PROVE UNCHANGED Abstract!vars
        BY <2>2, <1>2 DEF Yield, retireVars
    <2> QED BY <1>9, <2>1, <2>2, <1>6 DEF QueueLoop, Requests
<1>10. CASE Turn
    <2>1. ASSUME NEW r, ReadStep(r) PROVE UNCHANGED Abstract!vars
        BY <2>1, <1>2 DEF ReadStep, retireVars
    <2>2. CASE DriveDone
        <3>1. session = "open"
            BY <1>1, <2>2 DEF Calls, DriveDone, Idle
        <3> QED BY <2>2, <3>1, <1>3 DEF DriveDone
    <2>3. CASE Observe
        BY <2>3, <1>2 DEF Observe, retireVars
    <2>4. CASE ReturnRead \/ DriveEnds
        BY <2>4, <1>2 DEF ReturnRead, DriveEnds, requestVars, retireVars
    <2> QED BY <1>10, <2>1, <2>2, <2>3, <2>4 DEF Turn, Read, DriveHead
<1>11. CASE EventLoop
    <2>1. ASSUME NEW r, NEW i, Notify(r, i) PROVE UNCHANGED Abstract!vars
        BY <2>1, <1>2 DEF Notify, retireVars
    <2> QED BY <1>11, <2>1, <1>7 DEF EventLoop, Requests
<1>12. CASE Backend
    <2>1. ASSUME NEW r, NEW i, NEW o, NEW d, Complete(r, i, o, d) \/ Drain(r, i)
          PROVE  UNCHANGED Abstract!vars
        BY <2>1, <1>2 DEF Complete, Drain, sessionVars, requestVars, retireVars
    <2> QED BY <1>12, <2>1 DEF Backend
<1>13. CASE UNCHANGED vars
    BY <1>13, <1>2 DEF vars, sessionVars, requestVars, retireVars
<1> QED BY <1>5, <1>8, <1>9, <1>10, <1>11, <1>12, <1>13 DEF Next, Requests

\* Outcomes are published in acceptance order, every request is retired once and
\* only after its outcome, and the join of close() waits for all retirements.
THEOREM ImplementsOrderedExecutionHolds == Spec => ImplementsOrderedExecution
<1>1. Init => Abstract!Init
    BY DEF Init, Abstract!Init
<1>2. IInv /\ IInv' /\ [Next]_vars => [Abstract!Next]_(Abstract!vars)
    BY StepImplements
<1> QED BY <1>1, <1>2, InvariantHolds, PTL DEF Spec, ImplementsOrderedExecution, Abstract!Spec

-----------------------------------------------------------------------------
(* The Python connection: types                                            *)

BindingRecord ==
    [phase : {None, "loading", "ready", "rejecting", "rejected"},
     script : {None, "preparing", "running", "finished", "failed"},
     owner : 0..MaxCommands,
     closing : {"no", "waiting", "draining", "closed"},
     failed : BOOLEAN]

ClientRecord ==
    [seq : 0..MaxCommands, pending : {None, "run", "close"}, running : BOOLEAN,
     closing : {"no", "waiting", "asked", "acknowledged", "rejected"},
     failure : BOOLEAN, port : BOOLEAN]

ServiceRecord ==
    [binding : Bindings \cup {None}, port : BOOLEAN, seq : 0..MaxCommands,
     running : 0..MaxCommands, entered : BOOLEAN,
     closing : {"no", "running", "binding", "finished"},
     ack : 0..MaxCommands, loss : BOOLEAN]

Command == [kind : {"run", "close"}, id : Ids]
Reply == [id : Ids, ok : BOOLEAN]

ConnectionTyped ==
    /\ attached \in BOOLEAN /\ alive \in BOOLEAN
    /\ binding \in [Bindings -> BindingRecord]
    /\ client \in ClientRecord
    /\ service \in ServiceRecord
    /\ toWorker \in Seq(Command) /\ toHost \in Seq(Reply)
    /\ ran \in [Ids -> {None, "finished", "failed", "refused"}]
    /\ answered \in [Ids -> {None, "ok", "error", "lost"}]

Messages(s) == {s[k] : k \in 1..Len(s)}
Served == binding[service.binding]

\* An accepted script keeps its session open; one that belongs to a command is
\* the served binding's, and its command is the one the service runs.
ScriptOf(b) ==
    /\ binding[b].script # None => binding[b].closing \in {"no", "waiting"}
    /\ binding[b].owner # Local =>
        /\ binding[b].script # None
        /\ b = service.binding /\ service.entered /\ binding[b].owner = service.running

\* The command that runs has not been settled before its script ended.
RunningCommand ==
    service.running # 0 =>
        /\ service.binding # None /\ service.running = service.seq
        /\ service.ack = 0 /\ service.closing \in {"no", "running"}
        /\ ~service.entered => ran[service.running] = None
        /\ service.entered =>
            IF Served.owner = service.running
            THEN ran[service.running] =
                     IF Served.script \in {"finished", "failed"} THEN Served.script ELSE None
            ELSE ran[service.running] = "refused"

\* Nothing is known of a command the service has not received.
Unheard == \A i \in Ids : i > service.seq => ran[i] = None

\* What a message tells the client is true, and only the answer to its close
\* answers the close.
IsTrue(m) ==
    /\ m.id <= service.seq
    /\ m.ok => ran[m.id] = "finished"
    /\ ~m.ok => ran[m.id] \in {"failed", "refused"}
    /\ m.id = service.ack => service.closing = "finished" /\ (m.ok => ~Served.failed)
    /\ client.pending = "close" /\ m.id = client.seq => m.id = service.ack

\* The client's close is the last command it sends.
IsInOrder(m) ==
    /\ m.id <= client.seq
    /\ m.kind = "close" => m.id = client.seq /\ client.closing \notin {"no", "waiting"}
    /\ m.kind = "run" /\ client.pending = "close" => m.id < client.seq

CloseIsLast ==
    /\ service.seq <= client.seq
    /\ client.pending = "close" => client.closing = "asked" /\ service.running < client.seq

\* A service that has ended has a drained binding, no command and no port.
ServiceEnds ==
    /\ service.binding # None => Served.phase = "ready"
    /\ service.binding = None => ~service.port /\ service.closing = "no"
    /\ service.closing \in {"binding", "finished"} => service.running = 0
    /\ service.closing = "finished" => ~service.port /\ Served.closing = "closed"
    /\ service.ack # 0 =>
        /\ service.ack = service.seq /\ service.ack = client.seq
        /\ service.closing # "no" /\ client.closing \notin {"no", "waiting"}
        /\ service.closing # "finished" => ran[service.ack] = None

PythonIInv ==
    /\ ConnectionTyped /\ RunningCommand /\ Unheard /\ CloseIsLast /\ ServiceEnds
    /\ \A b \in Bindings : ScriptOf(b)
    /\ \A m \in Messages(toHost) : IsTrue(m)
    /\ \A m \in Messages(toWorker) : IsInOrder(m)
    /\ AnswersAreTrue /\ CleanCloseIsHonest

-----------------------------------------------------------------------------
(* Facts about ports, and what the steps of a binding have in common.      *)

\* A message that is sent joins those on their way.
LEMMA MessagesAppend ==
    ASSUME NEW S, NEW s \in Seq(S), NEW e \in S
    PROVE  Append(s, e) \in Seq(S) /\ Messages(Append(s, e)) = Messages(s) \cup {e}
<1>1. /\ Append(s, e) \in Seq(S) /\ Len(Append(s, e)) = Len(s) + 1 /\ Len(s) \in Nat
      /\ \A k \in 1..Len(s) : Append(s, e)[k] = s[k]
      /\ Append(s, e)[Len(s) + 1] = e
    BY AppendProperties, LenProperties
<1>2. 1..Len(Append(s, e)) = 1..Len(s) \cup {Len(s) + 1}
    BY <1>1
<1> QED BY <1>1, <1>2 DEF Messages

\* A message that is taken was on its way, and the others still are.
LEMMA MessagesTail ==
    ASSUME NEW S, NEW s \in Seq(S), s # <<>>
    PROVE  /\ Tail(s) \in Seq(S) /\ Head(s) \in S
           /\ Head(s) \in Messages(s) /\ Messages(Tail(s)) \subseteq Messages(s)
<1>1. /\ Tail(s) \in Seq(S) /\ Head(s) \in S /\ Len(Tail(s)) = Len(s) - 1
      /\ Len(s) \in Nat /\ Len(s) # 0 /\ Head(s) = s[1]
    BY HeadTailProperties, LenProperties, EmptySeq
<1>2. \A k \in 1..Len(Tail(s)) : Tail(s)[k] = s[k + 1] /\ k + 1 \in 1..Len(s)
    BY <1>1, HeadTailProperties
<1>3. 1 \in 1..Len(s)
    BY <1>1
<1> QED BY <1>1, <1>2, <1>3 DEF Messages

\* What is on its way has the type of what is sent.
LEMMA MessagesTyped ==
    ASSUME NEW S, NEW s \in Seq(S), NEW m \in Messages(s)
    PROVE  m \in S
BY ElementOfSeq DEF Messages

\* A step of one binding preserves the invariant if it keeps its script within
\* the session and its command, and leaves a drained binding alone.
LEMMA BindingStep ==
    ASSUME PythonIInv, NEW b \in Bindings, UNCHANGED <<connection, alive>>,
           attached' \in BOOLEAN, binding' \in [Bindings -> BindingRecord],
           \A x \in Bindings : x # b => binding'[x] = binding[x],
           ran' \in [Ids -> {None, "finished", "failed", "refused"}],
           \A i \in Ids : ran'[i] # ran[i] => i = service.running /\ ran[i] = None,
           ScriptOf(b)', RunningCommand',
           b = service.binding =>
               /\ binding'[b].phase = "ready"
               /\ binding[b].closing = "closed" => binding'[b] = binding[b]
    PROVE  PythonIInv'
<1> USE DEF connection
<1>1. /\ ConnectionTyped /\ RunningCommand /\ Unheard /\ CloseIsLast /\ ServiceEnds
      /\ \A x \in Bindings : ScriptOf(x)
      /\ \A m \in Messages(toHost) : IsTrue(m)
      /\ \A m \in Messages(toWorker) : IsInOrder(m)
      /\ AnswersAreTrue /\ CleanCloseIsHonest
    BY DEF PythonIInv
<1>2. ConnectionTyped'
    BY <1>1 DEF ConnectionTyped
<1>3. \A x \in Bindings : ScriptOf(x)'
    <2>1. ASSUME NEW x \in Bindings, x # b PROVE ScriptOf(x)'
        BY <1>1, <2>1 DEF ScriptOf
    <2> QED BY <2>1
<1>4. /\ service.running \in 0..MaxCommands /\ service.seq \in 0..MaxCommands
      /\ service.binding \in Bindings \cup {None}
    BY <1>1 DEF ConnectionTyped, ServiceRecord
<1>5. Unheard'
    BY <1>1, <1>4 DEF Unheard, RunningCommand, Ids
<1>6. service.binding # None /\ Served.closing = "closed" => Served' = Served
    BY <1>4 DEF Served
<1>7. (\A m \in Messages(toHost) : IsTrue(m))'
    <2>1. ASSUME NEW m \in Messages(toHost) PROVE IsTrue(m)'
        <3>1. m \in Reply
            <4>1. toHost \in Seq(Reply)
                BY <1>1 DEF ConnectionTyped
            <4> QED BY <4>1, ElementOfSeq DEF Messages
        <3>2. ran'[m.id] = ran[m.id]
            BY <1>1, <3>1 DEF IsTrue, Reply, None
        <3>3. m.id = service.ack => service.closing = "finished" /\ Served' = Served
            BY <1>1, <1>6 DEF IsTrue, ServiceEnds
        <3> QED BY <1>1, <3>2, <3>3 DEF IsTrue
    <2> QED BY <2>1
<1>8. (\A m \in Messages(toWorker) : IsInOrder(m))' /\ CloseIsLast' /\ AnswersAreTrue'
    <2>1. AnswersAreTrue'
        BY <1>1 DEF AnswersAreTrue, None
    <2> QED BY <1>1, <2>1 DEF IsInOrder, CloseIsLast
<1>9. ServiceEnds'
    <2>1. service.ack # 0 => service.ack \in Ids /\ ran'[service.ack] = ran[service.ack]
        <3>1. service.ack # 0 => service.running = 0 /\ service.ack \in Ids
            BY <1>1 DEF ConnectionTyped, ServiceRecord, Ids, RunningCommand
        <3> QED BY <3>1 DEF Ids
    <2>2. service.binding # None => Served'.phase = "ready"
        BY <1>1, <1>4 DEF Served, ServiceEnds
    <2>3. service.closing = "finished" => ~service.port /\ Served'.closing = "closed"
        BY <1>1, <1>6 DEF ServiceEnds
    <2> QED BY <1>1, <2>1, <2>2, <2>3 DEF ServiceEnds
<1>10. CleanCloseIsHonest'
    <2>1. client.closing = "acknowledged" => service.binding # None /\ Served' = Served
        BY <1>1, <1>6 DEF CleanCloseIsHonest, ServiceEnds, Served
    <2> QED BY <1>1, <2>1 DEF CleanCloseIsHonest, Served
<1> QED BY <1>2, <1>3, <1>5, <1>7, <1>8, <1>9, <1>10 DEF PythonIInv

\* An attachment that starts loads a binding nobody serves.
LEMMA AttachKeeps ==
    ASSUME PythonIInv, NEW b \in Bindings, Attach(b)
    PROVE  PythonIInv'
<1>1. /\ ConnectionTyped /\ RunningCommand /\ ServiceEnds /\ ScriptOf(b)
      /\ UNCHANGED <<connection, alive, ran>>
    BY DEF PythonIInv, Attach
<1>2. binding' = [binding EXCEPT ![b] = [@ EXCEPT !.phase = "loading"]]
    BY DEF Attach, None, Set
<1>3. binding[b].phase # "ready"
    BY DEF Attach, None, Set
<1>4. /\ binding' \in [Bindings -> BindingRecord]
      /\ \A x \in Bindings : x # b => binding'[x] = binding[x]
    BY <1>1, <1>2, BoundsAssumption DEF ConnectionTyped, BindingRecord, Local, None
<1>5. /\ binding'[b].phase = "loading" /\ binding'[b].script = binding[b].script /\ binding'[b].owner = binding[b].owner
      /\ binding'[b].closing = binding[b].closing /\ binding'[b].failed = binding[b].failed
    BY <1>1, <1>2 DEF ConnectionTyped, BindingRecord
<1>6. attached' \in BOOLEAN /\ ran' \in [Ids -> {None, "finished", "failed", "refused"}]
    BY <1>1 DEF ConnectionTyped, Attach
<1>7. ScriptOf(b)'
    BY <1>1, <1>3, <1>5 DEF ScriptOf, connection, Local, None
<1>8. b # service.binding
    BY <1>1, <1>3, BindingsAssumption DEF ServiceEnds, Served, None
<1>9. RunningCommand'
    BY <1>1, <1>4, <1>8 DEF RunningCommand, Served, connection, ConnectionTyped, ServiceRecord
<1> QED BY <1>1, <1>4, <1>6, <1>7, <1>8, <1>9, BindingStep

\* A binding becomes ready, or is given up before anybody has it.
LEMMA FinishLoadingKeeps ==
    ASSUME PythonIInv, NEW b \in Bindings, NEW ending \in {"installed", "unloaded", "uninstalled"},
           FinishLoading(b, ending)
    PROVE  PythonIInv'
<1>1. /\ ConnectionTyped /\ RunningCommand /\ ServiceEnds /\ ScriptOf(b)
      /\ UNCHANGED <<connection, alive, ran, attached>>
    BY DEF PythonIInv, FinishLoading
<1>2. PICK p \in {"ready", "rejecting"}, c \in {binding[b].closing, "waiting"} : binding' = [binding EXCEPT ![b] = [@ EXCEPT !.phase = p, !.closing = c]]
    BY DEF FinishLoading, None, Set
<1>3. binding[b].phase = "loading"
    BY DEF FinishLoading, None, Set
<1>4. /\ binding' \in [Bindings -> BindingRecord]
      /\ \A x \in Bindings : x # b => binding'[x] = binding[x]
    BY <1>1, <1>2, BoundsAssumption DEF ConnectionTyped, BindingRecord, Local, None
<1>5. /\ binding'[b].phase = p /\ binding'[b].script = binding[b].script /\ binding'[b].owner = binding[b].owner
      /\ binding'[b].closing = c /\ binding'[b].failed = binding[b].failed
    BY <1>1, <1>2 DEF ConnectionTyped, BindingRecord
<1>6. attached' \in BOOLEAN /\ ran' \in [Ids -> {None, "finished", "failed", "refused"}]
    BY <1>1 DEF ConnectionTyped, FinishLoading
<1>7. ScriptOf(b)'
    BY <1>1, <1>3, <1>5 DEF ScriptOf, connection, Local, None
<1>8. b # service.binding
    BY <1>1, <1>3, BindingsAssumption DEF ServiceEnds, Served, None
<1>9. RunningCommand'
    BY <1>1, <1>4, <1>8 DEF RunningCommand, Served, connection, ConnectionTyped, ServiceRecord
<1> QED BY <1>1, <1>4, <1>6, <1>7, <1>8, <1>9, BindingStep

\* A rejected attachment was never served.
LEMMA RejectKeeps ==
    ASSUME PythonIInv, NEW b \in Bindings, Reject(b)
    PROVE  PythonIInv'
<1>1. /\ ConnectionTyped /\ RunningCommand /\ ServiceEnds /\ ScriptOf(b)
      /\ UNCHANGED <<connection, alive, ran>>
    BY DEF PythonIInv, Reject
<1>2. binding' = [binding EXCEPT ![b] = [@ EXCEPT !.phase = "rejected"]]
    BY DEF Reject, None, Set
<1>3. binding[b].phase = "rejecting"
    BY DEF Reject, None, Set
<1>4. /\ binding' \in [Bindings -> BindingRecord]
      /\ \A x \in Bindings : x # b => binding'[x] = binding[x]
    BY <1>1, <1>2, BoundsAssumption DEF ConnectionTyped, BindingRecord, Local, None
<1>5. /\ binding'[b].phase = "rejected" /\ binding'[b].script = binding[b].script /\ binding'[b].owner = binding[b].owner
      /\ binding'[b].closing = binding[b].closing /\ binding'[b].failed = binding[b].failed
    BY <1>1, <1>2 DEF ConnectionTyped, BindingRecord
<1>6. attached' \in BOOLEAN /\ ran' \in [Ids -> {None, "finished", "failed", "refused"}]
    BY <1>1 DEF ConnectionTyped, Reject
<1>7. ScriptOf(b)'
    BY <1>1, <1>3, <1>5 DEF ScriptOf, connection, Local, None
<1>8. b # service.binding
    BY <1>1, <1>3, BindingsAssumption DEF ServiceEnds, Served, None
<1>9. RunningCommand'
    BY <1>1, <1>4, <1>8 DEF RunningCommand, Served, connection, ConnectionTyped, ServiceRecord
<1> QED BY <1>1, <1>4, <1>6, <1>7, <1>8, <1>9, BindingStep

\* A local script belongs to no command.
LEMMA RunLocallyKeeps ==
    ASSUME PythonIInv, NEW b \in Bindings, RunLocally(b)
    PROVE  PythonIInv'
<1>1. /\ ConnectionTyped /\ RunningCommand /\ ServiceEnds /\ ScriptOf(b)
      /\ UNCHANGED <<connection, alive, ran, attached>>
    BY DEF PythonIInv, RunLocally
<1>2. binding' = [binding EXCEPT ![b] = [@ EXCEPT !.script = "preparing", !.owner = Local]]
    BY DEF RunLocally, None, Admits, Admit
<1>3. binding[b].script = None /\ binding[b].closing = "no"
    BY DEF RunLocally, None, Admits, Admit
<1>4. /\ binding' \in [Bindings -> BindingRecord]
      /\ \A x \in Bindings : x # b => binding'[x] = binding[x]
    <2>1. Local \in 0..MaxCommands
        BY BoundsAssumption DEF Local
    <2> QED BY <1>1, <1>2, <2>1 DEF ConnectionTyped, BindingRecord
<1>5. /\ binding'[b].phase = binding[b].phase /\ binding'[b].script = "preparing" /\ binding'[b].owner = Local
      /\ binding'[b].closing = binding[b].closing /\ binding'[b].failed = binding[b].failed
    BY <1>1, <1>2 DEF ConnectionTyped, BindingRecord
<1>6. attached' \in BOOLEAN /\ ran' \in [Ids -> {None, "finished", "failed", "refused"}]
    BY <1>1 DEF ConnectionTyped, RunLocally
<1>7. ScriptOf(b)'
    BY <1>1, <1>3, <1>5 DEF ScriptOf, connection, Local, None
<1>8. RunningCommand'
    BY <1>1, <1>3, <1>4, <1>5 DEF RunningCommand, Served, connection, ConnectionTyped, ServiceRecord, ScriptOf, Local, None
<1>9. b = service.binding =>
          /\ binding'[b].phase = "ready"
          /\ binding[b].closing = "closed" => binding'[b] = binding[b]
    BY <1>1, <1>3, <1>5, BindingsAssumption DEF ServiceEnds, Served, ScriptOf, None
<1> QED BY <1>1, <1>4, <1>6, <1>7, <1>8, <1>9, BindingStep

\* A local script leaves nothing behind.
LEMMA SettleLocallyKeeps ==
    ASSUME PythonIInv, NEW b \in Bindings, SettleLocally(b)
    PROVE  PythonIInv'
<1>1. /\ ConnectionTyped /\ RunningCommand /\ ServiceEnds /\ ScriptOf(b)
      /\ UNCHANGED <<connection, alive, ran, attached>>
    BY DEF PythonIInv, SettleLocally
<1>2. binding' = [binding EXCEPT ![b] = [@ EXCEPT !.script = None]]
    BY DEF SettleLocally, None, Set
<1>3. binding[b].script \in {"finished", "failed"} /\ binding[b].owner = Local
    BY DEF SettleLocally, None, Set
<1>4. /\ binding' \in [Bindings -> BindingRecord]
      /\ \A x \in Bindings : x # b => binding'[x] = binding[x]
    BY <1>1, <1>2, BoundsAssumption DEF ConnectionTyped, BindingRecord, Local, None
<1>5. /\ binding'[b].phase = binding[b].phase /\ binding'[b].script = None /\ binding'[b].owner = binding[b].owner
      /\ binding'[b].closing = binding[b].closing /\ binding'[b].failed = binding[b].failed
    BY <1>1, <1>2 DEF ConnectionTyped, BindingRecord
<1>6. attached' \in BOOLEAN /\ ran' \in [Ids -> {None, "finished", "failed", "refused"}]
    BY <1>1 DEF ConnectionTyped, SettleLocally
<1>7. ScriptOf(b)'
    BY <1>1, <1>3, <1>5 DEF ScriptOf, connection, Local, None
<1>8. RunningCommand'
    BY <1>1, <1>3, <1>4, <1>5 DEF RunningCommand, Served, connection, ConnectionTyped, ServiceRecord, ScriptOf, Local, None
<1>9. b = service.binding =>
          /\ binding'[b].phase = "ready"
          /\ binding[b].closing = "closed" => binding'[b] = binding[b]
    BY <1>1, <1>3, <1>5, BindingsAssumption DEF ServiceEnds, Served, ScriptOf, None
<1> QED BY <1>1, <1>4, <1>6, <1>7, <1>8, <1>9, BindingStep

\* A close inside the worker lets the accepted script go on.
LEMMA CloseLocallyKeeps ==
    ASSUME PythonIInv, NEW b \in Bindings, CloseLocally(b)
    PROVE  PythonIInv'
<1>1. /\ ConnectionTyped /\ RunningCommand /\ ServiceEnds /\ ScriptOf(b)
      /\ UNCHANGED <<connection, alive, ran, attached>>
    BY DEF PythonIInv, CloseLocally
<1>2. binding' = [binding EXCEPT ![b] = [@ EXCEPT !.closing = "waiting"]]
    BY DEF CloseLocally, None, Set, CloseBinding
<1>3. binding[b].closing = "no"
    BY DEF CloseLocally, None, Set, CloseBinding
<1>4. /\ binding' \in [Bindings -> BindingRecord]
      /\ \A x \in Bindings : x # b => binding'[x] = binding[x]
    BY <1>1, <1>2, BoundsAssumption DEF ConnectionTyped, BindingRecord, Local, None
<1>5. /\ binding'[b].phase = binding[b].phase /\ binding'[b].script = binding[b].script /\ binding'[b].owner = binding[b].owner
      /\ binding'[b].closing = "waiting" /\ binding'[b].failed = binding[b].failed
    BY <1>1, <1>2 DEF ConnectionTyped, BindingRecord
<1>6. attached' \in BOOLEAN /\ ran' \in [Ids -> {None, "finished", "failed", "refused"}]
    BY <1>1 DEF ConnectionTyped, CloseLocally
<1>7. ScriptOf(b)'
    BY <1>1, <1>3, <1>5 DEF ScriptOf, connection, Local, None
<1>8. RunningCommand'
    <2>1. service.binding # None =>
              Served'.script = Served.script /\ Served'.owner = Served.owner
        BY <1>1, <1>4, <1>5 DEF Served, connection, ConnectionTyped, ServiceRecord
    <2> QED BY <1>1, <2>1 DEF RunningCommand, connection
<1>9. b = service.binding =>
          /\ binding'[b].phase = "ready"
          /\ binding[b].closing = "closed" => binding'[b] = binding[b]
    BY <1>1, <1>3, <1>5, BindingsAssumption DEF ServiceEnds, Served, ScriptOf, None
<1> QED BY <1>1, <1>4, <1>6, <1>7, <1>8, <1>9, BindingStep

\* The session closes behind the accepted script.
LEMMA CloseRuntimeKeeps ==
    ASSUME PythonIInv, NEW b \in Bindings, CloseRuntime(b)
    PROVE  PythonIInv'
<1>1. /\ ConnectionTyped /\ RunningCommand /\ ServiceEnds /\ ScriptOf(b)
      /\ UNCHANGED <<connection, alive, ran, attached>>
    BY DEF PythonIInv, CloseRuntime
<1>2. binding' = [binding EXCEPT ![b] = [@ EXCEPT !.closing = "draining"]]
    BY DEF CloseRuntime, None, Set, NothingRuns
<1>3. binding[b].closing = "waiting" /\ binding[b].script = None
    BY DEF CloseRuntime, None, Set, NothingRuns
<1>4. /\ binding' \in [Bindings -> BindingRecord]
      /\ \A x \in Bindings : x # b => binding'[x] = binding[x]
    BY <1>1, <1>2, BoundsAssumption DEF ConnectionTyped, BindingRecord, Local, None
<1>5. /\ binding'[b].phase = binding[b].phase /\ binding'[b].script = binding[b].script /\ binding'[b].owner = binding[b].owner
      /\ binding'[b].closing = "draining" /\ binding'[b].failed = binding[b].failed
    BY <1>1, <1>2 DEF ConnectionTyped, BindingRecord
<1>6. attached' \in BOOLEAN /\ ran' \in [Ids -> {None, "finished", "failed", "refused"}]
    BY <1>1 DEF ConnectionTyped, CloseRuntime
<1>7. ScriptOf(b)'
    BY <1>1, <1>3, <1>5 DEF ScriptOf, connection, Local, None
<1>8. RunningCommand'
    BY <1>1, <1>3, <1>4, <1>5 DEF RunningCommand, Served, connection, ConnectionTyped, ServiceRecord, ScriptOf, Local, None
<1>9. b = service.binding =>
          /\ binding'[b].phase = "ready"
          /\ binding[b].closing = "closed" => binding'[b] = binding[b]
    BY <1>1, <1>3, <1>5, BindingsAssumption DEF ServiceEnds, Served, ScriptOf, None
<1> QED BY <1>1, <1>4, <1>6, <1>7, <1>8, <1>9, BindingStep

\* A drained binding stays drained.
LEMMA FinishDrainKeeps ==
    ASSUME PythonIInv, NEW b \in Bindings, FinishDrain(b)
    PROVE  PythonIInv'
<1>1. /\ ConnectionTyped /\ RunningCommand /\ ServiceEnds /\ ScriptOf(b)
      /\ UNCHANGED <<connection, alive, ran>>
    BY DEF PythonIInv, FinishDrain
<1>2. PICK bad \in BOOLEAN : binding' = [binding EXCEPT ![b] = [@ EXCEPT !.closing = "closed", !.failed = bad]]
    BY DEF FinishDrain, None
<1>3. binding[b].closing = "draining"
    BY DEF FinishDrain, None
<1>4. /\ binding' \in [Bindings -> BindingRecord]
      /\ \A x \in Bindings : x # b => binding'[x] = binding[x]
    BY <1>1, <1>2, BoundsAssumption DEF ConnectionTyped, BindingRecord, Local, None
<1>5. /\ binding'[b].phase = binding[b].phase /\ binding'[b].script = binding[b].script /\ binding'[b].owner = binding[b].owner
      /\ binding'[b].closing = "closed" /\ binding'[b].failed = bad
    BY <1>1, <1>2 DEF ConnectionTyped, BindingRecord
<1>6. attached' \in BOOLEAN /\ ran' \in [Ids -> {None, "finished", "failed", "refused"}]
    BY <1>1 DEF ConnectionTyped, FinishDrain
<1>7. ScriptOf(b)'
    BY <1>1, <1>3, <1>5 DEF ScriptOf, connection, Local, None
<1>8. RunningCommand'
    BY <1>1, <1>3, <1>4, <1>5 DEF RunningCommand, Served, connection, ConnectionTyped, ServiceRecord, ScriptOf, Local, None
<1>9. b = service.binding =>
          /\ binding'[b].phase = "ready"
          /\ binding[b].closing = "closed" => binding'[b] = binding[b]
    BY <1>1, <1>3, <1>5, BindingsAssumption DEF ServiceEnds, Served, ScriptOf, None
<1> QED BY <1>1, <1>4, <1>6, <1>7, <1>8, <1>9, BindingStep

\* A failed preparation settles the command it belongs to, for the first time.
LEMMA PrepareKeeps ==
    ASSUME PythonIInv, NEW b \in Bindings, Prepare(b)
    PROVE  PythonIInv'
<1>1. /\ ConnectionTyped /\ RunningCommand /\ ServiceEnds /\ ScriptOf(b)
      /\ UNCHANGED <<connection, alive, attached>>
    BY DEF PythonIInv, Prepare
<1>2. PICK to \in {"running", "failed"} :
          /\ binding' = [binding EXCEPT ![b] = [@ EXCEPT !.script = to]]
          /\ to = "running" => ran' = ran
          /\ to # "running" => ran' = [i \in Ids |-> IF i = binding[b].owner THEN to ELSE ran[i]]
    BY DEF Prepare, Set, Settles
<1>3. binding[b].script = "preparing"
    BY DEF Prepare, None, Set, Settles
<1>4. /\ binding' \in [Bindings -> BindingRecord]
      /\ \A x \in Bindings : x # b => binding'[x] = binding[x]
    BY <1>1, <1>2, BoundsAssumption DEF ConnectionTyped, BindingRecord, Local, None
<1>5. /\ binding'[b].phase = binding[b].phase /\ binding'[b].script = to /\ binding'[b].owner = binding[b].owner
      /\ binding'[b].closing = binding[b].closing /\ binding'[b].failed = binding[b].failed
    BY <1>1, <1>2 DEF ConnectionTyped, BindingRecord
<1>6. attached' \in BOOLEAN /\ ran' \in [Ids -> {None, "finished", "failed", "refused"}]
    BY <1>1, <1>2 DEF ConnectionTyped
<1>7. ScriptOf(b)'
    BY <1>1, <1>3, <1>5 DEF ScriptOf, connection, Local, None
<1>8. binding[b].owner # Local =>
          /\ b = service.binding /\ service.entered /\ service.running # 0
          /\ binding[b].owner = service.running /\ ran[service.running] = None
    BY <1>1, <1>3 DEF ScriptOf, RunningCommand, Served, Local, None
<1>9. binding[b].owner = Local => ran' = ran
    <2>1. CASE to = "running"
        BY <1>2, <2>1
    <2>2. CASE to # "running"
        <3>1. ASSUME binding[b].owner = Local
              PROVE  ran' = [i \in Ids |-> ran[i]]
            BY <1>2, <2>2, <3>1 DEF Local, Ids
        <3> QED BY <1>1, <3>1 DEF ConnectionTyped
    <2> QED BY <2>1, <2>2
<1>10. \A i \in Ids : ran'[i] # ran[i] => i = service.running /\ ran[i] = None
    BY <1>2, <1>8, <1>9
<1>11. RunningCommand'
    <2>1. CASE binding[b].owner = Local
        BY <1>1, <1>4, <1>5, <1>9, <2>1 DEF RunningCommand, Served, connection, ConnectionTyped, ServiceRecord, Local
    <2>2. CASE binding[b].owner # Local
        <3>1. service.running \in Ids
            BY <1>1, <1>8, <2>2 DEF ConnectionTyped, ServiceRecord, Ids
        <3> QED BY <1>1, <1>2, <1>4, <1>5, <1>8, <2>2, <3>1 DEF RunningCommand, Served, connection, ConnectionTyped
    <2> QED BY <2>1, <2>2
<1>12. b = service.binding =>
          /\ binding'[b].phase = "ready"
          /\ binding[b].closing = "closed" => binding'[b] = binding[b]
    BY <1>1, <1>3, <1>5, BindingsAssumption DEF ServiceEnds, Served, ScriptOf, None
<1> QED BY <1>1, <1>4, <1>6, <1>7, <1>10, <1>11, <1>12, BindingStep

\* The end of a script settles the command it belongs to, for the first time.
LEMMA EndScriptKeeps ==
    ASSUME PythonIInv, NEW b \in Bindings, EndScript(b)
    PROVE  PythonIInv'
<1>1. /\ ConnectionTyped /\ RunningCommand /\ ServiceEnds /\ ScriptOf(b)
      /\ UNCHANGED <<connection, alive, attached>>
    BY DEF PythonIInv, EndScript
<1>2. PICK to \in {"finished", "failed"} :
          /\ binding' = [binding EXCEPT ![b] = [@ EXCEPT !.script = to]]
          /\ ran' = [i \in Ids |-> IF i = binding[b].owner THEN to ELSE ran[i]]
    BY DEF EndScript, Set, Settles
<1>3. binding[b].script = "running"
    BY DEF EndScript, None, Set, Settles
<1>4. /\ binding' \in [Bindings -> BindingRecord]
      /\ \A x \in Bindings : x # b => binding'[x] = binding[x]
    BY <1>1, <1>2, BoundsAssumption DEF ConnectionTyped, BindingRecord, Local, None
<1>5. /\ binding'[b].phase = binding[b].phase /\ binding'[b].script = to /\ binding'[b].owner = binding[b].owner
      /\ binding'[b].closing = binding[b].closing /\ binding'[b].failed = binding[b].failed
    BY <1>1, <1>2 DEF ConnectionTyped, BindingRecord
<1>6. attached' \in BOOLEAN /\ ran' \in [Ids -> {None, "finished", "failed", "refused"}]
    BY <1>1, <1>2 DEF ConnectionTyped
<1>7. ScriptOf(b)'
    BY <1>1, <1>3, <1>5 DEF ScriptOf, connection, Local, None
<1>8. binding[b].owner # Local =>
          /\ b = service.binding /\ service.entered /\ service.running # 0
          /\ binding[b].owner = service.running /\ ran[service.running] = None
    BY <1>1, <1>3 DEF ScriptOf, RunningCommand, Served, Local, None
<1>9. binding[b].owner = Local => ran' = ran
    BY <1>1, <1>2 DEF ConnectionTyped, Local, Ids
<1>10. \A i \in Ids : ran'[i] # ran[i] => i = service.running /\ ran[i] = None
    BY <1>2, <1>8, <1>9
<1>11. RunningCommand'
    <2>1. CASE binding[b].owner = Local
        BY <1>1, <1>4, <1>5, <1>9, <2>1 DEF RunningCommand, Served, connection, ConnectionTyped, ServiceRecord, Local
    <2>2. CASE binding[b].owner # Local
        <3>1. service.running \in Ids
            BY <1>1, <1>8, <2>2 DEF ConnectionTyped, ServiceRecord, Ids
        <3> QED BY <1>1, <1>2, <1>4, <1>5, <1>8, <2>2, <3>1 DEF RunningCommand, Served, connection, ConnectionTyped
    <2> QED BY <2>1, <2>2
<1>12. b = service.binding =>
          /\ binding'[b].phase = "ready"
          /\ binding[b].closing = "closed" => binding'[b] = binding[b]
    BY <1>1, <1>3, <1>5, BindingsAssumption DEF ServiceEnds, Served, ScriptOf, None
<1> QED BY <1>1, <1>4, <1>6, <1>7, <1>10, <1>11, <1>12, BindingStep

\* A loss starts the close of the service, and answers nothing.
LEMMA LoseServiceKeeps ==
    ASSUME PythonIInv, LoseService
    PROVE  PythonIInv'
<1>1. /\ ConnectionTyped /\ RunningCommand /\ Unheard /\ CloseIsLast /\ ServiceEnds
      /\ \A x \in Bindings : ScriptOf(x)
      /\ \A m \in Messages(toHost) : IsTrue(m)
      /\ \A m \in Messages(toWorker) : IsInOrder(m)
      /\ AnswersAreTrue /\ CleanCloseIsHonest
    BY DEF PythonIInv
<1>2. service' = Losing(service) /\ service.port /\ service.binding # None
      /\ UNCHANGED <<attached, binding, hostSide, toWorker, alive, ran>>
    BY DEF LoseService, Listening, Serving
<1>3. service' \in ServiceRecord
    BY <1>1, <1>2 DEF ConnectionTyped, ServiceRecord, Losing
<1>4. /\ service'.binding = service.binding /\ service'.seq = service.seq
      /\ service'.running = service.running /\ service'.entered = service.entered
      /\ service'.ack = service.ack /\ ~service'.port
      /\ service'.closing = IF service.closing = "no" THEN "running" ELSE service.closing
    BY <1>1, <1>2 DEF ConnectionTyped, ServiceRecord, Losing
<1>5. ConnectionTyped'
    BY <1>1, <1>2, <1>3 DEF ConnectionTyped, hostSide
<1>6. (\A x \in Bindings : ScriptOf(x)') /\ RunningCommand' /\ Unheard'
    BY <1>1, <1>2, <1>4 DEF ScriptOf, RunningCommand, Unheard, Served
<1>7. (\A m \in Messages(toHost) : IsTrue(m))'
    BY <1>1, <1>2, <1>4 DEF IsTrue, hostSide, Served
<1>8. (\A m \in Messages(toWorker) : IsInOrder(m))' /\ CloseIsLast' /\ AnswersAreTrue'
    BY <1>1, <1>2, <1>4 DEF IsInOrder, CloseIsLast, AnswersAreTrue, hostSide
<1>9. ServiceEnds' /\ CleanCloseIsHonest'
    BY <1>1, <1>2, <1>4 DEF ServiceEnds, CleanCloseIsHonest, Served, hostSide
<1> QED BY <1>5, <1>6, <1>7, <1>8, <1>9 DEF PythonIInv

\* A dead worker changes nothing more.
LEMMA WorkerDiesKeeps ==
    ASSUME PythonIInv, WorkerDies
    PROVE  PythonIInv'
<1>1. /\ ConnectionTyped /\ RunningCommand /\ Unheard /\ CloseIsLast /\ ServiceEnds
      /\ \A x \in Bindings : ScriptOf(x)
      /\ \A m \in Messages(toHost) : IsTrue(m)
      /\ \A m \in Messages(toWorker) : IsInOrder(m)
      /\ AnswersAreTrue /\ CleanCloseIsHonest
    BY DEF PythonIInv
<1>2. alive' = FALSE /\ UNCHANGED <<attached, binding, connection, ran>>
    BY DEF WorkerDies
<1>3. ConnectionTyped'
    BY <1>1, <1>2 DEF ConnectionTyped, connection
<1>4. (\A x \in Bindings : ScriptOf(x)') /\ RunningCommand' /\ Unheard' /\ ServiceEnds' /\ CloseIsLast'
    BY <1>1, <1>2 DEF ScriptOf, RunningCommand, Unheard, ServiceEnds, CloseIsLast, Served, connection
<1>5. (\A m \in Messages(toHost) : IsTrue(m))' /\ (\A m \in Messages(toWorker) : IsInOrder(m))'
    BY <1>1, <1>2 DEF IsTrue, IsInOrder, Served, connection
<1>6. AnswersAreTrue' /\ CleanCloseIsHonest'
    BY <1>1, <1>2 DEF AnswersAreTrue, CleanCloseIsHonest, connection
<1> QED BY <1>3, <1>4, <1>5, <1>6 DEF PythonIInv

\* A service starts on a ready binding, before it has heard of a command.
LEMMA ServeKeeps ==
    ASSUME PythonIInv, NEW b \in Bindings, Serve(b)
    PROVE  PythonIInv'
<1>1. /\ ConnectionTyped /\ RunningCommand /\ Unheard /\ CloseIsLast /\ ServiceEnds
      /\ \A x \in Bindings : ScriptOf(x)
      /\ \A m \in Messages(toHost) : IsTrue(m)
      /\ \A m \in Messages(toWorker) : IsInOrder(m)
      /\ AnswersAreTrue /\ CleanCloseIsHonest
    BY DEF PythonIInv
<1>2. /\ service.binding = None /\ binding[b].phase = "ready"
      /\ service' = [service EXCEPT !.binding = b, !.port = TRUE]
      /\ UNCHANGED <<attached, binding, hostSide, toWorker, alive, ran>>
    BY DEF Serve, Serving
<1>3. service' \in ServiceRecord
    BY <1>1, <1>2 DEF ConnectionTyped, ServiceRecord
<1>4. /\ service'.binding = b /\ service'.seq = service.seq /\ service'.running = service.running
      /\ service'.entered = service.entered /\ service'.ack = service.ack
      /\ service'.closing = service.closing
    BY <1>1, <1>2 DEF ConnectionTyped, ServiceRecord
<1>5. service.running = 0 /\ service.closing = "no" /\ service.ack = 0
    BY <1>1, <1>2 DEF RunningCommand, ServiceEnds
<1>6. ConnectionTyped'
    BY <1>1, <1>2, <1>3 DEF ConnectionTyped, hostSide
<1>7. \A x \in Bindings : ScriptOf(x)'
    BY <1>1, <1>2, BindingsAssumption DEF ScriptOf
<1>8. RunningCommand' /\ Unheard' /\ ServiceEnds'
    BY <1>1, <1>2, <1>4, <1>5, BindingsAssumption DEF RunningCommand, Unheard, ServiceEnds, Served
<1>9. (\A m \in Messages(toHost) : IsTrue(m))'
    BY <1>1, <1>2, <1>4, <1>5 DEF IsTrue, hostSide
<1>10. (\A m \in Messages(toWorker) : IsInOrder(m))' /\ CloseIsLast' /\ AnswersAreTrue'
    BY <1>1, <1>2, <1>4 DEF IsInOrder, CloseIsLast, AnswersAreTrue, hostSide
<1>11. CleanCloseIsHonest'
    BY <1>1, <1>2, <1>4, <1>5 DEF CleanCloseIsHonest, hostSide
<1> QED BY <1>6, <1>7, <1>8, <1>9, <1>10, <1>11 DEF PythonIInv

\* The next command is one nothing is known of; a close is the client's last.
LEMMA ReceiveCommandKeeps ==
    ASSUME PythonIInv, ReceiveCommand
    PROVE  PythonIInv'
<1>1. /\ ConnectionTyped /\ RunningCommand /\ Unheard /\ CloseIsLast /\ ServiceEnds
      /\ \A x \in Bindings : ScriptOf(x)
      /\ \A m \in Messages(toHost) : IsTrue(m)
      /\ \A m \in Messages(toWorker) : IsInOrder(m)
      /\ AnswersAreTrue /\ CleanCloseIsHonest
    BY DEF PythonIInv
<1>2. /\ service.port /\ toWorker # <<>> /\ toWorker' = Tail(toWorker)
      /\ UNCHANGED <<attached, binding, hostSide, alive, ran>>
    BY DEF ReceiveCommand, Listening
<1>3. PICK m \in Command : m = Head(toWorker) /\ IsInOrder(m)
    BY <1>1, <1>2, MessagesTail DEF ConnectionTyped
<1>4. /\ toWorker' \in Seq(Command) /\ Messages(toWorker') \subseteq Messages(toWorker)
    BY <1>1, <1>2, MessagesTail DEF ConnectionTyped
<1>5. /\ m.id \in Ids /\ m.id \in 0..MaxCommands /\ m.id # 0 /\ m.kind \in {"run", "close"}
      /\ service.seq \in 0..MaxCommands
    BY <1>1, <1>3 DEF Command, Ids, ConnectionTyped, ServiceRecord
<1>6. service.binding # None
    BY <1>1, <1>2 DEF ServiceEnds
<1>7. (\A x \in Messages(toWorker) : IsInOrder(x))' /\ AnswersAreTrue' /\ CloseIsLast'
      <=> service'.seq <= client.seq /\ (client.pending = "close" => service'.running < client.seq)
    BY <1>1, <1>2, <1>4 DEF IsInOrder, AnswersAreTrue, CloseIsLast, hostSide
<1>8. CASE m.id = service.seq + 1 /\ service.closing = "no" /\ service.running = 0 /\ m.kind = "run"
    <2>1. service' = [service EXCEPT !.seq = m.id, !.running = m.id, !.entered = FALSE]
        BY <1>3, <1>8 DEF ReceiveCommand
    <2>2. service' \in ServiceRecord
        BY <1>1, <1>5, <2>1 DEF ConnectionTyped, ServiceRecord
    <2>3. /\ service'.binding = service.binding /\ service'.seq = m.id /\ service'.running = m.id
          /\ ~service'.entered /\ service'.closing = "no" /\ service'.ack = service.ack
          /\ service'.port = service.port
        BY <1>1, <1>8, <2>1 DEF ConnectionTyped, ServiceRecord
    <2>4. service.ack = 0
        BY <1>1, <1>8 DEF ServiceEnds
    <2>5. ConnectionTyped'
        BY <1>1, <1>2, <1>4, <2>2 DEF ConnectionTyped, hostSide
    <2>6. \A x \in Bindings : ScriptOf(x)'
        BY <1>1, <1>2, <1>8, <2>3 DEF ScriptOf, ConnectionTyped, BindingRecord, Local
    <2>7. RunningCommand' /\ Unheard' /\ ServiceEnds'
        <3>1. ran[m.id] = None
            BY <1>1, <1>5, <1>8 DEF Unheard
        <3>2. RunningCommand'
            BY <1>2, <1>6, <2>3, <2>4, <3>1 DEF RunningCommand
        <3>3. Unheard'
            BY <1>1, <1>2, <1>5, <1>8, <2>3 DEF Unheard, Ids
        <3> QED BY <1>1, <1>2, <1>6, <2>3, <2>4, <3>2, <3>3 DEF ServiceEnds, Served
    <2>8. (\A x \in Messages(toHost) : IsTrue(x))'
        <3>1. ASSUME NEW x \in Messages(toHost) PROVE IsTrue(x)'
            <4>1. x \in Reply /\ IsTrue(x)
                BY <1>1, MessagesTyped DEF ConnectionTyped
            <4> QED BY <1>2, <1>5, <1>8, <2>3, <4>1 DEF IsTrue, hostSide, Served, Reply, Ids
        <3> QED BY <1>2, <3>1 DEF hostSide
    <2>9. service'.seq <= client.seq /\ (client.pending = "close" => service'.running < client.seq)
        BY <1>3, <1>8, <2>3 DEF IsInOrder
    <2>10. CleanCloseIsHonest'
        BY <1>1, <1>2, <1>8 DEF CleanCloseIsHonest, hostSide
    <2> QED BY <1>7, <2>5, <2>6, <2>7, <2>8, <2>9, <2>10 DEF PythonIInv
<1>9. CASE m.id = service.seq + 1 /\ service.closing = "no" /\ service.running = 0 /\ m.kind = "close"
    <2>1. service' = [service EXCEPT !.seq = m.id, !.ack = m.id, !.closing = "running"]
        BY <1>3, <1>9 DEF ReceiveCommand
    <2>2. service' \in ServiceRecord
        BY <1>1, <1>5, <2>1 DEF ConnectionTyped, ServiceRecord
    <2>3. /\ service'.binding = service.binding /\ service'.seq = m.id /\ service'.running = 0
          /\ service'.entered = service.entered /\ service'.closing = "running" /\ service'.ack = m.id
          /\ service'.port = service.port
        BY <1>1, <1>9, <2>1 DEF ConnectionTyped, ServiceRecord
    <2>4. service.ack = 0 /\ m.id = client.seq /\ client.closing \notin {"no", "waiting"}
        BY <1>1, <1>3, <1>9 DEF ServiceEnds, IsInOrder
    <2>5. ConnectionTyped'
        BY <1>1, <1>2, <1>4, <2>2 DEF ConnectionTyped, hostSide
    <2>6. \A x \in Bindings : ScriptOf(x)'
        BY <1>1, <1>2, <1>9, <2>3 DEF ScriptOf
    <2>7. RunningCommand' /\ Unheard' /\ ServiceEnds'
        <3>1. ran[m.id] = None
            BY <1>1, <1>5, <1>9 DEF Unheard
        <3>2. RunningCommand'
            BY <2>3 DEF RunningCommand
        <3>3. Unheard'
            BY <1>1, <1>2, <1>5, <1>9, <2>3 DEF Unheard, Ids
        <3> QED BY <1>1, <1>2, <1>6, <2>3, <2>4, <3>1, <3>2, <3>3 DEF ServiceEnds, Served, hostSide
    <2>8. (\A x \in Messages(toHost) : IsTrue(x))'
        <3>1. ASSUME NEW x \in Messages(toHost) PROVE IsTrue(x)'
            <4>1. x \in Reply /\ IsTrue(x)
                BY <1>1, MessagesTyped DEF ConnectionTyped
            <4>2. x.id \in Nat /\ m.id \in Nat /\ x.id < m.id
                BY <1>5, <1>9, <4>1 DEF Reply, Ids, IsTrue
            <4> QED BY <1>2, <1>5, <1>9, <2>3, <2>4, <4>1, <4>2 DEF IsTrue, hostSide, Served
        <3> QED BY <1>2, <3>1 DEF hostSide
    <2>9. service'.seq <= client.seq /\ (client.pending = "close" => service'.running < client.seq)
        BY <1>5, <2>3, <2>4
    <2>10. CleanCloseIsHonest'
        BY <1>1, <1>2, <1>9 DEF CleanCloseIsHonest, hostSide
    <2> QED BY <1>7, <2>5, <2>6, <2>7, <2>8, <2>9, <2>10 DEF PythonIInv
<1>10. CASE ~(m.id = service.seq + 1 /\ service.closing = "no" /\ service.running = 0)
    <2>1. service' = Losing(service)
        BY <1>3, <1>10 DEF ReceiveCommand
    <2>2. service' \in ServiceRecord
        BY <1>1, <2>1 DEF ConnectionTyped, ServiceRecord, Losing
    <2>3. /\ service'.binding = service.binding /\ service'.seq = service.seq
          /\ service'.running = service.running /\ service'.entered = service.entered
          /\ service'.ack = service.ack /\ ~service'.port
          /\ service'.closing = IF service.closing = "no" THEN "running" ELSE service.closing
        BY <1>1, <2>1 DEF ConnectionTyped, ServiceRecord, Losing
    <2>4. ConnectionTyped'
        BY <1>1, <1>2, <1>4, <2>2 DEF ConnectionTyped, hostSide
    <2>5. (\A x \in Bindings : ScriptOf(x)') /\ RunningCommand' /\ Unheard'
        BY <1>1, <1>2, <2>3 DEF ScriptOf, RunningCommand, Unheard, Served
    <2>6. (\A x \in Messages(toHost) : IsTrue(x))'
        BY <1>1, <1>2, <2>3 DEF IsTrue, hostSide, Served
    <2>7. service'.seq <= client.seq /\ (client.pending = "close" => service'.running < client.seq)
        BY <1>1, <2>3 DEF CloseIsLast
    <2>8. ServiceEnds' /\ CleanCloseIsHonest'
        BY <1>1, <1>2, <1>6, <2>3 DEF ServiceEnds, CleanCloseIsHonest, Served, hostSide
    <2> QED BY <1>7, <2>4, <2>5, <2>6, <2>7, <2>8 DEF PythonIInv
<1> QED BY <1>5, <1>8, <1>9, <1>10

\* The binding takes the command's script or refuses it.
LEMMA EnterBindingKeeps ==
    ASSUME PythonIInv, EnterBinding
    PROVE  PythonIInv'
<1>1. /\ ConnectionTyped /\ RunningCommand /\ Unheard /\ CloseIsLast /\ ServiceEnds
      /\ \A x \in Bindings : ScriptOf(x)
      /\ \A m \in Messages(toHost) : IsTrue(m)
      /\ \A m \in Messages(toWorker) : IsInOrder(m)
      /\ AnswersAreTrue /\ CleanCloseIsHonest
    BY DEF PythonIInv
<1>2. /\ service.running # 0 /\ ~service.entered /\ service' = [service EXCEPT !.entered = TRUE]
      /\ UNCHANGED <<attached, hostSide, toWorker, alive>>
    BY DEF EnterBinding
<1>3. service' \in ServiceRecord
    BY <1>1, <1>2 DEF ConnectionTyped, ServiceRecord
<1>4. /\ service'.binding = service.binding /\ service'.seq = service.seq
      /\ service'.running = service.running /\ service'.entered
      /\ service'.ack = service.ack /\ service'.closing = service.closing
      /\ service'.port = service.port
    BY <1>1, <1>2 DEF ConnectionTyped, ServiceRecord
<1>5. /\ service.binding # None /\ service.binding \in Bindings /\ service.running = service.seq
      /\ service.ack = 0 /\ ran[service.running] = None
      /\ service.running \in Ids /\ service.running \in 1..MaxCommands
    BY <1>1, <1>2 DEF RunningCommand, ConnectionTyped, ServiceRecord, Ids
<1>6. CASE Admits(service.binding)
    <2>1. /\ binding' = [binding EXCEPT ![service.binding] =
                             [@ EXCEPT !.script = "preparing", !.owner = service.running]]
          /\ ran' = ran /\ Served.script = None /\ Served.closing = "no"
        BY <1>5, <1>6 DEF EnterBinding, Admit, Admits, Served
    <2>2. /\ binding' \in [Bindings -> BindingRecord]
          /\ \A x \in Bindings : x # service.binding => binding'[x] = binding[x]
        <3>1. Served \in BindingRecord /\ service.running \in 0..MaxCommands
            BY <1>1, <1>5 DEF ConnectionTyped, Served
        <3>2. [Served EXCEPT !.script = "preparing", !.owner = service.running] \in BindingRecord
            BY <3>1 DEF BindingRecord
        <3> QED BY <1>1, <1>5, <2>1, <3>2 DEF ConnectionTyped, Served
    <2>3. /\ Served'.phase = Served.phase /\ Served'.script = "preparing"
          /\ Served'.owner = service.running /\ Served'.closing = "no"
          /\ Served'.failed = Served.failed
        BY <1>1, <1>4, <1>5, <2>1 DEF Served, ConnectionTyped, BindingRecord
    <2>4. ConnectionTyped'
        BY <1>1, <1>2, <1>3, <2>1, <2>2 DEF ConnectionTyped, hostSide
    <2>5. \A x \in Bindings : ScriptOf(x)'
        BY <1>1, <1>2, <1>4, <2>2, <2>3 DEF ScriptOf, Served, Local, None
    <2>6. RunningCommand' /\ Unheard'
        BY <1>1, <1>4, <1>5, <2>1, <2>3 DEF RunningCommand, Unheard
    <2>7. (\A m \in Messages(toHost) : IsTrue(m))'
        BY <1>1, <1>2, <1>4, <2>1, <2>3 DEF IsTrue, hostSide
    <2>8. (\A m \in Messages(toWorker) : IsInOrder(m))' /\ CloseIsLast' /\ AnswersAreTrue'
        BY <1>1, <1>2, <1>4, <2>1 DEF IsInOrder, CloseIsLast, AnswersAreTrue, hostSide
    <2>9. ServiceEnds' /\ CleanCloseIsHonest'
        BY <1>1, <1>2, <1>4, <1>5, <2>1, <2>3 DEF ServiceEnds, CleanCloseIsHonest, Served, hostSide
    <2> QED BY <2>4, <2>5, <2>6, <2>7, <2>8, <2>9 DEF PythonIInv
<1>7. CASE ~Admits(service.binding)
    <2>1. /\ ran' = [ran EXCEPT ![service.running] = "refused"] /\ binding' = binding
        BY <1>7 DEF EnterBinding
    <2>2. /\ ran' \in [Ids -> {None, "finished", "failed", "refused"}]
          /\ ran'[service.running] = "refused"
          /\ \A i \in Ids : i # service.running => ran'[i] = ran[i]
        BY <1>1, <1>5, <2>1 DEF ConnectionTyped
    <2>3. Served' = Served /\ Served.owner = Local
        BY <1>1, <1>2, <1>4, <1>5, <2>1 DEF Served, ScriptOf
    <2>4. ConnectionTyped'
        BY <1>1, <1>2, <1>3, <2>1, <2>2 DEF ConnectionTyped, hostSide
    <2>5. \A x \in Bindings : ScriptOf(x)'
        BY <1>1, <1>2, <1>4, <2>1 DEF ScriptOf
    <2>6. RunningCommand' /\ Unheard'
        BY <1>1, <1>2, <1>4, <1>5, <2>2, <2>3 DEF RunningCommand, Unheard, Local, Ids
    <2>7. (\A m \in Messages(toHost) : IsTrue(m))'
        <3>1. ASSUME NEW m \in Messages(toHost) PROVE IsTrue(m)'
            <4>1. m \in Reply /\ IsTrue(m)
                BY <1>1, MessagesTyped DEF ConnectionTyped
            <4>2. m.id # service.running /\ m.id \in Ids
                BY <1>5, <4>1 DEF IsTrue, Reply, None
            <4> QED BY <1>2, <1>4, <2>2, <2>3, <4>1, <4>2 DEF IsTrue, hostSide
        <3> QED BY <1>2, <3>1 DEF hostSide
    <2>8. (\A m \in Messages(toWorker) : IsInOrder(m))' /\ CloseIsLast' /\ AnswersAreTrue'
        BY <1>1, <1>2, <1>4, <1>5, <2>2 DEF IsInOrder, CloseIsLast, AnswersAreTrue, hostSide, None
    <2>9. ServiceEnds' /\ CleanCloseIsHonest'
        BY <1>1, <1>2, <1>4, <1>5, <2>1, <2>3 DEF ServiceEnds, CleanCloseIsHonest, Served, hostSide
    <2> QED BY <2>4, <2>5, <2>6, <2>7, <2>8, <2>9 DEF PythonIInv
<1> QED BY <1>6, <1>7

\* The reply to a command says how it ended.
LEMMA SettleCommandKeeps ==
    ASSUME PythonIInv, SettleCommand
    PROVE  PythonIInv'
<1>1. /\ ConnectionTyped /\ RunningCommand /\ Unheard /\ CloseIsLast /\ ServiceEnds
      /\ \A x \in Bindings : ScriptOf(x)
      /\ \A m \in Messages(toHost) : IsTrue(m)
      /\ \A m \in Messages(toWorker) : IsInOrder(m)
      /\ AnswersAreTrue /\ CleanCloseIsHonest
    BY DEF PythonIInv
<1>2. PICK over \in BOOLEAN : over = Over(service.binding, service.running)
    BY DEF Over
<1>3. /\ service.running # 0 /\ service.entered /\ (over \/ ran[service.running] = "refused")
      /\ binding' = IF over THEN [binding EXCEPT ![service.binding] =
                                        [@ EXCEPT !.script = None, !.owner = Local]] ELSE binding
      /\ service' = [service EXCEPT !.running = 0, !.entered = FALSE]
      /\ UNCHANGED <<attached, client, toWorker, alive, ran, answered>>
    BY <1>2 DEF SettleCommand
<1>4. /\ service.binding # None /\ service.binding \in Bindings /\ service.running = service.seq
      /\ service.ack = 0 /\ service.running \in Ids /\ service.running \in 1..MaxCommands
    BY <1>1, <1>3 DEF RunningCommand, ConnectionTyped, ServiceRecord, Ids
<1>5. IF over THEN /\ Served.owner = service.running /\ Served.script \in {"finished", "failed"}
                   /\ ran[service.running] = Served.script
              ELSE ran[service.running] = "refused"
    BY <1>1, <1>2, <1>3, <1>4 DEF Over, Served, RunningCommand
<1>6. service' \in ServiceRecord
    <2>1. 0 \in 0..MaxCommands
        BY BoundsAssumption
    <2> QED BY <1>1, <1>3, <2>1 DEF ConnectionTyped, ServiceRecord
<1>7. /\ service'.binding = service.binding /\ service'.seq = service.seq /\ service'.running = 0
      /\ service'.ack = service.ack /\ service'.closing = service.closing
      /\ service'.port = service.port
    BY <1>1, <1>3 DEF ConnectionTyped, ServiceRecord
<1>8. /\ binding' \in [Bindings -> BindingRecord]
      /\ \A x \in Bindings : x # service.binding => binding'[x] = binding[x]
    <2>1. Served \in BindingRecord /\ Local \in 0..MaxCommands
        BY <1>1, <1>4, BoundsAssumption DEF ConnectionTyped, Served, Local
    <2>2. [Served EXCEPT !.script = None, !.owner = Local] \in BindingRecord
        BY <2>1 DEF BindingRecord
    <2> QED BY <1>1, <1>3, <1>4, <2>2 DEF ConnectionTyped, Served
<1>9. /\ Served'.phase = Served.phase /\ Served'.closing = Served.closing
      /\ Served'.failed = Served.failed /\ Served'.script \in {None, Served.script}
      /\ (over => Served'.owner = Local /\ Served'.script = None)
      /\ (~over => Served' = Served)
    BY <1>1, <1>3, <1>4, <1>7 DEF Served, ConnectionTyped, BindingRecord
<1>10. /\ toHost' \in Seq(Reply)
       /\ \A m \in Messages(toHost') : \/ m \in Messages(toHost)
                                       \/ m \in Reply /\ m.id = service.running /\
                                           (m.ok <=> ran[service.running] = "finished")
    <2>1. PICK ok \in BOOLEAN : ok <=> ran[service.running] = "finished"
        OBVIOUS
    <2>2. ((IF over THEN Served.script ELSE "refused") = "finished") = ok
        BY <1>5, <2>1
    <2>3. toHost' = IF service.closing = "no" THEN Append(toHost, [id |-> service.running, ok |-> ok])
                                              ELSE toHost
        BY <1>2, <2>2 DEF SettleCommand, Served
    <2>4. toHost \in Seq(Reply) /\ [id |-> service.running, ok |-> ok] \in Reply
        BY <1>1, <1>4 DEF ConnectionTyped, Reply
    <2> QED BY <2>1, <2>3, <2>4, MessagesAppend
<1>11. ConnectionTyped'
    BY <1>1, <1>3, <1>6, <1>8, <1>10 DEF ConnectionTyped
<1>12. \A x \in Bindings : ScriptOf(x)'
    <2>1. ASSUME NEW x \in Bindings, x # service.binding PROVE ScriptOf(x)'
        BY <1>1, <1>8, <2>1 DEF ScriptOf
    <2>2. CASE over
        BY <1>4, <1>7, <1>9, <2>1, <2>2 DEF ScriptOf, Served
    <2>3. CASE ~over
        <3>1. Served.owner = Local
            BY <1>1, <1>2, <1>3, <1>4, <1>5, <2>3 DEF RunningCommand, ScriptOf, Served, Over, None
        <3> QED BY <1>1, <1>4, <1>7, <1>9, <2>1, <2>3, <3>1 DEF ScriptOf, Served
    <2> QED BY <2>2, <2>3
<1>13. RunningCommand' /\ Unheard'
    BY <1>1, <1>3, <1>7 DEF RunningCommand, Unheard
<1>14. (\A m \in Messages(toHost) : IsTrue(m))'
    <2>1. ASSUME NEW m \in Messages(toHost) PROVE IsTrue(m)'
        BY <1>1, <1>3, <1>7, <1>9, <2>1 DEF IsTrue
    <2>2. ASSUME NEW m \in Reply, m.id = service.running, m.ok <=> ran[service.running] = "finished"
          PROVE  IsTrue(m)'
        <3>1. m.id <= service.seq /\ m.id # service.ack
            BY <1>4, <2>2
        <3>2. ran[m.id] \in {"finished", "failed", "refused"}
            BY <1>5, <2>2
        <3>3. client.pending = "close" => m.id # client.seq
            BY <1>1, <1>4, <2>2 DEF CloseIsLast, ConnectionTyped, ClientRecord
        <3> QED BY <1>3, <1>7, <2>2, <3>1, <3>2, <3>3 DEF IsTrue
    <2> QED BY <1>10, <2>1, <2>2
<1>15. (\A m \in Messages(toWorker) : IsInOrder(m))' /\ CloseIsLast' /\ AnswersAreTrue'
    <2>1. client.pending = "close" => 0 < client.seq
        BY <1>1, <1>4 DEF CloseIsLast, ConnectionTyped, ClientRecord
    <2> QED BY <1>1, <1>3, <1>7, <2>1 DEF IsInOrder, CloseIsLast, AnswersAreTrue
<1>16. ServiceEnds' /\ CleanCloseIsHonest'
    BY <1>1, <1>3, <1>4, <1>7, <1>9 DEF ServiceEnds, CleanCloseIsHonest, Served
<1> QED BY <1>11, <1>12, <1>13, <1>14, <1>15, <1>16 DEF PythonIInv

\* The binding closes behind the command that runs.
LEMMA StartClosingKeeps ==
    ASSUME PythonIInv, StartClosing
    PROVE  PythonIInv'
<1>1. /\ ConnectionTyped /\ RunningCommand /\ Unheard /\ CloseIsLast /\ ServiceEnds
      /\ \A x \in Bindings : ScriptOf(x)
      /\ \A m \in Messages(toHost) : IsTrue(m)
      /\ \A m \in Messages(toWorker) : IsInOrder(m)
      /\ AnswersAreTrue /\ CleanCloseIsHonest
    BY DEF PythonIInv
<1>2. /\ service.closing = "running" /\ service.running = 0
      /\ service' = [service EXCEPT !.closing = "binding"]
      /\ UNCHANGED <<attached, hostSide, toWorker, alive, ran>>
    BY DEF StartClosing
<1>3. service' \in ServiceRecord
    BY <1>1, <1>2 DEF ConnectionTyped, ServiceRecord
<1>4. /\ service'.binding = service.binding /\ service'.seq = service.seq /\ service'.running = 0
      /\ service'.entered = service.entered /\ service'.ack = service.ack
      /\ service'.closing = "binding" /\ service'.port = service.port
    BY <1>1, <1>2 DEF ConnectionTyped, ServiceRecord
<1>5. service.binding \in Bindings /\ service.binding # None
    BY <1>1, <1>2 DEF ServiceEnds, ConnectionTyped, ServiceRecord
<1>6. PICK c \in {Served.closing, "waiting"} :
          /\ binding' = [binding EXCEPT ![service.binding] = [@ EXCEPT !.closing = c]]
          /\ c # Served.closing => Served.closing = "no"
    <2>1. CASE Served.closing = "no"
        BY <2>1 DEF StartClosing, CloseBinding, Set, Served
    <2>2. CASE Served.closing # "no"
        <3>1. binding' = binding
            BY <2>2 DEF StartClosing, CloseBinding, Served
        <3>2. binding = [binding EXCEPT ![service.binding] = [@ EXCEPT !.closing = Served.closing]]
            BY <1>1, <1>5 DEF ConnectionTyped, BindingRecord, Served
        <3> QED BY <3>1, <3>2
    <2> QED BY <2>1, <2>2
<1>7. /\ binding' \in [Bindings -> BindingRecord]
      /\ \A x \in Bindings : x # service.binding => binding'[x] = binding[x]
    <2>1. Served \in BindingRecord
        BY <1>1, <1>5 DEF ConnectionTyped, Served
    <2>2. [Served EXCEPT !.closing = c] \in BindingRecord
        BY <2>1 DEF BindingRecord
    <2> QED BY <1>1, <1>5, <1>6, <2>2 DEF ConnectionTyped, Served
<1>8. /\ Served'.phase = Served.phase /\ Served'.script = Served.script
      /\ Served'.owner = Served.owner /\ Served'.failed = Served.failed /\ Served'.closing = c
    BY <1>1, <1>4, <1>5, <1>6 DEF Served, ConnectionTyped, BindingRecord
<1>9. ConnectionTyped'
    BY <1>1, <1>2, <1>3, <1>7 DEF ConnectionTyped, hostSide
<1>10. \A x \in Bindings : ScriptOf(x)'
    <2>1. ASSUME NEW x \in Bindings, x # service.binding PROVE ScriptOf(x)'
        BY <1>1, <1>4, <1>7, <2>1 DEF ScriptOf
    <2>2. ScriptOf(service.binding) /\ Served.owner = Local
        BY <1>1, <1>2, <1>5 DEF ScriptOf, Served, Local
    <2> QED BY <1>4, <1>5, <1>6, <1>8, <2>1, <2>2 DEF ScriptOf, Served
<1>11. RunningCommand' /\ Unheard'
    BY <1>1, <1>2, <1>4 DEF RunningCommand, Unheard
<1>12. (\A m \in Messages(toHost) : IsTrue(m))'
    BY <1>1, <1>2, <1>4 DEF IsTrue, hostSide
<1>13. (\A m \in Messages(toWorker) : IsInOrder(m))' /\ CloseIsLast' /\ AnswersAreTrue'
    BY <1>1, <1>2, <1>4 DEF IsInOrder, CloseIsLast, AnswersAreTrue, hostSide
<1>14. ServiceEnds' /\ CleanCloseIsHonest'
    BY <1>1, <1>2, <1>4, <1>5, <1>8 DEF ServiceEnds, CleanCloseIsHonest, hostSide
<1> QED BY <1>9, <1>10, <1>11, <1>12, <1>13, <1>14 DEF PythonIInv

\* The service answers its close behind a drained binding.
LEMMA FinishServiceKeeps ==
    ASSUME PythonIInv, FinishService
    PROVE  PythonIInv'
<1>1. /\ ConnectionTyped /\ RunningCommand /\ Unheard /\ CloseIsLast /\ ServiceEnds
      /\ \A x \in Bindings : ScriptOf(x)
      /\ \A m \in Messages(toHost) : IsTrue(m)
      /\ \A m \in Messages(toWorker) : IsInOrder(m)
      /\ AnswersAreTrue /\ CleanCloseIsHonest
    BY DEF PythonIInv
<1>2. PICK ok \in BOOLEAN : ok = ~Served.failed
    OBVIOUS
<1>3. /\ service.closing = "binding" /\ Served.closing = "closed"
      /\ service' = [service EXCEPT !.closing = "finished", !.port = FALSE]
      /\ UNCHANGED <<attached, binding, client, toWorker, alive, answered>>
    BY DEF FinishService, Drained, Served
<1>4. /\ toHost' = IF service.ack # 0 /\ ~service.loss
                   THEN Append(toHost, [id |-> service.ack, ok |-> ok]) ELSE toHost
      /\ ran' = [i \in Ids |-> IF i # service.ack THEN ran[i] ELSE IF ok THEN "finished" ELSE "failed"]
    BY <1>2 DEF FinishService, Served
<1>5. service' \in ServiceRecord
    BY <1>1, <1>3 DEF ConnectionTyped, ServiceRecord
<1>6. /\ service'.binding = service.binding /\ service'.seq = service.seq
      /\ service'.running = service.running /\ service'.entered = service.entered
      /\ service'.ack = service.ack /\ service'.closing = "finished" /\ ~service'.port
    BY <1>1, <1>3 DEF ConnectionTyped, ServiceRecord
<1>7. /\ service.running = 0 /\ service.binding # None /\ Served' = Served
      /\ service.ack # 0 => ran[service.ack] = None /\ service.ack \in Ids
    BY <1>1, <1>3, <1>6 DEF ServiceEnds, Served, ConnectionTyped, ServiceRecord, Ids
<1>8. /\ ran' \in [Ids -> {None, "finished", "failed", "refused"}]
      /\ \A i \in Ids : i # service.ack => ran'[i] = ran[i]
      /\ service.ack # 0 => ran'[service.ack] = IF ok THEN "finished" ELSE "failed"
    BY <1>1, <1>4, <1>7 DEF ConnectionTyped
<1>9. /\ toHost' \in Seq(Reply)
      /\ \A m \in Messages(toHost') : \/ m \in Messages(toHost)
                                      \/ m \in Reply /\ m.id = service.ack /\ m.ok = ok /\ service.ack # 0
    <2>1. toHost \in Seq(Reply) /\ (service.ack # 0 => [id |-> service.ack, ok |-> ok] \in Reply)
        BY <1>1, <1>7 DEF ConnectionTyped, Reply
    <2> QED BY <1>4, <2>1, MessagesAppend
<1>10. ConnectionTyped'
    BY <1>1, <1>3, <1>5, <1>8, <1>9 DEF ConnectionTyped
<1>11. (\A x \in Bindings : ScriptOf(x)') /\ RunningCommand'
    BY <1>1, <1>3, <1>6, <1>7 DEF ScriptOf, RunningCommand
<1>12. Unheard'
    <2>1. service.ack # 0 => service.ack = service.seq
        BY <1>1 DEF ServiceEnds
    <2> QED BY <1>1, <1>6, <1>8, <2>1 DEF Unheard, Ids, ConnectionTyped, ServiceRecord
<1>13. (\A m \in Messages(toHost) : IsTrue(m))'
    <2>1. ASSUME NEW m \in Messages(toHost) PROVE IsTrue(m)'
        <3>1. m \in Reply /\ IsTrue(m)
            BY <1>1, MessagesTyped DEF ConnectionTyped
        <3>2. m.id # service.ack /\ m.id \in Ids
            BY <1>3, <3>1 DEF IsTrue, Reply
        <3> QED BY <1>3, <1>6, <1>8, <3>1, <3>2 DEF IsTrue
    <2>2. ASSUME NEW m \in Reply, m.id = service.ack, m.ok = ok, service.ack # 0
          PROVE  IsTrue(m)'
        <3>1. m.id <= service.seq
            BY <1>1, <2>2 DEF ServiceEnds, ConnectionTyped, ServiceRecord
        <3>2. ran'[m.id] = IF m.ok THEN "finished" ELSE "failed"
            BY <1>8, <2>2
        <3>3. m.ok => ~Served.failed
            BY <1>2, <2>2
        <3> QED BY <1>3, <1>6, <1>7, <2>2, <3>1, <3>2, <3>3 DEF IsTrue
    <2> QED BY <1>9, <2>1, <2>2
<1>14. (\A m \in Messages(toWorker) : IsInOrder(m))' /\ CloseIsLast'
    BY <1>1, <1>3, <1>6 DEF IsInOrder, CloseIsLast
<1>15. AnswersAreTrue'
    <2>1. ASSUME NEW i \in Ids PROVE ran[i] # None => ran'[i] = ran[i]
        BY <1>7, <1>8, <2>1 DEF Ids
    <2> QED BY <1>1, <1>3, <2>1 DEF AnswersAreTrue, None
<1>16. ServiceEnds' /\ CleanCloseIsHonest'
    BY <1>1, <1>3, <1>6, <1>7 DEF ServiceEnds, CleanCloseIsHonest, Served
<1> QED BY <1>10, <1>11, <1>12, <1>13, <1>14, <1>15, <1>16 DEF PythonIInv

\* The running script is cleared behind its settlement.
LEMMA ClearRunningKeeps ==
    ASSUME PythonIInv, ClearRunning
    PROVE  PythonIInv'
<1>1. /\ ConnectionTyped /\ RunningCommand /\ Unheard /\ CloseIsLast /\ ServiceEnds
      /\ \A x \in Bindings : ScriptOf(x)
      /\ \A m \in Messages(toHost) : IsTrue(m)
      /\ \A m \in Messages(toWorker) : IsInOrder(m)
      /\ AnswersAreTrue /\ CleanCloseIsHonest
    BY DEF PythonIInv
<1>2. /\ client' = [client EXCEPT !.running = FALSE]
      /\ UNCHANGED <<workerSide, toWorker, toHost, answered>>
    BY DEF ClearRunning
<1>3. /\ client' \in ClientRecord /\ client'.seq = client.seq /\ client'.pending = client.pending
      /\ client'.closing = client.closing
    BY <1>1, <1>2 DEF ConnectionTyped, ClientRecord
<1>4. ConnectionTyped'
    BY <1>1, <1>2, <1>3 DEF ConnectionTyped, workerSide
<1>5. (\A x \in Bindings : ScriptOf(x)') /\ RunningCommand' /\ Unheard'
    BY <1>1, <1>2 DEF ScriptOf, RunningCommand, Unheard, workerSide, Served
<1>6. (\A m \in Messages(toHost) : IsTrue(m))' /\ (\A m \in Messages(toWorker) : IsInOrder(m))'
    BY <1>1, <1>2, <1>3 DEF IsTrue, IsInOrder, workerSide, Served
<1>7. CloseIsLast' /\ AnswersAreTrue' /\ ServiceEnds' /\ CleanCloseIsHonest'
    BY <1>1, <1>2, <1>3 DEF CloseIsLast, AnswersAreTrue, ServiceEnds, CleanCloseIsHonest, workerSide, Served
<1> QED BY <1>4, <1>5, <1>6, <1>7 DEF PythonIInv

\* close() asks nothing yet.
LEMMA ClosePythonKeeps ==
    ASSUME PythonIInv, ClosePython
    PROVE  PythonIInv'
<1>1. /\ ConnectionTyped /\ RunningCommand /\ Unheard /\ CloseIsLast /\ ServiceEnds
      /\ \A x \in Bindings : ScriptOf(x)
      /\ \A m \in Messages(toHost) : IsTrue(m)
      /\ \A m \in Messages(toWorker) : IsInOrder(m)
      /\ AnswersAreTrue /\ CleanCloseIsHonest
    BY DEF PythonIInv
<1>2. /\ client.closing = "no" /\ client' = [client EXCEPT !.closing = "waiting"]
      /\ UNCHANGED <<workerSide, toWorker, toHost, answered>>
    BY DEF ClosePython
<1>3. /\ client' \in ClientRecord /\ client'.seq = client.seq /\ client'.pending = client.pending
      /\ client'.closing = "waiting"
    BY <1>1, <1>2 DEF ConnectionTyped, ClientRecord
<1>4. ConnectionTyped'
    BY <1>1, <1>2, <1>3 DEF ConnectionTyped, workerSide
<1>5. (\A x \in Bindings : ScriptOf(x)') /\ RunningCommand' /\ Unheard'
    BY <1>1, <1>2 DEF ScriptOf, RunningCommand, Unheard, workerSide, Served
<1>6. (\A m \in Messages(toHost) : IsTrue(m))' /\ (\A m \in Messages(toWorker) : IsInOrder(m))'
    BY <1>1, <1>2, <1>3 DEF IsTrue, IsInOrder, workerSide, Served
<1>7. CloseIsLast' /\ AnswersAreTrue' /\ ServiceEnds' /\ CleanCloseIsHonest'
    BY <1>1, <1>2, <1>3 DEF CloseIsLast, AnswersAreTrue, ServiceEnds, CleanCloseIsHonest, workerSide, Served
<1> QED BY <1>4, <1>5, <1>6, <1>7 DEF PythonIInv

\* A command follows the commands before it.
LEMMA RunKeeps ==
    ASSUME PythonIInv, Run
    PROVE  PythonIInv'
<1>1. /\ ConnectionTyped /\ RunningCommand /\ Unheard /\ CloseIsLast /\ ServiceEnds
      /\ \A x \in Bindings : ScriptOf(x)
      /\ \A m \in Messages(toHost) : IsTrue(m)
      /\ \A m \in Messages(toWorker) : IsInOrder(m)
      /\ AnswersAreTrue /\ CleanCloseIsHonest
    BY DEF PythonIInv
<1>2. /\ client.closing = "no" /\ client.seq < MaxCommands
      /\ toWorker' = Append(toWorker, [kind |-> "run", id |-> client.seq + 1])
      /\ client' = [client EXCEPT !.seq = @ + 1, !.pending = "run", !.running = TRUE]
      /\ UNCHANGED <<workerSide, toHost, answered>>
    BY DEF Run, Send
<1>3. /\ client.seq \in 0..MaxCommands /\ client.seq + 1 \in 0..MaxCommands /\ client.seq + 1 \in Ids
    BY <1>1, <1>2, BoundsAssumption DEF ConnectionTyped, ClientRecord, Ids
<1>4. /\ client' \in ClientRecord /\ client'.seq = client.seq + 1 /\ client'.pending = "run"
      /\ client'.closing = client.closing
    BY <1>1, <1>2, <1>3 DEF ConnectionTyped, ClientRecord
<1>5. /\ toWorker' \in Seq(Command)
      /\ Messages(toWorker') = Messages(toWorker) \cup {[kind |-> "run", id |-> client.seq + 1]}
    <2>1. [kind |-> "run", id |-> client.seq + 1] \in Command /\ toWorker \in Seq(Command)
        BY <1>1, <1>3 DEF ConnectionTyped, Command
    <2> QED BY <1>2, <2>1, MessagesAppend
<1>6. ConnectionTyped'
    BY <1>1, <1>2, <1>4, <1>5 DEF ConnectionTyped, workerSide
<1>7. (\A x \in Bindings : ScriptOf(x)') /\ RunningCommand' /\ Unheard'
    BY <1>1, <1>2 DEF ScriptOf, RunningCommand, Unheard, workerSide, Served
<1>8. service.ack = 0 /\ service.seq \in Nat
    BY <1>1, <1>2 DEF ServiceEnds, ConnectionTyped, ServiceRecord
<1>9. (\A m \in Messages(toHost) : IsTrue(m))'
    <2>1. ASSUME NEW m \in Messages(toHost) PROVE IsTrue(m)'
        <3>1. m \in Reply /\ IsTrue(m)
            BY <1>1, MessagesTyped DEF ConnectionTyped
        <3>2. m.id # client.seq + 1 /\ m.id <= service.seq
            BY <1>1, <1>3, <1>8, <3>1 DEF IsTrue, CloseIsLast, Reply, Ids
        <3> QED BY <1>2, <1>4, <3>1, <3>2 DEF IsTrue, workerSide, Served
    <2> QED BY <1>2, <2>1
<1>10. (\A m \in Messages(toWorker) : IsInOrder(m))'
    <2>1. ASSUME NEW m \in Messages(toWorker) PROVE IsInOrder(m)'
        <3>1. m \in Command /\ IsInOrder(m)
            BY <1>1, MessagesTyped DEF ConnectionTyped
        <3>2. m.id \in Nat /\ m.kind # "close" /\ m.id <= client.seq
            BY <1>2, <3>1 DEF IsInOrder, Command, Ids
        <3> QED BY <1>3, <1>4, <3>2 DEF IsInOrder
    <2>2. ASSUME NEW m, m = [kind |-> "run", id |-> client.seq + 1] PROVE IsInOrder(m)'
        BY <1>3, <1>4, <2>2 DEF IsInOrder
    <2> QED BY <1>5, <2>1, <2>2
<1>11. CloseIsLast' /\ AnswersAreTrue' /\ ServiceEnds' /\ CleanCloseIsHonest'
    <2>1. CloseIsLast'
        <3>1. service.running <= client.seq /\ service.running \in Nat
            BY <1>1, <1>3 DEF RunningCommand, CloseIsLast, ConnectionTyped, ServiceRecord
        <3> QED BY <1>1, <1>2, <1>3, <1>4, <1>8, <3>1 DEF CloseIsLast, workerSide
    <2> QED BY <1>1, <1>2, <1>4, <1>8, <2>1 DEF AnswersAreTrue, ServiceEnds, CleanCloseIsHonest, workerSide, Served
<1> QED BY <1>6, <1>7, <1>9, <1>10, <1>11 DEF PythonIInv

\* The close is the last command, or a lost connection is reported.
LEMMA DrainClientKeeps ==
    ASSUME PythonIInv, DrainClient
    PROVE  PythonIInv'
<1>1. /\ ConnectionTyped /\ RunningCommand /\ Unheard /\ CloseIsLast /\ ServiceEnds
      /\ \A x \in Bindings : ScriptOf(x)
      /\ \A m \in Messages(toHost) : IsTrue(m)
      /\ \A m \in Messages(toWorker) : IsInOrder(m)
      /\ AnswersAreTrue /\ CleanCloseIsHonest
    BY DEF PythonIInv
<1>2. CASE client.failure
    <2>1. /\ client' = [client EXCEPT !.closing = "rejected"]
          /\ client.closing = "waiting"
          /\ UNCHANGED <<workerSide, toWorker, toHost, answered>>
        BY <1>2 DEF DrainClient
    <2>2. /\ client' \in ClientRecord /\ client'.seq = client.seq /\ client'.pending = client.pending
          /\ client'.closing = "rejected"
        BY <1>1, <2>1 DEF ConnectionTyped, ClientRecord
    <2>3. ConnectionTyped'
        BY <1>1, <2>1, <2>2 DEF ConnectionTyped, workerSide
    <2>4. (\A x \in Bindings : ScriptOf(x)') /\ RunningCommand' /\ Unheard'
        BY <1>1, <2>1 DEF ScriptOf, RunningCommand, Unheard, workerSide, Served
    <2>5. (\A m \in Messages(toHost) : IsTrue(m))' /\ (\A m \in Messages(toWorker) : IsInOrder(m))'
        BY <1>1, <2>1, <2>2 DEF IsTrue, IsInOrder, workerSide, Served
    <2>6. CloseIsLast' /\ AnswersAreTrue' /\ ServiceEnds' /\ CleanCloseIsHonest'
        BY <1>1, <2>1, <2>2 DEF CloseIsLast, AnswersAreTrue, ServiceEnds, CleanCloseIsHonest, workerSide, Served
    <2> QED BY <2>3, <2>4, <2>5, <2>6 DEF PythonIInv
<1>3. ASSUME ~client.failure PROVE PythonIInv'
    <2>2. /\ client.closing = "waiting" /\ client.seq < MaxCommands
          /\ toWorker' = Append(toWorker, [kind |-> "close", id |-> client.seq + 1])
          /\ client' = [client EXCEPT !.closing = "asked", !.pending = "close", !.seq = @ + 1]
          /\ UNCHANGED <<workerSide, toHost, answered>>
        BY <1>3 DEF DrainClient, Send
    <2>3. /\ client.seq \in 0..MaxCommands /\ client.seq + 1 \in 0..MaxCommands /\ client.seq + 1 \in Ids
        BY <1>1, <2>2, BoundsAssumption DEF ConnectionTyped, ClientRecord, Ids
    <2>4. /\ client' \in ClientRecord /\ client'.seq = client.seq + 1 /\ client'.pending = "close"
          /\ client'.closing = "asked"
        BY <1>1, <2>2, <2>3 DEF ConnectionTyped, ClientRecord
    <2>5. /\ toWorker' \in Seq(Command)
          /\ Messages(toWorker') = Messages(toWorker) \cup {[kind |-> "close", id |-> client.seq + 1]}
        <3>1. [kind |-> "close", id |-> client.seq + 1] \in Command /\ toWorker \in Seq(Command)
            BY <1>1, <2>3 DEF ConnectionTyped, Command
        <3> QED BY <2>2, <3>1, MessagesAppend
    <2>6. ConnectionTyped'
        BY <1>1, <2>2, <2>4, <2>5 DEF ConnectionTyped, workerSide
    <2>7. (\A x \in Bindings : ScriptOf(x)') /\ RunningCommand' /\ Unheard'
        BY <1>1, <2>2 DEF ScriptOf, RunningCommand, Unheard, workerSide, Served
    <2>8. service.ack = 0 /\ service.seq \in Nat
        BY <1>1, <2>2 DEF ServiceEnds, ConnectionTyped, ServiceRecord
    <2>9. (\A m \in Messages(toHost) : IsTrue(m))'
        <3>1. ASSUME NEW m \in Messages(toHost) PROVE IsTrue(m)'
            <4>1. m \in Reply /\ IsTrue(m)
                BY <1>1, MessagesTyped DEF ConnectionTyped
            <4>2. m.id # client.seq + 1 /\ m.id <= service.seq
                BY <1>1, <2>3, <2>8, <4>1 DEF IsTrue, CloseIsLast, Reply, Ids
            <4> QED BY <2>2, <2>4, <4>1, <4>2 DEF IsTrue, workerSide, Served
        <3> QED BY <2>2, <3>1
    <2>10. (\A m \in Messages(toWorker) : IsInOrder(m))'
        <3>1. ASSUME NEW m \in Messages(toWorker) PROVE IsInOrder(m)'
            <4>1. m \in Command /\ IsInOrder(m)
                BY <1>1, MessagesTyped DEF ConnectionTyped
            <4>2. m.id \in Nat /\ m.kind # "close" /\ m.id <= client.seq
                BY <2>2, <4>1 DEF IsInOrder, Command, Ids
            <4> QED BY <2>3, <2>4, <4>2 DEF IsInOrder
        <3>2. ASSUME NEW m, m = [kind |-> "close", id |-> client.seq + 1] PROVE IsInOrder(m)'
            BY <2>3, <2>4, <3>2 DEF IsInOrder
        <3> QED BY <2>5, <3>1, <3>2
    <2>11. CloseIsLast' /\ AnswersAreTrue' /\ ServiceEnds' /\ CleanCloseIsHonest'
        <3>1. CloseIsLast'
            <4>1. service.running <= client.seq /\ service.running \in Nat
                BY <1>1, <2>3 DEF RunningCommand, CloseIsLast, ConnectionTyped, ServiceRecord
            <4> QED BY <1>1, <2>2, <2>3, <2>4, <2>8, <4>1 DEF CloseIsLast, workerSide
        <3> QED BY <1>1, <2>2, <2>4, <2>8, <3>1 DEF AnswersAreTrue, ServiceEnds, CleanCloseIsHonest, workerSide, Served
    <2> QED BY <2>6, <2>7, <2>9, <2>10, <2>11 DEF PythonIInv
<1> QED BY <1>2, <1>3

\* A loss leaves what is on its way true, and reports nothing but itself.
LEMMA LostKeeps ==
    ASSUME PythonIInv, client' = Lost, answered' = IF client.seq = 0 THEN answered ELSE Answer("lost"),
           UNCHANGED <<workerSide, toWorker>>,
           toHost' \in Seq(Reply), Messages(toHost') \subseteq Messages(toHost)
    PROVE  PythonIInv'
<1>1. /\ ConnectionTyped /\ RunningCommand /\ Unheard /\ CloseIsLast /\ ServiceEnds
      /\ \A x \in Bindings : ScriptOf(x)
      /\ \A m \in Messages(toHost) : IsTrue(m)
      /\ \A m \in Messages(toWorker) : IsInOrder(m)
      /\ AnswersAreTrue /\ CleanCloseIsHonest
    BY DEF PythonIInv
<1>2. /\ client' \in ClientRecord /\ client'.seq = client.seq /\ client'.pending = None
      /\ client'.closing \in {client.closing, "rejected"}
    BY <1>1 DEF ConnectionTyped, ClientRecord, Lost
<1>3. /\ answered' \in [Ids -> {None, "ok", "error", "lost"}]
      /\ \A i \in Ids : answered'[i] \in {answered[i], "lost"}
    <2>1. client.seq # 0 => client.seq \in Ids
        BY <1>1 DEF ConnectionTyped, ClientRecord, Ids
    <2> QED BY <1>1, <2>1 DEF ConnectionTyped, Answer
<1>4. ConnectionTyped'
    BY <1>1, <1>2, <1>3 DEF ConnectionTyped, workerSide
<1>5. (\A x \in Bindings : ScriptOf(x)') /\ RunningCommand' /\ Unheard'
    BY <1>1 DEF ScriptOf, RunningCommand, Unheard, workerSide, Served
<1>6. (\A m \in Messages(toHost) : IsTrue(m))' /\ (\A m \in Messages(toWorker) : IsInOrder(m))'
    BY <1>1, <1>2 DEF IsTrue, IsInOrder, workerSide, Served, None
<1>7. CloseIsLast' /\ ServiceEnds' /\ CleanCloseIsHonest'
    BY <1>1, <1>2 DEF CloseIsLast, ServiceEnds, CleanCloseIsHonest, workerSide, Served, None
<1>8. AnswersAreTrue'
    BY <1>1, <1>3 DEF AnswersAreTrue, workerSide
<1> QED BY <1>4, <1>5, <1>6, <1>7, <1>8 DEF PythonIInv

\* A loss reports nothing but itself.
LEMMA LoseClientKeeps ==
    ASSUME PythonIInv, LoseClient
    PROVE  PythonIInv'
<1>1. /\ ConnectionTyped /\ RunningCommand /\ Unheard /\ CloseIsLast /\ ServiceEnds
      /\ \A x \in Bindings : ScriptOf(x)
      /\ \A m \in Messages(toHost) : IsTrue(m)
      /\ \A m \in Messages(toWorker) : IsInOrder(m)
      /\ AnswersAreTrue /\ CleanCloseIsHonest
    BY DEF PythonIInv
<1>2. /\ client' = Lost /\ answered' = IF client.seq = 0 THEN answered ELSE Answer("lost")
      /\ UNCHANGED <<workerSide, toWorker, toHost>>
    BY DEF LoseClient
<1>3. Messages(toHost') \subseteq Messages(toHost) /\ toHost' \in Seq(Reply)
    BY <1>1, <1>2 DEF ConnectionTyped
<1> QED BY <1>2, <1>3, LostKeeps

\* The client passes on what the message says, or a loss.
LEMMA ReceiveReplyKeeps ==
    ASSUME PythonIInv, ReceiveReply
    PROVE  PythonIInv'
<1>1. /\ ConnectionTyped /\ RunningCommand /\ Unheard /\ CloseIsLast /\ ServiceEnds
      /\ \A x \in Bindings : ScriptOf(x)
      /\ \A m \in Messages(toHost) : IsTrue(m)
      /\ \A m \in Messages(toWorker) : IsInOrder(m)
      /\ AnswersAreTrue /\ CleanCloseIsHonest
    BY DEF PythonIInv
<1>2. toHost # <<>> /\ toHost' = Tail(toHost) /\ UNCHANGED <<workerSide, toWorker>>
    BY DEF ReceiveReply
<1>3. PICK m \in Reply : m = Head(toHost) /\ IsTrue(m)
    BY <1>1, <1>2, MessagesTail DEF ConnectionTyped
<1>4. toHost' \in Seq(Reply) /\ Messages(toHost') \subseteq Messages(toHost)
    BY <1>1, <1>2, MessagesTail DEF ConnectionTyped
<1>5. CASE ~(m.id = client.seq /\ client.pending # None)
    <2>1. client' = Lost /\ answered' = IF client.seq = 0 THEN answered ELSE Answer("lost")
        BY <1>3, <1>5 DEF ReceiveReply
    <2> QED BY <1>2, <1>4, <2>1, LostKeeps
<1>6. CASE m.id = client.seq /\ client.pending # None
    <2>1. /\ answered' = [answered EXCEPT ![client.seq] = IF m.ok THEN "ok" ELSE "error"]
          /\ client' = [client EXCEPT !.pending = None, !.port = client.pending = "run",
                            !.closing = CASE client.pending = "run" -> client.closing
                                          [] client.pending = "close" /\ m.ok -> "acknowledged"
                                          [] OTHER -> "rejected"]
        BY <1>3, <1>6 DEF ReceiveReply, Answer
    <2>2. m.ok \in BOOLEAN /\ client.seq \in Ids /\ client.pending \in {"run", "close"}
        BY <1>1, <1>6 DEF Reply, ConnectionTyped, ClientRecord
    <2>3. PICK c \in {client.closing, "acknowledged", "rejected"} :
              /\ client' = [client EXCEPT !.pending = None, !.port = client.pending = "run", !.closing = c]
              /\ client.pending = "run" => c = client.closing
              /\ c = "acknowledged" => c = client.closing \/ (client.pending = "close" /\ m.ok)
        <3>1. CASE client.pending = "run"
            <4>1. client' = [client EXCEPT !.pending = None, !.port = client.pending = "run",
                                           !.closing = client.closing]
                BY <2>1, <3>1
            <4> QED BY <3>1, <4>1
        <3>2. CASE client.pending # "run" /\ m.ok
            BY <2>1, <2>2, <3>2
        <3>3. CASE client.pending # "run" /\ ~m.ok
            BY <2>1, <2>2, <3>3
        <3> QED BY <3>1, <3>2, <3>3
    <2>4. /\ client' \in ClientRecord /\ client'.seq = client.seq /\ client'.pending = None
          /\ client'.closing = c
        BY <1>1, <2>3 DEF ConnectionTyped, ClientRecord
    <2>5. /\ answered' \in [Ids -> {None, "ok", "error", "lost"}]
          /\ answered'[client.seq] = IF m.ok THEN "ok" ELSE "error"
          /\ \A i \in Ids : i # client.seq => answered'[i] = answered[i]
        BY <1>1, <2>1, <2>2 DEF ConnectionTyped
    <2>6. ConnectionTyped'
        BY <1>1, <1>2, <1>4, <2>4, <2>5 DEF ConnectionTyped, workerSide
    <2>7. (\A x \in Bindings : ScriptOf(x)') /\ RunningCommand' /\ Unheard'
        BY <1>1, <1>2 DEF ScriptOf, RunningCommand, Unheard, workerSide, Served
    <2>8. (\A x \in Messages(toHost) : IsTrue(x))' /\ (\A x \in Messages(toWorker) : IsInOrder(x))'
        <3>1. c \notin {"no", "waiting"} \/ c = client.closing
            BY <2>3
        <3> QED BY <1>1, <1>2, <1>4, <2>4, <3>1 DEF IsTrue, IsInOrder, workerSide, Served, None
    <2>9. CloseIsLast' /\ ServiceEnds'
        <3>1. c \notin {"no", "waiting"} \/ c = client.closing
            BY <2>3
        <3> QED BY <1>1, <1>2, <2>4, <3>1 DEF CloseIsLast, ServiceEnds, workerSide, Served, None
    <2>10. AnswersAreTrue'
        BY <1>1, <1>2, <1>3, <1>6, <2>5 DEF AnswersAreTrue, IsTrue, workerSide
    <2>11. CleanCloseIsHonest'
        <3>1. CASE c = "acknowledged" /\ c # client.closing
            <4>1. service.closing = "finished" /\ ~Served.failed
                BY <1>3, <1>6, <2>3, <3>1 DEF IsTrue
            <4>2. /\ service.running = 0 /\ ~service.port /\ Served.closing = "closed"
                  /\ service.binding \in Bindings
                BY <1>1, <4>1 DEF ServiceEnds, ConnectionTyped, ServiceRecord
            <4>3. Served.script = None
                BY <1>1, <4>2 DEF ScriptOf, Served
            <4> QED BY <1>2, <4>1, <4>2, <4>3 DEF CleanCloseIsHonest, Served, workerSide
        <3>2. CASE c = client.closing \/ c # "acknowledged"
            BY <1>1, <1>2, <2>4, <3>2 DEF CleanCloseIsHonest, workerSide
        <3> QED BY <3>1, <3>2
    <2> QED BY <2>6, <2>7, <2>8, <2>9, <2>10, <2>11 DEF PythonIInv
<1> QED BY <1>5, <1>6

-----------------------------------------------------------------------------
(* The theorems.                                                           *)

\* An unused worker satisfies the invariant.
LEMMA InitSatisfiesPythonIInv ==
    ASSUME InitPython
    PROVE  PythonIInv
<1> USE DEF InitPython
<1>1. 0 \in 0..MaxCommands /\ Messages(toWorker) = {} /\ Messages(toHost) = {}
    BY BoundsAssumption DEF Messages
<1>2. ConnectionTyped
    <2>1. Fresh \in BindingRecord
        BY <1>1 DEF Fresh, BindingRecord, Local, None
    <2>2. client \in ClientRecord
        BY <1>1 DEF ClientRecord
    <2>3. service \in ServiceRecord
        BY <1>1 DEF ServiceRecord
    <2>4. toWorker \in Seq(Command) /\ toHost \in Seq(Reply)
        OBVIOUS
    <2> QED BY <2>1, <2>2, <2>3, <2>4 DEF ConnectionTyped
<1>3. RunningCommand /\ Unheard /\ ServiceEnds
    BY DEF RunningCommand, Unheard, ServiceEnds
<1>4. CloseIsLast
    BY DEF CloseIsLast, None
<1>5. \A b \in Bindings : ScriptOf(b)
    BY DEF ScriptOf, Fresh
<1>6. AnswersAreTrue /\ CleanCloseIsHonest
    BY DEF AnswersAreTrue, CleanCloseIsHonest, None
<1> QED BY <1>1, <1>2, <1>3, <1>4, <1>5, <1>6 DEF PythonIInv

\* Every step preserves the invariant: one case per action.
LEMMA NextKeepsPythonIInv ==
    ASSUME PythonIInv, [NextPython]_pythonVars
    PROVE  PythonIInv'
<1>1. CASE UNCHANGED pythonVars
    BY <1>1 DEF PythonIInv, pythonVars, ConnectionTyped, RunningCommand, Unheard, CloseIsLast, ServiceEnds, ScriptOf,
                IsTrue, IsInOrder, AnswersAreTrue, CleanCloseIsHonest, Served, Messages
<1>2. CASE \E b \in Bindings : BindingJob(b)
    BY <1>2, FinishLoadingKeeps, RejectKeeps, PrepareKeeps, EndScriptKeeps, SettleLocallyKeeps,
       CloseRuntimeKeeps, FinishDrainKeeps DEF BindingJob
<1>3. CASE \E b \in Bindings : Attach(b) \/ RunLocally(b) \/ CloseLocally(b) \/ Serve(b)
    BY <1>3, AttachKeeps, RunLocallyKeeps, CloseLocallyKeeps, ServeKeeps
<1>4. CASE EnterBinding \/ SettleCommand \/ StartClosing \/ FinishService
    BY <1>4, EnterBindingKeeps, SettleCommandKeeps, StartClosingKeeps, FinishServiceKeeps
<1>5. CASE LoseService \/ ReceiveCommand \/ WorkerDies
    BY <1>5, LoseServiceKeeps, ReceiveCommandKeeps, WorkerDiesKeeps
<1>6. CASE Run \/ ReceiveReply \/ LoseClient \/ ClearRunning \/ ClosePython \/ DrainClient
    BY <1>6, RunKeeps, ReceiveReplyKeeps, LoseClientKeeps, ClearRunningKeeps, ClosePythonKeeps,
       DrainClientKeeps
<1> QED BY <1>1, <1>2, <1>3, <1>4, <1>5, <1>6 DEF NextPython

\* The parts of the invariant hold in every state of every behaviour, however
\* runs, closes, local scripts and losses interleave.
THEOREM PythonInvariantHolds == SpecPython => []PythonIInv
<1>1. InitPython => PythonIInv
    BY InitSatisfiesPythonIInv
<1>2. PythonIInv /\ [NextPython]_pythonVars => PythonIInv'
    BY NextKeepsPythonIInv
<1> QED BY <1>1, <1>2, PTL DEF SpecPython

\* The client never learns what did not happen: a reply says how its command
\* ended, and an acknowledged close is that of a drained binding
\* (python-worker.ts, PythonWorkerClient and PythonWorkerService).
THEOREM ReportsAreTrueHolds == SpecPython => []ReportsAreTrue
<1>1. PythonIInv => ReportsAreTrue
    <2> SUFFICES ASSUME PythonIInv PROVE ReportsAreTrue
        OBVIOUS
    <2>1. PythonTypeOK
        <3>1. /\ \A b \in Bindings : binding[b] \in BindingRecord
              /\ attached \in BOOLEAN /\ alive \in BOOLEAN
              /\ client \in ClientRecord /\ service \in ServiceRecord
            BY DEF PythonIInv, ConnectionTyped
        <3> QED BY <3>1 DEF PythonTypeOK, BindingRecord, ClientRecord, ServiceRecord
    <2> QED BY <2>1 DEF PythonIInv, ReportsAreTrue
<1> QED BY <1>1, PythonInvariantHolds, PTL

\* A script only runs on a session that is open: a close from anywhere waits
\* for the script that was accepted (python-binding.ts, close and #drain).
THEOREM ScriptsRunOnOpenSessionHolds == SpecPython => []ScriptsRunOnOpenSession
<1>1. PythonIInv => ScriptsRunOnOpenSession
    BY DEF PythonIInv, ScriptOf, ScriptsRunOnOpenSession
<1> QED BY <1>1, PythonInvariantHolds, PTL
=============================================================================
