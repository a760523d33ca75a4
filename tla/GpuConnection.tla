---------------------------- MODULE GpuConnection ----------------------------
(***************************************************************************)
(* The connection between a managed interpreter and the physical GPU       *)
(* worker (backends/webgpu: webgpu-connection, webgpu-shared-completion,   *)
(* webgpu-connected-backend, worker, webgpu-worker-controller).            *)
(*                                                                         *)
(* Three threads share a few words of memory. The client may block in      *)
(* Atomics.wait; the worker runs requests; the host supervises the worker  *)
(* and accounts for its loss. The words are the only authority: messages   *)
(* are hints, and may be dropped when a port closes. Each action below is  *)
(* one access to the shared words, with the thread-local work around it.   *)
(*                                                                         *)
(* Which live requests the client need not inspect is left out: here it    *)
(* inspects all of them (webgpu-pending-completions narrows that down).     *)
(***************************************************************************)
EXTENDS Naturals, Sequences, FiniteSets

CONSTANTS
    MaxRequests,          \* bound on the requests the client sends
    MaxFaults             \* bound on device losses, worker failures and failed calls

ASSUME RequestBoundAssumption == MaxRequests \in Nat
ASSUME FaultBoundAssumption == MaxFaults \in Nat

Requests == 1..MaxRequests

VARIABLES
    \* control words, and the header words of each completion
    generation,           \* GPU_GENERATION: 0 active, 1 retired
    accounted,            \* GPU_ACCOUNTED: 0 none, 1 worker closed, 2 worker lost
    status,               \* STATUS
    drainStored,          \* DRAINED
    \* GPU_PULSE, reduced to what a waiter can tell
    fresh,                \* the pulse still has the value the client loaded
    waking,               \* threads that have stored, and are about to notify
    \* the physical worker
    alive,
    acquired,             \* #acquired has settled
    closing,              \* #closing: "no", "joining", "accounted", "done"
    joining,              \* the runs that #close awaits
    phase,                \* where each request is
    physical,             \* its device work: "none", "running", "ended"
    port,                 \* messages from client to worker; 0 is "close"
    portOpen,             \* the worker has not closed its end
    \* the host controller
    setup,                \* #setup: "pending", "ready", "rejected"
    hostClosing,          \* #closing
    host,                 \* #finish: "free", "retiring", "ending", "finished"
    cleanup,              \* #cleanup: "pending", "resolved", "rejected"
    toHost,               \* messages of the worker
    closeSent,            \* a "close" message is on its way to the worker
    failed,               \* an error event of the worker is on its way to the host
    faults,               \* faults so far
    \* the client
    job,                  \* what runs: "none", "progress", "submit", "read", "close"
    at, cursor,           \* where it is, and the request it looks at
    seen,                 \* the STATUS it has loaded
    outcome,              \* #outcome of each completion
    retirements,          \* how often each completion ran its drain callbacks
    sent,                 \* requests sent so far
    hint,                 \* a progress message is on its way
    left                  \* close(): "no", "clean" or "unknown"

control == <<generation, accounted>>
header == <<status, drainStored>>
pulse == <<fresh, waking>>
worker == <<alive, acquired, closing, joining, phase, physical>>
ports == <<port, portOpen>>
hostVars == <<setup, hostClosing, host, cleanup>>
messages == <<toHost, closeSent>>
faultVars == <<failed, faults>>
client == <<job, at, cursor, seen, outcome, retirements, sent, left>>
vars == <<control, header, pulse, worker, ports, hostVars, messages, faultVars, client, hint>>

TypeOK ==
    /\ generation \in 0..1 /\ accounted \in 0..2
    /\ status \in [Requests -> {"pending", "success", "failure"}]
    /\ drainStored \in [Requests -> BOOLEAN]
    /\ fresh \in BOOLEAN /\ waking \subseteq {"worker", "host"}
    /\ alive \in BOOLEAN /\ acquired \in BOOLEAN
    /\ closing \in {"no", "joining", "accounted", "done"}
    /\ joining \in SUBSET Requests
    /\ phase \in [Requests -> {"none", "posted", "preparing", "running", "succeeding",
                               "storing", "failing", "draining", "done"}]
    /\ physical \in [Requests -> {"none", "running", "ended"}]
    /\ port \in Seq(0..MaxRequests) /\ portOpen \in BOOLEAN
    /\ setup \in {"pending", "ready", "rejected"} /\ hostClosing \in BOOLEAN
    /\ host \in {"free", "finishing", "finished"}
    /\ cleanup \in {"pending", "resolved", "rejected"}
    /\ toHost \in Seq({"ready", "failure", "closed", "lost"})
    /\ closeSent \in BOOLEAN /\ failed \in BOOLEAN /\ faults \in 0..MaxFaults
    /\ job \in {"none", "progress", "submit", "read", "close"}
    /\ at \in {"detached", "idle", "next", "status", "active", "drain", "load", "wait",
               "accounted", "loadAccounted", "recheck", "asleep", "left"}
    /\ cursor \in 0..MaxRequests /\ seen \in {"pending", "success", "failure"}
    /\ outcome \in [Requests -> {"pending", "value", "error"}]
    /\ retirements \in [Requests -> 0..1]
    /\ sent \in 0..MaxRequests /\ hint \in BOOLEAN
    /\ left \in {"no", "clean", "unknown"}

\* The controller has posted "initialize"; nothing has happened yet.
Init ==
    /\ generation = 0 /\ accounted = 0
    /\ status = [r \in Requests |-> "pending"]
    /\ drainStored = [r \in Requests |-> FALSE]
    /\ fresh = FALSE /\ waking = {}
    /\ alive = TRUE /\ acquired = FALSE /\ closing = "no" /\ joining = {}
    /\ phase = [r \in Requests |-> "none"]
    /\ physical = [r \in Requests |-> "none"]
    /\ port = <<>> /\ portOpen = TRUE
    /\ setup = "pending" /\ hostClosing = FALSE /\ host = "free" /\ cleanup = "pending"
    /\ toHost = <<>> /\ closeSent = FALSE /\ failed = FALSE /\ faults = 0
    /\ job = "none" /\ at = "detached" /\ cursor = 0 /\ seen = "pending"
    /\ outcome = [r \in Requests |-> "pending"]
    /\ retirements = [r \in Requests |-> 0]
    /\ sent = 0 /\ hint = FALSE /\ left = "no"

-----------------------------------------------------------------------------
(* Atomics.add and Atomics.notify on the pulse.                            *)

\* Mutation: the generation is incremented by every retirement.
RetireByAdding(thread) ==
    /\ generation' = generation + 1
    /\ waking' = waking \cup {thread}

\* retireGpuConnection up to the notification that must follow.
Retire(thread) ==
    /\ generation' = 1
    /\ waking' = waking \cup {thread}

\* wakeGpuObservers: whoever loaded the pulse earlier will not fall asleep, and
\* whoever sleeps looks again.
Wake(thread) ==
    /\ thread \in waking /\ (thread = "worker" => alive)
    /\ waking' = waking \ {thread}
    /\ fresh' = FALSE
    /\ at' = IF at # "asleep" THEN at ELSE IF job = "read" THEN "load" ELSE "accounted"
    /\ UNCHANGED <<control, header, worker, ports, hostVars, messages, faultVars, job,
                   cursor, seen, outcome, retirements, sent, left, hint>>

-----------------------------------------------------------------------------
(* The physical worker: requests.                                          *)

\* A publication runs to its end before the worker does anything else.
Publishing == {"succeeding", "storing", "failing"}
WorkerFree == alive /\ "worker" \notin waking /\ closing # "accounted"
                    /\ \A r \in Requests : phase[r] \notin Publishing

Fault == faults < MaxFaults /\ faults' = faults + 1

\* #closing ??= #close(), which joins the runs pending now: a caller that comes
\* before the acquisition has settled finds none.
CallClose ==
    IF closing = "no"
    THEN /\ closing' = "joining"
         /\ joining' = {r \in Requests : phase[r] \notin {"none", "posted", "done"}}
    ELSE UNCHANGED <<closing, joining>>

Move(r, to) == phase' = [phase EXCEPT ![r] = to]

\* #onBackendMessage and the start of #run and #perform: an inactive or closing
\* service refuses; an execution prepares first; a readback is submitted at
\* once; a release has its result at once; each may throw.
Deliver ==
    LET r == Head(port)
        serves == generation = 0 /\ acquired /\ closing = "no"
    IN
    /\ WorkerFree /\ portOpen /\ port # <<>>
    /\ port' = Tail(port)
    /\ IF r = 0
       THEN CallClose /\ UNCHANGED <<phase, physical>>
       ELSE /\ \/ Move(r, "failing") /\ UNCHANGED physical
               \/ serves /\ Move(r, "preparing") /\ UNCHANGED physical
               \/ serves /\ Move(r, "running")
                  /\ \E p \in {"running", "ended"} : physical' = [physical EXCEPT ![r] = p]
            /\ UNCHANGED <<closing, joining>>
    /\ UNCHANGED <<control, header, pulse, alive, acquired, portOpen, hostVars, messages,
                   faultVars, client, hint>>

\* #executePrepared after the awaited preparation.
Prepared(r) ==
    /\ WorkerFree /\ phase[r] = "preparing"
    /\ \/ Move(r, "failing") /\ UNCHANGED physical
       \/ generation = 0 /\ Move(r, "running")
          /\ physical' = [physical EXCEPT ![r] = "running"]
    /\ UNCHANGED <<control, header, pulse, alive, acquired, closing, joining, ports,
                   hostVars, messages, faultVars, client, hint>>

\* The device finishes, or its loss is accounted by the local backend.
PhysicalEnds(r) ==
    /\ alive /\ physical[r] = "running"
    /\ physical' = [physical EXCEPT ![r] = "ended"]
    /\ UNCHANGED <<control, header, pulse, alive, acquired, closing, joining, phase, ports,
                   hostVars, messages, faultVars, client, hint>>

\* Mutation: the result is published without awaiting the drain.
AnswerUndrained(r) ==
    /\ WorkerFree /\ phase[r] = "running"
    /\ \/ Move(r, "failing")
       \/ generation = 0 /\ Move(r, "succeeding")
    /\ UNCHANGED <<control, header, pulse, alive, acquired, closing, joining, physical,
                   ports, hostVars, messages, faultVars, client, hint>>

\* The result is known. A failure is published while the device may still run;
\* a success waits for the drain and needs an active connection.
Answer(r) ==
    /\ WorkerFree /\ phase[r] = "running"
    /\ \/ Move(r, "failing")
       \/ physical[r] = "ended" /\ generation = 0 /\ Move(r, "succeeding")
    /\ UNCHANGED <<control, header, pulse, alive, acquired, closing, joining, physical,
                   ports, hostVars, messages, faultVars, client, hint>>

\* publishSharedGpuSuccess: DRAINED ...
StoreDrainedFirst(r) ==
    /\ alive /\ "worker" \notin waking /\ phase[r] = "succeeding"
    /\ drainStored' = [drainStored EXCEPT ![r] = TRUE]
    /\ Move(r, "storing")
    /\ UNCHANGED <<control, status, pulse, alive, acquired, closing, joining, physical,
                   ports, hostVars, messages, faultVars, client, hint>>

\* Mutation: a success is published without its drain.
StoreSuccessOnly(r) ==
    /\ alive /\ phase[r] \in {"succeeding", "storing"}
    /\ status' = [status EXCEPT ![r] = "success"]
    /\ Move(r, "done")
    /\ waking' = waking \cup {"worker"}
    /\ hint' = (hint \/ portOpen)
    /\ UNCHANGED <<control, drainStored, fresh, alive, acquired, closing, joining, physical,
                   ports, hostVars, messages, faultVars, client>>

\* ... then STATUS, the pulse, and the progress message of the finally block.
StoreSuccess(r) ==
    /\ alive /\ phase[r] = "storing"
    /\ status' = [status EXCEPT ![r] = "success"]
    /\ Move(r, "done")
    /\ waking' = waking \cup {"worker"}
    /\ hint' = (hint \/ portOpen)
    /\ UNCHANGED <<control, drainStored, fresh, alive, acquired, closing, joining, physical,
                   ports, hostVars, messages, faultVars, client>>

\* publishSharedGpuFailure.
StoreFailure(r) ==
    /\ alive /\ "worker" \notin waking /\ phase[r] = "failing"
    /\ status' = [status EXCEPT ![r] = "failure"]
    /\ Move(r, "draining")
    /\ waking' = waking \cup {"worker"}
    /\ hint' = (hint \/ portOpen)
    /\ UNCHANGED <<control, drainStored, fresh, alive, acquired, closing, joining, physical,
                   ports, hostVars, messages, faultVars, client>>

\* Mutation: the producer's last word needs no further progress message.
StoreDrainSilently(r) ==
    /\ WorkerFree /\ phase[r] = "draining" /\ physical[r] # "running"
    /\ drainStored' = [drainStored EXCEPT ![r] = TRUE]
    /\ Move(r, "done")
    /\ waking' = waking \cup {"worker"}
    /\ UNCHANGED <<control, status, fresh, alive, acquired, closing, joining, physical,
                   ports, hostVars, messages, faultVars, client, hint>>

\* publishSharedGpuDrain, once the failed request's device work has ended.
StoreDrain(r) ==
    /\ WorkerFree /\ phase[r] = "draining" /\ physical[r] # "running"
    /\ drainStored' = [drainStored EXCEPT ![r] = TRUE]
    /\ Move(r, "done")
    /\ waking' = waking \cup {"worker"}
    /\ hint' = (hint \/ portOpen)
    /\ UNCHANGED <<control, status, fresh, alive, acquired, closing, joining, physical,
                   ports, hostVars, messages, faultVars, client>>

-----------------------------------------------------------------------------
(* The physical worker: acquisition, loss and close.                       *)

\* acquireWebGpuDevice answers. Readiness is announced only on an active
\* connection; a failure starts #close.
Acquire ==
    /\ WorkerFree /\ ~acquired
    /\ acquired' = TRUE
    /\ \/ generation = 0 /\ toHost' = Append(toHost, "ready") /\ UNCHANGED <<closing, joining>>
       \/ toHost' = Append(toHost, "failure") /\ CallClose
    /\ UNCHANGED <<control, header, pulse, alive, phase, physical, ports, hostVars,
                   closeSent, faultVars, client, hint>>

\* device.lost while the service is not closing: the backend has accounted for
\* its work; the connection retires. Once closing, only the work ends.
LoseDevice ==
    /\ WorkerFree /\ acquired /\ closing = "no" /\ Fault
    /\ Retire("worker")
    /\ toHost' = Append(toHost, "failure")
    /\ CallClose
    /\ physical' = [r \in Requests |-> IF physical[r] = "running" THEN "ended" ELSE physical[r]]
    /\ UNCHANGED <<accounted, header, fresh, alive, acquired, phase, ports, hostVars,
                   closeSent, failed, client, hint>>

\* #onMessage: the controller's "close".
ReceiveClose ==
    /\ WorkerFree /\ closeSent
    /\ closeSent' = FALSE
    /\ Retire("worker")
    /\ CallClose
    /\ UNCHANGED <<accounted, header, fresh, alive, acquired, phase, physical, ports,
                   hostVars, toHost, faultVars, client, hint>>

\* Mutation: the service accounts for itself without joining its runs.
AccountUnjoined ==
    /\ WorkerFree /\ closing = "joining" /\ acquired
    /\ accounted' = 1
    /\ closing' = "accounted"
    /\ UNCHANGED <<generation, header, pulse, alive, acquired, joining, phase, physical,
                   ports, hostVars, messages, faultVars, client, hint>>

\* backend.close() succeeds; the account precedes the retirement and its pulse.
Account ==
    /\ WorkerFree /\ closing = "joining" /\ acquired /\ \A r \in joining : phase[r] = "done"
    /\ accounted' = 1
    /\ closing' = "accounted"
    /\ UNCHANGED <<generation, header, pulse, alive, acquired, joining, phase, physical,
                   ports, hostVars, messages, faultVars, client, hint>>

\* The rest of that turn: retire, and report through both ports.
ReportClosed ==
    /\ alive /\ "worker" \notin waking /\ closing = "accounted"
    /\ Retire("worker")
    /\ closing' = "done" /\ portOpen' = FALSE
    /\ hint' = TRUE
    /\ toHost' = Append(toHost, "closed")
    /\ UNCHANGED <<accounted, header, fresh, alive, acquired, joining, phase, physical, port,
                   hostVars, closeSent, faultVars, client>>

\* backend.close() throws: the worker cannot account for itself.
FailClose ==
    /\ WorkerFree /\ closing = "joining" /\ acquired /\ \A r \in joining : phase[r] = "done"
    /\ Fault /\ Retire("worker")
    /\ closing' = "done" /\ portOpen' = FALSE
    /\ toHost' = Append(toHost, "lost")
    /\ UNCHANGED <<accounted, header, fresh, alive, acquired, joining, phase, physical, port,
                   hostVars, closeSent, failed, client, hint>>

\* The browser kills the worker, or one of its handlers throws.
Fail ==
    /\ host = "free" /\ Fault
    /\ failed' = TRUE
    /\ alive' \in {alive, FALSE}
    /\ waking' = IF alive' THEN waking ELSE waking \ {"worker"}
    /\ UNCHANGED <<control, header, fresh, acquired, closing, joining, phase, physical,
                   ports, hostVars, messages, client, hint>>

-----------------------------------------------------------------------------
(* The host controller.                                                    *)

HostFree == host = "free" /\ "host" \notin waking

Reject == setup' = IF setup = "pending" THEN "rejected" ELSE setup

\* Mutation: losing the worker leaves the completions unaccounted.
FinishUnaccounted(account) ==
    /\ host' = "finishing"
    /\ cleanup' = IF account = 1 THEN "resolved" ELSE "rejected"
    /\ UNCHANGED accounted

\* The first store of #finish, and the promise its caller settles.
Finish(account) ==
    /\ host' = "finishing"
    /\ accounted' = account
    /\ cleanup' = IF account = 1 THEN "resolved" ELSE "rejected"

\* Mutation: service is revoked, but the worker is never told.
CloseSilently ==
    /\ hostClosing' = TRUE
    /\ IF hostClosing \/ host # "free" THEN UNCHANGED <<generation, waking, closeSent, hint>>
       ELSE Retire("host") /\ hint' = TRUE /\ UNCHANGED closeSent

\* close(): service is revoked first, then the worker is told.
CloseController ==
    /\ hostClosing' = TRUE
    /\ IF hostClosing \/ host # "free" THEN UNCHANGED <<generation, waking, closeSent, hint>>
       ELSE Retire("host") /\ closeSent' = TRUE /\ hint' = TRUE

\* The owner of a ready controller calls close(), or a signal aborts: a setup
\* that is still pending is rejected.
Close ==
    /\ HostFree /\ ~hostClosing
    /\ CloseController /\ Reject
    /\ UNCHANGED <<accounted, header, fresh, worker, ports, host, cleanup, toHost, faultVars,
                   client>>

\* #onMessage.
Receive ==
    LET m == Head(toHost) IN
    /\ HostFree /\ toHost # <<>>
    /\ toHost' = Tail(toHost)
    /\ CASE m = "ready" ->
              /\ setup' = IF hostClosing THEN setup ELSE "ready"
              /\ UNCHANGED <<control, waking, hostClosing, host, cleanup, closeSent, hint>>
         [] m = "failure" ->
              /\ Reject /\ CloseController
              /\ UNCHANGED <<accounted, host, cleanup>>
         [] m = "closed" ->
              /\ Reject /\ Finish(1)
              /\ UNCHANGED <<generation, waking, hostClosing, closeSent, hint>>
         [] m = "lost" ->
              /\ Reject /\ Finish(2)
              /\ UNCHANGED <<generation, waking, hostClosing, closeSent, hint>>
    /\ UNCHANGED <<header, fresh, worker, ports, faultVars, client>>

\* #onFailure: the worker is lost without a drain acknowledgment.
ReceiveFailure ==
    /\ HostFree /\ failed
    /\ failed' = FALSE
    /\ Reject /\ Finish(2)
    /\ UNCHANGED <<generation, header, pulse, worker, ports, hostClosing, messages, faults,
                   client, hint>>

\* The rest of #finish: retire, send the client a hint, terminate the worker.
Terminate ==
    /\ host = "finishing" /\ "host" \notin waking
    /\ generation' = 1 /\ waking' = {"host"}
    /\ host' = "finished" /\ hint' = TRUE
    /\ alive' = FALSE
    /\ UNCHANGED <<accounted, header, fresh, acquired, closing, joining, phase, physical,
                   ports, setup, hostClosing, cleanup, messages, faultVars, client>>

-----------------------------------------------------------------------------
(* The client: one job at a time, on a thread that may block.              *)

Live == {r \in 1..sent : phase[r] # "none" /\ retirements[r] = 0}

ClientFree == job = "none" /\ at = "idle"

\* The connected backend is constructed over a ready controller's connection,
\* or the attachment fails and hands ownership back.
Attach ==
    /\ at = "detached" /\ setup = "ready"
    /\ \/ generation = 0 /\ at' = "idle" /\ UNCHANGED <<generation, fresh, port, faults>>
       \/ /\ (generation # 0 /\ UNCHANGED faults) \/ Fault
          /\ at' = "left" /\ generation' = 1 /\ fresh' = FALSE /\ port' = Append(port, 0)
    /\ UNCHANGED <<accounted, header, waking, worker, portOpen, hostVars, messages, failed,
                   job, cursor, seen, outcome, retirements, sent, left, hint>>

\* A job that starts with #onProgress, the inspection of every live request.
Begin(j) ==
    /\ ClientFree
    /\ job' = j /\ at' = "next" /\ cursor' = 0
    /\ UNCHANGED <<control, header, pulse, worker, ports, hostVars, messages, faultVars,
                   seen, outcome, retirements, sent, left>>

\* A progress message of either port; assertAvailable of execute and read.
Progress == hint /\ hint' = FALSE /\ Begin("progress")
Submit == sent < MaxRequests /\ UNCHANGED hint /\ Begin("submit")

\* The next live request of the inspection, in the order of admission.
Inspect(r) ==
    /\ at = "next" /\ r \in Live /\ r > cursor
    /\ \A o \in Live : o > cursor => r <= o
    /\ cursor' = r /\ at' = "status"
    /\ UNCHANGED <<control, header, pulse, worker, ports, hostVars, messages, faultVars, job,
                   seen, outcome, retirements, sent, left, hint>>

Inspected == at = "next" /\ \A r \in Live : r <= cursor

EndJob == job' = "none" /\ at' = "idle" /\ cursor' = 0

\* #request: the transfer succeeds, or retires the connection and inspects again.
Send ==
    LET r == sent + 1 IN
    /\ Inspected /\ job = "submit" /\ generation = 0
    /\ sent' = r
    /\ \/ /\ port' = Append(port, r) /\ Move(r, "posted")
          /\ EndJob /\ UNCHANGED <<generation, fresh, faults>>
       \/ /\ Fault /\ generation' = 1 /\ fresh' = FALSE
          /\ job' = "progress" /\ cursor' = 0
          /\ UNCHANGED <<port, phase, at>>
    /\ UNCHANGED <<accounted, header, waking, alive, acquired, closing, joining, physical,
                   portOpen, hostVars, messages, failed, seen, outcome, retirements, left,
                   hint>>

\* Nothing left to inspect; an inactive connection refuses the request.
Return ==
    /\ Inspected
    /\ job = "submit" => generation # 0
    /\ job # "close"
    /\ EndJob
    /\ UNCHANGED <<control, header, pulse, worker, ports, hostVars, messages, faultVars,
                   seen, outcome, retirements, sent, left, hint>>

\* read() loads the pulse before it looks.
Read(r) ==
    /\ ClientFree /\ r \in Live /\ outcome[r] = "pending"
    /\ job' = "read" /\ at' = "load" /\ cursor' = r
    /\ UNCHANGED <<control, header, pulse, worker, ports, hostVars, messages, faultVars,
                   seen, outcome, retirements, sent, left, hint>>

LoadPulse ==
    /\ at \in {"load", "loadAccounted"}
    /\ fresh' = TRUE
    /\ at' = IF at = "load" THEN "status" ELSE "recheck"
    /\ UNCHANGED <<control, header, waking, worker, ports, hostVars, messages, faultVars,
                   job, cursor, seen, outcome, retirements, sent, left, hint>>

\* refresh(): the status, then the generation, then the drain.
LoadStatus ==
    /\ at = "status"
    /\ IF outcome[cursor] # "pending" THEN at' = "drain" /\ UNCHANGED <<seen, outcome>>
       ELSE /\ seen' = status[cursor]
            /\ IF status[cursor] = "failure"
               THEN at' = "drain" /\ outcome' = [outcome EXCEPT ![cursor] = "error"]
               ELSE at' = "active" /\ UNCHANGED outcome
    /\ UNCHANGED <<control, header, pulse, worker, ports, hostVars, messages, faultVars, job,
                   cursor, retirements, sent, left, hint>>

CheckActive ==
    /\ at = "active" /\ at' = "drain"
    /\ IF generation # 0 THEN outcome' = [outcome EXCEPT ![cursor] = "error"]
       ELSE IF seen = "success" THEN outcome' = [outcome EXCEPT ![cursor] = "value"]
       ELSE UNCHANGED outcome
    /\ UNCHANGED <<control, header, pulse, worker, ports, hostVars, messages, faultVars, job,
                   cursor, seen, retirements, sent, left, hint>>

IsDrained(r) == drainStored[r] \/ accounted # 0

\* Transport and pins are retired once, behind both the outcome and the drain.
Retires(r) == outcome[r] # "pending" /\ IsDrained(r) /\ retirements[r] = 0

CheckDrain ==
    /\ at = "drain"
    /\ retirements' = IF Retires(cursor) THEN [retirements EXCEPT ![cursor] = @ + 1] ELSE retirements
    /\ IF job # "read" THEN at' = "next" /\ UNCHANGED <<job, cursor>>
       ELSE IF outcome[cursor] # "pending" THEN EndJob
       ELSE at' = "wait" /\ UNCHANGED <<job, cursor>>
    /\ UNCHANGED <<control, header, pulse, worker, ports, hostVars, messages, faultVars,
                   seen, outcome, sent, left, hint>>

\* Mutation: the pulse is compared with the value it has now.
SleepAnyway ==
    /\ at \in {"wait", "recheck"} /\ (at = "recheck" => accounted = 0)
    /\ at' = "asleep"
    /\ UNCHANGED <<control, header, pulse, worker, ports, hostVars, messages, faultVars, job,
                   cursor, seen, outcome, retirements, sent, left, hint>>

\* Atomics.wait with the loaded pulse: a change since then means not-equal.
Sleep ==
    /\ at \in {"wait", "recheck"} /\ (at = "recheck" => accounted = 0)
    /\ at' = IF fresh THEN "asleep" ELSE IF job = "read" THEN "load" ELSE "accounted"
    /\ UNCHANGED <<control, header, pulse, worker, ports, hostVars, messages, faultVars, job,
                   cursor, seen, outcome, retirements, sent, left, hint>>

\* close(): ask the worker to close, unless it is accounted for. The session has
\* joined its requests before: each of them has an outcome.
BeginClose ==
    /\ ClientFree /\ \A r \in Live : outcome[r] # "pending"
    /\ job' = "close" /\ at' = "accounted"
    /\ port' = IF accounted = 0 THEN Append(port, 0) ELSE port
    /\ UNCHANGED <<control, header, pulse, worker, portOpen, hostVars, messages, faultVars,
                   cursor, seen, outcome, retirements, sent, left, hint>>

\* Wait for the account, then inspect once more.
AwaitAccount ==
    /\ at = "accounted" \/ (at = "recheck" /\ accounted # 0)
    /\ at' = IF accounted = 0 THEN "loadAccounted" ELSE "next"
    /\ UNCHANGED <<control, header, pulse, worker, ports, hostVars, messages, faultVars, job,
                   cursor, seen, outcome, retirements, sent, left, hint>>

\* The ports are closed; an unknown completion is thrown.
Leave ==
    /\ Inspected /\ job = "close"
    /\ job' = "none" /\ at' = "left"
    /\ left' = IF accounted = 2 THEN "unknown" ELSE "clean"
    /\ UNCHANGED <<control, header, pulse, worker, ports, hostVars, messages, faultVars,
                   cursor, seen, outcome, retirements, sent, hint>>

-----------------------------------------------------------------------------
Worker ==
    \/ Deliver \/ Acquire \/ ReceiveClose \/ Account \/ ReportClosed
    \/ \E r \in Requests : Prepared(r) \/ Answer(r) \/ StoreDrainedFirst(r) \/ StoreSuccess(r)
                           \/ StoreFailure(r) \/ StoreDrain(r)

Device == \E r \in Requests : PhysicalEnds(r)

Host == Receive \/ ReceiveFailure \/ Terminate

\* What the client does once it has begun.
Turn ==
    \/ Send \/ Return \/ LoadPulse \/ LoadStatus \/ CheckActive \/ CheckDrain \/ Sleep
    \/ AwaitAccount \/ Leave
    \/ \E r \in Requests : Inspect(r)

User == Attach \/ Submit \/ BeginClose \/ Close \/ \E r \in Requests : Read(r)

Next ==
    \/ Worker \/ Device \/ Host \/ Turn \/ Progress \/ User
    \/ LoseDevice \/ FailClose \/ Fail
    \/ \E thread \in {"worker", "host"} : Wake(thread)

Spec == Init /\ [][Next]_vars

\* Each thread runs what it has begun and receives what was sent to it, and a
\* device either finishes its work or is lost. Nobody has to call anything.
Fairness ==
    /\ WF_vars(Worker) /\ WF_vars(Device) /\ WF_vars(Host)
    /\ WF_vars(Turn) /\ SF_vars(Progress)
    /\ \A thread \in {"worker", "host"} : WF_vars(Wake(thread))

FairSpec == Spec /\ Fairness

-----------------------------------------------------------------------------
(* Properties.                                                             *)

\* A value can be used without any later message: when the client has one, the
\* request is drained, and the inspection that found it has retired it as well.
ValueIsDrained ==
    \A r \in Requests : outcome[r] = "value" =>
        /\ drainStored[r] /\ physical[r] # "running"
        /\ retirements[r] = 1 \/ (at = "drain" /\ cursor = r)

\* Device memory is unpinned only behind the work that may still use it, or once
\* the loss of the worker is on record.
PinsOutliveDeviceWork ==
    \A r \in Requests : retirements[r] # 0 => physical[r] # "running" \/ accounted = 2

\* Nobody reports a clean end while device work is running: not the worker's own
\* account, not the controller's close(), not the client's.
CleanEndIsHonest ==
    accounted = 1 \/ left = "clean" \/ cleanup = "resolved" =>
        \A r \in Requests : physical[r] # "running"

\* A blocking read returns: no publication, retirement or loss is missed between
\* the inspection and the wait.
ReadReturns == job = "read" ~> job = "none"

\* Every request that was sent is retired, also after failures, cancellation,
\* dropped messages and the death of the worker, if the client keeps receiving.
SentRequestsRetire ==
    \A r \in Requests : phase[r] # "none" ~> retirements[r] = 1

\* close() of the client returns.
CloseReturns == job = "close" ~> at = "left"

\* Setup settles, and so does close(), however acquisition, an abort, a device
\* loss and the end of the worker interleave.
ControllerSettles ==
    /\ <>(setup # "pending")
    /\ hostClosing ~> cleanup # "pending"

\* Whatever dies or is lost, nobody waits for ever: not a blocked thread, not a
\* request in flight, not the client that closes, not the host.
EverythingSettles == ReadReturns /\ SentRequestsRetire /\ CloseReturns /\ ControllerSettles
=============================================================================
