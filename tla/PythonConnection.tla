-------------------------- MODULE PythonConnection --------------------------
(***************************************************************************)
(* A Python interpreter in a worker, driven from the host                  *)
(* (frontends/python: python-worker.ts, python-binding.ts,                 *)
(* python-installation.ts, python-runtime-bridge.ts).                      *)
(*                                                                         *)
(* Bindings attach to one interpreter, run one managed script at a time    *)
(* and drain when they close. A service in the worker owns one binding and *)
(* one port; the client on the host sends a command at a time and waits    *)
(* for its reply. Either end may lose the connection, the worker may die,  *)
(* and code in the worker uses the binding too, from inside a script also. *)
(* Source text, diagnostics and Python objects are left out.               *)
(***************************************************************************)
EXTENDS Integers, Sequences, FiniteSets

CONSTANTS
    Bindings,             \* the attachments that are tried, each at most once
    MaxCommands,          \* bound on the commands the client sends
    Faults                \* whether connections are lost and the worker dies

None == "none"

ASSUME BoundsAssumption == MaxCommands \in Nat \ {0} /\ Faults \in BOOLEAN
ASSUME BindingsAssumption == None \notin Bindings
Local == 0                \* the owner of a script that code in the worker runs
Ids == 1..MaxCommands

VARIABLES
    attached,             \* ATTACHED_INTERPRETERS holds the interpreter
    binding,              \* the attachments and their InterpreterBinding
    client,               \* PythonWorkerClient
    service,              \* PythonWorkerService
    toWorker, toHost,     \* what the port still delivers
    alive,                \* the worker has not died
    ran, answered         \* how each command ended, and how it was answered

pythonVars == <<attached, binding, client, service, toWorker, toHost, alive, ran, answered>>
hostSide == <<client, toHost, answered>>
connection == <<client, service, toWorker, toHost, answered>>

----------------------------------------------------------------------------
(* The binding: attach, run and close.                                      *)

Fresh == [phase |-> "none", script |-> None, owner |-> Local, closing |-> "no", failed |-> FALSE]
Set(b, field, value) == [binding EXCEPT ![b] = [@ EXCEPT ![field] = value]]

\* attachClaimedInterpreter up to its first await.
Attach(b) ==
    /\ alive /\ binding[b].phase = "none" /\ ~attached
    /\ attached' = TRUE
    /\ binding' = Set(b, "phase", "loading")
    /\ UNCHANGED <<connection, alive, ran>>

\* The sources arrive or fail to; the installation succeeds, or rolls itself
\* back and fails. A binding that was built is closed before attach rejects.
FinishLoading(b, outcome) ==
    /\ alive /\ binding[b].phase = "loading"
    /\ binding' = CASE outcome = "installed" -> Set(b, "phase", "ready")
                    [] outcome = "unloaded" -> Set(b, "phase", "rejecting")
                    [] outcome = "uninstalled" -> [binding EXCEPT ![b].phase = "rejecting", ![b].closing = "waiting"]
    /\ UNCHANGED <<attached, connection, alive, ran>>

\* The last step of a failed attach gives the interpreter up once more.
Reject(b) ==
    /\ alive /\ binding[b].phase = "rejecting" /\ binding[b].closing \in {"no", "closed"}
    /\ binding' = Set(b, "phase", "rejected")
    /\ attached' = FALSE
    /\ UNCHANGED <<connection, alive, ran>>

\* runPythonAsync admits one script while the binding is not closing.
Admits(b) == binding[b].phase = "ready" /\ binding[b].closing = "no" /\ binding[b].script = None
Admit(b, owner) == [binding EXCEPT ![b].script = "preparing", ![b].owner = owner]

RunLocally(b) ==
    /\ alive /\ Admits(b)
    /\ binding' = Admit(b, Local)
    /\ UNCHANGED <<attached, connection, alive, ran>>

\* Preparation may fail; then the script runs as the managed entry.
Settles(b, how) == ran' = [i \in Ids |-> IF i = binding[b].owner THEN how ELSE ran[i]]
Prepare(b) ==
    /\ alive /\ binding[b].script = "preparing"
    /\ \/ binding' = Set(b, "script", "running") /\ UNCHANGED ran
       \/ binding' = Set(b, "script", "failed") /\ Settles(b, "failed")
    /\ UNCHANGED <<attached, connection, alive>>

\* runManaged: the script settles, then its mandatory effects complete.
EndScript(b) ==
    /\ alive /\ binding[b].script = "running"
    /\ \E how \in {"finished", "failed"} : binding' = Set(b, "script", how) /\ Settles(b, how)
    /\ UNCHANGED <<attached, connection, alive>>

\* The promise of a local run settles; that of a command is the service's.
SettleLocally(b) ==
    /\ alive /\ binding[b].script \in {"finished", "failed"} /\ binding[b].owner = Local
    /\ binding' = Set(b, "script", None)
    /\ UNCHANGED <<attached, connection, alive, ran>>

CloseBinding(b) == IF binding[b].closing = "no" THEN Set(b, "closing", "waiting") ELSE binding

\* Code in the worker, a running script too, may close the binding.
CloseLocally(b) ==
    /\ alive /\ binding[b].phase = "ready" /\ binding[b].closing = "no"
    /\ binding' = CloseBinding(b)
    /\ UNCHANGED <<attached, connection, alive, ran>>

\* The drain waits for the accepted script, closes the session, then the
\* installation, and gives the interpreter up, whatever failed.
IdleOrPreparing(b) == binding[b].script \in {None, "preparing"}   \* mutant of NothingRuns: an accepted script that has not started is missed
NothingRuns(b) == binding[b].script = None
CloseRuntime(b) ==
    /\ alive /\ binding[b].closing = "waiting" /\ NothingRuns(b)
    /\ binding' = Set(b, "closing", "draining")
    /\ UNCHANGED <<attached, connection, alive, ran>>

FinishDrain(b) ==
    /\ alive /\ binding[b].closing = "draining"
    /\ attached' = FALSE
    /\ \E bad \in BOOLEAN : binding' = [binding EXCEPT ![b].closing = "closed", ![b].failed = bad]
    /\ UNCHANGED <<connection, alive, ran>>

----------------------------------------------------------------------------
(* The service in the worker.                                               *)

Serving == service.binding # None
Listening == alive /\ Serving /\ service.port

Serve(b) ==
    /\ alive /\ ~Serving /\ binding[b].phase = "ready"
    /\ service' = [service EXCEPT !.binding = b, !.port = TRUE]
    /\ UNCHANGED <<attached, binding, hostSide, toWorker, alive, ran>>

\* lost: the first loss closes the service without an acknowledgement.
Losing(s) == [s EXCEPT !.loss = TRUE, !.port = FALSE,
                       !.closing = IF @ = "no" THEN "running" ELSE @]

LoseService ==
    /\ Faults /\ Listening
    /\ service' = Losing(service)
    /\ UNCHANGED <<attached, binding, hostSide, toWorker, alive, ran>>

\* receive: the next command, unless one is running or the service closes.
ReceiveCommand ==
    /\ Listening /\ toWorker # <<>>
    /\ LET m == Head(toWorker)
           expected == m.id = service.seq + 1 /\ service.closing = "no" /\ service.running = 0
       IN  /\ toWorker' = Tail(toWorker)
           /\ service' = CASE ~expected -> Losing(service)
                           [] expected /\ m.kind = "run" ->
                                [service EXCEPT !.seq = m.id, !.running = m.id, !.entered = FALSE]
                           [] OTHER -> [service EXCEPT !.seq = m.id, !.ack = m.id, !.closing = "running"]
    /\ UNCHANGED <<attached, binding, hostSide, alive, ran>>

\* run: the binding admits the script or rejects it at once.
EnterBinding ==
    LET b == service.binding
    IN  /\ alive /\ service.running # 0 /\ ~service.entered
        /\ service' = [service EXCEPT !.entered = TRUE]
        /\ IF Admits(b)
           THEN binding' = Admit(b, service.running) /\ UNCHANGED ran
           ELSE ran' = [ran EXCEPT ![service.running] = "refused"] /\ UNCHANGED binding
        /\ UNCHANGED <<attached, hostSide, toWorker, alive>>

\* The script settled: reply, unless the service is closing by now.
OverForAnyone(b, id) == binding[b].script \in {"finished", "failed"}   \* mutant of Over: a local script settles the command
Over(b, id) == binding[b].owner = id /\ binding[b].script \in {"finished", "failed"}
SettleCommand ==
    LET b == service.binding
        id == service.running
        result == IF Over(b, id) THEN binding[b].script ELSE "refused"
    IN  /\ alive /\ id # 0 /\ service.entered
        /\ Over(b, id) \/ ran[id] = "refused"
        /\ binding' = IF Over(b, id) THEN [binding EXCEPT ![b].script = None, ![b].owner = Local] ELSE binding
        /\ service' = [service EXCEPT !.running = 0, !.entered = FALSE]
        /\ toHost' = IF service.closing = "no" THEN Append(toHost, [id |-> id, ok |-> result = "finished"]) ELSE toHost
        /\ UNCHANGED <<attached, client, toWorker, alive, ran, answered>>

\* close: the running command first, then the binding, then the answer.
StartClosing ==
    /\ alive /\ service.closing = "running" /\ service.running = 0
    /\ service' = [service EXCEPT !.closing = "binding"]
    /\ binding' = CloseBinding(service.binding)
    /\ UNCHANGED <<attached, hostSide, toWorker, alive, ran>>

\* Mutants of Drained: closed is taken for drained; a failed drain never ends.
ClosingIsDrained(b) == binding[b].closing # "no"
DrainedCleanly(b) == binding[b].closing = "closed" /\ ~binding[b].failed
Drained(b) == binding[b].closing = "closed"
FinishService ==
    LET ok == ~binding[service.binding].failed
    IN  /\ alive /\ service.closing = "binding" /\ Drained(service.binding)
        /\ toHost' = IF service.ack # 0 /\ ~service.loss THEN Append(toHost, [id |-> service.ack, ok |-> ok]) ELSE toHost
        /\ service' = [service EXCEPT !.closing = "finished", !.port = FALSE]
        /\ ran' = [i \in Ids |-> IF i # service.ack THEN ran[i] ELSE IF ok THEN "finished" ELSE "failed"]
        /\ UNCHANGED <<attached, binding, client, toWorker, alive, answered>>

WorkerDies ==
    /\ Faults /\ alive
    /\ alive' = FALSE
    /\ UNCHANGED <<attached, binding, connection, ran>>

----------------------------------------------------------------------------
(* The client on the host.                                                  *)

workerSide == <<attached, binding, service, alive, ran>>
Send(kind) ==
    /\ client.seq < MaxCommands
    /\ toWorker' = Append(toWorker, [kind |-> kind, id |-> client.seq + 1])

\* runPythonAsync; the last command is kept for the close.
Run ==
    /\ client.closing = "no" /\ ~client.failure /\ ~client.running
    /\ client.seq + 1 < MaxCommands
    /\ Send("run")
    /\ client' = [client EXCEPT !.seq = @ + 1, !.pending = "run", !.running = TRUE]
    /\ UNCHANGED <<workerSide, toHost, answered>>

\* What settles the pending completion; running clears in a later job.
Answer(how) == [answered EXCEPT ![client.seq] = IF client.pending = None THEN @ ELSE how]
LostWithoutRejecting ==              \* mutant of Lost: the pending completion is only dropped with the port
    [client EXCEPT !.failure = TRUE, !.port = FALSE]
Lost == [client EXCEPT !.failure = TRUE, !.pending = None, !.port = FALSE,
                       !.closing = IF client.pending = "close" THEN "rejected" ELSE @]

ReceiveReply ==
    /\ client.port /\ toHost # <<>>
    /\ LET m == Head(toHost)
           how == IF m.ok THEN "ok" ELSE "error"
       IN  IF m.id = client.seq /\ client.pending # None
           THEN /\ answered' = Answer(how)
                /\ client' = [client EXCEPT !.pending = None, !.port = client.pending = "run",
                                            !.closing = CASE client.pending = "run" -> @
                                                          [] client.pending = "close" /\ m.ok -> "acknowledged"
                                                          [] OTHER -> "rejected"]
           ELSE answered' = (IF client.seq = 0 THEN answered ELSE Answer("lost")) /\ client' = Lost
    /\ toHost' = Tail(toHost)
    /\ UNCHANGED <<workerSide, toWorker>>

\* An undecodable message or the loss signal: either may come spuriously.
LoseClient ==
    /\ Faults /\ client.port
    /\ client' = Lost
    /\ answered' = IF client.seq = 0 THEN answered ELSE Answer("lost")
    /\ UNCHANGED <<workerSide, toWorker, toHost>>

\* The host owns the worker and reports a loss it knows of.
ReportLoss == (~alive \/ (service.loss /\ ~service.port)) /\ LoseClient

ClearRunning ==
    /\ client.running /\ client.pending # "run"
    /\ client' = [client EXCEPT !.running = FALSE]
    /\ UNCHANGED <<workerSide, toWorker, toHost, answered>>

ClosePython ==
    /\ client.closing = "no"
    /\ client' = [client EXCEPT !.closing = "waiting"]
    /\ UNCHANGED <<workerSide, toWorker, toHost, answered>>

\* drain: after the running script, ask the service unless it is lost.
DrainClient ==
    /\ client.closing = "waiting" /\ ~client.running
    /\ IF client.failure
       THEN client' = [client EXCEPT !.closing = "rejected"] /\ UNCHANGED toWorker
       ELSE /\ Send("close")
            /\ client' = [client EXCEPT !.closing = "asked", !.pending = "close", !.seq = @ + 1]
    /\ UNCHANGED <<workerSide, toHost, answered>>

----------------------------------------------------------------------------
InitPython ==
    /\ attached = FALSE
    /\ binding = [b \in Bindings |-> Fresh]
    /\ client = [seq |-> 0, pending |-> None, running |-> FALSE, closing |-> "no",
                 failure |-> FALSE, port |-> TRUE]
    /\ service = [binding |-> None, port |-> FALSE, seq |-> 0, running |-> 0, entered |-> FALSE,
                  closing |-> "no", ack |-> 0, loss |-> FALSE]
    /\ toWorker = <<>> /\ toHost = <<>> /\ alive = TRUE
    /\ ran = [i \in Ids |-> None] /\ answered = [i \in Ids |-> None]

\* The jobs of an attachment, which run by themselves once it is called.
BindingJob(b) == \/ \E outcome \in {"installed", "unloaded", "uninstalled"} : FinishLoading(b, outcome)
                 \/ Reject(b) \/ Prepare(b) \/ EndScript(b) \/ SettleLocally(b)
                 \/ CloseRuntime(b) \/ FinishDrain(b)

NextPython ==
    \/ \E b \in Bindings : \/ BindingJob(b)
                           \/ Attach(b) \/ RunLocally(b) \/ CloseLocally(b) \/ Serve(b)
    \/ EnterBinding \/ SettleCommand \/ StartClosing \/ FinishService
    \/ LoseService \/ ReceiveCommand \/ WorkerDies
    \/ Run \/ ReceiveReply \/ LoseClient \/ ClearRunning \/ ClosePython \/ DrainClient

\* Promises settle, messages arrive, scripts end, and the host reports the
\* losses it knows of. The worker serves a binding it attached.
FairnessPython ==
    /\ \A b \in Bindings : WF_pythonVars(BindingJob(b))
    /\ WF_pythonVars(EnterBinding) /\ WF_pythonVars(SettleCommand) /\ WF_pythonVars(StartClosing)
    /\ WF_pythonVars(FinishService) /\ WF_pythonVars(ReceiveCommand) /\ WF_pythonVars(ReceiveReply)
    /\ WF_pythonVars(ReportLoss) /\ WF_pythonVars(ClearRunning) /\ WF_pythonVars(DrainClient)

SpecPython == InitPython /\ [][NextPython]_pythonVars /\ FairnessPython

----------------------------------------------------------------------------
(* Properties.                                                              *)

PythonTypeOK ==
    /\ attached \in BOOLEAN /\ alive \in BOOLEAN
    /\ \A b \in Bindings : /\ binding[b].phase \in {None, "loading", "ready", "rejecting", "rejected"}
                           /\ binding[b].script \in {None, "preparing", "running", "finished", "failed"}
                           /\ binding[b].closing \in {"no", "waiting", "draining", "closed"}
    /\ client.closing \in {"no", "waiting", "asked", "acknowledged", "rejected"}
    /\ service.closing \in {"no", "running", "binding", "finished"}

\* A reply settles the command it answers: what is reported as finished or
\* failed did end that way, whatever was lost or run locally in between.
AnswersAreTrue ==
    \A i \in Ids : /\ answered[i] = "ok" => ran[i] = "finished"
                   /\ answered[i] = "error" => ran[i] \in {"failed", "refused"}

\* An acknowledged close is the truth: the served binding has drained, its
\* script is over and the service holds neither port nor command.
CleanCloseIsHonest ==
    client.closing = "acknowledged" =>
        /\ binding[service.binding].closing = "closed" /\ ~binding[service.binding].failed
        /\ binding[service.binding].script = None
        /\ service.closing = "finished" /\ service.running = 0 /\ ~service.port

\* The client never learns what did not happen.
ReportsAreTrue == PythonTypeOK /\ AnswersAreTrue /\ CleanCloseIsHonest

\* A script only runs on a session that is open, also when a script, the
\* service and a lost connection all close the binding.
ScriptsRunOnOpenSession ==
    \A b \in Bindings : binding[b].script # None => binding[b].closing \in {"no", "waiting"}

\* python-binding.ts:149 "Rejects unsupported interpreters and overlapping
\* attachments": one attachment at a time uses the interpreter.
Using(b) == \/ binding[b].phase = "loading"
            \/ binding[b].phase \in {"ready", "rejecting"} /\ binding[b].closing \in {"waiting", "draining"}
            \/ binding[b].phase = "ready" /\ binding[b].closing = "no"
AttachmentsDoNotOverlap == \A b, c \in Bindings : Using(b) /\ Using(c) => b = c

\* Once the port is served, every accepted run and every close of the client
\* settles, after a loss too; a service that closes finishes unless its worker dies.
CallsSettle ==
    /\ Serving /\ client.running ~> ~client.running
    /\ Serving /\ client.closing \in {"waiting", "asked"} ~> client.closing \in {"acknowledged", "rejected"}
    /\ service.closing # "no" ~> service.closing = "finished" \/ ~alive
=============================================================================
