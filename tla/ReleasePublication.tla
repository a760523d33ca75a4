------------------------- MODULE ReleasePublication -------------------------
(***************************************************************************)
(* Publishing a release: one workflow run for each publication operation,  *)
(* its roles in separate jobs (scripts/release-publication.mjs), the human *)
(* client of a bootstrap, the operator, and the services outside, which    *)
(* may finish a request long after its caller has gone.                    *)
(*                                                                         *)
(* All of them share the release record (ReleaseRecord) and append to it   *)
(* by compare-and-swap on its head.  The first effect is published through *)
(* the npm client, which a gate in another job has to permit; the others   *)
(* are written to GitHub in order.                                         *)
(***************************************************************************)
EXTENDS ReleaseRecord, FiniteSetsExt

CONSTANTS Npm, Github,     \* The npm effect; the GitHub effects in their order
          Modes,           \* How an operation may reach npm
          MaxFaults,       \* Losses of jobs, processes, requests and answers
          MaxNotes         \* Observations an operator adds while a run goes on

ASSUME NpmIsApart == Npm \notin {Github[i] : i \in DOMAIN Github}
\* An event that names an effect twice is refused (release-record-data.mjs:198).
ASSUME GithubIsAList == Github \in Seq({Github[i] : i \in DOMAIN Github})
ASSUME EffectsAreDistinct == \A i, j \in DOMAIN Github : Github[i] = Github[j] => i = j

Order   == <<Npm>> \o Github
Effects == {Order[i] : i \in DOMAIN Order}
Roles   == {"admit", "client", "gate", "observe", "consume", "complete"}
\* The invocations of the client's root directory: its job, and a repetition
Clients == {1, 2}
NoCall  == 0

VARIABLES
  journal,    \* The release record
  requests,   \* Every request sent: its call, and what became of it
  expired,    \* Operations whose approved window has closed
  run, mode,  \* The operation of the last run, and how it reaches npm
  job,        \* What each job is doing; success, failure and skipped are ends
  recorder,   \* What the recording role knows: the head, effects, its call
  handoff,    \* The admitted npm call and the commit of its intent
  step,       \* How far each invocation of the npm client has come
  session,    \* The files they share: who claimed the call, readiness, receipt
  spent       \* Faults and notes used

vars == <<journal, requests, expired, run, mode, job, recorder, handoff, step,
          session, spent>>

NoRecorder == [head |-> 0, complete |-> {}, call |-> NoCall, outcome |-> "unknown"]
NoHandoff  == [call |-> NoCall, commit |-> 0]
NoSession  == [human |-> FALSE, claim |-> 0, ready |-> FALSE, receipt |-> "missing", passed |-> FALSE]

Ends    == {"success", "failure", "skipped"}
Over    == \A r \in Roles : job[r] \in Ends
Quiet   == Over /\ \A i \in Clients : step[i] \in {"out", "done", "dead"}
Hurt    == spent.faults < MaxFaults
Hurting == spent' = [spent EXCEPT !.faults = @ + 1]

-----------------------------------------------------------------------------
(* What can be read of the outside                                         *)

EffectOf(n)    == journal.calls[requests[n].call].effect
In(states)     == {n \in DOMAIN requests : requests[n].state \in states}
Landed         == {EffectOf(n) : n \in In({"landed", "visible"})}
Visible        == {EffectOf(n) : n \in In({"visible"})}
RequestOf(c)   == {n \in DOMAIN requests : requests[n].call = c}
Arrived(c)     == RequestOf(c) \cap In({"landed", "visible"}) # {}

\* The role's authority: its run is going on, approved and inside its window.
Fresh == ~Over /\ run \notin expired

\* The destination matches what the record says was done, no less and no more.
AsRecorded(complete) == Landed \ {Npm} = complete \ {Npm}

\* The npm call may go on: nobody has appended anything since its intent.
CurrentIntent ==
  /\ Fresh
  /\ handoff.call # NoCall
  /\ journal.head = handoff.commit
  /\ journal.active = run
  /\ Blocking(journal) = {handoff.call}
  /\ Conflicts(journal) = {}
  /\ ~journal.calls[handoff.call].observed

-----------------------------------------------------------------------------
(* Appending                                                               *)

\* An append goes through if the head is still the one the role has read and
\* the replay admits the event.  It may also land unseen (WRITE_UNCONFIRMED).
Push(head, may, new, confirmed, refused) ==
  \/ /\ head = journal.head /\ may
     /\ journal' = new /\ confirmed /\ UNCHANGED spent
  \/ /\ head = journal.head /\ may /\ Hurt
     /\ journal' = new /\ refused /\ Hurting
  \/ /\ ~(head = journal.head /\ may)
     /\ refused /\ UNCHANGED <<journal, spent>>

Goes(r, to) == job' = [job EXCEPT ![r] = to]
Learns(r, to, complete) ==
  /\ Goes(r, to)
  /\ recorder' = [recorder EXCEPT !.head = journal.head + 1, !.complete = complete]
Fails(r) == Goes(r, "failure") /\ UNCHANGED recorder

-----------------------------------------------------------------------------
(* The workflow                                                            *)

\* An operator dispatches a run for a new operation, named in the order they
\* are first used; runs never overlap.  A directory nobody works in is gone.
Dispatch(o, m) ==
  /\ Over /\ o = run + 1
  /\ run' = o /\ mode' = m
  /\ job' = [r \in Roles |-> IF r = "admit" THEN "start" ELSE "waiting"]
  /\ recorder' = NoRecorder
  /\ IF Quiet THEN step' = [i \in Clients |-> "out"] /\ session' = NoSession
              ELSE UNCHANGED <<step, session>>
  /\ UNCHANGED <<journal, requests, expired, handoff, spent>>

Needs(r) == CASE r \in {"client", "gate"} -> {"admit"}
              [] r = "observe"            -> {"admit", "client"}
              [] r = "consume"            -> {"observe"}
              [] OTHER                    -> {"observe", "consume"}

\* A job starts when those it needs have ended well; observe also after a
\* client that failed or that this mode skips.  The client's job gets a new
\* directory, or a human takes one.
Wanted(r) ==
  /\ \A n \in Needs(r) \ {"client"} : job[n] = "success"
  /\ r \in {"client", "gate"} => mode # "observe"

Begin(r) ==
  /\ job[r] = "waiting" /\ \A n \in Needs(r) : job[n] \in Ends
  /\ Goes(r, IF Wanted(r) THEN "start" ELSE "skipped")
  /\ IF r = "client" /\ Wanted(r)
     THEN /\ step' = [i \in Clients |-> "out"]
          /\ session' = [NoSession EXCEPT !.human = mode = "bootstrap"]
     ELSE UNCHANGED <<step, session>>
  /\ UNCHANGED <<journal, requests, expired, run, mode, recorder, handoff, spent>>

\* A job is cancelled, times out, or its runner is lost, with all in it.
KillJob(r) ==
  /\ job[r] \notin Ends \union {"waiting"} /\ Hurt
  /\ Goes(r, "failure") /\ Hurting
  /\ IF r = "client" /\ ~session.human
     THEN /\ step' = [i \in Clients |-> "dead"]
          /\ session' = [session EXCEPT !.receipt = "missing"]
     ELSE UNCHANGED <<step, session>>
  /\ UNCHANGED <<journal, requests, expired, run, mode, recorder, handoff>>

-----------------------------------------------------------------------------
(* admit: open the operation and record the intent to call npm             *)

Continues(o) == Everywhere(journal) # {} =>
                  \E p \in Operations \ {o} : journal.phase[p] = "abandoned"

Admit ==
  /\ job["admit"] = "start"
  /\ IF /\ Fresh /\ Clear(journal) /\ Continues(run)
        /\ mode = "observe" => Npm \in Everywhere(journal)
     THEN Push(journal.head, MayOpen(journal, run) /\ Effects # Everywhere(journal),
               Open(journal, run, Effects \ Everywhere(journal)),
               Learns("admit", "opened", Everywhere(journal)), Fails("admit"))
     ELSE Fails("admit") /\ UNCHANGED <<journal, spent>>
  /\ UNCHANGED <<requests, expired, run, mode, handoff, step, session>>

NpmAsExpected ==
  CASE mode = "oidc"      -> Npm \notin Landed
    [] mode = "observe"   -> Npm \in Visible
    [] mode = "bootstrap" -> TRUE

CheckDestinations ==
  /\ job["admit"] = "opened"
  /\ IF Fresh /\ NpmAsExpected /\ AsRecorded(recorder.complete)
     THEN IF Npm \in recorder.complete
          THEN Goes("admit", "success") /\ handoff' = NoHandoff
          ELSE Goes("admit", IF mode = "observe" THEN "failure" ELSE "checked")
               /\ UNCHANGED handoff
     ELSE Goes("admit", "failure") /\ UNCHANGED handoff
  /\ UNCHANGED <<journal, requests, expired, run, mode, recorder, step, session, spent>>

IntendNpm ==
  /\ job["admit"] = "checked"
  /\ Push(recorder.head, Fresh /\ MayIntend(journal, run, Npm),
          Intend(journal, run, Npm),
          /\ Learns("admit", "success", recorder.complete)
          /\ handoff' = [call |-> Len(journal.calls) + 1, commit |-> journal.head + 1],
          Fails("admit") /\ UNCHANGED handoff)
  /\ UNCHANGED <<requests, expired, run, mode, step, session>>

-----------------------------------------------------------------------------
(* The npm client, in its job or in the hands of a human                   *)

Human == session.human

OutsideOfClient == UNCHANGED <<journal, requests, expired, run, mode, recorder,
                               handoff>>
OnlySteps(i, to) == step' = [step EXCEPT ![i] = to]

\* The receipt is a file that only its first writer creates.
Receipt(outcome, passed) ==
  session' = IF session.receipt = "missing"
             THEN [session EXCEPT !.receipt = outcome, !.passed = passed]
             ELSE session

\* npm-prepare: identify the client and the registry, then offer readiness.
Prepare ==
  /\ job["client"] = "start" /\ ~Human /\ step[1] = "out"
  /\ IF CurrentIntent
     THEN \/ OnlySteps(1, "ready") /\ session' = [session EXCEPT !.ready = TRUE]
             /\ Npm \notin Landed /\ UNCHANGED spent
          \/ OnlySteps(1, "done") /\ Receipt("none", FALSE)
             /\ IF Npm \in Landed THEN UNCHANGED spent ELSE Hurt /\ Hurting
     ELSE OnlySteps(1, "done") /\ Receipt("unknown", FALSE) /\ UNCHANGED spent
  /\ UNCHANGED job /\ OutsideOfClient

\* The human controller claims its session and a child reads the namespace.
StartHuman ==
  /\ job["client"] = "start" /\ Human /\ step[1] = "out"
  /\ CurrentIntent
  /\ OnlySteps(1, "ready")
  /\ session' = [session EXCEPT !.claim = 1]
  /\ UNCHANGED <<job, spent>> /\ OutsideOfClient

\* Readiness becomes public: the workflow uploads it, or the role relays the
\* comment in which the human posted it.
Waits == step[1] = "ready" /\ job["client"] = "start"
      /\ OnlySteps(1, "waiting") /\ Goes("client", "waits")
      /\ UNCHANGED spent /\ OutsideOfClient

Upload == ~Human /\ Waits /\ UNCHANGED session
RelayReadiness == /\ Human /\ CurrentIntent /\ Waits
                  /\ session' = [session EXCEPT !.ready = TRUE]

\* mutant of SeesNoPermission: the wait does not look at the gate's job
OnlyTheClock == ~Fresh
\* The wait for a permission is over without one.
SeesNoPermission == ~Fresh \/ job["gate"] = "failure"

Permitted(to) == /\ step[1] = "waiting" /\ job["gate"] = "success" /\ run \notin expired
                 /\ OnlySteps(1, to)
                 /\ UNCHANGED <<job, session, spent>> /\ OutsideOfClient

SelectPermission == ~Human /\ Permitted("selected")
\* The controller checks that its window is still open, before and after.
AuthorizeHuman   == Human /\ CurrentIntent /\ job["client"] = "waits" /\ Permitted("approved")

\* mutant of Unsent: nothing was sent, whoever holds the claim
UnsentByAnyone == "none"
\* The client claims the call before it says that nothing was sent.
Unsent == IF session.claim \in {0, 1} THEN "none" ELSE "unknown"

\* select-permission ends badly.
GiveUp ==
  /\ step[1] = "waiting" /\ ~Human
  /\ IF SeesNoPermission THEN UNCHANGED spent ELSE Hurt /\ Hurting
  /\ OnlySteps(1, "done")
  /\ \E outcome \in {Unsent} \union (IF CurrentIntent THEN {} ELSE {"unknown"}) :
       session' = [session EXCEPT !.claim = IF @ = 0 THEN 1 ELSE @,
                     !.receipt = IF @ = "missing" THEN outcome ELSE @]
  /\ UNCHANGED job /\ OutsideOfClient

\* The controller cancels its child before it was approved, or the child's own
\* preparation fails: it reports that nothing was sent.
HumanGivesUp ==
  /\ step[1] \in {"waiting", "ready"} /\ Human
  /\ IF SeesNoPermission \/ (job["gate"] = "success" /\ ~CurrentIntent)
     THEN UNCHANGED spent ELSE Hurt /\ Hurting
  /\ OnlySteps(1, "done") /\ Receipt("none", FALSE)
  /\ UNCHANGED job /\ OutsideOfClient

Reaches(i) == /\ job["client"] \in {"start", "waits"} /\ ~Human
              /\ step[i] = IF i = 1 THEN "selected" ELSE "out"

\* mutant of Claim: the marker is not exclusive
ClaimAgain(i) ==
  /\ Reaches(i)
  /\ OnlySteps(i, "claimed") /\ session' = [session EXCEPT !.claim = i]
  /\ UNCHANGED <<job, spent>> /\ OutsideOfClient
\* The npm role, run by the job or run again in the same directory: only the
\* one that creates the marker goes on, the other cannot tell what was sent.
Claim(i) ==
  /\ Reaches(i)
  /\ IF session.claim = 0
     THEN OnlySteps(i, "claimed") /\ session' = [session EXCEPT !.claim = i]
     ELSE OnlySteps(i, "done") /\ Receipt("unknown", FALSE)
  /\ UNCHANGED <<job, spent>> /\ OutsideOfClient

\* The last looks at the intent, the permission and the window.
Approve(i) ==
  /\ step[i] = "claimed"
  /\ \/ /\ CurrentIntent /\ session.ready /\ job["gate"] = "success"
        /\ OnlySteps(i, "approved") /\ UNCHANGED <<session, spent>>
     \/ /\ IF CurrentIntent /\ session.ready /\ job["gate"] = "success"
           THEN Hurt /\ Hurting ELSE UNCHANGED spent
        /\ OnlySteps(i, "done")
        /\ \E outcome \in {"none"} \union (IF CurrentIntent THEN {} ELSE {"unknown"}) :
             Receipt(outcome, FALSE)
  /\ UNCHANGED job /\ OutsideOfClient

Sends(i) == /\ OnlySteps(i, "sent")
            /\ requests' = Append(requests, [call |-> handoff.call, state |-> "flying"])
            /\ UNCHANGED <<session, spent>>
NeverSends(i) == OnlySteps(i, "done") /\ Receipt("none", FALSE) /\ UNCHANGED requests

\* npm is started, or the preparation of its call fails before that.
Publish(i) ==
  /\ step[i] = "approved" /\ ~Human
  /\ Sends(i) \/ (Hurt /\ Hurting /\ NeverSends(i))
  /\ UNCHANGED <<job, journal, expired, run, mode, recorder, handoff>>

\* The approved child identifies its client and looks at the window once more.
HumanPublishes ==
  /\ step[1] = "approved" /\ Human
  /\ \/ run \notin expired /\ Sends(1)
     \/ /\ IF run \in expired THEN UNCHANGED spent ELSE Hurt /\ Hurting
        /\ NeverSends(1)
  /\ UNCHANGED <<job, journal, expired, run, mode, recorder, handoff>>

\* npm exits.  Any failure of a started client leaves the outcome unknown;
\* a cleanup that fails spoils the receipt, not the outcome.
Exit(i) ==
  /\ step[i] = "sent"
  /\ OnlySteps(i, "done")
  /\ \/ /\ Arrived(handoff.call)
        /\ Receipt("effect", TRUE) /\ UNCHANGED spent
     \/ /\ \A n \in RequestOf(handoff.call) : requests[n].state = "dropped"
        /\ Receipt("unknown", FALSE) /\ UNCHANGED spent
     \/ /\ Hurt /\ Hurting
        /\ \/ Receipt("unknown", FALSE)
           \/ Arrived(handoff.call) /\ Receipt("effect", FALSE)
  /\ UNCHANGED job /\ OutsideOfClient

\* The human's process, or the machine it runs on, is gone.
LoseHuman ==
  /\ step[1] \notin {"out", "done", "dead"} /\ Human /\ Hurt
  /\ OnlySteps(1, "dead") /\ Hurting
  /\ \/ UNCHANGED session
     \/ Receipt("unknown", FALSE)
  /\ UNCHANGED job /\ OutsideOfClient

\* The client's job ends: the workflow's with its role, and all that runs in
\* its directory with it; the bootstrap's with the comment or the deadline.
EndClient ==
  /\ job["client"] \in {"start", "waits"}
  /\ IF Human
     THEN /\ \/ job["client"] = "waits" /\ step[1] \in {"done", "dead"} /\ session.receipt # "missing"
             \/ job["client"] = "start" /\ step[1] = "ready" /\ ~CurrentIntent
             \/ run \in expired
          /\ Goes("client", IF job["client"] = "waits" /\ run \notin expired
                            THEN "success" ELSE "failure")
          /\ UNCHANGED <<step, session>>
     ELSE /\ step[1] = "done"
          /\ Goes("client", IF session.claim = 1 /\ session.passed THEN "success" ELSE "failure")
          /\ step' = [i \in Clients |-> "dead"] /\ UNCHANGED session
  /\ UNCHANGED spent /\ OutsideOfClient

-----------------------------------------------------------------------------
(* gate: observe-ready-publication permits the npm call                     *)

ReadinessShown == job["client"] = "waits" /\ step[1] # "ready"

\* mutant of ClientStopped: a gate that waits for a client that has ended
OutOfTime == ~Fresh
ClientStopped == ~Fresh \/ job["client"] \in Ends

Others == UNCHANGED <<requests, expired, run, mode, handoff, step, session>>
OnlyJob == Others /\ UNCHANGED <<journal, recorder, spent>>

\* select-ready looks at the intent once and then only at the client's job.
LookForReady ==
  /\ job["gate"] = "start"
  /\ Goes("gate", IF CurrentIntent THEN "looks" ELSE "failure")
  /\ OnlyJob

SelectReady ==
  /\ job["gate"] = "looks"
  /\ \/ ReadinessShown /\ Fresh /\ Goes("gate", "selected")
     \/ ClientStopped /\ Goes("gate", "failure")
  /\ OnlyJob

\* permit, up to the look at the destinations ...
Inspect ==
  /\ job["gate"] = "selected"
  /\ Goes("gate", IF CurrentIntent /\ AsRecorded(Everywhere(journal)) THEN "inspected" ELSE "failure")
  /\ OnlyJob

\* ... and after it: the same client still waits and nothing was appended.
Permit ==
  /\ job["gate"] = "inspected"
  /\ Goes("gate", IF ReadinessShown /\ CurrentIntent THEN "success" ELSE "failure")
  /\ OnlyJob

-----------------------------------------------------------------------------
(* observe: record the npm outcome, whatever became of the client           *)

Received == IF session.receipt = "missing" \/ (Human /\ job["client"] = "failure")
            THEN "unknown" ELSE session.receipt

BeginObserve ==
  /\ job["observe"] = "start"
  /\ IF mode = "observe"
     THEN Goes("observe", IF journal.active = run /\ Clear(journal)
                             /\ Npm \in Everywhere(journal) THEN "success" ELSE "failure")
          /\ UNCHANGED recorder
     ELSE IF handoff.call = NoCall THEN Fails("observe")
     ELSE Goes("observe", "read") /\ recorder' = [recorder EXCEPT !.head = journal.head,
                                                    !.outcome = Received]
  /\ Others /\ UNCHANGED <<journal, spent>>

RecordNpm ==
  /\ job["observe"] = "read"
  /\ Push(recorder.head, TRUE,
          Observe(journal, handoff.call, recorder.outcome,
                  IF Human THEN "reconciliation" ELSE "call"),
          Goes("observe", IF recorder.outcome = "effect" /\ session.passed
                          THEN "success" ELSE "failure") /\ UNCHANGED recorder,
          Fails("observe"))
  /\ Others

\* consume: wait until the registry shows the package, then use it.
Consume ==
  /\ job["consume"] = "start"
  /\ \/ Fresh /\ Npm \in Visible /\ Goes("consume", "success")
     \/ (~Fresh \/ Npm \notin Visible) /\ Goes("consume", "failure")
  /\ OnlyJob

-----------------------------------------------------------------------------
(* complete: the GitHub effects, one call at a time                         *)

BeginComplete ==
  /\ job["complete"] = "start"
  /\ IF /\ Fresh /\ Clear(journal) /\ journal.active = run
        /\ mode = "observe" \/ job["gate"] = "success"
        /\ Npm \in Everywhere(journal)
     THEN /\ Goes("complete", "next")
          /\ recorder' = [NoRecorder EXCEPT !.head = journal.head,
                                            !.complete = Everywhere(journal)]
     ELSE Fails("complete")
  /\ Others /\ UNCHANGED <<journal, spent>>

DestinationsAgree == Fresh /\ Npm \in Visible /\ AsRecorded(recorder.complete)
Remaining == {i \in DOMAIN Order : Order[i] \notin recorder.complete}

\* mutant of NextEffect: the release is made public before the others are there
LastEffect == Order[Max(Remaining)]
NextEffect == Order[Min(Remaining)]

CheckBefore ==
  /\ job["complete"] = "next"
  /\ Goes("complete", IF DestinationsAgree THEN "checked" ELSE "failure")
  /\ OnlyJob

IntendNext ==
  /\ job["complete"] = "checked" /\ Remaining # {}
  /\ Push(recorder.head, MayIntend(journal, run, NextEffect) /\ Fresh,
          Intend(journal, run, NextEffect),
          /\ Goes("complete", "intended")
          /\ recorder' = [recorder EXCEPT !.head = journal.head + 1,
                                          !.call = Len(journal.calls) + 1],
          Fails("complete"))
  /\ Others

\* The write, if the role may still do it; not sent is known to be no effect.
Write ==
  /\ job["complete"] = "intended"
  /\ \/ /\ Fresh
        /\ requests' = Append(requests, [call |-> recorder.call, state |-> "flying"])
        /\ Goes("complete", "written") /\ UNCHANGED <<recorder, spent>>
     \/ /\ IF Fresh THEN Hurt /\ Hurting ELSE UNCHANGED spent
        /\ Goes("complete", "answered") /\ recorder' = [recorder EXCEPT !.outcome = "none"]
        /\ UNCHANGED requests
  /\ UNCHANGED <<journal, expired, run, mode, handoff, step, session>>

\* mutant of Answer: a failed request is taken for one that was never sent
LostIsNone == "none"
\* A request whose answer is not a success may still have its effect.
NoAnswer == "unknown"

Answer ==
  /\ job["complete"] = "written"
  /\ \E n \in RequestOf(recorder.call) :
       \/ /\ requests[n].state \in {"landed", "visible"} /\ UNCHANGED spent
          /\ recorder' = [recorder EXCEPT !.outcome = "effect"]
       \/ /\ IF requests[n].state = "dropped" THEN UNCHANGED spent ELSE Hurt /\ Hurting
          /\ recorder' = [recorder EXCEPT !.outcome = NoAnswer]
  /\ Goes("complete", "answered")
  /\ Others /\ UNCHANGED journal

RecordAnswer ==
  /\ job["complete"] = "answered"
  /\ Push(recorder.head, TRUE,
          Observe(journal, recorder.call, recorder.outcome, "call"),
          IF recorder.outcome = "effect"
          THEN Learns("complete", "next", recorder.complete \union {NextEffect})
          ELSE Fails("complete"),
          Fails("complete"))
  /\ Others

CloseCompleted ==
  /\ job["complete"] = "checked" /\ Remaining = {}
  /\ Push(recorder.head, MayClose(journal, run, "completed"), Close(journal, run, "completed"),
          Goes("complete", "success") /\ UNCHANGED recorder, Fails("complete"))
  /\ Others

-----------------------------------------------------------------------------
(* The operator, who only states what is so                                 *)

ByOperator == UNCHANGED <<requests, expired, run, mode, job, recorder, handoff, step, session>>

\* A look at the destination settles nothing.  (Bound: only while a run goes
\* on; afterwards a reconciliation tells more.)
Note(c) ==
  /\ ~Over /\ c \in DOMAIN journal.calls /\ spent.notes < MaxNotes
  /\ journal' = Observe(journal, c, "unknown", "destination")
  /\ spent' = [spent EXCEPT !.notes = @ + 1]
  /\ ByOperator

\* Once nothing is on its way, the original call's own evidence decides it; a
\* destination that looks as if it had happened is not enough.
Reconcile(c) ==
  /\ Quiet /\ c \in Blocking(journal)
  /\ \A n \in RequestOf(c) : requests[n].state # "flying"
  /\ journal' = Observe(journal, c, IF Arrived(c) THEN "effect" ELSE "none",
                        "reconciliation")
  /\ ByOperator /\ UNCHANGED spent

Abandon(o) ==
  /\ Over /\ MayClose(journal, o, "abandoned")
  /\ journal' = Close(journal, o, "abandoned")
  /\ ByOperator /\ UNCHANGED spent

\* Recovery: decided on the record as it is, approved, and applied only if the
\* record still is at that head, so that deciding and applying are one step.
Recover(o) ==
  /\ o \in expired /\ MayHandOff(journal, o)
  /\ journal' = HandOff(journal, o)
  /\ ByOperator /\ UNCHANGED spent

-----------------------------------------------------------------------------
(* The services and the clock                                               *)

Becomes(n, state) ==
  /\ requests' = [requests EXCEPT ![n].state = state]
  /\ UNCHANGED <<journal, expired, run, mode, job, recorder, handoff, step, session>>

Land(n) == n \in In({"flying"}) /\ Becomes(n, "landed") /\ UNCHANGED spent
Show(n) == n \in In({"landed"}) /\ EffectOf(n) = Npm /\ Becomes(n, "visible") /\ UNCHANGED spent
Drop(n) == n \in In({"flying"}) /\ Hurt /\ Becomes(n, "dropped") /\ Hurting

Deadline == /\ run \notin expired \union {NoOperation}
            /\ expired' = expired \union {run}
            /\ UNCHANGED <<journal, requests, run, mode, job, recorder, handoff, step,
                           session, spent>>

-----------------------------------------------------------------------------
Init ==
  /\ journal = Empty /\ requests = <<>> /\ expired = {}
  /\ run = NoOperation /\ mode = "none"
  /\ job = [r \in Roles |-> "skipped"]
  /\ recorder = NoRecorder /\ handoff = NoHandoff
  /\ step = [i \in Clients |-> "out"] /\ session = NoSession
  /\ spent = [faults |-> 0, notes |-> 0]

Client == \/ Prepare \/ Upload \/ SelectPermission \/ GiveUp \/ EndClient
          \/ StartHuman \/ RelayReadiness \/ AuthorizeHuman \/ HumanGivesUp \/ HumanPublishes
          \/ \E i \in Clients : Claim(i) \/ Approve(i) \/ Publish(i) \/ Exit(i)
Gate     == LookForReady \/ SelectReady \/ Inspect \/ Permit
Recorder == \/ Admit \/ CheckDestinations \/ IntendNpm
            \/ BeginObserve \/ RecordNpm \/ Consume
            \/ BeginComplete \/ CheckBefore \/ IntendNext \/ Write \/ Answer
            \/ RecordAnswer \/ CloseCompleted
Operator == \/ \E o \in Operations, m \in Modes : Dispatch(o, m)
            \/ \E c \in DOMAIN journal.calls : Note(c) \/ Reconcile(c)
            \/ \E o \in Operations : Abandon(o) \/ Recover(o)
Services == \/ \E n \in DOMAIN requests : Land(n) \/ Show(n) \/ Drop(n)
            \/ Deadline
Losses   == LoseHuman \/ \E r \in Roles : KillJob(r)

Next == \/ Client \/ Gate \/ Recorder \/ Operator \/ Services \/ Losses
        \/ \E r \in Roles : Begin(r)

Spec == Init /\ [][Next]_vars

\* The services answer and the jobs' own steps are taken; nothing is assumed
\* of the clock or the operator.  A human's steps are among the client's, but
\* what is promised (GoesOn) is said of runs without one.
Fairness == /\ WF_vars(\E r \in Roles : Begin(r))
            /\ WF_vars(Client) /\ WF_vars(Gate) /\ WF_vars(Recorder)
            /\ WF_vars(\E n \in DOMAIN requests : Land(n))

FairSpec == Spec /\ Fairness

-----------------------------------------------------------------------------
TypeOK ==
  /\ journal.head \in Nat /\ journal.active \in Operations \union {NoOperation}
  /\ requests \in Seq([call : DOMAIN journal.calls,
                       state : {"flying", "landed", "visible", "dropped"}])
  /\ job \in [Roles -> {"waiting", "start", "opened", "checked", "waits", "looks", "selected",
       "inspected", "read", "next", "intended", "written", "answered"} \union Ends]

\* Each effect is asked for at most once, over every run, repetition, lost
\* answer and recovery: a second request is sent only when the first is
\* known to have come to nothing.
EffectsHappenOnce ==
  \A e \in Effects : Cardinality({n \in DOMAIN requests :
                         EffectOf(n) = e /\ requests[n].state # "dropped"}) <= 1

\* What the record says of a call is true of the world: an effect it calls
\* verified is there; one it calls absent is not, is not on its way, and no
\* client is left that could still send it.
OutcomesAreTrue ==
  \A c \in DOMAIN journal.calls :
    /\ journal.calls[c].outcome = "effect" => Arrived(c)
    /\ journal.calls[c].outcome = "none" =>
         /\ \A n \in RequestOf(c) : requests[n].state = "dropped"
         /\ c = handoff.call => \A i \in Clients : step[i] # "approved"

\* A release that is public is whole: nothing is sent before all that comes
\* before it has landed, and a completed operation has left nothing out.
ReleaseIsWhole ==
  /\ \A n \in DOMAIN requests : \A i \in DOMAIN Order :
       EffectOf(n) = Order[i] => \A k \in 1..(i - 1) : Order[k] \in Landed
  /\ \A o \in Operations : journal.phase[o] = "completed" => Effects \subseteq Landed

\* A run that no human takes part in has not ended yet.
GoesOn == ~Over /\ mode # "bootstrap"
=============================================================================
