-------------------------- MODULE DeviceAcquisition --------------------------
(***************************************************************************)
(* The acquisition of a WebGPU device for a new session                    *)
(* (backends/webgpu/webgpu-device.ts, createWebGpuRuntimeSession in        *)
(* runtime/runtime.ts).                                                    *)
(*                                                                         *)
(* The browser answers in tasks of its own and cannot be told to stop. The *)
(* rest are promise jobs, run one by one in the order they were queued;    *)
(* the caller may abort between any two. Without a signal nothing aborts.  *)
(***************************************************************************)
EXTENDS Naturals, Sequences

VARIABLES
    asked,                \* what requestDevice() awaits: "nothing", "adapter", "device", "answered"
    granted,              \* the browser handed out a device
    destroyed,            \* how often that device was destroyed
    acquired,             \* acquireWebGpuDevice() knows it
    race,                 \* how its race ended: "pending", "device", "error"
    setup,                \* createWebGpuRuntimeSession: "asked", "acquiring", "session", "failed"
    aborted,              \* signal.aborted
    lost,                 \* device.lost has resolved before close: the backend's #failure
    jobs

acquisitionVars == <<asked, granted, destroyed, acquired, race, setup, aborted, lost, jobs>>

Job(do, ok) == [do |-> do, ok |-> ok]
Queue(do, ok) == jobs' = Append(jobs, Job(do, ok))

InitAcquisition ==
    /\ asked = "nothing" /\ granted = FALSE /\ destroyed = 0 /\ acquired = FALSE
    /\ race = "pending" /\ setup = "asked" /\ aborted = FALSE /\ lost = FALSE
    /\ jobs = <<>>

\* No navigator.gpu, or an aborted signal: nothing is asked of the browser.
AcquireWebGpuDevice ==
    /\ setup = "asked" /\ setup' = "acquiring"
    /\ \/ aborted /\ Queue("made", FALSE) /\ UNCHANGED asked
       \/ ~aborted /\ asked' = "answered" /\ Queue("acquired", FALSE)
       \/ ~aborted /\ asked' = "adapter" /\ UNCHANGED jobs
    /\ UNCHANGED <<granted, destroyed, acquired, race, aborted, lost>>

AdapterAnswers(found) ==
    /\ asked = "adapter" /\ jobs = <<>>
    /\ IF found /\ ~aborted THEN asked' = "device" /\ UNCHANGED jobs
       ELSE asked' = "answered" /\ Queue("acquired", FALSE)
    /\ UNCHANGED <<granted, destroyed, acquired, race, setup, aborted, lost>>

LateNever == FALSE        \* mutant of Late: requestDevice() does not look at the signal again

Late == aborted

\* A device that comes too late has no other owner.
DeviceAnswers(ok) ==
    /\ asked = "device" /\ jobs = <<>>
    /\ asked' = "answered" /\ granted' = ok
    /\ destroyed' = IF ok /\ Late THEN destroyed + 1 ELSE destroyed
    /\ Queue("acquired", ok /\ ~Late)
    /\ UNCHANGED <<acquired, race, setup, aborted, lost>>

Abort ==
    /\ ~aborted /\ aborted' = TRUE
    /\ IF setup = "acquiring" /\ race = "pending" THEN Queue("cancelled", FALSE) ELSE UNCHANGED jobs
    /\ UNCHANGED <<asked, granted, destroyed, acquired, race, setup, lost>>

LoseDevice ==
    /\ granted /\ destroyed = 0 /\ ~lost /\ lost' = TRUE
    /\ UNCHANGED <<asked, granted, destroyed, acquired, race, setup, aborted, jobs>>

-----------------------------------------------------------------------------
(* The promise jobs, each with what it queues behind the others.           *)

Then(do, ok) == jobs' = Append(Tail(jobs), Job(do, ok))
Runs(do) == jobs # <<>> /\ Head(jobs).do = do

Acquired ==
    /\ Runs("acquired")
    /\ acquired' = Head(jobs).ok
    /\ Then("raced", Head(jobs).ok)
    /\ UNCHANGED <<asked, granted, destroyed, race, setup, aborted, lost>>

\* The first of the device and the cancellation settles the race.
Raced ==
    /\ Runs("raced") \/ Runs("cancelled")
    /\ IF race = "pending"
       THEN race' = (IF Head(jobs).ok THEN "device" ELSE "error") /\ Then("resume", TRUE)
       ELSE UNCHANGED race /\ jobs' = Tail(jobs)
    /\ UNCHANGED <<asked, granted, destroyed, acquired, setup, aborted, lost>>

\* The continuation and the catch of acquireWebGpuDevice().
Resume ==
    /\ Runs("resume")
    /\ LET fails == race = "error" \/ aborted IN
       /\ destroyed' = IF fails /\ acquired THEN destroyed + 1 ELSE destroyed
       /\ Then("made", ~fails)
    /\ UNCHANGED <<asked, granted, acquired, race, setup, aborted, lost>>

\* createWebGpuRuntimeSession(): the backend, then one more turn.
Made ==
    /\ Runs("made")
    /\ IF Head(jobs).ok THEN Then("publish", TRUE) /\ UNCHANGED setup
       ELSE jobs' = Tail(jobs) /\ setup' = "failed"
    /\ UNCHANGED <<asked, granted, destroyed, acquired, race, aborted, lost>>

PublishSession ==
    /\ Runs("publish") /\ jobs' = Tail(jobs)
    /\ IF aborted \/ lost THEN setup' = "failed" /\ destroyed' = destroyed + 1
       ELSE setup' = "session" /\ UNCHANGED destroyed
    /\ UNCHANGED <<asked, granted, acquired, race, aborted, lost>>

NextAcquisition ==
    \/ AcquireWebGpuDevice \/ Abort \/ LoseDevice
    \/ \E ok \in BOOLEAN : AdapterAnswers(ok) \/ DeviceAnswers(ok)
    \/ Acquired \/ Raced \/ Resume \/ Made \/ PublishSession
=============================================================================
