-------------------------- MODULE BackendPreparation --------------------------
(***************************************************************************)
(* What a backend needs before it executes, and the session that waits for *)
(* it: the verified CPU artifact (backends/cpu/artifact-loader.ts,         *)
(* cpu-backend.ts), the device and its pipelines (DeviceAcquisition,       *)
(* backends/webgpu/webgpu-backend.ts), the requests of runtime/runtime.ts. *)
(*                                                                         *)
(* A part is the artifact or the pipeline of one kind of computation. Its  *)
(* first requester starts it, everybody shares the outcome, failures too.  *)
(* Requests are executed one at a time; a close joins the accepted ones.   *)
(***************************************************************************)
EXTENDS DeviceAcquisition, FiniteSets

CONSTANTS
    Kinds,                \* kinds of GPU computations
    MaxRequests,          \* bound on requests
    MaxDefects            \* bound on what is wrong with the artifact or the shaders

VARIABLES
    target,               \* the device of the session's tensors: "cpu" or "webgpu"
    served,               \* what is wrong; the variant forced, if any, and SIMD support
    parts,                \* #contextPromise, #preparations: "none", "running", "ready" or an error
    stage,                \* load(): the await it is at
    usable,               \* #context, #pipelines
    starts,               \* ghost: how often each part was started
    asks,                 \* the session's requests, oldest first
    preparation,          \* #preparation: the session's own request, 0 when none
    ending                \* session.close(): "open", "joining", "closed"

preparationVars == <<target, served, parts, stage, usable, starts, asks, preparation, ending>>
backendVars == <<preparationVars, acquisitionVars>>

Artifact == "artifact"
Parts == {Artifact} \cup Kinds

\* The verified artifact is no computation of a program.
ASSUME ArtifactIsNoKind == Artifact \notin Kinds

-----------------------------------------------------------------------------
(* Loading the artifact: what every await leads to, in order. A check is   *)
(* the defect it finds, the phase load() is in, and the phase the error    *)
(* itself records.                                                         *)

Check(defect, running, recorded) == [defect |-> defect, running |-> running, recorded |-> recorded]

FetchManifest == Check("no manifest", "manifest-fetch", "manifest-fetch")
ParseManifest == Check("not JSON", "manifest-fetch", "manifest-parse")
ValidateManifest == <<
    Check("not a manifest", "manifest-fetch", "manifest-validation"),
    Check("foreign path", "manifest-fetch", "manifest-validation") >>
SelectVariant == Check("no SIMD", "capability-selection", "none")
FetchModule == Check("no module", "module-fetch", "none")
CheckLength == Check("wrong length", "module-fetch", "integrity-validation")
CheckHash == Check("wrong hash", "integrity-validation", "integrity-validation")
CompileModule == <<
    Check("not WebAssembly", "compilation", "none"),
    Check("other imports", "abi-validation", "abi-validation") >>
Instantiate == Check("not instantiable", "instantiation", "none")
ValidateExports == Check("missing export", "abi-validation", "none")
ValidateAbi == <<
    Check("other ABI version", "abi-validation", "abi-validation"),
    Check("missing capability", "abi-validation", "abi-validation"),
    Check("wrong arena", "abi-validation", "abi-validation") >>

Stages == <<
    <<FetchManifest>>,
    <<ParseManifest>> \o ValidateManifest \o <<SelectVariant>>,
    <<FetchModule>>,
    <<CheckLength>>,
    <<CheckHash>>,
    CompileModule,
    <<Instantiate, ValidateExports>> \o ValidateAbi >>

ArtifactDefects == UNION {{Stages[s][j].defect : j \in DOMAIN Stages[s]} : s \in DOMAIN Stages}
SelectedVariant == IF served.forced # "none" THEN served.forced
                   ELSE IF served.simd THEN "simd128" ELSE "scalar"
Wrong == served.defects \cup (IF SelectedVariant = "simd128" /\ ~served.simd THEN {"no SIMD"} ELSE {})

AlwaysRunning(check) == check.running      \* mutant of Reported: asLoadError drops what the error records

Reported(check) == IF check.recorded = "none" THEN check.running ELSE check.recorded

\* The first check of this stage that fails; 0 when all of them pass.
Fails(s) ==
    LET failing == {j \in DOMAIN Stages[s] : Stages[s][j].defect \in Wrong}
    IN  IF failing = {} THEN 0 ELSE CHOOSE j \in failing : \A k \in failing : j <= k

LoadArtifact ==
    /\ parts[Artifact] = "running"
    /\ LET j == Fails(stage) IN
       IF j > 0
       THEN /\ parts' = [parts EXCEPT ![Artifact] = Reported(Stages[stage][j])]
            /\ UNCHANGED <<stage, usable>>
       ELSE IF stage < Len(Stages)
       THEN stage' = stage + 1 /\ UNCHANGED <<parts, usable>>
       ELSE /\ parts' = [parts EXCEPT ![Artifact] = "ready"]
            /\ usable' = usable \cup {Artifact}
            /\ UNCHANGED stage
    /\ UNCHANGED <<target, served, starts, asks, preparation, ending, acquisitionVars>>

-----------------------------------------------------------------------------
(* Pipelines.                                                              *)

Available == ending # "closed" /\ ~lost

\* Mutant of StillAvailable: a pipeline that arrives is kept, whatever happened meanwhile.
AvailableOnce == TRUE

StillAvailable == Available

\* The loss of the device rejects those who wait for it.
Compile(kind) ==
    /\ parts[kind] = "running"
    /\ IF ~StillAvailable
       THEN parts' = [parts EXCEPT ![kind] = "unavailable"] /\ UNCHANGED usable
       ELSE IF kind \in served.defects
       THEN parts' = [parts EXCEPT ![kind] = "preparation"] /\ UNCHANGED usable
       ELSE parts' = [parts EXCEPT ![kind] = "ready"] /\ usable' = usable \cup {kind}
    /\ UNCHANGED <<target, served, stage, starts, asks, preparation, ending, acquisitionVars>>

-----------------------------------------------------------------------------
(* Requests.                                                               *)

Ask(needs) == [needs |-> needs, state |-> "queued", error |-> "none", blamed |-> {}]
Over == {"done", "failed", "unprepared"}
Turn(r) == r \in DOMAIN asks /\ \A q \in 1..(r - 1) : asks[q].state \in Over

\* An observation of a host value on the CPU needs nothing.
Accept(needs) ==
    /\ setup = "session" /\ ending = "open" /\ Len(asks) < MaxRequests
    /\ asks' = Append(asks, Ask(needs))
    /\ UNCHANGED <<target, served, parts, stage, usable, starts, ending, acquisitionVars>>

Request(needs) ==
    /\ needs \subseteq (IF target = "cpu" THEN {Artifact} ELSE Kinds)
    /\ Accept(needs) /\ UNCHANGED preparation

\* #prepare() of the session prepares its CPU backend, also next to a GPU.
PrepareSession ==
    /\ preparation = 0
    /\ Accept({Artifact}) /\ preparation' = Len(asks) + 1

Missing(r) == asks[r].needs \ usable

StartAgain(p) == parts[p] # "running"       \* mutant of Starts: a failed preparation is not cached

Starts(p) == parts[p] = "none"

NeedsDevice(r) == asks[r].needs \cap Kinds # {}

\* prepare(): join what is running, start what is not, go on when all is there.
Prepare(r) ==
    /\ Turn(r) /\ asks[r].state = "queued"
    /\ IF NeedsDevice(r) /\ ~Available
       THEN /\ asks' = [asks EXCEPT ![r].state = "failed", ![r].error = "unavailable"]
            /\ UNCHANGED <<parts, starts, stage>>
       ELSE LET new == {p \in Missing(r) : Starts(p)} IN
            /\ asks' = [asks EXCEPT ![r].state = IF Missing(r) = {} THEN "prepared" ELSE "waiting"]
            /\ parts' = [p \in Parts |-> IF p \in new THEN "running" ELSE parts[p]]
            /\ starts' = [p \in Parts |-> IF p \in new THEN starts[p] + 1 ELSE starts[p]]
            /\ stage' = IF Artifact \in new THEN 1 ELSE stage
    /\ UNCHANGED <<target, served, usable, preparation, ending, acquisitionVars>>

Errors == {p \in Parts : parts[p] \notin {"none", "running", "ready"}}

\* Promise.all: the first failure ends the wait, other parts may still run. A
\* failed pipeline is blamed on the requester's own program.
Continue(r) ==
    /\ Turn(r) /\ asks[r].state = "waiting"
    /\ \/ /\ \A p \in asks[r].needs : parts[p] = "ready"
          /\ asks' = [asks EXCEPT ![r].state = "prepared"]
       \/ \E p \in asks[r].needs \cap Errors :
             asks' = [asks EXCEPT ![r].state = "failed", ![r].error = parts[p],
                                  ![r].blamed = IF parts[p] = "unavailable" THEN {} ELSE {p}]
    /\ UNCHANGED <<target, served, parts, stage, usable, starts, preparation, ending, acquisitionVars>>

\* execute() finds what the program needs, or its own check fails.
ExecutePrepared(r) ==
    /\ Turn(r) /\ asks[r].state = "prepared"
    /\ asks' = [asks EXCEPT ![r].state = IF NeedsDevice(r) /\ ~Available THEN "failed"
                                         ELSE IF Missing(r) # {} THEN "unprepared" ELSE "done",
                            ![r].error = IF NeedsDevice(r) /\ ~Available THEN "unavailable" ELSE @]
    /\ UNCHANGED <<target, served, parts, stage, usable, starts, preparation, ending, acquisitionVars>>

CloseSession ==
    /\ setup = "session" /\ ending = "open" /\ ending' = "joining"
    /\ UNCHANGED <<target, served, parts, stage, usable, starts, asks, preparation, acquisitionVars>>

\* Both backends forget what they prepared, and the device is destroyed.
CloseBackends ==
    /\ ending = "joining" /\ \A r \in DOMAIN asks : asks[r].state \in Over
    /\ ending' = "closed"
    /\ usable' = {}
    /\ parts' = [p \in Parts |-> IF parts[p] = "running" THEN "running" ELSE "none"]
    /\ destroyed' = IF target = "webgpu" THEN destroyed + 1 ELSE destroyed
    /\ UNCHANGED <<target, served, stage, starts, asks, preparation,
                   asked, granted, acquired, race, setup, aborted, lost, jobs>>

-----------------------------------------------------------------------------
\* The artifact that a GPU session prepares is sound: a bound.
Worlds ==
    LET wrong == IF target = "cpu" THEN ArtifactDefects \ {"no SIMD"} ELSE Kinds IN
    [defects : {d \in SUBSET wrong : Cardinality(d) <= MaxDefects},
     forced : IF target = "cpu" THEN {"none", "scalar", "simd128"} ELSE {"none"},
     simd : IF target = "cpu" THEN BOOLEAN ELSE {TRUE}]

InitPreparation ==
    /\ target \in {"cpu", "webgpu"}
    /\ served \in Worlds
    /\ parts = [p \in Parts |-> "none"] /\ stage = 1 /\ usable = {}
    /\ starts = [p \in Parts |-> 0]
    /\ asks = <<>> /\ preparation = 0 /\ ending = "open"
    /\ IF target = "webgpu" THEN InitAcquisition
       ELSE /\ asked = "nothing" /\ granted = FALSE /\ destroyed = 0 /\ acquired = FALSE
            /\ race = "pending" /\ setup = "session" /\ aborted = FALSE /\ lost = FALSE
            /\ jobs = <<>>

NextPreparation ==
    \/ target = "webgpu" /\ NextAcquisition /\ UNCHANGED preparationVars
    \/ LoadArtifact \/ \E kind \in Kinds : Compile(kind)
    \/ \E needs \in SUBSET Parts : Request(needs)
    \/ PrepareSession
    \/ \E r \in DOMAIN asks : Prepare(r) \/ Continue(r) \/ ExecutePrepared(r)
    \/ CloseSession \/ CloseBackends

SpecPreparation == InitPreparation /\ [][NextPreparation]_backendVars

-----------------------------------------------------------------------------
(* Properties.                                                             *)

\* The phases the documentation separates, for each defect.
Phase(defect) ==
    CASE defect = "no manifest" -> "manifest-fetch"
      [] defect = "not JSON" -> "manifest-parse"
      [] defect \in {"not a manifest", "foreign path"} -> "manifest-validation"
      [] defect = "no SIMD" -> "capability-selection"
      [] defect = "no module" -> "module-fetch"
      [] defect \in {"wrong length", "wrong hash"} -> "integrity-validation"
      [] defect = "not WebAssembly" -> "compilation"
      [] defect = "not instantiable" -> "instantiation"
      [] OTHER -> "abi-validation"

\* Nothing executes unprepared, and nothing unsound is prepared: a context has
\* passed every check, a part is started once however many requests need it or
\* however it ended, and a closed session holds none, not even one that was
\* still on its way.
NothingUnsoundIsUsed ==
    /\ Artifact \in usable => Wrong \cap ArtifactDefects = {}
    /\ usable \cap served.defects = {}
    /\ \A p \in Parts : starts[p] <= 1
    /\ \A r \in DOMAIN asks : asks[r].state # "unprepared"
    /\ ending = "closed" => usable = {}

\* A failed request names what is really wrong with a part of its own.
FailuresAreOwned ==
    \A r \in DOMAIN asks : asks[r].state = "failed" =>
        IF asks[r].error = "unavailable" THEN lost
        ELSE /\ asks[r].blamed # {} /\ asks[r].blamed \subseteq asks[r].needs
             /\ \A p \in asks[r].blamed :
                   IF p = Artifact THEN asks[r].error \in {Phase(d) : d \in Wrong}
                   ELSE p \in served.defects

\* Preparation shared by many requests is as good as one of their own: what is
\* used is sound, and who fails learns what is wrong with what it asked for.
PreparationIsSound == NothingUnsoundIsUsed /\ FailuresAreOwned

\* A device the browser grants, however late, is the session's or is destroyed,
\* once; a cancelled setup waits for nothing but its own jobs.
DeviceHasOneOwner ==
    /\ destroyed <= 1
    /\ setup = "session" /\ ending # "closed" => destroyed = 0
    /\ granted /\ jobs = <<>> /\ (setup = "failed" \/ ending = "closed") => destroyed = 1
    /\ aborted /\ jobs = <<>> => setup \in {"asked", "session", "failed"}
=============================================================================
