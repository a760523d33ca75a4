# A verification model of the tabgrad runtime

tabgrad is a tensor runtime for the browser: lazy numerical operations, gradients and
optimizer updates over a WebAssembly or WebGPU backend, scripted from JavaScript or from
Python in a worker. Its difficult code is not the arithmetic. It is the bookkeeping around
it: calls that return before their work has run, work that ends in another thread or not at
all, values that are freed while something else still names them. The repository also holds
the tools that qualify and publish it, whose difficulty is of the same kind: requests whose
answers are lost, jobs that die, processes that hang. These TLA+ modules model both. Paths
below are relative to `src/` of the repository.

## 1. Inventory

| Component | State it keeps | Operations | Modelled in |
|---|---|---|---|
| Request queue (`runtime/execution-request.ts`, `runtime.ts` 2055-2132, 2619-2683) | accepted requests in order, the generator of each, its pending step, drains | accept, pump, resume after a promise or ticket, blocking read, publish, retire, close | `ExecutionQueue`, `OrderedExecution` |
| Writer outcomes (`runtime/writer-outcome.ts`, writes and joins of `runtime.ts`) | the outcome of each persistent write, captures in values, identities and requests, the first failure | copy, derive, acquire a gradient, observe, release, `complete()`, `close()` | `WriterOutcomes` |
| Value lifetimes (`runtime.ts` 1756-1842, 1925-1977, 2314-2617, `tensor-value.ts`, `tensor-family.ts`) | reference counts of values and storages, producers, expansions and their cache, materializations | create, record, expand, write, reset, observe, close a handle, form, execute, complete, retire | `ValueLifetimes` |
| Program formation (`runtime/program-formation.ts`, `execution/executable-program.ts`) | none: the closure, slots and use counts of one program | form | inside `ValueLifetimes` and `InvocationStorage` |
| CPU linear memory (`backends/cpu/linear-memory.ts`) | cursor, free list, search bound, byte counters, pages | allocate, release | `LinearMemory`, `FirstFitStore` |
| CPU backend (`cpu-backend.ts`, `invocation-storage.ts`), WebGPU backend (`webgpu-backend.ts`) | scratch and residents of an invocation, GPU buffers, executions in flight | execute, read, roll back, drain, release, close | `InvocationStorage` |
| Preparation (`artifact-loader.ts`, `cpu-backend.ts`, `webgpu-backend.ts`, `webgpu-device.ts`) | the artifact, pipelines and device, each prepared once | load, compile, acquire, abort, lose, close | `BackendPreparation`, `DeviceAcquisition` |
| WebGPU worker connection (`webgpu-connection`, `-shared-completion`, `-connected-backend`, `worker`, `-worker-controller`) | three control words, a header per request, two ports, setup and close promises | attach, request, blocking read, progress, publish, drain, lose the device, close on three sides | `GpuConnection` |
| Pending completions (`webgpu-pending-completions`, `-progress-notification`, `-active-admissions`) | live requests by admission, a shared tree of change hints | add, fail, delete, advance | `GpuProgress` |
| Semantic ownership and SGD (`runtime.ts` 879-1133, 1300-1680, 2173-2434, `sgd.ts`) | identities, handles, gradient and base associations, history nodes, optimizer registrations and captures | create, operate, assign, backward, close, collect, register, step, zero | `SemanticOwnership` |
| Derivative history (`runtime/autograd/`) | recorded nodes, saved operands with versions, one traversal | record, plan, traverse, accumulate, consume, release | `DerivativeHistory` |
| Python binding and worker connection (`frontends/python/`) | claimed interpreters, one running script, one pending reply, a close join on both ends | attach, run, reply, lose, close | `PythonConnection` |
| Release publication (`scripts/release-publication.mjs`, `release-record*.mjs`, `publication-*.mjs`) | a hash-linked record in Git, jobs of one workflow run, the client's files, requests on their way | admit, prepare, permit, publish, observe, consume, complete, reconcile, abandon, recover | `ReleaseRecord`, `ReleasePublication` |
| Browser test harness (`scripts/browser-harness.mjs`, `run-browser-tests.mjs`, `run-package-browser-tests.mjs`) | a server, the run of each page, a browser process, its standard error and profile | serve, navigate, report, time out, terminate, join, clean up | `BrowserRun` |
| Package acquisition (`scripts/package-registry.mjs`, `package-registry-transport.mjs`) | one npm client at a time, a proxy, a download, a cache and an installation | prepare, query, download, stage, populate, install, verify, give up | `RegistryPackage` |
| Tensor shapes, kernels, Python wrappers, errors, build scripts | no protocol state | | not modelled (section 8) |

How they interact. A user call runs synchronously on the JavaScript thread. It changes
identities and values at once and appends a request to the queue. The pump runs the head of
the queue inside the same call until it suspends, and again from Promise reactions. A request
forms a program from the values it needs, prepares and calls a backend, installs the resident
results and publishes. The CPU backend answers synchronously and keeps its buffers in linear
memory. A connected GPU backend posts the request to a worker and learns the answer from shared
words, either by blocking in `Atomics.wait` or from a hint message. Device work may outlive the
answer, so a request keeps its pins until its tickets drain. The host page supervises the
worker and records its loss in the same words. Gradients are recorded as a graph of nodes that
own identities and saved values; optimizers own registrations and, during a group callback,
the gradients they captured. A Python worker runs scripts that make such calls, one at a time.
The release tools share only the record, the workflow's files and the services outside.

What is hard here: three ways to resume a request (call, reaction, blocking read); decisions
taken before a suspension and used after it; writes that are visible before they have
happened; failures published before the device has stopped; user code called in the middle of
an update; a shared-memory protocol whose messages may be lost; reference counts kept by lazily
activated owners; and effects on the outside world whose answers are lost. `PROJECT.json`
lists each hazard at its line, with the properties that cover it.

## 2. Modules

**`OrderedExecution`** is what a session promises about accepted work: outcomes in
acceptance order, one retirement each, after publication, and a close join that waits for all.

**`ExecutionQueue`** is the queue that keeps the promise. A request is a sequence of steps of
the kinds the code yields: a plain promise, a local GPU ticket, a ticket of the connected
backend. `waiting`, `watch`, `yielded`, `result` and `input` are the fields of
`ExecutionRequest`; `advancing` is the pump's reentrancy guard. One action is one synchronous
stretch between two points where other code may run. The backend answers and drains in any
order. `ImplementsOrderedExecution` is the refinement.

**`WriterOutcomes`** takes that order as given (a request is published when it is the head) and
models what a later call learns about a write. `outcomes[v]`, `controls[t]` and
`prerequisites[r]` are the captured outcomes of values, identities and copy effects.
`lineage` and `history` are history variables: all writes a content really depends on, which
the code does not store. `#accumulateGradient` is composed of the modelled operations: into an
existing gradient it is Derive and Write, into an empty slot it is Acquire. A snapshot is
taken when its value is captured. Several identities of one family (views, aliases) are not
modelled; of the capacity checks only `pendingCopies` is.

**`ValueLifetimes`** models who owns a storage. `heap[s]` is a storage with its reference
count, the inputs of its producer, its materialization, its shape class and the family it
expands, if it is a scalar projection. `current`, `origin` and `cache` are
`TensorFamily.current`, `projectionMetadata` (weak: it counts nothing) and `projectionCache`.
`leaving` holds what a write releases only after the queue has run, `step` is the head of the
queue between two suspensions, `drains` the published requests that still pin their root.
A value and its storage are one thing here. Views of the same size share the family pin. A
request carries only its root, so any request may end early, after formation. The owner budget
is a free choice of which expansions a program adopts. The shapes are "one", "many", "empty":
`#write` and `#scalarProjection` tell no others apart. Left out: saved derivative operands
(an extra pin of the same kind), the sum of a scalar (one more link of the same kind), and
the session close.

**`FirstFitStore`** is a memory that hands out the lowest fitting free range, extends its
cursor otherwise, and merges neighbours. **`LinearMemory`** is the allocator: a sorted list,
binary insertion, in-place splitting, and an upper bound on the largest segment that lets
requests skip the search.

**`GpuConnection`** models three threads: the client that may block, the worker, and the host
page. Each action is one access to a shared word (`generation`, `accounted`, `pulse`, and
STATUS and DRAINED of each request) with the thread-local work around it, so that all
interleavings of `refresh()`, the publish functions and the two closes are explored. Messages
may be dropped when a port closes. A fault is a lost device, a dead worker or a failed call.
The payload is dropped. The client inspects every live request; `GpuProgress` narrows that down.
The client begins its close only when each request has an outcome, because
`RuntimeSession.#finishClose` joins the queue first.

**`GpuProgress`** models which of the live requests a checkpoint inspects once some have failed
and wait for their device work. `index` is `PendingGpuCompletions`, one set per collection, with
`ordered` for whether the admission order exists; `directory`, `path` and `marks` are the shared
tree of change hints; `stack` holds the checkpoints, calls and drain callbacks in progress,
since a refresh may run callbacks that start checkpoints. Each action is again one access to
shared memory: a publication of the worker is up to seven accesses (`job`), the client's walk
takes, clears, rechecks and restores bits one at a time. `spent` places the identities: two
requests may share a leaf, lie on different leaves, or exhaust the identity space. The tree has
two levels instead of eleven, and the balanced tree of admissions is a sorted set. How the
connection ends is `GpuConnection`'s matter: here it may end at any moment.

**`InvocationStorage`** extends `LinearMemory` with its two users. A program is met one value at
a time, so that every program of the bounded size occurs; `values` holds uses left, retention
and allocation by slot, `retiring` the inputs still to be completed. On the CPU a failed step
rolls back; on the GPU `spare` are the buffers to reuse, `flights` the executions and readbacks
not cleaned up, whose `created` buffers go when result, drain and mapping have ended. `contents`
is a ghost: which value a buffer holds. With `device = "memory"` the allocator is driven by hand.

**`DeviceAcquisition`** is the race between an abort and a browser that cannot be told to stop.
Promise jobs run first in, first out; the browser answers in tasks of its own; an abort may come
between any two jobs. **`BackendPreparation`** extends it with the artifact loader (every await
and every check in order, a defect being what a check finds), the cached pipelines, and the
session whose requests wait for them.

**`SemanticOwnership`** models who keeps an identity alive. `heap` holds identities, the node each
recorded, and counts; `Release` is the cascade of `#releaseIdentities` and the history's release
as one least fixed point; `Collect` is the cycle collector. `stack` holds user callbacks in
progress: property getters read by a registration, and group callbacks. In them the user may do
anything, also close the optimizer or the session. **`DerivativeHistory`** models one traversal
step by step: planning, recipes, addition, accumulation, consumption. It may fail at each step.
A gradient is its weight, the number of paths it sums up, compared with `Paths`, a recursive
function over the graph. What a release spreads to and what a traversal reaches are least sets. `version` and the saved versions are those of the code.

**`PythonConnection`** models both ends of a message port and the binding between them: client
and service with one command at a time, bindings that claim one interpreter in turn, code in the
worker that uses the binding itself, and the loss of the port or of the worker.

**`ReleaseRecord`** is the replay rule of the release record: a May... predicate and a state
change for each kind of event. **`ReleasePublication`** puts the actors on it: six jobs of one
run, two invocations of the npm client's directory (its job, and a repetition), a human client,
an operator, and services that may carry out a request long after its caller has gone. An
append is a compare-and-swap on `journal.head`, and its answer may be lost. `handoff` is the
admitted npm call with its intent's commit; `session` are the files in the client's directory.

**`BrowserRun`** runs pages in a browser: `runs` are the two deferreds of each page, `serving`
the requests being handled, each with the run resolved for it on arrival, `child` the process
with its standard error, which descendants may hold open. **`RegistryPackage`** obtains a package:
npm clients killed on a timeout or on too much output, a proxy that turns requests away, a
download that decides once, a cache and an installation that are verified again after use.

The theorems (section 6) are in modules of their own. **`WriterOutcomesProofs`**,
**`GpuConnectionProofs`**, **`GpuProgressProofs`**, **`ValueLifetimesProofs`** and
**`DerivativeHistoryProofs`** extend the module they are named after. **`SessionProofs`** is about
`ExecutionQueue` and `PythonConnection`, **`BackendProofs`** about `LinearMemory`,
`InvocationStorage`, `DeviceAcquisition` and `BackendPreparation`, and **`ReleasePublicationProofs`**
about all that `MCReleasePublication` puts side by side. The `MC*` modules instantiate the modules they
extend. Four of them put systems that share nothing side by side in one run: a behaviour is one of
the queue or one of a Python worker; of invocations or of preparation; of two tensors or of one
with more shapes; of the workflow, of a suite of pages or of a package acquisition. The unused
part stays in its initial state, where its fairness asks for nothing. Bounds are in the `.cfg`
files.

The operators named `...Late`, `...Silently`, `...Anyway` and so on, each placed above the
definition it varies, are faulty variants of that definition. No specification uses them. Each
property is tested by putting one of them in place: TLC then reports the property violated.

## 3. Runs

| Run | Instance | States | What it shows |
|---|---|---|---|
| `execution_queue` | 2 requests of up to 2 steps; 1 binding, 3 commands | 171,672 | no work is stranded, results reach the step they belong to, pins outlive device work, the queue refines `OrderedExecution`, accepted work settles and `close()` completes; the answers of a Python worker are true, no script runs on a closed session, calls settle |
| `writer_outcomes` | 2 tensors, 3 requests, 4 values, 2 pending copies | 1,787,421 | no success hides a failed write, one failure decides the later ones, a failure is always reported, the ledger balances |
| `gpu_connection` | 2 requests, 1 fault | 4,695,633 | a value implies drained work, pins outlive it, no end is called clean too early |
| `gpu_connection_live` | 1 request, 1 fault | 174,168 | blocking reads return, sent requests retire, both closes settle |
| `gpu_progress` | 2 requests, 4 identities, leaves of 2, the end at any point | 5,192,512 | a checkpoint that inspects only marked requests finds what a full scan would, at any instant of a publication; completed requests leave nothing in the index |
| `value_lifetimes` | 2 tensors of one shape or 1 of every shape, 3 storages, 2 requests | 1,946,933 | counts equal owners, a live program stays executable, nothing needed is freed, all is returned, a cached expansion is of the current value |
| `value_lifetimes_projection_copy` | copies of unobserved expansions allowed | stops | the first finding below |
| `invocation_storage` | programs of 3 values, 2 in flight, 1 fault; 2 requests and 2 defects in preparation; 3 sizes by hand in 5 pages | 2,128,052 | no needed value is overwritten, nothing leaks, no buffer goes while the device uses it, the allocator implements the abstract store; nothing unsound is executed, every failure has an owner, a device has one owner |
| `semantic_ownership` | 3 identities, 1 optimizer, 1 callback deep | 143,074 | counts equal owners, cycles are collected, nothing reachable is, a closed optimizer keeps nothing |
| `derivative_history` | 2 leaves, 4 nodes, 1 write, release or fault, 2 traversals | 499,412 | the sum over all paths or nothing, each temporary closed once, no stale saved value used |
| `python_attachment` | 3 attachments in turn | stops | the second finding below |
| `release_publication` | 2 operations, 3 effects, 1 fault, 1 note; 2 pages; 2 admitted places | 856,434 | nothing is published twice, the record is true, a release is whole, a result or a package is earned, everything ends |

Why the bounds are enough. Two requests are the least with a head and one that waits behind it;
two steps let a reaction of the first arrive during the second. Three commands let a late answer
meet the next command and one after it. Three requests in
`WriterOutcomes` give a failed write, a write after it and an observation of both, over two
tensors so that a capture can be inherited across them. Two tensors and three storages hold an
operand, its expansion and a result while a write replaces one of them. Four allocations fill the
arena, leave two separate holes and merge on both sides; sizes give an exact fit, a
remainder and one that fits no hole, and programs have values of size zero. Three values give an input with a later use, an output that
takes another's buffer, and a result. One GPU fault already meets every interleaving of a loss
with every access, since faults are terminal for a connection; safety is checked with two
requests and liveness with one, as two would not finish. In `GpuProgress` two requests are the
least with one that a callback of the other can mark, send or inspect; four identities and
leaves of two put them on one leaf or two. Two defects of the artifact show which of two is
reported. Three identities close a cycle beside a root. Four nodes are two leaves and two
operations, so that a leaf is reached along two paths and a node feeds two. Calls of one behaviour start at operations,
recording precedes the first of them, `grad` names at most two targets and `backward` all
reachable leaves; one leaf may start with a gradient. Two operations are a lost one and the one
that follows it, dispatched in that order. Three effects are npm, one in the middle and the one
that makes a release public. One fault per run is any lost job, process, request or answer,
after which retries and recoveries go on. Two pages are an earlier and a later one on one
server. Length two and output one put a limit inside, at and beyond what arrives. All bounds
appear only in guards that stop a user, a fault or the environment from starting something new.

The runs switch deadlock checking off: a session that is closed, or whose users make no further
call, rightly stops, and so does a release. The liveness properties cover being stuck halfway.

## 4. Fairness

`ExecutionQueue`: a turn that has begun runs to its end, since JavaScript is not preempted (WF).
The event loop delivers due reactions between user calls, however many calls there are (SF,
because a user call disables delivery for its duration). The backend answers or accounts for
every ticket (WF): `GpuConnection` shows this for the connected backend. Nothing obliges a
user to call anything, and `AcceptedWorkSettles` needs no observer.

`PythonConnection`: promise jobs of the binding, the service and the client run, and messages of
a live port are delivered (WF). Scripts end; a lost port or worker is noticed. `CallsSettle` speaks
of a client whose service was started.

`GpuConnection`: worker, device and host threads keep running (WF), a client turn continues
(WF), and its event loop delivers progress (SF). Faults and user calls are never fair. A
blocked thread wakes only through a notification that was sent.

`ReleasePublication`: a job that may begin does, and client, gate and recording role go on (WF);
a request on its way is carried out or dropped (WF). Operators, the clock and visibility are not
fair. A human who runs the client by hand is one of its invocations, so that the client's
fairness speaks of him too, but no property rests on it: `EverythingEnds` is about runs without a
human, and says that they end although the window never closes. `BrowserRun`: the runner, its timers and the server's
handlers go on (WF); nothing is assumed of the browser, not even that it ends after SIGKILL.
`RegistryPackage`: the consumer and its clocks go on, and a killed client ends (WF); nothing else
is assumed of npm or of the registry.

## 5. Findings

`value_lifetimes_projection_copy`. `x.sum()` has the gradient `seed` expanded to the shape of
`x`. tabgrad represents it as a scalar projection, which owns nothing until it is first
retained: `#retainValue` then also retains the scalar (`runtime.ts` 2450-2455). In
`t.copy_(g)` with such an unobserved `g`, `#write` raises the storage count for the new value
(1802) before it retains the source (1809). The activation is skipped, because the storage
already has an owner. When the copy effect completes it releases the scalar all the same
(2610-2617). The scalar has lost a reference it still needs: the open seed loses its storage,
and a later close throws "released more times than it was retained".
`docs/components/semantic-value-lifetimes.md:76` says the producer's inputs are activated when
an unowned origin gains ownership. `#borrowValue` retains in the right order. All other runs of
`ValueLifetimes` set `CopiesProjections = FALSE`, which leaves this one call out.

`python_attachment`. When `install()` fails, `attachClaimedInterpreter` closes the binding it
built, whose drain already gives the interpreter up (`python-binding.ts:140`), and gives it up again in the
outer `finally` (201), a few microtasks later. An attachment that claimed the interpreter in
between loses its claim, and a third one is admitted beside it.
The comment at `python-binding.ts:149` says that overlapping attachments are rejected.

## 6. Proofs

Eight modules prove theorems for every value of the constants. Bounds need only be natural
numbers. Beyond that the proofs assume: the identities and families of a session are finitely
many (`TensorsAssumption`, `FamiliesAssumption`: they are counted); `Github` is a list of distinct effects and npm is not on it
(`NpmIsApart`, `GithubIsAList`, `EffectsAreDistinct`); model values that stand for "nobody" or for
the artifact are none of the others (`BindingsAssumption`, `ArtifactIsNoKind`); allocations are
numbered from 1, with at least as many numbers as there may be buffers, and programs have byte
lengths (`InvocationAssumption`); a page of memory is a multiple of the alignment and the arena
begins before the last page (`MemoryAssumption`); and the pages of a suite are numbered from 1
(`PagesAssumption`).

None of the properties is inductive. Every module has an invariant, called `IInv` in most, that
says why the property holds. TLC checked each on the run's instance first, then it was
proved: one lemma per action, under it one step per part the action can disturb.

**`WriterOutcomes`**: `SuccessIsHonest`, `CapturedWritersPublished`, `OneFailureRules`,
`FailureIsReported`, `CompleteJoinsEarlierWrites`, `LedgerIsBalanced`. The code forgets: a capture
drops outcomes that have completed, and a write keeps no predecessors. `Covering` says why
forgetting is safe: every
write a content was built from has succeeded, or is still captured with it, or belongs to the
history of a captured write. So whoever waits for the captures and sees no failure may rely on
all of it. `Order` says that captures are accepted earlier, hence published earlier. `Checked`
carries what the head established before it suspended. `CaptureKeepsCover` is the heart
of it: dropping a successful write loses nothing, by `SuccessIsHonest` for that very write, which
is why that property is part of the invariant. `Join` counts unretired copies exactly and gives the
two properties about joins. `Ledger` names the owners behind the counters: a reference of a
value is a tensor that shows it or an unretired request that captured it. Each operation moves at
most one member in each of these sets, which is all the counting needs.

**`ExecutionQueue`**: `QueueIsSound` and the refinement `ImplementsOrderedExecution`. Publications
follow acceptance, only the head has a step in progress, and drains and leases are counted
exactly. With that, every step is a step of `OrderedExecution` or a stutter.

**`GpuConnection`**: `TypeOK`, `ValueIsDrained`, `PinsOutliveDeviceWork`, `CleanEndIsHonest`. The
phase of a request bounds what its device work and its header words can be. The second idea is
quiet: once anybody has vouched for a clean end, on whichever side, nothing
runs in the worker and nothing can start there.

**`PythonConnection`**: `ReportsAreTrue`, `ScriptsRunOnOpenSession`. A command has one reply, and
every message on its way agrees with how the service ended the command, also after a loss
has rejected the call.

**`ReleasePublication`**: `EffectsHappenOnce`, `OutcomesAreTrue`, `ReleaseIsWhole`. The danger is a call
that was started by somebody who has gone. The invariant says that a call that may still send is the
one handed off to the client (as long as nobody appended to the record since its intent, or
a client is approved), or the one being written. All others are what their requests are,
and a call that came to nothing is dead for good. Two strengthenings were found on the way: a client
that runs in its job and is not yet ready has sent nothing, and before the first step is over there is
no receipt.

For what its consume job does before (`BrowserRun`, `RegistryPackage`): `ResultsAreEarned` and the
action property `RequestsKeepTheirRun`. A page is believed for what it sent under its own name. The
invariant (`PagesIInv`) says which run a request may be resolved for, and that a settled run is
never registered again; `PackageIInv` says, for each await of an acquisition, what has been verified
when it is reached.

**`BackendPreparation`**: `PreparationIsSound`, `DeviceHasOneOwner`. Of an answer, a
cancellation and a caller's continuation at most one of each is queued, and who owns a granted device
is read off the job it travels in. A part is "running" only if all before it was sound and somebody
waits for it, hence nothing starts twice or outlives the close.

**`InvocationStorage`**: `NeededValuesAreIntact`, `NothingLeaks` and the action property
`BuffersOutliveTheirWork`. Every buffer that exists is accounted for exactly once: by a resident, by a
value of the program, or by the flight that created it; and what a flight pins is a
resident or its own.

**`LinearMemory`**, under its two users: `MemoryIsPartitioned` and the refinement
`ImplementsFirstFit`. `SoundMemory` says that live reservations and free segments cut the arena
below the cursor without gap or overlap, that the list holds the segments in ascending order, and
that the two byte counters are sums over the live allocations. The binary search is proved to find
the one place where a released range goes, by induction on the width of its interval. With that,
first fit in the list is the lowest fitting range of the abstract store, the at most two merges are its merges, and a
search skipped because of the bound would have found nothing.

**`GpuProgress`**: `NewsIsFound`, `IndexFollowsLive`. A mark is a hint, and no single state says
that a hint is not lost: the worker may be anywhere in a publication, the client anywhere in a walk.
So the invariant, of twelve parts, says how far each has come. `Underway` says it of the
worker: until it has marked the path again, the flag is up or the store is still ahead. `Tracked`
says it of the directory: a failed request that has drained is marked from the root, or its branch
is about to be restored, or the client keeps it eligible. `OnTheWay` and `Awaited` say it of the
client: the walk or a scan in progress has yet to come to it. The parts were found by running
them on the 5,192,512 states of the run.

**`DerivativeHistory`**: `SavedValuesAreCurrent`, `ReleasedExactlyOnce`, `GradientsAreWhole`. The
references of a node are its holder and the edges into it, so the set a release spreads to loses
exactly the references it has. A traversal walks a graph that does not change under it (`Shape`: recipes and edges,
which lead to nodes recorded earlier); what it consumes is not part of that graph. Path counts are
defined from the output down; that there is one such function, and that it is the `Paths` of the
model, follows by induction on the numbers of the nodes. What has arrived are the edges out of
visited nodes. The invariant says that a node has got the sum of the path counts over the edges into it
that have arrived, that it waits for as many contributions as have not, and that every handle made is
the seed, a temporary, a result, or closed once. So a node becomes ready when it has its whole gradient.

**`ValueLifetimes`**: `RefsAreOwners`, `ValuesSurvive`, `CacheIsCurrent`, under the assumption
`CopiesProjections = FALSE`: with that call they are false (section 5). The invariant splits
the count of a storage in two. One part are the owners outside the heap (families, caches, pending
and published requests, values a write has still to release), counted place by place; the other are the
input positions of live producers. A call is followed through its intermediate heaps, in which
some owners have a count and no reference yet, or an expansion exists that nobody owns; it
ends with neither. What a release ends, and what a program needs, are recursive
functions of the model, rounds of one step on a finite set. The proof shows that rounds
settle, by a bound on how often a set can grow, and then uses only what is true of the
settled set: an ended storage has no owner but ended ones, and a program is closed under its
inputs. `Program` says that the slots of the program under way live and lead to the root
the queue pins, and that a slot it does not keep is used by its own computations only, so that
the completion loses nothing by dropping it.

What the proofs changed in the model. Alternatives of a CASE that overlapped were made disjoint
(`ReceiveReply`, `CapturedValue`, `ZeroOne`). A union of unions in `InUse` got its
parentheses: TLC and the proof system read it differently without. The binary search of
`LinearMemory` is a recursive function over the pairs of its bounds. In `DerivativeHistory` the spread of a release and
reachability became least sets, in place of rounds of recursion; the values a node saved became a
set; a delivery was cut into `Contribute` and `Combine`; and `GradientsAreWhole` now also speaks of the results a call returns. None of this changed what
the code is taken to do. Assumptions on constants were added where a proof needed them; the runs
evaluate them.

Only model-checked: the two properties of `SemanticOwnership`, and liveness. `TypeOK` of the
proved modules is part of their invariants. Liveness under fairness has no proof to be had, because the prover has no ENABLED.
The library's induction theorems cannot be used either, since they take an operator as a parameter.
Where a proof needs induction it takes a least counterexample, which has to be spelled out for
each recursion. That has been done for `ValueLifetimes` (what a release ends, what a program
needs), `LinearMemory` (the search) and `DerivativeHistory` (paths). It has not for
`Release` and `Marked` of `SemanticOwnership`. No module here declares a RECURSIVE operator.

## 7. Plan

The model is complete as far as it is planned. One proof is left: `SemanticOwnership`, first
`OwnershipIsCounted`, then `AliveIsReachable`, which also needs that history, views and entries close no cycle.

`ExecutionQueue` composes with `WriterOutcomes` and `GpuConnection` through their interfaces: the
first provides the publication order the second assumes, the third provides the answers and drains
the first assumes. `ValueLifetimes` uses the same queue discipline for its requests;
`InvocationStorage` runs the programs that `ValueLifetimes` forms, on a backend that
`BackendPreparation` made ready. `DerivativeHistory` is the traversal that `SemanticOwnership`
takes as one step, and SGD's update is a write of `WriterOutcomes`. `RegistryPackage` and
`BrowserRun` are what the consume job of `ReleasePublication` does in a step.

## 8. Not modelled

In the runtime: floating-point kernels (Rust, WGSL) are numerics. Shape and argument validation
is pure and local to a call. Diagnostics and error formatting carry no protocol state. The Python wrappers
forward to the bridge. Message validation against foreign senders is left out: both ends of
each port run this code. Recording scopes (`noGrad`) and the history of views (`#resolveHistory`)
are left out, a user's free choice to record standing for the former, and so are the capacity
estimates of gradients (`#checkGradientCapacity`). One path of `DerivativeHistory` is not in the model: two
recipes (`derivative-recipes.ts` 27-29, and the zero gradient) would leave their result open if closing an
operand threw. Session close is part of `SemanticOwnership` and `ExecutionQueue`, not of
`ValueLifetimes`. The artifact of a GPU session is taken as sound, since both backends share the loader.

In the tools: digests, signatures and evidence stand for the documents they bind; of the authority checks
only approval, window and run are kept. Conflicts in the record are unreachable while the roles
and the operator tell the truth, which is assumed; an operator reconciles a call from that call's own
evidence, and two human sessions of one call do not run at once. Recovery is one step, since a stale head
refuses it as a whole. Redaction and the wording of diagnostics are left out of `BrowserRun`, and its
request handlers are taken to finish. npm clients run no package scripts, hence have no
descendants; validation of a plan, of metadata or of a manifest is a choice that may fail.
Build, measurement and oracle scripts, and the browser test pages themselves, run their steps in
sequence and keep nothing.
