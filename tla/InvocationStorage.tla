--------------------------- MODULE InvocationStorage ---------------------------
(***************************************************************************)
(* The storage of program invocations on each device                       *)
(* (backends/cpu/cpu-backend.ts and invocation-storage.ts over             *)
(* LinearMemory; backends/webgpu/webgpu-backend.ts): bindings, outputs,    *)
(* the reuse of inputs after their last use, what survives a success, what *)
(* a failure gives back, and when GPU buffers may be destroyed.            *)
(*                                                                         *)
(* A program is met one value at a time, the number of uses still to come  *)
(* (storageUseCounts) and its retainedSlots entry chosen with it; an alias *)
(* is the storage it shares. Execution is synchronous up to submission:    *)
(* nothing else runs between its steps.                                    *)
(***************************************************************************)
EXTENDS LinearMemory

CONSTANTS
    Devices,
    ProgramSizes,         \* byte lengths of the values of programs
    MaxBindings, MaxValues, MaxBuffers, MaxFlights, MaxFaults    \* bounds

\* Allocations are numbered from 1, so that 0 is none.
ASSUME InvocationAssumption ==
    /\ Devices \subseteq {"cpu", "webgpu", "memory"}
    /\ MaxBuffers \in Nat /\ 1..MaxBuffers \subseteq Allocations /\ Allocations \subseteq Nat \ {0}
    /\ ProgramSizes \subseteq Nat

VARIABLES
    device,               \* "cpu", "webgpu", or "memory": linear memory with any other client
    owned,                \* #owned of the GPU: buffer -> byteLength
    contents,             \* ghost: the slot a payload holds; Whole once it is a result
    held,                 \* residents: allocations that materialized values own
    phase,                \* where execute() is
    values,               \* by slot: uses left, retained, resident, allocations entry
    retiring,             \* input occurrences of the computation still to complete
    created, spare,       \* GpuInvocationStorage.created and the pools of #encodeExecution
    queuedWrites,
    flights,              \* GPU executions and readbacks not cleaned up yet, oldest first
    broken,               \* context.poisoned, or the device's #failure
    closed, faults

memoryVars == <<live, fields, cursor, segments, bound, payloadBytes, reservedBytes, pages>>
storeVars == <<memoryVars, owned, contents>>
programVars == <<phase, values, retiring>>
encodeVars == <<created, spare, queuedWrites>>
outerVars == <<device, held, flights, broken, closed, faults>>
allVars == <<storeVars, programVars, encodeVars, outerVars>>

\* No allocation, and no slot of a program.
None == 0
Whole == -1
Cpu == device = "cpu"
Gpu == device = "webgpu"
Existing == IF Gpu THEN DOMAIN owned ELSE live

InitInvocation ==
    /\ Init
    /\ device \in Devices
    /\ owned = <<>> /\ contents = [a \in Allocations |-> None]
    /\ held = {} /\ phase = "idle" /\ values = <<>> /\ retiring = <<>>
    /\ created = {} /\ spare = {} /\ queuedWrites = FALSE
    /\ flights = <<>> /\ broken = FALSE /\ closed = FALSE /\ faults = 0

Fail == faults < MaxFaults /\ faults' = faults + 1

Filled(S, what) == [a \in Allocations |-> IF a \in S THEN what ELSE contents[a]]

\* #owned.add.
WithBuffer(b, n) == [c \in DOMAIN owned \cup {b} |-> IF c = b THEN n ELSE owned[c]]

\* #allocate of the GPU: a buffer that cannot be made fails an error scope later.
Obtain(a, n) ==
    IF Cpu THEN (AllocateFree(a, n) \/ AllocateBump(a, n)) /\ UNCHANGED owned
    ELSE a \notin DOMAIN owned /\ owned' = WithBuffer(a, n) /\ UNCHANGED memoryVars

Return(a) == Release(a) /\ contents' = Filled({a}, None) /\ UNCHANGED owned

Destroy(S) ==
    /\ owned' = Restrict(owned, DOMAIN owned \ S)
    /\ contents' = Filled(S, None)
    /\ UNCHANGED memoryVars

-----------------------------------------------------------------------------
(* Bindings and outputs.                                                   *)

Left == FoldSeq(LAMBDA v, n : v.uses + n, 0, values)

Value(plan, resident, a) ==
    [uses |-> plan[1], retained |-> plan[2], resident |-> resident, at |-> a]

\* Uses to come and retainedSlots: only the result has no use, and an owner.
Plans == {<<0, TRUE>>, <<1, TRUE>>, <<1, FALSE>>, <<2, FALSE>>}
Planned(plan, spent) == plan \in Plans /\ (plan[1] = 0 => Left = spent)

\* An object's name goes back when it is released.
Names == IF device = "memory" THEN Allocations ELSE 1..MaxBuffers
New == {a \in Names \ Existing : \A b \in Names \ Existing : a <= b}

Begin ==
    /\ device # "memory" /\ phase = "idle" /\ ~broken /\ ~closed /\ Len(flights) < MaxFlights
    /\ phase' = "binding"
    /\ UNCHANGED <<storeVars, values, retiring, encodeVars, outerVars>>

Binds(plan, resident, a) ==
    /\ phase = "binding" /\ Len(values) < MaxBindings
    /\ Left > 0 \/ values = <<>>
    /\ Planned(plan, 0)
    /\ values' = Append(values, Value(plan, resident, a))
    /\ UNCHANGED <<phase, retiring, spare, outerVars>>

BindResident(a, plan) ==
    /\ a \in held /\ \A i \in DOMAIN values : values[i].at # a
    /\ plan[1] > 0 /\ Binds(plan, TRUE, a)
    /\ UNCHANGED <<storeVars, created, queuedWrites>>

BindHost(a, n, plan) ==
    /\ a \in New /\ Binds(plan, FALSE, a)
    /\ Obtain(a, n) /\ contents' = Filled({a}, Len(values) + 1)
    /\ created' = IF Cpu THEN {} ELSE created \cup {a}
    /\ queuedWrites' = (queuedWrites \/ (Gpu /\ n > 0))

InputLists ==
    LET used == {i \in DOMAIN values : values[i].uses > 0} IN
    {<<i>> : i \in used}
        \cup {<<p[1], p[2]>> : p \in {q \in used \X used : q[1] = q[2] => values[q[1]].uses > 1}}

Fits(n) == {a \in spare : owned[a] = n}      \* spare is empty on the CPU

\* The output is reserved before the inputs retire; a GPU output may be a spare
\* buffer of its byte length.
Reserve(inputs, a, n, plan) ==
    /\ Planned(plan, Len(inputs))
    /\ IF Fits(n) # {} THEN a \in Fits(n) /\ UNCHANGED <<memoryVars, owned>>
       ELSE a \in New /\ Obtain(a, n)
    /\ spare' = spare \ {a}
    /\ created' = IF Cpu THEN {} ELSE created \cup {a}
    /\ values' = Append(values, Value(plan, FALSE, a))
    /\ retiring' = inputs /\ phase' = "kernel"
    /\ UNCHANGED <<contents, queuedWrites, outerVars>>

\* The memory is full: no entry for the value, and everything rolls back.
Exhausted(n) ==
    /\ Cpu /\ phase \in {"binding", "computing"}
    /\ AllocateFails(n)
    /\ phase' = "rollback"
    /\ UNCHANGED <<owned, contents, values, retiring, encodeVars, outerVars>>

-----------------------------------------------------------------------------
(* Kernels.                                                                *)

Output == values[Len(values)].at

\* On the GPU the kernel is encoded; coefficient, matrix and sum kernels also
\* enqueue a write to a parameter buffer of their own.
Kernel ==
    /\ phase = "kernel" /\ phase' = "retiring"
    /\ contents' = Filled({Output}, Len(values))
    /\ UNCHANGED <<values, retiring, spare, outerVars, memoryVars>>
    /\ \/ UNCHANGED <<owned, created, queuedWrites>>
       \/ \E b \in New :
             /\ Gpu /\ owned[Output] > 0
             /\ owned' = WithBuffer(b, 16)
             /\ created' = created \cup {b} /\ queuedWrites' = TRUE

\* A trap poisons the context, a status does not.
KernelFails ==
    /\ Cpu /\ phase = "kernel" /\ Fail
    /\ phase' = "rollback"
    /\ broken' \in BOOLEAN
    /\ UNCHANGED <<storeVars, values, retiring, encodeVars, device, held, flights, closed>>

\* Mutant of Scratch: residents are protected only where they are retained.
ScratchUnlessRetained(i) == ~values[i].retained

Scratch(i) == ~values[i].retained /\ ~values[i].resident

\* completeInputUse, and its GPU counterpart, which pools the buffer.
CompleteInputUse ==
    LET i == Head(retiring)  a == values[i].at  last == values[i].uses = 1 /\ Scratch(i) IN
    /\ phase = "retiring"
    /\ values' = [values EXCEPT ![i].uses = @ - 1, ![i].at = IF last THEN None ELSE @]
    /\ retiring' = Tail(retiring)
    /\ phase' = IF Len(retiring) = 1 THEN "computing" ELSE phase
    /\ spare' = IF last /\ Gpu THEN spare \cup {a} ELSE spare
    /\ IF last /\ Cpu THEN Return(a) ELSE UNCHANGED storeVars
    /\ UNCHANGED <<created, queuedWrites, outerVars>>

-----------------------------------------------------------------------------
(* The end of the synchronous part.                                        *)

Forget ==
    /\ phase' = "idle" /\ values' = <<>> /\ retiring' = <<>>
    /\ created' = {} /\ spare' = {} /\ queuedWrites' = FALSE

Finished == phase \in {"binding", "computing"} /\ values # <<>> /\ Left = 0

Entries == {values[i].at : i \in DOMAIN values} \ {None}

\* #materialize makes every returned allocation resident.
Publish ==
    /\ Cpu /\ Finished
    /\ held' = held \cup Entries
    /\ contents' = Filled(Entries, Whole)
    /\ Forget
    /\ UNCHANGED <<memoryVars, owned, device, flights, broken, closed, faults>>

Unreturned == {i \in DOMAIN values : values[i].at # None /\ ~values[i].resident}

Rollback ==
    /\ phase = "rollback"
    /\ IF Unreturned = {} THEN Forget /\ UNCHANGED storeVars
       ELSE LET i == Min(Unreturned) IN
            /\ Return(values[i].at)
            /\ values' = [values EXCEPT ![i].at = None]
            /\ UNCHANGED <<phase, retiring, encodeVars>>
    /\ UNCHANGED outerVars

Flight(made, pins, busy, result, drained, mapping) ==
    [created |-> made, pins |-> pins, busy |-> busy,
     result |-> result, drained |-> drained, mapping |-> mapping]

Submit ==
    /\ Gpu /\ Finished
    /\ flights' = Append(flights,
           Flight(created, Entries, created \cup Entries, "pending", "pending", "none"))
    /\ contents' = Filled(Entries, Whole)
    /\ Forget
    /\ UNCHANGED <<memoryVars, owned, device, held, broken, closed, faults>>

OwesDrainOnlyAfterSubmit == FALSE     \* mutant of OwesDrain: only submit() enqueues work

OwesDrain == queuedWrites

\* Encoding throws: writes already enqueued still have to drain.
EncodingFails ==
    /\ Gpu /\ phase \in {"binding", "kernel"} /\ Fail
    /\ flights' = Append(flights,
           Flight(created, Entries, IF queuedWrites THEN created ELSE {}, "failed",
                  IF OwesDrain THEN "pending" ELSE "none", "none"))
    /\ Forget
    /\ UNCHANGED <<storeVars, device, held, broken, closed>>

\* A readback maps a staging buffer of its own.
Read(a, b) ==
    /\ Gpu /\ phase = "idle" /\ ~broken /\ Len(flights) < MaxFlights
    /\ a \in held /\ owned[a] > 0
    /\ Obtain(b, owned[a])
    /\ flights' = Append(flights, Flight({b}, {a}, {a, b}, "pending", "pending", "pending"))
    /\ UNCHANGED <<contents, programVars, encodeVars, device, held, broken, closed, faults>>

-----------------------------------------------------------------------------
(* Completion of GPU work.                                                 *)

Set(k, field, to) == flights' = [flights EXCEPT ![k] = [@ EXCEPT ![field] = to]]

Asynchronous == device = "webgpu" /\ phase = "idle"

\* The device executes its queue in order.
Executes(k) ==
    /\ Asynchronous /\ flights[k].busy # {}
    /\ \A j \in 1..(k - 1) : flights[j].busy = {}
    /\ Set(k, "busy", {})
    /\ UNCHANGED <<storeVars, programVars, encodeVars, device, held, broken, closed, faults>>

Drained(k) ==
    /\ Asynchronous /\ flights[k].drained = "pending" /\ flights[k].busy = {} /\ ~broken
    /\ Set(k, "drained", "done")
    /\ UNCHANGED <<storeVars, programVars, encodeVars, device, held, broken, closed, faults>>

Mapped(k) ==
    /\ Asynchronous /\ flights[k].mapping = "pending" /\ flights[k].busy = {} /\ ~broken
    /\ Set(k, "mapping", "done")
    /\ UNCHANGED <<storeVars, programVars, encodeVars, device, held, broken, closed, faults>>

\* #checked waits for the work and for the error scopes; the result of an
\* execution is published at once.
Succeeds(k) ==
    /\ Asynchronous /\ flights[k].result = "pending" /\ ~broken
    /\ flights[k].drained = "done" /\ flights[k].mapping # "pending"
    /\ Set(k, "result", "done")
    /\ held' = held \cup flights[k].pins
    /\ UNCHANGED <<storeVars, programVars, encodeVars, device, broken, closed, faults>>

\* An error scope rejects the result while the work may still run.
ScopeFails(k) ==
    /\ Asynchronous /\ flights[k].result = "pending" /\ Fail
    /\ Set(k, "result", "failed")
    /\ UNCHANGED <<storeVars, programVars, encodeVars, device, held, broken, closed>>

Ended(state) == IF state = "pending" THEN "failed" ELSE state

\* #retire rejects every waiter; a lost device executes nothing.
DeviceLost ==
    /\ Asynchronous /\ ~broken /\ ~closed /\ Fail
    /\ broken' = TRUE
    /\ flights' = [k \in DOMAIN flights |->
           [flights[k] EXCEPT !.busy = {}, !.result = Ended(@), !.drained = Ended(@),
                              !.mapping = Ended(@)]]
    /\ UNCHANGED <<storeVars, programVars, encodeVars, device, held, closed>>

\* Mutant of Scrap: after a failure what allocations no longer maps is taken for
\* released already.
ScrapStillMapped(f) == IF f.result = "done" THEN f.created \ f.pins ELSE f.created \cap f.pins

Scrap(f) == IF f.result = "done" THEN f.created \ f.pins ELSE f.created

Settled(f) == "pending" \notin {f.result, f.drained, f.mapping}

\* #releaseInvocation, #releaseReadback; the request retires with it.
CleanUp(k) ==
    /\ Asynchronous /\ Settled(flights[k])
    /\ Destroy(Scrap(flights[k]))
    /\ flights' = RemoveAt(flights, k)
    /\ UNCHANGED <<programVars, encodeVars, device, held, broken, closed, faults>>

\* The runtime releases a resident once no request pins it.
ReleaseResident(a) ==
    /\ phase = "idle" /\ a \in held
    /\ \A k \in DOMAIN flights : a \notin flights[k].pins
    /\ held' = held \ {a}
    /\ IF Cpu THEN Return(a) ELSE Destroy({a})
    /\ UNCHANGED <<programVars, encodeVars, device, flights, broken, closed, faults>>

\* The session has joined its requests and released its values.
Close ==
    /\ device # "memory" /\ phase = "idle" /\ flights = <<>> /\ held = {} /\ ~closed
    /\ closed' = TRUE
    /\ IF Cpu THEN UNCHANGED storeVars ELSE Destroy(DOMAIN owned)
    /\ UNCHANGED <<programVars, encodeVars, device, held, flights, broken, faults>>

-----------------------------------------------------------------------------
ExecuteStep ==
    \/ Begin \/ Kernel \/ KernelFails \/ CompleteInputUse
    \/ Publish \/ Rollback \/ Submit \/ EncodingFails
    \/ phase = "binding" /\ \E plan \in Plans :
          \/ \E a \in New, n \in ProgramSizes : BindHost(a, n, plan)
          \/ \E a \in held : BindResident(a, plan)
    \/ phase \in {"binding", "computing"} /\ Len(values) < MaxValues /\
          \E inputs \in InputLists, a \in New \cup spare, n \in ProgramSizes, plan \in Plans :
             Reserve(inputs, a, n, plan)
    \/ \E n \in ProgramSizes : Exhausted(n)

DeviceStep ==
    \/ \E k \in DOMAIN flights :
          Executes(k) \/ Drained(k) \/ Mapped(k) \/ Succeeds(k) \/ ScopeFails(k) \/ CleanUp(k)
    \/ DeviceLost

RuntimeStep ==
    \/ \E a \in held : ReleaseResident(a)
    \/ \E a \in held, b \in New : Read(a, b)
    \/ Close

\* Allocations of any size, released in any order.
MemoryStep ==
    /\ device = "memory"
    /\ \/ \E a \in New, n \in Sizes : AllocateFree(a, n) \/ AllocateBump(a, n)
       \/ \E n \in Sizes : AllocateFails(n)
       \/ \E a \in live : Release(a)
    /\ UNCHANGED <<owned, contents, programVars, encodeVars, outerVars>>

NextInvocation == MemoryStep \/ ExecuteStep \/ DeviceStep \/ RuntimeStep

SpecInvocation == InitInvocation /\ [][NextInvocation]_allVars

-----------------------------------------------------------------------------
(* Properties.                                                             *)

\* Every value a later computation, an owner or another program needs is in a
\* buffer of its own that still holds it: no output takes a retained or resident
\* payload, or that of an input before its last use.
NeededValuesAreIntact ==
    /\ phase \in {"computing", "kernel", "retiring"} =>
          \A i \in DOMAIN values :
             LET v == values[i] IN
             (v.uses > 0 \/ ~Scratch(i)) /\ ~(phase = "kernel" /\ i = Len(values)) =>
                /\ v.at \in Existing
                /\ contents[v.at] = IF v.resident THEN Whole ELSE i
                /\ \A j \in DOMAIN values \ {i} : values[j].at # v.at
    /\ \A a \in held : a \in Existing /\ contents[a] = Whole
    /\ \A k \in DOMAIN flights : flights[k].result = "pending" =>
          \A a \in flights[k].pins : a \in Existing /\ contents[a] = Whole

\* Between invocations only residents and the buffers of unfinished work exist,
\* after failures of any step and in any order.
NothingLeaks ==
    device # "memory" /\ phase = "idle" =>
        Existing = held \cup UNION {flights[k].created : k \in DOMAIN flights}

\* A step destroys no buffer that the device may still read or write, or that
\* is being mapped.
InUse ==
    (UNION {flights[k].busy : k \in DOMAIN flights})
        \cup (UNION {flights[k].created : k \in {j \in DOMAIN flights : flights[j].mapping = "pending"}})
BuffersOutliveTheirWork == [][InUse \cap (DOMAIN owned \ DOMAIN owned') = {}]_allVars
=============================================================================
