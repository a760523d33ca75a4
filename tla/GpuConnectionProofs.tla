-------------------------- MODULE GpuConnectionProofs --------------------------
(***************************************************************************)
(* Machine-checked proofs about GpuConnection, for any number of requests  *)
(* and faults. The idea: the phase of a request bounds what its device     *)
(* work and its header words can be, and once somebody has vouched for a   *)
(* clean end the worker is Quiet - no device work runs and none can start, *)
(* because a closing service refuses what it did not already join.         *)
(***************************************************************************)
EXTENDS GpuConnection, SequenceTheorems, TLAPS

\* Where a request is decides what its device work and its header may be.
HeaderOf(r) ==
    /\ phase[r] \in {"none", "posted", "preparing"} => physical[r] = "none"
    /\ phase[r] \in {"succeeding", "storing", "done"} => physical[r] # "running"
    /\ status[r] = "failure" => phase[r] \in {"draining", "done"}
    /\ status[r] = "success" => phase[r] = "done" /\ drainStored[r]
    /\ drainStored[r] => phase[r] \in {"storing", "done"}
    /\ phase[r] = "storing" => drainStored[r]

\* A message of the client is the first the worker hears of its request.
Transit ==
    /\ \A r \in Requests : r > sent => phase[r] = "none"
    /\ \A i \in 1..Len(port) : port[i] # 0 => phase[port[i]] = "posted"
    /\ \A i, j \in 1..Len(port) : i # j /\ port[i] # 0 => port[i] # port[j]

\* A closing worker joins every run that has or may still start device work.
Active(r) == phase[r] \in {"preparing", "running"} \/ physical[r] = "running"
Joined == closing # "no" => \A r \in Requests : Active(r) => r \in joining

\* No device work runs, and none will.
Quiet == closing # "no" /\ \A r \in Requests : ~Active(r)

\* Everybody who vouches for a clean end, or has been told of one.
CleanEnd ==
    \/ accounted = 1 \/ closing = "accounted" \/ cleanup = "resolved" \/ left = "clean"
    \/ \E i \in 1..Len(toHost) : toHost[i] = "closed"

\* The inspection in progress: what the client has loaded is still true.
Inspection ==
    /\ job = "submit" => sent < MaxRequests
    /\ at \in {"load", "wait"} => job = "read"
    /\ at = "asleep" => job \in {"read", "close"}
    /\ at \in {"accounted", "loadAccounted", "recheck"} => job = "close"
    /\ at \in {"status", "active", "drain"} \/ job = "read" => cursor \in Requests
    /\ at = "active" => outcome[cursor] = "pending"
    /\ at = "active" /\ seen = "success" => status[cursor] = "success"
    /\ job = "close" /\ at \in {"next", "status", "active", "drain"} => accounted # 0

RetirementOf(r) ==
    /\ retirements[r] = 1 => outcome[r] # "pending" /\ IsDrained(r)
    /\ outcome[r] = "value" =>
        /\ status[r] = "success"
        /\ retirements[r] = 1 \/ (at = "drain" /\ cursor = r)

IInv ==
    /\ TypeOK /\ Transit /\ Joined /\ Inspection
    /\ CleanEnd => Quiet
    /\ \A r \in Requests : HeaderOf(r) /\ RetirementOf(r)

-----------------------------------------------------------------------------
(* Helpers of several actions.                                             *)

\* The close of the worker joins whatever could still start device work.
LEMMA CallCloseJoins ==
    ASSUME IInv, CallClose, UNCHANGED <<phase, physical>>
    PROVE  /\ Joined' /\ closing' # "no"
           /\ closing' \in {"joining", closing} /\ joining' \in SUBSET Requests
<1>1. \A r \in Requests : Active(r) => phase[r] \notin {"none", "posted", "done"}
    BY DEF IInv, HeaderOf, Active
<1>2. CASE closing = "no"
    BY <1>1, <1>2 DEF CallClose, Joined, Active
<1>3. CASE closing # "no"
    BY <1>3 DEF CallClose, IInv, TypeOK, Joined, Active
<1> QED BY <1>2, <1>3

\* A message of the worker to the host.
LEMMA ToHostAppend ==
    ASSUME TypeOK, NEW m \in {"ready", "failure", "closed", "lost"}, toHost' = Append(toHost, m)
    PROVE  /\ toHost' \in Seq({"ready", "failure", "closed", "lost"})
           /\ (\E i \in 1..Len(toHost') : toHost'[i] = "closed") =>
                  m = "closed" \/ \E i \in 1..Len(toHost) : toHost[i] = "closed"
BY AppendProperties DEF TypeOK

\* A message taken from the host's port leaves the others as they were.
LEMMA ToHostTail ==
    ASSUME TypeOK, toHost # <<>>, toHost' = Tail(toHost)
    PROVE  /\ toHost' \in Seq({"ready", "failure", "closed", "lost"})
           /\ Head(toHost) \in {"ready", "failure", "closed", "lost"}
           /\ Len(toHost) \in Nat /\ 1 \in 1..Len(toHost) /\ Head(toHost) = toHost[1]
           /\ (\E i \in 1..Len(toHost') : toHost'[i] = "closed") =>
                  \E i \in 1..Len(toHost) : toHost[i] = "closed"
<1>1. /\ toHost' \in Seq({"ready", "failure", "closed", "lost"})
      /\ Len(toHost') = Len(toHost) - 1 /\ Len(toHost) \in Nat /\ Len(toHost) # 0
      /\ \A i \in 1..Len(toHost') : toHost'[i] = toHost[i + 1]
      /\ Head(toHost) = toHost[1]
      /\ Head(toHost) \in {"ready", "failure", "closed", "lost"}
    BY HeadTailProperties, EmptySeq DEF TypeOK
<1>2. \A i \in 1..Len(toHost') : i + 1 \in 1..Len(toHost)
    BY <1>1
<1> QED BY <1>1, <1>2

\* The worker takes the oldest message of the client.
LEMMA PortTail ==
    ASSUME TypeOK, Transit, port # <<>>, port' = Tail(port), UNCHANGED sent,
           \A x \in Requests : x # Head(port) => phase'[x] = phase[x]
    PROVE  /\ Head(port) \in 0..MaxRequests /\ port' \in Seq(0..MaxRequests) /\ Transit'
           /\ Head(port) # 0 => Head(port) \in Requests /\ phase[Head(port)] = "posted"
<1>1. /\ port' \in Seq(0..MaxRequests) /\ Head(port) = port[1] /\ Head(port) \in 0..MaxRequests
      /\ Len(port') = Len(port) - 1 /\ Len(port) \in Nat /\ Len(port) # 0
      /\ \A i \in 1..Len(port') : port'[i] = port[i + 1] /\ port'[i] \in 0..MaxRequests
    <2>1. /\ port' \in Seq(0..MaxRequests) /\ Head(port) \in 0..MaxRequests
          /\ Len(port') = Len(port) - 1 /\ \A i \in 1..Len(port') : port'[i] = port[i + 1]
        <3>1. port \in Seq(0..MaxRequests)
            BY DEF TypeOK
        <3> QED BY <3>1, HeadTailProperties
    <2>4. Head(port) = port[1] /\ Len(port) \in Nat
        BY DEF TypeOK
    <2>2. Len(port) # 0
        BY EmptySeq DEF TypeOK
    <2>3. \A i \in 1..Len(port') : port'[i] \in 0..MaxRequests
        BY <2>1, ElementOfSeq
    <2> QED BY <2>1, <2>2, <2>3, <2>4
<1>2. Head(port) # 0 => Head(port) \in Requests /\ phase[Head(port)] = "posted"
    BY <1>1, RequestBoundAssumption DEF Transit, Requests
<1>3. \A i \in 1..Len(port') : i + 1 \in 1..Len(port) /\ i + 1 # 1
    BY <1>1
<1>4. \A i \in 1..Len(port') : port'[i] # 0 =>
          port'[i] # Head(port) /\ port'[i] \in Requests /\ phase[port'[i]] = "posted"
    BY <1>1, <1>3, RequestBoundAssumption DEF Transit, Requests
<1>5. \A x \in Requests : x > sent' => phase'[x] = "none"
    BY <1>2 DEF Transit, Requests
<1>6. \A i, j \in 1..Len(port') : i # j /\ port'[i] # 0 => port'[i] # port'[j]
    BY <1>1, <1>3 DEF Transit
<1> QED BY <1>1, <1>2, <1>4, <1>5, <1>6 DEF Transit

\* A request that has been delivered moves on; the messages under way do not.
LEMMA TransitFrame ==
    ASSUME TypeOK, Transit, UNCHANGED <<sent, port>>, NEW r \in Requests,
           phase[r] \notin {"none", "posted"},
           \A x \in Requests : x # r => phase'[x] = phase[x]
    PROVE  Transit'
<1>1. \A x \in Requests : x > sent => x # r
    BY DEF Transit
<1>2. \A i \in 1..Len(port) : port[i] # 0 => port[i] # r /\ port[i] \in Requests
    <2>1. \A i \in 1..Len(port) : port[i] \in 0..MaxRequests
        BY ElementOfSeq DEF TypeOK
    <2> QED BY <2>1, RequestBoundAssumption DEF Transit, Requests
<1> QED BY <1>1, <1>2 DEF Transit

\* The client posts a message: the number of a new request, or 0 for "close".
LEMMA PortAppend ==
    ASSUME TypeOK, Transit, NEW m \in 0..MaxRequests, port' = Append(port, m),
           sent' \in Nat, sent <= sent',
           \A x \in Requests : x # m => phase'[x] = phase[x],
           m # 0 => phase[m] = "none" /\ phase'[m] = "posted" /\ m <= sent'
    PROVE  port' \in Seq(0..MaxRequests) /\ Transit'
<1>1. /\ port' \in Seq(0..MaxRequests) /\ Len(port') = Len(port) + 1 /\ Len(port) \in Nat
      /\ \A i \in 1..Len(port) : port'[i] = port[i] /\ port[i] \in 0..MaxRequests
      /\ port'[Len(port) + 1] = m
    <2>1. /\ port' \in Seq(0..MaxRequests) /\ Len(port') = Len(port) + 1 /\ Len(port) \in Nat
          /\ \A i \in 1..Len(port) : port'[i] = port[i]
          /\ port'[Len(port) + 1] = m
        BY AppendProperties DEF TypeOK
    <2>2. \A i \in 1..Len(port) : port[i] \in 0..MaxRequests
        BY ElementOfSeq DEF TypeOK
    <2> QED BY <2>1, <2>2
<1>2. \A i \in 1..Len(port') : i \in 1..Len(port) \/ i = Len(port) + 1
    BY <1>1
<1>3. \A i \in 1..Len(port) : port[i] # 0 =>
          port[i] \in Requests /\ port[i] # m /\ phase'[port[i]] = "posted"
    BY <1>1, RequestBoundAssumption DEF Transit, Requests
<1>4. \A i \in 1..Len(port') : port'[i] # 0 => phase'[port'[i]] = "posted"
    BY <1>1, <1>2, <1>3
<1>5. \A i, j \in 1..Len(port') : i # j /\ port'[i] # 0 => port'[i] # port'[j]
    BY <1>1, <1>2, <1>3 DEF Transit
<1>6. \A x \in Requests : x > sent' => phase'[x] = "none"
    BY RequestBoundAssumption DEF Transit, TypeOK, Requests
<1> QED BY <1>1, <1>4, <1>5, <1>6 DEF Transit

-----------------------------------------------------------------------------
(* The physical worker.                                                    *)

LEMMA DeliverKeeps ==
    ASSUME IInv, Deliver
    PROVE  IInv'
<1> PICK m : m = Head(port)
    OBVIOUS
<1>1. /\ TypeOK /\ Transit /\ Joined /\ Inspection /\ (CleanEnd => Quiet)
      /\ \A x \in Requests : HeaderOf(x) /\ RetirementOf(x)
    BY DEF IInv
<1>2. /\ UNCHANGED <<generation, accounted, status, drainStored, fresh, waking, alive, acquired>>
      /\ UNCHANGED <<portOpen, setup, hostClosing, host, cleanup, toHost, closeSent, failed, faults>>
      /\ UNCHANGED <<job, at, cursor, seen, outcome, retirements, sent, left, hint>>
      /\ port # <<>> /\ port' = Tail(port)
    BY DEF Deliver, control, header, pulse, hostVars, messages, faultVars, client
<1>3. CASE m = 0
    <2>1. CallClose /\ UNCHANGED <<phase, physical>>
        BY <1>3 DEF Deliver
    <2>2. /\ Joined' /\ closing' # "no"
          /\ closing' \in {"joining", closing} /\ joining' \in SUBSET Requests
        BY <2>1, CallCloseJoins
    <2>3. Transit' /\ port' \in Seq(0..MaxRequests)
        BY <1>1, <1>2, <2>1, PortTail
    <2>4. TypeOK'
        BY <1>1, <1>2, <2>1, <2>2, <2>3 DEF TypeOK
    <2>5. Inspection' /\ \A x \in Requests : HeaderOf(x)' /\ RetirementOf(x)'
        BY <1>1, <1>2, <2>1 DEF Inspection, HeaderOf, RetirementOf, IsDrained
    <2>6. CleanEnd' => Quiet'
        BY <1>1, <1>2, <2>1, <2>2 DEF CleanEnd, Quiet, Active
    <2> QED BY <2>2, <2>3, <2>4, <2>5, <2>6 DEF IInv
<1>4. CASE m # 0
    <2>1. UNCHANGED <<closing, joining>>
        BY <1>4 DEF Deliver
    <2>2. PICK to \in {"failing", "preparing", "running"}, p \in {"none", "running", "ended"} :
            /\ phase' = [phase EXCEPT ![m] = to]
            /\ to = "failing" => UNCHANGED physical
            /\ to # "failing" => closing = "no"
            /\ to = "preparing" => UNCHANGED physical
            /\ to = "running" => physical' = [physical EXCEPT ![m] = p]
        BY <1>4 DEF Deliver, Move
    <2>3. /\ m \in Requests /\ phase[m] = "posted"
          /\ Transit' /\ port' \in Seq(0..MaxRequests)
        <3>1. \A x \in Requests : x # Head(port) => phase'[x] = phase[x]
            BY <1>1, <2>2 DEF TypeOK
        <3> QED BY <1>1, <1>2, <1>4, <3>1, PortTail
    <2>4. TypeOK'
        <3>1. /\ phase' \in [Requests -> {"none", "posted", "preparing", "running", "succeeding",
                                          "storing", "failing", "draining", "done"}]
              /\ physical' \in [Requests -> {"none", "running", "ended"}]
            BY <1>1, <2>2, <2>3 DEF TypeOK
        <3> QED BY <1>1, <1>2, <2>1, <2>3, <3>1 DEF TypeOK
    <2>5. phase'[m] = to /\ \A x \in Requests : x # m => phase'[x] = phase[x] /\ physical'[x] = physical[x]
        BY <1>1, <2>2, <2>3 DEF TypeOK
    <2>6. to # "running" => physical'[m] = "none"
        BY <1>1, <2>2, <2>3 DEF HeaderOf
    <2>7. \A x \in Requests : HeaderOf(x)'
        BY <1>1, <1>2, <2>3, <2>5, <2>6 DEF HeaderOf
    <2>8. Inspection' /\ \A x \in Requests : RetirementOf(x)'
        BY <1>1, <1>2 DEF Inspection, RetirementOf, IsDrained
    <2>9. closing # "no" => to = "failing"
        BY <2>2
    <2>10. Joined' /\ (CleanEnd' => Quiet')
        <3>1. closing # "no" => \A x \in Requests : Active(x)' => Active(x)
            BY <2>5, <2>6, <2>9 DEF Active
        <3> QED BY <1>1, <1>2, <2>1, <3>1 DEF CleanEnd, Quiet, Joined
    <2> QED BY <2>3, <2>4, <2>7, <2>8, <2>10 DEF IInv
<1> QED BY <1>3, <1>4

\* A prepared request may only start device work while nobody closes.
LEMMA PreparedKeeps ==
    ASSUME IInv, NEW r \in Requests, Prepared(r)
    PROVE  IInv'
<1> USE DEF control, header, pulse, worker, ports, hostVars, messages, faultVars, client, Prepared, WorkerFree, Move
<1>1. /\ TypeOK /\ Transit /\ Joined /\ Inspection /\ (CleanEnd => Quiet)
      /\ \A x \in Requests : HeaderOf(x) /\ RetirementOf(x)
    BY DEF IInv
<1>2. TypeOK'
    <2>1. phase' \in [Requests -> {"none", "posted", "preparing", "running", "succeeding",
                                          "storing", "failing", "draining", "done"}]
        BY <1>1, RequestBoundAssumption, FaultBoundAssumption DEF TypeOK, Requests
    <2>2. physical' \in [Requests -> {"none", "running", "ended"}]
        BY <1>1, RequestBoundAssumption, FaultBoundAssumption DEF TypeOK, Requests
    <2> QED BY <1>1, <2>1, <2>2 DEF TypeOK
<1>3. Transit' /\ Joined' /\ \A x \in Requests : HeaderOf(x)'
    <2>1. phase[r] = "preparing" /\ phase'[r] \in {"failing", "running"}
        BY <1>1 DEF TypeOK
    <2>2. \A x \in Requests : x # r => phase'[x] = phase[x] /\ physical'[x] = physical[x]
        BY <1>1 DEF TypeOK
    <2>3. /\ phase'[r] = "failing" => physical'[r] = physical[r]
          /\ UNCHANGED <<sent, port, closing, joining, status, drainStored>>
        BY <1>1 DEF TypeOK
    <2>4. Transit'
        BY <1>1, <2>1, <2>2, <2>3, TransitFrame
    <2>5. \A x \in Requests : HeaderOf(x)'
        BY <1>1, <2>1, <2>2, <2>3 DEF HeaderOf
    <2>6. Joined'
        BY <1>1, <2>1, <2>2, <2>3 DEF Joined, Active
    <2> QED BY <2>4, <2>5, <2>6
<1>4. Inspection' /\ \A x \in Requests : RetirementOf(x)'
    BY <1>1 DEF TypeOK, Inspection, HeaderOf, RetirementOf, IsDrained
<1>5. CleanEnd' => Quiet'
    BY <1>1 DEF TypeOK, CleanEnd, Quiet, Active, Joined, HeaderOf, Inspection
<1> QED BY <1>2, <1>3, <1>4, <1>5 DEF IInv

\* Device work that ends makes nothing active.
LEMMA PhysicalEndsKeeps ==
    ASSUME IInv, NEW r \in Requests, PhysicalEnds(r)
    PROVE  IInv'
<1> USE DEF control, header, pulse, worker, ports, hostVars, messages, faultVars, client, PhysicalEnds
<1>1. /\ TypeOK /\ Transit /\ Joined /\ Inspection /\ (CleanEnd => Quiet)
      /\ \A x \in Requests : HeaderOf(x) /\ RetirementOf(x)
    BY DEF IInv
<1>2. TypeOK'
    BY <1>1, RequestBoundAssumption, FaultBoundAssumption DEF TypeOK, Requests
<1>3. Transit' /\ Joined' /\ \A x \in Requests : HeaderOf(x)'
    BY <1>1 DEF TypeOK, Transit, Joined, Active, HeaderOf
<1>4. Inspection' /\ \A x \in Requests : RetirementOf(x)'
    BY <1>1 DEF TypeOK, Inspection, HeaderOf, RetirementOf, IsDrained
<1>5. CleanEnd' => Quiet'
    BY <1>1 DEF TypeOK, CleanEnd, Quiet, Active, Joined, HeaderOf, Inspection
<1> QED BY <1>2, <1>3, <1>4, <1>5 DEF IInv

\* A run that ended moves on to its answer.
LEMMA AnswerKeeps ==
    ASSUME IInv, NEW r \in Requests, Answer(r)
    PROVE  IInv'
<1> USE DEF control, header, pulse, worker, ports, hostVars, messages, faultVars, client, Answer, WorkerFree, Move
<1>1. /\ TypeOK /\ Transit /\ Joined /\ Inspection /\ (CleanEnd => Quiet)
      /\ \A x \in Requests : HeaderOf(x) /\ RetirementOf(x)
    BY DEF IInv
<1>2. TypeOK'
    <2>1. phase' \in [Requests -> {"none", "posted", "preparing", "running", "succeeding",
                                          "storing", "failing", "draining", "done"}]
        BY <1>1, RequestBoundAssumption, FaultBoundAssumption DEF TypeOK, Requests
    <2> QED BY <1>1, <2>1 DEF TypeOK
<1>3. Transit' /\ Joined' /\ \A x \in Requests : HeaderOf(x)'
    <2>1. phase[r] = "running" /\ phase'[r] \in {"failing", "succeeding"}
        BY <1>1 DEF TypeOK
    <2>2. \A x \in Requests : x # r => phase'[x] = phase[x]
        BY <1>1 DEF TypeOK
    <2>3. phase'[r] = "succeeding" => physical[r] = "ended"
        BY <1>1 DEF TypeOK
    <2>4. Transit'
        BY <1>1, <2>1, <2>2, TransitFrame
    <2>5. \A x \in Requests : HeaderOf(x)'
        BY <1>1, <2>1, <2>2, <2>3 DEF HeaderOf
    <2>6. Joined'
        BY <1>1, <2>1, <2>2 DEF Joined, Active
    <2> QED BY <2>4, <2>5, <2>6
<1>4. Inspection' /\ \A x \in Requests : RetirementOf(x)'
    BY <1>1 DEF TypeOK, Inspection, HeaderOf, RetirementOf, IsDrained
<1>5. CleanEnd' => Quiet'
    BY <1>1 DEF TypeOK, CleanEnd, Quiet, Active, Joined, HeaderOf, Inspection
<1> QED BY <1>2, <1>3, <1>4, <1>5 DEF IInv

\* The drained word is stored before the status that success rests on.
LEMMA StoreDrainedFirstKeeps ==
    ASSUME IInv, NEW r \in Requests, StoreDrainedFirst(r)
    PROVE  IInv'
<1> USE DEF control, header, pulse, worker, ports, hostVars, messages, faultVars, client, StoreDrainedFirst, Move
<1>1. /\ TypeOK /\ Transit /\ Joined /\ Inspection /\ (CleanEnd => Quiet)
      /\ \A x \in Requests : HeaderOf(x) /\ RetirementOf(x)
    BY DEF IInv
<1>2. TypeOK'
    BY <1>1, RequestBoundAssumption, FaultBoundAssumption DEF TypeOK, Requests
<1>3. Transit' /\ Joined' /\ \A x \in Requests : HeaderOf(x)'
    BY <1>1 DEF TypeOK, Transit, Joined, Active, HeaderOf
<1>4. Inspection' /\ \A x \in Requests : RetirementOf(x)'
    BY <1>1 DEF TypeOK, Inspection, HeaderOf, RetirementOf, IsDrained
<1>5. CleanEnd' => Quiet'
    BY <1>1 DEF TypeOK, CleanEnd, Quiet, Active, Joined, HeaderOf, Inspection
<1> QED BY <1>2, <1>3, <1>4, <1>5 DEF IInv

\* Success is published behind the drained word.
LEMMA StoreSuccessKeeps ==
    ASSUME IInv, NEW r \in Requests, StoreSuccess(r)
    PROVE  IInv'
<1> USE DEF control, header, pulse, worker, ports, hostVars, messages, faultVars, client, StoreSuccess, Move
<1>1. /\ TypeOK /\ Transit /\ Joined /\ Inspection /\ (CleanEnd => Quiet)
      /\ \A x \in Requests : HeaderOf(x) /\ RetirementOf(x)
    BY DEF IInv
<1>2. TypeOK'
    BY <1>1, RequestBoundAssumption, FaultBoundAssumption DEF TypeOK, Requests
<1>3. Transit' /\ Joined' /\ \A x \in Requests : HeaderOf(x)'
    BY <1>1 DEF TypeOK, Transit, Joined, Active, HeaderOf
<1>4. Inspection' /\ \A x \in Requests : RetirementOf(x)'
    BY <1>1 DEF TypeOK, Inspection, HeaderOf, RetirementOf, IsDrained
<1>5. CleanEnd' => Quiet'
    BY <1>1 DEF TypeOK, CleanEnd, Quiet, Active, Joined, HeaderOf, Inspection
<1> QED BY <1>2, <1>3, <1>4, <1>5 DEF IInv

\* A failure is published while the device work may still run.
LEMMA StoreFailureKeeps ==
    ASSUME IInv, NEW r \in Requests, StoreFailure(r)
    PROVE  IInv'
<1> USE DEF control, header, pulse, worker, ports, hostVars, messages, faultVars, client, StoreFailure, Move
<1>1. /\ TypeOK /\ Transit /\ Joined /\ Inspection /\ (CleanEnd => Quiet)
      /\ \A x \in Requests : HeaderOf(x) /\ RetirementOf(x)
    BY DEF IInv
<1>2. TypeOK'
    BY <1>1, RequestBoundAssumption, FaultBoundAssumption DEF TypeOK, Requests
<1>3. Transit' /\ Joined' /\ \A x \in Requests : HeaderOf(x)'
    BY <1>1 DEF TypeOK, Transit, Joined, Active, HeaderOf
<1>4. Inspection' /\ \A x \in Requests : RetirementOf(x)'
    BY <1>1 DEF TypeOK, Inspection, HeaderOf, RetirementOf, IsDrained
<1>5. CleanEnd' => Quiet'
    BY <1>1 DEF TypeOK, CleanEnd, Quiet, Active, Joined, HeaderOf, Inspection
<1> QED BY <1>2, <1>3, <1>4, <1>5 DEF IInv

\* The drained word of a failed request waits for its device work.
LEMMA StoreDrainKeeps ==
    ASSUME IInv, NEW r \in Requests, StoreDrain(r)
    PROVE  IInv'
<1> USE DEF control, header, pulse, worker, ports, hostVars, messages, faultVars, client, StoreDrain, Move, WorkerFree
<1>1. /\ TypeOK /\ Transit /\ Joined /\ Inspection /\ (CleanEnd => Quiet)
      /\ \A x \in Requests : HeaderOf(x) /\ RetirementOf(x)
    BY DEF IInv
<1>2. TypeOK'
    BY <1>1, RequestBoundAssumption, FaultBoundAssumption DEF TypeOK, Requests
<1>3. Transit' /\ Joined' /\ \A x \in Requests : HeaderOf(x)'
    BY <1>1 DEF TypeOK, Transit, Joined, Active, HeaderOf
<1>4. Inspection' /\ \A x \in Requests : RetirementOf(x)'
    BY <1>1 DEF TypeOK, Inspection, HeaderOf, RetirementOf, IsDrained
<1>5. CleanEnd' => Quiet'
    BY <1>1 DEF TypeOK, CleanEnd, Quiet, Active, Joined, HeaderOf, Inspection
<1> QED BY <1>2, <1>3, <1>4, <1>5 DEF IInv

\* The device is acquired before any request has started.
LEMMA AcquireKeeps ==
    ASSUME IInv, Acquire
    PROVE  IInv'
<1> USE DEF control, header, pulse, worker, ports, hostVars, messages, faultVars, client, Acquire, WorkerFree
<1>1. /\ TypeOK /\ Transit /\ Joined /\ Inspection /\ (CleanEnd => Quiet)
      /\ \A x \in Requests : HeaderOf(x) /\ RetirementOf(x)
    BY DEF IInv
<1>2. TypeOK'
    <2>1. toHost' \in Seq({"ready", "failure", "closed", "lost"})
        BY <1>1, ToHostAppend
    <2>2. closing' \in {"no", "joining", "accounted", "done"}
        BY <1>1, CallCloseJoins DEF TypeOK
    <2>3. joining' \in SUBSET Requests
        BY <1>1, CallCloseJoins DEF TypeOK
    <2> QED BY <1>1, <2>1, <2>2, <2>3 DEF TypeOK
<1>3. Transit' /\ Joined' /\ \A x \in Requests : HeaderOf(x)'
    <2>1. Transit' /\ \A x \in Requests : HeaderOf(x)'
        BY <1>1 DEF Transit, HeaderOf
    <2>2. Joined'
        BY <1>1, CallCloseJoins DEF Joined, Active
    <2> QED BY <2>1, <2>2
<1>4. Inspection' /\ \A x \in Requests : RetirementOf(x)'
    BY <1>1 DEF TypeOK, Inspection, HeaderOf, RetirementOf, IsDrained
<1>5. CleanEnd' => Quiet'
    <2>1. (\E i \in 1..Len(toHost') : toHost'[i] = "closed") =>
            \E i \in 1..Len(toHost) : toHost[i] = "closed"
        <3>1. CASE toHost' = Append(toHost, "ready")
            BY <1>1, <3>1, ToHostAppend
        <3>2. CASE toHost' = Append(toHost, "failure")
            BY <1>1, <3>2, ToHostAppend
        <3> QED BY <3>1, <3>2
    <2> QED BY <1>1, <2>1, CallCloseJoins DEF CleanEnd, Quiet, Active
<1> QED BY <1>2, <1>3, <1>4, <1>5 DEF IInv

\* A lost device starts the close, which joins what is active.
LEMMA LoseDeviceKeeps ==
    ASSUME IInv, LoseDevice
    PROVE  IInv'
<1> USE DEF control, header, pulse, worker, ports, hostVars, messages, faultVars, client, LoseDevice, WorkerFree, Fault, Retire, CallClose
<1>1. /\ TypeOK /\ Transit /\ Joined /\ Inspection /\ (CleanEnd => Quiet)
      /\ \A x \in Requests : HeaderOf(x) /\ RetirementOf(x)
    BY DEF IInv
<1>2. TypeOK'
    BY <1>1, RequestBoundAssumption, FaultBoundAssumption DEF TypeOK, Requests
<1>3. Transit' /\ Joined' /\ \A x \in Requests : HeaderOf(x)'
    <2>1. Transit' /\ \A x \in Requests : HeaderOf(x)'
        BY <1>1 DEF TypeOK, Transit, HeaderOf
    <2>2. Joined'
        <3>1. \A x \in Requests : Active(x)' => phase[x] \in {"preparing", "running"}
            BY <1>1 DEF TypeOK, Active
        <3>2. joining' = {x \in Requests : phase[x] \notin {"none", "posted", "done"}}
            OBVIOUS
        <3> QED BY <3>1, <3>2 DEF Joined
    <2> QED BY <2>1, <2>2
<1>4. Inspection' /\ \A x \in Requests : RetirementOf(x)'
    BY <1>1 DEF TypeOK, Inspection, HeaderOf, RetirementOf, IsDrained
<1>5. CleanEnd' => Quiet'
    BY <1>1 DEF TypeOK, CleanEnd, Quiet, Active, Joined, HeaderOf, Inspection
<1> QED BY <1>2, <1>3, <1>4, <1>5 DEF IInv

\* A close request of the host starts the close, which joins what is active.
LEMMA ReceiveCloseKeeps ==
    ASSUME IInv, ReceiveClose
    PROVE  IInv'
<1> USE DEF control, header, pulse, worker, ports, hostVars, messages, faultVars, client, ReceiveClose, WorkerFree, Retire
<1>1. /\ TypeOK /\ Transit /\ Joined /\ Inspection /\ (CleanEnd => Quiet)
      /\ \A x \in Requests : HeaderOf(x) /\ RetirementOf(x)
    BY DEF IInv
<1>2. TypeOK'
    <2>1. generation' \in 0..1
        BY <1>1, RequestBoundAssumption, FaultBoundAssumption DEF TypeOK, Requests
    <2>2. waking' \subseteq {"worker", "host"}
        BY <1>1, RequestBoundAssumption, FaultBoundAssumption DEF TypeOK, Requests
    <2>3. closeSent' \in BOOLEAN
        BY <1>1, RequestBoundAssumption, FaultBoundAssumption DEF TypeOK, Requests
    <2>4. closing' \in {"no", "joining", "accounted", "done"}
        BY <1>1, CallCloseJoins DEF TypeOK
    <2>5. joining' \in SUBSET Requests
        BY <1>1, CallCloseJoins DEF TypeOK
    <2> QED BY <1>1, <2>1, <2>2, <2>3, <2>4, <2>5 DEF TypeOK
<1>3. Transit' /\ Joined' /\ \A x \in Requests : HeaderOf(x)'
    <2>1. Transit' /\ \A x \in Requests : HeaderOf(x)'
        BY <1>1 DEF Transit, HeaderOf
    <2>2. Joined'
        BY CallCloseJoins
    <2> QED BY <2>1, <2>2
<1>4. Inspection' /\ \A x \in Requests : RetirementOf(x)'
    BY <1>1 DEF TypeOK, Inspection, HeaderOf, RetirementOf, IsDrained
<1>5. CleanEnd' => Quiet'
    BY <1>1, CallCloseJoins DEF CleanEnd, Quiet, Active
<1> QED BY <1>2, <1>3, <1>4, <1>5 DEF IInv

\* The account is given when everything joined has ended: the worker is Quiet.
LEMMA AccountKeeps ==
    ASSUME IInv, Account
    PROVE  IInv'
<1> USE DEF control, header, pulse, worker, ports, hostVars, messages, faultVars, client, Account, WorkerFree
<1>1. /\ TypeOK /\ Transit /\ Joined /\ Inspection /\ (CleanEnd => Quiet)
      /\ \A x \in Requests : HeaderOf(x) /\ RetirementOf(x)
    BY DEF IInv
<1>2. TypeOK'
    BY <1>1, RequestBoundAssumption, FaultBoundAssumption DEF TypeOK, Requests
<1>3. Transit' /\ Joined' /\ \A x \in Requests : HeaderOf(x)'
    BY <1>1 DEF TypeOK, Transit, Joined, Active, HeaderOf
<1>4. Inspection' /\ \A x \in Requests : RetirementOf(x)'
    BY <1>1 DEF TypeOK, Inspection, HeaderOf, RetirementOf, IsDrained
<1>5. CleanEnd' => Quiet'
    BY <1>1 DEF TypeOK, CleanEnd, Quiet, Active, Joined, HeaderOf, Inspection
<1> QED BY <1>2, <1>3, <1>4, <1>5 DEF IInv

\* The clean report follows the account.
LEMMA ReportClosedKeeps ==
    ASSUME IInv, ReportClosed
    PROVE  IInv'
<1> USE DEF control, header, pulse, worker, ports, hostVars, messages, faultVars, client, ReportClosed, Retire
<1>1. /\ TypeOK /\ Transit /\ Joined /\ Inspection /\ (CleanEnd => Quiet)
      /\ \A x \in Requests : HeaderOf(x) /\ RetirementOf(x)
    BY DEF IInv
<1>2. TypeOK'
    <2>1. generation' \in 0..1
        BY <1>1, RequestBoundAssumption, FaultBoundAssumption DEF TypeOK, Requests
    <2>2. waking' \subseteq {"worker", "host"}
        BY <1>1, RequestBoundAssumption, FaultBoundAssumption DEF TypeOK, Requests
    <2>3. closing' \in {"no", "joining", "accounted", "done"}
        BY <1>1, RequestBoundAssumption, FaultBoundAssumption DEF TypeOK, Requests
    <2>4. portOpen' \in BOOLEAN
        BY <1>1, RequestBoundAssumption, FaultBoundAssumption DEF TypeOK, Requests
    <2>5. hint' \in BOOLEAN
        BY <1>1, RequestBoundAssumption, FaultBoundAssumption DEF TypeOK, Requests
    <2>6. toHost' \in Seq({"ready", "failure", "closed", "lost"})
        BY <1>1, ToHostAppend
    <2> QED BY <1>1, <2>1, <2>2, <2>3, <2>4, <2>5, <2>6 DEF TypeOK
<1>3. Transit' /\ Joined' /\ \A x \in Requests : HeaderOf(x)'
    BY <1>1 DEF TypeOK, Transit, Joined, Active, HeaderOf
<1>4. Inspection' /\ \A x \in Requests : RetirementOf(x)'
    BY <1>1 DEF TypeOK, Inspection, HeaderOf, RetirementOf, IsDrained
<1>5. CleanEnd' => Quiet'
    BY <1>1 DEF TypeOK, CleanEnd, Quiet, Active, Joined, HeaderOf, Inspection
<1> QED BY <1>2, <1>3, <1>4, <1>5 DEF IInv

\* A close that fails vouches for nothing.
LEMMA FailCloseKeeps ==
    ASSUME IInv, FailClose
    PROVE  IInv'
<1> USE DEF control, header, pulse, worker, ports, hostVars, messages, faultVars, client, FailClose, WorkerFree, Fault, Retire
<1>1. /\ TypeOK /\ Transit /\ Joined /\ Inspection /\ (CleanEnd => Quiet)
      /\ \A x \in Requests : HeaderOf(x) /\ RetirementOf(x)
    BY DEF IInv
<1>2. TypeOK'
    <2>1. generation' \in 0..1
        BY <1>1, RequestBoundAssumption, FaultBoundAssumption DEF TypeOK, Requests
    <2>2. waking' \subseteq {"worker", "host"}
        BY <1>1, RequestBoundAssumption, FaultBoundAssumption DEF TypeOK, Requests
    <2>3. closing' \in {"no", "joining", "accounted", "done"}
        BY <1>1, RequestBoundAssumption, FaultBoundAssumption DEF TypeOK, Requests
    <2>4. faults' \in 0..MaxFaults
        BY <1>1, RequestBoundAssumption, FaultBoundAssumption DEF TypeOK, Requests
    <2>5. portOpen' \in BOOLEAN
        BY <1>1, RequestBoundAssumption, FaultBoundAssumption DEF TypeOK, Requests
    <2>6. toHost' \in Seq({"ready", "failure", "closed", "lost"})
        BY <1>1, ToHostAppend
    <2> QED BY <1>1, <2>1, <2>2, <2>3, <2>4, <2>5, <2>6 DEF TypeOK
<1>3. Transit' /\ Joined' /\ \A x \in Requests : HeaderOf(x)'
    BY <1>1 DEF TypeOK, Transit, Joined, Active, HeaderOf
<1>4. Inspection' /\ \A x \in Requests : RetirementOf(x)'
    BY <1>1 DEF TypeOK, Inspection, HeaderOf, RetirementOf, IsDrained
<1>5. CleanEnd' => Quiet'
    BY <1>1 DEF TypeOK, CleanEnd, Quiet, Active, Joined, HeaderOf, Inspection
<1> QED BY <1>2, <1>3, <1>4, <1>5 DEF IInv

\* A worker that fails vouches for nothing.
LEMMA FailKeeps ==
    ASSUME IInv, Fail
    PROVE  IInv'
<1> USE DEF control, header, pulse, worker, ports, hostVars, messages, faultVars, client, Fail, Fault
<1>1. /\ TypeOK /\ Transit /\ Joined /\ Inspection /\ (CleanEnd => Quiet)
      /\ \A x \in Requests : HeaderOf(x) /\ RetirementOf(x)
    BY DEF IInv
<1>2. TypeOK'
    <2>1. alive' \in BOOLEAN
        BY <1>1, RequestBoundAssumption, FaultBoundAssumption DEF TypeOK, Requests
    <2>2. waking' \subseteq {"worker", "host"}
        BY <1>1, RequestBoundAssumption, FaultBoundAssumption DEF TypeOK, Requests
    <2>3. faults' \in 0..MaxFaults
        BY <1>1, RequestBoundAssumption, FaultBoundAssumption DEF TypeOK, Requests
    <2> QED BY <1>1, <2>1, <2>2, <2>3 DEF TypeOK
<1>3. Transit' /\ Joined' /\ \A x \in Requests : HeaderOf(x)'
    BY <1>1 DEF TypeOK, Transit, Joined, Active, HeaderOf
<1>4. Inspection' /\ \A x \in Requests : RetirementOf(x)'
    BY <1>1 DEF TypeOK, Inspection, HeaderOf, RetirementOf, IsDrained
<1>5. CleanEnd' => Quiet'
    BY <1>1 DEF TypeOK, CleanEnd, Quiet, Active, Joined, HeaderOf, Inspection
<1> QED BY <1>2, <1>3, <1>4, <1>5 DEF IInv

-----------------------------------------------------------------------------
(* The host controller.                                                    *)

LEMMA CloseKeeps ==
    ASSUME IInv, Close
    PROVE  IInv'
<1> USE DEF control, header, pulse, worker, ports, hostVars, messages, faultVars, client, Close, HostFree, CloseController, Reject, Retire
<1>1. /\ TypeOK /\ Transit /\ Joined /\ Inspection /\ (CleanEnd => Quiet)
      /\ \A x \in Requests : HeaderOf(x) /\ RetirementOf(x)
    BY DEF IInv
<1>2. TypeOK'
    <2>1. generation' \in 0..1
        BY <1>1, RequestBoundAssumption, FaultBoundAssumption DEF TypeOK, Requests
    <2>2. waking' \subseteq {"worker", "host"}
        BY <1>1, RequestBoundAssumption, FaultBoundAssumption DEF TypeOK, Requests
    <2>3. setup' \in {"pending", "ready", "rejected"}
        BY <1>1, RequestBoundAssumption, FaultBoundAssumption DEF TypeOK, Requests
    <2>4. closeSent' \in BOOLEAN
        BY <1>1, RequestBoundAssumption, FaultBoundAssumption DEF TypeOK, Requests
    <2>5. hint' \in BOOLEAN
        BY <1>1, RequestBoundAssumption, FaultBoundAssumption DEF TypeOK, Requests
    <2> QED BY <1>1, <2>1, <2>2, <2>3, <2>4, <2>5 DEF TypeOK
<1>3. Transit' /\ Joined' /\ \A x \in Requests : HeaderOf(x)'
    BY <1>1 DEF TypeOK, Transit, Joined, Active, HeaderOf
<1>4. Inspection' /\ \A x \in Requests : RetirementOf(x)'
    BY <1>1 DEF TypeOK, Inspection, HeaderOf, RetirementOf, IsDrained
<1>5. CleanEnd' => Quiet'
    BY <1>1 DEF TypeOK, CleanEnd, Quiet, Active, Joined, HeaderOf, Inspection
<1> QED BY <1>2, <1>3, <1>4, <1>5 DEF IInv

\* The host believes a clean end that the worker reported, and only that.
LEMMA ReceiveKeeps ==
    ASSUME IInv, Receive
    PROVE  IInv'
<1> PICK m : m = Head(toHost)
    OBVIOUS
<1>1. /\ TypeOK /\ Transit /\ Joined /\ Inspection /\ (CleanEnd => Quiet)
      /\ \A x \in Requests : HeaderOf(x) /\ RetirementOf(x)
    BY DEF IInv
<1>2. /\ UNCHANGED <<status, drainStored, fresh, alive, acquired, closing, joining, phase, physical>>
      /\ UNCHANGED <<port, portOpen, failed, faults>>
      /\ UNCHANGED <<job, at, cursor, seen, outcome, retirements, sent, left>>
      /\ toHost # <<>> /\ toHost' = Tail(toHost)
    BY DEF Receive, header, worker, ports, faultVars, client
<1>3. /\ toHost' \in Seq({"ready", "failure", "closed", "lost"})
      /\ m \in {"ready", "failure", "closed", "lost"}
      /\ m = "closed" => CleanEnd
      /\ (\E i \in 1..Len(toHost') : toHost'[i] = "closed") => CleanEnd
    BY <1>1, <1>2, ToHostTail DEF CleanEnd
<1>4. /\ setup' \in {"pending", "ready", "rejected"} /\ hostClosing' \in BOOLEAN
      /\ generation' \in 0..1 /\ waking' \subseteq {"worker", "host"}
      /\ closeSent' \in BOOLEAN /\ hint' \in BOOLEAN
    <2>1. CASE m = "ready"
        BY <1>1, <2>1 DEF Receive, TypeOK, control
    <2>2. CASE m = "failure"
        <3>1. Reject /\ CloseController
            BY <2>2 DEF Receive
        <3>2. /\ setup \in {"pending", "ready", "rejected"} /\ generation \in 0..1
              /\ waking \subseteq {"worker", "host"} /\ closeSent \in BOOLEAN /\ hint \in BOOLEAN
            BY <1>1 DEF TypeOK
        <3>3. setup' \in {"pending", "ready", "rejected"}
            BY <3>1, <3>2 DEF Reject
        <3>4. CASE hostClosing \/ host # "free"
            BY <3>1, <3>2, <3>3, <3>4 DEF CloseController
        <3>5. CASE ~(hostClosing \/ host # "free")
            <4>1. /\ generation' = 1 /\ waking' = waking \cup {"host"}
                  /\ closeSent' = TRUE /\ hint' = TRUE /\ hostClosing' = TRUE
                BY <3>1, <3>5 DEF CloseController, Retire
            <4> QED BY <3>2, <3>3, <4>1
        <3> QED BY <3>4, <3>5
    <2>3. CASE m \in {"closed", "lost"}
        BY <1>1, <2>3 DEF Receive, TypeOK, Reject
    <2> QED BY <1>3, <2>1, <2>2, <2>3
<1>5. \/ UNCHANGED <<accounted, host, cleanup>>
      \/ m = "closed" /\ accounted' = 1 /\ host' = "finishing" /\ cleanup' = "resolved"
      \/ m = "lost" /\ accounted' = 2 /\ host' = "finishing" /\ cleanup' = "rejected"
    <2>1. CASE m = "ready"
        BY <2>1 DEF Receive, control
    <2>2. CASE m = "failure"
        BY <2>2 DEF Receive
    <2>3. CASE m = "closed"
        BY <2>3 DEF Receive, Finish
    <2>4. CASE m = "lost"
        <3>1. Finish(2)
            BY <2>4 DEF Receive
        <3> QED BY <2>4, <3>1 DEF Finish
    <2> QED BY <1>3, <2>1, <2>2, <2>3, <2>4
<1>6. TypeOK'
    <2>1. accounted' \in 0..2 /\ host' \in {"free", "finishing", "finished"}
          /\ cleanup' \in {"pending", "resolved", "rejected"}
        BY <1>1, <1>5 DEF TypeOK
    <2> QED BY <1>1, <1>2, <1>3, <1>4, <2>1 DEF TypeOK
<1>7. Transit' /\ Joined' /\ \A x \in Requests : HeaderOf(x)'
    BY <1>1, <1>2 DEF Transit, Joined, Active, HeaderOf
<1>8. Inspection' /\ \A x \in Requests : RetirementOf(x)'
    <2>1. accounted # 0 => accounted' # 0
        BY <1>5
    <2> QED BY <1>1, <1>2, <2>1 DEF Inspection, RetirementOf, IsDrained
<1>9. CleanEnd' => Quiet'
    <2>1. CleanEnd' => CleanEnd
        BY <1>2, <1>3, <1>5 DEF CleanEnd
    <2> QED BY <1>1, <1>2, <2>1 DEF Quiet, Active
<1> QED BY <1>6, <1>7, <1>8, <1>9 DEF IInv

\* A host that is told of a failure vouches for nothing.
LEMMA ReceiveFailureKeeps ==
    ASSUME IInv, ReceiveFailure
    PROVE  IInv'
<1> USE DEF control, header, pulse, worker, ports, hostVars, messages, faultVars, client, ReceiveFailure, HostFree, Reject, Finish
<1>1. /\ TypeOK /\ Transit /\ Joined /\ Inspection /\ (CleanEnd => Quiet)
      /\ \A x \in Requests : HeaderOf(x) /\ RetirementOf(x)
    BY DEF IInv
<1>2. TypeOK'
    <2>1. setup' \in {"pending", "ready", "rejected"}
        BY <1>1, RequestBoundAssumption, FaultBoundAssumption DEF TypeOK, Requests
    <2>2. host' \in {"free", "finishing", "finished"}
        BY <1>1, RequestBoundAssumption, FaultBoundAssumption DEF TypeOK, Requests
    <2>3. accounted' \in 0..2
        BY <1>1, RequestBoundAssumption, FaultBoundAssumption DEF TypeOK, Requests
    <2>4. cleanup' \in {"pending", "resolved", "rejected"}
        BY <1>1, RequestBoundAssumption, FaultBoundAssumption DEF TypeOK, Requests
    <2>5. failed' \in BOOLEAN
        BY <1>1, RequestBoundAssumption, FaultBoundAssumption DEF TypeOK, Requests
    <2> QED BY <1>1, <2>1, <2>2, <2>3, <2>4, <2>5 DEF TypeOK
<1>3. Transit' /\ Joined' /\ \A x \in Requests : HeaderOf(x)'
    BY <1>1 DEF TypeOK, Transit, Joined, Active, HeaderOf
<1>4. Inspection' /\ \A x \in Requests : RetirementOf(x)'
    BY <1>1 DEF TypeOK, Inspection, HeaderOf, RetirementOf, IsDrained
<1>5. CleanEnd' => Quiet'
    BY <1>1 DEF TypeOK, CleanEnd, Quiet, Active, Joined, HeaderOf, Inspection
<1> QED BY <1>2, <1>3, <1>4, <1>5 DEF IInv

\* Terminating the worker leaves no clean end behind.
LEMMA TerminateKeeps ==
    ASSUME IInv, Terminate
    PROVE  IInv'
<1> USE DEF control, header, pulse, worker, ports, hostVars, messages, faultVars, client, Terminate
<1>1. /\ TypeOK /\ Transit /\ Joined /\ Inspection /\ (CleanEnd => Quiet)
      /\ \A x \in Requests : HeaderOf(x) /\ RetirementOf(x)
    BY DEF IInv
<1>2. TypeOK'
    <2>1. generation' \in 0..1
        BY <1>1, RequestBoundAssumption, FaultBoundAssumption DEF TypeOK, Requests
    <2>2. waking' \subseteq {"worker", "host"}
        BY <1>1, RequestBoundAssumption, FaultBoundAssumption DEF TypeOK, Requests
    <2>3. host' \in {"free", "finishing", "finished"}
        BY <1>1, RequestBoundAssumption, FaultBoundAssumption DEF TypeOK, Requests
    <2>4. alive' \in BOOLEAN
        BY <1>1, RequestBoundAssumption, FaultBoundAssumption DEF TypeOK, Requests
    <2>5. hint' \in BOOLEAN
        BY <1>1, RequestBoundAssumption, FaultBoundAssumption DEF TypeOK, Requests
    <2> QED BY <1>1, <2>1, <2>2, <2>3, <2>4, <2>5 DEF TypeOK
<1>3. Transit' /\ Joined' /\ \A x \in Requests : HeaderOf(x)'
    BY <1>1 DEF TypeOK, Transit, Joined, Active, HeaderOf
<1>4. Inspection' /\ \A x \in Requests : RetirementOf(x)'
    BY <1>1 DEF TypeOK, Inspection, HeaderOf, RetirementOf, IsDrained
<1>5. CleanEnd' => Quiet'
    BY <1>1 DEF TypeOK, CleanEnd, Quiet, Active, Joined, HeaderOf, Inspection
<1> QED BY <1>2, <1>3, <1>4, <1>5 DEF IInv

\* A wakeup only sends the client back to the words it reads.
LEMMA WakeKeeps ==
    ASSUME IInv, NEW thread \in {"worker", "host"}, Wake(thread)
    PROVE  IInv'
<1> USE DEF control, header, pulse, worker, ports, hostVars, messages, faultVars, client, Wake
<1>1. /\ TypeOK /\ Transit /\ Joined /\ Inspection /\ (CleanEnd => Quiet)
      /\ \A x \in Requests : HeaderOf(x) /\ RetirementOf(x)
    BY DEF IInv
<1>2. TypeOK'
    <2>1. waking' \subseteq {"worker", "host"}
        BY <1>1, RequestBoundAssumption, FaultBoundAssumption DEF TypeOK, Requests
    <2>2. fresh' \in BOOLEAN
        BY <1>1, RequestBoundAssumption, FaultBoundAssumption DEF TypeOK, Requests
    <2>3. at' \in {"detached", "idle", "next", "status", "active", "drain", "load", "wait",
                    "accounted", "loadAccounted", "recheck", "asleep", "left"}
        BY <1>1, RequestBoundAssumption, FaultBoundAssumption DEF TypeOK, Requests
    <2> QED BY <1>1, <2>1, <2>2, <2>3 DEF TypeOK
<1>3. Transit' /\ Joined' /\ \A x \in Requests : HeaderOf(x)'
    BY <1>1 DEF TypeOK, Transit, Joined, Active, HeaderOf
<1>4. Inspection' /\ \A x \in Requests : RetirementOf(x)'
    BY <1>1 DEF TypeOK, Inspection, HeaderOf, RetirementOf, IsDrained
<1>5. CleanEnd' => Quiet'
    BY <1>1 DEF TypeOK, CleanEnd, Quiet, Active, Joined, HeaderOf, Inspection
<1> QED BY <1>2, <1>3, <1>4, <1>5 DEF IInv

-----------------------------------------------------------------------------
(* The client.                                                             *)

LEMMA AttachKeeps ==
    ASSUME IInv, Attach
    PROVE  IInv'
<1> USE DEF control, header, pulse, worker, ports, hostVars, messages, faultVars, client, Attach, Fault
<1>1. /\ TypeOK /\ Transit /\ Joined /\ Inspection /\ (CleanEnd => Quiet)
      /\ \A x \in Requests : HeaderOf(x) /\ RetirementOf(x)
    BY DEF IInv
<1>2. TypeOK'
    <2>1. generation' \in 0..1
        BY <1>1, RequestBoundAssumption, FaultBoundAssumption DEF TypeOK, Requests
    <2>2. fresh' \in BOOLEAN
        BY <1>1, RequestBoundAssumption, FaultBoundAssumption DEF TypeOK, Requests
    <2>3. faults' \in 0..MaxFaults
        BY <1>1, RequestBoundAssumption, FaultBoundAssumption DEF TypeOK, Requests
    <2>4. at' \in {"detached", "idle", "next", "status", "active", "drain", "load", "wait",
                    "accounted", "loadAccounted", "recheck", "asleep", "left"}
        BY <1>1, RequestBoundAssumption, FaultBoundAssumption DEF TypeOK, Requests
    <2>5. port' \in Seq(0..MaxRequests)
        BY <1>1, PortAppend, RequestBoundAssumption DEF TypeOK
    <2> QED BY <1>1, <2>1, <2>2, <2>3, <2>4, <2>5 DEF TypeOK
<1>3. Transit' /\ Joined' /\ \A x \in Requests : HeaderOf(x)'
    <2>1. Transit'
        <3>1. CASE UNCHANGED port
            BY <1>1, <3>1 DEF Transit
        <3>2. CASE port' = Append(port, 0)
            BY <1>1, <3>2, PortAppend, RequestBoundAssumption DEF TypeOK
        <3> QED BY <3>1, <3>2
    <2>2. Joined' /\ \A x \in Requests : HeaderOf(x)'
        BY <1>1 DEF Joined, Active, HeaderOf
    <2> QED BY <2>1, <2>2
<1>4. Inspection' /\ \A x \in Requests : RetirementOf(x)'
    BY <1>1 DEF TypeOK, Inspection, HeaderOf, RetirementOf, IsDrained
<1>5. CleanEnd' => Quiet'
    BY <1>1 DEF TypeOK, CleanEnd, Quiet, Active, Joined, HeaderOf, Inspection
<1> QED BY <1>2, <1>3, <1>4, <1>5 DEF IInv

\* A job begins with an inspection; only a submission needs room.
LEMMA BeginKeeps ==
    ASSUME IInv, NEW j \in {"progress", "submit"}, j = "submit" => sent < MaxRequests,
           hint' \in BOOLEAN, Begin(j)
    PROVE  IInv'
<1> USE DEF control, header, pulse, worker, ports, hostVars, messages, faultVars, client, Begin, ClientFree
<1>1. /\ TypeOK /\ Transit /\ Joined /\ Inspection /\ (CleanEnd => Quiet)
      /\ \A x \in Requests : HeaderOf(x) /\ RetirementOf(x)
    BY DEF IInv
<1>2. TypeOK'
    <2>1. at' \in {"detached", "idle", "next", "status", "active", "drain", "load", "wait",
                    "accounted", "loadAccounted", "recheck", "asleep", "left"}
        BY <1>1, RequestBoundAssumption, FaultBoundAssumption DEF TypeOK, Requests
    <2>2. cursor' \in 0..MaxRequests
        BY <1>1, RequestBoundAssumption, FaultBoundAssumption DEF TypeOK, Requests
    <2>3. job' \in {"none", "progress", "submit", "read", "close"}
        BY <1>1, RequestBoundAssumption, FaultBoundAssumption DEF TypeOK, Requests
    <2> QED BY <1>1, <2>1, <2>2, <2>3 DEF TypeOK
<1>3. Transit' /\ Joined' /\ \A x \in Requests : HeaderOf(x)'
    BY <1>1 DEF TypeOK, Transit, Joined, Active, HeaderOf
<1>4. Inspection' /\ \A x \in Requests : RetirementOf(x)'
    BY <1>1 DEF TypeOK, Inspection, HeaderOf, RetirementOf, IsDrained
<1>5. CleanEnd' => Quiet'
    BY <1>1 DEF TypeOK, CleanEnd, Quiet, Active, Joined, HeaderOf, Inspection
<1> QED BY <1>2, <1>3, <1>4, <1>5 DEF IInv

\* An inspection starts from the request it is about.
LEMMA InspectKeeps ==
    ASSUME IInv, NEW r \in Requests, Inspect(r)
    PROVE  IInv'
<1> USE DEF control, header, pulse, worker, ports, hostVars, messages, faultVars, client, Inspect, Live
<1>1. /\ TypeOK /\ Transit /\ Joined /\ Inspection /\ (CleanEnd => Quiet)
      /\ \A x \in Requests : HeaderOf(x) /\ RetirementOf(x)
    BY DEF IInv
<1>2. TypeOK'
    BY <1>1, RequestBoundAssumption, FaultBoundAssumption DEF TypeOK, Requests
<1>3. Transit' /\ Joined' /\ \A x \in Requests : HeaderOf(x)'
    BY <1>1 DEF TypeOK, Transit, Joined, Active, HeaderOf
<1>4. Inspection' /\ \A x \in Requests : RetirementOf(x)'
    BY <1>1 DEF TypeOK, Inspection, HeaderOf, RetirementOf, IsDrained
<1>5. CleanEnd' => Quiet'
    BY <1>1 DEF TypeOK, CleanEnd, Quiet, Active, Joined, HeaderOf, Inspection
<1> QED BY <1>2, <1>3, <1>4, <1>5 DEF IInv

\* A request is sent once, and the worker has not heard of it before.
LEMMA SendKeeps ==
    ASSUME IInv, Send
    PROVE  IInv'
<1> PICK r : r = sent + 1
    OBVIOUS
<1>1. /\ TypeOK /\ Transit /\ Joined /\ Inspection /\ (CleanEnd => Quiet)
      /\ \A x \in Requests : HeaderOf(x) /\ RetirementOf(x)
    BY DEF IInv
<1>2. /\ UNCHANGED <<accounted, status, drainStored, waking, alive, acquired, closing, joining, physical>>
      /\ UNCHANGED <<portOpen, setup, hostClosing, host, cleanup, toHost, closeSent, failed>>
      /\ UNCHANGED <<seen, outcome, retirements, left, hint>>
      /\ sent' = r /\ at = "next" /\ job = "submit"
    BY DEF Send, Inspected, header, hostVars, messages
<1>3. generation' \in 0..1 /\ fresh' \in BOOLEAN /\ faults' \in 0..MaxFaults
    <2>1. CASE UNCHANGED <<generation, fresh, faults>>
        BY <1>1, <2>1 DEF TypeOK
    <2>2. CASE Fault /\ generation' = 1 /\ fresh' = FALSE
        <3>1. faults \in 0..MaxFaults
            BY <1>1 DEF TypeOK
        <3>2. faults' \in 0..MaxFaults
            BY <2>2, <3>1, FaultBoundAssumption DEF Fault
        <3>3. generation' \in 0..1
            BY <2>2
        <3>4. fresh' \in BOOLEAN
            BY <2>2
        <3> QED BY <3>2, <3>3, <3>4
    <2> QED BY <2>1, <2>2 DEF Send
<1>4. /\ r \in Requests /\ r \in Nat /\ sent \in Nat /\ sent <= r /\ sent # r
      /\ phase[r] = "none" /\ 0 \in 0..MaxRequests
    <2>1. /\ sent \in Nat /\ r \in Requests
          /\ phase \in [Requests -> {"none", "posted", "preparing", "running", "succeeding",
                                     "storing", "failing", "draining", "done"}]
        BY <1>1, <1>2, RequestBoundAssumption DEF TypeOK, Requests, Inspection
    <2>2. r > sent
        BY <2>1
    <2> QED BY <1>1, <2>1, <2>2, RequestBoundAssumption DEF Transit
<1>5. /\ port' \in Seq(0..MaxRequests) /\ Transit' /\ phase'[r] \in {"none", "posted"}
      /\ \A x \in Requests : x # r => phase'[x] = phase[x]
      /\ phase' \in [Requests -> {"none", "posted", "preparing", "running", "succeeding",
                                  "storing", "failing", "draining", "done"}]
    <2>1. CASE port' = Append(port, r) /\ Move(r, "posted")
        <3>1. /\ \A x \in Requests : x # r => phase'[x] = phase[x]
              /\ phase'[r] = "posted"
              /\ phase' \in [Requests -> {"none", "posted", "preparing", "running", "succeeding",
                                          "storing", "failing", "draining", "done"}]
            BY <1>1, <1>4, <2>1 DEF Move, TypeOK
        <3>2. r \in 0..MaxRequests /\ sent' = r
            BY <1>2, <1>4, RequestBoundAssumption DEF Requests
        <3> QED BY <1>1, <1>4, <2>1, <3>1, <3>2, PortAppend
    <2>2. CASE UNCHANGED <<port, phase>>
        <3>1. \A x \in Requests : x > sent' => x > sent
            BY <1>2, <1>4 DEF Requests
        <3> QED BY <1>1, <1>4, <2>2, <3>1 DEF Transit, TypeOK
    <2> QED BY <2>1, <2>2 DEF Send
<1>6. cursor' = 0 /\ at' \in {"idle", "next"} /\ job' \in {"none", "progress"}
    BY <1>2 DEF Send, EndJob
<1>7. TypeOK'
    <2>1. sent' \in 0..MaxRequests
        BY <1>2, <1>4, RequestBoundAssumption DEF Requests
    <2> QED BY <1>1, <1>2, <1>3, <1>4, <1>5, <1>6, <2>1 DEF TypeOK
<1>8. \A x \in Requests : HeaderOf(x)'
    BY <1>1, <1>2, <1>4, <1>5 DEF HeaderOf
<1>9. Joined' /\ (CleanEnd' => Quiet')
    BY <1>1, <1>2, <1>4, <1>5 DEF Joined, Active, CleanEnd, Quiet
<1>10. Inspection' /\ \A x \in Requests : RetirementOf(x)'
    BY <1>1, <1>2, <1>6 DEF Inspection, RetirementOf, IsDrained
<1> QED BY <1>5, <1>7, <1>8, <1>9, <1>10 DEF IInv

\* A call returns when its inspection is over.
LEMMA ReturnKeeps ==
    ASSUME IInv, Return
    PROVE  IInv'
<1> USE DEF control, header, pulse, worker, ports, hostVars, messages, faultVars, client, Return, Inspected, Live, EndJob
<1>1. /\ TypeOK /\ Transit /\ Joined /\ Inspection /\ (CleanEnd => Quiet)
      /\ \A x \in Requests : HeaderOf(x) /\ RetirementOf(x)
    BY DEF IInv
<1>2. TypeOK'
    BY <1>1, RequestBoundAssumption, FaultBoundAssumption DEF TypeOK, Requests
<1>3. Transit' /\ Joined' /\ \A x \in Requests : HeaderOf(x)'
    BY <1>1 DEF TypeOK, Transit, Joined, Active, HeaderOf
<1>4. Inspection' /\ \A x \in Requests : RetirementOf(x)'
    BY <1>1 DEF TypeOK, Inspection, HeaderOf, RetirementOf, IsDrained
<1>5. CleanEnd' => Quiet'
    BY <1>1 DEF TypeOK, CleanEnd, Quiet, Active, Joined, HeaderOf, Inspection
<1> QED BY <1>2, <1>3, <1>4, <1>5 DEF IInv

\* A blocking read is about a request that is live.
LEMMA ReadKeeps ==
    ASSUME IInv, NEW r \in Requests, Read(r)
    PROVE  IInv'
<1> USE DEF control, header, pulse, worker, ports, hostVars, messages, faultVars, client, Read, ClientFree
<1>1. /\ TypeOK /\ Transit /\ Joined /\ Inspection /\ (CleanEnd => Quiet)
      /\ \A x \in Requests : HeaderOf(x) /\ RetirementOf(x)
    BY DEF IInv
<1>2. TypeOK'
    BY <1>1, RequestBoundAssumption, FaultBoundAssumption DEF TypeOK, Requests
<1>3. Transit' /\ Joined' /\ \A x \in Requests : HeaderOf(x)'
    BY <1>1 DEF TypeOK, Transit, Joined, Active, HeaderOf
<1>4. Inspection' /\ \A x \in Requests : RetirementOf(x)'
    BY <1>1 DEF TypeOK, Inspection, HeaderOf, RetirementOf, IsDrained
<1>5. CleanEnd' => Quiet'
    BY <1>1 DEF TypeOK, CleanEnd, Quiet, Active, Joined, HeaderOf, Inspection
<1> QED BY <1>2, <1>3, <1>4, <1>5 DEF IInv

\* The pulse is loaded before the words it guards.
LEMMA LoadPulseKeeps ==
    ASSUME IInv, LoadPulse
    PROVE  IInv'
<1> USE DEF control, header, pulse, worker, ports, hostVars, messages, faultVars, client, LoadPulse
<1>1. /\ TypeOK /\ Transit /\ Joined /\ Inspection /\ (CleanEnd => Quiet)
      /\ \A x \in Requests : HeaderOf(x) /\ RetirementOf(x)
    BY DEF IInv
<1>2. TypeOK'
    BY <1>1, RequestBoundAssumption, FaultBoundAssumption DEF TypeOK, Requests
<1>3. Transit' /\ Joined' /\ \A x \in Requests : HeaderOf(x)'
    BY <1>1 DEF TypeOK, Transit, Joined, Active, HeaderOf
<1>4. Inspection' /\ \A x \in Requests : RetirementOf(x)'
    BY <1>1 DEF TypeOK, Inspection, HeaderOf, RetirementOf, IsDrained
<1>5. CleanEnd' => Quiet'
    BY <1>1 DEF TypeOK, CleanEnd, Quiet, Active, Joined, HeaderOf, Inspection
<1> QED BY <1>2, <1>3, <1>4, <1>5 DEF IInv

\* A loaded success is never taken back.
LEMMA LoadStatusKeeps ==
    ASSUME IInv, LoadStatus
    PROVE  IInv'
<1> USE DEF control, header, pulse, worker, ports, hostVars, messages, faultVars, client, LoadStatus
<1>1. /\ TypeOK /\ Transit /\ Joined /\ Inspection /\ (CleanEnd => Quiet)
      /\ \A x \in Requests : HeaderOf(x) /\ RetirementOf(x)
    BY DEF IInv
<1>2. TypeOK'
    <2>1. seen' \in {"pending", "success", "failure"}
        BY <1>1 DEF TypeOK, Inspection
    <2>2. at' \in {"detached", "idle", "next", "status", "active", "drain", "load", "wait",
                    "accounted", "loadAccounted", "recheck", "asleep", "left"}
        BY <1>1, RequestBoundAssumption, FaultBoundAssumption DEF TypeOK, Requests
    <2>3. outcome' \in [Requests -> {"pending", "value", "error"}]
        BY <1>1, RequestBoundAssumption, FaultBoundAssumption DEF TypeOK, Requests
    <2> QED BY <1>1, <2>1, <2>2, <2>3 DEF TypeOK
<1>3. Transit' /\ Joined' /\ \A x \in Requests : HeaderOf(x)'
    BY <1>1 DEF TypeOK, Transit, Joined, Active, HeaderOf
<1>4. Inspection' /\ \A x \in Requests : RetirementOf(x)'
    BY <1>1 DEF TypeOK, Inspection, HeaderOf, RetirementOf, IsDrained
<1>5. CleanEnd' => Quiet'
    BY <1>1 DEF TypeOK, CleanEnd, Quiet, Active, Joined, HeaderOf, Inspection
<1> QED BY <1>2, <1>3, <1>4, <1>5 DEF IInv

\* A value is only taken from a success that was loaded.
LEMMA CheckActiveKeeps ==
    ASSUME IInv, CheckActive
    PROVE  IInv'
<1> USE DEF control, header, pulse, worker, ports, hostVars, messages, faultVars, client, CheckActive
<1>1. /\ TypeOK /\ Transit /\ Joined /\ Inspection /\ (CleanEnd => Quiet)
      /\ \A x \in Requests : HeaderOf(x) /\ RetirementOf(x)
    BY DEF IInv
<1>2. TypeOK'
    BY <1>1, RequestBoundAssumption, FaultBoundAssumption DEF TypeOK, Requests
<1>3. Transit' /\ Joined' /\ \A x \in Requests : HeaderOf(x)'
    BY <1>1 DEF TypeOK, Transit, Joined, Active, HeaderOf
<1>4. Inspection' /\ \A x \in Requests : RetirementOf(x)'
    BY <1>1 DEF TypeOK, Inspection, HeaderOf, RetirementOf, IsDrained
<1>5. CleanEnd' => Quiet'
    BY <1>1 DEF TypeOK, CleanEnd, Quiet, Active, Joined, HeaderOf, Inspection
<1> QED BY <1>2, <1>3, <1>4, <1>5 DEF IInv

\* A retirement follows the drained word or the account.
LEMMA CheckDrainKeeps ==
    ASSUME IInv, CheckDrain
    PROVE  IInv'
<1> USE DEF control, header, pulse, worker, ports, hostVars, messages, faultVars, client, CheckDrain, Retires, EndJob
<1>1. /\ TypeOK /\ Transit /\ Joined /\ Inspection /\ (CleanEnd => Quiet)
      /\ \A x \in Requests : HeaderOf(x) /\ RetirementOf(x)
    BY DEF IInv
<1>2. TypeOK'
    <2>1. retirements' \in [Requests -> 0..1]
        BY <1>1 DEF TypeOK, Inspection
    <2>2. \/ at' = "next" /\ UNCHANGED <<job, cursor>>
          \/ at' = "wait" /\ UNCHANGED <<job, cursor>>
          \/ job' = "none" /\ at' = "idle" /\ cursor' = 0
        OBVIOUS
    <2>3. /\ job \in {"none", "progress", "submit", "read", "close"}
          /\ cursor \in 0..MaxRequests /\ 0 \in 0..MaxRequests
        BY <1>1, RequestBoundAssumption DEF TypeOK
    <2>4. /\ job' \in {"none", "progress", "submit", "read", "close"}
          /\ cursor' \in 0..MaxRequests
          /\ at' \in {"detached", "idle", "next", "status", "active", "drain", "load", "wait",
                     "accounted", "loadAccounted", "recheck", "asleep", "left"}
        BY ONLY <2>2, <2>3
    <2> QED BY <1>1, <2>1, <2>4 DEF TypeOK
<1>3. Transit' /\ Joined' /\ \A x \in Requests : HeaderOf(x)'
    BY <1>1 DEF TypeOK, Transit, Joined, Active, HeaderOf
<1>4. Inspection' /\ \A x \in Requests : RetirementOf(x)'
    BY <1>1 DEF TypeOK, Inspection, HeaderOf, RetirementOf, IsDrained
<1>5. CleanEnd' => Quiet'
    BY <1>1 DEF TypeOK, CleanEnd, Quiet, Active, Joined, HeaderOf, Inspection
<1> QED BY <1>2, <1>3, <1>4, <1>5 DEF IInv

\* The client sleeps only inside a read or a close.
LEMMA SleepKeeps ==
    ASSUME IInv, Sleep
    PROVE  IInv'
<1> USE DEF control, header, pulse, worker, ports, hostVars, messages, faultVars, client, Sleep
<1>1. /\ TypeOK /\ Transit /\ Joined /\ Inspection /\ (CleanEnd => Quiet)
      /\ \A x \in Requests : HeaderOf(x) /\ RetirementOf(x)
    BY DEF IInv
<1>2. TypeOK'
    BY <1>1, RequestBoundAssumption, FaultBoundAssumption DEF TypeOK, Requests
<1>3. Transit' /\ Joined' /\ \A x \in Requests : HeaderOf(x)'
    BY <1>1 DEF TypeOK, Transit, Joined, Active, HeaderOf
<1>4. Inspection' /\ \A x \in Requests : RetirementOf(x)'
    BY <1>1 DEF TypeOK, Inspection, HeaderOf, RetirementOf, IsDrained
<1>5. CleanEnd' => Quiet'
    BY <1>1 DEF TypeOK, CleanEnd, Quiet, Active, Joined, HeaderOf, Inspection
<1> QED BY <1>2, <1>3, <1>4, <1>5 DEF IInv

\* A close of the client starts once.
LEMMA BeginCloseKeeps ==
    ASSUME IInv, BeginClose
    PROVE  IInv'
<1> USE DEF control, header, pulse, worker, ports, hostVars, messages, faultVars, client, BeginClose, ClientFree
<1>1. /\ TypeOK /\ Transit /\ Joined /\ Inspection /\ (CleanEnd => Quiet)
      /\ \A x \in Requests : HeaderOf(x) /\ RetirementOf(x)
    BY DEF IInv
<1>2. TypeOK'
    <2>1. at' \in {"detached", "idle", "next", "status", "active", "drain", "load", "wait",
                    "accounted", "loadAccounted", "recheck", "asleep", "left"}
        BY <1>1, RequestBoundAssumption, FaultBoundAssumption DEF TypeOK, Requests
    <2>2. job' \in {"none", "progress", "submit", "read", "close"}
        BY <1>1, RequestBoundAssumption, FaultBoundAssumption DEF TypeOK, Requests
    <2>3. port' \in Seq(0..MaxRequests)
        BY <1>1, PortAppend, RequestBoundAssumption DEF TypeOK
    <2> QED BY <1>1, <2>1, <2>2, <2>3 DEF TypeOK
<1>3. Transit' /\ Joined' /\ \A x \in Requests : HeaderOf(x)'
    <2>1. Transit'
        <3>1. CASE UNCHANGED port
            BY <1>1, <3>1 DEF Transit
        <3>2. CASE port' = Append(port, 0)
            BY <1>1, <3>2, PortAppend, RequestBoundAssumption DEF TypeOK
        <3> QED BY <3>1, <3>2
    <2>2. Joined' /\ \A x \in Requests : HeaderOf(x)'
        BY <1>1 DEF Joined, Active, HeaderOf
    <2> QED BY <2>1, <2>2
<1>4. Inspection' /\ \A x \in Requests : RetirementOf(x)'
    BY <1>1 DEF TypeOK, Inspection, HeaderOf, RetirementOf, IsDrained
<1>5. CleanEnd' => Quiet'
    BY <1>1 DEF TypeOK, CleanEnd, Quiet, Active, Joined, HeaderOf, Inspection
<1> QED BY <1>2, <1>3, <1>4, <1>5 DEF IInv

\* The closing client goes on once the account has been given.
LEMMA AwaitAccountKeeps ==
    ASSUME IInv, AwaitAccount
    PROVE  IInv'
<1> USE DEF control, header, pulse, worker, ports, hostVars, messages, faultVars, client, AwaitAccount
<1>1. /\ TypeOK /\ Transit /\ Joined /\ Inspection /\ (CleanEnd => Quiet)
      /\ \A x \in Requests : HeaderOf(x) /\ RetirementOf(x)
    BY DEF IInv
<1>2. TypeOK'
    BY <1>1, RequestBoundAssumption, FaultBoundAssumption DEF TypeOK, Requests
<1>3. Transit' /\ Joined' /\ \A x \in Requests : HeaderOf(x)'
    BY <1>1 DEF TypeOK, Transit, Joined, Active, HeaderOf
<1>4. Inspection' /\ \A x \in Requests : RetirementOf(x)'
    BY <1>1 DEF TypeOK, Inspection, HeaderOf, RetirementOf, IsDrained
<1>5. CleanEnd' => Quiet'
    BY <1>1 DEF TypeOK, CleanEnd, Quiet, Active, Joined, HeaderOf, Inspection
<1> QED BY <1>2, <1>3, <1>4, <1>5 DEF IInv

\* The client leaves cleanly on the account it was given, and only on that.
LEMMA LeaveKeeps ==
    ASSUME IInv, Leave
    PROVE  IInv'
<1> USE DEF control, header, pulse, worker, ports, hostVars, messages, faultVars, client, Leave, Inspected
<1>1. /\ TypeOK /\ Transit /\ Joined /\ Inspection /\ (CleanEnd => Quiet)
      /\ \A x \in Requests : HeaderOf(x) /\ RetirementOf(x)
    BY DEF IInv
<1>2. TypeOK'
    BY <1>1, RequestBoundAssumption, FaultBoundAssumption DEF TypeOK, Requests
<1>3. Transit' /\ Joined' /\ \A x \in Requests : HeaderOf(x)'
    BY <1>1 DEF TypeOK, Transit, Joined, Active, HeaderOf
<1>4. Inspection' /\ \A x \in Requests : RetirementOf(x)'
    BY <1>1 DEF TypeOK, Inspection, HeaderOf, RetirementOf, IsDrained
<1>5. CleanEnd' => Quiet'
    BY <1>1 DEF TypeOK, CleanEnd, Quiet, Active, Joined, HeaderOf, Inspection
<1> QED BY <1>2, <1>3, <1>4, <1>5 DEF IInv

-----------------------------------------------------------------------------
(* Theorems.                                                               *)

LEMMA InitSatisfiesIInv ==
    ASSUME Init
    PROVE  IInv
<1> USE RequestBoundAssumption, FaultBoundAssumption DEF Requests, Init
<1>1. TypeOK
    <2>1. port = <<>> /\ toHost = <<>>
        OBVIOUS
    <2>2. port \in Seq(0..MaxRequests) /\ toHost \in Seq({"ready", "failure", "closed", "lost"})
        BY <2>1, EmptySeq
    <2>3. /\ status \in [Requests -> {"pending", "success", "failure"}]
          /\ drainStored \in [Requests -> BOOLEAN]
          /\ phase \in [Requests -> {"none", "posted", "preparing", "running", "succeeding",
                                     "storing", "failing", "draining", "done"}]
          /\ physical \in [Requests -> {"none", "running", "ended"}]
          /\ outcome \in [Requests -> {"pending", "value", "error"}]
          /\ retirements \in [Requests -> 0..1]
        OBVIOUS
    <2>4. /\ 0 \in 0..MaxFaults /\ 0 \in 0..MaxRequests /\ 0 \in 0..1 /\ 0 \in 0..2
          /\ {} \in SUBSET Requests
        OBVIOUS
    <2> QED BY <2>2, <2>3, <2>4 DEF TypeOK
<1>2. Transit /\ Joined /\ Inspection /\ ~CleanEnd
    BY DEF Transit, Joined, Inspection, CleanEnd
<1>3. \A r \in Requests : HeaderOf(r) /\ RetirementOf(r)
    BY DEF HeaderOf, RetirementOf
<1> QED BY <1>1, <1>2, <1>3 DEF IInv

\* Every step preserves the invariant: one case per action.
LEMMA NextKeepsIInv ==
    ASSUME IInv, [Next]_vars
    PROVE  IInv'
<1>1. CASE Worker
    BY <1>1, DeliverKeeps, AcquireKeeps, ReceiveCloseKeeps, AccountKeeps, ReportClosedKeeps,
       PreparedKeeps, AnswerKeeps, StoreDrainedFirstKeeps, StoreSuccessKeeps,
       StoreFailureKeeps, StoreDrainKeeps DEF Worker
<1>2. CASE Device
    BY <1>2, PhysicalEndsKeeps DEF Device
<1>3. CASE Host
    BY <1>3, ReceiveKeeps, ReceiveFailureKeeps, TerminateKeeps DEF Host
<1>4. CASE Turn
    BY <1>4, SendKeeps, ReturnKeeps, LoadPulseKeeps, LoadStatusKeeps, CheckActiveKeeps,
       CheckDrainKeeps, SleepKeeps, AwaitAccountKeeps, LeaveKeeps, InspectKeeps DEF Turn
<1>5. CASE Progress
    BY <1>5, BeginKeeps DEF Progress
<1>6. CASE User
    <2>1. CASE Submit
        BY <2>1, BeginKeeps DEF Submit, IInv, TypeOK
    <2> QED BY <1>6, <2>1, AttachKeeps, BeginCloseKeeps, CloseKeeps, ReadKeeps DEF User
<1>7. CASE LoseDevice \/ FailClose \/ Fail
    BY <1>7, LoseDeviceKeeps, FailCloseKeeps, FailKeeps
<1>8. CASE \E thread \in {"worker", "host"} : Wake(thread)
    BY <1>8, WakeKeeps
<1>9. CASE UNCHANGED vars
    <2> USE <1>9 DEF vars, control, header, pulse, worker, ports, hostVars, messages, faultVars, client
    <2>1. TypeOK'
        BY DEF IInv, TypeOK
    <2>2. Transit' /\ Joined' /\ Inspection' /\ (CleanEnd' => Quiet')
        BY DEF IInv, Transit, Joined, Active, Inspection, CleanEnd, Quiet
    <2>3. \A r \in Requests : HeaderOf(r)' /\ RetirementOf(r)'
        BY DEF IInv, HeaderOf, RetirementOf, IsDrained
    <2> QED BY <2>1, <2>2, <2>3 DEF IInv
<1> QED BY <1>1, <1>2, <1>3, <1>4, <1>5, <1>6, <1>7, <1>8, <1>9 DEF Next

\* In every reachable state the phase of a request bounds its device work and its
\* header, and whoever vouches for a clean end does so for a quiet worker.
THEOREM InvariantHolds == Spec => []IInv
<1>1. Init => IInv
    BY InitSatisfiesIInv
<1>2. IInv /\ [Next]_vars => IInv'
    BY NextKeepsIInv
<1> QED BY <1>1, <1>2, PTL DEF Spec

\* Every shared word, message queue and thread stays within its range: no message
\* names a foreign request, no request retires twice.
THEOREM TypeOKHolds == Spec => []TypeOK
<1>1. IInv => TypeOK
    BY DEF IInv
<1> QED BY <1>1, InvariantHolds, PTL

\* A client that holds a value holds a drained one, however the shared words were
\* stored and loaded (SharedGpuCompletion.refresh, publishSharedGpuSuccess).
THEOREM ValueIsDrainedHolds == Spec => []ValueIsDrained
<1>1. IInv => ValueIsDrained
    BY DEF IInv, HeaderOf, RetirementOf, ValueIsDrained
<1> QED BY <1>1, InvariantHolds, PTL

\* Pins outlive device work, except where a lost worker is on record.
THEOREM PinsOutliveDeviceWorkHolds == Spec => []PinsOutliveDeviceWork
<1>1. ASSUME IInv PROVE PinsOutliveDeviceWork
    <2> SUFFICES ASSUME NEW r \in Requests, retirements[r] # 0
                 PROVE  physical[r] # "running" \/ accounted = 2
        BY DEF PinsOutliveDeviceWork
    <2>1. retirements[r] = 1 /\ accounted \in 0..2
        BY <1>1 DEF IInv, TypeOK
    <2>2. drainStored[r] \/ accounted # 0
        BY <1>1, <2>1 DEF IInv, RetirementOf, IsDrained
    <2>3. drainStored[r] => physical[r] # "running"
        BY <1>1 DEF IInv, HeaderOf
    <2>4. accounted = 1 => physical[r] # "running"
        BY <1>1 DEF IInv, CleanEnd, Quiet, Active
    <2> QED BY <2>1, <2>2, <2>3, <2>4
<1> QED BY <1>1, InvariantHolds, PTL

\* Neither the worker, nor the controller, nor the client reports a clean end
\* while device work runs (WebGpuWorker.#close, the controller's #finish).
THEOREM CleanEndIsHonestHolds == Spec => []CleanEndIsHonest
<1>1. IInv => CleanEndIsHonest
    BY DEF IInv, CleanEnd, Quiet, Active, CleanEndIsHonest
<1> QED BY <1>1, InvariantHolds, PTL

===============================================================================
