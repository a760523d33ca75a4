------------------------- MODULE SemanticOwnership -------------------------
(***************************************************************************)
(* Who keeps a tensor identity alive (runtime/runtime.ts, runtime/sgd.ts,  *)
(* runtime/autograd/derivative-history.ts): handles, gradient              *)
(* associations, view bases, derivative history, optimizer registrations   *)
(* and the gradients an optimizer captures for one group callback.         *)
(*                                                                         *)
(* Reference counts free what nobody owns; a collector breaks the cycles   *)
(* that gradient associations close. User code runs inside group           *)
(* callbacks and while an optimizer reads its parameters, and may do       *)
(* anything there, close the optimizer or the session included. Whether    *)
(* operations record is the user's choice. Payloads are left out.          *)
(***************************************************************************)
EXTENDS Integers, Sequences, FiniteSets, FiniteSetsExt, SequencesExt

CONSTANTS
    Ids,                  \* tensor identities, each created at most once
    Optimizers,           \* optimizer registrations; a retired one is used again
    MaxHandles,           \* bound on the exposures one identity ever gets
    MaxMembers,           \* bound on the members of a group and on a scope's captures
    MaxDepth              \* bound on the user callbacks that nest

ASSUME BoundsAssumption == {MaxHandles, MaxMembers, MaxDepth} \subseteq Nat \ {0}

None == "none"
Handles == Ids \X (1..MaxHandles)

VARIABLES
    heap,                 \* identities, the derivative node each recorded, and who owns them
    states,               \* #states: the open handles
    made,                 \* the handles an identity was given so far
    groups,               \* registration.groups of every open optimizer
    stack,                \* the user callbacks that are running
    scheduled,            \* #collectionScheduled
    closed                \* #closed

vars == <<heap, states, made, groups, stack, scheduled, closed>>

\* How often each identity occurs in a sequence of owners.
Count(s, i) == Cardinality({k \in DOMAIN s : s[k] = i})
Bag(s) == [i \in Ids |-> Count(s, i)]
Nothing == [i \in Ids |-> 0]
Some(i) == IF i = None THEN <<>> ELSE <<i>>

Blank == [kind |-> "unborn", alive |-> FALSE, refs |-> 0, gradient |-> None,
          base |-> None, entry |-> FALSE, nodeRefs |-> 0, inputs |-> Nothing]
Unborn == {i \in Ids : heap[i].kind = "unborn"}
Alive(h) == {i \in Ids : h[i].alive}
Parts == [ids : SUBSET Ids, nodes : SUBSET Ids]

----------------------------------------------------------------------------
(* Ownership.                                                               *)

RetainIdentities(h, s) == [i \in Ids |-> [h[i] EXCEPT !.refs = @ + Count(s, i)]]

\* The owners that identity i and the node it recorded lose when the identity
\* occurrences b and the node occurrences nb are released, and p has retired.
Lost(h, b, p, i) ==
    b[i] + Cardinality({j \in p.ids : h[j].gradient = i}) + Cardinality({j \in p.ids : h[j].base = i})
         + (IF i \in p.nodes /\ h[i].kind = "leaf" THEN 1 ELSE 0)
LostNode(h, nb, p, i) ==
    nb[i] + (IF i \in p.ids /\ h[i].entry THEN 1 ELSE 0)
          + MapThenSumSet(LAMBDA n : h[n].inputs[i], p.nodes)

Release(h, b, nb) ==
    LET Retired[p \in Parts] ==
          LET more == [ids |-> {i \in Alive(h) : h[i].refs <= Lost(h, b, p, i)},
                       nodes |-> {i \in Ids : h[i].nodeRefs \in 1..LostNode(h, nb, p, i)}]
          IN  IF more = p THEN p ELSE Retired[more]
        end == Retired[[ids |-> {}, nodes |-> {}]]
        Less(i) == [h[i] EXCEPT !.refs = @ - Lost(h, b, end, i),
                                !.nodeRefs = @ - LostNode(h, nb, end, i),
                                !.inputs = IF i \in end.nodes THEN Nothing ELSE @]
    IN  [i \in Ids |-> IF i \in end.ids
                       THEN [Less(i) EXCEPT !.kind = "plain", !.alive = FALSE, !.gradient = None,
                                            !.base = None, !.entry = FALSE]
                       ELSE Less(i)]
ReleaseIdentities(h, s) == Release(h, Bag(s), Nothing)

\* Only an association can close a cycle that counting does not free.
Associations(h) == {i \in Ids : h[i].gradient # None}
ScheduleCollection(h) == scheduled' = (scheduled \/ Associations(h) # {})

\* The collector marks from the handles, the optimizers and the captures.
Taken(st) == UNION {ToSet(st[k].taken) : k \in DOMAIN st}
Registered(gs) == UNION {ToSet(gs[o]) : o \in DOMAIN gs}
Roots(open, gs, st) == {h[1] : h \in open \cup Registered(gs)} \cup {t[2] : t \in Taken(st)}

\* An identity keeps its gradient, its base and its entry; a node keeps its
\* inputs, and an endpoint the leaf it stands for.
Marked(h, roots) ==
    LET Mark[p \in Parts] ==
          LET more == [ids |-> p.ids \cup {i \in Ids : \/ \E j \in p.ids : i \in {h[j].gradient, h[j].base}
                                                       \/ i \in p.nodes /\ h[i].kind = "leaf"},
                       nodes |-> p.nodes \cup {i \in Ids : \/ i \in p.ids /\ h[i].entry
                                                           \/ \E n \in p.nodes : h[n].inputs[i] > 0}]
          IN  IF more = p THEN p ELSE Mark[more]
    IN  Mark[[ids |-> roots, nodes |-> {}]].ids

CollectCycles(h, roots) ==
    LET lost == Alive(h) \ Marked(h, roots)
        cut == [i \in Ids |-> IF i \in lost THEN [h[i] EXCEPT !.gradient = None] ELSE h[i]]
    IN  Release(cut, [i \in Ids |-> Cardinality({j \in lost : h[j].gradient = i})], Nothing)

----------------------------------------------------------------------------
(* Tensors and gradients. No call is possible once the session is closed.  *)

Open == ~closed
Exposed(i) == \E h \in states : h[1] = i
Names(hs) == [n \in DOMAIN hs |-> hs[n][1]]
idle == <<groups, stack, closed>>

Expose(h, i) ==
    /\ made[i] < MaxHandles
    /\ made' = [made EXCEPT ![i] = @ + 1]
    /\ states' = states \cup {<<i, made[i] + 1>>}
    /\ heap' = RetainIdentities(h, <<i>>)

\* createHandle: a tensor of data, which requires gradients (a leaf) or not.
Tensor(i, kind) ==
    /\ Open /\ i \in Unborn
    /\ Expose([heap EXCEPT ![i].kind = kind, ![i].alive = TRUE], i)
    /\ UNCHANGED <<idle, scheduled>>

\* history.record: the result of tracked operands owns a node whose edges own
\* the nodes of the operands; the first edge into an endpoint owns its leaf.
Tracked(i) == heap[i].kind = "leaf" \/ heap[i].entry
Record(i, edges) ==
    LET first == {j \in ToSet(edges) : heap[j].kind = "leaf" /\ heap[j].nodeRefs = 0}
        linked == [j \in Ids |-> [heap[j] EXCEPT !.nodeRefs = @ + Count(edges, j)]]
        node == [linked EXCEPT ![i].entry = TRUE, ![i].inputs = Bag(edges), ![i].nodeRefs = 1]
    IN  IF edges = <<>> THEN heap ELSE RetainIdentities(node, SetToSeq(first))

\* Only a recording operation tracks its operands, and it makes a difference
\* only if one of them is tracked. A view also owns its base.
Operation(i, operands, view, recording) ==
    LET edges == IF recording THEN SelectSeq(operands, Tracked) ELSE <<>>
        base == IF view THEN operands[1] ELSE None
    IN  /\ Open /\ i \in Unborn
        /\ \A k \in DOMAIN operands : Exposed(operands[k])
        /\ recording \/ \E k \in DOMAIN operands : Tracked(operands[k])
        /\ Expose(RetainIdentities([Record(i, edges) EXCEPT ![i].kind = "plain", ![i].alive = TRUE, ![i].base = base],
                                   Some(base)), i)
        /\ UNCHANGED <<idle, scheduled>>

\* gradient: the handle of a gradient is its canonical one, or a new one.
ReadGradient(i) ==
    /\ Open /\ Exposed(i) /\ heap[i].gradient # None /\ ~Exposed(heap[i].gradient)
    /\ Expose(heap, heap[i].gradient)
    /\ UNCHANGED <<idle, scheduled>>

CloseHandle(h) ==
    /\ h \in states
    /\ states' = states \ {h}
    /\ heap' = ReleaseIdentities(heap, <<h[1]>>)
    /\ ScheduleCollection(heap')
    /\ UNCHANGED <<idle, made>>

\* replaceGradient retains the new gradient before it releases the old one.
ReplaceGradient(h, i, g) ==
    LET moved == [RetainIdentities(h, Some(g)) EXCEPT ![i].gradient = g]
    IN  IF h[i].gradient = g THEN h
        ELSE ReleaseIdentities(moved, Some(h[i].gradient))

AssignGradient(i, g) ==
    /\ Open /\ Exposed(i) /\ g # i
    /\ g = None \/ Exposed(g)
    /\ heap' = ReplaceGradient(heap, i, g)
    /\ IF heap[i].gradient \in {None, g} THEN UNCHANGED scheduled ELSE ScheduleCollection(heap')
    /\ UNCHANGED <<idle, states, made>>

\* The receivers a backward pass from i can reach.
Ancestors(i) ==
    LET Reach[ns \in SUBSET Ids] ==
          LET more == ns \cup {j \in Ids : \E n \in ns : heap[n].inputs[j] > 0}
          IN  IF more = ns THEN ns ELSE Reach[more]
    IN  {j \in Reach[{i}] : heap[j].alive /\ Tracked(j)}

\* accumulateGradient: a leaf keeps its gradient and adds into it; otherwise a
\* new identity g becomes the gradient and its temporary handle closes.
Backward(i, g) ==
    /\ Open /\ Tracked(i) /\ Exposed(i)
    /\ \E p \in Ancestors(i) :
         IF heap[p].kind = "leaf" /\ heap[p].gradient # None
         THEN g = None /\ UNCHANGED heap
         ELSE /\ g \in Unborn
              /\ heap' = ReplaceGradient([heap EXCEPT ![g].kind = "plain", ![g].alive = TRUE], p, g)
    /\ scheduled' = TRUE
    /\ UNCHANGED <<idle, states, made>>

Collect ==
    /\ scheduled
    /\ heap' = CollectCycles(heap, Roots(states, groups, stack))
    /\ scheduled' = FALSE
    /\ UNCHANGED <<idle, states, made>>

----------------------------------------------------------------------------
(* Optimizers, and the user code that runs inside their calls.              *)

same == <<heap, states, made, scheduled, closed>>
Call(kind, o) == [kind |-> kind, owner |-> o, seen |-> <<>>, taken |-> <<>>]
Enter(frame) == Len(stack) < MaxDepth /\ stack' = Append(stack, frame)
Top == stack[Len(stack)]
Running(kind) == stack # <<>> /\ Top.kind = kind
Usable(o) == Open /\ o \in DOMAIN groups /\ ToSet(groups[o]) \subseteq states

\* registerOptimizer reads the parameters through user code, then checks
\* every handle again before it takes them.
BeginRegistration(o) ==
    /\ Open /\ o \notin DOMAIN groups
    /\ \A k \in DOMAIN stack : stack[k].owner # o
    /\ Enter(Call("register", o))
    /\ UNCHANGED <<same, groups>>

AdmitParameter(h) ==
    /\ Running("register") /\ h \in states
    /\ ~heap[h[1]].entry
    /\ Len(Top.seen) < MaxMembers
    /\ stack' = [stack EXCEPT ![Len(stack)].seen = Append(@, h)]
    /\ UNCHANGED <<same, groups>>

NotRechecked(hs) == TRUE        \* mutant of StillOpen: later getters may have closed an earlier handle
StillOpen(hs) == ToSet(hs) \subseteq states
PublishRegistration ==
    /\ Running("register")
    /\ stack' = Front(stack)
    /\ IF Open /\ StillOpen(Top.seen)
       THEN /\ groups' = [o \in DOMAIN groups \cup {Top.owner} |-> IF o = Top.owner THEN Top.seen ELSE groups[o]]
            /\ heap' = RetainIdentities(heap, Names(Top.seen))
       ELSE UNCHANGED <<groups, heap>>
    /\ UNCHANGED <<states, made, scheduled, closed>>

EnterGroup(o) ==
    /\ Usable(o)
    /\ Enter(Call("group", o))
    /\ UNCHANGED <<same, groups>>

\* The capture view stays usable from nested calls until its scope retires.
CaptureGradient(k, h) ==
    /\ stack[k].kind = "group" /\ stack[k].owner \in DOMAIN groups
    /\ h \in ToSet(groups[stack[k].owner]) \cap states
    /\ Len(stack[k].taken) < MaxMembers
    /\ heap[h[1]].gradient # None
    /\ stack' = [stack EXCEPT ![k].taken = Append(@, <<h, heap[h[1]].gradient>>)]
    /\ heap' = RetainIdentities(heap, <<heap[h[1]].gradient>>)
    /\ UNCHANGED <<states, made, groups, scheduled, closed>>

\* retireOptimizerCapture, for the scopes in ks.
GradientsOf(ks) == FlattenSeq([k \in DOMAIN stack |-> IF k \in ks THEN [n \in DOMAIN stack[k].taken |-> stack[k].taken[n][2]]
                                                      ELSE <<>>])
Cleared(ks) == [k \in DOMAIN stack |-> IF k \in ks THEN [stack[k] EXCEPT !.taken = <<>>] ELSE stack[k]]

LeaveGroup ==
    /\ Running("group")
    /\ heap' = ReleaseIdentities(heap, GradientsOf({Len(stack)}))
    /\ stack' = Front(stack)
    /\ IF Top.owner \in DOMAIN groups THEN ScheduleCollection(heap') ELSE UNCHANGED scheduled
    /\ UNCHANGED <<states, made, groups, closed>>

\* stepGroup and the apply of a capture: the temporaries of an update close.
Update(o) ==
    /\ Usable(o)
    /\ \E h \in ToSet(groups[o]) : heap[h[1]].gradient # None
    /\ scheduled' = TRUE
    /\ UNCHANGED <<heap, states, made, groups, stack, closed>>

\* zeroOptimizerGroup stops at a closed handle, or at a view with history.
ZeroOne(z, h, setToNone) ==
    LET i == h[1]
        g == z.heap[i].gradient
    IN  IF ~z.ok \/ h \notin states THEN [z EXCEPT !.ok = FALSE]
        ELSE IF g = None THEN z
        ELSE IF setToNone THEN [z EXCEPT !.heap = ReplaceGradient(@, i, None),
                                         !.due = @ \/ Associations(z.heap) # {i}]
        ELSE IF z.heap[g].entry /\ z.heap[g].base # None THEN [z EXCEPT !.ok = FALSE]
        ELSE [z EXCEPT !.due = TRUE,
                       !.heap = IF @[g].entry
                                THEN Release([@ EXCEPT ![g].entry = FALSE], Nothing, Bag(<<g>>)) ELSE @]
ZeroGrad(o, setToNone) ==
    /\ Open /\ o \in DOMAIN groups
    /\ LET z == FoldLeft(LAMBDA a, h : ZeroOne(a, h, setToNone),
                         [heap |-> heap, ok |-> TRUE, due |-> scheduled], groups[o])
       IN  heap' = z.heap /\ scheduled' = z.due
    /\ UNCHANGED <<idle, states, made>>

\* retireOptimizer: its capture scopes first, also those still running.
IdleScopes(os) == {k \in DOMAIN stack : k < Len(stack) /\ stack[k].kind = "group" /\ stack[k].owner \in os}   \* mutant of Scopes: the callback that runs keeps its captures
Scopes(os) == {k \in DOMAIN stack : stack[k].kind = "group" /\ stack[k].owner \in os}
Members(os) == FlattenSeq([n \in 1..Cardinality(os) |-> Names(groups[SetToSeq(os)[n]])])
MembersOnly(os) == ReleaseIdentities(heap, Members(os))     \* mutant of RetireOptimizers: captures are dropped, not released
RetireOptimizers(os) == ReleaseIdentities(heap, GradientsOf(Scopes(os)) \o Members(os))

CloseOptimizer(o) ==
    /\ o \in DOMAIN groups
    /\ heap' = RetireOptimizers({o})
    /\ groups' = [p \in DOMAIN groups \ {o} |-> groups[p]]
    /\ stack' = Cleared(Scopes({o}))
    /\ \/ Scopes({o}) # {} /\ ScheduleCollection(ReleaseIdentities(heap, GradientsOf(Scopes({o}))))
       \/ Scopes({o}) = {} /\ ScheduleCollection(heap')
    /\ UNCHANGED <<states, made, closed>>

CloseSession ==
    /\ Open
    /\ closed' = TRUE
    /\ LET freed == Release(RetireOptimizers(DOMAIN groups),
                            [i \in Ids |-> Cardinality({h \in states : h[1] = i})], Nothing)
       IN  heap' = CollectCycles(freed, {})
    /\ states' = {} /\ groups' = [o \in {} |-> <<>>]
    /\ stack' = Cleared(DOMAIN stack)
    /\ scheduled' = FALSE
    /\ UNCHANGED <<made>>

----------------------------------------------------------------------------
Init ==
    /\ heap = [i \in Ids |-> Blank]
    /\ states = {} /\ made = [i \in Ids |-> 0]
    /\ groups = [o \in {} |-> <<>>]
    /\ stack = <<>>
    /\ scheduled = FALSE /\ closed = FALSE

Next ==
    \/ \E i \in Ids : \/ \E kind \in {"leaf", "plain"} : Tensor(i, kind)
                      \/ \E a \in Ids, recording \in BOOLEAN : Operation(i, <<a>>, TRUE, recording)
                      \/ \E a, b \in Ids, recording \in BOOLEAN : Operation(i, <<a, b>>, FALSE, recording)
                      \/ ReadGradient(i)
                      \/ \E g \in Ids \cup {None} : AssignGradient(i, g) \/ Backward(i, g)
    \/ \E h \in states : CloseHandle(h) \/ AdmitParameter(h)
    \/ \E k \in DOMAIN stack : \E h \in Registered(groups) : CaptureGradient(k, h)
    \/ \E o \in Optimizers : \/ BeginRegistration(o) \/ EnterGroup(o) \/ Update(o)
                             \/ \E setToNone \in BOOLEAN : ZeroGrad(o, setToNone)
                             \/ CloseOptimizer(o)
    \/ PublishRegistration \/ LeaveGroup
    \/ Collect \/ CloseSession

Spec == Init /\ [][Next]_vars

----------------------------------------------------------------------------
(* Properties.                                                              *)

TypeOK ==
    /\ \A i \in Ids : heap[i].refs >= 0 /\ heap[i].nodeRefs >= 0
    /\ states \subseteq Handles
    /\ DOMAIN groups \subseteq Optimizers
    /\ scheduled \in BOOLEAN /\ closed \in BOOLEAN

\* Every counter is the number of owners that really exist: the identity
\* counts of handles, associations, bases, endpoints, registrations and
\* captures (semanticOwnership), and the node counts of edges and entries.
Owners(i) ==
    Cardinality({h \in states : h[1] = i})
    + Cardinality({j \in Ids : heap[j].gradient = i}) + Cardinality({j \in Ids : heap[j].base = i})
    + (IF heap[i].kind = "leaf" /\ heap[i].nodeRefs > 0 THEN 1 ELSE 0)
    + MapThenSumSet(LAMBDA o : Count(Names(groups[o]), i), DOMAIN groups)
    + Count(GradientsOf(DOMAIN stack), i)
OwnersAreCounted ==
    \A i \in Ids :
        /\ heap[i].refs = Owners(i)
        /\ heap[i].alive => heap[i].refs > 0
        /\ heap[i].nodeRefs = (IF heap[i].entry THEN 1 ELSE 0) + MapThenSumSet(LAMBDA n : heap[n].inputs[i], Ids)

\* Nothing a handle, an optimizer or a capture in use can still reach is
\* retired, whatever user code closed in between; and once no collection is
\* due, nothing else is left: no cycle of gradients, views and history.
AliveIsReachable ==
    LET reachable == Marked(heap, Roots(states, groups, stack))
    IN  /\ reachable \subseteq Alive(heap)
        /\ scheduled \/ Alive(heap) \subseteq reachable

\* A closed optimizer pins nothing through a group callback that still runs.
ClosedOptimizerPinsNothing ==
    \A k \in DOMAIN stack : stack[k].kind = "group" /\ stack[k].owner \notin DOMAIN groups => stack[k].taken = <<>>

\* Ownership is counted, and the counts of an optimizer end with it, also from
\* inside its own callback.
OwnershipIsCounted == TypeOK /\ OwnersAreCounted /\ ClosedOptimizerPinsNothing
=============================================================================
