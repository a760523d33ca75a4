-------------------------- MODULE DerivativeHistory --------------------------
(***************************************************************************)
(* Reverse traversals of recorded derivative history                       *)
(* (runtime/autograd/derivative-history.ts and derivative-recipes.ts, with *)
(* grad and backward of runtime/runtime.ts, which plan, seed and receive). *)
(*                                                                         *)
(* A traversal visits the needed nodes from the output down, adds up the   *)
(* contributions each one gets, consumes the values its recipes saved and  *)
(* accumulates into leaves, all in one synchronous call: it may fail at    *)
(* any step, and what it consumed and accumulated until then stays. A      *)
(* gradient is abstracted to its weight: how many paths it adds up.        *)
(***************************************************************************)
EXTENDS Integers, Sequences, FiniteSets, FiniteSetsExt, SequencesExt

CONSTANTS
    Leaves,               \* the leaves there are from the start
    MaxNodes,             \* bound on the nodes, the leaves included
    MaxEvents,            \* bound on the writes in place, releases and faults
    MaxTraversals,        \* bound on grad and backward calls
    Recipes               \* the recipes operations record

ASSUME BoundsAssumption ==
    /\ {Leaves, MaxNodes, MaxEvents, MaxTraversals} \subseteq Nat /\ Leaves <= MaxNodes
    /\ Recipes \subseteq {"pass", "mul", "copy"}

\* A tensor: of node n, the gradient -n of leaf n, or 0, which tracks nothing.
Tensors == -MaxNodes..MaxNodes

VARIABLES
    nodes,                \* the recorded nodes; a node's number is its sequence
    version,              \* the version counter of each tensor
    events,               \* how many of those there have been
    gradients,            \* the leaves that have a gradient
    saved,                \* #savedValues
    call,                 \* the traversal that runs
    calls                 \* how many there have been

vars == <<nodes, version, events, gradients, saved, call, calls>>

Idle == [phase |-> "idle"]
Leaf(n) == nodes[n].recipe = "leaf"
User == call = Idle /\ calls < MaxTraversals
Event(happens) ==
    /\ happens => events < MaxEvents
    /\ events' = IF happens THEN events + 1 ELSE events
Edges(n) == {p \in DOMAIN nodes[n].inputs : nodes[n].inputs[p] # 0}
Into(ns, n) == {e \in ns \X {1, 2} : e[2] \in Edges(e[1]) /\ nodes[e[1]].inputs[e[2]] = n}
Saves(ns) == UNION {{n} \X nodes[n].saved : n \in ns}

----------------------------------------------------------------------------
(* Recording and releasing.                                                 *)

NewLeaf == [recipe |-> "leaf", inputs |-> <<>>, saved |-> {}, consumed |-> FALSE, refs |-> 1, held |-> TRUE]

\* savedOperands: a product saves the other operand for each tracked one, at
\* the version it has now.
SavedOperands(recipe, operands) ==
    {[position |-> p, value |-> operands[3 - p], version |-> version[operands[3 - p]]] :
        p \in {q \in DOMAIN operands : recipe = "mul" /\ operands[q] > 0}}

Known(v) == v = 0 \/ (v \in DOMAIN nodes /\ nodes[v].held) \/ -v \in gradients
Record(recipe, operands) ==
    LET inputs == [p \in DOMAIN operands |-> IF operands[p] > 0 THEN operands[p] ELSE 0]
        node == [recipe |-> recipe, inputs |-> inputs, consumed |-> FALSE, refs |-> 1, held |-> TRUE,
                 saved |-> SavedOperands(recipe, operands)]
        linked == [n \in DOMAIN nodes |->
                     [nodes[n] EXCEPT !.refs = @ + Cardinality({p \in DOMAIN inputs : inputs[p] = n})]]
    IN  /\ User /\ calls = 0 /\ Len(nodes) < MaxNodes
        /\ \E p \in DOMAIN operands : operands[p] > 0
        /\ \A p \in DOMAIN operands : Known(operands[p])
        /\ nodes' = Append(linked, node)
        /\ saved' = saved + Cardinality(node.saved)
        /\ UNCHANGED <<version, events, gradients, call, calls>>

\* release: a node nobody refers to gives up its saved values and its edges,
\* which may leave its inputs without a reference: the least set that is closed.
Lost(n, d, m) == (IF m = n THEN 1 ELSE 0) + Cardinality(Into(d, m))
Spreads(n, d) == \A m \in DOMAIN nodes : nodes[m].refs \in 1..Lost(n, d, m) => m \in d
Dead(n) == {m \in DOMAIN nodes : \A d \in SUBSET DOMAIN nodes : Spreads(n, d) => m \in d}
Release(n) ==
    LET dead == Dead(n)
    IN  /\ User /\ nodes[n].held /\ ~Leaf(n) /\ Event(TRUE)
        /\ nodes' = [m \in DOMAIN nodes |->
              LET less == [nodes[m] EXCEPT !.refs = @ - Lost(n, dead, m), !.held = @ /\ m # n]
              IN  IF m \in dead THEN [less EXCEPT !.saved = {}, !.inputs = <<>>] ELSE less]
        /\ saved' = saved - Cardinality(Saves(dead))
        /\ UNCHANGED <<version, gradients, call, calls>>

\* A write in place; only one to a tensor that is saved makes a difference.
Modify(v) ==
    /\ User /\ Known(v) /\ Event(TRUE)
    /\ \E n \in DOMAIN nodes : \E s \in nodes[n].saved : s.value = v
    /\ version' = [version EXCEPT ![v] = @ + 1]
    /\ UNCHANGED <<nodes, gradients, saved, call, calls>>

----------------------------------------------------------------------------
(* plan.                                                                    *)

\* The nodes reachable from output, and those of them that lead to a target.
Follows(s) == \A n \in s : \A p \in Edges(n) : nodes[n].inputs[p] \in s
Reachable(output) ==
    {n \in DOMAIN nodes : \A s \in SUBSET DOMAIN nodes : output \in s /\ Follows(s) => n \in s}
Needed(output, targets) == {n \in Reachable(output) : Reachable(n) \cap targets # {}}

Start(kind, output, targets, needed) ==
    /\ calls' = calls + 1
    /\ call' = [phase |-> "walking", kind |-> kind, output |-> output, needed |-> needed,
                targets |-> targets,
                pending |-> [n \in DOMAIN nodes |-> Cardinality(Into(needed, n))],
                ready |-> {output},
                incoming |-> [n \in DOMAIN nodes |-> IF n = output THEN 1 ELSE 0],
                made |-> <<[weight |-> 1, closes |-> 0]>>,
                owned |-> {}, results |-> <<>>, failed |-> FALSE, late |-> FALSE,
                received |-> [n \in DOMAIN nodes |-> -1], misused |-> FALSE]
    /\ UNCHANGED <<nodes, version, events, gradients, saved>>

\* grad returns the gradient of each input, all of which must be needed.
Differentiable(output) == nodes[output].held /\ ~Leaf(output)
Grad(output, targets) ==
    LET needed == Needed(output, targets)
    IN  /\ User /\ Differentiable(output)
        /\ Cardinality(targets) \in {1, 2} /\ \A n \in targets : nodes[n].held
        /\ targets \subseteq needed
        /\ Start("grad", output, targets, needed)

\* backward accumulates into every leaf it reaches.
Backward(output) ==
    LET targets == {n \in Reachable(output) : Leaf(n)}
        needed == Needed(output, targets)
    IN  /\ User /\ Differentiable(output)
        /\ targets # {}
        /\ Start("backward", output, targets, needed)

----------------------------------------------------------------------------
(* execute.                                                                 *)

Make(c, weight) == [c EXCEPT !.made = Append(@, [weight |-> weight, closes |-> 0])]
CloseHandle(c, t) == [c EXCEPT !.made[t].closes = @ + 1]
Newest(c) == Len(c.made)
Own(c) == [c EXCEPT !.owned = @ \cup {Newest(c)}]

KeepsOwning(c, t) == IF t \in c.owned THEN CloseHandle(c, t) ELSE c   \* mutant of ReleaseTemporary: it stays among the temporaries
ReleaseTemporary(c, t) ==
    IF t \in c.owned THEN [CloseHandle(c, t) EXCEPT !.owned = @ \ {t}] ELSE c

\* What fails in a step: the receiver, the recipe at a position, or inherit or
\* add after it, the release of the incoming handle, or of the saved values.
Faults == {<<"none", 0>>, <<"receive", 0>>, <<"release", 0>>, <<"saved", 0>>}
          \cup {"apply", "inherit"} \X {1, 2}

\* The recipe's contribution for position p: a copy gives its destination
\* zeros, everything else passes the weight on.
Factor(n, p) == IF nodes[n].recipe = "copy" /\ p = 1 THEN 0 ELSE 1

ReadyAtOnce(c, n) == [c EXCEPT !.pending[n] = @ - 1, !.ready = @ \cup {n}]   \* mutant of Arrived: the first contribution makes it ready
Arrived(c, n) ==
    [c EXCEPT !.pending[n] = @ - 1, !.ready = IF c.pending[n] = 1 THEN @ \cup {n} ELSE @]

\* The recipe's contribution for position p, from saves that may be stale.
Stale(n, p) ==
    \/ nodes[n].recipe = "mul" /\ nodes[n].saved = {}
    \/ \E s \in nodes[n].saved : s.position = p /\ version[s.value] # s.version
Contribute(c, n, p) ==
    Own(Make([c EXCEPT !.misused = @ \/ Stale(n, p)], Factor(n, p) * c.made[c.incoming[n]].weight))

\* The newest contribution is what input has got, or is added to that.
Combine(c, input) ==
    LET previous == c.incoming[input]
        summed == Own(Make(c, c.made[Newest(c)].weight + c.made[previous].weight))
        combined == ReleaseTemporary(ReleaseTemporary(summed, previous), Newest(c))
    IN  IF previous = 0 THEN [c EXCEPT !.incoming[input] = Newest(c)]
        ELSE [combined EXCEPT !.incoming[input] = Newest(combined)]

Deliver(c, n, p, fault) ==
    LET input == nodes[n].inputs[p]
        used == Contribute(c, n, p)
    IN  IF c.failed \/ p \notin Edges(n) \/ input \notin c.needed THEN c
        ELSE IF fault = <<"apply", p>> THEN [c EXCEPT !.failed = TRUE]
        ELSE IF fault = <<"inherit", p>> THEN [used EXCEPT !.failed = TRUE]
        ELSE Arrived(Combine(used, input), input)

\* ReadyDerivativeNodes: leaves first, then the node recorded last.
Priority(n) == IF Leaf(n) THEN MaxNodes + 1 ELSE n
Highest(n) == n \in call.ready /\ \A m \in call.ready : Priority(m) <= Priority(n)

Traversed(n) == \E p \in Edges(n) : call.kind = "backward" \/ nodes[n].inputs[p] \in call.needed
CheckedBefore(n) == ~nodes[n].consumed        \* mutant of Valid: versions were only checked when the call began
Valid(n) == /\ ~nodes[n].consumed
            /\ \A s \in nodes[n].saved : version[s.value] = s.version

\* receive: accumulateGradient adds in place into a gradient that is there.
Receives(n) == call.kind = "backward" /\ n \in call.targets

ReleasesForGood(n) == [nodes[n] EXCEPT !.saved = {}]     \* mutant of Consume: the node is not marked
Consume(n) == [nodes[n] EXCEPT !.saved = {}, !.consumed = TRUE]

Returned(n) == call.kind = "grad" /\ n \in call.targets
CanFail(n, fault) ==
    CASE fault[1] = "none" -> TRUE
      [] fault[1] = "receive" -> Receives(n) \/ Traversed(n)
      [] fault[1] = "release" -> call.incoming[n] \in call.owned /\ ~Returned(n)
      [] fault[1] = "saved" -> nodes[n].saved # {}
      [] OTHER -> fault[2] \in Edges(n) /\ nodes[n].inputs[fault[2]] \in call.needed

Visit(n, fault) ==
    LET seen == [call EXCEPT !.ready = @ \ {n}, !.received[n] = call.made[call.incoming[n]].weight]
        refused == fault[1] = "receive" \/ (Traversed(n) /\ ~Valid(n))
        c == IF refused THEN [seen EXCEPT !.failed = TRUE]
             ELSE Deliver(Deliver(seen, n, 1, fault), n, 2, fault)
        consumes == ~c.failed /\ Traversed(n) /\ (nodes[n].saved # {} \/ nodes[n].recipe = "copy")
        spent == [c EXCEPT !.late = @ \/ (consumes /\ fault[1] = "saved")]
    IN  /\ call.phase = "walking" /\ ~call.failed /\ Highest(n) /\ CanFail(n, fault)
        /\ Event(fault[1] # "none")
        /\ call' = IF c.failed \/ Returned(n) THEN spent
                   ELSE [ReleaseTemporary(spent, call.incoming[n]) EXCEPT !.failed = fault[1] = "release"]
        /\ IF consumes
           THEN nodes' = [nodes EXCEPT ![n] = Consume(n)] /\ saved' = saved - Cardinality(nodes[n].saved)
           ELSE UNCHANGED <<nodes, saved>>
        /\ IF Receives(n) /\ fault[1] # "receive"
           THEN /\ gradients' = gradients \cup {n}
                /\ version' = IF n \in gradients THEN [version EXCEPT ![-n] = @ + 1] ELSE version
           ELSE UNCHANGED <<gradients, version>>
        /\ UNCHANGED calls

\* The results are new handles; then every temporary closes, the results too
\* when anything failed, and at last the caller closes the seed.
Collected(c, upTo) ==
    LET gradient == [k \in 1..upTo |-> c.incoming[SetToSeq(c.targets)[k]]]
    IN  [c EXCEPT !.made = @ \o [k \in 1..upTo |-> [weight |-> @[gradient[k]].weight, closes |-> 0]],
                  !.results = [k \in 1..upTo |-> Newest(c) + k]]
Finish ==
    /\ call.phase = "walking" /\ (call.failed \/ call.ready = {})
    /\ \E upTo \in 0..Cardinality(call.targets) :
         LET wants == ~call.failed /\ call.kind = "grad"
             c == IF wants THEN Collected(call, upTo) ELSE call
             failed == call.failed \/ call.late \/ (wants /\ upTo < Cardinality(call.targets))
             closing == {1} \cup c.owned \cup (IF failed THEN ToSet(c.results) ELSE {})
         IN  /\ wants \/ upTo = 0
             /\ call' = [c EXCEPT !.phase = "done", !.failed = failed, !.owned = {},
                                  !.made = [t \in DOMAIN c.made |->
                                              IF t \in closing THEN [c.made[t] EXCEPT !.closes = @ + 1] ELSE c.made[t]],
                                  !.results = IF failed THEN <<>> ELSE @]
    /\ UNCHANGED <<nodes, version, events, gradients, saved, calls>>

Return ==
    /\ call.phase = "done"
    /\ call' = Idle
    /\ UNCHANGED <<nodes, version, events, gradients, saved, calls>>

----------------------------------------------------------------------------
Init ==
    /\ nodes = [n \in 1..Leaves |-> NewLeaf] /\ saved = 0 /\ events = 0
    /\ version = [v \in Tensors |-> 0]
    /\ gradients \in {{}, {1}}       \* one leaf may have been given a gradient
    /\ call = Idle /\ calls = 0

\* What is recorded: operands commute but in a copy, leaves are used in their
\* order, and untracked operands are added or are a gradient.
Canonical(recipe, a, b) ==
    /\ recipe = "copy" \/ a >= b
    /\ 0 \in {a, b} => recipe = "pass"
    /\ recipe = "copy" => a # b /\ a > 0
    /\ \A n \in {a, b} : n \in 2..Leaves => nodes[n - 1].refs > 1 \/ n - 1 \in {a, b}

Next ==
    \/ \E recipe \in Recipes, a, b \in Tensors : Canonical(recipe, a, b) /\ Record(recipe, <<a, b>>)
    \/ \E n \in DOMAIN nodes : Release(n)
    \/ \E v \in Tensors : Modify(v)
    \/ \E output \in DOMAIN nodes :
           \/ Backward(output)
           \/ \E targets \in SUBSET DOMAIN nodes : Grad(output, targets)
    \/ \E n \in DOMAIN nodes, fault \in Faults : Visit(n, fault)
    \/ Finish \/ Return

Spec == Init /\ [][Next]_vars

----------------------------------------------------------------------------
(* Properties.                                                              *)

\* The number of paths from the output to each node, copies cut.
Paths ==
    LET P[n \in DOMAIN nodes] ==
          IF n = call.output THEN 1
          ELSE MapThenSumSet(LAMBDA e : Factor(e[1], e[2]) * P[e[1]], Into(call.needed, n))
    IN  P

\* A node is visited once, with all its contributions summed, so no leaf and
\* no result gets part of its gradient; and a call succeeds only when it
\* visited every node that leads to a target.
GradientsAreWhole ==
    call # Idle =>
        /\ \A n \in DOMAIN nodes : call.received[n] # -1 => call.received[n] = Paths[n]
        /\ call.phase = "done" /\ ~call.failed =>
             /\ \A n \in call.needed : call.received[n] # -1
             /\ call.kind = "grad" => Len(call.results) = Cardinality(call.targets)
             /\ \A k \in DOMAIN call.results :
                  call.made[call.results[k]].weight = Paths[SetToSeq(call.targets)[k]]

\* Wherever a traversal fails, each handle it made closes exactly once, and
\* only the results of a call that succeeded stay open.
HandlesCloseOnce ==
    call # Idle => \A t \in DOMAIN call.made :
        IF call.phase = "done"
        THEN call.made[t].closes = (IF t \in ToSet(call.results) THEN 0 ELSE 1)
        ELSE call.made[t].closes + (IF t \in call.owned \cup {1} THEN 1 ELSE 0) = 1

\* No contribution is computed from a saved value that was modified since, or
\* that an earlier traversal consumed, also when this traversal itself
\* modified it or the earlier one failed halfway.
SavedValuesAreCurrent == call # Idle => ~call.misused

\* #savedValues counts what live nodes still pin; a node that can be
\* traversed has all its saves, a consumed or released one none.
SavesAreBalanced ==
    /\ saved = Cardinality(Saves(DOMAIN nodes))
    /\ \A n \in DOMAIN nodes : nodes[n].recipe = "mul" =>
         Cardinality(nodes[n].saved) = IF nodes[n].consumed \/ nodes[n].refs = 0 THEN 0 ELSE Cardinality(Edges(n))

\* Handles and saves are given back exactly once, wherever a call fails.
ReleasedExactlyOnce == HandlesCloseOnce /\ SavesAreBalanced
=============================================================================
