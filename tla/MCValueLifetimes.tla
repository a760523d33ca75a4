-------------------------- MODULE MCValueLifetimes --------------------------
(* Model-checking instance of ValueLifetimes: two tensors of one projected  *)
(* shape, or one tensor with every shape. The scope of a behaviour is one   *)
(* or the other.                                                            *)
EXTENDS ValueLifetimes, TLC

VARIABLE scope            \* "tensors", or the only family
scopeVars == <<scope, vars>>

InScope ==
    IF scope = "tensors"
    THEN /\ \A f \in Families : "empty" \notin open[f]
         /\ \A s \in Storages : heap[s].material = "host" => heap[s].shape = "one"
    ELSE \A f \in Families \ {scope} : open[f] = {}

InitScoped == Init /\ scope \in Families \cup {"tensors"}
NextScoped == Next /\ UNCHANGED scope /\ InScope'
SpecScoped == InitScoped /\ [][NextScoped]_scopeVars

\* Families differ in nothing but their identity.
Symmetry == Permutations(Families)
=============================================================================
