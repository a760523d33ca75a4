------------------------- MODULE MCInvocationStorage -------------------------
(* Invocation storage over linear memory, and the preparation of backends.  *)
(* A session prepares before it executes and shares nothing else with its   *)
(* invocations, so a behaviour is one of either.                            *)
EXTENDS InvocationStorage, BackendPreparation

VARIABLE subject
subjectVars == <<subject, allVars, backendVars>>

InitEither == subject \in {"storage", "preparation"} /\ InitInvocation /\ InitPreparation
                /\ (subject = "storage" => target = "cpu" /\ served = [defects |-> {}, forced |-> "none", simd |-> TRUE])
                /\ (subject = "preparation" => device = "memory")
NextEither ==
    \/ subject = "storage" /\ NextInvocation /\ UNCHANGED <<subject, backendVars>>
    \/ subject = "preparation" /\ NextPreparation /\ UNCHANGED <<subject, allVars>>

SpecEither == InitEither /\ [][NextEither]_subjectVars
=============================================================================
