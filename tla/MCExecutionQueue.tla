-------------------------- MODULE MCExecutionQueue --------------------------
(* The queue of a session, and as behaviours of their own the scripts that   *)
(* a host sends to a Python worker: they share nothing but the session's     *)
(* close(), which the queue shows to complete.                               *)
EXTENDS ExecutionQueue, PythonConnection

VARIABLE subject

\* A session that the Python worker does not reach is as good as any.
InitEither == /\ subject \in {"queue", "python"} /\ Init /\ InitPython
              /\ subject = "python" => gpu = "local"
NextEither ==
    \/ subject = "queue" /\ Next /\ UNCHANGED <<subject, pythonVars>>
    \/ subject = "python" /\ NextPython /\ UNCHANGED <<subject, vars>>

\* Neither fairness asks anything of a system that has not been used.
FairEither ==
    /\ InitEither /\ [][NextEither]_<<subject, vars, pythonVars>>
    /\ Fairness /\ FairnessPython
=============================================================================
