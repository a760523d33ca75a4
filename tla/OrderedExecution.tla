-------------------------- MODULE OrderedExecution --------------------------
(***************************************************************************)
(* What a RuntimeSession promises about the work it accepts, without any   *)
(* of the machinery that keeps the promise: requests are numbered in the   *)
(* order the session accepts them, their outcomes are published in that    *)
(* order, the pins of a request are released once and only after its       *)
(* publication, and the join returned by close() completes only when       *)
(* every accepted request has been retired.                                *)
(***************************************************************************)
EXTENDS Naturals

CONSTANT MaxRequests      \* bound on the number of accepted requests

VARIABLES
    accepted,             \* how many requests the session has accepted
    published,            \* the requests whose outcome is published
    retired,              \* the requests whose pins are released
    session               \* "open", "closing" or "joined"

vars == <<accepted, published, retired, session>>

Init ==
    /\ accepted = 0
    /\ published = {}
    /\ retired = {}
    /\ session = "open"

Accept ==
    /\ session = "open"
    /\ accepted < MaxRequests
    /\ accepted' = accepted + 1
    /\ UNCHANGED <<published, retired, session>>

\* Only the oldest unpublished request can be published. A request without
\* outstanding physical work is retired in the same step.
Publish(r) ==
    /\ r \in (1..accepted) \ published
    /\ 1..(r - 1) \subseteq published
    /\ published' = published \cup {r}
    /\ retired' \in {retired, retired \cup {r}}
    /\ UNCHANGED <<accepted, session>>

Retire(r) ==
    /\ r \in published \ retired
    /\ retired' = retired \cup {r}
    /\ UNCHANGED <<accepted, published, session>>

Close ==
    /\ session = "open"
    /\ session' = "closing"
    /\ UNCHANGED <<accepted, published, retired>>

Join ==
    /\ session = "closing"
    /\ retired = 1..accepted
    /\ session' = "joined"
    /\ UNCHANGED <<accepted, published, retired>>

Next ==
    \/ Accept \/ Close \/ Join
    \/ \E r \in 1..MaxRequests : Publish(r) \/ Retire(r)

Spec == Init /\ [][Next]_vars
=============================================================================
