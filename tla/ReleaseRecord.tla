--------------------------- MODULE ReleaseRecord ---------------------------
(***************************************************************************)
(* The release record: the hash-linked Git history that remembers what a   *)
(* publication was allowed to do and what it saw happen.  This module is   *)
(* the replay rule, one pair of operators for each kind of event: May...   *)
(* is what the replay requires of the event, the other is the state after  *)
(* it (src/scripts/release-record-data.mjs).                               *)
(*                                                                         *)
(* Digests and evidence are left out: an event stands for its document.    *)
(* One candidate is released, so the retired candidates and effects are a  *)
(* single flag.                                                            *)
(***************************************************************************)
EXTENDS Naturals, Sequences, FiniteSets

CONSTANT Operations      \* Identities of publication operations

NoOperation == 0

ASSUME OperationsAreIdentities == Operations \subseteq Nat \ {NoOperation}

\* head      the number of commits: every append makes one, so it names the tip
\* calls     every call ever intended, in order, with the outcome last decided
\* retired   a recovery has handed off the candidate
Empty == [head |-> 0, active |-> NoOperation, retired |-> FALSE, calls |-> <<>>,
          phase |-> [o \in Operations |-> "new"],
          effects |-> [o \in Operations |-> {}]]

CallsOf(j, o)     == {c \in DOMAIN j.calls : j.calls[c].operation = o}
Blocking(j)       == {c \in DOMAIN j.calls : j.calls[c].blocks}
Conflicts(j)      == {c \in DOMAIN j.calls : j.calls[c].outcome = "conflict"}
Known(j, calls)   == {j.calls[c].effect : c \in {d \in calls : j.calls[d].outcome = "effect"}}
Everywhere(j)     == Known(j, DOMAIN j.calls)

Committed(j) == [j EXCEPT !.head = @ + 1]

\* Nothing blocks: no call's outcome is open except those a handoff accepted.
Settled(j) == Blocking(j) = {}

MayOpen(j, o) == /\ j.active = NoOperation
                 /\ Settled(j)
                 /\ j.phase[o] = "new"
                 /\ ~j.retired

Open(j, o, effects) ==
  Committed([j EXCEPT !.active = o, !.phase[o] = "active", !.effects[o] = effects])

MayIntend(j, o, e) == /\ j.active = o
                      /\ Settled(j)
                      /\ e \in j.effects[o]
                      /\ e \notin Known(j, CallsOf(j, o))

Intend(j, o, e) ==
  Committed([j EXCEPT !.calls = Append(@,
    [operation |-> o, effect |-> e, outcome |-> "unknown", observed |-> FALSE,
     blocks |-> TRUE, commit |-> j.head + 1])])

\* What a call's outcome becomes: two settled outcomes that disagree are a
\* conflict, and only a reconciliation decides one.
Decided(prior, outcome, basis) ==
  IF basis # "reconciliation"
     /\ \/ prior = "conflict"
        \/ prior # "unknown" /\ outcome # "unknown" /\ prior # outcome
  THEN "conflict"
  ELSE outcome

\* Any call may be observed at any time, also one of a closed operation.
Observe(j, c, outcome, basis) ==
  LET now == Decided(j.calls[c].outcome, outcome, basis)
  IN  Committed([j EXCEPT !.calls[c].outcome = now, !.calls[c].observed = TRUE,
                          !.calls[c].blocks = now \in {"unknown", "conflict"}])

MayClose(j, o, result) ==
  /\ j.active = o
  /\ Settled(j)
  /\ result = "completed" => j.effects[o] \subseteq Known(j, CallsOf(j, o))

Close(j, o, result) == Committed([j EXCEPT !.active = NoOperation, !.phase[o] = result])

Unresolved(j, o) == {c \in CallsOf(j, o) : j.calls[c].outcome = "unknown"}

\* A handoff accepts that some outcomes will never be known.  Each such call
\* has been looked at once, one of them still blocks, and none is in conflict.
MayHandOff(j, o) == /\ Conflicts(j) \cap CallsOf(j, o) = {}
                    /\ \A c \in Unresolved(j, o) : j.calls[c].observed
                    /\ Unresolved(j, o) \cap Blocking(j) # {}

\* mutant of HandOff: the accepted calls are forgotten and the candidate stays
HandOffOnly(j, o) ==
  Committed([j EXCEPT
    !.calls = [c \in DOMAIN @ |->
                 IF c \in Unresolved(j, o) THEN [@[c] EXCEPT !.blocks = FALSE] ELSE @[c]],
    !.active = IF @ = o THEN NoOperation ELSE @,
    !.phase[o] = "retired"])
HandOff(j, o) ==
  Committed([j EXCEPT
    !.calls = [c \in DOMAIN @ |->
                 IF c \in Unresolved(j, o) THEN [@[c] EXCEPT !.blocks = FALSE] ELSE @[c]],
    !.active = IF @ = o THEN NoOperation ELSE @,
    !.phase[o] = "retired",
    !.retired = TRUE])

\* The receipt readers act on: the tip, and what is open or in conflict there.
Clear(j) == Settled(j) /\ Conflicts(j) = {}
=============================================================================
