---------------------- MODULE ReleasePublicationProofs ----------------------
(***************************************************************************)
(* What the release protocol keeps, for any list of GitHub effects, any    *)
(* number of operations, losses and notes (scripts/release-publication.mjs *)
(* and what it uses): every effect is asked for at most once, what the     *)
(* record says of a call is true, and a public release is whole.           *)
(*                                                                         *)
(* The idea.  A call that may still send its request is one of two: the    *)
(* npm call that was handed off, while nobody has appended to the record   *)
(* since its intent or a client holds the approval, and the GitHub call    *)
(* whose write is next.  Every other call is what its requests are, and it *)
(* is dead when they all came to nothing.  Dead calls stay dead.  So it is *)
(* enough that a call is dead when a later one for its effect is intended: *)
(* a call the record says had no effect is dead, and a call of another     *)
(* operation is, if its effect is one that the open operation still owes.  *)
(* Who may send, and what the receipts say, hangs on the steps of the npm  *)
(* client; those are followed from the hand-off to the receipt.            *)
(*                                                                         *)
(* The same for what the consume job does before: the pages it runs, where *)
(* everything a page is believed for has its own name on it, and the       *)
(* package it obtains for them, which is what has been looked at so far.   *)
(***************************************************************************)
EXTENDS MCReleasePublication, SequenceTheorems, FiniteSetTheorems, WellFoundedInduction, TLAPS

-----------------------------------------------------------------------------
(* The types                                                               *)

Outcomes == {"unknown", "none", "effect", "conflict"}
CallRecord == [operation : Operations, effect : Effects, outcome : Outcomes,
               observed : BOOLEAN, blocks : BOOLEAN, commit : Nat]
Phases == {"new", "active", "completed", "abandoned", "retired"}
Journal == [head : Nat, active : Operations \union {NoOperation}, retired : BOOLEAN,
            calls : Seq(CallRecord), phase : [Operations -> Phases],
            effects : [Operations -> SUBSET Effects]]
RequestRecord == [call : Nat, state : {"flying", "landed", "visible", "dropped"}]
JobStates == {"waiting", "start", "opened", "checked", "waits", "looks", "selected",
              "inspected", "read", "next", "intended", "written", "answered"} \union Ends
StepStates == {"out", "ready", "waiting", "selected", "claimed", "approved", "sent",
               "done", "dead"}
Sessions == [human : BOOLEAN, claim : 0..2, ready : BOOLEAN,
             receipt : {"missing", "unknown", "none", "effect"}, passed : BOOLEAN]
Recorders == [head : Nat, complete : SUBSET Effects, call : Nat,
              outcome : {"unknown", "none", "effect"}]
Handoffs == [call : Nat, commit : Nat]

Typed ==
  /\ journal \in Journal
  /\ requests \in Seq(RequestRecord)
  /\ run \in Operations \union {NoOperation}
  /\ job \in [Roles -> JobStates]
  /\ recorder \in Recorders
  /\ handoff \in Handoffs
  /\ step \in [Clients -> StepStates]
  /\ session \in Sessions

-----------------------------------------------------------------------------
(* The jobs and the client                                                 *)

\* The client's job is next; it is going on; no client does anything.
ClientIsNext == job["admit"] = "success" /\ job["client"] = "waiting"
ClientRuns   == job["client"] \in {"start", "waits"}
ClientsAtRest       == \A i \in Clients : step[i] \in {"out", "done", "dead"}
NewSession   == session = NoSession /\ step = [i \in Clients |-> "out"]
Finished(i)  == step[i] \in {"done", "dead"}

\* The admitted npm call: its outcome is known; nothing was sent for it; a
\* client may send for it.
HandoffDecided == handoff.call # NoCall /\ journal.calls[handoff.call].outcome # "unknown"
NothingSent    == RequestOf(handoff.call) = {}
Approved       == \E i \in Clients : step[i] = "approved"

\* Jobs start behind those they need.
JobsInOrder ==
  /\ Over \/ run \in Operations
  /\ job["admit"] # "waiting"
  /\ job["client"] \in Ends \union {"waiting", "start", "waits"}
  /\ job["admit"] \notin Ends => \A r \in Roles \ {"admit"} : job[r] = "waiting"
  /\ ClientRuns => job["admit"] = "success"
  /\ job["observe"] # "waiting" => job["client"] \in Ends
  /\ job["complete"] # "waiting" => job["observe"] \in Ends

\* What is handed off is a call for npm, and its commit is on record.
HandoffIsNpm ==
  /\ handoff.call # NoCall => /\ handoff.call \in DOMAIN journal.calls
                              /\ journal.calls[handoff.call].effect = Npm
  /\ handoff.commit <= journal.head

\* A run that is admitted finds nobody left in the client's directory.
SessionsAreNew ==
  /\ job["admit"] \in {"opened", "checked"} \/ ClientIsNext => NewSession
  /\ job["admit"] = "start" /\ (handoff.call = NoCall \/ HandoffDecided) => NewSession

\* The outcome of the npm call is decided behind its clients.
DecidedIsQuiet ==
  /\ HandoffDecided => ClientsAtRest
  /\ ClientIsNext \/ ClientRuns => ~HandoffDecided

\* The steps of the clients and the files they share.
ClientsInOrder ==
  /\ session.human => step[2] = "out" /\ step[1] \notin {"selected", "claimed"}
  /\ ~session.human =>
       \A i \in Clients : step[i] \in {"claimed", "approved", "sent"} => session.claim = i
  /\ ~session.human /\ session.claim = 1 =>
       step[1] \in {"claimed", "approved", "sent", "done", "dead"}
  /\ ~session.human /\ ~ClientRuns => \A i \in Clients : step[i] \in {"out", "dead"}
  /\ session.human /\ step[1] \notin {"out", "done", "dead"} => handoff.call # NoCall
  /\ session.human /\ step[1] \notin {"done", "dead"} => session.receipt = "missing"
  /\ Approved => handoff.call # NoCall /\ (session.human \/ session.ready)
  /\ step[1] = "out" => ~session.ready

\* Whoever may still come to send is the first.
FirstToSend ==
  /\ \A i \in Clients : step[i] \in {"claimed", "approved"} => NothingSent
  /\ session.human /\ step[1] \in {"ready", "waiting"} => NothingSent
  /\ ClientRuns /\ session.human /\ step[1] = "out" => NothingSent
  /\ ClientRuns /\ ~session.human /\ session.claim = 0 => NothingSent
  /\ ClientRuns /\ ~session.human /\ ~session.ready => NothingSent
  /\ ClientIsNext => NothingSent

\* What the receipt says of the npm call.
ReceiptsAreTrue ==
  /\ session.receipt = "effect" => Arrived(handoff.call)
  /\ session.receipt = "none" =>
       /\ NothingSent /\ ~Approved
       /\ session.human => Finished(1)
       /\ ~session.human => \/ session.claim # 0 /\ Finished(session.claim)
                            \/ ~session.ready /\ Finished(1)

Writing == job["complete"] \in {"intended", "written", "answered"}

\* What the recording roles know and are about to write down.
RecorderIsRight ==
  /\ Writing \/ job["complete"] \in {"next", "checked"} =>
       Npm \in recorder.complete /\ recorder.complete \subseteq Landed
  /\ Writing => /\ Remaining # {} /\ recorder.call \in DOMAIN journal.calls
                /\ journal.calls[recorder.call].effect = NextEffect
  /\ job["complete"] = "intended" => RequestOf(recorder.call) = {}
  /\ job["complete"] = "answered" =>
       /\ recorder.outcome = "none" => RequestOf(recorder.call) = {}
       /\ recorder.outcome = "effect" => Arrived(recorder.call)
  /\ job["observe"] = "read" =>
       handoff.call # NoCall /\ recorder.outcome \in {"unknown", session.receipt}

-----------------------------------------------------------------------------
(* The record and the world                                                *)

MaySend(c) ==
  \/ c = handoff.call /\ (journal.head = handoff.commit \/ Approved)
  \/ c = recorder.call /\ job["complete"] = "intended"

Dead(c) == ~MaySend(c) /\ \A n \in RequestOf(c) : requests[n].state = "dropped"

RequestsAreOfCalls ==
  /\ \A n \in DOMAIN requests : requests[n].call \in DOMAIN journal.calls
  /\ \A n, m \in DOMAIN requests : requests[n].call = requests[m].call => n = m

OutcomesHold ==
  \A c \in DOMAIN journal.calls :
    /\ journal.calls[c].outcome = "effect" => Arrived(c)
    /\ journal.calls[c].outcome = "none" => Dead(c)
    /\ journal.calls[c].outcome = "conflict" => journal.calls[c].blocks
    /\ journal.calls[c].outcome = "unknown" /\ ~journal.calls[c].blocks =>
         journal.retired /\ journal.calls[c].operation # journal.active

\* A call that another one for its effect follows is dead.
EarlierIsDead ==
  \A c, d \in DOMAIN journal.calls :
    c < d /\ journal.calls[c].effect = journal.calls[d].effect => Dead(c)

\* What the open operation owes, no other can still bring about.
OthersAreDead ==
  journal.active # NoOperation =>
    \A c \in DOMAIN journal.calls :
      /\ journal.calls[c].operation # journal.active
      /\ journal.calls[c].effect \in journal.effects[journal.active]
      => Dead(c)

\* What the open operation does not owe has landed, as has all that comes
\* before an effect that was called for, and all of a completed operation.
OrderIsKept ==
  /\ journal.active # NoOperation => Effects \ journal.effects[journal.active] \subseteq Landed
  /\ \A c \in DOMAIN journal.calls : \A i \in DOMAIN Order :
       journal.calls[c].effect = Order[i] => \A k \in 1..(i - 1) : Order[k] \in Landed
  /\ \A o \in Operations : journal.phase[o] = "completed" => Effects \subseteq Landed

Clientele == JobsInOrder /\ HandoffIsNpm /\ SessionsAreNew /\ DecidedIsQuiet
          /\ ClientsInOrder /\ FirstToSend /\ ReceiptsAreTrue /\ RecorderIsRight
Truth == RequestsAreOfCalls /\ OutcomesHold /\ EarlierIsDead /\ OthersAreDead /\ OrderIsKept

IInv == Typed /\ Clientele /\ Truth

-----------------------------------------------------------------------------
(* The order of the effects                                                *)

\* A set of naturals that is not empty has a least element, and Min is it.
LEMMA MinIsLeast ==
  ASSUME NEW S \in SUBSET Nat, S # {}
  PROVE  Min(S) \in S /\ \A k \in S : Min(S) <= k
<1>1. PICK x \in S : \A y \in S : ~(<<y, x>> \in OpToRel(<, Nat))
  BY WFMin, NatLessThanWellFounded, Zenon
<1>2. \A y \in S : x <= y
  <2> SUFFICES ASSUME NEW y \in S PROVE x <= y
    OBVIOUS
  <2>1. ~(<<y, x>> \in {ss \in Nat \X Nat : ss[1] < ss[2]})
    BY <1>1 DEF OpToRel
  <2> QED BY <2>1
<1> QED BY <1>2 DEF Min

\* The npm effect is the first, and no effect is there twice.
LEMMA OrderFacts ==
  /\ Order \in Seq(Effects) /\ DOMAIN Order = 1..Len(Order) /\ Len(Order) \in Nat
  /\ 1 \in DOMAIN Order /\ Order[1] = Npm /\ Npm \in Effects
  /\ \A i, j \in DOMAIN Order : Order[i] = Order[j] => i = j
<1> DEFINE G == {Github[i] : i \in DOMAIN Github}
<1>1. Github \in Seq(G) /\ Len(Github) \in Nat /\ DOMAIN Github = 1..Len(Github)
  BY GithubIsAList, LenProperties
<1>2. Github \in Seq(G \union {Npm}) /\ <<Npm>> \in Seq(G \union {Npm}) /\ Len(<<Npm>>) = 1
  BY <1>1
<1>3. /\ Order \in Seq(G \union {Npm}) /\ Len(Order) = 1 + Len(Github)
      /\ \A i \in 1..Len(Order) : Order[i] = IF i <= 1 THEN Npm ELSE Github[i - 1]
  BY <1>2, ConcatProperties DEF Order
<1>4. DOMAIN Order = 1..Len(Order) /\ Len(Order) \in Nat
  BY <1>3, LenProperties
<1>5. 1 \in DOMAIN Order /\ Order[1] = Npm
  BY <1>1, <1>3, <1>4
<1>6. \A i, j \in DOMAIN Order : Order[i] = Order[j] => i = j
  <2> SUFFICES ASSUME NEW i \in DOMAIN Order, NEW j \in DOMAIN Order, Order[i] = Order[j]
               PROVE  i = j
    OBVIOUS
  <2>1. CASE i <= 1 \/ j <= 1
    BY <2>1, <1>1, <1>3, <1>4, NpmIsApart
  <2>2. CASE ~(i <= 1 \/ j <= 1)
    <3>1. /\ i - 1 \in DOMAIN Github /\ j - 1 \in DOMAIN Github
          /\ Github[i - 1] = Github[j - 1]
      BY <2>2, <1>1, <1>3, <1>4
    <3>2. i - 1 = j - 1
      BY <3>1, EffectsAreDistinct
    <3> QED BY <3>2, <1>4
  <2> QED BY <2>1, <2>2
<1>7. Order \in Seq(Effects)
  <2>1. \A i \in 1..Len(Order) : Order[i] \in Effects
    BY <1>4 DEF Effects
  <2> QED BY <2>1, <1>3, SeqDef, <1>4
<1> QED BY <1>4, <1>5, <1>6, <1>7 DEF Effects

\* Everything that comes before the next effect is done.
LEMMA NextEffectFacts ==
  ASSUME Remaining # {}
  PROVE  \E i \in DOMAIN Order :
           /\ NextEffect = Order[i] /\ NextEffect \notin recorder.complete
           /\ \A k \in 1..(i - 1) : Order[k] \in recorder.complete
<1>1. Remaining \in SUBSET Nat
  BY OrderFacts DEF Remaining
<1>2. Min(Remaining) \in Remaining /\ \A k \in Remaining : Min(Remaining) <= k
  BY <1>1, MinIsLeast
<1>3. PICK i \in DOMAIN Order : i = Min(Remaining)
  BY <1>2 DEF Remaining
<1>4. \A k \in 1..(i - 1) : Order[k] \in recorder.complete
  <2> SUFFICES ASSUME NEW k \in 1..(i - 1) PROVE Order[k] \in recorder.complete
    OBVIOUS
  <2>1. k \in DOMAIN Order /\ ~(i <= k)
    BY OrderFacts
  <2> QED BY <2>1, <1>2, <1>3 DEF Remaining
<1> QED BY <1>2, <1>3, <1>4 DEF NextEffect, Remaining

-----------------------------------------------------------------------------
(* What the events do to the record                                        *)

\* The calls of a record are those up to the last one.
LEMMA CallsOfJournal ==
  ASSUME NEW j \in Journal
  PROVE  /\ DOMAIN j.calls = 1..Len(j.calls) /\ Len(j.calls) \in Nat
         /\ \A c \in DOMAIN j.calls : j.calls[c] \in CallRecord
         /\ Len(j.calls) + 1 \notin DOMAIN j.calls /\ NoCall \notin DOMAIN j.calls
         /\ DOMAIN j.calls \subseteq Nat
<1>1. j.calls \in Seq(CallRecord)
  BY DEF Journal
<1>2. DOMAIN j.calls = 1..Len(j.calls) /\ Len(j.calls) \in Nat
  BY <1>1, LenProperties
<1>3. \A c \in DOMAIN j.calls : j.calls[c] \in CallRecord
  BY <1>1, <1>2, ElementOfSeq
<1> QED BY <1>2, <1>3 DEF NoCall

\* Calls that are changed one by one are calls of the same number.
LEMMA CallsReplaced ==
  ASSUME NEW j \in Journal, NEW f \in [DOMAIN j.calls -> CallRecord]
  PROVE  f \in Seq(CallRecord) /\ DOMAIN f = DOMAIN j.calls /\ Len(f) = Len(j.calls)
<1>1. DOMAIN j.calls = 1..Len(j.calls) /\ Len(j.calls) \in Nat
  BY CallsOfJournal
<1>2. f \in Seq(CallRecord)
  BY <1>1, SeqDef
<1> QED BY <1>1, <1>2, LenProperties

\* Opening an operation says what it may do, and no more.
LEMMA OpenFacts ==
  ASSUME NEW j \in Journal, NEW o \in Operations, NEW E \in SUBSET Effects, NEW k, k = Open(j, o, E)
  PROVE  /\ k \in Journal /\ k.head = j.head + 1 /\ k.active = o /\ k.retired = j.retired
         /\ k.calls = j.calls /\ k.effects[o] = E
         /\ \A p \in Operations : k.phase[p] = IF p = o THEN "active" ELSE j.phase[p]
<1>1. k = [j EXCEPT !.head = j.head + 1, !.active = o,
                    !.phase = [j.phase EXCEPT ![o] = "active"],
                    !.effects = [j.effects EXCEPT ![o] = E]]
  BY DEF Open, Committed, Journal
<1>2. /\ j.head + 1 \in Nat /\ [j.phase EXCEPT ![o] = "active"] \in [Operations -> Phases]
      /\ [j.effects EXCEPT ![o] = E] \in [Operations -> SUBSET Effects]
  BY DEF Journal, Phases
<1>3. k \in Journal
  BY <1>1, <1>2 DEF Journal
<1>4. /\ k.phase = [j.phase EXCEPT ![o] = "active"] /\ k.effects = [j.effects EXCEPT ![o] = E]
  BY <1>1 DEF Journal
<1> QED BY <1>1, <1>3, <1>4 DEF Journal

\* An intent is a call behind the others, and it blocks.
LEMMA IntendFacts ==
  ASSUME NEW j \in Journal, NEW o \in Operations, NEW e \in Effects, NEW k, k = Intend(j, o, e)
  PROVE  LET n == Len(j.calls) + 1 IN
         /\ k \in Journal /\ k.head = j.head + 1 /\ k.active = j.active
         /\ k.retired = j.retired /\ k.phase = j.phase /\ k.effects = j.effects
         /\ DOMAIN k.calls = DOMAIN j.calls \union {n} /\ n \notin DOMAIN j.calls
         /\ \A c \in DOMAIN j.calls : k.calls[c] = j.calls[c]
         /\ k.calls[n].operation = o /\ k.calls[n].effect = e
         /\ k.calls[n].outcome = "unknown" /\ k.calls[n].blocks
<1> DEFINE r == [operation |-> o, effect |-> e, outcome |-> "unknown", observed |-> FALSE,
                 blocks |-> TRUE, commit |-> j.head + 1]
           s == Append(j.calls, r)
           n == Len(j.calls) + 1
<1>1. r \in CallRecord
  BY DEF CallRecord, Outcomes, Journal
<1>2. j.calls \in Seq(CallRecord)
  BY DEF Journal
<1>3. /\ s \in Seq(CallRecord) /\ Len(s) = n /\ s[n] = r
      /\ \A c \in 1..Len(j.calls) : s[c] = j.calls[c]
  BY <1>1, <1>2, AppendProperties
<1>4. DOMAIN s = 1..n
  BY <1>3, LenProperties
<1>5. k = [j EXCEPT !.head = j.head + 1, !.calls = s]
  BY DEF Intend, Committed, Journal
<1>6. k \in Journal
  <2> HIDE DEF s
  <2>1. j.head + 1 \in Nat
    BY DEF Journal
  <2> QED BY <1>5, <1>3, <2>1 DEF Journal
<1>7. /\ k.head = j.head + 1 /\ k.active = j.active /\ k.retired = j.retired
      /\ k.phase = j.phase /\ k.effects = j.effects /\ k.calls = s
  <2> HIDE DEF s
  <2> QED BY <1>5 DEF Journal
<1>8. DOMAIN s = DOMAIN j.calls \union {n} /\ n \notin DOMAIN j.calls
  BY <1>4, CallsOfJournal
<1>9. \A c \in DOMAIN j.calls : s[c] = j.calls[c]
  BY <1>3, CallsOfJournal
<1>10. /\ r.operation = o /\ r.effect = e /\ r.outcome = "unknown" /\ r.blocks
  OBVIOUS
<1> HIDE DEF s, r
<1>11. /\ k.calls[n].operation = o /\ k.calls[n].effect = e
       /\ k.calls[n].outcome = "unknown" /\ k.calls[n].blocks
  BY <1>3, <1>7, <1>10
<1> QED BY <1>6, <1>7, <1>8, <1>9, <1>11

\* An observation changes what the record says of one call.
LEMMA ObserveFacts ==
  ASSUME NEW j \in Journal, NEW c \in DOMAIN j.calls, NEW basis,
         NEW found \in {"unknown", "none", "effect"}, NEW k, k = Observe(j, c, found, basis)
  PROVE  LET now == Decided(j.calls[c].outcome, found, basis) IN
         /\ k \in Journal /\ k.head = j.head + 1 /\ k.active = j.active
         /\ k.retired = j.retired /\ k.phase = j.phase /\ k.effects = j.effects
         /\ DOMAIN k.calls = DOMAIN j.calls
         /\ \A d \in DOMAIN j.calls \ {c} : k.calls[d] = j.calls[d]
         /\ k.calls[c].operation = j.calls[c].operation
         /\ k.calls[c].effect = j.calls[c].effect
         /\ k.calls[c].outcome = now /\ now \in {found, "conflict"}
         /\ (now = "conflict" => k.calls[c].blocks) /\ (now = "unknown" => k.calls[c].blocks)
         /\ (found = "unknown" /\ j.calls[c].outcome = "unknown" => now = "unknown")
<1> DEFINE now == Decided(j.calls[c].outcome, found, basis)
           b == now \in {"unknown", "conflict"}
           r == [j.calls[c] EXCEPT !.outcome = now, !.observed = TRUE, !.blocks = b]
           s == [j.calls EXCEPT ![c] = r]
<1>1. j.calls[c] \in CallRecord /\ j.calls \in [DOMAIN j.calls -> CallRecord]
  <2>1. j.calls \in Seq(CallRecord)
    BY DEF Journal
  <2> QED BY <2>1, CallsOfJournal, LenProperties
<1>2. now \in {found, "conflict"} /\ now \in Outcomes
  BY DEF Decided, Outcomes
<1>3. found = "unknown" /\ j.calls[c].outcome = "unknown" => now = "unknown"
  BY DEF Decided
<1>b. b \in BOOLEAN /\ (now \in {"unknown", "conflict"} => b)
  OBVIOUS
<1> HIDE DEF now, b
<1>4. /\ r \in CallRecord /\ r.operation = j.calls[c].operation
      /\ r.effect = j.calls[c].effect /\ r.outcome = now /\ r.blocks = b
  BY <1>1, <1>2, <1>b DEF CallRecord
<1>5. k = [j EXCEPT !.head = j.head + 1, !.calls = s]
  BY <1>1 DEF Observe, Committed, Journal, CallRecord, now, b
<1> HIDE DEF r
<1>6. /\ s \in [DOMAIN j.calls -> CallRecord] /\ s[c] = r
      /\ \A d \in DOMAIN j.calls \ {c} : s[d] = j.calls[d]
  BY <1>1, <1>4
<1> HIDE DEF s
<1>7. s \in Seq(CallRecord) /\ DOMAIN s = DOMAIN j.calls
  BY <1>6, CallsReplaced
<1>8. /\ k \in Journal /\ k.head = j.head + 1 /\ k.active = j.active /\ k.retired = j.retired
      /\ k.phase = j.phase /\ k.effects = j.effects /\ k.calls = s
  <2>1. j.head + 1 \in Nat
    BY DEF Journal
  <2> QED BY <1>5, <1>7, <2>1 DEF Journal
<1>9. (now = "conflict" => r.blocks) /\ (now = "unknown" => r.blocks)
  BY <1>4, <1>b
<1> QED BY <1>2, <1>3, <1>4, <1>6, <1>7, <1>8, <1>9 DEF now

\* Closing leaves the calls alone.
LEMMA CloseFacts ==
  ASSUME NEW j \in Journal, NEW o \in Operations, NEW result \in {"completed", "abandoned"}, NEW k, k = Close(j, o, result)
  PROVE  /\ k \in Journal /\ k.head = j.head + 1 /\ k.active = NoOperation
         /\ k.retired = j.retired /\ k.calls = j.calls /\ k.effects = j.effects
         /\ \A p \in Operations :
              j.phase[p] # "completed" /\ result # "completed" => k.phase[p] # "completed"
<1>1. k = [j EXCEPT !.head = j.head + 1, !.active = NoOperation,
                    !.phase = [j.phase EXCEPT ![o] = result]]
  BY DEF Close, Committed, Journal
<1>2. j.head + 1 \in Nat /\ [j.phase EXCEPT ![o] = result] \in [Operations -> Phases]
  BY DEF Journal, Phases
<1>3. k \in Journal
  BY <1>1, <1>2 DEF Journal
<1>4. k.phase = [j.phase EXCEPT ![o] = result]
  BY <1>1 DEF Journal
<1> QED BY <1>1, <1>3, <1>4 DEF Journal

\* A handoff accepts the open calls of its operation, for good.
LEMMA HandOffFacts ==
  ASSUME NEW j \in Journal, NEW o \in Operations, NEW k, k = HandOff(j, o)
  PROVE  /\ k \in Journal /\ k.head = j.head + 1 /\ k.active \in {j.active, NoOperation} \ {o}
         /\ k.retired /\ k.effects = j.effects
         /\ \A p \in Operations : k.phase[p] = IF p = o THEN "retired" ELSE j.phase[p]
         /\ DOMAIN k.calls = DOMAIN j.calls
         /\ \A c \in DOMAIN j.calls :
              /\ k.calls[c].operation = j.calls[c].operation
              /\ k.calls[c].effect = j.calls[c].effect
              /\ k.calls[c].outcome = j.calls[c].outcome
              /\ j.calls[c].blocks =>
                   k.calls[c].blocks \/ (j.calls[c].operation = o /\ j.calls[c].outcome = "unknown")
<1> DEFINE s == [c \in DOMAIN j.calls |->
                   IF c \in Unresolved(j, o) THEN [j.calls[c] EXCEPT !.blocks = FALSE]
                   ELSE j.calls[c]]
           a == IF j.active = o THEN NoOperation ELSE j.active
<1>1. k = [j EXCEPT !.head = j.head + 1, !.calls = s, !.active = a,
                    !.phase = [j.phase EXCEPT ![o] = "retired"], !.retired = TRUE]
  BY DEF HandOff, Committed, Journal
<1>2. \A c \in DOMAIN j.calls : j.calls[c] \in CallRecord
  BY CallsOfJournal
<1>3. \A c \in DOMAIN j.calls : [j.calls[c] EXCEPT !.blocks = FALSE] \in CallRecord
  BY <1>2 DEF CallRecord
<1>4. s \in [DOMAIN j.calls -> CallRecord]
  BY <1>2, <1>3
<1>5. \A c \in DOMAIN j.calls :
        /\ s[c].operation = j.calls[c].operation /\ s[c].effect = j.calls[c].effect
        /\ s[c].outcome = j.calls[c].outcome
        /\ s[c] = j.calls[c] \/ c \in Unresolved(j, o)
  BY <1>2 DEF CallRecord
<1>6. \A c \in Unresolved(j, o) : j.calls[c].operation = o /\ j.calls[c].outcome = "unknown"
  BY DEF Unresolved, CallsOf
<1> HIDE DEF s
<1>7. s \in Seq(CallRecord) /\ DOMAIN s = DOMAIN j.calls
  BY <1>4, CallsReplaced
<1>8. /\ a \in Operations \union {NoOperation} /\ a \in {j.active, NoOperation} \ {o}
  BY OperationsAreIdentities DEF Journal
<1>9. [j.phase EXCEPT ![o] = "retired"] \in [Operations -> Phases] /\ j.head + 1 \in Nat
  BY DEF Journal, Phases
<1> HIDE DEF a
<1>10. k \in Journal /\ k.calls = s
  BY <1>1, <1>7, <1>8, <1>9 DEF Journal
<1>11. /\ k.head = j.head + 1 /\ k.active = a /\ k.retired /\ k.effects = j.effects
       /\ k.phase = [j.phase EXCEPT ![o] = "retired"]
  BY <1>1 DEF Journal
<1>12. \A p \in Operations : k.phase[p] = IF p = o THEN "retired" ELSE j.phase[p]
  BY <1>11 DEF Journal
<1>13. \A c \in DOMAIN j.calls :
         j.calls[c].blocks => s[c].blocks \/ (j.calls[c].operation = o /\ j.calls[c].outcome = "unknown")
  <2> SUFFICES ASSUME NEW c \in DOMAIN j.calls, j.calls[c].blocks
               PROVE  s[c].blocks \/ (j.calls[c].operation = o /\ j.calls[c].outcome = "unknown")
    OBVIOUS
  <2>1. CASE s[c] = j.calls[c]
    BY <2>1
  <2>2. CASE c \in Unresolved(j, o)
    BY <2>2, <1>6
  <2> QED BY <2>1, <2>2, <1>5
<1> QED BY <1>12, <1>5, <1>7, <1>8, <1>10, <1>11, <1>13

-----------------------------------------------------------------------------
(* What keeps the record true                                              *)

\* Requests only go on, and a call keeps its operation and its effect.
Forward ==
  /\ \A n \in DOMAIN requests :
       /\ n \in DOMAIN requests' /\ requests'[n].call = requests[n].call
       /\ requests[n].state \in {"landed", "visible"} =>
            requests'[n].state \in {"landed", "visible"}
       /\ requests[n].state = "dropped" => requests'[n].state = "dropped"
  /\ \A c \in DOMAIN journal.calls :
       /\ c \in DOMAIN journal'.calls
       /\ journal'.calls[c].effect = journal.calls[c].effect
       /\ journal'.calls[c].operation = journal.calls[c].operation

\* No call comes to send that could not before.
NobodyNew == \A c \in DOMAIN journal.calls : MaySend(c)' => MaySend(c)

\* What has arrived stays there.
LEMMA WhatArrivedStays ==
  ASSUME Forward, RequestsAreOfCalls
  PROVE  /\ Landed \subseteq Landed'
         /\ \A c : Arrived(c) => Arrived(c)'
<1>1. ASSUME NEW c, Arrived(c) PROVE Arrived(c)'
  BY <1>1 DEF Forward, Arrived, RequestOf, In
<1>2. ASSUME NEW e \in Landed PROVE e \in Landed'
  <2>1. PICK n \in In({"landed", "visible"}) : e = EffectOf(n)
    BY <1>2 DEF Landed
  <2>2. n \in In({"landed", "visible"})'
    BY <2>1 DEF Forward, In
  <2>3. EffectOf(n)' = EffectOf(n)
    BY <2>1 DEF Forward, In, EffectOf, RequestsAreOfCalls
  <2> QED BY <2>1, <2>2, <2>3 DEF Landed
<1> QED BY <1>1, <1>2

\* An effect whose call arrived has landed.
LEMMA ArrivedHasLanded ==
  ASSUME NEW c, Arrived(c)
  PROVE  journal.calls[c].effect \in Landed
BY DEF Arrived, Landed, RequestOf, In, EffectOf

\* What the record takes for done has landed.
LEMMA EverywhereHasLanded ==
  ASSUME OutcomesHold
  PROVE  Everywhere(journal) \subseteq Landed
BY ArrivedHasLanded DEF OutcomesHold, Everywhere, Known

\* A dead call stays dead: nobody sends for it and its requests are over.
LEMMA DeadStaysDead ==
  ASSUME NobodyNew, DOMAIN requests' = DOMAIN requests, Forward
  PROVE  \A c \in DOMAIN journal.calls : Dead(c) => Dead(c)'
BY DEF NobodyNew, Forward, Dead, RequestOf

\* With the same requests and the same calls, all that can change is progress.
LEMMA SameRequests ==
  ASSUME requests' = requests,
         \A c \in DOMAIN journal.calls :
            /\ c \in DOMAIN journal'.calls
            /\ journal'.calls[c].effect = journal.calls[c].effect
            /\ journal'.calls[c].operation = journal.calls[c].operation
  PROVE  Forward
BY DEF Forward

\* Steps that do not write to the record keep it true when they send nothing.
LEMMA TruthWithoutWriting ==
  ASSUME Truth, journal' = journal, NobodyNew, DOMAIN requests' = DOMAIN requests, Forward
  PROVE  Truth'
<1>1. /\ Landed \subseteq Landed' /\ \A c : Arrived(c) => Arrived(c)'
      /\ \A c \in DOMAIN journal.calls : Dead(c) => Dead(c)'
  BY WhatArrivedStays, DeadStaysDead DEF Truth
<1>2. RequestsAreOfCalls'
  BY DEF Truth, RequestsAreOfCalls, Forward
<1>3. OutcomesHold'
  BY <1>1 DEF Truth, OutcomesHold
<1>4. EarlierIsDead'
  BY <1>1 DEF Truth, EarlierIsDead
<1>5. OthersAreDead'
  BY <1>1 DEF Truth, OthersAreDead
<1>6. OrderIsKept'
  BY <1>1 DEF Truth, OrderIsKept
<1> QED BY <1>2, <1>3, <1>4, <1>5, <1>6 DEF Truth

\* The special case of steps inside the jobs and the clients.
LEMMA TruthOfControl ==
  ASSUME Truth, journal' = journal, requests' = requests, NobodyNew
  PROVE  Truth'
BY TruthWithoutWriting, SameRequests

\* A call that may send, and has not, sends once.
LEMMA TruthOfSending ==
  ASSUME Typed, Truth, journal' = journal, NobodyNew,
         NEW c \in DOMAIN journal.calls, MaySend(c), RequestOf(c) = {},
         requests' = Append(requests, [call |-> c, state |-> "flying"])
  PROVE  Truth'
<1> DEFINE n == Len(requests) + 1
<1>1. /\ DOMAIN requests = 1..Len(requests) /\ DOMAIN requests' = 1..n /\ Len(requests) \in Nat
      /\ \A m \in DOMAIN requests : requests'[m] = requests[m]
      /\ requests'[n] = [call |-> c, state |-> "flying"]
  <2>1. requests \in Seq(RequestRecord) /\ [call |-> c, state |-> "flying"] \in RequestRecord
    BY CallsOfJournal DEF Typed, RequestRecord
  <2> QED BY <2>1, AppendProperties, LenProperties
<1>2. DOMAIN requests' = DOMAIN requests \union {n} /\ n \notin DOMAIN requests
  BY <1>1
<1>3. requests'[n].call = c
  BY <1>1
<1> HIDE DEF n
<1>4. Forward
  BY <1>1, <1>2 DEF Forward
<1>5. \A d \in DOMAIN journal.calls : Dead(d) => Dead(d)'
  <2> SUFFICES ASSUME NEW d \in DOMAIN journal.calls, Dead(d) PROVE Dead(d)'
    OBVIOUS
  <2>1. d # c /\ ~MaySend(d)'
    BY DEF Dead, NobodyNew
  <2>2. RequestOf(d)' = RequestOf(d)
    BY <2>1, <1>1, <1>2, <1>3 DEF RequestOf
  <2> QED BY <2>1, <2>2, <1>1, <1>2 DEF Dead, RequestOf
<1>6. /\ Landed \subseteq Landed' /\ \A d : Arrived(d) => Arrived(d)'
  BY <1>4, WhatArrivedStays DEF Truth
<1>7. RequestsAreOfCalls'
  <2>1. \A m \in DOMAIN requests : requests[m].call # c
    BY DEF RequestOf
  <2> QED BY <2>1, <1>1, <1>2, <1>3 DEF Truth, RequestsAreOfCalls
<1>8. OutcomesHold'
  BY <1>5, <1>6 DEF Truth, OutcomesHold
<1>9. EarlierIsDead' /\ OthersAreDead'
  BY <1>5 DEF Truth, EarlierIsDead, OthersAreDead
<1>10. OrderIsKept'
  BY <1>6 DEF Truth, OrderIsKept
<1> QED BY <1>7, <1>8, <1>9, <1>10 DEF Truth

\* An operation is opened for what no earlier one has done: their calls for
\* the rest had no effect, or the record would be blocked or retired.
LEMMA TruthOfOpening ==
  ASSUME Typed, Truth, run \in Operations, MayOpen(journal, run), NobodyNew,
         requests' = requests, journal' = Open(journal, run, Effects \ Everywhere(journal))
  PROVE  Truth'
<1>1. /\ journal' \in Journal /\ journal'.active = run /\ journal'.retired = journal.retired
      /\ journal'.calls = journal.calls /\ journal'.effects[run] = Effects \ Everywhere(journal)
      /\ \A p \in Operations : journal'.phase[p] = IF p = run THEN "active" ELSE journal.phase[p]
  <2>1. journal \in Journal /\ Effects \ Everywhere(journal) \in SUBSET Effects
    BY DEF Typed
  <2> QED BY <2>1, OpenFacts
<1>2. journal'.effects[run] = Effects \ Everywhere(journal)
  BY <1>1 DEF Typed, Journal
<1>3. Forward
  BY <1>1, SameRequests
<1>4. /\ Landed \subseteq Landed' /\ \A c : Arrived(c) => Arrived(c)'
      /\ \A c \in DOMAIN journal.calls : Dead(c) => Dead(c)'
  BY <1>3, WhatArrivedStays, DeadStaysDead DEF Truth
<1>5. \A c \in DOMAIN journal.calls : ~journal.calls[c].blocks
  BY DEF MayOpen, Settled, Blocking
<1>6. ~journal.retired
  BY DEF MayOpen
<1>7. \A c \in DOMAIN journal.calls : journal.calls[c].outcome \in {"none", "effect"}
  <2>1. \A c \in DOMAIN journal.calls : journal.calls[c].outcome \in Outcomes
    BY CallsOfJournal DEF Typed, CallRecord
  <2> QED BY <2>1, <1>5, <1>6 DEF Truth, OutcomesHold, Outcomes
<1>8. RequestsAreOfCalls'
  BY <1>1 DEF Truth, RequestsAreOfCalls
<1>9. OutcomesHold'
  BY <1>1, <1>4, <1>7 DEF Truth, OutcomesHold
<1>10. EarlierIsDead'
  BY <1>1, <1>4 DEF Truth, EarlierIsDead
<1>11. OthersAreDead'
  <2>1. \A c \in DOMAIN journal.calls :
          journal.calls[c].effect \notin Everywhere(journal) => journal.calls[c].outcome # "effect"
    BY DEF Everywhere, Known
  <2> QED BY <2>1, <1>1, <1>2, <1>4, <1>7 DEF Truth, OthersAreDead, OutcomesHold
<1>12. OrderIsKept'
  <2>1. Effects \ journal'.effects[run] \subseteq Landed'
    BY <1>2, <1>4, EverywhereHasLanded DEF Truth
  <2>2. \A o \in Operations : journal'.phase[o] = "completed" => journal.phase[o] = "completed"
    BY <1>1 DEF Typed, Journal
  <2>3. \A c \in DOMAIN journal.calls : \A i \in DOMAIN Order :
          journal.calls[c].effect = Order[i] => \A k \in 1..(i - 1) : Order[k] \in Landed'
    BY <1>4 DEF Truth, OrderIsKept
  <2>4. \A o \in Operations : journal'.phase[o] = "completed" => Effects \subseteq Landed'
    BY <2>2, <1>4 DEF Truth, OrderIsKept
  <2> QED BY <2>1, <2>3, <2>4, <1>1 DEF OrderIsKept
<1> QED BY <1>8, <1>9, <1>10, <1>11, <1>12 DEF Truth

\* Whoever intends an effect is alone with it: the calls of the operation that
\* came before had none, and those of others are dead.
LEMMA TruthOfIntending ==
  ASSUME Typed, Truth, run \in Operations, NEW e \in Effects, MayIntend(journal, run, e),
         NobodyNew, requests' = requests, journal' = Intend(journal, run, e),
         \A i \in DOMAIN Order : Order[i] = e => \A k \in 1..(i - 1) : Order[k] \in Landed
  PROVE  Truth'
<1> DEFINE n == Len(journal.calls) + 1
<1>1. /\ journal'.active = journal.active /\ journal'.retired = journal.retired
      /\ journal'.phase = journal.phase /\ journal'.effects = journal.effects
      /\ DOMAIN journal'.calls = DOMAIN journal.calls \union {n} /\ n \notin DOMAIN journal.calls
      /\ \A c \in DOMAIN journal.calls : journal'.calls[c] = journal.calls[c]
      /\ journal'.calls[n].operation = run /\ journal'.calls[n].effect = e
      /\ journal'.calls[n].outcome = "unknown" /\ journal'.calls[n].blocks
  BY IntendFacts DEF Typed
<1>2. n \in Nat /\ \A c \in DOMAIN journal.calls : c \in Nat /\ c < n
  BY CallsOfJournal DEF Typed
<1> HIDE DEF n
<1>3. Forward
  BY <1>1, SameRequests
<1>4. /\ Landed \subseteq Landed' /\ \A c : Arrived(c) => Arrived(c)'
      /\ \A c \in DOMAIN journal.calls : Dead(c) => Dead(c)'
  BY <1>3, WhatArrivedStays, DeadStaysDead DEF Truth
<1>5. \A c \in DOMAIN journal.calls : journal.calls[c].effect = e => Dead(c)
  <2> SUFFICES ASSUME NEW c \in DOMAIN journal.calls, journal.calls[c].effect = e
               PROVE  Dead(c)
    OBVIOUS
  <2>1. journal.active = run /\ run # NoOperation /\ e \in journal.effects[run]
    BY OperationsAreIdentities DEF MayIntend
  <2>2. CASE journal.calls[c].operation # run
    BY <2>1, <2>2 DEF Truth, OthersAreDead
  <2>3. CASE journal.calls[c].operation = run
    <3>1. journal.calls[c].outcome # "effect"
      BY <2>3 DEF MayIntend, Known, CallsOf
    <3>2. ~journal.calls[c].blocks
      BY DEF MayIntend, Settled, Blocking
    <3>3. journal.calls[c].outcome \in Outcomes
      BY CallsOfJournal DEF Typed, CallRecord
    <3> QED BY <2>1, <2>3, <3>1, <3>2, <3>3 DEF Truth, OutcomesHold, Outcomes
  <2> QED BY <2>2, <2>3
<1>6. RequestsAreOfCalls'
  BY <1>1 DEF Truth, RequestsAreOfCalls
<1>7. OutcomesHold'
  BY <1>1, <1>4 DEF Truth, OutcomesHold
<1>8. EarlierIsDead'
  <2> SUFFICES ASSUME NEW c \in DOMAIN journal'.calls, NEW d \in DOMAIN journal'.calls, c < d,
                      journal'.calls[c].effect = journal'.calls[d].effect
               PROVE  Dead(c)'
    BY DEF EarlierIsDead
  <2>1. c \in DOMAIN journal.calls
    BY <1>1, <1>2
  <2>2. CASE d = n
    BY <2>1, <2>2, <1>1, <1>4, <1>5
  <2>3. CASE d \in DOMAIN journal.calls
    BY <2>1, <2>3, <1>1, <1>4 DEF Truth, EarlierIsDead
  <2> QED BY <2>2, <2>3, <1>1
<1>9. OthersAreDead'
  <2>1. journal.active = run
    BY DEF MayIntend
  <2> QED BY <2>1, <1>1, <1>4 DEF Truth, OthersAreDead
<1>10. OrderIsKept'
  BY <1>1, <1>4 DEF Truth, OrderIsKept
<1> QED BY <1>6, <1>7, <1>8, <1>9, <1>10 DEF Truth

\* An observation that says what is so keeps the record true.
LEMMA TruthOfObserving ==
  ASSUME Typed, Truth, NobodyNew, requests' = requests, NEW c \in DOMAIN journal.calls,
         NEW found \in {"unknown", "none", "effect"}, NEW basis,
         journal' = Observe(journal, c, found, basis),
         found = "effect" => Arrived(c), found = "none" => Dead(c)'
  PROVE  Truth'
<1>1. /\ journal'.active = journal.active /\ journal'.retired = journal.retired
      /\ journal'.phase = journal.phase /\ journal'.effects = journal.effects
      /\ DOMAIN journal'.calls = DOMAIN journal.calls
      /\ \A d \in DOMAIN journal.calls \ {c} : journal'.calls[d] = journal.calls[d]
      /\ journal'.calls[c].operation = journal.calls[c].operation
      /\ journal'.calls[c].effect = journal.calls[c].effect
      /\ journal'.calls[c].outcome \in {found, "conflict"}
      /\ (journal'.calls[c].outcome = "conflict" => journal'.calls[c].blocks)
      /\ (journal'.calls[c].outcome = "unknown" => journal'.calls[c].blocks)
  BY ObserveFacts DEF Typed
<1>2. \A d \in DOMAIN journal.calls :
        /\ journal'.calls[d].effect = journal.calls[d].effect
        /\ journal'.calls[d].operation = journal.calls[d].operation
  BY <1>1
<1>3. Forward
  BY <1>1, <1>2, SameRequests
<1>4. /\ Landed \subseteq Landed' /\ \A d : Arrived(d) => Arrived(d)'
      /\ \A d \in DOMAIN journal.calls : Dead(d) => Dead(d)'
  BY <1>3, WhatArrivedStays, DeadStaysDead DEF Truth
<1>5. RequestsAreOfCalls'
  BY <1>1 DEF Truth, RequestsAreOfCalls
<1>6. OutcomesHold'
  BY <1>1, <1>4 DEF Truth, OutcomesHold
<1>7. EarlierIsDead'
  BY <1>1, <1>2, <1>4 DEF Truth, EarlierIsDead
<1>8. OthersAreDead'
  BY <1>1, <1>2, <1>4 DEF Truth, OthersAreDead
<1>9. OrderIsKept'
  BY <1>1, <1>2, <1>4 DEF Truth, OrderIsKept
<1> QED BY <1>5, <1>6, <1>7, <1>8, <1>9 DEF Truth

\* An operation that is closed as completed has seen all it owed.
LEMMA TruthOfClosing ==
  ASSUME Typed, Truth, NobodyNew, requests' = requests, NEW o \in Operations,
         NEW result \in {"completed", "abandoned"}, MayClose(journal, o, result),
         journal' = Close(journal, o, result)
  PROVE  Truth'
<1>1. /\ journal'.active = NoOperation /\ journal'.retired = journal.retired
      /\ journal'.calls = journal.calls /\ journal'.effects = journal.effects
      /\ \A p \in Operations :
           journal.phase[p] # "completed" /\ result # "completed" => journal'.phase[p] # "completed"
  <2>1. journal \in Journal
    BY DEF Typed
  <2>2. /\ journal'.active = NoOperation /\ journal'.retired = journal.retired
        /\ journal'.calls = journal.calls /\ journal'.effects = journal.effects
    BY <2>1, CloseFacts
  <2>3. ASSUME NEW p \in Operations, journal.phase[p] # "completed", result # "completed"
        PROVE  journal'.phase[p] # "completed"
    BY <2>1, <2>3, CloseFacts
  <2> QED BY <2>2, <2>3
<1>2. Forward
  BY <1>1, SameRequests
<1>3. /\ Landed \subseteq Landed' /\ \A c : Arrived(c) => Arrived(c)'
      /\ \A c \in DOMAIN journal.calls : Dead(c) => Dead(c)'
  BY <1>2, WhatArrivedStays, DeadStaysDead DEF Truth
<1>4. RequestsAreOfCalls'
  BY <1>1 DEF Truth, RequestsAreOfCalls
<1>5. OutcomesHold'
  <2>1. \A c \in DOMAIN journal.calls : journal.calls[c].operation # NoOperation
    BY CallsOfJournal, OperationsAreIdentities DEF Typed, CallRecord
  <2> QED BY <2>1, <1>1, <1>3 DEF Truth, OutcomesHold
<1>6. EarlierIsDead' /\ OthersAreDead'
  BY <1>1, <1>3 DEF Truth, EarlierIsDead, OthersAreDead
<1>7. result = "completed" => Effects \subseteq Landed
  <2> SUFFICES ASSUME result = "completed" PROVE Effects \subseteq Landed
    OBVIOUS
  <2>1. journal.active = o /\ o # NoOperation
    BY OperationsAreIdentities DEF MayClose
  <2>2. journal.effects[o] \subseteq Everywhere(journal)
    BY DEF MayClose, Known, Everywhere, CallsOf
  <2> QED BY <2>1, <2>2, EverywhereHasLanded DEF Truth, OrderIsKept
<1>8. OrderIsKept'
  BY <1>1, <1>3, <1>7 DEF Truth, OrderIsKept
<1> QED BY <1>4, <1>5, <1>6, <1>8 DEF Truth

\* A handoff retires the candidate, so that the calls it accepts do no harm.
LEMMA TruthOfHandingOff ==
  ASSUME Typed, Truth, NobodyNew, requests' = requests, NEW o \in Operations,
         journal' = HandOff(journal, o)
  PROVE  Truth'
<1>1. /\ journal'.active \in {journal.active, NoOperation} \ {o}
      /\ journal'.retired /\ journal'.effects = journal.effects
      /\ \A p \in Operations : journal'.phase[p] = IF p = o THEN "retired" ELSE journal.phase[p]
      /\ DOMAIN journal'.calls = DOMAIN journal.calls
  <2>1. journal \in Journal
    BY DEF Typed
  <2> QED BY <2>1, HandOffFacts
<1>2. \A c \in DOMAIN journal.calls :
        /\ journal'.calls[c].operation = journal.calls[c].operation
        /\ journal'.calls[c].effect = journal.calls[c].effect
        /\ journal'.calls[c].outcome = journal.calls[c].outcome
        /\ journal.calls[c].blocks =>
             \/ journal'.calls[c].blocks
             \/ journal.calls[c].operation = o /\ journal.calls[c].outcome = "unknown"
  <2>1. journal \in Journal
    BY DEF Typed
  <2> QED BY <2>1, HandOffFacts
<1>3. Forward
  BY <1>1, <1>2, SameRequests
<1>4. /\ Landed \subseteq Landed' /\ \A c : Arrived(c) => Arrived(c)'
      /\ \A c \in DOMAIN journal.calls : Dead(c) => Dead(c)'
  BY <1>3, WhatArrivedStays, DeadStaysDead DEF Truth
<1>5. RequestsAreOfCalls'
  BY <1>1 DEF Truth, RequestsAreOfCalls
<1>6. OutcomesHold'
  <2> SUFFICES ASSUME NEW c \in DOMAIN journal.calls
      PROVE /\ journal'.calls[c].outcome = "effect" => Arrived(c)'
            /\ journal'.calls[c].outcome = "none" => Dead(c)'
            /\ journal'.calls[c].outcome = "conflict" => journal'.calls[c].blocks
            /\ journal'.calls[c].outcome = "unknown" /\ ~journal'.calls[c].blocks =>
                 journal'.retired /\ journal'.calls[c].operation # journal'.active
    BY <1>1 DEF OutcomesHold
  <2>1. journal.calls[c].operation # NoOperation
    BY CallsOfJournal, OperationsAreIdentities DEF Typed, CallRecord
  <2>2. /\ journal.calls[c].outcome = "effect" => Arrived(c)
        /\ journal.calls[c].outcome = "none" => Dead(c)
        /\ journal.calls[c].outcome = "conflict" => journal.calls[c].blocks
        /\ journal.calls[c].outcome = "unknown" /\ ~journal.calls[c].blocks =>
             journal.retired /\ journal.calls[c].operation # journal.active
    BY DEF Truth, OutcomesHold
  <2> QED BY <2>1, <2>2, <1>1, <1>2, <1>4
<1>7. EarlierIsDead'
  BY <1>1, <1>2, <1>4 DEF Truth, EarlierIsDead
<1>8. OthersAreDead'
  BY <1>1, <1>2, <1>4 DEF Truth, OthersAreDead
<1>9. OrderIsKept'
  <2>1. \A p \in Operations : journal'.phase[p] = "completed" => journal.phase[p] = "completed"
    BY <1>1 DEF Typed, Journal
  <2> QED BY <2>1, <1>1, <1>2, <1>4 DEF Truth, OrderIsKept
<1> QED BY <1>5, <1>6, <1>7, <1>8, <1>9 DEF Truth

-----------------------------------------------------------------------------
(* What keeps the jobs and the clients in order                            *)

\* Where the npm client and the admission stand does not hang on other jobs.
LEMMA SamePlaces ==
  ASSUME Clientele, UNCHANGED <<journal, requests, handoff, step, session>>,
         job'["client"] = job["client"], job'["admit"] = job["admit"]
  PROVE  /\ HandoffIsNpm' /\ SessionsAreNew' /\ DecidedIsQuiet'
         /\ ClientsInOrder' /\ FirstToSend' /\ ReceiptsAreTrue'
<1>1. HandoffIsNpm'
  BY DEF Clientele, HandoffIsNpm
<1>2. SessionsAreNew'
  BY DEF Clientele, SessionsAreNew, ClientIsNext, NewSession, HandoffDecided
<1>3. DecidedIsQuiet'
  BY DEF Clientele, DecidedIsQuiet, ClientIsNext, ClientRuns, HandoffDecided, ClientsAtRest
<1>4. ClientsInOrder'
  BY DEF Clientele, ClientsInOrder, ClientRuns, Approved
<1>5. FirstToSend'
  BY DEF Clientele, FirstToSend, ClientRuns, ClientIsNext, NothingSent, RequestOf
<1>6. ReceiptsAreTrue'
  BY DEF Clientele, ReceiptsAreTrue, Arrived, NothingSent, RequestOf, In, Approved, Finished
<1> QED BY <1>1, <1>2, <1>3, <1>4, <1>5, <1>6

\* A job that goes on, or ends, leaves the jobs in order.
LEMMA JobGoesOn ==
  ASSUME Typed, JobsInOrder, NEW r \in Roles, job[r] \notin Ends \union {"waiting"},
         NEW to \in JobStates \ {"waiting"}, job' = [job EXCEPT ![r] = to], run' = run,
         r = "client" => to \in Ends \union {"waits"}
  PROVE  JobsInOrder' /\ job' \in [Roles -> JobStates]
<1>1. /\ job'[r] = to /\ job' \in [Roles -> JobStates]
      /\ \A s \in Roles \ {r} : job'[s] = job[s]
  BY DEF Typed
<1>2. run' \in Operations
  BY DEF JobsInOrder, Over
<1>3. /\ job'["admit"] # "waiting"
      /\ job'["client"] \in Ends \union {"waiting", "start", "waits"}
  BY <1>1 DEF JobsInOrder, Roles
<1>4. job'["admit"] \notin Ends => \A s \in Roles \ {"admit"} : job'[s] = "waiting"
  <2>1. r # "admit" => job["admit"] \in Ends
    BY DEF JobsInOrder
  <2> QED BY <2>1, <1>1 DEF JobsInOrder, Roles
<1>5. ClientRuns' => job'["admit"] = "success"
  <2>1. CASE r = "admit"
    <3>1. job["client"] = "waiting"
      BY <2>1 DEF JobsInOrder, Roles
    <3> QED BY <2>1, <3>1, <1>1 DEF ClientRuns, Roles
  <2>2. CASE r = "client"
    BY <2>2, <1>1 DEF JobsInOrder, ClientRuns, Roles, Ends
  <2>3. CASE r \notin {"admit", "client"}
    BY <2>3, <1>1 DEF JobsInOrder, ClientRuns, Roles
  <2> QED BY <2>1, <2>2, <2>3
<1>6. job'["observe"] # "waiting" => job'["client"] \in Ends
  <2>1. r = "client" => job["observe"] = "waiting"
    BY DEF JobsInOrder
  <2> QED BY <2>1, <1>1 DEF JobsInOrder, Roles
<1>7. job'["complete"] # "waiting" => job'["observe"] \in Ends
  <2>1. r = "observe" => job["complete"] = "waiting"
    BY DEF JobsInOrder
  <2> QED BY <2>1, <1>1 DEF JobsInOrder, Roles
<1> QED BY <1>1, <1>2, <1>3, <1>4, <1>5, <1>6, <1>7 DEF JobsInOrder

\* A role other than the recording one, or one that fails, touches nothing else.
LEMMA JobAlone ==
  ASSUME IInv, NEW r \in Roles, job[r] \notin Ends \union {"waiting"},
         NEW to \in JobStates \ {"waiting"}, job' = [job EXCEPT ![r] = to],
         UNCHANGED <<journal, requests, run, recorder, handoff, step, session>>,
         r \in {"gate", "consume"} \/ to = "failure" \/ (r = "observe" /\ to \in Ends),
         r = "client" => session.human
  PROVE  IInv'
<1>1. JobsInOrder' /\ job' \in [Roles -> JobStates]
  BY JobGoesOn DEF IInv, Clientele, Ends
<1>2. /\ job'[r] = to /\ \A s \in Roles \ {r} : job'[s] = job[s]
  BY DEF IInv, Typed
<1>3. Typed'
  BY <1>1 DEF IInv, Typed
<1>4. HandoffIsNpm'
  BY DEF IInv, Clientele, HandoffIsNpm
<1>5. SessionsAreNew'
  <2>1. job'["admit"] # job["admit"] => job'["admit"] = "failure"
    BY <1>2 DEF Roles
  <2>2. job'["client"] # job["client"] => job'["client"] = "failure"
    BY <1>2 DEF Roles
  <2> QED BY <2>1, <2>2 DEF IInv, Clientele, SessionsAreNew, ClientIsNext, NewSession, HandoffDecided
<1>6. DecidedIsQuiet'
  <2>1. (ClientIsNext \/ ClientRuns)' => (ClientIsNext \/ ClientRuns)
    BY <1>2 DEF Roles, ClientIsNext, ClientRuns
  <2> QED BY <2>1 DEF IInv, Clientele, DecidedIsQuiet, HandoffDecided, ClientsAtRest
<1>7. ClientsInOrder'
  <2>1. ~session.human => job'["client"] = job["client"]
    BY <1>2 DEF Roles
  <2> QED BY <2>1 DEF IInv, Clientele, ClientsInOrder, ClientRuns, Approved
<1>8. FirstToSend'
  <2>1. /\ ClientIsNext' => ClientIsNext
        /\ ClientRuns' => ClientRuns
    BY <1>2 DEF Roles, ClientIsNext, ClientRuns
  <2> QED BY <2>1 DEF IInv, Clientele, FirstToSend, NothingSent, RequestOf
<1>9. ReceiptsAreTrue'
  BY DEF IInv, Clientele, ReceiptsAreTrue, Arrived, NothingSent, RequestOf, In, Approved, Finished
<1>10. RecorderIsRight'
  <2>1. job'["complete"] # job["complete"] => job'["complete"] = "failure"
    BY <1>2 DEF Roles
  <2>2. job'["observe"] # job["observe"] => job'["observe"] \in Ends
    BY <1>2 DEF Roles, Ends
  <2> QED BY <2>1, <2>2 DEF IInv, Clientele, RecorderIsRight, Writing, Arrived, RequestOf, In,
          Landed, EffectOf, Remaining, NextEffect, Ends
<1>11. Truth'
  <2>1. job'["complete"] = "intended" => job["complete"] = "intended"
    BY <1>2 DEF Roles
  <2>2. NobodyNew
    BY <2>1 DEF NobodyNew, MaySend, Approved
  <2> QED BY <2>2, TruthOfControl DEF IInv
<1> QED BY <1>1, <1>3, <1>4, <1>5, <1>6, <1>7, <1>8, <1>9, <1>10, <1>11 DEF IInv, Clientele

\* What the recording role knows does not change by itself: what has landed
\* stays, and a receipt is written once.
LEMMA RecorderKept ==
  ASSUME Typed, RecorderIsRight, recorder' = recorder,
         job'["complete"] = job["complete"] \/ job'["complete"] = "failure",
         job'["observe"] = job["observe"] \/ job'["observe"] = "failure",
         Landed \subseteq Landed', \A c : Arrived(c) => Arrived(c)',
         Writing => RequestOf(recorder.call)' = RequestOf(recorder.call),
         \A c \in DOMAIN journal.calls :
            c \in DOMAIN journal'.calls /\ journal'.calls[c].effect = journal.calls[c].effect,
         job["observe"] = "read" => handoff'.call = handoff.call,
         \/ session'.receipt = session.receipt \/ session.receipt = "missing"
         \/ job["observe"] # "read"
  PROVE  RecorderIsRight'
<1>1. Remaining' = Remaining /\ NextEffect' = NextEffect
  BY DEF Remaining, NextEffect
<1>2. /\ Writing' => Writing
      /\ job'["complete"] \in {"next", "checked"} => job["complete"] \in {"next", "checked"}
  BY DEF Writing
<1>3. recorder.outcome # "missing"
  BY DEF Typed, Recorders
<1>4. Writing' \/ job'["complete"] \in {"next", "checked"} =>
        Npm \in recorder'.complete /\ recorder'.complete \subseteq Landed'
  BY <1>2 DEF RecorderIsRight
<1>5. Writing' => /\ Remaining' # {} /\ recorder'.call \in DOMAIN journal'.calls
                  /\ journal'.calls[recorder'.call].effect = NextEffect'
  <2> SUFFICES ASSUME Writing'
               PROVE  /\ Remaining' # {} /\ recorder'.call \in DOMAIN journal'.calls
                      /\ journal'.calls[recorder'.call].effect = NextEffect'
    OBVIOUS
  <2>1. /\ Remaining # {} /\ recorder.call \in DOMAIN journal.calls
        /\ journal.calls[recorder.call].effect = NextEffect
    BY <1>2 DEF RecorderIsRight
  <2> QED BY <2>1, <1>1
<1>6. (job["complete"] = "intended" => RequestOf(recorder.call) = {})'
  BY DEF RecorderIsRight, Writing
<1>7. (job["complete"] = "answered" =>
       /\ recorder.outcome = "none" => RequestOf(recorder.call) = {}
       /\ recorder.outcome = "effect" => Arrived(recorder.call))'
  <2>1. job'["complete"] = "answered" => job["complete"] = "answered"
    OBVIOUS
  <2> QED BY <2>1 DEF RecorderIsRight, Writing
<1>8. (job["observe"] = "read" =>
        handoff.call # NoCall /\ recorder.outcome \in {"unknown", session.receipt})'
  <2>1. job'["observe"] = "read" => job["observe"] = "read"
    OBVIOUS
  <2> QED BY <2>1, <1>3 DEF RecorderIsRight
<1> QED BY <1>4, <1>5, <1>6, <1>7, <1>8 DEF RecorderIsRight

\* The call of the recording role is not the one that was handed off.
LEMMA CallsAreApart ==
  ASSUME IInv, Writing
  PROVE  recorder.call \in DOMAIN journal.calls /\ recorder.call # handoff.call
<1>1. NextEffect # Npm
  BY NextEffectFacts DEF IInv, Clientele, RecorderIsRight
<1>2. recorder.call \in DOMAIN journal.calls /\ recorder.call # NoCall
  BY CallsOfJournal DEF IInv, Clientele, RecorderIsRight, Typed
<1> QED BY <1>1, <1>2 DEF IInv, Clientele, RecorderIsRight, HandoffIsNpm

\* The recording roles, as long as they neither write nor send.
LEMMA RecordingJob ==
  ASSUME IInv, NEW r \in {"observe", "complete"}, job[r] \notin Ends \union {"waiting"},
         NEW to \in JobStates \ {"waiting", "intended"}, job' = [job EXCEPT ![r] = to],
         UNCHANGED <<journal, requests, run, handoff, step, session>>,
         recorder' \in Recorders, RecorderIsRight', r = "observe" => job["complete"] = "waiting"
  PROVE  IInv'
<1>1. /\ job'[r] = to /\ \A s \in Roles \ {r} : job'[s] = job[s] /\ r \in Roles
  BY DEF IInv, Typed, Roles
<1>2. JobsInOrder' /\ job' \in [Roles -> JobStates]
  <2>1. r \in Roles /\ r # "client" /\ to \in JobStates \ {"waiting"}
    BY DEF Roles
  <2>2. Typed /\ JobsInOrder /\ run' = run
    BY DEF IInv, Clientele
  <2> QED BY <2>1, <2>2, JobGoesOn
<1>3. Typed'
  BY <1>2 DEF IInv, Typed
<1>4. job'["client"] = job["client"] /\ job'["admit"] = job["admit"]
  BY <1>1 DEF Roles
<1>5. /\ HandoffIsNpm' /\ SessionsAreNew' /\ DecidedIsQuiet'
      /\ ClientsInOrder' /\ FirstToSend' /\ ReceiptsAreTrue'
  BY <1>4, SamePlaces DEF IInv
<1>6. job'["complete"] # "intended"
  BY <1>1 DEF Roles
<1>7. NobodyNew
  BY <1>6 DEF NobodyNew, MaySend, Approved
<1>8. Truth'
  BY <1>7, TruthOfControl DEF IInv
<1> QED BY <1>2, <1>3, <1>5, <1>8 DEF IInv, Clientele

\* observe begins: the receipt is read once (publication-controller.mjs).
LEMMA BeginObserveKeeps ==
  ASSUME IInv, BeginObserve
  PROVE  IInv'
<1>1. /\ job["observe"] = "start" /\ "observe" \in Roles /\ "start" \notin Ends \union {"waiting"}
      /\ UNCHANGED <<journal, requests, run, handoff, step, session>>
      /\ {"success", "failure"} \subseteq Ends /\ {"success", "failure", "read"} \subseteq JobStates
  BY DEF BeginObserve, Others, Roles, Ends, JobStates
<1>2. CASE UNCHANGED recorder /\ \E to \in {"success", "failure"} : Goes("observe", to)
  <2>1. PICK to \in {"success", "failure"} : job' = [job EXCEPT !["observe"] = to]
    BY <1>2 DEF Goes
  <2>2. to \in JobStates \ {"waiting"} /\ to \in Ends
    BY <2>1 DEF JobStates, Ends
  <2> QED BY <1>1, <1>2, <2>1, <2>2, JobAlone
<1>3. CASE /\ handoff.call # NoCall /\ Goes("observe", "read")
           /\ recorder' = [recorder EXCEPT !.head = journal.head, !.outcome = Received]
  <2>1. job' = [job EXCEPT !["observe"] = "read"] /\ job'["observe"] = "read"
    BY <1>3, <1>1 DEF Goes, IInv, Typed
  <2>2. Received \in {"unknown", "none", "effect"} /\ Received \in {"unknown", session.receipt}
    BY DEF Received, IInv, Typed, Sessions
  <2>3. recorder' \in Recorders /\ recorder'.outcome = Received
    BY <1>3, <2>2 DEF IInv, Typed, Recorders, Journal
  <2>4. job["complete"] = "waiting" /\ job'["complete"] = "waiting"
    BY <1>1, <2>1 DEF IInv, Clientele, JobsInOrder, Ends, Typed
  <2>5. RecorderIsRight'
    BY <1>1, <1>3, <2>2, <2>3, <2>4 DEF RecorderIsRight, Writing
  <2>6. "read" \in JobStates \ {"waiting", "intended"}
    BY DEF JobStates
  <2> QED BY <1>1, <2>1, <2>3, <2>4, <2>5, <2>6, RecordingJob
<1>4. QED
  <2>1. CASE mode = "observe"
    <3>1. UNCHANGED recorder /\ (Goes("observe", "success") \/ Goes("observe", "failure"))
      BY <2>1 DEF BeginObserve, Goes
    <3> QED BY <3>1, <1>2
  <2>2. CASE mode # "observe" /\ handoff.call = NoCall
    BY <2>2, <1>2 DEF BeginObserve, Fails
  <2>3. CASE mode # "observe" /\ handoff.call # NoCall
    BY <2>3, <1>3 DEF BeginObserve
  <2> QED BY <2>1, <2>2, <2>3

\* complete begins with what the record says is done.
LEMMA BeginCompleteKeeps ==
  ASSUME IInv, BeginComplete
  PROVE  IInv'
<1>1. /\ job["complete"] = "start" /\ "complete" \in Roles /\ "start" \notin Ends \union {"waiting"}
      /\ UNCHANGED <<journal, requests, run, handoff, step, session>>
  BY DEF BeginComplete, Others, Roles, Ends
<1>2. CASE Fails("complete")
  <2>1. "failure" \in JobStates \ {"waiting"}
    BY DEF JobStates, Ends
  <2> QED BY <1>1, <1>2, <2>1, JobAlone DEF Fails, Goes
<1>3. CASE /\ Goes("complete", "next") /\ Npm \in Everywhere(journal)
           /\ recorder' = [NoRecorder EXCEPT !.head = journal.head,
                                             !.complete = Everywhere(journal)]
  <2>1. Everywhere(journal) \in SUBSET Effects
    BY CallsOfJournal DEF Everywhere, Known, IInv, Typed, CallRecord
  <2>2. /\ recorder' \in Recorders /\ recorder'.complete = Everywhere(journal)
        /\ recorder'.outcome = "unknown"
    BY <1>3, <2>1 DEF NoRecorder, Recorders, NoCall, IInv, Typed, Journal
  <2>3. /\ job' = [job EXCEPT !["complete"] = "next"] /\ job'["complete"] = "next"
        /\ job'["observe"] = job["observe"]
    BY <1>3, <1>1 DEF Goes, IInv, Typed
  <2>4. Everywhere(journal) \subseteq Landed /\ Landed' = Landed
    BY <1>1, EverywhereHasLanded DEF IInv, Truth, Landed, In, EffectOf
  <2>5. job["observe"] # "read"
    BY <1>1 DEF IInv, Clientele, JobsInOrder, Ends
  <2>6. RecorderIsRight'
    BY <1>3, <2>2, <2>3, <2>4, <2>5 DEF RecorderIsRight, Writing
  <2>7. "next" \in JobStates \ {"waiting", "intended"}
    BY DEF JobStates
  <2> QED BY <1>1, <2>2, <2>3, <2>6, <2>7, RecordingJob
<1> QED BY <1>2, <1>3 DEF BeginComplete

\* complete looks at the destinations before it intends anything.
LEMMA CheckBeforeKeeps ==
  ASSUME IInv, CheckBefore
  PROVE  IInv'
<1>1. /\ job["complete"] = "next" /\ "complete" \in Roles /\ "next" \notin Ends \union {"waiting"}
      /\ UNCHANGED <<journal, requests, run, handoff, step, session, recorder>>
  BY DEF CheckBefore, OnlyJob, Others, Roles, Ends
<1>2. CASE Goes("complete", "failure")
  <2>1. "failure" \in JobStates \ {"waiting"}
    BY DEF JobStates, Ends
  <2> QED BY <1>1, <1>2, <2>1, JobAlone DEF Goes
<1>3. CASE Goes("complete", "checked")
  <2>1. /\ job' = [job EXCEPT !["complete"] = "checked"] /\ job'["complete"] = "checked"
        /\ job'["observe"] = job["observe"]
    BY <1>3, <1>1 DEF Goes, IInv, Typed
  <2>2. Landed' = Landed
    BY <1>1 DEF Landed, In, EffectOf
  <2>3. RecorderIsRight'
    BY <1>1, <2>1, <2>2 DEF IInv, Clientele, RecorderIsRight, Writing
  <2>4. "checked" \in JobStates \ {"waiting", "intended"} /\ recorder' \in Recorders
    BY <1>1 DEF JobStates, IInv, Typed
  <2> QED BY <1>1, <2>1, <2>3, <2>4, RecordingJob
<1> QED BY <1>2, <1>3 DEF CheckBefore, Goes

\* An answer is a success only of a request that arrived.
LEMMA AnswerKeeps ==
  ASSUME IInv, Answer
  PROVE  IInv'
<1>1. /\ job["complete"] = "written" /\ "complete" \in Roles
      /\ "written" \notin Ends \union {"waiting"}
      /\ UNCHANGED <<journal, requests, run, handoff, step, session>>
      /\ job' = [job EXCEPT !["complete"] = "answered"]
  BY DEF Answer, Goes, Others, Roles, Ends
<1>2. PICK o \in {"effect", "unknown"} :
        /\ recorder' = [recorder EXCEPT !.outcome = o]
        /\ o = "effect" => Arrived(recorder.call)
  BY DEF Answer, NoAnswer, Arrived, In, RequestOf
<1>3. /\ recorder' \in Recorders /\ recorder'.outcome = o /\ recorder'.call = recorder.call
      /\ recorder'.complete = recorder.complete
  BY <1>2 DEF IInv, Typed, Recorders
<1>4. /\ job'["complete"] = "answered" /\ job'["observe"] = job["observe"]
      /\ job["observe"] # "read"
  BY <1>1 DEF IInv, Typed, Roles, Clientele, JobsInOrder, Ends
<1>5. /\ Landed' = Landed /\ Remaining' = Remaining /\ NextEffect' = NextEffect
      /\ Arrived(recorder.call)' = Arrived(recorder.call)
  BY <1>1, <1>3 DEF Landed, In, EffectOf, Remaining, NextEffect, Arrived, RequestOf
<1>6. RecorderIsRight'
  BY <1>1, <1>2, <1>3, <1>4, <1>5 DEF IInv, Clientele, RecorderIsRight, Writing
<1>7. "answered" \in JobStates \ {"waiting", "intended"}
  BY DEF JobStates
<1> QED BY <1>1, <1>3, <1>6, <1>7, RecordingJob

-----------------------------------------------------------------------------
(* Runs and their jobs                                                     *)

\* A client that nobody works with yet is in order.
LEMMA NewSessionIsInOrder ==
  ASSUME NewSession', ~ClientRuns', ClientIsNext' => NothingSent'
  PROVE  ClientsInOrder' /\ FirstToSend' /\ ReceiptsAreTrue' /\ ClientsAtRest'
<1>1. /\ session'.human = FALSE /\ session'.claim = 0 /\ session'.ready = FALSE
      /\ session'.receipt = "missing" /\ step'[1] = "out" /\ step'[2] = "out"
      /\ \A i \in Clients : step'[i] = "out"
  BY DEF NewSession, NoSession, Clients
<1>2. ~Approved'
  BY <1>1 DEF Approved
<1>3. ClientsInOrder'
  BY <1>1, <1>2 DEF ClientsInOrder
<1>4. FirstToSend'
  BY <1>1 DEF FirstToSend
<1>5. ReceiptsAreTrue'
  BY <1>1 DEF ReceiptsAreTrue
<1>6. ClientsAtRest'
  BY <1>1 DEF ClientsAtRest
<1> QED BY <1>3, <1>4, <1>5, <1>6

\* What the invariant does not speak of may change.
LEMMA UnseenKeeps ==
  ASSUME IInv, UNCHANGED <<journal, requests, run, job, recorder, handoff, step, session>>
  PROVE  IInv'
<1>1. Typed'
  BY DEF IInv, Typed
<1>2. JobsInOrder'
  BY DEF IInv, Clientele, JobsInOrder, Over, ClientRuns
<1>3. /\ HandoffIsNpm' /\ SessionsAreNew' /\ DecidedIsQuiet'
      /\ ClientsInOrder' /\ FirstToSend' /\ ReceiptsAreTrue'
  BY SamePlaces DEF IInv
<1>4. /\ Landed' = Landed /\ \A c : Arrived(c)' = Arrived(c)
      /\ RequestOf(recorder.call)' = RequestOf(recorder.call)
  BY DEF Landed, In, EffectOf, Arrived, RequestOf
<1>5. RecorderIsRight'
  BY <1>4, RecorderKept DEF IInv, Clientele
<1>6. NobodyNew
  BY DEF NobodyNew, MaySend, Approved
<1>7. Truth'
  BY <1>6, TruthOfControl DEF IInv
<1> QED BY <1>1, <1>2, <1>3, <1>5, <1>7 DEF IInv, Clientele

\* A job that begins has those it needs behind it.
LEMMA BeginInOrder ==
  ASSUME Typed, JobsInOrder, NEW r \in Roles, Begin(r)
  PROVE  JobsInOrder' /\ Typed' /\ r # "admit"
<1> DEFINE to == IF Wanted(r) THEN "start" ELSE "skipped"
<1>1. /\ job[r] = "waiting" /\ \A n \in Needs(r) : job[n] \in Ends
      /\ job' = [job EXCEPT ![r] = to] /\ run' = run
      /\ UNCHANGED <<journal, requests, handoff, recorder>>
  BY DEF Begin, Goes
<1>2. /\ job'[r] = to /\ \A s \in Roles \ {r} : job'[s] = job[s]
      /\ job' \in [Roles -> JobStates] /\ to \in {"start", "skipped"}
      /\ to \notin {"waiting", "waits"}
  BY <1>1 DEF Typed, JobStates, Ends
<1>3. r = "client" /\ to = "start" => job["admit"] = "success"
  BY DEF Wanted, Needs
<1> HIDE DEF to
<1>4. r # "admit"
  BY <1>1 DEF JobsInOrder
<1>5. /\ r \in {"client", "gate", "observe"} => job["admit"] \in Ends
      /\ r = "observe" => job["client"] \in Ends
      /\ r \in {"consume", "complete"} => job["observe"] \in Ends
  BY <1>1 DEF Needs, Roles
<1>6. job["admit"] \in Ends
  <2>1. job["observe"] \in Ends => job["observe"] # "waiting"
    BY DEF Ends
  <2> QED BY <2>1, <1>4, <1>5 DEF JobsInOrder, Roles
<1>7. run \in Operations
  BY <1>1 DEF JobsInOrder, Over, Ends
<1>8. /\ job'["admit"] = job["admit"]
      /\ job'["client"] \in Ends \union {"waiting", "start", "waits"}
  BY <1>2, <1>4 DEF JobsInOrder, Roles, Ends
<1>9. ClientRuns' => job'["admit"] = "success"
  BY <1>2, <1>3, <1>8 DEF JobsInOrder, ClientRuns, Roles
<1>10. job'["observe"] # "waiting" => job'["client"] \in Ends
  <2>1. r = "client" => job["observe"] = "waiting"
    BY <1>1 DEF JobsInOrder, Ends
  <2> QED BY <2>1, <1>2, <1>5 DEF JobsInOrder, Roles
<1>11. job'["complete"] # "waiting" => job'["observe"] \in Ends
  <2>1. r = "observe" => job["complete"] = "waiting"
    BY <1>1 DEF JobsInOrder, Ends
  <2> QED BY <2>1, <1>2, <1>5 DEF JobsInOrder, Roles
<1>12. JobsInOrder'
  BY <1>1, <1>6, <1>7, <1>8, <1>9, <1>10, <1>11 DEF JobsInOrder
<1>13. step' \in [Clients -> StepStates] /\ session' \in Sessions
  <2>1. NoSession \in Sessions /\ [NoSession EXCEPT !.human = mode = "bootstrap"] \in Sessions
    <3>1. NoSession \in Sessions
      BY DEF NoSession, Sessions
    <3>2. ASSUME NEW s \in Sessions, NEW b \in BOOLEAN PROVE [s EXCEPT !.human = b] \in Sessions
      BY DEF Sessions
    <3>3. (mode = "bootstrap") \in BOOLEAN
      OBVIOUS
    <3> QED BY <3>1, <3>2, <3>3, Zenon
  <2>2. step' = step \/ step' = [i \in Clients |-> "out"]
    BY DEF Begin
  <2>3. session' = session \/ session' = [NoSession EXCEPT !.human = mode = "bootstrap"]
    BY DEF Begin
  <2> QED BY <2>1, <2>2, <2>3 DEF Typed, StepStates
<1>14. Typed'
  BY <1>1, <1>2, <1>13 DEF Typed
<1> QED BY <1>4, <1>12, <1>14

\* Every job begins where the one before has left things.
LEMMA BeginKeeps ==
  ASSUME IInv, NEW r \in Roles, Begin(r)
  PROVE  IInv'
<1> DEFINE to == IF Wanted(r) THEN "start" ELSE "skipped"
<1>1. /\ job[r] = "waiting" /\ job' = [job EXCEPT ![r] = to]
      /\ UNCHANGED <<journal, requests, run, recorder, handoff>>
  BY DEF Begin, Goes
<1>2. JobsInOrder' /\ Typed' /\ r # "admit"
  BY BeginInOrder DEF IInv, Clientele
<1>3. /\ job'[r] = to /\ \A s \in Roles \ {r} : job'[s] = job[s]
      /\ to \in {"start", "skipped"}
  BY <1>1 DEF IInv, Typed
<1>4. /\ job'["admit"] = job["admit"]
      /\ job'["complete"] # "intended" \/ job["complete"] = "intended"
  BY <1>2, <1>3 DEF Roles
<1>5. HandoffIsNpm'
  BY <1>1 DEF IInv, Clientele, HandoffIsNpm
<1>6. /\ Landed' = Landed /\ \A c : Arrived(c)' = Arrived(c)
      /\ \A c : RequestOf(c)' = RequestOf(c) /\ NothingSent' = NothingSent
  BY <1>1 DEF Landed, In, EffectOf, Arrived, RequestOf, NothingSent
<1>7. RecorderIsRight'
  <2>1. CASE r = "complete"
    <3>1. job'["complete"] \in {"start", "skipped"} /\ job'["observe"] = job["observe"]
      BY <2>1, <1>3 DEF Roles
    <3>2. session' = session
      BY <2>1 DEF Begin
    <3> QED BY <3>1, <3>2, <1>1 DEF IInv, Clientele, RecorderIsRight, Writing
  <2>2. CASE r # "complete"
    <3>1. job'["complete"] = job["complete"]
      BY <2>2, <1>3 DEF Roles
    <3>2. r # "observe" => job'["observe"] = job["observe"]
      BY <1>3 DEF Roles
    <3>3. CASE r = "observe"
      <4>1. job["complete"] = "waiting"
        BY <3>3, <1>1 DEF IInv, Clientele, JobsInOrder, Ends
      <4> QED BY <3>1, <3>3, <4>1, <1>3 DEF RecorderIsRight, Writing
    <3>4. CASE r # "observe"
      <4>1. session'.receipt = session.receipt \/ job["observe"] = "waiting"
        <5>1. session' = session \/ r = "client"
          BY DEF Begin
        <5>2. r = "client" => job["observe"] = "waiting"
          BY <1>1 DEF IInv, Clientele, JobsInOrder, Ends
        <5> QED BY <5>1, <5>2
      <4>2. CASE session'.receipt = session.receipt
        BY <4>2, <3>1, <3>2, <3>4, <1>1, <1>6, RecorderKept DEF IInv, Clientele
      <4>3. CASE job["observe"] = "waiting"
        <5>1. job["complete"] = "waiting"
          BY <4>3 DEF IInv, Clientele, JobsInOrder, Ends
        <5> QED BY <5>1, <3>1, <3>2, <3>4, <4>3 DEF RecorderIsRight, Writing
      <4> QED BY <4>1, <4>2, <4>3
    <3> QED BY <3>3, <3>4
  <2> QED BY <2>1, <2>2
<1>8. CASE r = "client" /\ Wanted(r)
  <2>1. /\ ClientIsNext /\ job'["client"] = "start"
    BY <1>1, <1>3, <1>8 DEF ClientIsNext, Wanted, Needs
  <2>2. NewSession /\ NothingSent /\ ~HandoffDecided
    BY <2>1 DEF IInv, Clientele, SessionsAreNew, FirstToSend, DecidedIsQuiet
  <2>3. /\ step' = [i \in Clients |-> "out"]
        /\ session' = [NoSession EXCEPT !.human = mode = "bootstrap"]
    BY <1>8 DEF Begin
  <2>4. /\ session'.claim = 0 /\ session'.ready = FALSE /\ session'.receipt = "missing"
        /\ step'[1] = "out" /\ step'[2] = "out" /\ \A i \in Clients : step'[i] = "out"
    BY <2>3 DEF NoSession, Clients
  <2>5. ClientRuns' /\ ~ClientIsNext' /\ job["admit"] = "success" /\ ~Approved'
        /\ HandoffDecided' = HandoffDecided
    BY <2>1, <2>4, <1>1 DEF ClientRuns, ClientIsNext, Approved, HandoffDecided
  <2>6. SessionsAreNew'
    BY <2>5, <1>4 DEF SessionsAreNew
  <2>7. DecidedIsQuiet'
    BY <2>2, <2>5 DEF DecidedIsQuiet
  <2>8. ClientsInOrder'
    BY <2>4, <2>5 DEF ClientsInOrder
  <2>9. FirstToSend' /\ ReceiptsAreTrue'
    BY <2>2, <2>4, <1>6 DEF FirstToSend, ReceiptsAreTrue
  <2>10. NobodyNew
    BY <1>1, <1>4, <2>5 DEF NobodyNew, MaySend
  <2>11. Truth'
    BY <1>1, <2>10, TruthOfControl DEF IInv
  <2> QED BY <1>2, <1>5, <1>7, <2>6, <2>7, <2>8, <2>9, <2>11 DEF IInv, Clientele
<1>9. CASE ~(r = "client" /\ Wanted(r))
  <2>1. UNCHANGED <<step, session>>
    BY <1>9 DEF Begin
  <2>2. /\ ClientRuns' <=> ClientRuns
        /\ ClientIsNext' => ClientIsNext
    BY <1>1, <1>3, <1>4, <1>9 DEF ClientRuns, ClientIsNext, Roles
  <2>3. HandoffDecided' = HandoffDecided /\ Approved' = Approved
    BY <1>1, <2>1 DEF HandoffDecided, Approved
  <2>4. SessionsAreNew'
    BY <2>1, <2>2, <2>3, <1>1, <1>4 DEF IInv, Clientele, SessionsAreNew, NewSession
  <2>5. DecidedIsQuiet'
    BY <2>1, <2>2, <2>3 DEF IInv, Clientele, DecidedIsQuiet, ClientsAtRest
  <2>6. ClientsInOrder'
    BY <2>1, <2>2, <2>3, <1>1 DEF IInv, Clientele, ClientsInOrder
  <2>7. FirstToSend'
    BY <2>1, <2>2, <1>6 DEF IInv, Clientele, FirstToSend
  <2>8. ReceiptsAreTrue'
    BY <2>1, <2>3, <1>1, <1>6 DEF IInv, Clientele, ReceiptsAreTrue, Finished
  <2>9. NobodyNew
    BY <1>1, <1>4, <2>3 DEF NobodyNew, MaySend
  <2>10. Truth'
    BY <1>1, <2>9, TruthOfControl DEF IInv
  <2> QED BY <1>2, <1>5, <1>7, <2>4, <2>5, <2>6, <2>7, <2>8, <2>10 DEF IInv, Clientele
<1> QED BY <1>8, <1>9

\* A run is dispatched behind the last one. A human may still be at work on
\* the call of that one, which is then undecided.
LEMMA DispatchKeeps ==
  ASSUME IInv, NEW o \in Operations, NEW m, Dispatch(o, m)
  PROVE  IInv'
<1>1. /\ Over /\ run' = o /\ recorder' = NoRecorder
      /\ job' = [r \in Roles |-> IF r = "admit" THEN "start" ELSE "waiting"]
      /\ UNCHANGED <<journal, requests, handoff>>
  BY DEF Dispatch
<1>2. /\ job'["admit"] = "start" /\ \A r \in Roles \ {"admit"} : job'[r] = "waiting"
      /\ job'["client"] = "waiting" /\ job'["observe"] = "waiting" /\ job'["complete"] = "waiting"
      /\ job' \in [Roles -> JobStates]
  BY <1>1 DEF Roles, JobStates
<1>3. \/ NewSession'
      \/ UNCHANGED <<step, session>> /\ ~Quiet
  BY DEF Dispatch, NewSession
<1>4. job["client"] \in Ends /\ ~ClientRuns /\ ~ClientRuns' /\ ~ClientIsNext'
  BY <1>1, <1>2 DEF Over, Roles, ClientRuns, ClientIsNext, Ends
<1>5. Typed'
  <2>1. NoRecorder \in Recorders /\ NoSession \in Sessions
    BY DEF NoRecorder, Recorders, NoSession, Sessions, NoCall
  <2>2. step' \in [Clients -> StepStates] /\ session' \in Sessions
    BY <1>3, <2>1 DEF NewSession, StepStates, IInv, Typed
  <2> QED BY <1>1, <1>2, <2>1, <2>2 DEF IInv, Typed
<1>6. JobsInOrder'
  BY <1>1, <1>2, <1>4 DEF JobsInOrder, Ends
<1>7. HandoffIsNpm'
  BY <1>1 DEF IInv, Clientele, HandoffIsNpm
<1>8. HandoffDecided' = HandoffDecided
  BY <1>1 DEF HandoffDecided
<1>9. RecorderIsRight'
  BY <1>2 DEF RecorderIsRight, Writing
<1>10. CASE NewSession'
  <2>1. /\ ClientsInOrder' /\ FirstToSend' /\ ReceiptsAreTrue' /\ ClientsAtRest'
    BY <1>4, <1>10, NewSessionIsInOrder
  <2>2. SessionsAreNew' /\ DecidedIsQuiet'
    BY <1>4, <1>10, <2>1 DEF SessionsAreNew, DecidedIsQuiet
  <2>3. ~Approved'
    BY <1>10 DEF NewSession, Approved, Clients
  <2>4. NobodyNew
    BY <1>1, <1>2, <2>3 DEF NobodyNew, MaySend
  <2>5. Truth'
    BY <1>1, <2>4, TruthOfControl DEF IInv
  <2> QED BY <1>5, <1>6, <1>7, <1>9, <2>1, <2>2, <2>5 DEF IInv, Clientele
<1>11. CASE UNCHANGED <<step, session>> /\ ~Quiet
  <2>1. ~ClientsAtRest
    BY <1>1, <1>11 DEF Quiet, ClientsAtRest
  <2>2. ~HandoffDecided
    BY <2>1 DEF IInv, Clientele, DecidedIsQuiet
  <2>3. handoff.call # NoCall
    <3>1. PICK i \in Clients : step[i] \notin {"out", "done", "dead"}
      BY <2>1 DEF ClientsAtRest
    <3>2. session.human /\ i # 2
      BY <3>1, <1>4 DEF IInv, Clientele, ClientsInOrder
    <3> QED BY <3>1, <3>2 DEF Clients, IInv, Clientele, ClientsInOrder
  <2>4. SessionsAreNew'
    BY <1>1, <1>2, <1>4, <1>8, <2>2, <2>3 DEF SessionsAreNew
  <2>5. DecidedIsQuiet'
    BY <1>4, <1>8, <2>2 DEF DecidedIsQuiet
  <2>6. /\ Approved' = Approved /\ NothingSent' = NothingSent
        /\ Arrived(handoff.call)' = Arrived(handoff.call)
    BY <1>1, <1>11 DEF Approved, NothingSent, RequestOf, Arrived, In
  <2>7. ClientsInOrder'
    BY <1>1, <1>4, <1>11, <2>6 DEF IInv, Clientele, ClientsInOrder
  <2>8. FirstToSend'
    BY <1>4, <1>11, <2>6 DEF IInv, Clientele, FirstToSend
  <2>9. ReceiptsAreTrue'
    BY <1>1, <1>11, <2>6 DEF IInv, Clientele, ReceiptsAreTrue, Finished
  <2>10. NobodyNew
    BY <1>1, <1>2, <2>6 DEF NobodyNew, MaySend
  <2>11. Truth'
    BY <1>1, <2>10, TruthOfControl DEF IInv
  <2> QED BY <1>5, <1>6, <1>7, <1>9, <2>4, <2>5, <2>7, <2>8, <2>9, <2>11 DEF IInv, Clientele
<1> QED BY <1>3, <1>10, <1>11

\* admit finds the destinations as they should be; without a call to make there
\* is nothing to hand off.
LEMMA CheckDestinationsKeeps ==
  ASSUME IInv, CheckDestinations
  PROVE  IInv'
<1>1. /\ job["admit"] = "opened" /\ UNCHANGED <<journal, requests, run, recorder, step, session>>
      /\ "admit" \in Roles /\ "opened" \notin Ends \union {"waiting"}
  BY DEF CheckDestinations, Roles, Ends
<1>2. CASE Goes("admit", "failure") /\ UNCHANGED handoff
  <2>1. "failure" \in JobStates \ {"waiting"}
    BY DEF JobStates, Ends
  <2> QED BY <1>1, <1>2, <2>1, JobAlone DEF Goes
<1>3. CASE \/ Goes("admit", "checked") /\ UNCHANGED handoff
           \/ Goes("admit", "success") /\ handoff' = NoHandoff
  <2>1. PICK to \in {"checked", "success"} : job' = [job EXCEPT !["admit"] = to]
    BY <1>3 DEF Goes
  <2>2. /\ job'["admit"] = to /\ \A s \in Roles \ {"admit"} : job'[s] = job[s] /\ job[s] = "waiting"
        /\ to \in JobStates \ {"waiting"}
    BY <1>1, <2>1 DEF IInv, Typed, Clientele, JobsInOrder, JobStates, Ends
  <2>3. JobsInOrder' /\ job' \in [Roles -> JobStates]
    BY <1>1, <2>1, <2>2, JobGoesOn DEF IInv, Clientele
  <2>4. /\ job'["client"] = "waiting" /\ job'["observe"] = "waiting" /\ job'["complete"] = "waiting"
        /\ ~ClientRuns'
    BY <2>2 DEF Roles, ClientRuns
  <2>5. NewSession /\ NewSession'
    BY <1>1 DEF IInv, Clientele, SessionsAreNew, NewSession
  <2>6. handoff' = handoff \/ handoff'.call = NoCall
    BY <1>3 DEF NoHandoff
  <2>7. to = "success" => handoff' = NoHandoff
    BY <1>3, <2>1, <2>2, <1>1 DEF Goes, IInv, Typed
  <2>8. Typed'
    BY <1>1, <1>3, <2>3 DEF IInv, Typed, NoHandoff, Handoffs, NoCall
  <2>9. HandoffIsNpm'
    BY <1>1, <1>3 DEF IInv, Typed, Journal, Clientele, HandoffIsNpm, NoHandoff
  <2>10. ClientIsNext' => handoff'.call = NoCall
    BY <2>2, <2>7 DEF ClientIsNext, NoHandoff
  <2>11. handoff'.call = NoCall => NothingSent'
    BY <1>1, CallsOfJournal DEF NothingSent, RequestOf, IInv, Typed, Truth, RequestsAreOfCalls
  <2>12. ClientsInOrder' /\ FirstToSend' /\ ReceiptsAreTrue' /\ ClientsAtRest'
    BY <2>4, <2>5, <2>10, <2>11, NewSessionIsInOrder
  <2>13. SessionsAreNew'
    BY <2>5 DEF SessionsAreNew
  <2>14. DecidedIsQuiet'
    BY <2>4, <2>10, <2>12 DEF DecidedIsQuiet, HandoffDecided
  <2>15. RecorderIsRight'
    BY <2>4 DEF RecorderIsRight, Writing
  <2>16. NobodyNew
    <3>1. ~Approved /\ ~Approved'
      BY <2>5 DEF NewSession, Approved, Clients
    <3>2. NoCall \notin DOMAIN journal.calls
      BY CallsOfJournal DEF IInv, Typed
    <3> QED BY <1>1, <2>4, <2>6, <3>1, <3>2 DEF NobodyNew, MaySend
  <2>17. Truth'
    BY <1>1, <2>16, TruthOfControl DEF IInv
  <2> QED BY <2>3, <2>8, <2>9, <2>12, <2>13, <2>14, <2>15, <2>17 DEF IInv, Clientele
<1> QED BY <1>2, <1>3 DEF CheckDestinations, Goes

\* complete writes, or knows that it did not.
LEMMA WriteKeeps ==
  ASSUME IInv, Write
  PROVE  IInv'
<1>1. /\ job["complete"] = "intended" /\ "complete" \in Roles
      /\ "intended" \notin Ends \union {"waiting"}
      /\ UNCHANGED <<journal, run, handoff, step, session>>
  BY DEF Write, Roles, Ends
<1>2. /\ recorder.call \in DOMAIN journal.calls /\ recorder.call # handoff.call
      /\ RequestOf(recorder.call) = {} /\ Writing /\ job["observe"] # "read"
  BY <1>1, CallsAreApart DEF Writing, IInv, Clientele, RecorderIsRight, JobsInOrder, Ends
<1>3. CASE /\ Goes("complete", "answered") /\ UNCHANGED requests
           /\ recorder' = [recorder EXCEPT !.outcome = "none"]
  <2>1. /\ recorder' \in Recorders /\ recorder'.outcome = "none"
        /\ recorder'.call = recorder.call /\ recorder'.complete = recorder.complete
    BY <1>3 DEF IInv, Typed, Recorders
  <2>2. /\ job' = [job EXCEPT !["complete"] = "answered"] /\ job'["complete"] = "answered"
        /\ job'["observe"] = job["observe"]
    BY <1>1, <1>3 DEF Goes, IInv, Typed
  <2>3. /\ Landed' = Landed /\ Remaining' = Remaining /\ NextEffect' = NextEffect
        /\ RequestOf(recorder.call)' = {}
    BY <1>1, <1>2, <1>3, <2>1 DEF Landed, In, EffectOf, Remaining, NextEffect, RequestOf
  <2>4. RecorderIsRight'
    BY <1>1, <1>2, <2>1, <2>2, <2>3 DEF IInv, Clientele, RecorderIsRight, Writing
  <2>5. "answered" \in JobStates \ {"waiting", "intended"}
    BY DEF JobStates
  <2> QED BY <1>1, <1>3, <2>1, <2>2, <2>4, <2>5, RecordingJob
<1>4. CASE /\ Goes("complete", "written") /\ UNCHANGED recorder
           /\ requests' = Append(requests, [call |-> recorder.call, state |-> "flying"])
  <2>1. /\ job' = [job EXCEPT !["complete"] = "written"] /\ job'["complete"] = "written"
        /\ \A s \in Roles \ {"complete"} : job'[s] = job[s]
        /\ job'["observe"] = job["observe"] /\ job'["client"] = job["client"]
        /\ job'["admit"] = job["admit"] /\ "written" \in JobStates \ {"waiting"}
    BY <1>1, <1>4 DEF Goes, IInv, Typed, Roles, JobStates
  <2>2. JobsInOrder' /\ job' \in [Roles -> JobStates]
    BY <1>1, <2>1, JobGoesOn DEF IInv, Clientele
  <2>3. /\ requests' \in Seq(RequestRecord) /\ DOMAIN requests' = 1..(Len(requests) + 1)
        /\ DOMAIN requests = 1..Len(requests) /\ Len(requests) \in Nat
        /\ \A n \in DOMAIN requests : requests'[n] = requests[n]
        /\ requests'[Len(requests) + 1] = [call |-> recorder.call, state |-> "flying"]
    <3>1. /\ requests \in Seq(RequestRecord)
          /\ [call |-> recorder.call, state |-> "flying"] \in RequestRecord
      BY <1>2, CallsOfJournal DEF IInv, Typed, RequestRecord
    <3> QED BY <1>4, <3>1, AppendProperties, LenProperties
  <2>4. Typed'
    BY <1>1, <1>4, <2>2, <2>3 DEF IInv, Typed
  <2>5. Forward
    BY <1>1, <2>3 DEF Forward
  <2>6. Landed \subseteq Landed' /\ \A c : Arrived(c) => Arrived(c)'
    BY <2>5, WhatArrivedStays DEF IInv, Truth
  <2>7. NothingSent' = NothingSent
    <3>1. requests'[Len(requests) + 1].call # handoff.call
      BY <1>2, <2>3
    <3>2. \A n \in DOMAIN requests' : requests'[n].call = handoff.call => n \in DOMAIN requests
      BY <2>3, <3>1
    <3> QED BY <1>1, <2>3, <3>2 DEF NothingSent, RequestOf
  <2>8. /\ ClientIsNext' = ClientIsNext /\ ClientRuns' = ClientRuns /\ Approved' = Approved
        /\ HandoffDecided' = HandoffDecided
    BY <1>1, <2>1 DEF ClientIsNext, ClientRuns, Approved, HandoffDecided
  <2>9. HandoffIsNpm' /\ SessionsAreNew' /\ DecidedIsQuiet' /\ ClientsInOrder'
    BY <1>1, <2>1, <2>8 DEF IInv, Clientele, HandoffIsNpm, SessionsAreNew, DecidedIsQuiet,
       ClientsInOrder, NewSession, ClientsAtRest
  <2>10. FirstToSend'
    BY <1>1, <2>7, <2>8 DEF IInv, Clientele, FirstToSend
  <2>11. ReceiptsAreTrue'
    BY <1>1, <2>6, <2>7, <2>8 DEF IInv, Clientele, ReceiptsAreTrue, Finished
  <2>12. RecorderIsRight'
    <3>1. Remaining' = Remaining /\ NextEffect' = NextEffect
      BY <1>4 DEF Remaining, NextEffect
    <3> QED BY <1>1, <1>2, <1>4, <2>1, <2>6, <3>1 DEF IInv, Clientele, RecorderIsRight, Writing
  <2>13. NobodyNew /\ MaySend(recorder.call)
    BY <1>1, <2>1, <2>8 DEF NobodyNew, MaySend
  <2>14. Truth'
    BY <1>1, <1>2, <1>4, <2>13, TruthOfSending DEF IInv
  <2> QED BY <2>2, <2>4, <2>9, <2>10, <2>11, <2>12, <2>14 DEF IInv, Clientele
<1> QED BY <1>3, <1>4 DEF Write

\* What becomes of a request is forward, and it becomes nobody else's.
LEMMA RequestsMoveKeeps ==
  ASSUME IInv, NEW n \in DOMAIN requests, NEW st \in {"landed", "visible", "dropped"},
         \/ requests[n].state = "flying"
         \/ requests[n].state = "landed" /\ st = "visible",
         Becomes(n, st)
  PROVE  IInv'
<1>1. UNCHANGED <<journal, run, job, recorder, handoff, step, session>>
  BY DEF Becomes
<1>2. requests' = [requests EXCEPT ![n] = [requests[n] EXCEPT !.state = st]]
  BY DEF Becomes
<1>3. /\ requests \in [DOMAIN requests -> RequestRecord] /\ DOMAIN requests = 1..Len(requests)
      /\ Len(requests) \in Nat
  BY LenProperties DEF IInv, Typed
<1>4. /\ [requests[n] EXCEPT !.state = st] \in RequestRecord
      /\ [requests[n] EXCEPT !.state = st].call = requests[n].call
      /\ [requests[n] EXCEPT !.state = st].state = st
  BY <1>3 DEF RequestRecord
<1>5. /\ requests' \in [DOMAIN requests -> RequestRecord] /\ requests'[n].state = st
      /\ \A m \in DOMAIN requests : /\ requests'[m].call = requests[m].call
                                    /\ m # n => requests'[m] = requests[m]
  BY <1>2, <1>3, <1>4
<1>6. requests' \in Seq(RequestRecord) /\ DOMAIN requests' = DOMAIN requests
  BY <1>3, <1>5, SeqDef
<1>7. Forward
  BY <1>1, <1>5, <1>6 DEF Forward
<1>8. Landed \subseteq Landed' /\ \A c : Arrived(c) => Arrived(c)'
  BY <1>7, WhatArrivedStays DEF IInv, Truth
<1>9. \A c : RequestOf(c)' = RequestOf(c)
  BY <1>5, <1>6 DEF RequestOf
<1>10. NothingSent' = NothingSent
  BY <1>1, <1>9 DEF NothingSent
<1>11. Typed'
  BY <1>1, <1>6 DEF IInv, Typed
<1>12. JobsInOrder'
  BY <1>1 DEF IInv, Clientele, JobsInOrder, Over, ClientRuns
<1>13. /\ ClientIsNext' = ClientIsNext /\ ClientRuns' = ClientRuns /\ Approved' = Approved
       /\ HandoffDecided' = HandoffDecided
  BY <1>1 DEF ClientIsNext, ClientRuns, Approved, HandoffDecided
<1>14. HandoffIsNpm' /\ SessionsAreNew' /\ DecidedIsQuiet' /\ ClientsInOrder'
  BY <1>1, <1>13 DEF IInv, Clientele, HandoffIsNpm, SessionsAreNew, DecidedIsQuiet,
     ClientsInOrder, NewSession, ClientsAtRest
<1>15. FirstToSend'
  BY <1>1, <1>10, <1>13 DEF IInv, Clientele, FirstToSend
<1>16. ReceiptsAreTrue'
  BY <1>1, <1>8, <1>10, <1>13 DEF IInv, Clientele, ReceiptsAreTrue, Finished
<1>17. RecorderIsRight'
  BY <1>1, <1>8, <1>9, RecorderKept DEF IInv, Clientele
<1>18. NobodyNew
  BY <1>1, <1>13 DEF NobodyNew, MaySend
<1>19. Truth'
  BY <1>1, <1>6, <1>7, <1>18, TruthWithoutWriting DEF IInv
<1> QED BY <1>11, <1>12, <1>14, <1>15, <1>16, <1>17, <1>19 DEF IInv, Clientele

\* The services: requests land, show or are lost, whoever still waits.
LEMMA ServicesKeep ==
  ASSUME IInv, Services
  PROVE  IInv'
<1>1. ASSUME NEW n \in DOMAIN requests, Land(n) PROVE IInv'
  BY <1>1, RequestsMoveKeeps DEF Land, In
<1>2. ASSUME NEW n \in DOMAIN requests, Show(n) PROVE IInv'
  BY <1>2, RequestsMoveKeeps DEF Show, In
<1>3. ASSUME NEW n \in DOMAIN requests, Drop(n) PROVE IInv'
  BY <1>3, RequestsMoveKeeps DEF Drop, In
<1>4. ASSUME Deadline PROVE IInv'
  BY <1>4, UnseenKeeps DEF Deadline
<1> QED BY <1>1, <1>2, <1>3, <1>4 DEF Services

\* The gate's job looks and permits; it changes nothing but itself.
LEMMA GateKeeps ==
  ASSUME IInv, Gate
  PROVE  IInv'
<1>1. PICK to \in {"looks", "selected", "inspected", "success", "failure"} :
        /\ job["gate"] \in {"start", "looks", "selected", "inspected"}
        /\ job' = [job EXCEPT !["gate"] = to]
        /\ UNCHANGED <<journal, requests, run, recorder, handoff, step, session>>
  BY DEF Gate, LookForReady, SelectReady, Inspect, Permit, OnlyJob, Others, Goes
<1>2. /\ "gate" \in Roles /\ to \in JobStates \ {"waiting"}
      /\ job["gate"] \notin Ends \union {"waiting"}
  BY <1>1 DEF Roles, JobStates, Ends
<1> QED BY <1>1, <1>2, JobAlone

\* consume waits for the package that everybody can see.
LEMMA ConsumeKeeps ==
  ASSUME IInv, Consume
  PROVE  IInv'
<1>1. PICK to \in {"success", "failure"} :
        /\ job["consume"] = "start" /\ job' = [job EXCEPT !["consume"] = to]
        /\ UNCHANGED <<journal, requests, run, recorder, handoff, step, session>>
  BY DEF Consume, OnlyJob, Others, Goes
<1>2. /\ "consume" \in Roles /\ to \in JobStates \ {"waiting"}
      /\ job["consume"] \notin Ends \union {"waiting"}
  BY <1>1 DEF Roles, JobStates, Ends
<1> QED BY <1>1, <1>2, JobAlone

-----------------------------------------------------------------------------
(* Appending to the record                                                 *)

\* The record keeps its calls, and what they are for.
CallsKept == \A c \in DOMAIN journal.calls :
               /\ c \in DOMAIN journal'.calls
               /\ journal'.calls[c].effect = journal.calls[c].effect
               /\ journal'.calls[c].operation = journal.calls[c].operation

\* An append takes the way to send from whoever has not been let through yet.
LEMMA NobodyNewOnWriting ==
  ASSUME Typed, HandoffIsNpm, journal'.head = journal.head + 1, UNCHANGED <<handoff, step>>,
         job'["complete"] = "intended" =>
           \/ job["complete"] = "intended" /\ recorder'.call = recorder.call
           \/ recorder'.call \notin DOMAIN journal.calls
  PROVE  NobodyNew
<1>1. journal'.head # handoff'.commit
  BY DEF Typed, Journal, Handoffs, HandoffIsNpm
<1>2. Approved' = Approved
  BY DEF Approved
<1> QED BY <1>1, <1>2 DEF NobodyNew, MaySend

\* What an append does to the jobs and the clients: the npm call is decided
\* only behind its clients.
LEMMA WriterKeeps ==
  ASSUME IInv, UNCHANGED <<requests, run, handoff, step, session>>,
         journal' \in Journal, journal'.head = journal.head + 1,
         CallsKept, job' \in [Roles -> JobStates], JobsInOrder', job'["client"] = job["client"],
         \/ job'["admit"] \in {job["admit"], "failure"}
         \/ job'["admit"] = "opened" /\ NewSession,
         HandoffDecided' => \/ HandoffDecided
                            \/ ClientsAtRest /\ job["client"] \in Ends /\ job["admit"] \in Ends,
         recorder' \in Recorders, RecorderIsRight', Truth'
  PROVE  IInv'
<1>1. Typed'
  BY DEF IInv, Typed
<1>2. HandoffIsNpm'
  BY DEF IInv, Typed, Journal, Handoffs, Clientele, HandoffIsNpm, CallsKept
<1>3. ClientIsNext' => ClientIsNext
  BY DEF ClientIsNext
<1>4. /\ ClientRuns' = ClientRuns /\ NewSession' = NewSession /\ ClientsAtRest' = ClientsAtRest
      /\ NothingSent' = NothingSent /\ Approved' = Approved
      /\ Arrived(handoff.call)' = Arrived(handoff.call)
  BY DEF ClientRuns, NewSession, ClientsAtRest, NothingSent, RequestOf, Approved, Arrived, In
<1>5. SessionsAreNew'
  <2>1. job'["admit"] \in {"opened", "checked"} => NewSession
    BY DEF IInv, Clientele, SessionsAreNew
  <2>2. ClientIsNext' => NewSession
    BY <1>3 DEF IInv, Clientele, SessionsAreNew
  <2>3. job'["admit"] = "start" => job["admit"] = "start" /\ job["admit"] \notin Ends
    BY DEF Ends
  <2>4. job'["admit"] = "start" /\ (handoff'.call = NoCall \/ HandoffDecided') => NewSession
    BY <2>3 DEF IInv, Clientele, SessionsAreNew
  <2> QED BY <1>4, <2>1, <2>2, <2>4 DEF SessionsAreNew
<1>6. DecidedIsQuiet'
  <2>1. job["client"] \in Ends => ~ClientIsNext /\ ~ClientRuns
    BY DEF ClientIsNext, ClientRuns, Ends
  <2> QED BY <1>3, <1>4, <2>1 DEF IInv, Clientele, DecidedIsQuiet
<1>7. ClientsInOrder'
  BY <1>4 DEF IInv, Clientele, ClientsInOrder
<1>8. FirstToSend'
  BY <1>3, <1>4 DEF IInv, Clientele, FirstToSend
<1>9. ReceiptsAreTrue'
  BY <1>4 DEF IInv, Clientele, ReceiptsAreTrue, Finished
<1> QED BY <1>1, <1>2, <1>5, <1>6, <1>7, <1>8, <1>9 DEF IInv, Clientele

\* A job that fails does so whether its append arrived or not.
LEMMA FailureKeeps ==
  ASSUME IInv, NEW r \in {"admit", "observe", "complete"}, job[r] \notin Ends \union {"waiting"},
         Fails(r), UNCHANGED <<requests, run, handoff, step, session>>,
         \/ journal' = journal
         \/ /\ journal' \in Journal /\ journal'.head = journal.head + 1
            /\ CallsKept
            /\ HandoffDecided' => \/ HandoffDecided
                                  \/ ClientsAtRest /\ job["client"] \in Ends /\ job["admit"] \in Ends
            /\ NobodyNew => Truth'
  PROVE  IInv'
<1>1. /\ r \in Roles /\ "failure" \in JobStates \ {"waiting"} /\ r # "client"
      /\ job' = [job EXCEPT ![r] = "failure"] /\ recorder' = recorder
  BY DEF Roles, JobStates, Ends, Fails, Goes
<1>2. /\ job'[r] = "failure" /\ \A s \in Roles \ {r} : job'[s] = job[s]
  BY <1>1 DEF IInv, Typed
<1>3. CASE journal' = journal
  BY <1>1, <1>3, JobAlone
<1>4. CASE journal' # journal
  <2>1. JobsInOrder' /\ job' \in [Roles -> JobStates]
    BY <1>1, JobGoesOn DEF IInv, Clientele
  <2>2. /\ job'["complete"] = job["complete"] \/ job'["complete"] = "failure"
        /\ job'["observe"] = job["observe"] \/ job'["observe"] = "failure"
        /\ job'["client"] = job["client"]
        /\ job'["admit"] = job["admit"] \/ job'["admit"] = "failure"
    BY <1>2 DEF Roles
  <2>3. NobodyNew
    BY <1>1, <1>4, <2>2, NobodyNewOnWriting DEF IInv, Clientele
  <2>4. Forward
    BY <1>1, <1>4, SameRequests DEF CallsKept
  <2>5. Landed \subseteq Landed' /\ \A c : Arrived(c) => Arrived(c)'
    BY <2>4, WhatArrivedStays DEF IInv, Truth
  <2>6. RequestOf(recorder.call)' = RequestOf(recorder.call)
    BY <1>1 DEF RequestOf
  <2>7. RecorderIsRight'
    BY <1>1, <1>4, <2>2, <2>5, <2>6, RecorderKept DEF IInv, Clientele, CallsKept
  <2> QED BY <1>1, <1>4, <2>1, <2>2, <2>3, <2>7, WriterKeeps DEF IInv, Typed
<1> QED BY <1>3, <1>4

\* admit opens the operation: a record that is clear has decided the last npm
\* call, so that nobody is left in the client's directory.
LEMMA AdmitKeeps ==
  ASSUME IInv, Admit
  PROVE  IInv'
<1> DEFINE k == Open(journal, run, Effects \ Everywhere(journal))
<1>1. /\ job["admit"] = "start" /\ "start" \notin Ends \union {"waiting"} /\ "admit" \in Roles
      /\ UNCHANGED <<requests, run, handoff, step, session>>
  BY DEF Admit, Ends, Roles
<1>2. \/ Fails("admit") /\ journal' = journal
      \/ /\ MayOpen(journal, run) /\ Clear(journal) /\ journal' = k
         /\ Fails("admit") \/ Learns("admit", "opened", Everywhere(journal))
  BY DEF Admit, Push
<1>3. CASE Fails("admit") /\ journal' = journal
  BY <1>1, <1>3, FailureKeeps
<1>4. ASSUME MayOpen(journal, run), Clear(journal), journal' = k,
             Fails("admit") \/ Learns("admit", "opened", Everywhere(journal))
      PROVE  IInv'
  <2>1. run \in Operations
    BY <1>1 DEF IInv, Clientele, JobsInOrder, Over, Roles, Ends
  <2>2. Effects \ Everywhere(journal) \in SUBSET Effects /\ journal \in Journal
    BY DEF IInv, Typed
  <2>3. /\ journal' \in Journal /\ journal'.head = journal.head + 1
        /\ journal'.calls = journal.calls
    BY <1>4, <2>1, <2>2, OpenFacts
  <2>4. CallsKept /\ HandoffDecided' = HandoffDecided
    BY <1>1, <2>3 DEF CallsKept, HandoffDecided
  <2>5. NobodyNew => Truth'
    BY <1>1, <1>4, <2>1, TruthOfOpening DEF IInv
  <2>6. CASE Fails("admit")
    BY <1>1, <2>3, <2>4, <2>5, <2>6, FailureKeeps
  <2>7. CASE Learns("admit", "opened", Everywhere(journal))
    <3>1. /\ job' = [job EXCEPT !["admit"] = "opened"]
          /\ recorder' = [recorder EXCEPT !.head = journal.head + 1,
                                          !.complete = Everywhere(journal)]
      BY <2>7 DEF Learns, Goes
    <3>2. /\ job'["admit"] = "opened" /\ \A s \in Roles \ {"admit"} : job'[s] = job[s]
          /\ "opened" \in JobStates \ {"waiting"}
          /\ \A s \in Roles \ {"admit"} : job[s] = "waiting"
      BY <1>1, <3>1 DEF IInv, Typed, Clientele, JobsInOrder, JobStates
    <3>3. /\ job'["client"] = job["client"] /\ job'["observe"] = "waiting"
          /\ job'["complete"] = "waiting"
      BY <3>2 DEF Roles
    <3>4. JobsInOrder' /\ job' \in [Roles -> JobStates]
      BY <1>1, <3>1, <3>2, JobGoesOn DEF IInv, Clientele
    <3>5. recorder' \in Recorders
      <4>1. Everywhere(journal) \in SUBSET Effects
        BY CallsOfJournal DEF Everywhere, Known, IInv, Typed, CallRecord
      <4>2. journal.head + 1 \in Nat
        BY DEF IInv, Typed, Journal
      <4> QED BY <3>1, <4>1, <4>2 DEF IInv, Typed, Recorders
    <3>6. RecorderIsRight'
      BY <3>3 DEF RecorderIsRight, Writing
    <3>7. NewSession
      <4>1. \A c \in DOMAIN journal.calls :
              ~journal.calls[c].blocks /\ ~journal.retired
        BY <1>4 DEF MayOpen, Settled, Blocking
      <4>2. handoff.call = NoCall \/ HandoffDecided
        BY <4>1 DEF IInv, Truth, OutcomesHold, Clientele, HandoffIsNpm, HandoffDecided
      <4> QED BY <1>1, <4>2 DEF IInv, Clientele, SessionsAreNew
    <3>8. NobodyNew
      BY <1>1, <2>3, <3>3, NobodyNewOnWriting DEF IInv, Clientele
    <3> QED BY <1>1, <2>3, <2>4, <2>5, <3>2, <3>3, <3>4, <3>5, <3>6, <3>7, <3>8, WriterKeeps
  <2> QED BY <1>4, <2>6, <2>7
<1> QED BY <1>2, <1>3, <1>4

\* admit records the intent to call npm. The new call is handed off, and it is
\* the one that may send now: nobody has come that far for it.
LEMMA IntendNpmKeeps ==
  ASSUME IInv, IntendNpm
  PROVE  IInv'
<1> DEFINE n == Len(journal.calls) + 1
<1>1. /\ job["admit"] = "checked" /\ "checked" \notin Ends \union {"waiting"} /\ "admit" \in Roles
      /\ UNCHANGED <<requests, run, step, session>>
  BY DEF IntendNpm, Ends, Roles
<1>2. \/ Fails("admit") /\ UNCHANGED <<journal, handoff>>
      \/ /\ MayIntend(journal, run, Npm) /\ journal' = Intend(journal, run, Npm)
         /\ \/ Fails("admit") /\ UNCHANGED handoff
            \/ /\ Learns("admit", "success", recorder.complete)
               /\ handoff' = [call |-> n, commit |-> journal.head + 1]
  BY DEF IntendNpm, Push
<1>3. CASE Fails("admit") /\ UNCHANGED <<journal, handoff>>
  BY <1>1, <1>3, FailureKeeps
<1>4. ASSUME MayIntend(journal, run, Npm), journal' = Intend(journal, run, Npm)
      PROVE  /\ journal' \in Journal /\ journal'.head = journal.head + 1 /\ CallsKept
             /\ DOMAIN journal'.calls = DOMAIN journal.calls \union {n}
             /\ n \notin DOMAIN journal.calls /\ journal'.calls[n].effect = Npm
             /\ journal'.calls[n].outcome = "unknown"
             /\ \A c \in DOMAIN journal.calls : journal'.calls[c] = journal.calls[c]
             /\ NobodyNew => Truth'
  <2>1. run \in Operations
    BY <1>1 DEF IInv, Clientele, JobsInOrder, Over, Roles, Ends
  <2>2. Npm \in Effects /\ journal \in Journal
    BY OrderFacts DEF IInv, Typed
  <2>3. /\ journal' \in Journal /\ journal'.head = journal.head + 1
        /\ DOMAIN journal'.calls = DOMAIN journal.calls \union {n}
        /\ n \notin DOMAIN journal.calls /\ journal'.calls[n].effect = Npm
        /\ journal'.calls[n].outcome = "unknown"
        /\ \A c \in DOMAIN journal.calls : journal'.calls[c] = journal.calls[c]
    BY <1>4, <2>1, <2>2, IntendFacts
  <2>4. CallsKept
    BY <2>3 DEF CallsKept
  <2>5. \A i \in DOMAIN Order : Order[i] = Npm => \A k \in 1..(i - 1) : Order[k] \in Landed
    <3> SUFFICES ASSUME NEW i \in DOMAIN Order, Order[i] = Npm, NEW k \in 1..(i - 1)
                 PROVE  Order[k] \in Landed
      OBVIOUS
    <3>1. i = 1
      BY OrderFacts
    <3> QED BY <3>1
  <2>6. NobodyNew => Truth'
    BY <1>1, <1>4, <2>1, <2>2, <2>5, TruthOfIntending DEF IInv
  <2> QED BY <2>3, <2>4, <2>6
<1>5. ASSUME MayIntend(journal, run, Npm), journal' = Intend(journal, run, Npm),
             Fails("admit"), UNCHANGED handoff
      PROVE  IInv'
  <2>1. HandoffDecided' => HandoffDecided
    BY <1>4, <1>5 DEF HandoffDecided, IInv, Clientele, HandoffIsNpm
  <2> QED BY <1>1, <1>4, <1>5, <2>1, FailureKeeps
<1>6. ASSUME MayIntend(journal, run, Npm), journal' = Intend(journal, run, Npm),
             Learns("admit", "success", recorder.complete),
             handoff' = [call |-> n, commit |-> journal.head + 1]
      PROVE  IInv'
  <2>1. /\ job' = [job EXCEPT !["admit"] = "success"]
        /\ recorder' = [recorder EXCEPT !.head = journal.head + 1,
                                        !.complete = recorder.complete]
        /\ handoff'.call = n /\ handoff'.commit = journal.head + 1
    BY <1>6 DEF Learns, Goes
  <2>2. /\ job'["admit"] = "success" /\ \A s \in Roles \ {"admit"} : job'[s] = job[s]
        /\ "success" \in JobStates \ {"waiting"}
        /\ \A s \in Roles \ {"admit"} : job[s] = "waiting"
    BY <1>1, <2>1 DEF IInv, Typed, Clientele, JobsInOrder, JobStates, Ends
  <2>3. /\ job'["client"] = "waiting" /\ job'["observe"] = "waiting"
        /\ job'["complete"] = "waiting" /\ ~ClientRuns'
    BY <2>2 DEF Roles, ClientRuns
  <2>4. JobsInOrder' /\ job' \in [Roles -> JobStates]
    BY <1>1, <2>1, <2>2, JobGoesOn DEF IInv, Clientele
  <2>5. NewSession /\ NewSession'
    BY <1>1 DEF IInv, Clientele, SessionsAreNew, NewSession
  <2>6. journal.head + 1 \in Nat /\ n \in Nat
    BY CallsOfJournal DEF IInv, Typed, Journal
  <2>7. recorder' \in Recorders /\ handoff' \in Handoffs
    BY <1>6, <2>1, <2>6 DEF IInv, Typed, Recorders, Handoffs
  <2>8. Typed'
    BY <1>1, <1>4, <1>6, <2>4, <2>7 DEF IInv, Typed
  <2>9. HandoffIsNpm'
    BY <1>4, <1>6, <2>1, <2>6 DEF HandoffIsNpm
  <2>10. ~HandoffDecided'
    BY <1>4, <1>6, <2>1 DEF HandoffDecided
  <2>11. NothingSent'
    BY <1>1, <1>4, <1>6, <2>1 DEF NothingSent, RequestOf, IInv, Truth, RequestsAreOfCalls
  <2>12. ClientsInOrder' /\ FirstToSend' /\ ReceiptsAreTrue'
    BY <2>3, <2>5, <2>11, NewSessionIsInOrder
  <2>13. SessionsAreNew' /\ DecidedIsQuiet'
    BY <2>5, <2>10 DEF SessionsAreNew, DecidedIsQuiet
  <2>14. RecorderIsRight'
    BY <2>3 DEF RecorderIsRight, Writing
  <2>15. NobodyNew
    BY <1>4, <1>6, <2>1, <2>3 DEF NobodyNew, MaySend
  <2> QED BY <1>4, <1>6, <2>4, <2>8, <2>9, <2>12, <2>13, <2>14, <2>15 DEF IInv, Clientele
<1> QED BY <1>2, <1>3, <1>5, <1>6

\* observe writes down what the receipt says. With no effect the call is dead:
\* nothing was sent, nobody is approved, and the append itself bars the rest.
LEMMA RecordNpmKeeps ==
  ASSUME IInv, RecordNpm
  PROVE  IInv'
<1> DEFINE basis == IF Human THEN "reconciliation" ELSE "call"
<1>1. /\ job["observe"] = "read" /\ "read" \notin Ends \union {"waiting"} /\ "observe" \in Roles
      /\ UNCHANGED <<requests, run, handoff, step, session>>
  BY DEF RecordNpm, Others, Ends, Roles
<1>2. \/ Fails("observe") /\ journal' = journal
      \/ /\ journal' = Observe(journal, handoff.call, recorder.outcome, basis)
         /\ \/ Fails("observe")
            \/ /\ \E to \in {"success", "failure"} : job' = [job EXCEPT !["observe"] = to]
               /\ recorder' = recorder
  BY DEF RecordNpm, Push, Goes
<1>3. CASE Fails("observe") /\ journal' = journal
  BY <1>1, <1>3, FailureKeeps
<1>4. /\ job["client"] \in Ends /\ job["admit"] \in Ends /\ job["complete"] = "waiting"
      /\ ~ClientRuns
  BY <1>1 DEF IInv, Clientele, JobsInOrder, Roles, ClientRuns, Ends
<1>5. /\ handoff.call \in DOMAIN journal.calls
      /\ recorder.outcome \in {"unknown", "none", "effect"}
      /\ recorder.outcome \in {"unknown", session.receipt}
  BY <1>1 DEF IInv, Clientele, RecorderIsRight, HandoffIsNpm, Typed, Recorders
<1>6. ASSUME journal' = Observe(journal, handoff.call, recorder.outcome, basis)
      PROVE  /\ journal' \in Journal /\ journal'.head = journal.head + 1 /\ CallsKept
             /\ HandoffDecided' => HandoffDecided \/ ClientsAtRest
             /\ job'["complete"] # "intended" /\ NobodyNew => Truth'
  <2>1. journal \in Journal
    BY DEF IInv, Typed
  <2>2. /\ journal' \in Journal /\ journal'.head = journal.head + 1
        /\ DOMAIN journal'.calls = DOMAIN journal.calls
        /\ \A d \in DOMAIN journal.calls \ {handoff.call} : journal'.calls[d] = journal.calls[d]
        /\ journal'.calls[handoff.call].operation = journal.calls[handoff.call].operation
        /\ journal'.calls[handoff.call].effect = journal.calls[handoff.call].effect
    BY <1>5, <1>6, <2>1, ObserveFacts
  <2>3. /\ recorder.outcome = "unknown" /\ journal.calls[handoff.call].outcome = "unknown" =>
             journal'.calls[handoff.call].outcome = "unknown"
    BY <1>5, <1>6, <2>1, ObserveFacts
  <2>4. CallsKept
    BY <2>2 DEF CallsKept
  <2>5. ClientsAtRest \/ (session.human /\ session.receipt = "missing")
    BY <1>4 DEF IInv, Clientele, ClientsInOrder, ClientsAtRest, Clients
  <2>6. HandoffDecided' => HandoffDecided \/ ClientsAtRest
    <3>1. CASE recorder.outcome = "unknown"
      BY <1>1, <2>3, <3>1 DEF HandoffDecided
    <3>2. CASE recorder.outcome # "unknown"
      BY <1>5, <2>5, <3>2
    <3> QED BY <3>1, <3>2
  <2>7. recorder.outcome = "effect" => Arrived(handoff.call)
    BY <1>5 DEF IInv, Clientele, ReceiptsAreTrue
  <2>8. ASSUME recorder.outcome = "none", job'["complete"] # "intended"
        PROVE  Dead(handoff.call)'
    <3>1. NothingSent /\ ~Approved
      BY <1>5, <2>8 DEF IInv, Clientele, ReceiptsAreTrue
    <3>2. RequestOf(handoff.call)' = {} /\ ~Approved'
      BY <1>1, <3>1 DEF NothingSent, RequestOf, Approved
    <3>3. journal'.head # handoff'.commit
      BY <1>1, <2>2 DEF IInv, Typed, Journal, Handoffs, Clientele, HandoffIsNpm
    <3> QED BY <1>1, <2>8, <3>2, <3>3 DEF Dead, MaySend
  <2>9. job'["complete"] # "intended" /\ NobodyNew => Truth'
    <3> SUFFICES ASSUME job'["complete"] # "intended", NobodyNew PROVE Truth'
      OBVIOUS
    <3> QED BY <1>1, <1>5, <1>6, <2>7, <2>8, TruthOfObserving DEF IInv
  <2> QED BY <2>2, <2>4, <2>6, <2>9
<1>7. ASSUME journal' = Observe(journal, handoff.call, recorder.outcome, basis), Fails("observe")
      PROVE  IInv'
  <2>1. job'["complete"] # "intended"
    BY <1>4, <1>7 DEF Fails, Goes, Roles, IInv, Typed
  <2> QED BY <1>1, <1>4, <1>6, <1>7, <2>1, FailureKeeps
<1>8. ASSUME journal' = Observe(journal, handoff.call, recorder.outcome, basis),
             NEW to \in {"success", "failure"}, job' = [job EXCEPT !["observe"] = to],
             recorder' = recorder
      PROVE  IInv'
  <2>1. to \in JobStates \ {"waiting"} /\ to \in Ends
    BY DEF JobStates, Ends
  <2>2. JobsInOrder' /\ job' \in [Roles -> JobStates]
    BY <1>1, <1>8, <2>1, JobGoesOn DEF IInv, Clientele
  <2>3. /\ job'["client"] = job["client"] /\ job'["admit"] = job["admit"]
        /\ job'["complete"] = "waiting" /\ job'["observe"] = to
    BY <1>4, <1>8 DEF Roles, IInv, Typed
  <2>4. RecorderIsRight'
    BY <2>3, <2>1 DEF RecorderIsRight, Writing, Ends
  <2>5. NobodyNew
    BY <1>1, <1>6, <1>8, <2>3, NobodyNewOnWriting DEF IInv, Clientele
  <2>6. recorder' \in Recorders
    BY <1>8 DEF IInv, Typed
  <2> QED BY <1>1, <1>4, <1>6, <1>8, <2>2, <2>3, <2>4, <2>5, <2>6, WriterKeeps
<1> QED BY <1>2, <1>3, <1>7, <1>8

\* complete intends the next effect: all that comes before it has landed.
LEMMA IntendNextKeeps ==
  ASSUME IInv, IntendNext
  PROVE  IInv'
<1>0. PICK n : n = Len(journal.calls) + 1
  OBVIOUS
<1> DEFINE fresh == [recorder EXCEPT !.head = journal.head + 1, !.call = n]
<1>1. /\ job["complete"] = "checked" /\ "checked" \notin Ends \union {"waiting"}
      /\ "complete" \in Roles /\ Remaining # {}
      /\ UNCHANGED <<requests, run, handoff, step, session>>
  BY DEF IntendNext, Others, Ends, Roles
<1>2. \/ Fails("complete") /\ journal' = journal
      \/ /\ MayIntend(journal, run, NextEffect) /\ journal' = Intend(journal, run, NextEffect)
         /\ \/ Fails("complete")
            \/ Goes("complete", "intended") /\ recorder' = fresh
  BY <1>0 DEF IntendNext, Push
<1>3. CASE Fails("complete") /\ journal' = journal
  BY <1>1, <1>3, FailureKeeps
<1>4. /\ Npm \in recorder.complete /\ recorder.complete \subseteq Landed
      /\ job["observe"] \in Ends /\ job["observe"] # "read"
  BY <1>1 DEF IInv, Clientele, RecorderIsRight, JobsInOrder, Ends
<1>5. PICK i \in DOMAIN Order :
        /\ NextEffect = Order[i] /\ \A k \in 1..(i - 1) : Order[k] \in recorder.complete
  BY <1>1, NextEffectFacts
<1>6. NextEffect \in Effects
  BY <1>5 DEF Effects
<1>7. ASSUME MayIntend(journal, run, NextEffect), journal' = Intend(journal, run, NextEffect)
      PROVE  /\ journal' \in Journal /\ journal'.head = journal.head + 1 /\ CallsKept
             /\ n \in DOMAIN journal'.calls
             /\ n \notin DOMAIN journal.calls /\ journal'.calls[n].effect = NextEffect
             /\ HandoffDecided' => HandoffDecided
             /\ NobodyNew => Truth'
  <2>1. run \in Operations
    BY <1>1 DEF IInv, Clientele, JobsInOrder, Over, Roles, Ends
  <2>2. journal \in Journal
    BY DEF IInv, Typed
  <2>3. /\ journal' \in Journal /\ journal'.head = journal.head + 1
        /\ DOMAIN journal'.calls = DOMAIN journal.calls \union {n}
        /\ n \notin DOMAIN journal.calls /\ journal'.calls[n].effect = NextEffect
        /\ \A c \in DOMAIN journal.calls : journal'.calls[c] = journal.calls[c]
    BY <1>0, <1>6, <1>7, <2>1, <2>2, IntendFacts
  <2>4. CallsKept
    BY <2>3 DEF CallsKept
  <2>5. \A m \in DOMAIN Order : Order[m] = NextEffect => \A k \in 1..(m - 1) : Order[k] \in Landed
    <3> SUFFICES ASSUME NEW m \in DOMAIN Order, Order[m] = NextEffect
                 PROVE  \A k \in 1..(m - 1) : Order[k] \in Landed
      OBVIOUS
    <3>1. m = i
      BY <1>5, OrderFacts
    <3> QED BY <1>4, <1>5, <3>1
  <2>6. NobodyNew => Truth'
    BY <1>1, <1>6, <1>7, <2>1, <2>5, TruthOfIntending DEF IInv
  <2>7. HandoffDecided' => HandoffDecided
    BY <1>1, <2>3 DEF HandoffDecided, IInv, Clientele, HandoffIsNpm
  <2> QED BY <2>3, <2>4, <2>6, <2>7
<1>8. ASSUME MayIntend(journal, run, NextEffect), journal' = Intend(journal, run, NextEffect),
             Fails("complete")
      PROVE  IInv'
  BY <1>1, <1>7, <1>8, FailureKeeps
<1>9. ASSUME MayIntend(journal, run, NextEffect), journal' = Intend(journal, run, NextEffect),
             Goes("complete", "intended"), recorder' = fresh
      PROVE  IInv'
  <2>1. /\ job' = [job EXCEPT !["complete"] = "intended"] /\ job'["complete"] = "intended"
        /\ job'["client"] = job["client"] /\ job'["admit"] = job["admit"]
        /\ job'["observe"] = job["observe"] /\ "intended" \in JobStates \ {"waiting"}
    BY <1>9 DEF Goes, IInv, Typed, Roles, JobStates
  <2>2. JobsInOrder' /\ job' \in [Roles -> JobStates]
    BY <1>1, <2>1, JobGoesOn DEF IInv, Clientele
  <2>3. journal.head + 1 \in Nat /\ n \in Nat
    BY <1>0, CallsOfJournal DEF IInv, Typed, Journal
  <2>4. /\ recorder' \in Recorders /\ recorder'.call = n
        /\ recorder'.complete = recorder.complete
    BY <1>9, <2>3 DEF IInv, Typed, Recorders
  <2>5. NobodyNew
    BY <1>1, <1>7, <1>9, <2>4, NobodyNewOnWriting DEF IInv, Clientele
  <2>6. Landed \subseteq Landed'
    BY <1>1, <1>7, <1>9, SameRequests, WhatArrivedStays DEF CallsKept, IInv, Truth
  <2>7. Remaining' = Remaining /\ NextEffect' = NextEffect
    BY <2>4 DEF Remaining, NextEffect
  <2>8. RequestOf(n)' = {}
    BY <1>1, <1>7, <1>9 DEF RequestOf, IInv, Truth, RequestsAreOfCalls
  <2>9. RecorderIsRight'
    BY <1>1, <1>4, <1>7, <1>9, <2>1, <2>4, <2>6, <2>7, <2>8 DEF RecorderIsRight, Writing
  <2> QED BY <1>1, <1>7, <1>9, <2>1, <2>2, <2>4, <2>5, <2>9, WriterKeeps
<1> QED BY <1>2, <1>3, <1>8, <1>9

\* complete writes down what it was answered. A call that was not sent is dead
\* since the role has left the place where it could send it.
LEMMA RecordAnswerKeeps ==
  ASSUME IInv, RecordAnswer
  PROVE  IInv'
<1>1. /\ job["complete"] = "answered" /\ "answered" \notin Ends \union {"waiting"}
      /\ "complete" \in Roles /\ Writing
      /\ UNCHANGED <<requests, run, handoff, step, session>>
  BY DEF RecordAnswer, Others, Ends, Roles, Writing
<1>c. PICK c : c = recorder.call
  OBVIOUS
<1>2. \/ Fails("complete") /\ journal' = journal
      \/ /\ journal' = Observe(journal, c, recorder.outcome, "call")
         /\ \/ Fails("complete")
            \/ /\ recorder.outcome = "effect"
               /\ Learns("complete", "next", recorder.complete \union {NextEffect})
  BY <1>c DEF RecordAnswer, Push
<1>3. CASE Fails("complete") /\ journal' = journal
  BY <1>1, <1>3, FailureKeeps
<1>4. /\ c \in DOMAIN journal.calls /\ c # handoff.call
      /\ recorder.outcome \in {"unknown", "none", "effect"} /\ Remaining # {}
      /\ journal.calls[c].effect = NextEffect
      /\ recorder.outcome = "none" => RequestOf(c) = {}
      /\ recorder.outcome = "effect" => Arrived(c)
      /\ Npm \in recorder.complete /\ recorder.complete \subseteq Landed
      /\ job["observe"] \in Ends /\ job["observe"] # "read"
  BY <1>1, <1>c, CallsAreApart
     DEF IInv, Typed, Recorders, Clientele, RecorderIsRight, JobsInOrder, Ends
<1>5. ASSUME journal' = Observe(journal, c, recorder.outcome, "call")
      PROVE  /\ journal' \in Journal /\ journal'.head = journal.head + 1 /\ CallsKept
             /\ HandoffDecided' => HandoffDecided
             /\ job'["complete"] # "intended" /\ NobodyNew => Truth'
  <2>1. journal \in Journal
    BY DEF IInv, Typed
  <2>2. /\ journal' \in Journal /\ journal'.head = journal.head + 1
        /\ DOMAIN journal'.calls = DOMAIN journal.calls
        /\ \A d \in DOMAIN journal.calls \ {c} : journal'.calls[d] = journal.calls[d]
        /\ journal'.calls[c].operation = journal.calls[c].operation
        /\ journal'.calls[c].effect = journal.calls[c].effect
    BY <1>4, <1>5, <2>1, ObserveFacts
  <2>3. CallsKept
    BY <2>2 DEF CallsKept
  <2>4. HandoffDecided' => HandoffDecided
    BY <1>1, <1>4, <2>2 DEF HandoffDecided, IInv, Clientele, HandoffIsNpm
  <2>5. recorder.outcome = "none" /\ job'["complete"] # "intended" => Dead(c)'
    BY <1>1, <1>4 DEF Dead, MaySend, RequestOf
  <2> QED BY <1>1, <1>4, <1>5, <2>2, <2>3, <2>4, <2>5, TruthOfObserving DEF IInv
<1>6. ASSUME journal' = Observe(journal, c, recorder.outcome, "call"), Fails("complete")
      PROVE  IInv'
  <2>1. job'["complete"] # "intended"
    BY <1>1, <1>6 DEF Fails, Goes, IInv, Typed
  <2> QED BY <1>1, <1>5, <1>6, <2>1, FailureKeeps
<1>7. ASSUME journal' = Observe(journal, c, recorder.outcome, "call"),
             recorder.outcome = "effect",
             Learns("complete", "next", recorder.complete \union {NextEffect})
      PROVE  IInv'
  <2>1. /\ job' = [job EXCEPT !["complete"] = "next"] /\ job'["complete"] = "next"
        /\ job'["client"] = job["client"] /\ job'["admit"] = job["admit"]
        /\ job'["observe"] = job["observe"] /\ "next" \in JobStates \ {"waiting"}
    BY <1>7 DEF Learns, Goes, IInv, Typed, Roles, JobStates
  <2>2. JobsInOrder' /\ job' \in [Roles -> JobStates]
    BY <1>1, <2>1, JobGoesOn DEF IInv, Clientele
  <2>3. /\ NextEffect \in Effects /\ NextEffect \in Landed
        /\ journal.head + 1 \in Nat
    BY <1>4, <1>7, NextEffectFacts, ArrivedHasLanded DEF Effects, IInv, Typed, Journal
  <2>4. /\ recorder' \in Recorders
        /\ recorder'.complete = recorder.complete \union {NextEffect}
    BY <1>7, <2>3 DEF Learns, IInv, Typed, Recorders
  <2>5. NobodyNew
    BY <1>1, <1>5, <1>7, <2>1, NobodyNewOnWriting DEF IInv, Clientele
  <2>6. Landed \subseteq Landed'
    BY <1>1, <1>5, <1>7, SameRequests, WhatArrivedStays DEF CallsKept, IInv, Truth
  <2>7. RecorderIsRight'
    BY <1>4, <2>1, <2>3, <2>4, <2>6 DEF RecorderIsRight, Writing
  <2> QED BY <1>1, <1>5, <1>7, <2>1, <2>2, <2>4, <2>5, <2>7, WriterKeeps
<1> QED BY <1>2, <1>3, <1>6, <1>7

\* complete closes an operation that owes nothing more.
LEMMA CloseCompletedKeeps ==
  ASSUME IInv, CloseCompleted
  PROVE  IInv'
<1>1. /\ job["complete"] = "checked" /\ "checked" \notin Ends \union {"waiting"}
      /\ "complete" \in Roles
      /\ UNCHANGED <<requests, run, handoff, step, session>>
  BY DEF CloseCompleted, Others, Ends, Roles
<1>2. \/ Fails("complete") /\ journal' = journal
      \/ /\ MayClose(journal, run, "completed") /\ journal' = Close(journal, run, "completed")
         /\ \/ Fails("complete")
            \/ Goes("complete", "success") /\ recorder' = recorder
  BY DEF CloseCompleted, Push
<1>3. CASE Fails("complete") /\ journal' = journal
  BY <1>1, <1>3, FailureKeeps
<1>4. ASSUME MayClose(journal, run, "completed"), journal' = Close(journal, run, "completed")
      PROVE  /\ journal' \in Journal /\ journal'.head = journal.head + 1 /\ CallsKept
             /\ HandoffDecided' = HandoffDecided
             /\ NobodyNew => Truth'
  <2>1. run \in Operations /\ journal \in Journal
    BY <1>1 DEF IInv, Typed, Clientele, JobsInOrder, Over, Roles, Ends
  <2>2. /\ journal' \in Journal /\ journal'.head = journal.head + 1
        /\ journal'.calls = journal.calls
    BY <1>4, <2>1, CloseFacts
  <2>3. CallsKept /\ HandoffDecided' = HandoffDecided
    BY <1>1, <2>2 DEF CallsKept, HandoffDecided
  <2>4. NobodyNew => Truth'
    BY <1>1, <1>4, <2>1, TruthOfClosing DEF IInv
  <2> QED BY <2>2, <2>3, <2>4
<1>5. CASE /\ MayClose(journal, run, "completed") /\ journal' = Close(journal, run, "completed")
           /\ Fails("complete")
  BY <1>1, <1>4, <1>5, FailureKeeps
<1>6. CASE /\ MayClose(journal, run, "completed") /\ journal' = Close(journal, run, "completed")
           /\ Goes("complete", "success") /\ recorder' = recorder
  <2>1. /\ job' = [job EXCEPT !["complete"] = "success"] /\ job'["complete"] = "success"
        /\ job'["client"] = job["client"] /\ job'["admit"] = job["admit"]
        /\ job'["observe"] = job["observe"] /\ "success" \in JobStates \ {"waiting"}
    BY <1>6 DEF Goes, IInv, Typed, Roles, JobStates, Ends
  <2>2. JobsInOrder' /\ job' \in [Roles -> JobStates]
    BY <1>1, <2>1, JobGoesOn DEF IInv, Clientele
  <2>3. NobodyNew
    BY <1>1, <1>4, <1>6, <2>1, NobodyNewOnWriting DEF IInv, Clientele
  <2>4. RecorderIsRight'
    BY <1>1, <2>1 DEF RecorderIsRight, Writing, IInv, Clientele, JobsInOrder, Ends
  <2>5. recorder' \in Recorders
    BY <1>6 DEF IInv, Typed
  <2> QED BY <1>1, <1>4, <1>6, <2>1, <2>2, <2>3, <2>4, <2>5, WriterKeeps
<1> QED BY <1>2, <1>3, <1>5, <1>6

\* The operator changes nothing but the record.
LEMMA ByOperatorKeeps ==
  ASSUME IInv, ByOperator, journal' \in Journal, journal'.head = journal.head + 1, CallsKept,
         HandoffDecided' => \/ HandoffDecided
                            \/ ClientsAtRest /\ job["client"] \in Ends /\ job["admit"] \in Ends,
         NobodyNew => Truth'
  PROVE  IInv'
<1>1. UNCHANGED <<requests, run, handoff, step, session>> /\ job' = job /\ recorder' = recorder
  BY DEF ByOperator
<1>2. NobodyNew
  BY <1>1, NobodyNewOnWriting DEF IInv, Clientele
<1>3. Landed \subseteq Landed' /\ \A c : Arrived(c) => Arrived(c)'
  BY <1>1, SameRequests, WhatArrivedStays DEF CallsKept, IInv, Truth
<1>4. RequestOf(recorder.call)' = RequestOf(recorder.call)
  BY <1>1 DEF RequestOf
<1>5. RecorderIsRight'
  BY <1>1, <1>3, <1>4, RecorderKept DEF IInv, Clientele, CallsKept
<1>6. JobsInOrder' /\ job' \in [Roles -> JobStates] /\ recorder' \in Recorders
  BY <1>1 DEF IInv, Typed, Clientele, JobsInOrder, Over, ClientRuns
<1> QED BY <1>1, <1>2, <1>5, <1>6, WriterKeeps

\* A look at the destination decides nothing that was open.
LEMMA NoteKeeps ==
  ASSUME IInv, NEW c \in DOMAIN journal.calls, Note(c)
  PROVE  IInv'
<1>1. journal' = Observe(journal, c, "unknown", "destination") /\ ByOperator
  BY DEF Note
<1>2. journal \in Journal /\ UNCHANGED <<requests, handoff>>
  BY <1>1 DEF IInv, Typed, ByOperator
<1>3. /\ journal' \in Journal /\ journal'.head = journal.head + 1
      /\ DOMAIN journal'.calls = DOMAIN journal.calls
      /\ \A d \in DOMAIN journal.calls \ {c} : journal'.calls[d] = journal.calls[d]
      /\ journal'.calls[c].operation = journal.calls[c].operation
      /\ journal'.calls[c].effect = journal.calls[c].effect
  BY <1>1, <1>2, ObserveFacts
<1>4. journal.calls[c].outcome = "unknown" => journal'.calls[c].outcome = "unknown"
  BY <1>1, <1>2, ObserveFacts
<1>5. CallsKept
  BY <1>3 DEF CallsKept
<1>6. HandoffDecided' => HandoffDecided
  BY <1>2, <1>3, <1>4 DEF HandoffDecided, IInv, Clientele, HandoffIsNpm
<1>7. NobodyNew => Truth'
  BY <1>1, <1>2, TruthOfObserving DEF IInv
<1> QED BY <1>1, <1>3, <1>5, <1>6, <1>7, ByOperatorKeeps

\* A call that is reconciled has nobody left to send for it.
LEMMA ReconcileKeeps ==
  ASSUME IInv, NEW c, Reconcile(c)
  PROVE  IInv'
<1>1. /\ Quiet /\ c \in DOMAIN journal.calls /\ ByOperator
      /\ \A n \in RequestOf(c) : requests[n].state # "flying"
  BY DEF Reconcile, Blocking
<1>2. journal \in Journal /\ UNCHANGED <<requests, handoff, step, job>>
  BY <1>1 DEF IInv, Typed, ByOperator
<1>3. PICK found \in {"unknown", "none", "effect"} :
        /\ journal' = Observe(journal, c, found, "reconciliation")
        /\ found = "effect" => Arrived(c)
        /\ found = "none" => ~Arrived(c)
  BY DEF Reconcile
<1>4. /\ journal' \in Journal /\ journal'.head = journal.head + 1
      /\ DOMAIN journal'.calls = DOMAIN journal.calls
      /\ \A d \in DOMAIN journal.calls \ {c} : journal'.calls[d] = journal.calls[d]
      /\ journal'.calls[c].operation = journal.calls[c].operation
      /\ journal'.calls[c].effect = journal.calls[c].effect
  BY <1>1, <1>2, <1>3, ObserveFacts
<1>5. CallsKept
  BY <1>4 DEF CallsKept
<1>6. ClientsAtRest /\ ~Approved /\ \A r \in Roles : job[r] \in Ends
  BY <1>1 DEF Quiet, ClientsAtRest, Over, Approved
<1>7. job["client"] \in Ends /\ job["admit"] \in Ends /\ job["complete"] \in Ends
  BY <1>6 DEF Roles
<1>8. ~Arrived(c) => Dead(c)'
  <2>1. ~MaySend(c)'
    <3>1. journal'.head # handoff'.commit
      BY <1>2, <1>4 DEF IInv, Typed, Journal, Handoffs, Clientele, HandoffIsNpm
    <3> QED BY <1>2, <1>6, <1>7, <3>1 DEF MaySend, Approved, Ends
  <2>2. \A n \in RequestOf(c) : requests[n].state \in {"flying", "landed", "visible", "dropped"}
    <3>1. requests \in Seq(RequestRecord)
      BY DEF IInv, Typed
    <3>2. \A n \in DOMAIN requests : requests[n] \in RequestRecord
      BY <3>1, ElementOfSeq, LenProperties
    <3> QED BY <3>2 DEF RequestRecord, RequestOf
  <2>3. ~Arrived(c) => \A n \in RequestOf(c) : requests[n].state = "dropped"
    BY <1>1, <2>2 DEF Arrived, In, RequestOf
  <2> QED BY <1>2, <2>1, <2>3 DEF Dead, RequestOf
<1>9. NobodyNew => Truth'
  BY <1>1, <1>2, <1>3, <1>8, TruthOfObserving DEF IInv
<1> QED BY <1>1, <1>4, <1>5, <1>6, <1>7, <1>9, ByOperatorKeeps

\* An operation that is given up leaves its calls as they are.
LEMMA AbandonKeeps ==
  ASSUME IInv, NEW o \in Operations, Abandon(o)
  PROVE  IInv'
<1>1. /\ MayClose(journal, o, "abandoned") /\ ByOperator
      /\ journal' = Close(journal, o, "abandoned")
  BY DEF Abandon
<1>2. journal \in Journal /\ UNCHANGED <<requests, handoff>>
  BY <1>1 DEF IInv, Typed, ByOperator
<1>3. /\ journal' \in Journal /\ journal'.head = journal.head + 1
      /\ journal'.calls = journal.calls
  BY <1>1, <1>2, CloseFacts
<1>4. CallsKept /\ HandoffDecided' = HandoffDecided
  BY <1>2, <1>3 DEF CallsKept, HandoffDecided
<1>5. NobodyNew => Truth'
  BY <1>1, <1>2, TruthOfClosing DEF IInv
<1> QED BY <1>1, <1>3, <1>4, <1>5, ByOperatorKeeps

\* A recovery accepts open outcomes; it decides none.
LEMMA RecoverKeeps ==
  ASSUME IInv, NEW o \in Operations, Recover(o)
  PROVE  IInv'
<1>1. journal' = HandOff(journal, o) /\ ByOperator
  BY DEF Recover
<1>2. journal \in Journal /\ UNCHANGED <<requests, handoff>>
  BY <1>1 DEF IInv, Typed, ByOperator
<1>3. /\ journal' \in Journal /\ journal'.head = journal.head + 1
      /\ DOMAIN journal'.calls = DOMAIN journal.calls
      /\ \A c \in DOMAIN journal.calls :
           /\ journal'.calls[c].operation = journal.calls[c].operation
           /\ journal'.calls[c].effect = journal.calls[c].effect
           /\ journal'.calls[c].outcome = journal.calls[c].outcome
  BY <1>1, <1>2, HandOffFacts
<1>4. CallsKept
  BY <1>3 DEF CallsKept
<1>5. HandoffDecided' => HandoffDecided
  BY <1>2, <1>3 DEF HandoffDecided, IInv, Clientele, HandoffIsNpm
<1>6. NobodyNew => Truth'
  BY <1>1, <1>2, TruthOfHandingOff DEF IInv
<1> QED BY <1>1, <1>3, <1>4, <1>5, <1>6, ByOperatorKeeps

-----------------------------------------------------------------------------
(* The npm client                                                          *)

\* A client at work changes its own steps, the files of its directory and, at
\* most, its job. The npm call is undecided then.
LEMMA ClientWorks ==
  ASSUME IInv, ClientRuns \/ ~ClientsAtRest, UNCHANGED <<journal, run, recorder, handoff>>,
         \/ requests' = requests
         \/ /\ handoff.call \in DOMAIN journal.calls /\ Approved /\ NothingSent
            /\ requests' = Append(requests, [call |-> handoff.call, state |-> "flying"]),
         \/ job' = job
         \/ ClientRuns /\ \E to \in Ends \union {"waits"} : job' = [job EXCEPT !["client"] = to],
         step' \in [Clients -> StepStates], session' \in Sessions,
         \/ session'.receipt = session.receipt \/ session.receipt = "missing"
         \/ job["observe"] # "read",
         Approved' => Approved \/ journal.head = handoff.commit,
         ClientsInOrder', FirstToSend', ReceiptsAreTrue'
  PROVE  IInv'
<1>1. /\ JobsInOrder' /\ job' \in [Roles -> JobStates]
      /\ \A r \in Roles \ {"client"} : job'[r] = job[r]
      /\ job' = job \/ job'["client"] \in Ends \union {"waits"}
  <2>1. CASE job' = job
    BY <2>1 DEF IInv, Typed, Clientele, JobsInOrder, Over, ClientRuns
  <2>2. ASSUME NEW to \in Ends \union {"waits"}, job' = [job EXCEPT !["client"] = to], ClientRuns
        PROVE  /\ JobsInOrder' /\ job' \in [Roles -> JobStates]
               /\ \A r \in Roles \ {"client"} : job'[r] = job[r]
               /\ job'["client"] \in Ends \union {"waits"}
    <3>1. /\ "client" \in Roles /\ to \in JobStates \ {"waiting"}
          /\ job["client"] \notin Ends \union {"waiting"}
      BY <2>2 DEF Roles, JobStates, Ends, ClientRuns
    <3>2. Typed /\ JobsInOrder
      BY DEF IInv, Clientele
    <3>3. JobsInOrder' /\ job' \in [Roles -> JobStates]
      BY <2>2, <3>1, <3>2, JobGoesOn
    <3> QED BY <2>2, <3>1, <3>2, <3>3 DEF Typed
  <2> QED BY <2>1, <2>2
<1>2. /\ job'["admit"] = job["admit"] /\ job'["complete"] = job["complete"]
      /\ job'["observe"] = job["observe"]
  BY <1>1 DEF Roles
<1>3. /\ ~ClientIsNext /\ ~ClientIsNext' /\ ~HandoffDecided /\ ~HandoffDecided'
      /\ job["admit"] \notin {"opened", "checked"}
      /\ job["admit"] = "start" => handoff.call # NoCall
  <2>1. ~HandoffDecided /\ ~HandoffDecided'
    BY DEF IInv, Clientele, DecidedIsQuiet, HandoffDecided
  <2>2. CASE ClientRuns
    <3>1. job["admit"] = "success" /\ job["client"] # "waiting"
      BY <2>2 DEF ClientRuns, IInv, Clientele, JobsInOrder
    <3>2. job'["client"] # "waiting"
      BY <1>1, <3>1 DEF Ends
    <3> QED BY <2>1, <3>1, <3>2 DEF ClientIsNext
  <2>3. CASE ~ClientRuns
    <3>1. ~NewSession /\ job' = job
      BY <2>3 DEF NewSession, ClientsAtRest
    <3> QED BY <2>1, <3>1 DEF IInv, Clientele, SessionsAreNew, ClientIsNext
  <2> QED BY <2>2, <2>3
<1>4. HandoffIsNpm'
  BY DEF IInv, Clientele, HandoffIsNpm
<1>5. SessionsAreNew' /\ DecidedIsQuiet'
  BY <1>2, <1>3 DEF SessionsAreNew, DecidedIsQuiet
<1>6. NobodyNew
  BY <1>2 DEF NobodyNew, MaySend
<1>7. /\ requests' \in Seq(RequestRecord) /\ Forward /\ Truth'
      /\ Writing => RequestOf(recorder.call)' = RequestOf(recorder.call)
  <2>1. CASE requests' = requests
    <3>1. requests' \in Seq(RequestRecord) /\ Forward
      BY <2>1, SameRequests DEF IInv, Typed
    <3>2. Truth'
      BY <2>1, <1>6, TruthOfControl DEF IInv
    <3> QED BY <2>1, <3>1, <3>2 DEF RequestOf
  <2>2. CASE /\ handoff.call \in DOMAIN journal.calls /\ Approved /\ NothingSent
             /\ requests' = Append(requests, [call |-> handoff.call, state |-> "flying"])
    <3>1. MaySend(handoff.call) /\ RequestOf(handoff.call) = {}
      BY <2>2 DEF MaySend, NothingSent
    <3>2. Truth'
      BY <2>2, <3>1, <1>6, TruthOfSending DEF IInv
    <3>3. /\ requests \in Seq(RequestRecord)
          /\ [call |-> handoff.call, state |-> "flying"] \in RequestRecord
      BY <2>2, CallsOfJournal DEF IInv, Typed, RequestRecord
    <3>4. /\ requests' \in Seq(RequestRecord) /\ DOMAIN requests' = 1..(Len(requests) + 1)
          /\ DOMAIN requests = 1..Len(requests) /\ Len(requests) \in Nat
          /\ \A n \in DOMAIN requests : requests'[n] = requests[n]
          /\ requests'[Len(requests) + 1] = [call |-> handoff.call, state |-> "flying"]
      BY <2>2, <3>3, AppendProperties, LenProperties
    <3>5. Forward
      BY <3>4 DEF Forward
    <3>6. Writing => RequestOf(recorder.call)' = RequestOf(recorder.call)
      <4>1. SUFFICES ASSUME Writing PROVE RequestOf(recorder.call)' = RequestOf(recorder.call)
        OBVIOUS
      <4>2. requests'[Len(requests) + 1].call # recorder.call
        BY <3>4, <4>1, CallsAreApart
      <4>3. \A n \in DOMAIN requests' : requests'[n].call = recorder.call => n \in DOMAIN requests
        BY <3>4, <4>2
      <4> QED BY <3>4, <4>3 DEF RequestOf
    <3> QED BY <3>2, <3>4, <3>5, <3>6
  <2> QED BY <2>1, <2>2
<1>8. Landed \subseteq Landed' /\ \A c : Arrived(c) => Arrived(c)'
  BY <1>7, WhatArrivedStays DEF IInv, Truth
<1>9. RecorderIsRight'
  BY <1>2, <1>7, <1>8, RecorderKept DEF IInv, Clientele
<1>10. Typed'
  BY <1>1, <1>7 DEF IInv, Typed
<1> QED BY <1>1, <1>4, <1>5, <1>7, <1>9, <1>10 DEF IInv, Clientele

\* One invocation takes a step.
LEMMA OneStep ==
  ASSUME Typed, NEW i \in Clients, NEW to \in StepStates, OnlySteps(i, to)
  PROVE  /\ step' \in [Clients -> StepStates] /\ step'[i] = to
         /\ \A k \in Clients \ {i} : step'[k] = step[k]
BY DEF Typed, OnlySteps

\* A receipt is written once and says what its writer said.
LEMMA ReceiptFacts ==
  ASSUME Typed, NEW found \in {"unknown", "none", "effect"}, NEW passed \in BOOLEAN,
         Receipt(found, passed)
  PROVE  /\ session' \in Sessions /\ session'.human = session.human
         /\ session'.claim = session.claim /\ session'.ready = session.ready
         /\ session.receipt = "missing" => session'.receipt = found
         /\ session.receipt # "missing" => session'.receipt = session.receipt
BY DEF Typed, Sessions, Receipt

\* What steps leave alone when only the client's directory changes.
LEMMA SameOutside ==
  ASSUME OutsideOfClient
  PROVE  /\ UNCHANGED <<journal, requests, run, recorder, handoff>>
         /\ NothingSent' = NothingSent /\ Arrived(handoff.call)' = Arrived(handoff.call)
BY DEF OutsideOfClient, NothingSent, RequestOf, Arrived, In

\* The client in its job looks at the registry, and offers readiness or ends.
LEMMA PrepareKeeps ==
  ASSUME IInv, Prepare
  PROVE  IInv'
<1>1. /\ ClientRuns /\ ~session.human /\ step[1] = "out" /\ job' = job /\ 1 \in Clients
      /\ OutsideOfClient
  BY DEF Prepare, ClientRuns, Human, Clients
<1>2. /\ UNCHANGED <<journal, requests, run, recorder, handoff>> /\ NothingSent' = NothingSent
      /\ Arrived(handoff.call)' = Arrived(handoff.call) /\ ClientRuns'
  BY <1>1, SameOutside DEF OutsideOfClient, ClientRuns
<1>3. /\ NothingSent /\ ~Approved /\ ~session.ready /\ session.claim # 1 /\ ~ClientIsNext'
      /\ step[2] \in {"claimed", "approved", "sent"} => session.claim = 2
      /\ session.receipt = "effect" => Arrived(handoff.call)
      /\ session.receipt = "none" => session.claim = 2 /\ Finished(2)
      /\ step[2] # "approved"
  BY <1>1, <1>2 DEF IInv, Typed, Sessions, Clientele, FirstToSend, ClientsInOrder, ReceiptsAreTrue,
     Clients, Approved, Finished, ClientIsNext, ClientRuns
<1>4. CASE OnlySteps(1, "ready") /\ session' = [session EXCEPT !.ready = TRUE]
  <2>1. /\ step' \in [Clients -> StepStates] /\ step'[1] = "ready" /\ step'[2] = step[2]
    BY <1>1, <1>4, OneStep DEF StepStates, Clients, IInv
  <2>2. /\ session' \in Sessions /\ session'.human = session.human
        /\ session'.claim = session.claim /\ session'.ready
        /\ session'.receipt = session.receipt
    BY <1>4 DEF IInv, Typed, Sessions
  <2>3. ~Approved'
    BY <1>3, <2>1 DEF Approved, Clients
  <2>4. ClientsInOrder'
    BY <1>1, <1>2, <1>3, <2>1, <2>2, <2>3 DEF ClientsInOrder, Clients
  <2>5. FirstToSend'
    BY <1>1, <1>2, <1>3, <2>1, <2>2 DEF FirstToSend, Clients
  <2>6. ReceiptsAreTrue'
    BY <1>1, <1>2, <1>3, <2>1, <2>2, <2>3 DEF ReceiptsAreTrue, Finished
  <2> QED BY <1>1, <1>2, <2>1, <2>2, <2>3, <2>4, <2>5, <2>6, ClientWorks
<1>5. ASSUME NEW o \in {"none", "unknown"}, OnlySteps(1, "done"), Receipt(o, FALSE)
      PROVE  IInv'
  <2>1. /\ step' \in [Clients -> StepStates] /\ step'[1] = "done" /\ step'[2] = step[2]
    BY <1>1, <1>5, OneStep DEF StepStates, Clients, IInv
  <2>2. /\ session' \in Sessions /\ session'.human = session.human
        /\ session'.claim = session.claim /\ session'.ready = session.ready
        /\ session.receipt = "missing" => session'.receipt = o
        /\ session.receipt # "missing" => session'.receipt = session.receipt
    BY <1>5, ReceiptFacts DEF IInv
  <2>3. ~Approved'
    BY <1>3, <2>1 DEF Approved, Clients
  <2>4. ClientsInOrder'
    BY <1>1, <1>2, <1>3, <2>1, <2>2, <2>3 DEF ClientsInOrder, Clients
  <2>5. FirstToSend'
    BY <1>1, <1>2, <1>3, <2>1, <2>2 DEF FirstToSend, Clients
  <2>6. ReceiptsAreTrue'
    BY <1>1, <1>2, <1>3, <2>1, <2>2, <2>3 DEF ReceiptsAreTrue, Finished
  <2> QED BY <1>1, <1>2, <2>1, <2>2, <2>3, <2>4, <2>5, <2>6, ClientWorks
<1> QED BY <1>4, <1>5 DEF Prepare

\* The human controller begins where nobody has been before.
LEMMA StartHumanKeeps ==
  ASSUME IInv, StartHuman
  PROVE  IInv'
<1>1. /\ ClientRuns /\ session.human /\ step[1] = "out" /\ job' = job /\ 1 \in Clients
      /\ OutsideOfClient /\ handoff.call # NoCall /\ OnlySteps(1, "ready")
      /\ session' = [session EXCEPT !.claim = 1]
  BY DEF StartHuman, CurrentIntent, ClientRuns, Human, Clients
<1>2. /\ UNCHANGED <<journal, requests, run, recorder, handoff>> /\ NothingSent' = NothingSent
      /\ Arrived(handoff.call)' = Arrived(handoff.call) /\ ClientRuns'
  BY <1>1, SameOutside DEF OutsideOfClient, ClientRuns
<1>3. /\ NothingSent /\ step[2] = "out" /\ ~ClientIsNext' /\ session.receipt = "missing"
  BY <1>1, <1>2 DEF IInv, Clientele, FirstToSend, ClientsInOrder, ClientIsNext, ClientRuns
<1>4. /\ step' \in [Clients -> StepStates] /\ step'[1] = "ready" /\ step'[2] = step[2]
  BY <1>1, OneStep DEF StepStates, Clients, IInv
<1>5. /\ session' \in Sessions /\ session'.human = session.human
      /\ session'.receipt = session.receipt
  <2>1. 1 \in 0..2
    OBVIOUS
  <2> QED BY <1>1, <2>1 DEF IInv, Typed, Sessions
<1>6. ~Approved'
  BY <1>3, <1>4 DEF Approved, Clients
<1>7. ClientsInOrder'
  BY <1>1, <1>2, <1>3, <1>4, <1>5, <1>6 DEF ClientsInOrder, Clients
<1>8. FirstToSend'
  BY <1>1, <1>2, <1>3, <1>4, <1>5 DEF FirstToSend, Clients
<1>9. ReceiptsAreTrue'
  BY <1>3, <1>5 DEF ReceiptsAreTrue
<1> QED BY <1>1, <1>2, <1>4, <1>5, <1>6, <1>7, <1>8, <1>9, ClientWorks

\* Readiness becomes public; the job waits.
LEMMA WaitsKeeps ==
  ASSUME IInv, Upload \/ RelayReadiness
  PROVE  IInv'
<1>1. /\ ClientRuns /\ step[1] = "ready" /\ 1 \in Clients
      /\ job' = [job EXCEPT !["client"] = "waits"] /\ OutsideOfClient /\ OnlySteps(1, "waiting")
  BY DEF Upload, RelayReadiness, Waits, Goes, ClientRuns, Clients
<1>2. /\ UNCHANGED <<journal, requests, run, recorder, handoff>> /\ NothingSent' = NothingSent
      /\ Arrived(handoff.call)' = Arrived(handoff.call) /\ ClientRuns' /\ ~ClientIsNext'
  BY <1>1, SameOutside DEF OutsideOfClient, ClientRuns, ClientIsNext, IInv, Typed, Roles
<1>3. /\ step' \in [Clients -> StepStates] /\ step'[1] = "waiting" /\ step'[2] = step[2]
  BY <1>1, OneStep DEF StepStates, Clients, IInv
<1>4. /\ session' \in Sessions /\ session'.human = session.human
      /\ session'.claim = session.claim /\ session'.receipt = session.receipt
      /\ session'.ready = session.ready \/ session'.ready
      /\ ~session.human => session' = session
  BY DEF Upload, RelayReadiness, Human, IInv, Typed, Sessions
<1>5. Approved' => Approved
  BY <1>1, <1>3 DEF Approved, Clients
<1>6. ClientsInOrder'
  BY <1>1, <1>2, <1>3, <1>4, <1>5 DEF IInv, Clientele, ClientsInOrder, Clients
<1>7. FirstToSend'
  BY <1>1, <1>2, <1>3, <1>4 DEF IInv, Clientele, FirstToSend, Clients
<1>8. ReceiptsAreTrue'
  <2>1. session.human => session.receipt = "missing"
    BY <1>1 DEF IInv, Clientele, ClientsInOrder
  <2>2. session.receipt = "none" => /\ NothingSent /\ ~Approved
                                    /\ ~session.human => session.claim = 2 /\ Finished(2)
    BY <1>1 DEF IInv, Typed, Sessions, Clientele, ReceiptsAreTrue, Finished
  <2>3. session.receipt = "effect" => Arrived(handoff.call)
    BY DEF IInv, Clientele, ReceiptsAreTrue
  <2> QED BY <1>2, <1>3, <1>4, <1>5, <2>1, <2>2, <2>3 DEF ReceiptsAreTrue, Finished
<1>9. "waits" \in Ends \union {"waits"}
  OBVIOUS
<1> QED BY <1>1, <1>2, <1>3, <1>4, <1>5, <1>6, <1>7, <1>8, <1>9, ClientWorks

\* The client in its job has seen its permission.
LEMMA SelectPermissionKeeps ==
  ASSUME IInv, SelectPermission
  PROVE  IInv'
<1>1. /\ ~session.human /\ step[1] = "waiting" /\ job' = job /\ session' = session
      /\ 1 \in Clients /\ OutsideOfClient /\ OnlySteps(1, "selected")
  BY DEF SelectPermission, Permitted, Human, Clients
<1>2. ClientRuns
  BY <1>1 DEF IInv, Clientele, ClientsInOrder
<1>3. /\ UNCHANGED <<journal, requests, run, recorder, handoff>> /\ NothingSent' = NothingSent
      /\ Arrived(handoff.call)' = Arrived(handoff.call) /\ ClientRuns' /\ ~ClientIsNext'
  BY <1>1, <1>2, SameOutside DEF OutsideOfClient, ClientRuns, ClientIsNext
<1>4. /\ step' \in [Clients -> StepStates] /\ step'[1] = "selected" /\ step'[2] = step[2]
  BY <1>1, OneStep DEF StepStates, Clients, IInv
<1>5. Approved' => Approved
  BY <1>1, <1>4 DEF Approved, Clients
<1>6. ClientsInOrder'
  BY <1>1, <1>2, <1>3, <1>4, <1>5 DEF IInv, Clientele, ClientsInOrder, Clients
<1>7. FirstToSend'
  BY <1>1, <1>2, <1>3, <1>4 DEF IInv, Clientele, FirstToSend, Clients
<1>8. ReceiptsAreTrue'
  <2>1. session.receipt = "none" => NothingSent /\ ~Approved /\ session.claim = 2 /\ Finished(2)
    BY <1>1 DEF IInv, Typed, Sessions, Clientele, ReceiptsAreTrue, Finished
  <2>2. session.receipt = "effect" => Arrived(handoff.call)
    BY DEF IInv, Clientele, ReceiptsAreTrue
  <2> QED BY <1>1, <1>3, <1>4, <1>5, <2>1, <2>2 DEF ReceiptsAreTrue, Finished
<1>9. session' \in Sessions
  BY <1>1 DEF IInv, Typed
<1> QED BY <1>1, <1>2, <1>3, <1>4, <1>5, <1>6, <1>7, <1>8, <1>9, ClientWorks

\* The controller approves its child while the intent is the last word.
LEMMA AuthorizeHumanKeeps ==
  ASSUME IInv, AuthorizeHuman
  PROVE  IInv'
<1>1. /\ session.human /\ step[1] = "waiting" /\ job' = job /\ session' = session /\ ClientRuns
      /\ 1 \in Clients /\ OutsideOfClient /\ OnlySteps(1, "approved")
      /\ handoff.call # NoCall /\ journal.head = handoff.commit
  BY DEF AuthorizeHuman, Permitted, CurrentIntent, Human, ClientRuns, Clients
<1>2. /\ UNCHANGED <<journal, requests, run, recorder, handoff>> /\ NothingSent' = NothingSent
      /\ Arrived(handoff.call)' = Arrived(handoff.call) /\ ClientRuns' /\ ~ClientIsNext'
  BY <1>1, SameOutside DEF OutsideOfClient, ClientRuns, ClientIsNext
<1>3. NothingSent /\ step[2] = "out" /\ session.receipt = "missing"
  BY <1>1 DEF IInv, Clientele, FirstToSend, ClientsInOrder
<1>4. /\ step' \in [Clients -> StepStates] /\ step'[1] = "approved" /\ step'[2] = step[2]
  BY <1>1, OneStep DEF StepStates, Clients, IInv
<1>5. ClientsInOrder'
  BY <1>1, <1>2, <1>3, <1>4 DEF ClientsInOrder, Clients
<1>6. FirstToSend'
  BY <1>1, <1>2, <1>3, <1>4 DEF FirstToSend, Clients
<1>7. ReceiptsAreTrue'
  BY <1>1, <1>3 DEF ReceiptsAreTrue
<1>8. session' \in Sessions
  BY <1>1 DEF IInv, Typed
<1> QED BY <1>1, <1>2, <1>4, <1>5, <1>6, <1>7, <1>8, ClientWorks

\* The wait for a permission ends: the claim is taken first, so that nobody
\* sends after the receipt says that nothing was sent.
LEMMA GiveUpKeeps ==
  ASSUME IInv, GiveUp
  PROVE  IInv'
<1>1. /\ ~session.human /\ step[1] = "waiting" /\ job' = job
      /\ 1 \in Clients /\ OutsideOfClient /\ OnlySteps(1, "done")
  BY DEF GiveUp, Human, Clients
<1>2. PICK o \in {"none", "unknown"} :
        /\ o = "none" => session.claim \in {0, 1}
        /\ session' = [session EXCEPT !.claim = IF session.claim = 0 THEN 1 ELSE session.claim,
                         !.receipt = IF session.receipt = "missing" THEN o ELSE session.receipt]
  BY DEF GiveUp, Unsent, IInv, Typed, Sessions
<1>3. ClientRuns
  BY <1>1 DEF IInv, Clientele, ClientsInOrder
<1>4. /\ UNCHANGED <<journal, requests, run, recorder, handoff>> /\ NothingSent' = NothingSent
      /\ Arrived(handoff.call)' = Arrived(handoff.call) /\ ClientRuns' /\ ~ClientIsNext'
  BY <1>1, <1>3, SameOutside DEF OutsideOfClient, ClientRuns, ClientIsNext
<1>5. /\ step' \in [Clients -> StepStates] /\ step'[1] = "done" /\ step'[2] = step[2]
  BY <1>1, OneStep DEF StepStates, Clients, IInv
<1>6. /\ session' \in Sessions /\ session'.human = session.human
      /\ session'.claim = IF session.claim = 0 THEN 1 ELSE session.claim
      /\ session'.ready = session.ready
      /\ session.receipt = "missing" => session'.receipt = o
      /\ session.receipt # "missing" => session'.receipt = session.receipt
  <2>1. 1 \in 0..2
    OBVIOUS
  <2> QED BY <1>2, <2>1 DEF IInv, Typed, Sessions
<1>7. Approved' => Approved
  BY <1>1, <1>5 DEF Approved, Clients
<1>8. /\ session.claim # 1
      /\ session.claim = 0 => NothingSent /\ ~Approved
      /\ session.receipt = "none" => NothingSent /\ ~Approved /\ session.claim = 2 /\ Finished(2)
      /\ session.receipt = "effect" => Arrived(handoff.call)
  BY <1>1, <1>3 DEF IInv, Typed, Sessions, Clientele, ReceiptsAreTrue, FirstToSend, ClientsInOrder,
     Finished, Approved, Clients
<1>9. ClientsInOrder'
  BY <1>1, <1>3, <1>4, <1>5, <1>6, <1>7, <1>8 DEF IInv, Clientele, ClientsInOrder, Clients
<1>10. FirstToSend'
  BY <1>1, <1>3, <1>4, <1>5, <1>6 DEF IInv, Clientele, FirstToSend, Clients
<1>11. ReceiptsAreTrue'
  BY <1>1, <1>2, <1>4, <1>5, <1>6, <1>7, <1>8 DEF ReceiptsAreTrue, Finished
<1> QED BY <1>1, <1>3, <1>4, <1>5, <1>6, <1>7, <1>9, <1>10, <1>11, ClientWorks

\* The controller cancels a child that was not approved.
LEMMA HumanGivesUpKeeps ==
  ASSUME IInv, HumanGivesUp
  PROVE  IInv'
<1>1. /\ session.human /\ step[1] \in {"waiting", "ready"} /\ job' = job /\ 1 \in Clients
      /\ OutsideOfClient /\ OnlySteps(1, "done") /\ Receipt("none", FALSE) /\ ~ClientsAtRest
  BY DEF HumanGivesUp, Human, Clients, ClientsAtRest
<1>2. /\ UNCHANGED <<journal, requests, run, recorder, handoff>> /\ NothingSent' = NothingSent
      /\ Arrived(handoff.call)' = Arrived(handoff.call)
      /\ ClientRuns' = ClientRuns /\ ClientIsNext' = ClientIsNext
  BY <1>1, SameOutside DEF OutsideOfClient, ClientRuns, ClientIsNext
<1>3. NothingSent /\ step[2] = "out"
  BY <1>1 DEF IInv, Clientele, FirstToSend, ClientsInOrder
<1>4. /\ step' \in [Clients -> StepStates] /\ step'[1] = "done" /\ step'[2] = step[2]
  BY <1>1, OneStep DEF StepStates, Clients, IInv
<1>5. /\ session' \in Sessions /\ session'.human = session.human
      /\ session'.receipt = session.receipt \/ session.receipt = "missing"
      /\ session.receipt = "missing" => session'.receipt = "none"
  BY <1>1, ReceiptFacts DEF IInv
<1>6. ~Approved' /\ session.receipt = "missing"
  BY <1>1, <1>3, <1>4 DEF Approved, Clients, IInv, Clientele, ClientsInOrder
<1>7. ClientsInOrder'
  BY <1>1, <1>3, <1>4, <1>5, <1>6 DEF ClientsInOrder, Clients
<1>8. FirstToSend'
  BY <1>1, <1>2, <1>3 DEF FirstToSend
<1>9. ReceiptsAreTrue'
  BY <1>1, <1>2, <1>3, <1>4, <1>5, <1>6 DEF ReceiptsAreTrue, Finished
<1> QED BY <1>1, <1>2, <1>4, <1>5, <1>6, <1>7, <1>8, <1>9, ClientWorks

\* The marker has one creator; whoever finds it cannot tell what was sent.
LEMMA ClaimKeeps ==
  ASSUME IInv, NEW i \in Clients, Claim(i)
  PROVE  IInv'
<1>1. /\ ClientRuns /\ ~session.human /\ job' = job /\ OutsideOfClient
      /\ i = 1 => step[i] = "selected"
      /\ i # 1 => step[i] = "out"
  BY DEF Claim, Reaches, Human, ClientRuns
<1>2. /\ UNCHANGED <<journal, requests, run, recorder, handoff>> /\ NothingSent' = NothingSent
      /\ Arrived(handoff.call)' = Arrived(handoff.call) /\ ClientRuns' /\ ~ClientIsNext'
  BY <1>1, SameOutside DEF OutsideOfClient, ClientRuns, ClientIsNext
<1>3. i \in {1, 2}
  BY DEF Clients
<1>4. CASE session.claim = 0 /\ OnlySteps(i, "claimed") /\ session' = [session EXCEPT !.claim = i]
  <2>1. /\ step' \in [Clients -> StepStates] /\ step'[i] = "claimed"
        /\ \A k \in Clients \ {i} : step'[k] = step[k]
    BY <1>4, OneStep DEF StepStates, IInv
  <2>2. /\ session' \in Sessions /\ session'.human = session.human
        /\ session'.claim = i /\ session'.ready = session.ready
        /\ session'.receipt = session.receipt
    <3>1. i \in 0..2
      BY <1>3
    <3> QED BY <1>4, <3>1 DEF IInv, Typed, Sessions
  <2>3. /\ \A k \in Clients : step[k] \notin {"claimed", "approved", "sent"}
        /\ NothingSent
        /\ session.receipt = "none" => ~session.ready /\ Finished(1)
    BY <1>1, <1>4 DEF IInv, Clientele, ClientsInOrder, FirstToSend, ReceiptsAreTrue, Clients
  <2>4. ~Approved'
    BY <2>1, <2>3 DEF Approved
  <2>5. ClientsInOrder'
    BY <1>1, <1>2, <1>3, <2>1, <2>2, <2>3, <2>4 DEF IInv, Clientele, ClientsInOrder, Clients
  <2>6. FirstToSend'
    BY <1>2, <2>3 DEF FirstToSend
  <2>7. ReceiptsAreTrue'
    BY <1>1, <1>2, <2>1, <2>2, <2>3, <2>4 DEF IInv, Clientele, ReceiptsAreTrue, Finished, Clients
  <2> QED BY <1>1, <1>2, <2>1, <2>2, <2>4, <2>5, <2>6, <2>7, ClientWorks
<1>5. CASE session.claim # 0 /\ OnlySteps(i, "done") /\ Receipt("unknown", FALSE)
  <2>1. /\ step' \in [Clients -> StepStates] /\ step'[i] = "done"
        /\ \A k \in Clients \ {i} : step'[k] = step[k]
    BY <1>5, OneStep DEF StepStates, IInv
  <2>2. /\ session' \in Sessions /\ session'.human = session.human
        /\ session'.claim = session.claim /\ session'.ready = session.ready
        /\ session.receipt = "missing" => session'.receipt = "unknown"
        /\ session.receipt # "missing" => session'.receipt = session.receipt
    BY <1>5, ReceiptFacts DEF IInv
  <2>3. Approved' => Approved
    BY <2>1 DEF Approved
  <2>4. ClientsInOrder'
    BY <1>1, <1>2, <1>3, <2>1, <2>2, <2>3 DEF IInv, Clientele, ClientsInOrder, Clients
  <2>5. FirstToSend'
    BY <1>1, <1>2, <1>3, <2>1, <2>2 DEF IInv, Clientele, FirstToSend, Clients
  <2>6. ReceiptsAreTrue'
    <3>1. session'.claim # 0 /\ \A k \in Clients : Finished(k) => Finished(k)'
      BY <1>5, <2>1, <2>2 DEF Finished
    <3>2. session.claim \in Clients
      BY <1>5 DEF Clients, IInv, Typed, Sessions
    <3>3. session'.receipt = "none" => session.receipt = "none"
      BY <2>2 DEF IInv, Typed, Sessions
    <3>4. session'.receipt = "effect" => session.receipt = "effect"
      BY <2>2 DEF IInv, Typed, Sessions
    <3>5. 1 \in Clients
      BY DEF Clients
    <3>6. Finished(session.claim) => Finished(session.claim)'
      BY <3>1, <3>2, <2>2 DEF Finished
    <3>7. Finished(1) => Finished(1)'
      BY <3>1, <3>5
    <3> QED BY <1>1, <1>2, <2>2, <2>3, <3>1, <3>3, <3>4, <3>6, <3>7
            DEF IInv, Clientele, ReceiptsAreTrue
  <2> QED BY <1>1, <1>2, <2>1, <2>2, <2>3, <2>4, <2>5, <2>6, ClientWorks
<1> QED BY <1>4, <1>5 DEF Claim

\* An invocation that leaves before it has sent anything, while it holds the
\* claim, may say so.
LEMMA UnsentIsTrue ==
  ASSUME IInv, NEW i \in Clients, step[i] \in {"claimed", "approved"}, ~ClientsAtRest,
         job' = job, OutsideOfClient, OnlySteps(i, "done"),
         NEW o \in {"none", "unknown"}, Receipt(o, FALSE)
  PROVE  IInv'
<1>1. /\ UNCHANGED <<journal, requests, run, recorder, handoff>> /\ NothingSent' = NothingSent
      /\ Arrived(handoff.call)' = Arrived(handoff.call) /\ ClientRuns' = ClientRuns
      /\ ClientIsNext' = ClientIsNext
  BY SameOutside DEF OutsideOfClient, ClientRuns, ClientIsNext
<1>2. /\ step' \in [Clients -> StepStates] /\ step'[i] = "done" /\ i \in {1, 2}
      /\ \A k \in Clients \ {i} : step'[k] = step[k]
  BY OneStep DEF StepStates, IInv, Clients
<1>3. /\ session' \in Sessions /\ session'.human = session.human
      /\ session'.claim = session.claim /\ session'.ready = session.ready
      /\ session.receipt = "missing" => session'.receipt = o
      /\ session.receipt # "missing" => session'.receipt = session.receipt
  BY ReceiptFacts DEF IInv
<1>4. /\ NothingSent
      /\ session.human => i = 1 /\ step[2] = "out"
      /\ ~session.human => /\ session.claim = i
                           /\ \A k \in Clients \ {i} : step[k] \notin {"claimed", "approved", "sent"}
  BY <1>2 DEF IInv, Clientele, ClientsInOrder, FirstToSend, Clients
<1>5. ~Approved'
  BY <1>2, <1>4 DEF Approved, Clients
<1>6. ClientsInOrder'
  BY <1>1, <1>2, <1>3, <1>4, <1>5 DEF IInv, Clientele, ClientsInOrder, Clients
<1>7. FirstToSend'
  BY <1>1, <1>4 DEF FirstToSend
<1>8. ReceiptsAreTrue'
  <2>1. session'.receipt = "effect" => Arrived(handoff.call)
    BY <1>3 DEF IInv, Clientele, ReceiptsAreTrue
  <2>2. session'.human => Finished(1)'
    BY <1>2, <1>3, <1>4 DEF Finished
  <2>3. ~session'.human => session'.claim # 0 /\ Finished(session.claim)'
    BY <1>2, <1>3, <1>4 DEF Finished
  <2> QED BY <1>1, <1>4, <1>5, <2>1, <2>2, <2>3 DEF ReceiptsAreTrue
<1> QED BY <1>1, <1>2, <1>3, <1>5, <1>6, <1>7, <1>8, ClientWorks

\* The invocation that holds the claim is approved, or leaves.
LEMMA ApproveKeeps ==
  ASSUME IInv, NEW i \in Clients, Approve(i)
  PROVE  IInv'
<1>1. step[i] = "claimed" /\ job' = job /\ OutsideOfClient /\ ~ClientsAtRest
  BY DEF Approve, ClientsAtRest
<1>2. CASE /\ CurrentIntent /\ session.ready /\ OnlySteps(i, "approved") /\ session' = session
  <2>1. /\ UNCHANGED <<journal, requests, run, recorder, handoff>> /\ NothingSent' = NothingSent
        /\ Arrived(handoff.call)' = Arrived(handoff.call) /\ ClientRuns' = ClientRuns
        /\ ClientIsNext' = ClientIsNext
        /\ handoff.call # NoCall /\ journal.head = handoff.commit
    BY <1>1, <1>2, SameOutside DEF OutsideOfClient, ClientRuns, ClientIsNext, CurrentIntent
  <2>2. /\ step' \in [Clients -> StepStates] /\ step'[i] = "approved" /\ i \in {1, 2}
        /\ \A k \in Clients \ {i} : step'[k] = step[k]
    BY <1>2, OneStep DEF StepStates, IInv, Clients
  <2>3. NothingSent /\ ~session.human /\ session.claim = i
    BY <1>1, <2>2 DEF IInv, Clientele, ClientsInOrder, FirstToSend, Clients
  <2>4. session.receipt # "none"
    BY <1>1, <1>2, <2>3 DEF IInv, Clientele, ReceiptsAreTrue, Finished
  <2>5. ClientsInOrder'
    BY <1>1, <1>2, <2>1, <2>2, <2>3 DEF IInv, Clientele, ClientsInOrder, Clients
  <2>6. FirstToSend'
    BY <2>1, <2>3 DEF FirstToSend
  <2>7. ReceiptsAreTrue'
    BY <1>2, <2>1, <2>4 DEF IInv, Clientele, ReceiptsAreTrue
  <2>8. session' \in Sessions
    BY <1>2 DEF IInv, Typed
  <2> QED BY <1>1, <1>2, <2>1, <2>2, <2>5, <2>6, <2>7, <2>8, ClientWorks
<1>3. CASE OnlySteps(i, "done") /\ \E o \in {"none", "unknown"} : Receipt(o, FALSE)
  BY <1>1, <1>3, UnsentIsTrue
<1> QED BY <1>2, <1>3 DEF Approve

\* npm is started by the one that was approved. Nothing was sent before, and
\* nobody else may send.
LEMMA SendsKeeps ==
  ASSUME IInv, NEW i \in Clients, step[i] = "approved", Sends(i),
         UNCHANGED <<job, journal, run, recorder, handoff>>
  PROVE  IInv'
<1>1. /\ OnlySteps(i, "sent") /\ session' = session /\ ~ClientsAtRest
      /\ requests' = Append(requests, [call |-> handoff.call, state |-> "flying"])
  BY DEF Sends, ClientsAtRest
<1>2. /\ step' \in [Clients -> StepStates] /\ step'[i] = "sent" /\ i \in {1, 2}
      /\ \A k \in Clients \ {i} : step'[k] = step[k]
  BY <1>1, OneStep DEF StepStates, IInv, Clients
<1>3. /\ Approved /\ NothingSent /\ handoff.call \in DOMAIN journal.calls
      /\ session.human => i = 1 /\ step[2] = "out"
      /\ ~session.human => /\ session.claim = i /\ session.ready
                           /\ \A k \in Clients \ {i} : step[k] \notin {"claimed", "approved", "sent"}
  BY <1>2 DEF IInv, Clientele, ClientsInOrder, FirstToSend, HandoffIsNpm, Approved, Clients
<1>4. ~Approved' /\ \A k \in Clients : step'[k] \notin {"claimed", "approved"}
  BY <1>2, <1>3 DEF Approved, Clients, IInv, Clientele, ClientsInOrder
<1>5. ~ClientIsNext /\ ~ClientIsNext' /\ ClientRuns' = ClientRuns
  <2>1. ~NewSession
    BY <1>2 DEF NewSession
  <2> QED BY <2>1 DEF IInv, Clientele, SessionsAreNew, ClientIsNext, ClientRuns
<1>6. session.receipt # "none"
  BY <1>3 DEF IInv, Clientele, ReceiptsAreTrue
<1>7. session.receipt # "effect"
  <2>1. ~Arrived(handoff.call)
    BY <1>3 DEF NothingSent, Arrived
  <2> QED BY <2>1 DEF IInv, Clientele, ReceiptsAreTrue
<1>8. ClientsInOrder'
  BY <1>1, <1>2, <1>3, <1>4, <1>5 DEF IInv, Clientele, ClientsInOrder, Clients
<1>9. FirstToSend'
  BY <1>1, <1>2, <1>3, <1>4, <1>5 DEF IInv, Clientele, FirstToSend, Clients
<1>10. ReceiptsAreTrue'
  BY <1>1, <1>6, <1>7 DEF ReceiptsAreTrue
<1>11. session' \in Sessions
  BY <1>1 DEF IInv, Typed
<1> QED BY <1>1, <1>2, <1>3, <1>4, <1>8, <1>9, <1>10, <1>11, ClientWorks

\* The preparation of the call fails, in the job or in the human's hands.
LEMMA NeverSendsKeeps ==
  ASSUME IInv, NEW i \in Clients, step[i] = "approved", NeverSends(i),
         UNCHANGED <<job, journal, expired, run, mode, recorder, handoff>>
  PROVE  IInv'
<1>1. /\ OnlySteps(i, "done") /\ Receipt("none", FALSE) /\ OutsideOfClient /\ ~ClientsAtRest
  BY DEF NeverSends, OutsideOfClient, ClientsAtRest
<1> QED BY <1>1, UnsentIsTrue

\* Both ways to publish.
LEMMA PublishKeeps ==
  ASSUME IInv, HumanPublishes \/ \E i \in Clients : Publish(i)
  PROVE  IInv'
<1>1. PICK i \in Clients : /\ step[i] = "approved"
                           /\ Sends(i) \/ NeverSends(i)
                           /\ UNCHANGED <<job, journal, expired, run, mode, recorder, handoff>>
  <2>1. CASE HumanPublishes
    BY <2>1 DEF HumanPublishes, Clients
  <2>2. CASE \E i \in Clients : Publish(i)
    BY <2>2 DEF Publish
  <2> QED BY <2>1, <2>2
<1> QED BY <1>1, SendsKeeps, NeverSendsKeeps

\* An invocation that ends, or is lost, with a receipt that claims no more than
\* has arrived.
LEMMA EndsWithReceipt ==
  ASSUME IInv, NEW i \in Clients, ~Finished(i), step[i] # "out", NEW to \in {"done", "dead"},
         OnlySteps(i, to), job' = job, OutsideOfClient, session.human \/ step[i] = "sent",
         \/ session' = session
         \/ \E o \in {"unknown", "effect"}, passed \in BOOLEAN :
              /\ Receipt(o, passed)
              /\ o = "effect" => Arrived(handoff.call)
  PROVE  IInv'
<1>1. /\ UNCHANGED <<journal, requests, run, recorder, handoff>> /\ NothingSent' = NothingSent
      /\ Arrived(handoff.call)' = Arrived(handoff.call) /\ ClientRuns' = ClientRuns
      /\ ClientIsNext' = ClientIsNext /\ ~ClientsAtRest
  BY SameOutside DEF OutsideOfClient, ClientRuns, ClientIsNext, ClientsAtRest, Finished
<1>2. /\ step' \in [Clients -> StepStates] /\ step'[i] = to /\ i \in {1, 2}
      /\ \A k \in Clients \ {i} : step'[k] = step[k]
  BY OneStep DEF StepStates, IInv, Clients
<1>3. /\ session' \in Sessions /\ session'.human = session.human
      /\ session'.claim = session.claim /\ session'.ready = session.ready
      /\ session'.receipt = session.receipt \/ session.receipt = "missing"
      /\ session'.receipt = "none" => session.receipt = "none"
      /\ session'.receipt = "effect" => Arrived(handoff.call)
  <2>1. CASE session' = session
    BY <2>1 DEF IInv, Typed, Clientele, ReceiptsAreTrue
  <2>2. ASSUME NEW o \in {"unknown", "effect"}, NEW passed \in BOOLEAN, Receipt(o, passed),
               o = "effect" => Arrived(handoff.call)
        PROVE  /\ session' \in Sessions /\ session'.human = session.human
               /\ session'.claim = session.claim /\ session'.ready = session.ready
               /\ session'.receipt = session.receipt \/ session.receipt = "missing"
               /\ session'.receipt = "none" => session.receipt = "none"
               /\ session'.receipt = "effect" => Arrived(handoff.call)
    <3>1. /\ session' \in Sessions /\ session'.human = session.human
          /\ session'.claim = session.claim /\ session'.ready = session.ready
          /\ session.receipt = "missing" => session'.receipt = o
          /\ session.receipt # "missing" => session'.receipt = session.receipt
      BY <2>2, ReceiptFacts DEF IInv
    <3> QED BY <2>2, <3>1 DEF IInv, Clientele, ReceiptsAreTrue
  <2> QED BY <2>1, <2>2
<1>4. Approved' => Approved
  BY <1>2 DEF Approved
<1>5. /\ session.human => i = 1 /\ step[2] = "out"
      /\ ~session.human => session.claim = i
  BY <1>2 DEF IInv, Clientele, ClientsInOrder, Clients, Finished
<1>6. ~ClientIsNext
  BY DEF IInv, Clientele, SessionsAreNew, NewSession
<1>7. ~session.human => ClientRuns
  BY DEF IInv, Clientele, ClientsInOrder, Finished
<1>8. ClientsInOrder'
  BY <1>1, <1>2, <1>3, <1>4, <1>5, <1>7 DEF IInv, Clientele, ClientsInOrder, Clients
<1>9. FirstToSend'
  BY <1>1, <1>2, <1>3, <1>5, <1>6 DEF IInv, Clientele, FirstToSend, Clients
<1>10. ReceiptsAreTrue'
  <2>1. ASSUME session'.receipt = "none"
        PROVE  /\ NothingSent' /\ ~Approved'
               /\ session'.human => Finished(1)'
               /\ ~session'.human => session'.claim # 0 /\ Finished(session.claim)'
    BY <1>1, <1>2, <1>3, <1>4, <1>5, <2>1 DEF IInv, Clientele, ReceiptsAreTrue, Finished
  <2> QED BY <1>1, <1>3, <2>1 DEF ReceiptsAreTrue
<1> QED BY <1>1, <1>2, <1>3, <1>4, <1>8, <1>9, <1>10, ClientWorks

\* npm exits.
LEMMA ExitKeeps ==
  ASSUME IInv, NEW i \in Clients, Exit(i)
  PROVE  IInv'
<1>1. /\ step[i] = "sent" /\ OnlySteps(i, "done") /\ job' = job /\ OutsideOfClient
      /\ ~Finished(i)
      /\ \E o \in {"unknown", "effect"}, passed \in BOOLEAN :
           /\ Receipt(o, passed)
           /\ o = "effect" => Arrived(handoff.call)
  BY DEF Exit, Finished
<1> QED BY <1>1, EndsWithReceipt

\* The human's process is gone.
LEMMA LoseHumanKeeps ==
  ASSUME IInv, LoseHuman
  PROVE  IInv'
<1>1. /\ ~Finished(1) /\ step[1] # "out" /\ OnlySteps(1, "dead") /\ job' = job
      /\ OutsideOfClient /\ session.human /\ 1 \in Clients
      /\ session' = session \/ Receipt("unknown", FALSE)
  BY DEF LoseHuman, Finished, Human, Clients
<1> QED BY <1>1, EndsWithReceipt

\* The job ends, and all that runs in its directory with it.
LEMMA DirectoryIsGone ==
  ASSUME IInv, ClientRuns, ~session.human, OutsideOfClient,
         NEW to \in Ends, job' = [job EXCEPT !["client"] = to],
         step' = [i \in Clients |-> "dead"],
         session' = session \/ session' = [session EXCEPT !.receipt = "missing"]
  PROVE  IInv'
<1>1. /\ UNCHANGED <<journal, requests, run, recorder, handoff>> /\ NothingSent' = NothingSent
      /\ Arrived(handoff.call)' = Arrived(handoff.call) /\ ~ClientRuns' /\ ~ClientIsNext'
  BY SameOutside DEF ClientRuns, ClientIsNext, Ends, IInv, Typed, Roles
<1>2. /\ step' \in [Clients -> StepStates] /\ \A i \in Clients : step'[i] = "dead"
      /\ step'[1] = "dead" /\ ~Approved'
  BY DEF StepStates, Clients, Approved
<1>3. /\ session' \in Sessions /\ session'.human = session.human
      /\ session'.claim = session.claim /\ session'.ready = session.ready
      /\ session'.receipt \in {session.receipt, "missing"}
      /\ job["observe"] # "read"
  BY DEF IInv, Typed, Sessions, Clientele, JobsInOrder, ClientRuns, Ends
<1>4. ClientsInOrder'
  BY <1>1, <1>2, <1>3 DEF ClientsInOrder, Clients
<1>5. FirstToSend'
  BY <1>1, <1>2, <1>3 DEF FirstToSend, Clients
<1>6. ReceiptsAreTrue'
  BY <1>1, <1>2, <1>3 DEF IInv, Typed, Sessions, Clientele, ReceiptsAreTrue, Finished, Clients
<1> QED BY <1>1, <1>2, <1>3, <1>4, <1>5, <1>6, ClientWorks

\* The client's job ends with its role, or with the deadline of the bootstrap.
LEMMA EndClientKeeps ==
  ASSUME IInv, EndClient
  PROVE  IInv'
<1>1. /\ ClientRuns /\ OutsideOfClient
      /\ \E to \in {"success", "failure"} : job' = [job EXCEPT !["client"] = to]
  BY DEF EndClient, ClientRuns, Goes
<1>2. PICK to \in Ends : job' = [job EXCEPT !["client"] = to]
  BY <1>1 DEF Ends
<1>3. CASE ~session.human
  <2>1. step' = [i \in Clients |-> "dead"] /\ session' = session
    BY <1>3 DEF EndClient, Human
  <2> QED BY <1>1, <1>2, <1>3, <2>1, DirectoryIsGone
<1>4. CASE session.human
  <2>1. step' = step /\ session' = session
    BY <1>4 DEF EndClient, Human
  <2>2. /\ UNCHANGED <<journal, requests, run, recorder, handoff>> /\ NothingSent' = NothingSent
        /\ Arrived(handoff.call)' = Arrived(handoff.call) /\ ~ClientRuns' /\ ~ClientIsNext'
        /\ Approved' = Approved
    BY <1>1, <1>2, <2>1, SameOutside DEF ClientRuns, ClientIsNext, Ends, IInv, Typed, Roles, Approved
  <2>3. ClientsInOrder'
    BY <1>4, <2>1, <2>2 DEF IInv, Clientele, ClientsInOrder
  <2>4. FirstToSend'
    BY <1>4, <2>1, <2>2 DEF IInv, Clientele, FirstToSend
  <2>5. ReceiptsAreTrue'
    BY <1>4, <2>1, <2>2 DEF IInv, Clientele, ReceiptsAreTrue, Finished
  <2>6. step' \in [Clients -> StepStates] /\ session' \in Sessions
    BY <2>1 DEF IInv, Typed
  <2> QED BY <1>1, <1>2, <2>1, <2>2, <2>3, <2>4, <2>5, <2>6, ClientWorks
<1> QED BY <1>3, <1>4

\* Any job may be lost at any time.
LEMMA KillJobKeeps ==
  ASSUME IInv, NEW r \in Roles, KillJob(r)
  PROVE  IInv'
<1>1. /\ job[r] \notin Ends \union {"waiting"} /\ job' = [job EXCEPT ![r] = "failure"]
      /\ OutsideOfClient
      /\ "failure" \in JobStates \ {"waiting"} /\ "failure" \in Ends
  BY DEF KillJob, Goes, OutsideOfClient, JobStates, Ends
<1>2. CASE r = "client" /\ ~session.human
  <2>1. ClientRuns
    BY <1>1, <1>2 DEF ClientRuns, IInv, Clientele, JobsInOrder
  <2>2. /\ step' = [i \in Clients |-> "dead"]
        /\ session' = [session EXCEPT !.receipt = "missing"]
    BY <1>2 DEF KillJob
  <2> QED BY <1>1, <1>2, <2>1, <2>2, DirectoryIsGone
<1>3. CASE ~(r = "client" /\ ~session.human)
  <2>1. UNCHANGED <<journal, requests, run, recorder, handoff, step, session>>
    BY <1>1, <1>3 DEF KillJob, OutsideOfClient
  <2> QED BY <1>1, <1>3, <2>1, JobAlone
<1> QED BY <1>2, <1>3

-----------------------------------------------------------------------------
(* The invariant                                                           *)

\* At the start nothing is recorded, and no run is going on.
LEMMA InitHolds ==
  ASSUME Init
  PROVE  IInv
<1>1. /\ journal = Empty /\ requests = <<>> /\ run = NoOperation
      /\ job = [r \in Roles |-> "skipped"] /\ recorder = NoRecorder /\ handoff = NoHandoff
      /\ NewSession
  BY DEF Init, NewSession
<1>2. /\ \A r \in Roles : job[r] = "skipped"
      /\ job["admit"] = "skipped" /\ job["client"] = "skipped" /\ job["observe"] = "skipped"
      /\ job["complete"] = "skipped"
  BY <1>1 DEF Roles
<1>3. /\ journal.calls = <<>> /\ DOMAIN journal.calls = {} /\ DOMAIN requests = {}
      /\ journal.head = 0 /\ journal.active = NoOperation
      /\ \A o \in Operations : journal.phase[o] = "new"
  BY <1>1 DEF Empty
<1>4. /\ \A i \in Clients : step[i] = "out"
      /\ session.human = FALSE /\ session.claim = 0 /\ session.receipt = "missing"
      /\ session.ready = FALSE /\ handoff.call = NoCall /\ handoff.commit = 0
  BY <1>1 DEF NewSession, NoSession, NoHandoff
<1>5. Typed
  <2>1. journal \in Journal
    <3>1. <<>> \in Seq(CallRecord) /\ 0 \in Nat /\ FALSE \in BOOLEAN
      OBVIOUS
    <3>2. [o \in Operations |-> "new"] \in [Operations -> Phases]
      BY DEF Phases
    <3>3. [o \in Operations |-> {}] \in [Operations -> SUBSET Effects]
      OBVIOUS
    <3> QED BY <1>1, <3>1, <3>2, <3>3 DEF Empty, Journal
  <2>2. requests \in Seq(RequestRecord)
    BY <1>1
  <2>3. job \in [Roles -> JobStates]
    BY <1>1 DEF JobStates, Ends
  <2>4. recorder \in Recorders /\ handoff \in Handoffs
    BY <1>1 DEF NoRecorder, Recorders, NoHandoff, Handoffs, NoCall
  <2>5. step \in [Clients -> StepStates] /\ session \in Sessions
    BY <1>1 DEF NewSession, NoSession, Sessions, StepStates
  <2> QED BY <1>1, <2>1, <2>2, <2>3, <2>4, <2>5 DEF Typed
<1>6. JobsInOrder
  BY <1>2 DEF JobsInOrder, Over, Ends, ClientRuns
<1>7. HandoffIsNpm
  BY <1>3, <1>4 DEF HandoffIsNpm
<1>8. SessionsAreNew /\ DecidedIsQuiet
  BY <1>1, <1>4 DEF SessionsAreNew, DecidedIsQuiet, ClientsAtRest, HandoffDecided, ClientIsNext, ClientRuns
<1>9. ClientsInOrder
  BY <1>4 DEF ClientsInOrder, Clients, Approved
<1>10. FirstToSend /\ ReceiptsAreTrue
  BY <1>2, <1>3, <1>4 DEF FirstToSend, ReceiptsAreTrue, NothingSent, RequestOf
<1>11. RecorderIsRight
  BY <1>2 DEF RecorderIsRight, Writing
<1>12. Truth
  BY <1>3 DEF Truth, RequestsAreOfCalls, OutcomesHold, EarlierIsDead, OthersAreDead, OrderIsKept
<1> QED BY <1>5, <1>6, <1>7, <1>8, <1>9, <1>10, <1>11, <1>12 DEF IInv, Clientele

\* Every step keeps the invariant.
LEMMA NextKeepsIInv ==
  ASSUME IInv, [Next]_vars
  PROVE  IInv'
<1>1. CASE UNCHANGED vars
  BY <1>1, UnseenKeeps DEF vars
<1>2. CASE Client
  BY <1>2, PrepareKeeps, WaitsKeeps, SelectPermissionKeeps, GiveUpKeeps, EndClientKeeps,
     StartHumanKeeps, AuthorizeHumanKeeps, HumanGivesUpKeeps, PublishKeeps, ClaimKeeps,
     ApproveKeeps, ExitKeeps
     DEF Client
<1>3. CASE Gate
  BY <1>3, GateKeeps
<1>4. CASE Recorder
  BY <1>4, AdmitKeeps, CheckDestinationsKeeps, IntendNpmKeeps, BeginObserveKeeps, RecordNpmKeeps,
     ConsumeKeeps, BeginCompleteKeeps, CheckBeforeKeeps, IntendNextKeeps, WriteKeeps, AnswerKeeps,
     RecordAnswerKeeps, CloseCompletedKeeps
     DEF Recorder
<1>5. CASE Operator
  BY <1>5, DispatchKeeps, NoteKeeps, ReconcileKeeps, AbandonKeeps, RecoverKeeps DEF Operator
<1>6. CASE Services
  BY <1>6, ServicesKeep
<1>7. CASE Losses
  BY <1>7, LoseHumanKeeps, KillJobKeeps DEF Losses
<1>8. CASE \E r \in Roles : Begin(r)
  BY <1>8, BeginKeeps
<1> QED BY <1>1, <1>2, <1>3, <1>4, <1>5, <1>6, <1>7, <1>8 DEF Next

\* The invariant holds in every state that a release can come to.
THEOREM InvariantHolds == Spec => []IInv
BY InitHolds, NextKeepsIInv, PTL DEF Spec

-----------------------------------------------------------------------------
(* What follows from it                                                    *)

\* Two requests for one effect are of one call, or one of their calls came to
\* nothing before the other was intended.
LEMMA OneRequestAtMost ==
  ASSUME IInv, NEW n \in DOMAIN requests, NEW m \in DOMAIN requests,
         requests[n].state # "dropped", requests[m].state # "dropped",
         EffectOf(n) = EffectOf(m)
  PROVE  n = m
<1> DEFINE c == requests[n].call
           d == requests[m].call
<1>1. /\ c \in DOMAIN journal.calls /\ d \in DOMAIN journal.calls
      /\ c \in Nat /\ d \in Nat
  BY CallsOfJournal DEF IInv, Typed, Truth, RequestsAreOfCalls
<1>2. ~Dead(c) /\ ~Dead(d)
  BY DEF Dead, RequestOf
<1>3. journal.calls[c].effect = journal.calls[d].effect
  BY DEF EffectOf
<1>4. ~(c < d) /\ ~(d < c)
  BY <1>1, <1>2, <1>3 DEF IInv, Truth, EarlierIsDead
<1>5. c = d
  BY <1>1, <1>4
<1> QED BY <1>5 DEF IInv, Truth, RequestsAreOfCalls

\* Each effect is asked for at most once: a second request is sent only when
\* the first came to nothing, over every run, retry, loss and recovery
\* (release-publication.mjs, publication-controller.mjs).
THEOREM EffectsHappenOnceHolds == Spec => []EffectsHappenOnce
<1>1. IInv => EffectsHappenOnce
  <2> SUFFICES ASSUME IInv, NEW e \in Effects
      PROVE  Cardinality({n \in DOMAIN requests :
               EffectOf(n) = e /\ requests[n].state # "dropped"}) <= 1
    BY DEF EffectsHappenOnce
  <2> DEFINE S == {n \in DOMAIN requests : EffectOf(n) = e /\ requests[n].state # "dropped"}
  <2>1. \A n, m \in S : n = m
    BY OneRequestAtMost
  <2>2. CASE S = {}
    <3>1. Cardinality({}) = 0
      BY FS_EmptySet
    <3> QED BY <2>2, <3>1
  <2>3. CASE S # {}
    <3>1. PICK n : S = {n}
      BY <2>1, <2>3
    <3>2. Cardinality({n}) = 1
      BY FS_Singleton
    <3> QED BY <3>1, <3>2
  <2> QED BY <2>2, <2>3
<1> QED BY <1>1, InvariantHolds, PTL

\* What the record says of a call is true of the world: an effect is there; of
\* a call without one no request is on its way, and nobody is left to send one
\* (release-record-data.mjs, the outcome of a call).
THEOREM OutcomesAreTrueHolds == Spec => []OutcomesAreTrue
<1>1. IInv => OutcomesAreTrue
  <2> SUFFICES ASSUME IInv PROVE OutcomesAreTrue
    OBVIOUS
  <2>1. ASSUME NEW c \in DOMAIN journal.calls
        PROVE  /\ journal.calls[c].outcome = "effect" => Arrived(c)
               /\ journal.calls[c].outcome = "none" => Dead(c)
    BY DEF IInv, Truth, OutcomesHold
  <2> QED BY <2>1 DEF OutcomesAreTrue, Dead, MaySend, Approved
<1> QED BY <1>1, InvariantHolds, PTL

\* A release that is public is whole: whatever is asked for, all that comes
\* before it has landed, and a completed operation has left nothing out
\* (release-publication.mjs, complete).
THEOREM ReleaseIsWholeHolds == Spec => []ReleaseIsWhole
<1>1. IInv => ReleaseIsWhole
  BY DEF IInv, Truth, OrderIsKept, RequestsAreOfCalls, ReleaseIsWhole, EffectOf
<1> QED BY <1>1, InvariantHolds, PTL

-----------------------------------------------------------------------------
(* The pages: types                                                        *)

Promises == {"pending", "done", "failed"}
Results == [state : Promises, by : Pages \union {NoPage}, ok : BOOLEAN]
PageRuns == [navigation : Promises, result : Results, phase : Nat]
Processes == {"none", "running", "unstarted", "failed", "exited"}
Children == [process : Processes, stderr : {"open", "ended", "broken", "destroyed"},
             closed : BOOLEAN]
PageRequests == [from : Pages, id : Nat, kind : Kinds, run : Pages \union {NoPage},
                 active : Pages \union {NoPage}]
Failures == [primary : {"none", "failed", "timeout"}, termination : BOOLEAN, cleanup : BOOLEAN]
Watching == {"navigation", "result", "inspection"}
Ending == {"termination", "killing", "closing", "removal"}
Waitings == [page : Pages \union {NoPage}, for : {"nothing"} \union Watching \union Ending]

PagesTyped ==
  /\ suite \in {"none", "tests", "package"}
  /\ server \in {"none", "open", "closing", "closed"}
  /\ active \in Pages \union {NoPage}
  /\ runs \in [Pages -> PageRuns]
  /\ awaiting \in Waitings
  /\ failure \in Failures
  /\ child \in [Pages -> Children]
  /\ profiles \subseteq Pages
  /\ serving \subseteq PageRequests
  /\ sent \in [Pages -> Nat]
  /\ outcome \in [Pages -> {"none", "returned", "failed"}]
  /\ report \in {"preparing", "running", "passed", "failed", "lost"}
  /\ installed \in BOOLEAN

-----------------------------------------------------------------------------
(* The pages: the invariant                                                *)

Started(n) == child[n].process \in {"running", "exited"}

\* The runner has one page at a time, registered until its run is concluded.
OnePageAtATime ==
  /\ awaiting.page = NoPage <=> awaiting.for = "nothing"
  /\ awaiting.page # NoPage => outcome[awaiting.page] = "none"
  /\ active = IF awaiting.for \in Watching THEN awaiting.page ELSE NoPage
  /\ \A n \in Pages : outcome[n] = "none" /\ awaiting.page # n => child[n].process = "none"
  /\ \A n \in Pages : child[n].closed => Premature(n)

\* A request is of a page that was started and is charged to the run that was
\* active, a control request to the run of its own page.
RequestsAreOfPages ==
  \A q \in serving :
    /\ Started(q.from)
    /\ q.kind \in Control => q.run = q.from
    /\ q.run \in {NoPage, q.active}

ResultsAreOwn ==
  \A n \in Pages : runs[n].result.state = "done" => runs[n].result.by = n /\ Started(n)

\* What the runner has found out about its page.
Succeeds(n) ==
  runs[n].navigation = "done" /\ runs[n].result.state = "done" /\ runs[n].result.ok
FoundOut ==
  /\ For("result") => runs[This].navigation = "done"
  /\ awaiting.for \in Ending /\ failure.primary = "none" => Succeeds(This)
  /\ For("removal") /\ ~failure.termination => child[This].closed

\* A suite has no request in hand when its server is closed, as it is at the end.
ServerIsLast ==
  /\ server \in {"none", "closed"} => serving = {}
  /\ report \in {"passed", "failed"} => server \in {"none", "closed"} /\ AtRest

PagesIInv ==
  /\ PagesTyped /\ OnePageAtATime /\ RequestsAreOfPages /\ ResultsAreOwn /\ FoundOut
  /\ ServerIsLast /\ PagesAreEarned

\* What is decided of a run stays decided.
StaysDecided(r, s) ==
  /\ s \in PageRuns
  /\ r.navigation = "done" => s.navigation = "done"
  /\ r.result.state = "done" => s.result = r.result

\* A rejection decides what is pending, and gives no result.
LEMMA RejectedStays ==
  ASSUME NEW r \in PageRuns
  PROVE  StaysDecided(r, Rejected(r)) /\ (Rejected(r).result.state = "done" => r.result.state = "done")
<1>1. PICK v \in Promises, u \in Results, p \in Nat :
        r = [navigation |-> v, result |-> u, phase |-> p]
  BY DEF PageRuns
<1>2. PICK st \in Promises, b \in Pages \union {NoPage}, k \in BOOLEAN :
        u = [state |-> st, by |-> b, ok |-> k]
  BY DEF Results
<1>3. r.navigation = v /\ r.result = u /\ u.state = st
  BY <1>1, <1>2
<1> DEFINE w == IF u.state = "pending" THEN [u EXCEPT !.state = "failed"] ELSE u
<1>4. w \in Results /\ w.state # "pending" /\ (st # "pending" => w = u) /\ (w.state = "done" => st = "done")
  BY <1>2 DEF Results, Promises
<1>5. Rejected(r) = [r EXCEPT !.navigation = IF r.navigation = "pending" THEN "failed" ELSE r.navigation,
                              !.result = w]
  BY <1>3 DEF Rejected
<1> HIDE DEF w
<1>6. Rejected(r) = [navigation |-> IF v = "pending" THEN "failed" ELSE v, result |-> w, phase |-> p]
  BY <1>1, <1>3, <1>5
<1> QED BY <1>1, <1>3, <1>4, <1>6 DEF StaysDecided, PageRuns, Promises

\* A phase advances, or rejects.
LEMMA PhasedStays ==
  ASSUME NEW r \in PageRuns, NEW p \in Nat
  PROVE  StaysDecided(r, Phased(r, p)) /\ (Phased(r, p).result.state = "done" => r.result.state = "done")
BY RejectedStays DEF Phased, StaysDecided, PageRuns

\* The navigation is done once.
LEMMA NavigatedStays ==
  ASSUME NEW r \in PageRuns
  PROVE  StaysDecided(r, Navigated(r)) /\ (Navigated(r).result.state = "done" => r.result.state = "done")
BY DEF Navigated, StaysDecided, PageRuns, Promises

\* The first result counts, and names its page.
LEMMA ReportedStays ==
  ASSUME NEW r \in PageRuns, NEW n \in Pages, NEW ok \in BOOLEAN
  PROVE  /\ StaysDecided(r, Reported(r, n, ok))
         /\ Reported(r, n, ok).result.state = "done" =>
              r.result.state = "done" \/ Reported(r, n, ok).result.by = n
<1>1. PICK v \in Promises, u \in Results, p \in Nat :
        r = [navigation |-> v, result |-> u, phase |-> p]
  BY DEF PageRuns
<1>2. r.navigation = v /\ r.result = u
  BY <1>1
<1> DEFINE w == IF u.state = "pending" THEN [state |-> "done", by |-> n, ok |-> ok] ELSE u
<1>3. w \in Results /\ (u.state # "pending" => w = u) /\ (u.state = "pending" => w.by = n)
  BY <1>1 DEF Results, Promises
<1>4. Reported(r, n, ok) = [r EXCEPT !.phase = 0, !.result = w]
  BY <1>2 DEF Reported
<1> HIDE DEF w
<1>5. Reported(r, n, ok) = [navigation |-> v, result |-> w, phase |-> 0]
  BY <1>1, <1>4
<1>6. u.state \in Promises
  BY <1>1 DEF Results
<1> QED BY <1>1, <1>2, <1>3, <1>5, <1>6 DEF StaysDecided, PageRuns, Promises

-----------------------------------------------------------------------------
(* The pages: the steps                                                    *)

\* No page is running while the suite is prepared, or its server opened or closed.
LEMMA SuiteKeeps ==
  ASSUME PagesIInv, Installs \/ Reports \/ OpenServer \/ ServerCloses
  PROVE  PagesIInv'
<1>1. PagesTyped /\ OnePageAtATime /\ RequestsAreOfPages /\ ResultsAreOwn /\ FoundOut
      /\ ServerIsLast /\ PagesAreEarned
  BY DEF PagesIInv
<1>2. /\ UNCHANGED <<suite, active, runs, awaiting, failure, child, profiles, serving, sent, outcome>>
      /\ server' \in {"none", "open", "closing", "closed"}
      /\ report' \in {"preparing", "running", "passed", "failed", "lost"}
      /\ installed' \in BOOLEAN
  BY <1>1 DEF Installs, Reports, OpenServer, ServerCloses, Aside, Smoothly, Mishap, fixture,
     PagesTyped, PagesAreEarned
<1>3. PagesTyped'
  BY <1>1, <1>2 DEF PagesTyped
<1>4. OnePageAtATime' /\ RequestsAreOfPages' /\ ResultsAreOwn' /\ FoundOut'
  BY <1>1, <1>2 DEF OnePageAtATime, RequestsAreOfPages, ResultsAreOwn, FoundOut, Started, Premature,
     Succeeds, For, This
<1>5. ServerIsLast' /\ PagesAreEarned'
  <2>1. CASE Installs
    BY <1>1, <1>2, <2>1 DEF Installs, ServerIsLast, PagesAreEarned, AtRest, AllReturned
  <2>2. CASE Reports
    <3>1. AllReturned => profiles = {}
      BY <1>1 DEF AllReturned, PagesAreEarned, PagesTyped
    <3>2. serving = {}
      BY <1>1, <2>2 DEF Reports, ServerIsLast
    <3> QED BY <1>1, <1>2, <2>2, <3>1, <3>2 DEF Reports, ServerIsLast, PagesAreEarned, AtRest, AllReturned
  <2>3. CASE OpenServer
    BY <1>1, <1>2, <2>3 DEF OpenServer, Smoothly, fixture, ServerIsLast, PagesAreEarned, AtRest, AllReturned
  <2>4. CASE ServerCloses
    BY <1>1, <1>2, <2>4 DEF ServerCloses, Smoothly, fixture, ServerIsLast, PagesAreEarned, AtRest, AllReturned
  <2> QED BY <2>1, <2>2, <2>3, <2>4
<1> QED BY <1>3, <1>4, <1>5 DEF PagesIInv

\* A page is started once, with nothing of its own left anywhere.
LEMMA StartPageKeeps ==
  ASSUME PagesIInv, NEW n \in Pages, StartPage(n)
  PROVE  PagesIInv'
<1>1. PagesTyped /\ OnePageAtATime /\ RequestsAreOfPages /\ ResultsAreOwn /\ FoundOut
      /\ ServerIsLast /\ PagesAreEarned
  BY DEF PagesIInv
<1>2. /\ awaiting.page = NoPage /\ server = "open" /\ active = NoPage /\ outcome[n] = "none"
      /\ n # NoPage
      /\ profiles' = profiles \union {n} /\ active' = n
      /\ awaiting' = [page |-> n, for |-> "navigation"] /\ failure' = NoFailure
      /\ UNCHANGED <<suite, server, runs, serving, sent, outcome, report, installed>>
  BY PagesAssumption DEF StartPage, AtRest, Unrun, Smoothly, Badly, Mishap, fixture, NoPage
<1>3. PICK p \in {"running", "unstarted"} : child' = [child EXCEPT ![n].process = p]
  BY DEF StartPage
<1>4. /\ child[n].process = "none" /\ ~child[n].closed /\ child' \in [Pages -> Children]
      /\ \A m \in Pages : m # n => child'[m] = child[m]
      /\ child'[n].closed = child[n].closed
  BY <1>1, <1>2, <1>3 DEF PagesTyped, OnePageAtATime, Premature, Children, Processes
<1>5. PagesTyped'
  BY <1>1, <1>2, <1>4 DEF PagesTyped, Waitings, Watching, Failures, NoFailure
<1>6. OnePageAtATime'
  <2>1. \A m \in Pages : m # NoPage
    BY PagesAssumption DEF NoPage
  <2> QED BY <1>1, <1>2, <1>4, <2>1 DEF OnePageAtATime, Watching, Premature
<1>7. RequestsAreOfPages'
  <2>1. \A q \in serving : q.from \in Pages /\ q.from # n
    BY <1>1, <1>4 DEF RequestsAreOfPages, Started, PagesTyped, PageRequests
  <2> QED BY <1>1, <1>2, <1>4, <2>1 DEF RequestsAreOfPages, Started
<1>8. ResultsAreOwn'
  BY <1>1, <1>2, <1>4 DEF ResultsAreOwn, Started
<1>9. FoundOut'
  BY <1>2 DEF FoundOut, For, Ending
<1>10. ServerIsLast'
  BY <1>1, <1>2 DEF ServerIsLast
<1>11. PagesAreEarned'
  <2>1. report # "passed"
    BY <1>1, <1>2 DEF ServerIsLast
  <2>2. \A m \in Pages : outcome[m] = "returned" => m # n
    BY <1>2
  <2> QED BY <1>1, <1>2, <1>4, <2>1, <2>2 DEF PagesAreEarned
<1> QED BY <1>5, <1>6, <1>7, <1>8, <1>9, <1>10, <1>11 DEF PagesIInv

\* Runs go on, and requests are answered.
LEMMA RunsGo ==
  ASSUME PagesIInv, runs' \in [Pages -> PageRuns],
         \A n \in Pages : StaysDecided(runs[n], runs'[n]),
         \A n \in Pages : runs'[n].result.state = "done" =>
            \/ runs[n].result.state = "done"
            \/ runs'[n].result.by = n /\ Started(n),
         serving' \subseteq serving,
         UNCHANGED <<suite, server, active, awaiting, failure, child, profiles, sent, outcome,
                     report, installed>>
  PROVE  PagesIInv'
<1>1. PagesTyped /\ OnePageAtATime /\ RequestsAreOfPages /\ ResultsAreOwn /\ FoundOut
      /\ ServerIsLast /\ PagesAreEarned
  BY DEF PagesIInv
<1>2. PagesTyped'
  BY <1>1 DEF PagesTyped
<1>3. OnePageAtATime'
  BY <1>1 DEF OnePageAtATime, Premature
<1>4. RequestsAreOfPages'
  BY <1>1 DEF RequestsAreOfPages, Started
<1>5. ResultsAreOwn'
  BY <1>1 DEF ResultsAreOwn, Started, StaysDecided
<1>6. FoundOut'
  <2>1. This # NoPage => This \in Pages
    BY <1>1 DEF PagesTyped, Waitings, This
  <2>2. \A for \in {"result"} \union Ending : awaiting.for = for => This # NoPage
    BY <1>1 DEF OnePageAtATime, This, Ending
  <2> QED BY <1>1, <2>1, <2>2 DEF FoundOut, StaysDecided, Succeeds, For, This, Ending
<1>7. ServerIsLast' /\ PagesAreEarned'
  BY <1>1 DEF ServerIsLast, PagesAreEarned, AtRest, AllReturned, StaysDecided
<1> QED BY <1>2, <1>3, <1>4, <1>5, <1>6, <1>7 DEF PagesIInv

\* What becomes of a run that a request of its page is charged to.
Charges(m, r) ==
  /\ StaysDecided(runs[m], r)
  /\ r.result.state = "done" =>
       \/ runs[m].result.state = "done"
       \/ r.result.by = m /\ Started(m)

\* A request is charged to the run that was resolved for it, and a result is
\* that page's own.
LEMMA AnswersKeeps ==
  ASSUME PagesIInv, NEW q \in serving, Answers(q)
  PROVE  PagesIInv'
<1>1. PagesTyped /\ RequestsAreOfPages
  BY DEF PagesIInv
<1>2. /\ q \in PageRequests /\ Started(q.from) /\ (q.kind \in Control => q.run = q.from)
      /\ q.from \in Pages
  BY <1>1 DEF PagesTyped, RequestsAreOfPages, PageRequests
<1>3. /\ serving' \subseteq serving
      /\ UNCHANGED <<suite, server, active, awaiting, failure, child, profiles, sent, outcome,
                     report, installed>>
  BY DEF Answers, Smoothly, Badly, Mishap, fixture
<1>4. CASE UNCHANGED runs
  <2>1. runs' \in [Pages -> PageRuns]
    BY <1>1, <1>4 DEF PagesTyped
  <2>2. \A n \in Pages : runs'[n] = runs[n] /\ runs[n] \in PageRuns
    BY <1>1, <1>4 DEF PagesTyped
  <2>3. \A n \in Pages : StaysDecided(runs[n], runs'[n])
    BY <2>2 DEF StaysDecided
  <2>4. \A n \in Pages : runs'[n].result.state = "done" => runs[n].result.state = "done"
    BY <2>2
  <2> QED BY <1>3, <2>1, <2>3, <2>4, RunsGo
<1>5. ASSUME ~UNCHANGED runs PROVE PagesIInv'
  <2> DEFINE m == q.run
  <2>1. m # NoPage /\ m \in Pages
    BY <1>2, <1>5 DEF Answers, Charge, Charged, PageRequests
  <2>2. Before(q) = runs[m] /\ runs[m] \in PageRuns
    BY <1>1, <2>1 DEF Before, Charged, PagesTyped
  <2>3. \E r : runs' = [runs EXCEPT ![m] = r] /\ Charges(m, r)
    <3>1. CASE Charge(q, Navigated(Before(q)))
      <4>1. runs' = [runs EXCEPT ![m] = Navigated(runs[m])]
        BY <2>1, <2>2, <3>1 DEF Charge, Charged
      <4>2. Charges(m, Navigated(runs[m]))
        BY <2>2, NavigatedStays DEF Charges
      <4> QED BY <4>1, <4>2
    <3>2. CASE Charge(q, Rejected(Before(q)))
      <4>1. runs' = [runs EXCEPT ![m] = Rejected(runs[m])]
        BY <2>1, <2>2, <3>2 DEF Charge, Charged
      <4>2. Charges(m, Rejected(runs[m]))
        BY <2>2, RejectedStays DEF Charges
      <4> QED BY <4>1, <4>2
    <3>3. ASSUME NEW p \in 1..2, Charge(q, Phased(Before(q), p))
          PROVE  \E r : runs' = [runs EXCEPT ![m] = r] /\ Charges(m, r)
      <4>1. p \in Nat
        OBVIOUS
      <4>2. runs' = [runs EXCEPT ![m] = Phased(runs[m], p)]
        BY <2>1, <2>2, <3>3 DEF Charge, Charged
      <4>3. Charges(m, Phased(runs[m], p))
        BY <2>2, <4>1, PhasedStays DEF Charges
      <4> QED BY <4>2, <4>3
    <3>4. ASSUME NEW ok \in BOOLEAN, Charge(q, Reported(Before(q), q.from, ok)),
                 q.kind \in {"result", "bare result"}
          PROVE  \E r : runs' = [runs EXCEPT ![m] = r] /\ Charges(m, r)
      <4>1. m = q.from
        BY <1>2, <3>4 DEF Control
      <4>2. runs' = [runs EXCEPT ![m] = Reported(runs[m], m, ok)]
        BY <2>1, <2>2, <3>4, <4>1 DEF Charge, Charged
      <4> QED BY <1>2, <2>1, <2>2, <4>1, <4>2, ReportedStays DEF Charges
    <3> QED BY <1>5, <3>1, <3>2, <3>3, <3>4 DEF Answers
  <2> PICK r : runs' = [runs EXCEPT ![m] = r] /\ Charges(m, r)
    BY <2>3
  <2>4. /\ runs' \in [Pages -> PageRuns]
        /\ runs'[m] = r /\ \A n \in Pages : n # m => runs'[n] = runs[n]
    BY <1>1, <2>1 DEF PagesTyped, Charges, StaysDecided
  <2>5. \A n \in Pages : StaysDecided(runs[n], runs'[n])
    BY <1>1, <2>4 DEF Charges, StaysDecided, PagesTyped
  <2>6. \A n \in Pages : runs'[n].result.state = "done" =>
            \/ runs[n].result.state = "done"
            \/ runs'[n].result.by = n /\ Started(n)
    BY <2>4 DEF Charges
  <2> QED BY <1>3, <2>4, <2>5, <2>6, RunsGo
<1> QED BY <1>4, <1>5

\* A request that arrives is of a started page, and has the run of its token.
LEMMA ArrivesKeeps ==
  ASSUME PagesIInv, NEW n \in Pages, NEW kind \in Kinds, Arrives(n, kind)
  PROVE  PagesIInv'
<1>1. PagesTyped /\ OnePageAtATime /\ RequestsAreOfPages /\ ResultsAreOwn /\ FoundOut
      /\ ServerIsLast /\ PagesAreEarned
  BY DEF PagesIInv
<1> DEFINE q == [from |-> n, id |-> sent[n], kind |-> kind, run |-> RunOf(n, kind), active |-> active]
<1>2. /\ server = "open" /\ Started(n)
      /\ UNCHANGED <<suite, server, active, runs, awaiting, failure, child, profiles, outcome,
                     report, installed>>
      /\ sent' = [sent EXCEPT ![n] = @ + 1]
  BY DEF Arrives, fixture, Started
<1>3. RunOf(n, kind) \in Pages \union {NoPage} /\ RunOf(n, kind) \in {NoPage, active}
  BY <1>1 DEF RunOf, PagesTyped
<1>4. \/ serving' = serving
      \/ serving' = serving \union {q} /\ (kind \in Control => RunOf(n, kind) = n)
  <2>1. kind \in Control => RunOf(n, kind) \in {n, NoPage}
    BY DEF RunOf, Control, Tokened
  <2> QED BY <2>1 DEF Arrives
<1>5. PagesTyped'
  <2>1. q \in PageRequests
    BY <1>1, <1>3 DEF PageRequests, PagesTyped
  <2> QED BY <1>1, <1>2, <1>4, <2>1 DEF PagesTyped
<1>6. RequestsAreOfPages'
  BY <1>1, <1>2, <1>3, <1>4 DEF RequestsAreOfPages, Started
<1>7. OnePageAtATime' /\ ResultsAreOwn' /\ FoundOut'
  BY <1>1, <1>2 DEF OnePageAtATime, ResultsAreOwn, FoundOut, Started, Premature, Succeeds, For, This
<1>8. ServerIsLast' /\ PagesAreEarned'
  BY <1>1, <1>2 DEF ServerIsLast, PagesAreEarned, AllReturned, AtRest
<1> QED BY <1>5, <1>6, <1>7, <1>8 DEF PagesIInv

\* What a process goes through.
Lives(c, d) ==
  /\ d \in Children
  /\ c.process = "none" <=> d.process = "none"
  /\ c.process \in {"running", "exited"} => d.process \in {"running", "exited"}
  /\ c.process \in {"failed", "exited"} => d.process = c.process
  /\ c.closed => d.closed
  /\ d.closed => d.process \in {"failed", "exited"}

\* The events of a browser process.
LEMMA BrowserKeeps ==
  ASSUME PagesIInv, NEW n \in Pages,
         SpawnFails(n) \/ Exits(n) \/ StderrEnds(n) \/ StderrBreaks(n) \/ Closes(n)
  PROVE  PagesIInv'
<1>1. PagesTyped /\ OnePageAtATime /\ RequestsAreOfPages /\ ResultsAreOwn /\ FoundOut
      /\ ServerIsLast /\ PagesAreEarned
  BY DEF PagesIInv
<1>2. UNCHANGED <<suite, server, active, runs, awaiting, failure, profiles, serving, sent, outcome,
                  report, installed>>
  BY DEF SpawnFails, Exits, StderrEnds, StderrBreaks, Closes, ChildFrame, Smoothly, Badly, Mishap, fixture
<1>3. PICK p \in Processes, e \in {"open", "ended", "broken", "destroyed"}, k \in BOOLEAN :
        child[n] = [process |-> p, stderr |-> e, closed |-> k]
  BY <1>1 DEF PagesTyped, Children
<1>4. \E d : child' = [child EXCEPT ![n] = d] /\ Lives(child[n], d)
  <2>0. k => p \in {"failed", "exited"}
    BY <1>1, <1>3 DEF OnePageAtATime, Premature
  <2>1. CASE SpawnFails(n)
    <3> DEFINE d == [child[n] EXCEPT !.process = "failed"]
    <3>1. p = "unstarted" /\ child' = [child EXCEPT ![n] = d]
      BY <1>3, <2>1 DEF SpawnFails
    <3>2. d = [process |-> "failed", stderr |-> e, closed |-> k]
      BY <1>3
    <3>3. d \in Children
      BY <3>2 DEF Children, Processes
    <3>4. Lives(child[n], d)
      BY <1>3, <2>0, <3>1, <3>2, <3>3 DEF Lives
    <3> QED BY <3>1, <3>4
  <2>2. CASE Exits(n)
    <3> DEFINE d == [child[n] EXCEPT !.process = "exited"]
    <3>1. p = "running" /\ child' = [child EXCEPT ![n] = d]
      BY <1>3, <2>2 DEF Exits
    <3>2. d = [process |-> "exited", stderr |-> e, closed |-> k]
      BY <1>3
    <3>3. d \in Children
      BY <3>2 DEF Children, Processes
    <3>4. Lives(child[n], d)
      BY <1>3, <2>0, <3>1, <3>2, <3>3 DEF Lives
    <3> QED BY <3>1, <3>4
  <2>3. CASE StderrEnds(n)
    <3> DEFINE d == [child[n] EXCEPT !.stderr = "ended"]
    <3>1. child' = [child EXCEPT ![n] = d]
      BY <1>3, <2>3 DEF StderrEnds
    <3>2. d = [process |-> p, stderr |-> "ended", closed |-> k]
      BY <1>3
    <3>3. d \in Children
      BY <3>2 DEF Children, Processes
    <3>4. Lives(child[n], d)
      BY <1>3, <2>0, <3>1, <3>2, <3>3 DEF Lives
    <3> QED BY <3>1, <3>4
  <2>4. CASE StderrBreaks(n)
    <3> DEFINE d == [child[n] EXCEPT !.stderr = "broken"]
    <3>1. child' = [child EXCEPT ![n] = d]
      BY <1>3, <2>4 DEF StderrBreaks
    <3>2. d = [process |-> p, stderr |-> "broken", closed |-> k]
      BY <1>3
    <3>3. d \in Children
      BY <3>2 DEF Children, Processes
    <3>4. Lives(child[n], d)
      BY <1>3, <2>0, <3>1, <3>2, <3>3 DEF Lives
    <3> QED BY <3>1, <3>4
  <2>5. CASE Closes(n)
    <3> DEFINE d == [child[n] EXCEPT !.closed = TRUE]
    <3>1. p \in {"failed", "exited"} /\ child' = [child EXCEPT ![n] = d]
      BY <1>3, <2>5 DEF Closes, Premature
    <3>2. child[n] \in Children
      BY <1>1 DEF PagesTyped
    <3>3. d \in Children /\ d.process = child[n].process /\ d.closed
      BY <3>2 DEF Children
    <3>4. child[n].process = p
      BY <1>3
    <3> HIDE DEF d
    <3>5. Lives(child[n], d)
      BY <3>1, <3>3, <3>4 DEF Lives
    <3> QED BY <3>1, <3>5
  <2> QED BY <2>1, <2>2, <2>3, <2>4, <2>5
<1>5. PICK d : child' = [child EXCEPT ![n] = d] /\ Lives(child[n], d)
  BY <1>4
<1>6. /\ child' \in [Pages -> Children] /\ child'[n] = d
      /\ \A m \in Pages : m # n => child'[m] = child[m]
  BY <1>1, <1>5 DEF PagesTyped, Lives
<1>7. PagesTyped'
  BY <1>1, <1>2, <1>6 DEF PagesTyped
<1>8. OnePageAtATime'
  BY <1>1, <1>2, <1>5, <1>6 DEF OnePageAtATime, Premature, Lives
<1>9. \A m \in Pages : Started(m) => Started(m)'
  BY <1>5, <1>6 DEF Started, Lives
<1>10. RequestsAreOfPages'
  BY <1>1, <1>2, <1>9 DEF RequestsAreOfPages, PagesTyped, PageRequests
<1>11. ResultsAreOwn'
  BY <1>1, <1>2, <1>9 DEF ResultsAreOwn
<1>12. FoundOut'
  <2>1. For("removal") => This \in Pages
    BY <1>1 DEF PagesTyped, OnePageAtATime, Waitings, For, This
  <2> QED BY <1>1, <1>2, <1>5, <1>6, <2>1 DEF FoundOut, Succeeds, For, This, Lives
<1>13. ServerIsLast' /\ PagesAreEarned'
  BY <1>1, <1>2, <1>5, <1>6 DEF ServerIsLast, PagesAreEarned, AllReturned, AtRest, Lives
<1> QED BY <1>7, <1>8, <1>10, <1>11, <1>12, <1>13 DEF PagesIInv

\* The runner goes on to wait for something else.
Moves(for) ==
  /\ awaiting' = [awaiting EXCEPT !.for = for]
  /\ active' = IF for \in Watching THEN active ELSE NoPage
  /\ failure' \in Failures
  /\ child' \in [Pages -> Children]
  /\ \A n \in Pages : child'[n].process = child[n].process /\ child'[n].closed = child[n].closed
  /\ runs' \in [Pages -> PageRuns]
  /\ \A n \in Pages : StaysDecided(runs[n], runs'[n])
  /\ \A n \in Pages : runs'[n].result.state = "done" => runs[n].result.state = "done"
  /\ UNCHANGED <<suite, server, profiles, serving, sent, outcome, report, installed>>

\* It keeps the invariant if what it has found out is so.
LEMMA MovesKeeps ==
  ASSUME PagesIInv, awaiting.for \in Watching \union Ending, NEW for \in Watching \union Ending,
         for \in Watching => awaiting.for \in Watching,
         Moves(for), FoundOut'
  PROVE  PagesIInv'
<1>1. PagesTyped /\ OnePageAtATime /\ RequestsAreOfPages /\ ResultsAreOwn /\ FoundOut
      /\ ServerIsLast /\ PagesAreEarned
  BY DEF PagesIInv
<1>2. /\ UNCHANGED <<suite, server, profiles, serving, sent, outcome, report, installed>>
      /\ runs' \in [Pages -> PageRuns] /\ child' \in [Pages -> Children]
      /\ \A n \in Pages : child'[n].process = child[n].process /\ child'[n].closed = child[n].closed
      /\ \A n \in Pages : StaysDecided(runs[n], runs'[n])
      /\ \A n \in Pages : runs'[n].result.state = "done" => runs[n].result.state = "done"
  BY DEF Moves
<1>3. /\ awaiting.page # NoPage /\ awaiting.page \in Pages
      /\ awaiting' = [page |-> awaiting.page, for |-> for]
  BY <1>1 DEF Moves, OnePageAtATime, PagesTyped, Waitings, Watching, Ending
<1>4. active' = (IF for \in Watching THEN awaiting.page ELSE NoPage) /\ active' \in {active, NoPage}
  BY <1>1 DEF Moves, OnePageAtATime
<1>5. PagesTyped'
  BY <1>1, <1>2, <1>3, <1>4 DEF PagesTyped, Moves, Waitings
<1>6. OnePageAtATime'
  BY <1>1, <1>2, <1>3, <1>4 DEF OnePageAtATime, Premature, Watching, Ending
<1>7. RequestsAreOfPages' /\ ResultsAreOwn'
  <2>1. \A m \in Pages : Started(m)' = Started(m)
    BY <1>2 DEF Started
  <2> QED BY <1>1, <1>2, <2>1 DEF RequestsAreOfPages, ResultsAreOwn, StaysDecided, PagesTyped, PageRequests
<1>8. ServerIsLast'
  BY <1>1, <1>2, <1>3 DEF ServerIsLast, AtRest
<1>9. PagesAreEarned'
  <2>1. \A n \in Pages : n # NoPage
    BY PagesAssumption DEF NoPage
  <2>2. report # "passed"
    BY <1>1, <1>3 DEF ServerIsLast, AtRest
  <2>3. \A n \in Pages : outcome[n] = "returned" => active' # n
    BY <1>1, <1>4, <2>1 DEF PagesAreEarned
  <2>4. \A n \in Pages : outcome[n] = "returned" =>
          runs'[n].navigation = "done" /\ runs'[n].result = runs[n].result
    <3>1. \A n \in Pages : outcome[n] = "returned" =>
            runs[n].navigation = "done" /\ runs[n].result.state = "done"
      <4> SUFFICES ASSUME NEW n \in Pages, outcome[n] = "returned"
                   PROVE  runs[n].navigation = "done" /\ runs[n].result.state = "done"
        OBVIOUS
      <4>1. /\ runs[n].navigation = "done"
            /\ runs[n].result = [state |-> "done", by |-> n, ok |-> TRUE]
        BY <1>1 DEF PagesAreEarned
      <4> QED BY <4>1
    <3> QED BY <1>2, <3>1 DEF StaysDecided
  <2> QED BY <1>1, <1>2, <2>2, <2>3, <2>4 DEF PagesAreEarned
<1> QED BY <1>5, <1>6, <1>7, <1>8, <1>9 DEF PagesIInv

\* Runs and processes that are left alone.
LEMMA Stay ==
  ASSUME PagesTyped
  PROVE  /\ \A n \in Pages : runs[n] \in PageRuns /\ StaysDecided(runs[n], runs[n])
         /\ \A n \in Pages : child[n] \in Children
BY DEF PagesTyped, StaysDecided

\* Our handle of standard error is closed.
LEMMA CloseHandleIs ==
  ASSUME PagesTyped, This \in Pages, CloseHandle
  PROVE  /\ awaiting' = [awaiting EXCEPT !.for = "closing"]
         /\ child' \in [Pages -> Children]
         /\ \A n \in Pages : child'[n].process = child[n].process /\ child'[n].closed = child[n].closed
<1> DEFINE d == [child[This] EXCEPT !.stderr =
                   IF child[This].stderr = "open" THEN "destroyed" ELSE child[This].stderr]
<1>1. child' = [child EXCEPT ![This] = d]
  BY DEF CloseHandle
<1>2. child[This] \in Children
  BY DEF PagesTyped
<1>3. d \in Children /\ d.process = child[This].process /\ d.closed = child[This].closed
  BY <1>2 DEF Children
<1> HIDE DEF d
<1> QED BY <1>1, <1>3 DEF CloseHandle, Awaits, PagesTyped

\* The run is over, for whatever reason: nothing is charged to it any more.
LEMMA ConcludeKeeps ==
  ASSUME PagesIInv, awaiting.for \in Watching, NEW primary \in {"none", "failed", "timeout"},
         primary = "none" => Succeeds(This), Conclude(primary)
  PROVE  PagesIInv'
<1>1. PagesTyped /\ OnePageAtATime
  BY DEF PagesIInv
<1>2. This \in Pages /\ active = This /\ awaiting \in Waitings
  BY <1>1 DEF OnePageAtATime, PagesTyped, Waitings, Watching, This
<1>3. /\ UNCHANGED <<suite, server, profiles, serving, sent, outcome, report, installed>>
      /\ failure' = [failure EXCEPT !.primary = primary] /\ active' = NoPage
  BY <1>2 DEF Conclude, Smoothly, fixture, RunnerFrame
<1>4. failure' \in Failures /\ failure'.primary = primary
  BY <1>1, <1>3 DEF PagesTyped, Failures
<1>5. /\ runs' \in [Pages -> PageRuns]
      /\ \A n \in Pages : StaysDecided(runs[n], runs'[n])
      /\ \A n \in Pages : runs'[n].result.state = "done" => runs[n].result.state = "done"
  <2>1. runs' = [runs EXCEPT ![This] = Rejected(runs[This])]
    BY DEF Conclude
  <2>2. StaysDecided(runs[This], Rejected(runs[This])) /\ Rejected(runs[This]) \in PageRuns
        /\ (Rejected(runs[This]).result.state = "done" => runs[This].result.state = "done")
    BY <1>1, <1>2, Stay, RejectedStays DEF StaysDecided
  <2>3. /\ runs'[This] = Rejected(runs[This])
        /\ \A n \in Pages : n # This => runs'[n] = runs[n]
    BY <1>1, <1>2, <2>1 DEF PagesTyped
  <2>4. runs' \in [Pages -> PageRuns]
    BY <1>1, <1>2, <2>1, <2>2 DEF PagesTyped
  <2> QED BY <1>1, <2>2, <2>3, <2>4, Stay
<1>6. PICK for \in {"termination", "closing"} :
        /\ awaiting' = [awaiting EXCEPT !.for = for]
        /\ child' \in [Pages -> Children]
        /\ \A n \in Pages : child'[n].process = child[n].process /\ child'[n].closed = child[n].closed
  <2>1. CASE child[This].process = "running"
    BY <1>1, <2>1 DEF Conclude, TerminateBrowser, Awaits, PagesTyped
  <2>2. CASE child[This].process # "running"
    BY <1>1, <1>2, <2>2, CloseHandleIs DEF Conclude, TerminateBrowser
  <2> QED BY <2>1, <2>2
<1>7. for \in Ending /\ for \notin Watching
  BY DEF Ending, Watching
<1>8. FoundOut'
  <2>1. awaiting'.page = This /\ awaiting'.for = for
    BY <1>2, <1>6 DEF Waitings, This
  <2>2. primary = "none" => Succeeds(This) /\ StaysDecided(runs[This], runs'[This])
    BY <1>2, <1>5
  <2> QED BY <1>4, <1>6, <2>1, <2>2 DEF FoundOut, For, This, Succeeds, StaysDecided
<1>9. Moves(for)
  BY <1>3, <1>4, <1>5, <1>6, <1>7 DEF Moves
<1> QED BY <1>7, <1>8, <1>9, MovesKeeps

\* The runner watches a page and ends it.
LEMMA WatchKeeps ==
  ASSUME PagesIInv, NavigationSettles \/ ResultSettles \/ Inspected \/ TimesOut
  PROVE  PagesIInv'
<1>1. PagesTyped /\ OnePageAtATime /\ FoundOut
  BY DEF PagesIInv
<1>2. awaiting.for \in Watching /\ awaiting \in Waitings
  BY <1>1 DEF NavigationSettles, ResultSettles, Inspected, TimesOut, For, Watching, PagesTyped
<1>3. This \in Pages /\ This = awaiting.page
  BY <1>1, <1>2 DEF OnePageAtATime, PagesTyped, Waitings, Watching, This
<1>4. CASE NavigationSettles /\ Awaited = "done"
  <2>1. runs[This].navigation = "done"
    BY <1>1, <1>3, <1>4 DEF NavigationSettles, For, Awaited, Race, This
  <2>2. Moves("result")
    BY <1>1, <1>4, Stay DEF NavigationSettles, Moves, Awaits, Watching, Smoothly, fixture, RunnerFrame,
       PagesTyped
  <2>3. awaiting' = [page |-> This, for |-> "result"] /\ runs' = runs
    BY <1>2, <1>4 DEF NavigationSettles, Awaits, Waitings, This
  <2>4. FoundOut'
    BY <2>1, <2>3 DEF FoundOut, For, This, Ending
  <2> QED BY <1>2, <2>2, <2>4, MovesKeeps DEF Watching
<1>5. CASE NavigationSettles /\ Awaited # "done"
  BY <1>2, <1>5, ConcludeKeeps DEF NavigationSettles
<1>6. CASE ResultSettles
  <2>1. PICK primary \in {"none", "failed"} :
          Conclude(primary) /\ (primary = "none" => Awaited = "done" /\ runs[This].result.ok)
    BY <1>6 DEF ResultSettles
  <2>2. primary = "none" => Succeeds(This)
    BY <1>1, <1>3, <1>6, <2>1 DEF ResultSettles, For, Awaited, Race, This, FoundOut, Succeeds
  <2> QED BY <1>2, <2>1, <2>2, ConcludeKeeps
<1>7. CASE Inspected
  BY <1>2, <1>7, ConcludeKeeps DEF Inspected
<1>8. CASE TimesOut
  <2>1. failure' \in Failures
    BY <1>1, <1>8 DEF TimesOut, PagesTyped, Failures
  <2>2. Moves("inspection")
    BY <1>1, <1>8, <2>1, Stay DEF TimesOut, Moves, Awaits, Watching, Smoothly, fixture, RunnerFrame,
       PagesTyped
  <2>3. awaiting' = [page |-> This, for |-> "inspection"]
    BY <1>2, <1>8 DEF TimesOut, Awaits, Waitings, This
  <2>4. FoundOut'
    BY <2>3 DEF FoundOut, For, Ending
  <2> QED BY <1>2, <2>2, <2>4, MovesKeeps DEF Watching
<1> QED BY <1>4, <1>5, <1>6, <1>7, <1>8

\* The runner joins the process, as long as it takes and no longer.
LEMMA JoinKeeps ==
  ASSUME PagesIInv, ExitSettles \/ HandleSettles \/ TermTimesOut \/ KillTimesOut
  PROVE  PagesIInv'
<1>1. PagesTyped /\ OnePageAtATime /\ FoundOut
  BY DEF PagesIInv
<1>2. awaiting.for \in Ending /\ awaiting.for \notin Watching /\ awaiting \in Waitings
  BY <1>1 DEF ExitSettles, HandleSettles, TermTimesOut, KillTimesOut, For, Ending, Watching, PagesTyped
<1>3. This \in Pages /\ This = awaiting.page /\ active = NoPage
  BY <1>1, <1>2 DEF OnePageAtATime, PagesTyped, Waitings, Ending, This
<1>4. /\ UNCHANGED <<suite, server, active, runs, profiles, serving, sent, outcome, report, installed>>
  BY DEF ExitSettles, HandleSettles, TermTimesOut, KillTimesOut, StepFrame, Smoothly, fixture, RunnerFrame
<1>5. PICK for \in {"closing", "killing", "removal"} :
        /\ awaiting' = [awaiting EXCEPT !.for = for]
        /\ child' \in [Pages -> Children]
        /\ \A n \in Pages : child'[n].process = child[n].process /\ child'[n].closed = child[n].closed
        /\ for = "removal" => HandleSettles
  <2>1. CASE CloseHandle
    BY <1>1, <1>3, <2>1, CloseHandleIs
  <2>2. CASE HandleSettles \/ TermTimesOut
    BY <1>1, <2>2 DEF HandleSettles, TermTimesOut, Awaits, PagesTyped
  <2> QED BY <2>1, <2>2 DEF ExitSettles, HandleSettles, TermTimesOut, KillTimesOut
<1>6. /\ failure' \in Failures /\ (failure'.primary = "none" => failure.primary = "none")
      /\ HandleSettles /\ ~failure'.termination => child[This].closed
  <2>1. failure \in Failures
    BY <1>1 DEF PagesTyped
  <2>2. CASE HandleSettles
    <3>1. PICK t \in BOOLEAN, p \in {"none", "failed", "timeout"} :
            /\ failure' = [failure EXCEPT !.termination = t, !.primary = p]
            /\ t = (failure.termination \/ Event)
            /\ p = IF failure.primary = "none" /\ child[This].stderr = "broken" THEN "failed"
                   ELSE failure.primary
      BY <2>1, <2>2 DEF HandleSettles, Failures, Event
    <3>2. failure' \in Failures /\ failure'.primary = p /\ failure'.termination = t
      BY <2>1, <3>1 DEF Failures
    <3>3. ~Event => child[This].closed
      BY <2>2 DEF HandleSettles, For, Event, Awaited, This
    <3> QED BY <3>1, <3>2, <3>3
  <2>3. CASE ~HandleSettles
    <3>1. failure' = failure \/ failure' = [failure EXCEPT !.termination = TRUE]
      BY <2>3 DEF ExitSettles, TermTimesOut, KillTimesOut
    <3>2. failure' \in Failures /\ failure'.primary = failure.primary
      BY <2>1, <3>1 DEF Failures
    <3> QED BY <2>3, <3>2
  <2> QED BY <2>2, <2>3
<1>7. for \in Ending /\ for \notin Watching
  BY DEF Ending, Watching
<1>8. FoundOut'
  <2>1. awaiting'.page = This /\ awaiting'.for = for
    BY <1>2, <1>5 DEF Waitings, This
  <2>2. for # "result" /\ (failure'.primary = "none" => Succeeds(This))
    BY <1>1, <1>2, <1>6, <1>7 DEF FoundOut, Watching
  <2> QED BY <1>3, <1>4, <1>5, <1>6, <2>1, <2>2 DEF FoundOut, For, This, Succeeds
<1>9. Moves(for)
  BY <1>1, <1>3, <1>4, <1>5, <1>6, <1>7, Stay DEF Moves, PagesTyped
<1> QED BY <1>2, <1>7, <1>8, <1>9, MovesKeeps

\* What the run returns it has found out, and its profile is gone.
LEMMA ProfileRemovedKeeps ==
  ASSUME PagesIInv, ProfileRemoved
  PROVE  PagesIInv'
<1>1. PagesTyped /\ OnePageAtATime /\ RequestsAreOfPages /\ ResultsAreOwn /\ FoundOut
      /\ ServerIsLast /\ PagesAreEarned
  BY DEF PagesIInv
<1>2. awaiting.for = "removal" /\ This \in Pages /\ This = awaiting.page /\ This # NoPage
      /\ active = NoPage /\ outcome[This] = "none"
  BY <1>1 DEF ProfileRemoved, For, OnePageAtATime, PagesTyped, Waitings, Watching, This
<1>3. /\ UNCHANGED <<suite, active, runs, child, serving, sent, report, installed>>
      /\ awaiting' = [page |-> NoPage, for |-> "nothing"]
      /\ server' \in {server, "closing"}
  BY DEF ProfileRemoved, Smoothly, Badly, Mishap, fixture
<1>4. PICK o \in {"returned", "failed"} :
        /\ outcome' = [outcome EXCEPT ![This] = o]
        /\ o = "returned" => Clean(failure')
  BY DEF ProfileRemoved
<1>5. /\ failure' \in Failures /\ profiles' \subseteq profiles
      /\ Clean(failure') => failure' = failure /\ This \notin profiles'
  <2>1. CASE profiles' = profiles \ {This} /\ failure' = failure
    BY <1>1, <2>1 DEF PagesTyped
  <2>2. CASE failure' = [failure EXCEPT !.cleanup = TRUE] /\ UNCHANGED profiles
    BY <1>1, <2>2 DEF PagesTyped, Failures, Clean
  <2> QED BY <2>1, <2>2 DEF ProfileRemoved
<1>6. /\ outcome' \in [Pages -> {"none", "returned", "failed"}] /\ outcome'[This] = o
      /\ \A n \in Pages : n # This => outcome'[n] = outcome[n]
  BY <1>1, <1>2, <1>4 DEF PagesTyped
<1>7. PagesTyped'
  BY <1>1, <1>3, <1>5, <1>6 DEF PagesTyped, Waitings
<1>8. OnePageAtATime'
  BY <1>1, <1>2, <1>3, <1>6 DEF OnePageAtATime, Watching, Premature, NoPage
<1>9. RequestsAreOfPages' /\ ResultsAreOwn' /\ FoundOut'
  BY <1>1, <1>3 DEF RequestsAreOfPages, ResultsAreOwn, FoundOut, Started, For, Ending
<1>10. report \notin {"passed", "failed"}
  BY <1>1, <1>2 DEF ServerIsLast, AtRest
<1>11. ServerIsLast'
  BY <1>1, <1>3, <1>10 DEF ServerIsLast
<1>12. PagesAreEarned'
  <2>1. ASSUME o = "returned"
        PROVE  /\ runs[This].navigation = "done"
               /\ runs[This].result = [state |-> "done", by |-> This, ok |-> TRUE]
               /\ child[This].process = "exited" /\ child[This].closed /\ This \notin profiles'
    <3>1. failure.primary = "none" /\ ~failure.termination /\ This \notin profiles'
      BY <1>4, <1>5, <2>1 DEF Clean
    <3>2. Succeeds(This) /\ child[This].closed
      BY <1>1, <1>2, <3>1 DEF FoundOut, Ending, For
    <3>3. runs[This].result \in Results /\ runs[This].result.by = This /\ Started(This)
      BY <1>1, <1>2, <3>2 DEF PagesTyped, PageRuns, ResultsAreOwn, Succeeds
    <3>4. child[This].process = "exited"
      BY <1>1, <1>2, <3>2, <3>3 DEF OnePageAtATime, Premature, Started
    <3> QED BY <3>1, <3>2, <3>3, <3>4 DEF Succeeds, Results
  <2>2. ASSUME NEW n \in Pages, outcome'[n] = "returned"
        PROVE  /\ runs[n].navigation = "done"
               /\ runs[n].result = [state |-> "done", by |-> n, ok |-> TRUE]
               /\ child[n].process = "exited" /\ child[n].closed /\ n \notin profiles'
    <3>1. CASE n = This
      BY <1>6, <2>1, <2>2, <3>1
    <3>2. CASE n # This
      BY <1>1, <1>5, <1>6, <2>2, <3>2 DEF PagesAreEarned
    <3> QED BY <3>1, <3>2
  <2>3. \A n \in Pages : active' # n
    BY <1>2, <1>3, PagesAssumption DEF NoPage
  <2>4. report' # "passed"
    BY <1>3, <1>10
  <2> QED BY <1>3, <2>2, <2>3, <2>4 DEF PagesAreEarned
<1> QED BY <1>7, <1>8, <1>9, <1>11, <1>12 DEF PagesIInv

\* Nothing has been run at first.
LEMMA InitPagesHolds == InitPages => PagesIInv
<1> SUFFICES ASSUME InitPages PROVE PagesIInv
  OBVIOUS
<1>1. NewRun \in PageRuns /\ NewRun.result.state # "done" /\ NoChild \in Children
      /\ NoChild.process = "none" /\ ~NoChild.closed
  BY DEF NewRun, NoResult, NoChild, PageRuns, Results, Promises, Children, Processes
<1>2. PagesTyped
  BY <1>1 DEF InitPages, PagesTyped, Waitings, Failures, NoFailure
<1>3. OnePageAtATime /\ RequestsAreOfPages /\ ResultsAreOwn /\ FoundOut /\ ServerIsLast
  BY <1>1 DEF InitPages, OnePageAtATime, RequestsAreOfPages, ResultsAreOwn, FoundOut, ServerIsLast,
     Watching, Ending, For
<1>4. PagesAreEarned
  BY DEF InitPages, PagesAreEarned
<1> QED BY <1>2, <1>3, <1>4 DEF PagesIInv

\* Steps that are not the pages'.
LEMMA PagesIdle ==
  ASSUME PagesIInv, UNCHANGED pageVars
  PROVE  PagesIInv'
<1>1. PagesTyped /\ OnePageAtATime /\ RequestsAreOfPages /\ ResultsAreOwn /\ FoundOut
      /\ ServerIsLast /\ PagesAreEarned
  BY DEF PagesIInv
<1>2. \A n \in Pages : StaysDecided(runs[n], runs[n])
  BY <1>1, Stay
<1> QED BY <1>1, <1>2, RunsGo DEF pageVars, PagesTyped

\* Every step of a suite keeps the invariant.
LEMMA NextPagesKeeps ==
  ASSUME PagesIInv, [NextPages]_pageVars
  PROVE  PagesIInv'
<1>1. CASE UNCHANGED pageVars
  BY <1>1, PagesIdle
<1>2. CASE Runner
  BY <1>2, SuiteKeeps, StartPageKeeps, WatchKeeps, JoinKeeps, ProfileRemovedKeeps DEF Runner
<1>3. CASE Timers
  BY <1>3, WatchKeeps, JoinKeeps DEF Timers
<1>4. CASE Server
  BY <1>4, SuiteKeeps, AnswersKeeps DEF Server
<1>5. CASE Browser
  BY <1>5, BrowserKeeps, ArrivesKeeps DEF Browser
<1> QED BY <1>1, <1>2, <1>3, <1>4, <1>5 DEF NextPages

\* A run changes when it is concluded, while it is the active one, and by the
\* answer to a request that arrived while it was active.
LEMMA RunsChangeInTime ==
  ASSUME PagesIInv, [NextPages]_pageVars, NEW n \in Pages, runs'[n] # runs[n]
  PROVE  \/ active = n /\ active' = NoPage
         \/ \E q \in serving \ serving' : q.active = n
<1>1. PagesTyped /\ OnePageAtATime /\ RequestsAreOfPages
  BY DEF PagesIInv
<1>2. ASSUME NEW primary, Conclude(primary), awaiting.for \in Watching
      PROVE  active = n /\ active' = NoPage
  <2>1. This = active /\ runs' = [runs EXCEPT ![This] = Rejected(runs[This])]
    BY <1>1, <1>2 DEF OnePageAtATime, This, Conclude
  <2>2. n = This
    BY <1>1, <2>1 DEF PagesTyped
  <2> QED BY <1>2, <2>1, <2>2 DEF Conclude
<1>3. CASE NavigationSettles \/ ResultSettles \/ Inspected
  BY <1>2, <1>3 DEF NavigationSettles, ResultSettles, Inspected, For, Watching
<1>4. ASSUME NEW q \in serving, Answers(q) PROVE q \in serving \ serving' /\ q.active = n
  <2>1. PICK r : runs' = (IF Charged(q) = NoPage THEN runs ELSE [runs EXCEPT ![Charged(q)] = r])
    BY <1>4 DEF Answers, Charge
  <2>2. q.run = n /\ n # NoPage
    BY <1>1, <2>1 DEF Charged, PagesTyped
  <2> QED BY <1>1, <1>4, <2>2 DEF RequestsAreOfPages, Answers
<1>5. Runner \/ Timers \/ Server \/ Browser
  BY DEF NextPages, pageVars
<1>6. CASE Runner
  BY <1>3, <1>6 DEF Runner, Installs, Reports, OpenServer, StartPage, ExitSettles, HandleSettles,
     ProfileRemoved, Aside, StepFrame
<1>7. CASE Timers
  BY <1>7 DEF Timers, TimesOut, TermTimesOut, KillTimesOut, StepFrame
<1>8. CASE Server
  BY <1>4, <1>8 DEF Server, ServerCloses, Aside
<1>9. CASE Browser
  BY <1>9 DEF Browser, SpawnFails, Exits, StderrEnds, StderrBreaks, Closes, Arrives, ChildFrame
<1> QED BY <1>5, <1>6, <1>7, <1>8, <1>9

-----------------------------------------------------------------------------
(* The package: types                                                      *)

ClientsOfNpm == {"client version", "registry-metadata", "cache population", "installation"}
Acquisitions == {"none", "preparation", "registry-archive", "consumed cache", "closing", "passed",
            "failing", "failed"} \union ClientsOfNpm
NpmClients == [process : {"none", "running", "killed", "exited", "unstarted"}, ok : BOOLEAN,
               output : Nat, timedOut : BOOLEAN, overflow : BOOLEAN]
Archives == [staged : Contents, cached : Contents, installed : Contents]

PackageTyped ==
  /\ acquiring \in Acquisitions
  /\ client \in NpmClients
  /\ transport \in {"none", "open", "closed"}
  /\ archive \in Archives
  /\ directory \in {"none", "made", "removed", "kept"}

-----------------------------------------------------------------------------
(* The package: the invariant                                              *)

\* Where the archive has been checked, where the proxy may be open.
Staged == {"cache population", "installation", "consumed cache", "closing", "passed"}
Online == ClientsOfNpm \union {"registry-archive", "consumed cache"}

\* What is at work belongs to the step that is awaited.
AtWork ==
  /\ client.process # "none" => acquiring \in ClientsOfNpm
  /\ transport = "open" \/ proxied # {} => acquiring \in Online
  /\ request # "none" => acquiring = "registry-archive"
  /\ directory = "made" <=> acquiring \notin {"none", "failed"}

\* What has been earned so far.
EarnedSoFar ==
  /\ acquiring \in {"registry-archive"} \union Staged => current \in Admitted
  /\ acquiring \in Staged => received = Whole /\ archive.staged = "admitted"
  /\ acquiring \in {"closing", "passed"} =>
       archive.cached = "admitted" /\ archive.installed = "admitted" /\ ~rejected

PackageIInv == PackageTyped /\ AtWork /\ EarnedSoFar

\* It says that the package is earned.
LEMMA PackageFollows == PackageIInv => PackageIsEarned
<1> SUFFICES ASSUME PackageIInv PROVE PackageIsEarned
  OBVIOUS
<1>1. acquiring = "passed" =>
        archive = [staged |-> "admitted", cached |-> "admitted", installed |-> "admitted"]
  BY DEF PackageIInv, PackageTyped, EarnedSoFar, Archives, Staged
<1> QED BY <1>1 DEF PackageIInv, AtWork, EarnedSoFar, Staged, Online, ClientsOfNpm, PackageIsEarned, Alive

-----------------------------------------------------------------------------
(* The package: the steps                                                  *)

\* A client that is started.
LEMMA RunNpmIs ==
  ASSUME NEW next, RunNpm(next)
  PROVE  acquiring' = next /\ client' \in NpmClients
<1>1. PICK process \in {"running", "unstarted"} : client' = [NoClient EXCEPT !.process = process]
  BY DEF RunNpm
<1> QED BY <1>1 DEF RunNpm, NoClient, NpmClients

\* The events of a client: what it leaves counts only when it has been looked at.
LEMMA ClientEventsKeep ==
  ASSUME PackageIInv,
         Outputs \/ NpmTimesOut \/ NpmExits \/ \E kind \in {"admitted", "other"} : Asks(kind)
  PROVE  PackageIInv'
<1>1. PackageTyped /\ AtWork /\ EarnedSoFar
  BY DEF PackageIInv
<1>2. client.process # "none" /\ acquiring \in ClientsOfNpm
  BY <1>1 DEF Outputs, NpmTimesOut, NpmExits, Asks, Alive, AtWork
<1>3. /\ UNCHANGED <<acquiring, transport, rejected, current, request, received, directory>>
      /\ archive'.staged = archive.staged /\ archive' \in Archives
  BY <1>1 DEF Outputs, NpmTimesOut, NpmExits, Asks, ClientFrame, downloadVars, PackageTyped, Archives,
     LeavesCached, LeavesInstalled
<1>4. client' \in NpmClients
  <2>1. PICK p \in {"none", "running", "killed", "exited", "unstarted"}, k \in BOOLEAN, n \in Nat,
             t \in BOOLEAN, o \in BOOLEAN :
          client = [process |-> p, ok |-> k, output |-> n, timedOut |-> t, overflow |-> o]
    BY <1>1 DEF PackageTyped, NpmClients
  <2>2. CASE Outputs
    <3>1. \/ client' = [process |-> p, ok |-> k, output |-> n + 1, timedOut |-> t, overflow |-> o]
          \/ client' = [process |-> IF p = "running" THEN "killed" ELSE p, ok |-> k, output |-> n + 1,
                        timedOut |-> t, overflow |-> TRUE]
      BY <2>1, <2>2 DEF Outputs, Killed
    <3>2. n + 1 \in Nat
      OBVIOUS
    <3>3. PICK q \in {"none", "running", "killed", "exited", "unstarted"}, over \in BOOLEAN :
            client' = [process |-> q, ok |-> k, output |-> n + 1, timedOut |-> t, overflow |-> over]
      BY <3>1
    <3> QED BY <3>2, <3>3 DEF NpmClients
  <2>3. CASE NpmTimesOut
    <3>1. client' = [process |-> IF p = "running" THEN "killed" ELSE p, ok |-> k, output |-> n,
                     timedOut |-> TRUE, overflow |-> o]
      BY <2>1, <2>3 DEF NpmTimesOut, Killed
    <3> QED BY <3>1 DEF NpmClients
  <2>4. CASE NpmExits
    <3>1. PICK ok \in BOOLEAN : client' = [client EXCEPT !.process = "exited", !.ok = ok]
      BY <2>4 DEF NpmExits
    <3> QED BY <2>1, <3>1 DEF NpmClients
  <2>5. CASE \E kind \in {"admitted", "other"} : Asks(kind)
    BY <1>1, <2>5 DEF Asks, PackageTyped
  <2> QED BY <2>2, <2>3, <2>4, <2>5
<1>5. acquiring \in Online /\ acquiring \notin {"closing", "passed"}
  BY <1>2 DEF Online, ClientsOfNpm
<1>6. PackageTyped' /\ AtWork'
  BY <1>1, <1>2, <1>3, <1>4, <1>5 DEF PackageTyped, AtWork
<1>7. EarnedSoFar'
  BY <1>1, <1>3, <1>5 DEF EarnedSoFar
<1> QED BY <1>6, <1>7 DEF PackageIInv

\* The proxy turns requests away, also those of a client that is gone.
LEMMA ProxiesKeeps ==
  ASSUME PackageIInv, NEW kind, Proxies(kind)
  PROVE  PackageIInv'
<1>1. acquiring \in Online /\ acquiring \notin {"closing", "passed"}
  BY DEF PackageIInv, AtWork, Proxies, Online, ClientsOfNpm
<1> QED BY <1>1 DEF PackageIInv, PackageTyped, AtWork, EarnedSoFar, Proxies, downloadVars

\* The events of a download.
LEMMA DownloadKeeps ==
  ASSUME PackageIInv,
         \/ Responds \/ ResponseEnds \/ DownloadBreaks \/ TimePasses \/ DownloadTimesOut
         \/ \E to \in Places \union {"malformed"} : Redirects(to)
         \/ \E sound \in BOOLEAN : ReceivesPart(sound)
  PROVE  PackageIInv'
<1>1. /\ UNCHANGED <<acquiring, client, proxied, transport, rejected, archive, directory, current>>
      /\ acquiring = "registry-archive"
  BY DEF Responds, ResponseEnds, DownloadBreaks, TimePasses, DownloadTimesOut, Redirects, ReceivesPart,
     DownloadFrame, clientVars, Undecided, PackageIInv, AtWork
<1>2. acquiring \notin Staged \union {"closing", "passed"}
  BY <1>1 DEF Staged
<1> QED BY <1>1, <1>2 DEF PackageIInv, PackageTyped, AtWork, EarnedSoFar

\* Giving up leaves nothing at work.
LEMMA GivingUpKeeps ==
  ASSUME PackageIInv, acquiring' = "failing", CloseTransport, client' \in NpmClients,
         client'.process = "none", request' = "none", UNCHANGED <<archive, directory>>,
         acquiring \notin {"none", "failed"}
  PROVE  PackageIInv'
<1>1. PackageTyped'
  BY DEF PackageIInv, PackageTyped, CloseTransport, Acquisitions
<1>2. AtWork'
  BY DEF PackageIInv, PackageTyped, AtWork, CloseTransport
<1>3. EarnedSoFar'
  BY DEF EarnedSoFar, Staged
<1> QED BY <1>1, <1>2, <1>3 DEF PackageIInv

\* The download goes on when its request has closed: elsewhere, with the whole
\* archive, or not at all.
LEMMA RequestClosesKeeps ==
  ASSUME PackageIInv, RequestCloses
  PROVE  PackageIInv'
<1>1. PackageTyped /\ AtWork /\ EarnedSoFar
  BY DEF PackageIInv
<1>2. acquiring = "registry-archive" /\ client.process = "none" /\ current \in Admitted
      /\ directory = "made"
  BY <1>1 DEF RequestCloses, AtWork, EarnedSoFar, ClientsOfNpm
<1>3. CASE DownloadFails
  BY <1>1, <1>2, <1>3, GivingUpKeeps DEF DownloadFails, GivesUp, PackageTyped
<1>4. ASSUME NEW place \in Places, Fetch(place), ~DownloadFails
      PROVE  PackageIInv'
  <2>1. /\ acquiring' = "registry-archive" /\ current' \in Admitted
        /\ UNCHANGED <<client, proxied, transport, rejected, archive, directory>>
    BY <1>4 DEF Fetch, clientVars
  <2> QED BY <1>1, <1>2, <2>1 DEF PackageIInv, PackageTyped, AtWork, EarnedSoFar, Staged
<1>5. CASE Stages
  <2>1. acquiring' = "cache population" /\ client' \in NpmClients
    BY <1>5, RunNpmIs DEF Stages
  <2>2. /\ received' = Whole /\ request' = "none" /\ current' = current
        /\ UNCHANGED <<transport, proxied, directory>>
        /\ archive' = [archive EXCEPT !.staged = "admitted"]
    BY <1>5 DEF Stages, Whole
  <2>3. archive' \in Archives /\ archive'.staged = "admitted"
    BY <1>1, <2>2 DEF PackageTyped, Archives, Contents
  <2>4. PackageTyped'
    BY <1>1, <2>1, <2>2, <2>3 DEF PackageTyped, Acquisitions, ClientsOfNpm
  <2>5. AtWork'
    BY <1>1, <1>2, <2>1, <2>2 DEF AtWork, ClientsOfNpm, Online
  <2>6. EarnedSoFar'
    BY <1>2, <2>1, <2>2, <2>3 DEF EarnedSoFar, Whole
  <2> QED BY <2>4, <2>5, <2>6 DEF PackageIInv
<1> QED BY <1>3, <1>4, <1>5 DEF RequestCloses

\* A client has returned: the next step goes on from what it has left.
LEMMA ClientReturnsKeeps ==
  ASSUME PackageIInv, ClientReturns
  PROVE  PackageIInv'
<1>1. PackageTyped /\ AtWork /\ EarnedSoFar
  BY DEF PackageIInv
<1>2. acquiring \in ClientsOfNpm /\ request = "none" /\ directory = "made"
  BY <1>1 DEF ClientReturns, AtWork, ClientsOfNpm
<1> DEFINE returned == [client EXCEPT !.process = "none"]
<1>3. returned \in NpmClients /\ returned.process = "none"
  BY <1>1 DEF PackageTyped, NpmClients
<1>4. CASE /\ acquiring' = "failing" /\ client' = returned /\ CloseTransport
           /\ UNCHANGED <<rejected, downloadVars, archive, directory>>
  BY <1>2, <1>3, <1>4, GivingUpKeeps DEF downloadVars, ClientsOfNpm
<1>5. CASE /\ Succeeded /\ acquiring = "client version" /\ RunNpm("registry-metadata")
           /\ UNCHANGED <<transport, proxied, rejected, downloadVars, archive, directory>>
  <2>1. acquiring' = "registry-metadata" /\ client' \in NpmClients
    BY <1>5, RunNpmIs
  <2> QED BY <1>1, <1>2, <1>5, <2>1 DEF PackageIInv, PackageTyped, AtWork, EarnedSoFar, Staged, Online,
          ClientsOfNpm, Acquisitions, downloadVars
<1>6. CASE /\ Succeeded /\ acquiring = "registry-metadata"
           /\ \E place \in Admitted : current' = place /\ visited' = {place}
           /\ client' = returned /\ acquiring' = "registry-archive" /\ request' = "open"
           /\ UNCHANGED <<transport, proxied, rejected, late, received, completion, archive, directory>>
  BY <1>1, <1>2, <1>3, <1>6 DEF PackageIInv, PackageTyped, AtWork, EarnedSoFar, Staged, Online,
     ClientsOfNpm, Acquisitions
<1>7. CASE /\ Succeeded /\ acquiring = "cache population" /\ archive.cached = "admitted"
           /\ RunNpm("installation")
           /\ UNCHANGED <<transport, proxied, rejected, downloadVars, archive, directory>>
  <2>1. acquiring' = "installation" /\ client' \in NpmClients
    BY <1>7, RunNpmIs
  <2> QED BY <1>1, <1>2, <1>7, <2>1 DEF PackageIInv, PackageTyped, AtWork, EarnedSoFar, Staged, Online,
          ClientsOfNpm, Acquisitions, downloadVars, Whole
<1>8. CASE /\ Succeeded /\ acquiring = "installation" /\ acquiring' = "consumed cache" /\ client' = returned
           /\ UNCHANGED <<transport, proxied, rejected, downloadVars, archive, directory>>
  BY <1>1, <1>2, <1>3, <1>8 DEF PackageIInv, PackageTyped, AtWork, EarnedSoFar, Staged, Online,
     ClientsOfNpm, Acquisitions, downloadVars, Whole
<1> QED BY <1>4, <1>5, <1>6, <1>7, <1>8 DEF ClientReturns

\* The steps around the clients.
LEMMA ConsumerKeeps ==
  ASSUME PackageIInv, Prepares \/ Verifies \/ TransportCloses \/ CleansUp
  PROVE  PackageIInv'
<1>1. PackageTyped /\ AtWork /\ EarnedSoFar
  BY DEF PackageIInv
<1>2. client.process = "none" /\ request = "none" /\ directory = "made"
      /\ acquiring \in {"preparation", "consumed cache", "closing", "failing"}
  BY <1>1 DEF Prepares, Verifies, TransportCloses, CleansUp, AtWork, ClientsOfNpm
<1>3. CASE GivesUp /\ UNCHANGED downloadVars
  BY <1>1, <1>2, <1>3, GivingUpKeeps DEF GivesUp, PackageTyped, downloadVars
<1>4. CASE Prepares /\ ~GivesUp
  <2>1. acquiring' = "client version" /\ client' \in NpmClients /\ transport' = "open"
    BY <1>4, RunNpmIs DEF Prepares
  <2>2. UNCHANGED <<proxied, rejected, downloadVars, archive, directory>>
    BY <1>4 DEF Prepares
  <2> QED BY <1>1, <1>2, <2>1, <2>2 DEF PackageIInv, PackageTyped, AtWork, EarnedSoFar, Staged, Online,
          ClientsOfNpm, Acquisitions, downloadVars
<1>5. CASE Verifies /\ ~GivesUp
  <2>1. /\ acquiring = "consumed cache" /\ acquiring' = "closing" /\ CloseTransport
        /\ archive.installed = "admitted" /\ archive.cached = "admitted" /\ ~rejected
        /\ UNCHANGED <<client, rejected, archive, directory, downloadVars>>
    BY <1>5 DEF Verifies, AllowedInTheEnd
  <2> QED BY <1>1, <1>2, <2>1 DEF PackageIInv, PackageTyped, AtWork, EarnedSoFar, Staged, CloseTransport,
          Acquisitions, downloadVars, Whole
<1>6. CASE TransportCloses
  BY <1>1, <1>2, <1>6 DEF TransportCloses, PackageIInv, PackageTyped, AtWork, EarnedSoFar, Staged, Online,
     ClientsOfNpm, Acquisitions, clientVars, downloadVars, Whole
<1>7. CASE CleansUp
  BY <1>1, <1>2, <1>7 DEF CleansUp, PackageIInv, PackageTyped, AtWork, EarnedSoFar, Staged, Online,
     ClientsOfNpm, Acquisitions, clientVars, downloadVars
<1> QED BY <1>3, <1>4, <1>5, <1>6, <1>7 DEF Prepares, Verifies

\* Nothing is at work at first.
LEMMA InitRegistryHolds == InitRegistry => PackageIInv
<1> SUFFICES ASSUME InitRegistry PROVE PackageIInv
  OBVIOUS
<1>1. NoClient \in NpmClients /\ NoArchive \in Archives
  BY DEF NoClient, NpmClients, NoArchive, Archives, Contents
<1>2. PackageTyped
  BY <1>1 DEF InitRegistry, PackageTyped, Acquisitions
<1>3. client.process = "none" /\ transport # "open" /\ proxied = {} /\ request = "none"
      /\ acquiring \in {"none", "preparation"}
      /\ (directory = "made" <=> acquiring \notin {"none", "failed"})
  BY DEF InitRegistry, NoClient
<1>4. AtWork /\ EarnedSoFar
  BY <1>3 DEF AtWork, EarnedSoFar, Staged
<1> QED BY <1>2, <1>4 DEF PackageIInv

\* Every step keeps the invariant.
LEMMA NextRegistryKeeps ==
  ASSUME PackageIInv, [NextRegistry]_registryVars
  PROVE  PackageIInv'
<1>1. CASE UNCHANGED registryVars
  BY <1>1 DEF PackageIInv, PackageTyped, AtWork, EarnedSoFar, registryVars, clientVars, downloadVars
<1>2. CASE Consumer
  BY <1>2, ConsumerKeeps, ClientReturnsKeeps, RequestClosesKeeps DEF Consumer
<1>3. CASE Clocks
  BY <1>3, ClientEventsKeep, DownloadKeeps DEF Clocks
<1>4. CASE Registry
  BY <1>4, ClientEventsKeep, DownloadKeeps, ProxiesKeeps DEF Registry
<1> QED BY <1>1, <1>2, <1>3, <1>4 DEF NextRegistry

-----------------------------------------------------------------------------
(* What is passed on was earned                                            *)

\* Pages and package start, and go on, as their invariants say.
LEMMA EarnedFromTheStart == InitEither => PagesIInv /\ PackageIInv
BY InitPagesHolds, InitRegistryHolds DEF InitEither

\* A step of the three is one of the pages, one of the package, or neither.
LEMMA StepsOfEither ==
  ASSUME [NextEither]_allVars
  PROVE  [NextPages]_pageVars /\ [NextRegistry]_registryVars
BY DEF NextEither, allVars

\* A result that is passed on was earned. A page that runBrowserPage returns a
\* result for has sent that result itself, and is gone (browser-harness.mjs); a
\* package that is handed on came whole from an admitted place, and the
\* installation holds what was admitted (package-registry.mjs).
THEOREM ResultsAreEarnedHolds == FairEither => []ResultsAreEarned
<1>1. PagesIInv /\ PackageIInv /\ [NextEither]_allVars => PagesIInv' /\ PackageIInv'
  BY StepsOfEither, NextPagesKeeps, NextRegistryKeeps
<1>2. PagesIInv /\ PackageIInv => ResultsAreEarned
  BY PackageFollows DEF PagesIInv, ResultsAreEarned
<1> QED BY <1>1, <1>2, EarnedFromTheStart, PTL DEF FairEither

\* A request changes only the run that was active when it arrived, however
\* late it is answered and whatever has been registered since (browser-harness.mjs,
\* the request handler and its registration).
THEOREM RequestsKeepTheirRunHolds == FairEither => RequestsKeepTheirRun
<1>1. PagesIInv /\ PackageIInv /\ [NextEither]_allVars => PagesIInv' /\ PackageIInv'
  BY StepsOfEither, NextPagesKeeps, NextRegistryKeeps
<1>2. PagesIInv /\ [NextEither]_allVars =>
        [\A n \in Pages : runs'[n] # runs[n] =>
           \/ active = n /\ active' = NoPage
           \/ \E q \in serving \ serving' : q.active = n]_pageVars
  BY StepsOfEither, RunsChangeInTime
<1> QED BY <1>1, <1>2, EarnedFromTheStart, PTL DEF FairEither, RequestsKeepTheirRun
=============================================================================
