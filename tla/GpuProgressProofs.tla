--------------------------- MODULE GpuProgressProofs ---------------------------
(***************************************************************************)
(* Machine-checked proofs about GpuProgress, for any number of requests,   *)
(* any width of a branch, any number of identities and any of them spent.  *)
(*                                                                         *)
(* A mark is a hint, and nothing in one state says that a hint is not      *)
(* lost: the worker may be anywhere in a publication, the client anywhere  *)
(* in a walk. So the invariant says how far each of the two has come, and  *)
(* what that leaves to do. Underway says it of the worker: until it has    *)
(* marked the path again, the flag is up or the store is still ahead.      *)
(* Tracked says it of the directory: an enrolled request that has drained  *)
(* is marked from the root, or its branch is about to be restored, or the  *)
(* client keeps it eligible. OnTheWay and Awaited say it of the client:    *)
(* the walk or a scan in progress has yet to come to the request. From     *)
(* these follows that a checkpoint finds what is stored, and that an idle  *)
(* client has nothing to find.                                             *)
(***************************************************************************)
EXTENDS GpuProgress, FiniteSetTheorems, SequenceTheorems, WellFoundedInduction,
        NaturalsInduction, FunctionTheorems, TLAPS

-----------------------------------------------------------------------------
(* Types                                                                   *)

Kinds == {"ordered", "all", "terminal", "callback", "submit", "look"}
Frames == [kind : Kinds, cursor : 0..MaxRequests, counted : BOOLEAN]
OnThePath == {"leaf", "slot", "notify", "remark", "remarkRoot", "clear", "recheck", "restore"}
Walking == {"collect", "again"} \cup OnThePath
Inspecting == {"status", "active", "failed", "drain"}
Places == {"idle", "next", "scanned", "callback", "submit"} \cup Walking \cup Inspecting
Operations == {"begin", "leaf", "root", "status", "drained", "end", "acknowledge"}

SharedTyped ==
    /\ terminal \in {"no", "retired", "ending", "accounted"}
    /\ status \in [Requests -> {"pending", "success", "failure"}]
    /\ drained \subseteq Requests /\ acknowledged \subseteq Requests /\ publishing \subseteq Requests
    /\ hint \in BOOLEAN

MarksTyped == marks \in [root : SUBSET Branches, leaf : [Branches -> SUBSET Requests]]

WorkerTyped ==
    /\ phase \in [Requests -> {"none", "running", "failed", "done"}]
    /\ watched \subseteq Requests /\ subscriptions \subseteq Requests
    /\ job \in Seq(Operations \X Requests)

\* A request with a path has an identity of its own.
BookTyped ==
    /\ spent \in Spent /\ sent \in 0..MaxRequests
    /\ outcome \in [Requests -> {"none", "value", "error"}]
    /\ directory \in [root : 0..MaxRequests, leaf : [Branches -> 0..MaxRequests], entries : SUBSET Requests]
    /\ path \in [Requests -> (0..MaxRequests) \X (0..MaxRequests)]
    /\ \A c \in Requests : path[c][1] # None => HasId(c)

\* The index as the nine fields it has.
IndexIs(i, live, unresolved, arming, fallback, underway, checked, changed, active, ordered) ==
    /\ DOMAIN i = Sets \cup {"ordered"}
    /\ i.live = live /\ i.unresolved = unresolved /\ i.arming = arming /\ i.fallback = fallback
    /\ i.publishing = underway /\ i.checked = checked /\ i.changed = changed /\ i.active = active
    /\ i.ordered = ordered

IndexTyped ==
    /\ DOMAIN index = Sets \cup {"ordered"}
    /\ index.ordered \in BOOLEAN
    /\ \A s \in Sets : index[s] \subseteq Requests

ClientTyped ==
    /\ stack \in Seq(Frames) /\ at \in Places
    /\ req \in 0..MaxRequests /\ (at \in Inspecting => req \in Requests)
    /\ seen \in {"pending", "success", "failure"}

WalkTyped ==
    walk \in [visited : SUBSET Requests, before : 0..MaxRequests, branches : SUBSET Branches,
              slots : SUBSET Requests, found : 0..MaxRequests]

AllTyped == SharedTyped /\ MarksTyped /\ WorkerTyped /\ BookTyped /\ IndexTyped /\ ClientTyped /\ WalkTyped

-----------------------------------------------------------------------------
(* Control of the client                                                    *)

FramesOf(s) == {s[i] : i \in DOMAIN s}
Calls(s) == {i \in DOMAIN s : s[i].kind = "submit"}
CountedIn(s) == \E f \in FramesOf(s) : f.counted
Scans == {"ordered", "all", "terminal"}

\* What the innermost call is doing fits where the client is.
Fits(a, s) ==
    /\ s = <<>> <=> a = "idle"
    /\ a \in {"callback", "submit"} => Head(s).kind = a
    /\ a \in Walking => Head(s).kind = "ordered"
    /\ a = "next" => Head(s).kind \in Scans
    /\ a = "scanned" \/ a \in Inspecting => Head(s).kind \in Scans \cup {"look"}
FramesFit(s) ==
    \A f \in FramesOf(s) : /\ f.kind = "ordered" => f.counted
                           /\ f.counted => f.kind \in Scans
Nesting ==
    /\ Fits(at, stack) /\ FramesFit(stack)
    /\ sent + Cardinality(Calls(stack)) <= MaxRequests

\* The locals of the walk.
InHand(c) == at \in {"notify", "remark", "remarkRoot"} /\ walk.found = c
WalkPlaced ==
    /\ at \notin Walking => walk = NoWalk
    /\ at = "slot" => walk.slots # {}
    /\ at \in OnThePath => walk.branches # {}
    /\ at \in {"clear", "recheck", "restore"} => walk.slots = {}
    /\ at \in {"notify", "remark", "remarkRoot"} => walk.found \in Requests

\* What the walk has visited, it has reported.
VisitedHaveChanged == \A c \in walk.visited : c \in index.changed \/ (at = "notify" /\ walk.found = c)

\* What was claimed is enrolled, and its leaf is marked before its branch is.
ClaimInOrder ==
    /\ at \in {"notify", "remark", "remarkRoot"} => walk.found \in directory.entries
    /\ at = "remarkRoot" => walk.found \in marks.leaf[Branch(walk.found)]

\* A completion under inspection is live.
InspectedIsLive ==
    /\ at \in Inspecting => req \in index.live
    /\ at \in {"status", "active"} => outcome[req] = "none"
    /\ at = "active" => seen # "failure" /\ (seen = "success" => req \in drained)
    /\ at = "failed" => outcome[req] = "error"

\* Types, nesting and the places of the walk are kept together.
Typed == AllTyped /\ Nesting /\ WalkPlaced

-----------------------------------------------------------------------------
(* The index                                                                *)

IndexInOrder ==
    /\ \A s \in Sets \ {"checked"} : index[s] \subseteq index.live
    /\ directory.entries # {} \/ CountedIn(stack) => index.ordered
    /\ index.checked # {} => CountedIn(stack)
    /\ index.active \subseteq WithIds(index.live)
    /\ index.ordered => WithIds(Eligible) \subseteq index.active
    /\ index.live \subseteq 1..sent

\* Requests that have not been sent have no history.
UnsentAreBlank ==
    \A c \in Requests : c > sent => outcome[c] = "none" /\ status[c] = "pending" /\ phase[c] = "none"

\* Whoever is not unresolved has failed, and is enrolled or inspected for good.
FailedAreKept ==
    /\ \A c \in index.live \ index.unresolved : outcome[c] = "error"
    /\ \A c \in index.live : outcome[c] = "value" => at = "drain" /\ req = c /\ IsDrained(c)
    /\ \A c \in index.live : outcome[c] = "error" =>
         \/ c \in index.fallback \cup directory.entries
         \/ at = "failed" /\ req = c
         \/ at = "drain" /\ req = c /\ IsDrained(c)

Enrolled == directory.entries \cup watched \cup subscriptions
EnrolledHaveFailed ==
    \A c \in Enrolled : outcome[c] = "error" /\ ~(at = "failed" /\ req = c) /\ HasId(c)

\* The directory names a word for every entry, and the entry's path leads to it.
DirectoryInOrder ==
    /\ directory.entries \subseteq index.live
    /\ \A c \in directory.entries :
         /\ path[c][1] = directory.root /\ path[c][2] = directory.leaf[Branch(c)]
         /\ directory.root # None /\ directory.leaf[Branch(c)] # None

-----------------------------------------------------------------------------
(* The worker                                                               *)

Then(op, c, rest) == <<<<op, c>>>> \o rest
PathLeft(c) == Then("leaf", c, Then("root", c, <<>>))
EndLeft(c) == Then("end", c, PathLeft(c))

\* The stores of a publication, before what follows them.
StoresThat(c, rest) == {Then("drained", c, Then("status", c, rest)), Then("drained", c, rest)}
StoresOver(c, rest) == {Then("status", c, rest)}
Stores(c, rest) == StoresThat(c, rest) \cup StoresOver(c, rest)

\* Every request that is done has drained.
DoneIn(s) == \A c \in s : phase[c] = "done" => c \in drained

\* A request whose leaf is marked, or which the client will keep as publishing.
Marked(c) == c \in marks.leaf[Branch(c)] \/ InHand(c) \/ c \in index.publishing
\* A request that a collection from the root finds, or which is in hand.
Tracked(c) ==
    \/ /\ c \in marks.leaf[Branch(c)]
       /\ Branch(c) \in marks.root \/ (at \in {"recheck", "restore"} /\ branch = Branch(c))
    \/ InHand(c) \/ c \in index.publishing

\* How far a publication, or a subscription, of a request has come.
Underway(c) ==
    \/ c \in watched /\ \E q \in Stores(c, EndLeft(c)) :
         /\ q \in StoresOver(c, EndLeft(c)) => DoneIn({c})
         /\ \/ job = Then("begin", c, Then("leaf", c, Then("root", c, q)))
            \/ c \in publishing /\ job = Then("leaf", c, Then("root", c, q))
            \/ c \in publishing /\ job = Then("root", c, q) /\ (c \in directory.entries => Marked(c))
            \/ c \in publishing /\ job = q /\ (c \in directory.entries => Tracked(c))
    \/ DoneIn({c}) /\ job \in {EndLeft(c), PathLeft(c), Then("root", c, <<>>)}
    \/ c \notin watched /\ job \in StoresThat(c, <<>>)
    \/ DoneIn({c}) /\ job \in StoresOver(c, <<>>)
    \/ /\ c \in watched \cup drained /\ DoneIn({c})
       /\ job \in {Then("leaf", c, Then("root", c, Then("acknowledge", c, <<>>))),
                   Then("root", c, Then("acknowledge", c, <<>>)), Then("acknowledge", c, <<>>)}

WorkerInOrder ==
    /\ (job = <<>> /\ DoneIn(Requests)) \/ \E c \in 1..sent : DoneIn(Requests \ {c}) /\ Underway(c)
    /\ \A c \in Requests : status[c] = "success" => c \in drained
    /\ acknowledged \subseteq watched \cup drained

-----------------------------------------------------------------------------
(* The news                                                                 *)

NewsIsTracked ==
    /\ directory.entries \ index.arming \subseteq acknowledged
    /\ \A c \in directory.entries \cap drained :
         Tracked(c) \/ c \in index.arming \cup index.changed \/ (at = "drain" /\ req = c)

\* The walk in progress leads to the leaf, and takes the request's bit.
OnTheWay(c) ==
    /\ c \in directory.entries /\ at \in Walking /\ Head(stack).cursor < c
    /\ \/ at = "notify" /\ walk.found = c
       \/ /\ c \in marks.leaf[Branch(c)]
          /\ \/ at = "collect" /\ Branch(c) \in marks.root
             \/ at = "leaf" /\ Branch(c) \in walk.branches
             \/ /\ at \in OnThePath \ {"leaf"} /\ Branch(c) \in walk.branches
                /\ Branch(c) # branch \/ c \in walk.slots

\* A scan in progress has yet to come to the request.
Awaited(c) == \E f \in FramesOf(stack) :
    /\ f.cursor < c
    /\ f.kind \in {"all", "terminal"} \/ (f.kind = "ordered" /\ c \in index.active)

WillFind(c) == (at \in Inspecting /\ req = c) \/ Awaited(c) \/ OnTheWay(c)

Quiet == ~hint /\ Published /\ terminal # "ending"
NewsIsAwaited ==
    /\ Quiet => \A c \in index.live : HasNews(c) => WillFind(c)
    /\ Quiet /\ at = "active" /\ ~Retired => status[req] = seen
    /\ Quiet /\ at = "drain" /\ outcome[req] = "none" => ~HasNews(req)

IInv ==
    /\ Typed /\ InspectedIsLive /\ IndexInOrder /\ UnsentAreBlank /\ FailedAreKept /\ EnrolledHaveFailed
    /\ DirectoryInOrder /\ VisitedHaveChanged /\ ClaimInOrder /\ WorkerInOrder /\ NewsIsTracked /\ NewsIsAwaited

-----------------------------------------------------------------------------
(* Least numbers, identities, and the stack as a set of frames.            *)

\* The least member of a set of numbers is a member, and least.
LEMMA MinIsLeast ==
    ASSUME NEW T \in SUBSET Nat, T # {}
    PROVE  Min(T) \in T /\ \A m \in T : Min(T) <= m
<1>1. \E R : IsWellFoundedOn(R, Nat) /\ R = {p \in Nat \X Nat : p[1] < p[2]}
    BY NatLessThanWellFounded, Zenon DEF OpToRel
<1>2. PICK R : IsWellFoundedOn(R, Nat) /\ R = {p \in Nat \X Nat : p[1] < p[2]}
    BY <1>1
<1>3. \E n \in T : \A m \in T : ~ (<<m, n>> \in R)
    BY <1>2, WFMin, Zenon
<1>4. \A m, n \in Nat : m < n => <<m, n>> \in R
    BY <1>2
<1>5. \A m, n \in Nat : ~ (m < n) => n <= m
    OBVIOUS
<1>6. \E n \in T : \A m \in T : n <= m
    BY <1>3, <1>4, <1>5
<1> QED BY <1>6, Zenon DEF Min

\* Division by the width keeps the order.
LEMMA DivisionKeepsOrder ==
    ASSUME NEW a \in Nat, NEW b \in Nat, NEW w \in Nat \ {0}, a <= b
    PROVE  a \div w \in Nat /\ a \div w <= b \div w
<1>1. a \div w \in Nat /\ b \div w \in Nat
    OBVIOUS
<1> QED BY <1>1

\* A request with an identity has a branch.
LEMMA BranchExists ==
    ASSUME NEW c \in Requests, spent \in Spent, HasId(c)
    PROVE  Branch(c) \in Branches
<1>1. Id(c) \in Nat /\ Identities - 1 \in Nat /\ Id(c) <= Identities - 1 /\ Width \in Nat \ {0}
    BY BoundsAssumption DEF Requests, HasId, Id
<1>2. Id(c) \div Width \in Nat /\ Id(c) \div Width <= (Identities - 1) \div Width
    BY <1>1, DivisionKeepsOrder
<1>3. (Identities - 1) \div Width \in Nat
    BY <1>1
<1> QED BY <1>2, <1>3 DEF Branch, Branches

\* A call on top of the stack.
LEMMA PushFrame ==
    ASSUME NEW f \in Frames, NEW s \in Seq(Frames)
    PROVE  /\ <<f>> \o s \in Seq(Frames) /\ <<f>> \o s # <<>>
           /\ Head(<<f>> \o s) = f /\ Tail(<<f>> \o s) = s
           /\ FramesOf(<<f>> \o s) = {f} \cup FramesOf(s)
<1> DEFINE t == <<f>> \o s
<1>1. <<f>> \in Seq(Frames) /\ Len(<<f>>) = 1 /\ <<f>>[1] = f
    OBVIOUS
<1>2. /\ t \in Seq(Frames) /\ Len(t) = 1 + Len(s) /\ DOMAIN t = 1..(1 + Len(s)) /\ Len(s) \in Nat
      /\ t[1] = f /\ \A i \in 1..Len(s) : t[i + 1] = s[i]
    BY <1>1, ConcatProperties, LenProperties
<1> HIDE DEF t
<1>3. t # <<>> /\ Head(t) = f
    BY <1>2
<1>4. Tail(t) \in Seq(Frames) /\ Len(Tail(t)) = Len(s) /\ \A i \in 1..Len(s) : Tail(t)[i] = t[i + 1]
    BY <1>2, <1>3, HeadTailProperties
<1>5. Tail(t) = s
    BY <1>2, <1>4, SeqEqual
<1>6. DOMAIN s = 1..Len(s)
    OBVIOUS
<1>7. FramesOf(t) \subseteq {f} \cup FramesOf(s)
  <2> SUFFICES ASSUME NEW i \in DOMAIN t PROVE t[i] \in {f} \cup FramesOf(s)
      BY DEF FramesOf
  <2>1. CASE i = 1
      BY <2>1, <1>2
  <2>2. CASE i # 1
    <3>1. i - 1 \in 1..Len(s) /\ t[(i - 1) + 1] = s[i - 1] /\ (i - 1) + 1 = i
        BY <2>2, <1>2
    <3> QED BY <3>1, <1>6 DEF FramesOf
  <2> QED BY <2>1, <2>2
<1>8. \A i \in DOMAIN s : s[i] \in FramesOf(t)
    BY <1>2, <1>6 DEF FramesOf
<1>9. f \in FramesOf(t)
  <2>1. 1 \in DOMAIN t
      BY <1>2
  <2> QED BY <2>1, <1>2 DEF FramesOf
<1>10. FramesOf(t) = {f} \cup FramesOf(s)
    BY <1>7, <1>8, <1>9 DEF FramesOf
<1> QED BY <1>2, <1>3, <1>5, <1>10 DEF t

\* A stack that is not empty is the innermost call on top of the others.
LEMMA PopFrame ==
    ASSUME NEW s \in Seq(Frames), s # <<>>
    PROVE  /\ Head(s) \in Frames /\ Tail(s) \in Seq(Frames) /\ s = <<Head(s)>> \o Tail(s)
           /\ FramesOf(s) = {Head(s)} \cup FramesOf(Tail(s))
<1>1. Head(s) \in Frames /\ Tail(s) \in Seq(Frames) /\ Len(Tail(s)) = Len(s) - 1
      /\ \A i \in 1..Len(Tail(s)) : Tail(s)[i] = s[i + 1]
    BY HeadTailProperties
<1> DEFINE t == <<Head(s)>> \o Tail(s)
<1>2. <<Head(s)>> \in Seq(Frames) /\ Len(<<Head(s)>>) = 1 /\ <<Head(s)>>[1] = Head(s) /\ Head(s) = s[1]
    BY <1>1
<1>3. t \in Seq(Frames) /\ Len(t) = Len(s) /\ t[1] = s[1] /\ \A i \in 1..(Len(s) - 1) : t[i + 1] = s[i + 1]
    BY <1>1, <1>2, ConcatProperties, LenProperties
<1> HIDE DEF t
<1>4. \A i \in 1..Len(s) : t[i] = s[i]
  <2> SUFFICES ASSUME NEW i \in 1..Len(s), i # 1 PROVE t[i] = s[i]
      BY <1>3
  <2>1. i - 1 \in 1..(Len(s) - 1) /\ (i - 1) + 1 = i
      BY LenProperties
  <2> QED BY <2>1, <1>3
<1>5. t = s
    BY <1>3, <1>4, SeqEqual
<1> QED BY <1>1, <1>5, PushFrame DEF t

\* The calls under way, on a stack and below its top.
LEMMA CallsOnTop ==
    ASSUME NEW f \in Frames, NEW s \in Seq(Frames)
    PROVE  /\ Cardinality(Calls(s)) \in Nat
           /\ Cardinality(Calls(<<f>> \o s)) = Cardinality(Calls(s)) + (IF f.kind = "submit" THEN 1 ELSE 0)
<1> DEFINE t == <<f>> \o s
           U == {i \in 2..(1 + Len(s)) : t[i].kind = "submit"}
           up == [i \in Calls(s) |-> i + 1]
<1>1. <<f>> \in Seq(Frames) /\ Len(<<f>>) = 1 /\ <<f>>[1] = f
    OBVIOUS
<1>2. /\ t \in Seq(Frames) /\ Len(t) = 1 + Len(s) /\ DOMAIN t = 1..(1 + Len(s)) /\ Len(s) \in Nat
      /\ t[1] = f /\ \A i \in 1..Len(s) : t[i + 1] = s[i]
    BY <1>1, ConcatProperties, LenProperties
<1>3. DOMAIN s = 1..Len(s)
    OBVIOUS
<1> HIDE DEF t
<1>4. IsFiniteSet(Calls(s)) /\ Cardinality(Calls(s)) \in Nat
  <2>1. IsFiniteSet(1..Len(s)) /\ Calls(s) \in SUBSET (1..Len(s))
      BY <1>2, <1>3, FS_Interval DEF Calls
  <2> QED BY <2>1, FS_Subset, FS_CardinalityType
<1>5. ExistsBijection(Calls(s), U)
  <2>1. \A i \in Calls(s) : i \in 1..Len(s) /\ i + 1 \in U
      BY <1>2, <1>3 DEF Calls
  <2>2. up \in [Calls(s) -> U] /\ \A i, j \in Calls(s) : up[i] = up[j] => i = j
      BY <2>1
  <2>3. \A k \in U : \E i \in Calls(s) : up[i] = k
    <3> SUFFICES ASSUME NEW k \in U PROVE k - 1 \in Calls(s) /\ (k - 1) + 1 = k
        BY <2>1
    <3>1. k - 1 \in 1..Len(s) /\ (k - 1) + 1 = k
        BY <1>2
    <3>2. t[k].kind = "submit" /\ t[k] = s[k - 1]
        BY <3>1, <1>2
    <3> QED BY <3>1, <3>2, <1>3 DEF Calls
  <2> HIDE DEF up, U
  <2>4. up \in Bijection(Calls(s), U)
      BY <2>2, <2>3, Fun_IsBij
  <2> QED BY <2>4 DEF ExistsBijection
<1>6. IsFiniteSet(U) /\ Cardinality(U) = Cardinality(Calls(s))
    BY <1>4, <1>5, FS_Bijection
<1>7. 1 \notin U /\ Cardinality(U \cup {1}) = Cardinality(U) + 1
  <2>1. 1 \notin U
      OBVIOUS
  <2> HIDE DEF U
  <2> QED BY <1>6, <2>1, FS_AddElement
<1>8. Calls(t) = IF f.kind = "submit" THEN U \cup {1} ELSE U
    BY <1>2 DEF Calls
<1> HIDE DEF U
<1>9. Cardinality(Calls(t)) = Cardinality(Calls(s)) + (IF f.kind = "submit" THEN 1 ELSE 0)
    BY <1>4, <1>6, <1>7, <1>8
<1> QED BY <1>4, <1>9 DEF t

-----------------------------------------------------------------------------
(* What each operation on the index makes of its fields.                   *)

\* The index is its fields.
LEMMA IndexIsItsFields ==
    ASSUME IndexTyped
    PROVE  /\ IndexIs(index, index.live, index.unresolved, index.arming, index.fallback, index.publishing,
                      index.checked, index.changed, index.active, index.ordered)
           /\ index.live \subseteq Requests /\ index.unresolved \subseteq Requests /\ index.arming \subseteq Requests
           /\ index.fallback \subseteq Requests /\ index.publishing \subseteq Requests
           /\ index.checked \subseteq Requests /\ index.changed \subseteq Requests
           /\ index.active \subseteq Requests /\ index.ordered \in BOOLEAN
BY DEF IndexTyped, IndexIs, Sets

\* An index with typed fields is typed.
LEMMA FieldsAreTyped ==
    ASSUME NEW live \in SUBSET Requests, NEW unresolved \in SUBSET Requests, NEW arming \in SUBSET Requests,
           NEW fallback \in SUBSET Requests, NEW underway \in SUBSET Requests, NEW checked \in SUBSET Requests,
           NEW changed \in SUBSET Requests, NEW active \in SUBSET Requests, NEW ordered, ordered \in BOOLEAN,
           IndexIs(index', live, unresolved, arming, fallback, underway, checked, changed, active, ordered)
    PROVE  IndexTyped'
BY DEF IndexTyped, IndexIs, Sets

\* addActive() of one request.
LEMMA SetActiveIs ==
    ASSUME NEW i, NEW c, NEW live, NEW unresolved, NEW arming, NEW fallback, NEW underway, NEW checked, NEW changed,
           NEW active, NEW ordered,
           IndexIs(i, live, unresolved, arming, fallback, underway, checked, changed, active, ordered)
    PROVE  IndexIs(SetActive(i, c), live, unresolved, arming, fallback, underway, checked, changed,
                   IF ordered /\ HasId(c) THEN active \cup {c} ELSE active, ordered)
BY DEF IndexIs, SetActive, Sets

\* Every live request becomes active.
LEMMA ActivateAllIs ==
    ASSUME IndexTyped
    PROVE  IndexIs(ActivateAll, index.live, index.unresolved, index.arming, index.fallback, index.publishing,
                   index.checked, index.changed, IF index.ordered THEN WithIds(index.live) ELSE {}, index.ordered)
BY DEF IndexTyped, IndexIs, ActivateAll, Sets

\* The order is kept or dropped with the last checkpoint.
KeepsOrder == directory.entries # {} \/ index.arming # {} \/ index.fallback # {} \/ index.publishing # {}
CheckedLive == index.checked \cap WithIds(index.live)
\* What the last of the nested checkpoints leaves in the index.
LEMMA FinishCheckpointIs ==
    ASSUME IndexTyped
    PROVE  IndexIs(FinishCheckpoint, index.live, index.unresolved, index.arming, index.fallback, index.publishing,
                   {}, index.changed,
                   IF KeepsOrder THEN (index.active \ CheckedLive) \cup (CheckedLive \cap Eligible) ELSE {},
                   KeepsOrder)
BY DEF IndexTyped, IndexIs, FinishCheckpoint, Sets, KeepsOrder, CheckedLive

\* An ordered scan takes what the flags tell of the request, a terminal one its mark.
LEMMA InspectIs ==
    ASSUME IndexTyped, NEW c
    PROVE  \E arming, underway, checked, changed :
             /\ IndexIs(Inspect(c), index.live, index.unresolved, arming, index.fallback, underway,
                        checked, changed, index.active, index.ordered)
             /\ arming \in {index.arming, index.arming \ {c}} /\ (arming # index.arming => c \in acknowledged)
             /\ underway \in {index.publishing, index.publishing \ {c}}
             /\ underway # index.publishing => c \notin publishing
             /\ changed \in {index.changed, index.changed \ {c}}
             /\ checked \in {index.checked, index.checked \cup {c}}
             /\ Head(stack).kind # "ordered" => checked = index.checked
<1> DEFINE arming == IF c \in acknowledged THEN index.arming \ {c} ELSE index.arming
           underway == IF c \in publishing THEN index.publishing ELSE index.publishing \ {c}
<1>1. CASE Head(stack).kind = "ordered"
  <2>1. IndexIs(Inspect(c), index.live, index.unresolved, arming, index.fallback, underway,
                index.checked \cup {c}, index.changed \ {c}, index.active, index.ordered)
      BY <1>1 DEF IndexTyped, IndexIs, Inspect, Sets
  <2> QED BY <1>1, <2>1
<1>2. CASE Head(stack).kind = "terminal"
    BY <1>2 DEF IndexTyped, IndexIs, Inspect, Sets
<1>3. CASE Head(stack).kind \notin {"ordered", "terminal"}
    BY <1>3 DEF IndexTyped, IndexIs, Inspect, Sets
<1> QED BY <1>1, <1>2, <1>3

\* A resolved request, with and without the order.
LEMMA ResolvedIs ==
    ASSUME IndexTyped
    PROVE  /\ IndexIs(Resolved, index.live, index.unresolved \ {req}, index.arming, index.fallback, index.publishing,
                      index.checked, index.changed, index.active, index.ordered)
           /\ IndexIs(WithOrder(Resolved), index.live, index.unresolved \ {req}, index.arming, index.fallback,
                      index.publishing, index.checked, index.changed,
                      IF index.ordered THEN index.active ELSE WithIds(index.live), TRUE)
BY DEF IndexTyped, IndexIs, Resolved, WithOrder, Sets

\* A forgotten request leaves every set.
LEMMA ForgetIs ==
    ASSUME IndexTyped, NEW c
    PROVE  IndexIs(Forget(c), index.live \ {c}, index.unresolved \ {c}, index.arming \ {c}, index.fallback \ {c},
                   index.publishing \ {c}, index.checked \ {c}, index.changed \ {c}, index.active \ {c},
                   index.ordered)
BY DEF IndexTyped, IndexIs, Forget, Sets

\* A notice: the request has changed, and is publishing as its flag says.
LEMMA NoticeIs ==
    ASSUME IndexTyped, NEW c
    PROVE  IndexIs(SetActive([index EXCEPT !.changed = @ \cup {c},
                                           !.publishing = IF c \in publishing THEN @ \cup {c} ELSE @ \ {c}], c),
                   index.live, index.unresolved, index.arming, index.fallback,
                   IF c \in publishing THEN index.publishing \cup {c} ELSE index.publishing \ {c},
                   index.checked, index.changed \cup {c},
                   IF index.ordered /\ HasId(c) THEN index.active \cup {c} ELSE index.active, index.ordered)
<1> DEFINE i == [index EXCEPT !.changed = @ \cup {c},
                              !.publishing = IF c \in publishing THEN @ \cup {c} ELSE @ \ {c}]
<1>1. IndexIs(i, index.live, index.unresolved, index.arming, index.fallback,
              IF c \in publishing THEN index.publishing \cup {c} ELSE index.publishing \ {c},
              index.checked, index.changed \cup {c}, index.active, index.ordered)
    BY DEF IndexTyped, IndexIs, Sets
<1> HIDE DEF i
<1>2. IndexIs(SetActive(i, c), index.live, index.unresolved, index.arming, index.fallback,
              IF c \in publishing THEN index.publishing \cup {c} ELSE index.publishing \ {c},
              index.checked, index.changed \cup {c},
              IF index.ordered /\ HasId(c) THEN index.active \cup {c} ELSE index.active, index.ordered)
    BY <1>1, SetActiveIs, Zenon
<1> QED BY <1>2 DEF i

\* An enrollment: the request is resolved, armed, and active in the order.
LEMMA EnrolledIs ==
    ASSUME IndexTyped
    PROVE  IndexIs(SetActive([WithOrder(Resolved) EXCEPT !.arming = @ \cup {req}], req),
                   index.live, index.unresolved \ {req}, index.arming \cup {req}, index.fallback, index.publishing,
                   index.checked, index.changed,
                   (IF index.ordered THEN index.active ELSE WithIds(index.live))
                       \cup (IF HasId(req) THEN {req} ELSE {}), TRUE)
<1> DEFINE i == WithOrder(Resolved)
           j == [i EXCEPT !.arming = @ \cup {req}]
           base == IF index.ordered THEN index.active ELSE WithIds(index.live)
<1>1. IndexIs(i, index.live, index.unresolved \ {req}, index.arming, index.fallback, index.publishing,
              index.checked, index.changed, base, TRUE)
    BY ResolvedIs
<1> HIDE DEF i, base
<1>2. IndexIs(j, index.live, index.unresolved \ {req}, index.arming \cup {req}, index.fallback, index.publishing,
              index.checked, index.changed, base, TRUE)
    BY <1>1 DEF IndexIs, Sets
<1> HIDE DEF j
<1>3. IndexIs(SetActive(j, req), index.live, index.unresolved \ {req}, index.arming \cup {req}, index.fallback,
              index.publishing, index.checked, index.changed,
              IF TRUE /\ HasId(req) THEN base \cup {req} ELSE base, TRUE)
    BY <1>2, SetActiveIs, Zenon
<1>4. (IF TRUE /\ HasId(req) THEN base \cup {req} ELSE base) = base \cup (IF HasId(req) THEN {req} ELSE {})
    OBVIOUS
<1> QED BY <1>3, <1>4 DEF j, i, base

\* A request kept for inspection, whether or not the order was set up for it.
LEMMA KeptIs ==
    ASSUME NEW i, NEW base, NEW ordered,
           IndexIs(i, index.live, index.unresolved \ {req}, index.arming, index.fallback, index.publishing,
                   index.checked, index.changed, base, ordered)
    PROVE  IndexIs([SetActive(i, req) EXCEPT !.fallback = @ \cup {req}],
                   index.live, index.unresolved \ {req}, index.arming, index.fallback \cup {req},
                   index.publishing, index.checked, index.changed,
                   IF ordered /\ HasId(req) THEN base \cup {req} ELSE base, ordered)
<1> DEFINE j == SetActive(i, req)
           active == IF ordered /\ HasId(req) THEN base \cup {req} ELSE base
<1>1. IndexIs(j, index.live, index.unresolved \ {req}, index.arming, index.fallback, index.publishing,
              index.checked, index.changed, active, ordered)
    BY SetActiveIs
<1> HIDE DEF j, active
<1>2. IndexIs([j EXCEPT !.fallback = @ \cup {req}], index.live, index.unresolved \ {req}, index.arming,
              index.fallback \cup {req}, index.publishing, index.checked, index.changed, active, ordered)
    BY <1>1 DEF IndexIs, Sets
<1> QED BY <1>2 DEF j, active

\* A new request is live, unresolved and active in the order.
LEMMA SentIs ==
    ASSUME IndexTyped, NEW c
    PROVE  IndexIs(SetActive([index EXCEPT !.live = @ \cup {c}, !.unresolved = @ \cup {c}], c),
                   index.live \cup {c}, index.unresolved \cup {c}, index.arming, index.fallback, index.publishing,
                   index.checked, index.changed,
                   IF index.ordered /\ HasId(c) THEN index.active \cup {c} ELSE index.active, index.ordered)
<1> DEFINE i == [index EXCEPT !.live = @ \cup {c}, !.unresolved = @ \cup {c}]
<1>1. IndexIs(i, index.live \cup {c}, index.unresolved \cup {c}, index.arming, index.fallback, index.publishing,
              index.checked, index.changed, index.active, index.ordered)
    BY DEF IndexTyped, IndexIs, Sets
<1> HIDE DEF i
<1>2. IndexIs(SetActive(i, c), index.live \cup {c}, index.unresolved \cup {c}, index.arming, index.fallback,
              index.publishing, index.checked, index.changed,
              IF index.ordered /\ HasId(c) THEN index.active \cup {c} ELSE index.active, index.ordered)
    BY <1>1, SetActiveIs, Zenon
<1> QED BY <1>2 DEF i

-----------------------------------------------------------------------------
(* Types, and the nesting of calls.                                        *)

\* A call that returns leaves a client that fits what is left of the stack.
LEMMA ReturnFits ==
    ASSUME NEW rest \in Seq(Frames), FramesFit(rest), Return(rest)
    PROVE  /\ stack' = rest /\ at' \in {"idle", "callback", "submit", "scanned"}
           /\ Fits(at', stack') /\ FramesFit(stack')
<1>1. stack' = rest /\ (rest = <<>> => at' = "idle")
    BY DEF Return
<1>2. CASE rest = <<>>
    BY <1>1, <1>2 DEF Fits, Walking, Inspecting, OnThePath
<1>3. CASE rest # <<>>
  <2>1. Head(rest) \in Frames
      BY <1>3, PopFrame
  <2>2. Head(rest).kind \in Kinds
      BY <2>1 DEF Frames
  <2> QED BY <1>1, <1>3, <2>2 DEF Return, Fits, Walking, Inspecting, OnThePath, Kinds, Scans
<1> QED BY <1>1, <1>2, <1>3

\* A new scan fits on any stack.
LEMMA ScanFits ==
    ASSUME NEW rest \in Seq(Frames), FramesFit(rest), NEW f \in Frames, f.kind \in Scans,
           f.kind = "ordered" => f.counted, NEW a, a = "next" \/ (f.kind = "ordered" /\ a \in Walking)
    PROVE  /\ <<f>> \o rest \in Seq(Frames) /\ Fits(a, <<f>> \o rest) /\ FramesFit(<<f>> \o rest)
           /\ Cardinality(Calls(<<f>> \o rest)) = Cardinality(Calls(rest))
<1>1. /\ <<f>> \o rest \in Seq(Frames) /\ <<f>> \o rest # <<>> /\ Head(<<f>> \o rest) = f
      /\ FramesOf(<<f>> \o rest) = {f} \cup FramesOf(rest)
    BY PushFrame
<1>2. Cardinality(Calls(rest)) \in Nat /\ Cardinality(Calls(<<f>> \o rest)) = Cardinality(Calls(rest))
                                            + (IF f.kind = "submit" THEN 1 ELSE 0)
    BY CallsOnTop
<1>3. Cardinality(Calls(<<f>> \o rest)) = Cardinality(Calls(rest))
    BY <1>2 DEF Scans
<1>4. Fits(a, <<f>> \o rest)
    BY <1>1 DEF Fits, Walking, Inspecting, OnThePath, Scans
<1>5. FramesFit(<<f>> \o rest)
    BY <1>1 DEF FramesFit, Scans
<1> QED BY <1>1, <1>3, <1>4, <1>5

\* The frames the client starts with.
LEMMA NewFrames ==
    /\ \A k \in Kinds : Frame(k, None, FALSE) \in Frames
    /\ \A k \in Kinds : Frame(k, None, FALSE).kind = k /\ ~Frame(k, None, FALSE).counted
    /\ \A k \in Kinds : Frame(k, None, FALSE).cursor = 0
    /\ Frame("ordered", None, TRUE) \in Frames /\ Frame("ordered", None, TRUE).kind = "ordered"
    /\ Frame("ordered", None, TRUE).counted /\ Frame("ordered", None, TRUE).cursor = 0
BY BoundsAssumption DEF Frame, Frames, Kinds, None

\* Activating every live request keeps the index typed.
LEMMA ActivationIsTyped ==
    ASSUME IndexTyped, index' = ActivateAll
    PROVE  IndexTyped'
<1> DEFINE active == IF index.ordered THEN WithIds(index.live) ELSE {}
<1>1. active \subseteq Requests
    BY IndexIsItsFields DEF WithIds
<1>2. IndexIs(index', index.live, index.unresolved, index.arming, index.fallback, index.publishing,
              index.checked, index.changed, active, index.ordered)
    BY ActivateAllIs
<1> HIDE DEF active
<1> QED BY <1>1, <1>2, IndexIsItsFields, FieldsAreTyped

\* So does advance(): it returns, or starts the scan that the connection calls for.
LEMMA AdvanceFits ==
    ASSUME IndexTyped, NEW rest \in Seq(Frames), FramesFit(rest), Advance(rest)
    PROVE  /\ stack' \in Seq(Frames) /\ Fits(at', stack') /\ FramesFit(stack')
           /\ at' \in {"idle", "callback", "submit", "scanned", "next", "collect"}
           /\ Cardinality(Calls(stack')) = Cardinality(Calls(rest))
           /\ IndexTyped'
<1> USE BoundsAssumption
<1>0. index' \in {index, ActivateAll} => IndexTyped'
  <2>1. index' = index => IndexTyped'
      BY DEF IndexTyped
  <2> QED BY <2>1, ActivationIsTyped
<1>1. CASE index.live = {}
  <2>1. Return(rest) /\ index' = index
      BY <1>1 DEF Advance
  <2> QED BY <2>1, <1>0, ReturnFits
<1> DEFINE t == Frame("terminal", None, FALSE)
           s == Frame("all", None, FALSE)
           o == Frame("ordered", None, TRUE)
<1>a. /\ t \in Frames /\ t.kind = "terminal" /\ s \in Frames /\ s.kind = "all"
      /\ o \in Frames /\ o.kind = "ordered" /\ o.counted
    BY NewFrames DEF Kinds
<1>2. CASE index.live # {} /\ IsTerminal
  <2>1. stack' = <<t>> \o rest /\ at' = "next" /\ index' = ActivateAll
      BY <1>2 DEF Advance
  <2> HIDE DEF s, t
  <2> QED BY <2>1, <1>a, <1>0, ScanFits DEF Scans
<1>3. CASE index.live # {} /\ ~IsTerminal /\ (Exhausted \/ ~index.ordered)
  <2>1. stack' = <<s>> \o rest /\ at' = "next" /\ index' = index
      BY <1>3 DEF Advance
  <2> HIDE DEF s, t
  <2> QED BY <2>1, <1>a, <1>0, ScanFits DEF Scans
<1>4. CASE index.live # {} /\ ~IsTerminal /\ ~(Exhausted \/ ~index.ordered)
  <2>1. stack' = <<o>> \o rest /\ at' = "collect" /\ index' = index
      BY <1>4 DEF Advance
  <2> HIDE DEF o
  <2> QED BY <2>1, <1>a, <1>0, ScanFits DEF Scans, Walking
<1> QED BY <1>1, <1>2, <1>3, <1>4

\* What is left of a stack when its top returns.
LEMMA RestFits ==
    ASSUME ClientTyped, Nesting, at # "idle"
    PROVE  /\ stack # <<>> /\ Head(stack) \in Frames /\ Tail(stack) \in Seq(Frames)
           /\ stack = <<Head(stack)>> \o Tail(stack)
           /\ FramesOf(stack) = {Head(stack)} \cup FramesOf(Tail(stack)) /\ FramesFit(Tail(stack))
           /\ Head(stack).kind = "ordered" => Head(stack).counted
           /\ Cardinality(Calls(Tail(stack))) \in Nat
           /\ Cardinality(Calls(stack)) = Cardinality(Calls(Tail(stack)))
                                            + (IF Head(stack).kind = "submit" THEN 1 ELSE 0)
<1>1. stack # <<>> /\ stack \in Seq(Frames) /\ FramesFit(stack)
    BY DEF ClientTyped, Nesting, Fits
<1>2. /\ Head(stack) \in Frames /\ Tail(stack) \in Seq(Frames) /\ stack = <<Head(stack)>> \o Tail(stack)
      /\ FramesOf(stack) = {Head(stack)} \cup FramesOf(Tail(stack))
    BY <1>1, PopFrame
<1>3. FramesFit(Tail(stack)) /\ (Head(stack).kind = "ordered" => Head(stack).counted)
    BY <1>1, <1>2 DEF FramesFit
<1>4. /\ Cardinality(Calls(Tail(stack))) \in Nat
      /\ Cardinality(Calls(<<Head(stack)>> \o Tail(stack))) = Cardinality(Calls(Tail(stack)))
                                            + (IF Head(stack).kind = "submit" THEN 1 ELSE 0)
    BY <1>2, CallsOnTop
<1> QED BY <1>1, <1>2, <1>3, <1>4

\* The top of the stack, with another kind or cursor.
LEMMA TopChanges ==
    ASSUME ClientTyped, Nesting, Head(stack).kind \in Scans, at # "idle",
           NEW f \in Frames, f.kind \in Scans, f.counted = Head(stack).counted, f.kind = "ordered" => f.counted,
           NEW a, a \in {"next", "scanned"} \cup Inspecting
    PROVE  LET s == <<f>> \o Tail(stack)
           IN  /\ s \in Seq(Frames) /\ s # <<>> /\ Head(s) = f /\ Tail(s) = Tail(stack)
               /\ FramesOf(s) = {f} \cup FramesOf(Tail(stack))
               /\ Fits(a, s) /\ FramesFit(s) /\ Cardinality(Calls(s)) = Cardinality(Calls(stack))
<1> DEFINE s == <<f>> \o Tail(stack)
<1>1. /\ s \in Seq(Frames) /\ s # <<>> /\ Head(s) = f /\ Tail(s) = Tail(stack)
      /\ FramesOf(s) = {f} \cup FramesOf(Tail(stack))
    BY RestFits, PushFrame
<1>2. Cardinality(Calls(s)) = Cardinality(Calls(Tail(stack))) + (IF f.kind = "submit" THEN 1 ELSE 0)
    BY RestFits, CallsOnTop
<1> HIDE DEF s
<1>3. Cardinality(Calls(s)) = Cardinality(Calls(stack))
    BY <1>2, RestFits DEF Scans
<1>4. Fits(a, s)
    BY <1>1 DEF Fits, Walking, Inspecting, OnThePath, Scans
<1>5. FramesFit(s)
    BY <1>1, RestFits DEF FramesFit
<1> QED BY <1>1, <1>3, <1>4, <1>5 DEF s

\* Fields of records and functions that the steps of the walk change.
LEMMA WalkFields ==
    ASSUME WalkTyped
    PROVE  /\ walk.visited \subseteq Requests /\ walk.branches \subseteq Branches /\ walk.slots \subseteq Requests
           /\ walk.found \in 0..MaxRequests /\ walk.before \in 0..MaxRequests
           /\ Requests \subseteq Nat /\ Branches \subseteq Nat /\ Requests \subseteq 0..MaxRequests /\ 0 \in 0..MaxRequests
BY BoundsAssumption DEF WalkTyped, Requests, Branches

\* The branch that the walk is at.
LEMMA BranchOfWalk ==
    ASSUME WalkTyped, walk.branches # {}
    PROVE  branch \in walk.branches /\ branch \in Branches
<1>1. walk.branches \in SUBSET Nat
    BY WalkFields
<1>2. Min(walk.branches) \in walk.branches
    BY <1>1, MinIsLeast
<1> QED BY <1>2, WalkFields DEF branch

\* The request that a claim is about.
LEMMA SlotOfWalk ==
    ASSUME WalkTyped, walk.slots # {}
    PROVE  Min(walk.slots) \in walk.slots /\ Min(walk.slots) \in Requests
<1>1. walk.slots \in SUBSET Nat
    BY WalkFields
<1> QED BY <1>1, MinIsLeast, WalkFields

\* The path of a request leads to its branch, so a mark is typed.
LEMMA MarksStayTyped ==
    ASSUME MarksTyped, BookTyped, NEW c \in Requests
    PROVE  /\ MarkLeaf(c) \in [root : SUBSET Branches, leaf : [Branches -> SUBSET Requests]]
           /\ MarkRoot(c) \in [root : SUBSET Branches, leaf : [Branches -> SUBSET Requests]]
<1>1. MarkRoot(c) \in [root : SUBSET Branches, leaf : [Branches -> SUBSET Requests]]
  <2>1. CASE path[c][1] # None
    <3>1. Branch(c) \in Branches
        BY <2>1, BranchExists DEF BookTyped
    <3> QED BY <3>1 DEF MarkRoot, MarksTyped
  <2>2. CASE path[c][1] = None
      BY <2>2 DEF MarkRoot, MarksTyped
  <2> QED BY <2>1, <2>2
<1>2. MarkLeaf(c) \in [root : SUBSET Branches, leaf : [Branches -> SUBSET Requests]]
  <2> DEFINE l == [marks.leaf EXCEPT ![Branch(c)] = @ \cup {c}]
  <2>1. l \in [Branches -> SUBSET Requests]
      BY DEF MarksTyped
  <2>2. [marks EXCEPT !.leaf[Branch(c)] = @ \cup {c}] = [marks EXCEPT !.leaf = l]
      BY DEF MarksTyped
  <2> HIDE DEF l
  <2>3. [marks EXCEPT !.leaf = l] \in [root : SUBSET Branches, leaf : [Branches -> SUBSET Requests]]
      BY <2>1 DEF MarksTyped
  <2> QED BY <2>2, <2>3 DEF MarkLeaf, MarksTyped
<1> QED BY <1>1, <1>2

\* A step of the walk stays in the scan that it is a part of.
LEMMA WalkStaysInScan ==
    ASSUME ClientTyped, Nesting, at \in Walking, stack' = stack, sent' = sent, at' \in Walking \cup {"next"}
    PROVE  Nesting' /\ at' \in Places
BY DEF Nesting, Fits, Walking, OnThePath, Inspecting, Scans, Places

\* The walk goes on to the next slot, or clears the branch.
LEMMA ContinueStaysPlaced ==
    ASSUME WalkTyped, walk.branches # {}, NEW w, w \in [visited : SUBSET Requests, before : 0..MaxRequests,
               branches : SUBSET Branches, slots : SUBSET Requests, found : 0..MaxRequests],
           w.branches = walk.branches, Continue(w)
    PROVE  WalkPlaced' /\ WalkTyped' /\ at' \in {"slot", "clear"}
BY DEF Continue, WalkPlaced, WalkTyped, Walking, OnThePath

\* Or it leaves the branch.
LEMMA NextBranchStaysPlaced ==
    ASSUME WalkTyped, walk.branches # {}, NextBranch
    PROVE  WalkPlaced' /\ WalkTyped' /\ at' \in {"again", "leaf"}
<1>1. branch \in walk.branches /\ branch \in Branches
    BY BranchOfWalk
<1>2. walk' = [walk EXCEPT !.branches = @ \ {branch}] /\ at' = IF walk.branches = {branch} THEN "again" ELSE "leaf"
    BY DEF NextBranch
<1>3. walk'.branches = walk.branches \ {branch} /\ WalkTyped'
    BY <1>2 DEF WalkTyped
<1>4. at' = "leaf" => walk'.branches # {}
    BY <1>1, <1>2, <1>3
<1> QED BY <1>2, <1>3, <1>4 DEF WalkPlaced, Walking, OnThePath

\* A step of the walk that changes marks and locals only keeps the other types.
LEMMA WalkKeepsOthers ==
    ASSUME Typed, at \in Walking, UNCHANGED <<shared, worker, hint, book, stack, req, seen>>,
           at' \in Walking \cup {"next"}, WalkPlaced', WalkTyped', MarksTyped', IndexTyped'
    PROVE  Typed'
<1>1. AllTyped /\ Nesting
    BY DEF Typed
<1>2. SharedTyped' /\ WorkerTyped' /\ BookTyped'
    BY <1>1 DEF AllTyped, SharedTyped, WorkerTyped, BookTyped, shared, worker, book, HasId, Id
<1>3. Nesting' /\ at' \in Places
    BY <1>1, WalkStaysInScan DEF AllTyped, book
<1>4. ClientTyped'
    BY <1>1, <1>3 DEF AllTyped, ClientTyped, Walking, OnThePath, Inspecting
<1> QED BY <1>2, <1>3, <1>4 DEF Typed, AllTyped

\* Marks keep their type when a step changes none, or only one of the root.
LEMMA LoadRootTyped == ASSUME Typed, LoadRoot PROVE Typed'
<1>1. WalkTyped /\ MarksTyped /\ IndexTyped
    BY DEF Typed, AllTyped
<1>2. MarksTyped' /\ IndexTyped'
    BY <1>1 DEF LoadRoot, MarksTyped, IndexTyped
<1>3. Cardinality(walk.visited) \in 0..MaxRequests
  <2>0. MaxRequests \in Nat
      BY BoundsAssumption
  <2>a. IsFiniteSet(Requests) /\ Cardinality(Requests) = IF 1 > MaxRequests THEN 0 ELSE MaxRequests - 1 + 1
      BY <2>0, FS_Interval DEF Requests
  <2>1. IsFiniteSet(Requests) /\ Cardinality(Requests) = MaxRequests /\ walk.visited \in SUBSET Requests
      BY <1>1, <2>0, <2>a, WalkFields
  <2>2. IsFiniteSet(walk.visited) /\ Cardinality(walk.visited) <= MaxRequests
      BY <2>1, FS_Subset
  <2> QED BY <2>2, FS_CardinalityType, BoundsAssumption
<1>4. CASE directory.root = None \/ marks.root = {}
  <2>1. at' = "next" /\ walk' = NoWalk
      BY <1>4 DEF LoadRoot
  <2>2. WalkTyped'
      BY <2>1, BoundsAssumption DEF WalkTyped, NoWalk, None
  <2>3. WalkPlaced'
      BY <2>1 DEF WalkPlaced, Walking, OnThePath
  <2> QED BY <1>2, <2>1, <2>2, <2>3, WalkKeepsOthers DEF LoadRoot, Walking
<1>5. CASE ~(directory.root = None \/ marks.root = {})
  <2>1. at' = "leaf" /\ walk' = [walk EXCEPT !.branches = marks.root, !.before = Cardinality(walk.visited)]
      BY <1>5 DEF LoadRoot
  <2>2. WalkTyped' /\ walk'.branches = marks.root
      BY <2>1, <1>1, <1>3 DEF WalkTyped, MarksTyped
  <2>3. WalkPlaced'
      BY <2>1, <2>2, <1>5 DEF WalkPlaced, Walking, OnThePath
  <2> QED BY <1>2, <2>1, <2>2, <2>3, WalkKeepsOthers DEF LoadRoot, Walking, OnThePath
<1> QED BY <1>4, <1>5

\* Slots of a leaf are requests.
LEMMA LoadLeafTyped == ASSUME Typed, LoadLeaf PROVE Typed'
<1>1. WalkTyped /\ MarksTyped /\ IndexTyped /\ walk.branches # {}
    BY DEF Typed, AllTyped, WalkPlaced, LoadLeaf, OnThePath
<1>2. MarksTyped' /\ IndexTyped'
    BY <1>1 DEF LoadLeaf, MarksTyped, IndexTyped
<1> DEFINE slots == IF directory.leaf[branch] = None THEN {} ELSE marks.leaf[branch]
           w == [walk EXCEPT !.slots = slots]
<1>3. slots \subseteq Requests
    BY <1>1, BranchOfWalk DEF MarksTyped
<1> HIDE DEF slots
<1>4. w \in [visited : SUBSET Requests, before : 0..MaxRequests, branches : SUBSET Branches, slots : SUBSET Requests,
              found : 0..MaxRequests] /\ w.branches = walk.branches
    BY <1>1, <1>3 DEF WalkTyped
<1>5. Continue(w)
    BY DEF LoadLeaf, slots
<1> HIDE DEF w
<1>6. WalkPlaced' /\ WalkTyped' /\ at' \in {"slot", "clear"}
    BY <1>1, <1>4, <1>5, ContinueStaysPlaced
<1> QED BY <1>2, <1>6, WalkKeepsOthers DEF LoadLeaf, Walking, OnThePath

\* A bit that is claimed was one of a leaf.
LEMMA ClaimTyped == ASSUME Typed, Claim PROVE Typed'
<1>1. WalkTyped /\ MarksTyped /\ IndexTyped /\ walk.branches # {} /\ walk.slots # {}
    BY DEF Typed, AllTyped, WalkPlaced, Claim, OnThePath
<1> DEFINE c == Min(walk.slots)
           rest == [walk EXCEPT !.slots = @ \ {c}]
           found == [rest EXCEPT !.visited = @ \cup {c}, !.found = c]
<1>2. c \in Requests /\ branch \in Branches
    BY <1>1, SlotOfWalk, BranchOfWalk
<1>3. MarksTyped' /\ IndexTyped'
  <2>1. marks' = [marks EXCEPT !.leaf[branch] = @ \ {c}] /\ index' = index
      BY DEF Claim
  <2> DEFINE l == [marks.leaf EXCEPT ![branch] = @ \ {c}]
  <2>2. marks' = [marks EXCEPT !.leaf = l] /\ l \in [Branches -> SUBSET Requests]
      BY <2>1, <1>1 DEF MarksTyped
  <2> HIDE DEF l
  <2> QED BY <2>1, <2>2, <1>1 DEF MarksTyped, IndexTyped
<1>4. (Continue(rest)) \/ (walk' = found /\ at' \in {"remark", "notify"})
    BY DEF Claim
<1> HIDE DEF c
<1>5. rest \in [visited : SUBSET Requests, before : 0..MaxRequests, branches : SUBSET Branches, slots : SUBSET Requests,
              found : 0..MaxRequests] /\ rest.branches = walk.branches
    BY <1>1, <1>2 DEF WalkTyped
<1>6. found \in [visited : SUBSET Requests, before : 0..MaxRequests, branches : SUBSET Branches, slots : SUBSET Requests,
              found : 0..MaxRequests] /\ found.branches = walk.branches /\ found.found = c
    BY <1>1, <1>2, WalkFields DEF WalkTyped
<1> HIDE DEF rest, found
<1>7. WalkPlaced' /\ WalkTyped' /\ at' \in {"slot", "clear", "remark", "notify"}
  <2>1. CASE Continue(rest)
      BY <2>1, <1>1, <1>5, ContinueStaysPlaced
  <2>2. CASE walk' = found /\ at' \in {"remark", "notify"}
    <3>1. WalkTyped'
        BY <2>2, <1>6 DEF WalkTyped
    <3> QED BY <2>2, <3>1, <1>1, <1>2, <1>6 DEF WalkPlaced, Walking, OnThePath
  <2> QED BY <1>4, <2>1, <2>2
<1> QED BY <1>3, <1>7, WalkKeepsOthers DEF Claim, Walking, OnThePath

\* The locals once what was found is dealt with.
LEMMA FoundIsDealtWith ==
    ASSUME WalkTyped, walk.branches # {}, Continue([walk EXCEPT !.found = None])
    PROVE  WalkPlaced' /\ WalkTyped' /\ at' \in {"slot", "clear"}
<1> DEFINE w == [walk EXCEPT !.found = None]
<1>1. w \in [visited : SUBSET Requests, before : 0..MaxRequests, branches : SUBSET Branches, slots : SUBSET Requests,
              found : 0..MaxRequests] /\ w.branches = walk.branches
    BY WalkFields DEF WalkTyped, None
<1> HIDE DEF w
<1>2. Continue(w)
    BY DEF w
<1> QED BY <1>1, <1>2, ContinueStaysPlaced

\* What is found and reported is a request.
LEMMA NotifyTyped == ASSUME Typed, Notify PROVE Typed'
<1>1. WalkTyped /\ MarksTyped /\ IndexTyped /\ walk.branches # {} /\ walk.found \in Requests
    BY DEF Typed, AllTyped, WalkPlaced, Notify, OnThePath
<1>2. WalkPlaced' /\ WalkTyped' /\ at' \in {"slot", "clear"}
    BY <1>1, FoundIsDealtWith DEF Notify
<1>3. MarksTyped'
    BY <1>1 DEF Notify, MarksTyped
<1>4. IndexTyped'
  <2> DEFINE c == walk.found
             underway == IF c \in publishing THEN index.publishing \cup {c} ELSE index.publishing \ {c}
             active == IF index.ordered /\ HasId(c) THEN index.active \cup {c} ELSE index.active
  <2>1. IndexIs(index', index.live, index.unresolved, index.arming, index.fallback, underway,
                index.checked, index.changed \cup {c}, active, index.ordered)
      BY <1>1, NoticeIs DEF Notify
  <2>2. underway \subseteq Requests /\ active \subseteq Requests /\ index.changed \cup {c} \subseteq Requests
      BY <1>1, IndexIsItsFields
  <2> HIDE DEF underway, active, c
  <2> QED BY <1>1, <2>1, <2>2, IndexIsItsFields, FieldsAreTyped
<1> QED BY <1>2, <1>3, <1>4, WalkKeepsOthers DEF Notify, Walking, OnThePath

\* Marking again sets words that exist.
LEMMA RemarkTyped == ASSUME Typed, Remark PROVE Typed'
<1>1. WalkTyped /\ MarksTyped /\ IndexTyped /\ BookTyped /\ walk.branches # {} /\ walk.found \in Requests
    BY DEF Typed, AllTyped, WalkPlaced, Remark, OnThePath
<1>2. MarksTyped'
    BY <1>1, MarksStayTyped DEF Remark, MarksTyped
<1>3. IndexTyped'
    BY <1>1 DEF Remark, IndexTyped
<1>4. WalkPlaced' /\ WalkTyped' /\ at' \in {"slot", "clear", "remarkRoot"}
  <2>1. CASE at = "remark"
    <3>1. at' = "remarkRoot" /\ walk' = walk
        BY <2>1 DEF Remark
    <3> QED BY <1>1, <3>1 DEF WalkTyped, WalkPlaced, Walking, OnThePath
  <2>2. CASE at = "remarkRoot"
      BY <2>2, <1>1, FoundIsDealtWith DEF Remark
  <2> QED BY <2>1, <2>2 DEF Remark
<1> QED BY <1>2, <1>3, <1>4, WalkKeepsOthers DEF Remark, Walking, OnThePath

\* A branch of the walk is a branch.
LEMMA ClearBranchTyped == ASSUME Typed, ClearBranch PROVE Typed'
<1>1. WalkTyped /\ MarksTyped /\ IndexTyped /\ walk.branches # {} /\ WalkPlaced
    BY DEF Typed, AllTyped, WalkPlaced, ClearBranch, OnThePath
<1>2. MarksTyped' /\ IndexTyped'
    BY <1>1 DEF ClearBranch, MarksTyped, IndexTyped
<1>3. WalkPlaced' /\ WalkTyped' /\ at' \in {"again", "leaf", "recheck"}
  <2>1. CASE NextBranch
      BY <2>1, <1>1, NextBranchStaysPlaced
  <2>2. CASE at' = "recheck" /\ walk' = walk
      BY <2>2, <1>1 DEF ClearBranch, WalkTyped, WalkPlaced, Walking, OnThePath
  <2> QED BY <2>1, <2>2 DEF ClearBranch
<1> QED BY <1>2, <1>3, WalkKeepsOthers DEF ClearBranch, Walking, OnThePath

\* Rechecking a leaf only moves the walk on.
LEMMA RecheckTyped == ASSUME Typed, Recheck PROVE Typed'
<1>1. WalkTyped /\ MarksTyped /\ IndexTyped /\ walk.branches # {} /\ WalkPlaced
    BY DEF Typed, AllTyped, WalkPlaced, Recheck, OnThePath
<1>2. MarksTyped' /\ IndexTyped'
    BY <1>1 DEF Recheck, MarksTyped, IndexTyped
<1>3. WalkPlaced' /\ WalkTyped' /\ at' \in {"again", "leaf", "restore"}
  <2>1. CASE NextBranch
      BY <2>1, <1>1, NextBranchStaysPlaced
  <2>2. CASE at' = "restore" /\ walk' = walk
      BY <2>2, <1>1 DEF Recheck, WalkTyped, WalkPlaced, Walking, OnThePath
  <2> QED BY <2>1, <2>2 DEF Recheck
<1> QED BY <1>2, <1>3, WalkKeepsOthers DEF Recheck, Walking, OnThePath

\* The branch that is restored is one of the walk.
LEMMA RestoreTyped == ASSUME Typed, Restore PROVE Typed'
<1>1. WalkTyped /\ MarksTyped /\ IndexTyped /\ walk.branches # {} /\ WalkPlaced
    BY DEF Typed, AllTyped, WalkPlaced, Restore, OnThePath
<1>2. MarksTyped' /\ IndexTyped'
    BY <1>1, BranchOfWalk DEF Restore, MarksTyped, IndexTyped
<1>3. WalkPlaced' /\ WalkTyped' /\ at' \in {"again", "leaf"}
    BY <1>1, NextBranchStaysPlaced DEF Restore
<1> QED BY <1>2, <1>3, WalkKeepsOthers DEF Restore, Walking, OnThePath

\* A walk that ends forgets its locals.
LEMMA CollectAgainTyped == ASSUME Typed, CollectAgain PROVE Typed'
<1>1. WalkTyped /\ MarksTyped /\ IndexTyped /\ WalkPlaced
    BY DEF Typed, AllTyped
<1>2. MarksTyped' /\ IndexTyped'
    BY <1>1 DEF CollectAgain, MarksTyped, IndexTyped
<1>3. WalkTyped' /\ WalkPlaced' /\ at' \in {"next", "collect"}
  <2>1. CASE at' = "next" /\ walk' = NoWalk
      BY <2>1, BoundsAssumption DEF WalkTyped, WalkPlaced, NoWalk, None, Walking, OnThePath
  <2>2. CASE at' = "collect" /\ walk' = walk
      BY <2>2, <1>1 DEF CollectAgain, WalkTyped, WalkPlaced, Walking, OnThePath
  <2> QED BY <2>1, <2>2 DEF CollectAgain
<1> QED BY <1>2, <1>3, WalkKeepsOthers DEF CollectAgain, Walking, OnThePath

\* A step of the client that leaves the walk, the worker and the memory alone.
LEMMA ClientKeepsOthers ==
    ASSUME Typed, UNCHANGED <<terminal, status, drained, acknowledged, publishing, marks, worker, book, walk>>,
           hint' \in BOOLEAN, ClientTyped', Nesting', WalkPlaced', IndexTyped'
    PROVE  Typed'
<1>1. AllTyped
    BY DEF Typed
<1>2. SharedTyped' /\ MarksTyped' /\ WorkerTyped' /\ BookTyped' /\ WalkTyped'
    BY <1>1 DEF AllTyped, SharedTyped, MarksTyped, WorkerTyped, BookTyped, WalkTyped, worker, book, HasId, Id
<1> QED BY <1>2 DEF Typed, AllTyped

\* Outside of the walk its locals stay as they are.
LEMMA OutsideStaysPlaced ==
    ASSUME WalkPlaced, at \notin Walking, walk' = walk, at' \notin Walking \ {"collect"}
    PROVE  WalkPlaced'
BY DEF WalkPlaced, Walking, OnThePath

\* A scan goes on to a candidate.
LEMMA VisitTyped == ASSUME Typed, Visit PROVE Typed'
<1>1. IndexTyped /\ ClientTyped /\ Nesting /\ WalkPlaced /\ SharedTyped /\ at = "next"
    BY DEF Typed, AllTyped, Visit
<1> DEFINE c == Min(Candidates)
           f == [Head(stack) EXCEPT !.cursor = c]
<1>2. c \in Candidates /\ c \in Requests
  <2>1. Candidates \subseteq Requests
      BY <1>1, IndexIsItsFields DEF Candidates
  <2>2. Candidates \in SUBSET Nat /\ Candidates # {}
      BY <2>1, BoundsAssumption DEF Requests, Visit
  <2> QED BY <2>1, <2>2, MinIsLeast
<1>3. index' = Inspect(c) /\ stack' = <<f>> \o Tail(stack) /\ Refresh(c) /\ sent' = sent
    BY DEF Visit, book
<1> HIDE DEF c
<1>4. Head(stack).kind \in Scans /\ Head(stack) \in Frames
    BY <1>1, RestFits DEF Nesting, Fits
<1>5. /\ f \in Frames /\ f.kind = Head(stack).kind /\ f.counted = Head(stack).counted
      /\ f.kind = "ordered" => f.counted
    BY <1>1, <1>2, <1>4, WalkFields, RestFits DEF Frames, Requests
<1>6. at' \in {"status", "drain"} /\ req' = c
    BY <1>3 DEF Refresh
<1> HIDE DEF f
<1>7. stack' \in Seq(Frames) /\ Fits(at', stack') /\ FramesFit(stack') /\ Cardinality(Calls(stack')) = Cardinality(Calls(stack))
    BY <1>1, <1>3, <1>4, <1>5, <1>6, TopChanges DEF Inspecting
<1>8. Nesting' /\ ClientTyped'
    BY <1>1, <1>2, <1>3, <1>6, <1>7 DEF Nesting, ClientTyped, Places, Inspecting, Requests, Visit
<1>9. IndexTyped'
  <2>1. PICK arming, underway, checked, changed :
             /\ IndexIs(Inspect(c), index.live, index.unresolved, arming, index.fallback, underway,
                        checked, changed, index.active, index.ordered)
             /\ arming \in {index.arming, index.arming \ {c}}
             /\ underway \in {index.publishing, index.publishing \ {c}}
             /\ changed \in {index.changed, index.changed \ {c}}
             /\ checked \in {index.checked, index.checked \cup {c}}
      BY <1>1, InspectIs
  <2>2. arming \subseteq Requests /\ underway \subseteq Requests /\ checked \subseteq Requests /\ changed \subseteq Requests
      BY <1>1, <1>2, <2>1, IndexIsItsFields
  <2> QED BY <1>1, <1>3, <2>1, <2>2, IndexIsItsFields, FieldsAreTyped
<1>10. WalkPlaced'
    BY <1>1, <1>6, OutsideStaysPlaced DEF Visit, Walking, OnThePath
<1> QED BY <1>8, <1>9, <1>10, ClientKeepsOthers DEF Visit, Typed, AllTyped, SharedTyped, shared

\* A terminal scan takes the place of the ordered one.
LEMMA TurnTerminalTyped == ASSUME Typed, TurnTerminal PROVE Typed'
<1>1. IndexTyped /\ ClientTyped /\ Nesting /\ WalkPlaced /\ SharedTyped /\ at \in {"next", "scanned"}
    BY DEF Typed, AllTyped, TurnTerminal
<1> DEFINE f == Scanning("terminal")
<1>2. Head(stack).kind = "ordered" /\ Head(stack) \in Frames /\ stack # <<>>
    BY <1>1, RestFits DEF TurnTerminal
<1>3. f \in Frames /\ f.kind = "terminal" /\ f.counted = Head(stack).counted
    BY <1>2 DEF Frames, Scanning, Kinds
<1>4. stack' = <<f>> \o Tail(stack) /\ at' = "next" /\ index' = ActivateAll /\ sent' = sent
    BY DEF TurnTerminal, book
<1> HIDE DEF f
<1>5. stack' \in Seq(Frames) /\ Fits(at', stack') /\ FramesFit(stack') /\ Cardinality(Calls(stack')) = Cardinality(Calls(stack))
    BY <1>1, <1>2, <1>3, <1>4, TopChanges DEF Scans
<1>6. Nesting' /\ ClientTyped'
    BY <1>1, <1>4, <1>5 DEF Nesting, ClientTyped, Places, Inspecting, TurnTerminal
<1>7. IndexTyped'
    BY <1>1, <1>4, ActivationIsTyped
<1>8. WalkPlaced'
    BY <1>1, <1>4, OutsideStaysPlaced DEF TurnTerminal, Walking, OnThePath
<1> QED BY <1>6, <1>7, <1>8, ClientKeepsOthers DEF TurnTerminal, Typed, AllTyped, SharedTyped, shared

\* A scan returns to a frame that fits.
LEMMA EndScanTyped == ASSUME Typed, EndScan PROVE Typed'
<1>1. IndexTyped /\ ClientTyped /\ Nesting /\ WalkPlaced /\ SharedTyped /\ at = "next"
    BY DEF Typed, AllTyped, EndScan
<1>2. Tail(stack) \in Seq(Frames) /\ FramesFit(Tail(stack)) /\ Head(stack).kind \in Scans
    BY <1>1, RestFits DEF Nesting, Fits
<1>3. Return(Tail(stack)) /\ sent' = sent /\ index' \in {index, FinishCheckpoint}
    BY DEF EndScan, book
<1>4. /\ stack' = Tail(stack) /\ at' \in {"idle", "callback", "submit", "scanned"}
      /\ Fits(at', stack') /\ FramesFit(stack')
    BY <1>2, <1>3, ReturnFits
<1>5. Cardinality(Calls(stack')) = Cardinality(Calls(stack))
    BY <1>1, <1>2, <1>4, RestFits DEF Scans
<1>6. Nesting' /\ ClientTyped'
    BY <1>1, <1>2, <1>3, <1>4, <1>5 DEF Nesting, ClientTyped, Places, Inspecting, EndScan
<1>7. IndexTyped'
  <2>1. CASE index' = index
      BY <2>1, <1>1 DEF IndexTyped
  <2>2. CASE index' = FinishCheckpoint
    <3> DEFINE active == IF KeepsOrder THEN (index.active \ CheckedLive) \cup (CheckedLive \cap Eligible) ELSE {}
    <3>1. IndexIs(index', index.live, index.unresolved, index.arming, index.fallback, index.publishing,
                  {}, index.changed, active, KeepsOrder)
        BY <2>2, <1>1, FinishCheckpointIs
    <3>2. active \subseteq Requests /\ KeepsOrder \in BOOLEAN
        BY <1>1, IndexIsItsFields DEF CheckedLive, KeepsOrder
    <3> HIDE DEF active
    <3> QED BY <1>1, <3>1, <3>2, IndexIsItsFields, FieldsAreTyped
  <2> QED BY <2>1, <2>2, <1>3
<1>8. WalkPlaced'
    BY <1>1, <1>4, OutsideStaysPlaced DEF EndScan, Walking, OnThePath
<1> QED BY <1>6, <1>7, <1>8, ClientKeepsOthers DEF EndScan, Typed, AllTyped, SharedTyped, shared

\* The scan goes on, or the look returns.
LEMMA ScannedTyped == ASSUME Typed, Scanned PROVE Typed'
<1>1. IndexTyped /\ ClientTyped /\ Nesting /\ WalkPlaced /\ SharedTyped /\ at = "scanned"
    BY DEF Typed, AllTyped, Scanned
<1>2. /\ Tail(stack) \in Seq(Frames) /\ FramesFit(Tail(stack)) /\ Head(stack) \in Frames /\ stack # <<>>
      /\ Head(stack).kind \in Scans \cup {"look"} /\ sent' = sent /\ index' = index
    BY <1>1, RestFits DEF Nesting, Fits, Scanned, book
<1>3. /\ stack' \in Seq(Frames) /\ Fits(at', stack') /\ FramesFit(stack')
      /\ Cardinality(Calls(stack')) = Cardinality(Calls(stack))
      /\ at' \in {"idle", "callback", "submit", "scanned", "next", "collect"}
  <2>1. CASE Head(stack).kind = "look"
    <3>1. /\ stack' = Tail(stack) /\ at' \in {"idle", "callback", "submit", "scanned"}
          /\ Fits(at', stack') /\ FramesFit(stack')
        BY <2>1, <1>2, ReturnFits DEF Scanned
    <3> QED BY <2>1, <1>1, <1>2, <3>1, RestFits
  <2>2. CASE Head(stack).kind \notin {"look", "ordered"}
    <3>1. at' = "next" /\ stack' = stack
        BY <2>2 DEF Scanned
    <3> QED BY <2>2, <1>1, <1>2, <3>1 DEF Nesting, Fits, ClientTyped, Walking, OnThePath, Inspecting
  <2>3. CASE Head(stack).kind = "ordered" /\ Exhausted
    <3> DEFINE f == Scanning("all")
    <3>1. f \in Frames /\ f.kind = "all" /\ f.counted = Head(stack).counted
        BY <1>2 DEF Frames, Scanning, Kinds
    <3>2. at' = "next" /\ stack' = <<f>> \o Tail(stack)
        BY <2>3 DEF Scanned
    <3> HIDE DEF f
    <3> QED BY <2>3, <1>1, <3>1, <3>2, TopChanges DEF Scans
  <2>4. CASE Head(stack).kind = "ordered" /\ ~Exhausted
    <3>1. at' = "collect" /\ stack' = stack
        BY <2>4 DEF Scanned
    <3> QED BY <2>4, <1>1, <1>2, <3>1 DEF Nesting, Fits, ClientTyped, Walking, OnThePath, Inspecting
  <2> QED BY <2>1, <2>2, <2>3, <2>4
<1>4. Nesting' /\ ClientTyped'
    BY <1>1, <1>2, <1>3 DEF Nesting, ClientTyped, Places, Walking, Inspecting, Scanned
<1>5. IndexTyped' /\ WalkPlaced'
    BY <1>1, <1>2, <1>3, OutsideStaysPlaced DEF Scanned, Walking, OnThePath, IndexTyped
<1> QED BY <1>4, <1>5, ClientKeepsOthers DEF Scanned, Typed, AllTyped, SharedTyped, shared

\* A step of refresh() that leaves the walk alone.
LEMMA RefreshKeepsOthers ==
    ASSUME Typed, UNCHANGED <<shared, hint, phase, watched, job, spent, sent, walk>>,
           subscriptions' \subseteq Requests, outcome' \in [Requests -> {"none", "value", "error"}],
           directory' \in [root : 0..MaxRequests, leaf : [Branches -> 0..MaxRequests], entries : SUBSET Requests],
           path' \in [Requests -> (0..MaxRequests) \X (0..MaxRequests)],
           \A c \in Requests : path'[c][1] # None => HasId(c),
           MarksTyped', ClientTyped', Nesting', WalkPlaced', IndexTyped'
    PROVE  Typed'
<1>1. AllTyped
    BY DEF Typed
<1>2. SharedTyped' /\ WorkerTyped' /\ WalkTyped'
    BY <1>1 DEF AllTyped, SharedTyped, WorkerTyped, WalkTyped, shared
<1>3. BookTyped'
    BY <1>1 DEF AllTyped, BookTyped, HasId, Id
<1> QED BY <1>2, <1>3 DEF Typed, AllTyped

\* Inspection stays within its call.
LEMMA InspectionStaysInCall ==
    ASSUME ClientTyped, Nesting, at \in Inspecting, stack' = stack, sent' = sent, at' \in Inspecting \cup {"scanned"}
    PROVE  Nesting' /\ at' \in Places
BY DEF Nesting, Fits, Walking, OnThePath, Inspecting, Scans, Places

\* The status that is loaded is one of three.
LEMMA LoadStatusTyped == ASSUME Typed, LoadStatus PROVE Typed'
<1>1. AllTyped /\ Nesting /\ WalkPlaced /\ at \in Inspecting
    BY DEF Typed, LoadStatus, Inspecting
<1>2. at' \in {"failed", "active"} /\ req' = req /\ req \in Requests
    BY <1>1 DEF LoadStatus, AllTyped, ClientTyped
<1>3. Nesting' /\ ClientTyped'
    BY <1>1, <1>2, InspectionStaysInCall DEF LoadStatus, AllTyped, ClientTyped, SharedTyped, Inspecting, book
<1>4. MarksTyped' /\ IndexTyped' /\ WalkPlaced'
    BY <1>1, <1>2, OutsideStaysPlaced DEF LoadStatus, AllTyped, MarksTyped, IndexTyped, Walking, OnThePath, Inspecting
<1>5. outcome' \in [Requests -> {"none", "value", "error"}]
    BY <1>1 DEF LoadStatus, AllTyped, BookTyped
<1> QED BY <1>1, <1>3, <1>4, <1>5, RefreshKeepsOthers DEF LoadStatus, AllTyped, BookTyped, WorkerTyped, worker

\* An outcome is cached for the request under inspection.
LEMMA CheckActiveTyped == ASSUME Typed, CheckActive PROVE Typed'
<1>1. AllTyped /\ Nesting /\ WalkPlaced /\ at \in Inspecting
    BY DEF Typed, CheckActive, Inspecting
<1>2. at' \in {"failed", "drain"} /\ req' = req /\ req \in Requests /\ seen' = "pending"
    BY <1>1 DEF CheckActive, AllTyped, ClientTyped
<1>3. Nesting' /\ ClientTyped'
    BY <1>1, <1>2, InspectionStaysInCall DEF CheckActive, AllTyped, ClientTyped, Inspecting, book
<1>4. MarksTyped' /\ IndexTyped' /\ WalkPlaced'
    BY <1>1, <1>2, OutsideStaysPlaced DEF CheckActive, AllTyped, MarksTyped, IndexTyped, Walking, OnThePath, Inspecting
<1>5. outcome' \in [Requests -> {"none", "value", "error"}]
    BY <1>1 DEF CheckActive, AllTyped, BookTyped
<1> QED BY <1>1, <1>3, <1>4, <1>5, RefreshKeepsOthers DEF CheckActive, AllTyped, BookTyped, WorkerTyped, worker

\* An enrolled request gets a path, and has an identity.
LEMMA EnrollTyped == ASSUME Typed, Enroll PROVE Typed'
<1>1. AllTyped /\ Nesting /\ WalkPlaced /\ at \in Inspecting
    BY DEF Typed, Enroll, Inspecting
<1>2. at' = "drain" /\ req' = req /\ req \in Requests
    BY <1>1 DEF Enroll, AllTyped, ClientTyped
<1>3. Nesting' /\ ClientTyped'
    BY <1>1, <1>2, InspectionStaysInCall DEF Enroll, AllTyped, ClientTyped, Inspecting
<1>4. MarksTyped' /\ WalkPlaced'
    BY <1>1, <1>2, OutsideStaysPlaced DEF Enroll, AllTyped, MarksTyped, Walking, OnThePath, Inspecting
<1>5. IndexTyped'
  <2> DEFINE active == (IF index.ordered THEN index.active ELSE WithIds(index.live))
                           \cup (IF HasId(req) THEN {req} ELSE {})
  <2>1. IndexIs(index', index.live, index.unresolved \ {req}, index.arming \cup {req}, index.fallback,
                index.publishing, index.checked, index.changed, active, TRUE)
      BY <1>1, EnrolledIs DEF Enroll, AllTyped
  <2>2. active \subseteq Requests /\ index.arming \cup {req} \subseteq Requests
      BY <1>1, <1>2, IndexIsItsFields DEF WithIds, AllTyped
  <2> HIDE DEF active
  <2> QED BY <1>1, <2>1, <2>2, IndexIsItsFields, FieldsAreTyped DEF AllTyped
<1>6. /\ directory' \in [root : 0..MaxRequests, leaf : [Branches -> 0..MaxRequests], entries : SUBSET Requests]
      /\ path' \in [Requests -> (0..MaxRequests) \X (0..MaxRequests)]
      /\ \A c \in Requests : path'[c][1] # None => HasId(c)
  <2> DEFINE root == IF directory.root = None THEN req ELSE directory.root
             leaf == IF directory.leaf[Branch(req)] = None THEN req ELSE directory.leaf[Branch(req)]
             leaves == [directory.leaf EXCEPT ![Branch(req)] = leaf]
  <2>1. /\ directory' = [root |-> root, leaf |-> leaves, entries |-> directory.entries \cup {req}]
        /\ path' = [path EXCEPT ![req] = <<root, leaf>>]
      BY DEF Enroll, AddEntry
  <2>2. HasId(req)
      BY DEF Enroll
  <2>3. Branch(req) \in Branches
      BY <1>1, <1>2, <2>2, BranchExists DEF AllTyped, BookTyped
  <2>4. root \in 0..MaxRequests /\ leaf \in 0..MaxRequests /\ leaves \in [Branches -> 0..MaxRequests]
      BY <1>1, <1>2, <2>3, WalkFields DEF AllTyped, BookTyped
  <2> HIDE DEF root, leaf, leaves
  <2> QED BY <1>1, <1>2, <2>1, <2>2, <2>4 DEF AllTyped, BookTyped
<1> QED BY <1>1, <1>2, <1>3, <1>4, <1>5, <1>6, RefreshKeepsOthers DEF Enroll, AllTyped, BookTyped, WorkerTyped

\* A request that is not enrolled is kept in typed fields.
LEMMA KeepInspectingTyped == ASSUME Typed, KeepInspecting PROVE Typed'
<1>1. AllTyped /\ Nesting /\ WalkPlaced /\ at \in Inspecting
    BY DEF Typed, KeepInspecting, Inspecting
<1>2. at' = "drain" /\ req' = req /\ req \in Requests
    BY <1>1 DEF KeepInspecting, AllTyped, ClientTyped
<1>3. Nesting' /\ ClientTyped'
    BY <1>1, <1>2, InspectionStaysInCall DEF KeepInspecting, AllTyped, ClientTyped, Inspecting, book
<1>4. MarksTyped' /\ WalkPlaced'
    BY <1>1, <1>2, OutsideStaysPlaced DEF KeepInspecting, AllTyped, MarksTyped, Walking, OnThePath, Inspecting
<1>5. IndexTyped'
  <2>1. CASE index' = Resolved
    <3>1. IndexIs(index', index.live, index.unresolved \ {req}, index.arming, index.fallback, index.publishing,
                  index.checked, index.changed, index.active, index.ordered)
        BY <2>1, <1>1, ResolvedIs DEF AllTyped
    <3> QED BY <1>1, <3>1, IndexIsItsFields, FieldsAreTyped DEF AllTyped
  <2>2. ASSUME NEW i \in {Resolved, WithOrder(Resolved)}, index' = [SetActive(i, req) EXCEPT !.fallback = @ \cup {req}]
        PROVE  IndexTyped'
    <3>1. \E base \in SUBSET Requests, ordered \in BOOLEAN :
            IndexIs(i, index.live, index.unresolved \ {req}, index.arming, index.fallback, index.publishing,
                    index.checked, index.changed, base, ordered)
      <4>1. (IF index.ordered THEN index.active ELSE WithIds(index.live)) \in SUBSET Requests
            /\ index.active \in SUBSET Requests /\ index.ordered \in BOOLEAN
          BY <1>1, IndexIsItsFields DEF WithIds, AllTyped
      <4> QED BY <1>1, <2>2, <4>1, ResolvedIs DEF AllTyped
    <3>2. PICK base \in SUBSET Requests, ordered \in BOOLEAN :
            IndexIs(i, index.live, index.unresolved \ {req}, index.arming, index.fallback, index.publishing,
                    index.checked, index.changed, base, ordered)
        BY <3>1
    <3> DEFINE active == IF ordered /\ HasId(req) THEN base \cup {req} ELSE base
    <3>3. IndexIs(index', index.live, index.unresolved \ {req}, index.arming, index.fallback \cup {req},
                  index.publishing, index.checked, index.changed, active, ordered)
        BY <2>2, <3>2, KeptIs
    <3>4. active \subseteq Requests /\ index.fallback \cup {req} \subseteq Requests
        BY <1>1, <1>2, IndexIsItsFields DEF AllTyped
    <3> HIDE DEF active
    <3> QED BY <1>1, <3>3, <3>4, IndexIsItsFields, FieldsAreTyped DEF AllTyped
  <2> QED BY <2>1, <2>2 DEF KeepInspecting
<1> QED BY <1>1, <1>2, <1>3, <1>4, <1>5, RefreshKeepsOthers DEF KeepInspecting, AllTyped, BookTyped, WorkerTyped,
        worker, book

\* A callback is a call on top of the scan.
LEMMA CheckDrainTyped == ASSUME Typed, CheckDrain PROVE Typed'
<1>1. AllTyped /\ Nesting /\ WalkPlaced /\ at \in Inspecting
    BY DEF Typed, CheckDrain, Inspecting
<1>2. req' = None /\ req \in Requests /\ None \in 0..MaxRequests
    BY <1>1, WalkFields DEF CheckDrain, AllTyped, ClientTyped, None
<1>3. CASE IsDrained(req) /\ outcome[req] # "none" /\ req \in index.live
  <2> DEFINE f == Frame("callback", None, FALSE)
  <2>1. index' = Forget(req) /\ DeleteEntry(req) /\ stack' = <<f>> \o stack /\ at' = "callback" /\ sent' = sent
      BY <1>3 DEF CheckDrain
  <2>2. f \in Frames /\ f.kind = "callback" /\ ~f.counted
      BY NewFrames DEF Kinds
  <2> HIDE DEF f
  <2>3. /\ stack' \in Seq(Frames) /\ stack' # <<>> /\ Head(stack') = f
        /\ FramesOf(stack') = {f} \cup FramesOf(stack)
      BY <1>1, <2>1, <2>2, PushFrame DEF AllTyped, ClientTyped
  <2>4. Cardinality(Calls(stack)) \in Nat /\ Cardinality(Calls(stack')) = Cardinality(Calls(stack))
                                            + (IF f.kind = "submit" THEN 1 ELSE 0)
      BY <1>1, <2>1, <2>2, CallsOnTop DEF AllTyped, ClientTyped
  <2>5. Nesting'
    <3>1. Fits(at', stack')
        BY <2>1, <2>2, <2>3 DEF Fits, Walking, OnThePath, Inspecting
    <3>2. FramesFit(stack')
        BY <1>1, <2>2, <2>3 DEF Nesting, FramesFit
    <3> QED BY <1>1, <2>1, <2>2, <2>4, <3>1, <3>2 DEF Nesting
  <2>6. ClientTyped'
      BY <1>1, <1>2, <2>1, <2>3 DEF CheckDrain, AllTyped, ClientTyped, Places, Inspecting
  <2>7. IndexTyped'
    <3>1. IndexIs(index', index.live \ {req}, index.unresolved \ {req}, index.arming \ {req}, index.fallback \ {req},
                  index.publishing \ {req}, index.checked \ {req}, index.changed \ {req}, index.active \ {req},
                  index.ordered)
        BY <1>1, <2>1, ForgetIs DEF AllTyped
    <3>2. /\ index.live \ {req} \subseteq Requests /\ index.unresolved \ {req} \subseteq Requests
          /\ index.arming \ {req} \subseteq Requests /\ index.fallback \ {req} \subseteq Requests
          /\ index.publishing \ {req} \subseteq Requests /\ index.checked \ {req} \subseteq Requests
          /\ index.changed \ {req} \subseteq Requests /\ index.active \ {req} \subseteq Requests
          /\ index.ordered \in BOOLEAN
        BY <1>1, IndexIsItsFields DEF AllTyped
    <3> QED BY <3>1, <3>2, FieldsAreTyped
  <2>8. /\ directory' \in [root : 0..MaxRequests, leaf : [Branches -> 0..MaxRequests], entries : SUBSET Requests]
        /\ MarksTyped'
    <3> DEFINE entries == directory.entries \ {req}
               used == {Branch(e) : e \in entries}
               leaf == [b \in Branches |-> IF b \in used THEN directory.leaf[b] ELSE None]
               bits == [b \in Branches |-> IF b \in used THEN marks.leaf[b] ELSE {}]
    <3>1. /\ directory' = [root |-> IF entries = {} THEN None ELSE directory.root, leaf |-> leaf, entries |-> entries]
          /\ marks' = [root |-> IF entries = {} THEN {} ELSE marks.root, leaf |-> bits]
        BY <2>1 DEF DeleteEntry
    <3> HIDE DEF used
    <3>2. leaf \in [Branches -> 0..MaxRequests] /\ bits \in [Branches -> SUBSET Requests] /\ entries \subseteq Requests
        BY <1>1, <1>2 DEF AllTyped, BookTyped, MarksTyped
    <3> HIDE DEF leaf, bits, entries
    <3> QED BY <1>1, <1>2, <3>1, <3>2 DEF AllTyped, BookTyped, MarksTyped
  <2>9. WalkPlaced'
      BY <1>1, <2>1, OutsideStaysPlaced DEF CheckDrain, Walking, OnThePath
  <2> QED BY <1>1, <2>5, <2>6, <2>7, <2>8, <2>9, RefreshKeepsOthers DEF CheckDrain, AllTyped, BookTyped, WorkerTyped,
          worker
<1>4. CASE ~(IsDrained(req) /\ outcome[req] # "none" /\ req \in index.live)
  <2>1. at' = "scanned" /\ UNCHANGED <<index, directory, marks, stack>>
      BY <1>4 DEF CheckDrain
  <2>2. Nesting' /\ ClientTyped'
      BY <1>1, <1>2, <2>1, InspectionStaysInCall DEF CheckDrain, AllTyped, ClientTyped, Inspecting
  <2>3. MarksTyped' /\ IndexTyped' /\ WalkPlaced'
      BY <1>1, <2>1, OutsideStaysPlaced DEF CheckDrain, AllTyped, MarksTyped, IndexTyped, Walking, OnThePath, Inspecting
  <2> QED BY <1>1, <2>1, <2>2, <2>3, RefreshKeepsOthers DEF CheckDrain, AllTyped, BookTyped, WorkerTyped, worker
<1> QED BY <1>3, <1>4

\* A step of the worker, or the end of the connection, leaves the client alone.
LEMMA WorkerKeepsOthers ==
    ASSUME Typed, UNCHANGED <<book, index, stack, at, req, seen, walk>>, SharedTyped', MarksTyped', WorkerTyped'
    PROVE  Typed'
<1>1. AllTyped /\ Nesting /\ WalkPlaced
    BY DEF Typed
<1>2. BookTyped' /\ IndexTyped' /\ ClientTyped' /\ WalkTyped'
    BY <1>1 DEF AllTyped, BookTyped, IndexTyped, ClientTyped, WalkTyped, book, HasId, Id
<1>3. Nesting' /\ WalkPlaced'
    BY <1>1 DEF Nesting, WalkPlaced, book
<1> QED BY <1>2, <1>3 DEF Typed, AllTyped

\* The accesses of a publication are accesses.
Accesses == Operations \X Requests
\* A publication is a sequence of accesses.
LEMMA PublicationTyped ==
    ASSUME NEW c \in Requests, NEW stores \in Seq(Accesses)
    PROVE  Publication(c, stores) \in Seq(Accesses) /\ MarkPath(c) \in Seq(Accesses)
<1>1. /\ \A op \in Operations : <<op, c>> \in Accesses
      /\ {"begin", "leaf", "root", "end"} \subseteq Operations
    BY DEF Accesses, Operations
<1>2. <<<<"begin", c>>>> \in Seq(Accesses) /\ <<<<"end", c>>>> \in Seq(Accesses)
    BY <1>1
<1>3. MarkPath(c) \in Seq(Accesses)
    BY <1>1 DEF MarkPath
<1>4. <<<<"begin", c>>>> \o MarkPath(c) \in Seq(Accesses)
    BY <1>2, <1>3, ConcatProperties
<1>5. <<<<"begin", c>>>> \o MarkPath(c) \o stores \in Seq(Accesses)
    BY <1>4, ConcatProperties
<1>6. <<<<"begin", c>>>> \o MarkPath(c) \o stores \o <<<<"end", c>>>> \in Seq(Accesses)
    BY <1>2, <1>5, ConcatProperties
<1>7. <<<<"begin", c>>>> \o MarkPath(c) \o stores \o <<<<"end", c>>>> \o MarkPath(c) \in Seq(Accesses)
    BY <1>3, <1>6, ConcatProperties
<1> QED BY <1>3, <1>7 DEF Publication

\* What the worker takes up is a publication of a request, or a subscription.
LEMMA TakesUpTyped ==
    ASSUME Typed, NEW c \in Requests, Succeed(c) \/ Fail(c) \/ Drain(c) \/ WatchDrain(c)
    PROVE  Typed'
<1>1. AllTyped
    BY DEF Typed
<1>2. SharedTyped' /\ MarksTyped'
    BY <1>1 DEF AllTyped, SharedTyped, MarksTyped, Succeed, Fail, Drain, WatchDrain, shared
<1>3. /\ <<<<"drained", c>>, <<"status", c>>>> \in Seq(Accesses) /\ <<<<"status", c>>>> \in Seq(Accesses)
      /\ <<<<"drained", c>>>> \in Seq(Accesses)
    BY DEF Accesses, Operations
<1>4. WorkerTyped'
  <2>1. CASE Succeed(c)
      BY <2>1, <1>1, <1>3, PublicationTyped DEF Succeed, AllTyped, WorkerTyped, Accesses
  <2>2. CASE Fail(c)
      BY <2>2, <1>1, <1>3, PublicationTyped DEF Fail, AllTyped, WorkerTyped, Accesses
  <2>3. CASE Drain(c)
      BY <2>3, <1>1, <1>3, PublicationTyped DEF Drain, AllTyped, WorkerTyped, Accesses
  <2>4. CASE WatchDrain(c)
    <3>1. <<<<"acknowledge", c>>>> \in Seq(Accesses)
        BY DEF Accesses, Operations
    <3>2. MarkPath(c) \o <<<<"acknowledge", c>>>> \in Seq(Accesses)
        BY <1>3, <3>1, PublicationTyped, ConcatProperties
    <3> QED BY <2>4, <1>1, <3>2 DEF WatchDrain, AllTyped, WorkerTyped, Accesses
  <2> QED BY <2>1, <2>2, <2>3, <2>4
<1> QED BY <1>2, <1>4, WorkerKeepsOthers DEF Succeed, Fail, Drain, WatchDrain

\* An access writes the word of a request.
LEMMA AccessTyped == ASSUME Typed, Access PROVE Typed'
<1>1. AllTyped
    BY DEF Typed
<1> DEFINE op == Head(job)[1]
           c == Head(job)[2]
<1>2. Head(job) \in Operations \X Requests /\ Tail(job) \in Seq(Operations \X Requests) /\ job # <<>>
    BY <1>1, HeadTailProperties DEF Access, AllTyped, WorkerTyped
<1>3. op \in Operations /\ c \in Requests
    BY <1>2
<1>4. /\ publishing' = (CASE op = "begin" -> publishing \cup {c} [] op = "end" -> publishing \ {c} [] OTHER -> publishing)
      /\ acknowledged' = (IF op = "acknowledge" THEN acknowledged \cup {c} ELSE acknowledged)
      /\ marks' = (CASE op = "leaf" -> MarkLeaf(c) [] op = "root" -> MarkRoot(c) [] OTHER -> marks)
      /\ drained' = (IF op = "drained" THEN drained \cup {c} ELSE drained)
      /\ status' = (IF op = "status" THEN [status EXCEPT ![c] = IF phase[c] = "done" THEN "success" ELSE "failure"]
                   ELSE status)
      /\ job' = Tail(job) /\ hint' = (hint \/ Tail(job) = <<>>) /\ terminal' = terminal
      /\ phase' = phase /\ watched' = watched /\ subscriptions' = subscriptions
    BY DEF Access
<1> HIDE DEF op, c
<1>5. MarksTyped'
  <2>1. CASE op = "leaf"
      BY <2>1, <1>1, <1>3, <1>4, MarksStayTyped DEF AllTyped, MarksTyped
  <2>2. CASE op = "root"
      BY <2>2, <1>1, <1>3, <1>4, MarksStayTyped DEF AllTyped, MarksTyped
  <2>3. CASE op # "leaf" /\ op # "root"
      BY <2>3, <1>1, <1>4 DEF AllTyped, MarksTyped
  <2> QED BY <2>1, <2>2, <2>3
<1>6. SharedTyped'
  <2>1. /\ publishing' \subseteq Requests /\ acknowledged' \subseteq Requests /\ drained' \subseteq Requests
        /\ hint' \in BOOLEAN
      BY <1>1, <1>3, <1>4 DEF AllTyped, SharedTyped
  <2>2. status' \in [Requests -> {"pending", "success", "failure"}]
      BY <1>1, <1>4 DEF AllTyped, SharedTyped
  <2> QED BY <1>1, <1>4, <2>1, <2>2 DEF AllTyped, SharedTyped
<1>7. WorkerTyped'
    BY <1>1, <1>2, <1>4 DEF AllTyped, WorkerTyped
<1> QED BY <1>5, <1>6, <1>7, WorkerKeepsOthers DEF Access

\* The control words stay among their four values.
LEMMA ConnectionEndsTyped == ASSUME Typed, Retire \/ Account PROVE Typed'
<1>1. AllTyped
    BY DEF Typed
<1>2. SharedTyped' /\ MarksTyped' /\ WorkerTyped'
    BY <1>1 DEF AllTyped, SharedTyped, MarksTyped, WorkerTyped, Retire, Account, worker
<1> QED BY <1>2, WorkerKeepsOthers DEF Retire, Account

\* A checkpoint that the program asks for.
LEMMA AdvanceTyped ==
    ASSUME Typed, Free, Advance(stack), hint' \in BOOLEAN,
           UNCHANGED <<shared, marks, worker, book, req, seen, walk>>
    PROVE  Typed'
<1>1. AllTyped /\ Nesting /\ WalkPlaced
    BY DEF Typed
<1>2. /\ stack' \in Seq(Frames) /\ Fits(at', stack') /\ FramesFit(stack') /\ IndexTyped'
      /\ at' \in {"idle", "callback", "submit", "scanned", "next", "collect"}
      /\ Cardinality(Calls(stack')) = Cardinality(Calls(stack))
    BY <1>1, AdvanceFits DEF AllTyped, ClientTyped, Nesting
<1>3. Nesting' /\ ClientTyped'
    BY <1>1, <1>2 DEF Nesting, AllTyped, ClientTyped, Places, Walking, Inspecting, book
<1>4. WalkPlaced'
    BY <1>1, <1>2, OutsideStaysPlaced DEF Free, Walking, OnThePath
<1> QED BY <1>2, <1>3, <1>4, ClientKeepsOthers DEF shared

\* A progress message starts a scan of its own.
LEMMA ProgressTyped == ASSUME Typed, Progress PROVE Typed'
BY AdvanceTyped DEF Progress, Free

\* So does a poll.
LEMMA PollTyped == ASSUME Typed, Poll PROVE Typed'
BY AdvanceTyped DEF Poll, Typed, AllTyped, SharedTyped

\* A look inspects a live request.
LEMMA LookTyped == ASSUME Typed, NEW c \in Requests, Look(c) PROVE Typed'
<1>1. AllTyped /\ Nesting /\ WalkPlaced
    BY DEF Typed
<1> DEFINE f == Frame("look", None, FALSE)
<1>2. f \in Frames /\ f.kind = "look" /\ ~f.counted
    BY NewFrames DEF Kinds
<1>3. stack' = <<f>> \o stack /\ Refresh(c) /\ sent' = sent /\ index' = index
    BY DEF Look, book
<1> HIDE DEF f
<1>4. at' \in {"status", "drain"} /\ req' = c
    BY <1>3 DEF Refresh
<1>5. /\ stack' \in Seq(Frames) /\ stack' # <<>> /\ Head(stack') = f
      /\ FramesOf(stack') = {f} \cup FramesOf(stack)
    BY <1>1, <1>2, <1>3, PushFrame DEF AllTyped, ClientTyped
<1>6. Cardinality(Calls(stack)) \in Nat /\ Cardinality(Calls(stack')) = Cardinality(Calls(stack))
                                            + (IF f.kind = "submit" THEN 1 ELSE 0)
    BY <1>1, <1>2, <1>3, CallsOnTop DEF AllTyped, ClientTyped
<1>7. Fits(at', stack') /\ FramesFit(stack')
    BY <1>1, <1>2, <1>4, <1>5 DEF Nesting, Fits, FramesFit, Walking, OnThePath, Inspecting
<1>8. Nesting'
    BY <1>1, <1>2, <1>3, <1>6, <1>7 DEF Nesting
<1>9. ClientTyped'
  <2>1. seen' = seen /\ c \in 0..MaxRequests
      BY <1>1, WalkFields DEF Look, AllTyped
  <2> QED BY <1>1, <1>4, <1>5, <2>1 DEF AllTyped, ClientTyped, Places, Inspecting
<1>10. IndexTyped' /\ WalkPlaced'
    BY <1>1, <1>3, <1>4, OutsideStaysPlaced DEF Look, Free, AllTyped, IndexTyped, Walking, OnThePath
<1> QED BY <1>1, <1>8, <1>9, <1>10, ClientKeepsOthers DEF Look, AllTyped, SharedTyped, shared

\* A submission starts a scan under its own frame.
LEMMA SubmitTyped == ASSUME Typed, Submit PROVE Typed'
<1>1. AllTyped /\ Nesting /\ WalkPlaced
    BY DEF Typed
<1> DEFINE f == Frame("submit", None, FALSE)
           rest == <<f>> \o stack
<1>2. f \in Frames /\ f.kind = "submit" /\ ~f.counted
    BY NewFrames DEF Kinds
<1>3. Advance(rest) /\ sent' = sent /\ sent + Cardinality(Calls(stack)) < MaxRequests
    BY DEF Submit, Calls, book
<1> HIDE DEF f
<1>4. rest \in Seq(Frames) /\ FramesOf(rest) = {f} \cup FramesOf(stack)
    BY <1>1, <1>2, PushFrame DEF AllTyped, ClientTyped
<1>5. Cardinality(Calls(stack)) \in Nat /\ Cardinality(Calls(rest)) = Cardinality(Calls(stack))
                                            + (IF f.kind = "submit" THEN 1 ELSE 0)
    BY <1>1, <1>2, CallsOnTop DEF AllTyped, ClientTyped
<1> HIDE DEF rest
<1>6. FramesFit(rest)
    BY <1>1, <1>2, <1>4 DEF Nesting, FramesFit
<1>7. /\ stack' \in Seq(Frames) /\ Fits(at', stack') /\ FramesFit(stack') /\ IndexTyped'
      /\ at' \in {"idle", "callback", "submit", "scanned", "next", "collect"}
      /\ Cardinality(Calls(stack')) = Cardinality(Calls(rest))
    BY <1>1, <1>3, <1>4, <1>6, AdvanceFits DEF AllTyped
<1>8. sent + Cardinality(Calls(stack')) <= MaxRequests
    BY <1>1, <1>2, <1>3, <1>5, <1>7, BoundsAssumption DEF AllTyped, BookTyped
<1>9. Nesting' /\ ClientTyped'
    BY <1>1, <1>3, <1>7, <1>8 DEF Submit, Nesting, AllTyped, ClientTyped, Places, Walking, Inspecting
<1>10. WalkPlaced'
    BY <1>1, <1>7, OutsideStaysPlaced DEF Submit, Free, Walking, OnThePath
<1> QED BY <1>1, <1>7, <1>9, <1>10, ClientKeepsOthers DEF Submit, AllTyped, SharedTyped, shared

\* A call to submit that is over leaves room for its request.
LEMMA SubmitEnds ==
    ASSUME Typed, at = "submit"
    PROVE  /\ Tail(stack) \in Seq(Frames) /\ FramesFit(Tail(stack)) /\ sent + 1 \in Requests
           /\ sent + 1 + Cardinality(Calls(Tail(stack))) <= MaxRequests
           /\ sent + Cardinality(Calls(Tail(stack))) <= MaxRequests
<1>1. ClientTyped /\ Nesting /\ BookTyped
    BY DEF Typed, AllTyped
<1>2. Head(stack).kind = "submit"
    BY <1>1 DEF Nesting, Fits
<1>3. /\ Tail(stack) \in Seq(Frames) /\ FramesFit(Tail(stack)) /\ Cardinality(Calls(Tail(stack))) \in Nat
      /\ Cardinality(Calls(stack)) = Cardinality(Calls(Tail(stack))) + 1
    BY <1>1, <1>2, RestFits
<1>4. sent \in Nat /\ sent + Cardinality(Calls(stack)) <= MaxRequests /\ MaxRequests \in Nat
    BY <1>1, BoundsAssumption DEF Nesting, BookTyped
<1> HIDE DEF Calls
<1> QED BY <1>3, <1>4 DEF Requests

\* A refused call returns.
LEMMA RefuseTyped == ASSUME Typed, Refuse PROVE Typed'
<1>1. AllTyped /\ Nesting /\ WalkPlaced /\ at = "submit"
    BY DEF Typed, Refuse
<1>2. /\ stack' = Tail(stack) /\ at' \in {"idle", "callback", "submit", "scanned"}
      /\ Fits(at', stack') /\ FramesFit(stack')
    BY <1>1, SubmitEnds, ReturnFits DEF Refuse
<1>3. Nesting' /\ ClientTyped'
    BY <1>1, <1>2, SubmitEnds DEF Refuse, Nesting, AllTyped, ClientTyped, Places, Inspecting, book
<1>4. IndexTyped' /\ WalkPlaced'
    BY <1>1, <1>2, OutsideStaysPlaced DEF Refuse, AllTyped, IndexTyped, Walking, OnThePath
<1> QED BY <1>1, <1>3, <1>4, ClientKeepsOthers DEF Refuse, AllTyped, SharedTyped, shared

\* So does a callback.
LEMMA EndCallbackTyped == ASSUME Typed, EndCallback PROVE Typed'
<1>1. AllTyped /\ Nesting /\ WalkPlaced /\ at = "callback"
    BY DEF Typed, EndCallback
<1>2. Head(stack).kind = "callback"
    BY <1>1 DEF Nesting, Fits
<1>3. Tail(stack) \in Seq(Frames) /\ FramesFit(Tail(stack)) /\ Cardinality(Calls(stack)) = Cardinality(Calls(Tail(stack)))
    BY <1>1, <1>2, RestFits DEF AllTyped
<1>4. /\ stack' = Tail(stack) /\ at' \in {"idle", "callback", "submit", "scanned"}
      /\ Fits(at', stack') /\ FramesFit(stack')
    BY <1>3, ReturnFits DEF EndCallback
<1>5. Nesting' /\ ClientTyped'
    BY <1>1, <1>3, <1>4 DEF EndCallback, Nesting, AllTyped, ClientTyped, Places, Inspecting, book
<1>6. IndexTyped' /\ WalkPlaced'
    BY <1>1, <1>4, OutsideStaysPlaced DEF EndCallback, AllTyped, IndexTyped, Walking, OnThePath
<1> QED BY <1>1, <1>5, <1>6, ClientKeepsOthers DEF EndCallback, AllTyped, SharedTyped, shared

\* There is room for each call under way to send one request.
LEMMA SendTyped == ASSUME Typed, Send PROVE Typed'
<1>1. AllTyped /\ Nesting /\ WalkPlaced /\ at = "submit"
    BY DEF Typed, Send
<1>2. /\ stack' = Tail(stack) /\ at' \in {"idle", "callback", "submit", "scanned"}
      /\ Fits(at', stack') /\ FramesFit(stack')
    BY <1>1, SubmitEnds, ReturnFits DEF Send
<1>3. sent' = sent + 1 /\ sent + 1 \in Requests
    BY <1>1, SubmitEnds DEF Send
<1>4. Nesting' /\ ClientTyped'
    BY <1>1, <1>2, <1>3, SubmitEnds DEF Send, Nesting, AllTyped, ClientTyped, Places, Inspecting
<1>5. IndexTyped'
  <2> DEFINE c == sent + 1
             active == IF index.ordered /\ HasId(c) THEN index.active \cup {c} ELSE index.active
  <2>1. IndexIs(index', index.live \cup {c}, index.unresolved \cup {c}, index.arming, index.fallback,
                index.publishing, index.checked, index.changed, active, index.ordered)
      BY <1>1, SentIs DEF Send, AllTyped
  <2>2. active \subseteq Requests /\ index.live \cup {c} \subseteq Requests /\ index.unresolved \cup {c} \subseteq Requests
      BY <1>1, <1>3, IndexIsItsFields DEF AllTyped
  <2> HIDE DEF active, c
  <2> QED BY <1>1, <2>1, <2>2, IndexIsItsFields, FieldsAreTyped DEF AllTyped
<1>6. WalkPlaced' /\ WalkTyped'
    BY <1>1, <1>2, OutsideStaysPlaced DEF Send, AllTyped, WalkTyped, Walking, OnThePath
<1>7. SharedTyped' /\ MarksTyped'
    BY <1>1 DEF Send, AllTyped, SharedTyped, MarksTyped, shared
<1>8. WorkerTyped' /\ BookTyped'
    BY <1>1, <1>3, WalkFields DEF Send, AllTyped, WorkerTyped, BookTyped, HasId, Id
<1> QED BY <1>4, <1>5, <1>6, <1>7, <1>8 DEF Typed, AllTyped

\* A failed transfer spends an identity, and returns or scans.
LEMMA FailTransferTyped == ASSUME Typed, FailTransfer PROVE Typed'
<1>1. AllTyped /\ Nesting /\ WalkPlaced /\ at = "submit"
    BY DEF Typed, FailTransfer
<1>2. sent' = sent + 1 /\ sent + 1 \in Requests
    BY <1>1, SubmitEnds DEF FailTransfer
<1>3. /\ stack' \in Seq(Frames) /\ Fits(at', stack') /\ FramesFit(stack')
      /\ Cardinality(Calls(stack')) = Cardinality(Calls(Tail(stack)))
      /\ at' \in {"idle", "callback", "submit", "scanned", "next"} /\ IndexTyped'
  <2>1. CASE index.live = {}
    <3>1. Return(Tail(stack)) /\ index' = index
        BY <2>1 DEF FailTransfer
    <3>2. /\ stack' = Tail(stack) /\ at' \in {"idle", "callback", "submit", "scanned"}
          /\ Fits(at', stack') /\ FramesFit(stack')
        BY <1>1, <3>1, SubmitEnds, ReturnFits
    <3> QED BY <1>1, <3>1, <3>2, SubmitEnds DEF IndexTyped, AllTyped
  <2>2. CASE index.live # {}
    <3> DEFINE f == Frame("terminal", None, FALSE)
    <3>1. stack' = <<f>> \o Tail(stack) /\ at' = "next" /\ index' = ActivateAll
        BY <2>2 DEF FailTransfer
    <3>2. f \in Frames /\ f.kind = "terminal"
        BY NewFrames DEF Kinds
    <3> HIDE DEF f
    <3> QED BY <1>1, <3>1, <3>2, SubmitEnds, ScanFits, ActivationIsTyped DEF Scans, AllTyped
  <2> QED BY <2>1, <2>2
<1>4. Nesting' /\ ClientTyped'
    BY <1>1, <1>2, <1>3, SubmitEnds DEF FailTransfer, Nesting, AllTyped, ClientTyped, Places, Inspecting
<1>5. WalkPlaced' /\ WalkTyped'
    BY <1>1, <1>3, OutsideStaysPlaced DEF FailTransfer, AllTyped, WalkTyped, Walking, OnThePath
<1>6. SharedTyped' /\ MarksTyped' /\ WorkerTyped'
    BY <1>1 DEF FailTransfer, AllTyped, SharedTyped, MarksTyped, WorkerTyped, worker
<1>7. BookTyped'
    BY <1>1, <1>2, WalkFields DEF FailTransfer, AllTyped, BookTyped, HasId, Id
<1> QED BY <1>3, <1>4, <1>5, <1>6, <1>7 DEF Typed, AllTyped

\* Initially the client is idle and knows of nothing.
LEMMA InitTyped == ASSUME Init PROVE Typed
<1>1. 0 \in 0..MaxRequests
    BY BoundsAssumption
<1>2. SharedTyped /\ MarksTyped /\ WorkerTyped
  <2>1. SharedTyped
      BY DEF Init, SharedTyped
  <2>2. MarksTyped
      BY DEF Init, MarksTyped
  <2>3. WorkerTyped
      BY DEF Init, WorkerTyped
  <2> QED BY <2>1, <2>2, <2>3
<1>3. BookTyped
    BY <1>1 DEF Init, BookTyped, None
<1>4. IndexTyped
    BY DEF Init, IndexTyped, Sets
<1>5. ClientTyped /\ WalkTyped /\ WalkPlaced
    BY <1>1 DEF Init, ClientTyped, Places, Inspecting, WalkTyped, WalkPlaced, NoWalk, None, Walking, OnThePath
<1>6. Nesting
  <2>1. FramesOf(stack) = {} /\ Calls(stack) = {}
      BY DEF Init, FramesOf, Calls
  <2>2. Fits(at, stack)
      BY DEF Init, Fits, Walking, OnThePath, Inspecting
  <2>3. Cardinality(Calls(stack)) = 0
      BY <2>1, FS_EmptySet
  <2> QED BY <2>1, <2>2, <2>3, BoundsAssumption DEF Init, Nesting, FramesFit
<1> QED BY <1>2, <1>3, <1>4, <1>5, <1>6 DEF Typed, AllTyped

\* No step leaves the types, the nesting, or the places of the walk.
LEMMA NextTyped == ASSUME Typed, [Next]_vars PROVE Typed'
<1>1. CASE Call
    BY <1>1, ProgressTyped, PollTyped, SubmitTyped, RefuseTyped, SendTyped, FailTransferTyped, EndCallbackTyped,
       LookTyped DEF Call
<1>2. CASE Walk
    BY <1>2, LoadRootTyped, LoadLeafTyped, ClaimTyped, NotifyTyped, RemarkTyped, ClearBranchTyped, RecheckTyped,
       RestoreTyped, CollectAgainTyped DEF Walk
<1>3. CASE Scan
    BY <1>3, VisitTyped, TurnTerminalTyped, EndScanTyped, ScannedTyped DEF Scan
<1>4. CASE Inspection
    BY <1>4, LoadStatusTyped, CheckActiveTyped, EnrollTyped, KeepInspectingTyped, CheckDrainTyped DEF Inspection
<1>5. CASE Worker
    BY <1>5, AccessTyped, TakesUpTyped DEF Worker
<1>6. CASE Retire \/ Account
    BY <1>6, ConnectionEndsTyped
<1>7. CASE UNCHANGED vars
  <2>1. AllTyped /\ Nesting /\ WalkPlaced
      BY DEF Typed
  <2>2. SharedTyped' /\ MarksTyped' /\ WorkerTyped'
      BY <1>7, <2>1 DEF vars, shared, worker, AllTyped, SharedTyped, MarksTyped, WorkerTyped
  <2> QED BY <1>7, <2>2, WorkerKeepsOthers DEF vars, book
<1> QED BY <1>1, <1>2, <1>3, <1>4, <1>5, <1>6, <1>7 DEF Next

\* What keeping a request makes of the index.
LEMMA KeepFields ==
    ASSUME IndexTyped, KeepInspecting
    PROVE  \E fallback, active, ordered :
             /\ IndexIs(index', index.live, index.unresolved \ {req}, index.arming, fallback, index.publishing,
                        index.checked, index.changed, active, ordered)
             /\ \/ IsDrained(req) /\ fallback = index.fallback /\ active = index.active /\ ordered = index.ordered
                \/ /\ ~IsDrained(req) /\ fallback = index.fallback \cup {req}
                   /\ \/ /\ ordered = index.ordered
                         /\ active = IF ordered /\ HasId(req) THEN index.active \cup {req} ELSE index.active
                      \/ /\ ordered = TRUE /\ HasId(req)
                         /\ active = (IF index.ordered THEN index.active ELSE WithIds(index.live)) \cup {req}
<1>1. CASE IsDrained(req) /\ index' = Resolved
    BY <1>1, ResolvedIs
<1>2. CASE ~IsDrained(req) /\ index' = [SetActive(Resolved, req) EXCEPT !.fallback = @ \cup {req}]
  <2> DEFINE active == IF index.ordered /\ HasId(req) THEN index.active \cup {req} ELSE index.active
  <2>1. IndexIs(index', index.live, index.unresolved \ {req}, index.arming, index.fallback \cup {req},
                index.publishing, index.checked, index.changed, active, index.ordered)
      BY <1>2, ResolvedIs, KeptIs
  <2> QED BY <1>2, <2>1
<1>3. CASE ~IsDrained(req) /\ HasId(req) /\ index' = [SetActive(WithOrder(Resolved), req) EXCEPT !.fallback = @ \cup {req}]
  <2> DEFINE base == IF index.ordered THEN index.active ELSE WithIds(index.live)
             active == IF TRUE /\ HasId(req) THEN base \cup {req} ELSE base
  <2>1. IndexIs(WithOrder(Resolved), index.live, index.unresolved \ {req}, index.arming, index.fallback,
                index.publishing, index.checked, index.changed, base, TRUE)
      BY ResolvedIs
  <2> HIDE DEF base
  <2>2. IndexIs(index', index.live, index.unresolved \ {req}, index.arming, index.fallback \cup {req},
                index.publishing, index.checked, index.changed, active, TRUE)
      BY <1>3, <2>1, KeptIs
  <2>3. active = base \cup {req}
      BY <1>3
  <2> HIDE DEF active
  <2> QED BY <1>3, <2>2, <2>3 DEF base
<1> QED BY <1>1, <1>2, <1>3 DEF KeepInspecting

\* Keeping a request leaves the live ones as they are.
LEMMA KeepLeavesLive == ASSUME IndexTyped, KeepInspecting PROVE index'.live = index.live
BY KeepFields DEF IndexIs

-----------------------------------------------------------------------------
(* What each kind of step leaves alone.                                    *)

\* A step of the walk changes its locals, the marks, or (a notice) the index.
LEMMA WalkLeaves ==
    ASSUME Walk
    PROVE  /\ at \in Walking /\ at' \in Walking \cup {"next"}
           /\ terminal' = terminal /\ status' = status /\ drained' = drained /\ acknowledged' = acknowledged
           /\ publishing' = publishing /\ phase' = phase /\ watched' = watched /\ job' = job
           /\ subscriptions' = subscriptions /\ hint' = hint /\ spent' = spent /\ sent' = sent /\ outcome' = outcome
           /\ directory' = directory /\ path' = path /\ stack' = stack /\ req' = req /\ seen' = seen
           /\ index' = index \/ Notify
BY DEF Walk, LoadRoot, LoadLeaf, Claim, Notify, Remark, ClearBranch, Recheck, Restore, CollectAgain, Continue,
       NextBranch, Walking, OnThePath, shared, worker, book

\* A step of a scan changes the control of the client, or the index.
LEMMA ScanLeaves ==
    ASSUME Scan
    PROVE  /\ at \in {"next", "scanned"}
           /\ terminal' = terminal /\ status' = status /\ drained' = drained /\ acknowledged' = acknowledged
           /\ publishing' = publishing /\ phase' = phase /\ watched' = watched /\ job' = job
           /\ subscriptions' = subscriptions /\ hint' = hint /\ spent' = spent /\ sent' = sent /\ outcome' = outcome
           /\ directory' = directory /\ path' = path /\ seen' = seen /\ walk' = walk /\ marks' = marks
           /\ Visit \/ (req' = req /\ at' \in {"idle", "callback", "submit", "scanned", "next", "collect"})
BY DEF Scan, Visit, TurnTerminal, EndScan, Scanned, Return, shared, worker, book

\* A step of an inspection concerns the request under inspection.
LEMMA InspectionLeaves ==
    ASSUME Inspection
    PROVE  /\ at \in Inspecting /\ at' \in Inspecting \cup {"scanned", "callback"}
           /\ terminal' = terminal /\ status' = status /\ drained' = drained /\ acknowledged' = acknowledged
           /\ publishing' = publishing /\ phase' = phase /\ watched' = watched /\ job' = job
           /\ hint' = hint /\ spent' = spent /\ sent' = sent /\ walk' = walk
           /\ \/ LoadStatus \/ CheckActive
              \/ outcome' = outcome /\ seen' = seen
           /\ (marks' = marks /\ stack' = stack /\ req' = req) \/ CheckDrain
           /\ subscriptions' = subscriptions \/ Enroll
BY DEF Inspection, LoadStatus, CheckActive, Enroll, KeepInspecting, CheckDrain, Inspecting, shared, worker, book

\* A call of the program, or a return to it, leaves what the worker has stored.
LEMMA CallLeaves ==
    ASSUME Call
    PROVE  /\ at \in {"idle", "callback", "submit"}
           /\ status' = status /\ drained' = drained /\ acknowledged' = acknowledged /\ publishing' = publishing
           /\ watched' = watched /\ job' = job /\ subscriptions' = subscriptions /\ spent' = spent
           /\ outcome' = outcome /\ directory' = directory /\ path' = path /\ seen' = seen /\ walk' = walk
           /\ marks' = marks
           /\ terminal' = terminal \/ FailTransfer
           /\ (sent' = sent /\ phase' = phase) \/ Send \/ (phase' = phase /\ FailTransfer)
           /\ req' = req \/ \E c \in Requests : Look(c)
           /\ (req' = req /\ at' \in {"idle", "callback", "submit", "scanned", "next", "collect"})
                \/ \E c \in Requests : Look(c)
           /\ hint' = hint \/ Progress
BY DEF Call, Progress, Poll, Submit, Refuse, Send, FailTransfer, EndCallback, Look, Advance, Return, Free,
       shared, worker, book

\* The worker leaves the client alone.
LEMMA WorkerLeaves ==
    ASSUME Worker
    PROVE  /\ terminal' = terminal /\ spent' = spent /\ sent' = sent /\ outcome' = outcome
           /\ directory' = directory /\ path' = path /\ index' = index /\ stack' = stack /\ at' = at /\ req' = req
           /\ seen' = seen /\ walk' = walk
BY DEF Worker, Access, Succeed, Fail, Drain, WatchDrain, shared, book

\* So does the end of the connection, but for one control word and a message.
LEMMA EndLeaves ==
    ASSUME Retire \/ Account
    PROVE  /\ status' = status /\ drained' = drained /\ acknowledged' = acknowledged /\ publishing' = publishing
           /\ phase' = phase /\ watched' = watched /\ job' = job /\ subscriptions' = subscriptions
           /\ spent' = spent /\ sent' = sent /\ outcome' = outcome /\ marks' = marks
           /\ directory' = directory /\ path' = path /\ index' = index /\ stack' = stack /\ at' = at /\ req' = req
           /\ seen' = seen /\ walk' = walk
BY DEF Retire, Account, worker, book

-----------------------------------------------------------------------------
(* The request under inspection.                                           *)

LEMMA InspectedIsLiveStays == ASSUME IInv, Next PROVE InspectedIsLive'
<1>1. Typed /\ InspectedIsLive /\ IndexInOrder /\ IndexTyped /\ BookTyped
    BY DEF IInv, Typed, AllTyped
<1>2. CASE Walk
    BY <1>2, WalkLeaves DEF InspectedIsLive, Walking, OnThePath, Inspecting
<1>3. CASE Scan
  <2>1. CASE Visit
    <3> DEFINE c == Min(Candidates)
    <3>1. c \in Candidates
      <4>1. Candidates \in SUBSET Nat
          BY <1>1, IndexIsItsFields, BoundsAssumption DEF Candidates, Requests
      <4> QED BY <2>1, <4>1, MinIsLeast DEF Visit
    <3>2. c \in index.live
        BY <1>1, <3>1 DEF Candidates, IndexInOrder, Sets
    <3>3. index' = Inspect(c) /\ Refresh(c) /\ outcome' = outcome
        BY <2>1 DEF Visit, book
    <3> HIDE DEF c
    <3>4. index'.live = index.live
        BY <1>1, <3>3, InspectIs DEF IndexIs
    <3> QED BY <3>2, <3>3, <3>4 DEF InspectedIsLive, Refresh, Inspecting
  <2>2. CASE at' \in {"idle", "callback", "submit", "scanned", "next", "collect"}
      BY <2>2 DEF InspectedIsLive, Inspecting
  <2> QED BY <1>3, <2>1, <2>2, ScanLeaves
<1>4. CASE Inspection
  <2>1. CASE LoadStatus
    <3>1. req \in Requests /\ req \in index.live
        BY <2>1, <1>1, IndexIsItsFields DEF LoadStatus, InspectedIsLive, Inspecting
    <3>2. status[req] # "pending" => status[req] \in {"success", "failure"}
        BY <1>1, <3>1 DEF Typed, AllTyped, SharedTyped
    <3>3. status[req] = "success" => req \in drained
        BY <3>1 DEF IInv, WorkerInOrder
    <3> QED BY <2>1, <1>1, <3>1, <3>2, <3>3 DEF LoadStatus, InspectedIsLive, Inspecting, BookTyped, shared
  <2>2. CASE CheckActive
    <3>1. req \in Requests /\ req \in index.live
        BY <2>2, <1>1, IndexIsItsFields DEF CheckActive, InspectedIsLive, Inspecting
    <3> QED BY <2>2, <1>1, <3>1 DEF CheckActive, InspectedIsLive, Inspecting, BookTyped
  <2>3. CASE Enroll
    <3>1. index'.live = index.live /\ at = "failed" /\ at' = "drain" /\ req' = req
        BY <2>3, <1>1, EnrolledIs DEF Enroll, IndexIs
    <3> QED BY <1>1, <3>1 DEF InspectedIsLive, Inspecting
  <2>4. CASE KeepInspecting
    <3>1. index'.live = index.live
        BY <2>4, <1>1, KeepLeavesLive
    <3> QED BY <2>4, <1>1, <3>1 DEF KeepInspecting, InspectedIsLive, Inspecting
  <2>5. CASE CheckDrain
      BY <2>5 DEF CheckDrain, InspectedIsLive, Inspecting
  <2> QED BY <1>4, <2>1, <2>2, <2>3, <2>4, <2>5 DEF Inspection
<1>5. CASE Call
  <2>1. ASSUME NEW c \in Requests, Look(c) PROVE InspectedIsLive'
      BY <2>1 DEF Look, Refresh, InspectedIsLive, Inspecting, book
  <2>2. CASE at' \in {"idle", "callback", "submit", "scanned", "next", "collect"}
      BY <2>2 DEF InspectedIsLive, Inspecting
  <2> QED BY <1>5, <2>1, <2>2, CallLeaves
<1>6. CASE Worker
  <2>1. drained \subseteq drained'
      BY <1>6 DEF Worker, Access, Succeed, Fail, Drain, WatchDrain, shared
  <2> QED BY <1>1, <1>6, <2>1, WorkerLeaves DEF InspectedIsLive
<1>7. CASE Retire \/ Account
    BY <1>1, <1>7, EndLeaves DEF InspectedIsLive
<1> QED BY <1>2, <1>3, <1>4, <1>5, <1>6, <1>7 DEF Next

-----------------------------------------------------------------------------
(* The index.                                                              *)

\* The order of the index, field by field.
LEMMA OrderOfFields ==
    ASSUME IndexInOrder
    PROVE  /\ index.unresolved \subseteq index.live /\ index.arming \subseteq index.live
           /\ index.fallback \subseteq index.live /\ index.publishing \subseteq index.live
           /\ index.changed \subseteq index.live /\ index.active \subseteq index.live
           /\ \A c \in index.active : HasId(c)
           /\ directory.entries # {} => index.ordered
           /\ CountedIn(stack) => index.ordered
           /\ index.checked # {} => CountedIn(stack)
           /\ index.ordered => \A c \in index.unresolved \cup index.arming \cup index.fallback \cup index.publishing
                                        \cup index.changed : HasId(c) => c \in index.active
           /\ index.live \subseteq 1..sent
BY DEF IndexInOrder, Sets, WithIds, Eligible

\* A new index is in order when its fields are.
LEMMA FieldsInOrder ==
    ASSUME NEW live, NEW unresolved, NEW arming, NEW fallback, NEW underway, NEW checked, NEW changed, NEW active,
           NEW ordered,
           IndexIs(index', live, unresolved, arming, fallback, underway, checked, changed, active, ordered),
           unresolved \subseteq live, arming \subseteq live, fallback \subseteq live, underway \subseteq live,
           changed \subseteq live, active \subseteq live, live \subseteq 1..sent', spent' = spent,
           \A c \in active : HasId(c),
           directory.entries' # {} => ordered, CountedIn(stack') => ordered, checked # {} => CountedIn(stack'),
           ordered => \A c \in unresolved \cup arming \cup fallback \cup underway \cup changed :
                                  HasId(c) => c \in active
    PROVE  IndexInOrder'
<1>1. \A c : HasId(c)' <=> HasId(c)
    BY DEF HasId, Id
<1>2. \A s \in Sets \ {"checked"} : index'[s] \subseteq index'.live
    BY DEF IndexIs, Sets
<1>3. index'.active \subseteq WithIds(index.live)'
    BY <1>1 DEF IndexIs, WithIds
<1>4. index'.ordered => WithIds(Eligible)' \subseteq index'.active
    BY <1>1 DEF IndexIs, WithIds, Eligible
<1> QED BY <1>2, <1>3, <1>4 DEF IndexInOrder, IndexIs

\* Activating every live request keeps the order.
LEMMA ActivationInOrder ==
    ASSUME IndexTyped, IndexInOrder, index' = ActivateAll, spent' = spent, directory' = directory,
           CountedIn(stack') <=> CountedIn(stack), index.live \subseteq 1..sent'
    PROVE  IndexInOrder'
<1> DEFINE active == IF index.ordered THEN WithIds(index.live) ELSE {}
<1>1. IndexIs(index', index.live, index.unresolved, index.arming, index.fallback, index.publishing,
              index.checked, index.changed, active, index.ordered)
    BY ActivateAllIs
<1>2. active \subseteq index.live /\ (\A c \in active : HasId(c))
      /\ (index.ordered => \A c \in index.live : HasId(c) => c \in active)
    BY DEF WithIds
<1> HIDE DEF active
<1> QED BY <1>1, <1>2, OrderOfFields, FieldsInOrder

\* A step that changes neither index nor entries keeps the order.
LEMMA SameIndexInOrder ==
    ASSUME IndexTyped, IndexInOrder, index' = index, spent' = spent, directory' = directory,
           CountedIn(stack) => CountedIn(stack'), CountedIn(stack') => index.ordered, index.live \subseteq 1..sent'
    PROVE  IndexInOrder'
<1>1. IndexIs(index', index.live, index.unresolved, index.arming, index.fallback, index.publishing,
              index.checked, index.changed, index.active, index.ordered)
    BY IndexIsItsFields
<1> QED BY <1>1, OrderOfFields, FieldsInOrder

\* Checkpoints under way, with one more call and with one less.
LEMMA CountedOnTop ==
    ASSUME NEW f \in Frames, NEW s \in Seq(Frames)
    PROVE  CountedIn(<<f>> \o s) <=> f.counted \/ CountedIn(s)
BY PushFrame DEF CountedIn

\* The innermost frame is counted, or one below it is.
LEMMA CountedBelow ==
    ASSUME ClientTyped, Nesting, at # "idle"
    PROVE  CountedIn(stack) <=> Head(stack).counted \/ CountedIn(Tail(stack))
BY RestFits DEF CountedIn

\* A checkpoint that starts.
LEMMA AdvanceInOrder ==
    ASSUME IndexTyped, IndexInOrder, NEW rest \in Seq(Frames), CountedIn(rest) <=> CountedIn(stack),
           Advance(rest), spent' = spent, directory' = directory, sent' = sent
    PROVE  IndexInOrder'
<1> DEFINE t == Frame("terminal", None, FALSE)
           s == Frame("all", None, FALSE)
           o == Frame("ordered", None, TRUE)
<1>1. t \in Frames /\ ~t.counted /\ s \in Frames /\ ~s.counted /\ o \in Frames /\ o.counted
    BY NewFrames DEF Kinds
<1>2. /\ CountedIn(<<t>> \o rest) <=> CountedIn(rest)
      /\ CountedIn(<<s>> \o rest) <=> CountedIn(rest)
    BY <1>1, CountedOnTop
<1>3. CountedIn(<<o>> \o rest)
    BY <1>1, CountedOnTop
<1>4. \/ stack' = rest /\ index' = index
      \/ stack' = <<t>> \o rest /\ index' = ActivateAll
      \/ stack' = <<s>> \o rest /\ index' = index
      \/ stack' = <<o>> \o rest /\ index' = index /\ index.ordered
    BY DEF Advance, Return
<1> HIDE DEF t, s, o
<1>5. index.live \subseteq 1..sent'
    BY OrderOfFields
<1> QED BY <1>2, <1>3, <1>4, <1>5, OrderOfFields, ActivationInOrder, SameIndexInOrder

\* No step leaves a deleted request in the index, or the directory without an order.
LEMMA IndexInOrderStays == ASSUME IInv, Next PROVE IndexInOrder'
<1>1. /\ Typed /\ AllTyped /\ Nesting /\ InspectedIsLive /\ IndexInOrder /\ IndexTyped /\ BookTyped /\ ClientTyped
      /\ DirectoryInOrder /\ ClaimInOrder
    BY DEF IInv, Typed, AllTyped
<1>2. index.live \subseteq 1..sent /\ (CountedIn(stack) => index.ordered)
    BY <1>1, OrderOfFields
<1>3. CASE Walk
  <2>1. CASE index' = index
      BY <1>1, <1>2, <1>3, <2>1, WalkLeaves, SameIndexInOrder
  <2>2. CASE Notify
    <3> DEFINE c == walk.found
               underway == IF c \in publishing THEN index.publishing \cup {c} ELSE index.publishing \ {c}
               active == IF index.ordered /\ HasId(c) THEN index.active \cup {c} ELSE index.active
    <3>1. IndexIs(index', index.live, index.unresolved, index.arming, index.fallback, underway,
                  index.checked, index.changed \cup {c}, active, index.ordered)
        BY <1>1, <2>2, NoticeIs DEF Notify
    <3>2. c \in index.live
        BY <1>1, <2>2 DEF Notify, ClaimInOrder, DirectoryInOrder
    <3>3. underway \subseteq index.publishing \cup {c} /\ index.active \subseteq active /\ active \subseteq index.active \cup {c}
          /\ (c \in active => c \in index.active \/ HasId(c)) /\ (index.ordered /\ HasId(c) => c \in active)
        OBVIOUS
    <3> HIDE DEF underway, active, c
    <3>4. /\ underway \subseteq index.live /\ index.changed \cup {c} \subseteq index.live /\ active \subseteq index.live
          /\ \A e \in active : HasId(e)
        BY <1>1, <3>2, <3>3, OrderOfFields
    <3>5. index.ordered => \A e \in index.unresolved \cup index.arming \cup index.fallback \cup underway
                                     \cup (index.changed \cup {c}) : HasId(e) => e \in active
        BY <1>1, <3>3, OrderOfFields
    <3> QED BY <1>1, <1>3, <3>1, <3>4, <3>5, WalkLeaves, OrderOfFields, FieldsInOrder
  <2> QED BY <1>3, <2>1, <2>2, WalkLeaves
<1>4. CASE Scan
  <2>1. CASE Visit
    <3> DEFINE c == Min(Candidates)
               f == [Head(stack) EXCEPT !.cursor = c]
    <3>1. c \in Candidates
      <4>1. Candidates \in SUBSET Nat
          BY <1>1, IndexIsItsFields, BoundsAssumption DEF Candidates, Requests
      <4> QED BY <2>1, <4>1, MinIsLeast DEF Visit
    <3>2. c \in index.live /\ c \in Requests
        BY <1>1, <3>1, OrderOfFields, IndexIsItsFields DEF Candidates
    <3>3. index' = Inspect(c) /\ stack' = <<f>> \o Tail(stack)
        BY <2>1 DEF Visit
    <3> HIDE DEF c
    <3>4. Head(stack) \in Frames /\ Tail(stack) \in Seq(Frames) /\ (Head(stack).kind = "ordered" => Head(stack).counted)
        BY <1>1, <2>1, RestFits DEF Visit
    <3>5. f \in Frames /\ f.counted = Head(stack).counted
        BY <3>2, <3>4, WalkFields, <1>1 DEF Frames, AllTyped
    <3> HIDE DEF f
    <3>6. CountedIn(stack') <=> CountedIn(stack)
        BY <1>1, <2>1, <3>3, <3>4, <3>5, CountedOnTop, CountedBelow DEF Visit
    <3>7. PICK arming, underway, checked, changed :
             /\ IndexIs(Inspect(c), index.live, index.unresolved, arming, index.fallback, underway,
                        checked, changed, index.active, index.ordered)
             /\ arming \in {index.arming, index.arming \ {c}}
             /\ underway \in {index.publishing, index.publishing \ {c}}
             /\ changed \in {index.changed, index.changed \ {c}}
             /\ Head(stack).kind # "ordered" => checked = index.checked
        BY <1>1, InspectIs
    <3>8. arming \subseteq index.arming /\ underway \subseteq index.publishing /\ changed \subseteq index.changed
        BY <3>7
    <3>9. checked # {} => CountedIn(stack')
      <4>1. Head(stack).kind = "ordered" => CountedIn(stack)
          BY <1>1, <2>1, <3>4, CountedBelow DEF Visit
      <4> QED BY <1>1, <3>6, <3>7, <4>1, OrderOfFields
    <3>10. index.ordered => \A e \in index.unresolved \cup arming \cup index.fallback \cup underway \cup changed :
                                     HasId(e) => e \in index.active
        BY <1>1, <3>8, OrderOfFields
    <3>11. arming \subseteq index.live /\ underway \subseteq index.live /\ changed \subseteq index.live
        BY <1>1, <3>8, OrderOfFields
    <3> QED BY <1>1, <1>2, <1>4, <3>3, <3>6, <3>7, <3>9, <3>10, <3>11, ScanLeaves, OrderOfFields, FieldsInOrder
  <2>2. CASE TurnTerminal
    <3> DEFINE f == Scanning("terminal")
    <3>1. Head(stack) \in Frames /\ Tail(stack) \in Seq(Frames)
        BY <1>1, <2>2, RestFits DEF TurnTerminal
    <3>2. f \in Frames /\ f.counted = Head(stack).counted /\ stack' = <<f>> \o Tail(stack) /\ index' = ActivateAll
        BY <2>2, <3>1 DEF TurnTerminal, Frames, Scanning, Kinds
    <3> HIDE DEF f
    <3>3. CountedIn(stack') <=> CountedIn(stack)
      <4>1. at # "idle"
          BY <2>2 DEF TurnTerminal
      <4> QED BY <1>1, <3>1, <3>2, <4>1, CountedOnTop, CountedBelow
    <3> QED BY <1>1, <1>2, <1>4, <3>2, <3>3, ScanLeaves, ActivationInOrder
  <2>3. CASE EndScan
    <3>1. stack' = Tail(stack) /\ at = "next"
        BY <2>3 DEF EndScan, Return
    <3>2. CountedIn(stack) <=> Head(stack).counted \/ CountedIn(Tail(stack))
        BY <1>1, <3>1, CountedBelow
    <3>3. CASE Head(stack).counted /\ \A i \in DOMAIN Tail(stack) : ~Tail(stack)[i].counted
      <4> DEFINE active == IF KeepsOrder THEN (index.active \ CheckedLive) \cup (CheckedLive \cap Eligible) ELSE {}
      <4>1. ~CountedIn(Tail(stack))
          BY <3>3 DEF CountedIn, FramesOf
      <4>2. index' = FinishCheckpoint
          BY <2>3, <3>3 DEF EndScan
      <4>3. IndexIs(index', index.live, index.unresolved, index.arming, index.fallback, index.publishing,
                    {}, index.changed, active, KeepsOrder)
          BY <1>1, <4>2, FinishCheckpointIs
      <4>4. active \subseteq index.live /\ (\A e \in active : HasId(e))
          BY <1>1, OrderOfFields DEF CheckedLive, WithIds
      <4>5. index.ordered
          BY <1>2, <3>2, <3>3
      <4>6. KeepsOrder => \A e \in index.unresolved \cup index.arming \cup index.fallback \cup index.publishing
                                        \cup index.changed : HasId(e) => e \in active
          BY <1>1, <4>5, OrderOfFields DEF Eligible
      <4> HIDE DEF active
      <4>7. (directory.entries' # {} => KeepsOrder) /\ ~CountedIn(stack')
          BY <1>4, <3>1, <4>1, ScanLeaves DEF KeepsOrder
      <4> QED BY <1>1, <1>2, <1>4, <4>3, <4>4, <4>6, <4>7, ScanLeaves, OrderOfFields, FieldsInOrder
    <3>4. CASE ~(Head(stack).counted /\ \A i \in DOMAIN Tail(stack) : ~Tail(stack)[i].counted)
      <4>1. index' = index
          BY <2>3, <3>4 DEF EndScan
      <4>2. CountedIn(stack') <=> CountedIn(stack)
          BY <3>1, <3>2, <3>4 DEF CountedIn, FramesOf
      <4> QED BY <1>1, <1>2, <1>4, <4>1, <4>2, ScanLeaves, SameIndexInOrder
    <3> QED BY <3>3, <3>4
  <2>4. CASE Scanned
    <3>1. index' = index /\ at = "scanned"
        BY <2>4 DEF Scanned
    <3>2. Head(stack) \in Frames /\ Tail(stack) \in Seq(Frames) /\ (Head(stack).kind = "look" => ~Head(stack).counted)
        BY <1>1, <3>1, RestFits DEF Nesting, FramesFit, Scans
    <3>3. CountedIn(stack') <=> CountedIn(stack)
      <4>1. CASE stack' = stack
          BY <4>1
      <4>2. CASE Head(stack).kind = "look" /\ stack' = Tail(stack)
          BY <1>1, <3>1, <3>2, <4>2, CountedBelow
      <4>3. CASE stack' = <<Scanning("all")>> \o Tail(stack)
        <5>1. Scanning("all") \in Frames /\ Scanning("all").counted = Head(stack).counted
            BY <3>2 DEF Frames, Scanning, Kinds
        <5> QED BY <1>1, <3>1, <3>2, <4>3, <5>1, CountedOnTop, CountedBelow
      <4> QED BY <2>4, <4>1, <4>2, <4>3 DEF Scanned, Return
    <3> QED BY <1>1, <1>2, <1>4, <3>1, <3>3, ScanLeaves, SameIndexInOrder
  <2> QED BY <1>4, <2>1, <2>2, <2>3, <2>4 DEF Scan
<1>5. CASE Inspection
  <2>1. CASE LoadStatus \/ CheckActive
    <3>1. index' = index /\ stack' = stack /\ directory' = directory
        BY <2>1 DEF LoadStatus, CheckActive
    <3> QED BY <1>1, <1>2, <1>5, <3>1, InspectionLeaves, SameIndexInOrder
  <2>2. CASE Enroll
    <3> DEFINE active == (IF index.ordered THEN index.active ELSE WithIds(index.live))
                             \cup (IF HasId(req) THEN {req} ELSE {})
    <3>1. IndexIs(index', index.live, index.unresolved \ {req}, index.arming \cup {req}, index.fallback,
                  index.publishing, index.checked, index.changed, active, TRUE)
        BY <1>1, <2>2, EnrolledIs DEF Enroll
    <3>2. req \in index.live /\ HasId(req) /\ stack' = stack
        BY <1>1, <2>2 DEF Enroll, InspectedIsLive, Inspecting
    <3>3. active \subseteq index.live /\ \A e \in active : HasId(e)
        BY <1>1, <3>2, OrderOfFields DEF WithIds
    <3>4. \A e \in (index.unresolved \ {req}) \cup (index.arming \cup {req}) \cup index.fallback \cup index.publishing
                      \cup index.changed : HasId(e) => e \in active
        BY <1>1, <3>2, OrderOfFields DEF WithIds
    <3> HIDE DEF active
    <3>5. /\ index.unresolved \ {req} \subseteq index.live /\ index.arming \cup {req} \subseteq index.live
          /\ index.checked # {} => CountedIn(stack')
        BY <1>1, <3>2, OrderOfFields
    <3>6. sent' = sent /\ spent' = spent
        BY <1>5, InspectionLeaves
    <3> DEFINE ordered == index'.ordered
    <3>7. /\ IndexIs(index', index.live, index.unresolved \ {req}, index.arming \cup {req}, index.fallback,
                     index.publishing, index.checked, index.changed, active, ordered)
          /\ ordered = TRUE
        BY <3>1 DEF IndexIs
    <3> DEFINE unresolved == index.unresolved \ {req}
               arming == index.arming \cup {req}
    <3>8. /\ directory.entries' # {} => ordered
          /\ CountedIn(stack') => ordered
          /\ ordered => \A e \in unresolved \cup arming \cup index.fallback \cup index.publishing
                              \cup index.changed : HasId(e) => e \in active
          /\ index.fallback \subseteq index.live /\ index.publishing \subseteq index.live
          /\ index.changed \subseteq index.live /\ index.live \subseteq 1..sent'
        BY <1>1, <1>2, <3>4, <3>6, <3>7, OrderOfFields
    <3>9. /\ IndexIs(index', index.live, unresolved, arming, index.fallback, index.publishing,
                     index.checked, index.changed, active, ordered)
          /\ unresolved \subseteq index.live /\ arming \subseteq index.live
        BY <3>5, <3>7
    <3> HIDE DEF ordered, unresolved, arming
    <3> QED BY <3>3, <3>5, <3>6, <3>8, <3>9, FieldsInOrder
  <2>3. CASE KeepInspecting
    <3>1. PICK fallback, active, ordered :
             /\ IndexIs(index', index.live, index.unresolved \ {req}, index.arming, fallback, index.publishing,
                        index.checked, index.changed, active, ordered)
             /\ \/ IsDrained(req) /\ fallback = index.fallback /\ active = index.active /\ ordered = index.ordered
                \/ /\ ~IsDrained(req) /\ fallback = index.fallback \cup {req}
                   /\ \/ /\ ordered = index.ordered
                         /\ active = IF ordered /\ HasId(req) THEN index.active \cup {req} ELSE index.active
                      \/ /\ ordered = TRUE /\ HasId(req)
                         /\ active = (IF index.ordered THEN index.active ELSE WithIds(index.live)) \cup {req}
        BY <1>1, <2>3, KeepFields
    <3>2. req \in index.live /\ stack' = stack /\ directory' = directory
        BY <1>1, <2>3 DEF KeepInspecting, InspectedIsLive, Inspecting, book
    <3>3. active \subseteq index.live /\ (\A e \in active : HasId(e)) /\ fallback \subseteq index.live
        BY <1>1, <3>1, <3>2, OrderOfFields DEF WithIds
    <3>4. ordered => \A e \in (index.unresolved \ {req}) \cup index.arming \cup fallback \cup index.publishing
                      \cup index.changed : HasId(e) => e \in active
        BY <1>1, <3>1, <3>2, OrderOfFields DEF WithIds
    <3>5. index.ordered => ordered
        BY <3>1
    <3> QED BY <1>1, <1>2, <1>5, <3>1, <3>2, <3>3, <3>4, <3>5, InspectionLeaves, OrderOfFields, FieldsInOrder
  <2>4. CASE CheckDrain /\ index' = index /\ directory' = directory /\ stack' = stack
      BY <1>1, <1>2, <1>5, <2>4, InspectionLeaves, SameIndexInOrder
  <2>5. CASE CheckDrain /\ index' = Forget(req) /\ DeleteEntry(req) /\ stack' = <<Frame("callback", None, FALSE)>> \o stack
    <3>1. IndexIs(index', index.live \ {req}, index.unresolved \ {req}, index.arming \ {req}, index.fallback \ {req},
                  index.publishing \ {req}, index.checked \ {req}, index.changed \ {req}, index.active \ {req},
                  index.ordered)
        BY <1>1, <2>5, ForgetIs
    <3>2. CountedIn(stack') <=> CountedIn(stack)
      <4>1. Frame("callback", None, FALSE) \in Frames /\ ~Frame("callback", None, FALSE).counted
          BY NewFrames DEF Kinds
      <4> QED BY <1>1, <2>5, <4>1, CountedOnTop DEF ClientTyped
    <3>3. directory.entries' \subseteq directory.entries
        BY <2>5 DEF DeleteEntry
    <3>4. sent' = sent /\ spent' = spent
        BY <1>5, InspectionLeaves
    <3>5. index.ordered => \A e \in (index.unresolved \ {req}) \cup (index.arming \ {req}) \cup (index.fallback \ {req})
                      \cup (index.publishing \ {req}) \cup (index.changed \ {req}) : HasId(e) => e \in index.active \ {req}
        BY <1>1, OrderOfFields
    <3>6. /\ index.unresolved \ {req} \subseteq index.live \ {req} /\ index.arming \ {req} \subseteq index.live \ {req}
          /\ index.fallback \ {req} \subseteq index.live \ {req} /\ index.publishing \ {req} \subseteq index.live \ {req}
          /\ index.changed \ {req} \subseteq index.live \ {req} /\ index.active \ {req} \subseteq index.live \ {req}
          /\ index.live \ {req} \subseteq 1..sent' /\ (\A e \in index.active \ {req} : HasId(e))
        BY <1>1, <1>2, <3>4, OrderOfFields
    <3>7. /\ directory.entries' # {} => index.ordered
          /\ CountedIn(stack') => index.ordered
          /\ index.checked \ {req} # {} => CountedIn(stack')
        BY <1>1, <3>2, <3>3, OrderOfFields
    <3> QED BY <3>1, <3>4, <3>5, <3>6, <3>7, FieldsInOrder
  <2> QED BY <1>5, <2>1, <2>2, <2>3, <2>4, <2>5 DEF Inspection, CheckDrain
<1>6. CASE Call
  <2>0. spent' = spent /\ directory' = directory
      BY <1>6, CallLeaves
  <2>1. CASE Progress \/ Poll
    <3>1. Advance(stack) /\ sent' = sent
        BY <2>1 DEF Progress, Poll, book
    <3> QED BY <1>1, <2>0, <3>1, AdvanceInOrder DEF ClientTyped
  <2>2. CASE Submit
    <3> DEFINE f == Frame("submit", None, FALSE)
    <3>1. Advance(<<f>> \o stack) /\ sent' = sent
        BY <2>2 DEF Submit, book
    <3>2. f \in Frames /\ ~f.counted
        BY NewFrames DEF Kinds
    <3> HIDE DEF f
    <3>3. <<f>> \o stack \in Seq(Frames) /\ (CountedIn(<<f>> \o stack) <=> CountedIn(stack))
        BY <1>1, <3>2, CountedOnTop, PushFrame DEF ClientTyped
    <3> QED BY <1>1, <2>0, <3>1, <3>3, AdvanceInOrder
  <2>3. ASSUME NEW c \in Requests, Look(c) PROVE IndexInOrder'
    <3>1. stack' = <<Frame("look", None, FALSE)>> \o stack /\ index' = index /\ sent' = sent
        BY <2>3 DEF Look, book
    <3>2. CountedIn(stack') <=> CountedIn(stack)
      <4>1. Frame("look", None, FALSE) \in Frames /\ ~Frame("look", None, FALSE).counted
          BY NewFrames DEF Kinds
      <4> QED BY <1>1, <3>1, <4>1, CountedOnTop DEF ClientTyped
    <3> QED BY <1>1, <1>2, <2>0, <3>1, <3>2, SameIndexInOrder
  <2>4. at \in {"callback", "submit"} => (CountedIn(Tail(stack)) <=> CountedIn(stack))
    <3>1. ASSUME at \in {"callback", "submit"} PROVE ~Head(stack).counted
      <4>1. Head(stack).kind = at /\ Head(stack) \in FramesOf(stack)
          BY <1>1, <3>1, RestFits DEF Nesting, Fits
      <4> QED BY <1>1, <3>1, <4>1 DEF Nesting, FramesFit, Scans
    <3> QED BY <1>1, <3>1, CountedBelow
  <2>5. CASE Refuse \/ EndCallback
    <3>1. stack' = Tail(stack) /\ index' = index /\ sent' = sent /\ at \in {"callback", "submit"}
        BY <2>5 DEF Refuse, EndCallback, Return, book
    <3> QED BY <1>1, <1>2, <2>0, <2>4, <3>1, SameIndexInOrder
  <2>6. CASE Send
    <3> DEFINE c == sent + 1
               active == IF index.ordered /\ HasId(c) THEN index.active \cup {c} ELSE index.active
    <3>1. IndexIs(index', index.live \cup {c}, index.unresolved \cup {c}, index.arming, index.fallback,
                  index.publishing, index.checked, index.changed, active, index.ordered)
        BY <1>1, <2>6, SentIs DEF Send
    <3>2. stack' = Tail(stack) /\ sent' = c /\ at = "submit"
        BY <2>6 DEF Send, Return
    <3>3. index.live \cup {c} \subseteq 1..c
        BY <1>1, <1>2 DEF BookTyped
    <3>4. index.active \subseteq active /\ active \subseteq index.active \cup {c}
          /\ (c \in active => c \in index.active \/ HasId(c)) /\ (index.ordered /\ HasId(c) => c \in active)
        OBVIOUS
    <3> HIDE DEF active, c
    <3>5. active \subseteq index.live \cup {c} /\ \A e \in active : HasId(e)
        BY <1>1, <3>4, OrderOfFields
    <3>6. index.ordered => \A e \in (index.unresolved \cup {c}) \cup index.arming \cup index.fallback
                                   \cup index.publishing \cup index.changed : HasId(e) => e \in active
        BY <1>1, <3>4, OrderOfFields
    <3>7. CountedIn(stack') <=> CountedIn(stack)
        BY <2>4, <3>2
    <3> QED BY <1>1, <2>0, <3>1, <3>2, <3>3, <3>5, <3>6, <3>7, OrderOfFields, FieldsInOrder
  <2>7. CASE FailTransfer
    <3>1. at = "submit" /\ sent' = sent + 1
        BY <2>7 DEF FailTransfer
    <3>2. index.live \subseteq 1..sent'
        BY <1>1, <1>2, <3>1 DEF BookTyped
    <3>3. CASE index.live = {}
      <4>1. stack' = Tail(stack) /\ index' = index
          BY <2>7, <3>3 DEF FailTransfer, Return
      <4> QED BY <1>1, <1>2, <2>0, <2>4, <3>1, <3>2, <4>1, SameIndexInOrder
    <3>4. CASE index.live # {}
      <4>1. stack' = <<Frame("terminal", None, FALSE)>> \o Tail(stack) /\ index' = ActivateAll
          BY <2>7, <3>4 DEF FailTransfer
      <4>2. Frame("terminal", None, FALSE) \in Frames /\ ~Frame("terminal", None, FALSE).counted
          BY NewFrames DEF Kinds
      <4>3. Tail(stack) \in Seq(Frames)
          BY <1>1, <3>1, RestFits
      <4>4. CountedIn(stack') <=> CountedIn(stack)
          BY <2>4, <3>1, <4>1, <4>2, <4>3, CountedOnTop
      <4> QED BY <1>1, <2>0, <3>2, <4>1, <4>4, ActivationInOrder
    <3> QED BY <3>3, <3>4
  <2> QED BY <1>6, <2>1, <2>2, <2>3, <2>5, <2>6, <2>7 DEF Call
<1>7. CASE Worker
    BY <1>1, <1>2, <1>7, WorkerLeaves, SameIndexInOrder
<1>8. CASE Retire \/ Account
    BY <1>1, <1>2, <1>8, EndLeaves, SameIndexInOrder
<1> QED BY <1>3, <1>4, <1>5, <1>6, <1>7, <1>8 DEF Next

-----------------------------------------------------------------------------
(* The job of the worker.                                                  *)

\* An access and what follows it.
LEMMA ThenIs ==
    ASSUME NEW op \in Operations, NEW c \in Requests, NEW q \in Seq(Operations \X Requests)
    PROVE  /\ Then(op, c, q) \in Seq(Operations \X Requests) /\ Then(op, c, q) # <<>>
           /\ Head(Then(op, c, q)) = <<op, c>> /\ Tail(Then(op, c, q)) = q
<1> DEFINE S == Operations \X Requests
           t == <<<<op, c>>>> \o q
<1>1. <<<<op, c>>>> \in Seq(S) /\ Len(<<<<op, c>>>>) = 1 /\ <<<<op, c>>>>[1] = <<op, c>>
    OBVIOUS
<1>2. /\ t \in Seq(S) /\ Len(t) = 1 + Len(q) /\ Len(q) \in Nat
      /\ t[1] = <<op, c>> /\ \A i \in 1..Len(q) : t[i + 1] = q[i]
    BY <1>1, ConcatProperties, LenProperties
<1> HIDE DEF t
<1>3. t # <<>> /\ Head(t) = <<op, c>>
    BY <1>2
<1>4. Tail(t) \in Seq(S) /\ Len(Tail(t)) = Len(q) /\ \A i \in 1..Len(q) : Tail(t)[i] = t[i + 1]
    BY <1>2, <1>3, HeadTailProperties
<1>5. Tail(t) = q
    BY <1>2, <1>4, SeqEqual
<1> QED BY <1>2, <1>3, <1>5 DEF t, Then

\* The parts that a publication ends with.
LEMMA EndsAreTyped ==
    ASSUME NEW c \in Requests
    PROVE  /\ <<>> \in Seq(Operations \X Requests)
           /\ Then("root", c, <<>>) \in Seq(Operations \X Requests)
           /\ PathLeft(c) \in Seq(Operations \X Requests) /\ EndLeft(c) \in Seq(Operations \X Requests)
           /\ Stores(c, EndLeft(c)) \subseteq Seq(Operations \X Requests)
           /\ Stores(c, <<>>) \subseteq Seq(Operations \X Requests)
           /\ Then("acknowledge", c, <<>>) \in Seq(Operations \X Requests)
           /\ Then("root", c, Then("acknowledge", c, <<>>)) \in Seq(Operations \X Requests)
<1> USE ThenIs DEF Operations
<1>1. <<>> \in Seq(Operations \X Requests)
    OBVIOUS
<1>2. Then("root", c, <<>>) \in Seq(Operations \X Requests) /\ Then("acknowledge", c, <<>>) \in Seq(Operations \X Requests)
    BY <1>1
<1>3. PathLeft(c) \in Seq(Operations \X Requests) /\ Then("root", c, Then("acknowledge", c, <<>>)) \in Seq(Operations \X Requests)
    BY <1>2 DEF PathLeft
<1>4. EndLeft(c) \in Seq(Operations \X Requests)
    BY <1>3 DEF EndLeft
<1>5. ASSUME NEW q \in Seq(Operations \X Requests) PROVE Stores(c, q) \subseteq Seq(Operations \X Requests)
  <2>1. Then("status", c, q) \in Seq(Operations \X Requests)
      BY <1>5
  <2>2. Then("drained", c, Then("status", c, q)) \in Seq(Operations \X Requests)
      BY <2>1
  <2>3. Then("drained", c, q) \in Seq(Operations \X Requests)
      BY <1>5
  <2> HIDE ThenIs DEF Operations
  <2> QED BY <2>1, <2>2, <2>3 DEF Stores, StoresThat, StoresOver
<1> QED BY <1>1, <1>2, <1>3, <1>4, <1>5

\* Whatever is under way of a request, its next access is about that request.
LEMMA HeadOfJob ==
    ASSUME NEW c \in Requests, Underway(c)
    PROVE  job # <<>> /\ Head(job)[2] = c
<1>1. ASSUME NEW op \in Operations, NEW q \in Seq(Operations \X Requests), job = Then(op, c, q)
      PROVE  job # <<>> /\ Head(job)[2] = c
    BY <1>1, ThenIs
<1>2. \E op \in Operations, q \in Seq(Operations \X Requests) : job = Then(op, c, q)
  <2>1. ASSUME NEW r \in Seq(Operations \X Requests), NEW p \in Stores(c, r)
        PROVE  \E op \in Operations, q \in Seq(Operations \X Requests) : p = Then(op, c, q)
    <3>1. Then("status", c, r) \in Seq(Operations \X Requests) /\ {"status", "drained"} \subseteq Operations
        BY ThenIs DEF Operations
    <3> QED BY <2>1, <3>1 DEF Stores, StoresThat, StoresOver
  <2>2. CASE job \in Stores(c, EndLeft(c)) \/ job \in Stores(c, <<>>)
      BY <2>1, <2>2, EndsAreTyped
  <2>3. ASSUME NEW q \in Stores(c, EndLeft(c)), job \in {Then("begin", c, Then("leaf", c, Then("root", c, q))),
                     Then("leaf", c, Then("root", c, q)), Then("root", c, q)}
        PROVE  \E op \in Operations, p \in Seq(Operations \X Requests) : job = Then(op, c, p)
    <3>1. {"begin", "leaf", "root"} \subseteq Operations /\ q \in Seq(Operations \X Requests)
        BY <2>3, EndsAreTyped DEF Operations
    <3>2. Then("root", c, q) \in Seq(Operations \X Requests)
        BY <3>1, ThenIs
    <3>3. Then("leaf", c, Then("root", c, q)) \in Seq(Operations \X Requests)
        BY <3>1, <3>2, ThenIs
    <3> QED BY <2>3, <3>1, <3>2, <3>3
  <2>4. CASE job \in {EndLeft(c), PathLeft(c), Then("root", c, <<>>)}
    <3>1. {"end", "leaf", "root"} \subseteq Operations
        BY DEF Operations
    <3> QED BY <2>4, <3>1, EndsAreTyped DEF EndLeft, PathLeft
  <2>5. CASE job \in {Then("leaf", c, Then("root", c, Then("acknowledge", c, <<>>))),
                      Then("root", c, Then("acknowledge", c, <<>>)), Then("acknowledge", c, <<>>)}
    <3>1. {"leaf", "root", "acknowledge"} \subseteq Operations
        BY DEF Operations
    <3> QED BY <2>5, <3>1, EndsAreTyped
  <2> QED BY <2>2, <2>3, <2>4, <2>5 DEF Underway, Stores
<1> QED BY <1>1, <1>2

\* Only an inspection resolves requests, and only a call adds one.
LEMMA OthersKeepFields ==
    ASSUME IndexTyped, Walk \/ Scan \/ (Call /\ ~Send) \/ Worker \/ Retire \/ Account
    PROVE  /\ index'.live = index.live /\ index'.unresolved = index.unresolved /\ index'.fallback = index.fallback
           /\ index'.arming = index.arming \/ Visit
           /\ index'.changed = index.changed \/ Visit \/ Notify
           /\ index'.publishing = index.publishing \/ Visit \/ Notify
<1>1. CASE index' = index
    BY <1>1
<1>2. CASE index' = ActivateAll
    BY <1>2, ActivateAllIs DEF IndexIs
<1>3. CASE Walk
  <2>1. CASE Notify
    <3> DEFINE c == walk.found
    <3>1. index' = SetActive([index EXCEPT !.changed = @ \cup {c},
                                          !.publishing = IF c \in publishing THEN @ \cup {c} ELSE @ \ {c}], c)
        BY <2>1 DEF Notify
    <3> HIDE DEF c
    <3> QED BY <2>1, <3>1, NoticeIs DEF IndexIs
  <2> QED BY <1>1, <1>3, <2>1, WalkLeaves
<1>4. CASE Visit
  <2>1. index' = Inspect(Min(Candidates))
      BY <1>4 DEF Visit
  <2> QED BY <1>4, <2>1, InspectIs DEF IndexIs
<1>5. CASE EndScan
    BY <1>1, <1>5, FinishCheckpointIs DEF EndScan, IndexIs
<1>6. CASE TurnTerminal \/ Scanned
    BY <1>1, <1>2, <1>6 DEF TurnTerminal, Scanned
<1>7. CASE Call /\ ~Send
    BY <1>1, <1>2, <1>7 DEF Call, Progress, Poll, Submit, Refuse, FailTransfer, EndCallback, Look, Advance
<1> QED BY <1>1, <1>3, <1>4, <1>5, <1>6, <1>7, WorkerLeaves, EndLeaves DEF Scan

\* What an inspection makes of those fields.
LEMMA InspectionFields ==
    ASSUME IndexTyped, Inspection
    PROVE  \/ (LoadStatus \/ CheckActive) /\ index' = index /\ directory' = directory /\ path' = path
           \/ /\ Enroll /\ index'.live = index.live /\ index'.unresolved = index.unresolved \ {req}
              /\ index'.fallback = index.fallback /\ index'.arming = index.arming \cup {req}
              /\ index'.changed = index.changed /\ index'.publishing = index.publishing
              /\ directory.entries' = directory.entries \cup {req}
           \/ /\ KeepInspecting /\ index'.live = index.live /\ index'.unresolved = index.unresolved \ {req}
              /\ index'.fallback = IF IsDrained(req) THEN index.fallback ELSE index.fallback \cup {req}
              /\ index'.arming = index.arming /\ index'.changed = index.changed
              /\ index'.publishing = index.publishing /\ directory' = directory /\ path' = path
           \/ /\ CheckDrain /\ IsDrained(req) /\ outcome[req] # "none" /\ req \in index.live
              /\ index'.live = index.live \ {req} /\ index'.unresolved = index.unresolved \ {req}
              /\ index'.fallback = index.fallback \ {req} /\ index'.arming = index.arming \ {req}
              /\ index'.changed = index.changed \ {req} /\ index'.publishing = index.publishing \ {req}
              /\ DeleteEntry(req) /\ path' = path
           \/ /\ CheckDrain /\ ~(IsDrained(req) /\ outcome[req] # "none" /\ req \in index.live)
              /\ at' = "scanned" /\ index' = index /\ directory' = directory /\ path' = path /\ marks' = marks
<1>1. CASE LoadStatus \/ CheckActive
    BY <1>1 DEF LoadStatus, CheckActive
<1>2. CASE Enroll
    BY <1>2, EnrolledIs DEF Enroll, AddEntry, IndexIs
<1>3. CASE KeepInspecting
  <2>1. directory' = directory /\ path' = path
      BY <1>3 DEF KeepInspecting, book
  <2> QED BY <1>3, <2>1, KeepFields DEF IndexIs
<1>4. CASE CheckDrain
    BY <1>4, ForgetIs DEF CheckDrain, IndexIs
<1> QED BY <1>1, <1>2, <1>3, <1>4 DEF Inspection

\* The directory changes with an inspection only.
LEMMA DirectoryStays ==
    ASSUME Next, ~Inspection
    PROVE  directory' = directory /\ path' = path /\ spent' = spent
BY WalkLeaves, ScanLeaves, CallLeaves, WorkerLeaves, EndLeaves DEF Next

\* The identities do not change.
LEMMA SpentStays == ASSUME Next PROVE spent' = spent
BY DirectoryStays, InspectionLeaves

-----------------------------------------------------------------------------
(* The directory.                                                          *)

LEMMA DirectoryInOrderStays == ASSUME IInv, Next PROVE DirectoryInOrder'
<1>1. /\ Typed /\ IndexTyped /\ BookTyped /\ DirectoryInOrder /\ InspectedIsLive /\ EnrolledHaveFailed
      /\ IndexInOrder
    BY DEF IInv, Typed, AllTyped
<1>2. spent' = spent
    BY SpentStays
<1>3. CASE ~Inspection
  <2>1. index.live \subseteq index'.live
    <3>1. CASE Send
        BY <1>1, <3>1, SentIs DEF Send, IndexIs
    <3>2. CASE ~Send
        BY <1>1, <1>3, <3>2, OthersKeepFields DEF Next
    <3> QED BY <3>1, <3>2
  <2> QED BY <1>1, <1>2, <1>3, <2>1, DirectoryStays DEF DirectoryInOrder, Branch, Id
<1>4. CASE Inspection
  <2>1. CASE index'.live = index.live /\ directory' = directory /\ path' = path
      BY <1>1, <1>2, <2>1 DEF DirectoryInOrder, Branch, Id
  <2>2. CASE Enroll
    <3> DEFINE root == IF directory.root = None THEN req ELSE directory.root
               leaf == IF directory.leaf[Branch(req)] = None THEN req ELSE directory.leaf[Branch(req)]
               leaves == [directory.leaf EXCEPT ![Branch(req)] = leaf]
    <3>1. /\ directory' = [root |-> root, leaf |-> leaves, entries |-> directory.entries \cup {req}]
          /\ path' = [path EXCEPT ![req] = <<root, leaf>>] /\ HasId(req)
        BY <2>2 DEF Enroll, AddEntry
    <3>2. req \in index.live /\ req \in Requests /\ Branch(req) \in Branches
      <4>1. req \in index.live /\ req \in Requests
          BY <1>1, <2>2, IndexIsItsFields DEF Enroll, InspectedIsLive, Inspecting
      <4> QED BY <1>1, <3>1, <4>1, BranchExists DEF BookTyped
    <3>3. root # None /\ leaf # None
        BY <3>2 DEF Requests, None
    <3>4. leaves[Branch(req)] = leaf /\ \A b \in Branches : b # Branch(req) => leaves[b] = directory.leaf[b]
        BY <1>1, <3>2 DEF BookTyped
    <3>5. path'[req][1] = root /\ path'[req][2] = leaf /\ \A e \in Requests : e # req => path'[e] = path[e]
        BY <1>1, <3>1, <3>2 DEF BookTyped
    <3>6. \A e \in directory.entries : /\ e \in Requests /\ Branch(e) \in Branches /\ path[e][1] = directory.root
              /\ path[e][2] = directory.leaf[Branch(e)] /\ directory.root # None /\ directory.leaf[Branch(e)] # None
        BY <1>1, BranchExists DEF DirectoryInOrder, BookTyped, EnrolledHaveFailed, Enrolled
    <3>7. index'.live = index.live
        BY <1>1, <1>4, <2>2, EnrolledIs DEF Enroll, IndexIs
    <3> HIDE DEF root, leaf, leaves
    <3>8. directory'.root = root /\ directory'.leaf = leaves /\ directory'.entries = directory.entries \cup {req}
        BY <3>1
    <3>9. \A e : Branch(e)' = Branch(e)
        BY <1>2 DEF Branch, Id
    <3>10. \A e \in directory.entries : directory.root = root /\ leaves[Branch(e)] = directory.leaf[Branch(e)]
        BY <3>4, <3>6 DEF root, leaf
    <3>11. ASSUME NEW e \in directory'.entries
           PROVE  /\ path'[e][1] = root /\ path'[e][2] = leaves[Branch(e)] /\ root # None /\ leaves[Branch(e)] # None
      <4>1. CASE e = req
          BY <3>3, <3>4, <3>5, <4>1
      <4>2. CASE e # req
          BY <3>3, <3>5, <3>6, <3>8, <3>10, <3>11, <4>2
      <4> QED BY <4>1, <4>2
    <3> QED BY <1>1, <3>2, <3>7, <3>8, <3>9, <3>11 DEF DirectoryInOrder
  <2>3. CASE DeleteEntry(req) /\ index'.live = index.live \ {req} /\ path' = path
    <3> DEFINE entries == directory.entries \ {req}
               used == {Branch(e) : e \in entries}
               leaf == [b \in Branches |-> IF b \in used THEN directory.leaf[b] ELSE None]
    <3>1. directory' = [root |-> IF entries = {} THEN None ELSE directory.root, leaf |-> leaf, entries |-> entries]
        BY <2>3 DEF DeleteEntry
    <3>2. \A e \in entries : Branch(e) \in used /\ Branch(e) \in Branches /\ leaf[Branch(e)] = directory.leaf[Branch(e)]
      <4>1. \A e \in entries : Branch(e) \in Branches
          BY <1>1, BranchExists DEF DirectoryInOrder, BookTyped, EnrolledHaveFailed, Enrolled
      <4> QED BY <4>1
    <3>3. \A e : Branch(e)' = Branch(e)
        BY <1>2 DEF Branch, Id
    <3> HIDE DEF leaf
    <3>4. directory'.entries = entries /\ directory'.leaf = leaf
          /\ directory'.root = IF entries = {} THEN None ELSE directory.root
        BY <3>1
    <3> QED BY <1>1, <2>3, <3>2, <3>3, <3>4 DEF DirectoryInOrder
  <2> QED BY <1>1, <1>4, <2>1, <2>2, <2>3, InspectionFields
<1> QED BY <1>3, <1>4

-----------------------------------------------------------------------------
(* What has been sent, what has failed, and what is enrolled.              *)

LEMMA UnsentAreBlankStays == ASSUME IInv, Next PROVE UnsentAreBlank'
<1>1. /\ Typed /\ IndexTyped /\ BookTyped /\ UnsentAreBlank /\ InspectedIsLive /\ IndexInOrder /\ WorkerInOrder
      /\ SharedTyped /\ WorkerTyped
    BY DEF IInv, Typed, AllTyped
<1>2. CASE Walk \/ Scan \/ Retire \/ Account
    BY <1>1, <1>2, WalkLeaves, ScanLeaves, EndLeaves DEF UnsentAreBlank
<1>3. CASE Inspection
  <2>1. \A c \in Requests : c # req => outcome'[c] = outcome[c]
      BY <1>1, <1>3, InspectionLeaves DEF LoadStatus, CheckActive, BookTyped
  <2>2. req <= sent
    <3>1. req \in 1..sent
        BY <1>1, <1>3, InspectionLeaves, OrderOfFields DEF InspectedIsLive
    <3> QED BY <1>1, <3>1 DEF BookTyped
  <2>3. status' = status /\ phase' = phase /\ sent' = sent
      BY <1>3, InspectionLeaves
  <2>4. \A c \in Requests : c > sent => c # req
      BY <1>1, <2>2 DEF BookTyped, Requests
  <2> QED BY <1>1, <2>1, <2>3, <2>4 DEF UnsentAreBlank
<1>4. CASE Call
  <2>1. sent \in Int
      BY <1>1, BoundsAssumption DEF BookTyped
  <2>2. sent' \in {sent, sent + 1} /\ \A c \in Requests : c # sent' => phase'[c] = phase[c]
    <3>1. CASE Send
        BY <1>1, <3>1 DEF Send, WorkerTyped
    <3>2. CASE ~Send
        BY <1>4, <3>2, CallLeaves DEF FailTransfer
    <3> QED BY <3>1, <3>2
  <2> QED BY <1>1, <1>4, <2>1, <2>2, CallLeaves DEF UnsentAreBlank, Requests
<1>5. CASE Worker
  <2>1. ASSUME NEW c \in Requests, Succeed(c) \/ Fail(c) \/ Drain(c) PROVE UnsentAreBlank'
    <3>1. c <= sent
        BY <1>1, <2>1 DEF UnsentAreBlank, Succeed, Fail, Drain, BookTyped, Requests
    <3> QED BY <1>1, <1>5, <2>1, <3>1, WorkerLeaves DEF Succeed, Fail, Drain, UnsentAreBlank, WorkerTyped, shared
  <2>2. ASSUME NEW c \in Requests, WatchDrain(c) PROVE UnsentAreBlank'
      BY <1>1, <1>5, <2>2, WorkerLeaves DEF WatchDrain, UnsentAreBlank, shared
  <2>3. CASE Access
    <3>1. PICK c \in 1..sent : Underway(c)
        BY <1>1, <2>3 DEF WorkerInOrder, Access
    <3>3. c <= sent /\ c \in Requests
        BY <1>1, <3>1, BoundsAssumption DEF BookTyped, Requests
    <3>2. Head(job)[2] = c
        BY <3>1, <3>3, HeadOfJob
    <3>4. \A e \in Requests : e # c => status'[e] = status[e]
        BY <1>1, <2>3, <3>2 DEF Access, SharedTyped
    <3>5. sent' = sent /\ outcome' = outcome /\ phase' = phase
        BY <1>5, <2>3, WorkerLeaves DEF Access
    <3>6. \A e \in Requests : e > sent => e # c
        BY <1>1, <3>3 DEF BookTyped, Requests
    <3> QED BY <1>1, <3>4, <3>5, <3>6 DEF UnsentAreBlank
  <2> QED BY <1>5, <2>1, <2>2, <2>3 DEF Worker
<1> QED BY <1>2, <1>3, <1>4, <1>5 DEF Next

\* No step loses a request that has failed.
LEMMA FailedAreKeptStays == ASSUME IInv, Next PROVE FailedAreKept'
<1>1. /\ Typed /\ IndexTyped /\ BookTyped /\ FailedAreKept /\ InspectedIsLive /\ IndexInOrder /\ UnsentAreBlank
      /\ index.live \subseteq Requests
    BY IndexIsItsFields DEF IInv, Typed, AllTyped
<1>2. \A c : IsDrained(c) => IsDrained(c)'
  <2>1. drained \subseteq drained'
      BY WalkLeaves, ScanLeaves, CallLeaves, InspectionLeaves, EndLeaves
         DEF Next, Worker, Access, Succeed, Fail, Drain, WatchDrain, shared
  <2>2. terminal \in {"ending", "accounted"} => terminal' \in {"ending", "accounted"}
      BY WalkLeaves, ScanLeaves, CallLeaves, InspectionLeaves, WorkerLeaves DEF Next, Retire, Account, FailTransfer
  <2> QED BY <2>1, <2>2 DEF IsDrained
<1>3. CASE Walk \/ Scan \/ (Call /\ ~Send)
  <2>1. outcome' = outcome /\ directory' = directory /\ at \notin {"failed", "drain"}
      BY <1>3, WalkLeaves, ScanLeaves, CallLeaves DEF Walking, OnThePath
  <2>2. index'.live = index.live /\ index'.unresolved = index.unresolved /\ index'.fallback = index.fallback
      BY <1>1, <1>3, OthersKeepFields
  <2> QED BY <1>1, <2>1, <2>2 DEF FailedAreKept
<1>4. CASE Send
  <2> DEFINE c == sent + 1
  <2>1. /\ index'.live = index.live \cup {c} /\ index'.unresolved = index.unresolved \cup {c}
        /\ index'.fallback = index.fallback
      BY <1>1, <1>4, SentIs DEF Send, IndexIs
  <2>2. outcome' = outcome /\ directory' = directory /\ at = "submit"
      BY <1>4 DEF Send
  <2>3. outcome[c] = "none"
      BY <1>1, <1>4, SubmitEnds DEF Send, UnsentAreBlank, BookTyped
  <2> HIDE DEF c
  <2> QED BY <1>1, <2>1, <2>2, <2>3 DEF FailedAreKept
<1>5. CASE Worker \/ Retire \/ Account
  <2>1. outcome' = outcome /\ directory' = directory /\ at' = at /\ req' = req /\ index' = index
      BY <1>5, WorkerLeaves, EndLeaves
  <2> QED BY <1>1, <1>2, <2>1 DEF FailedAreKept
<1>6. CASE Inspection
  <2>0. req \in index.live /\ req \in Requests /\ drained' = drained /\ terminal' = terminal
      BY <1>1, <1>6, InspectionLeaves, IndexIsItsFields DEF InspectedIsLive
  <2>1. CASE LoadStatus
    <3>1. /\ index' = index /\ directory' = directory /\ at = "status" /\ req' = req
          /\ (at' = "failed" /\ outcome' = [outcome EXCEPT ![req] = "error"]) \/ outcome' = outcome
        BY <2>1 DEF LoadStatus
    <3>2. outcome[req] = "none" /\ req \in index.unresolved
        BY <1>1, <2>0, <3>1 DEF InspectedIsLive, FailedAreKept
    <3>3. \A e \in index.live : e # req => outcome'[e] = outcome[e]
        BY <1>1, <3>1 DEF BookTyped
    <3>4. outcome'[req] = "none" \/ (outcome'[req] = "error" /\ at' = "failed")
        BY <1>1, <2>0, <3>1, <3>2 DEF BookTyped
    <3> QED BY <1>1, <3>1, <3>2, <3>3, <3>4 DEF FailedAreKept
  <2>2. CASE CheckActive
    <3>1. /\ index' = index /\ directory' = directory /\ at = "active" /\ req' = req
          /\ outcome' = [outcome EXCEPT ![req] = IF Retired THEN "error" ELSE IF seen = "success" THEN "value" ELSE "none"]
          /\ at' = IF Retired THEN "failed" ELSE "drain"
        BY <2>2 DEF CheckActive
    <3>2. outcome[req] = "none" /\ req \in index.unresolved /\ (seen = "success" => req \in drained)
        BY <1>1, <2>0, <3>1 DEF InspectedIsLive, FailedAreKept
    <3>3. \A e \in index.live : e # req => outcome'[e] = outcome[e]
        BY <1>1, <3>1 DEF BookTyped
    <3>4. \/ outcome'[req] = "none"
          \/ outcome'[req] = "error" /\ at' = "failed"
          \/ outcome'[req] = "value" /\ at' = "drain" /\ IsDrained(req)'
        BY <1>1, <2>0, <3>1, <3>2 DEF BookTyped, IsDrained
    <3> QED BY <1>1, <3>1, <3>2, <3>3, <3>4 DEF FailedAreKept
  <2>3. CASE Enroll
    <3>1. /\ index'.live = index.live /\ index'.unresolved = index.unresolved \ {req}
          /\ index'.fallback = index.fallback /\ directory'.entries = directory.entries \cup {req}
        BY <1>1, <2>3, EnrolledIs DEF Enroll, AddEntry, IndexIs
    <3>2. outcome' = outcome /\ at = "failed" /\ at' = "drain" /\ req' = req
        BY <2>3 DEF Enroll
    <3>3. outcome[req] = "error"
        BY <1>1, <3>2 DEF InspectedIsLive
    <3> QED BY <1>1, <3>1, <3>2, <3>3 DEF FailedAreKept
  <2>4. CASE KeepInspecting
    <3>1. /\ index'.live = index.live /\ index'.unresolved = index.unresolved \ {req}
          /\ index'.fallback = IF IsDrained(req) THEN index.fallback ELSE index.fallback \cup {req}
          /\ directory' = directory
        BY <1>1, <2>4, KeepFields DEF IndexIs, KeepInspecting, book
    <3>2. outcome' = outcome /\ at = "failed" /\ at' = "drain" /\ req' = req
        BY <2>4 DEF KeepInspecting, book
    <3>3. outcome[req] = "error"
        BY <1>1, <3>2 DEF InspectedIsLive
    <3>4. \A e : IsDrained(e)' <=> IsDrained(e)
        BY <2>0 DEF IsDrained
    <3> QED BY <1>1, <3>1, <3>2, <3>3, <3>4 DEF FailedAreKept
  <2>5. CASE CheckDrain
    <3>1. outcome' = outcome /\ at = "drain" /\ at' \notin {"failed", "drain"}
        BY <2>5 DEF CheckDrain
    <3>2. CASE IsDrained(req) /\ outcome[req] # "none"
      <4>1. index' = Forget(req) /\ DeleteEntry(req)
          BY <2>0, <2>5, <3>2 DEF CheckDrain
      <4>2. /\ index'.live = index.live \ {req} /\ index'.unresolved = index.unresolved \ {req}
            /\ index'.fallback = index.fallback \ {req} /\ directory'.entries = directory.entries \ {req}
          BY <1>1, <4>1, ForgetIs DEF IndexIs, DeleteEntry
      <4> QED BY <1>1, <3>1, <4>2 DEF FailedAreKept
    <3>3. CASE ~(IsDrained(req) /\ outcome[req] # "none")
      <4>1. index' = index /\ directory' = directory
          BY <2>5, <3>3 DEF CheckDrain
      <4> QED BY <1>1, <3>1, <3>3, <4>1 DEF FailedAreKept
    <3> QED BY <3>2, <3>3
  <2> QED BY <1>6, <2>1, <2>2, <2>3, <2>4, <2>5 DEF Inspection
<1> QED BY <1>3, <1>4, <1>5, <1>6 DEF Next

\* No step enrolls a request that has not failed.
LEMMA EnrolledHaveFailedStays == ASSUME IInv, Next PROVE EnrolledHaveFailed'
<1>1. /\ Typed /\ IndexTyped /\ BookTyped /\ WorkerTyped /\ InspectedIsLive /\ EnrolledHaveFailed
    BY DEF IInv, Typed, AllTyped
<1>2. \A c : HasId(c)' <=> HasId(c)
    BY SpentStays DEF HasId, Id
<1>3. CASE Walk \/ Scan \/ Call \/ Retire \/ Account
  <2>1. outcome' = outcome /\ directory' = directory /\ watched' = watched /\ subscriptions' = subscriptions
      BY <1>3, WalkLeaves, ScanLeaves, CallLeaves, EndLeaves
  <2>2. at' # "failed" \/ (at' = at /\ req' = req)
    <3>1. CASE \E c \in Requests : Look(c)
        BY <3>1 DEF Look, Refresh
    <3>2. CASE Visit
        BY <3>2 DEF Visit, Refresh
    <3>3. CASE Retire \/ Account
        BY <3>3, EndLeaves
    <3> QED BY <1>3, <3>1, <3>2, <3>3, WalkLeaves, ScanLeaves, CallLeaves DEF Walking, OnThePath
  <2> QED BY <1>1, <1>2, <2>1, <2>2 DEF EnrolledHaveFailed, Enrolled
<1>4. CASE Worker
  <2>1. watched' \cup subscriptions' \subseteq watched \cup subscriptions
      BY <1>4 DEF Worker, Access, Succeed, Fail, Drain, WatchDrain
  <2>2. outcome' = outcome /\ directory' = directory /\ at' = at /\ req' = req
      BY <1>4, WorkerLeaves
  <2> QED BY <1>1, <1>2, <2>1, <2>2 DEF EnrolledHaveFailed, Enrolled
<1>5. CASE Inspection
  <2>0. watched' = watched /\ directory.entries \subseteq Requests /\ Enrolled \subseteq Requests
      BY <1>1, <1>5, InspectionLeaves DEF BookTyped, WorkerTyped, Enrolled
  <2>1. CASE LoadStatus \/ CheckActive
    <3>1. directory' = directory /\ subscriptions' = subscriptions /\ req' = req
        BY <2>1 DEF LoadStatus, CheckActive, worker
    <3>2. outcome[req] = "none" /\ \A e \in Requests : e # req => outcome'[e] = outcome[e]
        BY <1>1, <2>1 DEF LoadStatus, CheckActive, InspectedIsLive, BookTyped
    <3>3. Enrolled' = Enrolled /\ \A e \in Enrolled : e # req
        BY <1>1, <2>0, <3>1, <3>2 DEF Enrolled, EnrolledHaveFailed
    <3> QED BY <1>1, <1>2, <2>0, <3>1, <3>2, <3>3 DEF EnrolledHaveFailed
  <2>2. CASE Enroll
    <3>1. /\ subscriptions' = subscriptions \cup {req} /\ directory'.entries = directory.entries \cup {req}
          /\ outcome' = outcome /\ at = "failed" /\ at' = "drain" /\ HasId(req)
        BY <2>2 DEF Enroll, AddEntry
    <3>2. Enrolled' = Enrolled \cup {req} /\ outcome[req] = "error"
        BY <1>1, <2>0, <3>1 DEF Enrolled, InspectedIsLive
    <3> QED BY <1>1, <1>2, <3>1, <3>2 DEF EnrolledHaveFailed
  <2>3. CASE KeepInspecting \/ CheckDrain
    <3>1. outcome' = outcome /\ at' # "failed" /\ subscriptions' = subscriptions
        BY <2>3 DEF KeepInspecting, CheckDrain, worker, book
    <3>2. directory'.entries \subseteq directory.entries
        BY <2>3 DEF KeepInspecting, CheckDrain, book, DeleteEntry
    <3> QED BY <1>1, <1>2, <2>0, <3>1, <3>2 DEF EnrolledHaveFailed, Enrolled
  <2> QED BY <1>5, <2>1, <2>2, <2>3 DEF Inspection
<1> QED BY <1>3, <1>4, <1>5 DEF Next

-----------------------------------------------------------------------------
(* Marks, and what the walk has claimed.                                   *)

\* A mark adds to its word, and to no other.
LEMMA MarksGrow ==
    ASSUME MarksTyped, BookTyped, NEW c \in Requests
    PROVE  /\ MarkLeaf(c).root = marks.root /\ \A b \in Branches : marks.leaf[b] \subseteq MarkLeaf(c).leaf[b]
           /\ MarkRoot(c).leaf = marks.leaf /\ marks.root \subseteq MarkRoot(c).root
<1>1. CASE path[c][2] # None /\ path[c][2] = directory.leaf[Branch(c)]
  <2> DEFINE l == [marks.leaf EXCEPT ![Branch(c)] = @ \cup {c}]
  <2>1. MarkLeaf(c) = [marks EXCEPT !.leaf = l]
      BY <1>1 DEF MarkLeaf, MarksTyped
  <2>2. \A b \in Branches : marks.leaf[b] \subseteq l[b]
      BY DEF MarksTyped
  <2> HIDE DEF l
  <2>3. MarkLeaf(c).root = marks.root /\ MarkLeaf(c).leaf = l
      BY <2>1 DEF MarksTyped
  <2> QED BY <2>2, <2>3 DEF MarkRoot, MarksTyped
<1>2. CASE ~(path[c][2] # None /\ path[c][2] = directory.leaf[Branch(c)])
    BY <1>2 DEF MarkLeaf, MarkRoot, MarksTyped
<1> QED BY <1>1, <1>2

\* The path of an entry leads to its leaf and to the root.
LEMMA EntriesAreMarked ==
    ASSUME MarksTyped, BookTyped, DirectoryInOrder, EnrolledHaveFailed, NEW c \in directory.entries
    PROVE  /\ c \in Requests /\ Branch(c) \in Branches
           /\ c \in MarkLeaf(c).leaf[Branch(c)] /\ Branch(c) \in MarkRoot(c).root
<1>1. c \in Requests /\ Branch(c) \in Branches
    BY BranchExists DEF BookTyped, EnrolledHaveFailed, Enrolled
<1>2. /\ path[c][1] = directory.root /\ path[c][2] = directory.leaf[Branch(c)]
      /\ directory.root # None /\ directory.leaf[Branch(c)] # None
    BY DEF DirectoryInOrder
<1>3. Branch(c) \in MarkRoot(c).root
    BY <1>2 DEF MarkRoot, MarksTyped
<1> DEFINE l == [marks.leaf EXCEPT ![Branch(c)] = @ \cup {c}]
<1>4. MarkLeaf(c) = [marks EXCEPT !.leaf = l]
    BY <1>2 DEF MarkLeaf, MarksTyped
<1>5. c \in l[Branch(c)]
    BY <1>1 DEF MarksTyped
<1> HIDE DEF l
<1>6. MarkLeaf(c).leaf = l
    BY <1>4 DEF MarksTyped
<1> QED BY <1>1, <1>3, <1>5, <1>6

\* The next access of a job is about a request that was sent.
LEMMA HeadIsSent ==
    ASSUME Typed, WorkerInOrder, job # <<>>
    PROVE  \E c \in Requests : c \in 1..sent /\ Underway(c) /\ DoneIn(Requests \ {c}) /\ Head(job)[2] = c
<1>1. PICK c \in 1..sent : DoneIn(Requests \ {c}) /\ Underway(c)
    BY DEF WorkerInOrder
<1>2. c \in Requests
    BY <1>1, BoundsAssumption DEF Typed, AllTyped, BookTyped, Requests
<1> QED BY <1>1, <1>2, HeadOfJob

\* The worker only adds marks.
LEMMA WorkerAddsMarks ==
    ASSUME Typed, WorkerInOrder, Worker
    PROVE  marks.root \subseteq marks'.root /\ \A b \in Branches : marks.leaf[b] \subseteq marks'.leaf[b]
<1>1. CASE Access
  <2>1. PICK c \in Requests : Head(job)[2] = c
      BY <1>1, HeadIsSent DEF Access
  <2>2. marks' \in {marks, MarkLeaf(c), MarkRoot(c)}
      BY <1>1, <2>1 DEF Access
  <2> QED BY <2>2, MarksGrow DEF Typed, AllTyped
<1>2. CASE ~Access
    BY <1>2 DEF Worker, Succeed, Fail, Drain, WatchDrain
<1> QED BY <1>1, <1>2

\* What a walk has visited stays reported until it ends.
LEMMA VisitedHaveChangedStays == ASSUME IInv, Next PROVE VisitedHaveChanged'
<1>1. /\ Typed /\ IndexTyped /\ WalkTyped /\ WalkPlaced /\ VisitedHaveChanged
    BY DEF IInv, Typed, AllTyped
<1>2. CASE Scan \/ Inspection \/ Call
  <2>1. walk' = walk /\ at \notin Walking
      BY <1>2, ScanLeaves, InspectionLeaves, CallLeaves DEF Walking, OnThePath, Inspecting
  <2> QED BY <1>1, <2>1 DEF WalkPlaced, NoWalk, VisitedHaveChanged
<1>3. CASE Worker \/ Retire \/ Account
    BY <1>1, <1>3, WorkerLeaves, EndLeaves DEF VisitedHaveChanged
<1>4. CASE Notify
  <2> DEFINE c == walk.found
  <2>1. index' = SetActive([index EXCEPT !.changed = @ \cup {c},
                                        !.publishing = IF c \in publishing THEN @ \cup {c} ELSE @ \ {c}], c)
      BY <1>4 DEF Notify
  <2>2. walk'.visited = walk.visited
      BY <1>1, <1>4 DEF Notify, Continue, WalkTyped
  <2> HIDE DEF c
  <2>3. index'.changed = index.changed \cup {c}
      BY <1>1, <2>1, NoticeIs DEF IndexIs
  <2> QED BY <1>1, <2>2, <2>3 DEF VisitedHaveChanged, c
<1>5. CASE Claim
  <2> DEFINE c == Min(walk.slots)
  <2>1. index' = index /\ at = "slot"
      BY <1>5 DEF Claim
  <2>2. \/ walk'.visited = walk.visited
        \/ /\ walk'.visited = walk.visited \cup {c} /\ walk'.found = c
           /\ c \in walk.visited \/ at' = "notify"
      BY <1>1, <1>5 DEF Claim, Continue, WalkTyped
  <2> HIDE DEF c
  <2> QED BY <1>1, <2>1, <2>2 DEF VisitedHaveChanged
<1>6. CASE Walk /\ ~Notify /\ ~Claim
  <2>1. index' = index /\ at # "notify"
      BY <1>6, WalkLeaves DEF Walk, LoadRoot, LoadLeaf, Remark, ClearBranch, Recheck, Restore, CollectAgain
  <2>2. walk'.visited \subseteq walk.visited
    <3>1. CASE LoadRoot \/ CollectAgain
      <4>1. CASE walk' = NoWalk \/ walk' = walk
          BY <4>1 DEF NoWalk
      <4>2. CASE walk' = [walk EXCEPT !.branches = marks.root, !.before = Cardinality(walk.visited)]
          BY <1>1, <4>2 DEF WalkTyped
      <4> QED BY <3>1, <4>1, <4>2 DEF LoadRoot, CollectAgain
    <3>2. CASE LoadLeaf \/ Remark
        BY <1>1, <3>2 DEF LoadLeaf, Remark, Continue, WalkTyped
    <3>3. CASE ClearBranch \/ Recheck \/ Restore
        BY <1>1, <3>3 DEF ClearBranch, Recheck, Restore, NextBranch, WalkTyped
    <3> QED BY <1>6, <3>1, <3>2, <3>3 DEF Walk
  <2> QED BY <1>1, <2>1, <2>2 DEF VisitedHaveChanged
<1> QED BY <1>2, <1>3, <1>4, <1>5, <1>6 DEF Next

\* What was claimed stays enrolled until it is reported or marked again.
LEMMA ClaimInOrderStays == ASSUME IInv, Next PROVE ClaimInOrder'
<1>1. /\ Typed /\ MarksTyped /\ BookTyped /\ WalkTyped /\ WalkPlaced /\ ClaimInOrder /\ DirectoryInOrder
      /\ EnrolledHaveFailed /\ WorkerInOrder
    BY DEF IInv, Typed, AllTyped
<1>2. \A e : Branch(e)' = Branch(e)
    BY SpentStays DEF Branch, Id
<1>3. CASE Scan \/ Inspection \/ Call
  <2>1. at' \notin {"notify", "remark", "remarkRoot"}
    <3>1. CASE Visit
        BY <3>1 DEF Visit, Refresh
    <3>2. CASE \E c \in Requests : Look(c)
        BY <3>2 DEF Look, Refresh
    <3> QED BY <1>3, <3>1, <3>2, ScanLeaves, InspectionLeaves, CallLeaves DEF Inspecting
  <2> QED BY <2>1 DEF ClaimInOrder
<1>4. CASE Worker \/ Retire \/ Account
  <2>1. /\ directory' = directory /\ at' = at /\ walk' = walk
        /\ \A b \in Branches : marks.leaf[b] \subseteq marks'.leaf[b]
      BY <1>1, <1>4, WorkerLeaves, EndLeaves, WorkerAddsMarks
  <2>2. at = "remarkRoot" => Branch(walk.found) \in Branches
      BY <1>1, EntriesAreMarked DEF ClaimInOrder
  <2>3. at = "remarkRoot" => walk.found \in marks'.leaf[Branch(walk.found)]
      BY <1>1, <2>1, <2>2 DEF ClaimInOrder
  <2> QED BY <1>1, <1>2, <2>1, <2>3 DEF ClaimInOrder
<1>5. CASE Claim
  <2>1. at' = "remarkRoot" => FALSE
      BY <1>5 DEF Claim, Continue
  <2>2. at' \in {"notify", "remark"} => walk'.found \in directory.entries
    <3> DEFINE c == Min(walk.slots)
               rest == [walk EXCEPT !.slots = @ \ {c}]
    <3>1. CASE c \notin marks.leaf[branch] \/ c \notin directory.entries
        BY <1>5, <3>1 DEF Claim, Continue
    <3>2. CASE ~(c \notin marks.leaf[branch] \/ c \notin directory.entries)
      <4>1. walk' = [rest EXCEPT !.visited = @ \cup {c}, !.found = c]
          BY <1>5, <3>2 DEF Claim
      <4>2. walk'.found = c
          BY <1>1, <4>1 DEF WalkTyped
      <4> QED BY <3>2, <4>2
    <3> QED BY <3>1, <3>2
  <2>3. directory' = directory
      BY <1>5 DEF Claim, book
  <2> QED BY <2>1, <2>2, <2>3 DEF ClaimInOrder
<1>6. CASE Remark
  <2>1. directory' = directory /\ walk.found \in directory.entries
      BY <1>1, <1>6 DEF Remark, ClaimInOrder, book
  <2>2. CASE at = "remark"
    <3>0. PICK c : c = walk.found
        OBVIOUS
    <3>1. marks' = MarkLeaf(c) /\ at' = "remarkRoot" /\ walk'.found = c
        BY <1>6, <2>2, <3>0 DEF Remark
    <3>2. c \in directory.entries
        BY <2>1, <3>0
    <3>3. c \in MarkLeaf(c).leaf[Branch(c)]
        BY <1>1, <3>2, EntriesAreMarked
    <3>4. \A e : Branch(e)' = Branch(e)
        BY <1>2
    <3> QED BY <2>1, <3>1, <3>2, <3>3, <3>4 DEF ClaimInOrder
  <2>3. CASE at # "remark"
    <3>1. at' \in {"slot", "clear"}
        BY <1>6, <2>3 DEF Remark, Continue
    <3> QED BY <3>1 DEF ClaimInOrder
  <2> QED BY <2>2, <2>3
<1>7. CASE Walk /\ ~Claim /\ ~Remark
  <2>1. at' \notin {"notify", "remark", "remarkRoot"}
      BY <1>7 DEF Walk, LoadRoot, LoadLeaf, Notify, ClearBranch, Recheck, Restore, CollectAgain, Continue, NextBranch
  <2> QED BY <2>1 DEF ClaimInOrder
<1> QED BY <1>3, <1>4, <1>5, <1>6, <1>7 DEF Next

-----------------------------------------------------------------------------
(* What becomes of a mark.                                                 *)

\* The client drops no mark of an entry whose publication is under way, and the
\* mark of any other only for a notice or an inspection of it.
KeepsMark(c) ==
    /\ Marked(c) /\ c \in publishing => Marked(c)'
    /\ Tracked(c) => \/ Tracked(c)'
                     \/ c \notin publishing /\ (c \in index'.changed \/ (at' = "drain" /\ req' = c))

\* A step outside of the walk that leaves the words of the entry alone.
LEMMA MarkIsKept ==
    ASSUME NEW c, Branch(c)' = Branch(c), at \notin Walking,
           c \in marks.leaf[Branch(c)] => c \in marks'.leaf[Branch(c)],
           Branch(c) \in marks.root => Branch(c) \in marks'.root,
           c \in index.publishing =>
               c \in index'.publishing \/ (c \notin publishing /\ at' = "drain" /\ req' = c)
    PROVE  KeepsMark(c)
BY DEF KeepsMark, Marked, Tracked, InHand, Walking, OnThePath

\* A step of the walk that changes nothing but where the client is.
LEMMA MarkIsKeptOnTheWay ==
    ASSUME NEW c, Branch(c)' = Branch(c), marks' = marks, index' = index,
           at \notin {"notify", "remark", "remarkRoot", "recheck", "restore"}
    PROVE  KeepsMark(c)
BY DEF KeepsMark, Marked, Tracked, InHand

\* The walk passes the marks of the entries on.
LEMMA WalkKeepsMark ==
    ASSUME IInv, Walk, NEW c \in directory.entries, Branch(c)' = Branch(c)
    PROVE  KeepsMark(c)
<1>1. /\ Typed /\ IndexTyped /\ MarksTyped /\ BookTyped /\ WalkTyped /\ WalkPlaced /\ ClaimInOrder /\ DirectoryInOrder
      /\ EnrolledHaveFailed /\ c \in Requests /\ Branch(c) \in Branches
    BY EntriesAreMarked DEF IInv, Typed, AllTyped
<1>2. CASE LoadRoot \/ LoadLeaf \/ CollectAgain
  <2>1. marks' = marks /\ index' = index /\ at \in {"collect", "leaf", "again"}
      BY <1>2 DEF LoadRoot, LoadLeaf, CollectAgain
  <2> QED BY <2>1, MarkIsKeptOnTheWay
<1>3. CASE Claim
  <2>0. PICK d : d = Min(walk.slots)
      OBVIOUS
  <2> DEFINE l == [marks.leaf EXCEPT ![branch] = @ \ {d}]
  <2>1. at = "slot" /\ index' = index /\ marks' = [marks EXCEPT !.leaf = l]
      BY <1>1, <1>3, <2>0 DEF Claim, MarksTyped
  <2>2. c \in marks.leaf[Branch(c)] => c \in l[Branch(c)] \/ (c = d /\ Branch(c) = branch)
      BY <1>1 DEF MarksTyped
  <2> HIDE DEF l
  <2>3. marks'.leaf = l /\ marks'.root = marks.root
      BY <1>1, <2>1 DEF MarksTyped
  <2>4. CASE c = d /\ Branch(c) = branch /\ c \in marks.leaf[Branch(c)]
    <3> DEFINE rest == [walk EXCEPT !.slots = @ \ {d}]
    <3>1. /\ walk' = [rest EXCEPT !.visited = @ \cup {d}, !.found = d]
          /\ at' \in {"remark", "notify"}
        BY <1>3, <2>0, <2>4 DEF Claim
    <3>2. walk'.found = d
        BY <1>1, <3>1 DEF WalkTyped
    <3>3. InHand(c)'
        BY <2>4, <3>1, <3>2 DEF InHand
    <3> QED BY <3>3 DEF KeepsMark, Marked, Tracked
  <2>5. CASE c \in marks.leaf[Branch(c)] => c \in l[Branch(c)]
      BY <1>1, <2>1, <2>3, <2>5 DEF KeepsMark, Marked, Tracked, InHand
  <2> QED BY <2>2, <2>4, <2>5
<1>4. CASE Notify
  <2>0. PICK d : d = walk.found
      OBVIOUS
  <2>1. /\ index' = SetActive([index EXCEPT !.changed = @ \cup {d},
                                           !.publishing = IF d \in publishing THEN @ \cup {d} ELSE @ \ {d}], d)
        /\ marks' = marks /\ at = "notify"
      BY <1>4, <2>0 DEF Notify
  <2>2. /\ index'.changed = index.changed \cup {d}
        /\ index'.publishing = IF d \in publishing THEN index.publishing \cup {d} ELSE index.publishing \ {d}
      BY <1>1, <2>1, NoticeIs DEF IndexIs
  <2>3. CASE c = d
    <3>1. c \in publishing => Marked(c)' /\ Tracked(c)'
        BY <2>2, <2>3 DEF Marked, Tracked
    <3> QED BY <2>2, <2>3, <3>1 DEF KeepsMark
  <2>4. CASE c # d
    <3>1. c \in index.publishing => c \in index'.publishing
        BY <2>2, <2>4
    <3> QED BY <2>0, <2>1, <2>4, <3>1 DEF KeepsMark, Marked, Tracked, InHand
  <2> QED BY <2>3, <2>4
<1>5. CASE Remark
  <2>0. PICK d : d = walk.found
      OBVIOUS
  <2>1. d \in directory.entries /\ index' = index
      BY <1>1, <1>5, <2>0 DEF Remark, ClaimInOrder
  <2>2. d \in Requests /\ d \in MarkLeaf(d).leaf[Branch(d)] /\ Branch(d) \in MarkRoot(d).root
      BY <1>1, <2>1, EntriesAreMarked
  <2>3. CASE at = "remark"
    <3>1. marks' = MarkLeaf(d) /\ at' = "remarkRoot" /\ walk' = walk
        BY <1>5, <2>0, <2>3 DEF Remark
    <3>2. marks'.root = marks.root /\ marks.leaf[Branch(c)] \subseteq marks'.leaf[Branch(c)]
        BY <1>1, <2>2, <3>1, MarksGrow
    <3> QED BY <2>1, <2>3, <3>1, <3>2 DEF KeepsMark, Marked, Tracked, InHand
  <2>4. CASE at # "remark"
    <3>1. at = "remarkRoot" /\ marks' = MarkRoot(d)
        BY <1>5, <2>0, <2>4 DEF Remark
    <3>2. marks'.leaf = marks.leaf /\ marks.root \subseteq marks'.root
        BY <1>1, <2>2, <3>1, MarksGrow
    <3>3. CASE c = d
      <4>1. c \in marks.leaf[Branch(c)]
          BY <1>1, <2>0, <3>1, <3>3 DEF ClaimInOrder
      <4> QED BY <2>2, <3>1, <3>2, <3>3, <4>1 DEF KeepsMark, Marked, Tracked
    <3>4. CASE c # d
        BY <2>0, <2>1, <3>1, <3>2, <3>4 DEF KeepsMark, Marked, Tracked, InHand
    <3> QED BY <3>3, <3>4
  <2> QED BY <2>3, <2>4
<1>6. CASE ClearBranch
  <2>1. at = "clear" /\ index' = index /\ marks' = [marks EXCEPT !.root = @ \ {branch}]
      BY <1>6 DEF ClearBranch
  <2>2. marks'.leaf = marks.leaf /\ marks'.root = marks.root \ {branch}
      BY <1>1, <2>1 DEF MarksTyped
  <2>3. directory.leaf[Branch(c)] # None
      BY <1>1 DEF DirectoryInOrder
  <2>4. Branch(c) = branch => at' = "recheck" /\ branch' = branch
      BY <1>6, <2>3 DEF ClearBranch, branch
  <2> QED BY <2>1, <2>2, <2>4 DEF KeepsMark, Marked, Tracked, InHand
<1>7. CASE Recheck
  <2>1. at = "recheck" /\ index' = index /\ marks' = marks
      BY <1>7 DEF Recheck
  <2>2. c \in marks.leaf[Branch(c)] /\ Branch(c) = branch => at' = "restore" /\ branch' = branch
      BY <1>7 DEF Recheck, branch
  <2> QED BY <2>1, <2>2 DEF KeepsMark, Marked, Tracked, InHand
<1>8. CASE Restore
  <2>1. at = "restore" /\ index' = index /\ marks' = [marks EXCEPT !.root = @ \cup {branch}]
      BY <1>8 DEF Restore
  <2>2. marks'.leaf = marks.leaf /\ marks'.root = marks.root \cup {branch}
      BY <1>1, <2>1 DEF MarksTyped
  <2> QED BY <2>1, <2>2 DEF KeepsMark, Marked, Tracked, InHand
<1> QED BY <1>2, <1>3, <1>4, <1>5, <1>6, <1>7, <1>8 DEF Walk

\* So does the rest of the client.
LEMMA ClientKeepsMark ==
    ASSUME IInv, Call \/ Walk \/ Scan \/ Inspection, NEW c \in directory.entries, c \in directory'.entries,
           Branch(c)' = Branch(c)
    PROVE  KeepsMark(c)
<1>1. /\ Typed /\ IndexTyped /\ MarksTyped /\ BookTyped /\ EnrolledHaveFailed /\ DirectoryInOrder
      /\ c \in Requests /\ Branch(c) \in Branches
    BY EntriesAreMarked DEF IInv, Typed, AllTyped
<1>2. CASE Call \/ (Scan /\ ~Visit)
  <2>1. marks' = marks /\ at \notin Walking
      BY <1>2, CallLeaves, ScanLeaves DEF Walking, OnThePath
  <2>2. index'.publishing = index.publishing
    <3>1. CASE Send
        BY <1>1, <3>1, SentIs DEF Send, IndexIs
    <3>2. CASE ~Send
      <4>1. index'.publishing = index.publishing \/ Visit \/ Notify
          BY <1>1, <1>2, <3>2, OthersKeepFields
      <4> QED BY <1>2, <2>1, <4>1, CallLeaves DEF Visit, Notify, Walking, OnThePath
    <3> QED BY <3>1, <3>2
  <2> QED BY <2>1, <2>2, MarkIsKept
<1>3. CASE Visit
  <2>0. PICK d : d = Min(Candidates)
      OBVIOUS
  <2>1. index' = Inspect(d) /\ Refresh(d) /\ marks' = marks /\ at = "next"
      BY <1>3, <2>0 DEF Visit
  <2>2. /\ index'.publishing = index.publishing \/ index'.publishing = index.publishing \ {d}
        /\ index'.publishing # index.publishing => d \notin publishing
      BY <1>1, <2>1, InspectIs DEF IndexIs
  <2>3. outcome[c] = "error"
      BY <1>1 DEF EnrolledHaveFailed, Enrolled
  <2>4. c = d => at' = "drain" /\ req' = c
      BY <2>1, <2>3 DEF Refresh
  <2> QED BY <2>1, <2>2, <2>4, MarkIsKept DEF Walking, OnThePath
<1>4. CASE Inspection
  <2>1. at \notin Walking
      BY <1>4, InspectionLeaves DEF Inspecting, Walking, OnThePath
  <2>2. CASE ~CheckDrain
    <3>1. marks' = marks
        BY <1>4, <2>2, InspectionLeaves
    <3>2. index'.publishing = index.publishing
        BY <1>1, <1>4, <2>2, InspectionFields
    <3> QED BY <2>1, <3>1, <3>2, MarkIsKept
  <2>3. CASE CheckDrain /\ marks' = marks /\ index' = index
      BY <2>1, <2>3, MarkIsKept
  <2>4. CASE index' = Forget(req) /\ DeleteEntry(req)
    <3> DEFINE entries == directory.entries \ {req}
               used == {Branch(e) : e \in entries}
               l == [b \in Branches |-> IF b \in used THEN marks.leaf[b] ELSE {}]
    <3>1. /\ directory'.entries = entries
          /\ marks' = [root |-> IF entries = {} THEN {} ELSE marks.root, leaf |-> l]
        BY <2>4 DEF DeleteEntry
    <3>2. c \in entries /\ c # req
        BY <3>1
    <3>3. Branch(c) \in used
        BY <3>2
    <3>4. l[Branch(c)] = marks.leaf[Branch(c)]
        BY <1>1, <3>3
    <3>5. marks'.leaf = l /\ marks'.root = marks.root
        BY <3>1, <3>2
    <3>6. index'.publishing = index.publishing \ {req}
        BY <1>1, <2>4, ForgetIs DEF IndexIs
    <3> HIDE DEF l, used
    <3> QED BY <2>1, <3>2, <3>4, <3>5, <3>6, MarkIsKept
  <2> QED BY <2>2, <2>3, <2>4 DEF CheckDrain
<1> QED BY <1>2, <1>3, <1>4, WalkKeepsMark DEF Scan

-----------------------------------------------------------------------------
(* The worker takes up a publication, and performs it access by access.    *)

\* Two accesses are one and another.
LEMMA TwoInOne ==
    ASSUME NEW S, NEW x \in S, NEW y \in S
    PROVE  <<x, y>> = <<x>> \o <<y>>
<1> DEFINE p == <<x>> \o <<y>>
           q == <<x, y>>
<1>1. /\ <<x>> \in Seq(S) /\ <<y>> \in Seq(S)
      /\ Len(<<x>>) = 1 /\ Len(<<y>>) = 1 /\ <<x>>[1] = x /\ <<y>>[1] = y
    OBVIOUS
<1>2. q \in Seq(S) /\ Len(q) = 2 /\ q[1] = x /\ q[2] = y
    OBVIOUS
<1>3. p \in Seq(S) /\ Len(p) = 2 /\ p[1] = x /\ p[2] = y
    BY <1>1, ConcatProperties
<1> HIDE DEF p, q
<1>4. p = q
    BY <1>2, <1>3, SeqEqual
<1> QED BY <1>4 DEF p, q

\* Joined sequences, as an operator whose definition can be hidden.
Cat(s, t) == s \o t

\* Joining is associative.
LEMMA JoinAssoc ==
    ASSUME NEW S, NEW s \in Seq(S), NEW t \in Seq(S), NEW u \in Seq(S)
    PROVE  Cat(s, t) \in Seq(S) /\ Cat(Cat(s, t), u) = Cat(s, Cat(t, u))
<1>1. s \o t \in Seq(S)
    BY ConcatProperties
<1>2. (s \o t) \o u = s \o (t \o u)
    BY ConcatAssociative, SMT
<1> QED BY <1>1, <1>2 DEF Cat

\* Five parts of a job.
LEMMA JoinFive ==
    ASSUME NEW S, NEW a \in Seq(S), NEW b \in Seq(S), NEW s \in Seq(S), NEW e \in Seq(S), NEW p \in Seq(S)
    PROVE  Cat(Cat(Cat(Cat(a, b), s), e), p) = Cat(a, Cat(b, Cat(s, Cat(e, p))))
<1>1. Cat(a, b) \in Seq(S) /\ Cat(e, p) \in Seq(S)
    BY JoinAssoc
<1>2. Cat(Cat(a, b), s) \in Seq(S) /\ Cat(s, Cat(e, p)) \in Seq(S)
    BY <1>1, JoinAssoc
<1>3. Cat(Cat(Cat(Cat(a, b), s), e), p) = Cat(Cat(Cat(a, b), s), Cat(e, p))
    BY <1>2, JoinAssoc
<1>4. Cat(Cat(Cat(a, b), s), Cat(e, p)) = Cat(Cat(a, b), Cat(s, Cat(e, p)))
    BY <1>1, JoinAssoc
<1>5. Cat(Cat(a, b), Cat(s, Cat(e, p))) = Cat(a, Cat(b, Cat(s, Cat(e, p))))
    BY <1>2, JoinAssoc
<1> QED BY <1>3, <1>4, <1>5

\* What one access stores.
LEMMA AccessIs ==
    ASSUME Typed, Access, NEW op \in Operations, NEW c \in Requests, NEW q \in Seq(Operations \X Requests),
           job = Then(op, c, q)
    PROVE  /\ job' = q
           /\ publishing' = IF op = "begin" THEN publishing \cup {c} ELSE IF op = "end" THEN publishing \ {c} ELSE publishing
           /\ acknowledged' = IF op = "acknowledge" THEN acknowledged \cup {c} ELSE acknowledged
           /\ marks' = IF op = "leaf" THEN MarkLeaf(c) ELSE IF op = "root" THEN MarkRoot(c) ELSE marks
           /\ drained' = IF op = "drained" THEN drained \cup {c} ELSE drained
           /\ op # "status" => status' = status
           /\ \A e \in Requests : e # c => status'[e] = status[e]
           /\ op = "status" => status'[c] = IF phase[c] = "done" THEN "success" ELSE "failure"
           /\ phase' = phase /\ watched' = watched /\ directory' = directory /\ index' = index
           /\ at' = at /\ walk' = walk /\ sent' = sent /\ hint' = (hint \/ q = <<>>) /\ terminal' = terminal
<1>1. Head(job) = <<op, c>> /\ Tail(job) = q
    BY ThenIs
<1>0. Head(job)[1] = op /\ Head(job)[2] = c
    BY <1>1
<1>2. status \in [Requests -> {"pending", "success", "failure"}]
    BY DEF Typed, AllTyped, SharedTyped
<1>3. job' = q /\ hint' = (hint \/ q = <<>>)
    BY <1>1 DEF Access
<1>4. /\ publishing' = IF op = "begin" THEN publishing \cup {c} ELSE IF op = "end" THEN publishing \ {c} ELSE publishing
      /\ marks' = IF op = "leaf" THEN MarkLeaf(c) ELSE IF op = "root" THEN MarkRoot(c) ELSE marks
  <2> DEFINE first == Head(job)[1]
             whose == Head(job)[2]
  <2>1. /\ publishing' = CASE first = "begin" -> publishing \cup {whose}
                            [] first = "end" -> publishing \ {whose}
                            [] OTHER -> publishing
        /\ marks' = CASE first = "leaf" -> MarkLeaf(whose) [] first = "root" -> MarkRoot(whose) [] OTHER -> marks
      BY DEF Access
  <2>2. first = op /\ whose = c
      BY <1>0
  <2> HIDE DEF first, whose
  <2> QED BY <2>1, <2>2
<1>5. /\ acknowledged' = IF op = "acknowledge" THEN acknowledged \cup {c} ELSE acknowledged
      /\ drained' = IF op = "drained" THEN drained \cup {c} ELSE drained
    BY <1>0 DEF Access
<1>6. status' = IF op = "status" THEN [status EXCEPT ![c] = IF phase[c] = "done" THEN "success" ELSE "failure"]
                ELSE status
    BY <1>0 DEF Access
<1>7. /\ op # "status" => status' = status
      /\ \A e \in Requests : e # c => status'[e] = status[e]
      /\ op = "status" => status'[c] = IF phase[c] = "done" THEN "success" ELSE "failure"
    BY <1>2, <1>6
<1>8. /\ phase' = phase /\ watched' = watched /\ directory' = directory /\ index' = index
      /\ at' = at /\ walk' = walk /\ sent' = sent /\ terminal' = terminal
    BY DEF Access, book
<1> QED BY <1>3, <1>4, <1>5, <1>7, <1>8

\* The accesses, and what the parts of a publication are.
Word == Operations \X Requests
\* The parts of a publication are sequences of accesses.
LEMMA PartsAreTyped ==
    ASSUME NEW c \in Requests
    PROVE  /\ <<>> \in Seq(Word) /\ Then("root", c, <<>>) \in Seq(Word) /\ PathLeft(c) \in Seq(Word)
           /\ EndLeft(c) \in Seq(Word) /\ Then("acknowledge", c, <<>>) \in Seq(Word)
           /\ Then("root", c, Then("acknowledge", c, <<>>)) \in Seq(Word)
           /\ \A q \in Seq(Word) : /\ Then("status", c, q) \in Seq(Word)
                                   /\ Then("leaf", c, Then("root", c, q)) \in Seq(Word)
                                   /\ Then("root", c, q) \in Seq(Word)
           /\ \A q \in {<<>>, EndLeft(c)} : \A p \in StoresThat(c, q) : p \notin StoresOver(c, q)
           /\ Operations = {"begin", "leaf", "root", "status", "drained", "end", "acknowledge"}
<1>1. /\ <<>> \in Seq(Word) /\ Then("root", c, <<>>) \in Seq(Word) /\ PathLeft(c) \in Seq(Word)
      /\ EndLeft(c) \in Seq(Word) /\ Then("acknowledge", c, <<>>) \in Seq(Word)
      /\ Then("root", c, Then("acknowledge", c, <<>>)) \in Seq(Word)
    BY EndsAreTyped DEF Word
<1>2. ASSUME NEW q \in Seq(Word)
      PROVE  Then("status", c, q) \in Seq(Word) /\ Then("root", c, q) \in Seq(Word)
    BY ThenIs DEF Word, Operations
<1>3. ASSUME NEW q \in Seq(Word) PROVE Then("leaf", c, Then("root", c, q)) \in Seq(Word)
  <2>1. Then("root", c, q) \in Seq(Word)
      BY <1>2
  <2> QED BY <2>1, ThenIs DEF Word, Operations
<1>4. ASSUME NEW q \in Seq(Word), NEW p \in StoresThat(c, q) PROVE p \notin StoresOver(c, q)
  <2>1. Then("status", c, q) \in Seq(Word)
      BY <1>2
  <2>2. Head(Then("status", c, q)) = <<"status", c>>
      BY ThenIs DEF Word, Operations
  <2>3. Head(Then("drained", c, q)) = <<"drained", c>>
      BY ThenIs DEF Word, Operations
  <2>4. Head(Then("drained", c, Then("status", c, q))) = <<"drained", c>>
      BY <2>1, ThenIs DEF Word, Operations
  <2>5. <<"status", c>> # <<"drained", c>>
      OBVIOUS
  <2> QED BY <1>4, <2>2, <2>3, <2>4, <2>5 DEF StoresThat, StoresOver
<1> QED BY <1>1, <1>2, <1>3, <1>4 DEF Operations

\* What follows what.
LEMMA ThenThen ==
    ASSUME NEW op \in Operations, NEW c \in Requests, NEW q \in Seq(Word), NEW r \in Seq(Word)
    PROVE  Cat(Then(op, c, q), r) = Then(op, c, Cat(q, r))
<1> DEFINE x == <<<<op, c>>>>
<1>1. x \in Seq(Word)
    BY DEF Word
<1> HIDE DEF x
<1>2. Cat(Cat(x, q), r) = Cat(x, Cat(q, r))
    BY <1>1, JoinAssoc
<1> QED BY <1>2 DEF Then, Cat, x

\* A publication, as the accesses that it consists of.
LEMMA PublicationIs ==
    ASSUME NEW c \in Requests
    PROVE  /\ MarkPath(c) = PathLeft(c)
           /\ MarkPath(c) \o <<<<"acknowledge", c>>>> = Then("leaf", c, Then("root", c, Then("acknowledge", c, <<>>)))
           /\ <<<<"drained", c>>, <<"status", c>>>> = Then("drained", c, Then("status", c, <<>>))
           /\ <<<<"drained", c>>>> = Then("drained", c, <<>>) /\ <<<<"status", c>>>> = Then("status", c, <<>>)
<1>1. /\ <<"leaf", c>> \in Word /\ <<"root", c>> \in Word /\ <<"drained", c>> \in Word /\ <<"status", c>> \in Word
      /\ <<"acknowledge", c>> \in Word
    BY DEF Word, Operations
<1>2. ASSUME NEW x \in Word PROVE <<x>> = <<x>> \o <<>> /\ <<x>> \in Seq(Word)
    BY ConcatEmptySeq
<1>3. MarkPath(c) = <<<<"leaf", c>>>> \o <<<<"root", c>>>>
    BY <1>1, TwoInOne DEF MarkPath
<1>4. Then("root", c, <<>>) = <<<<"root", c>>>> /\ Then("acknowledge", c, <<>>) = <<<<"acknowledge", c>>>>
    BY <1>1, <1>2 DEF Then
<1>5. MarkPath(c) = PathLeft(c)
    BY <1>3, <1>4 DEF PathLeft, Then
<1> DEFINE leaf == <<<<"leaf", c>>>>
           root == <<<<"root", c>>>>
           ack == <<<<"acknowledge", c>>>>
<1>6. leaf \in Seq(Word) /\ root \in Seq(Word) /\ ack \in Seq(Word)
    BY <1>1, <1>2
<1> HIDE DEF leaf, root, ack
<1>7. Cat(Cat(leaf, root), ack) = Cat(leaf, Cat(root, ack))
    BY <1>6, JoinAssoc
<1>8. MarkPath(c) \o <<<<"acknowledge", c>>>> = Then("leaf", c, Then("root", c, Then("acknowledge", c, <<>>)))
    BY <1>3, <1>4, <1>7 DEF Then, leaf, root, ack, Cat
<1>9. <<<<"drained", c>>>> = Then("drained", c, <<>>) /\ <<<<"status", c>>>> = Then("status", c, <<>>)
    BY <1>1, <1>2 DEF Then
<1>10. <<<<"drained", c>>, <<"status", c>>>> = <<<<"drained", c>>>> \o <<<<"status", c>>>>
    BY <1>1, TwoInOne
<1>11. <<<<"drained", c>>, <<"status", c>>>> = Then("drained", c, Then("status", c, <<>>))
    BY <1>9, <1>10 DEF Then
<1> QED BY <1>5, <1>8, <1>9, <1>11

\* The accesses around the stores of a watched request.
LEMMA BracketIs ==
    ASSUME NEW c \in Requests, c \in watched, NEW stores \in Seq(Word)
    PROVE  Publication(c, stores) = Then("begin", c, Then("leaf", c, Then("root", c, Cat(stores, EndLeft(c)))))
<1>1. /\ "begin" \in Operations /\ "leaf" \in Operations /\ "root" \in Operations /\ "end" \in Operations
    BY DEF Operations
<1> DEFINE begin == <<<<"begin", c>>>>
           end == <<<<"end", c>>>>
           both == PathLeft(c)
           q == Cat(stores, EndLeft(c))
<1>2. begin \in Seq(Word) /\ end \in Seq(Word) /\ both \in Seq(Word) /\ Cat(end, both) = EndLeft(c)
  <2>1. begin \in Seq(Word) /\ end \in Seq(Word)
      BY <1>1 DEF Word
  <2> QED BY <2>1, PartsAreTyped DEF EndLeft, Then, Cat
<1>3. Publication(c, stores) = Cat(Cat(Cat(Cat(begin, both), stores), end), both)
    BY PublicationIs DEF Publication, Cat
<1> HIDE DEF begin, end, both
<1>4. Cat(Cat(Cat(Cat(begin, both), stores), end), both) = Cat(begin, Cat(both, Cat(stores, Cat(end, both))))
    BY <1>2, JoinFive
<1>5. q \in Seq(Word) /\ <<>> \in Seq(Word) /\ Then("root", c, <<>>) \in Seq(Word) /\ Cat(<<>>, q) = q
  <2>1. EndLeft(c) \in Seq(Word) /\ <<>> \in Seq(Word) /\ Then("root", c, <<>>) \in Seq(Word)
      BY PartsAreTyped
  <2>2. q \in Seq(Word)
      BY <2>1, JoinAssoc
  <2> HIDE DEF q
  <2>3. Cat(<<>>, q) = q
      BY <2>2, ConcatEmptySeq DEF Cat
  <2> QED BY <2>1, <2>2, <2>3
<1>6. Publication(c, stores) = Cat(begin, Cat(both, q))
    BY <1>2, <1>3, <1>4 DEF q
<1> HIDE DEF q
<1>7. Cat(Then("root", c, <<>>), q) = Then("root", c, q)
  <2>1. PICK none \in Seq(Word) : none = <<>>
      BY <1>5
  <2>2. PICK op \in Operations : op = "root"
      BY <1>1
  <2>3. Cat(Then(op, c, none), q) = Then(op, c, Cat(none, q))
      BY <1>5, ThenThen
  <2> QED BY <1>5, <2>1, <2>2, <2>3
<1>8. Cat(Then("leaf", c, Then("root", c, <<>>)), q) = Then("leaf", c, Then("root", c, q))
    BY <1>1, <1>5, <1>7, ThenThen
<1>9. Publication(c, stores) = Then("begin", c, Then("leaf", c, Then("root", c, q)))
    BY <1>6, <1>8 DEF both, PathLeft, begin, Then, Cat
<1> QED BY <1>9 DEF q

\* Whatever leaves the worker and the marks of its publication alone keeps its order.
LEMMA WorkerIsKept ==
    ASSUME WorkerInOrder, job' = job, drained' = drained, publishing' = publishing, acknowledged' = acknowledged,
           watched' = watched, status' = status, 1..sent \subseteq Requests, 1..sent \subseteq 1..sent',
           \A c \in Requests : phase'[c] = "done" => phase[c] = "done",
           \A c \in directory'.entries : c \in watched /\ c \in publishing =>
               c \in directory.entries /\ (Marked(c) => Marked(c)') /\ (Tracked(c) => Tracked(c)')
    PROVE  WorkerInOrder'
<1>1. \A s \in SUBSET Requests : DoneIn(s) => DoneIn(s)'
    BY DEF DoneIn
<1>2. CASE job = <<>> /\ DoneIn(Requests)
    BY <1>1, <1>2 DEF WorkerInOrder
<1>3. ASSUME NEW c \in 1..sent, DoneIn(Requests \ {c}), Underway(c)
      PROVE  WorkerInOrder'
  <2>1. c \in Requests /\ c \in 1..sent' /\ DoneIn(Requests \ {c})' /\ (DoneIn({c}) => DoneIn({c})')
      BY <1>1, <1>3
  <2>2. Underway(c)'
    <3>1. CASE DoneIn({c}) /\ job \in {EndLeft(c), PathLeft(c), Then("root", c, <<>>)}
        BY <2>1, <3>1 DEF Underway
    <3>2. CASE c \notin watched /\ job \in StoresThat(c, <<>>)
        BY <3>2 DEF Underway
    <3>3. CASE DoneIn({c}) /\ job \in StoresOver(c, <<>>)
        BY <2>1, <3>3 DEF Underway
    <3>4. CASE /\ c \in watched \cup drained /\ DoneIn({c})
               /\ job \in {Then("leaf", c, Then("root", c, Then("acknowledge", c, <<>>))),
                           Then("root", c, Then("acknowledge", c, <<>>)), Then("acknowledge", c, <<>>)}
        BY <2>1, <3>4 DEF Underway
    <3>5. CASE c \in watched /\ \E q \in Stores(c, EndLeft(c)) :
                 /\ q \in StoresOver(c, EndLeft(c)) => DoneIn({c})
                 /\ \/ job = Then("begin", c, Then("leaf", c, Then("root", c, q)))
                    \/ c \in publishing /\ job = Then("leaf", c, Then("root", c, q))
                    \/ c \in publishing /\ job = Then("root", c, q) /\ (c \in directory.entries => Marked(c))
                    \/ c \in publishing /\ job = q /\ (c \in directory.entries => Tracked(c))
      <4>1. PICK q \in Stores(c, EndLeft(c)) :
                 /\ q \in StoresOver(c, EndLeft(c)) => DoneIn({c})
                 /\ \/ job = Then("begin", c, Then("leaf", c, Then("root", c, q)))
                    \/ c \in publishing /\ job = Then("leaf", c, Then("root", c, q))
                    \/ c \in publishing /\ job = Then("root", c, q) /\ (c \in directory.entries => Marked(c))
                    \/ c \in publishing /\ job = q /\ (c \in directory.entries => Tracked(c))
          BY <3>5
      <4>2. c \in publishing /\ (c \in directory.entries => Marked(c)) => (c \in directory'.entries => Marked(c)')
          BY <3>5
      <4>3. c \in publishing /\ (c \in directory.entries => Tracked(c)) => (c \in directory'.entries => Tracked(c)')
          BY <3>5
      <4>4. q \in StoresOver(c, EndLeft(c)) => DoneIn({c})'
          BY <2>1, <4>1
      <4>5. \/ job' = Then("begin", c, Then("leaf", c, Then("root", c, q)))
            \/ c \in publishing' /\ job' = Then("leaf", c, Then("root", c, q))
            \/ c \in publishing' /\ job' = Then("root", c, q) /\ (c \in directory'.entries => Marked(c)')
            \/ c \in publishing' /\ job' = q /\ (c \in directory'.entries => Tracked(c)')
          BY <4>1, <4>2, <4>3
      <4> QED BY <3>5, <4>4, <4>5 DEF Underway
    <3> QED BY <1>3, <3>1, <3>2, <3>3, <3>4, <3>5 DEF Underway
  <2> QED BY <2>1, <2>2 DEF WorkerInOrder
<1> QED BY <1>2, <1>3 DEF WorkerInOrder

\* What an access must leave to be followed by others.
Goes(c) == (job' = <<>> /\ DoneIn({c})') \/ Underway(c)'
\* An access takes its publication one step further, and no other.
LEMMA AccessGoes ==
    ASSUME Typed, WorkerInOrder, Access, NEW c \in Requests, c \in 1..sent, DoneIn(Requests \ {c}),
           NEW op \in Operations, NEW q \in Seq(Word), job = Then(op, c, q),
           op = "status" => DoneIn({c}), op = "acknowledge" => c \in watched \cup drained, Goes(c)
    PROVE  WorkerInOrder'
<1>1. q \in Seq(Operations \X Requests)
    BY DEF Word
<1>2. drained \subseteq drained' /\ phase' = phase /\ sent' = sent /\ watched' = watched
    BY <1>1, AccessIs
<1>3. \A e \in Requests : status'[e] = "success" => e \in drained'
  <2>1. CASE op # "status"
      BY <1>1, <1>2, <2>1, AccessIs DEF WorkerInOrder
  <2>2. CASE op = "status"
    <3>1. \A e \in Requests : e # c => status'[e] = status[e]
        BY <1>1, AccessIs
    <3>2. status'[c] = IF phase[c] = "done" THEN "success" ELSE "failure"
        BY <1>1, <2>2, AccessIs
    <3>3. status'[c] = "success" => c \in drained
        BY <2>2, <3>2 DEF DoneIn
    <3> QED BY <1>2, <3>1, <3>3 DEF WorkerInOrder
  <2> QED BY <2>1, <2>2
<1>4. acknowledged' \subseteq watched' \cup drained'
  <2>1. acknowledged' = IF op = "acknowledge" THEN acknowledged \cup {c} ELSE acknowledged
      BY <1>1, AccessIs
  <2> QED BY <1>2, <2>1 DEF WorkerInOrder
<1>5. DoneIn(Requests \ {c})'
    BY <1>2 DEF DoneIn
<1>6. CASE job' = <<>> /\ DoneIn({c})'
  <2>1. DoneIn(Requests)'
      BY <1>5, <1>6 DEF DoneIn
  <2> QED BY <1>3, <1>4, <1>6, <2>1 DEF WorkerInOrder
<1>7. CASE Underway(c)'
    BY <1>2, <1>3, <1>4, <1>5, <1>7 DEF WorkerInOrder
<1> QED BY <1>6, <1>7 DEF Goes

\* The first half of the bracket, and the stores in it.
LEMMA BracketGoes ==
    ASSUME IInv, Access, NEW c \in Requests, c \in 1..sent, DoneIn(Requests \ {c}),
           c \in watched, NEW q \in Stores(c, EndLeft(c)), q \in StoresOver(c, EndLeft(c)) => DoneIn({c}),
           \/ job = Then("begin", c, Then("leaf", c, Then("root", c, q)))
           \/ c \in publishing /\ job = Then("leaf", c, Then("root", c, q))
           \/ c \in publishing /\ job = Then("root", c, q) /\ (c \in directory.entries => Marked(c))
           \/ c \in publishing /\ job = q /\ (c \in directory.entries => Tracked(c))
    PROVE  WorkerInOrder'
<1>1. /\ Typed /\ WorkerInOrder /\ MarksTyped /\ BookTyped /\ DirectoryInOrder /\ EnrolledHaveFailed
    BY DEF IInv, Typed, AllTyped
<1>2. /\ EndLeft(c) \in Seq(Word) /\ Then("status", c, EndLeft(c)) \in Seq(Word)
      /\ \A p \in StoresThat(c, EndLeft(c)) : p \notin StoresOver(c, EndLeft(c))
      /\ Operations = {"begin", "leaf", "root", "status", "drained", "end", "acknowledge"}
    BY PartsAreTyped
<1>3. q \in Seq(Word) /\ Then("root", c, q) \in Seq(Word) /\ Then("leaf", c, Then("root", c, q)) \in Seq(Word)
  <2>1. q \in Seq(Word)
      BY EndsAreTyped DEF Word
  <2> QED BY <2>1, PartsAreTyped
<1>4. /\ directory' = directory /\ index' = index /\ at' = at /\ walk' = walk /\ watched' = watched /\ phase' = phase
      /\ spent' = spent
    BY DEF Access, book
<1>5. Branch(c)' = Branch(c)
    BY <1>4 DEF Branch, Id
<1>6. CASE job = Then("begin", c, Then("leaf", c, Then("root", c, q)))
  <2>1. PICK op \in Operations : op = "begin"
      BY <1>2
  <2>2. PICK r \in Seq(Word) : r = Then("leaf", c, Then("root", c, q))
      BY <1>3
  <2>3. job' = r /\ publishing' = publishing \cup {c} /\ drained' = drained
      BY <1>1, <1>6, <2>1, <2>2, AccessIs DEF Word
  <2>4. DoneIn({c}) => DoneIn({c})'
      BY <1>4, <2>3 DEF DoneIn
  <2>5. Underway(c)'
      BY <1>4, <2>2, <2>3, <2>4 DEF Underway
  <2> QED BY <1>1, <1>6, <2>1, <2>2, <2>5, AccessGoes DEF Goes
<1>7. CASE c \in publishing /\ job = Then("leaf", c, Then("root", c, q))
  <2>1. PICK op \in Operations : op = "leaf"
      BY <1>2
  <2>2. PICK r \in Seq(Word) : r = Then("root", c, q)
      BY <1>3
  <2>3. job' = r /\ publishing' = publishing /\ drained' = drained /\ marks' = MarkLeaf(c)
      BY <1>1, <1>7, <2>1, <2>2, AccessIs DEF Word
  <2>4. DoneIn({c}) => DoneIn({c})'
      BY <1>4, <2>3 DEF DoneIn
  <2>5. c \in directory'.entries => Marked(c)'
      BY <1>1, <1>4, <1>5, <2>3, EntriesAreMarked DEF Marked
  <2>6. Underway(c)'
      BY <1>4, <1>7, <2>2, <2>3, <2>4, <2>5 DEF Underway
  <2> QED BY <1>1, <1>7, <2>1, <2>2, <2>6, AccessGoes DEF Goes
<1>8. CASE c \in publishing /\ job = Then("root", c, q) /\ (c \in directory.entries => Marked(c))
  <2>1. PICK op \in Operations : op = "root"
      BY <1>2
  <2>2. PICK r \in Seq(Word) : r = q
      BY <1>3
  <2>3. job' = r /\ publishing' = publishing /\ drained' = drained /\ marks' = MarkRoot(c)
      BY <1>1, <1>8, <2>1, <2>2, AccessIs DEF Word
  <2>4. DoneIn({c}) => DoneIn({c})'
      BY <1>4, <2>3 DEF DoneIn
  <2>5. c \in directory'.entries => Tracked(c)'
    <3>1. c \in directory.entries => Branch(c) \in MarkRoot(c).root /\ Marked(c)
        BY <1>1, <1>8, EntriesAreMarked
    <3>2. MarkRoot(c).leaf = marks.leaf
        BY <1>1, MarksGrow
    <3> QED BY <1>4, <1>5, <2>3, <3>1, <3>2 DEF Marked, Tracked, InHand
  <2>6. Underway(c)'
      BY <1>4, <1>8, <2>2, <2>3, <2>4, <2>5 DEF Underway
  <2> QED BY <1>1, <1>8, <2>1, <2>2, <2>6, AccessGoes DEF Goes
<1>9. CASE c \in publishing /\ job = q /\ (c \in directory.entries => Tracked(c))
  <2>1. PICK r \in Seq(Word) : r = EndLeft(c)
      BY <1>2
  <2>2. PICK s \in Seq(Word) : s = Then("status", c, EndLeft(c))
      BY <1>2
  <2>3. CASE q = Then("status", c, r)
    <3>1. PICK op \in Operations : op = "status"
        BY <1>2
    <3>2. job' = r /\ drained' = drained
        BY <1>1, <1>9, <2>3, <3>1, AccessIs DEF Word
    <3>3. DoneIn({c}) /\ DoneIn({c})'
      <4>1. q \in StoresOver(c, EndLeft(c))
          BY <2>1, <2>3 DEF StoresOver
      <4> QED BY <1>4, <3>2, <4>1 DEF DoneIn
    <3>4. Underway(c)'
        BY <2>1, <3>2, <3>3 DEF Underway
    <3> QED BY <1>1, <1>9, <2>3, <3>1, <3>3, <3>4, AccessGoes DEF Goes
  <2>4. CASE q = Then("drained", c, r)
    <3>1. PICK op \in Operations : op = "drained"
        BY <1>2
    <3>2. job' = r /\ drained' = drained \cup {c}
        BY <1>1, <1>9, <2>4, <3>1, AccessIs DEF Word
    <3>3. DoneIn({c})'
        BY <3>2 DEF DoneIn
    <3>4. Underway(c)'
        BY <2>1, <3>2, <3>3 DEF Underway
    <3> QED BY <1>1, <1>9, <2>4, <3>1, <3>4, AccessGoes DEF Goes
  <2>5. CASE q = Then("drained", c, s)
    <3>1. PICK op \in Operations : op = "drained"
        BY <1>2
    <3>2. job' = s /\ drained' = drained \cup {c} /\ publishing' = publishing /\ marks' = marks
        BY <1>1, <1>9, <2>5, <3>1, AccessIs DEF Word
    <3>3. DoneIn({c})'
        BY <3>2 DEF DoneIn
    <3>4. c \in directory'.entries => Tracked(c)'
        BY <1>4, <1>5, <1>9, <3>2 DEF Tracked, InHand, branch
    <3>5. job' \in Stores(c, EndLeft(c))
        BY <2>2, <3>2 DEF Stores, StoresOver
    <3>6. Underway(c)'
        BY <1>4, <1>9, <3>2, <3>3, <3>4, <3>5 DEF Underway
    <3> QED BY <1>1, <1>9, <2>5, <3>1, <3>6, AccessGoes DEF Goes
  <2> QED BY <2>1, <2>2, <2>3, <2>4, <2>5 DEF Stores, StoresThat, StoresOver
<1> QED BY <1>6, <1>7, <1>8, <1>9

\* An access after which the request needs no more than to be accounted for.
LEMMA PlainAccess ==
    ASSUME Typed, WorkerInOrder, Access, NEW c \in Requests, c \in 1..sent, DoneIn(Requests \ {c}),
           NEW op \in {"leaf", "root", "status", "drained", "end", "acknowledge"}, NEW q \in Seq(Word),
           job = Then(op, c, q), op = "drained" \/ DoneIn({c}), op = "acknowledge" => c \in watched \cup drained,
           (q = <<>> \/ q \in {PathLeft(c), Then("root", c, <<>>)} \cup StoresOver(c, <<>>)
             \/ (/\ c \in watched \cup drained
                 /\ q \in {Then("root", c, Then("acknowledge", c, <<>>)), Then("acknowledge", c, <<>>)}))
    PROVE  WorkerInOrder'
<1>1. op \in Operations /\ q \in Seq(Operations \X Requests)
    BY DEF Operations, Word
<1>2. job' = q /\ drained \subseteq drained' /\ phase' = phase /\ watched' = watched
      /\ (op = "drained" => drained' = drained \cup {c})
    BY <1>1, AccessIs
<1>3. DoneIn({c})'
    BY <1>2 DEF DoneIn
<1>4. Goes(c)
    BY <1>2, <1>3 DEF Goes, Underway
<1> QED BY <1>1, <1>4, AccessGoes

\* So the worker stays within one publication.
LEMMA AccessInOrder ==
    ASSUME IInv, Access PROVE WorkerInOrder'
<1>1. Typed /\ WorkerInOrder /\ job # <<>>
    BY DEF IInv, Access
<1>2. PICK c \in Requests : c \in 1..sent /\ Underway(c) /\ DoneIn(Requests \ {c})
    BY <1>1, HeadIsSent
<1>3. /\ <<>> \in Seq(Word) /\ Then("root", c, <<>>) \in Seq(Word) /\ PathLeft(c) \in Seq(Word)
      /\ EndLeft(c) \in Seq(Word) /\ Then("acknowledge", c, <<>>) \in Seq(Word)
      /\ Then("root", c, Then("acknowledge", c, <<>>)) \in Seq(Word)
      /\ Then("status", c, <<>>) \in Seq(Word)
    BY PartsAreTyped
<1>4. CASE c \in watched /\ \E q \in Stores(c, EndLeft(c)) :
             /\ q \in StoresOver(c, EndLeft(c)) => DoneIn({c})
             /\ \/ job = Then("begin", c, Then("leaf", c, Then("root", c, q)))
                \/ c \in publishing /\ job = Then("leaf", c, Then("root", c, q))
                \/ c \in publishing /\ job = Then("root", c, q) /\ (c \in directory.entries => Marked(c))
                \/ c \in publishing /\ job = q /\ (c \in directory.entries => Tracked(c))
    BY <1>2, <1>4, BracketGoes
<1> DEFINE plain == {"leaf", "root", "status", "drained", "end", "acknowledge"}
<1>5. ASSUME NEW op \in plain, NEW q \in Seq(Word),
             job = Then(op, c, q), op = "drained" \/ DoneIn({c}), op = "acknowledge" => c \in watched \cup drained,
             (q = <<>> \/ q \in {PathLeft(c), Then("root", c, <<>>)} \cup StoresOver(c, <<>>)
                \/ (/\ c \in watched \cup drained
                    /\ q \in {Then("root", c, Then("acknowledge", c, <<>>)), Then("acknowledge", c, <<>>)}))
      PROVE  WorkerInOrder'
    BY <1>1, <1>2, <1>5, PlainAccess
<1>6. CASE DoneIn({c}) /\ job \in {EndLeft(c), PathLeft(c), Then("root", c, <<>>)}
  <2>1. CASE job = EndLeft(c)
    <3>1. PICK op \in plain : op = "end"
        OBVIOUS
    <3>2. job = Then(op, c, PathLeft(c))
        BY <2>1, <3>1 DEF EndLeft
    <3> QED BY <1>3, <1>5, <1>6, <3>1, <3>2
  <2>2. CASE job = PathLeft(c)
    <3>1. PICK op \in plain : op = "leaf"
        OBVIOUS
    <3>2. job = Then(op, c, Then("root", c, <<>>))
        BY <2>2, <3>1 DEF PathLeft
    <3> QED BY <1>3, <1>5, <1>6, <3>1, <3>2
  <2>3. CASE job = Then("root", c, <<>>)
    <3>1. PICK op \in plain : op = "root"
        OBVIOUS
    <3>2. PICK q \in Seq(Word) : q = <<>>
        BY <1>3
    <3>3. job = Then(op, c, q)
        BY <2>3, <3>1, <3>2
    <3> QED BY <1>5, <1>6, <3>1, <3>2, <3>3
  <2> QED BY <1>6, <2>1, <2>2, <2>3
<1>7. CASE c \notin watched /\ job \in StoresThat(c, <<>>)
  <2>1. PICK op \in plain : op = "drained"
      OBVIOUS
  <2>2. PICK q \in Seq(Word) : q \in {<<>>, Then("status", c, <<>>)} /\ job = Then(op, c, q)
      BY <1>3, <1>7, <2>1 DEF StoresThat
  <2> QED BY <1>5, <2>1, <2>2 DEF StoresOver
<1>8. CASE DoneIn({c}) /\ job \in StoresOver(c, <<>>)
  <2>1. PICK op \in plain : op = "status"
      OBVIOUS
  <2>2. PICK q \in Seq(Word) : q = <<>>
      BY <1>3
  <2>3. job = Then(op, c, q)
      BY <1>8, <2>1, <2>2 DEF StoresOver
  <2> QED BY <1>5, <1>8, <2>1, <2>2, <2>3
<1>9. CASE /\ c \in watched \cup drained /\ DoneIn({c})
           /\ job \in {Then("leaf", c, Then("root", c, Then("acknowledge", c, <<>>))),
                       Then("root", c, Then("acknowledge", c, <<>>)), Then("acknowledge", c, <<>>)}
  <2>1. CASE job = Then("leaf", c, Then("root", c, Then("acknowledge", c, <<>>)))
    <3>1. PICK op \in plain : op = "leaf"
        OBVIOUS
    <3> QED BY <1>3, <1>5, <1>9, <2>1, <3>1
  <2>2. CASE job = Then("root", c, Then("acknowledge", c, <<>>))
    <3>1. PICK op \in plain : op = "root"
        OBVIOUS
    <3> QED BY <1>3, <1>5, <1>9, <2>2, <3>1
  <2>3. CASE job = Then("acknowledge", c, <<>>)
    <3>1. PICK op \in plain : op = "acknowledge"
        OBVIOUS
    <3>2. PICK q \in Seq(Word) : q = <<>>
        BY <1>3
    <3>3. job = Then(op, c, q)
        BY <2>3, <3>1, <3>2
    <3> QED BY <1>5, <1>9, <3>1, <3>2, <3>3
  <2> QED BY <1>9, <2>1, <2>2, <2>3
<1> QED BY <1>2, <1>4, <1>6, <1>7, <1>8, <1>9 DEF Underway

\* What the worker takes up is under way.
LEMMA PublicationStarts ==
    ASSUME IInv, NEW c \in Requests, job = <<>>, phase[c] # "none", NEW over \in {"failed", "done"},
           phase' = [phase EXCEPT ![c] = over], watched' = watched, sent' = sent,
           UNCHANGED shared, NEW stores \in Seq(Word),
           stores \in Stores(c, <<>>), stores \in StoresOver(c, <<>>) => over = "failed",
           job' = Publication(c, stores)
    PROVE  WorkerInOrder'
<1>1. /\ Typed /\ WorkerInOrder /\ WorkerTyped /\ BookTyped /\ UnsentAreBlank /\ DoneIn(Requests)
  <2>1. ~\E d \in 1..sent : Underway(d)
    <3>1. 1..sent \subseteq Requests
        BY BoundsAssumption DEF IInv, Typed, AllTyped, BookTyped, Requests
    <3> QED BY <3>1, HeadOfJob
  <2> QED BY <2>1 DEF IInv, Typed, AllTyped, WorkerInOrder
<1>2. c \in 1..sent'
    BY <1>1 DEF UnsentAreBlank, BookTyped, Requests
<1>3. phase'[c] = over /\ \A e \in Requests : e # c => phase'[e] = phase[e]
    BY <1>1 DEF WorkerTyped
<1>4. drained' = drained /\ status' = status /\ acknowledged' = acknowledged
    BY DEF shared
<1>5. DoneIn(Requests \ {c})' /\ (over = "failed" => DoneIn({c})')
    BY <1>1, <1>3, <1>4 DEF DoneIn
<1>6. Underway(c)'
  <2>1. CASE c \notin watched
    <3>1. job' = stores
        BY <2>1 DEF Publication
    <3> QED BY <1>5, <2>1, <3>1 DEF Underway, Stores
  <2>2. CASE c \in watched
    <3> DEFINE q == Cat(stores, EndLeft(c))
    <3>1. job' = Then("begin", c, Then("leaf", c, Then("root", c, q)))
        BY <2>2, BracketIs
    <3>2. PICK status1 \in Operations, drained1 \in Operations : status1 = "status" /\ drained1 = "drained"
        BY DEF Operations
    <3>3. PICK none \in Seq(Word), left \in Seq(Word) : none = <<>> /\ left = EndLeft(c) /\ Cat(none, left) = left
      <4>1. EndLeft(c) \in Seq(Word) /\ <<>> \in Seq(Word)
          BY PartsAreTyped
      <4>2. Cat(<<>>, EndLeft(c)) = EndLeft(c)
          BY <4>1, ConcatEmptySeq DEF Cat
      <4> QED BY <4>1, <4>2
    <3>4. Then(status1, c, none) \in Seq(Word)
        BY <3>2, <3>3, PartsAreTyped
    <3>5. Cat(Then(status1, c, none), left) = Then(status1, c, left)
      <4>1. Cat(Then(status1, c, none), left) = Then(status1, c, Cat(none, left))
          BY ThenThen
      <4> QED BY <3>3, <4>1
    <3>6. Cat(Then(drained1, c, none), left) = Then(drained1, c, left)
      <4>1. Cat(Then(drained1, c, none), left) = Then(drained1, c, Cat(none, left))
          BY ThenThen
      <4> QED BY <3>3, <4>1
    <3>7. Cat(Then(drained1, c, Then(status1, c, none)), left) = Then(drained1, c, Cat(Then(status1, c, none), left))
        BY <3>3, <3>4, ThenThen
    <3>8. stores \in {Then(status1, c, none), Then(drained1, c, none), Then(drained1, c, Then(status1, c, none))}
        BY <3>2, <3>3 DEF Stores, StoresThat, StoresOver
    <3>9. q \in Stores(c, EndLeft(c))
        BY <3>2, <3>3, <3>5, <3>6, <3>7, <3>8 DEF Stores, StoresThat, StoresOver
    <3>10. q \in StoresOver(c, EndLeft(c)) => over = "failed"
      <4>1. CASE stores = Then(status1, c, none)
          BY <3>2, <3>3, <4>1 DEF StoresOver
      <4>2. CASE stores # Then(status1, c, none)
        <5>1. q \in StoresThat(c, EndLeft(c))
            BY <3>2, <3>3, <3>5, <3>6, <3>7, <3>8, <4>2 DEF StoresThat
        <5> QED BY <5>1, PartsAreTyped
      <4> QED BY <4>1, <4>2
    <3> HIDE DEF q
    <3> QED BY <1>5, <2>2, <3>1, <3>9, <3>10 DEF Underway
  <2> QED BY <2>1, <2>2
<1> QED BY <1>1, <1>2, <1>4, <1>5, <1>6 DEF WorkerInOrder

\* A publication or subscription that the worker takes up is at its beginning.
LEMMA TakesUpInOrder ==
    ASSUME IInv, NEW c \in Requests, Succeed(c) \/ Fail(c) \/ Drain(c) \/ WatchDrain(c) PROVE WorkerInOrder'
<1>1. /\ Typed /\ WorkerInOrder /\ WorkerTyped /\ BookTyped /\ UnsentAreBlank /\ EnrolledHaveFailed
    BY DEF IInv, Typed, AllTyped
<1>2. /\ <<>> \in Seq(Word) /\ Then("status", c, <<>>) \in Seq(Word)
      /\ Then("acknowledge", c, <<>>) \in Seq(Word)
      /\ \A p \in StoresThat(c, <<>>) : p \notin StoresOver(c, <<>>)
      /\ {"status", "drained"} \subseteq Operations
    BY PartsAreTyped
<1>3. Then("drained", c, <<>>) \in Seq(Word) /\ Then("drained", c, Then("status", c, <<>>)) \in Seq(Word)
    BY <1>2, ThenIs DEF Word
<1>4. CASE Succeed(c)
  <2>1. PICK stores \in Seq(Word) : stores = <<<<"drained", c>>, <<"status", c>>>> /\ stores \in StoresThat(c, <<>>)
      BY <1>3, PublicationIs DEF StoresThat
  <2>2. /\ job = <<>> /\ phase[c] # "none" /\ phase' = [phase EXCEPT ![c] = "done"] /\ watched' = watched
        /\ sent' = sent /\ UNCHANGED shared /\ job' = Publication(c, stores)
      BY <1>4, <2>1 DEF Succeed, book
  <2> QED BY <1>2, <2>1, <2>2, PublicationStarts DEF Stores
<1>5. CASE Fail(c)
  <2>1. PICK stores \in Seq(Word) : stores = <<<<"status", c>>>> /\ stores \in StoresOver(c, <<>>)
      BY <1>2, PublicationIs DEF StoresOver
  <2>2. /\ job = <<>> /\ phase[c] # "none" /\ phase' = [phase EXCEPT ![c] = "failed"] /\ watched' = watched
        /\ sent' = sent /\ UNCHANGED shared /\ job' = Publication(c, stores)
      BY <1>5, <2>1 DEF Fail, book
  <2> QED BY <1>2, <2>1, <2>2, PublicationStarts DEF Stores
<1>6. CASE Drain(c)
  <2>1. PICK stores \in Seq(Word) : stores = <<<<"drained", c>>>> /\ stores \in StoresThat(c, <<>>)
      BY <1>3, PublicationIs DEF StoresThat
  <2>2. /\ job = <<>> /\ phase[c] # "none" /\ phase' = [phase EXCEPT ![c] = "done"] /\ watched' = watched
        /\ sent' = sent /\ UNCHANGED shared /\ job' = Publication(c, stores)
      BY <1>6, <2>1 DEF Drain, book
  <2> QED BY <1>2, <2>1, <2>2, PublicationStarts DEF Stores
<1>7. CASE WatchDrain(c)
  <2>1. /\ job = <<>> /\ c \in subscriptions /\ watched' = (IF phase[c] = "done" THEN watched ELSE watched \cup {c})
        /\ job' = MarkPath(c) \o <<<<"acknowledge", c>>>> /\ phase' = phase /\ sent' = sent /\ UNCHANGED shared
      BY <1>7 DEF WatchDrain, book
  <2>2. DoneIn(Requests)
    <3>1. ~\E d \in 1..sent : Underway(d)
      <4>1. 1..sent \subseteq Requests
          BY <1>1, BoundsAssumption DEF BookTyped, Requests
      <4> QED BY <2>1, <4>1, HeadOfJob
    <3> QED BY <1>1, <3>1 DEF WorkerInOrder
  <2>3. drained' = drained /\ status' = status /\ acknowledged' = acknowledged
      BY <2>1 DEF shared
  <2>4. c \in 1..sent'
    <3>1. outcome[c] = "error"
        BY <1>1, <2>1 DEF EnrolledHaveFailed, Enrolled
    <3> QED BY <1>1, <2>1, <3>1 DEF UnsentAreBlank, BookTyped, Requests
  <2>5. c \in watched' \cup drained' /\ watched \subseteq watched'
      BY <2>1, <2>2, <2>3 DEF DoneIn
  <2>6. DoneIn(Requests \ {c})' /\ DoneIn({c})'
      BY <2>1, <2>2, <2>3 DEF DoneIn
  <2>7. job' = Then("leaf", c, Then("root", c, Then("acknowledge", c, <<>>)))
      BY <2>1, PublicationIs
  <2>8. Underway(c)'
      BY <2>5, <2>6, <2>7 DEF Underway
  <2> QED BY <1>1, <2>3, <2>4, <2>5, <2>6, <2>8 DEF WorkerInOrder
<1> QED BY <1>4, <1>5, <1>6, <1>7

\* No step takes the worker out of its order.
LEMMA WorkerInOrderStays == ASSUME IInv, Next PROVE WorkerInOrder'
<1>1. /\ Typed /\ WorkerInOrder /\ WorkerTyped /\ BookTyped /\ EnrolledHaveFailed /\ InspectedIsLive
      /\ 1..sent \subseteq Requests /\ sent \in Int
    BY BoundsAssumption DEF IInv, Typed, AllTyped, BookTyped, Requests
<1>2. CASE Worker
    BY <1>2, AccessInOrder, TakesUpInOrder DEF Worker
<1>3. CASE Retire \/ Account
    BY <1>1, <1>3, EndLeaves, WorkerIsKept DEF Marked, Tracked, InHand, Branch, Id, branch
<1>4. CASE Call \/ Walk \/ Scan \/ Inspection
  <2>1. /\ job' = job /\ drained' = drained /\ publishing' = publishing /\ acknowledged' = acknowledged
        /\ watched' = watched /\ status' = status
      BY <1>4, CallLeaves, WalkLeaves, ScanLeaves, InspectionLeaves
  <2>2. 1..sent \subseteq 1..sent' /\ \A c \in Requests : phase'[c] = "done" => phase[c] = "done"
    <3>1. CASE Send
        BY <1>1, <3>1 DEF Send, WorkerTyped
    <3>2. CASE FailTransfer
        BY <1>1, <3>2 DEF FailTransfer, worker
    <3>3. CASE sent' = sent /\ phase' = phase
        BY <3>3
    <3> QED BY <1>4, <3>1, <3>2, <3>3, CallLeaves, WalkLeaves, ScanLeaves, InspectionLeaves
  <2>3. ASSUME NEW c \in directory'.entries, c \in watched, c \in publishing
        PROVE  c \in directory.entries /\ (Marked(c) => Marked(c)') /\ (Tracked(c) => Tracked(c)')
    <3>1. c \in directory.entries
      <4>1. CASE Enroll
        <5>1. directory'.entries = directory.entries \cup {req} /\ req \notin watched
            BY <1>1, <4>1 DEF Enroll, AddEntry, EnrolledHaveFailed, Enrolled
        <5> QED BY <2>3, <5>1
      <4>2. CASE ~Enroll
        <5>1. directory'.entries \subseteq directory.entries
          <6>1. CASE ~Inspection
              BY <1>4, <6>1, CallLeaves, WalkLeaves, ScanLeaves
          <6>2. CASE KeepInspecting \/ LoadStatus \/ CheckActive
              BY <6>2 DEF KeepInspecting, LoadStatus, CheckActive, book
          <6>3. CASE CheckDrain
              BY <6>3 DEF CheckDrain, DeleteEntry
          <6> QED BY <4>2, <6>1, <6>2, <6>3 DEF Inspection
        <5> QED BY <2>3, <5>1
      <4> QED BY <4>1, <4>2
    <3>2. Branch(c)' = Branch(c)
      <4>1. spent' = spent
          BY <1>4, SpentStays DEF Next
      <4> QED BY <4>1 DEF Branch, Id
    <3>3. KeepsMark(c)
        BY <1>4, <2>3, <3>1, <3>2, ClientKeepsMark
    <3> QED BY <2>3, <3>1, <3>3 DEF KeepsMark
  <2> QED BY <1>1, <2>1, <2>2, <2>3, WorkerIsKept
<1> QED BY <1>2, <1>3, <1>4 DEF Next

-----------------------------------------------------------------------------
(* What is drained can be found.                                           *)

\* An inspection of an entry goes on at its drain.
LEMMA VisitOfEntry ==
    ASSUME IInv, Visit, NEW c \in directory.entries
    PROVE  \/ at' = "drain" /\ req' = c
           \/ /\ c \in index.arming => c \in index'.arming
              /\ c \in index.changed => c \in index'.changed
<1>0. PICK d : d = Min(Candidates)
    OBVIOUS
<1>1. index' = Inspect(d) /\ Refresh(d) /\ IndexTyped /\ outcome[c] = "error"
    BY <1>0 DEF Visit, IInv, Typed, AllTyped, EnrolledHaveFailed, Enrolled
<1>2. CASE c = d
    BY <1>1, <1>2 DEF Refresh
<1>3. CASE c # d
    BY <1>1, <1>3, InspectIs DEF IndexIs
<1> QED BY <1>2, <1>3

\* A step of the client keeps an entry armed and changed, but for a visit of it.
LEMMA ClientKeepsEntry ==
    ASSUME IInv, Call \/ Walk \/ Scan \/ Inspection, NEW c \in directory.entries, c \in directory'.entries
    PROVE  \/ at' = "drain" /\ req' = c
           \/ /\ c \in index.arming => c \in index'.arming
              /\ c \in index.changed => c \in index'.changed
<1>1. Typed /\ IndexTyped
    BY DEF IInv, Typed, AllTyped
<1>2. CASE Visit
    BY <1>2, VisitOfEntry
<1>3. CASE Send
    BY <1>1, <1>3, SentIs DEF Send, IndexIs
<1>4. CASE Notify
  <2>0. PICK d : d = walk.found
      OBVIOUS
  <2>1. index' = SetActive([index EXCEPT !.changed = @ \cup {d},
                                        !.publishing = IF d \in publishing THEN @ \cup {d} ELSE @ \ {d}], d)
      BY <1>4, <2>0 DEF Notify
  <2> QED BY <1>1, <2>1, NoticeIs DEF IndexIs
<1>5. CASE Inspection
  <2>1. CASE CheckDrain /\ index' = index
      BY <2>1
  <2>2. CASE index' = Forget(req) /\ DeleteEntry(req)
    <3>1. c # req
        BY <2>2 DEF DeleteEntry
    <3> QED BY <1>1, <2>2, <3>1, ForgetIs DEF IndexIs
  <2>3. CASE ~CheckDrain
      BY <1>1, <1>5, <2>3, InspectionFields
  <2> QED BY <2>1, <2>2, <2>3 DEF CheckDrain
<1>6. CASE (Call \/ Walk \/ Scan) /\ ~Visit /\ ~Send /\ ~Notify
    BY <1>1, <1>6, OthersKeepFields
<1> QED BY <1>2, <1>3, <1>4, <1>5, <1>6

\* An entry that was not enrolled by this step was enrolled before.
LEMMA EntriesCome ==
    ASSUME IInv, Next, NEW c \in directory'.entries, c \notin directory.entries
    PROVE  Enroll /\ c = req
<1>1. CASE ~Inspection
    BY <1>1, DirectoryStays
<1>2. CASE KeepInspecting \/ LoadStatus \/ CheckActive
    BY <1>2 DEF KeepInspecting, LoadStatus, CheckActive, book
<1>3. CASE CheckDrain
    BY <1>3 DEF CheckDrain, DeleteEntry
<1>4. CASE Enroll
    BY <1>4 DEF Enroll, AddEntry
<1> QED BY <1>1, <1>2, <1>3, <1>4 DEF Inspection

\* An access leaves every mark, and drains tracked requests only.
LEMMA AccessTracks ==
    ASSUME IInv, Access, NEW c \in directory.entries, c \in drained'
    PROVE  Tracked(c)' \/ c \in index'.arming \cup index'.changed \/ (at' = "drain" /\ req' = c)
<1>1. /\ Typed /\ WorkerInOrder /\ NewsIsTracked /\ MarksTyped /\ BookTyped /\ DirectoryInOrder /\ EnrolledHaveFailed
    BY DEF IInv, Typed, AllTyped
<1>2. /\ index' = index /\ at' = at /\ req' = req /\ walk' = walk /\ spent' = spent
      /\ c \in Requests /\ Branch(c) \in Branches
    BY <1>1, EntriesAreMarked DEF Access, book
<1>3. Branch(c)' = Branch(c) /\ branch' = branch
    BY <1>2 DEF Branch, Id, branch
<1>4. marks.root \subseteq marks'.root /\ marks.leaf[Branch(c)] \subseteq marks'.leaf[Branch(c)]
    BY <1>1, <1>2, WorkerAddsMarks DEF Worker
<1>5. Tracked(c) => Tracked(c)'
    BY <1>2, <1>3, <1>4 DEF Tracked, InHand
<1>6. CASE c \in drained
    BY <1>1, <1>2, <1>5, <1>6 DEF NewsIsTracked
<1>7. CASE c \notin drained
  <2>1. job # <<>>
      BY DEF Access
  <2>2. PICK d \in Requests : d \in 1..sent /\ Underway(d) /\ Head(job)[2] = d
      BY <1>1, <2>1, HeadIsSent
  <2>3. d = c /\ Head(job)[1] = "drained"
      BY <1>7, <2>2 DEF Access
  <2>4. ASSUME NEW op \in Operations, NEW q \in Seq(Word), job = Then(op, c, q) PROVE op = "drained"
    <3>1. Head(job) = <<op, c>>
        BY <2>4, ThenIs, <1>2 DEF Word
    <3> QED BY <2>3, <3>1
  <2>5. /\ <<>> \in Seq(Word) /\ Then("root", c, <<>>) \in Seq(Word) /\ PathLeft(c) \in Seq(Word)
        /\ EndLeft(c) \in Seq(Word) /\ Then("acknowledge", c, <<>>) \in Seq(Word)
        /\ Then("root", c, Then("acknowledge", c, <<>>)) \in Seq(Word)
        /\ Operations = {"begin", "leaf", "root", "status", "drained", "end", "acknowledge"}
      BY <1>2, PartsAreTyped
  <2>6. PICK begin, leaf, root, end, ack, over \in Operations :
          /\ begin = "begin" /\ leaf = "leaf" /\ root = "root" /\ end = "end" /\ ack = "acknowledge" /\ over = "status"
      BY <2>5
  <2>7. PICK none \in Seq(Word) : none = <<>>
      BY <2>5
  <2>8. job \notin {EndLeft(c), PathLeft(c), Then("root", c, <<>>)}
    <3>1. EndLeft(c) = Then(end, c, PathLeft(c)) /\ PathLeft(c) = Then(leaf, c, Then("root", c, <<>>))
          /\ Then("root", c, <<>>) = Then(root, c, none)
        BY <2>6, <2>7 DEF EndLeft, PathLeft
    <3> QED BY <2>4, <2>5, <2>6, <3>1
  <2>9. job \notin {Then("leaf", c, Then("root", c, Then("acknowledge", c, <<>>))),
                    Then("root", c, Then("acknowledge", c, <<>>)), Then("acknowledge", c, <<>>)}
    <3>1. job # Then(leaf, c, Then("root", c, Then("acknowledge", c, <<>>)))
        BY <2>4, <2>5, <2>6
    <3>2. job # Then(root, c, Then("acknowledge", c, <<>>))
        BY <2>4, <2>5, <2>6
    <3>3. job # Then(ack, c, none)
        BY <2>4, <2>6
    <3> QED BY <2>6, <2>7, <3>1, <3>2, <3>3
  <2>10. job \notin StoresOver(c, <<>>)
    <3>1. job # Then(over, c, none)
        BY <2>4, <2>6
    <3> QED BY <2>6, <2>7, <3>1 DEF StoresOver
  <2>11. CASE c \notin watched
    <3>1. c \in index.arming
        BY <1>1, <1>7, <2>11 DEF NewsIsTracked, WorkerInOrder
    <3> QED BY <1>2, <3>1
  <2>12. ASSUME NEW q \in Stores(c, EndLeft(c))
         PROVE  job \notin {Then("begin", c, Then("leaf", c, Then("root", c, q))), Then("leaf", c, Then("root", c, q)),
                            Then("root", c, q)}
    <3>1. q \in Seq(Word)
        BY <1>2, EndsAreTyped DEF Word
    <3>2. Then("root", c, q) \in Seq(Word) /\ Then("leaf", c, Then("root", c, q)) \in Seq(Word)
        BY <1>2, <3>1, PartsAreTyped
    <3>3. job # Then(begin, c, Then("leaf", c, Then("root", c, q)))
        BY <2>4, <2>6, <3>2
    <3>4. job # Then(leaf, c, Then("root", c, q))
        BY <2>4, <2>6, <3>2
    <3>5. job # Then(root, c, q)
        BY <2>4, <2>6, <3>1
    <3> QED BY <2>6, <3>3, <3>4, <3>5
  <2>13. CASE c \in watched
    <3>1. Tracked(c)
        BY <2>2, <2>3, <2>8, <2>9, <2>10, <2>12, <2>13 DEF Underway
    <3> QED BY <1>5, <3>1
  <2> QED BY <2>11, <2>13
<1> QED BY <1>6, <1>7

\* No step loses track of an enrolled request that has drained.
LEMMA NewsIsTrackedStays == ASSUME IInv, Next PROVE NewsIsTracked'
<1>1. Typed /\ IndexTyped /\ NewsIsTracked /\ InspectedIsLive /\ EnrolledHaveFailed /\ DirectoryInOrder
    BY DEF IInv, Typed, AllTyped
<1>2. \A c : Branch(c)' = Branch(c)
    BY SpentStays DEF Branch, Id
<1>3. CASE Access
  <2>1. directory' = directory /\ index' = index /\ acknowledged \subseteq acknowledged'
      BY <1>3 DEF Access, book
  <2> QED BY <1>1, <1>3, <2>1, AccessTracks DEF NewsIsTracked
<1>4. CASE (Worker /\ ~Access) \/ Retire \/ Account
  <2>1. /\ directory' = directory /\ index' = index /\ at' = at /\ req' = req /\ walk' = walk
        /\ acknowledged' = acknowledged /\ drained' = drained /\ marks' = marks
    <3>1. CASE Worker /\ ~Access
        BY <3>1, WorkerLeaves DEF Worker, Succeed, Fail, Drain, WatchDrain, shared
    <3> QED BY <1>4, <3>1, EndLeaves
  <2> QED BY <1>1, <1>2, <2>1 DEF NewsIsTracked, Tracked, InHand, branch
<1>5. CASE Call \/ Walk \/ Scan \/ Inspection
  <2>1. acknowledged' = acknowledged /\ drained' = drained
      BY <1>5, CallLeaves, WalkLeaves, ScanLeaves, InspectionLeaves
  <2>2. ASSUME NEW c \in directory'.entries, c \notin directory.entries PROVE c \in index'.arming
    <3>1. Enroll /\ c = req
        BY <2>2, EntriesCome
    <3> QED BY <1>1, <3>1, EnrolledIs DEF Enroll, IndexIs
  <2>3. ASSUME NEW c \in directory'.entries PROVE c \in index'.arming \/ c \in acknowledged'
    <3>1. CASE Visit
      <4>0. PICK d : d = Min(Candidates)
          OBVIOUS
      <4>1. index' = Inspect(d) /\ directory' = directory
          BY <3>1, <4>0 DEF Visit, book
      <4>2. index'.arming = index.arming \/ (index'.arming = index.arming \ {d} /\ d \in acknowledged)
          BY <1>1, <4>1, InspectIs DEF IndexIs
      <4> QED BY <1>1, <2>1, <2>3, <4>1, <4>2 DEF NewsIsTracked
    <3>2. CASE ~Visit /\ c \in directory.entries
      <4>1. c \in index.arming => c \in index'.arming
        <5>1. CASE Inspection
          <6>1. CASE CheckDrain /\ index' = index
              BY <6>1
          <6>2. CASE index' = Forget(req) /\ DeleteEntry(req)
            <7>1. c # req
                BY <2>3, <6>2 DEF DeleteEntry
            <7> QED BY <1>1, <6>2, <7>1, ForgetIs DEF IndexIs
          <6>3. CASE ~CheckDrain
              BY <1>1, <5>1, <6>3, InspectionFields
          <6> QED BY <6>1, <6>2, <6>3 DEF CheckDrain
        <5>2. CASE Send
            BY <1>1, <5>2, SentIs DEF Send, IndexIs
        <5>3. CASE ~Inspection /\ ~Send
            BY <1>1, <1>5, <3>2, <5>3, OthersKeepFields
        <5> QED BY <5>1, <5>2, <5>3
      <4> QED BY <1>1, <2>1, <3>2, <4>1 DEF NewsIsTracked
    <3> QED BY <2>2, <2>3, <3>1, <3>2
  <2>4. ASSUME NEW c \in directory'.entries, c \in drained'
        PROVE  Tracked(c)' \/ c \in index'.arming \cup index'.changed \/ (at' = "drain" /\ req' = c)
    <3>1. CASE c \notin directory.entries
        BY <2>2, <2>4, <3>1
    <3>2. CASE c \in directory.entries
      <4>1. KeepsMark(c)
          BY <1>2, <1>5, <2>4, <3>2, ClientKeepsMark
      <4>2. ~(at = "drain" /\ req = c)
        <5>1. ASSUME at = "drain", req = c PROVE FALSE
          <6>1. CheckDrain
              BY <1>5, <5>1, CallLeaves, WalkLeaves, ScanLeaves
                 DEF Walking, OnThePath, Inspection, LoadStatus, CheckActive, Enroll, KeepInspecting
          <6>2. IsDrained(req) /\ outcome[req] # "none" /\ req \in index.live
              BY <1>1, <2>1, <2>4, <3>2, <5>1 DEF IsDrained, EnrolledHaveFailed, Enrolled, DirectoryInOrder
          <6>3. DeleteEntry(req)
              BY <6>1, <6>2 DEF CheckDrain
          <6> QED BY <2>4, <5>1, <6>3 DEF DeleteEntry
        <5> QED BY <5>1
      <4>3. Tracked(c) \/ c \in index.arming \/ c \in index.changed
          BY <1>1, <2>1, <2>4, <3>2, <4>2 DEF NewsIsTracked
      <4>4. CASE Tracked(c)
          BY <4>1, <4>4 DEF KeepsMark
      <4>5. CASE c \in index.arming \/ c \in index.changed
          BY <1>5, <2>4, <3>2, <4>5, ClientKeepsEntry
      <4> QED BY <4>3, <4>4, <4>5
    <3> QED BY <3>1, <3>2
  <2> QED BY <2>3, <2>4 DEF NewsIsTracked
<1> QED BY <1>3, <1>4, <1>5 DEF Next

-----------------------------------------------------------------------------
(* Whoever has news is awaited.                                            *)

\* What the news of a request depends on.
LEMMA NewsIsSame ==
    ASSUME NEW c, outcome'[c] = outcome[c], status' = status, drained' = drained, terminal' = terminal
    PROVE  HasNews(c)' <=> HasNews(c)
BY DEF HasNews, Retired, IsDrained

\* Whether a progress message is owed depends on three words.
LEMMA QuietIsSame ==
    ASSUME hint' = hint, job' = job, terminal' = terminal
    PROVE  Quiet' <=> Quiet
BY DEF Quiet, Published

\* A scan that goes on awaits whom it awaited.
LEMMA AwaitedStays ==
    ASSUME Typed, IndexInOrder, NEW c,
           \A f \in FramesOf(stack) : f.kind \in Scans /\ f.cursor < c => f \in FramesOf(stack'),
           index.ordered /\ c \in index.active => c \in index'.active, Awaited(c)
    PROVE  Awaited(c)'
<1>1. PICK f \in FramesOf(stack) : f.cursor < c /\ (f.kind \in {"all", "terminal"} \/ (f.kind = "ordered" /\ c \in index.active))
    BY DEF Awaited
<1>2. f \in FramesOf(stack')
    BY <1>1 DEF Scans
<1>3. f.kind = "ordered" => index.ordered
  <2>1. f.kind = "ordered" => CountedIn(stack)
      BY <1>1 DEF Typed, Nesting, FramesFit, CountedIn
  <2> QED BY <2>1, OrderOfFields
<1>4. f.kind \in {"all", "terminal"} \/ (f.kind = "ordered" /\ c \in index'.active)
    BY <1>1, <1>3
<1> QED BY <1>1, <1>2, <1>4 DEF Awaited, FramesOf

\* A scan that has not come to a request awaits it.
LEMMA FrameAwaits ==
    ASSUME NEW f, NEW c, f \in FramesOf(stack'), f.cursor < c,
           f.kind \in {"all", "terminal"} \/ (f.kind = "ordered" /\ c \in index'.active)
    PROVE  Awaited(c)'
BY DEF Awaited, FramesOf

\* Activating every live request takes none from the order.
LEMMA ActivationKeepsActive ==
    ASSUME IndexTyped, IndexInOrder, index' = ActivateAll, NEW c, index.ordered, c \in index.active
    PROVE  c \in index'.active
BY OrderOfFields, ActivateAllIs DEF IndexIs, WithIds

\* The worker stores news with a message, or after the connection is over and everything is news.
LEMMA WorkerAwaits ==
    ASSUME IInv, Worker PROVE NewsIsAwaited'
<1>1. Typed /\ WorkerInOrder /\ MarksTyped /\ BookTyped /\ NewsIsAwaited /\ DirectoryInOrder /\ EnrolledHaveFailed
    BY DEF IInv, Typed, AllTyped
<1>2. /\ terminal' = terminal /\ spent' = spent /\ sent' = sent /\ outcome' = outcome
      /\ directory' = directory /\ path' = path /\ index' = index /\ stack' = stack /\ at' = at /\ req' = req
      /\ seen' = seen /\ walk' = walk
    BY WorkerLeaves
<1>3. Quiet' => Quiet /\ (Access => terminal = "accounted")
  <2>1. CASE Access
      BY <1>2, <2>1 DEF Access, Quiet, Published
  <2>2. CASE ~Access
    <3>1. job = <<>> /\ hint' = hint
        BY <2>2 DEF Worker, Succeed, Fail, Drain, WatchDrain
    <3> QED BY <1>2, <2>2, <3>1 DEF Quiet, Published
  <2> QED BY <2>1, <2>2
<1>4. ASSUME NEW c \in index.live, WillFind(c) PROVE WillFind(c)'
  <2>1. marks.root \subseteq marks'.root /\ \A b \in Branches : marks.leaf[b] \subseteq marks'.leaf[b]
      BY <1>1, WorkerAddsMarks
  <2>2. c \in directory.entries => Branch(c) \in Branches
      BY <1>1, EntriesAreMarked
  <2>3. Branch(c)' = Branch(c) /\ branch' = branch
      BY <1>2 DEF Branch, Id, branch
  <2>4. Awaited(c)' <=> Awaited(c)
      BY <1>2 DEF Awaited
  <2>5. OnTheWay(c) => OnTheWay(c)'
      BY <1>2, <2>1, <2>2, <2>3 DEF OnTheWay
  <2> QED BY <1>2, <1>4, <2>4, <2>5 DEF WillFind
<1>5. CASE ~Access
  <2>1. status' = status /\ drained' = drained
      BY <1>5 DEF Worker, Succeed, Fail, Drain, WatchDrain, shared
  <2>2. \A c : HasNews(c)' <=> HasNews(c)
      BY <1>2, <2>1, NewsIsSame
  <2> QED BY <1>1, <1>2, <1>3, <1>4, <2>1, <2>2 DEF NewsIsAwaited, Retired, HasNews, IsDrained
<1>6. CASE Access /\ Quiet'
  <2>1. terminal = "accounted" /\ Quiet
      BY <1>3, <1>6
  <2>2. \A c : HasNews(c) /\ HasNews(c)'
      BY <1>2, <2>1 DEF HasNews, Retired, IsDrained
  <2>3. Retired'
      BY <1>2, <2>1 DEF Retired
  <2>4. ~(at' = "drain" /\ outcome'[req'] = "none")
      BY <1>1, <1>2, <2>1, <2>2 DEF NewsIsAwaited
  <2> QED BY <1>1, <1>2, <1>4, <2>1, <2>2, <2>3, <2>4 DEF NewsIsAwaited
<1> QED BY <1>5, <1>6 DEF NewsIsAwaited

\* The end of the connection comes with a message.
LEMMA EndAwaits ==
    ASSUME Retire \/ Account PROVE NewsIsAwaited'
BY DEF Retire, Account, NewsIsAwaited, Quiet

-----------------------------------------------------------------------------
(* The walk leads to whom it finds.                                        *)

LEMMA WalkAwaits ==
    ASSUME IInv, Walk, NEW c \in index.live, WillFind(c) PROVE WillFind(c)'
<1>1. /\ Typed /\ IndexTyped /\ MarksTyped /\ BookTyped /\ WalkTyped /\ WalkPlaced /\ DirectoryInOrder
      /\ EnrolledHaveFailed /\ IndexInOrder /\ VisitedHaveChanged /\ ClaimInOrder /\ ClientTyped /\ Nesting
    BY DEF IInv, Typed, AllTyped
<1>2. at \in Walking /\ directory' = directory /\ stack' = stack /\ spent' = spent
    BY WalkLeaves
<1>3. Branch(c)' = Branch(c)
    BY <1>2 DEF Branch, Id
<1>4. Head(stack).kind = "ordered" /\ Head(stack) \in FramesOf(stack) /\ index.ordered
  <2>1. Head(stack) \in FramesOf(stack) /\ Head(stack).kind = "ordered" /\ Head(stack).counted
      BY <1>1, <1>2, RestFits DEF Nesting, Fits, Walking, OnThePath
  <2>2. CountedIn(stack)
      BY <2>1 DEF CountedIn
  <2> QED BY <1>1, <2>1, <2>2, OrderOfFields
<1>5. index.active \subseteq index'.active
  <2>1. CASE Notify
    <3>0. PICK d : d = walk.found
        OBVIOUS
    <3>1. index' = SetActive([index EXCEPT !.changed = @ \cup {d},
                                          !.publishing = IF d \in publishing THEN @ \cup {d} ELSE @ \ {d}], d)
        BY <2>1, <3>0 DEF Notify
    <3> QED BY <1>1, <3>1, NoticeIs DEF IndexIs
  <2> QED BY <2>1, WalkLeaves
<1>6. Awaited(c) => Awaited(c)'
    BY <1>1, <1>2, <1>5, AwaitedStays
<1>7. Awaited(c) \/ OnTheWay(c)
    BY <1>2 DEF WillFind, Walking, OnThePath, Inspecting
<1>8. ASSUME OnTheWay(c) PROVE OnTheWay(c)' \/ Awaited(c)'
  <2>1. /\ c \in directory.entries /\ c \in Requests /\ Branch(c) \in Branches /\ HasId(c) /\ Head(stack).cursor < c
        /\ directory.root # None /\ directory.leaf[Branch(c)] # None /\ Head(stack') = Head(stack)
      BY <1>1, <1>2, <1>8, EntriesAreMarked DEF OnTheWay, DirectoryInOrder, EnrolledHaveFailed, Enrolled
  <2>2. c \in index'.active => Awaited(c)'
      BY <1>2, <1>4, <2>1, FrameAwaits
  <2>3. CASE LoadRoot
    <3>1. at = "collect" /\ c \in marks.leaf[Branch(c)] /\ Branch(c) \in marks.root
        BY <1>8, <2>3 DEF LoadRoot, OnTheWay, OnThePath
    <3>2. /\ at' = "leaf" /\ walk' = [walk EXCEPT !.branches = marks.root, !.before = Cardinality(walk.visited)]
          /\ marks' = marks
        BY <2>1, <2>3, <3>1 DEF LoadRoot
    <3>3. walk'.branches = marks.root
        BY <1>1, <3>2 DEF WalkTyped
    <3> QED BY <1>2, <1>3, <2>1, <3>1, <3>2, <3>3 DEF OnTheWay, Walking, OnThePath
  <2>4. CASE LoadLeaf
    <3>1. at = "leaf" /\ c \in marks.leaf[Branch(c)] /\ Branch(c) \in walk.branches
        BY <1>8, <2>4 DEF LoadLeaf, OnTheWay, OnThePath
    <3> DEFINE s == IF directory.leaf[branch] = None THEN {} ELSE marks.leaf[branch]
    <3>2. walk' = [walk EXCEPT !.slots = s] /\ marks' = marks /\ at' \in {"slot", "clear"}
        BY <2>4 DEF LoadLeaf, Continue
    <3>3. Branch(c) = branch => c \in s
        BY <2>1, <3>1
    <3> HIDE DEF s
    <3>4. walk'.branches = walk.branches /\ walk'.slots = s /\ branch' = branch
        BY <1>1, <3>2 DEF WalkTyped, branch
    <3> QED BY <1>2, <1>3, <2>1, <3>1, <3>2, <3>3, <3>4 DEF OnTheWay, Walking, OnThePath
  <2>5. CASE Claim
    <3>0. PICK d : d = Min(walk.slots)
        OBVIOUS
    <3>1. /\ at = "slot" /\ c \in marks.leaf[Branch(c)] /\ Branch(c) \in walk.branches
          /\ Branch(c) # branch \/ c \in walk.slots
        BY <1>8, <2>5 DEF Claim, OnTheWay, OnThePath
    <3> DEFINE rest == [walk EXCEPT !.slots = @ \ {d}]
               l == [marks.leaf EXCEPT ![branch] = @ \ {d}]
    <3>2. marks' = [marks EXCEPT !.leaf = l]
        BY <1>1, <2>5, <3>0 DEF Claim, MarksTyped
    <3>3. c # d \/ Branch(c) # branch => c \in l[Branch(c)]
        BY <1>1, <2>1, <3>1 DEF MarksTyped
    <3> HIDE DEF l
    <3>4. marks'.leaf = l
        BY <1>1, <3>2 DEF MarksTyped
    <3>5. \/ walk' = rest /\ at' \in {"slot", "clear"} /\ (d \notin marks.leaf[branch] \/ d \notin directory.entries)
          \/ /\ walk' = [rest EXCEPT !.visited = @ \cup {d}, !.found = d]
             /\ at' = IF d \in walk.visited THEN "remark" ELSE "notify"
        BY <2>5, <3>0 DEF Claim, Continue
    <3>6. walk'.branches = walk.branches /\ walk'.slots = walk.slots \ {d} /\ branch' = branch
      <4>1. walk'.branches = walk.branches /\ walk'.slots = walk.slots \ {d}
          BY <1>1, <3>5 DEF WalkTyped
      <4> QED BY <4>1 DEF branch
    <3>7. CASE c # d \/ Branch(c) # branch
      <4>1. c \in marks'.leaf[Branch(c)] /\ (Branch(c) # branch \/ c \in walk'.slots)
          BY <3>1, <3>3, <3>4, <3>6, <3>7
      <4>2. at' \in OnThePath \ {"leaf"}
          BY <3>5 DEF OnThePath
      <4> QED BY <1>2, <1>3, <2>1, <3>1, <3>6, <4>1, <4>2 DEF OnTheWay, Walking
    <3>8. CASE c = d /\ Branch(c) = branch
      <4>1. /\ walk' = [rest EXCEPT !.visited = @ \cup {d}, !.found = d]
            /\ at' = IF d \in walk.visited THEN "remark" ELSE "notify"
          BY <2>1, <3>1, <3>5, <3>8
      <4>2. CASE d \in walk.visited
        <5>1. c \in index.changed
            BY <1>1, <3>1, <3>8, <4>2 DEF VisitedHaveChanged
        <5>2. c \in index.active
            BY <1>1, <1>4, <2>1, <5>1, OrderOfFields
        <5> QED BY <1>5, <2>2, <5>2
      <4>3. CASE d \notin walk.visited
        <5>1. at' = "notify" /\ walk'.found = c
            BY <1>1, <3>8, <4>1, <4>3 DEF WalkTyped
        <5> QED BY <1>2, <2>1, <5>1 DEF OnTheWay, Walking, OnThePath
      <4> QED BY <4>2, <4>3
    <3> QED BY <3>7, <3>8
  <2>6. CASE Notify
    <3>0. PICK d : d = walk.found
        OBVIOUS
    <3>1. /\ index' = SetActive([index EXCEPT !.changed = @ \cup {d},
                                             !.publishing = IF d \in publishing THEN @ \cup {d} ELSE @ \ {d}], d)
          /\ marks' = marks /\ at = "notify" /\ walk' = [walk EXCEPT !.found = None] /\ at' \in {"slot", "clear"}
        BY <2>6, <3>0 DEF Notify, Continue
    <3>2. CASE c = d
      <4>1. c \in index'.active
          BY <1>1, <1>4, <2>1, <3>1, <3>2, NoticeIs DEF IndexIs
      <4> QED BY <2>2, <4>1
    <3>3. CASE c # d
      <4>1. /\ c \in marks.leaf[Branch(c)] /\ Branch(c) \in walk.branches
            /\ Branch(c) # branch \/ c \in walk.slots
          BY <1>8, <3>0, <3>1, <3>3 DEF OnTheWay, OnThePath
      <4>2. walk'.branches = walk.branches /\ walk'.slots = walk.slots /\ branch' = branch
          BY <1>1, <3>1 DEF WalkTyped, branch
      <4> QED BY <1>2, <1>3, <2>1, <3>1, <4>1, <4>2 DEF OnTheWay, Walking, OnThePath
    <3> QED BY <3>2, <3>3
  <2>7. CASE Remark
    <3>1. /\ at \in {"remark", "remarkRoot"} /\ c \in marks.leaf[Branch(c)] /\ Branch(c) \in walk.branches
          /\ Branch(c) # branch \/ c \in walk.slots
        BY <1>8, <2>7 DEF Remark, OnTheWay, OnThePath
    <3>2. marks.leaf[Branch(c)] \subseteq marks'.leaf[Branch(c)]
      <4>1. walk.found \in Requests
          BY <1>1, <3>1 DEF WalkPlaced
      <4> QED BY <1>1, <2>1, <2>7, <4>1, MarksGrow DEF Remark
    <3>3. /\ at' \in {"remarkRoot", "slot", "clear"}
          /\ walk' = walk \/ walk' = [walk EXCEPT !.found = None]
        BY <2>7 DEF Remark, Continue
    <3>4. walk'.branches = walk.branches /\ walk'.slots = walk.slots /\ branch' = branch
        BY <1>1, <3>3 DEF WalkTyped, branch
    <3> QED BY <1>2, <1>3, <2>1, <3>1, <3>2, <3>3, <3>4 DEF OnTheWay, Walking, OnThePath
  <2>8. CASE ClearBranch \/ Recheck \/ Restore
    <3>1. /\ at \in {"clear", "recheck", "restore"} /\ c \in marks.leaf[Branch(c)] /\ Branch(c) \in walk.branches
          /\ Branch(c) # branch \/ c \in walk.slots
        BY <1>8, <2>8 DEF ClearBranch, Recheck, Restore, OnTheWay, OnThePath
    <3>2. Branch(c) # branch
        BY <1>1, <3>1 DEF WalkPlaced
    <3>3. marks'.leaf = marks.leaf
        BY <1>1, <2>8 DEF ClearBranch, Recheck, Restore, MarksTyped
    <3>4. NextBranch \/ (walk' = walk /\ at' \in {"recheck", "restore"})
        BY <2>8 DEF ClearBranch, Recheck, Restore
    <3>5. CASE NextBranch
      <4>1. at' = "leaf" /\ walk' = [walk EXCEPT !.branches = @ \ {branch}]
          BY <3>1, <3>2, <3>5 DEF NextBranch
      <4>2. Branch(c) \in walk'.branches
          BY <1>1, <3>1, <3>2, <4>1 DEF WalkTyped
      <4> QED BY <1>2, <1>3, <2>1, <3>1, <3>3, <4>1, <4>2 DEF OnTheWay, Walking, OnThePath
    <3>6. CASE walk' = walk /\ at' \in {"recheck", "restore"}
      <4>1. branch' = branch
          BY <3>6 DEF branch
      <4> QED BY <1>2, <1>3, <2>1, <3>1, <3>2, <3>3, <3>6, <4>1 DEF OnTheWay, Walking, OnThePath
    <3> QED BY <3>4, <3>5, <3>6
  <2>9. CASE CollectAgain
      BY <1>8, <2>9 DEF CollectAgain, OnTheWay, OnThePath
  <2> QED BY <2>3, <2>4, <2>5, <2>6, <2>7, <2>8, <2>9 DEF Walk
<1> QED BY <1>6, <1>7, <1>8 DEF WillFind

-----------------------------------------------------------------------------
(* What a checkpoint finds when it starts.                                 *)

\* Every request that was sent has an identity while they last.
LEMMA IdentitiesLast ==
    ASSUME Typed, IndexInOrder, ~Exhausted, NEW c \in index.live
    PROVE  HasId(c)
<1>1. c \in 1..sent /\ sent \in Nat /\ spent \in Nat /\ Identities \in Nat
    BY OrderOfFields, BoundsAssumption DEF Typed, AllTyped, BookTyped
<1> QED BY <1>1 DEF Exhausted, HasId, Id

\* At rest, a request with news is in the order, or marked from the root.
LEMMA RestIsReachable ==
    ASSUME IInv, at \notin Walking, at \notin {"failed", "drain"}, terminal = "no", index.ordered, ~Exhausted,
           NEW c \in index.live, HasNews(c)
    PROVE  \/ c \in index.active
           \/ c \in directory.entries /\ c \in marks.leaf[Branch(c)] /\ Branch(c) \in marks.root
<1>1. /\ Typed /\ IndexTyped /\ IndexInOrder /\ FailedAreKept /\ EnrolledHaveFailed /\ NewsIsTracked /\ HasId(c)
    BY IdentitiesLast DEF IInv, Typed, AllTyped
<1>2. c \in index.unresolved \cup index.arming \cup index.fallback \cup index.publishing \cup index.changed
         => c \in index.active
    BY <1>1, OrderOfFields
<1>3. CASE c \in index.unresolved \cup index.fallback
    BY <1>2, <1>3
<1>4. CASE c \notin index.unresolved \cup index.fallback
  <2>1. outcome[c] = "error" /\ c \in directory.entries
      BY <1>1, <1>4 DEF FailedAreKept
  <2>2. c \in drained
      BY <2>1 DEF HasNews, IsDrained
  <2>3. Tracked(c) \/ c \in index.arming \cup index.changed
      BY <1>1, <2>1, <2>2 DEF NewsIsTracked
  <2>4. Tracked(c) => (c \in marks.leaf[Branch(c)] /\ Branch(c) \in marks.root) \/ c \in index.publishing
      BY DEF Tracked, InHand, Walking, OnThePath
  <2> QED BY <1>2, <2>1, <2>3, <2>4
<1> QED BY <1>3, <1>4

\* The frames that advance() leaves: those it was called with, and a scan.
LEMMA AdvanceAwaits ==
    ASSUME IInv, NEW rest \in Seq(Frames), Advance(rest), NEW c \in index.live, spent' = spent, directory' = directory,
           marks' = marks
    PROVE  /\ FramesOf(rest) \subseteq FramesOf(stack')
           /\ index.ordered /\ c \in index.active => c \in index'.active
           /\ at' \notin {"active", "drain"}
           /\ at \notin Walking /\ at \notin {"failed", "drain"} /\ HasNews(c) => Awaited(c)' \/ OnTheWay(c)'
<1>1. Typed /\ IndexTyped /\ IndexInOrder /\ index.live # {} /\ c \in Nat /\ 0 < c
    BY IndexIsItsFields DEF IInv, Typed, AllTyped, Requests
<1>2. ASSUME NEW f \in Frames, stack' = <<f>> \o rest
      PROVE  FramesOf(rest) \subseteq FramesOf(stack') /\ f \in FramesOf(stack')
    BY <1>2, PushFrame
<1>3. CASE IsTerminal
  <2> DEFINE f == Frame("terminal", None, FALSE)
  <2>1. stack' = <<f>> \o rest /\ index' = ActivateAll /\ at' = "next"
      BY <1>1, <1>3 DEF Advance
  <2>2. f \in Frames /\ f.kind = "terminal" /\ f.cursor = 0
      BY NewFrames DEF Kinds
  <2> HIDE DEF f
  <2>3. Awaited(c)'
      BY <1>1, <1>2, <2>1, <2>2, FrameAwaits
  <2> QED BY <1>1, <1>2, <2>1, <2>2, <2>3, ActivationKeepsActive
<1>4. CASE ~IsTerminal /\ (Exhausted \/ ~index.ordered)
  <2> DEFINE f == Frame("all", None, FALSE)
  <2>1. stack' = <<f>> \o rest /\ index' = index /\ at' = "next"
      BY <1>1, <1>4 DEF Advance
  <2>2. f \in Frames /\ f.kind = "all" /\ f.cursor = 0
      BY NewFrames DEF Kinds
  <2> HIDE DEF f
  <2>3. Awaited(c)'
      BY <1>1, <1>2, <2>1, <2>2, FrameAwaits
  <2> QED BY <1>2, <2>1, <2>2, <2>3
<1>5. CASE ~IsTerminal /\ ~(Exhausted \/ ~index.ordered)
  <2> DEFINE f == Frame("ordered", None, TRUE)
  <2>1. stack' = <<f>> \o rest /\ index' = index /\ at' = "collect"
      BY <1>1, <1>5 DEF Advance
  <2>2. f \in Frames /\ f.kind = "ordered" /\ f.cursor = 0
      BY NewFrames
  <2> HIDE DEF f
  <2>3. c \in index.active => Awaited(c)'
      BY <1>1, <1>2, <2>1, <2>2, FrameAwaits
  <2>4. Branch(c)' = Branch(c) /\ Head(stack') = f
      BY <2>1, <2>2, PushFrame DEF Branch, Id
  <2>5. c \in directory.entries /\ c \in marks.leaf[Branch(c)] /\ Branch(c) \in marks.root => OnTheWay(c)'
      BY <1>1, <2>1, <2>2, <2>4 DEF OnTheWay, Walking
  <2>6. terminal = "no"
      BY <1>5 DEF IsTerminal
  <2>7. at \notin Walking /\ at \notin {"failed", "drain"} /\ HasNews(c) => Awaited(c)' \/ OnTheWay(c)'
      BY <1>5, <2>3, <2>5, <2>6, RestIsReachable
  <2> QED BY <1>2, <2>1, <2>2, <2>7
<1> QED BY <1>3, <1>4, <1>5

\* At rest only the scans under way await.
LEMMA RestAwaits ==
    ASSUME at \notin Walking, at \notin Inspecting, NEW c, WillFind(c)
    PROVE  Awaited(c)
BY DEF WillFind, OnTheWay

\* A call of the program, or a return to it, leaves the scans under it waiting.
LEMMA CallAwaits ==
    ASSUME IInv, Call PROVE NewsIsAwaited'
<1>1. /\ Typed /\ IndexTyped /\ BookTyped /\ ClientTyped /\ Nesting /\ IndexInOrder /\ UnsentAreBlank /\ NewsIsAwaited
      /\ index.live \subseteq Requests
    BY IndexIsItsFields DEF IInv, Typed, AllTyped
<1>2. /\ at \in {"idle", "callback", "submit"} /\ at \notin Walking /\ at \notin Inspecting
      /\ status' = status /\ drained' = drained /\ job' = job /\ spent' = spent /\ outcome' = outcome
      /\ directory' = directory /\ marks' = marks
    BY CallLeaves DEF Walking, OnThePath, Inspecting
<1>3. CASE Progress
  <2>1. Advance(stack) /\ terminal' = terminal /\ stack \in Seq(Frames)
      BY <1>1, <1>3 DEF Progress, ClientTyped, shared
  <2>2. CASE index.live = {}
    <3>1. index' = index /\ at' \notin {"active", "drain"}
        BY <1>1, <2>1, <2>2 DEF Advance, Return, ClientTyped, Nesting, Fits
    <3>2. at' = "idle"
        BY <1>1, <1>3, <2>1, <2>2 DEF Advance, Return, Progress, Nesting, Fits
    <3> QED BY <2>2, <3>1, <3>2 DEF NewsIsAwaited
  <2>3. CASE index.live # {}
    <3>1. index'.live = index.live
        BY <1>1, <1>3, OthersKeepFields DEF Call, Send, Progress
    <3>2. at' \notin {"active", "drain"}
        BY <1>2, <2>1, <2>3, AdvanceAwaits
    <3>3. ASSUME NEW c \in index.live, HasNews(c)' PROVE WillFind(c)'
      <4>1. HasNews(c)
          BY <1>2, <2>1, <3>3, NewsIsSame
      <4>2. Awaited(c)' \/ OnTheWay(c)'
          BY <1>2, <2>1, <4>1, AdvanceAwaits DEF Inspecting
      <4> QED BY <4>2 DEF WillFind
    <3> QED BY <3>1, <3>2, <3>3 DEF NewsIsAwaited
  <2> QED BY <2>2, <2>3
<1>4. CASE FailTransfer
  <2>1. CASE index.live = {}
    <3>1. index' = index /\ at' \notin {"active", "drain"}
      <4>1. Return(Tail(stack)) /\ index' = index
          BY <1>4, <2>1 DEF FailTransfer
      <4>2. Tail(stack) \in Seq(Frames) /\ FramesFit(Tail(stack))
          BY <1>1, <1>4, SubmitEnds DEF FailTransfer
      <4> QED BY <4>1, <4>2, ReturnFits
    <3> QED BY <2>1, <3>1 DEF NewsIsAwaited
  <2>2. CASE index.live # {}
    <3> DEFINE f == Frame("terminal", None, FALSE)
    <3>1. stack' = <<f>> \o Tail(stack) /\ at' = "next" /\ index' = ActivateAll
        BY <1>4, <2>2 DEF FailTransfer
    <3>2. f \in Frames /\ f.kind = "terminal" /\ f.cursor = 0
        BY NewFrames DEF Kinds
    <3> HIDE DEF f
    <3>3. Tail(stack) \in Seq(Frames)
        BY <1>1, <1>4, SubmitEnds DEF FailTransfer
    <3>4. f \in FramesOf(stack') /\ index'.live = index.live
        BY <1>1, <3>1, <3>2, <3>3, PushFrame, ActivateAllIs DEF IndexIs
    <3>5. ASSUME NEW c \in index.live PROVE WillFind(c)'
      <4>1. 0 < c
          BY <1>1 DEF Requests
      <4>2. Awaited(c)'
          BY <3>2, <3>4, <4>1, FrameAwaits
      <4> QED BY <4>2 DEF WillFind
    <3> QED BY <3>1, <3>4, <3>5 DEF NewsIsAwaited
  <2> QED BY <2>1, <2>2
<1>5. CASE ~Progress /\ ~FailTransfer
  <2>1. terminal' = terminal /\ hint' = hint
      BY <1>5, CallLeaves
  <2>2. Quiet' <=> Quiet
      BY <1>2, <2>1, QuietIsSame
  <2>3. \A c : HasNews(c)' <=> HasNews(c)
      BY <1>2, <2>1, NewsIsSame
  <2>4. ASSUME Quiet, NEW c \in index.live, HasNews(c) PROVE Awaited(c)
      BY <1>1, <1>2, <2>4, RestAwaits DEF NewsIsAwaited
  <2>5. ASSUME NEW c \in index.live, Awaited(c),
               \A f \in FramesOf(stack) : f.kind \in Scans => f \in FramesOf(stack'),
               index.ordered /\ c \in index.active => c \in index'.active
        PROVE  WillFind(c)'
    <3>1. Awaited(c)'
        BY <1>1, <2>5, AwaitedStays
    <3> QED BY <3>1 DEF WillFind
  <2>6. CASE Poll \/ Submit
    <3> DEFINE f == Frame("submit", None, FALSE)
    <3>1. f \in Frames
        BY NewFrames DEF Kinds
    <3> HIDE DEF f
    <3>2. <<f>> \o stack \in Seq(Frames) /\ FramesOf(stack) \subseteq FramesOf(<<f>> \o stack) /\ stack \in Seq(Frames)
        BY <1>1, <3>1, PushFrame DEF ClientTyped
    <3>3. PICK rest \in Seq(Frames) : Advance(rest) /\ FramesOf(stack) \subseteq FramesOf(rest) /\ FramesFit(rest)
      <4>1. Submit => Advance(<<f>> \o stack)
          BY DEF Submit, f
      <4>2. Poll => Advance(stack)
          BY DEF Poll
      <4>3. FramesFit(stack) /\ FramesFit(<<f>> \o stack)
        <5>1. f.kind = "submit" /\ ~f.counted
            BY NewFrames DEF Kinds, f
        <5>2. FramesOf(<<f>> \o stack) = {f} \cup FramesOf(stack)
            BY <3>1, <3>2, PushFrame
        <5> QED BY <1>1, <5>1, <5>2 DEF Nesting, FramesFit
      <4> QED BY <2>6, <3>2, <4>1, <4>2, <4>3
    <3>4. index'.live = index.live
        BY <1>1, <2>6, OthersKeepFields DEF Call, Poll, Submit, Send, Free
    <3>5. CASE index.live = {}
      <4>1. at' \notin {"active", "drain"}
          BY <3>3, <3>5, ReturnFits DEF Advance
      <4> QED BY <3>4, <3>5, <4>1 DEF NewsIsAwaited
    <3>6. CASE index.live # {}
      <4>1. at' \notin {"active", "drain"}
          BY <1>2, <3>3, <3>6, AdvanceAwaits
      <4>2. ASSUME Quiet, NEW c \in index.live, HasNews(c) PROVE WillFind(c)'
        <5>1. FramesOf(rest) \subseteq FramesOf(stack') /\ (index.ordered /\ c \in index.active => c \in index'.active)
            BY <1>2, <3>3, AdvanceAwaits
        <5> QED BY <2>4, <2>5, <3>3, <4>2, <5>1
      <4> QED BY <2>2, <2>3, <3>4, <4>1, <4>2 DEF NewsIsAwaited
    <3> QED BY <3>5, <3>6
  <2>7. ASSUME NEW d \in Requests, Look(d) PROVE NewsIsAwaited'
    <3> DEFINE f == Frame("look", None, FALSE)
    <3>1. stack' = <<f>> \o stack /\ index' = index /\ Refresh(d)
        BY <2>7 DEF Look
    <3>2. f \in Frames
        BY NewFrames DEF Kinds
    <3> HIDE DEF f
    <3>3. FramesOf(stack) \subseteq FramesOf(stack')
        BY <1>1, <3>1, <3>2, PushFrame DEF ClientTyped
    <3>4. at' # "active" /\ (at' = "drain" => outcome'[req'] # "none")
        BY <1>2, <3>1 DEF Refresh
    <3>5. ASSUME Quiet, NEW c \in index.live, HasNews(c) PROVE WillFind(c)'
        BY <2>4, <2>5, <3>1, <3>3, <3>5
    <3> QED BY <2>2, <2>3, <3>1, <3>4, <3>5 DEF NewsIsAwaited
  <2>8. CASE Refuse \/ EndCallback \/ Send
    <3>1. Return(Tail(stack)) /\ at \in {"callback", "submit"}
        BY <2>8 DEF Refuse, EndCallback, Send
    <3>2. /\ Tail(stack) \in Seq(Frames) /\ FramesFit(Tail(stack)) /\ Head(stack).kind \in {"callback", "submit"}
          /\ FramesOf(stack) = {Head(stack)} \cup FramesOf(Tail(stack))
        BY <1>1, <3>1, RestFits DEF Nesting, Fits
    <3>3. stack' = Tail(stack) /\ at' \notin {"active", "drain"}
        BY <3>1, <3>2, ReturnFits
    <3>4. \A f \in FramesOf(stack) : f.kind \in Scans => f \in FramesOf(stack')
        BY <3>2, <3>3 DEF Scans
    <3>5. CASE Refuse \/ EndCallback
      <4>1. index' = index
          BY <3>5 DEF Refuse, EndCallback
      <4>2. ASSUME Quiet, NEW c \in index.live, HasNews(c) PROVE WillFind(c)'
          BY <2>4, <2>5, <3>4, <4>1, <4>2
      <4> QED BY <2>2, <2>3, <3>3, <4>1, <4>2 DEF NewsIsAwaited
    <3>6. CASE Send
      <4> DEFINE d == sent + 1
      <4>1. /\ index'.live = index.live \cup {d}
            /\ index.active \subseteq index'.active
          BY <1>1, <3>6, SentIs DEF Send, IndexIs
      <4>2. d \in Requests /\ outcome[d] = "none" /\ status[d] = "pending"
          BY <1>1, <3>6, SubmitEnds DEF Send, UnsentAreBlank, BookTyped
      <4>3. ~HasNews(d)
          BY <3>6, <4>2 DEF HasNews, Send
      <4> HIDE DEF d
      <4>4. ASSUME Quiet, NEW c \in index.live, HasNews(c) PROVE WillFind(c)'
          BY <2>4, <2>5, <3>4, <4>1, <4>4
      <4> QED BY <2>2, <2>3, <3>3, <4>1, <4>3, <4>4 DEF NewsIsAwaited
    <3> QED BY <2>8, <3>5, <3>6
  <2> QED BY <1>5, <2>6, <2>7, <2>8 DEF Call
<1> QED BY <1>3, <1>4, <1>5

\* A scan that comes to a request inspects it, and one that ends has come to all.
LEMMA ScanAwaits ==
    ASSUME IInv, Scan PROVE NewsIsAwaited'
<1>1. /\ Typed /\ IndexTyped /\ BookTyped /\ ClientTyped /\ Nesting /\ IndexInOrder /\ NewsIsAwaited
      /\ index.live \subseteq Requests /\ index.active \subseteq Requests
    BY IndexIsItsFields DEF IInv, Typed, AllTyped
<1>2. /\ at \in {"next", "scanned"} /\ at \notin Walking /\ at \notin Inspecting /\ at # "idle"
      /\ status' = status /\ drained' = drained /\ job' = job /\ outcome' = outcome
      /\ terminal' = terminal /\ hint' = hint
    BY ScanLeaves DEF Walking, OnThePath, Inspecting
<1>3. (Quiet' <=> Quiet) /\ \A c : HasNews(c)' <=> HasNews(c)
    BY <1>2, QuietIsSame, NewsIsSame
<1>4. ASSUME Quiet, NEW c \in index.live, HasNews(c) PROVE Awaited(c)
    BY <1>1, <1>2, <1>4, RestAwaits DEF NewsIsAwaited
<1>5. /\ stack # <<>> /\ Head(stack) \in Frames /\ Tail(stack) \in Seq(Frames) /\ FramesFit(Tail(stack))
      /\ FramesOf(stack) = {Head(stack)} \cup FramesOf(Tail(stack))
      /\ Head(stack).kind = "ordered" => Head(stack).counted
    BY <1>1, <1>2, RestFits
<1>6. index'.live = index.live
    BY <1>1, OthersKeepFields
<1>7. Head(stack).kind = "ordered" => index.ordered
  <2>1. Head(stack).kind = "ordered" => CountedIn(stack)
      BY <1>5 DEF CountedIn
  <2> QED BY <1>1, <2>1, OrderOfFields
<1>8. CASE Visit
  <2>0. PICK d : d = Min(Candidates)
      OBVIOUS
  <2> DEFINE f == [Head(stack) EXCEPT !.cursor = d]
  <2>1. index' = Inspect(d) /\ stack' = <<f>> \o Tail(stack) /\ Refresh(d) /\ Candidates # {}
        /\ Head(stack).kind \in Scans
      BY <1>1, <1>8, <2>0 DEF Visit, Nesting, Fits
  <2>2. /\ Candidates \subseteq Requests /\ d \in Candidates /\ \A e \in Candidates : d <= e
    <3>1. Candidates \subseteq Requests
        BY <1>1 DEF Candidates
    <3>2. Candidates \in SUBSET Nat
        BY <3>1 DEF Requests
    <3> QED BY <2>0, <2>1, <3>1, <3>2, MinIsLeast
  <2>3. f \in Frames /\ f.kind = Head(stack).kind /\ f.cursor = d
      BY <1>5, <2>2 DEF Frames, Requests
  <2>4. index'.active = index.active
      BY <1>1, <2>1, InspectIs DEF IndexIs
  <2> HIDE DEF f
  <2>5. FramesOf(stack') = {f} \cup FramesOf(Tail(stack))
      BY <1>5, <2>1, <2>3, PushFrame
  <2>6. at' # "active" /\ (at' = "drain" => outcome'[req'] # "none") /\ req' = d /\ at' \in Inspecting
      BY <1>2, <2>1 DEF Refresh, Inspecting
  <2>7. ASSUME NEW c \in index.live, Awaited(c) PROVE WillFind(c)'
    <3>1. PICK g \in FramesOf(stack) : /\ g.cursor < c
                                       /\ g.kind \in {"all", "terminal"} \/ (g.kind = "ordered" /\ c \in index.active)
        BY <2>7 DEF Awaited
    <3>2. CASE g \in FramesOf(Tail(stack))
      <4>1. Awaited(c)'
          BY <2>4, <2>5, <3>1, <3>2, FrameAwaits
      <4> QED BY <4>1 DEF WillFind
    <3>3. CASE g = Head(stack)
      <4>1. c \in Candidates
          BY <3>1, <3>3 DEF Candidates
      <4>2. CASE c = d
          BY <2>6, <4>2 DEF WillFind
      <4>3. CASE c # d
        <5>1. d < c
            BY <2>2, <4>1, <4>3 DEF Requests
        <5>2. Awaited(c)'
            BY <2>3, <2>4, <2>5, <3>1, <3>3, <5>1, FrameAwaits
        <5> QED BY <5>2 DEF WillFind
      <4> QED BY <4>2, <4>3
    <3> QED BY <1>5, <3>1, <3>2, <3>3
  <2> QED BY <1>3, <1>4, <1>6, <2>6, <2>7 DEF NewsIsAwaited
<1>9. CASE TurnTerminal
  <2> DEFINE f == Scanning("terminal")
  <2>1. index' = ActivateAll /\ stack' = <<f>> \o Tail(stack) /\ at' = "next"
      BY <1>9 DEF TurnTerminal
  <2>2. f \in Frames /\ f.kind = "terminal" /\ f.cursor = Head(stack).cursor
      BY <1>5 DEF Scanning, Frames, Kinds
  <2> HIDE DEF f
  <2>3. FramesOf(stack') = {f} \cup FramesOf(Tail(stack))
      BY <1>5, <2>1, <2>2, PushFrame
  <2>4. ASSUME NEW c \in index.live, Awaited(c) PROVE WillFind(c)'
    <3>1. PICK g \in FramesOf(stack) : /\ g.cursor < c
                                       /\ g.kind \in {"all", "terminal"} \/ (g.kind = "ordered" /\ c \in index.active)
        BY <2>4 DEF Awaited
    <3>2. CASE g = Head(stack)
      <4>1. Awaited(c)'
          BY <2>2, <2>3, <3>1, <3>2, FrameAwaits
      <4> QED BY <4>1 DEF WillFind
    <3>3. CASE g \in FramesOf(Tail(stack))
      <4>1. g.kind = "ordered" => index.ordered
        <5>1. g.kind = "ordered" => CountedIn(stack)
            BY <1>5, <3>3 DEF FramesFit, CountedIn
        <5> QED BY <1>1, <5>1, OrderOfFields
      <4>2. g.kind = "ordered" => c \in index'.active
          BY <1>1, <2>1, <3>1, <4>1, ActivationKeepsActive
      <4>3. Awaited(c)'
          BY <2>3, <3>1, <3>3, <4>2, FrameAwaits
      <4> QED BY <4>3 DEF WillFind
    <3> QED BY <1>5, <3>1, <3>2, <3>3
  <2> QED BY <1>3, <1>4, <1>6, <2>1, <2>4 DEF NewsIsAwaited
<1>10. CASE EndScan
  <2>1. Return(Tail(stack)) /\ Candidates = {} /\ at = "next"
      BY <1>10 DEF EndScan
  <2>2. stack' = Tail(stack) /\ at' \notin {"active", "drain"}
      BY <1>5, <2>1, ReturnFits
  <2>3. ASSUME NEW c \in index.live, Awaited(c) PROVE WillFind(c)'
    <3>1. PICK g \in FramesOf(stack) : /\ g.cursor < c
                                       /\ g.kind \in {"all", "terminal"} \/ (g.kind = "ordered" /\ c \in index.active)
        BY <2>3 DEF Awaited
    <3>2. g # Head(stack)
        BY <2>1, <2>3, <3>1 DEF Candidates
    <3>3. g \in FramesOf(Tail(stack))
        BY <1>5, <3>1, <3>2
    <3>4. g.kind = "ordered" => index' = index
      <4>1. g.kind = "ordered" => \E i \in DOMAIN Tail(stack) : Tail(stack)[i].counted
          BY <1>5, <3>3 DEF FramesFit, FramesOf
      <4> QED BY <1>10, <4>1 DEF EndScan
    <3>5. Awaited(c)'
        BY <2>2, <3>1, <3>3, <3>4, FrameAwaits
    <3> QED BY <3>5 DEF WillFind
  <2> QED BY <1>3, <1>4, <1>6, <2>2, <2>3 DEF NewsIsAwaited
<1>11. CASE Scanned
  <2>1. index' = index /\ at = "scanned" /\ at' \notin {"active", "drain"}
    <3>1. Return(Tail(stack)) => at' \notin {"active", "drain"}
        BY <1>5, ReturnFits
    <3> QED BY <1>11, <3>1 DEF Scanned
  <2>2. CASE stack' = stack
    <3>1. ASSUME NEW c, Awaited(c) PROVE WillFind(c)'
        BY <2>1, <2>2, <3>1 DEF WillFind, Awaited
    <3> QED BY <1>3, <1>4, <1>6, <2>1, <3>1 DEF NewsIsAwaited
  <2>3. CASE Head(stack).kind = "look" /\ Return(Tail(stack))
    <3>1. stack' = Tail(stack)
        BY <1>5, <2>3, ReturnFits
    <3>2. ASSUME NEW c \in index.live, Awaited(c) PROVE WillFind(c)'
      <4>1. \A f \in FramesOf(stack) : f.kind \in Scans /\ f.cursor < c => f \in FramesOf(stack')
          BY <1>5, <2>3, <3>1 DEF Scans
      <4>2. Awaited(c)'
          BY <1>1, <2>1, <3>2, <4>1, AwaitedStays
      <4> QED BY <4>2 DEF WillFind
    <3> QED BY <1>3, <1>4, <1>6, <2>1, <3>2 DEF NewsIsAwaited
  <2>4. CASE stack' = <<Scanning("all")>> \o Tail(stack)
    <3> DEFINE f == Scanning("all")
    <3>1. f \in Frames /\ f.kind = "all" /\ f.cursor = Head(stack).cursor
        BY <1>5 DEF Scanning, Frames, Kinds
    <3> HIDE DEF f
    <3>2. FramesOf(stack') = {f} \cup FramesOf(Tail(stack))
        BY <1>5, <2>4, <3>1, PushFrame DEF f
    <3>3. ASSUME NEW c \in index.live, Awaited(c) PROVE WillFind(c)'
      <4>1. PICK g \in FramesOf(stack) : /\ g.cursor < c
                                         /\ g.kind \in {"all", "terminal"} \/ (g.kind = "ordered" /\ c \in index.active)
          BY <3>3 DEF Awaited
      <4>2. CASE g = Head(stack)
        <5>1. Awaited(c)'
            BY <3>1, <3>2, <4>1, <4>2, FrameAwaits
        <5> QED BY <5>1 DEF WillFind
      <4>3. CASE g \in FramesOf(Tail(stack))
        <5>1. Awaited(c)'
            BY <2>1, <3>2, <4>1, <4>3, FrameAwaits
        <5> QED BY <5>1 DEF WillFind
      <4> QED BY <1>5, <4>1, <4>2, <4>3
    <3> QED BY <1>3, <1>4, <1>6, <2>1, <3>3 DEF NewsIsAwaited
  <2> QED BY <1>11, <2>2, <2>3, <2>4 DEF Scanned
<1> QED BY <1>8, <1>9, <1>10, <1>11 DEF Scan

\* An inspection takes the news of its request, or goes on with it.
LEMMA InspectionAwaits ==
    ASSUME IInv, Inspection PROVE NewsIsAwaited'
<1>1. /\ Typed /\ IndexTyped /\ BookTyped /\ SharedTyped /\ ClientTyped /\ Nesting /\ IndexInOrder /\ NewsIsAwaited
      /\ InspectedIsLive
    BY DEF IInv, Typed, AllTyped
<1>2. /\ at \in Inspecting /\ status' = status /\ drained' = drained /\ job' = job
      /\ terminal' = terminal /\ hint' = hint
    BY InspectionLeaves
<1>3. req \in index.live /\ req \in Requests
    BY <1>1, <1>2, IndexIsItsFields DEF InspectedIsLive
<1>4. Quiet' <=> Quiet
    BY <1>2, QuietIsSame
<1>5. ASSUME Quiet, NEW c \in index.live, HasNews(c), c # req PROVE Awaited(c)
    BY <1>1, <1>2, <1>5 DEF NewsIsAwaited, WillFind, OnTheWay, Inspecting, Walking, OnThePath
<1>6. CASE LoadStatus \/ CheckActive
  <2>1. index' = index /\ stack' = stack /\ req' = req /\ at' \in Inspecting
      BY <1>6 DEF LoadStatus, CheckActive, Inspecting
  <2>2. \A c \in index.live : c # req => outcome'[c] = outcome[c]
    <3>1. index.live \subseteq Requests /\ outcome \in [Requests -> {"none", "value", "error"}]
        BY <1>1, IndexIsItsFields DEF BookTyped
    <3>2. ASSUME NEW c \in Requests, c # req PROVE outcome'[c] = outcome[c]
      <4>1. CASE LoadStatus
          BY <3>1, <3>2, <4>1 DEF LoadStatus
      <4>2. CASE CheckActive
          BY <3>1, <3>2, <4>2 DEF CheckActive
      <4> QED BY <1>6, <4>1, <4>2
    <3> QED BY <3>1, <3>2
  <2>3. \A c \in index.live : c # req => (HasNews(c)' <=> HasNews(c))
      BY <1>2, <2>2, NewsIsSame
  <2>4. ASSUME Quiet, NEW c \in index.live, HasNews(c)' PROVE WillFind(c)'
    <3>1. CASE c = req
        BY <2>1, <3>1 DEF WillFind
    <3>2. CASE c # req
      <4>1. Awaited(c)
          BY <1>5, <2>3, <2>4, <3>2
      <4>2. Awaited(c)'
          BY <2>1, <4>1 DEF Awaited
      <4> QED BY <4>2 DEF WillFind
    <3> QED BY <3>1, <3>2
  <2>5. CASE LoadStatus
    <3>1. at' # "drain" /\ (at' = "active" => seen' = status[req])
        BY <2>5 DEF LoadStatus
    <3> QED BY <1>2, <1>4, <2>1, <2>4, <3>1 DEF NewsIsAwaited
  <2>6. CASE CheckActive
    <3>1. /\ at = "active" /\ at' # "active" /\ (at' = "drain" => ~Retired)
          /\ outcome'[req] = IF Retired THEN "error" ELSE IF seen = "success" THEN "value" ELSE "none"
        BY <1>1, <1>3, <2>6 DEF CheckActive, BookTyped
    <3>2. seen # "failure" /\ seen \in {"pending", "success", "failure"}
        BY <1>1, <3>1 DEF InspectedIsLive, ClientTyped
    <3>3. Quiet /\ at' = "drain" /\ outcome'[req] = "none" => status[req] = "pending" /\ ~Retired
        BY <1>1, <3>1, <3>2 DEF NewsIsAwaited
    <3>4. Quiet /\ at' = "drain" /\ outcome'[req'] = "none" => ~HasNews(req)'
        BY <1>2, <2>1, <3>3 DEF HasNews, Retired
    <3> QED BY <1>4, <2>1, <2>4, <3>1, <3>4 DEF NewsIsAwaited
  <2> QED BY <1>6, <2>5, <2>6
<1>7. CASE Enroll \/ KeepInspecting
  <2>1. /\ at = "failed" /\ at' = "drain" /\ req' = req /\ stack' = stack /\ outcome' = outcome
      BY <1>7 DEF Enroll, KeepInspecting, book
  <2>2. index'.live = index.live /\ (index.ordered => index.active \subseteq index'.active)
    <3>1. CASE Enroll
        BY <1>1, <3>1, EnrolledIs DEF Enroll, IndexIs
    <3>2. CASE KeepInspecting
      <4>1. PICK fallback, active, ordered :
               /\ IndexIs(index', index.live, index.unresolved \ {req}, index.arming, fallback, index.publishing,
                          index.checked, index.changed, active, ordered)
               /\ \/ IsDrained(req) /\ fallback = index.fallback /\ active = index.active /\ ordered = index.ordered
                  \/ /\ ~IsDrained(req) /\ fallback = index.fallback \cup {req}
                     /\ \/ /\ ordered = index.ordered
                           /\ active = IF ordered /\ HasId(req) THEN index.active \cup {req} ELSE index.active
                        \/ /\ ordered = TRUE /\ HasId(req)
                           /\ active = (IF index.ordered THEN index.active ELSE WithIds(index.live)) \cup {req}
          BY <1>1, <3>2, KeepFields
      <4>2. index'.live = index.live /\ index'.active = active
          BY <4>1 DEF IndexIs
      <4>3. index.ordered => index.active \subseteq active
          BY <4>1
      <4> QED BY <4>2, <4>3
    <3> QED BY <1>7, <3>1, <3>2
  <2>3. \A c : HasNews(c)' <=> HasNews(c)
      BY <1>2, <2>1, NewsIsSame
  <2>4. outcome'[req'] = "error"
      BY <1>1, <2>1 DEF InspectedIsLive
  <2>5. ASSUME Quiet, NEW c \in index.live, HasNews(c) PROVE WillFind(c)'
    <3>1. CASE c = req
        BY <2>1, <3>1 DEF WillFind, Inspecting
    <3>2. CASE c # req
      <4>1. Awaited(c)
          BY <1>5, <2>5, <3>2
      <4>2. Awaited(c)'
          BY <1>1, <2>1, <2>2, <4>1, AwaitedStays
      <4> QED BY <4>2 DEF WillFind
    <3> QED BY <3>1, <3>2
  <2> QED BY <1>4, <2>1, <2>2, <2>3, <2>4, <2>5 DEF NewsIsAwaited
<1>8. CASE CheckDrain
  <2>1. at = "drain" /\ outcome' = outcome
      BY <1>8 DEF CheckDrain
  <2>2. \A c : HasNews(c)' <=> HasNews(c)
      BY <1>2, <2>1, NewsIsSame
  <2>3. CASE IsDrained(req) /\ outcome[req] # "none"
    <3> DEFINE f == Frame("callback", None, FALSE)
    <3>1. index' = Forget(req) /\ stack' = <<f>> \o stack /\ at' = "callback"
        BY <1>3, <1>8, <2>3 DEF CheckDrain
    <3>2. f \in Frames
        BY NewFrames DEF Kinds
    <3> HIDE DEF f
    <3>3. FramesOf(stack) \subseteq FramesOf(stack')
        BY <1>1, <3>1, <3>2, PushFrame DEF ClientTyped
    <3>4. index'.live = index.live \ {req} /\ index'.active = index.active \ {req}
        BY <1>1, <3>1, ForgetIs DEF IndexIs
    <3>5. ASSUME Quiet, NEW c \in index.live, c # req, HasNews(c) PROVE WillFind(c)'
      <4>1. Awaited(c)
          BY <1>5, <3>5
      <4>2. Awaited(c)'
          BY <1>1, <3>3, <3>4, <3>5, <4>1, AwaitedStays
      <4> QED BY <4>2 DEF WillFind
    <3> QED BY <1>4, <2>2, <3>1, <3>4, <3>5 DEF NewsIsAwaited
  <2>4. CASE ~(IsDrained(req) /\ outcome[req] # "none")
    <3>1. index' = index /\ stack' = stack /\ at' = "scanned"
        BY <1>8, <2>4 DEF CheckDrain
    <3>2. Quiet => ~HasNews(req)
        BY <1>1, <2>1, <2>4 DEF NewsIsAwaited, HasNews
    <3>3. ASSUME Quiet, NEW c \in index.live, HasNews(c) PROVE WillFind(c)'
      <4>1. Awaited(c)
          BY <1>5, <3>2, <3>3
      <4>2. Awaited(c)'
          BY <3>1, <4>1 DEF Awaited
      <4> QED BY <4>2 DEF WillFind
    <3> QED BY <1>4, <2>2, <3>1, <3>3 DEF NewsIsAwaited
  <2> QED BY <2>3, <2>4
<1> QED BY <1>6, <1>7, <1>8 DEF Inspection

\* No step leaves news that nobody will find.
LEMMA NewsIsAwaitedStays == ASSUME IInv, Next PROVE NewsIsAwaited'
<1>1. CASE Walk
  <2>1. /\ at \in Walking /\ at' \in Walking \cup {"next"}
        /\ terminal' = terminal /\ status' = status /\ drained' = drained /\ job' = job
        /\ hint' = hint /\ outcome' = outcome
      BY <1>1, WalkLeaves
  <2>2. (Quiet' <=> Quiet) /\ \A c : HasNews(c)' <=> HasNews(c)
      BY <2>1, QuietIsSame, NewsIsSame
  <2>3. index'.live = index.live /\ at' \notin {"active", "drain"}
    <3>1. IndexTyped
        BY DEF IInv, Typed, AllTyped
    <3> QED BY <1>1, <2>1, <3>1, OthersKeepFields DEF Walking, OnThePath
  <2>4. NewsIsAwaited
      BY DEF IInv
  <2> QED BY <1>1, <2>2, <2>3, <2>4, WalkAwaits DEF NewsIsAwaited
<1> QED BY <1>1, WorkerAwaits, EndAwaits, CallAwaits, ScanAwaits, InspectionAwaits DEF Next

-----------------------------------------------------------------------------
(* The theorems                                                             *)

\* Nothing has been sent, and nothing is awaited.
LEMMA InitHolds == ASSUME Init PROVE IInv
<1>1. Typed
    BY InitTyped
<1>2. /\ index.live = {} /\ index.unresolved = {} /\ index.arming = {} /\ index.fallback = {} /\ index.publishing = {}
      /\ index.checked = {} /\ index.changed = {} /\ index.active = {} /\ index.ordered = FALSE
      /\ \A s \in Sets : index[s] = {}
    BY DEF Init, Sets
<1>3. /\ directory.entries = {} /\ stack = <<>> /\ at = "idle" /\ walk.visited = {} /\ job = <<>> /\ drained = {}
      /\ watched = {} /\ subscriptions = {} /\ acknowledged = {} /\ sent = 0
      /\ \A c \in Requests : outcome[c] = "none" /\ status[c] = "pending" /\ phase[c] = "none"
    BY DEF Init, NoWalk
<1>4. FramesOf(stack) = {} /\ ~CountedIn(stack)
    BY <1>3 DEF FramesOf, CountedIn
<1>5. InspectedIsLive /\ UnsentAreBlank
    BY <1>3 DEF InspectedIsLive, UnsentAreBlank, Inspecting
<1>6. IndexInOrder
    BY <1>2, <1>3, <1>4 DEF IndexInOrder
<1>7. FailedAreKept /\ EnrolledHaveFailed /\ DirectoryInOrder
    BY <1>2, <1>3 DEF FailedAreKept, EnrolledHaveFailed, Enrolled, DirectoryInOrder
<1>8. VisitedHaveChanged /\ ClaimInOrder
    BY <1>3 DEF VisitedHaveChanged, ClaimInOrder
<1>9. WorkerInOrder
    BY <1>3 DEF WorkerInOrder, DoneIn
<1>10. NewsIsTracked /\ NewsIsAwaited
    BY <1>2, <1>3 DEF NewsIsTracked, NewsIsAwaited
<1> QED BY <1>1, <1>5, <1>6, <1>7, <1>8, <1>9, <1>10 DEF IInv

\* A step that changes nothing keeps every part.
LEMMA StutterStays == ASSUME IInv, UNCHANGED vars PROVE IInv'
<1>1. /\ terminal' = terminal /\ status' = status /\ drained' = drained /\ acknowledged' = acknowledged
      /\ publishing' = publishing /\ marks' = marks /\ phase' = phase /\ watched' = watched /\ job' = job
      /\ subscriptions' = subscriptions /\ hint' = hint /\ spent' = spent /\ sent' = sent /\ outcome' = outcome
      /\ directory' = directory /\ path' = path /\ index' = index /\ stack' = stack /\ at' = at /\ req' = req
      /\ seen' = seen /\ walk' = walk
    BY DEF vars, shared, worker, book
<1>2. Typed'
    BY NextTyped DEF IInv
<1>3. InspectedIsLive' /\ UnsentAreBlank' /\ VisitedHaveChanged'
    BY <1>1 DEF IInv, InspectedIsLive, UnsentAreBlank, VisitedHaveChanged
<1>4. IndexInOrder'
    BY <1>1 DEF IInv, IndexInOrder, CountedIn, FramesOf, WithIds, HasId, Id, Eligible
<1>5. FailedAreKept' /\ EnrolledHaveFailed'
    BY <1>1 DEF IInv, FailedAreKept, EnrolledHaveFailed, IsDrained, Enrolled, HasId, Id
<1>6. DirectoryInOrder' /\ ClaimInOrder'
    BY <1>1 DEF IInv, DirectoryInOrder, ClaimInOrder, Branch, Id
<1>7. \A c : Underway(c)' <=> Underway(c)
    BY <1>1 DEF Underway, DoneIn, Marked, Tracked, InHand, Branch, Id, branch, Stores, StoresThat, StoresOver,
       EndLeft, PathLeft, Then
<1>8. WorkerInOrder'
    BY <1>1, <1>7 DEF IInv, WorkerInOrder, DoneIn
<1>9. NewsIsTracked'
    BY <1>1 DEF IInv, NewsIsTracked, Tracked, InHand, Branch, Id, branch
<1>10. NewsIsAwaited'
  <2>1. (Quiet' <=> Quiet) /\ \A c : HasNews(c)' <=> HasNews(c)
      BY <1>1, QuietIsSame, NewsIsSame
  <2>2. \A c : WillFind(c)' <=> WillFind(c)
      BY <1>1 DEF WillFind, Awaited, OnTheWay, FramesOf, Branch, Id, branch
  <2> QED BY <1>1, <2>1, <2>2 DEF IInv, NewsIsAwaited, Retired
<1> QED BY <1>2, <1>3, <1>4, <1>5, <1>6, <1>8, <1>9, <1>10 DEF IInv

\* Every step keeps every part.
LEMMA NextHolds == ASSUME IInv, [Next]_vars PROVE IInv'
<1>1. CASE Next
  <2>1. Typed'
      BY <1>1, NextTyped DEF IInv
  <2>2. InspectedIsLive' /\ IndexInOrder' /\ UnsentAreBlank' /\ FailedAreKept'
      BY <1>1, InspectedIsLiveStays, IndexInOrderStays, UnsentAreBlankStays, FailedAreKeptStays
  <2>3. EnrolledHaveFailed' /\ DirectoryInOrder' /\ VisitedHaveChanged' /\ ClaimInOrder'
      BY <1>1, EnrolledHaveFailedStays, DirectoryInOrderStays, VisitedHaveChangedStays, ClaimInOrderStays
  <2>4. WorkerInOrder' /\ NewsIsTracked' /\ NewsIsAwaited'
      BY <1>1, WorkerInOrderStays, NewsIsTrackedStays, NewsIsAwaitedStays
  <2> QED BY <2>1, <2>2, <2>3, <2>4 DEF IInv
<1>2. CASE UNCHANGED vars
    BY <1>2, StutterStays
<1> QED BY <1>1, <1>2

\* The inductive invariant: the words, the worker's publication, the client's
\* index and its calls fit together at every access.
THEOREM ProgressIsInOrder == Spec => []IInv
<1>1. Init => IInv
    BY InitHolds
<1>2. IInv /\ [Next]_vars => IInv'
    BY NextHolds
<1> QED BY <1>1, <1>2, PTL DEF Spec

\* The types that the runs check.
LEMMA InvariantIsTyped == ASSUME IInv PROVE TypeOK
<1>1. /\ SharedTyped /\ MarksTyped /\ WorkerTyped /\ BookTyped /\ IndexTyped /\ ClientTyped /\ WalkTyped /\ Nesting
    BY DEF IInv, Typed, AllTyped
<1>2. /\ terminal \in {"no", "retired", "ending", "accounted"}
      /\ status \in [Requests -> {"pending", "success", "failure"}]
      /\ {drained, acknowledged, publishing, watched, subscriptions} \subseteq SUBSET Requests
      /\ hint \in BOOLEAN
    BY <1>1 DEF SharedTyped, WorkerTyped
<1>3. marks.root \subseteq Branches /\ marks.leaf \in [Branches -> SUBSET Requests]
    BY <1>1 DEF MarksTyped
<1>4. /\ phase \in [Requests -> {"none", "running", "failed", "done"}]
      /\ job \in Seq({"begin", "leaf", "root", "status", "drained", "end", "acknowledge"} \X Requests)
    BY <1>1 DEF WorkerTyped, Operations
<1>5. /\ spent \in Spent /\ sent \in 0..MaxRequests /\ outcome \in [Requests -> {"none", "value", "error"}]
      /\ directory.root \in 0..MaxRequests /\ directory.leaf \in [Branches -> 0..MaxRequests]
      /\ directory.entries \subseteq Requests
      /\ path \in [Requests -> (0..MaxRequests) \X (0..MaxRequests)]
    BY <1>1 DEF BookTyped
<1>6. (\A s \in Sets : index[s] \subseteq Requests) /\ index.ordered \in BOOLEAN
    BY <1>1 DEF IndexTyped
<1>7. \A i \in DOMAIN stack :
         /\ stack[i].kind \in {"ordered", "all", "terminal", "callback", "submit", "look"}
         /\ stack[i].cursor \in 0..MaxRequests /\ stack[i].counted \in BOOLEAN
  <2>1. ASSUME NEW i \in DOMAIN stack PROVE stack[i] \in Frames
      BY <1>1, <2>1 DEF ClientTyped
  <2> QED BY <2>1 DEF Frames, Kinds
<1>8. at \in {"idle", "collect", "leaf", "slot", "notify", "remark", "remarkRoot", "clear", "recheck",
              "restore", "again", "next", "status", "active", "failed", "drain", "scanned",
              "callback", "submit"}
    BY <1>1 DEF ClientTyped, Places, Walking, OnThePath, Inspecting
<1>9. /\ (stack = <<>>) = (at = "idle")
      /\ at \in {"callback", "submit"} => Head(stack).kind = at
      /\ at \in {"next", "scanned"} => Head(stack).kind \notin {"callback", "submit"}
    BY <1>1 DEF Nesting, Fits, Scans
<1>10. req \in 0..MaxRequests /\ seen \in {"pending", "success", "failure"}
    BY <1>1 DEF ClientTyped
<1>11. /\ walk.visited \subseteq Requests /\ walk.before \in 0..MaxRequests
       /\ walk.branches \subseteq Branches /\ walk.slots \subseteq Requests /\ walk.found \in 0..MaxRequests
    BY <1>1, WalkFields
<1> QED BY <1>2, <1>3, <1>4, <1>5, <1>6, <1>7, <1>8, <1>9, <1>10, <1>11 DEF TypeOK

\* A free client is neither in a walk nor in an inspection.
LEMMA InvariantReaches == ASSUME IInv PROVE NewsIsReachable
<1> SUFFICES ASSUME Free, ~IsTerminal, NEW c \in index.live, HasNews(c), index.ordered, ~Exhausted
             PROVE  \/ c \in index.active
                    \/ c \in directory.entries /\ c \in marks.leaf[Branch(c)] /\ Branch(c) \in marks.root
    BY DEF NewsIsReachable
<1>1. at \notin Walking /\ at \notin {"failed", "drain"} /\ terminal = "no"
    BY DEF Free, IsTerminal, Walking, OnThePath
<1> QED BY <1>1, RestIsReachable

\* An idle client has no call in progress that could still find anything.
LEMMA InvariantMissesNothing == ASSUME IInv PROVE NothingIsMissed
<1>1. Nesting /\ NewsIsAwaited
    BY DEF IInv, Typed
<1> SUFFICES ASSUME at = "idle", Quiet, NEW c \in index.live, HasNews(c)
             PROVE  FALSE
    BY DEF NothingIsMissed, Quiet
<1>2. FramesOf(stack) = {}
    BY <1>1 DEF Nesting, Fits, FramesOf
<1>3. WillFind(c)
    BY <1>1 DEF NewsIsAwaited
<1> QED BY <1>2, <1>3 DEF WillFind, Awaited, OnTheWay, Walking, OnThePath, Inspecting

(* A checkpoint that starts in an idle client or in a callback finds        *)
(* whatever is stored, in the middle of a publication too, and an idle      *)
(* client with no progress message on its way has taken all there is: the   *)
(* marked path is as good as a scan of all live requests                    *)
(* (webgpu-pending-completions.ts:102, webgpu-progress-notification.ts:126).*)
THEOREM NewsIsFoundHolds == Spec => []NewsIsFound
<1>1. IInv => NewsIsFound
    BY InvariantIsTyped, InvariantReaches, InvariantMissesNothing DEF NewsIsFound
<1> QED BY <1>1, ProgressIsInOrder, PTL

(* Completed requests leave nothing in the index or the directory, and the  *)
(* order exists whenever the directory or a checkpoint in progress is about *)
(* to use it (webgpu-pending-completions.ts:73, 153, 161).                  *)
THEOREM IndexFollowsLiveHolds == Spec => []IndexFollowsLive
<1>1. ASSUME IInv PROVE IndexFollowsLive
  <2>1. IndexInOrder /\ DirectoryInOrder /\ Nesting
      BY <1>1 DEF IInv, Typed
  <2>2. ~CountedIn(stack) => index.checked = {}
      BY <2>1 DEF IndexInOrder
  <2>3. at = "idle" => ~CountedIn(stack)
      BY <2>1 DEF Nesting, Fits, CountedIn, FramesOf
  <2>4. (directory.entries # {} \/ CountedIn(stack)) => index.ordered
      BY <2>1 DEF IndexInOrder
  <2>5. ASSUME NEW i \in DOMAIN stack, stack[i].kind = "ordered" PROVE index.ordered
    <3>1. CountedIn(stack)
        BY <2>1, <2>5 DEF Nesting, FramesFit, CountedIn, FramesOf
    <3> QED BY <2>4, <3>1
  <2>6. /\ \A s \in Sets \ {"checked"} : index[s] \subseteq index.live
        /\ directory.entries \subseteq index.live
      BY <2>1 DEF IndexInOrder, DirectoryInOrder
  <2> QED BY <2>2, <2>3, <2>4, <2>5, <2>6 DEF IndexFollowsLive
<1> QED BY <1>1, ProgressIsInOrder, PTL

=============================================================================
