----------------------------- MODULE GpuProgress -----------------------------
(***************************************************************************)
(* Which live GPU requests the client has to inspect                       *)
(* (backends/webgpu: webgpu-pending-completions,                           *)
(* webgpu-progress-notification, webgpu-active-admissions, and the         *)
(* publications of webgpu-shared-completion and worker).                   *)
(*                                                                         *)
(* A failed request may drain much later. Instead of inspecting it at      *)
(* every checkpoint, the client sends the worker a path of shared words;   *)
(* the worker marks the path, leaf to root, around each publication, and   *)
(* the client clears and rechecks it, root to leaf. Marks are hints: the   *)
(* status and the drained flag decide. Each action is one access to shared *)
(* memory with the local work around it. The path has two words here, the  *)
(* code has eleven: the walk treats every inner level alike.               *)
(***************************************************************************)
EXTENDS Integers, Sequences, FiniteSets, FiniteSetsExt

CONSTANTS
    MaxRequests,          \* bound on the requests the client sends
    Width,                \* children of a branch of the directory (32)
    Identities,           \* how many identities exist (Number.MAX_SAFE_INTEGER)
    Spent,                \* how many of them earlier requests may have taken
    MayEnd                \* the connection may end: FALSE bounds a run to one that lasts

ASSUME BoundsAssumption == MaxRequests \in Nat /\ {Width, Identities} \subseteq Nat \ {0}
                    /\ Spent \subseteq 0..Identities /\ MayEnd \in BOOLEAN

Requests == 1..MaxRequests
Branches == 0..((Identities - 1) \div Width)
None == 0

VARIABLES
    \* shared memory
    terminal,             \* the control words: "no", "retired" (GPU_GENERATION is
                          \* set), "ending" (GPU_ACCOUNTED is set), "accounted" (both)
    status, drained,      \* STATUS and DRAINED of each completion
    acknowledged, publishing,   \* the two bits of GPU_PROGRESS_FLAGS
    marks,                \* the words of the directory, those in use
    \* worker
    phase,                \* "none", "running", "failed", "done"
    watched,              \* requests whose path the worker has installed
    job,                  \* accesses left of the publication in progress
    subscriptions,        \* watch-drain messages on their way
    hint,                 \* a progress message is on its way
    \* client
    spent,                \* identities of earlier requests, all of them retired
    sent,                 \* requests sent since
    outcome,              \* the cached outcome of each completion
    index,                \* PendingGpuCompletions, as sets of requests
    directory, path,      \* GpuProgressNotifications, and the paths it handed out
    stack,                \* checkpoints, calls and callbacks in progress, innermost first
    at, req, seen,        \* where the innermost one is
    walk                  \* the locals of collect()

shared == <<terminal, status, drained, acknowledged, publishing>>
worker == <<phase, watched, job, subscriptions>>
book == <<spent, sent, outcome, directory, path>>
vars == <<shared, marks, worker, hint, book, index, stack, at, req, seen, walk>>

NoWalk == [visited |-> {}, before |-> 0, branches |-> {}, slots |-> {}, found |-> None]
Sets == {"live", "unresolved", "arming", "fallback", "publishing", "checked", "changed", "active"}

TypeOK ==
    /\ terminal \in {"no", "retired", "ending", "accounted"}
    /\ status \in [Requests -> {"pending", "success", "failure"}]
    /\ {drained, acknowledged, publishing, watched, subscriptions} \subseteq SUBSET Requests
    /\ marks.root \subseteq Branches /\ marks.leaf \in [Branches -> SUBSET Requests]
    /\ phase \in [Requests -> {"none", "running", "failed", "done"}]
    /\ job \in Seq({"begin", "leaf", "root", "status", "drained", "end", "acknowledge"} \X Requests)
    /\ hint \in BOOLEAN /\ spent \in Spent /\ sent \in 0..MaxRequests
    /\ outcome \in [Requests -> {"none", "value", "error"}]
    /\ \A s \in Sets : index[s] \subseteq Requests
    /\ index.ordered \in BOOLEAN
    /\ directory.root \in 0..MaxRequests /\ directory.leaf \in [Branches -> 0..MaxRequests]
    /\ directory.entries \subseteq Requests
    /\ path \in [Requests -> (0..MaxRequests) \X (0..MaxRequests)]
    /\ \A i \in DOMAIN stack :
         /\ stack[i].kind \in {"ordered", "all", "terminal", "callback", "submit", "look"}
         /\ stack[i].cursor \in 0..MaxRequests /\ stack[i].counted \in BOOLEAN
    /\ at \in {"idle", "collect", "leaf", "slot", "notify", "remark", "remarkRoot", "clear", "recheck",
               "restore", "again", "next", "status", "active", "failed", "drain", "scanned",
               "callback", "submit"}
    /\ (stack = <<>>) = (at = "idle")
    /\ at \in {"callback", "submit"} => Head(stack).kind = at
    /\ at \in {"next", "scanned"} => Head(stack).kind \notin {"callback", "submit"}
    /\ req \in 0..MaxRequests /\ seen \in {"pending", "success", "failure"}
    /\ walk.visited \subseteq Requests /\ walk.before \in 0..MaxRequests
    /\ walk.branches \subseteq Branches /\ walk.slots \subseteq Requests /\ walk.found \in 0..MaxRequests

Init ==
    /\ terminal = "no"
    /\ status = [c \in Requests |-> "pending"] /\ drained = {}
    /\ acknowledged = {} /\ publishing = {}
    /\ marks = [root |-> {}, leaf |-> [b \in Branches |-> {}]]
    /\ phase = [c \in Requests |-> "none"] /\ watched = {} /\ job = <<>> /\ subscriptions = {}
    /\ hint = FALSE
    /\ spent \in Spent /\ sent = 0
    /\ outcome = [c \in Requests |-> "none"]
    /\ index = [s \in Sets \cup {"ordered"} |-> IF s = "ordered" THEN FALSE ELSE {}]
    /\ directory = [root |-> None, leaf |-> [b \in Branches |-> None], entries |-> {}]
    /\ path = [c \in Requests |-> <<None, None>>]
    /\ stack = <<>> /\ at = "idle" /\ req = None /\ seen = "pending" /\ walk = NoWalk

IsTerminal == terminal # "no"
Retired == terminal \in {"retired", "accounted"}
IsDrained(c) == c \in drained \/ terminal \in {"ending", "accounted"}
Id(c) == spent + c - 1
HasId(c) == Id(c) < Identities
Branch(c) == Id(c) \div Width
Exhausted == spent + sent >= Identities

----------------------------------------------------------------------------
(* The directory. A word that no directory names is read by nobody, so a    *)
(* mark on it leaves no trace.                                              *)

MarkLeaf(c) ==
    LET b == Branch(c)
    IN  IF path[c][2] # None /\ path[c][2] = directory.leaf[b]
        THEN [marks EXCEPT !.leaf[b] = @ \cup {c}] ELSE marks
MarkRoot(c) ==
    IF path[c][1] # None /\ path[c][1] = directory.root
    THEN [marks EXCEPT !.root = @ \cup {Branch(c)}] ELSE marks

\* Missing branches are created, with clear words.
AddEntry(c) ==
    LET b == Branch(c)
        root == IF directory.root = None THEN c ELSE directory.root
        leaf == IF directory.leaf[b] = None THEN c ELSE directory.leaf[b]
    IN  /\ directory' = [root |-> root, leaf |-> [directory.leaf EXCEPT ![b] = leaf],
                         entries |-> directory.entries \cup {c}]
        /\ path' = [path EXCEPT ![c] = <<root, leaf>>]

\* A branch ends with its last entry, the root with the last of all.
DeleteEntry(c) ==
    LET entries == directory.entries \ {c}
        used == {Branch(e) : e \in entries}
        Kept(f, none) == [b \in Branches |-> IF b \in used THEN f[b] ELSE none]
    IN  /\ directory' = [root |-> IF entries = {} THEN None ELSE directory.root,
                         leaf |-> Kept(directory.leaf, None), entries |-> entries]
        /\ marks' = [root |-> IF entries = {} THEN {} ELSE marks.root, leaf |-> Kept(marks.leaf, {})]

----------------------------------------------------------------------------
(* The worker: one publication or subscription at a time, access by access. *)

MarkFromRoot(c) == <<<<"root", c>>, <<"leaf", c>>>>
MarkPath(c) == <<<<"leaf", c>>, <<"root", c>>>>

\* A publication of a watched request is bracketed by its flag and its path.
Publication(c, stores) ==
    IF c \in watched
    THEN <<<<"begin", c>>>> \o MarkPath(c) \o stores \o <<<<"end", c>>>> \o MarkPath(c)
    ELSE stores

\* A request drains before it succeeds, and is watched only after it failed.
Succeed(c) ==
    /\ job = <<>> /\ phase[c] = "running" /\ ~Retired
    /\ phase' = [phase EXCEPT ![c] = "done"]
    /\ job' = Publication(c, <<<<"drained", c>>, <<"status", c>>>>)
    /\ UNCHANGED <<shared, marks, watched, subscriptions, hint, book, index, stack, at, req, seen, walk>>

Fail(c) ==
    /\ job = <<>> /\ phase[c] = "running"
    /\ phase' = [phase EXCEPT ![c] = "failed"]
    /\ job' = Publication(c, <<<<"status", c>>>>)
    /\ UNCHANGED <<shared, marks, watched, subscriptions, hint, book, index, stack, at, req, seen, walk>>

Drain(c) ==
    /\ job = <<>> /\ phase[c] = "failed"
    /\ phase' = [phase EXCEPT ![c] = "done"]
    /\ job' = Publication(c, <<<<"drained", c>>>>)
    /\ UNCHANGED <<shared, marks, watched, subscriptions, hint, book, index, stack, at, req, seen, walk>>

\* The path of a request that is over is marked all the same.
WatchDrain(c) ==
    /\ job = <<>> /\ c \in subscriptions
    /\ subscriptions' = subscriptions \ {c}
    /\ watched' = IF phase[c] = "done" THEN watched ELSE watched \cup {c}
    /\ job' = MarkPath(c) \o <<<<"acknowledge", c>>>>
    /\ UNCHANGED <<shared, marks, phase, hint, book, index, stack, at, req, seen, walk>>

\* A progress message follows the last access.
Access ==
    /\ job # <<>>
    /\ LET op == Head(job)[1]
           c == Head(job)[2]
       IN  /\ publishing' = CASE op = "begin" -> publishing \cup {c}
                              [] op = "end" -> publishing \ {c}
                              [] OTHER -> publishing
           /\ acknowledged' = IF op = "acknowledge" THEN acknowledged \cup {c} ELSE acknowledged
           /\ marks' = CASE op = "leaf" -> MarkLeaf(c) [] op = "root" -> MarkRoot(c) [] OTHER -> marks
           /\ drained' = IF op = "drained" THEN drained \cup {c} ELSE drained
           /\ status' = IF op = "status"
                        THEN [status EXCEPT ![c] = IF phase[c] = "done" THEN "success" ELSE "failure"]
                        ELSE status
    /\ job' = Tail(job) /\ hint' = (hint \/ Tail(job) = <<>>)
    /\ UNCHANGED <<terminal, phase, watched, subscriptions, book, index, stack, at, req, seen, walk>>

\* A device loss, a close of the host, the end of the worker: any of them, at
\* any time. The host accounts for the worker before it retires a connection.
Retire ==
    /\ MayEnd /\ terminal \in {"no", "ending"}
    /\ terminal' = IF terminal = "no" THEN "retired" ELSE "accounted"
    /\ hint' = TRUE
    /\ UNCHANGED <<status, drained, acknowledged, publishing, marks, worker, book, index, stack, at, req, seen, walk>>
Account ==
    /\ MayEnd /\ terminal \in {"no", "retired"}
    /\ terminal' = IF terminal = "no" THEN "ending" ELSE "accounted"
    /\ hint' = (hint \/ terminal = "retired")
    /\ UNCHANGED <<status, drained, acknowledged, publishing, marks, worker, book, index, stack, at, req, seen, walk>>

----------------------------------------------------------------------------
(* Control of the client, which is one thread.                              *)

Frame(kind, cursor, counted) == [kind |-> kind, cursor |-> cursor, counted |-> counted]
Scanning(kind) == [Head(stack) EXCEPT !.kind = kind]

ReturnToScan(rest) == stack' = rest /\ at' = IF rest = <<>> THEN "idle" ELSE "scanned"

\* The call on top of the stack is over: its caller goes on.
Return(rest) ==
    /\ stack' = rest
    /\ at' = IF rest = <<>> THEN "idle"
             ELSE IF Head(rest).kind \in {"callback", "submit"} THEN Head(rest).kind ELSE "scanned"

WithIds(s) == {c \in s : HasId(c)}
SetActive(i, c) == IF i.ordered /\ HasId(c) THEN [i EXCEPT !.active = @ \cup {c}] ELSE i
ActivateAll == [index EXCEPT !.active = IF index.ordered THEN WithIds(index.live) ELSE {}]

\* advance(), called with "rest" as the stack.
Advance(rest) ==
    IF index.live = {} THEN Return(rest) /\ index' = index
    ELSE IF IsTerminal
    THEN stack' = <<Frame("terminal", None, FALSE)>> \o rest /\ at' = "next" /\ index' = ActivateAll
    ELSE IF Exhausted \/ ~index.ordered
    THEN stack' = <<Frame("all", None, FALSE)>> \o rest /\ at' = "next" /\ index' = index
    ELSE stack' = <<Frame("ordered", None, TRUE)>> \o rest /\ at' = "collect" /\ index' = index

EligibleButArming == index.unresolved \cup index.fallback \cup index.publishing \cup index.changed

\* What the last of the nested checkpoints leaves eligible.
Eligible == index.unresolved \cup index.arming \cup index.fallback \cup index.publishing \cup index.changed
FinishCheckpoint ==
    LET ordered == directory.entries # {} \/ index.arming # {} \/ index.fallback # {} \/ index.publishing # {}
        checked == index.checked \cap WithIds(index.live)
    IN  [index EXCEPT !.checked = {}, !.ordered = ordered,
                      !.active = IF ordered THEN (@ \ checked) \cup (checked \cap Eligible) ELSE {}]

Candidates == {c \in IF Head(stack).kind = "ordered" THEN index.active ELSE index.live : c > Head(stack).cursor}

\* The flags are loaded before the refresh, never after it.
Inspect(c) ==
    CASE Head(stack).kind = "ordered" ->
           [index EXCEPT !.arming = IF c \in acknowledged THEN @ \ {c} ELSE @,
                         !.publishing = IF c \in publishing THEN @ ELSE @ \ {c},
                         !.changed = @ \ {c}, !.checked = @ \cup {c}]
      [] Head(stack).kind = "terminal" -> [index EXCEPT !.changed = @ \ {c}]
      [] OTHER -> index

\* A completion whose outcome is cached does not load its status again.
Refresh(c) == req' = c /\ at' = IF outcome[c] = "none" THEN "status" ELSE "drain"

Visit ==
    /\ at = "next" /\ Candidates # {}
    /\ LET c == Min(Candidates)
       IN  /\ index' = Inspect(c) /\ stack' = <<[Head(stack) EXCEPT !.cursor = c]>> \o Tail(stack)
           /\ Refresh(c)
    /\ UNCHANGED <<shared, marks, worker, hint, book, seen, walk>>

\* A terminal scan goes on where the ordered one was.
TurnTerminal ==
    /\ (at = "next" /\ Candidates = {}) \/ at = "scanned"
    /\ Head(stack).kind = "ordered" /\ IsTerminal
    /\ stack' = <<Scanning("terminal")>> \o Tail(stack) /\ at' = "next" /\ index' = ActivateAll
    /\ UNCHANGED <<shared, marks, worker, hint, book, req, seen, walk>>

EndScan ==
    /\ at = "next" /\ Candidates = {} /\ ~(Head(stack).kind = "ordered" /\ IsTerminal)
    /\ Return(Tail(stack))
    /\ index' = IF Head(stack).counted /\ \A i \in DOMAIN Tail(stack) : ~Tail(stack)[i].counted
                THEN FinishCheckpoint ELSE index
    /\ UNCHANGED <<shared, marks, worker, hint, book, req, seen, walk>>

\* After each refresh of an ordered scan the hints are collected once more.
Scanned ==
    /\ at = "scanned" /\ ~(Head(stack).kind = "ordered" /\ IsTerminal)
    /\ IF Head(stack).kind = "look" THEN Return(Tail(stack))
       ELSE IF Head(stack).kind # "ordered" THEN at' = "next" /\ stack' = stack
       ELSE IF Exhausted THEN at' = "next" /\ stack' = <<Scanning("all")>> \o Tail(stack)
       ELSE at' = "collect" /\ stack' = stack
    /\ UNCHANGED <<shared, marks, worker, hint, book, index, req, seen, walk>>

----------------------------------------------------------------------------
(* refresh()                                                                *)

LoadStatus ==
    /\ at = "status"
    /\ IF status[req] = "failure"
       THEN at' = "failed" /\ outcome' = [outcome EXCEPT ![req] = "error"] /\ seen' = seen
       ELSE at' = "active" /\ outcome' = outcome /\ seen' = status[req]
    /\ UNCHANGED <<shared, marks, worker, hint, spent, sent, directory, path, index, stack, req, walk>>

\* A success that was not seen before the retirement is an error.
CheckActive ==
    /\ at = "active" /\ seen' = "pending"
    /\ outcome' = [outcome EXCEPT ![req] = IF Retired THEN "error" ELSE IF seen = "success" THEN "value" ELSE "none"]
    /\ at' = IF Retired THEN "failed" ELSE "drain"
    /\ UNCHANGED <<shared, marks, worker, hint, spent, sent, directory, path, index, stack, req, walk>>

Resolved == [index EXCEPT !.unresolved = @ \ {req}]
WithOrder(i) == IF i.ordered THEN i ELSE [i EXCEPT !.ordered = TRUE, !.active = WithIds(i.live)]

\* The worker is asked to report the drain of a request that has failed.
Enroll ==
    /\ at = "failed" /\ ~IsDrained(req) /\ HasId(req)
    /\ AddEntry(req)
    /\ index' = SetActive([WithOrder(Resolved) EXCEPT !.arming = @ \cup {req}], req)
    /\ subscriptions' = subscriptions \cup {req}
    /\ at' = "drain"
    /\ UNCHANGED <<shared, marks, phase, watched, job, hint, spent, sent, outcome, stack, req, seen, walk>>

\* Nothing to enroll, or the enrollment fails: at the order, or after it.
KeepInspecting ==
    /\ at = "failed"
    /\ \/ IsDrained(req) /\ index' = Resolved
       \/ /\ ~IsDrained(req)
          /\ \E i \in {Resolved} \cup (IF HasId(req) THEN {WithOrder(Resolved)} ELSE {}) :
               index' = [SetActive(i, req) EXCEPT !.fallback = @ \cup {req}]
    /\ at' = "drain"
    /\ UNCHANGED <<shared, marks, worker, hint, book, stack, req, seen, walk>>

ForgetButPublishing(c) == [s \in DOMAIN index |-> IF s \in {"ordered", "publishing"} THEN index[s] ELSE index[s] \ {c}]
Forget(c) == [s \in DOMAIN index |-> IF s = "ordered" THEN index.ordered ELSE index[s] \ {c}]

\* The request is deleted before its callbacks run.
CheckDrain ==
    /\ at = "drain" /\ req' = None
    /\ IF IsDrained(req) /\ outcome[req] # "none" /\ req \in index.live
       THEN /\ index' = Forget(req) /\ DeleteEntry(req)
            /\ stack' = <<Frame("callback", None, FALSE)>> \o stack /\ at' = "callback"
       ELSE at' = "scanned" /\ UNCHANGED <<index, directory, marks, stack>>
    /\ UNCHANGED <<shared, worker, hint, spent, sent, outcome, path, seen, walk>>

----------------------------------------------------------------------------
(* collect()                                                                *)

\* The walk of the branches continues, or is over.
Continue(w) == walk' = w /\ at' = IF w.slots # {} THEN "slot" ELSE "clear"
branch == Min(walk.branches)
NextBranch ==
    /\ walk' = [walk EXCEPT !.branches = @ \ {branch}]
    /\ at' = IF walk.branches = {branch} THEN "again" ELSE "leaf"

LoadRoot ==
    /\ at = "collect"
    /\ IF directory.root = None \/ marks.root = {}
       THEN at' = "next" /\ walk' = NoWalk
       ELSE at' = "leaf" /\ walk' = [walk EXCEPT !.branches = marks.root, !.before = Cardinality(walk.visited)]
    /\ UNCHANGED <<shared, marks, worker, hint, book, index, stack, req, seen>>

LoadLeaf ==
    /\ at = "leaf"
    /\ Continue([walk EXCEPT !.slots = IF directory.leaf[branch] = None THEN {} ELSE marks.leaf[branch]])
    /\ UNCHANGED <<shared, marks, worker, hint, book, index, stack, req, seen>>

\* The bit is taken before its request is looked at.
Claim ==
    /\ at = "slot"
    /\ LET c == Min(walk.slots)
           rest == [walk EXCEPT !.slots = @ \ {c}]
       IN  /\ marks' = [marks EXCEPT !.leaf[branch] = @ \ {c}]
           /\ IF c \notin marks.leaf[branch] \/ c \notin directory.entries THEN Continue(rest)
              ELSE /\ walk' = [rest EXCEPT !.visited = @ \cup {c}, !.found = c]
                   /\ at' = IF c \in walk.visited THEN "remark" ELSE "notify"
    /\ UNCHANGED <<shared, worker, hint, book, index, stack, req, seen>>

\* #changed: a request whose publication is not over stays eligible.
Notify ==
    /\ at = "notify"
    /\ LET c == walk.found
       IN  index' = SetActive([index EXCEPT !.changed = @ \cup {c},
                                            !.publishing = IF c \in publishing THEN @ \cup {c} ELSE @ \ {c}], c)
    /\ Continue([walk EXCEPT !.found = None])
    /\ UNCHANGED <<shared, marks, worker, hint, book, stack, req, seen>>

\* A second mark is left for the next collection.
Remark ==
    /\ at \in {"remark", "remarkRoot"}
    /\ IF at = "remark" THEN marks' = MarkLeaf(walk.found) /\ at' = "remarkRoot" /\ walk' = walk
       ELSE marks' = MarkRoot(walk.found) /\ Continue([walk EXCEPT !.found = None])
    /\ UNCHANGED <<shared, worker, hint, book, index, stack, req, seen>>

ClearBranchOnly ==
    /\ at = "clear"
    /\ marks' = [marks EXCEPT !.root = @ \ {branch}]
    /\ NextBranch
    /\ UNCHANGED <<shared, worker, hint, book, index, stack, req, seen>>
ClearBranch ==
    /\ at = "clear"
    /\ marks' = [marks EXCEPT !.root = @ \ {branch}]
    /\ IF directory.leaf[branch] = None THEN NextBranch ELSE at' = "recheck" /\ walk' = walk
    /\ UNCHANGED <<shared, worker, hint, book, index, stack, req, seen>>

\* A leaf that was marked after it was read gets its branch back.
Recheck ==
    /\ at = "recheck"
    /\ IF marks.leaf[branch] = {} THEN NextBranch ELSE at' = "restore" /\ walk' = walk
    /\ UNCHANGED <<shared, marks, worker, hint, book, index, stack, req, seen>>

Restore ==
    /\ at = "restore"
    /\ marks' = [marks EXCEPT !.root = @ \cup {branch}]
    /\ NextBranch
    /\ UNCHANGED <<shared, worker, hint, book, index, stack, req, seen>>

CollectAgain ==
    /\ at = "again"
    /\ IF marks.root = {} \/ Cardinality(walk.visited) = walk.before
       THEN at' = "next" /\ walk' = NoWalk
       ELSE at' = "collect" /\ walk' = walk
    /\ UNCHANGED <<shared, marks, worker, hint, book, index, stack, req, seen>>

----------------------------------------------------------------------------
(* What starts a checkpoint. Callbacks make the same calls as the program.  *)

Free == at \in {"idle", "callback"}

Progress ==
    /\ at = "idle" /\ hint /\ hint' = FALSE
    /\ Advance(stack)
    /\ UNCHANGED <<shared, marks, worker, book, req, seen, walk>>

\* assertAvailable() of a call that asks for nothing else.
Poll ==
    /\ Free
    /\ Advance(stack)
    /\ UNCHANGED <<shared, marks, worker, hint, book, req, seen, walk>>

\* A read, or an observation of the ticket, refreshes one completion.
Look(c) ==
    /\ Free /\ c \in index.live
    /\ stack' = <<Frame("look", None, FALSE)>> \o stack
    /\ Refresh(c)
    /\ UNCHANGED <<shared, marks, worker, hint, book, index, seen, walk>>

\* Each call under way will send one request.
Submit ==
    /\ Free /\ sent + Cardinality({i \in DOMAIN stack : stack[i].kind = "submit"}) < MaxRequests
    /\ Advance(<<Frame("submit", None, FALSE)>> \o stack)
    /\ UNCHANGED <<shared, marks, worker, hint, book, req, seen, walk>>

Refuse ==
    /\ at = "submit" /\ Retired
    /\ Return(Tail(stack))
    /\ UNCHANGED <<shared, marks, worker, hint, book, index, req, seen, walk>>

Send ==
    /\ at = "submit" /\ ~Retired
    /\ LET c == sent + 1
       IN  /\ sent' = c /\ phase' = [phase EXCEPT ![c] = "running"]
           /\ index' = SetActive([index EXCEPT !.live = @ \cup {c}, !.unresolved = @ \cup {c}], c)
    /\ Return(Tail(stack))
    /\ UNCHANGED <<shared, marks, watched, job, subscriptions, hint, spent, outcome, directory, path, req, seen, walk>>

\* postMessage throws: the identity is spent, and the connection with it.
FailTransfer ==
    /\ MayEnd /\ at = "submit" /\ ~Retired
    /\ sent' = sent + 1 /\ terminal' = IF terminal = "no" THEN "retired" ELSE "accounted"
    /\ IF index.live = {} THEN Return(Tail(stack)) /\ index' = index
       ELSE /\ stack' = <<Frame("terminal", None, FALSE)>> \o Tail(stack) /\ at' = "next"
            /\ index' = ActivateAll
    /\ UNCHANGED <<status, drained, acknowledged, publishing, marks, worker, hint, spent, outcome, directory,
                   path, req, seen, walk>>

EndCallback ==
    /\ at = "callback"
    /\ Return(Tail(stack))
    /\ UNCHANGED <<shared, marks, worker, hint, book, index, req, seen, walk>>

Walk == LoadRoot \/ LoadLeaf \/ Claim \/ Notify \/ Remark \/ ClearBranch \/ Recheck \/ Restore \/ CollectAgain
Scan == Visit \/ TurnTerminal \/ EndScan \/ Scanned
Inspection == LoadStatus \/ CheckActive \/ Enroll \/ KeepInspecting \/ CheckDrain
Call == Progress \/ Poll \/ Submit \/ Refuse \/ Send \/ FailTransfer \/ EndCallback \/ \E c \in Requests : Look(c)
Worker == Access \/ \E c \in Requests : Succeed(c) \/ Fail(c) \/ Drain(c) \/ WatchDrain(c)

Next == Call \/ Walk \/ Scan \/ Inspection \/ Worker \/ Retire \/ Account

Spec == Init /\ [][Next]_vars

----------------------------------------------------------------------------

\* What the words say of a live request and the client has not taken.
HasNews(c) ==
    \/ outcome[c] = "none" /\ (status[c] # "pending" \/ Retired)
    \/ outcome[c] # "none" /\ IsDrained(c)

(* A checkpoint, nested in a callback or not, finds whatever is stored when  *)
(* it starts, as a scan of all live requests would: a request with news is inspected every time, or the  *)
(* marks lead to it from the root. That holds in the middle of a publication *)
(* too. The bracket of flag and marks around the stores, the clear-and-      *)
(* recheck of the walk and the arming of a subscription are there for this   *)
(* (webgpu-progress-notification.ts:126, webgpu-pending-completions.ts:102). *)
NewsIsReachable ==
    Free /\ ~IsTerminal =>
        \A c \in index.live : HasNews(c) =>
            \/ ~index.ordered \/ Exhausted \/ c \in index.active
            \/ c \in directory.entries /\ c \in marks.leaf[Branch(c)] /\ Branch(c) \in marks.root

\* No publication is half done. (A worker that was terminated leaves one for good.)
Published == job = <<>> \/ terminal = "accounted"

(* When the client is idle and no progress message is on its way, it has     *)
(* taken all there is to take: no request waits for a checkpoint that        *)
(* nobody will ask for (webgpu-connected-backend.ts:137).                    *)
NothingIsMissed ==
    at = "idle" /\ Published /\ ~hint /\ terminal # "ending" => \A c \in index.live : ~HasNews(c)

\* The marked path is as good as a full scan, from within a callback and for an
\* idle client.
NewsIsFound == TypeOK /\ NewsIsReachable /\ NothingIsMissed

(* Completed requests leave nothing behind, and the order exists whenever    *)
(* the directory or a pending checkpoint is about to use it                  *)
(* (webgpu-pending-completions.ts:73, 153, 161).                             *)
IndexFollowsLive ==
    /\ \A s \in Sets \ {"checked"} : index[s] \subseteq index.live
    /\ directory.entries \subseteq index.live /\ (at = "idle" => index.checked = {})
    /\ directory.entries # {} \/ index.checked # {} => index.ordered
    /\ \A i \in DOMAIN stack : stack[i].kind = "ordered" => index.ordered
=============================================================================
