------------------------------ MODULE BrowserRun ------------------------------
(***************************************************************************)
(* Running pages in a real browser (scripts/browser-harness.mjs), for the  *)
(* browser tests, which share a server between pages, and for the          *)
(* consumers of a package, which start one for each page: the server that  *)
(* serves a page and hears from it, the browser process, its standard      *)
(* error, which descendants may hold open, and the timeouts that make every *)
(* wait end.                                                               *)
(*                                                                         *)
(* A promise continuation runs before the next event, so that the runner   *)
(* sees the first of the promises it awaits to settle.                     *)
(***************************************************************************)
EXTENDS Naturals, FiniteSets

CONSTANTS Pages,          \* The pages in their order: 1..n
          MaxRequests,    \* Requests a page sends
          MaxServing,     \* Requests handled at a time
          MaxMishaps      \* Crashes, missing files, broken pipes ... of a suite

ASSUME PagesAssumption == Pages \subseteq Nat \ {0}

VARIABLES
  suite,      \* "tests" share a server, "package" consumers do not; "none" runs no page
  server,     \* "none", "open", "closing", "closed"
  active,     \* activeToken: the page whose run is registered, or NoPage
  runs,       \* The two deferreds and the last phase of each page's run
  awaiting,   \* What runBrowserPage awaits: [page, for]
  failure,    \* Its primaryFailure, terminationFailure and cleanupError
  child,      \* Each page's process, its standard error and its "close" event
  profiles,   \* Profile directories that exist
  serving,    \* Requests being handled; each keeps the run resolved for it
  sent,       \* How many requests each page has sent
  outcome,    \* What runBrowserPage made of each page
  report,     \* "preparing", "running", "passed", "failed"; "lost" while it fails early
  installed,  \* The application that the pages of a package are served from exists
  mishaps

pageVars == <<suite, server, active, runs, awaiting, failure, child, profiles,
              serving, sent, outcome, report, installed, mishaps>>
fixture == <<report, installed>>

NoPage == 0
NoResult == [state |-> "pending", by |-> NoPage, ok |-> FALSE]
NewRun == [navigation |-> "pending", result |-> NoResult, phase |-> 0]
NoChild == [process |-> "none", stderr |-> "open", closed |-> FALSE]
NoFailure == [primary |-> "none", termination |-> FALSE, cleanup |-> FALSE]

Mishap == mishaps < MaxMishaps /\ mishaps' = mishaps + 1
Smoothly == UNCHANGED <<mishaps, fixture>>
Badly == Mishap /\ UNCHANGED fixture

InitPages ==
  /\ suite \in {"none", "tests", "package"}
  /\ server = (IF suite = "none" THEN "closed" ELSE "none") /\ active = NoPage
  /\ runs = [n \in Pages |-> NewRun] /\ awaiting = [page |-> NoPage, for |-> "nothing"]
  /\ failure = NoFailure /\ child = [n \in Pages |-> NoChild] /\ profiles = {}
  /\ serving = {} /\ sent = [n \in Pages |-> 0]
  /\ outcome = [n \in Pages |-> "none"] /\ mishaps = 0
  /\ report = (IF suite = "package" THEN "preparing" ELSE "running") /\ installed = FALSE

-----------------------------------------------------------------------------
(* The promises the runner races                                           *)

Premature(n) == child[n].process \in {"failed", "exited"}

\* prematureExit and diagnosticFailure come after the promise itself.
Race(promise, n) ==
  IF promise # "pending" THEN promise
  ELSE IF Premature(n) \/ child[n].stderr = "broken" THEN "failed" ELSE "pending"

Awaited == CASE awaiting.for = "navigation" -> Race(runs[awaiting.page].navigation, awaiting.page)
             [] awaiting.for = "result" -> Race(runs[awaiting.page].result.state, awaiting.page)
             [] awaiting.for \in {"termination", "killing"} ->
                  IF Premature(awaiting.page) THEN "done" ELSE "pending"
             [] awaiting.for = "closing" ->
                  IF child[awaiting.page].closed THEN "done" ELSE "pending"
             [] OTHER -> "pending"

\* An event finds no continuation left to run.
Event == Awaited = "pending"

-----------------------------------------------------------------------------
(* The suite                                                               *)

Unrun == {n \in Pages : outcome[n] = "none"}
AllReturned == \A n \in Pages : outcome[n] = "returned"
SuiteOver == suite = "none" \/ report = "lost" \/ Unrun = {} \/ \E n \in Pages : outcome[n] = "failed"
AtRest == awaiting.page = NoPage

Aside == UNCHANGED <<suite, active, runs, awaiting, failure, child, profiles, serving, sent, outcome>>

\* qualifyPackage: install the package and check it, which may fail half-way.
Installs ==
  /\ report = "preparing"
  /\ \/ report' = "running" /\ installed' = TRUE /\ UNCHANGED mishaps
     \/ report' = "lost" /\ installed' \in BOOLEAN /\ Mishap
  /\ UNCHANGED server /\ Aside

\* mutant of Reports: the report is made before the application is removed
ReportsFirst ==
  /\ report \in {"running", "lost"} /\ SuiteOver /\ AtRest /\ server \in {"none", "closed"}
  /\ suite # "none"
  /\ report' = (IF AllReturned THEN "passed" ELSE "failed")
  /\ \/ installed' = FALSE /\ UNCHANGED mishaps
     \/ installed /\ UNCHANGED installed /\ Mishap
  /\ UNCHANGED server /\ Aside
\* What has been observed is reported when the application has been removed.
Reports ==
  /\ report \in {"running", "lost"} /\ SuiteOver /\ AtRest /\ server \in {"none", "closed"}
  /\ suite # "none"
  /\ \/ installed' = FALSE /\ UNCHANGED mishaps
        /\ report' = (IF AllReturned THEN "passed" ELSE "failed")
     \/ installed /\ UNCHANGED installed /\ Mishap /\ report' = "failed"
  /\ UNCHANGED server /\ Aside

OpenServer ==
  /\ report = "running" /\ AtRest /\ ~SuiteOver /\ server = "none"
  /\ server' = "open"
  /\ Aside /\ Smoothly

\* A profile directory, the run's registration and the process; a process that
\* cannot be started has no pid, and tells so in an event.
StartPage(n) ==
  /\ AtRest /\ ~SuiteOver /\ server = "open" /\ active = NoPage
  /\ n \in Unrun /\ \A m \in Unrun : n <= m
  /\ profiles' = profiles \union {n}
  /\ active' = n
  /\ \/ child' = [child EXCEPT ![n].process = "running"] /\ Smoothly
     \/ child' = [child EXCEPT ![n].process = "unstarted"] /\ Badly
  /\ awaiting' = [page |-> n, for |-> "navigation"]
  /\ failure' = NoFailure
  /\ UNCHANGED <<suite, server, runs, serving, sent, outcome>>

\* close() waits for the requests being handled.
ServerCloses ==
  /\ server = "closing" /\ serving = {}
  /\ server' = IF SuiteOver THEN "closed" ELSE "none"
  /\ Aside /\ Smoothly

-----------------------------------------------------------------------------
(* Requests                                                                *)

Tokened == {"page", "phase", "result"}     \* what a page sends with its own token
Control == {"phase", "result", "bare result"}

\* mutant of RunOf: a control request without a token is the active page's
RunOfAnyone(n, kind) == IF kind \in Tokened /\ active # n THEN NoPage ELSE active
\* requestToken: the run of the request's token if that is registered; without
\* one the active run, except for control requests.
RunOf(n, kind) ==
  IF kind \in Tokened THEN IF active = n THEN n ELSE NoPage
  ELSE IF kind \in Control THEN NoPage ELSE active

\* A page, or a process its browser has left behind, sends a request; its run is
\* resolved before its body or file is read.  A control request of no run is
\* turned away at once.
Arrives(n, kind) ==
  /\ Event /\ server = "open"
  /\ child[n].process \in {"running", "exited"}
  /\ sent[n] < MaxRequests /\ Cardinality(serving) < MaxServing
  /\ sent[n] = 0 => kind = "page"
  /\ sent' = [sent EXCEPT ![n] = @ + 1]
  /\ serving' = IF kind \in Control /\ RunOf(n, kind) = NoPage THEN serving
                ELSE serving \union {[from |-> n, id |-> sent[n], kind |-> kind,
                                      run |-> RunOf(n, kind), active |-> active]}
  /\ UNCHANGED <<suite, server, active, runs, awaiting, failure, child, profiles,
                 outcome, fixture, mishaps>>

\* mutant of Charged: the run that is active when the body has been read
ChargedLater(q) == IF q.kind \in Tokened THEN q.run ELSE active
Charged(q) == q.run

Rejected(r) == [r EXCEPT !.navigation = IF @ = "pending" THEN "failed" ELSE @,
                         !.result = IF @.state = "pending" THEN [@ EXCEPT !.state = "failed"] ELSE @]

\* The phases a page reports only advance; others come between them, and let
\* a page that was loaded again start over.
Phased(r, p) == IF p > r.phase THEN [r EXCEPT !.phase = p] ELSE Rejected(r)

Navigated(r) == [r EXCEPT !.phase = 0, !.navigation = IF @ = "pending" THEN "done" ELSE @]

Reported(r, n, ok) ==
  [r EXCEPT !.phase = 0,
            !.result = IF @.state = "pending" THEN [state |-> "done", by |-> n, ok |-> ok] ELSE @]

Before(q) == IF Charged(q) = NoPage THEN NewRun ELSE runs[Charged(q)]
Charge(q, r) == runs' = IF Charged(q) = NoPage THEN runs ELSE [runs EXCEPT ![Charged(q)] = r]

Answers(q) ==
  /\ Event /\ q \in serving
  /\ serving' = serving \ {q}
  /\ \/ q.kind = "page" /\ Charge(q, Navigated(Before(q))) /\ Smoothly
     \/ q.kind = "asset" /\ UNCHANGED runs /\ Smoothly
     \/ q.kind = "phase" /\ Smoothly /\ \E p \in 1..2 : Charge(q, Phased(Before(q), p))
     \/ q.kind \in {"result", "bare result"} /\ Smoothly
        /\ \E ok \in BOOLEAN : Charge(q, Reported(Before(q), q.from, ok))
     \* A page that the run is not for; a file that is missing, a body that is no JSON.
     \/ q.kind = "stray" /\ Charge(q, Rejected(Before(q))) /\ Smoothly
     \/ Charge(q, Rejected(Before(q))) /\ Badly
  /\ UNCHANGED <<suite, server, active, awaiting, failure, child, profiles, sent, outcome>>

-----------------------------------------------------------------------------
(* The browser process                                                     *)

ChildFrame == UNCHANGED <<suite, server, active, runs, awaiting, failure, profiles,
                          serving, sent, outcome>>

SpawnFails(n) ==
  /\ Event /\ child[n].process = "unstarted"
  /\ child' = [child EXCEPT ![n].process = "failed"]
  /\ Smoothly /\ ChildFrame

\* It ends when it is told to, if it heeds SIGTERM, or by itself.
Exits(n) ==
  /\ Event /\ child[n].process = "running"
  /\ child' = [child EXCEPT ![n].process = "exited"]
  /\ IF awaiting.page = n /\ awaiting.for \in {"navigation", "result"} THEN Badly ELSE Smoothly
  /\ ChildFrame

\* End of file comes when every writer has closed the pipe, descendants too.
StderrEnds(n) ==
  /\ Event /\ child[n].stderr = "open" /\ Premature(n)
  /\ child' = [child EXCEPT ![n].stderr = "ended"]
  /\ Smoothly /\ ChildFrame

StderrBreaks(n) ==
  /\ Event /\ child[n].stderr = "open" /\ awaiting.page = n
  /\ child' = [child EXCEPT ![n].stderr = "broken"]
  /\ Badly /\ ChildFrame

\* "close": the process has ended and its streams are closed.
Closes(n) ==
  /\ Event /\ Premature(n) /\ child[n].stderr # "open" /\ ~child[n].closed
  /\ child' = [child EXCEPT ![n].closed = TRUE]
  /\ Smoothly /\ ChildFrame

-----------------------------------------------------------------------------
(* runBrowserPage                                                          *)

RunnerFrame == UNCHANGED <<suite, profiles, serving, sent, outcome>>
Awaits(for) == awaiting' = [awaiting EXCEPT !.for = for]
For(what) == awaiting.for = what
This == awaiting.page

\* What is left of stderr is not waited for, but our own handle is.
CloseHandle ==
  /\ Awaits("closing")
  /\ child' = [child EXCEPT ![This].stderr = IF @ = "open" THEN "destroyed" ELSE @]

\* A process that never started or has ended needs no signal.
TerminateBrowser ==
  IF child[This].process = "running" THEN Awaits("termination") /\ UNCHANGED child
  ELSE CloseHandle

\* registration.cancel() rejects what is still pending.
Conclude(primary) ==
  /\ failure' = [failure EXCEPT !.primary = primary]
  /\ active' = IF active = This THEN NoPage ELSE active
  /\ runs' = [runs EXCEPT ![This] = Rejected(@)]
  /\ TerminateBrowser
  /\ UNCHANGED server /\ Smoothly /\ RunnerFrame

NavigationSettles ==
  /\ For("navigation") /\ Awaited # "pending"
  /\ IF Awaited = "done"
     THEN /\ Awaits("result") /\ Smoothly
          /\ UNCHANGED <<server, active, runs, failure, child>> /\ RunnerFrame
     ELSE Conclude("failed")

\* validateResult decides on the result.
ResultSettles ==
  /\ For("result") /\ Awaited # "pending"
  /\ Conclude(IF Awaited = "done" /\ runs[This].result.ok THEN "none" ELSE "failed")

TimesOut ==
  /\ For("navigation") \/ For("result")
  /\ Event
  /\ failure' = [failure EXCEPT !.primary = "timeout"]
  /\ Awaits("inspection")
  /\ UNCHANGED <<server, active, runs, child>> /\ Smoothly /\ RunnerFrame

\* The bounded look at the profile after a timeout.
Inspected == For("inspection") /\ Conclude("timeout")

StepFrame == UNCHANGED <<server, active, runs>> /\ RunnerFrame

ExitSettles ==
  /\ For("termination") \/ For("killing")
  /\ Awaited # "pending"
  /\ CloseHandle /\ UNCHANGED failure /\ Smoothly /\ StepFrame

\* mutant of TermTimesOut: a browser that ignores SIGTERM is waited for
WaitsForExit == FALSE
TermTimesOut ==
  /\ For("termination") /\ Event
  /\ Awaits("killing") /\ UNCHANGED <<failure, child>> /\ Smoothly /\ StepFrame

KillTimesOut ==
  /\ For("killing") /\ Event
  /\ failure' = [failure EXCEPT !.termination = TRUE]
  /\ CloseHandle /\ Smoothly /\ StepFrame

\* A standard error that could not be read fails the run if nothing else has.
HandleSettles ==
  /\ For("closing")
  /\ failure' = [failure EXCEPT
       !.termination = @ \/ Event,
       !.primary = IF @ = "none" /\ child[This].stderr = "broken" THEN "failed" ELSE @]
  /\ Awaits("removal") /\ UNCHANGED child /\ Smoothly /\ StepFrame

Clean(f) == f.primary = "none" /\ ~f.termination /\ ~f.cleanup

\* The profile is removed, or cannot be; then the run throws or returns, and the
\* last user of a server closes it.
ProfileRemoved ==
  /\ For("removal")
  /\ \/ profiles' = profiles \ {This} /\ failure' = failure /\ Smoothly
     \/ failure' = [failure EXCEPT !.cleanup = TRUE] /\ UNCHANGED profiles /\ Badly
  /\ outcome' = [outcome EXCEPT ![This] = IF Clean(failure') THEN "returned" ELSE "failed"]
  /\ server' = IF suite = "package" \/ Unrun = {This} \/ ~Clean(failure') THEN "closing" ELSE server
  /\ awaiting' = [page |-> NoPage, for |-> "nothing"]
  /\ UNCHANGED <<suite, active, runs, child, serving, sent>>

-----------------------------------------------------------------------------
Runner == \/ Installs \/ Reports \/ OpenServer \/ (\E n \in Pages : StartPage(n))
          \/ NavigationSettles \/ ResultSettles \/ Inspected \/ ExitSettles
          \/ HandleSettles \/ ProfileRemoved
Timers == TimesOut \/ TermTimesOut \/ KillTimesOut
Server == ServerCloses \/ \E q \in serving : Answers(q)
Kinds == {"page", "stray", "asset", "phase", "result", "bare result"}
Browser == \E n \in Pages :
             \/ SpawnFails(n) \/ Exits(n) \/ StderrEnds(n) \/ StderrBreaks(n) \/ Closes(n)
             \/ \E kind \in Kinds : Arrives(n, kind)

NextPages == Runner \/ Timers \/ Server \/ Browser

\* Timers fire, and our own process and server go on; nothing is assumed of the
\* browser.
FairPages == WF_pageVars(Runner) /\ WF_pageVars(Timers) /\ WF_pageVars(Server)

SpecPages == InitPages /\ [][NextPages]_pageVars /\ FairPages

-----------------------------------------------------------------------------
\* A page that runBrowserPage returns a result for has sent that result itself,
\* after it was navigated to; its process has ended and been joined, its profile
\* is gone, and nothing can be charged to its run any more.  A suite that passes
\* leaves nothing behind.
PagesAreEarned ==
  /\ \A n \in Pages : outcome[n] = "returned" =>
       /\ runs[n].navigation = "done" /\ runs[n].result = [state |-> "done", by |-> n, ok |-> TRUE]
       /\ child[n].process = "exited" /\ child[n].closed /\ n \notin profiles
       /\ active # n
  /\ report = "passed" => AllReturned /\ profiles = {} /\ ~installed /\ serving = {}

\* A request changes only the run that was active when it arrived, however late
\* it is answered and whatever was registered since.
RequestsKeepTheirRun ==
  [][\A n \in Pages : runs'[n] # runs[n] =>
       \/ active = n /\ active' = NoPage
       \/ \E q \in serving \ serving' : q.active = n]_pageVars

\* The suite has reported; it does, although a browser may hang, ignore every
\* signal or leave its standard error open.
SuiteDone == suite = "none" \/ report \in {"passed", "failed"}
=============================================================================
