--------------------------- MODULE RegistryPackage ---------------------------
(***************************************************************************)
(* Obtaining a published package to qualify (scripts/package-registry.mjs  *)
(* and its transport): an npm client asks the registry for the metadata    *)
(* through a proxy of our own, the archive is downloaded by us, and two    *)
(* more clients put the checked bytes into a cache and install from it.    *)
(*                                                                         *)
(* A client is a process with a timeout and a limit on its output, both    *)
(* enforced by SIGKILL; a download is one request after another under one  *)
(* deadline.  The registry may answer anything, at any time or never.  A   *)
(* client has no descendants: it runs no scripts.                          *)
(***************************************************************************)
EXTENDS Naturals, FiniteSets

CONSTANTS Places,     \* URLs
          Admitted,   \* those of an origin that the plan admits
          Length,     \* Parts of the admitted archive
          MaxOutput   \* maxClientOutputBytes, in parts

ASSUME PlacesAssumption == Admitted \subseteq Places /\ Length \in Nat /\ MaxOutput \in Nat

VARIABLES
  acquiring,   \* What createRegistryPackageApplication awaits; "none" obtains no package
  client,        \* The client: its process, success, output so far, timedOut and overflow
  transport,   \* The proxy: "none", "open", "closed"
  proxied,     \* Requests on their way to it: "admitted" and "other" ones
  rejected,    \* observations.rejected is not zero
  current,     \* The URL of the archive, then of the latest request
  visited,
  late,        \* The deadline of the download has passed
  request,     \* "none", "open", "answered", "destroyed"
  received,    \* Parts received for that request, and whether they are the admitted ones
  completion,  \* How the request ended, decided once
  archive,     \* What was staged, what the cache holds, and what is installed
  directory    \* Our temporary directory: "none", "made", "removed", "kept"

clientVars == <<client, proxied>>
downloadVars == <<current, visited, late, request, received, completion>>
registryVars == <<acquiring, clientVars, transport, rejected, downloadVars, archive, directory>>

NoClient == [process |-> "none", ok |-> FALSE, output |-> 0, timedOut |-> FALSE, overflow |-> FALSE]
Nowhere == "nowhere"
NoBytes == [parts |-> 0, sound |-> TRUE]
NoArchive == [staged |-> "none", cached |-> "none", installed |-> "none"]
Contents == {"none", "admitted", "other"}

\* mkdtemp has made the directory; the proxy is opened first.
InitRegistry ==
  /\ acquiring \in {"none", "preparation"} /\ client = NoClient
  /\ transport = "none" /\ proxied = {} /\ rejected = FALSE
  /\ current = Nowhere /\ visited = {} /\ late = FALSE
  /\ request = "none" /\ received = NoBytes /\ completion = "none"
  /\ archive = NoArchive /\ directory = (IF acquiring = "none" THEN "none" ELSE "made")

-----------------------------------------------------------------------------
(* The npm client                                                          *)

Killed(c) == [c EXCEPT !.process = IF @ = "running" THEN "killed" ELSE @]
Alive == client.process \in {"running", "killed", "exited"}

\* spawn(): a process that cannot be started tells so in an event.
RunNpm(next) ==
  /\ acquiring' = next
  /\ \E process \in {"running", "unstarted"} : client' = [NoClient EXCEPT !.process = process]

ClientFrame == UNCHANGED <<acquiring, transport, rejected, downloadVars, archive, directory>>

Asks(kind) ==
  /\ client.process = "running" /\ acquiring = "registry-metadata"
  /\ proxied' = proxied \union {kind} /\ UNCHANGED client /\ ClientFrame

\* Output may still be read after the process has ended.
Outputs ==
  /\ Alive /\ client.output <= MaxOutput
  /\ LET more == [client EXCEPT !.output = @ + 1]
     IN client' = IF more.output > MaxOutput THEN [Killed(more) EXCEPT !.overflow = TRUE] ELSE more
  /\ UNCHANGED proxied /\ ClientFrame

NpmTimesOut ==
  /\ Alive /\ ~client.timedOut
  /\ client' = [Killed(client) EXCEPT !.timedOut = TRUE]
  /\ UNCHANGED proxied /\ ClientFrame

\* What a client leaves in the cache and in the application when it ends.
LeavesCached(by) == IF by \in {"cache population", "installation"} THEN Contents ELSE {archive.cached}
LeavesInstalled(by) == IF by = "installation" THEN Contents ELSE {archive.installed}

NpmExits ==
  /\ client.process \in {"running", "killed"}
  /\ \E ok \in {FALSE, client.process = "running"} :
        client' = [client EXCEPT !.process = "exited", !.ok = ok]
  /\ \E cached \in LeavesCached(acquiring), installed \in LeavesInstalled(acquiring) :
        archive' = [archive EXCEPT !.cached = cached, !.installed = installed]
  /\ UNCHANGED <<acquiring, transport, proxied, rejected, downloadVars, directory>>

-----------------------------------------------------------------------------
(* The proxy, which only a client that is online is told of                *)

StillAllowed == ~rejected
NeverAsked == TRUE         \* mutant of AllowedInTheEnd: the checks after each client suffice
AllowedInTheEnd == ~rejected

\* It turns a request away that it does not admit, whether or not its client still runs.
Proxies(kind) ==
  /\ transport = "open" /\ kind \in proxied
  /\ proxied' = proxied \ {kind} /\ rejected' = (rejected \/ kind = "other")
  /\ UNCHANGED <<acquiring, client, transport, downloadVars, archive, directory>>

\* Every connection is destroyed before close() waits for them.
CloseTransport ==
  /\ transport' = IF transport = "open" THEN "closed" ELSE transport
  /\ proxied' = {}

\* catch: the proxy is closed, whether or not it was open, then all that is owned goes.
GivesUp ==
  /\ acquiring' = "failing" /\ CloseTransport
  /\ UNCHANGED <<client, rejected, archive, directory>>

-----------------------------------------------------------------------------
(* The download                                                            *)

\* mutant of Decides: the connection of a decided request is kept
DecidesOnly(how) == completion' = how /\ UNCHANGED request
\* finish(): the first decision counts, and destroys the request.
Decides(how) == completion' = how /\ request' = "destroyed"

DownloadFrame == UNCHANGED <<acquiring, clientVars, transport, rejected, archive, directory, current, visited>>
Undecided == request \in {"open", "answered"} /\ completion = "none"

\* A redirect may also be malformed, or name no admitted place.
Redirects(to) ==
  /\ Undecided /\ request = "open"
  /\ Decides(to) /\ UNCHANGED <<late, received>> /\ DownloadFrame

\* 200, of the admitted length as far as it is declared.
Responds ==
  /\ Undecided /\ request = "open"
  /\ request' = "answered" /\ UNCHANGED <<late, received, completion>> /\ DownloadFrame

ReceivesPart(sound) ==
  /\ Undecided /\ request = "answered"
  /\ received' = [parts |-> received.parts + 1, sound |-> received.sound /\ sound]
  /\ IF received'.parts > Length THEN Decides("error") ELSE UNCHANGED <<request, completion>>
  /\ UNCHANGED late /\ DownloadFrame

ResponseEnds ==
  /\ Undecided /\ request = "answered"
  /\ Decides(IF received.parts = Length THEN "bytes" ELSE "error")
  /\ UNCHANGED <<late, received>> /\ DownloadFrame

\* Another status or length, or an error of the client or the response.
DownloadBreaks == Undecided /\ Decides("error") /\ UNCHANGED <<late, received>> /\ DownloadFrame

TimePasses ==
  /\ acquiring = "registry-archive" /\ ~late
  /\ late' = TRUE /\ UNCHANGED <<request, received, completion>> /\ DownloadFrame

DownloadTimesOut == late /\ Undecided /\ Decides("error") /\ UNCHANGED <<late, received>> /\ DownloadFrame

DownloadFails == GivesUp /\ request' = "none" /\ UNCHANGED <<current, visited, late, received, completion>>

\* One turn of the loop: an admitted place that was not visited yet, and time left.
Fetch(place) ==
  \/ /\ place \in Admitted \ visited /\ ~late
     /\ acquiring' = "registry-archive" /\ current' = place /\ visited' = visited \union {place}
     /\ request' = "open" /\ received' = NoBytes /\ completion' = "none"
     /\ UNCHANGED <<clientVars, transport, rejected, late, archive, directory>>
  \/ (place \notin Admitted \ visited \/ late) /\ DownloadFails

Whole == [parts |-> Length, sound |-> TRUE]

\* stagePackageArchive: the identity of the bytes and what is packed in them.
Stages ==
  /\ received = Whole
  /\ RunNpm("cache population") /\ archive' = [archive EXCEPT !.staged = "admitted"] /\ request' = "none"
  /\ UNCHANGED <<transport, proxied, rejected, current, visited, late, received, completion, directory>>

\* "close" of the request: only then does the download go on.
RequestCloses ==
  /\ acquiring = "registry-archive" /\ request = "destroyed"
  /\ \/ completion \in Places /\ Fetch(completion)
     \/ completion = "bytes" /\ (Stages \/ DownloadFails)
     \/ completion \in {"error", "malformed"} /\ DownloadFails

-----------------------------------------------------------------------------
(* createRegistryPackageApplication                                        *)

\* The files a client needs, and the proxy; then npm --version.
Prepares ==
  /\ acquiring = "preparation"
  /\ \/ transport' = "open" /\ RunNpm("client version")
        /\ UNCHANGED <<proxied, rejected, downloadVars, archive, directory>>
     \/ GivesUp /\ UNCHANGED downloadVars

\* "close": the process has ended and all its output has been read.
Succeeded == client.process = "exited" /\ StillAllowed /\ client.ok /\ ~client.timedOut /\ ~client.overflow

ClientReturns ==
  /\ client.process \in {"exited", "unstarted"}
  /\ LET returned == [client EXCEPT !.process = "none"] IN
     \/ /\ acquiring' = "failing" /\ client' = returned /\ CloseTransport
        /\ UNCHANGED <<rejected, downloadVars, archive, directory>>
     \/ /\ Succeeded /\ acquiring = "client version" /\ RunNpm("registry-metadata")
        /\ UNCHANGED <<transport, proxied, rejected, downloadVars, archive, directory>>
     \/ /\ Succeeded /\ acquiring = "registry-metadata"
        /\ \E place \in Admitted : current' = place /\ visited' = {place}
        /\ client' = returned /\ acquiring' = "registry-archive" /\ request' = "open"
        /\ UNCHANGED <<transport, proxied, rejected, late, received, completion, archive, directory>>
     \/ /\ Succeeded /\ acquiring = "cache population" /\ archive.cached = "admitted"
        /\ RunNpm("installation")
        /\ UNCHANGED <<transport, proxied, rejected, downloadVars, archive, directory>>
     \/ /\ Succeeded /\ acquiring = "installation" /\ acquiring' = "consumed cache" /\ client' = returned
        /\ UNCHANGED <<transport, proxied, rejected, downloadVars, archive, directory>>

\* The lock and the files of the package, then the archive that npm has used.
Verifies ==
  /\ acquiring = "consumed cache"
  /\ \/ /\ archive.installed = "admitted" /\ archive.cached = "admitted" /\ AllowedInTheEnd
        /\ acquiring' = "closing" /\ CloseTransport
        /\ UNCHANGED <<client, rejected, archive, directory>>
     \/ GivesUp
  /\ UNCHANGED downloadVars

\* The proxy has closed, or could not be; the directory has another owner now.
TransportCloses ==
  /\ acquiring = "closing" /\ acquiring' \in {"passed", "failing"}
  /\ UNCHANGED <<clientVars, transport, rejected, downloadVars, archive, directory>>

\* rm may fail, which is told with the failure.
CleansUp ==
  /\ acquiring = "failing" /\ acquiring' = "failed" /\ directory' \in {"removed", "kept"}
  /\ UNCHANGED <<clientVars, transport, rejected, downloadVars, archive>>

-----------------------------------------------------------------------------
Consumer == Prepares \/ ClientReturns \/ RequestCloses \/ Verifies \/ TransportCloses \/ CleansUp
Clocks == NpmTimesOut \/ DownloadTimesOut \/ TimePasses
Killing == client.process = "killed" /\ NpmExits
Registry == \/ NpmExits \/ Outputs \/ Responds \/ ResponseEnds \/ DownloadBreaks
            \/ \E kind \in {"admitted", "other"} : Asks(kind) \/ Proxies(kind)
            \/ \E to \in Places \union {"malformed"} : Redirects(to)
            \/ \E sound \in BOOLEAN : ReceivesPart(sound)

NextRegistry == Consumer \/ Clocks \/ Registry

\* We go on, clocks too, and a killed process ends; nothing is assumed of npm
\* and of the registry.
FairRegistry == WF_registryVars(Consumer) /\ WF_registryVars(Clocks) /\ WF_registryVars(Killing)

SpecRegistry == InitRegistry /\ [][NextRegistry]_registryVars /\ FairRegistry

-----------------------------------------------------------------------------
\* A package that is handed on came whole from one answer of an admitted place,
\* and the installation holds what was admitted; the online client never asked
\* for anything else, not even in a request handled after it ended.  Whatever
\* the outcome, no client, request or proxy outlives it, and a failure keeps no
\* directory that it could remove.
PackageIsEarned ==
  /\ acquiring = "passed" =>
       /\ received = Whole /\ current \in Admitted
       /\ archive = [staged |-> "admitted", cached |-> "admitted", installed |-> "admitted"]
       /\ ~rejected /\ directory = "made"
  /\ acquiring \in {"passed", "failed"} =>
       ~Alive /\ request = "none" /\ transport # "open" /\ proxied = {}
  /\ acquiring = "failed" => directory # "made"

PackageDone == acquiring \in {"none", "passed", "failed"}
=============================================================================
