------------------------ MODULE MCReleasePublication ------------------------
(* Model values for ReleasePublication.  The pages its consume job runs      *)
(* (BrowserRun) and the package it obtains for them (RegistryPackage) are    *)
(* behaviours of their own: the three share nothing.                         *)
EXTENDS ReleasePublication, BrowserRun, RegistryPackage

CONSTANTS npm, tag, public

MCGithub == <<tag, public>>

allVars == <<vars, pageVars, registryVars>>

InitEither == /\ Init /\ InitPages /\ InitRegistry
              /\ suite = "none" \/ acquiring = "none"
NextEither == \/ suite = "none" /\ acquiring = "none" /\ Next /\ UNCHANGED <<pageVars, registryVars>>
              \/ NextPages /\ UNCHANGED <<vars, registryVars>>
              \/ NextRegistry /\ UNCHANGED <<vars, pageVars>>
FairEither == /\ InitEither /\ [][NextEither]_allVars
              /\ Fairness /\ FairPages /\ FairRegistry

\* What is passed on was earned: the page whose result counts has sent it, and
\* the package that is qualified is the one admitted; neither leaves anything.
ResultsAreEarned == PagesAreEarned /\ PackageIsEarned

\* A run that no human takes part in ends, whatever is lost, before its window
\* does: the gate and the client each see that the other has failed.  A suite of
\* pages ends in a report, although a browser may hang, ignore every signal or
\* leave its standard error open.  A package is obtained or given up, although
\* its registry and its clients may hang.
EverythingEnds == []<>(~GoesOn /\ SuiteDone /\ PackageDone)
=============================================================================
