SPECIFICATION FairEither
CONSTANTS
  npm = npm
  tag = tag
  public = public
  Operations = {1, 2}
  Npm = npm
  Github <- MCGithub
  Modes = {"oidc", "bootstrap", "observe"}
  MaxFaults = 1
  MaxNotes = 1
  Pages = {1, 2}
  MaxRequests = 3
  MaxServing = 1
  MaxMishaps = 1
  Places = {"here", "there", "elsewhere"}
  Admitted = {"here", "there"}
  Length = 2
  MaxOutput = 1
INVARIANTS EffectsHappenOnce OutcomesAreTrue ReleaseIsWhole ResultsAreEarned
CHECK_DEADLOCK FALSE
PROPERTIES EverythingEnds RequestsKeepTheirRun
