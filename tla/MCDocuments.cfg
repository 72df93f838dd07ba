INIT MCInit
NEXT MCNext
\* A document that is written and a version that is judged are the end.
CHECK_DEADLOCK FALSE
CONSTANTS
  Proposals <- MCProposals
  Revisions <- MCRevisions
  Roles <- MCRoles
  Required <- MCRequired
  Forbidden <- MCForbidden
  Regions <- MCRegions
  Level <- MCLevel
  Begins <- MCBegins
  MaxSize = 10
  Baselines <- MCBaselines
  FileVersions = {0, 1, 2, 3, 4}
  Strangers <- MCStrangers
  Builds = {2, 3}
  Cores = {"one", "two"}
  MaxStarts = 2
INVARIANT ReadAsWritten StoreIsWhole PassedCanRun PassIsEarned
