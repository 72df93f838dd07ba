\* a task that is done or cancelled is where it ends
CHECK_DEADLOCK FALSE
SPECIFICATION FairSpec
CONSTANTS
  docs = docs
  code = code
  Repos = {docs, code}
  Docs = docs
  Presses = {"approve", "merge", "stop", "rerun", "cancel"}
  Meddling = {"base", "tree", "checkout", "stray", "git"}
  MaxMeddled = 2
  MaxCrashes = 1
INVARIANT DoneLandsEverything
INVARIANT CancelReachesAll
PROPERTY NothingDestroyed
PROPERTY CoreStepsEnd
