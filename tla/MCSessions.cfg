SPECIFICATION FairSpec
CONSTANTS
  Jobs <- AllJobs
  MaxCrashes = 1
INVARIANT ExitIsTheClis
INVARIANT StartsFullyTold
PROPERTY EndIsNoticed
CHECK_DEADLOCK FALSE
