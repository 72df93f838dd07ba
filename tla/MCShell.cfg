SPECIFICATION FairSpec
\* The core may stay away and the user too: nothing is left to do then.
CHECK_DEADLOCK FALSE
CONSTANTS
  Slots = {1, 2}
  Reqs = {1, 2}
  None = None
  MaxQuick = 2
  Changes = {"reaped", "written"}
  Faults = {"dies", "times out"}
INVARIANTS OneCore NobodyWaitsOnTheDead
PROPERTIES CoreReturnsOrTold ChangesAreShown
