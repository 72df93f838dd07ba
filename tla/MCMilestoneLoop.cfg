\* a task that is done, or failed and not restarted, is where it ends
CHECK_DEADLOCK FALSE
SPECIFICATION FairSpec
CONSTANTS
  m1 = m1
  m2 = m2
  b1 = b1
  d1 = d1
  Milestones = {m1, m2}
  Backlog = {b1}
  Disputes = {}
  Enabled = {"Audit", "Retro"}
  Factor = 1
  Presses = {"approve", "reject", "merge", "extend"}
  Slips = {"closes", "noEvidence", "miscounts"}
  CrashIn = {"budget", "consume", "start"}
  MaxCrashes = 1
  MaxBudget = 2
  MaxRounds = 5
INVARIANT OnlyAuditCloses
INVARIANT FinishedBeforeMerge
INVARIANT AbsorbedIsPaid
PROPERTY UserWordStands
PROPERTY LoopEnds
