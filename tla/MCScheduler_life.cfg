SPECIFICATION Spec
CONSTANTS
  t1 = t1
  s1 = s1
  s2 = s2
  Tasks = {t1}
  Sids = {s1, s2}
  NoTask = NoTask
  NoSid = NoSid
  ParallelLimit = 1
  Factor = 1
  Enabled = {"Design", "Review", "Adjudicate", "Implement", "Audit", "Retro"}
  Presses = {"approve", "reject", "merge", "pause", "resume", "rerun", "extend", "stop", "cancel", "retro"}
  RerunNodes = {"Implement", "Rebase"}
  ExtraRounds = {1}
  MaxDecided = 1
  MaxBudget = 3
  MaxCrashes = 0
  ConfigEdits = FALSE
  LaunchFailures = TRUE
  PidSeen = {TRUE}
  CarefulUser = TRUE
  Docs <- AllDocs
SYMMETRY Symmetry
INVARIANT NoStalledTask
PROPERTY OnlyStopsForget
PROPERTY KeepsPromise
