SPECIFICATION Spec
CONSTANTS
  t1 = t1
  s1 = s1
  s2 = s2
  Tasks = {t1}
  Sids = {s1, s2}
  NoTask = NoTask
  NoSid = NoSid
  ParallelLimit = 1
  Factor = 1
  Enabled = {"Implement", "Retro"}
  Presses = {"approve", "merge", "pause", "resume", "extend", "stop", "retro"}
  RerunNodes = {}
  ExtraRounds = {1}
  MaxDecided = 1
  MaxBudget = 2
  MaxCrashes = 1
  ConfigEdits = TRUE
  LaunchFailures = TRUE
  PidSeen = {TRUE, FALSE}
  CarefulUser = TRUE
  Docs <- ShortDocs
SYMMETRY Symmetry
INVARIANT OneRowPerTask
PROPERTY ResultMatchesNode
INVARIANT Inductive
