SPECIFICATION FairSpec
CONSTANTS
  t1 = t1
  t2 = t2
  s1 = s1
  s2 = s2
  s3 = s3
  Tasks = {t1, t2}
  Sids = {s1, s2, s3}
  NoTask = NoTask
  NoSid = NoSid
  ParallelLimit = 1
  Factor = 1
  Enabled = {}
  Presses = {"pause", "resume"}
  RerunNodes = {}
  ExtraRounds = {}
  MaxDecided = 0
  MaxBudget = 2
  MaxCrashes = 1
  ConfigEdits = FALSE
  LaunchFailures = FALSE
  PidSeen = {TRUE}
  CarefulUser = TRUE
  Docs <- StopDocs
PROPERTY QueueStartsWithinLimit
PROPERTY EndedIsReaped
PROPERTY QueueDrains
PROPERTY StalledRecovers
