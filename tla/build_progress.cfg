SPECIFICATION FairSpec
CONSTANTS
  a = a
  b = b
  n = n
  m = m
  Items = {a, n}
  NoItem = NoItem
  MaxAttempts = 1
  InitialPlans <- MCSingle
  TestFirst = {a}
  TriageRounds = 1
  TriageVerdicts = {"retry", "drop", "split"}
  Drafts <- MCInOrder
  Fixes = {}
  Askers = {}
  HeadBorn = {TRUE}
  MaxGates = 3
  MaxRequests = 1
  MaxCrashes = 0
PROPERTIES
  VisitsEnd
  ReadyWorkIsTaken
  SettledMissionCloses
CHECK_DEADLOCK FALSE
