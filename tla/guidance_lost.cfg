SPECIFICATION FairSpec
CONSTANTS
  a = a
  b = b
  n = n
  m = m
  Items = {a, n}
  NoItem = NoItem
  MaxAttempts = 1
  InitialPlans <- MCSingle
  TestFirst = {}
  TriageRounds = 0
  TriageVerdicts = {}
  Drafts = {}
  Fixes = {}
  Askers = {}
  HeadBorn = {TRUE}
  MaxGates = 3
  MaxRequests = 1
  MaxCrashes = 0
PROPERTY
  GuidanceReachesItems
CHECK_DEADLOCK FALSE
