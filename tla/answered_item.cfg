SPECIFICATION FairSpec
CONSTANTS
  a = a
  b = b
  n = n
  m = m
  Items = {a}
  NoItem = NoItem
  MaxAttempts = 2
  InitialPlans <- MCSingle
  TestFirst = {}
  TriageRounds = 0
  TriageVerdicts = {}
  Drafts = {}
  Fixes = {}
  Askers = {a}
  HeadBorn = {TRUE}
  MaxGates = 3
  MaxRequests = 0
  MaxCrashes = 0
PROPERTY
  AnsweredItemResumes
CHECK_DEADLOCK FALSE
