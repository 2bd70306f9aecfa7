SPECIFICATION Spec
CONSTANTS
  a = a
  b = b
  n = n
  m = m
  Items = {a, n}
  NoItem = NoItem
  MaxAttempts = 1
  InitialPlans <- MCSingle
  TestFirst = {}
  TriageRounds = 1
  TriageVerdicts = {"drop"}
  Drafts = {}
  Fixes = {}
  Askers = {}
  HeadBorn = {TRUE}
  MaxGates = 2
  MaxRequests = 1
  MaxCrashes = 0
PROPERTY
  SignoffCoversItem
CHECK_DEADLOCK FALSE
