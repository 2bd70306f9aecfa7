SPECIFICATION Spec
CONSTANTS
  a = a
  b = b
  n = n
  m = m
  Items = {a, n, m}
  NoItem = NoItem
  MaxAttempts = 1
  InitialPlans <- MCSingle
  TestFirst = {}
  TriageRounds = 1
  TriageVerdicts = {"split"}
  Drafts <- MCAnyOrder
  Fixes = {}
  Askers = {}
  HeadBorn = {TRUE}
  MaxGates = 2
  MaxRequests = 0
  MaxCrashes = 0
INVARIANT
  PlanStaysAcyclic
CHECK_DEADLOCK FALSE
