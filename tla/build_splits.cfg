SPECIFICATION Spec
CONSTANTS
  a = a
  b = b
  n = n
  m = m
  Items = {a, b, n, m}
  NoItem = NoItem
  MaxAttempts = 1
  InitialPlans <- MCChain
  TestFirst = {}
  TriageRounds = 1
  TriageVerdicts = {"retry", "drop", "split"}
  Drafts <- MCAnyOrder
  Fixes <- MCFixes
  Askers = {b}
  HeadBorn = {TRUE}
  MaxGates = 1
  MaxRequests = 0
  MaxCrashes = 0
SYMMETRY MCSpares
INVARIANTS
  WorkRespectsDeps
PROPERTIES
  SplitKeepsOrder
  OnlySplitsTangle
CHECK_DEADLOCK FALSE
