SPECIFICATION Spec
CONSTANTS
  a = a
  b = b
  n = n
  m = m
  Items = {a, n}
  NoItem = NoItem
  MaxAttempts = 1
  InitialPlans <- MCSingle
  TestFirst = {a}
  TriageRounds = 1
  TriageVerdicts = {"retry", "drop", "ask_user"}
  Drafts = {}
  Fixes = {}
  Askers = {a}
  HeadBorn = {TRUE, FALSE}
  MaxGates = 2
  MaxRequests = 1
  MaxCrashes = 1
INVARIANTS
  TypeOK
  IInv
  ParkedHasQuestion
  OneInFlight
  AttemptBudget
  ClosedIsSettled
PROPERTIES
  DoneIsFinal
  QuestionsPersist
  ConsumedWasRead
CHECK_DEADLOCK FALSE
