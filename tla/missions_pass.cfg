CONSTANTS
  NumSeats = 2
  MaxTrees = 2
  MaxAttempts = 2
  MaxKills = 1
  CommitsFail = TRUE
  HandEdits = TRUE
  Budget = 2
  MaxQuestions = 3
  PlanRounds = 3
  MaxRequests = 1
  MaxFailures = 1
  MaxDeaths = 2
  Sessions = {s1, s2}
  Items = {i1, i2}
  MaxOutages = 1
  MaxLosses = 1
  Models = {m1, m2}
  Observers = {o1, o2}
  MaxChanges = 2
  MaxCrashes = 1
  Helpers = {h1, h2}
  MaxCommands = 2
  Lengths = {0, 900, 4000}
  Priorities = {1, 3}
  Rooms = {100, 250, 512}
  MaxSections = 2
SPECIFICATION MissionsSpec
CHECK_DEADLOCK FALSE
INVARIANTS
  MissionsTypeOK
  VerdictsAboutDiff
  QuestionBudget
  AnswersReachCharter
  MirrorGaps
  LogMatchesRecord
PROPERTIES
  ReviewEnds
  ImplementsSignOff
  DefinitionSettles
  OutboxDrains
  RecordCatchesUp
  VerificationEnds
  PackEnds
