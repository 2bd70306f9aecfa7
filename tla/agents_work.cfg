CONSTANTS
  MaxTurns = 3
  StallTurns = 4
  KeepTail = 1
  FewTurns = 2
  Outputs = {"pass", "fail"}
  MaxRetries = 2
  Rounds = 3
  Sizes = {1, 2}
  Files = {f1, f2}
  MaxEdits = 3
  MaxStops = 1
  Questions = {g1, g2}
  Terminals = {t1, t2}
  Words = {w1, w2}
  MaxLines = 4
  MaxTears = 1
SPECIFICATION AgentsSpec
CHECK_DEADLOCK FALSE
INVARIANTS
  AgentsTypeOK
  
  CompactionKeepsEnds
  DeadlineIsHonest
  AnswerIsWhole
  LookupsAreCurrent
  OneLostPerKill
  AnswerSurvives
