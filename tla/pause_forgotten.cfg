CONSTANTS
  p1 = p1
  p2 = p2
  r1 = r1
  r2 = r2
  Projects = {p1, p2}
  Runners = {r1}
  Once <- None
  Anything = Anything
  Nobody = Nobody
  User = User
  Focus <- Together
  Priority <- Equal
  Spinning <- None
  Eventful <- One
  Steered <- Two
  MaxDisturbances = 1
SPECIFICATION FairSpec
CHECK_DEADLOCK FALSE
PROPERTY PauseHolds
