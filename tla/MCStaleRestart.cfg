CONSTANTS
  Sessions = {a, b}
  Session = a
  Steps = {1, 2}
  Owner = owner
  Watchers = {w}
  Generations = 2
  Buffer = 2
  None = None
  Capacity = 2
  Scenarios <- LateScenario
SPECIFICATION FairSpec
PROPERTY IdleLetsSleep
CHECK_DEADLOCK FALSE
