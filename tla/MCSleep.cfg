CONSTANTS
  Sessions = {a, b}
  Session = a
  Steps = {1, 2}
  Owner = owner
  Watchers = {w}
  Generations = 2
  Buffer = 2
  None = None
  Capacity = 2
  Scenarios <- SleepScenarios
SPECIFICATION FairSpec
INVARIANTS HeldMatchesGuard ClosedLetsSleep
PROPERTIES WorkKeepsAwake IdleGivesUp SubscribersAttach DrainCompletes
CHECK_DEADLOCK FALSE
