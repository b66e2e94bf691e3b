CONSTANTS
  Sessions = {a, b}
  Session = a
  Steps = {1, 2}
  Owner = owner
  Watchers = {w}
  Generations = 2
  Buffer = 2
  None = None
  Capacity = 2
  Scenarios <- RegistryScenarios
SPECIFICATION Spec
INVARIANTS ViewOnlyWhileReady RetiredHasNoPrompts SubscriberKnowsPrompts ObservationsAreReleased
PROPERTIES VersionsGrow
CHECK_DEADLOCK FALSE
