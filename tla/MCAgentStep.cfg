CONSTANTS
  turn = turn
  queued = queued
  flow = flow
  work1 = work1
  work2 = work2
  user = user
  engine = engine
  None = None
  Turns <- MCTurns
  Flows <- MCFlows
  Detached <- MCDetached
  Works <- MCWorks
  Callers <- MCRuns
  Compactions <- MCCompactions
  Stoppers <- MCStoppers
  Closer = engine
  Limits <- Safety
  MaxOperations = 1
SPECIFICATION Spec
INVARIANTS EngineStepsDoNotOverlap OneStepAtATime RequestsSeeNoMutation InterruptedRunStaysCurrent RetiredIsQuiet HeadIsReady
CHECK_DEADLOCK FALSE
