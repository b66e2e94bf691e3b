SPECIFICATION Spec
CONSTANTS
  Tasks <- OneTask
  Nodes <- TwoNodes
  TaskOf <- SameTask
  KindOf <- AgentFirst
  SessionOf <- OwnSessions
  Entry <- FirstNode
  Edges <- ChainEdges
  Saved <- AllAdmitted
  Budgets <- MoveResumeRestart
  Starts = {s1, s2}
  Interrupters = {i1}
  AgentConcurrency = 1
  ExplicitConcurrency = 1
  None = None
PROPERTIES StartsOnlyCurrent ResumeLeavesNoOrphan
CHECK_DEADLOCK FALSE
