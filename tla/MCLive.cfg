SPECIFICATION FairSpec
CONSTANTS
  Tasks <- OneTask
  Nodes <- TwoNodes
  TaskOf <- SameTask
  KindOf <- AgentFirst
  SessionOf <- OwnSessions
  Entry <- FirstNode
  Edges <- EitherEdges
  Saved <- NothingSaved
  Budgets <- InterruptOrClose
  Starts = {s1, s2}
  Interrupters = {i1}
  AgentConcurrency = 1
  ExplicitConcurrency = 1
  None = None
PROPERTIES CloseCompletes InterruptsReturn ResumeBecomesAvailable StartsAreTaken
CHECK_DEADLOCK FALSE
