SPECIFICATION Spec
CONSTANTS
  Tasks <- OneTask
  Nodes <- ThreeNodes
  TaskOf <- SameTask
  KindOf <- Agents
  SessionOf <- OwnSessions
  Entry <- FirstNode
  Edges <- ForkEdges
  Saved <- NothingSaved
  Budgets <- PromoteOrFault
  Starts = {s1, s2, s3}
  Interrupters = {}
  AgentConcurrency = 1
  ExplicitConcurrency = 2
  None = None
INVARIANTS CapacityAccounted OwnedOnce ReservedByWorker NoLostWake
CHECK_DEADLOCK FALSE
