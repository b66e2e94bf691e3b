SPECIFICATION Spec
CONSTANTS
  Tasks <- OneTask
  Nodes <- TwoNodes
  TaskOf <- SameTask
  KindOf <- Agents
  SessionOf <- SharedSession
  Entry <- FirstNode
  Edges <- ApprovalEdges
  Saved <- NothingSaved
  Budgets <- Races
  Starts = {s1, s2}
  Interrupters = {i1}
  AgentConcurrency = 1
  ExplicitConcurrency = 1
  None = None
INVARIANTS OneScopePerNode  FenceHasOwner
PROPERTIES ClosedIsFrozen
CHECK_DEADLOCK FALSE
