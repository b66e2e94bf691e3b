--------------------------- MODULE CurrentNodeState ---------------------------
(***************************************************************************)
(* The state of server/workflowexecution's CurrentNodeController and of    *)
(* the two things it works on: the durable Current Nodes of a Task (the    *)
(* Workflow store) and the Exact Execution Scopes (the Session Runtime     *)
(* Authority).  The modules that EXTEND this one hold the actions, one     *)
(* module per source file.                                                 *)
(*                                                                         *)
(* Grain.  A function run inside the Task's mutation lane is one step (the *)
(* lane is MutationLane.tla), and so is a section under c.mu outside it.   *)
(* Everything a goroutine does between two such sections is a step of its  *)
(* own, so starts, executions, interrupts and Close interleave there.      *)
(***************************************************************************)
EXTENDS Integers, FiniteSets

CONSTANTS
  Nodes,               \* executable Nodes of all Tasks, as numbers in plan order
  Tasks,
  TaskOf,              \* Node -> its Task
  KindOf,              \* Node -> "agent" or "script"
  SessionOf,           \* Node -> the Session its agent runs in
  Entry,               \* Task -> the Node its start Transition leads to
  Edges,               \* Transitions: records [from, to (a set), approval]
  Saved,               \* Node -> its scheduling state found at startup
  Starts,              \* identities of queuedCurrentNodeStart
  Interrupters,        \* concurrent Interrupt operations
  AgentConcurrency,    \* limit of automatic agents
  ExplicitConcurrency, \* explicitAdmissionConcurrency
  Budgets,             \* operation -> how often it happens: a behaviour keeps to one
  None

Operations == {"start", "resume", "session", "promote", "interrupt", "stop",
               "move", "fault", "store", "timeout", "restart", "close"}
Kinds == {"agent", "script"}
Schedulings == {"none", "ready", "admitted", "interrupted"}

ASSUME ControllerAssumption ==
  /\ Nodes \subseteq Nat
  /\ TaskOf \in [Nodes -> Tasks]
  /\ KindOf \in [Nodes -> Kinds]
  /\ Entry \in [Tasks -> Nodes]
  /\ \A e \in Edges : e.from \in Nodes /\ e.to \subseteq Nodes
  /\ Saved \in [Nodes -> Schedulings]
  /\ IsFiniteSet(Starts)
  /\ AgentConcurrency \in Nat
  /\ ExplicitConcurrency \in Nat
  /\ Budgets \subseteq [Operations -> Nat]
  /\ None \notin Nodes /\ None \notin Starts /\ None \notin Tasks

NodesOf(t) == {n \in Nodes : TaskOf[n] = t}

VARIABLES
  \* Workflow store: survives a restart.
  sched,      \* Node -> its durable scheduling state, "none" when not current
  approval,   \* Node -> targets awaiting Approval, None when nothing is pending
  backlog,    \* Tasks not started yet
  \* The starts: queue entry, admission goroutine and Exact Execution Scope.
  start,
  \* CurrentNodeController
  before,     \* arrival order of the starts in each queue
  explicitQueued, queued,                       \* keys of the two queues
  explicitReservations, automaticReservations,  \* key -> taken start
  admissionWorkers,                             \* key -> admission goroutine
  capacity,   \* agentCapacityActive
  lastTask,   \* lastAutomaticAdmissionTask
  wake,       \* the token in workerWake
  loop,       \* runAdmissions: waiting, about to take from a queue, or ended
  workerErr,  \* set once recovery of a failed start could not be persisted
  closer,     \* progress of Close
  closeWaits, \* the executions StopWorkflowExecutions waits for
  fenceScope, fenceNode,  \* currentNodeInterruptState: scope -> fenced Task,
                          \* and the fenced keys
  cleanup,    \* Interrupter -> its interrupt and where cleanupInterrupt is
  lane,       \* Task -> the operation in its lane between EnsureTaskQuiescent's
              \* look at the Authority and its look at the controller
  quiet,      \* the Tasks for which that first look found no execution
  alive,      \* FALSE after a panic
  used        \* operations spent, against Budgets

durable == <<sched, approval, backlog>>
queues == <<before, explicitQueued, queued>>
reservations == <<explicitReservations, automaticReservations>>
worker == <<wake, loop, lastTask>>
closing == <<closer, closeWaits>>
fences == <<fenceScope, fenceNode>>
lanes == <<lane, quiet>>
vars == <<durable, start, queues, reservations, admissionWorkers, capacity, worker,
          workerErr, closing, fences, cleanup, lane, quiet, alive, used>>

-------------------------------------------------------------------------------
\* Stages of a start.  "held": committed by a completion whose Continue has not
\* run; "approved": committed by an Approval and not queued yet; "prepare" ...
\* "finish": an admission goroutine; "done": that goroutine has ended.
QueueStages == {"explicit", "automatic"}
WorkerStages == {"prepare", "starting", "launched", "dropped", "refused", "broken",
                 "recoverRefused", "recoverBroken", "unfence", "finish"}
StartStages == {"free", "held", "approved", "done"} \cup QueueStages \cup WorkerStages

\* Stages of an execution.  Agents: "running" until the turn ends, "fail" before
\* FailCurrentNodeScope, "cleaned" once the Session is free.  Scripts:
\* "finalizing" once the process has exited.  "continue": completion committed.
ExecutionStages == {"none", "running", "finalizing", "continue", "fail", "end",
                    "cleaned", "retired"}

Policies == {"explicit", "agent", "script"}
Leases == {"none", "reservation", "live", "released"}

NoStart == [pc |-> "free", node |-> None, policy |-> "explicit", mark |-> "ready",
            lease |-> "none", parent |-> None, exec |-> "none", stop |-> FALSE]
NoCleanup == [pc |-> "idle", task |-> None, scopes |-> {}, refs |-> {}, drained |-> {},
              fenced |-> FALSE]

StartRecord == [pc : StartStages, node : Nodes \cup {None}, policy : Policies,
                mark : {"ready", "admitted"}, lease : Leases,
                parent : Nodes \cup {None}, exec : ExecutionStages, stop : BOOLEAN]
CleanupRecord == [pc : {"idle", "stop", "persist", "wait", "drained", "verify"},
                  task : Tasks \cup {None}, scopes : SUBSET Starts,
                  refs : SUBSET Nodes, drained : SUBSET Nodes, fenced : BOOLEAN]

TypeOK ==
  /\ sched \in [Nodes -> Schedulings]
  /\ approval \in [Nodes -> (SUBSET Nodes) \cup {None}]
  /\ backlog \in SUBSET Tasks
  /\ start \in [Starts -> StartRecord]
  /\ before \in SUBSET (Starts \X Starts)
  /\ explicitQueued \in SUBSET Nodes
  /\ queued \in SUBSET Nodes
  /\ explicitReservations \in [Nodes -> Starts \cup {None}]
  /\ automaticReservations \in [Nodes -> Starts \cup {None}]
  /\ admissionWorkers \in [Nodes -> Starts \cup {None}]
  /\ capacity \in Nat
  /\ lastTask \in Tasks \cup {None}
  /\ wake \in BOOLEAN
  /\ loop \in {"parked", "explicit", "automatic", "stopped"}
  /\ workerErr \in BOOLEAN
  /\ closer \in {"none", "closing", "closed", "stopping", "joining", "done"}
  /\ closeWaits \in SUBSET Starts
  /\ fenceScope \in [Starts -> Tasks \cup {None}]
  /\ fenceNode \in SUBSET Nodes
  /\ cleanup \in [Interrupters -> CleanupRecord]
  /\ lane \in [Tasks -> {"free", "start", "resume", "session", "move"}]
  /\ quiet \in SUBSET Tasks
  /\ alive \in BOOLEAN
  /\ used \in [Operations -> Nat]

\* A new process over the saved Current Nodes: nothing is queued, running or
\* fenced, and the admission worker waits.
Init ==
  /\ sched = Saved
  /\ approval = [n \in Nodes |-> None]
  /\ backlog = {t \in Tasks : \A n \in NodesOf(t) : Saved[n] = "none"}
  /\ start = [s \in Starts |-> NoStart]
  /\ before = {}
  /\ explicitQueued = {} /\ queued = {}
  /\ explicitReservations = [n \in Nodes |-> None]
  /\ automaticReservations = [n \in Nodes |-> None]
  /\ admissionWorkers = [n \in Nodes |-> None]
  /\ capacity = 0
  /\ lastTask = None
  /\ wake = FALSE /\ loop = "parked"
  /\ workerErr = FALSE
  /\ closer = "none" /\ closeWaits = {}
  /\ fenceScope = [s \in Starts |-> None]
  /\ fenceNode = {}
  /\ cleanup = [i \in Interrupters |-> NoCleanup]
  /\ lane = [t \in Tasks |-> "free"]
  /\ quiet = {}
  /\ alive = TRUE
  /\ used = [o \in Operations |-> 0]

WithinBudget(u) == \E b \in Budgets : \A o \in Operations : u[o] <= b[o]

Spend(o) ==
  /\ used' = [used EXCEPT ![o] = @ + 1]
  /\ WithinBudget(used')

-------------------------------------------------------------------------------
(* Session Runtime Authority. *)

OfTask(s, t) == start[s].node \in NodesOf(t)
Agent(s) == start[s].node # None /\ KindOf[start[s].node] = "agent"

\* The scope is registered (byScope): published and not retired.
Live(s) == start[s].exec \notin {"none", "retired"}

\* The scope is in the Workflow index: an Agent until it retires, a Script until
\* it finalizes.  These are also the executions whose phase is Running.
Indexed(s) == IF Agent(s) THEN Live(s) ELSE start[s].exec = "running"

IndexedAt(n) == {s \in Starts : start[s].node = n /\ Indexed(s)}

\* The Agent is its resource's current execution.
HoldsSession(s) == Agent(s) /\ start[s].exec \in {"running", "continue", "fail", "end"}
SessionExecution(n) ==
  {s \in Starts : HoldsSession(s) /\ SessionOf[start[s].node] = SessionOf[n]}

HasLiveWorkflowTaskExecution(t) == \E s \in Starts : OfTask(s, t) /\ Live(s)

-------------------------------------------------------------------------------
(* Controller predicates, all read under c.mu. *)

\* A lane section asks whether Close has begun before it waits for its lane, and
\* Close waits for the sections it let in.  While closing, a section may thus
\* still run or be turned away; once closed none runs.
Closed == closer \notin {"none", "closing"}
ClosedOrClosing == closer # "none"

\* A fence is active while one of its scopes or Nodes is still indexed.
TaskFenced(t) ==
  \/ \E s \in Starts : fenceScope[s] = t
  \/ NodesOf(t) \cap fenceNode # {}
TaskAvailable(t) == ~Closed /\ ~workerErr /\ ~TaskFenced(t)

\* No operation is in the lane of n's Task.
LaneFree(n) == lane[TaskOf[n]] = "free"

CurrentNodeOwned(n) ==
  \/ n \in explicitQueued \cup queued
  \/ explicitReservations[n] # None
  \/ automaticReservations[n] # None

\* Deliberately wrong quiescence test: only the queues count.
QuiescentIgnoringWorkers(t) ==
  /\ \A n \in NodesOf(t) : n \notin explicitQueued \cup queued
  /\ ~TaskFenced(t)

\* taskExecutionQuiescentLocked
ControllerQuiescent(t) ==
  /\ \A n \in NodesOf(t) : ~CurrentNodeOwned(n) /\ admissionWorkers[n] = None
  /\ ~TaskFenced(t)

-------------------------------------------------------------------------------
(* Workflow store: each operator is the committed scheduling after the call. *)

\* InterruptCurrentNode on each of N.
Interrupted(N) ==
  [n \in Nodes |-> IF n \in N /\ sched[n] \in {"ready", "admitted"}
                   THEN "interrupted" ELSE sched[n]]

\* InterruptAdmittedCurrentNode on n.
AdmittedInterrupted(n) ==
  IF sched[n] = "admitted" THEN [sched EXCEPT ![n] = "interrupted"] ELSE sched

\* Deliberately wrong: only the agents are reconciled.
ReconciledAgents(t) == Interrupted({n \in NodesOf(t) : KindOf[n] = "agent"})

\* ReconcileTaskResume: sources of a pending Approval stay as they are.
Reconciled(t) == Interrupted({n \in NodesOf(t) : approval[n] = None})

\* AdmitCurrentNode accepts a ready Node without a pending Approval.
Admissible(n) == sched[n] = "ready" /\ approval[n] = None
===============================================================================
