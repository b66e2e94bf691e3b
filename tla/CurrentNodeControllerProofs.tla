--------------------- MODULE CurrentNodeControllerProofs ----------------------
(*****************************************************************************)
(* Operators, Close and restarts keep IInv, so it holds in every             *)
(* reachable state; with the lemmas of CurrentNodeQueueProofs and            *)
(* CurrentNodeOrderProofs so does JInv; and the theorems that follow.        *)
(*****************************************************************************)
EXTENDS CurrentNodeCapacityProofs, CurrentNodeQueueProofs, CurrentNodeOrderProofs

USE DEF durable, queues, reservations, worker, closing, fences, lanes

-------------------------------------------------------------------------------
(* Operators. *)

\* What the operators of CurrentNodeLifecycle leave of the starts and the queues.
StartsAndQueuesOK ==
  /\ StartsOK' /\ Leased' = Leased
  /\ before' \in SUBSET (Starts \X Starts)
  /\ explicitQueued' \in SUBSET Nodes /\ queued' \in SUBSET Nodes

\* queuePreparedStarts keeps leases and types.
LEMMA QueuePreparedStartsKeeps ==
  ASSUME IInv, NEW T \in SUBSET Nodes, QueuePreparedStarts(T)
  PROVE  StartsAndQueuesOK /\ wake' \in BOOLEAN
<1> DEFINE f == Allocation(T)
           st == WithStarts(f, Explicit)
<1>1. Explicit \in StartRecord /\ Fresh(Explicit)
  BY Zenon DEF Explicit, NoStart, StartRecord, Fresh, Holds, StartStages, QueueStages, Policies,
         Leases, ExecutionStages
<1>2. /\ st \in [Starts -> StartRecord]
      /\ \A q \in Starts : WellFormed(st[q]) /\ (Holds(st[q]) <=> Holds(start[q]))
      /\ \A q \in Allocated(f) : q \in Starts /\ Fresh(st[q])
  BY <1>1, WithStartsKeeps, Zenon DEF QueuePreparedStarts, IInv
<1>3. Enqueue(st, Allocated(f), "explicit")
  BY Zenon DEF QueuePreparedStarts
<1> HIDE DEF f, st
<1>4. StartsAndQueuesOK
  BY <1>2, <1>3, EnqueueKeeps, Zenon DEF StartsAndQueuesOK, QueueStages
<1>5. wake' \in BOOLEAN
  BY Zenon DEF QueuePreparedStarts
<1> QED BY <1>4, <1>5, Zenon

\* A promoted start had no lease yet, so leaving the agent policy frees nothing.
LEMMA PromoteKeeps ==
  ASSUME IInv, NEW S \in SUBSET Queue("automatic"), Promote(S)
  PROVE  StartsAndQueuesOK
<1> USE DEF IInv
<1> DEFINE g == [s \in Starts |-> IF s \in S
                                THEN [start[s] EXCEPT !.pc = "explicit", !.policy = "explicit"]
                                ELSE start[s]]
<1>0. \A s \in S : s \in Starts /\ start[s].pc = "automatic"
  BY Zenon DEF Queue
<1>1. start' = g
  BY Zenon DEF Promote
<1>2. ASSUME NEW q \in Starts
      PROVE  g[q] \in StartRecord /\ WellFormed(g[q]) /\ (Holds(g[q]) <=> Holds(start[q]))
  <2>0. start[q] \in StartRecord /\ WellFormed(start[q])
    BY Zenon DEF StartsOK
  <2>1. CASE q \in S
    <3>1. g[q] = [start[q] EXCEPT !.pc = "explicit", !.policy = "explicit"] /\ start[q].pc = "automatic"
      BY <1>0, <2>1, Zenon
    <3> HIDE DEF g
    <3>2. g[q] \in StartRecord
      BY <2>0, <3>1, Zenon DEF StartRecord, StartStages, QueueStages, Policies
    <3>3. /\ g[q].exec = start[q].exec /\ g[q].pc = "explicit"
          /\ g[q].node = start[q].node /\ g[q].lease = start[q].lease
      BY <2>0, <3>1, Zenon DEF StartRecord
    <3> QED BY <2>0, <3>1, <3>2, <3>3 DEF WellFormed, Holds, Unlaunched, QueueStages, Admitting
  <2>2. CASE q \notin S
    BY <2>0, <2>2, Zenon
  <2> QED BY <2>1, <2>2, Zenon
<1>3. g = [q \in Starts |-> g[q]]
  BY Zenon
<1> HIDE DEF g
<1>4. StartsOK' /\ Leased' = Leased
  BY <1>1, <1>2, <1>3, UpdateAll, Zenon
<1>5. before' \in SUBSET (Starts \X Starts)
  BY <1>0, Zenon DEF Promote, Joined, Without, Queue, TypeOK
<1>6. {start[s].node : s \in S} \subseteq Nodes
  BY <1>0, Zenon DEF StartsOK, WellFormed
<1>7. explicitQueued' \in SUBSET Nodes /\ queued' \in SUBSET Nodes
  BY <1>6, Zenon DEF Promote, TypeOK
<1> QED BY <1>4, <1>5, <1>7 DEF StartsAndQueuesOK

\* Committing admissions leaves scheduling states.
LEMMA AdmittedInOK ==
  ASSUME NEW sc \in [Nodes -> Schedulings], NEW T
  PROVE  AdmittedIn(sc, T) \in [Nodes -> Schedulings]
BY Zenon DEF AdmittedIn, Schedulings

\* An operation that leaves its lane keeps the invariant if what it did to the
\* starts, the queues and the durable state does.
LEMMA LeaveLaneKeeps ==
  ASSUME IInv, NEW t \in Tasks, LeaveLane(t), StartsAndQueuesOK, wake' \in BOOLEAN,
         sched' \in [Nodes -> Schedulings],
         approval' \in [Nodes -> (SUBSET Nodes) \cup {None}],
         backlog' \in SUBSET Tasks
  PROVE  IInv'
<1>1. TypeOK'
  BY DEF IInv, LeaveLane, StartsAndQueuesOK, TypeOK, StartsOK
<1> QED BY <1>1, Zenon DEF IInv, LeaveLane, StartsAndQueuesOK, CapacityAccounted

\* An operation that touches neither starts nor queues.
LEMMA UnchangedStarts ==
  ASSUME IInv, UNCHANGED <<start, before, explicitQueued, queued>>
  PROVE  StartsAndQueuesOK
BY Zenon DEF IInv, StartsAndQueuesOK, StartsOK, Leased, TypeOK

\* Reconciliation leaves scheduling states.
LEMMA ReconciliationOK ==
  ASSUME TypeOK, NEW t \in Tasks
  PROVE  Reconciliation(t) \in [Nodes -> Schedulings]
BY InterruptedOK, Zenon DEF Reconciliation, Reconciled, TypeOK

\* Every operator step keeps the invariant.
LEMMA OperatorStepKeeps ==
  ASSUME IInv, OperatorStep
  PROVE  IInv'
<1> USE DEF IInv
<1>1. ASSUME NEW t \in Tasks, NEW o \in {"start", "resume", "session", "move"}, EnterLane(t, o)
      PROVE  IInv'
  <2>1. StartsOK' /\ Leased' = Leased
    BY <1>1, Zenon DEF EnterLane, StartsOK, Leased
  <2>2. used' \in [Operations -> Nat]
    BY <1>1, SpendOK, Zenon DEF EnterLane, Operations
  <2>3. TypeOK'
    BY <1>1, <2>2 DEF EnterLane, TypeOK
  <2> QED BY <1>1, <2>1, <2>3, Zenon DEF EnterLane, CapacityAccounted
<1>2. ASSUME NEW t \in Tasks, Refuse(t)
      PROVE  IInv'
  BY <1>2, UnchangedStarts, LeaveLaneKeeps, Zenon DEF Refuse, TypeOK
<1>3. ASSUME NEW t \in Tasks, StartTask(t)
      PROVE  IInv'
  <2>1. {Entry[t]} \in SUBSET Nodes
    BY ControllerAssumption, Zenon
  <2>2. sched' \in [Nodes -> Schedulings]
    BY <1>3, AdmittedInOK, Zenon DEF StartTask, TypeOK
  <2> QED BY <1>3, <2>1, <2>2, QueuePreparedStartsKeeps, LeaveLaneKeeps, Zenon DEF StartTask, TypeOK
<1>4. ASSUME NEW t \in Tasks, NEW T \in Destinations(t), ApplyManualMove(t, T)
      PROVE  IInv'
  <2>1. T \in SUBSET Nodes
    BY <1>4, ControllerAssumption DEF Destinations
  <2>2. sched' \in [Nodes -> Schedulings]
    <3> DEFINE sc == [n \in Nodes |-> IF TaskOf[n] = t THEN "none" ELSE sched[n]]
    <3>1. sc \in [Nodes -> Schedulings]
      BY Zenon DEF TypeOK, Schedulings
    <3>2. sched' = AdmittedIn(sc, T)
      BY <1>4, Zenon DEF ApplyManualMove
    <3> HIDE DEF sc
    <3> QED BY <3>1, <3>2, AdmittedInOK, Zenon
  <2>3. approval' \in [Nodes -> (SUBSET Nodes) \cup {None}]
    BY <1>4, Zenon DEF ApplyManualMove, TypeOK
  <2>4. backlog' \in SUBSET Tasks
    BY <1>4, Zenon DEF ApplyManualMove, TypeOK
  <2>5. QueuePreparedStarts(T) /\ LeaveLane(t)
    BY <1>4, Zenon DEF ApplyManualMove
  <2> QED BY <2>1, <2>2, <2>3, <2>4, <2>5, QueuePreparedStartsKeeps, LeaveLaneKeeps, Zenon
<1>5. ASSUME NEW R \in SUBSET Nodes, NEW sc \in [Nodes -> Schedulings], ApplyResume(R, sc)
      PROVE  StartsAndQueuesOK /\ wake' \in BOOLEAN /\ sched' \in [Nodes -> Schedulings]
  BY <1>5, QueuePreparedStartsKeeps, AdmittedInOK, Zenon DEF ApplyResume
<1>6. ASSUME NEW sc \in [Nodes -> Schedulings], RefuseResume(sc)
      PROVE  StartsAndQueuesOK /\ wake' \in BOOLEAN /\ sched' \in [Nodes -> Schedulings]
  BY <1>6, UnchangedStarts, Zenon DEF RefuseResume, TypeOK
<1>7. ASSUME NEW t \in Tasks, ResumeTask(t)
      PROVE  IInv'
  <2> DEFINE sc == Reconciliation(t)
             R == Resumable(t, sc)
  <2>1. sc \in [Nodes -> Schedulings]
    BY ReconciliationOK, Zenon
  <2>2. R \in SUBSET Nodes
    BY Zenon DEF Resumable, InterruptedNodes, NodesOf
  <2>3. /\ ApplyResume(R, sc) \/ RefuseResume(sc)
        /\ LeaveLane(t) /\ UNCHANGED <<approval, backlog>>
    BY <1>7, Zenon DEF ResumeTask
  <2> HIDE DEF sc, R
  <2>4. StartsAndQueuesOK /\ wake' \in BOOLEAN /\ sched' \in [Nodes -> Schedulings]
    BY <1>5, <1>6, <2>1, <2>2, <2>3, Zenon
  <2> QED BY <2>3, <2>4, LeaveLaneKeeps, Zenon DEF TypeOK
<1>8. ASSUME NEW n \in Nodes, SubmitToSession(n)
      PROVE  IInv'
  <2> DEFINE t == TaskOf[n]
             sc == Reconciliation(t)
             S == {s \in Queue("automatic") : start[s].node = n}
  <2>0. t \in Tasks
    BY ControllerAssumption, Zenon
  <2>1. sc \in [Nodes -> Schedulings]
    BY <2>0, ReconciliationOK, Zenon
  <2>2. /\ \/ ApplyResume({n}, sc)
           \/ RefuseResume(sc)
           \/ Promote(S) /\ wake' = (wake \/ S # {}) /\ UNCHANGED sched
        /\ LeaveLane(t) /\ UNCHANGED <<approval, backlog>>
    BY <1>8, Zenon DEF SubmitToSession
  <2>3. S \in SUBSET Queue("automatic")
    BY Zenon
  <2> HIDE DEF S, sc, t
  <2>4. ASSUME Promote(S), wake' = (wake \/ S # {}), UNCHANGED sched
        PROVE  StartsAndQueuesOK /\ wake' \in BOOLEAN /\ sched' \in [Nodes -> Schedulings]
    <3>1. StartsAndQueuesOK
      BY <2>3, <2>4, PromoteKeeps, Zenon
    <3>2. wake' \in BOOLEAN
      BY <2>4, Zenon
    <3> QED BY <2>4, <3>1, <3>2, Zenon DEF TypeOK
  <2>5. StartsAndQueuesOK /\ wake' \in BOOLEAN /\ sched' \in [Nodes -> Schedulings]
    BY <1>5, <1>6, <2>1, <2>2, <2>4, Zenon
  <2> QED BY <2>0, <2>2, <2>5, LeaveLaneKeeps, Zenon DEF TypeOK
<1>9. ASSUME NEW t \in Tasks, PromoteTask(t)
      PROVE  IInv'
  <2> DEFINE S == {s \in Queue("automatic") : OfTask(s, t)}
  <2>1. S \in SUBSET Queue("automatic") /\ Promote(S)
    BY <1>9, Zenon DEF PromoteTask
  <2>2. used' \in [Operations -> Nat] /\ wake' = TRUE
    BY <1>9, SpendOK, Zenon DEF PromoteTask, Operations
  <2>3. UNCHANGED <<durable, reservations, admissionWorkers, capacity, loop, lastTask,
                    workerErr, closing, fences, cleanup, alive, lanes>>
    BY <1>9, Zenon DEF PromoteTask
  <2> HIDE DEF S
  <2>4. StartsAndQueuesOK
    BY <2>1, PromoteKeeps, Zenon
  <2>5. TypeOK'
    BY <2>2, <2>3, <2>4, Zenon DEF TypeOK, StartsAndQueuesOK, StartsOK
  <2> QED BY <2>3, <2>4, <2>5, Zenon DEF StartsAndQueuesOK, CapacityAccounted
<1>10. ASSUME NEW n \in Nodes, ApplyApproval(n)
       PROVE  IInv'
  <2> DEFINE T == approval[n]
             f == Allocation(T)
             r == [Explicit EXCEPT !.pc = "approved", !.parent = n]
             g == WithStarts(f, r)
  <2>1. T \in SUBSET Nodes /\ Allocations(T) # {}
    BY <1>10, Zenon DEF ApplyApproval, TypeOK
  <2>2. r \in StartRecord /\ Fresh(r)
    BY Zenon DEF Explicit, NoStart, StartRecord, Fresh, Holds, StartStages, Policies, Leases, ExecutionStages
  <2>3. start' = g
    BY <1>10, Zenon DEF ApplyApproval
  <2>4. sched' \in [Nodes -> Schedulings]
    <3> DEFINE sc == [sched EXCEPT ![n] = "none"]
    <3>1. sc \in [Nodes -> Schedulings] /\ sched' = AdmittedIn(sc, T)
      BY <1>10, Zenon DEF ApplyApproval, TypeOK, Schedulings
    <3> HIDE DEF sc, T
    <3> QED BY <3>1, AdmittedInOK, Zenon
  <2>5. approval' \in [Nodes -> (SUBSET Nodes) \cup {None}]
    BY <1>10, Zenon DEF ApplyApproval, TypeOK
  <2>6. UNCHANGED <<backlog, queues, reservations, admissionWorkers, capacity, worker,
                    workerErr, closing, fences, cleanup, alive, used, lanes>>
    BY <1>10, Zenon DEF ApplyApproval
  <2> HIDE DEF T, r
  <2>7. /\ g \in [Starts -> StartRecord]
        /\ \A q \in Starts : WellFormed(g[q]) /\ (Holds(g[q]) <=> Holds(start[q]))
    BY <2>1, <2>2, WithStartsKeeps, Zenon
  <2> HIDE DEF g
  <2>8. StartsOK' /\ Leased' = Leased
    BY <2>3, <2>7, UpdateAll, Zenon
  <2>9. TypeOK'
    BY <2>4, <2>5, <2>6, <2>8 DEF TypeOK, StartsOK
  <2> QED BY <2>6, <2>8, <2>9, Zenon DEF CapacityAccounted
<1>11. ASSUME NEW n \in Nodes
       PROVE  /\ Approved(n) \in SUBSET Starts
              /\ \A q \in Approved(n) : start[q].pc = "approved" /\ Fresh(start[q])
  BY Zenon DEF Approved, StartsOK, WellFormed, Unlaunched, Admitting, Fresh
<1>12. ASSUME NEW n \in Nodes, QueueApproved(n)
       PROVE  IInv'
  <2>1. Enqueue(start, Approved(n), "explicit")
    BY <1>12, Zenon DEF QueueApproved
  <2>2. start \in [Starts -> StartRecord] /\ \A q \in Starts : WellFormed(start[q])
    BY Zenon DEF StartsOK
  <2>3. StartsAndQueuesOK
    BY <1>11, <2>1, <2>2, EnqueueKeeps, Zenon DEF StartsAndQueuesOK, QueueStages
  <2>4. wake' \in BOOLEAN
    BY <1>12, Zenon DEF QueueApproved
  <2>5. UNCHANGED <<durable, reservations, admissionWorkers, capacity, loop, lastTask,
                    workerErr, closing, fences, cleanup, alive, used, lanes>>
    BY <1>12, Zenon DEF QueueApproved
  <2>6. TypeOK'
    BY <2>3, <2>4, <2>5, Zenon DEF TypeOK, StartsAndQueuesOK, StartsOK
  <2> QED BY <2>3, <2>5, <2>6, Zenon DEF StartsAndQueuesOK, CapacityAccounted
<1>13. ASSUME NEW n \in Nodes, ApprovalFails(n)
       PROVE  IInv'
  <2>1. StartsOK' /\ Leased' = Leased
    BY <1>11, <1>13, DropKeeps, Zenon DEF ApprovalFails
  <2>2. sched' \in [Nodes -> Schedulings]
    BY <1>13, InterruptedOK, Zenon DEF ApprovalFails, TypeOK
  <2>3. used' \in [Operations -> Nat]
    BY <1>13, SpendOK, Zenon DEF ApprovalFails, TypeOK, Operations
  <2>4. UNCHANGED <<approval, backlog, queues, reservations, admissionWorkers, capacity,
                    worker, workerErr, closing, fences, cleanup, alive, lanes>>
    BY <1>13, Zenon DEF ApprovalFails
  <2>5. TypeOK'
    BY <2>1, <2>2, <2>3, <2>4 DEF TypeOK, StartsOK
  <2> QED BY <2>1, <2>4, <2>5, Zenon DEF CapacityAccounted
<1> QED
  BY <1>1, <1>2, <1>3, <1>4, <1>7, <1>8, <1>9, <1>10, <1>12, <1>13, Zenon DEF OperatorStep

-------------------------------------------------------------------------------
(* Close, restarts and the beginning. *)

\* Close keeps the invariant: emptying the queues drops no lease.
LEMMA CloseStepKeeps ==
  ASSUME IInv, CloseStep
  PROVE  IInv'
<1> USE DEF IInv
<1>1. CASE BeginClose
  <2>1. StartsOK' /\ Leased' = Leased
    BY <1>1, Zenon DEF BeginClose, StartsOK, Leased
  <2>2. used' \in [Operations -> Nat]
    BY <1>1, SpendOK, Zenon DEF BeginClose, Operations
  <2>3. TypeOK'
    BY <1>1, <2>2, Zenon DEF BeginClose, TypeOK
  <2> QED BY <1>1, <2>1, <2>3, Zenon DEF BeginClose, CapacityAccounted
<1>2. CASE MarkClosed
  <2> DEFINE D == {s \in Starts : start[s].pc \in QueueStages}
  <2>1. start' = [s \in Starts |-> IF s \in D THEN NoStart ELSE start[s]]
    BY <1>2, Zenon DEF MarkClosed
  <2>2. D \in SUBSET Starts /\ \A q \in D : start[q].pc \in QueueStages
    BY Zenon
  <2> HIDE DEF D
  <2>3. StartsOK' /\ Leased' = Leased
    BY <2>1, <2>2, DropKeeps, Zenon
  <2>4. TypeOK'
    BY <1>2, <2>3, Zenon DEF MarkClosed, TypeOK, StartsOK
  <2> QED BY <1>2, <2>3, <2>4, Zenon DEF MarkClosed, CapacityAccounted
<1>3. CASE StopExecutions
  <2> DEFINE g == [s \in Starts |-> IF Indexed(s) THEN [start[s] EXCEPT !.stop = TRUE] ELSE start[s]]
  <2>1. start' = g
    BY <1>3, Zenon DEF StopExecutions
  <2>2. ASSUME NEW q \in Starts
        PROVE  g[q] \in StartRecord /\ WellFormed(g[q]) /\ (Holds(g[q]) <=> Holds(start[q]))
    <3>0. start[q] \in StartRecord /\ WellFormed(start[q])
      BY Zenon DEF StartsOK
    <3>1. g[q] = start[q] \/ g[q] = [start[q] EXCEPT !.stop = TRUE]
      BY Zenon
    <3> HIDE DEF g
    <3>2. g[q] \in StartRecord
      BY <3>0, <3>1, Zenon DEF StartRecord
    <3>3. /\ g[q].exec = start[q].exec /\ g[q].pc = start[q].pc
          /\ g[q].node = start[q].node /\ g[q].lease = start[q].lease
      BY <3>0, <3>1, Zenon DEF StartRecord
    <3> QED BY <3>0, <3>2, <3>3, Zenon DEF WellFormed, Holds
  <2>3. g = [q \in Starts |-> g[q]]
    BY Zenon
  <2> HIDE DEF g
  <2>4. StartsOK' /\ Leased' = Leased
    BY <2>1, <2>2, <2>3, UpdateAll, Zenon
  <2>5. TypeOK'
    BY <1>3, <2>4, Zenon DEF StopExecutions, TypeOK, StartsOK
  <2> QED BY <1>3, <2>4, <2>5, Zenon DEF StopExecutions, CapacityAccounted
<1>4. CASE ExecutionsStopped
  <2>1. StartsOK' /\ Leased' = Leased
    BY <1>4, Zenon DEF ExecutionsStopped, StartsOK, Leased
  <2>2. TypeOK'
    BY <1>4, Zenon DEF ExecutionsStopped, TypeOK
  <2> QED BY <1>4, <2>1, <2>2, Zenon DEF ExecutionsStopped, CapacityAccounted
<1>5. CASE CloseReturns
  <2>1. StartsOK' /\ Leased' = Leased
    BY <1>5, Zenon DEF CloseReturns, StartsOK, Leased
  <2>2. TypeOK'
    BY <1>5, Zenon DEF CloseReturns, TypeOK
  <2> QED BY <1>5, <2>1, <2>2, Zenon DEF CloseReturns, CapacityAccounted
<1> QED BY <1>1, <1>2, <1>3, <1>4, <1>5, Zenon DEF CloseStep

\* Without starts there is no lease.
LEMMA NothingLeased ==
  ASSUME NEW f, f = [s \in Starts |-> NoStart]
  PROVE  {s \in Starts : f[s].lease \in {"reservation", "live"}} = {}
BY NoStartOK, Zenon DEF Holds

\* No lease is a capacity of zero, within every limit.
LEMMA NoLeaseAccounted == Cardinality({}) = 0 /\ 0 <= AgentConcurrency
<1>1. AgentConcurrency \in Nat
  BY ControllerAssumption, Zenon
<1> QED BY <1>1, FS_EmptySet

\* A new process satisfies the invariant.
LEMMA InitKeeps == Init => IInv
<1> SUFFICES ASSUME Init PROVE IInv
  BY Zenon
<1>1. StartsOK
  BY NoStartOK, Zenon DEF Init, StartsOK
<1>2. Leased = {}
  BY NothingLeased, Zenon DEF Init, Leased
<1>3. NoCleanup \in CleanupRecord
  BY Zenon DEF NoCleanup, CleanupRecord
<1>4. TypeOK
  BY <1>1, <1>3, ControllerAssumption, Zenon DEF Init, TypeOK, StartsOK, NodesOf
<1>5. capacity = 0
  BY Zenon DEF Init
<1>6. CapacityAccounted
  BY <1>2, <1>5, NoLeaseAccounted, Zenon DEF CapacityAccounted
<1> QED BY <1>1, <1>4, <1>6, Zenon DEF IInv

\* A restart forgets all starts and their capacity together.
LEMMA RestartKeeps ==
  ASSUME IInv, Restart
  PROVE  IInv'
<1> USE DEF IInv
<1>1. StartsOK'
  BY NoStartOK, Zenon DEF Restart, StartsOK
<1>2. Leased' = {}
  BY NothingLeased, Zenon DEF Restart, Leased
<1>3. NoCleanup \in CleanupRecord
  BY Zenon DEF NoCleanup, CleanupRecord
<1>4. used' \in [Operations -> Nat]
  BY SpendOK, Zenon DEF Restart, Operations
<1>5. TypeOK'
  BY <1>1, <1>3, <1>4, Zenon DEF Restart, TypeOK, StartsOK
<1>6. capacity' = 0
  BY Zenon DEF Restart
<1>7. CapacityAccounted'
  BY <1>2, <1>6, NoLeaseAccounted, Zenon DEF CapacityAccounted
<1> QED BY <1>1, <1>5, <1>7, Zenon

\* A step of the environment changes nothing.
LEMMA StutterKeeps ==
  ASSUME IInv, UNCHANGED vars
  PROVE  IInv'
<1>1. StartsOK' /\ Leased' = Leased
  BY Zenon DEF IInv, vars, StartsOK, Leased
<1>2. TypeOK'
  BY DEF IInv, vars, TypeOK
<1> QED BY <1>1, <1>2, Zenon DEF IInv, vars, CapacityAccounted

-------------------------------------------------------------------------------
(* The invariants. *)

\* The inductive invariant holds in every reachable state, for every Workflow
\* graph, every limit and every number of starts and interrupts.
THEOREM ControllerInvariant == Spec => []IInv
<1>1. Init => IInv
  BY InitKeeps, Zenon
<1>2. IInv /\ [Next]_vars => IInv'
  BY LoopStepKeeps, AdmissionStepKeeps, ExecutionStepKeeps, InterruptStepKeeps,
     OperatorStepKeeps, CloseStepKeeps, RestartKeeps, StutterKeeps, Zenon DEF Next
<1> QED BY <1>1, <1>2, PTL DEF Spec

\* The explicit workers in flight are finitely many: each is the worker of its own
\* start's Node.
LEMMA InFlightFinite ==
  ASSUME IInv, WorkersRegistered
  PROVE  InFlightExplicit \in Nat
<1> DEFINE f == [s \in Starts |-> start[s].node]
           T == {start[s].node : s \in Starts}
           W == {n \in Nodes : /\ admissionWorkers[n] # None
                               /\ start[admissionWorkers[n]].policy = "explicit"}
<1>1. f \in Surjection(Starts, T)
  BY Zenon DEF Surjection
<1>2. IsFiniteSet(T)
  BY <1>1, FS_Surjection, ControllerAssumption, Zenon
<1>3. ASSUME NEW n \in W PROVE n \in T
  <2>1. admissionWorkers[n] \in Starts
    BY Zenon DEF IInv, TypeOK
  <2> QED BY <2>1, Zenon DEF WorkersRegistered
<1>4. W \in SUBSET T
  BY <1>3, Zenon
<1> HIDE DEF T, W
<1>5. Cardinality(W) \in Nat
  BY <1>2, <1>4, FS_Subset, FS_CardinalityType, Zenon
<1> QED BY <1>5, Zenon DEF InFlightExplicit, W

LEMMA PristineOrders == Pristine => JInv
<1> SUFFICES ASSUME Pristine PROVE JInv
  BY Zenon
<1>1. \A s \in Starts : start[s].pc = "free" /\ start[s].exec = "none" /\ ~Holds(start[s])
  BY NoStartOK, Zenon DEF Pristine, NoStart
<1>2. \A n \in Nodes, s \in Starts :
        explicitReservations[n] # s /\ automaticReservations[n] # s /\ admissionWorkers[n] # s
  BY ControllerAssumption, Zenon DEF Pristine
<1>3. QueuesOK
  BY <1>1, <1>2, Zenon DEF Pristine, QueuesOK, Policed, QueuedOnce, QueueStages, WorkersRegistered,
                    ReservationsHeld
<1>4. WakeOK
  BY <1>1, Zenon DEF WakeOK, ExplicitTakeable, Eligible, Queue
<1>5. OneScopePerNode
  BY <1>1, Zenon DEF OneScopePerNode, Indexed, Live, HoldsSession
<1>6. FencesOK
  <2>1. \A i \in Interrupters : cleanup[i].scopes = {}
    BY Zenon DEF Pristine, NoCleanup
  <2> QED BY <2>1, Zenon DEF Pristine, FencesOK, FenceHasOwner
<1>7. CloseOK
  BY Zenon DEF Pristine, CloseOK, Closed
<1> QED BY <1>3, <1>4, <1>5, <1>6, <1>7 DEF JInv

\* Every step keeps the invariant or begins a new process.
LEMMA NextOrders ==
  IInv /\ JInv /\ [Next]_vars => (JInv' \/ Pristine') /\ Frozen
<1> SUFFICES ASSUME IInv, JInv, [Next]_vars
             PROVE  (JInv' \/ Pristine') /\ Frozen
  BY Zenon
<1>1. CASE Restart
  <2>1. Pristine' /\ closer' = "none"
    BY <1>1, Zenon DEF Restart, Pristine
  <2>2. \A s \in Starts : start'[s].exec = "none"
    BY <1>1, Zenon DEF Restart, NoStart
  <2> QED BY <2>1, <2>2, Zenon DEF Frozen, NothingLaunched
<1>2. CASE UNCHANGED vars
  <2>1. QuietVars /\ UNCHANGED start
    BY <1>2, Zenon DEF vars, QuietVars, QuietQueueing, QuietFencing, Shrinks, Roused
  <2> QED BY <2>1, QuietNone, Zenon
<1>3. CASE LoopStep
  <2>1. InFlightExplicit \in Nat
    BY InFlightFinite, Zenon DEF JInv, QueuesOK
  <2> QED BY <1>3, <2>1, LoopStepOrders, Zenon
<1> QED BY <1>1, <1>2, <1>3, AdmissionStepOrders, ExecutionStepOrders,
           InterruptStepOrders, OperatorStepOrders, CloseStepOrders DEF Next

\* The second invariant holds in every reachable state.
THEOREM ControllerOrder == Spec => []JInv
<1>1. Init => Pristine
  BY Zenon DEF Init, Pristine
<1>2. Pristine => JInv
  BY PristineOrders, Zenon
<1>3. IInv /\ JInv /\ [Next]_vars => JInv' \/ Pristine'
  BY NextOrders, Zenon
<1> QED BY <1>1, <1>2, <1>3, ControllerInvariant, PTL DEF Spec

-------------------------------------------------------------------------------
(* What follows from them. *)

\* The controller's state keeps its type; agentCapacityActive never goes below
\* zero, so releaseAgentCapacityLocked never gives back what was not taken.
THEOREM ControllerTypeCorrect == Spec => []TypeOK
<1>1. IInv => TypeOK
  BY Zenon DEF IInv
<1> QED BY <1>1, ControllerInvariant, PTL

\* agentCapacityActive counts exactly the automatic agents that hold a lease, and
\* never exceeds the configured concurrency, whatever fails, is interrupted,
\* promoted or closed in between.
THEOREM ControllerCapacity == Spec => []CapacityAccounted
<1>1. IInv => CapacityAccounted
  BY Zenon DEF IInv
<1> QED BY <1>1, ControllerInvariant, PTL

\* The key sets explicitQueued and queued say what the two queues hold: one start
\* per Current Node in one of them, and none of a Node that is being admitted.
THEOREM ControllerOwnedOnce == Spec => []OwnedOnce
<1>1. JInv => OwnedOnce
  <2> SUFFICES ASSUME JInv PROVE OwnedOnce
    BY Zenon
  <2> USE DEF JInv, QueuesOK, QueuedOnce, QueueStages, Queue
  <2>1. \A q \in QueueStages : \A r, s \in Queue(q) : start[r].node = start[s].node => r = s
    OBVIOUS
  <2>2. \A n : n \in explicitQueued <=> \E s \in Queue("explicit") : n = start[s].node
    OBVIOUS
  <2>3. \A n : n \in queued <=> \E s \in Queue("automatic") : n = start[s].node
    OBVIOUS
  <2>4. \A n \in explicitQueued \cup queued :
          explicitReservations[n] = None /\ automaticReservations[n] = None
    OBVIOUS
  <2>5. explicitQueued \cap queued = {}
    OBVIOUS
  <2>6. explicitQueued = {start[s].node : s \in Queue("explicit")}
    BY ONLY <2>2, Zenon
  <2>7. queued = {start[s].node : s \in Queue("automatic")}
    BY ONLY <2>3, Zenon
  <2> QED BY ONLY <2>1, <2>4, <2>5, <2>6, <2>7 DEF OwnedOnce
<1> QED BY <1>1, ControllerOrder, PTL

\* Every reservation belongs to a registered admission goroutine, so that an
\* interrupt's drain has no reservation to undo.
THEOREM ControllerReservedByWorker == Spec => []ReservedByWorker
<1>1. IInv /\ JInv => ReservedByWorker
  <2> SUFFICES ASSUME IInv, JInv, NEW n \in Nodes,
                      explicitReservations[n] # None \/ automaticReservations[n] # None
               PROVE  admissionWorkers[n] # None
    BY Zenon DEF ReservedByWorker
  <2>1. /\ explicitReservations[n] \in Starts \cup {None}
        /\ automaticReservations[n] \in Starts \cup {None}
    BY Zenon DEF IInv, TypeOK
  <2> QED BY <2>1, ControllerAssumption DEF JInv, QueuesOK, ReservationsHeld, ReservedFor
<1> QED BY <1>1, ControllerInvariant, ControllerOrder, PTL

\* The admission worker waits only when no queued start could be taken.
THEOREM ControllerNoLostWake == Spec => []NoLostWake
<1>1. JInv => NoLostWake
  BY Zenon DEF JInv, WakeOK, NoLostWake, ClosedOrClosing, Takeable, ExplicitTakeable
<1> QED BY <1>1, ControllerOrder, PTL

\* A Current Node has at most one indexed execution and a Session at most one.
THEOREM ControllerOneScopePerNode == Spec => []OneScopePerNode
<1>1. JInv => OneScopePerNode
  BY Zenon DEF JInv
<1> QED BY <1>1, ControllerOrder, PTL

\* Every fence entry belongs to an interrupt that is going to remove it, but for
\* the scopes a timed-out cleanup has left behind.
THEOREM ControllerFenceHasOwner == Spec => []FenceHasOwner
<1>1. JInv => FenceHasOwner
  BY Zenon DEF JInv, FencesOK
<1> QED BY <1>1, ControllerOrder, PTL

\* The queues stay empty once Close has emptied them.
THEOREM ControllerClosedQueues == Spec => []ClosedQueuesStayEmpty
<1>1. JInv => ClosedQueuesStayEmpty
  BY Zenon DEF JInv, CloseOK, QueuesOK, QueuedOnce, Waiting, QueueStages, ClosedQueuesStayEmpty
<1> QED BY <1>1, ControllerOrder, PTL

\* No step of a closed controller changes the durable state, and none launches
\* an agent or a Script once Close has returned.
THEOREM ControllerClosedIsFrozen == Spec => ClosedIsFrozen
<1>1. IInv /\ JInv /\ [Next]_vars
        => [/\ Closed /\ closer' # "none" => UNCHANGED durable
            /\ closer = "done" => \A s \in Starts :
                 start[s].exec = "none" => start'[s].exec # "running"]_vars
  BY NextOrders, Zenon DEF Frozen, NothingLaunched
<1> QED BY <1>1, ControllerInvariant, ControllerOrder, PTL DEF Spec, ClosedIsFrozen
===============================================================================
