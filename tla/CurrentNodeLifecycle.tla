------------------------- MODULE CurrentNodeLifecycle -------------------------
(***************************************************************************)
(* current_node_lifecycle.go: what operators do with a Task, each in the   *)
(* Task's lane; Close of current_node_controller.go; and a restart of the  *)
(* process, which keeps only what the Workflow store holds.                *)
(***************************************************************************)
EXTENDS CurrentNodeInterruption

Explicit == [NoStart EXCEPT !.pc = "explicit", !.mark = "admitted"]

\* Deliberately wrong: the worker is not told of the starts.
QueuePreparedSilently(T) ==
  /\ Allocations(T) # {}
  /\ LET f == Allocation(T) IN Enqueue(WithStarts(f, Explicit), Allocated(f), "explicit")
  /\ UNCHANGED wake

\* Queue prepared starts for the Nodes T, whose admission is already committed.
QueuePreparedStarts(T) ==
  /\ Allocations(T) # {}
  /\ LET f == Allocation(T) IN Enqueue(WithStarts(f, Explicit), Allocated(f), "explicit")
  /\ wake' = TRUE

AdmittedIn(sc, T) == [n \in Nodes |-> IF n \in T THEN "admitted" ELSE sc[n]]

-------------------------------------------------------------------------------
(* Operations that ask EnsureTaskQuiescent.  It reads the Authority first and  *)
(* the controller afterwards, under different mutexes, so each operation is two *)
(* steps that keep the Task's lane between them.                               *)

EnterLane(t, o) ==
  /\ lane[t] = "free" /\ ~Closed
  /\ Spend(o)
  /\ lane' = [lane EXCEPT ![t] = o]
  /\ quiet' = IF HasLiveWorkflowTaskExecution(t) THEN quiet \ {t} ELSE quiet \cup {t}
  /\ UNCHANGED <<durable, start, queues, reservations, admissionWorkers, capacity, worker,
                 workerErr, closing, fences, cleanup, alive>>

Quiescent(t) == t \in quiet /\ TaskAvailable(t) /\ ControllerQuiescent(t)

LeaveLane(t) ==
  /\ lane' = [lane EXCEPT ![t] = "free"]
  /\ quiet' = quiet \ {t}
  /\ UNCHANGED <<reservations, admissionWorkers, capacity, loop, lastTask, workerErr,
                 closing, fences, cleanup, alive, used>>

\* The operation returns an error: not quiescent, not available, invalid request,
\* or a plan or preparation that failed.
Refuse(t) ==
  /\ lane[t] \in {"start", "move", "session"}
  /\ LeaveLane(t)
  /\ UNCHANGED <<durable, start, queues, wake>>

StartTask(t) ==
  /\ lane[t] = "start" /\ Quiescent(t) /\ t \in backlog
  /\ backlog' = backlog \ {t}
  /\ sched' = AdmittedIn(sched, {Entry[t]})
  /\ QueuePreparedStarts({Entry[t]})
  /\ LeaveLane(t)
  /\ UNCHANGED approval

\* Where a Task can be moved: the targets of a Transition of its Workflow, or its
\* start or an end, where nothing is executed.
Destinations(t) ==
  {{}, {Entry[t]}} \cup {e.to : e \in {d \in Edges : TaskOf[d.from] = t}}

\* ApplyManualMove to the Nodes T, of which the requested one is not current yet.
ApplyManualMove(t, T) ==
  /\ lane[t] = "move" /\ Quiescent(t)
  /\ (T = {} \/ \E m \in T : sched[m] = "none")
  /\ sched' = AdmittedIn([n \in Nodes |-> IF TaskOf[n] = t THEN "none" ELSE sched[n]], T)
  /\ approval' = [n \in Nodes |-> IF TaskOf[n] = t THEN None ELSE approval[n]]
  /\ \/ backlog' = backlog \ {t}
     \/ T = {} /\ backlog' = backlog \cup {t}
  /\ QueuePreparedStarts(T)
  /\ LeaveLane(t)

-------------------------------------------------------------------------------
(* Resume. *)

\* classifyTaskResume reconciles only a quiescent Task.
Reconciliation(t) == IF Quiescent(t) THEN Reconciled(t) ELSE sched

InterruptedNodes(t, sc) ==
  {n \in NodesOf(t) : sc[n] = "interrupted" /\ approval[n] = None}

\* A Node whose Session has a live execution is not resumed.
Resumable(t, sc) ==
  {n \in InterruptedNodes(t, sc) : KindOf[n] = "agent" => SessionExecution(n) = {}}

\* Plan, prepare and commit Resume of R, then queue its starts.
ApplyResume(R, sc) ==
  /\ R # {} /\ \A n \in R : ~CurrentNodeOwned(n)
  /\ sched' = AdmittedIn(sc, R)
  /\ QueuePreparedStarts(R)

\* Nothing eligible, a Node still owned, or planning failed: reconciliation alone.
RefuseResume(sc) ==
  /\ sched' = sc
  /\ UNCHANGED <<start, queues, wake>>

ResumeTask(t) ==
  /\ lane[t] = "resume"
  /\ LET sc == Reconciliation(t) IN
     \/ TaskAvailable(t) /\ ApplyResume(Resumable(t, sc), sc)
     \/ RefuseResume(sc)
  /\ LeaveLane(t)
  /\ UNCHANGED <<approval, backlog>>

\* What resumeTask does for a watched Node: resume it; find it already resumed
\* when no Node of the Task is interrupted; else an outcome that
\* EnsureSessionExecution rejects as invalid.
SubmissionOutcome(n, sc) ==
  LET I == InterruptedNodes(TaskOf[n], sc)
  IN CASE n \in I -> "resume" [] I = {} -> "watch" [] OTHER -> "invalid"

\* EnsureSessionExecution for the saved Session of Node n.  An automatic start
\* that is still queued is promoted.
SubmitToSession(n) == LET t == TaskOf[n]
                          sc == Reconciliation(t) IN
  /\ lane[t] = "session" /\ TaskAvailable(t)
  /\ KindOf[n] = "agent" /\ sched[n] # "none" /\ approval[n] = None
  /\ SessionExecution(n) = {}
  /\ \/ SubmissionOutcome(n, sc) = "resume" /\ (ApplyResume({n}, sc) \/ RefuseResume(sc))
     \/ /\ SubmissionOutcome(n, sc) = "watch"
        /\ LET S == {s \in Queue("automatic") : start[s].node = n}
           IN Promote(S) /\ wake' = (wake \/ S # {})
        /\ UNCHANGED sched
  /\ LeaveLane(t)
  /\ UNCHANGED <<approval, backlog>>

\* PromoteConcurrencyQueuedTask
PromoteTask(t) == LET S == {s \in Queue("automatic") : OfTask(s, t)} IN
  /\ lane[t] = "free" /\ ~Closed /\ S # {}
  /\ Spend("promote")
  /\ Promote(S)
  /\ wake' = TRUE
  /\ UNCHANGED <<durable, reservations, admissionWorkers, capacity, loop, lastTask,
                 workerErr, closing, fences, cleanup, alive, lanes>>

-------------------------------------------------------------------------------
(* Approval. *)

\* applyPendingApproval, first lane section: the targets are committed as admitted.
\* An indexed source is waited for beforehand.
ApplyApproval(n) == LET T == approval[n] IN
  /\ T # None /\ IndexedAt(n) = {} /\ LaneFree(n)
  /\ TaskAvailable(TaskOf[n])
  /\ \A m \in T \ {n} : sched[m] = "none"
  /\ Allocations(T) # {}
  /\ start' = WithStarts(Allocation(T), [Explicit EXCEPT !.pc = "approved", !.parent = n])
  /\ sched' = AdmittedIn([sched EXCEPT ![n] = "none"], T)
  /\ approval' = [approval EXCEPT ![n] = None]
  /\ UNCHANGED <<backlog, queues, reservations, admissionWorkers, capacity, worker,
                 workerErr, closing, fences, cleanup, alive, used, lanes>>

Approved(n) == {s \in Starts : start[s].pc = "approved" /\ start[s].parent = n}

\* Second lane section, after the assignments have been steered outside the lane.
QueueApproved(n) ==
  /\ Approved(n) # {} /\ LaneFree(n)
  /\ Enqueue(start, Approved(n), "explicit")
  /\ wake' = (wake \/ Accepted(start, Approved(n)) # {})
  /\ UNCHANGED <<durable, reservations, admissionWorkers, capacity, loop, lastTask,
                 workerErr, closing, fences, cleanup, alive, used, lanes>>

\* An agent's assignment cannot be steered and the targets are interrupted, or
\* shutdown cancels the wait for the second lane section.
ApprovalFails(n) ==
  /\ Approved(n) # {} /\ LaneFree(n)
  /\ start' = [s \in Starts |-> IF s \in Approved(n) THEN NoStart ELSE start[s]]
  /\ \/ /\ \E s \in Approved(n) : Agent(s)
        /\ IF ClosedOrClosing THEN UNCHANGED used ELSE Spend("fault")
        /\ sched' = Interrupted({start[s].node : s \in Approved(n)})
     \/ ClosedOrClosing /\ UNCHANGED <<sched, used>>
  /\ UNCHANGED <<approval, backlog, queues, reservations, admissionWorkers, capacity, worker,
                 workerErr, closing, fences, cleanup, alive, lanes>>

-------------------------------------------------------------------------------
(* Close. *)

\* closing is set and the worker context cancelled.
BeginClose ==
  /\ closer = "none" /\ Spend("close")
  /\ closer' = "closing"
  /\ UNCHANGED <<durable, start, queues, reservations, admissionWorkers, capacity, worker,
                 workerErr, closeWaits, fences, cleanup, lanes, alive>>

\* No accepted operation and no lane section is left: closed is set and the
\* queues are emptied.
MarkClosed ==
  /\ closer = "closing"
  /\ Queue("approved") = {} /\ \A t \in Tasks : lane[t] = "free"
  /\ closer' = "closed"
  /\ start' = [s \in Starts |-> IF start[s].pc \in QueueStages THEN NoStart ELSE start[s]]
  /\ before' = {} /\ explicitQueued' = {} /\ queued' = {}
  /\ UNCHANGED <<durable, reservations, admissionWorkers, capacity, worker, workerErr,
                 closeWaits, fences, cleanup, lanes, alive, used>>

\* Deliberately wrong: waits for the executions without stopping them.
StopNoExecutions ==
  /\ closer = "closed"
  /\ closer' = "stopping"
  /\ closeWaits' = {s \in Starts : Indexed(s)}
  /\ UNCHANGED <<durable, start, queues, reservations, admissionWorkers, capacity, worker,
                 workerErr, fences, cleanup, lanes, alive, used>>

\* StopWorkflowExecutions stops the indexed executions and waits for those.
StopExecutions ==
  /\ closer = "closed"
  /\ closer' = "stopping"
  /\ closeWaits' = {s \in Starts : Indexed(s)}
  /\ start' = [s \in Starts |-> IF Indexed(s) THEN [start[s] EXCEPT !.stop = TRUE] ELSE start[s]]
  /\ UNCHANGED <<durable, queues, reservations, admissionWorkers, capacity, worker,
                 workerErr, fences, cleanup, lanes, alive, used>>

ExecutionsStopped ==
  /\ closer = "stopping" /\ \A s \in closeWaits : start[s].exec = "none"
  /\ closer' = "joining" /\ closeWaits' = {}
  /\ UNCHANGED <<durable, start, queues, reservations, admissionWorkers, capacity, worker,
                 workerErr, fences, cleanup, lanes, alive, used>>

\* The worker loop and every admission goroutine have ended: Close returns.
CloseReturns ==
  /\ closer = "joining" /\ loop = "stopped"
  /\ \A s \in Starts : start[s].pc \notin WorkerStages
  /\ closer' = "done"
  /\ UNCHANGED <<durable, start, queues, reservations, admissionWorkers, capacity, worker,
                 workerErr, closeWaits, fences, cleanup, lanes, alive, used>>

-------------------------------------------------------------------------------
\* The process ends at any point, or has panicked, and a new one is started.
Restart ==
  /\ Spend("restart")
  /\ start' = [s \in Starts |-> NoStart]
  /\ before' = {} /\ explicitQueued' = {} /\ queued' = {}
  /\ explicitReservations' = [n \in Nodes |-> None]
  /\ automaticReservations' = [n \in Nodes |-> None]
  /\ admissionWorkers' = [n \in Nodes |-> None]
  /\ capacity' = 0 /\ lastTask' = None
  /\ wake' = FALSE /\ loop' = "parked" /\ workerErr' = FALSE
  /\ closer' = "none" /\ closeWaits' = {}
  /\ fenceScope' = [s \in Starts |-> None] /\ fenceNode' = {}
  /\ cleanup' = [i \in Interrupters |-> NoCleanup]
  /\ lane' = [t \in Tasks |-> "free"] /\ quiet' = {}
  /\ alive' = TRUE
  /\ UNCHANGED durable

CloseStep == BeginClose \/ MarkClosed \/ StopExecutions \/ ExecutionsStopped \/ CloseReturns

OperatorStep ==
  \/ \E t \in Tasks :
       \/ \E o \in {"start", "resume", "session", "move"} : EnterLane(t, o)
       \/ Refuse(t) \/ StartTask(t) \/ ResumeTask(t) \/ PromoteTask(t)
       \/ \E T \in Destinations(t) : ApplyManualMove(t, T)
  \/ \E n \in Nodes : \/ SubmitToSession(n) \/ ApplyApproval(n)
                      \/ QueueApproved(n) \/ ApprovalFails(n)
===============================================================================
