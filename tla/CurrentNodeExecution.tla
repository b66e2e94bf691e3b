------------------------- MODULE CurrentNodeExecution -------------------------
(***************************************************************************)
(* One Exact Execution Scope from launch to retirement: the agent turn or  *)
(* Script process, its completion through the controller, the Continue     *)
(* that queues the next Nodes, its failure, and the Authority's retirement *)
(* (sessionruntime, workflowrunner, current_node_controller.go).           *)
(***************************************************************************)
EXTENDS CurrentNodeAdmission

\* The starts nothing refers to any more.
FreeStarts ==
  {s \in Starts : /\ start[s] = NoStart
                  /\ fenceScope[s] = None
                  /\ \A i \in Interrupters : s \notin cleanup[i].scopes}

\* Ways to give every Node of T a start of its own; the identities are
\* interchangeable, so one way stands for all.
Allocations(T) ==
  {f \in [T -> FreeStarts] : \A m, n \in T : m # n => f[m] # f[n]}
Allocation(T) == CHOOSE f \in Allocations(T) : TRUE
Allocated(f) == {f[n] : n \in DOMAIN f}

\* `start` once each Node of f's domain has its start, with the other fields of r.
WithStarts(f, r) ==
  [s \in Starts |-> IF s \in Allocated(f)
                    THEN [r EXCEPT !.node = CHOOSE n \in DOMAIN f : f[n] = s]
                    ELSE start[s]]

AutomaticPolicy(n) == IF KindOf[n] = "agent" THEN "agent" ELSE "script"

-------------------------------------------------------------------------------
\* The agent's turn ends without a completed Step, or is cancelled.
TurnEnds(s) ==
  /\ Agent(s) /\ start[s].exec = "running"
  /\ start' = [start EXCEPT ![s].exec = "fail"]
  /\ UNCHANGED <<durable, queues, reservations, admissionWorkers, capacity, worker,
                 workerErr, closing, fences, cleanup, alive, used, lanes>>

\* The Script process exits or is killed: beginWorkflowFinalization.
ScriptExits(s) ==
  /\ ~Agent(s) /\ start[s].exec = "running"
  /\ start' = [start EXCEPT ![s].exec = "finalizing"]
  /\ UNCHANGED <<durable, queues, reservations, admissionWorkers, capacity, worker,
                 workerErr, closing, fences, cleanup, alive, used, lanes>>

-------------------------------------------------------------------------------
(* Completion. *)

\* A Step of the running agent, or a finalizing Script, may complete its Node.
\* The commit does not look at the scheduling state of the source.
CompletionAllowed(s) ==
  /\ start[s].exec = IF Agent(s) THEN "running" ELSE "finalizing"
  /\ LaneFree(start[s].node) /\ ~Closed /\ ~workerErr
  /\ fenceScope[s] = None
  /\ sched[start[s].node] # "none" /\ approval[start[s].node] = None

\* completeLiveCurrentNode along Transition e: the targets become ready Current
\* Nodes, and their automatic starts are held until Continue.
Complete(s, e) == LET n == start[s].node IN
  /\ CompletionAllowed(s)
  /\ e \in Edges /\ e.from = n /\ ~e.approval
  /\ \A m \in e.to \ {n} : sched[m] = "none"
  /\ Allocations(e.to) # {}
  /\ LET f == Allocation(e.to)
         st == WithStarts(f, [NoStart EXCEPT !.pc = "held", !.parent = n])
     IN start' = [r \in Starts |->
           IF r = s THEN [st[r] EXCEPT !.exec = "continue"]
           ELSE IF r \in Allocated(f)
                THEN [st[r] EXCEPT !.policy = AutomaticPolicy(st[r].node)]
                ELSE st[r]]
  /\ sched' = [m \in Nodes |-> IF m \in e.to THEN "ready"
                               ELSE IF m = n THEN "none" ELSE sched[m]]
  /\ UNCHANGED <<approval, backlog, queues, reservations, admissionWorkers, capacity,
                 worker, workerErr, closing, fences, cleanup, alive, used, lanes>>

\* The same along a Transition that needs Approval: the source stays current.
CompleteForApproval(s, e) == LET n == start[s].node IN
  /\ CompletionAllowed(s)
  /\ e \in Edges /\ e.from = n /\ e.approval
  /\ approval' = [approval EXCEPT ![n] = e.to]
  /\ start' = [start EXCEPT ![s].exec = "continue"]
  /\ UNCHANGED <<sched, backlog, queues, reservations, admissionWorkers, capacity,
                 worker, workerErr, closing, fences, cleanup, alive, used, lanes>>

\* finalizeCurrentNodeScript returns the error of a refused completion as it is.
CompletionRefused(s) ==
  /\ ~Agent(s) /\ start[s].exec = "finalizing" /\ LaneFree(start[s].node)
  /\ IF CompletionAllowed(s) /\ ~ClosedOrClosing THEN Spend("fault") ELSE UNCHANGED used
  /\ start' = [start EXCEPT ![s].exec = "end"]
  /\ UNCHANGED <<durable, queues, reservations, admissionWorkers, capacity, worker,
                 workerErr, closing, fences, cleanup, alive, lanes>>

Held(s) == {h \in Starts : start[h].pc = "held" /\ start[h].parent = start[s].node}

\* Continue: queue the targets' starts once their assignments are prepared.
Continue(s) == LET st == [start EXCEPT ![s].exec = "end"] IN
  /\ start[s].exec = "continue"
  /\ IF Closed
     THEN /\ start' = [r \in Starts |-> IF r \in Held(s) THEN NoStart ELSE st[r]]
          /\ wake' = (wake \/ Held(s) = {})
          /\ UNCHANGED queues
     ELSE /\ Enqueue(st, Held(s), "automatic")
          /\ wake' = TRUE
  /\ UNCHANGED <<durable, reservations, admissionWorkers, capacity, loop, lastTask,
                 workerErr, closing, fences, cleanup, alive, used, lanes>>

\* Continue when compaction or an assignment failed: the targets are interrupted
\* instead, unless the lane is shut; the process ends when that cannot be stored.
ContinueFails(s) ==
  /\ start[s].exec = "continue" /\ Held(s) # {} /\ LaneFree(start[s].node)
  /\ IF ClosedOrClosing THEN UNCHANGED used ELSE Spend("fault")
  /\ start' = [r \in Starts |-> IF r \in Held(s) THEN NoStart
                                ELSE IF r = s THEN [start[r] EXCEPT !.exec = "end"]
                                ELSE start[r]]
  /\ \/ ClosedOrClosing /\ UNCHANGED <<sched, alive>>
     \/ /\ ~Closed
        /\ \/ sched' = Interrupted({start[h].node : h \in Held(s)}) /\ UNCHANGED alive
           \/ alive' = FALSE /\ UNCHANGED sched
  /\ UNCHANGED <<approval, backlog, queues, reservations, admissionWorkers, capacity,
                 worker, workerErr, closing, fences, cleanup, lanes>>

-------------------------------------------------------------------------------
(* Failure and retirement. *)

\* Deliberately wrong: a failure is recorded although the controller is closed,
\* and one that is not recorded at all.
MayFailAfterClose(s) == fenceScope[s] = None

\* FailCurrentNodeScope in its lane: refused when shutting down or interrupting.
MayFail(s) == ~Closed /\ fenceScope[s] = None
InterruptFailed(s) == sched' = AdmittedInterrupted(start[s].node)

\* The runner reports a turn or Script without a completion.  When the store fails
\* the Node stays as it is.
FailScope(s) ==
  /\ start[s].exec = IF Agent(s) THEN "fail" ELSE "finalizing"
  /\ LaneFree(start[s].node)
  /\ start' = [start EXCEPT ![s].exec = "end"]
  /\ \/ MayFail(s) /\ InterruptFailed(s) /\ UNCHANGED used
     \/ (ClosedOrClosing \/ ~MayFail(s)) /\ UNCHANGED <<sched, used>>
     \/ MayFail(s) /\ Spend("store") /\ UNCHANGED sched
  /\ UNCHANGED <<approval, backlog, queues, reservations, admissionWorkers, capacity,
                 worker, workerErr, closing, fences, cleanup, alive, lanes>>

\* RecordProtocolViolation at its cap: the Node fails while the turn still runs.
ViolationCap(s) ==
  /\ Agent(s) /\ start[s].exec = "running" /\ LaneFree(start[s].node) /\ MayFail(s)
  /\ sched[start[s].node] = "admitted"
  /\ Spend("fault")
  /\ start' = [start EXCEPT ![s].stop = TRUE]
  /\ InterruptFailed(s)
  /\ UNCHANGED <<approval, backlog, queues, reservations, admissionWorkers, capacity,
                 worker, workerErr, closing, fences, cleanup, alive, lanes>>

\* cleanup: an agent gives its Session back before it retires.
CleanUp(s) ==
  /\ Agent(s) /\ start[s].exec = "end"
  /\ start' = [start EXCEPT ![s].exec = "cleaned"]
  /\ UNCHANGED <<durable, queues, reservations, admissionWorkers, capacity, worker,
                 workerErr, closing, fences, cleanup, alive, used, lanes>>

\* retire: the scope leaves byScope and the Workflow index.
Retire(s) ==
  /\ start[s].exec = IF Agent(s) THEN "cleaned" ELSE "end"
  /\ start' = [start EXCEPT ![s].exec = "retired"]
  /\ UNCHANGED <<durable, queues, reservations, admissionWorkers, capacity, worker,
                 workerErr, closing, fences, cleanup, alive, used, lanes>>

\* Deliberately wrong: the worker is not told that capacity is free.
DoneSilently(s) ==
  /\ start[s].exec = "retired"
  /\ ReleaseCapacity(s)
  /\ start' = [start EXCEPT ![s] = IF @.pc = "done" THEN NoStart
                  ELSE [@ EXCEPT !.exec = "none", !.lease = Released(s)]]
  /\ UNCHANGED <<durable, queues, reservations, admissionWorkers, worker,
                 workerErr, closing, fences, cleanup, alive, used, lanes>>

\* onRetire gives the capacity back, then done is closed.
Done(s) ==
  /\ start[s].exec = "retired"
  /\ ReleaseCapacity(s)
  /\ start' = [start EXCEPT ![s] = IF @.pc = "done" THEN NoStart
                  ELSE [@ EXCEPT !.exec = "none", !.lease = Released(s)]]
  /\ wake' = (wake \/ (start[s].lease # "none" /\ ~ClosedOrClosing))
  /\ UNCHANGED <<durable, queues, reservations, admissionWorkers, loop, lastTask,
                 workerErr, closing, fences, cleanup, alive, used, lanes>>

ExecutionStep(s) ==
  \/ TurnEnds(s) \/ ScriptExits(s)
  \/ \E e \in Edges : Complete(s, e) \/ CompleteForApproval(s, e)
  \/ CompletionRefused(s) \/ Continue(s) \/ ContinueFails(s)
  \/ FailScope(s) \/ ViolationCap(s) \/ CleanUp(s) \/ Retire(s) \/ Done(s)
===============================================================================
