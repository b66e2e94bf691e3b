------------------------ MODULE CurrentNodeController -------------------------
(***************************************************************************)
(* The whole controller: admission worker and goroutines, executions,      *)
(* interrupts, operators, Close and restarts, composed; and the properties *)
(* of the composition.                                                     *)
(***************************************************************************)
EXTENDS CurrentNodeLifecycle

LoopStep == ReceiveWake \/ TakeExplicit \/ TakeAutomatic \/ StopLoop

Next ==
  \/ /\ alive
     /\ \/ LoopStep
        \/ \E s \in Starts : AdmissionStep(s) \/ ExecutionStep(s)
        \/ \E i \in Interrupters : InterruptStep(i)
        \/ OperatorStep
        \/ CloseStep
  \/ Restart

Spec == Init /\ [][Next]_vars

-------------------------------------------------------------------------------
(* Admission. *)

Leased == {s \in Starts : start[s].lease \in {"reservation", "live"}}

\* agentCapacityActive counts exactly the automatic agents that hold a lease, from
\* the moment the worker takes them until their admission fails or their scope
\* retires, and never exceeds the configured concurrency.
CapacityAccounted ==
  /\ capacity = Cardinality(Leased)
  /\ capacity <= AgentConcurrency

\* A Current Node is queued at most once, in one of the two queues, never while a
\* worker holds a reservation for it, and the key sets explicitQueued and queued
\* say exactly what the queues hold.
OwnedOnce ==
  /\ \A q \in QueueStages : \A r, s \in Queue(q) : start[r].node = start[s].node => r = s
  /\ explicitQueued = {start[s].node : s \in Queue("explicit")}
  /\ queued = {start[s].node : s \in Queue("automatic")}
  /\ explicitQueued \cap queued = {}
  /\ \A n \in explicitQueued \cup queued :
       explicitReservations[n] = None /\ automaticReservations[n] = None

\* Every reservation belongs to an admission goroutine that is still registered,
\* so drainTaskControllerWorkLocked never meets a reservation it has to drain.
ReservedByWorker ==
  \A n \in Nodes : explicitReservations[n] # None \/ automaticReservations[n] # None
                     => admissionWorkers[n] # None

\* The worker never waits for its wake channel while a queued start could be
\* taken: every release of capacity or of an admission slot has left a token.
NoLostWake ==
  alive /\ loop = "parked" /\ ~wake /\ ~ClosedOrClosing => ~Takeable

\* An admission goroutine stays the registered one for its Current Node until it
\* unregisters; finishAdmissionWorker panics when it finds another.  It does not
\* hold: a start that is resumed after the failed one has left its lane registers
\* over it, and FinishWorker models the panic.
WorkersKeepTheirNode ==
  \A s \in Starts : start[s].pc \in WorkerStages => admissionWorkers[start[s].node] = s

\* A start that failed leaves the Current Node alone when another start of the
\* same Node already runs: handleAdmissionFailure does not interrupt the winner.
\* It does not hold where a transition waits for approval: applyPendingApproval
\* commits the target, a Resume starts it before the approval's own start is
\* queued, and that start, which then fails, interrupts the running one.
LoserLeavesWinner ==
  [][\A s \in Starts : LET n == start[s].node IN
       /\ start[s].pc \in {"recoverRefused", "recoverBroken"} /\ start'[s].pc = "unfence"
       /\ sched[n] # "interrupted" /\ sched'[n] = "interrupted"
       => \A r \in Starts \ {s} : start[r].node = n => start[r].exec # "running"]_vars

-------------------------------------------------------------------------------
(* Executions. *)

\* A Current Node has at most one execution in the Workflow index, an Agent's until
\* it retires and a Script's until it finalizes, and a Session has at most one.
OneScopePerNode ==
  \A r, s \in Starts :
    /\ Indexed(r) /\ Indexed(s) /\ start[r].node = start[s].node => r = s
    /\ /\ HoldsSession(r) /\ HoldsSession(s)
       /\ SessionOf[start[r].node] = SessionOf[start[s].node]
       => r = s

\* An agent or Script is launched only for a Current Node whose durable state is
\* admitted at that moment.
StartsOnlyAdmitted ==
  [][\A s \in Starts : start[s].exec = "none" /\ start'[s].exec = "running"
                         => sched'[start[s].node] = "admitted"]_vars

\* No agent or Script is launched for a Node that is no longer current: what a
\* manual move or a completion has replaced cannot come up behind it.
StartsOnlyCurrent ==
  [][\A s \in Starts : start[s].exec = "none" /\ start'[s].exec = "running"
                         => sched'[start[s].node] # "none"]_vars


-------------------------------------------------------------------------------
(* Interruption. *)

\* Every fence entry belongs to an interrupt whose cleanup is still going to
\* remove it, unless a cleanup has timed out before and left its scopes fenced; a
\* fence nobody owns keeps its Task out of every operation.
FenceHasOwner ==
  /\ used["timeout"] = 0 => \A s \in Starts : fenceScope[s] # None =>
       \E i \in Interrupters : s \in cleanup[i].scopes /\ cleanup[i].task = fenceScope[s]
  /\ \A n \in fenceNode : \E i \in Interrupters :
       n \in cleanup[i].drained /\ cleanup[i].pc \notin {"idle", "verify"}

\* When a Task-wide Interrupt returns, no automatic start of its Task is queued or
\* on its way to a launch.  It does not hold: an Agent that has completed its Node
\* queues the successor after the drain.
InterruptLeavesNoSuccessor ==
  [][\A i \in Interrupters : ReturnInterrupt(i) /\ cleanup[i].fenced
       => \A s \in Starts : OfTask(s, cleanup[i].task) /\ Automatic(s)
                              => start[s].pc \notin {"automatic", "prepare", "starting"}]_vars

-------------------------------------------------------------------------------
(* Operators. *)

\* A Task that EnsureTaskQuiescent lets an operation replace or reconcile has no
\* live execution at that moment.  It does not hold: a start goes live between the
\* two halves of the test.
ReconcilesOnlyIdleWork ==
  \A t \in Tasks : lane[t] # "free" /\ Quiescent(t) => ~HasLiveWorkflowTaskExecution(t)

\* After Resume of an available Task every executable Current Node is interrupted,
\* or has a start that is queued, in admission or running.
ResumeLeavesNoOrphan ==
  [][\A t \in Tasks : ResumeTask(t) /\ TaskAvailable(t)
       => \A n \in NodesOf(t) :
            \/ sched'[n] \in {"none", "interrupted"} \/ approval[n] # None
            \/ \E s \in Starts : start'[s].node = n]_vars

-------------------------------------------------------------------------------
(* Close. *)

\* Nothing enters a queue any more once Close has emptied them.
ClosedQueuesStayEmpty == Closed => explicitQueued \cup queued = {}

\* From the moment closed is set until the process ends, no goroutine that is
\* still running changes the durable state; once Close has returned, no agent or
\* Script is launched.
ClosedIsFrozen ==
  [][/\ Closed /\ closer' # "none" => UNCHANGED durable
     /\ closer = "done" => \A s \in Starts :
          start[s].exec = "none" => start'[s].exec # "running"]_vars

-------------------------------------------------------------------------------
(* Liveness.  Goroutines that can go on do so, a lane section ends, a stopped  *)
(* execution ends, and an agent or Script nobody stops may run for ever.       *)

Finishing(s) == start[s].exec # "running" /\ ExecutionStep(s)
Stopping(s) == start[s].stop /\ (TurnEnds(s) \/ ScriptExits(s))

CleanupStep(i) ==
  \/ RequestStops(i) \/ PersistInterrupts(i) \/ FinishDrained(i) \/ ReturnInterrupt(i)
  \/ \E s \in Starts : FinishScope(i, s)

LaneStep(t) ==
  \/ Refuse(t) \/ StartTask(t) \/ ResumeTask(t)
  \/ \E T \in Destinations(t) : ApplyManualMove(t, T)
  \/ \E n \in NodesOf(t) : SubmitToSession(n)

ApprovalStep == \E n \in Nodes : QueueApproved(n) \/ ApprovalFails(n)

Advances(s) == AdmissionStep(s) \/ Finishing(s) \/ Stopping(s)

Fairness ==
  /\ WF_vars(alive /\ LoopStep)
  /\ \A s \in Starts : WF_vars(alive /\ Advances(s))
  /\ \A i \in Interrupters : WF_vars(alive /\ CleanupStep(i))
  /\ \A t \in Tasks : WF_vars(alive /\ LaneStep(t))
  /\ WF_vars(alive /\ ApprovalStep)
  /\ WF_vars(alive /\ closer # "none" /\ CloseStep)

FairSpec == Spec /\ Fairness

\* No start that could be taken waits for ever: again and again the explicit queue
\* is empty, and so is the automatic queue whenever an Agent may be started.
StartsAreTaken ==
  []<>(explicitQueued = {} /\ (AgentAvailable => queued = {}))

\* An Interrupt returns: everything it has stopped ends, without its timeout.
InterruptsReturn ==
  \A i \in Interrupters : cleanup[i].pc # "idle" ~> cleanup[i].pc = "idle"

\* The Task has executable Current Nodes and neither live nor queued execution,
\* in a controller nobody closes.
Idle(t) ==
  /\ alive /\ closer = "none" /\ ~workerErr /\ ~HasLiveWorkflowTaskExecution(t)
  /\ \E n \in NodesOf(t) : sched[n] # "none" /\ approval[n] = None
  /\ \A s \in Starts : OfTask(s, t) => start[s].pc = "done"

\* Such a Task does not stay unavailable to Resume.
ResumeBecomesAvailable ==
  \A t \in Tasks : Idle(t) ~> TaskAvailable(t) \/ ~Idle(t)

\* Close returns whatever admissions, executions, interrupts and approvals it meets,
\* unless the process ends.
CloseCompletes == closer # "none" ~> closer = "done" \/ ~alive
===============================================================================
