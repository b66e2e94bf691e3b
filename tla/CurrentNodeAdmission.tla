------------------------- MODULE CurrentNodeAdmission -------------------------
(***************************************************************************)
(* current_node_admission.go and current_node_automatic_queue.go: the two  *)
(* queues, the worker loop that takes starts out of them, and the          *)
(* admission goroutine of a taken start.                                   *)
(***************************************************************************)
EXTENDS CurrentNodeState

-------------------------------------------------------------------------------
(* The queues. *)

Queue(pc) == {s \in Starts : start[s].pc = pc}

\* The starts a queue takes: one whose Current Node the controller already owns,
\* through an earlier start of the same call included, is dropped without an error.
Accepted(st, S) ==
  {s \in S : /\ ~CurrentNodeOwned(st[s].node)
             /\ s = CHOOSE r \in S : st[r].node = st[s].node}

\* The order without S, and the order once S has joined the queue that holds Q.
Without(S) == {p \in before : p[1] \notin S /\ p[2] \notin S}
Joined(Q, S, order) == Without(S) \cup (Q \X S) \cup order

\* queueExplicitStartLocked or queueAutomaticStartLocked for each of S, in plan
\* order.  st is `start` with what the caller changed in it first.
Enqueue(st, S, queue) ==
  LET A == Accepted(st, S)
      keys == {st[s].node : s \in A}
  IN /\ start' = [s \in Starts |->
           CASE s \in A -> [st[s] EXCEPT !.pc = queue, !.parent = None]
             [] s \in S \ A -> NoStart
             [] OTHER -> st[s]]
     /\ before' = Joined(Queue(queue), A, {p \in A \X A : st[p[1]].node < st[p[2]].node})
     /\ explicitQueued' = IF queue = "explicit" THEN explicitQueued \cup keys ELSE explicitQueued
     /\ queued' = IF queue = "automatic" THEN queued \cup keys ELSE queued

\* Deliberately wrong: the promoted Nodes keep their place in `queued`.
PromoteKeepsKeys(S) ==
  /\ start' = [s \in Starts |-> IF s \in S
                                THEN [start[s] EXCEPT !.pc = "explicit", !.policy = "explicit"]
                                ELSE start[s]]
  /\ before' = Joined(Queue("explicit"), S, {p \in before : p[1] \in S /\ p[2] \in S})
  /\ explicitQueued' = explicitQueued \cup {start[s].node : s \in S}
  /\ UNCHANGED queued

\* Starts waiting for agent capacity move, in their order, behind the explicit
\* ones and no longer count against the limit.
Promote(S) ==
  /\ start' = [s \in Starts |-> IF s \in S
                                THEN [start[s] EXCEPT !.pc = "explicit", !.policy = "explicit"]
                                ELSE start[s]]
  /\ before' = Joined(Queue("explicit"), S, {p \in before : p[1] \in S /\ p[2] \in S})
  /\ queued' = queued \ {start[s].node : s \in S}
  /\ explicitQueued' = explicitQueued \cup {start[s].node : s \in S}

Earliest(S) == {s \in S : \A r \in S : <<r, s>> \notin before}

\* Deliberately wrong: the capacity test lets one agent too many through.
AgentAvailableOffByOne == capacity <= AgentConcurrency

AgentAvailable == capacity < AgentConcurrency

\* selectEntry: the earliest eligible start of the Task served last, otherwise
\* the earliest eligible one.
Eligible == {s \in Queue("automatic") : start[s].policy = "agent" => AgentAvailable}
SelectEntry ==
  LET same == {s \in Eligible : TaskOf[start[s].node] = lastTask}
  IN IF same # {} THEN Earliest(same) ELSE Earliest(Eligible)

InFlightExplicit ==
  Cardinality({n \in Nodes : /\ admissionWorkers[n] # None
                             /\ start[admissionWorkers[n]].policy = "explicit"})

Takeable ==
  /\ ~Closed
  /\ \/ Queue("explicit") # {} /\ InFlightExplicit < ExplicitConcurrency
     \/ Eligible # {}

-------------------------------------------------------------------------------
(* runAdmissions *)

ReceiveWake ==
  /\ loop = "parked" /\ wake
  /\ loop' = "explicit" /\ wake' = FALSE
  /\ UNCHANGED <<durable, start, queues, reservations, admissionWorkers, capacity,
                 lastTask, workerErr, closing, fences, cleanup, alive, used, lanes>>

\* takeExplicitStart
TakeExplicit ==
  /\ loop = "explicit"
  /\ UNCHANGED <<durable, automaticReservations, queued, capacity, lastTask, wake,
                 workerErr, closing, fences, cleanup, alive, used, lanes>>
  /\ IF Closed \/ InFlightExplicit >= ExplicitConcurrency \/ Queue("explicit") = {}
     THEN /\ loop' = "automatic"
          /\ UNCHANGED <<start, before, explicitQueued, explicitReservations, admissionWorkers>>
     ELSE \E s \in Earliest(Queue("explicit")) : LET n == start[s].node IN
          /\ start' = [start EXCEPT ![s].pc = "prepare"]
          /\ before' = Without({s})
          /\ explicitQueued' = explicitQueued \ {n}
          /\ explicitReservations' = [explicitReservations EXCEPT ![n] = s]
          /\ admissionWorkers' = [admissionWorkers EXCEPT ![n] = s]
          /\ UNCHANGED loop

\* takeAutomaticIntent; with nothing to take the worker waits for its channel.
TakeAutomatic ==
  /\ loop = "automatic"
  /\ UNCHANGED <<durable, explicitReservations, explicitQueued, wake, workerErr,
                 closing, fences, cleanup, alive, used, lanes>>
  /\ IF Closed \/ Eligible = {}
     THEN /\ loop' = "parked"
          /\ UNCHANGED <<start, before, queued, automaticReservations, admissionWorkers,
                         capacity, lastTask>>
     ELSE \E s \in SelectEntry : LET n == start[s].node
                                     counts == start[s].policy = "agent" IN
          /\ start' = [start EXCEPT ![s].pc = "prepare",
                                    ![s].lease = IF counts THEN "reservation" ELSE "none"]
          /\ before' = Without({s})
          /\ queued' = queued \ {n}
          /\ automaticReservations' = [automaticReservations EXCEPT ![n] = s]
          /\ admissionWorkers' = [admissionWorkers EXCEPT ![n] = s]
          /\ capacity' = IF counts THEN capacity + 1 ELSE capacity
          /\ lastTask' = TaskOf[n]
          /\ loop' = "explicit"

\* The worker context is cancelled.
StopLoop ==
  /\ loop = "parked" /\ ClosedOrClosing
  /\ loop' = "stopped"
  /\ UNCHANGED <<durable, start, queues, reservations, admissionWorkers, capacity, wake,
                 lastTask, workerErr, closing, fences, cleanup, alive, used, lanes>>

-------------------------------------------------------------------------------
(* runAdmission: the goroutine of one taken start. *)

Automatic(s) == start[s].policy # "explicit"
Reservation(s) ==
  IF Automatic(s) THEN automaticReservations[start[s].node]
  ELSE explicitReservations[start[s].node]

\* Deliberately wrong: the reservation stays behind.
DeleteNoReservation(s) == UNCHANGED reservations

\* deleteAdmissionReservationLocked: by key and kind of policy, whoever holds it.
DeleteReservation(s) == LET n == start[s].node IN
  /\ automaticReservations' = IF Automatic(s) THEN [automaticReservations EXCEPT ![n] = None]
                              ELSE automaticReservations
  /\ explicitReservations' = IF Automatic(s) THEN explicitReservations
                             ELSE [explicitReservations EXCEPT ![n] = None]

\* releaseAgentCapacityLocked
ReleaseCapacity(s) ==
  capacity' = IF start[s].lease \in {"reservation", "live"} THEN capacity - 1 ELSE capacity
Released(s) == IF start[s].lease = "none" THEN "none" ELSE "released"

LaneOpen(s) ==
  /\ TaskAvailable(TaskOf[start[s].node])
  /\ Reservation(s) = s

\* A start planned by Start, Resume, Approval or a manual move is admitted by its
\* commit; a completion's target by AdmitCurrentNode.
DurablyAdmitted(s) == start[s].mark = "admitted" \/ Admissible(start[s].node)

AdmittedSched(s) ==
  IF start[s].mark = "ready" THEN [sched EXCEPT ![start[s].node] = "admitted"] ELSE sched

\* Script publication or the agent's assignment could not be prepared; a Script
\* also when its Node is indexed already.
PrepareFails(s) ==
  /\ start[s].pc = "prepare"
  /\ IF ~Agent(s) /\ IndexedAt(start[s].node) # {} THEN UNCHANGED used ELSE Spend("fault")
  /\ start' = [start EXCEPT ![s].pc = IF ClosedOrClosing THEN "dropped" ELSE "refused"]
  /\ UNCHANGED <<durable, queues, reservations, admissionWorkers, capacity, worker,
                 workerErr, closing, fences, cleanup, alive, lanes>>

\* The lane refuses: shutting down, or the Task is being interrupted (dropped);
\* poisoned, or the reservation is gone (refused).
AdmissionRefused(s) ==
  /\ start[s].pc = "prepare" /\ LaneFree(start[s].node)
  /\ ~LaneOpen(s) \/ ClosedOrClosing
  /\ start' = [start EXCEPT ![s].pc =
       IF ClosedOrClosing \/ (~workerErr /\ TaskFenced(TaskOf[start[s].node]))
       THEN "dropped" ELSE "refused"]
  /\ UNCHANGED <<durable, queues, reservations, admissionWorkers, capacity, worker,
                 workerErr, closing, fences, cleanup, alive, used, lanes>>

\* admitAgent, the lane section.
AdmitAgent(s) ==
  /\ start[s].pc = "prepare" /\ Agent(s) /\ LaneFree(start[s].node) /\ LaneOpen(s)
  /\ DeleteReservation(s)
  /\ start' = [start EXCEPT ![s].pc = IF DurablyAdmitted(s) THEN "starting" ELSE "refused",
                            ![s].lease = IF @ = "reservation" THEN "live" ELSE @]
  /\ sched' = IF DurablyAdmitted(s) THEN AdmittedSched(s) ELSE sched
  /\ UNCHANGED <<approval, backlog, queues, admissionWorkers, capacity, worker,
                 workerErr, closing, fences, cleanup, alive, used, lanes>>

\* Publish refuses a Node that already has an indexed execution.
Publishable(s) == IndexedAt(start[s].node) = {} /\ DurablyAdmitted(s)

\* admitPreparedScript: admitted, registered and launched in one lane section.
AdmitScript(s) ==
  /\ start[s].pc = "prepare" /\ ~Agent(s) /\ LaneFree(start[s].node) /\ LaneOpen(s)
  /\ DeleteReservation(s)
  /\ start' = IF Publishable(s)
              THEN [start EXCEPT ![s].pc = "launched", ![s].exec = "running"]
              ELSE [start EXCEPT ![s].pc = "refused"]
  /\ sched' = IF Publishable(s) THEN AdmittedSched(s) ELSE sched
  /\ wake' = (wake \/ (Publishable(s) /\ ~Automatic(s)))
  /\ UNCHANGED <<approval, backlog, queues, admissionWorkers, capacity, loop, lastTask,
                 workerErr, closing, fences, cleanup, alive, used, lanes>>

\* classifyCurrentNodeAdmission: the store cannot tell whether the admission was
\* committed, and the process ends.
AdmissionIndeterminate(s) ==
  /\ start[s].pc = "prepare" /\ LaneFree(start[s].node) /\ LaneOpen(s)
  /\ start[s].mark = "ready" /\ Admissible(start[s].node)
  /\ Spend("fault")
  /\ sched' \in {sched, AdmittedSched(s)}
  /\ alive' = FALSE
  /\ UNCHANGED <<approval, backlog, start, queues, reservations, admissionWorkers,
                 capacity, worker, workerErr, closing, fences, cleanup, lanes>>

\* Deliberately wrong: starts next to an execution that has not retired.
StartableAnyway(s) == TRUE

\* Neither the Current Node nor the Session has an execution.
Startable(s) == IndexedAt(start[s].node) = {} /\ SessionExecution(start[s].node) = {}

\* StartAgentCurrentNode.  It runs outside the lane; a cancelled context stops it
\* or comes too late.
StartAgent(s) ==
  /\ start[s].pc = "starting" /\ Startable(s)
  /\ start' = [start EXCEPT ![s].pc = "launched", ![s].exec = "running"]
  /\ wake' = (wake \/ ~Automatic(s))
  /\ UNCHANGED <<durable, queues, reservations, admissionWorkers, capacity, loop, lastTask,
                 workerErr, closing, fences, cleanup, alive, used, lanes>>

StartAgentFails(s) ==
  /\ start[s].pc = "starting"
  /\ \/ (~Startable(s) \/ ClosedOrClosing) /\ UNCHANGED used
     \/ Spend("fault")
  /\ start' = [start EXCEPT ![s].pc = "broken"]
  /\ UNCHANGED <<durable, queues, reservations, admissionWorkers, capacity, worker,
                 workerErr, closing, fences, cleanup, alive, lanes>>

\* What is left to do once admit has returned: a failure is recovered unless the
\* Node is fenced.
AfterAdmit(s) ==
  CASE start[s].pc = "refused" /\ start[s].node \notin fenceNode -> "recoverRefused"
    [] start[s].pc = "broken" /\ start[s].node \notin fenceNode -> "recoverBroken"
    [] OTHER -> "unfence"

\* releaseReservation, with the capacity release of a failed admitAgent.
ReleaseReservation(s) ==
  /\ start[s].pc \in {"launched", "dropped", "refused", "broken"}
  /\ DeleteReservation(s)
  /\ IF start[s].pc = "launched"
     THEN start' = [start EXCEPT ![s].pc = "unfence"] /\ UNCHANGED capacity
     ELSE /\ ReleaseCapacity(s)
          /\ start' = [start EXCEPT ![s].pc = AfterAdmit(s), ![s].lease = Released(s)]
  /\ wake' = (wake \/ (~Closed /\ (Reservation(s) # None \/ Automatic(s))))
  /\ UNCHANGED <<durable, queues, admissionWorkers, loop, lastTask, workerErr, closing,
                 fences, cleanup, alive, used, lanes>>

\* handleAdmissionFailure: interrupt the Node in its lane, unless shutting down.
\* When that cannot be persisted an automatic start ends the process and an
\* explicit one poisons the controller.
RecoverStart(s) ==
  /\ start[s].pc \in {"recoverRefused", "recoverBroken"} /\ LaneFree(start[s].node)
  /\ UNCHANGED <<approval, backlog, queues, reservations, admissionWorkers, capacity,
                 worker, closing, fences, cleanup, lanes>>
  /\ \/ /\ start' = [start EXCEPT ![s].pc = "unfence"]
        /\ \/ ClosedOrClosing /\ UNCHANGED sched
           \/ /\ ~Closed
              /\ sched' = IF start[s].pc = "recoverRefused" THEN Interrupted({start[s].node})
                          ELSE AdmittedInterrupted(start[s].node)
        /\ UNCHANGED <<workerErr, alive, used>>
     \/ /\ ~ClosedOrClosing /\ Spend("fault")
        /\ IF Automatic(s)
           THEN alive' = FALSE /\ UNCHANGED <<start, workerErr>>
           ELSE /\ start' = [start EXCEPT ![s].pc = "unfence"]
                /\ workerErr' = TRUE /\ UNCHANGED alive
        /\ UNCHANGED sched

\* finishTaskInterruptAdmission
Unfence(s) ==
  /\ start[s].pc = "unfence"
  /\ fenceNode' = fenceNode \ {start[s].node}
  /\ start' = [start EXCEPT ![s].pc = "finish"]
  /\ UNCHANGED <<durable, queues, reservations, admissionWorkers, capacity, worker,
                 workerErr, closing, fenceScope, cleanup, alive, used, lanes>>

\* finishAdmissionWorker, with its panic.
FinishWorker(s) ==
  /\ start[s].pc = "finish"
  /\ IF admissionWorkers[start[s].node] # s
     THEN alive' = FALSE /\ UNCHANGED <<start, admissionWorkers, wake>>
     ELSE /\ admissionWorkers' = [admissionWorkers EXCEPT ![start[s].node] = None]
          /\ start' = [start EXCEPT ![s] = IF @.exec = "none" THEN NoStart
                                           ELSE [@ EXCEPT !.pc = "done"]]
          /\ wake' = (wake \/ ~Closed)
          /\ UNCHANGED alive
  /\ UNCHANGED <<durable, queues, reservations, capacity, loop, lastTask, workerErr,
                 closing, fences, cleanup, used, lanes>>

AdmissionStep(s) ==
  \/ PrepareFails(s) \/ AdmissionRefused(s) \/ AdmitAgent(s) \/ AdmitScript(s)
  \/ AdmissionIndeterminate(s) \/ StartAgent(s) \/ StartAgentFails(s)
  \/ ReleaseReservation(s) \/ RecoverStart(s) \/ Unfence(s) \/ FinishWorker(s)
===============================================================================
