------------------------ MODULE CurrentNodeInterruption -----------------------
(***************************************************************************)
(* current_node_interruption.go and current_node_interrupt_state.go: an    *)
(* interrupt selects and fences in the lane, then cleans up outside it.    *)
(***************************************************************************)
EXTENDS CurrentNodeExecution

\* drainTaskControllerWorkLocked: the Task's queued starts.  A start whose
\* admission goroutine runs is left alone, and every reservation has one
\* (ReservedByWorker), so no reservation is drained.
Drained(t) == {s \in Starts : start[s].pc \in QueueStages /\ OfTask(s, t)}

Interruptible(t) == {s \in Starts : OfTask(s, t) /\ Indexed(s)}

\* Select the executions S for interrupter i; with a fence, drain D too.
Select(i, t, S, D, fenced) ==
  /\ cleanup[i] = NoCleanup /\ lane[t] = "free"
  /\ TaskAvailable(t)
  /\ LET keys == {start[s].node : s \in D} IN
     /\ cleanup' = [cleanup EXCEPT ![i] =
          [pc |-> "stop", task |-> t, scopes |-> S, drained |-> keys,
           refs |-> keys \cup {start[s].node : s \in S}, fenced |-> fenced]]
     /\ fenceScope' = [s \in Starts |-> IF fenced /\ s \in S THEN t ELSE fenceScope[s]]
     /\ fenceNode' = fenceNode \cup keys
     /\ start' = [s \in Starts |-> IF s \in D THEN NoStart ELSE start[s]]
     /\ before' = Without(D)
     /\ explicitQueued' = explicitQueued \ keys
     /\ queued' = queued \ keys
  /\ UNCHANGED <<durable, reservations, admissionWorkers, capacity, worker, workerErr,
                 closing, alive, lanes>>

\* Interrupt of a whole Task needs at least one running execution.
InterruptTask(i, t) ==
  /\ Interruptible(t) # {}
  /\ Select(i, t, Interruptible(t), Drained(t), TRUE)
  /\ Spend("interrupt")

\* Interrupt of one Session's execution: no fence, nothing is drained.
InterruptSession(i, t) ==
  /\ \E s \in Interruptible(t) :
       /\ Agent(s)
       /\ Select(i, t, {r \in Interruptible(t) : Agent(r) /\ SessionOf[start[r].node] =
                                                             SessionOf[start[s].node]},
                 {}, FALSE)
  /\ Spend("stop")

\* InterruptForManualMove: queued work alone is enough.
InterruptForManualMove(i, t) ==
  /\ Interruptible(t) \cup Drained(t) # {}
  /\ Select(i, t, Interruptible(t), Drained(t), TRUE)
  /\ Spend("move")

-------------------------------------------------------------------------------
(* cleanupInterrupt *)

\* Deliberately wrong: no execution is asked to stop.
RequestNoStops(i) ==
  /\ cleanup[i].pc = "stop"
  /\ cleanup' = [cleanup EXCEPT ![i].pc = "persist"]
  /\ wake' = TRUE
  /\ UNCHANGED <<durable, start, queues, reservations, admissionWorkers, capacity, loop,
                 lastTask, workerErr, closing, fences, alive, used, lanes>>

RequestStops(i) ==
  /\ cleanup[i].pc = "stop"
  /\ cleanup' = [cleanup EXCEPT ![i].pc = "persist"]
  /\ start' = [s \in Starts |-> IF s \in cleanup[i].scopes
                                THEN [start[s] EXCEPT !.stop = (@ \/ start[s].exec # "none")]
                                ELSE start[s]]
  /\ wake' = TRUE
  /\ UNCHANGED <<durable, queues, reservations, admissionWorkers, capacity, loop, lastTask,
                 workerErr, closing, fences, alive, used, lanes>>

\* The references are interrupted in the lane, unless it is shut; a store that
\* fails leaves some as they are.
PersistInterrupts(i) ==
  /\ cleanup[i].pc = "persist" /\ lane[cleanup[i].task] = "free"
  /\ cleanup' = [cleanup EXCEPT ![i].pc = "wait"]
  /\ \/ ~Closed /\ sched' = Interrupted(cleanup[i].refs) /\ UNCHANGED used
     \/ ClosedOrClosing /\ UNCHANGED <<sched, used>>
     \/ ~Closed /\ Spend("store") /\ \E R \in SUBSET cleanup[i].refs : sched' = Interrupted(R)
  /\ UNCHANGED <<approval, backlog, start, queues, reservations, admissionWorkers,
                 capacity, worker, workerErr, closing, fences, alive, lanes>>

\* A selected scope is done: finishScope.
FinishScope(i, s) ==
  /\ cleanup[i].pc = "wait" /\ s \in cleanup[i].scopes
  /\ start[s].exec = "none"
  /\ cleanup' = [cleanup EXCEPT ![i].scopes = @ \ {s}]
  /\ fenceScope' = [fenceScope EXCEPT ![s] = None]
  /\ UNCHANGED <<durable, start, queues, reservations, admissionWorkers, capacity, worker,
                 workerErr, closing, fenceNode, alive, used, lanes>>

\* Deliberately wrong: the drained Nodes stay fenced.
FinishDrainedKeepsFence(i) ==
  /\ cleanup[i].pc = "wait" /\ cleanup[i].scopes = {}
  /\ cleanup' = [cleanup EXCEPT ![i].pc = "verify"]
  /\ UNCHANGED <<durable, start, queues, reservations, admissionWorkers, capacity, worker,
                 workerErr, closing, fences, alive, used, lanes>>

\* All scopes are done: finishTaskInterruptAdmissionKey for the drained Nodes.
FinishDrained(i) ==
  /\ cleanup[i].pc = "wait" /\ cleanup[i].scopes = {}
  /\ cleanup' = [cleanup EXCEPT ![i].pc = "verify"]
  /\ fenceNode' = fenceNode \ cleanup[i].drained
  /\ UNCHANGED <<durable, start, queues, reservations, admissionWorkers, capacity, worker,
                 workerErr, closing, fenceScope, alive, used, lanes>>

\* interruptCleanupTimeout passes first, maybe before anything is persisted.  Scopes
\* that still run stay fenced.
CleanupTimesOut(i) == LET gone == {s \in cleanup[i].scopes : ~Live(s)} IN
  /\ cleanup[i].pc = "persist" \/ (cleanup[i].pc = "wait" /\ gone # cleanup[i].scopes)
  /\ Spend("timeout")
  /\ cleanup' = [cleanup EXCEPT ![i].pc = "verify", ![i].scopes = {}]
  /\ fenceScope' = [s \in Starts |-> IF s \in gone THEN None ELSE fenceScope[s]]
  /\ fenceNode' = fenceNode \ cleanup[i].drained
  /\ UNCHANGED <<durable, start, queues, reservations, admissionWorkers, capacity, worker,
                 workerErr, closing, alive, lanes>>

\* The interrupt returns, with or without an error.
ReturnInterrupt(i) ==
  /\ cleanup[i].pc = "verify" /\ lane[cleanup[i].task] = "free"
  /\ cleanup' = [cleanup EXCEPT ![i] = NoCleanup]
  /\ UNCHANGED <<durable, start, queues, reservations, admissionWorkers, capacity, worker,
                 workerErr, closing, fences, alive, used, lanes>>

InterruptStep(i) ==
  \/ \E t \in Tasks : InterruptTask(i, t) \/ InterruptSession(i, t) \/ InterruptForManualMove(i, t)
  \/ RequestStops(i) \/ PersistInterrupts(i) \/ \E s \in Starts : FinishScope(i, s)
  \/ FinishDrained(i) \/ CleanupTimesOut(i) \/ ReturnInterrupt(i)
===============================================================================
