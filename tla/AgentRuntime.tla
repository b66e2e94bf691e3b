----------------------------- MODULE AgentRuntime ------------------------------
(***************************************************************************)
(* One Session Runtime: the step lifecycle (ExclusiveStep), the Agent Steps *)
(* that pause and drain the mutation queue around their model requests     *)
(* (agentruntime/step_executor.go), InterruptCurrent, the agent resource   *)
(* that counts engine steps, its retirement, and Engine.Close.             *)
(***************************************************************************)
EXTENDS ExclusiveStep

(* What every action of this module but the stops leaves alone. *)
lifecycleVars == <<active, suspended, queueVars, boundaryVars, publicationDepth, stopVars,
                   removing>>

(* StepBegan of the agent resource, when the run is not nested.  It waits  *)
(* for the resource lock, which retirement holds.                          *)
StepBegan(r) ==
  /\ pc[r] = "began"
  /\ LET entered == IF r \in Agents THEN "pause" ELSE "body"
     IN  IF ~OwnsExternalLifecycle
         THEN Goto(r, entered) /\ UNCHANGED <<owns, steps, panicked, left>>
         ELSE /\ ~resourceMu
              /\ IF resource # "ready"
                 THEN /\ Goto(r, "terminal") /\ owns' = owns \cup {r}
                      /\ UNCHANGED <<steps, panicked, left>>
                 ELSE /\ panicked' = (steps # 0)
                      /\ steps' = steps + 1
                      /\ \/ Goto(r, entered) /\ UNCHANGED <<owns, left>>
                         \/ Spend("fault") /\ Goto(r, "terminal") /\ owns' = owns \cup {r}
  /\ UNCHANGED <<fifoVars, stage, drained, lifecycleVars, markVars, resource, resourceMu,
                 closeVars>>

StepEnded(r) ==
  /\ pc[r] = "publishing"
  /\ IF r \notin owns
     THEN Goto(r, "ended") /\ UNCHANGED <<steps, panicked>>
     ELSE /\ ~resourceMu
          /\ Goto(r, "ended")
          /\ panicked' = (steps = 0 /\ resource = "ready")
          /\ steps' = IF steps = 0 THEN 0 ELSE steps - 1
  /\ UNCHANGED <<fifoVars, stage, drained, owns, lifecycleVars, markVars, resource,
                 resourceMu, closeVars, left>>

-------------------------------------------------------------------------------
(* An Agent Step: runStepLoopWithOptions and finishStep. *)

stepFrame == <<drained, owns, active, suspended, queueVars, boundaryVars, publicationDepth,
               markVars, stopVars, removing, resourceVars, closeVars, panicked, left>>

(* The start of the loop, which a completed boundary may also leave.       *)
(* BeginAgentStepBoundary does nothing when the active run is not an Agent *)
(* Step.                                                                   *)
LoopTop(r) ==
  /\ pc[r] = "top"
  /\ \/ StepCancelled(r) /\ GotoIn(r, "drain", "finish")
     \/ stage[r] = "complete" /\ GotoIn(r, "drain", "finish")
     \/ /\ ~StepCancelled(r)
        /\ GotoIn(r, IF AgentActive THEN "drain" ELSE "request",
                     IF AgentActive THEN "begin" ELSE stage[r])
  /\ UNCHANGED <<fifoVars, stepFrame>>

(* A Drain call: finishStep ignores a closed queue, a boundary fails. *)
Drain(r) ==
  /\ pc[r] = "drain"
  /\ IF fifoClosed
     THEN IF stage[r] = "finish"
          THEN Goto(r, "closing") /\ UNCHANGED <<stage, fifoVars>>
          ELSE GotoIn(r, "drain", "finish") /\ UNCHANGED fifoVars
     ELSE DrainCall(r) /\ Goto(r, "drainWait") /\ UNCHANGED stage
  /\ UNCHANGED stepFrame

AfterDrain(r) == IF stage[r] = "finish" THEN "closing" ELSE "reservations"

Drained(r) ==
  /\ pc[r] = "drainWait"
  /\ DrainReturns(r)
  /\ Goto(r, AfterDrain(r))
  /\ drained' = [drained EXCEPT ![r] = through'[r]]
  /\ UNCHANGED <<stage, owns, active, suspended, queueVars, boundaryVars, publicationDepth,
                 markVars, stopVars, removing, resourceVars, closeVars, panicked, left>>

(* The queue closed, its worker exited or the step was cancelled. *)
DrainFails(r) ==
  /\ pc[r] = "drainWait"
  /\ \/ fifoClosed /\ r \notin idleOn
     \/ workerDone
     \/ StepCancelled(r) /\ stage[r] # "finish"
  /\ DrainAbandoned(r)
  /\ IF stage[r] = "finish"
     THEN Goto(r, "closing") /\ UNCHANGED stage
     ELSE GotoIn(r, "drain", "finish")
  /\ UNCHANGED stepFrame

(* A Pause call.  The first one of a step listens to its caller only, not  *)
(* to a stop.  At a boundary, an operation that completed since the drain  *)
(* sends the step round again.                                             *)
AfterPause(r, pausedThrough) ==
  IF stage[r] = "start" THEN "top"
  ELSE IF pausedThrough = drained[r] THEN "request" ELSE "drain"

Pause(r) ==
  /\ pc[r] = "pause"
  /\ \/ PauseAtOnce(r) /\ Goto(r, AfterPause(r, through'[r])) /\ UNCHANGED stage
     \/ PauseWaits(r) /\ Goto(r, "pauseWait") /\ UNCHANGED stage
     \/ fifoClosed /\ GotoIn(r, "drain", "finish") /\ UNCHANGED fifoVars
  /\ UNCHANGED stepFrame

Paused(r) ==
  /\ pc[r] = "pauseWait" /\ r \notin pauseOn
  /\ Goto(r, AfterPause(r, through[r]))
  /\ UNCHANGED <<fifoVars, stage, stepFrame>>

PauseFails(r) ==
  /\ pc[r] = "pauseWait"
  /\ \/ workerDone /\ UNCHANGED fifoVars
     \/ /\ IF stage[r] = "start" THEN r \in cancelled ELSE StepCancelled(r)
        /\ WithdrawPauseWaiter(r)
  /\ GotoIn(r, "drain", "finish")
  /\ UNCHANGED stepFrame

(* A model request with its tools ends: the step completes its boundary    *)
(* and continues, continues at once, finishes, or fails fatally.           *)
RequestEnds(r) ==
  /\ pc[r] = "request"
  /\ \/ GotoIn(r, "drain", "finish") /\ UNCHANGED <<fatal, left>>
     \/ Spend("round") /\ ~StepCancelled(r) /\ UNCHANGED fatal
        /\ \/ GotoIn(r, IF AgentActive THEN "drain" ELSE "top", "complete")
           \/ Goto(r, "top") /\ UNCHANGED stage
     \/ Spend("fatal") /\ GotoIn(r, "drain", "finish") /\ fatal' = fatal \cup {r}
  /\ UNCHANGED <<fifoVars, drained, owns, lifecycleVars, closing, interrupted, cancelled,
                 stopped, resourceVars, closeVars, panicked>>

(* The body of a compaction or a Worktree transition; a transition first   *)
(* submits its result as a Session mutation and awaits it, whatever        *)
(* happens to its context.                                                 *)
WorkApplies(w) ==
  /\ pc[w] = "body" /\ w \notin Compactions /\ ~engineClosed
  /\ Submit
  /\ Goto(w, "apply")
  /\ drained' = [drained EXCEPT ![w] = accepted']
  /\ UNCHANGED <<stage, owns, active, suspended, queueVars, boundaryVars, publicationDepth,
                 markVars, stopVars, removing, resourceVars, closeVars, panicked, left>>

Answered(w) == completed >= drained[w] \/ (fifoClosed /\ current # drained[w])

WorkEnds(w) ==
  /\ pc[w] = "body" \/ (pc[w] = "apply" /\ Answered(w))
  /\ Goto(w, "closing")
  /\ UNCHANGED <<fifoVars, stage, stepFrame>>

(* closeAdmissionAfterRuntimeAbort *)
CloseAdmission(r) ==
  /\ pc[r] = "abort"
  /\ Leave(r)
  /\ engineClosed' = TRUE
  /\ BeginClose
  /\ UNCHANGED <<stage, drained, owns, lifecycleVars, markVars, resourceVars, retire, closer,
                 lifecycleClosed, panicked, left>>

-------------------------------------------------------------------------------
(* InterruptCurrent: mark the current runs and begin a publication, cancel *)
(* their contexts, look again, persist the interruption.                   *)

Current == {active, suspended} \ {None}

Interruptible ==
  /\ Current # {}
  /\ active = None \/ (active \in Agents \cup Compactions /\ active \notin closing)
  /\ Current \cap interrupted = {}

Mark(i) ==
  /\ interrupted' = interrupted \cup Current
  /\ target' = [target EXCEPT ![i] = Current]
  /\ publicationDepth' = publicationDepth + 1

StopFrame == <<fifoVars, runVars, active, suspended, heldReservation, heldWaiter,
               reservationWaiters, pendingWork, nextWaiters, boundaryVars, closing, cancelled,
               fatal, removing, resourceVars, engineClosed, lifecycleClosed, retire, panicked>>

Interrupt(i) ==
  /\ stopper[i] = "idle"
  /\ IF i = Closer
     THEN closer \in {"stop", "interrupt"} /\ UNCHANGED left
     ELSE Spend("interrupt")
  /\ IF Interruptible
     THEN Mark(i) /\ stopper' = [stopper EXCEPT ![i] = "cancel"]
     ELSE /\ stopper' = [stopper EXCEPT ![i] = "done"]
          /\ UNCHANGED <<interrupted, target, publicationDepth>>
  /\ UNCHANGED <<StopFrame, ready, stopped, closer>>

CancelStep(i) ==
  /\ stopper[i] = "cancel"
  /\ stopped' = stopped \cup target[i]
  /\ stopper' = [stopper EXCEPT ![i] = "check"]
  /\ UNCHANGED <<StopFrame, ready, interrupted, publicationDepth, target, closer, left>>

(* The look back under the lock, and the end of the publication. *)
StillCurrent(i) == target[i] \cap Current # {}

Recheck(i) ==
  /\ stopper[i] = "check" /\ StillCurrent(i)
  /\ stopper' = [stopper EXCEPT ![i] = "persist"]
  /\ UNCHANGED <<StopFrame, ready, interrupted, stopped, publicationDepth, target, closer, left>>

FinishInterruption(i) ==
  /\ stopper[i] = "persist" \/ (stopper[i] = "check" /\ ~StillCurrent(i))
  /\ stopper' = [stopper EXCEPT ![i] = "done"]
  /\ publicationDepth' = publicationDepth - 1
  /\ UNCHANGED StopFrame
  /\ Notify
  /\ UNCHANGED <<interrupted, stopped, target, closer, left>>

-------------------------------------------------------------------------------
(* The agent resource and the engine go away. *)

closeFrame == <<runVars, active, suspended, queueVars, boundaryVars, publicationDepth,
                closing, interrupted, stopped, fatal, removing, steps, panicked>>

(* The executions and callbacks the resource counts. *)
Counted ==
  {r \in Pinned : pc[r] \notin {"idle", "done"}} \cup {w \in Works : pc[w] \in {"enter", "launch"}}

(* Retirement of an idle resource, under the resource lock.  An Engine that *)
(* is closed already retires at once; else BeginRetirement looks at the    *)
(* step lifecycle first and at the queue second.                           *)
MayRetire == retire = "idle" /\ resource = "ready" /\ ~resourceMu /\ steps = 0 /\ Counted = {}

RetireCheck ==
  /\ MayRetire /\ ~engineClosed /\ ~Busy
  /\ Spend("retire")
  /\ retire' = "checked" /\ resourceMu' = TRUE
  /\ UNCHANGED <<fifoVars, closeFrame, stopVars, cancelled, resource, closer, engineClosed,
                 lifecycleClosed>>

RetireClosed ==
  /\ MayRetire /\ engineClosed
  /\ Spend("retire")
  /\ retire' = "done" /\ resource' = "draining" /\ closer' = "stop"
  /\ UNCHANGED <<fifoVars, closeFrame, stopVars, cancelled, resourceMu, engineClosed,
                 lifecycleClosed>>

(* Deliberately wrong: closes a queue that is no longer idle. *)
RetireDropsQueue ==
  /\ retire = "checked"
  /\ BeginClose
  /\ retire' = "done" /\ resourceMu' = FALSE
  /\ resource' = "draining" /\ engineClosed' = TRUE /\ closer' = "stop"
  /\ UNCHANGED <<closeFrame, stopVars, cancelled, lifecycleClosed, left>>

RetireSucceeds ==
  /\ retire = "checked"
  /\ BeginCloseIfIdle
  /\ retire' = "done" /\ resourceMu' = FALSE
  /\ resource' = "draining" /\ engineClosed' = TRUE /\ closer' = "stop"
  /\ UNCHANGED <<closeFrame, stopVars, cancelled, lifecycleClosed, left>>

RetireRefused ==
  /\ retire = "checked" /\ ~fifoClosed /\ PendingCount # 0
  /\ retire' = "idle" /\ resourceMu' = FALSE
  /\ UNCHANGED <<fifoVars, closeFrame, stopVars, cancelled, resource, closer, engineClosed,
                 lifecycleClosed, left>>

(* closeResource, whatever the resource runs: cancel the executions, stop  *)
(* the current runs, wait until nothing counts on the resource, then close *)
(* the Engine.  A caller that gives up the wait leaves the resource        *)
(* draining, for another one to close.                                     *)
CloseResource ==
  /\ closer = "idle" /\ resource # "closed" /\ ~resourceMu
  /\ Spend("close")
  /\ resource' = "draining" /\ closer' = "stop"
  /\ cancelled' = cancelled \cup Pinned
  /\ UNCHANGED <<fifoVars, closeFrame, stopVars, resourceMu, retire, engineClosed,
                 lifecycleClosed>>

RunsStopped ==
  /\ closer = "stop" /\ stopper[Closer] = "done"
  /\ closer' = "settle"
  /\ stopper' = [stopper EXCEPT ![Closer] = "idle"]
  /\ UNCHANGED <<fifoVars, closeFrame, target, cancelled, resource, resourceMu, retire,
                 engineClosed, lifecycleClosed, left>>

Settled == Counted = {} /\ steps = 0 /\ ~resourceMu

ResourceSettles ==
  /\ closer = "settle" /\ Settled
  /\ resource' = "closed" /\ closer' = "fifo"
  /\ UNCHANGED <<fifoVars, closeFrame, stopVars, cancelled, resourceMu, retire, engineClosed,
                 lifecycleClosed, left>>

CloseGivesUp ==
  /\ closer = "settle" /\ ~Settled
  /\ Spend("expire")
  /\ closer' = "idle"
  /\ UNCHANGED <<fifoVars, closeFrame, stopVars, cancelled, resource, resourceMu, retire,
                 engineClosed, lifecycleClosed>>

(* Engine.Close: close the queue, interrupt, end the lifecycle, wait for   *)
(* its tasks, wait for the worker.                                         *)
CloseFifo ==
  /\ closer = "fifo"
  /\ BeginClose
  /\ closer' = "interrupt"
  /\ UNCHANGED <<closeFrame, stopVars, cancelled, resource, resourceMu, retire, engineClosed,
                 lifecycleClosed, left>>

CloseLifecycle ==
  /\ closer = "interrupt" /\ stopper[Closer] = "done"
  /\ closer' = "lifecycle"
  /\ lifecycleClosed' = TRUE /\ engineClosed' = TRUE
  /\ UNCHANGED <<fifoVars, closeFrame, stopVars, cancelled, resource, resourceMu, retire, left>>

CancelLifecycle ==
  /\ closer = "lifecycle"
  /\ closer' = "wait"
  /\ cancelled' = cancelled \cup LifecycleTasks
  /\ UNCHANGED <<fifoVars, closeFrame, stopVars, resource, resourceMu, retire, engineClosed,
                 lifecycleClosed, left>>

CloseReturns ==
  /\ closer = "wait" /\ workerDone
  /\ \A r \in LifecycleTasks : pc[r] \in {"idle", "done"}
  /\ closer' = "done"
  /\ UNCHANGED <<fifoVars, closeFrame, stopVars, cancelled, resource, resourceMu, retire, engineClosed,
                 lifecycleClosed, left>>

-------------------------------------------------------------------------------
RunStep(r) ==
  \/ Enter(r) \/ Begin(r) \/ BeginNext(r) \/ Acquire(r) \/ Launch(r)
  \/ CancelNextWaiter(r) \/ Woken(r) \/ ClaimFails(r) \/ ClaimRetries(r) \/ Claim(r)
  \/ StepBegan(r) \/ LoopTop(r) \/ Drain(r) \/ Drained(r) \/ DrainFails(r)
  \/ OpenBoundary(r) \/ BoundaryEmpty(r) \/ BoundaryWoken(r) \/ BoundaryCancelled(r)
  \/ NestedEnds(r) \/ Pause(r) \/ Paused(r) \/ PauseFails(r)
  \/ RequestEnds(r) \/ WorkApplies(r) \/ WorkEnds(r)
  \/ CloseActiveStepQueue(r) \/ DecideOwnership(r) \/ BeginTerminalPublication(r)
  \/ StepEnded(r) \/ FinishTerminalPublication(r) \/ CloseAdmission(r) \/ Release(r)

StopStep(i) == Interrupt(i) \/ CancelStep(i) \/ Recheck(i) \/ FinishInterruption(i)

CloseStep ==
  \/ RetireSucceeds \/ RetireRefused \/ RunsStopped \/ ResourceSettles
  \/ CloseFifo \/ CloseLifecycle \/ CancelLifecycle \/ CloseReturns

Queue == FifoWorker /\ UNCHANGED stepVars

Next ==
  /\ ~panicked
  /\ \/ \E r \in Runs : RunStep(r)
     \/ \E w \in Works : RemovePendingWork(w) \/ CancelRemoved(w)
     \/ \E r \in Pinned : CancelContext(r)
     \/ \E i \in Stoppers : StopStep(i)
     \/ Queue
     \/ RetireCheck \/ RetireClosed \/ CloseResource \/ CloseGivesUp \/ CloseStep

Spec == Init /\ [][Next]_vars

(* Every goroutine that has started goes on, the contexts that are to be   *)
(* cancelled are, and the operations, requests and works that run end.     *)
(* Nothing obliges anyone to submit, to remove, to stop or to close.       *)
Fairness ==
  /\ \A r \in Runs : WF_vars(pc[r] # "idle" /\ RunStep(r))
  /\ \A w \in Works : WF_vars(CancelRemoved(w))
  /\ \A i \in Stoppers : WF_vars(CancelStep(i) \/ Recheck(i) \/ FinishInterruption(i))
  /\ WF_vars(Interrupt(Closer))
  /\ WF_vars(CloseStep)
  /\ WF_vars((Take \/ Execute \/ WorkerExits) /\ UNCHANGED stepVars)

FairSpec == Spec /\ Fairness

-------------------------------------------------------------------------------
(* Properties. *)

Executing(r) == pc[r] \in {"request", "body", "apply"}

(* agentResource.StepBegan and StepEnded panic when a step begins while    *)
(* another is counted or ends while none is: no interleaving of turns,     *)
(* nested work, stops and closing gets there.                              *)
EngineStepsDoNotOverlap == ~panicked

(* An Agent Step's model request and tools never run beside another        *)
(* request, a compaction or a Worktree transition.                         *)
OneStepAtATime == \A r, q \in Runs : Executing(r) /\ Executing(q) => r = q

(* The settings and inputs a request was built from do not change under    *)
(* it: no Session mutation executes during a request, and none can start   *)
(* before the step's next boundary.                                        *)
RequestsSeeNoMutation ==
  \A r \in Agents : pc[r] = "request" => current = 0 /\ (paused \/ fifoClosed)

(* InterruptCurrent lets go of the lock to cancel a run and looks again:   *)
(* the run it marked cannot have been published as ended meanwhile, so the *)
(* interruption is always persisted for a run that is still current.       *)
InterruptedRunStaysCurrent ==
  \A i \in Stoppers : stopper[i] \in {"cancel", "check", "persist"} => StillCurrent(i)

(* pauseWaiters counts the callers blocked on the pending Pause, whatever  *)
(* mix of completion, withdrawal and close ends the waits; the panic of    *)
(* withdrawPauseWaiter on a negative count is unreachable.                 *)
PauseWaitersCounted == pauseWaiters = Cardinality(pauseOn)

(* BeginRetirement looks at the step lifecycle and at the queue under two  *)
(* locks: a run that slips in between never executes on the retired        *)
(* Runtime, and nothing accepted is lost with it, be it a mutation or      *)
(* pending work, unless a fatal step had aborted the Runtime before.       *)
RetiredIsQuiet ==
  retire = "done" =>
    /\ \A r \in Runs : ~Executing(r)
    /\ fatal = {} => accepted = completed /\ pendingWork = {}

(* claimNextWaiter returns on a context cancelled after the wait without   *)
(* taking its waiter out of the queue.                                     *)
Abandoned == \E r \in Agents : pc[r] = "done" /\ Contains(nextWaiters, r)

(* No wake-up is lost: whenever the first waiter may go, its ready channel *)
(* is closed, unless a work that was taken out of the queue has still to   *)
(* release its reservation, which notifies the first waiter again.         *)
HeadIsReady ==
  /\ MayClaim /\ nextWaiters # <<>>
  /\ heldReservation = None \/ heldWaiter # None
  /\ \A w \in reservationWaiters : Contains(nextWaiters, w)
  => Head(nextWaiters) \in ready

(* The Runtime never stays busy: steps, reservations, publications and     *)
(* waiters all come to an end, unless a cancelled claim has abandoned its  *)
(* waiter.                                                                 *)
RuntimeBecomesIdle == Busy ~> (~Busy \/ Abandoned)

(* Closing the resource returns, unless its caller gives up: what it has   *)
(* cancelled and stopped lets go of the resource, although a step may wait *)
(* for work nested in it or for a mutation, and Engine.Close gets past the *)
(* lifecycle tasks and the worker of a queue that a step has paused.       *)
EngineCloses == closer # "idle" ~> closer \in {"idle", "done"}

(* An accepted Session mutation is executed or the queue is closed; no     *)
(* Agent Step leaves the queue paused behind it.                           *)
MutationsComplete == (accepted > completed) ~> (accepted = completed \/ fifoClosed)

(* A waiter that left without its turn leaves the queue. *)
NoAbandonedWaiter == ~Abandoned
===============================================================================
