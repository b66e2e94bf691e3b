----------------------------- MODULE ExclusiveStep -----------------------------
(***************************************************************************)
(* server/agentruntime/exclusive_step.go: who may run on the Session of    *)
(* one Runtime, composed with the queue of Session mutations (RuntimeFIFO),*)
(* the step counter of the agent resource that owns the Runtime            *)
(* (sessionruntime/authority_resource.go) and Engine.Close.                *)
(*                                                                         *)
(* A run is one goroutine inside defaultExclusiveStepLifecycle.run.  Turns *)
(* enter with Run, Flows (Workflow turns) with RunNext, and both are Agent *)
(* Steps.  Works hold a queueable reservation: pending operational work,   *)
(* that is a manual compaction or a Worktree transition, which also runs   *)
(* nested at a Step Boundary of an Agent Step.  Works, and the Turns the   *)
(* Runtime starts itself for queued input, are lifecycle tasks of the      *)
(* Engine; the other runs belong to an execution, which pins the agent     *)
(* resource.  Every lock section of the code is one action.                *)
(***************************************************************************)
EXTENDS RuntimeFIFO, SequencesExt

CONSTANTS Turns, Flows, Works,  \* the runs of a behaviour, by how they enter
          Detached,             \* the Turns that are lifecycle tasks
          Compactions,          \* the Works of kind Compaction, which a stop interrupts
          Stoppers,             \* callers of InterruptCurrent
          Closer,               \* the stopper inside Engine.Close
          None,
          Limits                \* bound: how often each optional step is taken

Agents == Turns \cup Flows
Runs == Agents \cup Works
Pinned == Agents \ Detached
LifecycleTasks == Works \cup Detached

ASSUME StepAssumption ==
  /\ Callers = Runs
  /\ Detached \subseteq Turns /\ Compactions \subseteq Works
  /\ Closer \in Stoppers
  /\ None \notin Runs

VARIABLES
  pc, stage,            \* where each run is, and in which part of its step
  drained,              \* Agent -> drainedThrough of BeginAgentStepBoundary,
                        \* Work -> the mutation it awaits
  owns,                 \* runs that publish their end to the agent resource
  active, suspended,
  nextWaiters,          \* queue of waiting runs
  ready,                \* waiters whose ready channel is closed
  heldReservation, heldWaiter, reservationWaiters, pendingWork,
  boundaryReady,
  boundaryDone,         \* the Agent run whose boundary channel is installed
  publicationDepth,
  closing, interrupted, \* exclusiveRunState flags
  cancelled,            \* runs whose caller's context is cancelled
  stopped,              \* runs whose step context InterruptCurrent cancelled
  fatal,                \* runs whose step failed with a fatal result group
  stopper, target,      \* each stopper's progress and the runs it captured
  removing,             \* removed pending work whose context is not cancelled yet
  resource, resourceMu, steps,  \* the agent resource
  retire, closer, engineClosed, lifecycleClosed,
  panicked,
  left                  \* how often each optional step may still be taken

runVars == <<pc, stage, drained, owns>>
queueVars == <<nextWaiters, ready, heldReservation, heldWaiter, reservationWaiters,
               pendingWork>>
boundaryVars == <<boundaryReady, boundaryDone>>
markVars == <<closing, interrupted, cancelled, stopped, fatal>>
stopVars == <<stopper, target>>
resourceVars == <<resource, resourceMu, steps>>
closeVars == <<retire, closer, engineClosed, lifecycleClosed>>

stepVars == <<runVars, active, suspended, queueVars, boundaryVars, publicationDepth,
              markVars, stopVars, removing, resourceVars, closeVars, panicked, left>>
vars == <<fifoVars, stepVars>>

RunSteps ==
  {"idle", "enter", "launch", "waiting", "claiming", "began", "top", "pause", "pauseWait",
   "drain", "drainWait", "reservations", "reservationsWait", "nested", "request",
   "body", "apply", "closing", "owning", "terminal", "publishing", "ended", "abort",
   "release", "done"}

TypeOK ==
  /\ FifoTypeOK
  /\ pc \in [Runs -> RunSteps]
  /\ stage \in [Runs -> {"start", "begin", "complete", "finish"}]
  /\ drained \in [Runs -> 0..MaxOperations]
  /\ {active, suspended, heldReservation, heldWaiter, boundaryDone} \subseteq Runs \cup {None}
  /\ nextWaiters \in Seq(Runs)
  /\ owns \cup ready \cup closing \cup interrupted \cup cancelled \cup stopped \cup fatal
       \subseteq Runs
  /\ reservationWaiters \cup pendingWork \cup removing \subseteq Works
  /\ {boundaryReady, resourceMu, engineClosed, lifecycleClosed, panicked} \subseteq BOOLEAN
  /\ publicationDepth \in Nat
  /\ stopper \in [Stoppers -> {"idle", "cancel", "check", "persist", "done"}]
  /\ target \in [Stoppers -> SUBSET Runs]
  /\ resource \in {"ready", "draining", "closed"}
  /\ steps \in Nat
  /\ retire \in {"idle", "checked", "done"}
  /\ closer \in {"idle", "stop", "settle", "fifo", "interrupt", "lifecycle", "wait", "done"}

Init ==
  /\ FifoInit
  /\ pc = [r \in Runs |-> "idle"]
  /\ stage = [r \in Runs |-> "start"]
  /\ drained = [r \in Runs |-> 0]
  /\ active = None /\ suspended = None
  /\ nextWaiters = <<>>
  /\ heldReservation = None /\ heldWaiter = None
  /\ owns = {} /\ ready = {} /\ reservationWaiters = {} /\ pendingWork = {} /\ removing = {}
  /\ closing = {} /\ interrupted = {} /\ cancelled = {} /\ stopped = {} /\ fatal = {}
  /\ boundaryReady = FALSE /\ boundaryDone = None
  /\ publicationDepth = 0
  /\ stopper = [i \in Stoppers |-> "idle"]
  /\ target = [i \in Stoppers |-> {}]
  /\ resource = "ready" /\ resourceMu = FALSE /\ steps = 0
  /\ retire = "idle" /\ closer = "idle"
  /\ engineClosed = FALSE /\ lifecycleClosed = FALSE
  /\ panicked = FALSE
  /\ left \in Limits

Spend(what) ==
  /\ left[what] > 0
  /\ left' = [left EXCEPT ![what] = @ - 1]

Goto(r, step) == pc' = [pc EXCEPT ![r] = step]
GotoIn(r, step, part) ==
  /\ Goto(r, step)
  /\ stage' = [stage EXCEPT ![r] = part]

(* The error exit of RunNext: a Work still has to release its reservation. *)
Leave(r) == Goto(r, IF r \in Works THEN "release" ELSE "done")

Busy ==
  \/ active # None
  \/ heldReservation # None
  \/ publicationDepth > 0
  \/ nextWaiters # <<>>

(* notifyNextWaiterLocked, at the end of a lock section. *)
MayNotify ==
  /\ suspended' = None
  /\ active' = None \/ boundaryReady'
  /\ publicationDepth' = 0
  /\ nextWaiters' # <<>>
  /\ heldReservation' = None \/ heldWaiter' # None

Notify == ready' = IF MayNotify THEN ready \cup {Head(nextWaiters')} ELSE ready

-------------------------------------------------------------------------------
(* Entering. *)

(* An execution pins the resource, or a callback counts itself, unless it  *)
(* is going away; a lifecycle task is launched unless the Engine is closed *)
(* or BeginRetirement holds its lock.                                      *)
Admitted(r) ==
  IF r \in Detached
  THEN ~engineClosed /\ retire # "checked"
  ELSE resource = "ready" /\ ~resourceMu /\ (engineClosed => r \in Works)

Option(r) ==
  CASE r \in Detached -> "task" [] r \in Flows -> "flow" [] r \in Works -> "work"
    [] OTHER -> "turn"

Enter(r) ==
  /\ pc[r] = "idle"
  /\ Admitted(r)
  /\ Spend(Option(r))
  /\ Goto(r, "enter")
  /\ UNCHANGED <<fifoVars, stage, drained, owns, active, suspended, queueVars, boundaryVars,
                 publicationDepth, markVars, stopVars, removing, resourceVars, closeVars,
                 panicked>>

Begin(r) ==
  /\ r \in Turns /\ pc[r] = "enter"
  /\ IF Busy
     THEN Goto(r, "done") /\ UNCHANGED active
     ELSE Goto(r, "began") /\ active' = r
  /\ UNCHANGED <<fifoVars, stage, drained, owns, suspended, queueVars, boundaryVars,
                 publicationDepth, markVars, stopVars, removing, resourceVars, closeVars,
                 panicked, left>>

(* beginNext up to its wait: a reservation has its waiter already. *)
BeginNext(r) ==
  /\ r \in Flows /\ pc[r] = "enter"
  /\ IF r \in cancelled
     THEN Goto(r, "done") /\ UNCHANGED <<active, nextWaiters>>
     ELSE IF Busy
          THEN /\ Goto(r, "waiting")
               /\ nextWaiters' = Append(nextWaiters, r)
               /\ UNCHANGED active
          ELSE Goto(r, "began") /\ active' = r /\ UNCHANGED nextWaiters
  /\ UNCHANGED <<fifoVars, stage, drained, owns, suspended, ready, heldReservation,
                 heldWaiter, reservationWaiters, pendingWork, boundaryVars,
                 publicationDepth, markVars, stopVars, removing, resourceVars, closeVars,
                 panicked, left>>

(* AcquireReservation: a reservation overtakes the waiters that have none  *)
(* and are not ready.                                                      *)
Overtaken(w) == w \notin Works \cup ready

Acquire(w) ==
  LET first == SelectInSeq(nextWaiters, Overtaken)
      at == IF first = 0 THEN Len(nextWaiters) + 1 ELSE first
  IN  /\ w \in Works /\ pc[w] = "enter"
      /\ Goto(w, "launch")
      /\ reservationWaiters' = reservationWaiters \cup {w}
      /\ pendingWork' = pendingWork \cup {w}
      /\ IF heldReservation = None
         THEN heldReservation' = w /\ heldWaiter' = w
         ELSE UNCHANGED <<heldReservation, heldWaiter>>
      /\ nextWaiters' = InsertAt(nextWaiters, at, w)
      /\ UNCHANGED <<active, suspended, boundaryVars, publicationDepth>>
      /\ Notify
      /\ UNCHANGED <<fifoVars, stage, drained, owns, markVars, stopVars, removing,
                     resourceVars, closeVars, panicked, left>>

(* launchLifecycleTask; the callback of the resource returns. *)
Launch(w) ==
  /\ pc[w] = "launch" /\ retire # "checked"
  /\ Goto(w, IF engineClosed THEN "release" ELSE "waiting")
  /\ UNCHANGED <<fifoVars, stage, drained, owns, active, suspended, queueVars, boundaryVars,
                 publicationDepth, markVars, stopVars, removing, resourceVars, closeVars,
                 panicked, left>>

(* cancelNextWaiter, when the caller's context ends the wait. *)
CancelNextWaiter(r) ==
  /\ pc[r] = "waiting" /\ r \in cancelled
  /\ Leave(r)
  /\ UNCHANGED <<active, suspended, boundaryVars, publicationDepth, heldReservation,
                 heldWaiter, reservationWaiters>>
  /\ IF r = heldReservation
     THEN UNCHANGED <<nextWaiters, ready, pendingWork>>
     ELSE /\ nextWaiters' = RemoveFirst(nextWaiters, r)
          /\ pendingWork' = IF nextWaiters' # nextWaiters THEN pendingWork \ {r} ELSE pendingWork
          /\ Notify
  /\ UNCHANGED <<fifoVars, stage, drained, owns, markVars, stopVars, removing,
                 resourceVars, closeVars, panicked, left>>

(* The wait ends by the ready channel and the context is still alive. *)
Woken(r) ==
  /\ pc[r] = "waiting" /\ r \in ready /\ r \notin cancelled
  /\ Goto(r, "claiming")
  /\ UNCHANGED <<fifoVars, stage, drained, owns, active, suspended, queueVars, boundaryVars,
                 publicationDepth, markVars, stopVars, removing, resourceVars, closeVars,
                 panicked, left>>

(* claimNextWaiter.  A waiter that is no longer the head fails, a context  *)
(* cancelled since the wait ends the claim and leaves the queue as it is,  *)
(* and a claim that came too late waits again.                             *)
Foremost(r) == nextWaiters # <<>> /\ Head(nextWaiters) = r

ClaimFails(r) ==
  /\ pc[r] = "claiming"
  /\ ~Foremost(r) \/ r \in cancelled
  /\ Leave(r)
  /\ UNCHANGED <<fifoVars, stage, drained, owns, active, suspended, queueVars, boundaryVars,
                 publicationDepth, markVars, stopVars, removing, resourceVars, closeVars,
                 panicked, left>>

MayClaim ==
  /\ suspended = None
  /\ active = None \/ boundaryReady
  /\ publicationDepth = 0

ClaimRetries(r) ==
  /\ pc[r] = "claiming" /\ Foremost(r) /\ r \notin cancelled
  /\ ~MayClaim
  /\ Goto(r, "waiting")
  /\ ready' = ready \ {r}
  /\ UNCHANGED <<fifoVars, stage, drained, owns, active, suspended, nextWaiters,
                 heldReservation, heldWaiter, reservationWaiters, pendingWork, boundaryVars,
                 publicationDepth, markVars, stopVars, removing, resourceVars, closeVars,
                 panicked, left>>

(* Deliberately wrong: a claim ends the boundary of the step it is nested in. *)
ClaimEndsBoundary(r) ==
  /\ pc[r] = "claiming" /\ Foremost(r) /\ r \notin cancelled
  /\ MayClaim
  /\ Goto(r, "began")
  /\ nextWaiters' = Tail(nextWaiters)
  /\ pendingWork' = pendingWork \ {r}
  /\ reservationWaiters' = reservationWaiters \ {r}
  /\ heldWaiter' = IF heldWaiter = r THEN None ELSE heldWaiter
  /\ active' = r
  /\ suspended' = active
  /\ boundaryReady' = FALSE /\ boundaryDone' = None
  /\ UNCHANGED <<fifoVars, stage, drained, owns, ready, heldReservation, publicationDepth,
                 markVars, stopVars, removing, resourceVars, closeVars, panicked, left>>

Claim(r) ==
  /\ pc[r] = "claiming" /\ Foremost(r) /\ r \notin cancelled
  /\ MayClaim
  /\ Goto(r, "began")
  /\ nextWaiters' = Tail(nextWaiters)
  /\ pendingWork' = pendingWork \ {r}
  /\ reservationWaiters' = reservationWaiters \ {r}
  /\ heldWaiter' = IF heldWaiter = r THEN None ELSE heldWaiter
  /\ active' = r
  /\ IF active # None
     THEN suspended' = active /\ boundaryReady' = FALSE
     ELSE UNCHANGED <<suspended, boundaryReady>>
  /\ UNCHANGED <<fifoVars, stage, drained, owns, ready, heldReservation, boundaryDone,
                 publicationDepth, markVars, stopVars, removing, resourceVars, closeVars,
                 panicked, left>>

(* ReleaseReservation, deferred by every holder of a reservation. *)
Release(w) ==
  /\ pc[w] = "release"
  /\ Goto(w, "done")
  /\ pendingWork' = pendingWork \ {w}
  /\ IF w \in reservationWaiters
     THEN /\ nextWaiters' = RemoveFirst(nextWaiters, w)
          /\ boundaryDone' = None
          /\ boundaryReady' = IF boundaryDone # None THEN FALSE ELSE boundaryReady
          /\ reservationWaiters' = reservationWaiters \ {w}
     ELSE UNCHANGED <<nextWaiters, boundaryVars, reservationWaiters>>
  /\ IF heldReservation = w
     THEN heldReservation' = None /\ heldWaiter' = None
     ELSE UNCHANGED <<heldReservation, heldWaiter>>
  /\ UNCHANGED <<active, suspended, publicationDepth>>
  /\ Notify
  /\ UNCHANGED <<fifoVars, stage, drained, owns, markVars, stopVars, removing,
                 resourceVars, closeVars, panicked, left>>

(* removePendingOperationalWork cancels the work's context after it has    *)
(* left the lock.                                                          *)
RemovePendingWork(w) ==
  /\ w \in pendingWork /\ Contains(nextWaiters, w)
  /\ Spend("remove")
  /\ pendingWork' = pendingWork \ {w}
  /\ nextWaiters' = RemoveFirst(nextWaiters, w)
  /\ removing' = removing \cup {w}
  /\ UNCHANGED <<active, suspended, boundaryVars, publicationDepth, heldReservation,
                 heldWaiter, reservationWaiters>>
  /\ Notify
  /\ UNCHANGED <<fifoVars, runVars, markVars, stopVars, resourceVars, closeVars, panicked>>

CancelRemoved(w) ==
  /\ w \in removing
  /\ removing' = removing \ {w}
  /\ cancelled' = cancelled \cup {w}
  /\ UNCHANGED <<fifoVars, runVars, active, suspended, queueVars, boundaryVars,
                 publicationDepth, closing, interrupted, stopped, fatal, stopVars,
                 resourceVars, closeVars, panicked, left>>

(* The execution of a turn is told to stop. *)
CancelContext(r) ==
  /\ r \in Pinned /\ pc[r] \notin {"idle", "done"} /\ r \notin cancelled
  /\ Spend("cancel")
  /\ cancelled' = cancelled \cup {r}
  /\ UNCHANGED <<fifoVars, runVars, active, suspended, queueVars, boundaryVars,
                 publicationDepth, closing, interrupted, stopped, fatal, stopVars, removing,
                 resourceVars, closeVars, panicked>>

-------------------------------------------------------------------------------
(* The Step Boundary: drainBoundaryReservations. *)

AgentActive == active \in Agents

ReservationFirst ==
  /\ AgentActive /\ suspended = None
  /\ nextWaiters # <<>> /\ Head(nextWaiters) \in Works

OpenBoundary(r) ==
  /\ pc[r] = "reservations" /\ ReservationFirst
  /\ Goto(r, "reservationsWait")
  /\ boundaryDone' = r /\ boundaryReady' = TRUE
  /\ UNCHANGED <<active, suspended, publicationDepth, nextWaiters, heldReservation,
                 heldWaiter, reservationWaiters, pendingWork>>
  /\ Notify
  /\ UNCHANGED <<fifoVars, stage, drained, owns, markVars, stopVars, removing,
                 resourceVars, closeVars, panicked, left>>

(* Nothing to run: BeginAgentStepBoundary goes on to the pause, the other  *)
(* boundaries return to the step loop.                                     *)
BoundaryEmpty(r) ==
  /\ pc[r] = "reservations" /\ ~ReservationFirst
  /\ Goto(r, IF stage[r] = "begin" THEN "pause" ELSE "top")
  /\ UNCHANGED <<fifoVars, stage, drained, owns, active, suspended, queueVars, boundaryVars,
                 publicationDepth, markVars, stopVars, removing, resourceVars, closeVars,
                 panicked, left>>

BoundaryWoken(r) ==
  /\ pc[r] = "reservationsWait" /\ boundaryDone # r
  /\ Goto(r, "reservations")
  /\ UNCHANGED <<fifoVars, stage, drained, owns, active, suspended, queueVars, boundaryVars,
                 publicationDepth, markVars, stopVars, removing, resourceVars, closeVars,
                 panicked, left>>

StepCancelled(r) == r \in cancelled \cup stopped

(* A cancelled step still waits for the work nested in it. *)
BoundaryCancelled(r) ==
  /\ pc[r] = "reservationsWait" /\ StepCancelled(r)
  /\ IF suspended # None \/ active \in Compactions
     THEN GotoIn(r, "nested", "finish") /\ UNCHANGED boundaryVars
     ELSE /\ GotoIn(r, "drain", "finish")
          /\ IF boundaryDone = r
             THEN boundaryDone' = None /\ boundaryReady' = FALSE
             ELSE UNCHANGED boundaryVars
  /\ UNCHANGED <<fifoVars, drained, owns, active, suspended, queueVars, publicationDepth,
                 markVars, stopVars, removing, resourceVars, closeVars, panicked, left>>

NestedEnds(r) ==
  /\ pc[r] = "nested" /\ boundaryDone # r
  /\ Goto(r, "drain")
  /\ UNCHANGED <<fifoVars, stage, drained, owns, active, suspended, queueVars, boundaryVars,
                 publicationDepth, markVars, stopVars, removing, resourceVars, closeVars,
                 panicked, left>>

-------------------------------------------------------------------------------
(* The end of a step: closeActiveStepQueue, then publishTerminalStep. *)

CloseActiveStepQueue(r) ==
  /\ pc[r] = "closing"
  /\ Goto(r, "owning")
  /\ closing' = IF active = r THEN closing \cup {r} ELSE closing
  /\ UNCHANGED <<fifoVars, stage, drained, owns, active, suspended, queueVars, boundaryVars,
                 publicationDepth, interrupted, cancelled, stopped, fatal, stopVars, removing,
                 resourceVars, closeVars, panicked, left>>

(* Deliberately wrong: a nested run reports to the agent resource. *)
OwnsWhileNested == active # None

OwnsExternalLifecycle == active # None /\ suspended = None

DecideOwnership(r) ==
  /\ pc[r] = "owning"
  /\ Goto(r, "terminal")
  /\ owns' = IF OwnsExternalLifecycle THEN owns \cup {r} ELSE owns
  /\ UNCHANGED <<fifoVars, stage, drained, active, suspended, queueVars, boundaryVars,
                 publicationDepth, markVars, stopVars, removing, resourceVars, closeVars,
                 panicked, left>>

(* Deliberately wrong: does not wait for a publication in progress. *)
BeginTerminalAtOnce(r) ==
  /\ pc[r] = "terminal"
  /\ Goto(r, "publishing")
  /\ active' = None
  /\ publicationDepth' = publicationDepth + 1
  /\ UNCHANGED <<fifoVars, stage, drained, owns, suspended, queueVars, boundaryVars,
                 markVars, stopVars, removing, resourceVars, closeVars, panicked, left>>

(* beginTerminalPublication waits for the publication of an interruption. *)
BeginTerminalPublication(r) ==
  /\ pc[r] = "terminal"
  /\ publicationDepth = 0
  /\ Goto(r, "publishing")
  /\ active' = None
  /\ publicationDepth' = publicationDepth + 1
  /\ UNCHANGED <<fifoVars, stage, drained, owns, suspended, queueVars, boundaryVars,
                 markVars, stopVars, removing, resourceVars, closeVars, panicked, left>>

(* Deliberately wrong: resumes the suspended step and wakes nobody. *)
FinishTerminalSilently(r) ==
  /\ pc[r] = "ended"
  /\ IF r \in fatal THEN Goto(r, "abort") ELSE Leave(r)
  /\ active' = IF suspended # None THEN suspended ELSE active
  /\ suspended' = None
  /\ publicationDepth' = publicationDepth - 1
  /\ UNCHANGED <<fifoVars, stage, drained, owns, queueVars, boundaryVars, markVars, stopVars,
                 removing, resourceVars, closeVars, panicked, left>>

(* finishTerminalPublication resumes a suspended Agent Step. *)
FinishTerminalPublication(r) ==
  /\ pc[r] = "ended"
  /\ IF r \in fatal THEN Goto(r, "abort") ELSE Leave(r)
  /\ active' = IF suspended # None THEN suspended ELSE active
  /\ suspended' = None
  /\ boundaryDone' = IF suspended # None THEN None ELSE boundaryDone
  /\ publicationDepth' = publicationDepth - 1
  /\ UNCHANGED <<boundaryReady, nextWaiters, heldReservation, heldWaiter,
                 reservationWaiters, pendingWork>>
  /\ Notify
  /\ UNCHANGED <<fifoVars, stage, drained, owns, markVars, stopVars, removing,
                 resourceVars, closeVars, panicked, left>>
===============================================================================
