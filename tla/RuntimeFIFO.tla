------------------------------ MODULE RuntimeFIFO ------------------------------
(***************************************************************************)
(* server/agentruntime/runtime_fifo.go: the queue of Session mutations of  *)
(* one Runtime.  One worker executes them in acceptance order.  An Agent   *)
(* Step pauses the queue before a model request and drains it at its Step  *)
(* Boundaries.                                                             *)
(*                                                                         *)
(* An operation is its sequence number.  The channels pauseDone and        *)
(* idleDone are modelled by the callers that captured the current one and  *)
(* have not seen it closed (pauseOn, idleOn); pauseDone is nil exactly     *)
(* when pauseTarget = 0.  `ready` is a condition variable that every       *)
(* change of the worker's wait condition signals, so the worker's guard is *)
(* that condition.                                                         *)
(***************************************************************************)
EXTENDS Integers, Sequences, FiniteSets

CONSTANTS Callers,        \* goroutines that pause and drain the queue
          MaxOperations   \* bound: operations submitted in one behaviour

VARIABLES
  pending,       \* operations accepted and not yet taken by the worker
  current,       \* the operation the worker executes, 0 when it executes none
  accepted,      \* sequence number of the last accepted operation
  completed,     \* sequence number of the last completed operation
  paused,
  pauseTarget,   \* the sequence a pending Pause waits for, 0 when none is pending
  pauseWaiters,
  pauseOn,       \* callers blocked on the current pauseDone channel
  idleOn,        \* callers blocked on the current idleDone channel
  through,       \* caller -> the sequence its last Pause or Drain reported
  fifoClosed,
  workerDone

fifoVars == <<pending, current, accepted, completed, paused, pauseTarget,
              pauseWaiters, pauseOn, idleOn, through, fifoClosed, workerDone>>

FifoTypeOK ==
  /\ pending \in Seq(1..MaxOperations)
  /\ {current, accepted, completed, pauseTarget} \subseteq 0..MaxOperations
  /\ pauseWaiters \in Int
  /\ pauseOn \subseteq Callers
  /\ idleOn \subseteq Callers
  /\ through \in [Callers -> 0..MaxOperations]
  /\ {paused, fifoClosed, workerDone} \subseteq BOOLEAN

FifoInit ==
  /\ pending = <<>>
  /\ current = 0 /\ accepted = 0 /\ completed = 0
  /\ paused = FALSE
  /\ pauseTarget = 0 /\ pauseWaiters = 0
  /\ pauseOn = {} /\ idleOn = {}
  /\ through = [c \in Callers |-> 0]
  /\ fifoClosed = FALSE /\ workerDone = FALSE

(* pendingCount counts the operation being executed. *)
PendingCount == Len(pending) + (IF current = 0 THEN 0 ELSE 1)

Submit ==
  /\ ~fifoClosed
  /\ accepted < MaxOperations
  /\ accepted' = accepted + 1
  /\ pending' = Append(pending, accepted')
  /\ UNCHANGED <<current, completed, paused, pauseTarget, pauseWaiters, pauseOn,
                 idleOn, through, fifoClosed, workerDone>>

(* Deliberately wrong: the worker ignores a pause. *)
TakeWhilePaused ==
  /\ ~fifoClosed /\ current = 0 /\ pending # <<>>
  /\ current' = Head(pending)
  /\ pending' = Tail(pending)
  /\ UNCHANGED <<accepted, completed, paused, pauseTarget, pauseWaiters, pauseOn,
                 idleOn, through, fifoClosed, workerDone>>

(* The worker.  Completing an operation closes pauseDone and idleDone when *)
(* their conditions hold.                                                  *)
Take ==
  /\ ~fifoClosed /\ ~paused /\ current = 0 /\ pending # <<>>
  /\ current' = Head(pending)
  /\ pending' = Tail(pending)
  /\ UNCHANGED <<accepted, completed, paused, pauseTarget, pauseWaiters, pauseOn,
                 idleOn, through, fifoClosed, workerDone>>

FinishPause ==
  /\ paused' = TRUE
  /\ pauseTarget' = 0
  /\ pauseWaiters' = 0
  /\ pauseOn' = {}

Execute ==
  /\ current # 0
  /\ completed' = current
  /\ current' = 0
  /\ IF pauseTarget # 0 /\ current >= pauseTarget
     THEN FinishPause
     ELSE UNCHANGED <<paused, pauseTarget, pauseWaiters, pauseOn>>
  /\ idleOn' = IF pending = <<>> THEN {} ELSE idleOn
  /\ UNCHANGED <<pending, accepted, through, fifoClosed, workerDone>>

(* Deliberately wrong: a paused worker does not exit. *)
WorkerWaitsOutPause ==
  /\ fifoClosed /\ current = 0 /\ ~paused /\ ~workerDone
  /\ workerDone' = TRUE
  /\ UNCHANGED <<pending, current, accepted, completed, paused, pauseTarget,
                 pauseWaiters, pauseOn, idleOn, through, fifoClosed>>

WorkerExits ==
  /\ fifoClosed /\ current = 0 /\ ~workerDone
  /\ workerDone' = TRUE
  /\ UNCHANGED <<pending, current, accepted, completed, paused, pauseTarget,
                 pauseWaiters, pauseOn, idleOn, through, fifoClosed>>

(* pauseThrough up to its select: the queue is paused already, is paused   *)
(* now because nothing is outstanding, or the caller joins the pending     *)
(* pause.                                                                  *)
Outstanding == completed < accepted

PauseAtOnce(c) ==
  /\ ~fifoClosed
  /\ paused \/ (pauseTarget = 0 /\ ~Outstanding)
  /\ paused' = TRUE
  /\ through' = [through EXCEPT ![c] = completed]
  /\ UNCHANGED <<pending, current, accepted, completed, pauseTarget, pauseWaiters,
                 pauseOn, idleOn, fifoClosed, workerDone>>

PauseWaits(c) ==
  /\ ~fifoClosed /\ ~paused
  /\ pauseTarget # 0 \/ Outstanding
  /\ pauseTarget' = IF pauseTarget = 0 THEN accepted ELSE pauseTarget
  /\ pauseWaiters' = pauseWaiters + 1
  /\ pauseOn' = pauseOn \cup {c}
  /\ through' = [through EXCEPT ![c] = pauseTarget']
  /\ UNCHANGED <<pending, current, accepted, completed, paused, idleOn, fifoClosed,
                 workerDone>>

WithdrawPauseWaiter(c) ==
  /\ IF c \in pauseOn
     THEN /\ pauseWaiters' = pauseWaiters - 1
          /\ pauseTarget' = IF pauseWaiters' = 0 THEN 0 ELSE pauseTarget
     ELSE UNCHANGED <<pauseWaiters, pauseTarget>>
  /\ pauseOn' = pauseOn \ {c}
  /\ UNCHANGED <<pending, current, accepted, completed, paused, idleOn, through,
                 fifoClosed, workerDone>>

(* Deliberately wrong: draining does not resume the worker. *)
DrainKeepsPause(c) ==
  /\ ~fifoClosed
  /\ idleOn' = IF PendingCount > 0 THEN idleOn \cup {c} ELSE idleOn
  /\ UNCHANGED <<pending, current, accepted, completed, paused, pauseTarget,
                 pauseWaiters, pauseOn, through, fifoClosed, workerDone>>

(* drainThrough: resume the worker, wait until the queue has been idle. *)
DrainCall(c) ==
  /\ ~fifoClosed
  /\ paused' = FALSE
  /\ idleOn' = IF PendingCount > 0 THEN idleOn \cup {c} ELSE idleOn
  /\ UNCHANGED <<pending, current, accepted, completed, pauseTarget, pauseWaiters,
                 pauseOn, through, fifoClosed, workerDone>>

DrainReturns(c) ==
  /\ c \notin idleOn /\ ~fifoClosed
  /\ through' = [through EXCEPT ![c] = completed]
  /\ UNCHANGED <<pending, current, accepted, completed, paused, pauseTarget,
                 pauseWaiters, pauseOn, idleOn, fifoClosed, workerDone>>

DrainAbandoned(c) ==
  /\ idleOn' = idleOn \ {c}
  /\ UNCHANGED <<pending, current, accepted, completed, paused, pauseTarget,
                 pauseWaiters, pauseOn, through, fifoClosed, workerDone>>

(* beginClose: queued operations complete as unavailable. *)
BeginClose ==
  /\ fifoClosed' = TRUE
  /\ IF fifoClosed
     THEN UNCHANGED <<pending, pauseTarget, pauseWaiters, pauseOn, idleOn>>
     ELSE /\ pending' = <<>>
          /\ pauseTarget' = 0
          /\ pauseWaiters' = IF pauseTarget # 0 THEN 0 ELSE pauseWaiters
          /\ pauseOn' = {}
          /\ idleOn' = IF current = 0 THEN {} ELSE idleOn
  /\ UNCHANGED <<current, accepted, completed, paused, through, workerDone>>

BeginCloseIfIdle ==
  /\ fifoClosed \/ PendingCount = 0
  /\ fifoClosed' = TRUE
  /\ UNCHANGED <<pending, current, accepted, completed, paused, pauseTarget,
                 pauseWaiters, pauseOn, idleOn, through, workerDone>>

FifoWorker == Submit \/ Take \/ Execute \/ WorkerExits
===============================================================================
