------------------------ MODULE CurrentNodeQueueProofs ------------------------
(*****************************************************************************)
(* The admission goroutines, the worker loop and the executions keep JInv.   *)
(*****************************************************************************)
EXTENDS CurrentNodeStartProofs

USE DEF durable, queues, reservations, worker, closing, fences, lanes

-------------------------------------------------------------------------------
(* The admission goroutines. *)

\* A goroutine that goes on to a stage p, before its release or after it.
LEMMA NextStage ==
  ASSUME StartsOK, NEW s \in Starts, NEW p \in WorkerStages, start[s].pc \in WorkerStages,
         p \in Reserving \/ start[s].pc \notin Reserving,
         start' = [start EXCEPT ![s].pc = p]
  PROVE  Moves(s) /\ Executes(s) /\ \A q \in Starts : q # s => start'[q] = start[q]
<1>1. /\ start'[s].pc = p /\ start'[s].node = start[s].node
      /\ start'[s].policy = start[s].policy /\ start'[s].exec = start[s].exec
      /\ start'[s].lease = start[s].lease
      /\ \A q \in Starts : q # s => start'[q] = start[q]
  BY PcChange, Zenon
<1> QED BY <1>1, Zenon DEF Moves, Proceeds, Executes, Holds

\* deleteAdmissionReservationLocked only takes reservations away, and of a start's
\* own kind none is left for it.
LEMMA DeletedReservation ==
  ASSUME IInv, QueuesOK, NEW s \in Starts, start[s].pc \in WorkerStages, DeleteReservation(s)
  PROVE  /\ Shrinks
         /\ \A n \in Nodes : explicitReservations'[n] # s /\ automaticReservations'[n] # s
<1>1. /\ explicitReservations \in [Nodes -> Starts \cup {None}]
      /\ automaticReservations \in [Nodes -> Starts \cup {None}]
      /\ start[s].node \in Nodes
  BY Zenon DEF IInv, TypeOK, StartsOK, WellFormed, WorkerStages
<1>2. CASE Automatic(s)
  <2>1. UNCHANGED explicitReservations
        /\ automaticReservations' = [automaticReservations EXCEPT ![start[s].node] = None]
    BY <1>2, Zenon DEF DeleteReservation
  <2>2. \A n \in Nodes : explicitReservations[n] # s
    BY <1>2, Zenon DEF Automatic, QueuesOK, ReservationsHeld
  <2>3. \A n \in Nodes : automaticReservations[n] = s => n = start[s].node
    BY Zenon DEF QueuesOK, ReservationsHeld, ReservedFor
  <2> QED BY <1>1, <2>1, <2>2, <2>3, ControllerAssumption, Zenon DEF Shrinks
<1>3. CASE ~Automatic(s)
  <2>1. UNCHANGED automaticReservations
        /\ explicitReservations' = [explicitReservations EXCEPT ![start[s].node] = None]
    BY <1>3, Zenon DEF DeleteReservation
  <2>2. \A n \in Nodes : automaticReservations[n] # s
    BY <1>3, Zenon DEF Automatic, QueuesOK, ReservationsHeld
  <2>3. \A n \in Nodes : explicitReservations[n] = s => n = start[s].node
    BY Zenon DEF QueuesOK, ReservationsHeld, ReservedFor
  <2> QED BY <1>1, <2>1, <2>2, <2>3, ControllerAssumption, Zenon DEF Shrinks
<1> QED BY <1>2, <1>3, Zenon

\* A launch next to no execution of the Node or, for an agent, of its Session.
LEMMA LaunchKeeps ==
  ASSUME OneScopePerNode, NEW s \in Starts, start'[s].node = start[s].node,
         \A q \in Starts : q # s => start'[q] = start[q],
         IndexedAt(start[s].node) = {},
         Agent(s) => SessionExecution(start[s].node) = {}
  PROVE  OneScopePerNode'
<1>1. \A q \in Starts : q # s => /\ Indexed(q)' <=> Indexed(q)
                                 /\ HoldsSession(q)' <=> HoldsSession(q)
                                 /\ start'[q].node = start[q].node
  BY Zenon DEF Indexed, HoldsSession, Live, Agent
<1>2. \A q \in Starts : start[q].node = start[s].node => ~Indexed(q)
  BY Zenon DEF IndexedAt
<1>3. \A q \in Starts : Agent(s) /\ SessionOf[start[q].node] = SessionOf[start[s].node]
                          => ~HoldsSession(q)
  BY Zenon DEF SessionExecution
<1>4. HoldsSession(s)' => Agent(s)
  BY Zenon DEF HoldsSession, Agent
<1> QED BY <1>1, <1>2, <1>3, <1>4 DEF OneScopePerNode

\* A launch is a step of a goroutine that Close has not joined yet.
LEMMA QuietLaunch ==
  ASSUME IInv, JInv, QuietVars, NEW s \in Starts, start[s].pc \in WorkerStages, Moves(s),
         \A q \in Starts : q # s => start'[q] = start[q], OneScopePerNode'
  PROVE  JInv' /\ Frozen
<1>1. \A q \in Starts : Moves(q)
  BY Untouched, Zenon
<1>2. NothingLaunched
  BY Zenon DEF NothingLaunched, JInv, CloseOK
<1> QED BY <1>1, <1>2, QuietFences, QuietCore, Zenon DEF JInv, QuietVars

\* Launching: the goroutine's stage and the execution's change together.
LEMMA LaunchMoves ==
  ASSUME StartsOK, NEW s \in Starts, start[s].pc \in {"prepare", "starting"},
         start' = [start EXCEPT ![s].pc = "launched", ![s].exec = "running"]
  PROVE  /\ Moves(s) /\ start'[s].node = start[s].node
         /\ \A q \in Starts : q # s => start'[q] = start[q]
<1> DEFINE r == [start[s] EXCEPT !.pc = "launched", !.exec = "running"]
<1>1. start[s] \in StartRecord
  BY Zenon DEF StartsOK
<1>2. start' = [start EXCEPT ![s] = r]
  BY Zenon
<1>3. /\ r.pc = "launched" /\ r.node = start[s].node /\ r.policy = start[s].policy
      /\ r.lease = start[s].lease
  BY <1>1, Zenon DEF StartRecord
<1> HIDE DEF r
<1>4. start'[s] = r /\ \A q \in Starts : q # s => start'[q] = start[q]
  BY <1>2, OneChange, Zenon
<1> QED BY <1>3, <1>4, Zenon DEF Moves, Proceeds, Reserving, WorkerStages, Holds

\* A goroutine that unregisters leaves nothing that names it.
LEMMA FinishWorkerOrders ==
  ASSUME IInv, JInv, NEW s \in Starts, FinishWorker(s)
  PROVE  JInv' /\ Frozen
<1>0. start[s] \in StartRecord /\ WellFormed(start[s]) /\ StartsOK
  BY Zenon DEF IInv, StartsOK
<1>1. start[s].pc = "finish" /\ start[s].node \in Nodes
  BY <1>0, Zenon DEF FinishWorker, WellFormed
<1>2. UNCHANGED <<durable, explicitQueued, queued, reservations, capacity, loop, closing,
                  fences, cleanup, used>>
  BY Zenon DEF FinishWorker
<1>3. CASE admissionWorkers[start[s].node] # s
  <2>1. alive' = FALSE /\ UNCHANGED <<start, admissionWorkers>>
    BY <1>3, Zenon DEF FinishWorker
  <2>2. QuietVars
    BY <1>2, <2>1, Zenon DEF QuietVars, QuietQueueing, QuietFencing, Shrinks, Roused
  <2> QED BY <2>1, <2>2, QuietNone, Zenon
<1>4. CASE admissionWorkers[start[s].node] = s
  <2> DEFINE r == IF start[s].exec = "none" THEN NoStart ELSE [start[s] EXCEPT !.pc = "done"]
  <2>1. /\ admissionWorkers' = [admissionWorkers EXCEPT ![start[s].node] = None]
        /\ start' = [start EXCEPT ![s] = r]
        /\ wake' = (wake \/ ~Closed)
    BY <1>4, Zenon DEF FinishWorker
  <2>2. /\ r.pc \in {"free", "done"}
        /\ r.exec = "none" \/ (r.exec = start[s].exec /\ r.node = start[s].node)
        /\ ~Holds(r) \/ (r.lease = start[s].lease /\ r.policy = start[s].policy)
    BY <1>0, NothingThere, Zenon DEF NoStart, StartRecord
  <2> HIDE DEF r
  <2>3. start'[s] = r /\ \A q \in Starts : q # s => start'[q] = start[q]
    BY <1>0, <2>1, OneChange, Zenon
  <2>4. Policed(start'[s])
    BY <2>2, <2>3, Zenon DEF Policed, Holds, JInv, QueuesOK
  <2>5. /\ admissionWorkers \in [Nodes -> Starts \cup {None}]
        /\ \A n \in Nodes : n # start[s].node => admissionWorkers'[n] = admissionWorkers[n]
        /\ admissionWorkers'[start[s].node] = None
    BY <1>1, <2>1, Zenon DEF IInv, TypeOK
  <2>6. QueuesOK'
    <3>1. \A q \in Starts : Policed(start'[q])
      BY <2>3, <2>4, Zenon DEF JInv, QueuesOK
    <3>2. \A q \in Starts : start'[q].pc \in QueueStages \/ start[q].pc \in QueueStages =>
            start'[q] = start[q]
      BY <1>1, <2>2, <2>3, Zenon DEF QueueStages
    <3>3. QueuedOnce'
      BY <1>2, <3>2, SameQueues, Zenon DEF JInv, QueuesOK, Shrinks
    <3>4. WorkersRegistered'
      <4> SUFFICES ASSUME NEW n \in Nodes, NEW q \in Starts, admissionWorkers'[n] = q
                   PROVE  start'[q].node = n /\ start'[q].pc \in WorkerStages
        BY Zenon DEF WorkersRegistered
      <4>1. n # start[s].node /\ admissionWorkers[n] = q
        BY <2>5, ControllerAssumption, Zenon
      <4>2. start[q].node = n /\ start[q].pc \in WorkerStages
        BY <4>1, Zenon DEF JInv, QueuesOK, WorkersRegistered
      <4> QED BY <2>3, <4>1, <4>2, Zenon
    <3>5. ReservationsHeld'
      <4> SUFFICES ASSUME NEW n \in Nodes, NEW q \in Starts, ReservedFor(n, q)
                   PROVE  ReservedFor(n, q)' /\ start'[q] = start[q]
        BY <1>2, Zenon DEF ReservationsHeld, JInv, QueuesOK
      <4>1. q # s /\ start[q].node = n /\ start[q].pc \in Reserving /\ admissionWorkers[n] = q
        BY <1>1, Zenon DEF ReservedFor, Reserving
      <4>2. n # start[s].node
        BY <1>4, <4>1, Zenon
      <4> QED BY <2>3, <2>5, <4>1, <4>2, Zenon DEF ReservedFor
    <3> QED BY <3>1, <3>3, <3>4, <3>5, Zenon DEF QueuesOK
  <2>7. WakeOK'
    BY <1>2, <2>1, Zenon DEF WakeOK, Closed
  <2>8. \A q \in Starts : Executes(q)
    BY <2>2, <2>3, Zenon DEF Executes
  <2>12. OneScopePerNode'
    BY <2>8, QuietScopes, Zenon DEF JInv
  <2>9. FencesOK'
    BY <1>2, QuietFences, Zenon DEF JInv, QuietFencing
  <2>10. CloseOK'
    <3>1. \A q \in Starts : KeepsClosed(q)
      BY <2>2, <2>3, Zenon DEF KeepsClosed, Waiting, QueueStages, WorkerStages
    <3> QED BY <1>2, <3>1, QuietClose, Zenon DEF JInv
  <2>11. Frozen
    BY <1>2, <2>8, NoLaunch, Zenon DEF Frozen
  <2> QED BY <2>6, <2>7, <2>9, <2>10, <2>11, <2>12, Zenon DEF JInv
<1> QED BY <1>3, <1>4, Zenon

\* Every step of an admission goroutine keeps the invariant.
LEMMA AdmissionStepOrders ==
  ASSUME IInv, JInv, NEW s \in Starts, AdmissionStep(s)
  PROVE  JInv' /\ Frozen
<1>0. StartsOK /\ start[s] \in StartRecord /\ WellFormed(start[s])
  BY Zenon DEF IInv, StartsOK
<1>1. CASE PrepareFails(s)
  <2>1. Moves(s) /\ Executes(s) /\ \A q \in Starts : q # s => start'[q] = start[q]
    BY <1>0, <1>1, NextStage, Zenon DEF PrepareFails, Reserving, WorkerStages
  <2>2. used'["timeout"] = 0 => used["timeout"] = 0
    BY <1>1, TimeoutsKept, Zenon DEF PrepareFails, Operations
  <2>3. QuietVars
    BY <1>1, <2>2, Zenon DEF PrepareFails, QuietVars, QuietQueueing, QuietFencing, Shrinks, Roused
  <2> QED BY <2>1, <2>3, QuietOne, Zenon
<1>2. CASE AdmissionRefused(s)
  <2>1. Moves(s) /\ Executes(s) /\ \A q \in Starts : q # s => start'[q] = start[q]
    BY <1>0, <1>2, NextStage, Zenon DEF AdmissionRefused, Reserving, WorkerStages
  <2>2. QuietVars
    BY <1>2, Zenon DEF AdmissionRefused, QuietVars, QuietQueueing, QuietFencing, Shrinks, Roused
  <2> QED BY <2>1, <2>2, QuietOne, Zenon
<1>3. CASE AdmitAgent(s)
  <2> DEFINE r == [start[s] EXCEPT !.pc = IF DurablyAdmitted(s) THEN "starting" ELSE "refused",
                                   !.lease = IF @ = "reservation" THEN "live" ELSE @]
  <2>1. start' = [start EXCEPT ![s] = r] /\ start[s].pc = "prepare" /\ DeleteReservation(s)
    BY <1>3, Zenon DEF AdmitAgent
  <2>2. /\ r.node = start[s].node /\ r.exec = start[s].exec /\ r.policy = start[s].policy
        /\ r.pc \in {"starting", "refused"}
        /\ r.lease = IF start[s].lease = "reservation" THEN "live" ELSE start[s].lease
    BY <1>0, Zenon DEF StartRecord
  <2> HIDE DEF r
  <2>3. start'[s] = r /\ \A q \in Starts : q # s => start'[q] = start[q]
    BY <1>0, <2>1, OneChange, Zenon
  <2>4. Holds(r) => Holds(start[s])
    BY <2>2, Zenon DEF Holds
  <2>5. Moves(s) /\ Executes(s)
    BY <2>1, <2>2, <2>3, <2>4, Zenon DEF Moves, Proceeds, Executes, Reserving, WorkerStages
  <2>6. Shrinks
    BY <2>1, DeletedReservation, Zenon DEF JInv, WorkerStages
  <2>7. QuietVars
    BY <1>3, <2>6, Zenon DEF AdmitAgent, LaneOpen, TaskAvailable, QuietVars, QuietQueueing, QuietFencing,
                       Roused
  <2> QED BY <2>3, <2>5, <2>7, QuietOne, Zenon
<1>4. CASE AdmitScript(s)
  <2>0. start[s].pc = "prepare" /\ DeleteReservation(s) /\ ~Agent(s) /\ ~Closed
    BY <1>4, Zenon DEF AdmitScript, LaneOpen, TaskAvailable
  <2>1. Shrinks
    BY <2>0, DeletedReservation, Zenon DEF JInv, WorkerStages
  <2>2. UNCHANGED <<queues, admissionWorkers, capacity, loop, closing, fences, cleanup, alive, used>>
    BY <1>4, Zenon DEF AdmitScript
  <2>3. wake' = (wake \/ (Publishable(s) /\ ~Automatic(s)))
    BY <1>4, Zenon DEF AdmitScript
  <2>4. Roused
    BY <2>2, <2>3, Zenon DEF Roused
  <2>5. QuietVars
    BY <2>0, <2>1, <2>2, <2>4, Zenon DEF QuietVars, QuietQueueing, QuietFencing
  <2>6. CASE Publishable(s)
    <3>1. /\ Moves(s) /\ start'[s].node = start[s].node
          /\ \A q \in Starts : q # s => start'[q] = start[q]
      BY <1>0, <1>4, <2>0, <2>6, LaunchMoves, Zenon DEF AdmitScript
    <3>2. OneScopePerNode'
      BY <2>0, <2>6, <3>1, LaunchKeeps, Zenon DEF JInv, Publishable
    <3> QED BY <2>0, <2>5, <3>1, <3>2, QuietLaunch, Zenon DEF WorkerStages
  <2>7. CASE ~Publishable(s)
    <3>1. start' = [start EXCEPT ![s].pc = "refused"]
      BY <1>4, <2>7, Zenon DEF AdmitScript
    <3>2. Moves(s) /\ Executes(s) /\ \A q \in Starts : q # s => start'[q] = start[q]
      BY <1>0, <2>0, <3>1, NextStage, Zenon DEF Reserving, WorkerStages
    <3> QED BY <2>5, <3>2, QuietOne, Zenon
  <2> QED BY <2>6, <2>7, Zenon
<1>5. CASE AdmissionIndeterminate(s)
  <2>1. used'["timeout"] = 0 => used["timeout"] = 0
    BY <1>5, TimeoutsKept, Zenon DEF AdmissionIndeterminate, Operations
  <2>2. QuietVars
    BY <1>5, <2>1, Zenon DEF AdmissionIndeterminate, LaneOpen, TaskAvailable, QuietVars, QuietQueueing, QuietFencing, Shrinks, Roused
  <2> QED BY <1>5, <2>2, QuietNone, Zenon DEF AdmissionIndeterminate
<1>6. CASE StartAgent(s)
  <2>1. wake' = (wake \/ ~Automatic(s))
    BY <1>6, Zenon DEF StartAgent
  <2>2. UNCHANGED <<durable, queues, reservations, admissionWorkers, capacity, loop, closing,
                    fences, cleanup, alive, used>>
    BY <1>6, Zenon DEF StartAgent
  <2>3. Roused
    BY <2>1, <2>2, Zenon DEF Roused
  <2>4. QuietVars
    BY <2>2, <2>3, Zenon DEF QuietVars, QuietQueueing, QuietFencing, Shrinks
  <2>5. /\ Moves(s) /\ start'[s].node = start[s].node
        /\ \A q \in Starts : q # s => start'[q] = start[q]
    BY <1>0, <1>6, LaunchMoves, Zenon DEF StartAgent
  <2>6. OneScopePerNode'
    BY <1>6, <2>5, LaunchKeeps, Zenon DEF JInv, StartAgent, Startable
  <2> QED BY <1>6, <2>4, <2>5, <2>6, QuietLaunch, Zenon DEF StartAgent, WorkerStages
<1>7. CASE StartAgentFails(s)
  <2>1. Moves(s) /\ Executes(s) /\ \A q \in Starts : q # s => start'[q] = start[q]
    BY <1>0, <1>7, NextStage, Zenon DEF StartAgentFails, Reserving, WorkerStages
  <2>2. used'["timeout"] = 0 => used["timeout"] = 0
    BY <1>7, TimeoutsKept, Zenon DEF StartAgentFails, Operations
  <2>3. QuietVars
    BY <1>7, <2>2, Zenon DEF StartAgentFails, QuietVars, QuietQueueing, QuietFencing, Shrinks, Roused
  <2> QED BY <2>1, <2>3, QuietOne, Zenon
<1>8. CASE ReleaseReservation(s)
  <2>0. /\ start[s].pc \in {"launched", "dropped", "refused", "broken"} /\ DeleteReservation(s)
        /\ wake' = (wake \/ (~Closed /\ (Reservation(s) # None \/ Automatic(s))))
        /\ UNCHANGED <<durable, queues, admissionWorkers, loop, closing, fences, cleanup, alive,
                       used>>
    BY <1>8, Zenon DEF ReleaseReservation
  <2>1. /\ Shrinks
        /\ \A n \in Nodes : explicitReservations'[n] # s /\ automaticReservations'[n] # s
    BY <2>0, DeletedReservation, Zenon DEF JInv, WorkerStages
  <2>2. /\ start'[s].pc \in {"unfence", "recoverRefused", "recoverBroken"}
        /\ start'[s].node = start[s].node /\ start'[s].policy = start[s].policy
        /\ start'[s].exec = start[s].exec
        /\ Holds(start'[s]) => Holds(start[s])
        /\ \A q \in Starts : q # s => start'[q] = start[q]
    <3>1. CASE start[s].pc = "launched"
      <4>1. start' = [start EXCEPT ![s].pc = "unfence"]
        BY <1>8, <3>1, Zenon DEF ReleaseReservation
      <4> QED BY <1>0, <4>1, PcChange, Zenon DEF Holds
    <3>2. CASE start[s].pc # "launched"
      <4> DEFINE r == [start[s] EXCEPT !.pc = AfterAdmit(s), !.lease = Released(s)]
      <4>1. start' = [start EXCEPT ![s] = r]
        BY <1>8, <3>2, Zenon DEF ReleaseReservation
      <4>2. /\ r.node = start[s].node /\ r.exec = start[s].exec /\ r.policy = start[s].policy
            /\ r.pc = AfterAdmit(s) /\ r.lease = Released(s)
        BY <1>0, Zenon DEF StartRecord
      <4>3. AfterAdmit(s) \in {"recoverRefused", "recoverBroken", "unfence"}
        BY Zenon DEF AfterAdmit
      <4>4. Released(s) \notin {"reservation", "live"}
        BY Zenon DEF Released
      <4> HIDE DEF r
      <4>5. start'[s] = r /\ \A q \in Starts : q # s => start'[q] = start[q]
        BY <1>0, <4>1, OneChange, Zenon
      <4> QED BY <4>2, <4>3, <4>4, <4>5, Zenon DEF Holds
    <3> QED BY <3>1, <3>2, Zenon
  <2>3. Moves(s) /\ Executes(s)
    BY <2>0, <2>1, <2>2, Zenon DEF Moves, Proceeds, Executes, WorkerStages
  <2>4. ~Automatic(s) => capacity' = capacity
    <3>1. ~Automatic(s) => ~Holds(start[s])
      BY Zenon DEF Automatic, JInv, QueuesOK, Policed
    <3> QED BY <1>8, <3>1, Zenon DEF ReleaseReservation, ReleaseCapacity, Holds
  <2>5. Roused
    BY <2>0, <2>4, Zenon DEF Roused, Closed
  <2>6. QuietVars
    BY <2>0, <2>1, <2>5, Zenon DEF QuietVars, QuietQueueing, QuietFencing
  <2> QED BY <2>2, <2>3, <2>6, QuietOne, Zenon
<1>9. CASE RecoverStart(s)
  <2>1. /\ start[s].pc \in {"recoverRefused", "recoverBroken"}
        /\ UNCHANGED start \/ start' = [start EXCEPT ![s].pc = "unfence"]
        /\ UNCHANGED <<queues, reservations, admissionWorkers, capacity, worker, closing,
                       fences, cleanup>>
        /\ UNCHANGED alive \/ alive' = FALSE
        /\ UNCHANGED used \/ Spend("fault")
        /\ Closed => UNCHANGED durable
    BY <1>9, Zenon DEF RecoverStart, Closed, ClosedOrClosing
  <2>2. used'["timeout"] = 0 => used["timeout"] = 0
    BY <2>1, TimeoutsKept, Zenon DEF Operations
  <2>3. Roused
    BY <2>1, Zenon DEF Roused
  <2>4. QuietVars
    BY <2>1, <2>2, <2>3, Zenon DEF QuietVars, QuietQueueing, QuietFencing, Shrinks
  <2>5. CASE UNCHANGED start
    BY <2>4, <2>5, QuietNone, Zenon
  <2>6. CASE start' = [start EXCEPT ![s].pc = "unfence"]
    <3>1. Moves(s) /\ Executes(s) /\ \A q \in Starts : q # s => start'[q] = start[q]
      BY <1>0, <2>1, <2>6, NextStage DEF Reserving, WorkerStages
    <3> QED BY <2>4, <3>1, QuietOne, Zenon
  <2> QED BY <2>1, <2>5, <2>6, Zenon
<1>10. CASE Unfence(s)
  <2>1. Moves(s) /\ Executes(s) /\ \A q \in Starts : q # s => start'[q] = start[q]
    BY <1>0, <1>10, NextStage, Zenon DEF Unfence, Reserving, WorkerStages
  <2>2. QuietVars
    BY <1>10, Zenon DEF Unfence, QuietVars, QuietQueueing, QuietFencing, Shrinks, Roused
  <2> QED BY <2>1, <2>2, QuietOne, Zenon
<1>11. CASE FinishWorker(s)
  BY <1>11, FinishWorkerOrders, Zenon
<1> QED
  BY <1>1, <1>2, <1>3, <1>4, <1>5, <1>6, <1>7, <1>8, <1>9, <1>10, <1>11 DEF AdmissionStep

-------------------------------------------------------------------------------
(* The worker loop. *)

\* A taken start leaves its queue, and becomes the registered worker and the holder
\* of the reservation of its Node.
LEMMA TakeOrders ==
  ASSUME IInv, QueuesOK, NEW s \in Starts, NEW n \in Nodes, start[s].node = n,
         start[s].pc \in QueueStages,
         start'[s].pc = "prepare", start'[s].node = n, start'[s].policy = start[s].policy,
         Holds(start'[s]) => start[s].policy # "explicit",
         \A q \in Starts : q # s => start'[q] = start[q],
         explicitQueued' = explicitQueued \ {n}, queued' = queued \ {n},
         admissionWorkers' = [admissionWorkers EXCEPT ![n] = s],
         \/ /\ start[s].policy = "explicit" /\ UNCHANGED automaticReservations
            /\ explicitReservations' = [explicitReservations EXCEPT ![n] = s]
         \/ /\ start[s].policy # "explicit" /\ UNCHANGED explicitReservations
            /\ automaticReservations' = [automaticReservations EXCEPT ![n] = s]
  PROVE  QueuesOK'
<1>0. /\ explicitReservations \in [Nodes -> Starts \cup {None}]
      /\ automaticReservations \in [Nodes -> Starts \cup {None}]
      /\ admissionWorkers \in [Nodes -> Starts \cup {None}]
      /\ explicitQueued \subseteq Nodes /\ queued \subseteq Nodes
      /\ \A q \in Starts : start[q].pc \in QueueStages => start[q].node \in Nodes
  BY Zenon DEF IInv, TypeOK, StartsOK, WellFormed, QueueStages
<1>1. /\ explicitReservations[n] = None /\ automaticReservations[n] = None
      /\ \A q \in Starts : start[q].pc \in QueueStages /\ start[q].node = n => q = s
  BY DEF QueuesOK, QueuedOnce
<1>2. \A q \in Starts : Policed(start'[q])
  BY Zenon DEF QueuesOK, Policed
<1>3. /\ explicitReservations'[n] = s <=> start[s].policy = "explicit"
      /\ automaticReservations'[n] = s <=> start[s].policy # "explicit"
      /\ explicitReservations'[n] \in {s, None} /\ automaticReservations'[n] \in {s, None}
  BY <1>0, <1>1, ControllerAssumption
<1>4. \A m \in Nodes : m # n => /\ explicitReservations'[m] = explicitReservations[m]
                                /\ automaticReservations'[m] = automaticReservations[m]
                                /\ admissionWorkers'[m] = admissionWorkers[m]
  BY <1>0, Zenon
<1>5. admissionWorkers'[n] = s
  BY <1>0, Zenon
<1>6. \A q \in Starts : start'[q].pc \in QueueStages =>
        q # s /\ start'[q] = start[q] /\ start[q].node # n /\ start[q].node \in Nodes
  BY <1>0, <1>1, Zenon DEF QueueStages
<1>7. QueuedOnce'
  <2>1. /\ \A q \in Starts : start'[q].pc = "explicit" => start'[q].node \in explicitQueued'
        /\ \A q \in Starts : start'[q].pc = "automatic" => start'[q].node \in queued'
    BY <1>6 DEF QueuesOK, QueuedOnce, QueueStages
  <2>2. \A m \in explicitQueued' : \E q \in Starts : start'[q].pc = "explicit" /\ start'[q].node = m
    BY DEF QueuesOK, QueuedOnce
  <2>3. \A m \in queued' : \E q \in Starts : start'[q].pc = "automatic" /\ start'[q].node = m
    BY DEF QueuesOK, QueuedOnce
  <2>4. \A r, q \in Starts : /\ start'[r].pc \in QueueStages /\ start'[q].pc \in QueueStages
                             /\ start'[r].node = start'[q].node
                             => r = q
    BY <1>6 DEF QueuesOK, QueuedOnce
  <2>5. \A q \in Starts : start'[q].pc \in QueueStages =>
          /\ explicitReservations'[start'[q].node] = None
          /\ automaticReservations'[start'[q].node] = None
    BY <1>4, <1>6 DEF QueuesOK, QueuedOnce
  <2> QED BY <2>1, <2>2, <2>3, <2>4, <2>5, Zenon DEF QueuedOnce
<1>8. WorkersRegistered'
  <2> SUFFICES ASSUME NEW m \in Nodes, NEW q \in Starts, admissionWorkers'[m] = q
               PROVE  start'[q].node = m /\ start'[q].pc \in WorkerStages
    BY Zenon DEF WorkersRegistered
  <2>1. CASE m = n
    BY <1>5, <2>1, Zenon DEF WorkerStages
  <2>2. CASE m # n
    <3>1. start[q].node = m /\ start[q].pc \in WorkerStages
      BY <1>4, <2>2, Zenon DEF QueuesOK, WorkersRegistered
    <3> QED BY <2>2, <3>1, Zenon
  <2> QED BY <2>1, <2>2, Zenon
<1>9. ReservationsHeld'
  <2> SUFFICES ASSUME NEW m \in Nodes, NEW q \in Starts
               PROVE  /\ explicitReservations'[m] = q =>
                           ReservedFor(m, q)' /\ start'[q].policy = "explicit"
                      /\ automaticReservations'[m] = q =>
                           ReservedFor(m, q)' /\ start'[q].policy # "explicit"
    BY Zenon DEF ReservationsHeld
  <2>1. CASE m = n
    <3>1. explicitReservations'[m] = q \/ automaticReservations'[m] = q => q = s
      BY <1>3, <2>1, ControllerAssumption, Zenon
    <3>2. ReservedFor(n, s)'
      BY <1>5, Zenon DEF ReservedFor, Reserving
    <3> QED BY <1>3, <2>1, <3>1, <3>2, Zenon
  <2>2. CASE m # n
    <3>1. explicitReservations'[m] = explicitReservations[m]
          /\ automaticReservations'[m] = automaticReservations[m]
      BY <1>4, <2>2, Zenon
    <3>2. ASSUME ReservedFor(m, q)
          PROVE  ReservedFor(m, q)' /\ start'[q] = start[q]
      BY <1>4, <2>2, <3>2, Zenon DEF ReservedFor
    <3> QED BY <3>1, <3>2 DEF QueuesOK, ReservationsHeld
  <2> QED BY <2>1, <2>2, Zenon
<1> QED BY <1>2, <1>7, <1>8, <1>9, Zenon DEF QueuesOK

\* Every step of the worker loop keeps the invariant: it waits only after it has
\* found both queues empty or at their limits.
LEMMA LoopStepOrders ==
  ASSUME IInv, JInv, LoopStep, InFlightExplicit \in Nat
  PROVE  JInv' /\ Frozen
<1>0. StartsOK
  BY Zenon DEF IInv
<1>1. ASSUME UNCHANGED <<durable, start, explicitQueued, queued, reservations, admissionWorkers,
                         closer, cleanup, fences, used>>,
             loop # "stopped", WakeOK'
      PROVE  JInv' /\ Frozen
  <2>1. \A q \in Starts : Moves(q) /\ Executes(q)
    BY <1>1, Untouched, Zenon
  <2>2. \A q \in Starts : KeepsClosed(q)
    BY <2>1, MovesKeepPlace, Zenon
  <2>3. QueuesOK'
    BY <1>1, <2>1, QuietQueues, Zenon DEF JInv, Shrinks
  <2>4. OneScopePerNode'
    BY <2>1, QuietScopes, Zenon DEF JInv
  <2>5. FencesOK'
    BY <1>1, QuietFences, Zenon DEF JInv, QuietFencing
  <2>6. CloseOK'
    BY <1>1, <2>2, QuietClose, Zenon DEF JInv
  <2>7. Frozen
    BY <1>1, <2>1, NoLaunch, Zenon DEF Frozen
  <2> QED BY <1>1, <2>3, <2>4, <2>5, <2>6, <2>7, Zenon DEF JInv
<1>2. CASE ReceiveWake
  <2>1. WakeOK'
    BY <1>2, Zenon DEF ReceiveWake, WakeOK
  <2> QED BY <1>1, <1>2, <2>1, Zenon DEF ReceiveWake
<1>3. ASSUME NEW s \in Starts, NEW n \in Nodes, start[s].node = n,
             start[s].pc \in QueueStages, loop # "stopped", loop' = "explicit",
             start'[s].exec = start[s].exec, start'[s].node = n, start'[s].pc = "prepare",
             \A q \in Starts : q # s => start'[q] = start[q],
             UNCHANGED <<durable, closer, cleanup, fences, used>>, QueuesOK'
      PROVE  JInv' /\ Frozen
  <2>1. \A q \in Starts : Executes(q)
    BY <1>3, Zenon DEF Executes
  <2>2. OneScopePerNode'
    BY <2>1, QuietScopes, Zenon DEF JInv
  <2>3. FencesOK'
    BY <1>3, QuietFences, Zenon DEF JInv, QuietFencing
  <2>4. CloseOK'
    <3>1. closer # "done"
      BY <1>3, Zenon DEF JInv, CloseOK
    <3>2. \A q \in Starts : KeepsClosed(q)
      BY <1>3, <3>1, Zenon DEF KeepsClosed, Waiting, QueueStages
    <3> QED BY <1>3, <3>2, QuietClose, Zenon DEF JInv
  <2>5. WakeOK'
    BY <1>3, Zenon DEF WakeOK
  <2>6. Frozen
    BY <1>3, <2>1, NoLaunch, Zenon DEF Frozen
  <2> QED BY <1>3, <2>2, <2>3, <2>4, <2>5, <2>6, Zenon DEF JInv
<1>4. CASE TakeExplicit
  <2>1. CASE Closed \/ InFlightExplicit >= ExplicitConcurrency \/ Queue("explicit") = {}
    <3>1. /\ loop = "explicit" /\ loop' = "automatic"
          /\ UNCHANGED <<durable, start, explicitQueued, queued, reservations, admissionWorkers,
                         capacity, wake, closer, cleanup, fences, alive, used>>
      BY <1>4, <2>1, Zenon DEF TakeExplicit
    <3>2. InFlightExplicit \in Nat /\ ExplicitConcurrency \in Nat
      BY ControllerAssumption, Zenon
    <3>3. Closed \/ ~ExplicitTakeable
      BY <2>1, <3>2 DEF ExplicitTakeable
    <3>4. ExplicitTakeable' <=> ExplicitTakeable
      BY <3>1, Zenon DEF ExplicitTakeable, Queue, InFlightExplicit
    <3>5. WakeOK'
      BY <3>1, <3>3, <3>4, Zenon DEF WakeOK, Closed
    <3> QED BY <1>1, <3>1, <3>5, Zenon
  <2>2. ASSUME NEW s \in Earliest(Queue("explicit")),
               start' = [start EXCEPT ![s].pc = "prepare"],
               explicitQueued' = explicitQueued \ {start[s].node},
               explicitReservations' = [explicitReservations EXCEPT ![start[s].node] = s],
               admissionWorkers' = [admissionWorkers EXCEPT ![start[s].node] = s],
               UNCHANGED <<durable, automaticReservations, queued, loop, closer, cleanup, fences,
                           used>>,
               loop = "explicit"
        PROVE  JInv' /\ Frozen
    <3>1. s \in Starts /\ start[s].pc = "explicit"
      BY <2>2, Zenon DEF Earliest, Queue
    <3>2. start[s].node \in Nodes /\ ~Holds(start[s])
      BY <3>1, Zenon DEF IInv, StartsOK, WellFormed, Unlaunched, Admitting, QueueStages
    <3>3. start[s].policy = "explicit"
      BY <3>1, Zenon DEF JInv, QueuesOK, Policed
    <3>4. /\ start'[s].pc = "prepare" /\ start'[s].node = start[s].node
          /\ start'[s].policy = start[s].policy /\ start'[s].exec = start[s].exec
          /\ start'[s].lease = start[s].lease
          /\ \A q \in Starts : q # s => start'[q] = start[q]
      BY <1>0, <2>2, <3>1, PcChange, Zenon
    <3>5. queued' = queued \ {start[s].node}
      BY <2>2, <3>1 DEF JInv, QueuesOK, QueuedOnce, QueueStages
    <3>6. ~Holds(start'[s])
      BY <3>2, <3>4, Zenon DEF Holds
    <3>7. QueuesOK'
      BY <2>2, <3>1, <3>2, <3>3, <3>4, <3>5, <3>6, TakeOrders, Zenon DEF JInv, QueueStages
    <3> QED BY <1>3, <2>2, <3>1, <3>2, <3>4, <3>7 DEF QueueStages
  <2> QED BY <1>4, <2>1, <2>2, Zenon DEF TakeExplicit
<1>5. CASE TakeAutomatic
  <2>1. CASE Closed \/ Eligible = {}
    <3>1. /\ loop = "automatic" /\ loop' = "parked"
          /\ UNCHANGED <<durable, start, explicitQueued, queued, reservations, admissionWorkers,
                         capacity, wake, closer, cleanup, fences, alive, used>>
      BY <1>5, <2>1, Zenon DEF TakeAutomatic
    <3>2. (ExplicitTakeable' <=> ExplicitTakeable) /\ Eligible' = Eligible
      BY <3>1, Zenon DEF ExplicitTakeable, Queue, InFlightExplicit, Eligible, AgentAvailable
    <3>3. WakeOK'
      BY <2>1, <3>1, <3>2, Zenon DEF JInv, WakeOK, Closed
    <3> QED BY <1>1, <3>1, <3>3, Zenon
  <2>2. ASSUME NEW s \in SelectEntry,
               start' = [start EXCEPT ![s].pc = "prepare",
                                      ![s].lease = IF start[s].policy = "agent" THEN "reservation" ELSE "none"],
               queued' = queued \ {start[s].node},
               automaticReservations' = [automaticReservations EXCEPT ![start[s].node] = s],
               admissionWorkers' = [admissionWorkers EXCEPT ![start[s].node] = s],
               UNCHANGED <<durable, explicitReservations, explicitQueued, closer, cleanup, fences,
                           used>>,
               loop = "automatic", loop' = "explicit"
        PROVE  JInv' /\ Frozen
    <3>1. s \in Starts /\ start[s].pc = "automatic"
      BY <2>2, Zenon DEF SelectEntry, Earliest, Eligible, Queue
    <3>2. start[s].node \in Nodes /\ start[s] \in StartRecord
      BY <3>1, Zenon DEF IInv, StartsOK, WellFormed
    <3>3. start[s].policy # "explicit"
      BY <3>1, Zenon DEF JInv, QueuesOK, Policed
    <3> DEFINE r == [start[s] EXCEPT !.pc = "prepare",
                          !.lease = IF start[s].policy = "agent" THEN "reservation" ELSE "none"]
    <3>4. start' = [start EXCEPT ![s] = r]
      BY <2>2, Zenon
    <3>5. /\ r.pc = "prepare" /\ r.node = start[s].node /\ r.exec = start[s].exec
          /\ r.policy = start[s].policy
      BY <3>2, Zenon DEF StartRecord
    <3> HIDE DEF r
    <3>6. start'[s] = r /\ \A q \in Starts : q # s => start'[q] = start[q]
      BY <1>0, <3>1, <3>4, OneChange, Zenon
    <3>7. explicitQueued' = explicitQueued \ {start[s].node}
      BY <2>2, <3>1 DEF JInv, QueuesOK, QueuedOnce, QueueStages
    <3>8. QueuesOK'
      BY <2>2, <3>1, <3>2, <3>3, <3>5, <3>6, <3>7, TakeOrders, Zenon DEF JInv, QueueStages
    <3> QED BY <1>3, <2>2, <3>1, <3>2, <3>5, <3>6, <3>8, Zenon DEF QueueStages
  <2> QED BY <1>5, <2>1, <2>2, Zenon DEF TakeAutomatic
<1>6. CASE StopLoop
  <2>1. WakeOK'
    BY <1>6, Zenon DEF StopLoop, WakeOK, ClosedOrClosing
  <2> QED BY <1>1, <1>6, <2>1, Zenon DEF StopLoop
<1> QED BY <1>2, <1>4, <1>5, <1>6, Zenon DEF LoopStep

-------------------------------------------------------------------------------
(* Executions. *)

\* An execution goes on to its next stage, and nothing else happens to its start.
LEMMA NextExecution ==
  ASSUME IInv, JInv, QuietVars, NEW s \in Starts, NEW x, start' = [start EXCEPT ![s].exec = x],
         \/ /\ start[s].exec \in {"running", "continue", "fail", "finalizing"}
            /\ x \in {"finalizing", "continue", "fail", "end"}
            /\ start[s].exec = "finalizing" => ~Agent(s)
         \/ start[s].exec \in {"end", "cleaned"} /\ x \in {"cleaned", "retired"}
  PROVE  JInv' /\ Frozen
<1>1. /\ start'[s].exec = x /\ start'[s].node = start[s].node
      /\ start'[s].policy = start[s].policy /\ start'[s].pc = start[s].pc
      /\ start'[s].lease = start[s].lease
      /\ \A q \in Starts : q # s => start'[q] = start[q]
  BY ExecChange, Zenon DEF IInv
<1>2. Moves(s)
  BY <1>1, Zenon DEF Moves, Stays, Holds
<1>3. Executes(s)
  BY <1>1, Zenon DEF Executes, Onward
<1> QED BY <1>1, <1>2, <1>3, QuietOne, Zenon

\* A completion sets its successors' starts aside.
LEMMA CompleteOrders ==
  ASSUME IInv, JInv, NEW s \in Starts, NEW e \in Edges, Complete(s, e)
  PROVE  JInv' /\ Frozen
<1> DEFINE n == start[s].node
           f == Allocation(e.to)
           r == [NoStart EXCEPT !.pc = "held", !.parent = n]
           st == WithStarts(f, r)
           g == [q \in Starts |->
                  IF q = s THEN [st[q] EXCEPT !.exec = "continue"]
                  ELSE IF q \in Allocated(f)
                       THEN [st[q] EXCEPT !.policy = AutomaticPolicy(st[q].node)]
                       ELSE st[q]]
<1>0. start[s] \in StartRecord /\ WellFormed(start[s])
  BY Zenon DEF IInv, StartsOK
<1>1. start[s].exec \in {"running", "finalizing"} /\ (start[s].exec = "finalizing" => ~Agent(s))
      /\ ~Closed
  BY Zenon DEF Complete, CompletionAllowed
<1>2. n \in Nodes
  BY <1>0, <1>1, Zenon DEF WellFormed, Unlaunched
<1>3. e.to \in SUBSET Nodes /\ Allocations(e.to) # {}
  BY ControllerAssumption, Zenon DEF Complete
<1>4. r \in StartRecord /\ r.pc = "held" /\ r.exec = "none" /\ ~Holds(r)
  BY <1>2, Zenon DEF NoStart, StartRecord, Holds, StartStages, Policies, Leases, ExecutionStages
<1>5. start' = g
  BY Zenon DEF Complete
<1>6. QuietVars
  BY <1>1, Zenon DEF Complete, QuietVars, QuietQueueing, QuietFencing, Shrinks, Roused
<1> HIDE DEF r
<1>7. /\ \A q \in Allocated(f) :
           /\ q \in Starts /\ start[q].pc = "free" /\ start[q].exec = "none"
           /\ st[q] \in StartRecord /\ st[q].pc = "held" /\ st[q].exec = "none"
           /\ st[q].lease = r.lease
  BY <1>3, <1>4, WithStartsShape
<1>8. \A q \in Starts \ Allocated(f) : st[q] = start[q]
  BY WithStartsElse, Zenon
<1> HIDE DEF st, f
<1>9. ASSUME NEW q \in Starts
      PROVE  Moves(q) /\ Executes(q)
  <2>1. CASE q = s
    <3>1. g[q] = [start[s] EXCEPT !.exec = "continue"]
      BY <1>1, <1>7, <1>8, <2>1, Zenon
    <3> HIDE DEF g
    <3>2. /\ start'[q].exec = "continue" /\ start'[q].pc = start[s].pc
          /\ start'[q].node = start[s].node /\ start'[q].lease = start[s].lease
          /\ start'[q].policy = start[s].policy
      BY <1>0, <1>5, <3>1, Zenon DEF StartRecord
    <3> QED BY <1>1, <2>1, <3>2, Zenon DEF Moves, Stays, Holds, Executes, Onward
  <2>2. CASE q # s /\ q \in Allocated(f)
    <3>1. g[q] = [st[q] EXCEPT !.policy = AutomaticPolicy(st[q].node)]
      BY <2>2, Zenon
    <3> HIDE DEF g
    <3>2. AutomaticPolicy(st[q].node) # "explicit"
      BY Zenon DEF AutomaticPolicy
    <3>3. /\ start'[q].exec = "none" /\ start'[q].pc = "held"
          /\ start'[q].policy # "explicit" /\ start'[q].lease = r.lease
      BY <1>5, <1>7, <2>2, <3>1, <3>2 DEF StartRecord
    <3>4. Aside(q)
      BY <1>4, <1>7, <2>2, <3>3, Zenon DEF Aside, Passive, Policed, Holds
    <3> QED BY <3>3, <3>4, Zenon DEF Moves, Executes
  <2>3. CASE q # s /\ q \notin Allocated(f)
    <3>1. g[q] = start[q]
      BY <1>8, <2>3, Zenon
    <3> HIDE DEF g
    <3> QED BY <1>5, <3>1, Untouched, Zenon
  <2> QED BY <2>1, <2>2, <2>3, Zenon
<1> QED BY <1>6, <1>9, Quiet, Zenon

\* Continue queues the successors, or drops them once the controller is closed.
LEMMA ContinueOrders ==
  ASSUME IInv, JInv, NEW s \in Starts, Continue(s)
  PROVE  JInv' /\ Frozen
<1> DEFINE st == [start EXCEPT ![s].exec = "end"]
           H == Held(s)
<1>0. start \in [Starts -> StartRecord] /\ \A q \in Starts : WellFormed(start[q])
  BY Zenon DEF IInv, StartsOK
<1>1. start[s].exec = "continue"
      /\ UNCHANGED <<durable, reservations, admissionWorkers, capacity, loop, closing,
                     fences, cleanup, alive, used>>
  BY Zenon DEF Continue
<1>2. \A q \in H : /\ q \in Starts /\ start[q].pc = "held" /\ start[q].exec = "none"
                   /\ ~Holds(start[q]) /\ start[q].node \in Nodes
                   /\ start[q].policy # "explicit"
  BY <1>0, Zenon DEF Held, WellFormed, Unlaunched, Admitting, QueueStages, JInv, QueuesOK, Policed
<1>3. s \notin H
  BY <1>1, <1>2, Zenon
<1>4. /\ \A q \in Starts : q # s => st[q] = start[q]
      /\ st[s] = [start[s] EXCEPT !.exec = "end"]
  BY <1>0, Zenon
<1>5. CASE Closed
  <2>1. start' = [r \in Starts |-> IF r \in H THEN NoStart ELSE st[r]] /\ UNCHANGED queues
    BY <1>5, Zenon DEF Continue
  <2>2. QuietVars
    BY <1>1, <1>5, <2>1, Zenon DEF QuietVars, QuietQueueing, QuietFencing, Shrinks, Roused, Closed
  <2> HIDE DEF st, H
  <2>3. /\ \A q \in H : start'[q] = NoStart
        /\ start'[s] = [start[s] EXCEPT !.exec = "end"]
        /\ \A q \in Starts : q \in H \/ q = s \/ start'[q] = start[q]
    BY <1>2, <1>3, <1>4, <2>1, Zenon
  <2> DEFINE E == {s}
  <2>4. /\ H \in SUBSET Starts /\ E \in SUBSET Starts
        /\ \A q \in E : start[q].exec = "continue" /\ start'[q] = [start[q] EXCEPT !.exec = "end"]
        /\ \A q \in Starts : q \in H \/ q \in E \/ start'[q] = start[q]
    BY <1>1, <1>2, <2>3, Zenon
  <2> HIDE DEF E
  <2>5. \A q \in H : start[q].pc \in {"held", "approved"} /\ start'[q] = NoStart
    BY <1>2, <2>3, Zenon
  <2> QED BY <2>2, <2>4, <2>5, DropAside, Zenon
<1>6. CASE ~Closed
  <2>1. Enqueue(st, H, "automatic") /\ wake'
    BY <1>6, Zenon DEF Continue
  <2>2. /\ st[s].pc = start[s].pc /\ st[s].node = start[s].node /\ st[s].exec = "end"
        /\ st[s].policy = start[s].policy /\ st[s].lease = start[s].lease
    <3> HIDE DEF st
    <3> QED BY <1>0, <1>4 DEF StartRecord
  <2>3. st \in [Starts -> StartRecord]
    <3>1. [start[s] EXCEPT !.exec = "end"] \in StartRecord
      BY <1>0 DEF StartRecord, ExecutionStages
    <3> QED BY <1>0, <3>1, Zenon
  <2> HIDE DEF st, H
  <2>4. Prepared(st, H, "automatic")
    <3>1. \A q \in Starts \ H :
            /\ st[q].pc = start[q].pc /\ st[q].node = start[q].node
            /\ st[q].policy = start[q].policy /\ st[q].lease = start[q].lease
            /\ \/ st[q].exec = start[q].exec
               \/ start[q].exec = "continue" /\ st[q].exec = "end"
      BY <1>1, <1>4, <2>2, Zenon
    <3>2. \A q \in H : /\ start[q].pc \in Passive
                       /\ st[q].node \in Nodes /\ st[q].exec = "none" /\ ~Holds(st[q])
                       /\ st[q].policy # "explicit"
      BY <1>2, <1>3, <1>4, Zenon DEF Passive
    <3> QED BY <1>2, <2>3, <3>1, <3>2, Zenon DEF Prepared
  <2>5. QuietFencing
    BY <1>1, Zenon DEF QuietFencing
  <2> QED BY <1>1, <1>6, <2>1, <2>4, <2>5, EnqueueStep DEF QueueStages
<1> QED BY <1>5, <1>6, Zenon

\* The scope's capacity goes back with a token for the worker.
LEMMA DoneOrders ==
  ASSUME IInv, JInv, NEW s \in Starts, Done(s)
  PROVE  JInv' /\ Frozen
<1> DEFINE r == IF start[s].pc = "done" THEN NoStart
                ELSE [start[s] EXCEPT !.exec = "none", !.lease = Released(s)]
<1>0. start[s] \in StartRecord
  BY Zenon DEF IInv, StartsOK
<1>1. /\ start' = [start EXCEPT ![s] = r] /\ ReleaseCapacity(s)
      /\ wake' = (wake \/ (start[s].lease # "none" /\ ~ClosedOrClosing))
      /\ UNCHANGED <<durable, queues, reservations, admissionWorkers, loop, closing, fences,
                     cleanup, alive, used>>
  BY Zenon DEF Done
<1>2. start[s].lease = "none" => capacity' = capacity
  BY <1>1, Zenon DEF ReleaseCapacity
<1>3. QuietVars
  BY <1>1, <1>2, Zenon DEF QuietVars, QuietQueueing, QuietFencing, Shrinks, Roused, ClosedOrClosing
<1>4. CASE start[s].pc = "done"
  <2>1. r = NoStart
    BY <1>4, Zenon
  <2> HIDE DEF r
  <2>2. start'[s] = NoStart /\ \A q \in Starts : q # s => start'[q] = start[q]
    BY <1>1, <2>1, OneChange, Zenon DEF IInv
  <2>3. start'[s].pc = "free" /\ start'[s].exec = "none" /\ ~Holds(start'[s])
    BY <2>2, NothingThere DEF NoStart
  <2>4. Moves(s) /\ Executes(s)
    BY <1>4, <2>3, Zenon DEF Moves, Aside, Policed, Passive, Executes
  <2> QED BY <1>3, <2>2, <2>4, QuietOne, Zenon
<1>5. CASE start[s].pc # "done"
  <2>1. r = [start[s] EXCEPT !.exec = "none", !.lease = Released(s)]
    BY <1>5, Zenon
  <2>2. /\ r.pc = start[s].pc /\ r.node = start[s].node /\ r.policy = start[s].policy
        /\ r.exec = "none" /\ r.lease = Released(s)
    <3> HIDE DEF r
    <3> QED BY <1>0, <2>1, Zenon DEF StartRecord
  <2> HIDE DEF r
  <2>3. start'[s] = r /\ \A q \in Starts : q # s => start'[q] = start[q]
    BY <1>1, OneChange, Zenon DEF IInv
  <2>4. ~Holds(r)
    BY <2>2, Zenon DEF Holds, Released
  <2>5. Moves(s) /\ Executes(s)
    BY <2>2, <2>3, <2>4, Zenon DEF Moves, Stays, Executes
  <2> QED BY <1>3, <2>3, <2>5, QuietOne, Zenon
<1> QED BY <1>4, <1>5, Zenon

\* Every step of an execution keeps the invariant.
LEMMA ExecutionStepOrders ==
  ASSUME IInv, JInv, NEW s \in Starts, ExecutionStep(s)
  PROVE  JInv' /\ Frozen
<1>1. CASE TurnEnds(s)
  <2>1. QuietVars
    BY <1>1, Zenon DEF TurnEnds, QuietVars, QuietQueueing, QuietFencing, Shrinks, Roused
  <2> QED BY <1>1, <2>1, NextExecution, Zenon DEF TurnEnds
<1>2. CASE ScriptExits(s)
  <2>1. QuietVars
    BY <1>2, Zenon DEF ScriptExits, QuietVars, QuietQueueing, QuietFencing, Shrinks, Roused
  <2> QED BY <1>2, <2>1, NextExecution, Zenon DEF ScriptExits
<1>3. ASSUME NEW e \in Edges, CompleteForApproval(s, e)
      PROVE  JInv' /\ Frozen
  <2>1. QuietVars
    BY <1>3, Zenon DEF CompleteForApproval, CompletionAllowed, QuietVars, QuietQueueing, QuietFencing,
                Shrinks, Roused
  <2> QED BY <1>3, <2>1, NextExecution, Zenon DEF CompleteForApproval, CompletionAllowed
<1>4. CASE CompletionRefused(s)
  <2>1. used'["timeout"] = 0 => used["timeout"] = 0
    BY <1>4, TimeoutsKept, Zenon DEF CompletionRefused, Operations
  <2>2. QuietVars
    BY <1>4, <2>1 DEF CompletionRefused, QuietVars, QuietQueueing, QuietFencing, Shrinks, Roused
  <2> QED BY <1>4, <2>2, NextExecution, Zenon DEF CompletionRefused
<1>5. CASE ContinueFails(s)
  <2> DEFINE H == Held(s)
  <2>0. start[s].exec = "continue" /\ start[s] \in StartRecord
    BY <1>5, Zenon DEF ContinueFails, IInv, StartsOK
  <2>1. used'["timeout"] = 0 => used["timeout"] = 0
    BY <1>5, TimeoutsKept, Zenon DEF ContinueFails, Operations
  <2>2. \A q \in H : q \in Starts /\ start[q].pc = "held" /\ start[q].exec = "none"
    BY Zenon DEF Held, IInv, StartsOK, WellFormed, Unlaunched
  <2>3. /\ Closed => UNCHANGED sched
        /\ alive' => alive
        /\ UNCHANGED <<approval, backlog, queues, reservations, admissionWorkers, capacity,
                       worker, closing, fences, cleanup>>
    BY <1>5 DEF ContinueFails
  <2>4. QuietVars
    BY <2>1, <2>3, Zenon DEF QuietVars, QuietQueueing, QuietFencing, Shrinks, Roused
  <2>5. start' = [r \in Starts |-> IF r \in H THEN NoStart
                                   ELSE IF r = s THEN [start[r] EXCEPT !.exec = "end"]
                                   ELSE start[r]]
    BY <1>5, Zenon DEF ContinueFails
  <2> HIDE DEF H
  <2>6. /\ \A q \in H : start'[q] = NoStart
        /\ start'[s] = [start[s] EXCEPT !.exec = "end"]
        /\ \A q \in Starts : q \in H \/ q = s \/ start'[q] = start[q]
    BY <2>0, <2>2, <2>5, Zenon
  <2> DEFINE E == {s}
  <2>7. /\ H \in SUBSET Starts /\ E \in SUBSET Starts
        /\ \A q \in E : start[q].exec = "continue" /\ start'[q] = [start[q] EXCEPT !.exec = "end"]
        /\ \A q \in Starts : q \in H \/ q \in E \/ start'[q] = start[q]
    BY <2>0, <2>2, <2>6, Zenon
  <2> HIDE DEF E
  <2>8. \A q \in H : start[q].pc \in {"held", "approved"} /\ start'[q] = NoStart
    BY <2>2, <2>6, Zenon
  <2> QED BY <2>4, <2>7, <2>8, DropAside, Zenon
<1>6. CASE FailScope(s)
  <2>1. used'["timeout"] = 0 => used["timeout"] = 0
    BY <1>6, TimeoutsKept, Zenon DEF FailScope, Operations
  <2>2. QuietVars
    BY <1>6, <2>1, Zenon DEF FailScope, MayFail, QuietVars, QuietQueueing, QuietFencing, Shrinks, Roused
  <2> QED BY <1>6, <2>2, NextExecution, Zenon DEF FailScope
<1>7. CASE ViolationCap(s)
  <2>1. used'["timeout"] = 0 => used["timeout"] = 0
    BY <1>7, TimeoutsKept, Zenon DEF ViolationCap, Operations
  <2>2. QuietVars
    BY <1>7, <2>1, Zenon DEF ViolationCap, MayFail, QuietVars, QuietQueueing, QuietFencing, Shrinks, Roused
  <2> DEFINE r == [start[s] EXCEPT !.stop = TRUE]
  <2>3. start' = [start EXCEPT ![s] = r] /\ start[s] \in StartRecord
    BY <1>7, Zenon DEF ViolationCap, IInv, StartsOK
  <2>4. /\ r.pc = start[s].pc /\ r.node = start[s].node /\ r.policy = start[s].policy
        /\ r.exec = start[s].exec /\ r.lease = start[s].lease
    BY <2>3, Zenon DEF StartRecord
  <2> HIDE DEF r
  <2>5. start'[s] = r /\ \A q \in Starts : q # s => start'[q] = start[q]
    BY <2>3, OneChange, Zenon DEF IInv
  <2>6. Moves(s) /\ Executes(s)
    BY <2>4, <2>5, Zenon DEF Moves, Stays, Holds, Executes
  <2> QED BY <2>2, <2>5, <2>6, QuietOne, Zenon
<1>8. CASE CleanUp(s)
  <2>1. QuietVars
    BY <1>8, Zenon DEF CleanUp, QuietVars, QuietQueueing, QuietFencing, Shrinks, Roused
  <2> QED BY <1>8, <2>1, NextExecution, Zenon DEF CleanUp
<1>9. CASE Retire(s)
  <2>1. QuietVars
    BY <1>9, Zenon DEF Retire, QuietVars, QuietQueueing, QuietFencing, Shrinks, Roused
  <2> QED BY <1>9, <2>1, NextExecution, Zenon DEF Retire
<1> QED BY <1>1, <1>2, <1>3, <1>4, <1>5, <1>6, <1>7, <1>8, <1>9,
           CompleteOrders, ContinueOrders, DoneOrders DEF ExecutionStep
===============================================================================
