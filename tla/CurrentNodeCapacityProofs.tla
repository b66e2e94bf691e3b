---------------------- MODULE CurrentNodeCapacityProofs -----------------------
(*****************************************************************************)
(* The worker loop, the admission goroutines, the executions and the         *)
(* interrupts keep IInv: the types and the accounting of the leases.         *)
(* CurrentNodeControllerProofs does the same for operators, Close and        *)
(* restarts.                                                                 *)
(*****************************************************************************)
EXTENDS CurrentNodeInvariant, FiniteSetTheorems, TLAPS

USE DEF durable, queues, reservations, worker, closing, fences, lanes

-------------------------------------------------------------------------------
(* Replacing one record or all of them. *)

\* Replacing the record of one start by a well-formed one that holds a lease
\* exactly when the old one did keeps the leases as they are.
LEMMA UpdateOne ==
  ASSUME StartsOK, NEW s \in Starts, NEW r \in StartRecord, WellFormed(r),
         Holds(r) <=> Holds(start[s]), start' = [start EXCEPT ![s] = r]
  PROVE  StartsOK' /\ Leased' = Leased
<1>1. StartsOK'
  BY Zenon DEF StartsOK
<1>2. Leased' = Leased
  BY Zenon DEF StartsOK, Leased, Holds
<1> QED BY <1>1, <1>2, Zenon

\* The same for a change of many starts at once (a drain, a stop request, an
\* allocation).
LEMMA UpdateAll ==
  ASSUME StartsOK, NEW g, start' = g, g = [q \in Starts |-> g[q]],
         \A q \in Starts : g[q] \in StartRecord /\ WellFormed(g[q]) /\ (Holds(g[q]) <=> Holds(start[q]))
  PROVE  StartsOK' /\ Leased' = Leased
<1>1. StartsOK'
  BY Zenon DEF StartsOK
<1>2. Leased' = Leased
  BY Zenon DEF StartsOK, Leased, Holds
<1> QED BY <1>1, <1>2, Zenon

\* An admission goroutine that goes on to its next stage keeps its lease.
LEMMA UpdatePc ==
  ASSUME StartsOK, NEW s \in Starts, NEW p \in StartStages \ {"free"},
         start[s].pc # "free",
         p \in Unlaunched => start[s].exec = "none",
         Holds(start[s]) => start[s].exec # "none" \/ p \in Admitting,
         start' = [start EXCEPT ![s].pc = p]
  PROVE  StartsOK' /\ Leased' = Leased
<1> DEFINE r == [start[s] EXCEPT !.pc = p]
<1>0. start[s] \in StartRecord /\ WellFormed(start[s])
  BY Zenon DEF StartsOK
<1>1. r \in StartRecord
  BY <1>0, Zenon DEF StartRecord
<1>2. r.pc = p /\ r.exec = start[s].exec /\ r.lease = start[s].lease /\ r.node = start[s].node
  BY <1>0, Zenon DEF StartRecord
<1>3. start' = [start EXCEPT ![s] = r]
  BY Zenon
<1> HIDE DEF r
<1>4. WellFormed(r) /\ (Holds(r) <=> Holds(start[s]))
  BY <1>0, <1>2, Zenon DEF WellFormed, Holds
<1> QED BY <1>1, <1>3, <1>4, UpdateOne, Zenon

\* An execution that goes on to its next stage before `none` keeps its lease.
LEMMA UpdateExec ==
  ASSUME StartsOK, NEW s \in Starts, NEW x \in ExecutionStages \ {"none"},
         start[s].exec # "none",
         start' = [start EXCEPT ![s].exec = x]
  PROVE  StartsOK' /\ Leased' = Leased
<1> DEFINE r == [start[s] EXCEPT !.exec = x]
<1>0. start[s] \in StartRecord /\ WellFormed(start[s])
  BY Zenon DEF StartsOK
<1>1. r \in StartRecord
  BY <1>0, Zenon DEF StartRecord
<1>2. r.exec = x /\ r.pc = start[s].pc /\ r.lease = start[s].lease /\ r.node = start[s].node
  BY <1>0, Zenon DEF StartRecord
<1>3. start' = [start EXCEPT ![s] = r]
  BY Zenon
<1> HIDE DEF r
<1>4. WellFormed(r) /\ (Holds(r) <=> Holds(start[s]))
  BY <1>0, <1>2, Zenon DEF WellFormed, Holds
<1> QED BY <1>1, <1>3, <1>4, UpdateOne, Zenon

\* A start that does not exist is well formed and holds no lease.
LEMMA NoStartOK == NoStart \in StartRecord /\ WellFormed(NoStart) /\ ~Holds(NoStart)
BY Zenon DEF NoStart, StartRecord, WellFormed, Holds, StartStages, Policies, Leases, ExecutionStages

\* releaseAgentCapacityLocked gives back exactly one unit of capacity for a start
\* that held a lease and none for one that did not.
LEMMA ReleaseOne ==
  ASSUME IInv, NEW s \in Starts, NEW r \in StartRecord, WellFormed(r), ~Holds(r),
         start' = [start EXCEPT ![s] = r], ReleaseCapacity(s)
  PROVE  StartsOK' /\ CapacityAccounted' /\ capacity' \in Nat
<1>1. StartsOK'
  BY Zenon DEF IInv, StartsOK
<1>2. Leased' = Leased \ {s}
  BY Zenon DEF IInv, StartsOK, Leased, Holds
<1>3. IsFiniteSet(Leased) /\ Cardinality(Leased) \in Nat
  BY ControllerAssumption, FS_Subset, FS_CardinalityType, Zenon DEF Leased
<1>4. CASE Holds(start[s])
  <2>1. s \in Leased
    BY <1>4, Zenon DEF Leased, Holds
  <2>2. Cardinality(Leased \ {s}) = Cardinality(Leased) - 1
    BY <1>3, <2>1, FS_RemoveElement, Zenon
  <2>3. capacity' = capacity - 1
    BY <1>4, Zenon DEF ReleaseCapacity, Holds
  <2>4. Cardinality(Leased \ {s}) \in Nat
    BY <1>3, FS_RemoveElement, FS_CardinalityType, Zenon
  <2> QED BY <1>1, <1>2, <1>3, <2>2, <2>3, <2>4, ControllerAssumption DEF IInv, CapacityAccounted
<1>5. CASE ~Holds(start[s])
  <2>1. Leased \ {s} = Leased
    BY <1>5, Zenon DEF Leased, Holds
  <2>2. capacity' = capacity
    BY <1>5, Zenon DEF ReleaseCapacity, Holds
  <2> QED BY <1>1, <1>2, <1>3, <2>1, <2>2, Zenon DEF IInv, CapacityAccounted
<1> QED BY <1>4, <1>5, Zenon

\* Counting an operation against its bound keeps the counters' type.
LEMMA SpendOK ==
  ASSUME TypeOK, NEW o \in Operations, Spend(o)
  PROVE  used' \in [Operations -> Nat]
BY DEF TypeOK, Spend

-------------------------------------------------------------------------------
(* The admission goroutines and the worker loop. *)

\* Every step of an admission goroutine keeps the invariant; in particular both
\* ways of failing give the reserved capacity back once.
LEMMA AdmissionStepKeeps ==
  ASSUME IInv, NEW s \in Starts, AdmissionStep(s)
  PROVE  IInv'
<1> USE DEF IInv
<1>0. start \in [Starts -> StartRecord] /\ start[s] \in StartRecord /\ WellFormed(start[s])
  BY Zenon DEF StartsOK
<1>1. CASE PrepareFails(s)
  <2>1. StartsOK' /\ Leased' = Leased
    BY <1>0, <1>1, UpdatePc, Zenon DEF PrepareFails, StartStages, WorkerStages, WellFormed, Unlaunched, Admitting
  <2>2. TypeOK'
    BY <1>1, <2>1 DEF PrepareFails, TypeOK, Spend, StartsOK
  <2> QED BY <1>1, <2>1, <2>2, Zenon DEF PrepareFails, CapacityAccounted
<1>2. CASE AdmissionRefused(s)
  <2>1. StartsOK' /\ Leased' = Leased
    BY <1>0, <1>2, UpdatePc, Zenon DEF AdmissionRefused, StartStages, WorkerStages, WellFormed, Unlaunched, Admitting
  <2>2. TypeOK'
    BY <1>2, <2>1 DEF AdmissionRefused, TypeOK, StartsOK
  <2> QED BY <1>2, <2>1, <2>2, Zenon DEF AdmissionRefused, CapacityAccounted
<1>3. CASE AdmitAgent(s)
  <2> DEFINE r == [start[s] EXCEPT !.pc = IF DurablyAdmitted(s) THEN "starting" ELSE "refused",
                                   !.lease = IF @ = "reservation" THEN "live" ELSE @]
  <2>1. r \in StartRecord
    BY <1>0, ZenonT(60) DEF StartRecord, StartStages, WorkerStages, Leases
  <2>2. start' = [start EXCEPT ![s] = r]
    BY <1>3, Zenon DEF AdmitAgent
  <2>3. /\ r.node = start[s].node /\ r.exec = start[s].exec
        /\ r.pc \in {"starting", "refused"}
        /\ r.lease = IF start[s].lease = "reservation" THEN "live" ELSE start[s].lease
    BY <1>0, Zenon DEF StartRecord
  <2>4. start[s].pc = "prepare"
    BY <1>3, Zenon DEF AdmitAgent
  <2> HIDE DEF r
  <2>5. WellFormed(r) /\ (Holds(r) <=> Holds(start[s]))
    BY <1>0, <2>3, <2>4, Zenon DEF WellFormed, Holds, Unlaunched, Admitting
  <2>6. StartsOK' /\ Leased' = Leased
    BY <2>1, <2>2, <2>5, UpdateOne, Zenon
  <2>7. TypeOK'
    BY <1>3, <2>6 DEF AdmitAgent, TypeOK, StartsOK, DeleteReservation, AdmittedSched, Schedulings
  <2> QED BY <1>3, <2>6, <2>7, Zenon DEF AdmitAgent, CapacityAccounted
<1>4. CASE AdmitScript(s)
  <2>0. start[s].pc = "prepare"
    BY <1>4, Zenon DEF AdmitScript
  <2>1. ASSUME Publishable(s) PROVE StartsOK' /\ Leased' = Leased
    <3> DEFINE r == [start[s] EXCEPT !.pc = "launched", !.exec = "running"]
    <3>1. r \in StartRecord
      BY <1>0 DEF StartRecord, StartStages, WorkerStages, ExecutionStages
    <3>2. start' = [start EXCEPT ![s] = r]
      BY <1>4, <2>1, Zenon DEF AdmitScript
    <3>3. /\ r.node = start[s].node /\ r.lease = start[s].lease
          /\ r.pc = "launched" /\ r.exec = "running"
      BY <1>0, Zenon DEF StartRecord
    <3> HIDE DEF r
    <3>4. WellFormed(r) /\ (Holds(r) <=> Holds(start[s]))
      BY <1>0, <2>0, <3>3, Zenon DEF WellFormed, Holds, Unlaunched, Admitting, QueueStages
    <3> QED BY <3>1, <3>2, <3>4, UpdateOne, Zenon
  <2>2. ASSUME ~Publishable(s) PROVE StartsOK' /\ Leased' = Leased
    <3>1. start' = [start EXCEPT ![s].pc = "refused"]
      BY <1>4, <2>2, Zenon DEF AdmitScript
    <3> QED BY <1>0, <2>0, <3>1, UpdatePc, Zenon DEF StartStages, WorkerStages, WellFormed, Unlaunched, Admitting
  <2>3. StartsOK' /\ Leased' = Leased
    BY <2>1, <2>2, Zenon
  <2>4. TypeOK'
    BY <1>4, <2>3 DEF AdmitScript, TypeOK, StartsOK, DeleteReservation, AdmittedSched, Schedulings
  <2> QED BY <1>4, <2>3, <2>4, Zenon DEF AdmitScript, CapacityAccounted
<1>5. CASE AdmissionIndeterminate(s)
  <2>1. StartsOK' /\ Leased' = Leased
    BY <1>5, Zenon DEF AdmissionIndeterminate, StartsOK, Leased
  <2>2. sched' \in [Nodes -> Schedulings]
    BY <1>5, Zenon DEF AdmissionIndeterminate, TypeOK, AdmittedSched, Schedulings
  <2>3. alive' \in BOOLEAN
    BY <1>5, Zenon DEF AdmissionIndeterminate
  <2>4. used' \in [Operations -> Nat]
    BY <1>5, SpendOK, Zenon DEF AdmissionIndeterminate, Operations
  <2>5. UNCHANGED <<approval, backlog, start, queues, reservations, admissionWorkers,
                    capacity, worker, workerErr, closing, fences, cleanup, lanes>>
    BY <1>5, Zenon DEF AdmissionIndeterminate
  <2>6. TypeOK'
    BY <2>2, <2>3, <2>4, <2>5 DEF TypeOK
  <2> QED BY <1>5, <2>1, <2>6, Zenon DEF AdmissionIndeterminate, CapacityAccounted
<1>6. CASE StartAgent(s)
  <2> DEFINE r == [start[s] EXCEPT !.pc = "launched", !.exec = "running"]
  <2>1. r \in StartRecord
    BY <1>0, Zenon DEF StartRecord, StartStages, WorkerStages, ExecutionStages
  <2>2. start' = [start EXCEPT ![s] = r] /\ start[s].pc = "starting"
    BY <1>6, Zenon DEF StartAgent
  <2>3. /\ r.node = start[s].node /\ r.lease = start[s].lease
        /\ r.pc = "launched" /\ r.exec = "running"
    BY <1>0, Zenon DEF StartRecord
  <2> HIDE DEF r
  <2>4. WellFormed(r) /\ (Holds(r) <=> Holds(start[s]))
    BY <1>0, <2>2, <2>3, Zenon DEF WellFormed, Holds, Unlaunched, Admitting, QueueStages
  <2>5. StartsOK' /\ Leased' = Leased
    BY <2>1, <2>2, <2>4, UpdateOne, Zenon
  <2>6. TypeOK'
    BY <1>6, <2>5 DEF StartAgent, TypeOK, StartsOK
  <2> QED BY <1>6, <2>5, <2>6, Zenon DEF StartAgent, CapacityAccounted
<1>7. CASE StartAgentFails(s)
  <2>1. StartsOK' /\ Leased' = Leased
    BY <1>0, <1>7, UpdatePc, Zenon DEF StartAgentFails, StartStages, WorkerStages, WellFormed, Unlaunched, Admitting
  <2>2. TypeOK'
    BY <1>7, <2>1 DEF StartAgentFails, TypeOK, Spend, StartsOK
  <2> QED BY <1>7, <2>1, <2>2, Zenon DEF StartAgentFails, CapacityAccounted
<1>8. CASE ReleaseReservation(s)
  <2>0. start[s].pc \in {"launched", "dropped", "refused", "broken"}
    BY <1>8, Zenon DEF ReleaseReservation
  <2>1. ASSUME start[s].pc = "launched"
       PROVE StartsOK' /\ CapacityAccounted' /\ capacity' \in Nat
    <3>1. start' = [start EXCEPT ![s].pc = "unfence"] /\ UNCHANGED capacity
      BY <1>8, <2>1, Zenon DEF ReleaseReservation
    <3>2. StartsOK' /\ Leased' = Leased
      BY <1>0, <2>1, <3>1, UpdatePc, Zenon DEF StartStages, WorkerStages, WellFormed, Unlaunched, Admitting, QueueStages
    <3> QED BY <3>1, <3>2, Zenon DEF CapacityAccounted, TypeOK
  <2>2. ASSUME start[s].pc # "launched"
       PROVE StartsOK' /\ CapacityAccounted' /\ capacity' \in Nat
    <3> DEFINE r == [start[s] EXCEPT !.pc = AfterAdmit(s), !.lease = Released(s)]
    <3>0. AfterAdmit(s) \in {"recoverRefused", "recoverBroken", "unfence"}
      BY Zenon DEF AfterAdmit
    <3>1. r \in StartRecord
      BY <1>0, <3>0, ZenonT(60) DEF StartRecord, StartStages, WorkerStages, Leases, Released
    <3>2. start' = [start EXCEPT ![s] = r] /\ ReleaseCapacity(s)
      BY <1>8, <2>2, Zenon DEF ReleaseReservation
    <3>3. /\ r.node = start[s].node /\ r.exec = start[s].exec
          /\ r.pc = AfterAdmit(s) /\ r.lease = Released(s)
      BY <1>0, Zenon DEF StartRecord
    <3> HIDE DEF r
    <3>4. WellFormed(r) /\ ~Holds(r)
      BY <1>0, <2>0, <3>0, <3>3, Zenon DEF WellFormed, Holds, Unlaunched, Admitting, QueueStages, Released
    <3> QED BY <3>1, <3>2, <3>4, ReleaseOne, Zenon
  <2>3. StartsOK' /\ CapacityAccounted' /\ capacity' \in Nat
    BY <2>1, <2>2, Zenon
  <2>4. TypeOK'
    BY <1>8, <2>3 DEF ReleaseReservation, TypeOK, StartsOK, DeleteReservation
  <2> QED BY <2>3, <2>4, Zenon
<1>9. CASE RecoverStart(s)
  <2>1. UNCHANGED start \/ start' = [start EXCEPT ![s].pc = "unfence"]
    BY <1>9, Zenon DEF RecoverStart
  <2>2. start[s].pc \in {"recoverRefused", "recoverBroken"}
    BY <1>9, Zenon DEF RecoverStart
  <2>3. ASSUME UNCHANGED start PROVE StartsOK' /\ Leased' = Leased
    BY <2>3, Zenon DEF StartsOK, Leased
  <2>4. ASSUME start' = [start EXCEPT ![s].pc = "unfence"]
       PROVE StartsOK' /\ Leased' = Leased
    BY <1>0, <2>2, <2>4, UpdatePc, Zenon DEF StartStages, WorkerStages, WellFormed, Unlaunched, Admitting, QueueStages
  <2>5. StartsOK' /\ Leased' = Leased
    BY <2>1, <2>3, <2>4, Zenon
  <2>6. sched' \in [Nodes -> Schedulings]
    BY <1>9 DEF RecoverStart, TypeOK, Interrupted, AdmittedInterrupted, Schedulings
  <2>7. workerErr' \in BOOLEAN /\ alive' \in BOOLEAN
    BY <1>9, Zenon DEF RecoverStart, TypeOK
  <2>9. used' \in [Operations -> Nat]
    BY <1>9 DEF RecoverStart, TypeOK, Spend
  <2>8. TypeOK'
    BY <1>9, <2>5, <2>6, <2>7, <2>9 DEF RecoverStart, TypeOK, StartsOK
  <2> QED BY <1>9, <2>5, <2>8, Zenon DEF RecoverStart, CapacityAccounted
<1>10. CASE Unfence(s)
  <2>1. StartsOK' /\ Leased' = Leased
    BY <1>0, <1>10, UpdatePc, Zenon DEF Unfence, StartStages, WorkerStages, WellFormed, Unlaunched, Admitting, QueueStages
  <2>2. TypeOK'
    BY <1>10, <2>1 DEF Unfence, TypeOK, StartsOK
  <2> QED BY <1>10, <2>1, <2>2, Zenon DEF Unfence, CapacityAccounted
<1>11. CASE FinishWorker(s)
  <2>0. start[s].pc = "finish"
    BY <1>11, Zenon DEF FinishWorker
  <2>1. ASSUME UNCHANGED start PROVE StartsOK' /\ Leased' = Leased
    BY <2>1, Zenon DEF StartsOK, Leased
  <2>2. ASSUME start[s].exec = "none" /\ start' = [start EXCEPT ![s] = NoStart]
       PROVE StartsOK' /\ Leased' = Leased
    <3>1. ~Holds(start[s])
      BY <1>0, <2>0, <2>2, Zenon DEF WellFormed, Admitting
    <3> QED BY <2>2, <3>1, NoStartOK, UpdateOne, Zenon
  <2>3. ASSUME start[s].exec # "none" /\ start' = [start EXCEPT ![s].pc = "done"]
       PROVE StartsOK' /\ Leased' = Leased
    BY <1>0, <2>0, <2>3, UpdatePc, Zenon DEF StartStages, WorkerStages, WellFormed, Unlaunched, Admitting, QueueStages
  <2>4. StartsOK' /\ Leased' = Leased
    BY <1>11, <2>1, <2>2, <2>3, Zenon DEF FinishWorker
  <2>5. TypeOK'
    BY <1>11, <2>4, ZenonT(60) DEF FinishWorker, TypeOK, StartsOK
  <2> QED BY <1>11, <2>4, <2>5, Zenon DEF FinishWorker, CapacityAccounted
<1> QED
  BY <1>1, <1>2, <1>3, <1>4, <1>5, <1>6, <1>7, <1>8, <1>9, <1>10, <1>11, Zenon DEF AdmissionStep

\* takeAutomaticIntent takes a unit of capacity only below the limit, for a start
\* that has none yet.
LEMMA TakeOne ==
  ASSUME IInv, NEW s \in Starts, NEW r \in StartRecord, WellFormed(r),
         Holds(r), ~Holds(start[s]), capacity < AgentConcurrency,
         start' = [start EXCEPT ![s] = r], capacity' = capacity + 1
  PROVE  StartsOK' /\ CapacityAccounted' /\ capacity' \in Nat
<1>1. StartsOK'
  BY Zenon DEF IInv, StartsOK
<1>2. Leased' = Leased \cup {s} /\ s \notin Leased
  BY Zenon DEF IInv, StartsOK, Leased, Holds
<1>3. IsFiniteSet(Leased) /\ Cardinality(Leased) \in Nat
  BY ControllerAssumption, FS_Subset, FS_CardinalityType, Zenon DEF Leased
<1>4. Cardinality(Leased \cup {s}) = Cardinality(Leased) + 1
  BY <1>2, <1>3, FS_AddElement, Zenon
<1> QED BY <1>1, <1>2, <1>3, <1>4, ControllerAssumption DEF IInv, CapacityAccounted

\* Every step of the worker loop keeps the invariant.
LEMMA LoopStepKeeps ==
  ASSUME IInv, LoopStep
  PROVE  IInv'
<1> USE DEF IInv
<1>1. CASE ReceiveWake
  <2>1. StartsOK' /\ Leased' = Leased
    BY <1>1, Zenon DEF ReceiveWake, StartsOK, Leased
  <2>2. TypeOK'
    BY <1>1, Zenon DEF ReceiveWake, TypeOK
  <2> QED BY <1>1, <2>1, <2>2, Zenon DEF ReceiveWake, CapacityAccounted
<1>2. CASE TakeExplicit
  <2>1. ASSUME UNCHANGED <<start, before, explicitQueued, explicitReservations, admissionWorkers>>
        PROVE  IInv'
    <3>1. StartsOK' /\ Leased' = Leased
      BY <2>1, Zenon DEF StartsOK, Leased
    <3>2. TypeOK'
      BY <1>2, <2>1, Zenon DEF TakeExplicit, TypeOK
    <3> QED BY <1>2, <3>1, <3>2, Zenon DEF TakeExplicit, CapacityAccounted
  <2>2. ASSUME NEW s \in Earliest(Queue("explicit")),
               start' = [start EXCEPT ![s].pc = "prepare"],
               before' = Without({s}),
               explicitQueued' = explicitQueued \ {start[s].node},
               explicitReservations' = [explicitReservations EXCEPT ![start[s].node] = s],
               admissionWorkers' = [admissionWorkers EXCEPT ![start[s].node] = s],
               UNCHANGED loop
        PROVE  IInv'
    <3>1. s \in Starts /\ start[s].pc = "explicit"
      BY <2>2, Zenon DEF Earliest, Queue
    <3>2. start[s] \in StartRecord /\ WellFormed(start[s])
      BY <3>1, Zenon DEF StartsOK
    <3>3. StartsOK' /\ Leased' = Leased
      BY <2>2, <3>1, <3>2, UpdatePc, Zenon DEF StartStages, WorkerStages, WellFormed, Unlaunched, Admitting, QueueStages
    <3>4. TypeOK'
      BY <1>2, <2>2, <3>1, <3>3, Zenon DEF TakeExplicit, TypeOK, StartsOK, Without
    <3> QED BY <1>2, <3>3, <3>4, Zenon DEF TakeExplicit, CapacityAccounted
  <2> QED BY <1>2, <2>1, <2>2, Zenon DEF TakeExplicit
<1>3. CASE TakeAutomatic
  <2>1. ASSUME UNCHANGED <<start, before, queued, automaticReservations, admissionWorkers,
                           capacity, lastTask>>,
               loop' = "parked"
        PROVE  IInv'
    <3>1. StartsOK' /\ Leased' = Leased
      BY <2>1, Zenon DEF StartsOK, Leased
    <3>2. TypeOK'
      BY <1>3, <2>1, Zenon DEF TakeAutomatic, TypeOK
    <3> QED BY <1>3, <2>1, <3>1, <3>2, Zenon DEF TakeAutomatic, CapacityAccounted
  <2>2. ASSUME NEW s \in SelectEntry,
               start' = [start EXCEPT ![s].pc = "prepare",
                                      ![s].lease = IF start[s].policy = "agent" THEN "reservation" ELSE "none"],
               before' = Without({s}),
               queued' = queued \ {start[s].node},
               automaticReservations' = [automaticReservations EXCEPT ![start[s].node] = s],
               admissionWorkers' = [admissionWorkers EXCEPT ![start[s].node] = s],
               capacity' = IF start[s].policy = "agent" THEN capacity + 1 ELSE capacity,
               lastTask' = TaskOf[start[s].node],
               loop' = "explicit"
        PROVE  IInv'
    <3>1. s \in Starts /\ start[s].pc = "automatic" /\ (start[s].policy = "agent" => AgentAvailable)
      BY <2>2, Zenon DEF SelectEntry, Earliest, Eligible, Queue
    <3>2. start[s] \in StartRecord /\ WellFormed(start[s])
      BY <3>1, Zenon DEF StartsOK
    <3>3. start[s].node \in Nodes /\ start[s].exec = "none" /\ ~Holds(start[s])
      BY <3>1, <3>2, Zenon DEF WellFormed, Unlaunched, Admitting, QueueStages
    <3> DEFINE r == [start[s] EXCEPT !.pc = "prepare",
                          !.lease = IF start[s].policy = "agent" THEN "reservation" ELSE "none"]
    <3>4. r \in StartRecord
      BY <3>2 DEF StartRecord, StartStages, WorkerStages, Leases
    <3>5. start' = [start EXCEPT ![s] = r]
      BY <2>2, Zenon
    <3>6. /\ r.pc = "prepare" /\ r.node = start[s].node /\ r.exec = start[s].exec
          /\ r.lease = IF start[s].policy = "agent" THEN "reservation" ELSE "none"
      BY <3>2, Zenon DEF StartRecord
    <3> HIDE DEF r
    <3>7. WellFormed(r) /\ (Holds(r) <=> start[s].policy = "agent")
      BY <3>3, <3>6, Zenon DEF WellFormed, Holds, Unlaunched, Admitting
    <3>8. StartsOK' /\ CapacityAccounted' /\ capacity' \in Nat
      <4>1. CASE start[s].policy = "agent"
        BY <2>2, <3>1, <3>3, <3>4, <3>5, <3>7, <4>1, TakeOne, Zenon DEF AgentAvailable
      <4>2. CASE start[s].policy # "agent"
        <5>1. StartsOK' /\ Leased' = Leased
          BY <3>1, <3>3, <3>4, <3>5, <3>7, <4>2, UpdateOne, Zenon
        <5> QED BY <2>2, <4>2, <5>1, Zenon DEF CapacityAccounted, TypeOK
      <4> QED BY <4>1, <4>2, Zenon
    <3>9. TypeOK'
      BY <1>3, <2>2, <3>1, <3>3, <3>8, ControllerAssumption, Zenon DEF TakeAutomatic, TypeOK, StartsOK, Without
    <3> QED BY <3>8, <3>9, Zenon
  <2> QED BY <1>3, <2>1, <2>2, Zenon DEF TakeAutomatic
<1>4. CASE StopLoop
  <2>1. StartsOK' /\ Leased' = Leased
    BY <1>4, Zenon DEF StopLoop, StartsOK, Leased
  <2>2. TypeOK'
    BY <1>4, Zenon DEF StopLoop, TypeOK
  <2> QED BY <1>4, <2>1, <2>2, Zenon DEF StopLoop, CapacityAccounted
<1> QED BY <1>1, <1>2, <1>3, <1>4, Zenon DEF LoopStep

-------------------------------------------------------------------------------
(* Executions. *)

\* New starts get identities nothing refers to.
LEMMA AllocationFree ==
  ASSUME NEW T \in SUBSET Nodes, Allocations(T) # {}
  PROVE  /\ Allocation(T) \in [T -> FreeStarts]
         /\ Allocated(Allocation(T)) \subseteq FreeStarts
<1>1. Allocation(T) \in Allocations(T)
  BY Zenon DEF Allocation
<1> QED BY <1>1, Zenon DEF Allocations, Allocated

\* Giving Nodes new starts keeps every other start and every lease.
LEMMA WithStartsKeeps ==
  ASSUME StartsOK, NEW T \in SUBSET Nodes, Allocations(T) # {},
         NEW r \in StartRecord, Fresh(r)
  PROVE  LET f == Allocation(T) IN
         /\ WithStarts(f, r) \in [Starts -> StartRecord]
         /\ \A q \in Starts : /\ WellFormed(WithStarts(f, r)[q])
                              /\ Holds(WithStarts(f, r)[q]) <=> Holds(start[q])
         /\ \A q \in Allocated(f) : q \in Starts /\ Fresh(WithStarts(f, r)[q])
         /\ \A q \in Starts \ Allocated(f) : WithStarts(f, r)[q] = start[q]
<1> DEFINE f == Allocation(T)
           w == WithStarts(f, r)
<1>1. DOMAIN f = T /\ Allocated(f) \subseteq FreeStarts
  BY AllocationFree, Zenon
<1>2. w = [q \in Starts |-> w[q]]
  BY DEF WithStarts
<1>3. ASSUME NEW q \in Allocated(f)
      PROVE  /\ q \in Starts /\ w[q] \in StartRecord /\ Fresh(w[q]) /\ WellFormed(w[q])
             /\ ~Holds(start[q])
  <2>1. q \in Starts /\ start[q] = NoStart
    BY <1>1, Zenon DEF FreeStarts
  <2> DEFINE n == CHOOSE m \in DOMAIN f : f[m] = q
  <2>2. n \in Nodes
    BY <1>1, Zenon DEF Allocated
  <2>3. w[q] = [r EXCEPT !.node = n]
    BY <2>1, Zenon DEF WithStarts
  <2> HIDE DEF n
  <2>4. w[q] \in StartRecord
    BY <2>2, <2>3, Zenon DEF StartRecord
  <2>5. w[q].node = n /\ w[q].pc = r.pc /\ w[q].exec = r.exec /\ w[q].lease = r.lease
    BY <2>3, Zenon DEF StartRecord
  <2>6. Fresh(w[q]) /\ WellFormed(w[q])
    BY <2>2, <2>5, Zenon DEF Fresh, WellFormed, Holds
  <2> QED BY <2>1, <2>4, <2>6, NoStartOK, Zenon
<1>4. ASSUME NEW q \in Starts \ Allocated(f)
      PROVE  w[q] = start[q]
  BY Zenon DEF WithStarts
<1>5. \A q \in Starts : start[q] \in StartRecord /\ WellFormed(start[q])
  BY Zenon DEF StartsOK
<1> HIDE DEF f, w
<1>6. w \in [Starts -> StartRecord]
  BY <1>2, <1>3, <1>4, <1>5, Zenon
<1>7. \A q \in Starts : WellFormed(w[q]) /\ (Holds(w[q]) <=> Holds(start[q]))
  BY <1>3, <1>4, <1>5, Zenon DEF Fresh
<1> QED BY <1>3, <1>4, <1>6, <1>7, Zenon DEF f, w

\* Queueing fresh starts, or dropping those whose Node is owned, keeps every lease
\* and the type of the queues.
LEMMA EnqueueKeeps ==
  ASSUME IInv, NEW st \in [Starts -> StartRecord], NEW S \in SUBSET Starts,
         NEW queue \in QueueStages,
         \A q \in Starts : WellFormed(st[q]) /\ (Holds(st[q]) <=> Holds(start[q])),
         \A q \in S : Fresh(st[q]),
         Enqueue(st, S, queue)
  PROVE  /\ StartsOK' /\ Leased' = Leased
         /\ before' \in SUBSET (Starts \X Starts)
         /\ explicitQueued' \in SUBSET Nodes /\ queued' \in SUBSET Nodes
<1> DEFINE A == Accepted(st, S)
<1>1. A \subseteq S
  BY Zenon DEF Accepted
<1>2. \A q \in S : st[q].node \in Nodes
  BY Zenon DEF WellFormed, Fresh
<1> DEFINE g == [s \in Starts |->
           CASE s \in A -> [st[s] EXCEPT !.pc = queue, !.parent = None]
             [] s \in S \ A -> NoStart
             [] OTHER -> st[s]]
<1>3. start' = g
  BY Zenon DEF Enqueue
<1> HIDE DEF A
<1>4. ASSUME NEW q \in Starts
      PROVE  g[q] \in StartRecord /\ WellFormed(g[q]) /\ (Holds(g[q]) <=> Holds(start[q]))
  <2>1. CASE q \in A
    <3>1. g[q] = [st[q] EXCEPT !.pc = queue, !.parent = None]
      BY <2>1, Zenon
    <3>2. st[q] \in StartRecord /\ WellFormed(st[q]) /\ Fresh(st[q]) /\ st[q].node \in Nodes
      BY <1>1, <1>2, <2>1, Zenon
    <3> HIDE DEF g
    <3>3. g[q] \in StartRecord
      BY <3>1, <3>2, Zenon DEF StartRecord, StartStages
    <3>4. /\ g[q].pc = queue /\ g[q].node = st[q].node
          /\ g[q].exec = st[q].exec /\ g[q].lease = st[q].lease
      BY <3>1, <3>2, Zenon DEF StartRecord
    <3> QED BY <3>2, <3>3, <3>4, Zenon DEF WellFormed, Fresh, Holds
  <2>2. CASE q \in S \ A
    <3>1. g[q] = NoStart
      BY <2>2, Zenon
    <3> HIDE DEF g
    <3> QED BY <2>2, <3>1, NoStartOK, Zenon DEF Fresh
  <2>3. CASE q \notin S
    <3>1. g[q] = st[q]
      BY <1>1, <2>3, Zenon
    <3> HIDE DEF g
    <3> QED BY <3>1, Zenon
  <2> QED BY <2>1, <2>2, <2>3, Zenon
<1>5. g = [q \in Starts |-> g[q]]
  BY Zenon
<1> HIDE DEF g
<1>6. StartsOK' /\ Leased' = Leased
  BY <1>3, <1>4, <1>5, UpdateAll, Zenon DEF IInv
<1>7. before' \in SUBSET (Starts \X Starts)
  BY <1>1, Zenon DEF Enqueue, Joined, Without, Queue, A, IInv, TypeOK
<1>8. explicitQueued' \in SUBSET Nodes /\ queued' \in SUBSET Nodes
  <2> DEFINE keys == {st[s].node : s \in A}
  <2>1. keys \subseteq Nodes
    BY <1>1, <1>2, Zenon
  <2>2. /\ explicitQueued' = IF queue = "explicit" THEN explicitQueued \cup keys ELSE explicitQueued
        /\ queued' = IF queue = "automatic" THEN queued \cup keys ELSE queued
    BY Zenon DEF Enqueue, A
  <2> HIDE DEF keys
  <2> QED BY <2>1, <2>2, Zenon DEF IInv, TypeOK
<1> QED BY <1>6, <1>7, <1>8, Zenon

\* InterruptCurrentNode leaves scheduling states.
LEMMA InterruptedOK ==
  ASSUME TypeOK, NEW N
  PROVE  Interrupted(N) \in [Nodes -> Schedulings]
BY Zenon DEF TypeOK, Interrupted, Schedulings

\* InterruptAdmittedCurrentNode leaves scheduling states.
LEMMA AdmittedInterruptedOK ==
  ASSUME TypeOK, NEW n
  PROVE  AdmittedInterrupted(n) \in [Nodes -> Schedulings]
BY Zenon DEF TypeOK, AdmittedInterrupted, Schedulings

\* Starts dropped from a queue, or before they reached one, held no lease.
LEMMA DropKeeps ==
  ASSUME StartsOK, NEW D \in SUBSET Starts,
         \A q \in D : start[q].pc \in {"held", "approved"} \cup QueueStages,
         start' = [q \in Starts |-> IF q \in D THEN NoStart ELSE start[q]]
  PROVE  StartsOK' /\ Leased' = Leased
<1> DEFINE g == [q \in Starts |-> IF q \in D THEN NoStart ELSE start[q]]
<1>1. ASSUME NEW q \in D
      PROVE  ~Holds(start[q])
  BY Zenon DEF StartsOK, WellFormed, Unlaunched, Admitting, QueueStages
<1>2. ASSUME NEW q \in Starts
      PROVE  g[q] \in StartRecord /\ WellFormed(g[q]) /\ (Holds(g[q]) <=> Holds(start[q]))
  BY <1>1, NoStartOK, Zenon DEF StartsOK
<1>3. g = [q \in Starts |-> g[q]] /\ start' = g
  BY Zenon
<1> HIDE DEF g
<1> QED BY <1>2, <1>3, UpdateAll, Zenon

\* A completion allocates the targets' starts and keeps the agent's own lease
\* until its scope retires.
LEMMA CompleteKeeps ==
  ASSUME IInv, NEW s \in Starts, NEW e \in Edges, Complete(s, e)
  PROVE  IInv'
<1> USE DEF IInv
<1>0. start[s] \in StartRecord /\ WellFormed(start[s])
  BY Zenon DEF StartsOK
<1> DEFINE n == start[s].node
           f == Allocation(e.to)
           r == [NoStart EXCEPT !.pc = "held", !.parent = n]
           st == WithStarts(f, r)
           g == [q \in Starts |->
                  IF q = s THEN [st[q] EXCEPT !.exec = "continue"]
                  ELSE IF q \in Allocated(f)
                       THEN [st[q] EXCEPT !.policy = AutomaticPolicy(st[q].node)]
                       ELSE st[q]]
<1>1. start[s].exec \in {"running", "finalizing"}
  BY Zenon DEF Complete, CompletionAllowed
<1>2. n \in Nodes
  BY <1>0, <1>1, Zenon DEF WellFormed, Unlaunched
<1>3. e.to \in SUBSET Nodes /\ Allocations(e.to) # {}
  BY ControllerAssumption, Zenon DEF Complete
<1>4. r \in StartRecord /\ Fresh(r)
  BY <1>2, Zenon DEF NoStart, StartRecord, Fresh, Holds, StartStages, Policies, Leases, ExecutionStages
<1>5. start' = g
  BY Zenon DEF Complete
<1>6. /\ st \in [Starts -> StartRecord]
      /\ \A q \in Starts : WellFormed(st[q]) /\ (Holds(st[q]) <=> Holds(start[q]))
      /\ \A q \in Allocated(f) : q \in Starts /\ Fresh(st[q])
      /\ \A q \in Starts \ Allocated(f) : st[q] = start[q]
  <2> HIDE DEF r
  <2> QED BY <1>3, <1>4, WithStartsKeeps, Zenon
<1>7. s \notin Allocated(f)
  BY <1>1, <1>3, AllocationFree DEF FreeStarts, NoStart
<1> HIDE DEF st, f, r
<1>8. ASSUME NEW q \in Starts
      PROVE  g[q] \in StartRecord /\ WellFormed(g[q]) /\ (Holds(g[q]) <=> Holds(start[q]))
  <2>1. CASE q = s
    <3>1. g[q] = [start[s] EXCEPT !.exec = "continue"]
      BY <1>6, <1>7, <2>1, Zenon
    <3> HIDE DEF g
    <3>2. g[q] \in StartRecord
      BY <1>0, <3>1, Zenon DEF StartRecord, ExecutionStages
    <3>3. /\ g[q].exec = "continue" /\ g[q].pc = start[s].pc
          /\ g[q].node = start[s].node /\ g[q].lease = start[s].lease
      BY <1>0, <3>1, Zenon DEF StartRecord
    <3> QED BY <1>0, <1>1, <2>1, <3>2, <3>3, Zenon DEF WellFormed, Holds
  <2>2. CASE q # s /\ q \in Allocated(f)
    <3>1. g[q] = [st[q] EXCEPT !.policy = AutomaticPolicy(st[q].node)]
      BY <2>2, Zenon
    <3> HIDE DEF g
    <3>2. st[q] \in StartRecord /\ AutomaticPolicy(st[q].node) \in Policies
      BY <1>6, Zenon DEF AutomaticPolicy, Policies
    <3>3. g[q] \in StartRecord
      BY <3>1, <3>2, Zenon DEF StartRecord
    <3>4. /\ g[q].exec = st[q].exec /\ g[q].pc = st[q].pc
          /\ g[q].node = st[q].node /\ g[q].lease = st[q].lease
      BY <3>1, <3>2, Zenon DEF StartRecord
    <3> QED BY <1>6, <3>3, <3>4, Zenon DEF WellFormed, Holds
  <2>3. CASE q # s /\ q \notin Allocated(f)
    <3>1. g[q] = st[q]
      BY <2>3, Zenon
    <3> HIDE DEF g
    <3> QED BY <1>6, <3>1, Zenon
  <2> QED BY <2>1, <2>2, <2>3, Zenon
<1>9. StartsOK' /\ Leased' = Leased
  <2>1. g = [q \in Starts |-> g[q]]
    BY Zenon
  <2> HIDE DEF g
  <2> QED BY <1>5, <1>8, <2>1, UpdateAll, Zenon
<1>10. sched' \in [Nodes -> Schedulings]
  BY Zenon DEF Complete, TypeOK, Schedulings
<1>11. UNCHANGED <<approval, backlog, queues, reservations, admissionWorkers, capacity,
                 worker, workerErr, closing, fences, cleanup, alive, used, lanes>>
  BY Zenon DEF Complete
<1>12. TypeOK'
  BY <1>9, <1>10, <1>11 DEF TypeOK, StartsOK
<1> QED BY <1>9, <1>11, <1>12, Zenon DEF CapacityAccounted

\* Every step of an execution keeps the invariant; its lease is given back in
\* Done, once.
LEMMA ExecutionStepKeeps ==
  ASSUME IInv, NEW s \in Starts, ExecutionStep(s)
  PROVE  IInv'
<1> USE DEF IInv
<1>0. start[s] \in StartRecord /\ WellFormed(start[s])
  BY Zenon DEF StartsOK
<1>1. CASE TurnEnds(s)
  <2>1. StartsOK' /\ Leased' = Leased
    BY <1>1, UpdateExec, Zenon DEF TurnEnds, ExecutionStages
  <2>2. TypeOK'
    BY <1>1, <2>1 DEF TurnEnds, TypeOK, StartsOK
  <2> QED BY <1>1, <2>1, <2>2, Zenon DEF TurnEnds, CapacityAccounted
<1>2. CASE ScriptExits(s)
  <2>1. StartsOK' /\ Leased' = Leased
    BY <1>2, UpdateExec, Zenon DEF ScriptExits, ExecutionStages
  <2>2. TypeOK'
    BY <1>2, <2>1 DEF ScriptExits, TypeOK, StartsOK
  <2> QED BY <1>2, <2>1, <2>2, Zenon DEF ScriptExits, CapacityAccounted
<1>3. ASSUME NEW e \in Edges, Complete(s, e)
      PROVE  IInv'
  BY <1>3, CompleteKeeps, Zenon
<1>4. ASSUME NEW e \in Edges, CompleteForApproval(s, e)
      PROVE  IInv'
  <2>1. StartsOK' /\ Leased' = Leased
    BY <1>4, UpdateExec, Zenon DEF CompleteForApproval, CompletionAllowed, ExecutionStages
  <2>2. approval' \in [Nodes -> (SUBSET Nodes) \cup {None}]
    BY <1>4, ControllerAssumption, Zenon DEF CompleteForApproval, TypeOK
  <2>3. UNCHANGED <<sched, backlog, queues, reservations, admissionWorkers, capacity,
                    worker, workerErr, closing, fences, cleanup, alive, used, lanes>>
    BY <1>4, Zenon DEF CompleteForApproval
  <2>4. TypeOK'
    BY <2>1, <2>2, <2>3 DEF TypeOK, StartsOK
  <2> QED BY <2>1, <2>3, <2>4, Zenon DEF CapacityAccounted
<1>5. CASE CompletionRefused(s)
  <2>1. StartsOK' /\ Leased' = Leased
    BY <1>5, UpdateExec, Zenon DEF CompletionRefused, ExecutionStages
  <2>2. used' \in [Operations -> Nat]
    BY <1>5, SpendOK, Zenon DEF CompletionRefused, TypeOK, Operations
  <2>3. TypeOK'
    BY <1>5, <2>1, <2>2 DEF CompletionRefused, TypeOK, StartsOK
  <2> QED BY <1>5, <2>1, <2>3, Zenon DEF CompletionRefused, CapacityAccounted
<1>6. CASE Continue(s)
  <2> DEFINE st == [start EXCEPT ![s].exec = "end"]
  <2>1. start[s].exec = "continue"
    BY <1>6, Zenon DEF Continue
  <2>2. /\ st \in [Starts -> StartRecord]
        /\ \A q \in Starts : /\ WellFormed(st[q]) /\ (Holds(st[q]) <=> Holds(start[q]))
                             /\ st[q].pc = start[q].pc /\ (q # s => st[q] = start[q])
    <3>0. start \in [Starts -> StartRecord] /\ \A q \in Starts : WellFormed(start[q])
      BY Zenon DEF StartsOK
    <3> DEFINE r == [start[s] EXCEPT !.exec = "end"]
    <3>1. r \in StartRecord
      BY <1>0, Zenon DEF StartRecord, ExecutionStages
    <3>2. /\ r.exec = "end" /\ r.pc = start[s].pc
          /\ r.node = start[s].node /\ r.lease = start[s].lease
      BY <1>0, Zenon DEF StartRecord
    <3>3. st = [start EXCEPT ![s] = r]
      BY Zenon
    <3> HIDE DEF r, st
    <3>4. WellFormed(r) /\ (Holds(r) <=> Holds(start[s]))
      BY <1>0, <2>1, <3>2, Zenon DEF WellFormed, Holds
    <3> QED BY <3>0, <3>1, <3>2, <3>3, <3>4
  <2>3. Held(s) \subseteq Starts /\ \A q \in Held(s) : start[q].pc = "held" /\ start[q].exec = "none"
    BY Zenon DEF Held, StartsOK, WellFormed, Unlaunched
  <2>4. \A q \in Held(s) : st[q] = start[q] /\ Fresh(st[q])
    BY <2>1, <2>2, <2>3 DEF Fresh, StartsOK, WellFormed, Admitting
  <2>5. /\ StartsOK' /\ Leased' = Leased
        /\ before' \in SUBSET (Starts \X Starts)
        /\ explicitQueued' \in SUBSET Nodes /\ queued' \in SUBSET Nodes
    <3>1. CASE Closed
      <4> DEFINE g == [q \in Starts |-> IF q \in Held(s) THEN NoStart ELSE st[q]]
      <4>1. start' = g /\ UNCHANGED queues
        BY <1>6, <3>1, Zenon DEF Continue
      <4>2. ASSUME NEW q \in Starts
            PROVE  g[q] \in StartRecord /\ WellFormed(g[q]) /\ (Holds(g[q]) <=> Holds(start[q]))
        <5> HIDE DEF st
        <5> QED BY <2>2, <2>4, NoStartOK, Zenon DEF Fresh
      <4>3. g = [q \in Starts |-> g[q]]
        OBVIOUS
      <4> HIDE DEF g
      <4>4. StartsOK' /\ Leased' = Leased
        BY <4>1, <4>2, <4>3, UpdateAll, Zenon
      <4> QED BY <4>1, <4>4, Zenon DEF TypeOK
    <3>2. CASE ~Closed
      <4>1. Enqueue(st, Held(s), "automatic")
        BY <1>6, <3>2, Zenon DEF Continue
      <4> HIDE DEF st
      <4> QED BY <2>2, <2>3, <2>4, <4>1, EnqueueKeeps, Zenon DEF QueueStages
    <3> QED BY <3>1, <3>2, Zenon
  <2>6. wake' \in BOOLEAN
    BY <1>6, Zenon DEF Continue, TypeOK
  <2>7. UNCHANGED <<durable, reservations, admissionWorkers, capacity, loop, lastTask,
                    workerErr, closing, fences, cleanup, alive, used, lanes>>
    BY <1>6, Zenon DEF Continue
  <2> HIDE DEF st
  <2>8. TypeOK'
    BY <2>5, <2>6, <2>7 DEF TypeOK, StartsOK
  <2> QED BY <2>5, <2>7, <2>8, Zenon DEF CapacityAccounted
<1>7. CASE ContinueFails(s)
  <2> DEFINE g == [q \in Starts |-> IF q \in Held(s) THEN NoStart
                                  ELSE IF q = s THEN [start[q] EXCEPT !.exec = "end"]
                                  ELSE start[q]]
  <2>1. start[s].exec = "continue" /\ start' = g
    BY <1>7, Zenon DEF ContinueFails
  <2>2. \A q \in Held(s) : ~Holds(start[q])
    BY Zenon DEF Held, StartsOK, WellFormed, Unlaunched, Admitting
  <2>3. ASSUME NEW q \in Starts
        PROVE  g[q] \in StartRecord /\ WellFormed(g[q]) /\ (Holds(g[q]) <=> Holds(start[q]))
    <3>1. CASE q \in Held(s)
      BY <2>2, <3>1, NoStartOK, Zenon
    <3>2. CASE q \notin Held(s) /\ q = s
      <4>1. g[q] = [start[s] EXCEPT !.exec = "end"]
        BY <3>2, Zenon
      <4> HIDE DEF g
      <4>2. g[q] \in StartRecord
        BY <1>0, <4>1, Zenon DEF StartRecord, ExecutionStages
      <4>3. /\ g[q].exec = "end" /\ g[q].pc = start[s].pc
            /\ g[q].node = start[s].node /\ g[q].lease = start[s].lease
        BY <1>0, <4>1, Zenon DEF StartRecord
      <4> QED BY <1>0, <2>1, <3>2, <4>2, <4>3 DEF WellFormed, Holds
    <3>3. CASE q \notin Held(s) /\ q # s
      BY <3>3, Zenon DEF StartsOK
    <3> QED BY <3>1, <3>2, <3>3, Zenon
  <2>4. g = [q \in Starts |-> g[q]]
    BY Zenon
  <2> HIDE DEF g
  <2>5. StartsOK' /\ Leased' = Leased
    BY <2>1, <2>3, <2>4, UpdateAll, Zenon
  <2>6. sched' \in [Nodes -> Schedulings]
    BY <1>7, InterruptedOK, Zenon DEF ContinueFails, TypeOK
  <2>7. alive' \in BOOLEAN
    BY <1>7, Zenon DEF ContinueFails, TypeOK
  <2>8. used' \in [Operations -> Nat]
    BY <1>7, SpendOK, Zenon DEF ContinueFails, Operations, TypeOK
  <2>9. UNCHANGED <<approval, backlog, queues, reservations, admissionWorkers, capacity,
                    worker, workerErr, closing, fences, cleanup, lanes>>
    BY <1>7, Zenon DEF ContinueFails
  <2>10. TypeOK'
    BY <2>5, <2>6, <2>7, <2>8, <2>9 DEF TypeOK, StartsOK
  <2> QED BY <2>5, <2>9, <2>10, Zenon DEF CapacityAccounted
<1>8. CASE FailScope(s)
  <2>1. StartsOK' /\ Leased' = Leased
    BY <1>8, UpdateExec, Zenon DEF FailScope, ExecutionStages
  <2>2. sched' \in [Nodes -> Schedulings]
    BY <1>8, AdmittedInterruptedOK, Zenon DEF FailScope, InterruptFailed, TypeOK
  <2>3. used' \in [Operations -> Nat]
    BY <1>8, SpendOK, Zenon DEF FailScope, Operations, TypeOK
  <2>4. UNCHANGED <<approval, backlog, queues, reservations, admissionWorkers, capacity,
                    worker, workerErr, closing, fences, cleanup, alive, lanes>>
    BY <1>8, Zenon DEF FailScope
  <2>5. TypeOK'
    BY <2>1, <2>2, <2>3, <2>4 DEF TypeOK, StartsOK
  <2> QED BY <2>1, <2>4, <2>5, Zenon DEF CapacityAccounted
<1>9. CASE ViolationCap(s)
  <2> DEFINE r == [start[s] EXCEPT !.stop = TRUE]
  <2>1. r \in StartRecord
    BY <1>0, Zenon DEF StartRecord
  <2>2. /\ r.exec = start[s].exec /\ r.pc = start[s].pc
        /\ r.node = start[s].node /\ r.lease = start[s].lease
    BY <1>0, Zenon DEF StartRecord
  <2>3. start' = [start EXCEPT ![s] = r]
    BY <1>9, Zenon DEF ViolationCap
  <2> HIDE DEF r
  <2>4. WellFormed(r) /\ (Holds(r) <=> Holds(start[s]))
    BY <1>0, <2>2, Zenon DEF WellFormed, Holds
  <2>5. StartsOK' /\ Leased' = Leased
    BY <2>1, <2>3, <2>4, UpdateOne, Zenon
  <2>6. sched' \in [Nodes -> Schedulings]
    BY <1>9, AdmittedInterruptedOK, Zenon DEF ViolationCap, InterruptFailed
  <2>7. used' \in [Operations -> Nat]
    BY <1>9, SpendOK, Zenon DEF ViolationCap, Operations
  <2>8. UNCHANGED <<approval, backlog, queues, reservations, admissionWorkers, capacity,
                    worker, workerErr, closing, fences, cleanup, alive, lanes>>
    BY <1>9, Zenon DEF ViolationCap
  <2>9. TypeOK'
    BY <2>5, <2>6, <2>7, <2>8 DEF TypeOK, StartsOK
  <2> QED BY <2>5, <2>8, <2>9, Zenon DEF CapacityAccounted
<1>10. CASE CleanUp(s)
  <2>1. StartsOK' /\ Leased' = Leased
    BY <1>10, UpdateExec, Zenon DEF CleanUp, ExecutionStages
  <2>2. TypeOK'
    BY <1>10, <2>1 DEF CleanUp, TypeOK, StartsOK
  <2> QED BY <1>10, <2>1, <2>2, Zenon DEF CleanUp, CapacityAccounted
<1>11. CASE Retire(s)
  <2>1. StartsOK' /\ Leased' = Leased
    BY <1>11, UpdateExec, Zenon DEF Retire, ExecutionStages
  <2>2. TypeOK'
    BY <1>11, <2>1 DEF Retire, TypeOK, StartsOK
  <2> QED BY <1>11, <2>1, <2>2, Zenon DEF Retire, CapacityAccounted
<1>12. CASE Done(s)
  <2> DEFINE d == [start[s] EXCEPT !.exec = "none", !.lease = Released(s)]
             r == IF start[s].pc = "done" THEN NoStart ELSE d
  <2>1. d \in StartRecord
    BY <1>0, Zenon DEF StartRecord, ExecutionStages, Leases, Released
  <2>2. /\ d.exec = "none" /\ d.pc = start[s].pc
        /\ d.node = start[s].node /\ d.lease = Released(s)
    BY <1>0, Zenon DEF StartRecord
  <2>3. start' = [start EXCEPT ![s] = r] /\ ReleaseCapacity(s)
    BY <1>12, Zenon DEF Done
  <2> HIDE DEF d
  <2>4. r \in StartRecord /\ WellFormed(r) /\ ~Holds(r)
    BY <1>0, <2>1, <2>2, NoStartOK, Zenon DEF WellFormed, Holds, Released
  <2> HIDE DEF r
  <2>5. StartsOK' /\ CapacityAccounted' /\ capacity' \in Nat
    BY <2>3, <2>4, ReleaseOne, Zenon
  <2>6. TypeOK'
    BY <1>12, <2>5, Zenon DEF Done, TypeOK, StartsOK
  <2> QED BY <2>5, <2>6, Zenon
<1> QED
  BY <1>1, <1>2, <1>3, <1>4, <1>5, <1>6, <1>7, <1>8, <1>9, <1>10, <1>11, <1>12, Zenon DEF ExecutionStep

-------------------------------------------------------------------------------
(* Interrupts. *)

\* The selection of an interrupt drains queued starts, which hold no lease.
LEMMA SelectKeeps ==
  ASSUME IInv, NEW i \in Interrupters, NEW t \in Tasks, NEW S \in SUBSET Starts,
         NEW D \in SUBSET Starts, NEW b \in BOOLEAN,
         \A s \in S : start[s].node \in Nodes,
         \A s \in D : start[s].pc \in QueueStages,
         Select(i, t, S, D, b), used' \in [Operations -> Nat]
  PROVE  IInv'
<1> USE DEF IInv
<1> DEFINE keys == {start[s].node : s \in D}
           c == [pc |-> "stop", task |-> t, scopes |-> S, drained |-> keys,
                 refs |-> keys \cup {start[s].node : s \in S}, fenced |-> b]
<1>1. StartsOK' /\ Leased' = Leased
  BY DropKeeps, Zenon DEF Select
<1>2. keys \in SUBSET Nodes /\ {start[s].node : s \in S} \in SUBSET Nodes
  BY Zenon DEF StartsOK, WellFormed, QueueStages
<1>3. c \in CleanupRecord
  <2> HIDE DEF keys
  <2> QED BY <1>2, Zenon DEF CleanupRecord
<1>4. cleanup' = [cleanup EXCEPT ![i] = c]
  BY Zenon DEF Select
<1>5. cleanup' \in [Interrupters -> CleanupRecord]
  <2> HIDE DEF c
  <2> QED BY <1>3, <1>4, Zenon DEF TypeOK
<1>6. fenceScope' \in [Starts -> Tasks \cup {None}]
  BY Zenon DEF Select, TypeOK
<1>7. /\ before' = Without(D)
      /\ fenceNode' = fenceNode \cup keys
      /\ explicitQueued' = explicitQueued \ keys
      /\ queued' = queued \ keys
      /\ UNCHANGED <<durable, reservations, admissionWorkers, capacity, worker, workerErr,
                     closing, alive, lanes>>
  BY Zenon DEF Select
<1> HIDE DEF keys, c
<1>8. TypeOK'
  BY <1>1, <1>2, <1>5, <1>6, <1>7 DEF TypeOK, StartsOK, Without
<1> QED BY <1>1, <1>7, <1>8, Zenon DEF CapacityAccounted

\* cleanupInterrupt going on to its next stage keeps the record's type.
LEMMA CleanupPcOK ==
  ASSUME TypeOK, NEW i \in Interrupters, NEW p \in {"persist", "wait", "verify"},
         cleanup' = [cleanup EXCEPT ![i].pc = p]
  PROVE  cleanup' \in [Interrupters -> CleanupRecord]
<1> DEFINE c == [cleanup[i] EXCEPT !.pc = p]
<1>1. cleanup[i] \in CleanupRecord
  BY Zenon DEF TypeOK
<1>2. c \in CleanupRecord
  BY <1>1, Zenon DEF CleanupRecord
<1>3. cleanup' = [cleanup EXCEPT ![i] = c]
  BY Zenon
<1> HIDE DEF c
<1> QED BY <1>2, <1>3, Zenon DEF TypeOK

\* What an interrupt selects has a Node, and what it drains is queued.
LEMMA InterruptibleOK ==
  ASSUME NEW t \in Tasks
  PROVE  /\ Interruptible(t) \in SUBSET Starts
         /\ \A s \in Interruptible(t) : start[s].node \in Nodes
         /\ Drained(t) \in SUBSET Starts
         /\ \A s \in Drained(t) : start[s].pc \in QueueStages
BY Zenon DEF Interruptible, Drained, OfTask, NodesOf

\* Every step of an interrupt keeps the invariant: capacity of a stopped execution
\* is released by its retirement alone.
LEMMA InterruptStepKeeps ==
  ASSUME IInv, NEW i \in Interrupters, InterruptStep(i)
  PROVE  IInv'
<1> USE DEF IInv
<1>1. ASSUME NEW t \in Tasks, InterruptTask(i, t)
      PROVE  IInv'
  BY <1>1, InterruptibleOK, SelectKeeps, SpendOK, Zenon DEF InterruptTask, Operations
<1>2. ASSUME NEW t \in Tasks, InterruptForManualMove(i, t)
      PROVE  IInv'
  BY <1>2, InterruptibleOK, SelectKeeps, SpendOK, Zenon DEF InterruptForManualMove, Operations
<1>3. ASSUME NEW t \in Tasks, InterruptSession(i, t)
      PROVE  IInv'
  <2>1. used' \in [Operations -> Nat]
    BY <1>3, SpendOK, Zenon DEF InterruptSession, Operations
  <2>2. PICK s \in Interruptible(t) :
          Select(i, t, {r \in Interruptible(t) : Agent(r) /\ SessionOf[start[r].node] =
                                                             SessionOf[start[s].node]},
                 {}, FALSE)
    BY <1>3, Zenon DEF InterruptSession
  <2> DEFINE S == {r \in Interruptible(t) : Agent(r) /\ SessionOf[start[r].node] =
                                                        SessionOf[start[s].node]}
  <2>3. S \in SUBSET Starts /\ \A r \in S : start[r].node \in Nodes
    BY InterruptibleOK, Zenon
  <2>4. Select(i, t, S, {}, FALSE)
    BY <2>2, Zenon
  <2> HIDE DEF S
  <2> DEFINE D == {}
  <2>5. D \in SUBSET Starts /\ \A r \in D : start[r].pc \in QueueStages
    BY Zenon
  <2>6. Select(i, t, S, D, FALSE)
    BY <2>4, Zenon
  <2> HIDE DEF D
  <2> QED BY <2>1, <2>3, <2>5, <2>6, SelectKeeps
<1>4. CASE RequestStops(i)
  <2> DEFINE g == [s \in Starts |-> IF s \in cleanup[i].scopes
                                THEN [start[s] EXCEPT !.stop = (@ \/ start[s].exec # "none")]
                                ELSE start[s]]
  <2>1. start' = g
    BY <1>4, Zenon DEF RequestStops
  <2>2. ASSUME NEW q \in Starts
        PROVE  g[q] \in StartRecord /\ WellFormed(g[q]) /\ (Holds(g[q]) <=> Holds(start[q]))
    <3>0. start[q] \in StartRecord /\ WellFormed(start[q])
      BY Zenon DEF StartsOK
    <3>1. g[q] = start[q] \/ g[q] = [start[q] EXCEPT !.stop = (@ \/ start[q].exec # "none")]
      BY Zenon
    <3> HIDE DEF g
    <3>2. g[q] \in StartRecord
      BY <3>0, <3>1 DEF StartRecord
    <3>3. /\ g[q].exec = start[q].exec /\ g[q].pc = start[q].pc
          /\ g[q].node = start[q].node /\ g[q].lease = start[q].lease
      BY <3>0, <3>1, Zenon DEF StartRecord
    <3> QED BY <3>0, <3>2, <3>3, Zenon DEF WellFormed, Holds
  <2>3. g = [q \in Starts |-> g[q]]
    BY Zenon
  <2> HIDE DEF g
  <2>4. StartsOK' /\ Leased' = Leased
    BY <2>1, <2>2, <2>3, UpdateAll, Zenon
  <2>5. cleanup' \in [Interrupters -> CleanupRecord]
    BY <1>4, CleanupPcOK, Zenon DEF RequestStops
  <2>6. wake' = TRUE /\ UNCHANGED <<durable, queues, reservations, admissionWorkers, capacity,
                       loop, lastTask, workerErr, closing, fences, alive, used, lanes>>
    BY <1>4, Zenon DEF RequestStops
  <2>7. TypeOK'
    BY <2>4, <2>5, <2>6 DEF TypeOK, StartsOK
  <2> QED BY <2>4, <2>6, <2>7, Zenon DEF CapacityAccounted
<1>5. CASE PersistInterrupts(i)
  <2>1. StartsOK' /\ Leased' = Leased
    BY <1>5, Zenon DEF PersistInterrupts, StartsOK, Leased
  <2>2. cleanup' \in [Interrupters -> CleanupRecord]
    BY <1>5, CleanupPcOK, Zenon DEF PersistInterrupts
  <2>3. sched' \in [Nodes -> Schedulings]
    BY <1>5, InterruptedOK DEF PersistInterrupts, TypeOK
  <2>4. used' \in [Operations -> Nat]
    BY <1>5, SpendOK, Zenon DEF PersistInterrupts, Operations, TypeOK
  <2>5. UNCHANGED <<approval, backlog, start, queues, reservations, admissionWorkers,
                 capacity, worker, workerErr, closing, fences, alive, lanes>>
    BY <1>5, Zenon DEF PersistInterrupts
  <2>6. TypeOK'
    BY <2>2, <2>3, <2>4, <2>5 DEF TypeOK
  <2> QED BY <2>1, <2>5, <2>6, Zenon DEF CapacityAccounted
<1>6. ASSUME NEW s \in Starts, FinishScope(i, s)
      PROVE  IInv'
  <2>1. StartsOK' /\ Leased' = Leased
    BY <1>6, Zenon DEF FinishScope, StartsOK, Leased
  <2>2. cleanup' \in [Interrupters -> CleanupRecord]
    <3> DEFINE c == [cleanup[i] EXCEPT !.scopes = cleanup[i].scopes \ {s}]
    <3>1. cleanup[i] \in CleanupRecord
      BY Zenon DEF TypeOK
    <3>2. c \in CleanupRecord
      BY <3>1, Zenon DEF CleanupRecord
    <3>3. cleanup' = [cleanup EXCEPT ![i] = c]
      BY <1>6, Zenon DEF FinishScope
    <3> HIDE DEF c
    <3> QED BY <3>2, <3>3, Zenon DEF TypeOK
  <2>3. TypeOK'
    BY <1>6, <2>2 DEF FinishScope, TypeOK
  <2> QED BY <1>6, <2>1, <2>3, Zenon DEF FinishScope, CapacityAccounted
<1>7. CASE FinishDrained(i)
  <2>1. StartsOK' /\ Leased' = Leased
    BY <1>7, Zenon DEF FinishDrained, StartsOK, Leased
  <2>2. cleanup' \in [Interrupters -> CleanupRecord]
    BY <1>7, CleanupPcOK, Zenon DEF FinishDrained
  <2>3. TypeOK'
    BY <1>7, <2>2 DEF FinishDrained, TypeOK
  <2> QED BY <1>7, <2>1, <2>3, Zenon DEF FinishDrained, CapacityAccounted
<1>8. CASE CleanupTimesOut(i)
  <2>1. StartsOK' /\ Leased' = Leased
    BY <1>8, Zenon DEF CleanupTimesOut, StartsOK, Leased
  <2>2. cleanup' \in [Interrupters -> CleanupRecord]
    <3> DEFINE c == [cleanup[i] EXCEPT !.pc = "verify", !.scopes = {}]
    <3>1. cleanup[i] \in CleanupRecord
      BY Zenon DEF TypeOK
    <3>2. c \in CleanupRecord
      BY <3>1 DEF CleanupRecord
    <3>3. cleanup' = [cleanup EXCEPT ![i] = c]
      BY <1>8 DEF CleanupTimesOut, TypeOK, CleanupRecord
    <3> HIDE DEF c
    <3> QED BY <3>2, <3>3, Zenon DEF TypeOK
  <2>3. used' \in [Operations -> Nat]
    BY <1>8, SpendOK, Zenon DEF CleanupTimesOut, Operations
  <2>4. fenceScope' \in [Starts -> Tasks \cup {None}]
    BY <1>8, Zenon DEF CleanupTimesOut, TypeOK
  <2>5. TypeOK'
    BY <1>8, <2>2, <2>3, <2>4 DEF CleanupTimesOut, TypeOK
  <2> QED BY <1>8, <2>1, <2>5, Zenon DEF CleanupTimesOut, CapacityAccounted
<1>9. CASE ReturnInterrupt(i)
  <2>1. StartsOK' /\ Leased' = Leased
    BY <1>9, Zenon DEF ReturnInterrupt, StartsOK, Leased
  <2>2. cleanup' \in [Interrupters -> CleanupRecord]
    BY <1>9, Zenon DEF ReturnInterrupt, TypeOK, CleanupRecord, NoCleanup
  <2>3. TypeOK'
    BY <1>9, <2>2 DEF ReturnInterrupt, TypeOK
  <2> QED BY <1>9, <2>1, <2>3, Zenon DEF ReturnInterrupt, CapacityAccounted
<1> QED
  BY <1>1, <1>2, <1>3, <1>4, <1>5, <1>6, <1>7, <1>8, <1>9 DEF InterruptStep
===============================================================================
