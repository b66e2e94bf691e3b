------------------------ MODULE CurrentNodeOrderProofs ------------------------
(*****************************************************************************)
(* Interrupts, operators and Close keep JInv.                                *)
(*****************************************************************************)
EXTENDS CurrentNodeStartProofs

USE DEF durable, queues, reservations, worker, closing, fences, lanes

-------------------------------------------------------------------------------
(* Interrupts. *)

\* Dropping queued starts with their keys keeps the queues in order.
LEMMA DrainOrders ==
  ASSUME IInv, QueuesOK, NEW D \in SUBSET Starts, \A q \in D : start[q].pc \in QueueStages,
         start' = [q \in Starts |-> IF q \in D THEN NoStart ELSE start[q]],
         explicitQueued' = explicitQueued \ {start[q].node : q \in D},
         queued' = queued \ {start[q].node : q \in D},
         UNCHANGED <<reservations, admissionWorkers>>
  PROVE  QueuesOK' /\ \A q \in Starts : KeepsPlace(q) /\ KeepsClosed(q) /\ Executes(q)
<1> DEFINE keys == {start[q].node : q \in D}
<1>1. \A n : n \in keys <=> \E q \in D : n = start[q].node
  BY Zenon
<1>2. explicitQueued' = explicitQueued \ keys /\ queued' = queued \ keys
  BY Zenon
<1> HIDE DEF keys
<1>3. /\ \A q \in D : start'[q].pc = "free" /\ start'[q].exec = "none" /\ ~Holds(start'[q])
      /\ \A q \in Starts \ D : start'[q] = start[q]
  BY NothingThere, Zenon DEF NoStart
<1>4. \A q \in Starts \ D : start[q].pc \in QueueStages => start[q].node \notin keys
  BY <1>1 DEF QueuesOK, QueuedOnce
<1>5. \A q \in Starts : Policed(start'[q])
  BY <1>3, Zenon DEF Policed, QueuesOK
<1>6. QueuedOnce'
  <2>1. \A s \in Starts : start'[s].pc = "explicit" => start'[s].node \in explicitQueued'
    BY <1>2, <1>3, <1>4, Zenon DEF QueuesOK, QueuedOnce, QueueStages
  <2>2. \A s \in Starts : start'[s].pc = "automatic" => start'[s].node \in queued'
    BY <1>2, <1>3, <1>4, Zenon DEF QueuesOK, QueuedOnce, QueueStages
  <2>3. \A n \in explicitQueued' : \E s \in Starts : start'[s].pc = "explicit" /\ start'[s].node = n
    BY <1>1, <1>2, <1>3 DEF QueuesOK, QueuedOnce
  <2>4. \A n \in queued' : \E s \in Starts : start'[s].pc = "automatic" /\ start'[s].node = n
    BY <1>1, <1>2, <1>3 DEF QueuesOK, QueuedOnce
  <2>5. \A r, s \in Starts : /\ start'[r].pc \in QueueStages /\ start'[s].pc \in QueueStages
                             /\ start'[r].node = start'[s].node
                             => r = s
    BY <1>3, Zenon DEF QueuesOK, QueuedOnce, QueueStages
  <2>6. \A s \in Starts : start'[s].pc \in QueueStages =>
          /\ explicitReservations'[start'[s].node] = None
          /\ automaticReservations'[start'[s].node] = None
    BY <1>3, Zenon DEF QueuesOK, QueuedOnce, QueueStages
  <2> QED BY <2>1, <2>2, <2>3, <2>4, <2>5, <2>6, Zenon DEF QueuedOnce
<1>7. \A q \in Starts : start[q].pc \in WorkerStages \cup Reserving => start'[q] = start[q]
  BY <1>3, Zenon DEF QueueStages, WorkerStages, Reserving
<1>8. WorkersRegistered'
  BY <1>7 DEF QueuesOK, WorkersRegistered
<1>9. ReservationsHeld'
  BY <1>7 DEF QueuesOK, ReservationsHeld, ReservedFor
<1>10. ASSUME NEW q \in Starts
       PROVE  KeepsPlace(q) /\ KeepsClosed(q) /\ Executes(q)
  BY <1>3, Zenon DEF KeepsPlace, KeepsClosed, Executes, QueueStages, WorkerStages, Waiting
<1> QED BY <1>5, <1>6, <1>8, <1>9, <1>10, Zenon DEF QueuesOK

\* A selection fences what it has selected or drained, and its cleanup owns that.
LEMMA SelectOrders ==
  ASSUME IInv, JInv, NEW i \in Interrupters, NEW t \in Tasks, NEW S \in SUBSET Starts,
         NEW D \in SUBSET Starts, NEW b \in BOOLEAN,
         \A s \in D : start[s].pc \in QueueStages,
         Select(i, t, S, D, b), used'["timeout"] = 0 => used["timeout"] = 0
  PROVE  JInv' /\ Frozen
<1> DEFINE keys == {start[s].node : s \in D}
           c == [pc |-> "stop", task |-> t, scopes |-> S, drained |-> keys,
                 refs |-> keys \cup {start[s].node : s \in S}, fenced |-> b]
<1>1. /\ cleanup[i] = NoCleanup /\ ~Closed
      /\ cleanup' = [cleanup EXCEPT ![i] = c]
      /\ fenceScope' = [s \in Starts |-> IF b /\ s \in S THEN t ELSE fenceScope[s]]
      /\ fenceNode' = fenceNode \cup keys
      /\ start' = [s \in Starts |-> IF s \in D THEN NoStart ELSE start[s]]
      /\ explicitQueued' = explicitQueued \ keys /\ queued' = queued \ keys
      /\ UNCHANGED <<durable, reservations, admissionWorkers, capacity, wake, loop, closer, alive>>
  BY Zenon DEF Select, TaskAvailable
<1>2. QueuesOK' /\ \A q \in Starts : KeepsPlace(q) /\ KeepsClosed(q) /\ Executes(q)
  BY <1>1, DrainOrders, Zenon DEF JInv
<1>3. WakeOK'
  BY <1>1, <1>2, QuietWake, Zenon DEF JInv, QueuesOK, Roused
<1>4. OneScopePerNode' /\ NothingLaunched
  BY <1>2, QuietScopes, NoLaunch, Zenon DEF JInv
<1>5. CloseOK'
  BY <1>1, <1>2, QuietClose, Zenon DEF JInv
<1>6. FencesOK'
  <2>1. c.pc = "stop" /\ c.task = t /\ c.scopes = S /\ c.drained = keys
    BY Zenon
  <2> HIDE DEF c, keys
  <2>2. cleanup'[i] = c /\ \A j \in Interrupters : j # i => cleanup'[j] = cleanup[j]
    BY <1>1, Zenon DEF IInv, TypeOK
  <2>3. cleanup[i].scopes = {} /\ cleanup[i].drained = {}
    BY <1>1 DEF NoCleanup
  <2>4. ASSUME used'["timeout"] = 0, NEW s \in Starts, fenceScope'[s] # None
        PROVE  \E j \in Interrupters : s \in cleanup'[j].scopes /\ cleanup'[j].task = fenceScope'[s]
    <3>1. CASE b /\ s \in S
      BY <1>1, <2>1, <2>2, <3>1
    <3>2. CASE ~(b /\ s \in S)
      BY <1>1, <2>2, <2>3, <2>4, <3>2 DEF JInv, FencesOK, FenceHasOwner
    <3> QED BY <3>1, <3>2, Zenon
  <2>5. ASSUME NEW n \in fenceNode'
        PROVE  \E j \in Interrupters : n \in cleanup'[j].drained
                                       /\ cleanup'[j].pc \notin {"idle", "verify"}
    <3>1. CASE n \in keys
      BY <2>1, <2>2, <3>1, Zenon
    <3>2. CASE n \in fenceNode
      BY <2>2, <2>3, <3>2, Zenon DEF JInv, FencesOK, FenceHasOwner
    <3> QED BY <1>1, <3>1, <3>2, Zenon
  <2>6. \A j \in Interrupters : cleanup'[j].pc \in {"idle", "verify"} => cleanup'[j].scopes = {}
    BY <2>1, <2>2, Zenon DEF JInv, FencesOK
  <2> QED BY <2>4, <2>5, <2>6, Zenon DEF FencesOK, FenceHasOwner
<1> QED BY <1>1, <1>2, <1>3, <1>4, <1>5, <1>6 DEF JInv, Frozen

\* What the next stage of a cleanup does.
LEMMA CleanupPc ==
  ASSUME TypeOK, NEW i \in Interrupters, NEW p, cleanup' = [cleanup EXCEPT ![i].pc = p]
  PROVE  /\ cleanup'[i].pc = p /\ cleanup'[i].task = cleanup[i].task
         /\ cleanup'[i].scopes = cleanup[i].scopes /\ cleanup'[i].drained = cleanup[i].drained
         /\ \A j \in Interrupters : j # i => cleanup'[j] = cleanup[j]
<1> DEFINE c == [cleanup[i] EXCEPT !.pc = p]
<1>1. cleanup[i] \in CleanupRecord
  BY Zenon DEF TypeOK
<1>2. cleanup' = [cleanup EXCEPT ![i] = c]
  BY Zenon
<1>3. /\ c.pc = p /\ c.task = cleanup[i].task
      /\ c.scopes = cleanup[i].scopes /\ c.drained = cleanup[i].drained
  BY <1>1, Zenon DEF CleanupRecord
<1> HIDE DEF c
<1> QED BY <1>2, <1>3, Zenon DEF TypeOK

\* A cleanup that has not finished goes on with its fence.
LEMMA CleanupGoesOn ==
  ASSUME IInv, FencesOK, NEW i \in Interrupters, NEW p, p \notin {"idle", "verify"},
         cleanup' = [cleanup EXCEPT ![i].pc = p], UNCHANGED fences,
         used'["timeout"] = 0 => used["timeout"] = 0
  PROVE  FencesOK'
<1>1. /\ cleanup'[i].pc = p /\ cleanup'[i].task = cleanup[i].task
      /\ cleanup'[i].scopes = cleanup[i].scopes /\ cleanup'[i].drained = cleanup[i].drained
      /\ \A j \in Interrupters : j # i => cleanup'[j] = cleanup[j]
  BY CleanupPc, Zenon DEF IInv
<1>2. ASSUME used'["timeout"] = 0, NEW s \in Starts, fenceScope'[s] # None
      PROVE  \E j \in Interrupters : s \in cleanup'[j].scopes /\ cleanup'[j].task = fenceScope'[s]
  BY <1>1, <1>2 DEF FencesOK, FenceHasOwner
<1>3. \A n \in fenceNode' : \E j \in Interrupters :
        n \in cleanup'[j].drained /\ cleanup'[j].pc \notin {"idle", "verify"}
  BY <1>1 DEF FencesOK, FenceHasOwner
<1>4. \A j \in Interrupters : cleanup'[j].pc \in {"idle", "verify"} => cleanup'[j].scopes = {}
  BY <1>1, Zenon DEF FencesOK
<1> QED BY <1>2, <1>3, <1>4, Zenon DEF FencesOK, FenceHasOwner

\* A cleanup that ends, without scopes, and whose drained Nodes are fenced no more.
LEMMA CleanupEnds ==
  ASSUME FencesOK, NEW i \in Interrupters, cleanup'[i].scopes = {},
         \A j \in Interrupters : j # i => cleanup'[j] = cleanup[j],
         fenceNode' = fenceNode \ cleanup[i].drained,
         \/ used'["timeout"] # 0
         \/ cleanup[i].scopes = {} /\ UNCHANGED <<fenceScope, used>>
  PROVE  FencesOK'
<1>1. ASSUME used'["timeout"] = 0, NEW s \in Starts, fenceScope'[s] # None
      PROVE  \E j \in Interrupters : s \in cleanup'[j].scopes /\ cleanup'[j].task = fenceScope'[s]
  BY <1>1 DEF FencesOK, FenceHasOwner
<1>2. \A n \in fenceNode' : \E j \in Interrupters :
        n \in cleanup'[j].drained /\ cleanup'[j].pc \notin {"idle", "verify"}
  BY DEF FencesOK, FenceHasOwner
<1>3. \A j \in Interrupters : cleanup'[j].pc \in {"idle", "verify"} => cleanup'[j].scopes = {}
  BY Zenon DEF FencesOK
<1> QED BY <1>1, <1>2, <1>3, Zenon DEF FencesOK, FenceHasOwner

\* Starts that are only told to stop.
LEMMA StopsMove ==
  ASSUME StartsOK, NEW q \in Starts,
         \/ start'[q] = start[q]
         \/ \E b \in BOOLEAN : start'[q] = [start[q] EXCEPT !.stop = b]
  PROVE  Moves(q) /\ Executes(q)
<1>1. CASE start'[q] = start[q]
  BY <1>1, Untouched, Zenon
<1>2. ASSUME NEW b \in BOOLEAN, start'[q] = [start[q] EXCEPT !.stop = b]
      PROVE  Moves(q) /\ Executes(q)
  <2>1. start[q] \in StartRecord
    BY Zenon DEF StartsOK
  <2>2. /\ start'[q].exec = start[q].exec /\ start'[q].pc = start[q].pc
        /\ start'[q].node = start[q].node /\ start'[q].lease = start[q].lease
        /\ start'[q].policy = start[q].policy
    BY <1>2, <2>1, Zenon DEF StartRecord
  <2> QED BY <2>2, Zenon DEF Moves, Stays, Holds, Executes
<1> QED BY <1>1, <1>2, Zenon

\* Every step of an interrupt keeps the invariant.
LEMMA InterruptStepOrders ==
  ASSUME IInv, JInv, NEW i \in Interrupters, InterruptStep(i)
  PROVE  JInv' /\ Frozen
<1>0. /\ \A t \in Tasks : Interruptible(t) \in SUBSET Starts
      /\ \A t \in Tasks : Drained(t) \in SUBSET Starts
      /\ \A t \in Tasks : \A s \in Drained(t) : start[s].pc \in QueueStages
  BY Zenon DEF Interruptible, Drained
<1>1. ASSUME NEW t \in Tasks, InterruptTask(i, t)
      PROVE  JInv' /\ Frozen
  <2>1. used'["timeout"] = 0 => used["timeout"] = 0
    BY <1>1, TimeoutsKept, Zenon DEF InterruptTask, Operations
  <2> QED BY <1>0, <1>1, <2>1, SelectOrders DEF InterruptTask
<1>2. ASSUME NEW t \in Tasks, InterruptForManualMove(i, t)
      PROVE  JInv' /\ Frozen
  <2>1. used'["timeout"] = 0 => used["timeout"] = 0
    BY <1>2, TimeoutsKept, Zenon DEF InterruptForManualMove, Operations
  <2> QED BY <1>0, <1>2, <2>1, SelectOrders DEF InterruptForManualMove
<1>3. ASSUME NEW t \in Tasks, InterruptSession(i, t)
      PROVE  JInv' /\ Frozen
  <2>1. used'["timeout"] = 0 => used["timeout"] = 0
    BY <1>3, TimeoutsKept, Zenon DEF InterruptSession, Operations
  <2>2. PICK s \in Interruptible(t) :
          Select(i, t, {r \in Interruptible(t) : Agent(r) /\ SessionOf[start[r].node] =
                                                             SessionOf[start[s].node]},
                 {}, FALSE)
    BY <1>3, Zenon DEF InterruptSession
  <2> DEFINE S == {r \in Interruptible(t) : Agent(r) /\ SessionOf[start[r].node] =
                                                        SessionOf[start[s].node]}
             D == {}
  <2>3. S \in SUBSET Starts /\ D \in SUBSET Starts /\ \A q \in D : start[q].pc \in QueueStages
    BY <1>0, Zenon
  <2>4. Select(i, t, S, D, FALSE)
    BY <2>2, Zenon
  <2> HIDE DEF S, D
  <2> QED BY <2>1, <2>3, <2>4, SelectOrders
<1>4. CASE RequestStops(i)
  <2>1. ASSUME NEW q \in Starts
        PROVE  Moves(q) /\ Executes(q)
    <3>0. start[q] \in StartRecord
      BY Zenon DEF IInv, StartsOK
    <3> DEFINE b == start[q].stop \/ start[q].exec # "none"
    <3>1. start'[q] = start[q] \/ start'[q] = [start[q] EXCEPT !.stop = b]
      BY <1>4, Zenon DEF RequestStops
    <3>2. b \in BOOLEAN
      BY Zenon
    <3> HIDE DEF b
    <3> QED BY <3>1, <3>2, StopsMove, Zenon DEF IInv
  <2>2. FencesOK'
    <3> DEFINE p == "persist"
    <3>1. cleanup' = [cleanup EXCEPT ![i].pc = p] /\ UNCHANGED <<fences, used>>
      BY <1>4, Zenon DEF RequestStops
    <3>2. p \notin {"idle", "verify"}
      BY Zenon
    <3> HIDE DEF p
    <3> QED BY <3>1, <3>2, CleanupGoesOn, Zenon DEF JInv
  <2>3. QuietQueueing
    BY <1>4, Zenon DEF RequestStops, QuietQueueing, Shrinks, Roused
  <2> QED BY <2>1, <2>2, <2>3, QuietButFencing, Zenon
<1>5. CASE PersistInterrupts(i)
  <2>1. \A q \in Starts : Moves(q) /\ Executes(q)
    BY <1>5, Untouched DEF PersistInterrupts
  <2>2. FencesOK'
    <3> DEFINE p == "wait"
    <3>1. cleanup' = [cleanup EXCEPT ![i].pc = p] /\ UNCHANGED fences
      BY <1>5, Zenon DEF PersistInterrupts
    <3>2. p \notin {"idle", "verify"}
      BY Zenon
    <3>3. used'["timeout"] = 0 => used["timeout"] = 0
      BY <1>5, TimeoutsKept, Zenon DEF PersistInterrupts, Operations
    <3> HIDE DEF p
    <3> QED BY <3>1, <3>2, <3>3, CleanupGoesOn, Zenon DEF JInv
  <2>3. QuietQueueing
    BY <1>5, Zenon DEF PersistInterrupts, QuietQueueing, Shrinks, Roused
  <2> QED BY <2>1, <2>2, <2>3, QuietButFencing
<1>6. ASSUME NEW s \in Starts, FinishScope(i, s)
      PROVE  JInv' /\ Frozen
  <2>1. \A q \in Starts : Moves(q) /\ Executes(q)
    BY <1>6, Untouched, Zenon DEF FinishScope
  <2>2. FencesOK'
    <3> DEFINE c == [cleanup[i] EXCEPT !.scopes = @ \ {s}]
    <3>1. cleanup' = [cleanup EXCEPT ![i] = c] /\ cleanup[i] \in CleanupRecord
      BY <1>6, Zenon DEF FinishScope, IInv, TypeOK
    <3>2. /\ c.pc = cleanup[i].pc /\ c.task = cleanup[i].task
          /\ c.scopes = cleanup[i].scopes \ {s} /\ c.drained = cleanup[i].drained
      BY <3>1, Zenon DEF CleanupRecord
    <3> HIDE DEF c
    <3>3. cleanup'[i] = c /\ \A j \in Interrupters : j # i => cleanup'[j] = cleanup[j]
      BY <3>1, Zenon DEF IInv, TypeOK
    <3>4. ASSUME used'["timeout"] = 0, NEW q \in Starts, fenceScope'[q] # None
          PROVE  \E j \in Interrupters : q \in cleanup'[j].scopes
                                         /\ cleanup'[j].task = fenceScope'[q]
      <4>1. q # s /\ fenceScope'[q] = fenceScope[q] /\ used["timeout"] = 0
        BY <1>6, <3>4, Zenon DEF FinishScope, IInv, TypeOK
      <4> QED BY <3>2, <3>3, <3>4, <4>1 DEF JInv, FencesOK, FenceHasOwner
    <3>5. \A n \in fenceNode' : \E j \in Interrupters :
            n \in cleanup'[j].drained /\ cleanup'[j].pc \notin {"idle", "verify"}
      BY <1>6, <3>2, <3>3 DEF FinishScope, JInv, FencesOK, FenceHasOwner
    <3>6. \A j \in Interrupters : cleanup'[j].pc \in {"idle", "verify"} => cleanup'[j].scopes = {}
      BY <3>2, <3>3, Zenon DEF JInv, FencesOK
    <3> QED BY <3>4, <3>5, <3>6 DEF FencesOK, FenceHasOwner
  <2>3. QuietQueueing
    BY <1>6, Zenon DEF FinishScope, QuietQueueing, Shrinks, Roused
  <2> QED BY <2>1, <2>2, <2>3, QuietButFencing
<1>7. CASE FinishDrained(i)
  <2>1. \A q \in Starts : Moves(q) /\ Executes(q)
    BY <1>7, Untouched, Zenon DEF FinishDrained
  <2>2. cleanup'[i].scopes = cleanup[i].scopes
        /\ \A j \in Interrupters : j # i => cleanup'[j] = cleanup[j]
    BY <1>7, CleanupPc, Zenon DEF FinishDrained, IInv
  <2>3. FencesOK'
    BY <1>7, <2>2, CleanupEnds, Zenon DEF FinishDrained, JInv
  <2>4. QuietQueueing
    BY <1>7 DEF FinishDrained, QuietQueueing, Shrinks, Roused
  <2> QED BY <2>1, <2>3, <2>4, QuietButFencing, Zenon
<1>8. CASE CleanupTimesOut(i)
  <2>1. \A q \in Starts : Moves(q) /\ Executes(q)
    BY <1>8, Untouched, Zenon DEF CleanupTimesOut
  <2>2. /\ cleanup' = [cleanup EXCEPT ![i].pc = "verify", ![i].scopes = {}]
        /\ fenceNode' = fenceNode \ cleanup[i].drained /\ Spend("timeout")
    BY <1>8, Zenon DEF CleanupTimesOut
  <2>3. cleanup'[i].scopes = {} /\ \A j \in Interrupters : j # i => cleanup'[j] = cleanup[j]
    BY <2>2 DEF IInv, TypeOK, CleanupRecord
  <2>4. used'["timeout"] # 0
    BY <2>2 DEF Spend, IInv, TypeOK, Operations
  <2>5. FencesOK'
    BY <2>2, <2>3, <2>4, CleanupEnds, Zenon DEF JInv
  <2>6. QuietQueueing
    BY <1>8, Zenon DEF CleanupTimesOut, QuietQueueing, Shrinks, Roused
  <2> QED BY <2>1, <2>5, <2>6, QuietButFencing, Zenon
<1>9. CASE ReturnInterrupt(i)
  <2>1. \A q \in Starts : Moves(q) /\ Executes(q)
    BY <1>9, Untouched, Zenon DEF ReturnInterrupt
  <2>2. /\ cleanup'[i] = NoCleanup /\ \A j \in Interrupters : j # i => cleanup'[j] = cleanup[j]
        /\ cleanup[i].pc = "verify" /\ cleanup[i].scopes = {}
        /\ UNCHANGED <<fences, used>>
    BY <1>9, Zenon DEF ReturnInterrupt, IInv, TypeOK, JInv, FencesOK
  <2>3. FencesOK'
    <3>1. cleanup'[i].scopes = {}
      BY <2>2 DEF NoCleanup
    <3>2. ASSUME used'["timeout"] = 0, NEW s \in Starts, fenceScope'[s] # None
          PROVE  \E j \in Interrupters : s \in cleanup'[j].scopes
                                         /\ cleanup'[j].task = fenceScope'[s]
      BY <2>2, <3>2 DEF JInv, FencesOK, FenceHasOwner
    <3>3. \A n \in fenceNode' : \E j \in Interrupters :
            n \in cleanup'[j].drained /\ cleanup'[j].pc \notin {"idle", "verify"}
      BY <2>2, Zenon DEF JInv, FencesOK, FenceHasOwner
    <3>4. \A j \in Interrupters : cleanup'[j].pc \in {"idle", "verify"} => cleanup'[j].scopes = {}
      BY <2>2, <3>1, Zenon DEF JInv, FencesOK
    <3> QED BY <3>2, <3>3, <3>4, Zenon DEF FencesOK, FenceHasOwner
  <2>4. QuietQueueing
    BY <1>9, Zenon DEF ReturnInterrupt, QuietQueueing, Shrinks, Roused
  <2> QED BY <2>1, <2>3, <2>4, QuietButFencing, Zenon
<1> QED BY <1>1, <1>2, <1>3, <1>4, <1>5, <1>6, <1>7, <1>8, <1>9 DEF InterruptStep

-------------------------------------------------------------------------------
(* Operators. *)

\* Moving starts from the automatic queue to the explicit one.
LEMMA PromoteOrders ==
  ASSUME IInv, QueuesOK, NEW S \in SUBSET Queue("automatic"), Promote(S),
         UNCHANGED <<reservations, admissionWorkers>>
  PROVE  QueuesOK' /\ \A q \in Starts : KeepsClosed(q) /\ Executes(q)
<1> DEFINE keys == {start[q].node : q \in S}
<1>1. \A n : n \in keys <=> \E q \in S : n = start[q].node
  BY Zenon
<1>2. explicitQueued' = explicitQueued \cup keys /\ queued' = queued \ keys
  BY Zenon DEF Promote
<1> HIDE DEF keys
<1>3. \A q \in S : q \in Starts /\ start[q].pc = "automatic" /\ ~Holds(start[q])
                   /\ start[q] \in StartRecord
  BY Zenon DEF Queue, IInv, StartsOK, WellFormed, Unlaunched, Admitting, QueueStages
<1>4. ASSUME NEW q \in S
      PROVE  /\ start'[q].pc = "explicit" /\ start'[q].policy = "explicit" /\ ~Holds(start'[q])
             /\ start'[q].node = start[q].node /\ start'[q].exec = start[q].exec
  <2>1. start'[q] = [start[q] EXCEPT !.pc = "explicit", !.policy = "explicit"]
    BY <1>3, Zenon DEF Promote
  <2> QED BY <1>3, <2>1, Zenon DEF StartRecord, Holds
<1>5. \A q \in Starts \ S : start'[q] = start[q]
  BY Zenon DEF Promote
<1>6. \A q \in Starts \ S : start[q].pc \in QueueStages => start[q].node \notin keys
  BY <1>1, <1>3 DEF QueuesOK, QueuedOnce, QueueStages
<1>7. \A q \in Starts : Policed(start'[q])
  BY <1>4, <1>5, Zenon DEF Policed, QueuesOK
<1>8. /\ \A q \in Starts : start'[q].node = start[q].node
      /\ \A q \in Starts : start'[q].pc \in QueueStages <=> start[q].pc \in QueueStages
  BY <1>3, <1>4, <1>5, Zenon DEF QueueStages
<1>9. QueuedOnce'
  <2>1. \A s \in Starts : start'[s].pc = "explicit" => start'[s].node \in explicitQueued'
    BY <1>1, <1>2, <1>4, <1>5 DEF QueuesOK, QueuedOnce
  <2>2. \A s \in Starts : start'[s].pc = "automatic" => start'[s].node \in queued'
    BY <1>2, <1>4, <1>5, <1>6 DEF QueuesOK, QueuedOnce, QueueStages
  <2>3. \A n \in explicitQueued' : \E s \in Starts : start'[s].pc = "explicit" /\ start'[s].node = n
    BY <1>1, <1>2, <1>3, <1>4, <1>5 DEF QueuesOK, QueuedOnce
  <2>4. \A n \in queued' : \E s \in Starts : start'[s].pc = "automatic" /\ start'[s].node = n
    BY <1>1, <1>2, <1>5 DEF QueuesOK, QueuedOnce
  <2>5. \A r, s \in Starts : /\ start'[r].pc \in QueueStages /\ start'[s].pc \in QueueStages
                             /\ start'[r].node = start'[s].node
                             => r = s
    BY <1>8 DEF QueuesOK, QueuedOnce
  <2>6. \A s \in Starts : start'[s].pc \in QueueStages =>
          /\ explicitReservations'[start'[s].node] = None
          /\ automaticReservations'[start'[s].node] = None
    BY <1>8 DEF QueuesOK, QueuedOnce
  <2> QED BY <2>1, <2>2, <2>3, <2>4, <2>5, <2>6, Zenon DEF QueuedOnce
<1>10. \A q \in Starts : start[q].pc \in WorkerStages \cup Reserving => start'[q] = start[q]
  BY <1>3, <1>5, Zenon DEF WorkerStages, Reserving
<1>11. WorkersRegistered'
  BY <1>10, Zenon DEF QueuesOK, WorkersRegistered
<1>12. ReservationsHeld'
  BY <1>10 DEF QueuesOK, ReservationsHeld, ReservedFor
<1>13. ASSUME NEW q \in Starts
       PROVE  KeepsClosed(q) /\ Executes(q)
  <2>1. CASE q \in S
    BY <1>3, <1>4, <2>1, Zenon DEF KeepsClosed, Executes, WorkerStages, Waiting, QueueStages
  <2>2. CASE q \notin S
    BY <1>5, <2>2, Zenon DEF KeepsClosed, Executes
  <2> QED BY <2>1, <2>2, Zenon
<1> QED BY <1>7, <1>9, <1>11, <1>12, <1>13, Zenon DEF QueuesOK

\* A promotion tells the worker unless nothing was promoted.
LEMMA PromoteStep ==
  ASSUME IInv, JInv, NEW S \in SUBSET Queue("automatic"), Promote(S), ~Closed,
         wake' \/ (S = {} /\ Roused),
         UNCHANGED <<reservations, admissionWorkers, loop, closer>>, QuietFencing
  PROVE  JInv' /\ Frozen
<1>1. QueuesOK' /\ \A q \in Starts : KeepsClosed(q) /\ Executes(q)
  BY PromoteOrders, Zenon DEF JInv
<1>2. WakeOK'
  <2>1. CASE wake'
    BY <2>1, Zenon DEF WakeOK
  <2>2. CASE S = {} /\ Roused
    <3>1. \A q \in Starts : start'[q] = start[q]
      BY <2>2, Zenon DEF Promote
    <3>2. \A q \in Starts : KeepsPlace(q)
      BY <3>1, Zenon DEF KeepsPlace
    <3> QED BY <2>2, <3>2, QuietWake, Zenon DEF JInv, QueuesOK
  <2> QED BY <2>1, <2>2, Zenon
<1> QED BY <1>1, <1>2, Requeued, Zenon

LEMMA ExplicitOK ==
  /\ Explicit \in StartRecord /\ Fresh(Explicit)
  /\ Explicit.pc = "explicit" /\ Explicit.policy = "explicit" /\ Explicit.exec = "none"
  /\ ~Holds(Explicit)
BY Zenon DEF Explicit, NoStart, StartRecord, Fresh, Holds, StartStages, QueueStages, Policies,
       Leases, ExecutionStages

\* queuePreparedStarts keeps the invariant.
LEMMA PreparedStartsStep ==
  ASSUME IInv, JInv, NEW T \in SUBSET Nodes, QueuePreparedStarts(T), ~Closed,
         UNCHANGED <<reservations, admissionWorkers, loop, closer>>, QuietFencing
  PROVE  JInv' /\ Frozen
<1> DEFINE f == Allocation(T)
           st == WithStarts(f, Explicit)
<1>1. Allocations(T) # {} /\ Enqueue(st, Allocated(f), "explicit") /\ wake'
  BY Zenon DEF QueuePreparedStarts
<1>2. st \in [Starts -> StartRecord]
  BY <1>1, ExplicitOK, WithStartsType, Zenon DEF IInv, StartsOK, TypeOK
<1>3. \A q \in Allocated(f) :
        /\ q \in Starts /\ start[q].pc = "free" /\ st[q].node \in Nodes
        /\ st[q].policy = Explicit.policy
        /\ st[q].exec = Explicit.exec /\ st[q].lease = Explicit.lease
  BY <1>1, ExplicitOK, WithStartsShape
<1>4. \A q \in Starts \ Allocated(f) : st[q] = start[q]
  BY WithStartsElse, Zenon
<1> HIDE DEF f, st
<1>5. Prepared(st, Allocated(f), "explicit")
  BY <1>2, <1>3, <1>4, ExplicitOK, Zenon DEF Prepared, Holds, Passive
<1> QED BY <1>1, <1>5, EnqueueStep, Zenon DEF QueueStages

\* Leaving the lane changes nothing the invariant is about.
LEMMA LaneLeft ==
  ASSUME NEW t \in Tasks, LeaveLane(t)
  PROVE  /\ UNCHANGED <<reservations, admissionWorkers, capacity, loop, closer, alive>>
         /\ QuietFencing
BY Zenon DEF LeaveLane, QuietFencing

\* An operation that only reconciles, and does not once the controller is closed.
LEMMA RefuseResumeOrders ==
  ASSUME IInv, JInv, NEW t \in Tasks, LeaveLane(t), RefuseResume(Reconciliation(t)),
         UNCHANGED <<approval, backlog>>
  PROVE  JInv' /\ Frozen
<1>1. /\ UNCHANGED <<reservations, admissionWorkers, capacity, loop, closer, alive>>
      /\ QuietFencing
  BY LaneLeft, Zenon
<1>2. UNCHANGED <<start, queues, wake>> /\ sched' = Reconciliation(t)
  BY Zenon DEF RefuseResume
<1>3. Closed => UNCHANGED sched
  BY <1>2, Zenon DEF Reconciliation, Quiescent, TaskAvailable
<1>4. QuietVars
  BY <1>1, <1>2, <1>3, Zenon DEF QuietVars, QuietQueueing, Shrinks, Roused
<1> QED BY <1>2, <1>4, QuietNone, Zenon

\* Queueing what an operation has prepared, in the lane it leaves.
LEMMA PreparedInLane ==
  ASSUME IInv, JInv, NEW t \in Tasks, LeaveLane(t), TaskAvailable(t), NEW T \in SUBSET Nodes,
         QueuePreparedStarts(T)
  PROVE  JInv' /\ Frozen
<1>1. /\ UNCHANGED <<reservations, admissionWorkers, capacity, loop, closer, alive>>
      /\ QuietFencing
  BY LaneLeft, Zenon
<1> QED BY <1>1, PreparedStartsStep, Zenon DEF TaskAvailable

\* An Approval sets its targets' starts aside until its second lane section.
LEMMA ApplyApprovalOrders ==
  ASSUME IInv, JInv, NEW n \in Nodes, ApplyApproval(n)
  PROVE  JInv' /\ Frozen
<1> DEFINE T == approval[n]
           f == Allocation(T)
           r == [Explicit EXCEPT !.pc = "approved", !.parent = n]
<1>1. /\ T # None /\ Allocations(T) # {} /\ ~Closed /\ start' = WithStarts(f, r)
      /\ UNCHANGED <<backlog, queues, reservations, admissionWorkers, capacity,
                     worker, workerErr, closing, fences, cleanup, alive, used>>
  BY Zenon DEF ApplyApproval, TaskAvailable
<1>2. T \in SUBSET Nodes
  BY <1>1, Zenon DEF IInv, TypeOK
<1>3. r \in StartRecord /\ r.pc = "approved" /\ r.policy = "explicit" /\ r.exec = "none" /\ ~Holds(r)
  BY Zenon DEF Explicit, NoStart, StartRecord, Holds, StartStages, Policies, Leases, ExecutionStages
<1>4. QuietVars
  BY <1>1, Zenon DEF QuietVars, QuietQueueing, QuietFencing, Shrinks, Roused
<1> HIDE DEF r
<1>5. \A q \in Allocated(f) :
        /\ q \in Starts /\ start[q].pc = "free"
        /\ start'[q].pc = r.pc /\ start'[q].policy = r.policy
        /\ start'[q].exec = r.exec /\ start'[q].lease = r.lease
  BY <1>1, <1>2, <1>3, WithStartsShape
<1>6. \A q \in Starts \ Allocated(f) : start'[q] = start[q]
  BY <1>1, WithStartsElse, Zenon
<1> HIDE DEF f
<1>7. ASSUME NEW q \in Starts
      PROVE  Moves(q) /\ Executes(q)
  <2>1. CASE q \in Allocated(f)
    BY <1>1, <1>3, <1>5, <2>1, Zenon DEF Moves, Aside, Policed, Holds, Passive, Executes
  <2>2. CASE q \notin Allocated(f)
    BY <1>6, <2>2, Untouched, Zenon
  <2> QED BY <2>1, <2>2, Zenon
<1> QED BY <1>4, <1>7, Quiet, Zenon

\* What waits between the two lane sections of an Approval.
LEMMA ApprovedShape ==
  ASSUME IInv, JInv, NEW n
  PROVE  /\ \A q \in Approved(n) :
              /\ q \in Starts /\ start[q].pc = "approved" /\ start[q].exec = "none"
              /\ ~Holds(start[q]) /\ start[q].node \in Nodes /\ start[q].policy = "explicit"
         /\ Approved(n) # {} => ~Closed
<1>1. \A q \in Approved(n) :
        /\ q \in Starts /\ start[q].pc = "approved" /\ start[q].exec = "none"
        /\ ~Holds(start[q]) /\ start[q].node \in Nodes /\ start[q].policy = "explicit"
  BY Zenon DEF Approved, IInv, StartsOK, WellFormed, Unlaunched, Admitting, QueueStages,
         JInv, QueuesOK, Policed
<1> QED BY <1>1, Zenon DEF JInv, CloseOK, Waiting

\* Every operator step keeps the invariant.
LEMMA OperatorStepOrders ==
  ASSUME IInv, JInv, OperatorStep
  PROVE  JInv' /\ Frozen
<1>1. ASSUME NEW t \in Tasks, NEW o \in {"start", "resume", "session", "move"}, EnterLane(t, o)
      PROVE  JInv' /\ Frozen
  <2>1. used'["timeout"] = 0 => used["timeout"] = 0
    BY <1>1, TimeoutsKept, Zenon DEF EnterLane, Operations
  <2>2. QuietVars /\ UNCHANGED start
    BY <1>1, <2>1, Zenon DEF EnterLane, QuietVars, QuietQueueing, QuietFencing, Shrinks, Roused
  <2> QED BY <2>2, QuietNone, Zenon
<1>2. ASSUME NEW t \in Tasks, Refuse(t)
      PROVE  JInv' /\ Frozen
  <2>1. /\ UNCHANGED <<reservations, admissionWorkers, capacity, loop, closer, alive>>
        /\ QuietFencing
    BY <1>2, LaneLeft, Zenon DEF Refuse
  <2>2. QuietVars /\ UNCHANGED start
    BY <1>2, <2>1, Zenon DEF Refuse, QuietVars, QuietQueueing, Shrinks, Roused
  <2> QED BY <2>2, QuietNone, Zenon
<1>3. ASSUME NEW t \in Tasks, StartTask(t)
      PROVE  JInv' /\ Frozen
  <2>1. {Entry[t]} \in SUBSET Nodes
    BY ControllerAssumption, Zenon
  <2> QED BY <1>3, <2>1, PreparedInLane, Zenon DEF StartTask, Quiescent
<1>4. ASSUME NEW t \in Tasks, NEW T \in Destinations(t), ApplyManualMove(t, T)
      PROVE  JInv' /\ Frozen
  <2>1. T \in SUBSET Nodes
    BY <1>4, ControllerAssumption DEF Destinations
  <2>2. QueuePreparedStarts(T) /\ LeaveLane(t) /\ TaskAvailable(t)
    BY <1>4, Zenon DEF ApplyManualMove, Quiescent
  <2> QED BY <2>1, <2>2, PreparedInLane, Zenon
<1>5. ASSUME NEW t \in Tasks, ResumeTask(t)
      PROVE  JInv' /\ Frozen
  <2> DEFINE sc == Reconciliation(t)
             R == Resumable(t, sc)
  <2>1. R \in SUBSET Nodes
    BY Zenon DEF Resumable, InterruptedNodes, NodesOf
  <2>2. /\ (TaskAvailable(t) /\ QueuePreparedStarts(R)) \/ RefuseResume(sc)
        /\ LeaveLane(t) /\ UNCHANGED <<approval, backlog>>
    BY <1>5, Zenon DEF ResumeTask, ApplyResume
  <2> HIDE DEF R
  <2> QED BY <2>1, <2>2, PreparedInLane, RefuseResumeOrders, Zenon
<1>6. ASSUME NEW n \in Nodes, SubmitToSession(n)
      PROVE  JInv' /\ Frozen
  <2> DEFINE t == TaskOf[n]
             sc == Reconciliation(t)
             S == {s \in Queue("automatic") : start[s].node = n}
  <2>1. /\ TaskAvailable(t) /\ LeaveLane(t) /\ UNCHANGED <<approval, backlog>>
        /\ \/ QueuePreparedStarts({n})
           \/ RefuseResume(sc)
           \/ Promote(S) /\ wake' = (wake \/ S # {})
    BY <1>6, Zenon DEF SubmitToSession, ApplyResume
  <2>2. t \in Tasks /\ {n} \in SUBSET Nodes
    BY ControllerAssumption, Zenon
  <2>3. ASSUME Promote(S), wake' = (wake \/ S # {})
        PROVE  JInv' /\ Frozen
    <3>1. /\ UNCHANGED <<reservations, admissionWorkers, capacity, loop, closer, alive>>
          /\ QuietFencing /\ ~Closed
      BY <2>1, <2>2, LaneLeft, Zenon DEF TaskAvailable
    <3>2. S \in SUBSET Queue("automatic")
      BY Zenon
    <3> HIDE DEF S
    <3>3. wake' \/ (S = {} /\ Roused)
      BY <2>3, <3>1, Zenon DEF Roused
    <3> QED BY <2>3, <3>1, <3>2, <3>3, PromoteStep, Zenon
  <2> HIDE DEF t, S
  <2> QED BY <2>1, <2>2, <2>3, PreparedInLane, RefuseResumeOrders, Zenon
<1>7. ASSUME NEW t \in Tasks, PromoteTask(t)
      PROVE  JInv' /\ Frozen
  <2> DEFINE S == {s \in Queue("automatic") : OfTask(s, t)}
  <2>1. used'["timeout"] = 0 => used["timeout"] = 0
    BY <1>7, TimeoutsKept, Zenon DEF PromoteTask, Operations
  <2>2. /\ Promote(S) /\ ~Closed /\ wake' /\ QuietFencing
        /\ UNCHANGED <<reservations, admissionWorkers, loop, closer>>
    BY <1>7, <2>1, Zenon DEF PromoteTask, QuietFencing
  <2>3. S \in SUBSET Queue("automatic")
    BY Zenon
  <2> HIDE DEF S
  <2> QED BY <2>2, <2>3, PromoteStep, Zenon
<1>8. ASSUME NEW n \in Nodes, QueueApproved(n)
      PROVE  JInv' /\ Frozen
  <2> DEFINE S == Approved(n)
  <2>1. /\ S # {} /\ Enqueue(start, S, "explicit")
        /\ wake' = (wake \/ Accepted(start, S) # {})
        /\ UNCHANGED <<durable, reservations, admissionWorkers, capacity, loop, closing,
                       fences, cleanup, alive, used>>
    BY <1>8, Zenon DEF QueueApproved
  <2>2. \A q \in S : /\ q \in Starts /\ start[q].pc = "approved" /\ start[q].exec = "none"
                     /\ ~Holds(start[q]) /\ start[q].node \in Nodes
                     /\ start[q].policy = "explicit"
    BY ApprovedShape, Zenon
  <2>3. ~Closed
    BY <2>1, ApprovedShape, Zenon
  <2> HIDE DEF S
  <2>4. Prepared(start, S, "explicit")
    BY <2>2, Zenon DEF Prepared, Passive, IInv, TypeOK
  <2>5. wake' \/ (Accepted(start, S) = {} /\ Roused)
    BY <2>1, Zenon DEF Roused
  <2>6. QuietFencing
    BY <2>1, Zenon DEF QuietFencing
  <2> QED BY <2>1, <2>3, <2>4, <2>5, <2>6, EnqueueStep DEF QueueStages
<1>9. ASSUME NEW n \in Nodes, ApprovalFails(n)
      PROVE  JInv' /\ Frozen
  <2> DEFINE H == Approved(n)
             E == {}
  <2>1. used'["timeout"] = 0 => used["timeout"] = 0
    BY <1>9, TimeoutsKept, Zenon DEF ApprovalFails, Operations
  <2>2. ~Closed /\ \A q \in H : q \in Starts /\ start[q].pc = "approved"
    BY <1>9, ApprovedShape, Zenon DEF ApprovalFails
  <2>3. QuietVars
    BY <1>9, <2>1, <2>2, Zenon DEF ApprovalFails, QuietVars, QuietQueueing, QuietFencing, Shrinks, Roused
  <2>4. start' = [s \in Starts |-> IF s \in H THEN NoStart ELSE start[s]]
    BY <1>9, Zenon DEF ApprovalFails
  <2> HIDE DEF H
  <2>5. /\ H \in SUBSET Starts /\ E \in SUBSET Starts
        /\ \A q \in H : start[q].pc \in {"held", "approved"} /\ start'[q] = NoStart
        /\ \A q \in E : start[q].exec = "continue" /\ start'[q] = [start[q] EXCEPT !.exec = "end"]
        /\ \A q \in Starts : q \in H \/ q \in E \/ start'[q] = start[q]
    BY <2>2, <2>4, Zenon
  <2> HIDE DEF E
  <2> QED BY <2>3, <2>5, DropAside, Zenon
<1> QED BY <1>1, <1>2, <1>3, <1>4, <1>5, <1>6, <1>7, <1>8, <1>9, ApplyApprovalOrders
        DEF OperatorStep

-------------------------------------------------------------------------------
(* Close. *)

\* Close goes on: the worker need not be told any more.
LEMMA CloserMoves ==
  ASSUME IInv, JInv, closer' # "none", CloseOK', QueuesOK', QuietFencing,
         UNCHANGED <<sched, approval, backlog>>, \A q \in Starts : Executes(q)
  PROVE  JInv' /\ Frozen
<1>1. WakeOK'
  BY Zenon DEF WakeOK
<1> QED BY <1>1, QuietScopes, QuietFences, NoLaunch DEF JInv, Frozen

\* Every step of Close keeps the invariant.
LEMMA CloseStepOrders ==
  ASSUME IInv, JInv, CloseStep
  PROVE  JInv' /\ Frozen
<1>1. ASSUME UNCHANGED <<durable, explicitQueued, queued, reservations, admissionWorkers>>,
             \A q \in Starts : Moves(q) /\ Executes(q), closer' # "none", CloseOK', QuietFencing
      PROVE  JInv' /\ Frozen
  <2>1. QueuesOK'
    BY <1>1, QuietQueues, Zenon DEF JInv, Shrinks
  <2> QED BY <1>1, <2>1, CloserMoves, Zenon
<1>2. ASSUME UNCHANGED start
      PROVE  \A q \in Starts : Moves(q) /\ Executes(q)
  BY <1>2, Untouched, Zenon
<1>3. CASE BeginClose
  <2>1. used'["timeout"] = 0 => used["timeout"] = 0
    BY <1>3, TimeoutsKept, Zenon DEF BeginClose, Operations
  <2>2. CloseOK' /\ QuietFencing
    BY <1>3, <2>1, Zenon DEF BeginClose, CloseOK, Closed, QuietFencing
  <2> QED BY <1>1, <1>2, <1>3, <2>2, Zenon DEF BeginClose
<1>4. CASE MarkClosed
  <2> DEFINE D == {s \in Starts : start[s].pc \in QueueStages}
             keys == {start[q].node : q \in D}
  <2>1. /\ start' = [s \in Starts |-> IF s \in D THEN NoStart ELSE start[s]]
        /\ explicitQueued' = {} /\ queued' = {} /\ closer' = "closed"
        /\ \A s \in Starts : start[s].pc # "approved"
        /\ UNCHANGED <<durable, reservations, admissionWorkers, fences, cleanup, used>>
    BY <1>4, Zenon DEF MarkClosed, Queue
  <2>2. \A n \in explicitQueued \cup queued : n \in keys
    BY DEF JInv, QueuesOK, QueuedOnce, QueueStages
  <2>3. D \in SUBSET Starts /\ \A q \in D : start[q].pc \in QueueStages
    BY Zenon
  <2>4. explicitQueued' = explicitQueued \ keys /\ queued' = queued \ keys
    <3> HIDE DEF keys
    <3> QED BY <2>1, <2>2, Zenon
  <2>5. \A q \in Starts : start'[q].pc \notin Waiting
    BY <2>1, Zenon DEF NoStart, Waiting, QueueStages
  <2> HIDE DEF D
  <2>6. QueuesOK' /\ \A q \in Starts : Executes(q)
    BY <2>1, <2>3, <2>4, DrainOrders, Zenon DEF JInv
  <2>7. CloseOK' /\ QuietFencing
    BY <2>1, <2>5, Zenon DEF CloseOK, QuietFencing
  <2> QED BY <2>1, <2>6, <2>7, CloserMoves
<1>5. CASE StopExecutions
  <2>1. ASSUME NEW q \in Starts
        PROVE  Moves(q) /\ Executes(q)
    <3>1. start'[q] = start[q] \/ start'[q] = [start[q] EXCEPT !.stop = TRUE]
      BY <1>5, Zenon DEF StopExecutions
    <3> QED BY <3>1, StopsMove, Zenon DEF IInv
  <2>2. CloseOK'
    <3>1. \A q \in Starts : start[q].pc \notin Waiting
      BY <1>5, Zenon DEF StopExecutions, Closed, JInv, CloseOK
    <3>2. \A q \in Starts : KeepsClosed(q)
      BY <2>1, MovesKeepPlace, Zenon
    <3> QED BY <1>5, <3>1, <3>2, Zenon DEF StopExecutions, KeepsClosed, CloseOK, Closed
  <2>3. QuietFencing
    BY <1>5, Zenon DEF StopExecutions, QuietFencing
  <2> QED BY <1>1, <1>5, <2>1, <2>2, <2>3, Zenon DEF StopExecutions
<1>6. CASE ExecutionsStopped
  <2>1. CloseOK' /\ QuietFencing
    BY <1>6, Zenon DEF ExecutionsStopped, JInv, CloseOK, Closed, QuietFencing
  <2> QED BY <1>1, <1>2, <1>6, <2>1 DEF ExecutionsStopped
<1>7. CASE CloseReturns
  <2>1. CloseOK' /\ QuietFencing
    BY <1>7, Zenon DEF CloseReturns, JInv, CloseOK, Closed, QuietFencing
  <2> QED BY <1>1, <1>2, <1>7, <2>1 DEF CloseReturns
<1> QED BY <1>3, <1>4, <1>5, <1>6, <1>7 DEF CloseStep
===============================================================================
