------------------------ MODULE CurrentNodeStartProofs ------------------------
(*****************************************************************************)
(* The few ways in which steps of the controller move starts, and what each  *)
(* keeps of JInv: allocating free starts, moving a start on without touching *)
(* the queues, and queueing prepared starts.                                 *)
(*****************************************************************************)
EXTENDS CurrentNodeInvariant, TLAPS

USE DEF durable, queues, reservations, worker, closing, fences, lanes

-------------------------------------------------------------------------------
(* What steps do. *)

\* It stays where it is.
Stays(q) ==
  /\ start'[q].pc = start[q].pc /\ start'[q].node = start[q].node
  /\ start'[q].policy = start[q].policy
  /\ Holds(start'[q]) => Holds(start[q])

\* Its admission goroutine goes on; past its release no reservation is its own.
Proceeds(q) ==
  /\ start[q].pc \in WorkerStages /\ start'[q].pc \in WorkerStages
  /\ start'[q].node = start[q].node /\ start'[q].policy = start[q].policy
  /\ Holds(start'[q]) => Holds(start[q])
  /\ \/ start'[q].pc \in Reserving
     \/ start[q].pc \notin Reserving
     \/ \A n \in Nodes : explicitReservations'[n] # q /\ automaticReservations'[n] # q

\* It changes outside the queues and the goroutines.
Aside(q) ==
  /\ start[q].pc \in Passive /\ start'[q].pc \in Passive
  /\ Policed(start'[q])
  /\ start'[q].pc = "approved" => start[q].pc = "approved" \/ ~Closed

Moves(q) == Stays(q) \/ Proceeds(q) \/ Aside(q)

\* Its execution goes on, or is gone: nothing is launched.
Onward(q) ==
  \/ /\ start[q].exec \in {"running", "continue", "fail", "finalizing"}
     /\ start'[q].exec \in {"finalizing", "continue", "fail", "end"}
     /\ start[q].exec = "finalizing" => ~Agent(q)
  \/ start[q].exec \in {"end", "cleaned"} /\ start'[q].exec \in {"cleaned", "retired"}

Executes(q) ==
  \/ start'[q].exec = "none"
  \/ /\ start'[q].node = start[q].node
     /\ start'[q].exec = start[q].exec \/ Onward(q)

Shrinks ==
  \A n \in Nodes : /\ explicitReservations'[n] \in {explicitReservations[n], None}
                   /\ automaticReservations'[n] \in {automaticReservations[n], None}

\* The worker is told, or there is nothing to tell.
Roused ==
  alive' /\ ~wake' /\ closer' = "none" =>
    alive /\ ~wake /\ closer = "none" /\ capacity' = capacity

QuietQueueing ==
  /\ UNCHANGED <<explicitQueued, queued, admissionWorkers, loop, closer>>
  /\ Closed => UNCHANGED <<sched, approval, backlog>>
  /\ Shrinks /\ Roused

QuietFencing ==
  /\ UNCHANGED <<cleanup, fenceScope>>
  /\ fenceNode' \subseteq fenceNode
  /\ used'["timeout"] = 0 => used["timeout"] = 0

QuietVars == QuietQueueing /\ QuietFencing

\* What ClosedIsFrozen says of one step.
NothingLaunched ==
  closer = "done" => \A s \in Starts : start[s].exec = "none" => start'[s].exec # "running"

Frozen ==
  /\ Closed /\ closer' # "none" => UNCHANGED <<sched, approval, backlog>>
  /\ NothingLaunched

\* What the queues need to know of a start for the worker to be in no hurry.
KeepsPlace(q) ==
  /\ start'[q].pc \in QueueStages => start'[q].pc = start[q].pc /\ start'[q].policy = start[q].policy
  /\ start[q].pc \in WorkerStages => start'[q].policy = start[q].policy

\* What Close needs to know of a start.
KeepsClosed(q) ==
  /\ start'[q].pc \in Waiting => start[q].pc \in Waiting \/ ~Closed
  /\ start'[q].pc \in WorkerStages => start[q].pc \in WorkerStages \/ closer # "done"

\* What the callers of Enqueue hand over: S are starts nothing else refers to, of
\* the queue's policy, and the others are as they were but for an execution that
\* has just queued its successors.
Prepared(st, S, queue) ==
  /\ st \in [Starts -> StartRecord] /\ S \subseteq Starts
  /\ \A q \in Starts \ S :
       /\ st[q].pc = start[q].pc /\ st[q].node = start[q].node
       /\ st[q].policy = start[q].policy /\ st[q].lease = start[q].lease
       /\ \/ st[q].exec = start[q].exec
          \/ start[q].exec = "continue" /\ st[q].exec = "end"
  /\ \A q \in S : /\ start[q].pc \in Passive
                  /\ st[q].node \in Nodes /\ st[q].exec = "none" /\ ~Holds(st[q])
                  /\ st[q].policy = "explicit" <=> queue = "explicit"

\* A new process.
Pristine ==
  /\ start = [s \in Starts |-> NoStart]
  /\ explicitQueued = {} /\ queued = {}
  /\ explicitReservations = [n \in Nodes |-> None]
  /\ automaticReservations = [n \in Nodes |-> None]
  /\ admissionWorkers = [n \in Nodes |-> None]
  /\ closer = "none"
  /\ fenceScope = [s \in Starts |-> None] /\ fenceNode = {}
  /\ cleanup = [i \in Interrupters |-> NoCleanup]

-------------------------------------------------------------------------------
(* Free starts. *)

\* A start that does not exist is free and holds nothing.
LEMMA NothingThere == NoStart.pc = "free" /\ NoStart.exec = "none" /\ ~Holds(NoStart)
BY Zenon DEF NoStart, Holds

\* New starts were free, have a Node, and take the rest from r.
LEMMA WithStartsShape ==
  ASSUME NEW T \in SUBSET Nodes, Allocations(T) # {}, NEW r \in StartRecord
  PROVE  LET f == Allocation(T) IN
         \A q \in Allocated(f) :
           /\ q \in Starts /\ start[q] = NoStart /\ start[q].pc = "free" /\ start[q].exec = "none"
           /\ WithStarts(f, r)[q] \in StartRecord /\ WithStarts(f, r)[q].node \in Nodes
           /\ WithStarts(f, r)[q].pc = r.pc /\ WithStarts(f, r)[q].policy = r.policy
           /\ WithStarts(f, r)[q].exec = r.exec /\ WithStarts(f, r)[q].lease = r.lease
<1> DEFINE f == Allocation(T)
           w == WithStarts(f, r)
<1>0. f \in Allocations(T)
  BY Zenon DEF Allocation
<1>1. DOMAIN f = T /\ Allocated(f) \subseteq FreeStarts
  BY <1>0, Zenon DEF Allocations, Allocated
<1> SUFFICES ASSUME NEW q \in Allocated(f)
             PROVE  /\ q \in Starts /\ start[q] = NoStart
                    /\ start[q].pc = "free" /\ start[q].exec = "none"
                    /\ w[q] \in StartRecord /\ w[q].node \in Nodes
                    /\ w[q].pc = r.pc /\ w[q].policy = r.policy
                    /\ w[q].exec = r.exec /\ w[q].lease = r.lease
  BY Zenon
<1>2. q \in Starts /\ start[q] = NoStart
  BY <1>1, Zenon DEF FreeStarts
<1> DEFINE n == CHOOSE m \in DOMAIN f : f[m] = q
<1>3. n \in Nodes
  BY <1>1, Zenon DEF Allocated
<1>4. w[q] = [r EXCEPT !.node = n]
  BY <1>2, Zenon DEF WithStarts
<1>5. start[q].pc = "free" /\ start[q].exec = "none"
  BY <1>2 DEF NoStart
<1> HIDE DEF n, f, w
<1>6. w[q] \in StartRecord
  BY <1>3, <1>4, Zenon DEF StartRecord
<1>7. /\ w[q].node \in Nodes /\ w[q].pc = r.pc /\ w[q].policy = r.policy
      /\ w[q].exec = r.exec /\ w[q].lease = r.lease
  BY <1>3, <1>4, Zenon DEF StartRecord
<1> QED BY <1>2, <1>5, <1>6, <1>7, Zenon

LEMMA WithStartsElse ==
  ASSUME NEW f, NEW r, NEW q \in Starts, q \notin Allocated(f)
  PROVE  WithStarts(f, r)[q] = start[q]
BY Zenon DEF WithStarts

LEMMA WithStartsType ==
  ASSUME start \in [Starts -> StartRecord], NEW T \in SUBSET Nodes, Allocations(T) # {},
         NEW r \in StartRecord
  PROVE  WithStarts(Allocation(T), r) \in [Starts -> StartRecord]
<1> DEFINE f == Allocation(T)
           w == WithStarts(f, r)
<1>1. w = [q \in Starts |-> w[q]]
  BY DEF WithStarts
<1>2. \A q \in Allocated(f) : w[q] \in StartRecord
  BY WithStartsShape, Zenon
<1>3. \A q \in Starts \ Allocated(f) : w[q] \in StartRecord
  BY WithStartsElse, Zenon
<1> HIDE DEF w
<1> QED BY <1>1, <1>2, <1>3, Zenon DEF w

-------------------------------------------------------------------------------
(* Steps that leave the queues alone. *)

\* Nothing enters or leaves a queue and no reservation is made.
LEMMA SameQueues ==
  ASSUME IInv, QueuedOnce, Shrinks, UNCHANGED <<explicitQueued, queued>>,
         \A q \in Starts : start'[q].pc \in QueueStages \/ start[q].pc \in QueueStages
           => start'[q].pc = start[q].pc /\ start'[q].node = start[q].node
  PROVE  QueuedOnce'
<1>1. \A q \in Starts : start[q].pc \in QueueStages => start[q].node \in Nodes
  BY Zenon DEF IInv, StartsOK, WellFormed, QueueStages
<1>2. /\ \A s \in Starts : start'[s].pc = "explicit" => start'[s].node \in explicitQueued'
      /\ \A s \in Starts : start'[s].pc = "automatic" => start'[s].node \in queued'
  BY Zenon DEF QueuedOnce, QueueStages
<1>3. \A n \in explicitQueued' : \E s \in Starts : start'[s].pc = "explicit" /\ start'[s].node = n
  BY DEF QueuedOnce, QueueStages
<1>4. \A n \in queued' : \E s \in Starts : start'[s].pc = "automatic" /\ start'[s].node = n
  BY DEF QueuedOnce, QueueStages
<1>5. \A r, s \in Starts : /\ start'[r].pc \in QueueStages /\ start'[s].pc \in QueueStages
                           /\ start'[r].node = start'[s].node
                           => r = s
  BY DEF QueuedOnce
<1>6. \A s \in Starts : start'[s].pc \in QueueStages =>
        /\ explicitReservations'[start'[s].node] = None
        /\ automaticReservations'[start'[s].node] = None
  BY <1>1 DEF QueuedOnce, Shrinks
<1> QED BY <1>2, <1>3, <1>4, <1>5, <1>6, Zenon DEF QueuedOnce

\* The queues, the reservations and the workers agree after such a step.
LEMMA QuietQueues ==
  ASSUME IInv, QueuesOK, Shrinks, UNCHANGED <<explicitQueued, queued, admissionWorkers>>,
         \A q \in Starts : Moves(q)
  PROVE  QueuesOK'
<1>1. ASSUME NEW q \in Starts
      PROVE  Policed(start'[q])
  BY Zenon DEF Moves, Stays, Proceeds, Aside, Policed, QueuesOK, WorkerStages
<1>2. ASSUME NEW q \in Starts, start'[q].pc \in QueueStages \/ start[q].pc \in QueueStages
      PROVE  start'[q].pc = start[q].pc /\ start'[q].node = start[q].node
  BY <1>2, Zenon DEF Moves, Stays, Proceeds, Aside, WorkerStages, QueueStages, Passive
<1>4. QueuedOnce'
  BY <1>2, SameQueues, Zenon DEF QueuesOK
<1>5. WorkersRegistered'
  BY DEF QueuesOK, WorkersRegistered, Moves, Stays, Proceeds, Aside, WorkerStages, Passive
<1>6. ReservationsHeld'
  <2> SUFFICES ASSUME NEW n \in Nodes, NEW s \in Starts
               PROVE  /\ explicitReservations'[n] = s =>
                           ReservedFor(n, s)' /\ start'[s].policy = "explicit"
                      /\ automaticReservations'[n] = s =>
                           ReservedFor(n, s)' /\ start'[s].policy # "explicit"
    BY Zenon DEF ReservationsHeld
  <2>1. /\ explicitReservations'[n] = s => explicitReservations[n] = s
        /\ automaticReservations'[n] = s => automaticReservations[n] = s
    BY ControllerAssumption, Zenon DEF Shrinks
  <2>2. ASSUME ReservedFor(n, s), explicitReservations'[n] = s \/ automaticReservations'[n] = s
        PROVE  ReservedFor(n, s)' /\ start'[s].policy = start[s].policy
    BY <2>2, Zenon DEF ReservedFor, Moves, Stays, Proceeds, Aside, Reserving, Passive
  <2> QED BY <2>1, <2>2, Zenon DEF QueuesOK, ReservationsHeld
<1> QED BY <1>1, <1>4, <1>5, <1>6, Zenon DEF QueuesOK

\* The worker may go on waiting after a step that takes no place in a queue and
\* frees neither a slot nor capacity without telling it.
LEMMA QuietWake ==
  ASSUME IInv, WorkersRegistered, WakeOK, Roused, UNCHANGED <<admissionWorkers, loop>>,
         \A q \in Starts : KeepsPlace(q)
  PROVE  WakeOK'
<1>1. Queue("explicit")' \subseteq Queue("explicit")
  BY Zenon DEF Queue, KeepsPlace, QueueStages
<1>2. ASSUME capacity' = capacity PROVE Eligible' \subseteq Eligible
  BY <1>2, Zenon DEF Eligible, Queue, AgentAvailable, KeepsPlace, QueueStages
<1>3. InFlightExplicit' = InFlightExplicit
  <2>1. ASSUME NEW n \in Nodes, admissionWorkers[n] # None
        PROVE  start'[admissionWorkers[n]].policy = start[admissionWorkers[n]].policy
    BY <2>1 DEF IInv, TypeOK, WorkersRegistered, KeepsPlace
  <2>2. {n \in Nodes : /\ admissionWorkers'[n] # None
                       /\ start'[admissionWorkers'[n]].policy = "explicit"}
        = {n \in Nodes : /\ admissionWorkers[n] # None
                         /\ start[admissionWorkers[n]].policy = "explicit"}
    BY <2>1, Zenon
  <2> QED BY <2>2, Zenon DEF InFlightExplicit
<1>4. ExplicitTakeable' => ExplicitTakeable
  BY <1>1, <1>3, Zenon DEF ExplicitTakeable
<1> QED BY <1>2, <1>4, Zenon DEF WakeOK, Roused

\* Executions that only go on exclude each other as before.
LEMMA QuietScopes ==
  ASSUME OneScopePerNode, \A q \in Starts : Executes(q)
  PROVE  OneScopePerNode'
<1>1. ASSUME NEW q \in Starts, Indexed(q)'
      PROVE  Indexed(q) /\ start'[q].node = start[q].node
  BY <1>1, Zenon DEF Executes, Onward, Indexed, Live, Agent
<1>2. ASSUME NEW q \in Starts, HoldsSession(q)'
      PROVE  HoldsSession(q) /\ start'[q].node = start[q].node
  BY <1>2, Zenon DEF Executes, Onward, HoldsSession, Agent
<1> QED BY <1>1, <1>2, Zenon DEF OneScopePerNode

\* Fences keep their owners when no interrupt makes a step.
LEMMA QuietFences ==
  ASSUME FencesOK, QuietFencing
  PROVE  FencesOK'
BY Zenon DEF QuietFencing, FencesOK, FenceHasOwner

\* What Close has emptied stays empty.
LEMMA QuietClose ==
  ASSUME CloseOK, UNCHANGED closer, loop = "stopped" => loop' = "stopped",
         \A q \in Starts : KeepsClosed(q)
  PROVE  CloseOK'
BY Zenon DEF CloseOK, Closed, KeepsClosed

LEMMA MovesKeepPlace ==
  ASSUME NEW q \in Starts, Moves(q)
  PROVE  KeepsPlace(q) /\ KeepsClosed(q)
<1>1. KeepsPlace(q)
  BY Zenon DEF Moves, Stays, Proceeds, Aside, KeepsPlace, QueueStages, WorkerStages, Passive
<1>2. KeepsClosed(q)
  BY Zenon DEF Moves, Stays, Proceeds, Aside, KeepsClosed, QueueStages, WorkerStages, Passive, Waiting
<1> QED BY <1>1, <1>2, Zenon

\* Executions that only go on launch nothing.
LEMMA NoLaunch ==
  ASSUME \A q \in Starts : Executes(q)
  PROVE  NothingLaunched
BY Zenon DEF Executes, Onward, NothingLaunched

\* A step whose launches and fences, if any, are accounted for separately.
LEMMA QuietCore ==
  ASSUME IInv, JInv, QuietQueueing, \A q \in Starts : Moves(q),
         OneScopePerNode', FencesOK', NothingLaunched
  PROVE  JInv' /\ Frozen
<1>1. \A q \in Starts : KeepsPlace(q) /\ KeepsClosed(q)
  BY MovesKeepPlace, Zenon
<1>2. QueuesOK'
  BY QuietQueues, Zenon DEF JInv, QuietQueueing
<1>3. WakeOK'
  BY <1>1, QuietWake, Zenon DEF JInv, QuietQueueing, QueuesOK
<1>4. CloseOK'
  BY <1>1, QuietClose, Zenon DEF JInv, QuietQueueing
<1> QED BY <1>2, <1>3, <1>4, Zenon DEF JInv, Frozen, QuietQueueing

\* A step that launches nothing and leaves the fences to their owners.
LEMMA Quiet ==
  ASSUME IInv, JInv, QuietVars, \A q \in Starts : Moves(q) /\ Executes(q)
  PROVE  JInv' /\ Frozen
BY QuietScopes, QuietFences, NoLaunch, QuietCore, Zenon DEF JInv, QuietVars

\* A step of an interrupt's cleanup.
LEMMA QuietButFencing ==
  ASSUME IInv, JInv, QuietQueueing, FencesOK', \A q \in Starts : Moves(q) /\ Executes(q)
  PROVE  JInv' /\ Frozen
BY QuietScopes, NoLaunch, QuietCore, Zenon DEF JInv

\* A start that keeps its record keeps its place.
LEMMA Untouched ==
  ASSUME NEW q \in Starts, start'[q] = start[q]
  PROVE  Moves(q) /\ Executes(q)
BY Zenon DEF Moves, Stays, Executes

\* A step of one start alone.
LEMMA QuietOne ==
  ASSUME IInv, JInv, QuietVars, NEW s \in Starts, Moves(s), Executes(s),
         \A q \in Starts : q # s => start'[q] = start[q]
  PROVE  JInv' /\ Frozen
BY Untouched, Quiet, Zenon

\* A step of none.
LEMMA QuietNone ==
  ASSUME IInv, JInv, QuietVars, UNCHANGED start
  PROVE  JInv' /\ Frozen
BY Untouched, Quiet, Zenon

\* What replacing the record of one start does.
LEMMA OneChange ==
  ASSUME StartsOK, NEW s \in Starts, NEW r, start' = [start EXCEPT ![s] = r]
  PROVE  start'[s] = r /\ \A q \in Starts : q # s => start'[q] = start[q]
BY Zenon DEF StartsOK

\* What a goroutine's next stage does.
LEMMA PcChange ==
  ASSUME StartsOK, NEW s \in Starts, NEW p, start' = [start EXCEPT ![s].pc = p]
  PROVE  /\ start'[s].pc = p /\ start'[s].node = start[s].node
         /\ start'[s].policy = start[s].policy /\ start'[s].exec = start[s].exec
         /\ start'[s].lease = start[s].lease
         /\ \A q \in Starts : q # s => start'[q] = start[q]
<1> DEFINE r == [start[s] EXCEPT !.pc = p]
<1>1. start[s] \in StartRecord
  BY Zenon DEF StartsOK
<1>2. start' = [start EXCEPT ![s] = r]
  BY Zenon
<1>3. /\ r.pc = p /\ r.node = start[s].node /\ r.policy = start[s].policy
      /\ r.exec = start[s].exec /\ r.lease = start[s].lease
  BY <1>1, Zenon DEF StartRecord
<1> HIDE DEF r
<1> QED BY <1>2, <1>3, OneChange

\* What an execution's next stage does.
LEMMA ExecChange ==
  ASSUME StartsOK, NEW s \in Starts, NEW x, start' = [start EXCEPT ![s].exec = x]
  PROVE  /\ start'[s].exec = x /\ start'[s].node = start[s].node
         /\ start'[s].policy = start[s].policy /\ start'[s].pc = start[s].pc
         /\ start'[s].lease = start[s].lease
         /\ \A q \in Starts : q # s => start'[q] = start[q]
<1> DEFINE r == [start[s] EXCEPT !.exec = x]
<1>1. start[s] \in StartRecord
  BY Zenon DEF StartsOK
<1>2. start' = [start EXCEPT ![s] = r]
  BY Zenon
<1>3. /\ r.exec = x /\ r.node = start[s].node /\ r.policy = start[s].policy
      /\ r.pc = start[s].pc /\ r.lease = start[s].lease
  BY <1>1, Zenon DEF StartRecord
<1> HIDE DEF r
<1> QED BY <1>2, <1>3, OneChange

\* Counting an operation never resets the count of the time-outs.
LEMMA TimeoutsKept ==
  ASSUME IInv, NEW o \in Operations, Spend(o)
  PROVE  used'["timeout"] = 0 => used["timeout"] = 0
BY DEF IInv, TypeOK, Spend, Operations

\* Starts that were set aside are dropped; one execution may end with them.
LEMMA DropAside ==
  ASSUME IInv, JInv, QuietVars, NEW H \in SUBSET Starts, NEW E \in SUBSET Starts,
         \A q \in H : start[q].pc \in {"held", "approved"} /\ start'[q] = NoStart,
         \A q \in E : /\ start[q].exec = "continue"
                      /\ start'[q] = [start[q] EXCEPT !.exec = "end"],
         \A q \in Starts : q \in H \/ q \in E \/ start'[q] = start[q]
  PROVE  JInv' /\ Frozen
<1>1. ASSUME NEW q \in Starts
      PROVE  Moves(q) /\ Executes(q)
  <2>1. CASE q \in H
    <3>1. start'[q].pc = "free" /\ start'[q].exec = "none" /\ ~Holds(start'[q])
      BY <2>1, NothingThere DEF NoStart
    <3> QED BY <2>1, <3>1, Zenon DEF Moves, Aside, Policed, Passive, Executes
  <2>2. CASE q \in E
    <3>1. start[q] \in StartRecord
      BY Zenon DEF IInv, StartsOK
    <3>2. /\ start'[q].exec = "end" /\ start'[q].pc = start[q].pc
          /\ start'[q].node = start[q].node /\ start'[q].lease = start[q].lease
          /\ start'[q].policy = start[q].policy
      BY <2>2, <3>1 DEF StartRecord
    <3> QED BY <2>2, <3>2, Zenon DEF Moves, Stays, Holds, Executes, Onward
  <2>3. CASE start'[q] = start[q]
    BY <2>3, Untouched, Zenon
  <2> QED BY <2>1, <2>2, <2>3, Zenon
<1> QED BY <1>1, Quiet, Zenon

-------------------------------------------------------------------------------
(* Queueing starts. *)

\* A step that changes the queues and launches nothing.
LEMMA Requeued ==
  ASSUME IInv, JInv, QueuesOK', WakeOK', QuietFencing, UNCHANGED <<loop, closer>>,
         Closed => UNCHANGED <<sched, approval, backlog>>,
         \A q \in Starts : Executes(q) /\ KeepsClosed(q)
  PROVE  JInv' /\ Frozen
BY QuietScopes, QuietFences, QuietClose, NoLaunch, Zenon DEF JInv, Frozen

\* The starts a queue takes are of different Nodes, none of which is owned.
LEMMA AcceptedOnce ==
  ASSUME NEW st, NEW S
  PROVE  /\ Accepted(st, S) \subseteq S
         /\ \A q \in Accepted(st, S) : ~CurrentNodeOwned(st[q].node)
         /\ \A r, q \in Accepted(st, S) : st[r].node = st[q].node => r = q
<1> DEFINE Rep(n) == CHOOSE r \in S : st[r].node = n
<1>1. ASSUME NEW q \in Accepted(st, S)
      PROVE  q \in S /\ ~CurrentNodeOwned(st[q].node) /\ q = Rep(st[q].node)
  BY Zenon DEF Accepted
<1> HIDE DEF Rep
<1> QED BY <1>1, Zenon

\* What Enqueue makes of each start.
LEMMA EnqueueShape ==
  ASSUME NEW st, NEW S, NEW queue \in QueueStages, Prepared(st, S, queue), Enqueue(st, S, queue)
  PROVE  /\ \A q \in Accepted(st, S) :
              /\ start'[q].pc = queue /\ start'[q].node = st[q].node
              /\ start'[q].policy = st[q].policy /\ ~Holds(start'[q])
              /\ start'[q].exec = "none"
         /\ \A q \in S \ Accepted(st, S) : start'[q] = NoStart
         /\ \A q \in Starts \ S : start'[q] = st[q]
<1> DEFINE A == Accepted(st, S)
           g == [s \in Starts |->
                  CASE s \in A -> [st[s] EXCEPT !.pc = queue, !.parent = None]
                    [] s \in S \ A -> NoStart
                    [] OTHER -> st[s]]
<1>1. A \subseteq S /\ S \subseteq Starts
  BY AcceptedOnce, Zenon DEF Prepared
<1>2. start' = g
  BY Zenon DEF Enqueue
<1> HIDE DEF A
<1>3. ASSUME NEW q \in A
      PROVE  /\ start'[q].pc = queue /\ start'[q].node = st[q].node
             /\ start'[q].policy = st[q].policy /\ ~Holds(start'[q])
             /\ start'[q].exec = "none"
  <2>1. g[q] = [st[q] EXCEPT !.pc = queue, !.parent = None]
    BY <1>1, Zenon
  <2>2. st[q] \in StartRecord /\ st[q].exec = "none" /\ ~Holds(st[q])
    BY <1>1, Zenon DEF Prepared
  <2> HIDE DEF g
  <2>3. /\ g[q].pc = queue /\ g[q].node = st[q].node /\ g[q].policy = st[q].policy
        /\ g[q].exec = st[q].exec /\ g[q].lease = st[q].lease
    BY <2>1, <2>2, Zenon DEF StartRecord
  <2> QED BY <1>2, <2>2, <2>3, Zenon DEF Holds
<1>4. \A q \in S \ A : start'[q] = NoStart
  BY <1>1, <1>2, Zenon
<1>5. \A q \in Starts \ S : start'[q] = st[q]
  BY <1>1, <1>2, Zenon
<1> QED BY <1>3, <1>4, <1>5, Zenon DEF A

\* The queues, the reservations and the workers agree after queueing.
LEMMA EnqueueOrders ==
  ASSUME IInv, QueuesOK, NEW st, NEW S, NEW queue \in QueueStages, Prepared(st, S, queue),
         Enqueue(st, S, queue), UNCHANGED <<reservations, admissionWorkers>>
  PROVE  QueuesOK'
<1> DEFINE A == Accepted(st, S)
           keys == {st[s].node : s \in A}
<1>1. /\ A \subseteq S /\ S \subseteq Starts
      /\ \A q \in A : ~CurrentNodeOwned(st[q].node)
      /\ \A r, q \in A : st[r].node = st[q].node => r = q
  BY AcceptedOnce, Zenon DEF Prepared
<1>2. /\ \A q \in A : /\ start'[q].pc = queue /\ start'[q].node = st[q].node
                      /\ start'[q].policy = st[q].policy /\ ~Holds(start'[q])
      /\ \A q \in S \ A : start'[q] = NoStart
      /\ \A q \in Starts \ S : start'[q] = st[q]
  BY EnqueueShape
<1>3. /\ explicitQueued' = IF queue = "explicit" THEN explicitQueued \cup keys ELSE explicitQueued
      /\ queued' = IF queue = "automatic" THEN queued \cup keys ELSE queued
  BY Zenon DEF Enqueue
<1> HIDE DEF A
<1>4. \A n : n \in keys <=> \E s \in A : n = st[s].node
  BY Zenon
<1> HIDE DEF keys
<1>5. /\ \A q \in Starts \ S : /\ start'[q].pc = start[q].pc /\ start'[q].node = start[q].node
                               /\ start'[q].policy = start[q].policy
                               /\ Holds(start'[q]) <=> Holds(start[q])
      /\ \A q \in S : start[q].pc \in Passive
      /\ \A q \in A : st[q].node \in Nodes /\ (st[q].policy = "explicit" <=> queue = "explicit")
  BY <1>1, <1>2 DEF Prepared, Holds
<1>6. \A q \in S \ A : start'[q].pc = "free" /\ ~Holds(start'[q])
  BY <1>2, NothingThere DEF NoStart
<1>7. ASSUME NEW q \in Starts
      PROVE  Policed(start'[q])
  <2>1. CASE q \in A
    BY <1>2, <1>5, <2>1, Zenon DEF Policed, QueueStages
  <2>2. CASE q \in S \ A
    BY <1>6, <2>2, Zenon DEF Policed
  <2>3. CASE q \in Starts \ S
    BY <1>5, <2>3, Zenon DEF Policed, QueuesOK
  <2> QED BY <2>1, <2>2, <2>3, Zenon
<1>8. /\ \A q \in Starts : start[q].pc \in QueueStages \cup WorkerStages =>
           q \notin S /\ start'[q].pc = start[q].pc /\ start'[q].node = start[q].node
      /\ \A q \in Starts : start'[q].pc \in QueueStages =>
           \/ q \in A
           \/ start'[q].pc = start[q].pc /\ start'[q].node = start[q].node
  BY <1>5, <1>6, Zenon DEF QueueStages, WorkerStages, Passive
<1>9. \A n \in keys : /\ n \in Nodes /\ n \notin explicitQueued /\ n \notin queued
                      /\ explicitReservations[n] = None /\ automaticReservations[n] = None
  BY <1>1, <1>4, <1>5 DEF CurrentNodeOwned
<1>10. \A q \in A : q \in Starts /\ start'[q].node \in keys /\ start'[q].pc = queue
  BY <1>1, <1>2, <1>4, Zenon
<1>11. QueuedOnce'
  <2>1. \A s \in Starts : start'[s].pc = "explicit" => start'[s].node \in explicitQueued'
    BY <1>3, <1>8, <1>10, Zenon DEF QueuesOK, QueuedOnce, QueueStages
  <2>2. \A s \in Starts : start'[s].pc = "automatic" => start'[s].node \in queued'
    BY <1>3, <1>8, <1>10 DEF QueuesOK, QueuedOnce, QueueStages
  <2>3. \A n \in keys : \E s \in Starts : start'[s].pc = queue /\ start'[s].node = n
    BY <1>1, <1>2, <1>4
  <2>4. \A n \in explicitQueued : \E s \in Starts : start'[s].pc = "explicit" /\ start'[s].node = n
    BY <1>8 DEF QueuesOK, QueuedOnce, QueueStages
  <2>5. \A n \in queued : \E s \in Starts : start'[s].pc = "automatic" /\ start'[s].node = n
    BY <1>8 DEF QueuesOK, QueuedOnce, QueueStages
  <2>6. \A n \in explicitQueued' : \E s \in Starts : start'[s].pc = "explicit" /\ start'[s].node = n
    BY <1>3, <2>3, <2>4, Zenon
  <2>7. \A n \in queued' : \E s \in Starts : start'[s].pc = "automatic" /\ start'[s].node = n
    BY <1>3, <2>3, <2>5, Zenon
  <2>8. \A s \in Starts : start[s].pc \in QueueStages => start[s].node \in explicitQueued \cup queued
    BY Zenon DEF QueuesOK, QueuedOnce, QueueStages
  <2>9. ASSUME NEW r \in Starts, NEW s \in Starts, start'[r].pc \in QueueStages,
               start'[s].pc \in QueueStages, start'[r].node = start'[s].node
        PROVE  r = s
    <3>1. CASE r \in A /\ s \in A
      BY <1>1, <1>2, <2>9, <3>1
    <3>2. CASE r \in A /\ s \notin A
      BY <1>8, <1>9, <1>10, <2>8, <2>9, <3>2, Zenon
    <3>3. CASE r \notin A /\ s \in A
      BY <1>8, <1>9, <1>10, <2>8, <2>9, <3>3, Zenon
    <3>4. CASE r \notin A /\ s \notin A
      BY <1>8, <2>9, <3>4 DEF QueuesOK, QueuedOnce
    <3> QED BY <3>1, <3>2, <3>3, <3>4, Zenon
  <2>10. \A s \in Starts : start'[s].pc \in QueueStages =>
           /\ explicitReservations'[start'[s].node] = None
           /\ automaticReservations'[start'[s].node] = None
    BY <1>8, <1>9, <1>10 DEF QueuesOK, QueuedOnce
  <2> QED BY <2>1, <2>2, <2>6, <2>7, <2>9, <2>10, Zenon DEF QueuedOnce
<1>12. WorkersRegistered'
  BY <1>8, Zenon DEF QueuesOK, WorkersRegistered
<1>13. ReservationsHeld'
  <2>1. \A q \in Starts : start[q].pc \in Reserving =>
          /\ start'[q].pc = start[q].pc /\ start'[q].node = start[q].node
          /\ start'[q].policy = start[q].policy
    BY <1>5, Zenon DEF Reserving, Passive
  <2> QED BY <2>1 DEF QueuesOK, ReservationsHeld, ReservedFor
<1> QED BY <1>7, <1>11, <1>12, <1>13, Zenon DEF QueuesOK

\* Queueing keeps the invariant: the worker is told unless nothing was queued.
LEMMA EnqueueStep ==
  ASSUME IInv, JInv, NEW st, NEW S, NEW queue \in QueueStages, Prepared(st, S, queue),
         Enqueue(st, S, queue), ~Closed, wake' \/ (Accepted(st, S) = {} /\ Roused),
         UNCHANGED <<reservations, admissionWorkers, loop, closer>>, QuietFencing
  PROVE  JInv' /\ Frozen
<1> DEFINE A == Accepted(st, S)
<1>1. A \subseteq S /\ S \subseteq Starts
  BY AcceptedOnce, Zenon DEF Prepared
<1>2. /\ \A q \in A : start'[q].pc = queue /\ start'[q].exec = "none"
      /\ \A q \in S \ A : start'[q] = NoStart
      /\ \A q \in Starts \ S : start'[q] = st[q]
  BY EnqueueShape
<1>3. \A q \in S \ A : start'[q].pc = "free" /\ start'[q].exec = "none"
  BY <1>2 DEF NoStart
<1>4. QueuesOK'
  BY EnqueueOrders, Zenon DEF JInv
<1>5. ASSUME NEW q \in Starts
      PROVE  Executes(q) /\ KeepsClosed(q)
  <2>1. CASE q \in S
    BY <1>2, <1>3, <2>1, Zenon DEF Executes, KeepsClosed, QueueStages, WorkerStages
  <2>2. CASE q \notin S
    BY <1>2, <2>2 DEF Prepared, Executes, Onward, KeepsClosed
  <2> QED BY <2>1, <2>2, Zenon
<1>6. WakeOK'
  <2>1. CASE wake'
    BY <2>1, Zenon DEF WakeOK
  <2>2. CASE A = {} /\ Roused
    <3>1. ASSUME NEW q \in Starts
          PROVE  KeepsPlace(q)
      BY <1>2, <1>3, <2>2 DEF Prepared, KeepsPlace, QueueStages, WorkerStages, Passive
    <3> QED BY <2>2, <3>1, QuietWake, Zenon DEF JInv, QueuesOK
  <2> QED BY <2>1, <2>2, Zenon
<1> QED BY <1>4, <1>5, <1>6, Requeued, Zenon
===============================================================================
