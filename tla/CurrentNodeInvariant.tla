------------------------- MODULE CurrentNodeInvariant -------------------------
(*****************************************************************************)
(* The inductive invariants of the controller.  IInv bounds what a start may *)
(* be and accounts for the leases; JInv says, on top of it, what the queues, *)
(* the reservations and the registered workers say of each other, when the   *)
(* worker may wait, which executions exclude each other, who owns a fence,   *)
(* and what Close leaves behind.                                             *)
(*****************************************************************************)
EXTENDS CurrentNodeController

-------------------------------------------------------------------------------
(* Types and capacity. *)

\* Stages in which admit has not returned yet, and those before a launch.
Admitting == {"prepare", "starting", "dropped", "refused", "broken"}

Unlaunched == {"free", "held", "approved"} \cup QueueStages \cup Admitting

Holds(r) == r.lease \in {"reservation", "live"}

\* A start that exists has a Node; nothing runs before it was launched; and a
\* lease is held only inside admit or by an execution that has not retired.
\* Without the last line a release could find the lease of a finished start.
WellFormed(r) ==
  /\ r.pc # "free" => r.node \in Nodes
  /\ r.pc \in Unlaunched => r.exec = "none"
  /\ Holds(r) => r.exec # "none" \/ r.pc \in Admitting

StartsOK ==
  /\ start \in [Starts -> StartRecord]
  /\ \A s \in Starts : WellFormed(start[s])

\* The inductive invariant.
IInv == TypeOK /\ StartsOK /\ CapacityAccounted

\* A start that has been given a Node but neither admission nor execution yet.
Fresh(r) == r.pc \in {"held", "approved", "explicit"} /\ r.exec = "none" /\ ~Holds(r)

-------------------------------------------------------------------------------
(* Queues, reservations, fences and Close. *)

\* Stages outside the queues and the admission goroutines; stages in which a
\* goroutine has not given its reservation back; stages Close empties.
Passive == {"free", "held", "approved", "done"}

Reserving == {"prepare", "starting", "launched", "dropped", "refused", "broken"}

Waiting == QueueStages \cup {"approved"}

\* A start waits in the queue of its policy, and only automatic ones hold a lease.
Policed(r) ==
  /\ r.pc \in {"explicit", "approved"} => r.policy = "explicit"
  /\ r.pc \in {"automatic", "held"} => r.policy # "explicit"
  /\ Holds(r) => r.policy # "explicit"

\* The two key sets and the queued starts determine each other, one start per
\* Node, and no queued Node is reserved.
QueuedOnce ==
  /\ \A s \in Starts : start[s].pc = "explicit" => start[s].node \in explicitQueued
  /\ \A s \in Starts : start[s].pc = "automatic" => start[s].node \in queued
  /\ \A n \in explicitQueued : \E s \in Starts : start[s].pc = "explicit" /\ start[s].node = n
  /\ \A n \in queued : \E s \in Starts : start[s].pc = "automatic" /\ start[s].node = n
  /\ \A r, s \in Starts : /\ start[r].pc \in QueueStages /\ start[s].pc \in QueueStages
                          /\ start[r].node = start[s].node
                          => r = s
  /\ \A s \in Starts : start[s].pc \in QueueStages =>
       /\ explicitReservations[start[s].node] = None
       /\ automaticReservations[start[s].node] = None

\* The registered worker of a Node is a goroutine of that Node.
WorkersRegistered ==
  \A n \in Nodes, s \in Starts :
    admissionWorkers[n] = s => start[s].node = n /\ start[s].pc \in WorkerStages

\* A reservation is held by the registered worker, of the reservation's kind, and
\* not past its release.
ReservedFor(n, s) ==
  start[s].node = n /\ start[s].pc \in Reserving /\ admissionWorkers[n] = s

ReservationsHeld ==
  \A n \in Nodes, s \in Starts :
    /\ explicitReservations[n] = s => ReservedFor(n, s) /\ start[s].policy = "explicit"
    /\ automaticReservations[n] = s => ReservedFor(n, s) /\ start[s].policy # "explicit"

QueuesOK ==
  /\ \A s \in Starts : Policed(start[s])
  /\ QueuedOnce /\ WorkersRegistered /\ ReservationsHeld

\* The worker looks at the explicit queue first; once it has passed it, or waits,
\* only a token, Close or the end of the process may leave something behind it.
ExplicitTakeable == Queue("explicit") # {} /\ InFlightExplicit < ExplicitConcurrency

WakeOK ==
  alive /\ ~wake /\ closer = "none" =>
    /\ loop \in {"automatic", "parked"} => ~ExplicitTakeable
    /\ loop = "parked" => Eligible = {}

\* An interrupt that no longer waits has no scopes left.
FencesOK ==
  /\ FenceHasOwner
  /\ \A i \in Interrupters : cleanup[i].pc \in {"idle", "verify"} => cleanup[i].scopes = {}

CloseOK ==
  /\ Closed => \A s \in Starts : start[s].pc \notin Waiting
  /\ closer = "done" => loop = "stopped" /\ \A s \in Starts : start[s].pc \notin WorkerStages

JInv == QueuesOK /\ WakeOK /\ OneScopePerNode /\ FencesOK /\ CloseOK
===============================================================================
