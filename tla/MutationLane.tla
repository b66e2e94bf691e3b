----------------------------- MODULE MutationLane -----------------------------
(***************************************************************************)
(* server/mutationlane: a registry of reference-counted read/write lanes,  *)
(* one per key, created on first use and dropped with the last reference.  *)
(* Every Workflow Task mutation runs inside the lane of its Task.          *)
(*                                                                         *)
(* The registry mutex is held across the two halves of a Release, so it is *)
(* a variable.  An entry's own mutex guards single steps only.             *)
(***************************************************************************)
EXTENDS Integers, FiniteSets

CONSTANTS Keys,      \* lane keys (Task identities)
          Callers,   \* goroutines, each inside at most one Acquire ... Release
          Entries,   \* heap objects a mutationLaneEntry can occupy
          NoEntry,   \* the nil *mutationLaneEntry
          NoCaller   \* the registry mutex is free

ASSUME LaneAssumption ==
  /\ IsFiniteSet(Callers)
  /\ NoEntry \notin Entries
  /\ NoCaller \notin Callers

VARIABLES
  registryMu,  \* holder of MutationLaneRegistry.mu between two steps
  entries,     \* MutationLaneRegistry.entries
  refs,        \* mutationLaneEntry.refs
  readers,     \* mutationLaneEntry.readers
  exclusive,   \* the entries whose exclusive flag is set
  woken,       \* callers whose captured `changed` channel has been closed
  pc,          \* where each caller is
  key, mode, entry  \* each caller's key, lease mode and captured entry

vars == <<registryMu, entries, refs, readers, exclusive, woken, pc, key, mode, entry>>

Modes == {"shared", "exclusive"}
Steps == {"idle", "trying", "waiting", "held", "releasing", "panicked"}

TypeOK ==
  /\ registryMu \in Callers \cup {NoCaller}
  /\ entries \in [Keys -> Entries \cup {NoEntry}]
  /\ refs \in [Entries -> Nat]
  /\ readers \in [Entries -> Nat]
  /\ exclusive \in SUBSET Entries
  /\ woken \in SUBSET Callers
  /\ pc \in [Callers -> Steps]
  /\ key \in [Callers -> Keys]
  /\ mode \in [Callers -> Modes]
  /\ entry \in [Callers -> Entries \cup {NoEntry}]

Init ==
  /\ registryMu = NoCaller
  /\ entries = [k \in Keys |-> NoEntry]
  /\ refs = [e \in Entries |-> 0]
  /\ readers = [e \in Entries |-> 0]
  /\ exclusive = {}
  /\ woken = {}
  /\ pc = [c \in Callers |-> "idle"]
  /\ key \in [Callers -> Keys]
  /\ mode = [c \in Callers |-> "exclusive"]
  /\ entry = [c \in Callers |-> NoEntry]

-------------------------------------------------------------------------------
\* A heap object no caller and no registry slot points to.
Unreachable(e) ==
  /\ \A k \in Keys : entries[k] # e
  /\ \A c \in Callers : entry[c] # e

\* Deliberately wrong Acquire: looks the entry up and replaces it when it is
\* idle instead of sharing the registered one.
AcquireReplacesEntry(c, k, m) ==
  /\ pc[c] = "idle"
  /\ registryMu = NoCaller
  /\ \E e \in Entries :
       /\ Unreachable(e)
       /\ entries' = [entries EXCEPT ![k] = e]
       /\ refs' = [refs EXCEPT ![e] = 1]
       /\ readers' = [readers EXCEPT ![e] = 0]
       /\ exclusive' = exclusive \ {e}
       /\ entry' = [entry EXCEPT ![c] = e]
  /\ pc' = [pc EXCEPT ![c] = "trying"]
  /\ key' = [key EXCEPT ![c] = k]
  /\ mode' = [mode EXCEPT ![c] = m]
  /\ UNCHANGED <<registryMu, woken>>

\* acquire, up to the registry's unlock: find or create the entry, count the
\* reference.
Acquire(c, k, m) ==
  /\ pc[c] = "idle"
  /\ registryMu = NoCaller
  /\ \/ /\ entries[k] # NoEntry
        /\ refs' = [refs EXCEPT ![entries[k]] = @ + 1]
        /\ entry' = [entry EXCEPT ![c] = entries[k]]
        /\ UNCHANGED <<entries, readers, exclusive>>
     \/ /\ entries[k] = NoEntry
        /\ \E e \in Entries :
             /\ Unreachable(e)
             /\ entries' = [entries EXCEPT ![k] = e]
             /\ refs' = [refs EXCEPT ![e] = 1]
             /\ readers' = [readers EXCEPT ![e] = 0]
             /\ exclusive' = exclusive \ {e}
             /\ entry' = [entry EXCEPT ![c] = e]
  /\ pc' = [pc EXCEPT ![c] = "trying"]
  /\ key' = [key EXCEPT ![c] = k]
  /\ mode' = [mode EXCEPT ![c] = m]
  /\ UNCHANGED <<registryMu, woken>>

\* Deliberately wrong: an exclusive caller does not look at the readers.
CanEnterIgnoringReaders(c) == entry[c] \notin exclusive

CanEnter(c) ==
  /\ entry[c] \notin exclusive
  /\ mode[c] = "exclusive" => readers[entry[c]] = 0

\* One iteration of entry.acquire under the entry's mutex: take the lane, or
\* capture the current `changed` channel and wait for it.
TryEnter(c) ==
  /\ pc[c] = "trying"
  /\ \/ /\ CanEnter(c)
        /\ \/ /\ mode[c] = "shared"
              /\ readers' = [readers EXCEPT ![entry[c]] = @ + 1]
              /\ UNCHANGED exclusive
           \/ /\ mode[c] = "exclusive"
              /\ exclusive' = exclusive \cup {entry[c]}
              /\ UNCHANGED readers
        /\ pc' = [pc EXCEPT ![c] = "held"]
        /\ UNCHANGED woken
     \/ /\ ~CanEnter(c)
        /\ pc' = [pc EXCEPT ![c] = "waiting"]
        /\ woken' = woken \ {c}
        /\ UNCHANGED <<readers, exclusive>>
  /\ UNCHANGED <<registryMu, entries, refs, key, mode, entry>>

\* The captured channel is closed: loop.
WakeUp(c) ==
  /\ pc[c] = "waiting"
  /\ c \in woken
  /\ pc' = [pc EXCEPT ![c] = "trying"]
  /\ UNCHANGED <<registryMu, entries, refs, readers, exclusive, woken, key, mode, entry>>

\* Deliberately wrong reference release: forgets to drop the last reference's
\* entry from the registry.
DropReferenceKeepsEntry(c) ==
  /\ refs' = [refs EXCEPT ![entry[c]] = @ - 1]
  /\ entry' = [entry EXCEPT ![c] = NoEntry]
  /\ pc' = [pc EXCEPT ![c] = "idle"]
  /\ UNCHANGED entries

\* releaseReferenceLocked, with its panic.
DropReference(c) ==
  IF entries[key[c]] # entry[c] \/ refs[entry[c]] <= 0
  THEN /\ pc' = [pc EXCEPT ![c] = "panicked"]
       /\ UNCHANGED <<entries, refs, entry>>
  ELSE /\ refs' = [refs EXCEPT ![entry[c]] = @ - 1]
       /\ entries' = IF refs[entry[c]] = 1
                     THEN [entries EXCEPT ![key[c]] = NoEntry] ELSE entries
       /\ entry' = [entry EXCEPT ![c] = NoEntry]
       /\ pc' = [pc EXCEPT ![c] = "idle"]

\* The caller's context is done while it waits: acquire gives the reference
\* back and returns the cause.
Cancel(c) ==
  /\ pc[c] = "waiting"
  /\ registryMu = NoCaller
  /\ DropReference(c)
  /\ UNCHANGED <<registryMu, readers, exclusive, woken, key, mode>>

\* Deliberately wrong: release replaces the channel without closing it.
NotifyNobody(e) == UNCHANGED woken

\* close(e.changed): everyone who captured the channel proceeds.
Notify(e) ==
  woken' = woken \cup {w \in Callers : pc[w] = "waiting" /\ entry[w] = e}

\* Release, first half: under the registry mutex, leave the lane (with the
\* panics of entry.release) and wake the waiters.
ReleaseLane(c) ==
  /\ pc[c] = "held"
  /\ registryMu = NoCaller
  /\ registryMu' = c
  /\ LET e == entry[c] IN
       IF \/ mode[c] = "shared" /\ readers[e] <= 0
          \/ mode[c] = "exclusive" /\ e \notin exclusive
       THEN /\ pc' = [pc EXCEPT ![c] = "panicked"]
            /\ UNCHANGED <<readers, exclusive, woken>>
       ELSE /\ \/ /\ mode[c] = "shared"
                  /\ readers' = [readers EXCEPT ![e] = @ - 1]
                  /\ UNCHANGED exclusive
               \/ /\ mode[c] = "exclusive"
                  /\ exclusive' = exclusive \ {e}
                  /\ UNCHANGED readers
            /\ Notify(e)
            /\ pc' = [pc EXCEPT ![c] = "releasing"]
  /\ UNCHANGED <<entries, refs, key, mode, entry>>

\* Release, second half: give the reference back, unlock the registry.
ReleaseReference(c) ==
  /\ pc[c] = "releasing"
  /\ registryMu = c
  /\ DropReference(c)
  /\ registryMu' = NoCaller
  /\ UNCHANGED <<readers, exclusive, woken, key, mode>>

Next ==
  \E c \in Callers :
    \/ \E k \in Keys, m \in Modes : Acquire(c, k, m)
    \/ TryEnter(c)
    \/ WakeUp(c)
    \/ Cancel(c)
    \/ ReleaseLane(c)
    \/ ReleaseReference(c)

\* A goroutine that can run does run, and every holder releases (Release is
\* deferred).  Nobody is obliged to acquire or to be cancelled.
Fairness ==
  \A c \in Callers :
    /\ WF_vars(TryEnter(c))
    /\ WF_vars(WakeUp(c))
    /\ SF_vars(ReleaseLane(c))
    /\ WF_vars(ReleaseReference(c))

Spec == Init /\ [][Next]_vars
FairSpec == Spec /\ Fairness

-------------------------------------------------------------------------------
Inside(c, k, m) == pc[c] = "held" /\ key[c] = k /\ mode[c] = m

\* The lane seen by its callers: who is inside it, and how.
Lane == INSTANCE LaneSpec WITH
  sharedBy <- [k \in Keys |-> {c \in Callers : Inside(c, k, "shared")}],
  exclusiveBy <- [k \in Keys |-> {c \in Callers : Inside(c, k, "exclusive")}]

\* Acquire, AcquireShared and Release implement a read/write lock per key:
\* an exclusive lease overlaps no other lease for its key, even while the entry
\* is dropped and recreated under concurrent waiters.
LaneImplemented == Lane!Spec

\* None of the consistency panics of Release, entry.release and
\* releaseReferenceLocked can happen to callers that release each lease once.
NoPanic == \A c \in Callers : pc[c] # "panicked"

\* No lost wake-up: a caller still blocked on the channel it captured really
\* cannot enter its lane (capture happens under the entry's mutex, and every
\* release closes the channel).
NoLostWakeup ==
  \A c \in Callers :
    pc[c] = "waiting" /\ c \notin woken => ~CanEnter(c)

\* No leak: once nobody uses a key its entry is gone from the registry, and a
\* registered entry is referenced.
EntriesAreReferenced ==
  \A k \in Keys :
    entries[k] # NoEntry => \E c \in Callers : entry[c] = entries[k] /\ key[c] = k

\* The callers an entry counts, and the ones inside it with a shared lease.
Users(e) == {c \in Callers : entry[c] = e}
SharedHolders(e) == {c \in Callers : pc[c] = "held" /\ mode[c] = "shared" /\ entry[c] = e}
ExclusiveHolders(e) == {c \in Callers : pc[c] = "held" /\ mode[c] = "exclusive" /\ entry[c] = e}

\* The counters of an entry are exact: refs counts the callers between acquire
\* and the end of Release, readers the shared leases, the exclusive flag stands
\* for one lease; every caller's entry is the registered one of its key, and
\* the registry mutex is held exactly between the halves of a Release.
Accounting ==
  /\ \A c \in Callers : entry[c] = NoEntry <=> pc[c] = "idle"
  /\ \A c \in Callers : pc[c] # "idle" => entries[key[c]] = entry[c]
  /\ \A c \in Callers : registryMu = c <=> pc[c] = "releasing"
  /\ \A j, k \in Keys : entries[j] = entries[k] /\ entries[j] # NoEntry => j = k
  /\ \A e \in Entries :
       /\ refs[e] = Cardinality(Users(e))
       /\ readers[e] = Cardinality(SharedHolders(e))
       /\ e \in exclusive <=> ExclusiveHolders(e) # {}
       /\ e \in exclusive => readers[e] = 0
       /\ \A c, d \in ExclusiveHolders(e) : c = d

\* A caller whose competitors are eventually all done gets the lane or gives up.
LastWaiterServed ==
  \A c \in Callers :
    <>[](\A d \in Callers \ {c} : pc[d] = "idle")
      => (pc[c] = "trying" ~> pc[c] \in {"held", "idle"})
===============================================================================
