-------------------------- MODULE MutationLaneProofs --------------------------
(***************************************************************************)
(* MutationLane is correct for any number of keys, callers and entries.    *)
(*                                                                         *)
(* The inductive invariant is LaneInv: the exact accounting of every       *)
(* entry (Accounting) is what makes the panics unreachable, the wake-ups   *)
(* complete and the mutual exclusion of LaneSpec hold.                     *)
(***************************************************************************)
EXTENDS MutationLane, FiniteSetTheorems, TLAPS

LaneInv ==
  /\ TypeOK
  /\ NoPanic
  /\ Accounting
  /\ NoLostWakeup
  /\ EntriesAreReferenced

-------------------------------------------------------------------------------
\* The sets of callers an entry counts are finite, so the counters of an entry
\* (refs and readers) can be compared with their sizes.
LEMMA CallerSets ==
  ASSUME NEW S \in SUBSET Callers
  PROVE  IsFiniteSet(S) /\ Cardinality(S) \in Nat
<1>1. IsFiniteSet(S)
  BY LaneAssumption, FS_Subset
<1> QED
  BY <1>1, FS_CardinalityType

\* One more caller in a set adds one to its size (refs++, readers++).
LEMMA OneMore ==
  ASSUME NEW S \in SUBSET Callers, NEW T, NEW c \in Callers, c \notin S, T = S \cup {c}
  PROVE  Cardinality(T) = Cardinality(S) + 1
BY CallerSets, FS_AddElement

\* One caller less takes one from it (refs--, readers--), and leaves nobody
\* exactly when the size was one.
LEMMA OneLess ==
  ASSUME NEW S \in SUBSET Callers, NEW T, NEW c \in S, T = S \ {c}
  PROVE  /\ Cardinality(T) = Cardinality(S) - 1
         /\ Cardinality(S) > 0
         /\ Cardinality(S) = 1 => T = {}
<1>1. IsFiniteSet(S) /\ Cardinality(S) \in Nat
  BY CallerSets
<1>2. IsFiniteSet(T) /\ Cardinality(T) = Cardinality(S) - 1
  BY <1>1, FS_RemoveElement
<1>3. Cardinality(T) \in Nat
  BY <1>2, FS_CardinalityType
<1>4. Cardinality(S) # 0
  BY <1>1, FS_EmptySet
<1>5. Cardinality(S) = 1 => T = {}
  BY <1>1, <1>2, FS_EmptySet
<1> QED
  BY <1>1, <1>2, <1>3, <1>4, <1>5

\* An empty lane has the counters of a new entry.
LEMMA Nobody == Cardinality({}) = 0
BY FS_EmptySet

\* A reader count of zero means that no caller holds the lane shared.
LEMMA NoReaders ==
  ASSUME NEW S \in SUBSET Callers
  PROVE  Cardinality(S) = 0 <=> S = {}
BY CallerSets, FS_EmptySet

-------------------------------------------------------------------------------
\* The empty registry satisfies the invariant.
LEMMA InitLaneInv == Init => LaneInv
<1> SUFFICES ASSUME Init PROVE LaneInv
  OBVIOUS
<1>1. TypeOK
  BY LaneAssumption DEF Init, TypeOK, Steps, Modes
<1>2. NoPanic /\ NoLostWakeup /\ EntriesAreReferenced
  BY DEF Init, NoPanic, NoLostWakeup, EntriesAreReferenced
<1>3. ASSUME NEW e \in Entries
      PROVE  Users(e) = {} /\ SharedHolders(e) = {} /\ ExclusiveHolders(e) = {}
  BY LaneAssumption DEF Init, Users, SharedHolders, ExclusiveHolders
<1>4. Accounting
  BY <1>3, LaneAssumption, Nobody DEF Init, Accounting
<1> QED
  BY <1>1, <1>2, <1>4 DEF LaneInv

\* acquire keeps the accounting: a found entry gets one more reference, a new
\* one starts with the caller's.
LEMMA AcquireStep ==
  ASSUME LaneInv, NEW c \in Callers, NEW k \in Keys, NEW m \in Modes, Acquire(c, k, m)
  PROVE  LaneInv'
<1> USE LaneAssumption
<1>1. TypeOK /\ NoPanic /\ Accounting /\ NoLostWakeup /\ EntriesAreReferenced
  BY DEF LaneInv
<1>2. /\ pc[c] = "idle" /\ entry[c] = NoEntry /\ registryMu = NoCaller
      /\ registryMu' = registryMu /\ woken' = woken
      /\ pc' = [pc EXCEPT ![c] = "trying"]
      /\ key' = [key EXCEPT ![c] = k] /\ mode' = [mode EXCEPT ![c] = m]
  BY <1>1 DEF Acquire, Accounting
<1>3. PICK e \in Entries :
        /\ entry' = [entry EXCEPT ![c] = e]
        /\ entries' = [entries EXCEPT ![k] = e]
        /\ \/ /\ entries[k] = e
              /\ refs' = [refs EXCEPT ![e] = @ + 1]
              /\ readers' = readers /\ exclusive' = exclusive
           \/ /\ entries[k] = NoEntry /\ Unreachable(e)
              /\ refs' = [refs EXCEPT ![e] = 1]
              /\ readers' = [readers EXCEPT ![e] = 0]
              /\ exclusive' = exclusive \ {e}
  <2>1. CASE entries[k] # NoEntry
    <3>1. entries[k] \in Entries /\ entries = [entries EXCEPT ![k] = entries[k]]
      BY <1>1, <2>1 DEF TypeOK
    <3> QED
      BY <2>1, <3>1 DEF Acquire
  <2>2. CASE entries[k] = NoEntry
    BY <2>2 DEF Acquire
  <2> QED
    BY <2>1, <2>2
<1>4. TypeOK'
  BY <1>1, <1>2, <1>3 DEF TypeOK, Steps
<1>5. NoPanic'
  BY <1>1, <1>2 DEF TypeOK, NoPanic
<1>6. \A f \in Entries : /\ SharedHolders(f)' = SharedHolders(f)
                         /\ ExclusiveHolders(f)' = ExclusiveHolders(f)
  BY <1>1, <1>2, <1>3 DEF TypeOK, SharedHolders, ExclusiveHolders
<1>7. \A f \in Entries : Users(f)' = IF f = e THEN Users(f) \cup {c} ELSE Users(f)
  BY <1>1, <1>2, <1>3 DEF TypeOK, Users
<1>8. Unreachable(e) => Users(e) = {} /\ SharedHolders(e) = {} /\ ExclusiveHolders(e) = {}
  BY DEF Unreachable, Users, SharedHolders, ExclusiveHolders
<1>9. Cardinality(Users(e) \cup {c}) = Cardinality(Users(e)) + 1
  <2>1. Users(e) \in SUBSET Callers /\ c \notin Users(e)
    BY <1>2 DEF Users
  <2> QED
    BY <2>1, OneMore
<1>10. ASSUME NEW f \in Entries PROVE refs'[f] = Cardinality(Users(f)')
  <2>1. refs[f] = Cardinality(Users(f)) /\ refs[f] \in Nat
    BY <1>1 DEF TypeOK, Accounting
  <2>2. CASE f # e
    BY <1>1, <1>3, <1>7, <2>1, <2>2 DEF TypeOK
  <2>3. CASE f = e
    <3>1. Users(f)' = Users(e) \cup {c}
      BY <1>7, <2>3
    <3>2. Unreachable(e) => Cardinality(Users(e)) = 0
      BY <1>8, Nobody
    <3> QED
      BY <1>1, <1>3, <1>9, <2>1, <2>3, <3>1, <3>2 DEF TypeOK
  <2> QED
    BY <2>2, <2>3
<1>11. ASSUME NEW f \in Entries PROVE readers'[f] = Cardinality(SharedHolders(f)')
  <2>1. SharedHolders(f)' = SharedHolders(f) /\ readers[f] = Cardinality(SharedHolders(f))
    BY <1>1, <1>6 DEF Accounting
  <2>2. Unreachable(e) => Cardinality(SharedHolders(e)) = 0
    BY <1>8, Nobody
  <2> QED
    BY <1>1, <1>3, <2>1, <2>2 DEF TypeOK
<1>12. \A f \in Entries :
         /\ f \in exclusive' <=> ExclusiveHolders(f)' # {}
         /\ f \in exclusive' => readers'[f] = 0
         /\ \A x, y \in ExclusiveHolders(f)' : x = y
  BY <1>1, <1>3, <1>6, <1>8 DEF TypeOK, Accounting
<1>13. \A d \in Callers : /\ entry'[d] = NoEntry <=> pc'[d] = "idle"
                          /\ registryMu' = d <=> pc'[d] = "releasing"
  BY <1>1, <1>2, <1>3 DEF TypeOK, Accounting
<1>14. \A d \in Callers : pc'[d] # "idle" => entries'[key'[d]] = entry'[d]
  BY <1>1, <1>2, <1>3 DEF TypeOK, Accounting
<1>15. \A i, j \in Keys : entries'[i] = entries'[j] /\ entries'[i] # NoEntry => i = j
  BY <1>1, <1>3 DEF TypeOK, Accounting, Unreachable
<1>16. Accounting'
  BY <1>10, <1>11, <1>12, <1>13, <1>14, <1>15 DEF Accounting
<1>17. NoLostWakeup'
  <2>1. \A d \in Callers : pc'[d] = "waiting" => d # c /\ entry[d] \in Entries /\ pc[d] = "waiting"
    BY <1>1, <1>2 DEF TypeOK, Accounting
  <2>2. \A d \in Callers : Unreachable(e) => entry[d] # e
    BY DEF Unreachable
  <2> QED
    BY <1>1, <1>2, <1>3, <2>1, <2>2 DEF TypeOK, NoLostWakeup, CanEnter
<1>18. EntriesAreReferenced'
  BY <1>1, <1>2, <1>3 DEF TypeOK, EntriesAreReferenced
<1> QED
  BY <1>4, <1>5, <1>16, <1>17, <1>18 DEF LaneInv

\* Giving a reference back keeps the accounting: the caller was counted, so
\* neither panic of releaseReferenceLocked is reached, and the entry leaves the
\* registry exactly when its last user does.
LEMMA DropReferenceStep ==
  ASSUME LaneInv, NEW c \in Callers, pc[c] \in {"waiting", "releasing"},
         registryMu \in {NoCaller, c}, registryMu' = NoCaller, DropReference(c),
         UNCHANGED <<readers, exclusive, woken, key, mode>>
  PROVE  LaneInv'
<1> USE LaneAssumption
<1>1. TypeOK /\ NoPanic /\ Accounting /\ NoLostWakeup /\ EntriesAreReferenced
  BY DEF LaneInv
<1> DEFINE e == entry[c]
<1>2. e \in Entries /\ entries[key[c]] = e /\ c \in Users(e) /\ key[c] \in Keys
  BY <1>1 DEF TypeOK, Accounting, Users
<1> HIDE DEF e
<1>3. /\ refs[e] = Cardinality(Users(e))
      /\ Cardinality(Users(e) \ {c}) = refs[e] - 1
      /\ refs[e] > 0
      /\ refs[e] = 1 => Users(e) \ {c} = {}
  <2>1. Users(e) \in SUBSET Callers
    BY DEF Users
  <2>2. refs[e] = Cardinality(Users(e))
    BY <1>1, <1>2 DEF Accounting
  <2> QED
    BY <1>2, <2>1, <2>2, OneLess
<1>4. /\ refs' = [refs EXCEPT ![e] = @ - 1]
      /\ entries' = IF refs[e] = 1 THEN [entries EXCEPT ![key[c]] = NoEntry] ELSE entries
      /\ entry' = [entry EXCEPT ![c] = NoEntry]
      /\ pc' = [pc EXCEPT ![c] = "idle"]
      /\ readers' = readers /\ exclusive' = exclusive /\ woken' = woken
      /\ key' = key /\ mode' = mode
  <2>1. ~(entries[key[c]] # entry[c] \/ refs[entry[c]] <= 0)
    BY <1>1, <1>2, <1>3 DEF e, TypeOK
  <2> QED
    BY <2>1 DEF DropReference, e
<1>5. TypeOK'
  BY <1>1, <1>2, <1>3, <1>4 DEF TypeOK, Steps
<1>6. NoPanic'
  BY <1>1, <1>4 DEF TypeOK, NoPanic
<1>7. \A d \in Users(e) \ {c} : refs[e] # 1
  BY <1>3
<1>8. ASSUME NEW d \in Callers, d # c, pc[d] # "idle"
      PROVE  entries'[key[d]] = entries[key[d]] /\ entries[key[d]] = entry[d] /\ entry[d] # NoEntry
  <2>1. entries[key[d]] = entry[d] /\ entry[d] # NoEntry /\ key[d] \in Keys
    BY <1>1, <1>8 DEF TypeOK, Accounting
  <2>2. CASE key[d] = key[c]
    <3>1. d \in Users(e) \ {c}
      BY <1>2, <1>8, <2>1, <2>2 DEF Users
    <3> QED
      BY <1>4, <1>7, <2>1, <3>1
  <2>3. CASE key[d] # key[c]
    BY <1>1, <1>4, <2>1, <2>3 DEF TypeOK
  <2> QED
    BY <2>2, <2>3
<1>9. ASSUME NEW f \in Entries
      PROVE  /\ SharedHolders(f)' = SharedHolders(f)
             /\ ExclusiveHolders(f)' = ExclusiveHolders(f)
             /\ Users(f)' = IF f = e THEN Users(f) \ {c} ELSE Users(f)
  BY <1>1, <1>4 DEF TypeOK, SharedHolders, ExclusiveHolders, Users, e
<1>10. ASSUME NEW f \in Entries PROVE refs'[f] = Cardinality(Users(f)')
  <2>1. refs[f] = Cardinality(Users(f))
    BY <1>1 DEF Accounting
  <2>2. CASE f # e
    BY <1>1, <1>4, <1>9, <2>1, <2>2 DEF TypeOK
  <2>3. CASE f = e
    <3>1. Users(f)' = Users(e) \ {c}
      BY <1>9, <2>3
    <3> QED
      BY <1>1, <1>3, <1>4, <2>3, <3>1 DEF TypeOK
  <2> QED
    BY <2>2, <2>3
<1>11. ASSUME NEW f \in Entries
       PROVE  /\ readers'[f] = Cardinality(SharedHolders(f)')
              /\ f \in exclusive' <=> ExclusiveHolders(f)' # {}
              /\ f \in exclusive' => readers'[f] = 0
              /\ \A x, y \in ExclusiveHolders(f)' : x = y
  <2>1. SharedHolders(f)' = SharedHolders(f) /\ ExclusiveHolders(f)' = ExclusiveHolders(f)
    BY <1>9
  <2> QED
    BY <1>1, <1>4, <2>1 DEF Accounting
<1>12. \A d \in Callers : /\ entry'[d] = NoEntry <=> pc'[d] = "idle"
                          /\ registryMu' = d <=> pc'[d] = "releasing"
  BY <1>1, <1>4 DEF TypeOK, Accounting
<1>13. \A d \in Callers : pc'[d] # "idle" => entries'[key'[d]] = entry'[d]
  <2> SUFFICES ASSUME NEW d \in Callers, pc'[d] # "idle" PROVE entries'[key'[d]] = entry'[d]
    OBVIOUS
  <2>1. d # c /\ pc[d] # "idle" /\ key'[d] = key[d] /\ entry'[d] = entry[d]
    BY <1>1, <1>4 DEF TypeOK
  <2> QED
    BY <1>8, <2>1
<1>14. \A i, j \in Keys : entries'[i] = entries'[j] /\ entries'[i] # NoEntry => i = j
  BY <1>1, <1>4 DEF TypeOK, Accounting
<1>15. Accounting'
  BY <1>10, <1>11, <1>12, <1>13, <1>14 DEF Accounting
<1>16. NoLostWakeup'
  BY <1>1, <1>4 DEF TypeOK, NoLostWakeup, CanEnter
<1>17. EntriesAreReferenced'
  <2> SUFFICES ASSUME NEW j \in Keys, entries'[j] # NoEntry
               PROVE  \E d \in Callers : entry'[d] = entries'[j] /\ key'[d] = j
    BY DEF EntriesAreReferenced
  <2>1. entries[j] # NoEntry /\ entries'[j] = entries[j]
    BY <1>1, <1>4 DEF TypeOK
  <2>2. PICK d \in Callers : entry[d] = entries[j] /\ key[d] = j
    BY <1>1, <2>1 DEF EntriesAreReferenced
  <2>3. CASE d # c
    BY <1>1, <1>4, <2>1, <2>2, <2>3 DEF TypeOK
  <2>4. CASE d = c
    <3>1. j = key[c] /\ refs[e] # 1
      BY <1>1, <1>2, <1>4, <2>1, <2>2, <2>4 DEF TypeOK
    <3>2. Users(e) \ {c} # {}
      <4> SUFFICES ASSUME Users(e) \ {c} = {} PROVE FALSE
        OBVIOUS
      <4>1. refs[e] - 1 = Cardinality({}) /\ refs[e] \in Nat
        BY <1>1, <1>2, <1>3 DEF TypeOK
      <4> QED
        BY <3>1, <4>1, Nobody
    <3>3. PICK d2 \in Callers : d2 # c /\ entry[d2] = e
      BY <3>2 DEF Users
    <3>4. key[d2] = j
      BY <1>1, <1>2, <3>1, <3>3 DEF TypeOK, Accounting
    <3> QED
      BY <1>1, <1>2, <1>4, <2>1, <3>1, <3>3, <3>4 DEF TypeOK
  <2> QED
    BY <2>3, <2>4
<1> QED
  BY <1>5, <1>6, <1>15, <1>16, <1>17 DEF LaneInv

\* Entering the lane counts exactly the new lease; a caller that cannot enter
\* waits on the channel it captured, and it truly cannot enter.
LEMMA TryEnterStep ==
  ASSUME LaneInv, NEW c \in Callers, TryEnter(c)
  PROVE  LaneInv'
<1> USE LaneAssumption
<1>1. TypeOK /\ NoPanic /\ Accounting /\ NoLostWakeup /\ EntriesAreReferenced
  BY DEF LaneInv
<1> DEFINE e == entry[c]
<1>2. /\ pc[c] = "trying" /\ e \in Entries /\ mode[c] \in Modes
      /\ registryMu' = registryMu /\ entries' = entries /\ refs' = refs
      /\ key' = key /\ mode' = mode /\ entry' = entry
  BY <1>1 DEF TypeOK, Accounting, TryEnter
<1>3. EntriesAreReferenced'
  BY <1>1, <1>2 DEF EntriesAreReferenced
<1>4. ASSUME NEW f \in Entries PROVE Users(f)' = Users(f) /\ refs'[f] = Cardinality(Users(f)')
  <2>1. Users(f)' = Users(f)
    BY <1>2 DEF Users
  <2> QED
    BY <1>1, <1>2, <2>1 DEF Accounting
<1>5. CASE ~CanEnter(c)
  <2>1. pc' = [pc EXCEPT ![c] = "waiting"] /\ woken' = woken \ {c}
        /\ readers' = readers /\ exclusive' = exclusive
    BY <1>5 DEF TryEnter
  <2>2. TypeOK' /\ NoPanic'
    BY <1>1, <1>2, <2>1 DEF TypeOK, NoPanic, Steps
  <2>3. \A f \in Entries : /\ SharedHolders(f)' = SharedHolders(f)
                           /\ ExclusiveHolders(f)' = ExclusiveHolders(f)
    BY <1>1, <1>2, <2>1 DEF TypeOK, SharedHolders, ExclusiveHolders
  <2>4. Accounting'
    <3>1. ASSUME NEW f \in Entries
          PROVE  /\ readers'[f] = Cardinality(SharedHolders(f)')
                 /\ f \in exclusive' <=> ExclusiveHolders(f)' # {}
                 /\ f \in exclusive' => readers'[f] = 0
                 /\ \A x, y \in ExclusiveHolders(f)' : x = y
      <4>1. SharedHolders(f)' = SharedHolders(f) /\ ExclusiveHolders(f)' = ExclusiveHolders(f)
        BY <2>3
      <4> QED
        BY <1>1, <2>1, <4>1 DEF Accounting
    <3>2. \A d \in Callers : /\ entry'[d] = NoEntry <=> pc'[d] = "idle"
                             /\ pc'[d] # "idle" => entries'[key'[d]] = entry'[d]
                             /\ registryMu' = d <=> pc'[d] = "releasing"
      BY <1>1, <1>2, <2>1 DEF TypeOK, Accounting
    <3>3. \A i, j \in Keys : entries'[i] = entries'[j] /\ entries'[i] # NoEntry => i = j
      BY <1>1, <1>2 DEF Accounting
    <3> QED
      BY <1>4, <3>1, <3>2, <3>3 DEF Accounting
  <2>5. NoLostWakeup'
    BY <1>1, <1>2, <1>5, <2>1 DEF TypeOK, NoLostWakeup, CanEnter
  <2> QED
    BY <1>3, <2>2, <2>4, <2>5 DEF LaneInv
<1>6. CASE CanEnter(c)
  <2>1. /\ pc' = [pc EXCEPT ![c] = "held"] /\ woken' = woken
        /\ \/ /\ mode[c] = "shared" /\ exclusive' = exclusive
              /\ readers' = [readers EXCEPT ![e] = @ + 1]
           \/ /\ mode[c] = "exclusive" /\ readers' = readers
              /\ exclusive' = exclusive \cup {e}
    BY <1>6 DEF TryEnter
  <2>2. TypeOK' /\ NoPanic'
    BY <1>1, <1>2, <2>1 DEF TypeOK, NoPanic, Steps
  <2>3. e \notin exclusive /\ (mode[c] = "exclusive" => readers[e] = 0)
    BY <1>6 DEF CanEnter
  <2>4. ASSUME NEW f \in Entries
        PROVE  /\ SharedHolders(f)' = IF f = e /\ mode[c] = "shared"
                                      THEN SharedHolders(f) \cup {c} ELSE SharedHolders(f)
               /\ ExclusiveHolders(f)' = IF f = e /\ mode[c] = "exclusive"
                                         THEN ExclusiveHolders(f) \cup {c} ELSE ExclusiveHolders(f)
    BY <1>1, <1>2, <2>1 DEF TypeOK, SharedHolders, ExclusiveHolders, Modes
  <2>5. ASSUME NEW f \in Entries PROVE readers'[f] = Cardinality(SharedHolders(f)')
    <3>1. readers[f] = Cardinality(SharedHolders(f)) /\ readers[f] \in Nat
      BY <1>1 DEF TypeOK, Accounting
    <3>2. CASE f = e /\ mode[c] = "shared"
      <4>1. SharedHolders(f)' = SharedHolders(f) \cup {c}
        BY <2>4, <3>2
      <4>2. SharedHolders(f) \in SUBSET Callers /\ c \notin SharedHolders(f)
        BY <1>2 DEF SharedHolders
      <4>3. Cardinality(SharedHolders(f)') = Cardinality(SharedHolders(f)) + 1
        BY <4>1, <4>2, OneMore
      <4> QED
        BY <1>1, <2>1, <3>1, <3>2, <4>3 DEF TypeOK
    <3>3. CASE ~(f = e /\ mode[c] = "shared")
      <4>1. SharedHolders(f)' = SharedHolders(f)
        BY <2>4, <3>3
      <4>2. readers'[f] = readers[f]
        BY <1>1, <2>1, <3>3 DEF TypeOK
      <4> QED
        BY <3>1, <4>1, <4>2
    <3> QED
      BY <3>2, <3>3
  <2>6. ASSUME NEW f \in Entries
        PROVE  /\ f \in exclusive' <=> ExclusiveHolders(f)' # {}
               /\ f \in exclusive' => readers'[f] = 0
               /\ \A x, y \in ExclusiveHolders(f)' : x = y
    <3>1. /\ f \in exclusive <=> ExclusiveHolders(f) # {}
          /\ f \in exclusive => readers[f] = 0
          /\ \A x, y \in ExclusiveHolders(f) : x = y
      BY <1>1 DEF Accounting
    <3>2. f = e => ExclusiveHolders(f) = {}
      BY <2>3, <3>1
    <3> QED
      BY <1>1, <1>2, <2>1, <2>3, <2>4, <3>1, <3>2 DEF TypeOK
  <2>7. \A d \in Callers : /\ entry'[d] = NoEntry <=> pc'[d] = "idle"
                           /\ pc'[d] # "idle" => entries'[key'[d]] = entry'[d]
                           /\ registryMu' = d <=> pc'[d] = "releasing"
    BY <1>1, <1>2, <2>1 DEF TypeOK, Accounting
  <2>8. \A i, j \in Keys : entries'[i] = entries'[j] /\ entries'[i] # NoEntry => i = j
    BY <1>1, <1>2 DEF Accounting
  <2>9. Accounting'
    BY <1>4, <2>5, <2>6, <2>7, <2>8 DEF Accounting
  <2>10. NoLostWakeup'
    <3> SUFFICES ASSUME NEW d \in Callers, pc'[d] = "waiting", d \notin woken' PROVE ~CanEnter(d)'
      BY DEF NoLostWakeup
    <3>1. d # c /\ ~CanEnter(d) /\ entry[d] \in Entries
      BY <1>1, <2>1 DEF TypeOK, NoLostWakeup, Accounting
    <3> QED
      BY <1>1, <1>2, <2>1, <3>1 DEF TypeOK, CanEnter
  <2> QED
    BY <1>3, <2>2, <2>9, <2>10 DEF LaneInv
<1> QED
  BY <1>5, <1>6

\* The first half of Release uncounts exactly the caller's lease, reaches
\* neither panic of entry.release, and wakes everyone who may now enter.
LEMMA ReleaseLaneStep ==
  ASSUME LaneInv, NEW c \in Callers, ReleaseLane(c)
  PROVE  LaneInv'
<1> USE LaneAssumption
<1>1. TypeOK /\ NoPanic /\ Accounting /\ NoLostWakeup /\ EntriesAreReferenced
  BY DEF LaneInv
<1> DEFINE e == entry[c]
<1>2. /\ pc[c] = "held" /\ e \in Entries /\ mode[c] \in Modes
      /\ registryMu = NoCaller /\ registryMu' = c
      /\ entries' = entries /\ refs' = refs
      /\ key' = key /\ mode' = mode /\ entry' = entry
  BY <1>1 DEF TypeOK, Accounting, ReleaseLane
<1>3. /\ mode[c] = "shared" => /\ Cardinality(SharedHolders(e) \ {c}) = readers[e] - 1
                               /\ readers[e] > 0
      /\ mode[c] = "exclusive" => e \in exclusive /\ ExclusiveHolders(e) = {c} /\ readers[e] = 0
  <2>1. readers[e] = Cardinality(SharedHolders(e)) /\ SharedHolders(e) \in SUBSET Callers
    BY <1>1, <1>2 DEF Accounting, SharedHolders
  <2>2. CASE mode[c] = "shared"
    <3>1. c \in SharedHolders(e)
      BY <1>2, <2>2 DEF SharedHolders
    <3> QED
      BY <2>1, <2>2, <3>1, OneLess
  <2>3. CASE mode[c] = "exclusive"
    <3>1. c \in ExclusiveHolders(e)
      BY <1>2, <2>3 DEF ExclusiveHolders
    <3> QED
      BY <1>1, <1>2, <2>3, <3>1 DEF Accounting
  <2> QED
    BY <1>2, <2>2, <2>3 DEF Modes
<1>4. /\ pc' = [pc EXCEPT ![c] = "releasing"]
      /\ woken' = woken \cup {w \in Callers : pc[w] = "waiting" /\ entry[w] = e}
      /\ \/ /\ mode[c] = "shared" /\ exclusive' = exclusive
            /\ readers' = [readers EXCEPT ![e] = @ - 1]
         \/ /\ mode[c] = "exclusive" /\ readers' = readers
            /\ exclusive' = exclusive \ {e}
  <2>1. ~((mode[c] = "shared" /\ readers[e] <= 0) \/ (mode[c] = "exclusive" /\ e \notin exclusive))
    BY <1>1, <1>2, <1>3 DEF TypeOK
  <2>2. pc' = [pc EXCEPT ![c] = "releasing"] /\ Notify(e)
    BY <2>1 DEF ReleaseLane
  <2>3. \/ /\ mode[c] = "shared" /\ exclusive' = exclusive
           /\ readers' = [readers EXCEPT ![e] = @ - 1]
        \/ /\ mode[c] = "exclusive" /\ readers' = readers
           /\ exclusive' = exclusive \ {e}
    BY <2>1 DEF ReleaseLane
  <2> QED
    BY <2>2, <2>3 DEF Notify
<1>5. TypeOK' /\ NoPanic'
  BY <1>1, <1>2, <1>3, <1>4 DEF TypeOK, NoPanic, Steps
<1>6. ASSUME NEW f \in Entries
      PROVE  /\ Users(f)' = Users(f)
             /\ SharedHolders(f)' = IF f = e THEN SharedHolders(f) \ {c} ELSE SharedHolders(f)
             /\ ExclusiveHolders(f)' = IF f = e THEN ExclusiveHolders(f) \ {c} ELSE ExclusiveHolders(f)
  BY <1>1, <1>2, <1>4 DEF TypeOK, Users, SharedHolders, ExclusiveHolders
<1>7. ASSUME NEW f \in Entries
      PROVE  refs'[f] = Cardinality(Users(f)') /\ readers'[f] = Cardinality(SharedHolders(f)')
  <2>1. /\ refs[f] = Cardinality(Users(f)) /\ Users(f)' = Users(f)
        /\ readers[f] = Cardinality(SharedHolders(f))
    BY <1>1, <1>6 DEF Accounting
  <2>2. CASE f # e
    BY <1>1, <1>2, <1>4, <1>6, <2>1, <2>2 DEF TypeOK
  <2>3. CASE f = e /\ mode[c] = "shared"
    <3>1. SharedHolders(f)' = SharedHolders(e) \ {c}
      BY <1>6, <2>3
    <3> QED
      BY <1>1, <1>2, <1>3, <1>4, <2>1, <2>3, <3>1 DEF TypeOK
  <2>4. CASE f = e /\ mode[c] = "exclusive"
    <3>1. SharedHolders(f)' = SharedHolders(f)
      BY <1>6, <2>4, SMTT(30) DEF SharedHolders
    <3> QED
      BY <1>2, <1>4, <2>1, <2>4, <3>1
  <2> QED
    BY <1>2, <2>2, <2>3, <2>4 DEF Modes
<1>8. ASSUME NEW f \in Entries
      PROVE  /\ f \in exclusive' <=> ExclusiveHolders(f)' # {}
             /\ f \in exclusive' => readers'[f] = 0
             /\ \A x, y \in ExclusiveHolders(f)' : x = y
  <2>1. /\ f \in exclusive <=> ExclusiveHolders(f) # {}
        /\ f \in exclusive => readers[f] = 0
        /\ \A x, y \in ExclusiveHolders(f) : x = y
    BY <1>1 DEF Accounting
  <2>2. mode[c] = "shared" => ExclusiveHolders(f)' = ExclusiveHolders(f) /\ e \notin exclusive
    <3>1. mode[c] = "shared" => c \notin ExclusiveHolders(f)
      BY DEF ExclusiveHolders
    <3>2. mode[c] = "shared" => e \notin exclusive
      BY <1>1, <1>2, <1>3 DEF TypeOK, Accounting
    <3> QED
      BY <1>6, <3>1, <3>2
  <2> QED
    BY <1>1, <1>2, <1>3, <1>4, <1>6, <2>1, <2>2 DEF TypeOK
<1>9. \A d \in Callers : /\ entry'[d] = NoEntry <=> pc'[d] = "idle"
                         /\ pc'[d] # "idle" => entries'[key'[d]] = entry'[d]
                         /\ registryMu' = d <=> pc'[d] = "releasing"
  BY <1>1, <1>2, <1>4 DEF TypeOK, Accounting
<1>10. \A i, j \in Keys : entries'[i] = entries'[j] /\ entries'[i] # NoEntry => i = j
  BY <1>1, <1>2 DEF Accounting
<1>11. Accounting'
  BY <1>7, <1>8, <1>9, <1>10 DEF Accounting
<1>12. NoLostWakeup'
  <2> SUFFICES ASSUME NEW d \in Callers, pc'[d] = "waiting", d \notin woken' PROVE ~CanEnter(d)'
    BY DEF NoLostWakeup
  <2>1. d # c /\ pc[d] = "waiting" /\ ~CanEnter(d) /\ entry[d] # e /\ entry[d] \in Entries
    BY <1>1, <1>4 DEF TypeOK, NoLostWakeup, Accounting
  <2> QED
    BY <1>1, <1>2, <1>4, <2>1 DEF TypeOK, CanEnter
<1>13. EntriesAreReferenced'
  BY <1>1, <1>2 DEF EntriesAreReferenced
<1> QED
  BY <1>5, <1>11, <1>12, <1>13 DEF LaneInv

\* A woken waiter only changes where it is.
LEMMA WakeUpStep ==
  ASSUME LaneInv, NEW c \in Callers, WakeUp(c)
  PROVE  LaneInv'
<1>1. TypeOK /\ NoPanic /\ Accounting /\ NoLostWakeup /\ EntriesAreReferenced
  BY DEF LaneInv
<1>2. /\ pc[c] = "waiting" /\ pc' = [pc EXCEPT ![c] = "trying"]
      /\ registryMu' = registryMu /\ entries' = entries /\ refs' = refs
      /\ readers' = readers /\ exclusive' = exclusive /\ woken' = woken
      /\ key' = key /\ mode' = mode /\ entry' = entry
  BY DEF WakeUp
<1>3. TypeOK' /\ NoPanic' /\ EntriesAreReferenced'
  BY <1>1, <1>2 DEF TypeOK, NoPanic, EntriesAreReferenced, Steps
<1>4. NoLostWakeup'
  BY <1>1, <1>2 DEF TypeOK, NoLostWakeup, CanEnter
<1>5. \A f \in Entries : /\ Users(f)' = Users(f)
                         /\ SharedHolders(f)' = SharedHolders(f)
                         /\ ExclusiveHolders(f)' = ExclusiveHolders(f)
  BY <1>1, <1>2 DEF TypeOK, Users, SharedHolders, ExclusiveHolders
<1>6. ASSUME NEW f \in Entries
      PROVE  /\ refs'[f] = Cardinality(Users(f)')
             /\ readers'[f] = Cardinality(SharedHolders(f)')
             /\ f \in exclusive' <=> ExclusiveHolders(f)' # {}
             /\ f \in exclusive' => readers'[f] = 0
             /\ \A x, y \in ExclusiveHolders(f)' : x = y
  <2>1. /\ Users(f)' = Users(f) /\ SharedHolders(f)' = SharedHolders(f)
        /\ ExclusiveHolders(f)' = ExclusiveHolders(f)
    BY <1>5
  <2> QED
    BY <1>1, <1>2, <2>1, SMTT(30) DEF Accounting
<1>7. Accounting'
  BY <1>1, <1>2, <1>6 DEF TypeOK, Accounting
<1> QED
  BY <1>3, <1>4, <1>7 DEF LaneInv

\* Every step of the registry preserves the invariant.
LEMMA NextLaneInv == LaneInv /\ [Next]_vars => LaneInv'
<1> SUFFICES ASSUME LaneInv, [Next]_vars PROVE LaneInv'
  OBVIOUS
<1>1. ASSUME NEW c \in Callers, Cancel(c) PROVE LaneInv'
  <2>1. pc[c] = "waiting" /\ registryMu = NoCaller /\ DropReference(c)
        /\ UNCHANGED <<readers, exclusive, woken, key, mode>> /\ registryMu' = NoCaller
    BY <1>1 DEF Cancel
  <2> QED
    BY <2>1, DropReferenceStep
<1>2. ASSUME NEW c \in Callers, ReleaseReference(c) PROVE LaneInv'
  <2>1. pc[c] = "releasing" /\ registryMu = c /\ DropReference(c)
        /\ UNCHANGED <<readers, exclusive, woken, key, mode>> /\ registryMu' = NoCaller
    BY <1>2 DEF ReleaseReference
  <2> QED
    BY <2>1, DropReferenceStep
<1>3. CASE UNCHANGED vars
  <2>1. /\ \A e : Users(e)' = Users(e) /\ SharedHolders(e)' = SharedHolders(e)
                  /\ ExclusiveHolders(e)' = ExclusiveHolders(e)
        /\ \A c : CanEnter(c)' = CanEnter(c)
    BY <1>3 DEF vars, Users, SharedHolders, ExclusiveHolders, CanEnter
  <2> QED
    BY <1>3, <2>1 DEF LaneInv, TypeOK, NoPanic, Accounting, NoLostWakeup, EntriesAreReferenced, vars
<1> QED
  BY <1>1, <1>2, <1>3, AcquireStep, TryEnterStep, WakeUpStep, ReleaseLaneStep DEF Next

\* The inductive invariant holds in every reachable state.
THEOREM LaneInvariant == Spec => []LaneInv
<1>1. Init => LaneInv
  BY InitLaneInv
<1>2. LaneInv /\ [Next]_vars => LaneInv'
  BY NextLaneInv
<1> QED
  BY <1>1, <1>2, PTL DEF Spec

\* The registry's state keeps its type: no counter goes below zero.
THEOREM LaneTypeCorrect == Spec => []TypeOK
<1>1. LaneInv => TypeOK
  BY DEF LaneInv
<1> QED
  BY <1>1, LaneInvariant, PTL

\* No panic of Release, entry.release or releaseReferenceLocked is reachable
\* while each lease is released once.
THEOREM LaneNeverPanics == Spec => []NoPanic
<1>1. LaneInv => NoPanic
  BY DEF LaneInv
<1> QED
  BY <1>1, LaneInvariant, PTL

\* A caller blocked on a channel nobody has closed really cannot enter: no
\* release is missed between the check and the wait.
THEOREM LaneWakesEveryone == Spec => []NoLostWakeup
<1>1. LaneInv => NoLostWakeup
  BY DEF LaneInv
<1> QED
  BY <1>1, LaneInvariant, PTL

\* refs, readers and exclusive of every entry count exactly the callers that
\* use it.
THEOREM LaneAccounting == Spec => []Accounting
<1>1. LaneInv => Accounting
  BY DEF LaneInv
<1> QED
  BY <1>1, LaneInvariant, PTL

\* No entry leaks: releaseReferenceLocked drops an entry with its last user, so
\* every registered entry has a caller that uses it for its key.
THEOREM LaneEntriesAreReferenced == Spec => []EntriesAreReferenced
<1>1. LaneInv => EntriesAreReferenced
  BY DEF LaneInv
<1> QED
  BY <1>1, LaneInvariant, PTL

-------------------------------------------------------------------------------
\* Who is inside each lane, as the refinement mapping of Lane sees it.
SharedBy == [k \in Keys |-> {c \in Callers : Inside(c, k, "shared")}]
ExclusiveBy == [k \in Keys |-> {c \in Callers : Inside(c, k, "exclusive")}]

\* The mapped variables are functions on Keys, equal when they agree everywhere.
LEMMA SameLanes ==
  ASSUME NEW f, NEW g, f = [k \in Keys |-> f[k]], g = [k \in Keys |-> g[k]],
         \A k \in Keys : f[k] = g[k]
  PROVE  f = g
OBVIOUS

\* The mapped variables are functions on Keys.
LEMMA LanesAreFunctions ==
  /\ SharedBy = [k \in Keys |-> SharedBy[k]] /\ ExclusiveBy = [k \in Keys |-> ExclusiveBy[k]]
  /\ SharedBy' = [k \in Keys |-> SharedBy'[k]] /\ ExclusiveBy' = [k \in Keys |-> ExclusiveBy'[k]]
BY DEF SharedBy, ExclusiveBy

\* A step that moves nobody into or out of a lease is invisible in LaneSpec.
LEMMA InvisibleStep ==
  ASSUME TypeOK, TypeOK',
         \A c \in Callers, k \in Keys, m \in Modes : Inside(c, k, m)' <=> Inside(c, k, m)
  PROVE  SharedBy' = SharedBy /\ ExclusiveBy' = ExclusiveBy
BY DEF SharedBy, ExclusiveBy, Modes

\* Entering a lane is LaneSpec's Enter: the flag and the reader count of the
\* caller's entry speak for every lease of its key.
LEMMA EnterRefines ==
  ASSUME LaneInv, NEW c \in Callers, TryEnter(c), CanEnter(c)
  PROVE  Lane!Enter(c, key[c])
<1> USE LaneAssumption
<1>1. TypeOK /\ Accounting
  BY DEF LaneInv
<1> DEFINE k == key[c]
<1> DEFINE e == entry[c]
<1>2. /\ pc[c] = "trying" /\ e \in Entries /\ k \in Keys /\ mode[c] \in Modes
      /\ entries[k] = e /\ key' = key /\ mode' = mode /\ pc' = [pc EXCEPT ![c] = "held"]
  BY <1>1 DEF TypeOK, Accounting, TryEnter
<1>3. ASSUME NEW d \in Callers, NEW m \in Modes, Inside(d, k, m) PROVE entry[d] = e
  BY <1>1, <1>2, <1>3 DEF Accounting, Inside
<1>4. ExclusiveBy[k] = {}
  <2>1. ExclusiveHolders(e) = {}
    BY <1>1, <1>2 DEF Accounting, CanEnter
  <2> QED
    BY <1>2, <1>3, <2>1 DEF ExclusiveBy, ExclusiveHolders, Inside, Modes
<1>5. mode[c] = "exclusive" => SharedBy[k] = {}
  <2> SUFFICES ASSUME mode[c] = "exclusive" PROVE SharedBy[k] = {}
    OBVIOUS
  <2>1. Cardinality(SharedHolders(e)) = 0
    BY <1>1, <1>2 DEF Accounting, CanEnter
  <2>2. SharedHolders(e) \in SUBSET Callers
    BY DEF SharedHolders
  <2>3. SharedHolders(e) = {}
    BY <2>1, <2>2, NoReaders
  <2> QED
    BY <1>2, <1>3, <2>3 DEF SharedBy, SharedHolders, Inside, Modes
<1>6. \A d \in Callers, j \in Keys, m \in Modes :
        Inside(d, j, m)' <=> Inside(d, j, m) \/ (d = c /\ j = k /\ m = mode[c])
  BY <1>1, <1>2 DEF TypeOK, Inside
<1>7. CASE mode[c] = "shared"
  <2>1. \A j \in Keys : /\ SharedBy'[j] = IF j = k THEN SharedBy[j] \cup {c} ELSE SharedBy[j]
                        /\ ExclusiveBy'[j] = ExclusiveBy[j]
    BY <1>6, <1>7 DEF SharedBy, ExclusiveBy, Modes
  <2>2. SharedBy' = [SharedBy EXCEPT ![k] = @ \cup {c}] /\ ExclusiveBy' = ExclusiveBy
    <3> DEFINE new == [SharedBy EXCEPT ![k] = @ \cup {c}]
    <3>1. new = [j \in Keys |-> new[j]] /\ \A j \in Keys : SharedBy'[j] = new[j]
      BY <1>2, <2>1, LanesAreFunctions
    <3>2. SharedBy' = new
      BY <3>1, LanesAreFunctions, SameLanes
    <3> QED
      BY <2>1, <3>2, LanesAreFunctions, SameLanes
  <2> QED
    BY <1>4, <2>2 DEF Lane!Enter, SharedBy, ExclusiveBy
<1>8. CASE mode[c] = "exclusive"
  <2>1. \A j \in Keys : /\ ExclusiveBy'[j] = IF j = k THEN ExclusiveBy[j] \cup {c} ELSE ExclusiveBy[j]
                        /\ SharedBy'[j] = SharedBy[j]
    BY <1>6, <1>8 DEF SharedBy, ExclusiveBy, Modes
  <2>2. ExclusiveBy' = [ExclusiveBy EXCEPT ![k] = {c}] /\ SharedBy' = SharedBy
    <3> DEFINE new == [ExclusiveBy EXCEPT ![k] = {c}]
    <3>1. new = [j \in Keys |-> new[j]] /\ \A j \in Keys : ExclusiveBy'[j] = new[j]
      BY <1>2, <1>4, <2>1, LanesAreFunctions
    <3>2. ExclusiveBy' = new
      BY <3>1, LanesAreFunctions, SameLanes
    <3> QED
      BY <2>1, <3>2, LanesAreFunctions, SameLanes
  <2> QED
    BY <1>4, <1>5, <1>8, <2>2 DEF Lane!Enter, SharedBy, ExclusiveBy
<1> QED
  BY <1>2, <1>7, <1>8 DEF Modes

\* The first half of Release is LaneSpec's Leave.
LEMMA LeaveRefines ==
  ASSUME LaneInv, LaneInv', NEW c \in Callers, ReleaseLane(c)
  PROVE  Lane!Leave(c, key[c])
<1> DEFINE k == key[c]
<1>1. /\ pc[c] = "held" /\ k \in Keys /\ mode[c] \in Modes /\ key' = key /\ mode' = mode
      /\ pc \in [Callers -> Steps]
  BY DEF LaneInv, TypeOK, ReleaseLane
<1>2. pc' = [pc EXCEPT ![c] = "releasing"]
  <2>1. pc'[c] # "panicked"
    BY DEF LaneInv, NoPanic
  <2>2. pc' \in {[pc EXCEPT ![c] = "panicked"], [pc EXCEPT ![c] = "releasing"]}
    BY DEF ReleaseLane
  <2> QED
    BY <1>1, <2>1, <2>2
<1>3. \A d \in Callers, j \in Keys, m \in Modes :
        Inside(d, j, m)' <=> Inside(d, j, m) /\ ~(d = c /\ j = k)
  BY <1>1, <1>2 DEF Inside
<1>4. \A j \in Keys :
        /\ SharedBy'[j] = IF j = k THEN SharedBy[j] \ {c} ELSE SharedBy[j]
        /\ ExclusiveBy'[j] = IF j = k THEN ExclusiveBy[j] \ {c} ELSE ExclusiveBy[j]
  BY <1>3 DEF SharedBy, ExclusiveBy, Modes
<1>5. SharedBy' = [SharedBy EXCEPT ![k] = @ \ {c}]
  <2> DEFINE new == [SharedBy EXCEPT ![k] = @ \ {c}]
  <2>1. new = [j \in Keys |-> new[j]] /\ \A j \in Keys : SharedBy'[j] = new[j]
    BY <1>1, <1>4, LanesAreFunctions
  <2> QED
    BY <2>1, LanesAreFunctions, SameLanes
<1>6. ExclusiveBy' = [ExclusiveBy EXCEPT ![k] = @ \ {c}]
  <2> DEFINE new == [ExclusiveBy EXCEPT ![k] = @ \ {c}]
  <2>1. new = [j \in Keys |-> new[j]] /\ \A j \in Keys : ExclusiveBy'[j] = new[j]
    BY <1>1, <1>4, LanesAreFunctions
  <2> QED
    BY <2>1, LanesAreFunctions, SameLanes
<1>7. c \in SharedBy[k] \cup ExclusiveBy[k]
  BY <1>1 DEF SharedBy, ExclusiveBy, Inside, Modes
<1> QED
  BY <1>5, <1>6, <1>7 DEF Lane!Leave, SharedBy, ExclusiveBy

\* Every step of the registry is a step of LaneSpec or invisible in it.
LEMMA StepRefines == LaneInv /\ LaneInv' /\ [Next]_vars => [Lane!Next]_(Lane!laneVars)
<1> SUFFICES ASSUME LaneInv, LaneInv', [Next]_vars
             PROVE  Lane!Next \/ (SharedBy' = SharedBy /\ ExclusiveBy' = ExclusiveBy)
  BY DEF Lane!laneVars, SharedBy, ExclusiveBy
<1>1. TypeOK /\ TypeOK' /\ NoPanic'
  BY DEF LaneInv
<1>2. ASSUME NEW c \in Callers, key' = [key EXCEPT ![c] = key'[c]], mode' = [mode EXCEPT ![c] = mode'[c]],
             pc' = [pc EXCEPT ![c] = pc'[c]], pc[c] # "held", pc'[c] # "held"
      PROVE  SharedBy' = SharedBy /\ ExclusiveBy' = ExclusiveBy
  <2>1. \A d \in Callers, k \in Keys, m \in Modes : Inside(d, k, m)' <=> Inside(d, k, m)
    BY <1>1, <1>2 DEF TypeOK, Inside
  <2> QED
    BY <1>1, <2>1, InvisibleStep
<1>3. ASSUME NEW c \in Callers, NEW k \in Keys, NEW m \in Modes, Acquire(c, k, m)
      PROVE  SharedBy' = SharedBy /\ ExclusiveBy' = ExclusiveBy
  BY <1>1, <1>2, <1>3 DEF Acquire, TypeOK
<1>4. ASSUME NEW c \in Callers, TryEnter(c)
      PROVE  Lane!Next \/ (SharedBy' = SharedBy /\ ExclusiveBy' = ExclusiveBy)
  <2>1. CASE CanEnter(c)
    BY <1>1, <1>4, <2>1, EnterRefines DEF Lane!Next, TypeOK
  <2>2. CASE ~CanEnter(c)
    BY <1>1, <1>2, <1>4, <2>2 DEF TryEnter, TypeOK
  <2> QED
    BY <2>1, <2>2
<1>5. ASSUME NEW c \in Callers, WakeUp(c)
      PROVE  SharedBy' = SharedBy /\ ExclusiveBy' = ExclusiveBy
  BY <1>1, <1>2, <1>5 DEF WakeUp, TypeOK
<1>6. ASSUME NEW c \in Callers, Cancel(c) \/ ReleaseReference(c)
      PROVE  SharedBy' = SharedBy /\ ExclusiveBy' = ExclusiveBy
  <2>1. /\ pc[c] \in {"waiting", "releasing"} /\ key' = key /\ mode' = mode
        /\ pc' \in {[pc EXCEPT ![c] = "panicked"], [pc EXCEPT ![c] = "idle"]}
    BY <1>6 DEF Cancel, ReleaseReference, DropReference
  <2> QED
    BY <1>1, <1>2, <2>1 DEF TypeOK
<1>7. ASSUME NEW c \in Callers, ReleaseLane(c) PROVE Lane!Next
  BY <1>1, <1>7, LeaveRefines DEF Lane!Next, TypeOK
<1>8. CASE UNCHANGED vars
  BY <1>8 DEF vars, SharedBy, ExclusiveBy, Inside
<1> QED
  BY <1>3, <1>4, <1>5, <1>6, <1>7, <1>8 DEF Next

\* The registry of lanes implements a read/write lock per key: for any number
\* of callers, keys and recycled entries, an exclusive lease overlaps no other
\* lease of its key.
THEOREM LaneRefinement == Spec => LaneImplemented
<1>1. Init => Lane!Init
  <2> SUFFICES ASSUME Init PROVE Lane!Init
    OBVIOUS
  <2>1. \A c \in Callers, k \in Keys, m \in Modes : ~Inside(c, k, m)
    BY DEF Init, Inside
  <2> QED
    BY <2>1 DEF Lane!Init, Modes
<1>2. LaneInv /\ LaneInv' /\ [Next]_vars => [Lane!Next]_(Lane!laneVars)
  BY StepRefines
<1> QED
  BY <1>1, <1>2, LaneInvariant, PTL DEF Spec, LaneImplemented, Lane!Spec

===============================================================================
