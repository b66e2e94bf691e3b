------------------------------- MODULE LaneSpec -------------------------------
(***************************************************************************)
(* What a mutation lane promises its callers: for every key, either any    *)
(* number of shared holders or exactly one exclusive holder.  MutationLane *)
(* is shown to implement this specification.                               *)
(***************************************************************************)
EXTENDS FiniteSets

CONSTANTS Keys, Callers

VARIABLES sharedBy,     \* key -> the callers inside the lane with a shared lease
          exclusiveBy   \* key -> the callers inside the lane with an exclusive lease

laneVars == <<sharedBy, exclusiveBy>>

Init ==
  /\ sharedBy = [k \in Keys |-> {}]
  /\ exclusiveBy = [k \in Keys |-> {}]

Enter(c, k) ==
  /\ exclusiveBy[k] = {}
  /\ \/ /\ sharedBy' = [sharedBy EXCEPT ![k] = @ \cup {c}]
        /\ UNCHANGED exclusiveBy
     \/ /\ sharedBy[k] = {}
        /\ exclusiveBy' = [exclusiveBy EXCEPT ![k] = {c}]
        /\ UNCHANGED sharedBy

Leave(c, k) ==
  /\ c \in sharedBy[k] \cup exclusiveBy[k]
  /\ sharedBy' = [sharedBy EXCEPT ![k] = @ \ {c}]
  /\ exclusiveBy' = [exclusiveBy EXCEPT ![k] = @ \ {c}]

Next == \E c \in Callers, k \in Keys : Enter(c, k) \/ Leave(c, k)

Spec == Init /\ [][Next]_laneVars
===============================================================================
