----------------------------- MODULE MCController -----------------------------
(***************************************************************************)
(* Instances of CurrentNodeController.  A .cfg file puts one together from *)
(* a graph, the kinds and Sessions of its Nodes, what the store held when  *)
(* the process started, and how often each operation happens.              *)
(***************************************************************************)
EXTENDS CurrentNodeController, TLC

Transition(n, T) == [from |-> n, to |-> T, approval |-> FALSE]
NeedingApproval(n, T) == [from |-> n, to |-> T, approval |-> TRUE]

\* Graphs, all of one Task.
TwoNodes == 1..2
ThreeNodes == 1..3
ChainEdges == {Transition(1, {2}), Transition(2, {})}
ForkEdges == {Transition(1, {2, 3}), Transition(2, {}), Transition(3, {})}
ApprovalEdges == {NeedingApproval(1, {2}), Transition(2, {})}
EitherEdges == ChainEdges \cup ApprovalEdges

OneTask == {"t"}
SameTask == [n \in Nodes |-> "t"]
FirstNode == [t \in Tasks |-> 1]

Agents == [n \in Nodes |-> "agent"]
AgentFirst == [n \in Nodes |-> IF n = 1 THEN "agent" ELSE "script"]

SharedSession == [n \in Nodes |-> 1]
OwnSessions == [n \in Nodes |-> n]

NothingSaved == [n \in Nodes |-> "none"]
AllAdmitted == [n \in Nodes |-> "admitted"]

\* How often the operations happen; those left out do not.
Spending(r) == [o \in Operations |-> IF o \in DOMAIN r THEN r[o] ELSE 0]
StartPromote == {Spending([start |-> 1, promote |-> 1])}
StartInterrupt == {Spending([start |-> 1, interrupt |-> 1])}
StartClose == {Spending([start |-> 1, close |-> 1])}
StartFaults == {Spending([start |-> 1, fault |-> 1])}
PromoteOrFault == StartPromote \cup StartFaults
Races ==
  {Spending([start |-> 1, interrupt |-> 1, resume |-> 1]),
   Spending([start |-> 1, resume |-> 1, close |-> 1]),
   Spending([start |-> 1, interrupt |-> 1, fault |-> 1, close |-> 1]),
   Spending([start |-> 1, interrupt |-> 1, session |-> 1]),
   Spending([start |-> 1, session |-> 1, resume |-> 1, fault |-> 1]),
   Spending([start |-> 1, interrupt |-> 1, timeout |-> 1, store |-> 1])}
InterruptOrClose == StartInterrupt \cup StartClose
MoveResumeRestart ==
  {Spending([move |-> 1, resume |-> 1, stop |-> 1, timeout |-> 1, restart |-> 1])}
===============================================================================
