---------------------------- MODULE MCAgentRuntime -----------------------------
(***************************************************************************)
(* Instances of AgentRuntime for TLC.                                      *)
(***************************************************************************)
EXTENDS AgentRuntime

CONSTANTS turn, queued, flow, work1, work2, user, engine

MCTurns == {turn, queued}
MCDetached == {queued}
MCFlows == {flow}
MCWorks == {work1, work2}
MCRuns == {turn, queued, flow, work1, work2}
MCCompactions == {work1}
MCStoppers == {user, engine}

Options == {"turn", "task", "flow", "work", "remove", "cancel", "round", "fault", "fatal",
            "interrupt", "retire", "close", "expire"}
Limited(f) == [o \in Options |-> IF o \in DOMAIN f THEN f[o] ELSE 0]

(* A turn and a Workflow turn, or a turn of two rounds, with two works     *)
(* nested at their boundaries; a work that is removed while the Runtime    *)
(* closes or retires; an execution that is stopped, fails to begin or      *)
(* aborts the Runtime; the Runtime's own turn while it retires or is       *)
(* closed by two callers.                                                  *)
Nesting == Limited([turn |-> 1, flow |-> 1, work |-> 2, interrupt |-> 1])
Rounds == Limited([turn |-> 1, work |-> 2, round |-> 1, interrupt |-> 1])
Removal == Limited([turn |-> 1, work |-> 1, remove |-> 1, interrupt |-> 1, close |-> 1,
                    retire |-> 1])
Failure == Limited([turn |-> 1, flow |-> 1, cancel |-> 1, round |-> 1, fault |-> 1,
                    fatal |-> 1, retire |-> 1])
Slipping == Limited([task |-> 1, work |-> 1, retire |-> 1, close |-> 2, expire |-> 1])
Safety == {Nesting, Rounds, Removal, Failure, Slipping}

(* The same cases, smaller, for liveness. *)
GivesUp == Limited([turn |-> 1, flow |-> 1, work |-> 1, cancel |-> 1])
Stopped == Limited([turn |-> 1, work |-> 1, interrupt |-> 1])
Closing == Limited([turn |-> 1, work |-> 1, remove |-> 1, close |-> 1])
ClosingTwice == Limited([turn |-> 1, task |-> 1, close |-> 2, expire |-> 1])
Retiring == Limited([turn |-> 1, flow |-> 1, fatal |-> 1, retire |-> 1])
Live == {GivesUp, Stopped, Closing, ClosingTwice, Retiring}

(* A second work is removed while the first runs nested. *)
RemovalWhileNested == {Limited([turn |-> 1, work |-> 2, remove |-> 1])}
Cancelling == {Limited([turn |-> 1, flow |-> 1, cancel |-> 1])}
===============================================================================
