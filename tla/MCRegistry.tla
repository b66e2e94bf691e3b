------------------------------ MODULE MCRegistry ------------------------------
(* One Session with two Agent Steps, one subscriber and two generations,      *)
(* beside another Session that only reports, over one sleep guard.            *)
EXTENDS RuntimeRegistry, TLC

Nothing == [i \in Inputs |-> 0]
Scenario(m, limits) == [mode |-> m, limits |-> limits @@ Nothing]

\* The registry alone: a subscriber beside a Step with a prompt, a subscriber
\* that meets two generations, two Steps that publish beside each other, and a
\* Step whose last publication meets the next generation.
Asking ==
  Scenario("never", [open |-> 1, step |-> 1, prompt |-> 1, watch |-> 1, cancel |-> 1, fault |-> 1])
Resubscribing == Scenario("never", [open |-> 2, watch |-> 2, cancel |-> 1, fault |-> 1])
TwoSteps == Scenario("never", [open |-> 1, step |-> 2])
Reopening == Scenario("never", [open |-> 2, step |-> 1, prompt |-> 1])

\* The sleep guard alone: refusals and Close, restarts that fail, or one
\* failed restart that is reported late.
Refused == Scenario("active", [report |-> 4, refusal |-> 2, exit |-> 1, close |-> 1])
Restarted == Scenario("active", [report |-> 4, restart |-> 1, exit |-> 2, close |-> 1])
AlwaysOn == Scenario("always", [refusal |-> 1, restart |-> 1, exit |-> 2, close |-> 1])

LateFailure == Scenario("active", [report |-> 4, restart |-> 1, exit |-> 1])

\* Both.
Together == Scenario("active", [open |-> 1, step |-> 1, report |-> 1])

RegistryScenarios == {Asking, Resubscribing, TwoSteps, Reopening}
LateScenario == {LateFailure}
SleepScenarios == {Refused, Restarted, AlwaysOn, Together, Resubscribing, Reopening}
===============================================================================
