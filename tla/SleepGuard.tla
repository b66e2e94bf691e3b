------------------------------ MODULE SleepGuard ------------------------------
(***************************************************************************)
(* server/sleepguard: the controller that holds a system sleep inhibitor   *)
(* while any Agent works, and the guard that restarts an inhibitor process *)
(* that exits.  Reports, timers, inhibitor failures and Close all reach    *)
(* the controller's one goroutine through one bounded channel.             *)
(***************************************************************************)
EXTENDS Integers, Sequences, FiniteSets, ActivityAggregate

CONSTANTS Capacity,   \* buffer of modeController.commands
          Scenarios   \* a sleep prevention mode, and how often each input happens

Modes == {"never", "active", "always"}
Inputs == {"report", "refusal", "restart", "exit", "close",
           "open", "step", "prompt", "watch", "cancel", "fault"}

ASSUME GuardAssumption ==
  /\ Capacity \in Nat \ {0}
  /\ Scenarios \subseteq [mode : Modes, limits : [Inputs -> Nat]]

VARIABLES
  mode,        \* config.SleepPreventionMode
  commands,    \* modeController.commands
  closed,      \* modeController.closed
  done,        \* modeController.done is closed
  held, active, epoch,     \* locals of run
  idleTimer, retryTimer,   \* epoch the timer was created with, 0 for nil
  armed,       \* timers that are running: [kind, epoch]
  fired,       \* timer callbacks that have not sent their command yet
  guardActive, generation, \* Guard.active and Guard.generation
  process,     \* generation of the running inhibitor process, 0 for none
  monitors,    \* Guard.monitor goroutines: generation -> where it is
  left         \* inputs still allowed

controllerVars == <<held, active, epoch, idleTimer, retryTimer>>
guardVars == <<guardActive, generation, process, monitors>>
sleepVars == <<blocking, mode, commands, closed, done, controllerVars, armed, fired, guardVars, left>>

Kinds == {"state", "timer", "retry", "failed", "close"}
Command(k, a, e) == [kind |-> k, active |-> a, epoch |-> e]
MonitorSteps == {"none", "watching", "delaying", "failed"}

SleepTypeOK ==
  /\ blocking \in SUBSET Sessions
  /\ mode \in Modes
  /\ commands \in Seq([kind : Kinds, active : BOOLEAN, epoch : Nat])
  /\ Len(commands) <= Capacity
  /\ {closed, done, held, active, guardActive} \subseteq BOOLEAN
  /\ {epoch, idleTimer, retryTimer, generation, process} \subseteq Nat
  /\ armed \cup fired \subseteq [kind : {"timer", "retry"}, epoch : Nat]
  /\ \A g \in DOMAIN monitors : monitors[g] \in MonitorSteps
  /\ left \in [Inputs -> Nat]

\* NewManager: the always mode has acquired, or has queued its failure.
SleepInit ==
  /\ blocking = {}
  /\ closed = FALSE /\ done = FALSE
  /\ epoch = 0 /\ idleTimer = 0 /\ retryTimer = 0
  /\ armed = {} /\ fired = {}
  /\ \E s \in Scenarios : mode = s.mode /\ left = s.limits
  /\ held = (mode = "always") /\ active = (mode = "always")
  /\ guardActive \in BOOLEAN
  /\ guardActive => mode = "always"
  /\ generation = IF guardActive THEN 1 ELSE 0
  /\ process = generation
  /\ monitors = [g \in 1..generation |-> "watching"]
  /\ commands = IF mode = "always" /\ ~guardActive
                THEN <<Command("failed", FALSE, 0)>> ELSE <<>>

Spend(i) == left[i] > 0 /\ left' = [left EXCEPT ![i] = @ - 1]

\* A send to commands.  Every sender but Close looks at closed first, and gives up
\* when it is set before that or when run has ended.
Send(c) == Len(commands) < Capacity /\ commands' = Append(commands, c)
Enqueue(c) ==
  \/ ~done /\ Send(c)
  \/ closed /\ UNCHANGED commands

-------------------------------------------------------------------------------
\* updateAggregateRuntimeActivityState; the active mode observes with
\* OnActiveStateChanged.  sleepObserverMu keeps the reports in order.
UpdateAggregate(s, activeForControl) ==
  /\ blocking' = Recorded(s, activeForControl)
  /\ IF mode = "active" /\ Reported(s, activeForControl)
     THEN Enqueue(Command("state", blocking' # {}, 0))
     ELSE UNCHANGED commands

\* The activity of a Session whose Runtime is not modelled changes.
Report(s, activeForControl) ==
  /\ Spend("report")
  /\ UpdateAggregate(s, activeForControl)
  /\ UNCHANGED <<mode, closed, done, controllerVars, armed, fired, guardVars>>

\* A timer runs out.
TimerFires(t) ==
  /\ t \in armed
  /\ armed' = armed \ {t}
  /\ fired' = fired \cup {t}
  /\ UNCHANGED <<blocking, mode, commands, closed, done, controllerVars, guardVars, left>>

\* enqueueTimer.
EnqueueTimer(t) ==
  /\ t \in fired
  /\ fired' = fired \ {t}
  /\ Enqueue(Command(t.kind, FALSE, t.epoch))
  /\ UNCHANGED <<blocking, mode, closed, done, controllerVars, armed, guardVars, left>>

-------------------------------------------------------------------------------
(* Guard *)

\* startLocked succeeds: a new process under a new generation, with a monitor.
Started(old) ==
  /\ guardActive' = TRUE
  /\ generation' = generation + 1
  /\ process' = generation'
  /\ monitors' = [g \in 1..generation' |-> IF g = generation' THEN "watching" ELSE old[g]]

Running == guardActive /\ process # 0

\* Guard.Acquire returning nil: nothing to do, or a process was started.
AcquireSucceeds ==
  /\ guardActive' = TRUE
  /\ generation' = generation + (IF Running THEN 0 ELSE 1)
  /\ process' = generation'
  /\ monitors' = [g \in 1..generation' |-> IF g > generation THEN "watching" ELSE monitors[g]]
  /\ UNCHANGED left

\* Guard.Acquire returning the error of the platform.
AcquireFails ==
  /\ ~Running
  /\ Spend("refusal")
  /\ guardActive' = FALSE /\ process' = 0
  /\ UNCHANGED <<generation, monitors>>

\* Guard.Release.
Released ==
  /\ guardActive' = FALSE
  /\ process' = IF guardActive THEN 0 ELSE process
  /\ UNCHANGED <<generation, monitors, left>>

\* The inhibitor process exits on its own.
ProcessExits ==
  /\ process # 0
  /\ Spend("exit")
  /\ process' = 0
  /\ UNCHANGED <<blocking, mode, commands, closed, done, controllerVars, armed, fired,
                 guardActive, generation, monitors>>

\* Guard.monitor sees the exit; the guard may have moved on.
MonitorWakes(g) ==
  /\ monitors[g] = "watching" /\ process # g
  /\ monitors' = [monitors EXCEPT ![g] =
       IF guardActive /\ generation = g THEN "delaying" ELSE "none"]
  /\ UNCHANGED <<blocking, mode, commands, closed, done, controllerVars, armed, fired,
                 guardActive, generation, process, left>>

\* Deliberately wrong: restarts without looking at the guard again after the delay.
RestartUnchecked(g) ==
  /\ monitors[g] = "delaying"
  /\ Started([monitors EXCEPT ![g] = "none"]) /\ UNCHANGED left
  /\ UNCHANGED <<blocking, mode, commands, closed, done, controllerVars, armed, fired>>

\* Guard.monitor after the restart delay.
MonitorRestarts(g) ==
  /\ monitors[g] = "delaying"
  /\ \/ /\ ~(guardActive /\ generation = g)
        /\ monitors' = [monitors EXCEPT ![g] = "none"]
        /\ UNCHANGED <<guardActive, generation, process, left>>
     \/ /\ guardActive /\ generation = g
        /\ Started([monitors EXCEPT ![g] = "none"]) /\ UNCHANGED left
     \/ /\ guardActive /\ generation = g
        /\ Spend("restart")
        /\ guardActive' = FALSE /\ process' = 0
        /\ monitors' = [monitors EXCEPT ![g] = "failed"]
        /\ UNCHANGED generation
  /\ UNCHANGED <<blocking, mode, commands, closed, done, controllerVars, armed, fired>>

\* The error handler NewManager installs, ending in OnInhibitorFailed.
OnInhibitorFailed(g) ==
  /\ monitors[g] = "failed"
  /\ monitors' = [monitors EXCEPT ![g] = "none"]
  /\ Enqueue(Command("failed", FALSE, 0))
  /\ UNCHANGED <<blocking, mode, closed, done, controllerVars, armed, fired,
                 guardActive, generation, process, left>>

-------------------------------------------------------------------------------
(* modeController.run, one command at a time *)

Stop(timers, k, e) == timers \ {[kind |-> k, epoch |-> e]}

\* scheduleRetry, unless a retry is pending.
ScheduleRetry(e, timers) ==
  LET new == IF retryTimer = 0 THEN {e + 1} ELSE {}
  IN  /\ epoch' = e + Cardinality(new)
      /\ retryTimer' = IF new = {} THEN retryTimer ELSE e + 1
      /\ armed' = timers \cup [kind : {"retry"}, epoch : new]

\* tryAcquire, entered with held = h, active = a, epoch = e.
TryAcquire(h, a, e, timers) ==
  \/ /\ h \/ ~a
     /\ held' = h /\ epoch' = e /\ armed' = timers
     /\ UNCHANGED <<retryTimer, guardVars, left>>
  \/ /\ ~h /\ a
     /\ AcquireSucceeds
     /\ held' = TRUE /\ epoch' = e /\ retryTimer' = 0
     /\ armed' = Stop(timers, "retry", retryTimer)
  \/ /\ ~h /\ a
     /\ AcquireFails
     /\ held' = FALSE
     /\ ScheduleRetry(e, timers)

\* Deliberately wrong: stops the idle timer and still remembers it.
ActiveKeepsTimer ==
  /\ commands # <<>> /\ ~done
  /\ Head(commands).kind = "state" /\ Head(commands).active
  /\ commands' = Tail(commands)
  /\ active' = TRUE
  /\ TryAcquire(held, TRUE, epoch + 1, Stop(armed, "timer", idleTimer))
  /\ UNCHANGED <<blocking, mode, closed, done, idleTimer, fired>>

\* A report of activity.
StateActive ==
  /\ commands # <<>> /\ ~done
  /\ Head(commands).kind = "state" /\ Head(commands).active
  /\ commands' = Tail(commands)
  /\ active' = TRUE
  /\ idleTimer' = 0
  /\ TryAcquire(held, TRUE, epoch + 1, Stop(armed, "timer", idleTimer))
  /\ UNCHANGED <<blocking, mode, closed, done, fired>>

\* A report of idleness: the retry goes, the idle grace begins.
StateIdle ==
  /\ commands # <<>> /\ ~done
  /\ Head(commands).kind = "state" /\ ~Head(commands).active
  /\ commands' = Tail(commands)
  /\ active' = FALSE
  /\ retryTimer' = 0
  /\ LET stopped == Stop(armed, "retry", retryTimer)
     IN  IF held /\ idleTimer = 0
         THEN /\ epoch' = epoch + 1
              /\ idleTimer' = epoch + 1
              /\ armed' = stopped \cup {[kind |-> "timer", epoch |-> epoch + 1]}
         ELSE armed' = stopped /\ UNCHANGED <<epoch, idleTimer>>
  /\ UNCHANGED <<blocking, mode, closed, done, held, fired, guardVars, left>>

\* The idle grace is over; a timer of an earlier period is ignored.
TimerFired ==
  /\ commands # <<>> /\ ~done
  /\ Head(commands).kind = "timer"
  /\ commands' = Tail(commands)
  /\ IF Head(commands).epoch # epoch \/ active \/ ~held
     THEN UNCHANGED <<idleTimer, held, guardVars, left>>
     ELSE idleTimer' = 0 /\ held' = FALSE /\ Released
  /\ UNCHANGED <<blocking, mode, closed, done, active, epoch, retryTimer, armed, fired>>

\* The retry clears its timer before it tries, so a new one can be scheduled.
RetryAcquire ==
  /\ commands # <<>> /\ ~done
  /\ Head(commands).kind = "retry"
  /\ commands' = Tail(commands)
  /\ IF Head(commands).epoch # epoch \/ ~active \/ held
     THEN UNCHANGED <<held, epoch, retryTimer, armed, guardVars, left>>
     ELSE \/ /\ AcquireSucceeds
             /\ held' = TRUE /\ retryTimer' = 0
             /\ UNCHANGED <<epoch, armed>>
          \/ /\ AcquireFails
             /\ held' = FALSE
             /\ epoch' = epoch + 1 /\ retryTimer' = epoch + 1
             /\ armed' = armed \cup {[kind |-> "retry", epoch |-> epoch + 1]}
  /\ UNCHANGED <<blocking, mode, closed, done, active, idleTimer, fired>>

\* Deliberately wrong: believes the inhibitor is still held.
FailureIgnored ==
  /\ commands # <<>> /\ ~done
  /\ Head(commands).kind = "failed"
  /\ commands' = Tail(commands)
  /\ UNCHANGED <<blocking, mode, closed, done, controllerVars, armed, fired, guardVars, left>>

\* The guard has lost the inhibitor.
InhibitorFailed ==
  /\ commands # <<>> /\ ~done
  /\ Head(commands).kind = "failed"
  /\ commands' = Tail(commands)
  /\ TryAcquire(FALSE, active, epoch, armed)
  /\ UNCHANGED <<blocking, mode, closed, done, active, idleTimer, fired>>

\* Close sets the flag; then it sends the last command, when there is room.
CloseCall ==
  /\ ~closed
  /\ Spend("close")
  /\ closed' = TRUE
  /\ UNCHANGED <<blocking, mode, commands, done, controllerVars, armed, fired, guardVars>>

CloseSends ==
  /\ closed /\ ~done
  /\ \A i \in DOMAIN commands : commands[i].kind # "close"
  /\ Send(Command("close", FALSE, 0))
  /\ UNCHANGED <<blocking, mode, closed, done, controllerVars, armed, fired, guardVars, left>>

\* The last command releases what is held and ends run.
CloseTaken ==
  /\ commands # <<>> /\ ~done
  /\ Head(commands).kind = "close"
  /\ commands' = Tail(commands)
  /\ done' = TRUE
  /\ idleTimer' = 0 /\ retryTimer' = 0
  /\ armed' = {}
  /\ IF held THEN Released ELSE UNCHANGED <<guardVars, left>>
  /\ UNCHANGED <<blocking, mode, closed, held, active, epoch, fired>>

-------------------------------------------------------------------------------
Run == StateActive \/ StateIdle \/ TimerFired \/ RetryAcquire \/ InhibitorFailed \/ CloseTaken

Timer == \E t \in armed \cup fired : TimerFires(t) \/ EnqueueTimer(t)

Monitor ==
  \E g \in DOMAIN monitors : MonitorWakes(g) \/ MonitorRestarts(g) \/ OnInhibitorFailed(g)

SleepStep == Run \/ Timer \/ Monitor \/ ProcessExits \/ CloseCall \/ CloseSends

-------------------------------------------------------------------------------
(* Properties *)

FailureOnItsWay ==
  \/ \E g \in DOMAIN monitors : monitors[g] = "failed"
  \/ \E i \in DOMAIN commands : commands[i].kind = "failed"

\* The controller never believes it holds an inhibitor the guard has given up,
\* unless a restart failure is on its way to tell it.  (The reverse does happen: a
\* failure that arrives after a new acquisition clears held over a running one.)
HeldMatchesGuard == closed \/ (held => guardActive \/ FailureOnItsWay)

\* What the controller holds when it takes Close stays released: once Close has
\* returned no inhibitor runs and no monitor starts another, whatever exit, delay
\* or restart was under way.
ClosedLetsSleep ==
  done /\ held => ~guardActive /\ process = 0

\* While Sessions go on being active, an inhibitor process ends up running, in
\* spite of refused acquisitions, exits and timers of earlier idle periods.
WorkKeepsAwake ==
  LET Wanted == ~closed /\ (mode = "always" \/ (mode = "active" /\ blocking # {}))
  IN  Wanted ~> process # 0 \/ ~Wanted

\* When no Session has been active for long enough the controller gives up what it
\* holds, in spite of restarts, of retries that were pending and of idle timers of
\* earlier periods that are stopped or still deliver.
IdleGivesUp ==
  mode = "active" /\ blocking = {} ~> ~held \/ done \/ blocking # {}

\* When no Session has been active for longer than the idle grace, the system may
\* sleep: no inhibitor process is left running.
IdleLetsSleep ==
  mode = "active" /\ blocking = {} ~> process = 0 \/ blocking # {}
===============================================================================
