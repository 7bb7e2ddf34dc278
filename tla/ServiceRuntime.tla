---------------------------- MODULE ServiceRuntime ----------------------------
(***************************************************************************)
(* ServiceRuntime (flare-core-runtime/src/runtime.rs) and TaskManager      *)
(* (task/manager.rs): run_with_registration_and_signals sorts the tasks by *)
(* their dependencies, starts them in that order, waits until the state    *)
(* tracker shows them all Running, registers the service, starts the       *)
(* health monitor, waits for a shutdown signal or for an alarm of the      *)
(* monitor, stops the monitor, deregisters and stops the tasks.            *)
(* run_with_signals does the same without the registration.                *)
(*                                                                         *)
(* Three parties run concurrently: the runtime itself, the tasks in the    *)
(* JoinSet, which update the tracker around the future they run, and the   *)
(* monitor, which runs the health checks one after the other in rounds.    *)
(***************************************************************************)
EXTENDS Naturals, Sequences, FiniteSets, Functions

CONSTANTS
    Tasks,
    Setups,             \* what the builder may have set up: for each task that was added
                        \* the names of those it depends on, whether there are health
                        \* checks and their names, and whether the caller's signals are
                        \* waited for
    ReadyCheck,         \* task_startup.enable_ready_check
    FailureThreshold,   \* health_check.failure_threshold
    GracefulShutdown    \* HealthFailureAction::GracefulShutdown, else LogOnly

ASSUME RuntimeAssumption ==
    /\ IsFiniteSet(Tasks)
    /\ \A s \in Setups :
          /\ DOMAIN s.deps \subseteq Tasks
          /\ s.checked \in BOOLEAN /\ s.checks \in Seq(STRING) /\ s.own \in BOOLEAN
    /\ ReadyCheck \in BOOLEAN /\ GracefulShutdown \in BOOLEAN
    /\ FailureThreshold \in Nat \ {0}

VARIABLES
    deps,         \* deps[t]: what task t depends on
    checked,      \* health_check.enabled
    checks,       \* the health checks that were added, by their names
    own,          \* the signals are the caller's, else those of the operating system
    phase,        \* where run_with_registration_and_signals is
    order,        \* the sorted tasks
    life,         \* life[t]: the task in the JoinSet
    state,        \* state[t]: the state the tracker shows
    signalled,    \* a shutdown signal was given
    told,         \* how many tasks of order were sent the shutdown signal
    registration, \* of the service
    watch,        \* the monitor's task
    round,        \* the check that its round has reached, 0 between rounds
    ails,         \* ails[i]: what calling the i-th check that was added would do
    failures,     \* failures of each check in a row, up to the threshold
    alarm         \* on_failure was called, or its channel is closed

setup == <<deps, checked, checks, own>>
monitor == <<watch, round, ails, failures, alarm>>
vars == <<setup, phase, order, life, state, signalled, told, registration, monitor>>

TaskStates == {"Pending", "Starting", "Running", "Stopping", "Stopped", "Failed"}

\* can_transition_to
CanTransition(from, to) ==
    \/ from = "Pending" /\ to = "Starting"
    \/ from = "Starting" /\ to \in {"Running", "Failed"}
    \/ from = "Running" /\ to \in {"Stopping", "Failed"}
    \/ from = "Stopping" /\ to \in {"Stopped", "Failed"}

\* update_state, which ignores what is not a transition
Updated(s, t, to) == IF CanTransition(s[t], to) THEN [s EXCEPT ![t] = to] ELSE s

\* the tasks that were added
Added == DOMAIN deps

AllReady == \A t \in Added : state[t] = "Running"
HasFailures == \E t \in Tasks : state[t] = "Failed"

\* the lives of a task whose future is in the JoinSet and not done with
Alive == {"spawned", "running", "returned", "erred"}

\* JoinSet: abort_all, and its drop, which end a future at its next await
Aborted == [t \in Tasks |-> IF life[t] \in Alive THEN "aborted" ELSE life[t]]

\* What topological_sort may return: it walks hash maps, so any order of the tasks
\* in which each comes after its dependencies.  There is none when the graph has a
\* cycle or names a task that is not there.
StartOrders ==
    LET n == Cardinality(Added)
    IN  {s \in [1..n -> Added] :
            /\ \A i, j \in 1..n : i # j => s[i] # s[j]
            /\ \A j \in 1..n : \A d \in deps[s[j]] : \E i \in 1..(j - 1) : s[i] = d}

\* start_health_monitor: the names of the checks; without any it adds its own,
\* TaskFailureHealthCheck
Checks == IF checks = <<>> THEN <<"task-failure-monitor">> ELSE checks

Init ==
    /\ \E s \in Setups :
          deps = s.deps /\ checked = s.checked /\ checks = s.checks /\ own = s.own
    /\ phase = "sort"
    /\ order = <<>>
    /\ life = [t \in Tasks |-> "unstarted"]
    /\ state = [t \in Tasks |-> "Pending"]
    /\ signalled = FALSE
    /\ told = 0
    /\ registration = "none"
    /\ watch = "off"
    /\ round = 0
    /\ ails = [i \in DOMAIN Checks |-> "well"]
    /\ failures = [n \in Range(Checks) |-> 0]
    /\ alarm = FALSE

------------------------------------------------------------------------------
(***************************************************************************)
(* The runtime                                                             *)
(***************************************************************************)

\* sort_tasks, and an error when the dependencies have a cycle
SortTasks ==
    /\ phase = "sort"
    /\ \/ order' \in StartOrders /\ phase' = "start"
       \/ StartOrders = {} /\ phase' = "done" /\ UNCHANGED order
    /\ UNCHANGED <<setup, life, state, signalled, told, registration, monitor>>

\* run_with_registration without an address
NoAddress ==
    /\ phase = "sort"
    /\ phase' = "done"
    /\ UNCHANGED <<setup, order, life, state, signalled, told, registration, monitor>>

Unstarted == {i \in DOMAIN order : life[order[i]] = "unstarted"}

\* the place of the task that is started next
IsNext(i) == i \in Unstarted /\ \A j \in Unstarted : i <= j

\* start_all: the next task of the order
StartTask ==
    /\ phase = "start"
    /\ \E i \in DOMAIN order :
          /\ IsNext(i)
          /\ state' = Updated(state, order[i], "Starting")
          /\ life' = [life EXCEPT ![order[i]] = "spawned"]
    /\ UNCHANGED <<setup, phase, order, signalled, told, registration, monitor>>

AllStarted ==
    /\ phase = "start" /\ Unstarted = {}
    /\ phase' = "ready"
    /\ UNCHANGED <<setup, order, life, state, signalled, told, registration, monitor>>

\* wait_for_ready
WaitForReady ==
    /\ phase = "ready"
    /\ ReadyCheck => AllReady
    /\ phase' = "register"
    /\ UNCHANGED <<setup, order, life, state, signalled, told, registration, monitor>>

\* mutant: the tasks are left to themselves
ReadyTimeoutLeavesTasks ==
    /\ phase = "ready"
    /\ ReadyCheck /\ ~AllReady
    /\ phase' = "done"
    /\ UNCHANGED <<setup, order, life, state, signalled, told, registration, monitor>>

\* StartupTimeout: run returns and drops the JoinSet
ReadyTimeout ==
    /\ phase = "ready"
    /\ ReadyCheck /\ ~AllReady
    /\ phase' = "done"
    /\ life' = Aborted
    /\ UNCHANGED <<setup, order, state, signalled, told, registration, monitor>>

\* register_fn: registered, skipped, or an error, which stops the tasks; the monitor
\* is started, and the signals are waited for
Register ==
    /\ phase = "register"
    /\ \/ /\ registration' \in {"registered", "none"} /\ phase' = "serve"
          /\ watch' = IF checked THEN "on" ELSE "off"
       \/ registration' = "none" /\ phase' = "stop" /\ UNCHANGED watch
    /\ UNCHANGED <<setup, order, life, state, signalled, told, round, ails, failures, alarm>>

\* mutant: the tasks are stopped first, the registration is removed afterwards
StopServingFirst ==
    /\ phase = "serve" /\ (signalled \/ alarm)
    /\ phase' = "stop"
    /\ UNCHANGED <<setup, order, life, state, signalled, told, registration, monitor>>

\* the signal, or the monitor's message; the monitor is told to stop
StopServing ==
    /\ phase = "serve" /\ (signalled \/ alarm)
    /\ phase' = "unwatch"
    /\ UNCHANGED <<setup, order, life, state, signalled, told, registration, monitor>>

\* the monitor, which does not look up during a round, has stopped or panicked
JoinMonitor ==
    /\ phase = "unwatch" /\ round = 0
    /\ phase' = "deregister"
    /\ watch' = "off"
    /\ UNCHANGED <<setup, order, life, state, signalled, told, registration, round, ails,
                   failures, alarm>>

\* shutdown of the registration, whose error is only logged
Deregister ==
    /\ phase = "deregister"
    /\ phase' = "stop"
    /\ registration' \in (IF registration = "registered" THEN {"removed", "left"}
                                                          ELSE {registration})
    /\ UNCHANGED <<setup, order, life, state, signalled, told, monitor>>

\* stop_all sends the shutdown signals, in the order in which the tasks were started
TellTask ==
    /\ phase = "stop" /\ told < Len(order)
    /\ told' = told + 1
    /\ UNCHANGED <<setup, phase, order, life, state, signalled, registration, monitor>>

AllTold ==
    /\ phase = "stop" /\ told = Len(order)
    /\ phase' = "drain"
    /\ UNCHANGED <<setup, order, life, state, signalled, told, registration, monitor>>

\* stop_all joins the tasks
JoinTasks ==
    /\ phase = "drain"
    /\ \A t \in Tasks : life[t] \notin Alive
    /\ phase' = "done"
    /\ UNCHANGED <<setup, order, life, state, signalled, told, registration, monitor>>

\* mutant: a task that does not end keeps the runtime waiting
ShutdownTimeoutRetries ==
    /\ phase = "drain"
    /\ \E t \in Tasks : life[t] \in Alive
    /\ phase' = "stop"
    /\ UNCHANGED <<setup, order, life, state, signalled, told, registration, monitor>>

\* shutdown_timeout is over: abort_all
ShutdownTimeout ==
    /\ phase = "drain"
    /\ \E t \in Tasks : life[t] \in Alive
    /\ phase' = "done"
    /\ life' = Aborted
    /\ UNCHANGED <<setup, order, state, signalled, told, registration, monitor>>

RuntimeStep ==
    \/ NoAddress \/ SortTasks \/ StartTask \/ AllStarted \/ WaitForReady \/ ReadyTimeout
    \/ Register \/ StopServing \/ JoinMonitor \/ Deregister \/ TellTask \/ AllTold
    \/ JoinTasks \/ ShutdownTimeout

------------------------------------------------------------------------------
(***************************************************************************)
(* A task                                                                  *)
(***************************************************************************)

\* the spawned future is polled for the first time
TaskRuns(t) ==
    /\ life[t] = "spawned"
    /\ state' = Updated(state, t, "Running")
    /\ life' = [life EXCEPT ![t] = "running"]
    /\ UNCHANGED <<setup, phase, order, signalled, told, registration, monitor>>

\* What the future of a task comes to, if it comes to an end: SpawnTask hands the
\* shutdown signal to a future made by with_shutdown, and keeps it from one given to new.
Ends == {"returned", "erred", "panicked"}

\* the task's own future returns Ok or Err, of itself or told to, or panics
TaskReturns(t) ==
    /\ life[t] = "running"
    /\ \E end \in Ends : life' = [life EXCEPT ![t] = end]
    /\ UNCHANGED <<setup, phase, order, state, signalled, told, registration, monitor>>

\* the update of the tracker that follows
TaskRecords(t) ==
    /\ \/ /\ life[t] = "returned"
          /\ state' = Updated(state, t, "Stopped")
          /\ life' = [life EXCEPT ![t] = "completed"]
       \/ /\ life[t] = "erred"
          /\ state' = Updated(state, t, "Failed")
          /\ life' = [life EXCEPT ![t] = "failed"]
    /\ UNCHANGED <<setup, phase, order, signalled, told, registration, monitor>>

TaskStep(t) == TaskRuns(t) \/ TaskReturns(t) \/ TaskRecords(t)

------------------------------------------------------------------------------
(***************************************************************************)
(* The health monitor                                                      *)
(***************************************************************************)

\* TaskFailureHealthCheck asks the tracker
Fails(i) == IF checks = <<>> THEN HasFailures ELSE ails[i] = "fails"
Hangs(i) == checks # <<>> /\ ails[i] = "hangs"

\* a tick, when the monitor is not in a round; that it has been told to stop does not
\* come first
BeginRound ==
    /\ phase \in {"serve", "unwatch"} /\ watch = "on" /\ round = 0
    /\ round' = 1
    /\ UNCHANGED <<setup, phase, order, life, state, signalled, told, registration, watch, ails,
                   failures, alarm>>

NextCheck == IF round = Len(Checks) THEN 0 ELSE round + 1

\* mutant: one count for all checks
CountShared ==
    LET f == failures[Checks[round]]
    IN  [n \in DOMAIN failures |->
            IF ~Fails(round) THEN 0 ELSE IF f < FailureThreshold THEN f + 1 ELSE f]

\* check_one: the count of the check's name
Count ==
    LET f == failures[Checks[round]]
    IN  [failures EXCEPT ![Checks[round]] =
            IF ~Fails(round) THEN 0 ELSE IF f < FailureThreshold THEN f + 1 ELSE f]

\* check_all: one of the checks returns
CheckOne ==
    /\ round > 0 /\ ~Hangs(round)
    /\ failures' = Count
    /\ alarm' = (alarm \/ (GracefulShutdown /\ failures'[Checks[round]] >= FailureThreshold))
    /\ round' = NextCheck
    /\ UNCHANGED <<setup, phase, order, life, state, signalled, told, registration, watch, ails>>

\* a check that was added panics, and the monitor's end of the alarm is dropped
CheckPanics ==
    /\ round > 0 /\ checks # <<>>
    /\ watch' = "dead"
    /\ round' = 0
    /\ alarm' = (alarm \/ GracefulShutdown)
    /\ UNCHANGED <<setup, phase, order, life, state, signalled, told, registration, ails, failures>>

\* the timeout of a round leaves out the checks that follow, and counts nothing
RoundTimeout ==
    /\ round > 0 /\ Hangs(round)
    /\ round' = 0
    /\ UNCHANGED <<setup, phase, order, life, state, signalled, told, registration, watch, ails,
                   failures, alarm>>

MonitorStep == BeginRound \/ CheckOne \/ RoundTimeout

------------------------------------------------------------------------------
(***************************************************************************)
(* The surroundings                                                        *)
(***************************************************************************)

\* what the checks look at changes
HealthChanges ==
    /\ phase \in {"serve", "unwatch"} /\ checks # <<>>
    /\ \E i \in DOMAIN ails, h \in {"well", "fails", "hangs"} :
          ails[i] # h /\ ails' = [ails EXCEPT ![i] = h]
    /\ UNCHANGED <<setup, phase, order, life, state, signalled, told, registration, watch, round,
                   failures, alarm>>

\* ChannelSignal keeps what arrives before it is waited for, and takes the drop of its
\* sender for a signal
Kept == own

\* UnixSignal: the handlers of the operating system's signals are there once it is polled
Installed == phase \notin {"sort", "start", "ready", "register"}

\* CompositeSignal: the first signal
GiveSignal ==
    /\ ~signalled /\ (Kept \/ Installed)
    /\ signalled' = TRUE
    /\ UNCHANGED <<setup, phase, order, life, state, told, registration, monitor>>

\* CtrlCSignal: a signal before that ends the process, and may leave a
\* registration that was just made
KilledBySignal ==
    /\ ~signalled /\ ~Kept /\ ~Installed
    /\ signalled' = TRUE
    /\ phase' = "killed"
    /\ life' = Aborted
    /\ registration' \in (IF phase = "register" THEN {"none", "left"} ELSE {registration})
    /\ UNCHANGED <<setup, order, state, told, monitor>>

Done == phase \in {"done", "killed"} /\ UNCHANGED vars

Next ==
    \/ RuntimeStep
    \/ \E t \in Tasks : TaskStep(t)
    \/ MonitorStep \/ CheckPanics \/ HealthChanges
    \/ GiveSignal \/ KilledBySignal
    \/ Done

Spec == Init /\ [][Next]_vars

\* tokio polls the runtime and its timeouts, the monitor and the tasks; no task
\* needs to return, told to or not.  When the monitor is between rounds a select picks
\* at random whether it stops or begins another.
Fairness ==
    /\ WF_vars(RuntimeStep) /\ SF_vars(JoinMonitor)
    /\ WF_vars(MonitorStep)
    /\ \A t \in Tasks : WF_vars(TaskRuns(t)) /\ WF_vars(TaskRecords(t))

FairSpec == Spec /\ Fairness

------------------------------------------------------------------------------
(***************************************************************************)
(* Properties                                                              *)
(***************************************************************************)

Phases == {"sort", "start", "ready", "register", "serve", "unwatch", "deregister", "stop",
           "drain", "done", "killed"}

Lives == Alive \cup {"unstarted", "completed", "failed", "panicked", "aborted"}

\* Types of the state of the runtime, its tasks, the tracker and the monitor.
TypeOK ==
    /\ \E s \in Setups :
          deps = s.deps /\ checked = s.checked /\ checks = s.checks /\ own = s.own
    /\ phase \in Phases
    /\ order \in Seq(Tasks) /\ told \in 0..Len(order)
    /\ life \in [Tasks -> Lives]
    /\ state \in [Tasks -> TaskStates]
    /\ signalled \in BOOLEAN
    /\ registration \in {"none", "registered", "removed", "left"}
    /\ watch \in {"off", "on", "dead"}
    /\ round \in 0..Len(Checks)
    /\ ails \in [DOMAIN Checks -> {"well", "fails", "hangs"}]
    /\ failures \in [Range(Checks) -> 0..FailureThreshold]
    /\ alarm \in BOOLEAN

\* start_all: when a task has been started, so have all it depends on.
DependenciesFirst ==
    \A t \in Added : life[t] # "unstarted" =>
        \A d \in deps[t] : life[d] # "unstarted"

\* The service is registered only while each of its tasks has come to run, and it
\* is deregistered before the first of them is told to stop.
RegisteredWhileServing ==
    registration = "registered" =>
        /\ ReadyCheck => \A t \in Added : state[t] \in {"Running", "Failed"}
        /\ told = 0 /\ phase \in {"serve", "unwatch", "deregister"}

\* However run ends, no task outlives it: each has ended or is cancelled at its
\* next await.
NoTaskOutlivesRun == phase \in {"done", "killed"} => \A t \in Tasks : life[t] \notin Alive

\* A task that returned an error is Failed in the tracker, which is all that the
\* health monitor and has_failures look at, however early it failed.
FailuresAreSeen == \A t \in Tasks : (life[t] = "failed") = (state[t] = "Failed")

\* A shutdown signal ends run in every phase, also when tasks ignore it or a health
\* check hangs.
ShutdownCompletes == signalled ~> phase \in {"done", "killed"}

\* a check of a name of its own fails, and none before it in a round hangs
Failing(i) ==
    /\ watch = "on" /\ i \in DOMAIN Checks /\ Fails(i)
    /\ \A j \in 1..(i - 1) : ~Hangs(j)
    /\ \A j \in DOMAIN Checks : Checks[j] = Checks[i] => j = i

\* With HealthFailureAction::GracefulShutdown a check that keeps failing takes the
\* service down, whatever the other checks do, unless one before it hangs.
FailureStopsService ==
    GracefulShutdown =>
        \A i \in UNION {{1} \cup DOMAIN s.checks : s \in Setups} :
            (phase = "serve" /\ Failing(i)) ~> (phase = "done" \/ (phase = "serve" /\ ~Failing(i)))

==============================================================================
