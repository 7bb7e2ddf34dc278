------------------------- MODULE ServiceRuntimeProofs -------------------------
(***************************************************************************)
(* Proofs about ServiceRuntime, for any tasks and dependencies.            *)
(***************************************************************************)
EXTENDS ServiceRuntime, FiniteSetTheorems, TLAPS

------------------------------------------------------------------------------
(***************************************************************************)
(* The inductive invariant                                                 *)
(***************************************************************************)

\* Once there is an order, it is one of the sorted ones.
OrderInv == order = <<>> \/ order \in StartOrders

\* What the tracker shows of a task follows from what became of it.
StateOf(l) ==
    CASE l = "unstarted" -> {"Pending"}
      [] l = "spawned"   -> {"Starting"}
      [] l = "failed"    -> {"Failed"}
      [] l = "aborted"   -> {"Starting", "Running"}
      [] OTHER           -> {"Running"}

LifeInv == \A t \in Tasks : state[t] \in StateOf(life[t])

\* What each phase may rely on.
PhaseInv ==
    /\ phase = "sort" => \A t \in Tasks : life[t] = "unstarted"
    /\ phase \in {"done", "killed"} => \A t \in Tasks : life[t] \notin Alive
    /\ phase \in {"sort", "start", "ready", "register", "serve", "unwatch", "deregister"} =>
          told = 0
    /\ registration = "registered" => phase \in {"serve", "unwatch", "deregister"}
    /\ phase \in {"register", "serve", "unwatch", "deregister"} /\ ReadyCheck =>
          \A t \in Added : state[t] \in {"Running", "Failed"}

\* DependenciesFirst, and that the dependencies are tasks.
DependInv ==
    \A t \in Added : life[t] # "unstarted" =>
        \A d \in deps[t] : d \in Tasks /\ life[d] # "unstarted"

RuntimeInv == TypeOK /\ OrderInv /\ LifeInv /\ PhaseInv /\ DependInv

------------------------------------------------------------------------------

\* The tasks that were added are finitely many of Tasks.
LEMMA AddedFinite == TypeOK => Added \subseteq Tasks /\ Cardinality(Added) \in Nat
<1> SUFFICES ASSUME TypeOK PROVE Added \subseteq Tasks /\ Cardinality(Added) \in Nat
  OBVIOUS
<1>1. Added \subseteq Tasks
  BY RuntimeAssumption DEF TypeOK, Added
<1> QED
  BY <1>1, RuntimeAssumption, FS_Subset, FS_CardinalityType

\* topological_sort returns a sequence of the tasks.
LEMMA OrdersAreSequences == TypeOK => \A s \in StartOrders : s \in Seq(Tasks)
  BY AddedFinite DEF StartOrders

\* The tracker's update keeps its type.
LEMMA UpdatedType ==
    ASSUME NEW s \in [Tasks -> TaskStates], NEW t \in Tasks, NEW to \in TaskStates
    PROVE  /\ Updated(s, t, to) \in [Tasks -> TaskStates]
           /\ \A u \in Tasks : u # t => Updated(s, t, to)[u] = s[u]
           /\ Updated(s, t, to)[t] = IF CanTransition(s[t], to) THEN to ELSE s[t]
  BY DEF Updated

\* There is at least one health check.
LEMMA ChecksType ==
    (\E s \in Setups : deps = s.deps /\ checked = s.checked /\ checks = s.checks /\ own = s.own)
      => Len(Checks) \in Nat \ {0} /\ DOMAIN Checks = 1..Len(Checks)
<1> SUFFICES ASSUME NEW s \in Setups, checks = s.checks
             PROVE  Len(Checks) \in Nat \ {0} /\ DOMAIN Checks = 1..Len(Checks)
  OBVIOUS
<1>1. checks \in Seq(STRING)
  BY RuntimeAssumption
<1>2. CASE checks = <<>>
  <2>1. Checks = <<"task-failure-monitor">>
    BY <1>2 DEF Checks
  <2> QED
    BY <2>1
<1>3. CASE checks # <<>>
  <2>1. Checks = checks
    BY <1>3 DEF Checks
  <2>2. Len(checks) # 0
    BY <1>1, <1>3
  <2> QED
    BY <1>1, <2>1, <2>2
<1> QED
  BY <1>2, <1>3

\* The initial state has the invariant.
LEMMA RuntimeInit == Init => RuntimeInv
<1> SUFFICES ASSUME Init PROVE RuntimeInv
  OBVIOUS
<1>1. signalled \in BOOLEAN /\ alarm \in BOOLEAN
  BY Zenon DEF Init
<1>2. TypeOK
  <2>1. order \in Seq(Tasks) /\ told \in 0..Len(order)
    BY DEF Init
  <2>2. failures \in [Range(Checks) -> 0..FailureThreshold]
    BY RuntimeAssumption DEF Init
  <2>3. Len(Checks) \in Nat
    BY ChecksType, Zenon DEF Init
  <2>4. round \in 0..Len(Checks)
    BY <2>3 DEF Init
  <2>5. ails \in [DOMAIN Checks -> {"well", "fails", "hangs"}]
    BY DEF Init
  <2> QED
    BY <1>1, <2>1, <2>2, <2>4, <2>5 DEF Init, TypeOK, Phases, Lives, TaskStates
<1>3. OrderInv /\ LifeInv /\ PhaseInv
  BY DEF Init, OrderInv, LifeInv, StateOf, PhaseInv, Alive
<1>4. DependInv
  BY <1>2, AddedFinite DEF Init, DependInv
<1> QED
  BY <1>2, <1>3, <1>4 DEF RuntimeInv

------------------------------------------------------------------------------
(***************************************************************************)
(* The steps                                                               *)
(***************************************************************************)

\* What is set up is kept, and what is defined from it.
LEMMA SetupKept ==
    setup' = setup =>
        /\ deps' = deps /\ checked' = checked /\ checks' = checks /\ own' = own
        /\ Added' = Added /\ Checks' = Checks /\ StartOrders' = StartOrders
<1> SUFFICES ASSUME setup' = setup
             PROVE  /\ deps' = deps /\ checked' = checked /\ checks' = checks /\ own' = own
                    /\ Added' = Added /\ Checks' = Checks /\ StartOrders' = StartOrders
  OBVIOUS
<1>1. deps' = deps /\ checked' = checked /\ checks' = checks /\ own' = own
  BY DEF setup
<1> QED
  BY <1>1 DEF Added, Checks, StartOrders

\* The type of what the builder set up and of the monitor.
MonitorOK ==
    /\ \E s \in Setups :
          deps = s.deps /\ checked = s.checked /\ checks = s.checks /\ own = s.own
    /\ watch \in {"off", "on", "dead"}
    /\ round \in 0..Len(Checks)
    /\ ails \in [DOMAIN Checks -> {"well", "fails", "hangs"}]
    /\ failures \in [Range(Checks) -> 0..FailureThreshold]
    /\ alarm \in BOOLEAN

\* It is kept by the steps that leave the monitor alone, but for its start and end.
LEMMA MonitorKept ==
    TypeOK /\ setup' = setup /\ watch' \in {"off", "on", watch} /\ round' = round /\ ails' = ails
      /\ failures' = failures /\ alarm' = alarm
      => MonitorOK'
  BY SetupKept DEF TypeOK, MonitorOK

\* Sorting the tasks, or finding that they cannot be sorted, or have no address.
LEMMA SortTasksStep == RuntimeInv /\ (SortTasks \/ NoAddress) => RuntimeInv'
<1> SUFFICES ASSUME RuntimeInv, SortTasks \/ NoAddress PROVE RuntimeInv'
  OBVIOUS
<1> USE DEF RuntimeInv
<1>1. order' = order \/ order' \in StartOrders
  BY DEF SortTasks, NoAddress
<1>2. order' \in Seq(Tasks)
  BY <1>1, OrdersAreSequences DEF TypeOK
<1>3. told = 0 /\ told' = 0
  BY DEF SortTasks, NoAddress, PhaseInv, TypeOK
<1>4. setup' = setup /\ monitor' = monitor
  BY DEF SortTasks, NoAddress
<1>5. TypeOK'
  <2>1. MonitorOK'
    BY <1>4, MonitorKept DEF monitor
  <2> QED
    BY <2>1, <1>2, <1>3 DEF TypeOK, MonitorOK, SortTasks, NoAddress, Phases
<1>6. OrderInv'
  BY <1>1, <1>4, SetupKept DEF OrderInv, SortTasks, NoAddress
<1>7. LifeInv' /\ DependInv'
  BY <1>4, SetupKept DEF LifeInv, DependInv, SortTasks, NoAddress
<1>8. PhaseInv'
  BY <1>3 DEF PhaseInv, SortTasks, NoAddress, Alive
<1> QED
  BY <1>5, <1>6, <1>7, <1>8

\* Starting the next task: all that come before it in the order, and with them all
\* it depends on, have been started.
LEMMA StartTaskStep == RuntimeInv /\ StartTask => RuntimeInv'
<1> SUFFICES ASSUME RuntimeInv, StartTask PROVE RuntimeInv'
  OBVIOUS
<1> USE DEF RuntimeInv
<1>1. PICK i \in DOMAIN order :
         /\ IsNext(i)
         /\ state' = Updated(state, order[i], "Starting")
         /\ life' = [life EXCEPT ![order[i]] = "spawned"]
  BY DEF StartTask
<1> DEFINE t == order[i]
<1>2. t \in Tasks /\ life[t] = "unstarted"
  BY <1>1 DEF IsNext, Unstarted, TypeOK
<1>3. state[t] = "Pending"
  BY <1>2 DEF LifeInv, StateOf
<1>4. state' = [state EXCEPT ![t] = "Starting"]
  BY <1>1, <1>3 DEF Updated, CanTransition
<1>5. life' = [life EXCEPT ![t] = "spawned"]
  BY <1>1
<1> HIDE DEF t
<1>6. TypeOK'
  <2>1. life' \in [Tasks -> Lives] /\ state' \in [Tasks -> TaskStates]
    BY <1>2, <1>4, <1>5 DEF TypeOK, Lives, Alive, TaskStates
  <2>2. MonitorOK'
    BY MonitorKept DEF StartTask, monitor
  <2> QED
    BY <2>1, <2>2 DEF TypeOK, MonitorOK, StartTask
<1>7. OrderInv'
  BY SetupKept DEF OrderInv, StartTask
<1>8. LifeInv'
  BY <1>2, <1>4, <1>5 DEF LifeInv, StateOf, TypeOK
<1>9. \A d \in deps[t] : d \in Tasks /\ life'[d] # "unstarted"
  <2>1. order \in StartOrders /\ i \in 1..Cardinality(Added)
    <3>1. i \in 1..Len(order)
      BY <1>1 DEF TypeOK
    <3>2. order # <<>>
      BY <3>1
    <3>3. order \in StartOrders
      BY <3>2 DEF OrderInv
    <3> QED
      BY <3>3, <1>1 DEF StartOrders
  <2>2. \A d \in deps[t] : \E j \in 1..(i - 1) : order[j] = d
    BY <2>1 DEF StartOrders, t
  <2>3. ASSUME NEW d \in deps[t] PROVE d \in Tasks /\ life'[d] # "unstarted"
    <3>1. PICK j \in 1..(i - 1) : order[j] = d
      BY <2>2
    <3>2. i \in Nat /\ j \in Nat /\ j < i /\ j \in DOMAIN order
      <4>1. Cardinality(Added) \in Nat
        BY AddedFinite
      <4> QED
        BY <2>1, <4>1 DEF StartOrders
    <3>3. j \notin Unstarted
      BY <1>1, <3>2 DEF IsNext
    <3>4. d \in Tasks /\ life[d] # "unstarted"
      BY <3>1, <3>2, <3>3 DEF Unstarted, TypeOK
    <3> QED
      BY <3>4, <1>5 DEF TypeOK
  <2> QED
    BY <2>3
<1>10. DependInv'
  <2> SUFFICES ASSUME NEW u \in Added, life'[u] # "unstarted", NEW d \in deps[u]
               PROVE  d \in Tasks /\ life'[d] # "unstarted"
    BY SetupKept DEF DependInv, StartTask
  <2> u \in Tasks
    BY AddedFinite
  <2>1. CASE u = t
    BY <2>1, <1>9
  <2>2. CASE u # t
    <3>1. d \in Tasks /\ life[d] # "unstarted"
      BY <2>2, <1>5 DEF DependInv, TypeOK
    <3>2. d # t => life'[d] = life[d]
      BY <1>5 DEF TypeOK
    <3> QED
      BY <3>1, <3>2, <1>2
  <2> QED
    BY <2>1, <2>2
<1>11. PhaseInv'
  BY DEF PhaseInv, StartTask
<1> QED
  BY <1>6, <1>7, <1>8, <1>10, <1>11

\* The steps of run that touch no task: the end of start_all, the end of
\* wait_for_ready, the registration and its removal, and the signals of stop_all.
LEMMA PhaseSteps ==
    RuntimeInv /\ (AllStarted \/ WaitForReady \/ Register \/ StopServing \/ JoinMonitor
                    \/ Deregister \/ TellTask \/ AllTold \/ JoinTasks)
      => RuntimeInv'
<1> SUFFICES ASSUME RuntimeInv,
                    AllStarted \/ WaitForReady \/ Register \/ StopServing \/ JoinMonitor
                      \/ Deregister \/ TellTask \/ AllTold \/ JoinTasks
             PROVE  RuntimeInv'
  OBVIOUS
<1> USE DEF RuntimeInv
<1>1. setup' = setup /\ order' = order /\ life' = life /\ state' = state
  BY DEF AllStarted, WaitForReady, Register, StopServing, JoinMonitor, Deregister, TellTask,
         AllTold, JoinTasks
<1>2. signalled' = signalled /\ MonitorOK'
  <2>1. /\ watch' \in {"off", "on", watch}
        /\ round' = round /\ ails' = ails /\ failures' = failures /\ alarm' = alarm
    BY DEF AllStarted, WaitForReady, Register, StopServing, JoinMonitor, Deregister, TellTask,
           AllTold, JoinTasks, monitor
  <2>2. MonitorOK'
    BY <2>1, <1>1, MonitorKept
  <2> QED
    BY <2>2 DEF AllStarted, WaitForReady, Register, StopServing, JoinMonitor, Deregister,
                TellTask, AllTold, JoinTasks
<1>3. OrderInv' /\ LifeInv' /\ DependInv'
  BY <1>1, SetupKept DEF OrderInv, LifeInv, DependInv
<1>4. phase' \in Phases /\ registration' \in {"none", "registered", "removed", "left"}
  BY DEF AllStarted, WaitForReady, Register, StopServing, JoinMonitor, Deregister, TellTask,
         AllTold, JoinTasks, TypeOK, Phases
<1>5. told' \in 0..Len(order')
  <2>1. CASE TellTask
    BY <2>1, <1>1 DEF TellTask, TypeOK
  <2>2. CASE ~TellTask
    BY <2>2, <1>1 DEF AllStarted, WaitForReady, Register, StopServing, JoinMonitor, Deregister, AllTold,
                      JoinTasks, TypeOK
  <2> QED
    BY <2>1, <2>2
<1>6. TypeOK'
  BY <1>1, <1>2, <1>4, <1>5 DEF TypeOK, MonitorOK
<1>7. PhaseInv'
  <2> Added' = Added
    BY <1>1, SetupKept
  <2>1. CASE AllStarted
    BY <2>1 DEF AllStarted, PhaseInv
  <2>2. CASE WaitForReady
    BY <2>2 DEF WaitForReady, PhaseInv, AllReady
  <2>3. CASE Register
    BY <2>3 DEF Register, PhaseInv
  <2>4. CASE StopServing
    BY <2>4 DEF StopServing, PhaseInv
  <2>5. CASE Deregister
    BY <2>5 DEF Deregister, PhaseInv
  <2>6. CASE TellTask
    BY <2>6 DEF TellTask, PhaseInv
  <2>7. CASE AllTold
    BY <2>7 DEF AllTold, PhaseInv
  <2>8. CASE JoinTasks
    BY <2>8 DEF JoinTasks, PhaseInv
  <2>9. CASE JoinMonitor
    BY <2>9 DEF JoinMonitor, PhaseInv
  <2> QED
    BY <2>1, <2>2, <2>3, <2>4, <2>5, <2>6, <2>7, <2>8, <2>9
<1> QED
  BY <1>3, <1>6, <1>7

\* The two timeouts of run, which abort the tasks, and the signal that ends the process.
LEMMA TimeoutSteps == RuntimeInv /\ (ReadyTimeout \/ ShutdownTimeout \/ KilledBySignal) => RuntimeInv'
<1> SUFFICES ASSUME RuntimeInv, ReadyTimeout \/ ShutdownTimeout \/ KilledBySignal
             PROVE  RuntimeInv'
  OBVIOUS
<1> USE DEF RuntimeInv
<1>1. life' = Aborted /\ phase' \in {"done", "killed"}
  BY DEF ReadyTimeout, ShutdownTimeout, KilledBySignal
<1>2. setup' = setup /\ order' = order /\ state' = state /\ told' = told
  BY DEF ReadyTimeout, ShutdownTimeout, KilledBySignal
<1>3. signalled' \in BOOLEAN /\ MonitorOK'
  <2>1. MonitorOK'
    BY MonitorKept DEF ReadyTimeout, ShutdownTimeout, KilledBySignal, monitor
  <2>2. signalled' = signalled \/ signalled' = TRUE
    BY DEF ReadyTimeout, ShutdownTimeout, KilledBySignal
  <2>3. signalled \in BOOLEAN
    BY DEF TypeOK
  <2> QED
    BY <2>1, <2>2, <2>3, Zenon
<1>9. registration' \in {"none", "removed", "left"}
  BY DEF ReadyTimeout, ShutdownTimeout, KilledBySignal, Installed, TypeOK, PhaseInv
<1>4. TypeOK'
  <2>1. life' \in [Tasks -> Lives]
    BY <1>1 DEF Aborted, TypeOK, Lives, Alive
  <2> QED
    BY <2>1, <1>1, <1>2, <1>3, <1>9 DEF TypeOK, MonitorOK, Phases
<1>5. OrderInv'
  BY <1>2, SetupKept DEF OrderInv
<1>6. LifeInv'
  <2> SUFFICES ASSUME NEW t \in Tasks PROVE state[t] \in StateOf(life'[t])
    BY <1>2 DEF LifeInv
  <2>1. state[t] \in StateOf(life[t]) /\ life[t] \in Lives
    BY DEF LifeInv, TypeOK
  <2>2. life'[t] = IF life[t] \in Alive THEN "aborted" ELSE life[t]
    BY <1>1 DEF Aborted
  <2>3. life[t] \in Alive => state[t] \in {"Starting", "Running"}
    BY <2>1 DEF StateOf, Alive
  <2> QED
    BY <2>1, <2>2, <2>3 DEF StateOf
<1>7. DependInv'
  <2> SUFFICES ASSUME NEW u \in Added, life'[u] # "unstarted", NEW d \in deps[u]
               PROVE  d \in Tasks /\ life'[d] # "unstarted"
    BY <1>2, SetupKept DEF DependInv
  <2> u \in Tasks
    BY AddedFinite
  <2>1. life[u] # "unstarted"
    BY <1>1 DEF Aborted, Alive
  <2>2. d \in Tasks /\ life[d] # "unstarted"
    BY <2>1 DEF DependInv
  <2> QED
    BY <2>2, <1>1 DEF Aborted, Alive
<1>8. PhaseInv'
  <2>1. \A t \in Tasks : life'[t] \notin Alive
    BY <1>1 DEF Aborted, Alive
  <2> QED
    BY <2>1, <1>1, <1>9 DEF PhaseInv
<1> QED
  BY <1>4, <1>5, <1>6, <1>7, <1>8

\* A step of a task.
LEMMA TaskSteps == ASSUME NEW t \in Tasks PROVE RuntimeInv /\ TaskStep(t) => RuntimeInv'
<1> SUFFICES ASSUME RuntimeInv, TaskStep(t) PROVE RuntimeInv'
  OBVIOUS
<1> USE DEF RuntimeInv
<1>1. /\ setup' = setup /\ phase' = phase /\ order' = order /\ told' = told
      /\ registration' = registration
  BY DEF TaskStep, TaskRuns, TaskReturns, TaskRecords
<1>2. signalled' = signalled /\ MonitorOK'
  BY MonitorKept DEF TaskStep, TaskRuns, TaskReturns, TaskRecords, monitor
<1>3. life[t] \in {"spawned", "running", "returned", "erred"}
  BY DEF TaskStep, TaskRuns, TaskReturns, TaskRecords
<1>4. PICK l \in Lives \ {"unstarted"} :
         /\ life' = [life EXCEPT ![t] = l]
         /\ state' \in [Tasks -> TaskStates]
         /\ state'[t] \in StateOf(l)
         /\ state'[t] \in {"Running", "Failed"}
         /\ \A u \in Tasks : u # t => state'[u] = state[u]
  <2>1. state \in [Tasks -> TaskStates] /\ state[t] \in StateOf(life[t])
    BY DEF TypeOK, LifeInv
  <2> {"running", "returned", "erred", "panicked", "completed", "failed"}
        \subseteq Lives \ {"unstarted"}
    BY DEF Lives, Alive
  <2>2. CASE TaskRuns(t)
    <3>1. state[t] = "Starting"
      BY <2>1, <2>2 DEF TaskRuns, StateOf
    <3>2. Updated(state, t, "Running")[t] = "Running"
      BY <2>1, <3>1, UpdatedType DEF CanTransition, TaskStates
    <3>3. WITNESS "running" \in Lives \ {"unstarted"}
    <3> QED
      BY <2>1, <2>2, <3>2, UpdatedType DEF TaskRuns, StateOf, TaskStates
  <2>3. CASE TaskReturns(t)
    <3>1. state[t] = "Running"
      BY <2>1, <2>3 DEF TaskReturns, StateOf
    <3>2. PICK l \in {"returned", "erred", "panicked"} : life' = [life EXCEPT ![t] = l]
      BY <2>3 DEF TaskReturns, Ends
    <3>3. WITNESS l \in Lives \ {"unstarted"}
    <3> QED
      BY <2>1, <2>3, <3>1, <3>2 DEF TaskReturns, StateOf
  <2>4. CASE TaskRecords(t) /\ life[t] = "returned"
    <3>1. state[t] = "Running"
      BY <2>1, <2>4 DEF StateOf
    <3>2. Updated(state, t, "Stopped")[t] = "Running"
      BY <2>1, <3>1, UpdatedType DEF CanTransition, TaskStates
    <3>3. WITNESS "completed" \in Lives \ {"unstarted"}
    <3> QED
      BY <2>1, <2>4, <3>2, UpdatedType DEF TaskRecords, StateOf, TaskStates
  <2>5. CASE TaskRecords(t) /\ life[t] = "erred"
    <3>1. state[t] = "Running"
      BY <2>1, <2>5 DEF StateOf
    <3>2. Updated(state, t, "Failed")[t] = "Failed"
      BY <2>1, <3>1, UpdatedType DEF CanTransition, TaskStates
    <3>3. WITNESS "failed" \in Lives \ {"unstarted"}
    <3> QED
      BY <2>1, <2>5, <3>2, UpdatedType DEF TaskRecords, StateOf, TaskStates
  <2> QED
    BY <2>2, <2>3, <2>4, <2>5 DEF TaskStep, TaskRecords
<1>5. TypeOK'
  BY <1>1, <1>2, <1>4 DEF TypeOK, MonitorOK
<1>6. OrderInv'
  BY <1>1, SetupKept DEF OrderInv
<1>7. LifeInv'
  BY <1>4 DEF LifeInv, TypeOK
<1>8. DependInv'
  BY <1>1, <1>3, <1>4, SetupKept, AddedFinite DEF DependInv, TypeOK
<1>9. PhaseInv'
  <2>1. phase \notin {"sort", "done", "killed"}
    BY <1>3 DEF PhaseInv, Alive
  <2> QED
    BY <2>1, <1>1, <1>4, SetupKept, AddedFinite DEF PhaseInv
<1> QED
  BY <1>5, <1>6, <1>7, <1>8, <1>9

\* The steps of the monitor and of the surroundings, and stuttering.
LEMMA OtherSteps ==
    RuntimeInv /\ (MonitorStep \/ CheckPanics \/ HealthChanges \/ GiveSignal \/ UNCHANGED vars)
      => RuntimeInv'
<1> SUFFICES ASSUME RuntimeInv,
                    MonitorStep \/ CheckPanics \/ HealthChanges \/ GiveSignal \/ UNCHANGED vars
             PROVE  RuntimeInv'
  OBVIOUS
<1> USE DEF RuntimeInv
<1>1. /\ setup' = setup /\ phase' = phase /\ order' = order /\ told' = told
      /\ registration' = registration /\ life' = life /\ state' = state
  BY DEF MonitorStep, BeginRound, CheckOne, RoundTimeout, CheckPanics, HealthChanges, GiveSignal,
         vars
<1>2. signalled' \in BOOLEAN
  <2>1. signalled' = signalled \/ signalled' = TRUE
    BY DEF MonitorStep, BeginRound, CheckOne, RoundTimeout, CheckPanics, HealthChanges,
           GiveSignal, vars
  <2>2. signalled \in BOOLEAN
    BY DEF TypeOK
  <2> QED
    BY <2>1, <2>2, Zenon
<1>3. Len(Checks) \in Nat \ {0} /\ DOMAIN Checks = 1..Len(Checks)
  BY ChecksType DEF TypeOK
<1>4. MonitorOK'
  <2> Checks' = Checks
    BY <1>1, SetupKept
  <2>1. CASE BeginRound
    <3>1. round' \in 0..Len(Checks)
      BY <2>1, <1>3 DEF BeginRound
    <3> QED
      BY <3>1, <2>1, <1>1, SetupKept DEF BeginRound, MonitorOK, TypeOK
  <2>2. CASE CheckOne
    <3>1. round \in 1..Len(Checks) /\ round' \in 0..Len(Checks)
      BY <2>2, <1>3 DEF CheckOne, NextCheck, TypeOK
    <3>2. Checks[round] \in Range(Checks)
      BY <3>1, <1>3 DEF Range
    <3>3. Count \in [Range(Checks) -> 0..FailureThreshold]
      BY <3>2, RuntimeAssumption DEF Count, TypeOK
    <3>4. alarm' \in BOOLEAN
      <4>1. CASE GracefulShutdown /\ failures'[Checks[round]] >= FailureThreshold
        BY <4>1, <2>2 DEF CheckOne
      <4>2. CASE ~(GracefulShutdown /\ failures'[Checks[round]] >= FailureThreshold)
        <5>1. alarm' = (alarm \/ FALSE)
          BY <4>2, <2>2 DEF CheckOne
        <5> QED
          BY <5>1 DEF TypeOK
      <4> QED
        BY <4>1, <4>2
    <3> QED
      BY <3>1, <3>3, <3>4, <2>2, <1>1, SetupKept DEF CheckOne, MonitorOK, TypeOK
  <2>3. CASE RoundTimeout
    <3>1. round' \in 0..Len(Checks)
      BY <2>3, <1>3 DEF RoundTimeout
    <3> QED
      BY <3>1, <2>3, <1>1, SetupKept DEF RoundTimeout, MonitorOK, TypeOK
  <2>4. CASE CheckPanics
    <3>1. round' \in 0..Len(Checks)
      BY <2>4, <1>3 DEF CheckPanics
    <3>2. alarm' \in BOOLEAN
      BY <2>4, RuntimeAssumption DEF CheckPanics, TypeOK
    <3> QED
      BY <3>1, <3>2, <2>4, <1>1, SetupKept DEF CheckPanics, MonitorOK, TypeOK
  <2>5. CASE HealthChanges
    <3>1. ails' \in [DOMAIN Checks -> {"well", "fails", "hangs"}]
      BY <2>5 DEF HealthChanges, TypeOK
    <3> QED
      BY <3>1, <2>5, <1>1, SetupKept DEF HealthChanges, MonitorOK, TypeOK
  <2>6. CASE GiveSignal \/ UNCHANGED vars
    BY <2>6, MonitorKept DEF GiveSignal, vars, monitor
  <2> QED
    BY <2>1, <2>2, <2>3, <2>4, <2>5, <2>6 DEF MonitorStep
<1>5. TypeOK'
  BY <1>1, <1>2, <1>4 DEF TypeOK, MonitorOK
<1>6. OrderInv' /\ LifeInv' /\ DependInv' /\ PhaseInv'
  BY <1>1, SetupKept DEF OrderInv, LifeInv, DependInv, PhaseInv
<1> QED
  BY <1>5, <1>6

\* Every step keeps the invariant.
LEMMA RuntimeNext == RuntimeInv /\ [Next]_vars => RuntimeInv'
<1> SUFFICES ASSUME RuntimeInv, [Next]_vars PROVE RuntimeInv'
  OBVIOUS
<1>1. CASE RuntimeStep \/ KilledBySignal
  BY <1>1, SortTasksStep, StartTaskStep, PhaseSteps, TimeoutSteps DEF RuntimeStep
<1>2. CASE \E t \in Tasks : TaskStep(t)
  BY <1>2, TaskSteps
<1>3. CASE MonitorStep \/ CheckPanics \/ HealthChanges \/ GiveSignal \/ UNCHANGED vars
  BY <1>3, OtherSteps
<1> QED
  BY <1>1, <1>2, <1>3 DEF Next, Done

LEMMA RuntimeInvariant == Spec => []RuntimeInv
  BY RuntimeInit, RuntimeNext, PTL DEF Spec

------------------------------------------------------------------------------
(***************************************************************************)
(* The theorems                                                            *)
(***************************************************************************)

\* The types of the state of run, its tasks, the tracker and the monitor hold
\* throughout, whatever the tasks and their dependencies.
THEOREM TypeCorrect == Spec => []TypeOK
  BY RuntimeInvariant, PTL DEF RuntimeInv

\* start_all starts no task before what it depends on, in any acyclic graph.
THEOREM DependenciesStartFirst == Spec => []DependenciesFirst
<1>1. RuntimeInv => DependenciesFirst
  BY AddedFinite DEF RuntimeInv, DependInv, DependenciesFirst
<1> QED
  BY <1>1, RuntimeInvariant, PTL

\* The service is registered only between the moment in which all its tasks have
\* come to run and the moment before the first of them is told to stop.
THEOREM RegistrationIsServing == Spec => []RegisteredWhileServing
<1>1. RuntimeInv => RegisteredWhileServing
  BY DEF RuntimeInv, PhaseInv, RegisteredWhileServing
<1> QED
  BY <1>1, RuntimeInvariant, PTL

\* No task is alive when run has returned, by whichever way it did.
THEOREM TasksEndWithRun == Spec => []NoTaskOutlivesRun
<1>1. RuntimeInv => NoTaskOutlivesRun
  BY DEF RuntimeInv, PhaseInv, NoTaskOutlivesRun
<1> QED
  BY <1>1, RuntimeInvariant, PTL

\* The tracker shows exactly the tasks that returned an error as Failed: the update
\* of a task's end never meets a state from which it is no transition.
THEOREM FailuresReachTracker == Spec => []FailuresAreSeen
<1>1. RuntimeInv => FailuresAreSeen
  BY DEF RuntimeInv, LifeInv, StateOf, FailuresAreSeen
<1> QED
  BY <1>1, RuntimeInvariant, PTL

==============================================================================
