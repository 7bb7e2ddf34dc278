------------------------- MODULE KafkaConsumerProofs -------------------------
(***************************************************************************)
(* Proofs about KafkaConsumer: its types for any number of workers, and    *)
(* that one worker loses nothing it has not abandoned and until then keeps *)
(* the promise of AtLeastOnce, for every backlog, retry policy, choice of  *)
(* publishers and bound on the faults.                                     *)
(***************************************************************************)
EXTENDS KafkaConsumer, SequenceTheorems, TLAPS

KEntries == [msg : Messages, retries : Nat]

\* Only an accepted message is recorded (process_message, MessageResult::Ack).
Recorded ==
    \A w \in Workers : task[w].stage = "record" => Message(w) \in handled

TypeInv == TypeOK /\ Recorded

------------------------------------------------------------------------------
(***************************************************************************)
(* The types                                                               *)
(***************************************************************************)

\* The entry of a busy task (every stage of process_message reads it).
LEMMA BusyTask ==
    ASSUME TypeOK, NEW w \in Workers, task[w].stage # "idle"
    PROVE  /\ task[w].offset \in 1..Len(log)
           /\ Entry(w) \in KEntries
           /\ Message(w) \in Messages
           /\ task[w].offset + 1 \in 1..(Len(log) + 1)
  <1>1. Len(log) \in Nat /\ task[w].offset \in 0..Len(log) /\ task[w].offset > 0
    BY LenProperties DEF TypeOK
  <1>2. task[w].offset \in 1..Len(log)
    BY <1>1
  <1>3. log[task[w].offset] \in KEntries
    BY <1>2, ElementOfSeq DEF TypeOK, KEntries
  <1> QED
    BY <1>1, <1>2, <1>3 DEF Entry, Message, KEntries

\* What a step that leaves the log alone must keep, besides the types of the
\* variables it changes: the stage and the offset of every task.
TasksOK ==
    /\ task \in [Workers -> [stage : Stages, offset : 0..Len(log)]]
    /\ \A w \in Workers : task[w].stage # "idle" => task[w].offset > 0

LEMMA AdvanceTasks ==
    ASSUME TypeOK, NEW w \in Workers, task[w].stage # "idle", log' = log,
           NEW s \in Stages, Advance(w, s)
    PROVE  /\ TasksOK'
           /\ task'[w].stage = s /\ task'[w].offset = task[w].offset
           /\ \A v \in Workers : v # w => task'[v] = task[v]
           /\ abandoned' = abandoned
  BY DEF TypeOK, TasksOK, Advance

LEMMA AbandonTasks ==
    ASSUME TypeOK, NEW w \in Workers, task[w].stage # "idle", log' = log,
           Abandon(w)
    PROVE  /\ TasksOK'
           /\ task'[w] = NoTask
           /\ \A v \in Workers : v # w => task'[v] = task[v]
           /\ abandoned' = abandoned \cup {Message(w)}
           /\ abandoned' \subseteq Messages
  <1>1. Message(w) \in Messages /\ Len(log) \in Nat
    BY BusyTask, LenProperties DEF TypeOK
  <1>2. NoTask \in [stage : Stages, offset : 0..Len(log)] /\ NoTask.stage = "idle"
    BY <1>1 DEF NoTask, Stages
  <1> QED
    BY <1>1, <1>2 DEF TypeOK, TasksOK, Abandon

\* A fault is counted within its bound.
LEMMA FaultType ==
    ASSUME TypeOK, Fault \/ UNCHANGED faults
    PROVE  faults' \in 0..MaxFaults
  BY KafkaAssumption DEF TypeOK, Fault

LEMMA InitTypes == Init => TypeInv
  <1> SUFFICES ASSUME Init PROVE TypeInv
    OBVIOUS
  <1>1. Len(Backlog) \in Nat /\ DOMAIN Backlog = 1..Len(Backlog)
    BY KafkaAssumption, LenProperties
  <1>2. log \in [1..Len(Backlog) -> KEntries]
    BY <1>1 DEF Init, KEntries, Messages
  <1>3. log \in Seq(KEntries)
    BY <1>1, <1>2, SeqDef
  <1>4. Len(log) \in Nat
    BY <1>3, LenProperties
  <1>5. commits \in Seq(1..(Len(log) + 1))
    BY EmptySeq DEF Init
  <1>6. task \in [Workers -> [stage : Stages, offset : 0..Len(log)]]
    BY <1>4 DEF Init, NoTask, Stages
  <1>7. {position, committed} \subseteq 1..(Len(log) + 1) /\ faults \in 0..MaxFaults
    BY <1>4, KafkaAssumption DEF Init
  <1> QED
    BY <1>3, <1>5, <1>6, <1>7 DEF Init, TypeInv, TypeOK, Recorded, NoTask, KEntries

\* Growing a partition keeps what was said about its offsets.
LEMMA Growth ==
    ASSUME TypeOK, NEW e \in KEntries, log' = Append(log, e)
    PROVE  /\ log' \in Seq(KEntries)
           /\ Len(log') = Len(log) + 1 /\ Len(log) \in Nat
           /\ \A i \in 1..Len(log) : log'[i] = log[i]
           /\ log'[Len(log) + 1] = e
           /\ 0..Len(log) \subseteq 0..Len(log')
           /\ \A s \in Seq(1..(Len(log) + 1)) : s \in Seq(1..(Len(log') + 1))
  <1>1. log \in Seq(KEntries)
    BY DEF TypeOK, KEntries
  <1>2. /\ log' \in Seq(KEntries)
        /\ Len(log') = Len(log) + 1 /\ Len(log) \in Nat
        /\ \A i \in 1..Len(log) : log'[i] = log[i]
        /\ log'[Len(log) + 1] = e
    BY <1>1, AppendProperties, LenProperties
  <1>3. ASSUME NEW s \in Seq(1..(Len(log) + 1))
        PROVE  s \in Seq(1..(Len(log') + 1))
    <2>1. Len(s) \in Nat /\ s \in [1..Len(s) -> 1..(Len(log) + 1)]
      BY LenProperties
    <2>2. 1..(Len(log) + 1) \subseteq 1..(Len(log') + 1)
      BY <1>2
    <2>3. s \in [1..Len(s) -> 1..(Len(log') + 1)]
      BY <2>1, <2>2
    <2> QED
      BY <2>1, <2>3, SeqDef
  <1> QED
    BY <1>2, <1>3

\* A task of the runtime keeps the types (process_message and the fetch).
LEMMA TaskTypes ==
    ASSUME TypeInv, NEW w \in Workers, TaskStep(w)
    PROVE  TypeInv'
  <1> USE DEF TypeInv
  <1>0. Len(log) \in Nat /\ 1..Len(log) \subseteq 1..(Len(log) + 1)
    BY LenProperties DEF TypeOK
  <1>1. CASE FetchMessage(w)
    <2>1. task' = [task EXCEPT ![w] = [stage |-> "spawned", offset |-> position]]
      BY <1>1 DEF FetchMessage
    <2>2. position \in 1..Len(log) /\ position' \in 1..(Len(log) + 1)
      BY <1>0, <1>1 DEF FetchMessage, TypeOK
    <2>3. TasksOK' /\ task'[w].stage = "spawned"
          /\ \A v \in Workers : v # w => task'[v] = task[v]
      BY <1>0, <1>1, <2>1, <2>2 DEF TasksOK, TypeOK, Stages, FetchMessage
    <2>4. Recorded'
      BY <1>1, <2>3 DEF Recorded, FetchMessage, history, Message, Entry
    <2> QED
      BY <1>1, <2>2, <2>3, <2>4 DEF TypeOK, TasksOK, FetchMessage, history
  <1>2. CASE CheckDuplicate(w)
    <2>0. /\ task[w].stage = "spawned"
          /\ UNCHANGED <<partition, consumed, handled, buried>>
          /\ Fault \/ UNCHANGED faults
          /\ Advance(w, "ack") \/ Advance(w, "handling") \/ Abandon(w)
      BY <1>2 DEF CheckDuplicate
    <2>1. /\ TasksOK' /\ abandoned' \subseteq Messages
          /\ task'[w].stage # "record"
          /\ \A v \in Workers : v # w => task'[v] = task[v]
      BY <2>0, AdvanceTasks, AbandonTasks DEF partition, Stages, NoTask, TypeOK
    <2>2. Recorded'
      BY <2>0, <2>1 DEF Recorded, partition, Message, Entry
    <2> QED
      BY <2>0, <2>1, <2>2, FaultType DEF TypeOK, TasksOK, partition
  <1>3. CASE HandlerReturns(w)
    <2>0. /\ task[w].stage = "handling"
          /\ UNCHANGED <<partition, consumed, faults, buried>>
      BY <1>3 DEF HandlerReturns
    <2>1. CASE Accept(w)
      <3>1. /\ handled' = handled \cup {Message(w)}
            /\ Advance(w, "record") \/ Advance(w, "ack")
        BY <2>1 DEF Accept
      <3>2. /\ TasksOK' /\ abandoned' = abandoned
            /\ task'[w].offset = task[w].offset
            /\ \A v \in Workers : v # w => task'[v] = task[v]
        BY <2>0, <3>1, AdvanceTasks DEF partition, Stages
      <3>3. Recorded' /\ Message(w) \in Messages
        BY <2>0, <3>1, <3>2, BusyTask DEF Recorded, partition, Message, Entry
      <3> QED
        BY <2>0, <3>1, <3>2, <3>3 DEF TypeOK, TasksOK, partition
    <2>2. ASSUME NEW verdict \in Verdicts, Reject(w, verdict)
          PROVE  TypeInv'
      <3>1. /\ handled' = handled
            /\ Advance(w, "publish") \/ Advance(w, "bury") \/ Abandon(w)
        BY <2>2 DEF Reject
      <3>2. /\ TasksOK' /\ abandoned' \subseteq Messages
            /\ task'[w].stage # "record"
            /\ \A v \in Workers : v # w => task'[v] = task[v]
        BY <2>0, <3>1, AdvanceTasks, AbandonTasks DEF partition, Stages, NoTask, TypeOK
      <3>3. Recorded'
        BY <2>0, <3>1, <3>2 DEF Recorded, partition, Message, Entry
      <3> QED
        BY <2>0, <3>1, <3>2, <3>3 DEF TypeOK, TasksOK, partition
    <2> QED
      BY <1>3, <2>1, <2>2 DEF HandlerReturns
  <1>4. CASE HandlerPanics(w)
    <2>0. /\ task[w].stage = "handling" /\ Fault /\ Abandon(w)
          /\ UNCHANGED <<partition, consumed, handled, buried>>
      BY <1>4 DEF HandlerPanics
    <2>1. /\ TasksOK' /\ abandoned' \subseteq Messages
          /\ task'[w].stage # "record"
          /\ \A v \in Workers : v # w => task'[v] = task[v]
      BY <2>0, AbandonTasks DEF partition, NoTask
    <2>2. Recorded'
      BY <2>0, <2>1 DEF Recorded, partition, Message, Entry
    <2> QED
      BY <2>0, <2>1, <2>2, FaultType DEF TypeOK, TasksOK, partition
  <1>5. CASE RecordConsumed(w)
    <2>0. /\ task[w].stage = "record"
          /\ Advance(w, "ack") \/ Abandon(w)
          /\ Fault \/ UNCHANGED faults
          /\ UNCHANGED <<partition, handled, buried>>
          /\ consumed' \subseteq consumed \cup {Message(w)}
          /\ Message(w) \in handled
      BY <1>5 DEF RecordConsumed, Recorded
    <2>1. /\ TasksOK' /\ abandoned' \subseteq Messages
          /\ task'[w].stage # "record"
          /\ \A v \in Workers : v # w => task'[v] = task[v]
      BY <2>0, <1>5, AdvanceTasks, AbandonTasks
      DEF partition, Stages, NoTask, TypeOK, RecordConsumed
    <2>2. Recorded'
      BY <2>0, <2>1 DEF Recorded, partition, Message, Entry
    <2> QED
      BY <2>0, <2>1, <2>2, FaultType DEF TypeOK, TasksOK, partition
  <1>6. CASE PublishRetry(w)
    <2>0. PICK copy : copy = [msg |-> Message(w), retries |-> Entry(w).retries + 1]
      OBVIOUS
    <2>1. /\ task[w].stage = "publish"
          /\ Advance(w, "ack") \/ Abandon(w)
          /\ Fault \/ UNCHANGED faults
          /\ UNCHANGED <<log, position, committed, commits, consumed, handled, buried>>
          /\ delayed' \subseteq delayed \cup {copy}
      BY <1>6, <2>0 DEF PublishRetry
    <2>2. copy \in KEntries
      BY <2>0, <2>1, BusyTask DEF KEntries
    <2>3. /\ TasksOK' /\ abandoned' \subseteq Messages
          /\ task'[w].stage # "record"
          /\ \A v \in Workers : v # w => task'[v] = task[v]
      BY <2>1, AdvanceTasks, AbandonTasks DEF Stages, NoTask, TypeOK
    <2>4. Recorded'
      BY <2>1, <2>3 DEF Recorded, Message, Entry
    <2> QED
      BY <2>1, <2>2, <2>3, <2>4, FaultType DEF TypeOK, TasksOK, KEntries
  <1>7. CASE PublishDeadLetter(w)
    <2>1. /\ task[w].stage = "bury"
          /\ Advance(w, "ack") \/ Abandon(w)
          /\ Fault \/ UNCHANGED faults
          /\ UNCHANGED <<partition, consumed, handled>>
          /\ buried' \subseteq buried \cup {Message(w)}
      BY <1>7 DEF PublishDeadLetter
    <2>2. /\ TasksOK' /\ abandoned' \subseteq Messages
          /\ task'[w].stage # "record" /\ Message(w) \in Messages
          /\ \A v \in Workers : v # w => task'[v] = task[v]
      BY <2>1, AdvanceTasks, AbandonTasks, BusyTask DEF Stages, NoTask, TypeOK, partition
    <2>3. Recorded'
      BY <2>1, <2>2 DEF Recorded, Message, Entry, partition
    <2> QED
      BY <2>1, <2>2, <2>3, FaultType DEF TypeOK, TasksOK, partition
  <1>8. CASE Acknowledge(w)
    <2>1. /\ task[w].stage = "ack"
          /\ task' = [task EXCEPT ![w] = NoTask]
          /\ Fault \/ UNCHANGED faults
          /\ UNCHANGED <<log, delayed, position, committed, consumed, history>>
          /\ commits' = commits \/ commits' = Append(commits, task[w].offset + 1)
      BY <1>8 DEF Acknowledge, CommitOffset
    <2>2. task[w].offset + 1 \in 1..(Len(log) + 1)
      BY <2>1, BusyTask
    <2>3. commits' \in Seq(1..(Len(log) + 1))
      <3>1. commits \in Seq(1..(Len(log) + 1))
        BY DEF TypeOK
      <3>2. Append(commits, task[w].offset + 1) \in Seq(1..(Len(log) + 1))
        BY <2>2, <3>1, AppendProperties
      <3> QED
        BY <2>1, <3>1, <3>2
    <2>4. /\ TasksOK' /\ task'[w].stage # "record"
          /\ \A v \in Workers : v # w => task'[v] = task[v]
      BY <1>0, <2>1 DEF TasksOK, TypeOK, NoTask, Stages
    <2>5. Recorded'
      BY <2>1, <2>4 DEF Recorded, Message, Entry, history
    <2> QED
      BY <2>1, <2>3, <2>4, <2>5, FaultType DEF TypeOK, TasksOK, history
  <1> QED
    BY <1>1, <1>2, <1>3, <1>4, <1>5, <1>6, <1>7, <1>8 DEF TaskStep

\* So do the broker, the forwarder and the faults of the process.
LEMMA EnvironmentTypes ==
    ASSUME TypeInv,
           \/ CommitArrives \/ Rebalance \/ Crash
           \/ \E copy \in delayed : ForwardRetry(copy)
    PROVE  TypeInv'
  <1> USE DEF TypeInv
  <1>0. Len(log) \in Nat /\ commits \in Seq(1..(Len(log) + 1)) /\ <<>> \in Seq(1..(Len(log) + 1))
    BY LenProperties, EmptySeq DEF TypeOK
  <1>1. CASE CommitArrives
    <2>1. /\ commits # <<>> /\ commits' = Tail(commits)
          /\ Fault \/ UNCHANGED faults
          /\ committed' = committed \/ committed' = Head(commits)
          /\ UNCHANGED <<log, delayed, position, task, consumed, history>>
      BY <1>1 DEF CommitArrives
    <2>2. Head(commits) \in 1..(Len(log) + 1) /\ commits' \in Seq(1..(Len(log) + 1))
      BY <1>0, <2>1, HeadTailProperties
    <2>3. Recorded'
      BY <2>1 DEF Recorded, Message, Entry, history
    <2> QED
      BY <2>1, <2>2, <2>3, FaultType DEF TypeOK, history
  <1>2. CASE Rebalance
    <2>1. Recorded' /\ commits' \in Seq(1..(Len(log) + 1))
      BY <1>0, <1>2 DEF Recorded, Rebalance, Message, Entry, history
    <2> QED
      BY <1>2, <2>1, FaultType DEF TypeOK, Rebalance, history
  <1>3. CASE Crash
    <2>1. task' \in [Workers -> [stage : Stages, offset : 0..Len(log)]]
      BY <1>0, <1>3 DEF Crash, NoTask, Stages
    <2> QED
      BY <1>0, <1>3, <2>1, FaultType DEF TypeOK, Recorded, Crash, NoTask, history
  <1>4. ASSUME NEW copy \in delayed, ForwardRetry(copy)
        PROVE  TypeInv'
    <2>1. copy \in KEntries /\ log' = Append(log, copy)
      BY <1>4 DEF TypeOK, KEntries, ForwardRetry
    <2>2. /\ log' \in Seq(KEntries)
          /\ Len(log') = Len(log) + 1
          /\ \A i \in 1..Len(log) : log'[i] = log[i]
          /\ 0..Len(log) \subseteq 0..Len(log')
          /\ commits' \in Seq(1..(Len(log') + 1))
      BY <1>0, <1>4, <2>1, Growth DEF ForwardRetry
    <2>3. {position, committed} \subseteq 1..(Len(log') + 1)
      BY <1>0, <2>2 DEF TypeOK
    <2>4. task' \in [Workers -> [stage : Stages, offset : 0..Len(log')]]
      BY <1>4, <2>2 DEF TypeOK, ForwardRetry
    <2>5. Recorded'
      BY <1>4, <2>2, BusyTask DEF Recorded, Message, Entry, ForwardRetry, history
    <2> QED
      BY <1>4, <2>2, <2>3, <2>4, <2>5 DEF TypeOK, ForwardRetry, history, KEntries
  <1> QED
    BY <1>1, <1>2, <1>3, <1>4

LEMMA TypesInductive == TypeInv /\ [Next]_vars => TypeInv'
  <1> SUFFICES ASSUME TypeInv, [Next]_vars PROVE TypeInv'
    OBVIOUS
  <1>1. CASE UNCHANGED vars
    BY <1>1 DEF vars, TypeInv, TypeOK, Recorded, Message, Entry
  <1>2. CASE Next
    BY <1>2, TaskTypes, EnvironmentTypes DEF Next
  <1> QED
    BY <1>1, <1>2

\* The types hold for any number of workers: no offset is fetched or committed
\* beyond the end of the partition (commit_offset_inner).
THEOREM TypeCorrect == Spec => []TypeOK
  <1>1. TypeInv => TypeOK
    BY DEF TypeInv
  <1> QED
    BY <1>1, InitTypes, TypesInductive, PTL DEF Spec

------------------------------------------------------------------------------
(***************************************************************************)
(* Nothing is lost by one worker                                           *)
(***************************************************************************)

\* An offset c covers the messages when each of them lies at c or behind it in
\* the log l, or is in E, the messages that have come to an end otherwise.
Covers(c, l, E) == Messages \subseteq {l[i].msg : i \in c..Len(l)} \cup E

Ended == {copy.msg : copy \in delayed} \cup handled \cup buried \cup abandoned

\* the offset a running task would commit, or has yet to come to an end
Reached(w) == IF task[w].stage = "ack" THEN task[w].offset + 1 ELSE task[w].offset

\* Every offset the group may restart from covers the messages: the committed
\* one, those on their way, the one the task of w stands for, and the position,
\* unless it is just past that task.
CoverInv(w) ==
    /\ Covers(committed, log, Ended)
    /\ \A i \in 1..Len(commits) : Covers(commits[i], log, Ended)
    /\ task[w].stage # "idle" => Covers(Reached(w), log, Ended)
    /\ \/ Covers(position, log, Ended)
       \/ task[w].stage # "idle" /\ position = task[w].offset + 1

LEMMA CoversMore ==
    ASSUME NEW c, NEW l, NEW E, NEW F, E \subseteq F, Covers(c, l, E)
    PROVE  Covers(c, l, F)
  BY DEF Covers

\* An offset may be passed when its message has come to an end (the reason for
\* every ack and term of process_message).
LEMMA CoversNext ==
    ASSUME NEW l \in Seq(KEntries), NEW E, NEW o \in 1..Len(l),
           Covers(o, l, E), l[o].msg \in E
    PROVE  Covers(o + 1, l, E)
  <1>1. Len(l) \in Nat
    BY LenProperties
  <1>2. ASSUME NEW m \in Messages, m \notin E
        PROVE  m \in {l[i].msg : i \in (o + 1)..Len(l)}
    <2>1. PICK i \in o..Len(l) : l[i].msg = m
      BY <1>2 DEF Covers
    <2>2. i # o
      BY <1>2, <2>1
    <2>3. i \in (o + 1)..Len(l)
      BY <1>1, <2>1, <2>2
    <2> QED
      BY <2>1, <2>3
  <1> QED
    BY <1>2 DEF Covers

\* A retry copy that is sent back is again in the log (RetryForwarderHandler).
LEMMA CoversGrown ==
    ASSUME NEW l \in Seq(KEntries), NEW e \in KEntries, NEW E, NEW F,
           E \subseteq F \cup {e.msg},
           NEW c \in 1..(Len(l) + 1), Covers(c, l, E)
    PROVE  Covers(c, Append(l, e), F)
  <1>1. /\ Len(Append(l, e)) = Len(l) + 1 /\ Len(l) \in Nat
        /\ \A i \in 1..Len(l) : Append(l, e)[i] = l[i]
        /\ Append(l, e)[Len(l) + 1] = e
    BY AppendProperties, LenProperties
  <1>2. ASSUME NEW m \in Messages, m \notin F
        PROVE  m \in {Append(l, e)[i].msg : i \in c..Len(Append(l, e))}
    <2>1. CASE m \in E
      <3>1. Append(l, e)[Len(l) + 1].msg = m /\ Len(l) + 1 \in c..Len(Append(l, e))
        BY <1>1, <1>2, <2>1
      <3> QED
        BY <3>1
    <2>2. CASE m \notin E
      <3>1. PICK i \in c..Len(l) : l[i].msg = m
        BY <2>2 DEF Covers
      <3>2. Append(l, e)[i].msg = m /\ i \in c..Len(Append(l, e))
        BY <1>1, <3>1
      <3> QED
        BY <3>2
    <2> QED
      BY <2>1, <2>2
  <1> QED
    BY <1>2 DEF Covers

\* All that matters of a step that leaves the offsets alone and ends nothing:
\* the task goes on and what has ended stays ended.
LEMMA CoverKept ==
    ASSUME NEW w \in Workers, CoverInv(w),
           UNCHANGED <<log, position, committed, commits>>,
           Ended \subseteq Ended',
           task[w].stage # "idle" => task'[w].offset = task[w].offset /\ task'[w].stage # "idle",
           task'[w].stage # "idle" => Covers(Reached(w)', log, Ended')
    PROVE  CoverInv(w)'
  <1>1. Covers(committed', log', Ended')
    BY CoversMore DEF CoverInv
  <1>2. \A i \in 1..Len(commits') : Covers(commits'[i], log', Ended')
    BY CoversMore DEF CoverInv
  <1>3. \/ Covers(position', log', Ended')
        \/ task'[w].stage # "idle" /\ position' = task'[w].offset + 1
    BY CoversMore DEF CoverInv
  <1> QED
    BY <1>1, <1>2, <1>3 DEF CoverInv

\* A task that is abandoned has put its message among those that ended.
LEMMA CoverAbandoned ==
    ASSUME NEW w \in Workers, TypeInv, CoverInv(w), task[w].stage \notin {"idle", "ack"},
           UNCHANGED <<log, position, committed, commits>>,
           Ended \subseteq Ended', Abandon(w)
    PROVE  CoverInv(w)'
  <1>1. log \in Seq(KEntries) /\ task[w].offset \in 1..Len(log)
    BY BusyTask DEF TypeInv, TypeOK, KEntries
  <1>2. log[task[w].offset].msg \in Ended' /\ task'[w].stage = "idle"
    BY DEF Ended, Abandon, Message, Entry, NoTask, TypeInv, TypeOK
  <1>3. Covers(task[w].offset, log, Ended')
    BY CoversMore DEF CoverInv, Reached
  <1>4. Covers(task[w].offset + 1, log, Ended')
    BY <1>1, <1>2, <1>3, CoversNext
  <1>5. Covers(committed', log', Ended')
    BY CoversMore DEF CoverInv
  <1>6. \A i \in 1..Len(commits') : Covers(commits'[i], log', Ended')
    BY CoversMore DEF CoverInv
  <1>7. Covers(position', log', Ended')
    BY <1>4, CoversMore DEF CoverInv
  <1> QED
    BY <1>2, <1>5, <1>6, <1>7 DEF CoverInv

\* A task that goes on to its acknowledgement has a message that has ended.
LEMMA CoverAdvanced ==
    ASSUME NEW w \in Workers, TypeInv, CoverInv(w), task[w].stage \notin {"idle", "ack"},
           UNCHANGED <<log, position, committed, commits>>,
           Ended \subseteq Ended',
           NEW s \in Stages \ {"idle"}, Advance(w, s),
           s = "ack" => Message(w) \in Ended'
    PROVE  CoverInv(w)'
  <1>1. log \in Seq(KEntries) /\ task[w].offset \in 1..Len(log)
    BY BusyTask DEF TypeInv, TypeOK, KEntries
  <1>2. task'[w].stage = s /\ task'[w].offset = task[w].offset
    BY AdvanceTasks DEF TypeInv
  <1>3. Covers(task[w].offset, log, Ended')
    BY CoversMore DEF CoverInv, Reached
  <1>4. s = "ack" => Covers(task[w].offset + 1, log, Ended')
    BY <1>1, <1>3, CoversNext DEF Message, Entry
  <1>5. Covers(Reached(w)', log, Ended')
    BY <1>2, <1>3, <1>4 DEF Reached
  <1> QED
    BY <1>2, <1>5, CoverKept

\* Every step of a task keeps the cover: process_message acknowledges a message
\* that was accepted before, accepted now, published to the retry topic, or
\* buried, and no other.
LEMMA TaskCover ==
    ASSUME NEW w \in Workers, TypeInv, CoverInv(w), TaskStep(w)
    PROVE  CoverInv(w)'
  <1>1. CASE FetchMessage(w)
    <2>1. /\ task[w].stage = "idle" /\ position' = position + 1
          /\ UNCHANGED <<log, committed, commits>> /\ Ended' = Ended
          /\ task' = [task EXCEPT ![w] = [stage |-> "spawned", offset |-> position]]
      BY <1>1 DEF FetchMessage, NoTask, Ended, history
    <2>2. task'[w] = [stage |-> "spawned", offset |-> position]
      BY <2>1 DEF TypeInv, TypeOK
    <2>3. Covers(position, log, Ended)
      BY <2>1 DEF CoverInv
    <2> QED
      BY <2>1, <2>2, <2>3 DEF CoverInv, Reached
  <1>2. CASE CheckDuplicate(w)
    <2>1. /\ task[w].stage = "spawned"
          /\ UNCHANGED <<partition, handled, buried>>
          /\ \/ Advance(w, "ack") /\ Message(w) \in handled
             \/ Advance(w, "handling")
             \/ Abandon(w)
      BY <1>2 DEF CheckDuplicate, TypeInv, TypeOK
    <2>2. Ended \subseteq Ended' /\ handled' \subseteq Ended'
      BY <2>1 DEF Ended, partition, Advance, Abandon
    <2> QED
      BY <2>1, <2>2, CoverAdvanced, CoverAbandoned DEF partition, Stages
  <1>3. CASE HandlerReturns(w)
    <2>1. /\ task[w].stage = "handling"
          /\ UNCHANGED <<partition, buried>>
          /\ \/ /\ handled' = handled \cup {Message(w)}
                /\ Advance(w, "record") \/ Advance(w, "ack")
             \/ /\ handled' = handled
                /\ Advance(w, "publish") \/ Advance(w, "bury") \/ Abandon(w)
      BY <1>3 DEF HandlerReturns, Accept, Reject
    <2>2. Ended \subseteq Ended' /\ handled' \subseteq Ended'
      BY <2>1 DEF Ended, partition, Advance, Abandon
    <2> QED
      BY <2>1, <2>2, CoverAdvanced, CoverAbandoned DEF partition, Stages
  <1>4. CASE HandlerPanics(w)
    <2>1. /\ task[w].stage = "handling" /\ Abandon(w)
          /\ UNCHANGED <<partition, handled, buried>>
      BY <1>4 DEF HandlerPanics
    <2>2. Ended \subseteq Ended'
      BY <2>1 DEF Ended, partition, Abandon
    <2> QED
      BY <2>1, <2>2, CoverAbandoned DEF partition
  <1>5. CASE RecordConsumed(w)
    <2>1. /\ task[w].stage = "record"
          /\ UNCHANGED <<partition, handled, buried>>
          /\ Advance(w, "ack") \/ Abandon(w)
          /\ Message(w) \in handled
      BY <1>5 DEF RecordConsumed, TypeInv, Recorded
    <2>2. Ended \subseteq Ended' /\ handled' \subseteq Ended'
      BY <2>1 DEF Ended, partition, Advance, Abandon
    <2> QED
      BY <2>1, <2>2, CoverAdvanced, CoverAbandoned DEF partition, Stages
  <1>6. CASE PublishRetry(w)
    <2>0. PICK copy : copy = [msg |-> Message(w), retries |-> Entry(w).retries + 1]
      OBVIOUS
    <2>1. /\ task[w].stage = "publish"
          /\ UNCHANGED <<log, position, committed, commits, handled, buried>>
          /\ delayed \subseteq delayed'
          /\ \/ Advance(w, "ack") /\ copy \in delayed'
             \/ Abandon(w)
      BY <1>6, <2>0 DEF PublishRetry
    <2>2. Ended \subseteq Ended'
      BY <2>1 DEF Ended, Advance, Abandon
    <2>3. copy \in delayed' => Message(w) \in Ended'
      BY <2>0 DEF Ended
    <2> QED
      BY <2>1, <2>2, <2>3, CoverAdvanced, CoverAbandoned DEF Stages
  <1>7. CASE PublishDeadLetter(w)
    <2>1. /\ task[w].stage = "bury"
          /\ UNCHANGED <<partition, handled>>
          /\ buried \subseteq buried'
          /\ \/ Advance(w, "ack") /\ Message(w) \in buried'
             \/ Abandon(w)
      BY <1>7 DEF PublishDeadLetter
    <2>2. Ended \subseteq Ended' /\ buried' \subseteq Ended'
      BY <2>1 DEF Ended, partition, Advance, Abandon
    <2> QED
      BY <2>1, <2>2, CoverAdvanced, CoverAbandoned DEF partition, Stages
  <1>8. CASE Acknowledge(w)
    <2>1. /\ task[w].stage = "ack"
          /\ task' = [task EXCEPT ![w] = NoTask]
          /\ UNCHANGED <<log, position, committed>> /\ Ended' = Ended
          /\ commits' = commits \/ commits' = Append(commits, task[w].offset + 1)
      BY <1>8 DEF Acknowledge, CommitOffset, Ended, history
    <2>2. task'[w].stage = "idle"
      BY <2>1 DEF TypeInv, TypeOK, NoTask
    <2>3. Covers(task[w].offset + 1, log, Ended)
      BY <2>1 DEF CoverInv, Reached
    <2>4. Covers(position, log, Ended)
      BY <2>3 DEF CoverInv
    <2>5. ASSUME NEW i \in 1..Len(commits')
          PROVE  Covers(commits'[i], log, Ended)
      <3>1. commits \in Seq(1..(Len(log) + 1)) /\ Len(commits) \in Nat
        BY LenProperties DEF TypeInv, TypeOK
      <3>2. task[w].offset + 1 \in 1..(Len(log) + 1)
        BY <2>1, BusyTask DEF TypeInv
      <3>3. PICK c : c = task[w].offset + 1
        OBVIOUS
      <3>4. /\ Len(Append(commits, c)) = Len(commits) + 1
            /\ \A j \in 1..Len(commits) : Append(commits, c)[j] = commits[j]
            /\ Append(commits, c)[Len(commits) + 1] = c
        BY <3>1, <3>2, <3>3, AppendProperties
      <3>5. i \in 1..Len(commits) \/ (i = Len(commits) + 1 /\ commits' = Append(commits, c))
        BY <2>1, <3>1, <3>3, <3>4
      <3>6. commits'[i] = c \/ (i \in 1..Len(commits) /\ commits'[i] = commits[i])
        BY <2>1, <3>3, <3>4, <3>5
      <3> QED
        BY <2>3, <3>3, <3>6 DEF CoverInv
    <2> QED
      BY <2>1, <2>2, <2>4, <2>5 DEF CoverInv
  <1> QED
    BY <1>1, <1>2, <1>3, <1>4, <1>5, <1>6, <1>7, <1>8 DEF TaskStep

\* A restart goes back to the committed offset, which is covered; the broker
\* only ever takes offsets that were covered when they were committed.
LEMMA EnvironmentCover ==
    ASSUME NEW w \in Workers, TypeInv, CoverInv(w),
           \/ CommitArrives \/ Rebalance \/ Crash
           \/ \E copy \in delayed : ForwardRetry(copy)
    PROVE  CoverInv(w)'
  <1>0. /\ log \in Seq(KEntries) /\ commits \in Seq(1..(Len(log) + 1))
        /\ Len(log) \in Nat /\ Len(commits) \in Nat
    BY LenProperties DEF TypeInv, TypeOK, KEntries
  <1>1. CASE CommitArrives
    <2>1. /\ commits # <<>> /\ commits' = Tail(commits)
          /\ committed' = committed \/ committed' = Head(commits)
          /\ UNCHANGED <<log, position, task>> /\ Ended' = Ended
      BY <1>1 DEF CommitArrives, Ended, history
    <2>2. /\ Len(commits) >= 1 /\ Head(commits) = commits[1]
          /\ Len(commits') = Len(commits) - 1
          /\ \A i \in 1..Len(commits') : commits'[i] = commits[i + 1]
      BY <1>0, <2>1, HeadTailProperties
    <2>3. Covers(committed', log, Ended)
      BY <1>0, <2>1, <2>2 DEF CoverInv
    <2>4. ASSUME NEW i \in 1..Len(commits')
          PROVE  Covers(commits'[i], log, Ended)
      <3>1. i + 1 \in 1..Len(commits) /\ commits'[i] = commits[i + 1]
        BY <1>0, <2>2
      <3>2. Covers(commits[i + 1], log, Ended)
        BY <3>1 DEF CoverInv
      <3> QED
        BY <3>1, <3>2
    <2> QED
      BY <2>1, <2>3, <2>4 DEF CoverInv, Reached
  <1>2. CASE Rebalance
    <2>1. /\ position' = committed
          /\ commits' = commits \/ commits' = <<>>
          /\ UNCHANGED <<log, committed, task>> /\ Ended' = Ended
      BY <1>2 DEF Rebalance, Ended, history
    <2>2. \A i \in 1..Len(commits') : Covers(commits'[i], log, Ended)
      BY <2>1, EmptySeq DEF CoverInv
    <2> QED
      BY <2>1, <2>2 DEF CoverInv, Reached
  <1>3. CASE Crash
    <2>1. /\ position' = committed /\ commits' = <<>>
          /\ UNCHANGED <<log, committed>> /\ Ended' = Ended
          /\ task'[w].stage = "idle"
      BY <1>3 DEF Crash, Ended, history, NoTask
    <2>2. \A i \in 1..Len(commits') : Covers(commits'[i], log, Ended)
      BY <2>1, EmptySeq
    <2> QED
      BY <2>1, <2>2 DEF CoverInv
  <1>4. ASSUME NEW copy \in delayed, ForwardRetry(copy)
        PROVE  CoverInv(w)'
    <2>1. /\ log' = Append(log, copy) /\ delayed' = delayed \ {copy}
          /\ UNCHANGED <<position, committed, commits, task>>
          /\ Ended \subseteq Ended' \cup {copy.msg}
          /\ copy \in KEntries
      BY <1>4 DEF ForwardRetry, Ended, history, TypeInv, TypeOK, KEntries
    <2>2. ASSUME NEW c \in 1..(Len(log) + 1), Covers(c, log, Ended)
          PROVE  Covers(c, log', Ended')
      BY <1>0, <2>1, <2>2, CoversGrown
    <2>3. {position, committed} \subseteq 1..(Len(log) + 1)
      BY DEF TypeInv, TypeOK
    <2>4. \A i \in 1..Len(commits) : commits[i] \in 1..(Len(log) + 1)
      BY <1>0, ElementOfSeq
    <2>5. task[w].stage # "idle" => Reached(w) \in 1..(Len(log) + 1)
      BY <1>0, BusyTask DEF Reached, TypeInv
    <2>6. Covers(committed', log', Ended')
      BY <2>1, <2>2, <2>3 DEF CoverInv
    <2>7. \A i \in 1..Len(commits') : Covers(commits'[i], log', Ended')
      BY <2>1, <2>2, <2>4 DEF CoverInv
    <2>8. task'[w].stage # "idle" => Covers(Reached(w)', log', Ended')
      BY <2>1, <2>2, <2>5 DEF CoverInv, Reached
    <2>9. \/ Covers(position', log', Ended')
          \/ task'[w].stage # "idle" /\ position' = task'[w].offset + 1
      BY <2>1, <2>2, <2>3 DEF CoverInv
    <2> QED
      BY <2>6, <2>7, <2>8, <2>9 DEF CoverInv
  <1> QED
    BY <1>1, <1>2, <1>3, <1>4

LEMMA CoverInit ==
    ASSUME NEW w \in Workers, Init
    PROVE  CoverInv(w)
  <1>1. Len(Backlog) \in Nat /\ DOMAIN Backlog = 1..Len(Backlog) /\ log \in Seq(KEntries)
    BY KafkaAssumption, LenProperties, InitTypes DEF TypeInv, TypeOK, KEntries
  <1>2. DOMAIN log = 1..Len(log) /\ DOMAIN log = 1..Len(Backlog)
    BY <1>1, LenProperties DEF Init
  <1>3. Messages \subseteq {log[i].msg : i \in 1..Len(log)}
    BY <1>1, <1>2 DEF Init, Messages
  <1>4. Covers(1, log, Ended)
    BY <1>3 DEF Covers
  <1> QED
    BY <1>4, EmptySeq DEF Init, CoverInv, NoTask

\* Once they hold, the types and the cover hold for ever, whatever one worker,
\* the broker and the faults do.
LEMMA CoverInductive ==
    ASSUME NEW w, Workers = {w}
    PROVE  TypeInv /\ CoverInv(w) /\ [Next]_vars => (TypeInv /\ CoverInv(w))'
  <1> SUFFICES ASSUME TypeInv, CoverInv(w), [Next]_vars
               PROVE  TypeInv' /\ CoverInv(w)'
    OBVIOUS
  <1>0. TypeInv'
    BY TypesInductive
  <1>1. CASE UNCHANGED vars
    <2>1. UNCHANGED <<log, position, committed, commits, task>> /\ Ended' = Ended
      BY <1>1 DEF vars, Ended
    <2> QED
      BY <1>0, <2>1 DEF CoverInv, Reached
  <1>2. CASE Next
    <2>1. TaskStep(w) => CoverInv(w)'
      BY TaskCover
    <2>2. \/ CommitArrives \/ Rebalance \/ Crash
          \/ \E copy \in delayed : ForwardRetry(copy)
          => CoverInv(w)'
      BY EnvironmentCover
    <2> QED
      BY <1>0, <1>2, <2>1, <2>2 DEF Next
  <1> QED
    BY <1>1, <1>2

\* With concurrency = 1 a message is lost only if a task ended with an error or
\* a panic on it: commits, crashes and rebalances never pass over one.
THEOREM SequentialLosesNothing ==
    ASSUME NEW w, Workers = {w}
    PROVE  Spec => []LossNeedsError
  <1>1. Init => TypeInv /\ CoverInv(w)
    BY CoverInit, InitTypes
  <1>2. TypeInv /\ CoverInv(w) /\ [Next]_vars => (TypeInv /\ CoverInv(w))'
    BY CoverInductive
  <1>3. CoverInv(w) => LossNeedsError
    BY DEF CoverInv, Covers, Ended, LossNeedsError, Owed
  <1> QED
    BY <1>1, <1>2, <1>3, PTL DEF Spec

------------------------------------------------------------------------------
(***************************************************************************)
(* The promise, step by step                                               *)
(***************************************************************************)

\* Only messages are owed, from whichever offset the group starts.
LEMMA OwedAreMessages ==
    ASSUME TypeInv, NEW c \in 1..(Len(log) + 1)
    PROVE  {log[i].msg : i \in c..Len(log)} \cup {copy.msg : copy \in delayed}
              \subseteq Messages
  <1>1. /\ log \in Seq(KEntries) /\ Len(log) \in Nat
        /\ delayed \subseteq KEntries
    BY LenProperties DEF TypeInv, TypeOK, KEntries
  <1>2. \A i \in c..Len(log) : i \in 1..Len(log) /\ log[i] \in KEntries
    BY <1>1, ElementOfSeq
  <1> QED
    BY <1>1, <1>2 DEF KEntries

\* What a task does to its message is an abstract action: it is accepted, it is
\* buried, it is owed once more as a retry copy, or nothing is seen of the step.
LEMMA TaskKeepsPromise ==
    ASSUME TypeInv, NEW w \in Workers, TaskStep(w)
    PROVE  Promise!Next \/ UNCHANGED Promise!avars
  <1>1. CASE HandlerReturns(w)
    <2>1. /\ Owed' = Owed /\ buried' = buried
          /\ handled' = handled \/ handled' = handled \cup {Message(w)}
      BY <1>1 DEF HandlerReturns, Accept, Reject, partition, Owed
    <2>2. {Message(w)} \in SUBSET Messages
      BY <1>1, BusyTask DEF HandlerReturns, TypeInv
    <2>3. handled' = handled \cup {Message(w)} => Promise!Handle({Message(w)})
      BY <2>1 DEF Promise!Handle
    <2> QED
      BY <2>1, <2>2, <2>3 DEF Promise!Next, Promise!avars
  <1>2. CASE PublishRetry(w)
    <2>0. PICK copy : copy = [msg |-> Message(w), retries |-> Entry(w).retries + 1]
      OBVIOUS
    <2>1. /\ UNCHANGED <<log, committed, handled, buried>>
          /\ delayed' = delayed \/ delayed' = delayed \cup {copy}
      BY <1>2, <2>0 DEF PublishRetry
    <2>2. {Message(w)} \in SUBSET Messages
      BY <1>2, BusyTask DEF PublishRetry, TypeInv
    <2>3. CASE delayed' = delayed \cup {copy}
      <3>1. Owed' = Owed \cup {Message(w)}
        BY <2>0, <2>1, <2>3 DEF Owed
      <3>2. Promise!Redo({Message(w)})
        BY <2>1, <3>1 DEF Promise!Redo
      <3> QED
        BY <2>2, <3>2 DEF Promise!Next
    <2>4. CASE delayed' = delayed
      BY <2>1, <2>4 DEF Owed, Promise!avars
    <2> QED
      BY <2>1, <2>3, <2>4
  <1>3. CASE PublishDeadLetter(w)
    <2>1. /\ Owed' = Owed /\ handled' = handled
          /\ buried' = buried \/ buried' = buried \cup {Message(w)}
      BY <1>3 DEF PublishDeadLetter, partition, Owed
    <2>2. Message(w) \in Messages
      BY <1>3, BusyTask DEF PublishDeadLetter, TypeInv
    <2>3. buried' = buried \cup {Message(w)} => Promise!Bury(Message(w))
      BY <2>1 DEF Promise!Bury
    <2> QED
      BY <2>1, <2>2, <2>3 DEF Promise!Next, Promise!avars
  <1>4. CASE \/ FetchMessage(w) \/ CheckDuplicate(w) \/ HandlerPanics(w)
             \/ RecordConsumed(w) \/ Acknowledge(w)
    <2>1. UNCHANGED <<log, delayed, committed, handled, buried>>
      BY <1>4 DEF FetchMessage, CheckDuplicate, HandlerPanics, RecordConsumed,
                  Acknowledge, partition, history
    <2> QED
      BY <2>1 DEF Owed, Promise!avars
  <1> QED
    BY <1>1, <1>2, <1>3, <1>4 DEF TaskStep

\* A commit that arrives lets go of messages that have ended, or takes the
\* group back to messages it has had (commit_offset_inner).
LEMMA CommitKeepsPromise ==
    ASSUME TypeInv, NEW w \in Workers, CoverInv(w)', CommitArrives, abandoned' = {}
    PROVE  Promise!Next \/ UNCHANGED Promise!avars
  <1>1. /\ UNCHANGED <<log, delayed, handled, buried, abandoned>>
        /\ committed' = committed \/ committed' = Head(commits)
        /\ commits # <<>>
    BY DEF CommitArrives, history
  <1>2. CASE committed' = committed
    BY <1>1, <1>2 DEF Owed, Promise!avars
  <1>3. CASE committed' = Head(commits)
    <2>1. /\ Len(log) \in Nat /\ committed \in 1..(Len(log) + 1)
          /\ committed' \in 1..(Len(log) + 1)
      BY <1>1, <1>3, LenProperties, HeadTailProperties DEF TypeInv, TypeOK
    <2>2. CASE committed' <= committed
      <3>1. committed..Len(log) \subseteq committed'..Len(log)
        BY <2>1, <2>2
      <3>2. Owed' = Owed \cup Owed'
        BY <1>1, <3>1 DEF Owed
      <3>3. Owed' \subseteq Messages
        BY <1>1, <2>1, OwedAreMessages DEF Owed
      <3>4. Promise!Redo(Owed')
        BY <1>1, <3>2 DEF Promise!Redo
      <3> QED
        BY <3>3, <3>4 DEF Promise!Next
    <2>3. CASE committed < committed'
      <3>1. committed'..Len(log) \subseteq committed..Len(log)
        BY <2>1, <2>3
      <3>2. Owed' \subseteq Owed
        BY <1>1, <3>1 DEF Owed
      <3>3. PICK ms : ms = Owed \ Owed'
        OBVIOUS
      <3>4. Owed' = Owed \ ms /\ ms \in SUBSET Messages
        BY <2>1, <3>2, <3>3, OwedAreMessages DEF Owed
      <3>5. ms \subseteq handled \cup buried
        <4>1. Messages \subseteq {log[i].msg : i \in committed'..Len(log)} \cup Ended'
          BY <1>1 DEF CoverInv, Covers
        <4>2. Messages \subseteq Owed' \cup handled \cup buried
          BY <1>1, <4>1 DEF Ended, Owed
        <4> QED
          BY <3>3, <3>4, <4>2
      <3>6. Promise!Discharge(ms)
        BY <1>1, <3>4, <3>5 DEF Promise!Discharge
      <3> QED
        BY <3>4, <3>6 DEF Promise!Next
    <2> QED
      BY <2>1, <2>2, <2>3
  <1> QED
    BY <1>1, <1>2, <1>3

\* A copy that is sent back stays owed: it lies behind every committed offset.
LEMMA ForwardKeepsPromise ==
    ASSUME TypeInv, NEW copy \in delayed, ForwardRetry(copy)
    PROVE  UNCHANGED Promise!avars
  <1>1. copy \in KEntries /\ UNCHANGED <<committed, handled, buried>>
    BY DEF ForwardRetry, history, TypeInv, TypeOK, KEntries
  <1>2. /\ Len(log') = Len(log) + 1 /\ Len(log) \in Nat
        /\ \A i \in 1..Len(log) : log'[i] = log[i]
        /\ log'[Len(log) + 1] = copy
    BY <1>1, Growth DEF ForwardRetry, TypeInv
  <1>3. committed \in 1..(Len(log) + 1)
    BY DEF TypeInv, TypeOK
  <1>4. {log'[i].msg : i \in committed..Len(log')}
           = {log[i].msg : i \in committed..Len(log)} \cup {copy.msg}
    <2>1. committed..Len(log') = committed..Len(log) \cup {Len(log) + 1}
      BY <1>2, <1>3
    <2>2. \A i \in committed..Len(log) : log'[i] = log[i]
      BY <1>2, <1>3
    <2> QED
      BY <1>2, <2>1, <2>2
  <1>5. delayed' = delayed \ {copy}
    BY DEF ForwardRetry
  <1>6. Owed' = Owed
    BY <1>1, <1>4, <1>5 DEF Owed
  <1> QED
    BY <1>1, <1>6 DEF Promise!avars

\* With concurrency = 1 and as long as no task gives up on its message, every
\* step of the consumer, the broker and the faults is one that AtLeastOnce
\* allows, or is not seen in it.
THEOREM SequentialKeepsPromise ==
    ASSUME NEW w, Workers = {w}
    PROVE  Spec => PromiseUnlessAbandoned
  <1>1. Init => TypeInv /\ CoverInv(w)
    BY CoverInit, InitTypes
  <1>2. TypeInv /\ CoverInv(w) /\ [Next]_vars => (TypeInv /\ CoverInv(w))'
    BY CoverInductive
  <1>3. TypeInv /\ CoverInv(w) /\ [Next]_vars
        => [abandoned' = {} => Promise!Next \/ UNCHANGED Promise!avars]_vars
    <2> SUFFICES ASSUME TypeInv, CoverInv(w), Next, abandoned' = {}
                 PROVE  Promise!Next \/ UNCHANGED Promise!avars
      OBVIOUS
    <2>1. CASE TaskStep(w)
      BY <2>1, TaskKeepsPromise
    <2>2. CASE CommitArrives
      <3>1. CoverInv(w)'
        BY <2>2, EnvironmentCover
      <3> QED
        BY <2>2, <3>1, CommitKeepsPromise
    <2>3. CASE \E copy \in delayed : ForwardRetry(copy)
      BY <2>3, ForwardKeepsPromise
    <2>4. CASE Rebalance \/ Crash
      <3>1. UNCHANGED <<log, delayed, committed, handled, buried>>
        BY <2>4 DEF Rebalance, Crash, history
      <3> QED
        BY <3>1 DEF Owed, Promise!avars
    <2> QED
      BY <2>1, <2>2, <2>3, <2>4 DEF Next
  <1> QED
    BY <1>1, <1>2, <1>3, PTL DEF Spec, PromiseUnlessAbandoned

==============================================================================
