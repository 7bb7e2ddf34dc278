------------------------ MODULE ConsumerRuntimeProofs ------------------------
(***************************************************************************)
(* Proofs about ConsumerRuntime and, from "Batches" on, about             *)
(* ConsumerBatch, which works on the same stream with the same operators:  *)
(* for every backlog, number of workers, retry policy, configuration,      *)
(* batch size and bound on the faults.                                     *)
(***************************************************************************)
EXTENDS ConsumerRuntime, ConsumerBatch, FiniteSetTheorems, SequenceTheorems, TLAPS

------------------------------------------------------------------------------
(***************************************************************************)
(* The operators of JetStream: the shape of the log, the message of every  *)
(* entry, and which entries are done                                       *)
(***************************************************************************)

\* The entries other than i are the same, and entry i is still one of the same
\* message.
SameBut(old, new, i) ==
    /\ Len(new) = Len(old)
    /\ DOMAIN new = DOMAIN old
    /\ \A j \in DOMAIN old : /\ new[j].msg = old[j].msg
                             /\ j # i => new[j] = old[j]

\* An entry of a log is an entry (every operator of JetStream reads one).
LEMMA EntryOf ==
    ASSUME NEW M, NEW entries \in Seq(Entries(M)), NEW i \in DOMAIN entries
    PROVE  /\ entries[i] \in Entries(M)
           /\ entries[i].msg \in M /\ entries[i].retries \in Nat
           /\ entries[i].delivered \in 0..MaxDeliver /\ entries[i].st \in EntryStates
           /\ i \in 1..Len(entries)
  <1>1. i \in 1..Len(entries)
    BY LenProperties
  <1>2. entries[i] \in Entries(M)
    BY <1>1, ElementOfSeq
  <1> QED
    BY <1>1, <1>2 DEF Entries

\* Replacing entry i by one of the same message keeps the log a log.
LEMMA ReplaceEntry ==
    ASSUME NEW M, NEW entries \in Seq(Entries(M)), NEW i \in DOMAIN entries,
           NEW e \in Entries(M), e.msg = entries[i].msg,
           NEW new, new = [entries EXCEPT ![i] = e]
    PROVE  new \in Seq(Entries(M)) /\ SameBut(entries, new, i) /\ new[i] = e
  <1>1. /\ Len(entries) \in Nat /\ DOMAIN entries = 1..Len(entries)
        /\ entries \in [1..Len(entries) -> Entries(M)]
    BY LenProperties
  <1>2. new \in [1..Len(entries) -> Entries(M)]
    BY <1>1
  <1>3. new \in Seq(Entries(M))
    BY <1>1, <1>2, SeqDef
  <1>4. Len(new) \in Nat /\ DOMAIN new = 1..Len(new)
    BY <1>3, LenProperties
  <1>5. Len(new) = Len(entries) /\ DOMAIN new = DOMAIN entries
    BY <1>1, <1>2, <1>4
  <1> QED
    BY <1>1, <1>3, <1>5 DEF SameBut

\* Giving entry i another state keeps the log a log.
LEMMA ReplaceState ==
    ASSUME NEW M, NEW entries \in Seq(Entries(M)), NEW i \in DOMAIN entries,
           NEW s \in EntryStates,
           NEW new, new = [entries EXCEPT ![i] = [entries[i] EXCEPT !.st = s]]
    PROVE  new \in Seq(Entries(M)) /\ SameBut(entries, new, i) /\ new[i].st = s
  <1>1. entries[i] \in Entries(M)
    BY EntryOf
  <1> DEFINE e == [entries[i] EXCEPT !.st = s]
  <1>2. e \in Entries(M)
    BY <1>1 DEF Entries
  <1>3. e.msg = entries[i].msg /\ e.st = s
    BY <1>1 DEF Entries
  <1>4. new = [entries EXCEPT ![i] = e]
    OBVIOUS
  <1> HIDE DEF e
  <1>5. new \in Seq(Entries(M)) /\ SameBut(entries, new, i) /\ new[i] = e
    BY <1>2, <1>3, <1>4, ReplaceEntry
  <1> QED
    BY <1>3, <1>5

\* Deliver takes a lease on an entry that was ready (NatsMessageFetcher::fetch).
LEMMA DeliverLemma ==
    ASSUME NEW M, NEW entries \in Seq(Entries(M)), NEW i \in Deliverable(entries)
    PROVE  /\ i \in DOMAIN entries
           /\ Deliver(entries, i) \in Seq(Entries(M))
           /\ SameBut(entries, Deliver(entries, i), i)
           /\ entries[i].st = "ready" /\ Deliver(entries, i)[i].st = "leased"
  <1>1. i \in DOMAIN entries /\ entries[i].st = "ready" /\ entries[i].delivered < MaxDeliver
    BY DEF Deliverable
  <1>2. entries[i].delivered \in 0..MaxDeliver /\ entries[i] \in Entries(M)
    BY <1>1, EntryOf
  <1>3. entries[i].delivered + 1 \in 0..MaxDeliver
    BY <1>1, <1>2, MaxDeliverAssumption
  <1>4. PICK e \in Entries(M) :
          e = [entries[i] EXCEPT !.st = "leased", !.delivered = entries[i].delivered + 1]
    BY <1>2, <1>3 DEF Entries, EntryStates
  <1>5. e.msg = entries[i].msg /\ e.st = "leased"
    BY <1>2, <1>4 DEF Entries
  <1>6. PICK new : new = Deliver(entries, i)
    OBVIOUS
  <1>7. new = [entries EXCEPT ![i] = e]
    BY <1>2, <1>4, <1>6 DEF Deliver, Entries
  <1>8. new \in Seq(Entries(M)) /\ SameBut(entries, new, i) /\ new[i] = e
    BY <1>1, <1>5, <1>7, ReplaceEntry
  <1> QED
    BY <1>1, <1>5, <1>6, <1>8

\* Settle ends an entry for good (ack and term of NatsMessageAck).
LEMMA SettleLemma ==
    ASSUME NEW M, NEW entries \in Seq(Entries(M)), NEW i \in DOMAIN entries
    PROVE  /\ Settle(entries, i) \in Seq(Entries(M))
           /\ SameBut(entries, Settle(entries, i), i)
           /\ Settle(entries, i)[i].st = "done"
  BY ReplaceState DEF Settle, EntryStates

\* Forwarding a retry copy does not end any entry (RetryForwarderHandler).
LEMMA ForwardedLemma ==
    ASSUME NEW M, NEW entries \in Seq(Entries(M)), NEW i \in DOMAIN entries
    PROVE  /\ Forwarded(entries, i) \in Seq(Entries(M))
           /\ SameBut(entries, Forwarded(entries, i), i)
           /\ Forwarded(entries, i)[i].st = "ready"
  BY ReplaceState DEF Forwarded, EntryStates

\* GiveBack never touches an entry that is done (nack, and the end of ack_wait).
LEMMA GiveBackLemma ==
    ASSUME NEW M, NEW entries \in Seq(Entries(M)), NEW i \in DOMAIN entries
    PROVE  /\ GiveBack(entries, i) \in Seq(Entries(M))
           /\ SameBut(entries, GiveBack(entries, i), i)
           /\ entries[i].st = "done" <=> GiveBack(entries, i)[i].st = "done"
  <1>1. CASE entries[i].st = "leased"
    <2>1. GiveBack(entries, i) = Forwarded(entries, i)
      BY <1>1 DEF GiveBack, Forwarded
    <2> QED
      BY <1>1, <2>1, ForwardedLemma
  <1>2. CASE entries[i].st # "leased"
    BY <1>2 DEF GiveBack, SameBut
  <1> QED
    BY <1>1, <1>2

\* Storing a retry copy adds one live entry after all others (publish_retry).
LEMMA AppendLemma ==
    ASSUME NEW M, NEW entries \in Seq(Entries(M)), NEW m \in M, NEW r \in Nat,
           NEW new, new = Append(entries, RetryCopy(m, r))
    PROVE  /\ new \in Seq(Entries(M))
           /\ DOMAIN entries = 1..Len(entries) /\ Len(entries) \in Nat
           /\ DOMAIN new = 1..(Len(entries) + 1)
           /\ \A j \in DOMAIN entries : new[j] = entries[j]
           /\ new[Len(entries) + 1].msg = m /\ new[Len(entries) + 1].st = "delayed"
  <1>1. RetryCopy(m, r) \in Entries(M)
    BY MaxDeliverAssumption DEF RetryCopy, Entries, EntryStates
  <1>2. /\ new \in Seq(Entries(M))
        /\ Len(new) = Len(entries) + 1
        /\ \A j \in 1..Len(entries) : new[j] = entries[j]
        /\ new[Len(entries) + 1] = RetryCopy(m, r)
    BY <1>1, AppendProperties
  <1>3. Len(entries) \in Nat /\ DOMAIN entries = 1..Len(entries) /\ DOMAIN new = 1..Len(new)
    BY <1>2, LenProperties
  <1> QED
    BY <1>2, <1>3 DEF RetryCopy

\* A retry count is a natural number (delivery_attempt_retry_count saturates).
LEMMA RetryCountType ==
    ASSUME NEW M, NEW e \in Entries(M)
    PROVE  RetryCount(e) \in Nat
  BY MaxDeliverAssumption DEF RetryCount, Entries

------------------------------------------------------------------------------
(***************************************************************************)
(* The data                                                                *)
(***************************************************************************)

TasksOK ==
    /\ task \in [Workers -> [stage : Stages, entry : Nat, retries : Nat]]
    /\ \A w \in Workers : IF task[w].stage = "idle" THEN task[w] = NoTask
                                                  ELSE task[w].entry \in DOMAIN log

\* The task of a busy worker has an entry, and so a message (CheckDuplicate and
\* all later stages of process_message read it).
LEMMA BusyTask ==
    ASSUME DataOK, NEW w \in Workers, task[w].stage # "idle"
    PROVE  /\ task[w].entry \in DOMAIN log
           /\ Message(w) \in Messages
           /\ task[w].retries \in Nat
           /\ task[w].entry \in Nat
  <1>1. task[w].entry \in DOMAIN log
    BY DEF DataOK
  <1> QED
    BY <1>1, EntryOf DEF DataOK, Message

\* A task that moves on keeps its entry (no stage of process_message changes the
\* message it works on).
LEMMA AdvanceTasks ==
    ASSUME DataOK, NEW w \in Workers, task[w].stage # "idle",
           NEW s \in Stages \ {"idle"}, Advance(w, s),
           DOMAIN log \subseteq DOMAIN log'
    PROVE  TasksOK'
  <1>1. task[w].entry \in DOMAIN log
    BY BusyTask
  <1>2. task' = [task EXCEPT ![w].stage = s]
    BY DEF Advance
  <1>3. task' \in [Workers -> [stage : Stages, entry : Nat, retries : Nat]]
    BY <1>2 DEF DataOK
  <1>4. /\ task'[w].stage = s /\ task'[w].entry = task[w].entry
        /\ \A v \in Workers : v # w => task'[v] = task[v]
    BY <1>2 DEF DataOK
  <1>5. ASSUME NEW v \in Workers
        PROVE  IF task'[v].stage = "idle" THEN task'[v] = NoTask
                                          ELSE task'[v].entry \in DOMAIN log'
    BY <1>1, <1>4 DEF DataOK
  <1> QED
    BY <1>3, <1>5 DEF TasksOK

\* A task that ends leaves no task.
LEMMA FinishTasks ==
    ASSUME DataOK, NEW w \in Workers, Finish(w),
           DOMAIN log \subseteq DOMAIN log'
    PROVE  TasksOK'
  <1>1. task' = [task EXCEPT ![w] = NoTask]
    BY DEF Finish
  <1>2. NoTask \in [stage : Stages, entry : Nat, retries : Nat]
    BY DEF NoTask, Stages
  <1>3. task' \in [Workers -> [stage : Stages, entry : Nat, retries : Nat]]
    BY <1>1, <1>2 DEF DataOK
  <1>4. task'[w] = NoTask /\ \A v \in Workers : v # w => task'[v] = task[v]
    BY <1>1 DEF DataOK
  <1>5. ASSUME NEW v \in Workers
        PROVE  IF task'[v].stage = "idle" THEN task'[v] = NoTask
                                          ELSE task'[v].entry \in DOMAIN log'
    <2>1. CASE v = w
      BY <1>4, <2>1 DEF NoTask
    <2>2. CASE v # w
      <3>1. task'[v] = task[v]
        BY <1>4, <2>2
      <3>2. task[v].stage # "idle" => task[v].entry \in DOMAIN log
        BY DEF DataOK
      <3> QED
        BY <3>1, <3>2 DEF DataOK
    <2> QED
      BY <2>1, <2>2
  <1> QED
    BY <1>3, <1>5 DEF TasksOK

\* apply_failure_action takes one of the three ways on, or ends the task.
LEMMA RejectCases ==
    ASSUME NEW w, NEW verdict, Reject(w, verdict)
    PROVE  \/ \E s \in {"publish", "bury", "nack"} : Advance(w, s)
           \/ Finish(w)
  BY DEF Reject

\* The program starts with a well-formed log and no task.
LEMMA DataInit == Init => DataOK
  <1> SUFFICES ASSUME Init PROVE DataOK
    OBVIOUS
  <1>1. log \in Seq(Entries(Messages))
    <2>1. Backlog \in [1..Len(Backlog) -> Messages] /\ Len(Backlog) \in Nat
      BY ConsumerAssumption, LenProperties
    <2>2. \A m \in Messages : Fresh(m) \in Entries(Messages)
      BY MaxDeliverAssumption DEF Fresh, Entries, EntryStates
    <2>3. log \in [1..Len(Backlog) -> Entries(Messages)]
      BY <2>1, <2>2 DEF Init
    <2> QED
      BY <2>1, <2>3, SeqDef
  <1>2. TasksOK
    BY DEF Init, TasksOK, NoTask, Stages
  <1>3. faults \in 0..MaxFaults
    BY ConsumerAssumption DEF Init
  <1> QED
    BY <1>1, <1>2, <1>3 DEF Init, DataOK, TasksOK, LoopStates

\* The other conjuncts of DataOK, for the steps below to name.
LogOK == log \in Seq(Entries(Messages))
RestOK ==
    /\ loop \in LoopStates
    /\ signalled \in BOOLEAN
    /\ consumed \subseteq Messages
    /\ faults \in 0..MaxFaults
    /\ runs \in [Messages -> Nat]
    /\ accepted \in [Messages -> Nat]
    /\ unrecorded \in [Messages -> Nat]
    /\ buried \subseteq Messages

LEMMA DataParts == DataOK <=> LogOK /\ TasksOK /\ RestOK
  BY DEF DataOK, LogOK, TasksOK, RestOK

\* A fault stays within the bound.
LEMMA FaultBound ==
    ASSUME faults \in 0..MaxFaults, Fault
    PROVE  faults' \in 0..MaxFaults
  BY ConsumerAssumption DEF Fault

\* A spawned task has the entry that was delivered (FetchMessage).
LEMMA SpawnTasks ==
    ASSUME DataOK, NEW w \in Workers, FetchMessage(w)
    PROVE  LogOK' /\ TasksOK'
  <1>1. PICK i \in Deliverable(log) :
          /\ log' = Deliver(log, i)
          /\ task' = [task EXCEPT ![w] = [stage |-> "spawned", entry |-> i,
                                         retries |-> RetryCount(log'[i])]]
    BY DEF FetchMessage
  <1>2. /\ i \in DOMAIN log /\ log' \in Seq(Entries(Messages))
        /\ DOMAIN log' = DOMAIN log
    BY <1>1, DeliverLemma DEF DataOK, SameBut
  <1>3. RetryCount(log'[i]) \in Nat /\ i \in Nat
    <2>1. log'[i] \in Entries(Messages) /\ i \in Nat
      BY <1>2, EntryOf
    <2> QED
      BY <2>1, RetryCountType
  <1>4. PICK r \in Nat :
          task' = [task EXCEPT ![w] = [stage |-> "spawned", entry |-> i, retries |-> r]]
    BY <1>1, <1>3
  <1>5. task' \in [Workers -> [stage : Stages, entry : Nat, retries : Nat]]
    BY <1>3, <1>4 DEF DataOK, Stages
  <1>6. /\ task'[w].stage = "spawned" /\ task'[w].entry = i
        /\ \A v \in Workers : v # w => task'[v] = task[v]
    BY <1>4 DEF DataOK
  <1>7. \A v \in Workers : IF task'[v].stage = "idle" THEN task'[v] = NoTask
                                                    ELSE task'[v].entry \in DOMAIN log'
    BY <1>2, <1>6 DEF DataOK
  <1> QED
    BY <1>2, <1>5, <1>7 DEF LogOK, TasksOK

\* A crash counts finitely many unrecorded acceptances.
LEMMA CrashCount ==
    ASSUME DataOK, Crash
    PROVE  unrecorded' \in [Messages -> Nat]
  <1> DEFINE lost(m) == {w \in Workers : task[w].stage = "record" /\ Message(w) = m}
  <1>1. ASSUME NEW m \in Messages
        PROVE  Cardinality(lost(m)) \in Nat
    <2>1. IsFiniteSet(lost(m))
      BY ConsumerAssumption, FS_Subset
    <2> QED
      BY <2>1, FS_CardinalityType
  <1>2. unrecorded' = [m \in Messages |->
                         unrecorded[m] + Cardinality(lost(m))
                         + IF m \in consumed /\ ~DurableStore THEN 1 ELSE 0]
    BY DEF Crash
  <1> HIDE DEF lost
  <1> QED
    BY <1>1, <1>2 DEF DataOK

\* The steps of the fetch loop keep the data well-formed.
LEMMA DataLoopStep ==
    ASSUME DataOK, LoopStep
    PROVE  DataOK'
  <1>1. LogOK /\ TasksOK /\ RestOK
    BY DataParts
  <1>2. CASE AcquireSlot
    BY <1>1, <1>2 DEF DataOK, AcquireSlot, LogOK, TasksOK, RestOK, LoopStates, history
  <1>3. CASE StopFetching
    <2>1. LogOK' /\ DOMAIN log' = DOMAIN log
      BY <1>1, <1>3, DeliverLemma DEF StopFetching, LogOK, SameBut
    <2> QED
      BY <1>1, <1>3, <2>1 DEF DataOK, StopFetching, TasksOK, RestOK, LoopStates, history, LogOK
  <1>4. CASE \E w \in Workers : FetchMessage(w)
    <2>1. LogOK' /\ TasksOK'
      BY <1>4, SpawnTasks
    <2> QED
      BY <1>1, <1>4, <2>1 DEF DataOK, FetchMessage, RestOK, LoopStates, history, LogOK, TasksOK
  <1>5. CASE FetchNothing
    BY <1>1, <1>5 DEF DataOK, FetchNothing, LogOK, TasksOK, RestOK, LoopStates, history
  <1>6. CASE FetchError
    <2>1. faults' \in 0..MaxFaults
      BY <1>1, <1>6, FaultBound DEF FetchError, RestOK
    <2> QED
      BY <1>1, <1>6, <2>1 DEF DataOK, FetchError, LogOK, TasksOK, RestOK, LoopStates, history
  <1>7. CASE Wake
    BY <1>1, <1>7 DEF DataOK, Wake, LogOK, TasksOK, RestOK, LoopStates, history
  <1>8. CASE JoinAll
    BY <1>1, <1>8 DEF DataOK, JoinAll, LogOK, TasksOK, RestOK, LoopStates, history
  <1> QED
    BY <1>2, <1>3, <1>4, <1>5, <1>6, <1>7, <1>8 DEF LoopStep, RunStep

\* The steps of a message task keep the data well-formed.
LEMMA DataTaskStep ==
    ASSUME DataOK, NEW w \in Workers, TaskStep(w)
    PROVE  DataOK'
  <1>1. LogOK /\ TasksOK /\ RestOK
    BY DataParts
  <1>2. ASSUME task[w].stage # "idle"
        PROVE  Message(w) \in Messages /\ task[w].entry \in DOMAIN log /\ task[w].retries \in Nat
    BY <1>2, BusyTask
  <1>3. ASSUME \/ \E s \in Stages \ {"idle"} : Advance(w, s)
               \/ Finish(w),
               task[w].stage # "idle",
               DOMAIN log \subseteq DOMAIN log'
        PROVE  TasksOK'
    BY <1>3, AdvanceTasks, FinishTasks
  <1>4. CASE QueueForKey(w)
    <2>1. task[w].stage # "idle" /\ task' = [task EXCEPT ![w].stage = "locking"]
      BY <1>4 DEF QueueForKey
    <2>2. UNCHANGED log
      BY <1>4 DEF QueueForKey
    <2>3. task' \in [Workers -> [stage : Stages, entry : Nat, retries : Nat]]
      BY <1>1, <2>1 DEF TasksOK, Stages
    <2>4. /\ task'[w].stage = "locking" /\ task'[w].entry = task[w].entry
          /\ \A v \in Workers : v # w => task'[v] = task[v]
      BY <1>1, <2>1 DEF TasksOK
    <2>5. TasksOK'
      BY <1>1, <1>2, <2>1, <2>2, <2>3, <2>4 DEF TasksOK
    <2> QED
      BY <1>1, <1>4, <2>2, <2>5 DEF DataOK, QueueForKey, LogOK, RestOK, history, TasksOK
  <1>5. CASE CheckDuplicate(w)
    <2>1. task[w].stage # "idle" /\ UNCHANGED log
      BY <1>5 DEF CheckDuplicate, HasTurn
    <2>2. \/ \E s \in Stages \ {"idle"} : Advance(w, s)
          \/ Finish(w)
      BY <1>5 DEF CheckDuplicate, Stages
    <2>3. TasksOK'
      BY <1>3, <2>1, <2>2
    <2>4. faults' \in 0..MaxFaults
      BY <1>1, <1>5, FaultBound DEF CheckDuplicate, RestOK
    <2> QED
      BY <1>1, <1>5, <2>1, <2>3, <2>4 DEF DataOK, CheckDuplicate, LogOK, RestOK, history, TasksOK
  <1>6. CASE HandlerReturns(w)
    <2>1. task[w].stage # "idle" /\ UNCHANGED log
      BY <1>6 DEF HandlerReturns
    <2>2. PICK verdict \in Verdicts :
            IF verdict = "Ack" THEN Accept(w) ELSE Reject(w, verdict)
      BY <1>6 DEF HandlerReturns
    <2>3. \/ \E s \in Stages \ {"idle"} : Advance(w, s)
          \/ Finish(w)
      BY <2>2, RejectCases DEF Accept, Stages
    <2>4. TasksOK'
      BY <1>3, <2>1, <2>3
    <2>5. accepted' \in [Messages -> Nat]
      BY <1>1, <1>2, <2>1, <2>2 DEF RestOK, Accept, Reject
    <2>6. runs' \in [Messages -> Nat]
      BY <1>1, <1>2, <1>6, <2>1 DEF RestOK, HandlerReturns
    <2> QED
      BY <1>1, <1>6, <2>1, <2>4, <2>5, <2>6 DEF DataOK, HandlerReturns, LogOK, RestOK, TasksOK
  <1>7. CASE HandlerPanics(w)
    <2>1. task[w].stage # "idle" /\ UNCHANGED log /\ Finish(w)
      BY <1>7 DEF HandlerPanics
    <2>2. TasksOK'
      BY <1>3, <2>1
    <2>3. faults' \in 0..MaxFaults
      BY <1>1, <1>7, FaultBound DEF HandlerPanics, RestOK
    <2> QED
      BY <1>1, <1>7, <2>1, <2>2, <2>3 DEF DataOK, HandlerPanics, LogOK, RestOK, history, TasksOK
  <1>8. CASE RecordConsumed(w)
    <2>1. task[w].stage # "idle" /\ UNCHANGED log
      BY <1>8 DEF RecordConsumed
    <2>2. \/ \E s \in Stages \ {"idle"} : Advance(w, s)
          \/ Finish(w)
      BY <1>8 DEF RecordConsumed, Stages
    <2>3. TasksOK'
      BY <1>3, <2>1, <2>2
    <2>4. faults' \in 0..MaxFaults
      BY <1>1, <1>8, FaultBound DEF RecordConsumed, RestOK
    <2>5. unrecorded' \in [Messages -> Nat] /\ consumed' \subseteq Messages
      BY <1>1, <1>2, <1>8, <2>1 DEF RestOK, RecordConsumed
    <2> QED
      BY <1>1, <1>8, <2>1, <2>3, <2>4, <2>5 DEF DataOK, RecordConsumed, LogOK, RestOK, TasksOK
  <1>9. CASE SettleMessage(w)
    <2>1. task[w].stage # "idle" /\ Finish(w)
      BY <1>9 DEF SettleMessage
    <2>2. LogOK' /\ DOMAIN log' = DOMAIN log
      BY <1>1, <1>2, <1>9, <2>1, SettleLemma DEF SettleMessage, LogOK, SameBut
    <2>3. TasksOK'
      BY <1>3, <2>1, <2>2
    <2>4. faults' \in 0..MaxFaults
      BY <1>1, <1>9, FaultBound DEF SettleMessage, RestOK
    <2> QED
      BY <1>1, <1>9, <2>2, <2>3, <2>4 DEF DataOK, SettleMessage, RestOK, history, LogOK, TasksOK
  <1>10. CASE PublishRetry(w)
    <2>1. task[w].stage # "idle"
      BY <1>10 DEF PublishRetry
    <2>2. \/ \E s \in Stages \ {"idle"} : Advance(w, s)
          \/ Finish(w)
      BY <1>10 DEF PublishRetry, Stages
    <2>3. log' = log \/ log' = Append(log, RetryCopy(Message(w), task[w].retries + 1))
      BY <1>10 DEF PublishRetry
    <2>4. LogOK' /\ DOMAIN log \subseteq DOMAIN log'
      <3>1. task[w].retries + 1 \in Nat /\ Message(w) \in Messages
        BY <1>2, <2>1
      <3>2. ASSUME log' = Append(log, RetryCopy(Message(w), task[w].retries + 1))
            PROVE  LogOK' /\ DOMAIN log \subseteq DOMAIN log'
        BY <1>1, <3>1, <3>2, AppendLemma DEF LogOK
      <3> QED
        BY <1>1, <2>3, <3>2 DEF LogOK
    <2>5. TasksOK'
      BY <1>3, <2>1, <2>2, <2>4
    <2>6. faults' \in 0..MaxFaults
      BY <1>1, <1>10, FaultBound DEF PublishRetry, RestOK
    <2> QED
      BY <1>1, <1>10, <2>4, <2>5, <2>6 DEF DataOK, PublishRetry, RestOK, history, LogOK, TasksOK
  <1>11. CASE PublishDeadLetter(w)
    <2>1. task[w].stage # "idle" /\ UNCHANGED log
      BY <1>11 DEF PublishDeadLetter
    <2>2. \/ \E s \in Stages \ {"idle"} : Advance(w, s)
          \/ Finish(w)
      BY <1>11 DEF PublishDeadLetter, Stages
    <2>3. TasksOK'
      BY <1>3, <2>1, <2>2
    <2>4. faults' \in 0..MaxFaults
      BY <1>1, <1>11, FaultBound DEF PublishDeadLetter, RestOK
    <2>5. buried' \subseteq Messages
      BY <1>1, <1>2, <1>11, <2>1 DEF RestOK, PublishDeadLetter
    <2> QED
      BY <1>1, <1>11, <2>1, <2>3, <2>4, <2>5 DEF DataOK, PublishDeadLetter, LogOK, RestOK, TasksOK
  <1>12. CASE Nack(w)
    <2>1. task[w].stage # "idle" /\ Finish(w)
      BY <1>12 DEF Nack
    <2>2. LogOK' /\ DOMAIN log' = DOMAIN log
      BY <1>1, <1>2, <1>12, <2>1, GiveBackLemma DEF Nack, LogOK, SameBut
    <2>3. TasksOK'
      BY <1>3, <2>1, <2>2
    <2>4. faults' \in 0..MaxFaults
      BY <1>1, <1>12, FaultBound DEF Nack, RestOK
    <2> QED
      BY <1>1, <1>12, <2>2, <2>3, <2>4 DEF DataOK, Nack, RestOK, history, LogOK, TasksOK
  <1> QED
    BY <1>4, <1>5, <1>6, <1>7, <1>8, <1>9, <1>10, <1>11, <1>12 DEF TaskStep

\* Every step keeps the data well-formed.
LEMMA DataNext == DataOK /\ [Next]_vars => DataOK'
  <1> SUFFICES ASSUME DataOK, [Next]_vars PROVE DataOK'
    OBVIOUS
  <1>1. LogOK /\ TasksOK /\ RestOK
    BY DataParts
  <1>2. CASE SendShutdown
    BY <1>1, <1>2 DEF DataOK, SendShutdown, LogOK, TasksOK, RestOK, history
  <1>3. CASE LoopStep
    BY <1>3, DataLoopStep
  <1>4. CASE \E w \in Workers : TaskStep(w)
    BY <1>4, DataTaskStep
  <1>5. CASE BrokerStep
    <2>1. PICK i \in DOMAIN log : LeaseExpires(i) \/ ForwardRetry(i)
      BY <1>5 DEF BrokerStep
    <2>2. LogOK' /\ DOMAIN log' = DOMAIN log
      BY <1>1, <2>1, GiveBackLemma, ForwardedLemma
      DEF LeaseExpires, ForwardRetry, LogOK, SameBut
    <2>3. faults' \in 0..MaxFaults
      BY <1>1, <2>1, FaultBound DEF LeaseExpires, ForwardRetry, RestOK
    <2> QED
      BY <1>1, <2>1, <2>2, <2>3
      DEF DataOK, LeaseExpires, ForwardRetry, LogOK, TasksOK, RestOK, history
  <1>6. CASE Crash
    <2>1. unrecorded' \in [Messages -> Nat]
      BY <1>6, CrashCount
    <2>2. faults' \in 0..MaxFaults
      BY <1>1, <1>6, FaultBound DEF Crash, RestOK
    <2>3. TasksOK'
      BY <1>6 DEF Crash, TasksOK, NoTask, Stages
    <2> QED
      BY <1>1, <1>6, <2>1, <2>2, <2>3
      DEF DataOK, Crash, LogOK, TasksOK, RestOK, LoopStates
  <1>7. CASE UNCHANGED vars
    BY <1>1, <1>7 DEF DataOK, LogOK, TasksOK, RestOK, vars, history
  <1> QED
    BY <1>2, <1>3, <1>4, <1>5, <1>6, <1>7 DEF Next, Stopped

\* In every run of the consumer the log, the tasks, the store and the counters
\* are well-formed, and every task works on an entry of the log.
THEOREM DataCorrect == Spec => []DataOK
  <1> QED
    BY DataInit, DataNext, PTL DEF Spec

------------------------------------------------------------------------------
(***************************************************************************)
(* Nothing is lost.  NothingLost is not inductive: settling an entry is    *)
(* safe only because of what its task did before.  A task that is about to *)
(* settle its entry has already discharged the message: a handler accepted *)
(* it, it is buried, or a live copy of it lies further on in the log.      *)
(* "Further on" matters: with "elsewhere" two copies could each be settled *)
(* on the strength of the other.                                           *)
(***************************************************************************)

LaterCopy(m, i) == \E j \in DOMAIN log : j > i /\ log[j].msg = m /\ log[j].st # "done"

Discharged(m, i) == accepted[m] > 0 \/ m \in buried \/ LaterCopy(m, i)

AnsweredStages == {"ack", "ackRetry", "term"}

LossInv ==
    /\ \A m \in Messages : Discharged(m, 0)
    /\ \A w \in Workers :
         task[w].stage \in AnsweredStages => Discharged(Message(w), task[w].entry)
    /\ \A w \in Workers : task[w].stage = "record" => accepted[Message(w)] > 0
    /\ \A m \in consumed : accepted[m] > 0

\* what a step leaves of the log, and of the evidence that a message is settled
LogKept == /\ DOMAIN log \subseteq DOMAIN log'
           /\ \A j \in DOMAIN log : log'[j].msg = log[j].msg
NoneDone == \A j \in DOMAIN log : log[j].st # "done" => log'[j].st # "done"
EvidenceKept == /\ \A m \in Messages : accepted[m] > 0 => accepted'[m] > 0
                /\ buried \subseteq buried'
Kept == \A m \in Messages, i \in Nat : Discharged(m, i) => Discharged(m, i)'

\* At the start every message is in the log (the stream holds the backlog).
LEMMA LossInit == Init => LossInv
  <1> SUFFICES ASSUME Init PROVE LossInv
    OBVIOUS
  <1>1. ASSUME NEW m \in Messages PROVE LaterCopy(m, 0)
    <2>1. PICK i \in DOMAIN Backlog : m = Backlog[i]
      BY DEF Messages
    <2>2. DOMAIN Backlog = 1..Len(Backlog) /\ Len(Backlog) \in Nat
      BY ConsumerAssumption, LenProperties
    <2>3. i \in DOMAIN log /\ log[i] = Fresh(m) /\ i > 0
      BY <2>1, <2>2 DEF Init
    <2> QED
      BY <2>3 DEF LaterCopy, Fresh
  <1> QED
    BY <1>1 DEF Init, LossInv, Discharged, NoTask, AnsweredStages

\* A new state of one entry keeps the log and ends no other entry.
LEMMA OneEntryKept ==
    ASSUME NEW i \in DOMAIN log, SameBut(log, log', i)
    PROVE  LogKept /\ ((log[i].st # "done" => log'[i].st # "done") => NoneDone)
  BY DEF LogKept, NoneDone, SameBut

\* Of all steps only an acknowledgement or a term ends an entry.
LEMMA LogStep ==
    ASSUME DataOK, [Next]_vars
    PROVE  /\ LogKept
           /\ \/ NoneDone
              \/ \E w \in Workers : SettleMessage(w) /\ log' = Settle(log, task[w].entry)
  <1>1. log \in Seq(Entries(Messages))
    BY DEF DataOK
  <1>2. ASSUME UNCHANGED log
        PROVE  LogKept /\ NoneDone
    BY <1>2 DEF LogKept, NoneDone
  <1>3. ASSUME NEW i \in Deliverable(log), log' = Deliver(log, i)
        PROVE  LogKept /\ NoneDone
    <2>1. i \in DOMAIN log /\ SameBut(log, log', i)
      BY <1>1, <1>3, DeliverLemma
    <2>2. log[i].st # "done" => log'[i].st # "done"
      BY <1>1, <1>3, DeliverLemma
    <2> QED
      BY <2>1, <2>2, OneEntryKept
  <1>4. ASSUME NEW i \in DOMAIN log, log' = GiveBack(log, i)
        PROVE  LogKept /\ NoneDone
    <2>1. i \in DOMAIN log /\ SameBut(log, log', i)
      BY <1>1, <1>4, GiveBackLemma
    <2>2. log[i].st # "done" => log'[i].st # "done"
      BY <1>1, <1>4, GiveBackLemma
    <2> QED
      BY <2>1, <2>2, OneEntryKept
  <1>5. ASSUME NEW i \in DOMAIN log, log' = Forwarded(log, i)
        PROVE  LogKept /\ NoneDone
    <2>1. i \in DOMAIN log /\ SameBut(log, log', i)
      BY <1>1, <1>5, ForwardedLemma
    <2>2. log[i].st # "done" => log'[i].st # "done"
      BY <1>1, <1>5, ForwardedLemma
    <2> QED
      BY <2>1, <2>2, OneEntryKept
  <1>6. ASSUME NEW w \in Workers, SettleMessage(w)
        PROVE  LogKept /\ (NoneDone \/ log' = Settle(log, task[w].entry))
    <2>1. task[w].entry \in DOMAIN log
      BY <1>6, BusyTask DEF SettleMessage
    <2>2. log' = log \/ log' = Settle(log, task[w].entry)
      BY <1>6 DEF SettleMessage
    <2> QED
      BY <1>1, <1>2, <2>1, <2>2, SettleLemma DEF LogKept, NoneDone, SameBut
  <1>7. ASSUME NEW w \in Workers, PublishRetry(w)
        PROVE  LogKept /\ NoneDone
    <2>1. task[w].retries + 1 \in Nat /\ Message(w) \in Messages
      BY <1>7, BusyTask DEF PublishRetry
    <2>2. \/ log' = log
          \/ log' = Append(log, RetryCopy(Message(w), task[w].retries + 1))
      BY <1>7 DEF PublishRetry
    <2>3. ASSUME log' = Append(log, RetryCopy(Message(w), task[w].retries + 1))
          PROVE  LogKept /\ NoneDone
      BY <1>1, <2>1, <2>3, AppendLemma DEF LogKept, NoneDone
    <2> QED
      BY <1>2, <2>2, <2>3 DEF LogKept, NoneDone
  <1>8. ASSUME NEW w \in Workers, Nack(w)
        PROVE  LogKept /\ NoneDone
    <2>1. task[w].entry \in DOMAIN log
      BY <1>8, BusyTask DEF Nack
    <2> QED
      BY <1>4, <1>8, <2>1 DEF Nack, LogKept, NoneDone
  <1>9. CASE SendShutdown \/ Crash \/ UNCHANGED vars
    BY <1>2, <1>9 DEF SendShutdown, Crash, vars
  <1>10. CASE LoopStep
    BY <1>2, <1>3, <1>10
    DEF LoopStep, RunStep, AcquireSlot, StopFetching, FetchNothing, FetchError, Wake, JoinAll,
        FetchMessage
  <1>11. ASSUME NEW w \in Workers, TaskStep(w)
         PROVE  /\ LogKept
                /\ NoneDone \/ (SettleMessage(w) /\ log' = Settle(log, task[w].entry))
    <2>1. CASE \/ QueueForKey(w) \/ CheckDuplicate(w) \/ HandlerReturns(w)
               \/ HandlerPanics(w) \/ RecordConsumed(w) \/ PublishDeadLetter(w)
      <3>1. UNCHANGED log
        BY <2>1 DEF QueueForKey, CheckDuplicate, HandlerReturns, HandlerPanics,
                    RecordConsumed, PublishDeadLetter
      <3> QED
        BY <1>2, <3>1
    <2>2. CASE SettleMessage(w)
      BY <1>6, <2>2
    <2>3. CASE PublishRetry(w)
      BY <1>7, <2>3
    <2>4. CASE Nack(w)
      BY <1>8, <2>4
    <2> QED
      BY <1>11, <2>1, <2>2, <2>3, <2>4 DEF TaskStep
  <1>12. CASE BrokerStep
    BY <1>4, <1>5, <1>12 DEF BrokerStep, LeaseExpires, ForwardRetry
  <1> QED
    BY <1>9, <1>10, <1>11, <1>12 DEF Next, Stopped

\* No step takes back that a message was accepted or buried.
LEMMA EvidenceStep ==
    ASSUME DataOK, [Next]_vars
    PROVE  EvidenceKept
  <1>1. CASE UNCHANGED <<accepted, buried>>
    BY <1>1 DEF EvidenceKept
  <1>2. ASSUME NEW w \in Workers, HandlerReturns(w)
        PROVE  EvidenceKept
    <2>1. Message(w) \in Messages
      BY <1>2, BusyTask DEF HandlerReturns
    <2>2. \/ accepted' = accepted
          \/ accepted' = [accepted EXCEPT ![Message(w)] = @ + 1]
      BY <1>2 DEF HandlerReturns, Accept, Reject
    <2>3. accepted \in [Messages -> Nat]
      BY DEF DataOK
    <2>4. ASSUME NEW m \in Messages, accepted[m] > 0
          PROVE  accepted'[m] > 0
      <3>1. CASE m = Message(w) /\ accepted' # accepted
        <4>1. accepted'[m] = accepted[m] + 1
          BY <2>2, <2>3, <3>1
        <4> QED
          BY <2>3, <2>4, <4>1
      <3>2. CASE m # Message(w) \/ accepted' = accepted
        BY <2>2, <2>3, <2>4, <3>2
      <3> QED
        BY <3>1, <3>2
    <2> QED
      BY <1>2, <2>4 DEF EvidenceKept, HandlerReturns
  <1>3. ASSUME NEW w \in Workers, PublishDeadLetter(w)
        PROVE  EvidenceKept
    BY <1>3 DEF EvidenceKept, PublishDeadLetter
  <1>4. ASSUME NEW w \in Workers, TaskStep(w)
        PROVE  EvidenceKept
    BY <1>1, <1>2, <1>3, <1>4
    DEF TaskStep, QueueForKey, CheckDuplicate, HandlerPanics, RecordConsumed,
        SettleMessage, PublishRetry, Nack, history
  <1>5. CASE SendShutdown \/ Crash \/ UNCHANGED vars
    BY <1>1, <1>5 DEF SendShutdown, Crash, vars, history
  <1>6. CASE LoopStep
    BY <1>1, <1>6
    DEF LoopStep, RunStep, AcquireSlot, StopFetching, FetchNothing, FetchError, Wake, JoinAll,
        FetchMessage, history
  <1>7. CASE BrokerStep
    BY <1>1, <1>7 DEF BrokerStep, LeaseExpires, ForwardRetry, history
  <1> QED
    BY <1>4, <1>5, <1>6, <1>7 DEF Next, Stopped

\* What was discharged stays discharged, settling included: the entry that is
\* settled was itself discharged by something further on.
LEMMA StepKeeps ==
    ASSUME DataOK, LossInv, [Next]_vars
    PROVE  LogKept /\ EvidenceKept /\ Kept
  <1>1. LogKept /\ EvidenceKept
    BY LogStep, EvidenceStep
  <1>2. CASE NoneDone
    BY <1>1, <1>2 DEF LogKept, NoneDone, EvidenceKept, Kept, Discharged, LaterCopy
  <1>3. ASSUME NEW w \in Workers, SettleMessage(w), log' = Settle(log, task[w].entry)
        PROVE  Kept
    <2> DEFINE e == task[w].entry
    <2>1. e \in DOMAIN log /\ e \in Nat
      BY <1>3, BusyTask DEF SettleMessage
    <2>2. Discharged(log[e].msg, e)
      BY <1>3 DEF SettleMessage, LossInv, AnsweredStages, Message
    <2>3. SameBut(log, log', e) /\ log \in Seq(Entries(Messages))
      BY <1>3, <2>1, SettleLemma DEF DataOK
    <2>4. SUFFICES ASSUME NEW m \in Messages, NEW i \in Nat, Discharged(m, i)
                   PROVE  Discharged(m, i)'
      BY DEF Kept
    <2>5. ASSUME NEW j \in DOMAIN log, j # e, j > i, log[j].msg = m, log[j].st # "done"
          PROVE  LaterCopy(m, i)'
      BY <2>3, <2>5 DEF SameBut, LaterCopy
    <2>6. CASE accepted[m] > 0 \/ m \in buried
      BY <1>1, <2>6 DEF EvidenceKept, Discharged
    <2>7. CASE LaterCopy(m, i)
      <3>1. PICK j \in DOMAIN log : j > i /\ log[j].msg = m /\ log[j].st # "done"
        BY <2>7 DEF LaterCopy
      <3>2. CASE j # e
        BY <2>5, <3>1, <3>2 DEF Discharged
      <3>3. CASE j = e
        <4>1. Discharged(m, e) /\ e > i
          BY <2>2, <3>1, <3>3
        <4>2. CASE LaterCopy(m, e)
          <5>1. PICK k \in DOMAIN log : k > e /\ log[k].msg = m /\ log[k].st # "done"
            BY <4>2 DEF LaterCopy
          <5>2. k \in Nat
            BY <2>3, EntryOf
          <5>3. k # e /\ k > i
            BY <2>1, <4>1, <5>1, <5>2
          <5> QED
            BY <2>5, <5>1, <5>3 DEF Discharged
        <4> QED
          BY <2>6, <4>1, <4>2 DEF Discharged
      <3> QED
        BY <3>2, <3>3
    <2> QED
      BY <2>4, <2>6, <2>7 DEF Discharged
  <1> QED
    BY <1>1, <1>2, <1>3, LogStep


\* A task moves in its own steps only, and keeps its entry while it runs.
LEMMA TaskMoves ==
    ASSUME DataOK, [Next]_vars, NEW v \in Workers,
           task'[v].stage \in AnsweredStages \cup {"record"}
    PROVE  \/ task'[v] = task[v]
           \/ TaskStep(v) /\ task'[v].entry = task[v].entry /\ task[v].stage # "idle"
  <1>1. task \in [Workers -> [stage : Stages, entry : Nat, retries : Nat]]
    BY DEF DataOK
  <1>2. CASE UNCHANGED task
    BY <1>2
  <1>3. ASSUME NEW w \in Workers, NEW s, Advance(w, s)
        PROVE  \/ task'[v] = task[v]
               \/ v = w /\ task'[v].entry = task[v].entry
    BY <1>1, <1>3 DEF Advance
  <1>4. ASSUME NEW w \in Workers, Finish(w)
        PROVE  task'[v] = task[v]
    BY <1>1, <1>4 DEF Finish, NoTask, AnsweredStages
  <1>5. ASSUME NEW w \in Workers, TaskStep(w)
        PROVE  \/ task'[v] = task[v]
               \/ v = w /\ task'[v].entry = task[v].entry
    <2>1. CASE QueueForKey(w)
      BY <1>1, <2>1 DEF QueueForKey
    <2>2. CASE ~QueueForKey(w)
      <3>1. Finish(w) \/ \E s \in Stages : Advance(w, s)
        <4>1. CASE HandlerReturns(w)
          BY <4>1, RejectCases DEF HandlerReturns, Accept, Stages
        <4>2. CASE CheckDuplicate(w) \/ HandlerPanics(w) \/ RecordConsumed(w)
          BY <4>2 DEF CheckDuplicate, HandlerPanics, RecordConsumed, Stages
        <4>3. CASE \/ SettleMessage(w) \/ PublishRetry(w)
                   \/ PublishDeadLetter(w) \/ Nack(w)
          BY <4>3 DEF SettleMessage, PublishRetry, PublishDeadLetter, Nack, Stages
        <4> QED
          BY <1>5, <2>2, <4>1, <4>2, <4>3 DEF TaskStep
      <3> QED
        BY <1>3, <1>4, <3>1
    <2> QED
      BY <2>1, <2>2
  <1>6. ASSUME NEW w \in Workers, TaskStep(w)
        PROVE  task[w].stage # "idle"
    BY <1>6 DEF TaskStep, QueueForKey, CheckDuplicate, HasTurn, HandlerReturns,
                HandlerPanics, RecordConsumed, SettleMessage, PublishRetry,
                PublishDeadLetter, Nack
  <1>7. ASSUME NEW w \in Workers, FetchMessage(w)
        PROVE  task'[v] = task[v]
    <2>1. PICK i : task' = [task EXCEPT ![w] = [stage |-> "spawned", entry |-> i,
                                               retries |-> RetryCount(log'[i])]]
      BY <1>7 DEF FetchMessage
    <2>2. v = w => task'[v].stage = "spawned"
      BY <1>1, <2>1
    <2> QED
      BY <1>1, <2>1, <2>2 DEF AnsweredStages
  <1>8. CASE Crash
    BY <1>8 DEF Crash, NoTask, AnsweredStages
  <1>9. CASE LoopStep
    BY <1>2, <1>7, <1>9
    DEF LoopStep, RunStep, AcquireSlot, StopFetching, FetchNothing, FetchError, Wake, JoinAll
  <1>10. CASE SendShutdown \/ BrokerStep \/ UNCHANGED vars
    BY <1>2, <1>10 DEF SendShutdown, BrokerStep, LeaseExpires, ForwardRetry, vars
  <1> QED
    BY <1>5, <1>6, <1>8, <1>9, <1>10 DEF Next, Stopped

\* A task comes to settle or to record its message only with the evidence for it:
\* the handler's Ack, the store, the retry copy, or the dead-letter queue
\* (process_message and apply_failure_action).
LEMMA AnswerEarned ==
    ASSUME DataOK, LossInv, NEW w \in Workers, TaskStep(w),
           NEW m, m = Message(w), NEW e, e = task[w].entry,
           NEW s, s = task'[w].stage
    PROVE  /\ s = "record" => accepted'[m] > 0
           /\ s = "ack" => accepted'[m] > 0
           /\ s = "ackRetry" => LaterCopy(m, e)'
           /\ s = "term" => m \in buried'
  <1>1. task \in [Workers -> [stage : Stages, entry : Nat, retries : Nat]]
    BY DEF DataOK
  <1>2. \A x : Advance(w, x) => s = x
    BY <1>1 DEF Advance
  <1>3. Finish(w) => s = "idle"
    BY <1>1 DEF Finish, NoTask
  <1>4. CASE QueueForKey(w)
    BY <1>1, <1>4 DEF QueueForKey
  <1>5. CASE CheckDuplicate(w)
    BY <1>2, <1>3, <1>5 DEF CheckDuplicate, LossInv, history
  <1>6. CASE HandlerReturns(w)
    <2>1. m \in Messages
      BY <1>6, BusyTask DEF HandlerReturns
    <2>2. PICK verdict \in Verdicts :
            IF verdict = "Ack" THEN Accept(w) ELSE Reject(w, verdict)
      BY <1>6 DEF HandlerReturns
    <2>3. CASE verdict = "Ack"
      <3>1. accepted' = [accepted EXCEPT ![m] = @ + 1] /\ s \in {"record", "ack"}
        BY <1>2, <2>2, <2>3 DEF Accept
      <3>2. accepted'[m] = accepted[m] + 1 /\ accepted[m] \in Nat
        BY <2>1, <3>1 DEF DataOK
      <3> QED
        BY <3>1, <3>2
    <2>4. CASE verdict # "Ack"
      BY <1>2, <1>3, <2>2, <2>4, RejectCases
    <2> QED
      BY <2>3, <2>4
  <1>7. CASE RecordConsumed(w)
    BY <1>2, <1>3, <1>7 DEF RecordConsumed, LossInv
  <1>8. CASE HandlerPanics(w) \/ SettleMessage(w) \/ Nack(w)
    BY <1>3, <1>8 DEF HandlerPanics, SettleMessage, Nack
  <1>9. CASE PublishRetry(w)
    <2>1. /\ m \in Messages /\ e \in DOMAIN log
          /\ task[w].retries + 1 \in Nat
      BY <1>9, BusyTask DEF PublishRetry
    <2>2. CASE s = "ackRetry"
      <3>1. log' = Append(log, RetryCopy(m, task[w].retries + 1))
        BY <1>3, <1>9, <2>2 DEF PublishRetry
      <3>2. PICK k : /\ k \in DOMAIN log' /\ k > e
                     /\ log'[k].msg = m /\ log'[k].st = "delayed"
        <4>1. log \in Seq(Entries(Messages))
          BY DEF DataOK
        <4>2. PICK k : k = Len(log) + 1
          OBVIOUS
        <4>3. /\ DOMAIN log = 1..Len(log) /\ Len(log) \in Nat
              /\ DOMAIN log' = 1..(Len(log) + 1)
              /\ log'[k].msg = m /\ log'[k].st = "delayed"
          BY <2>1, <3>1, <4>1, <4>2, AppendLemma
        <4> QED
          BY <2>1, <4>2, <4>3
      <3> QED
        BY <2>2, <3>2 DEF LaterCopy
    <2>3. CASE s # "ackRetry"
      BY <1>2, <1>3, <1>9, <2>3 DEF PublishRetry
    <2> QED
      BY <2>2, <2>3
  <1>10. CASE PublishDeadLetter(w)
    BY <1>2, <1>3, <1>10 DEF PublishDeadLetter
  <1> QED
    BY <1>4, <1>5, <1>6, <1>7, <1>8, <1>9, <1>10 DEF TaskStep

\* Only a record that follows an acceptance enters the store (RecordConsumed).
LEMMA StoreEarned ==
    ASSUME DataOK, LossInv, [Next]_vars, NEW m \in consumed'
    PROVE  accepted[m] > 0
  <1>1. CASE consumed' \subseteq consumed
    BY <1>1 DEF LossInv
  <1>2. ASSUME NEW w \in Workers, RecordConsumed(w)
        PROVE  accepted[m] > 0
    <2>1. accepted[Message(w)] > 0
      BY <1>2 DEF RecordConsumed, LossInv
    <2>2. consumed' \subseteq consumed \cup {Message(w)}
      BY <1>2 DEF RecordConsumed
    <2> QED
      BY <2>1, <2>2 DEF LossInv
  <1>3. ASSUME NEW w \in Workers, TaskStep(w)
        PROVE  accepted[m] > 0
    BY <1>1, <1>2, <1>3
    DEF TaskStep, QueueForKey, CheckDuplicate, HandlerReturns, HandlerPanics,
        SettleMessage, PublishRetry, PublishDeadLetter, Nack
  <1>4. CASE SendShutdown \/ Crash \/ BrokerStep \/ UNCHANGED vars
    BY <1>1, <1>4 DEF SendShutdown, Crash, BrokerStep, LeaseExpires, ForwardRetry, vars
  <1>5. CASE LoopStep
    BY <1>1, <1>5
    DEF LoopStep, RunStep, AcquireSlot, StopFetching, FetchNothing, FetchError, Wake, JoinAll,
        FetchMessage
  <1> QED
    BY <1>3, <1>4, <1>5 DEF Next, Stopped

LEMMA LossStep == DataOK /\ LossInv /\ [Next]_vars => LossInv'
  <1> SUFFICES ASSUME DataOK, LossInv, [Next]_vars PROVE LossInv'
    OBVIOUS
  <1>1. LogKept /\ EvidenceKept /\ Kept /\ DataOK'
    BY StepKeeps, DataNext
  <1>2. \A m \in Messages : Discharged(m, 0)'
    BY <1>1 DEF LossInv, Kept
  <1>3. ASSUME NEW m \in consumed' PROVE accepted'[m] > 0
    <2>1. m \in Messages
      BY <1>1 DEF DataOK
    <2> QED
      BY <1>1, <2>1, StoreEarned DEF EvidenceKept
  <1>4. ASSUME NEW v \in Workers, task'[v].stage \in AnsweredStages \cup {"record"}
        PROVE  /\ task'[v].stage = "record" => accepted'[Message(v)'] > 0
               /\ task'[v].stage \in AnsweredStages =>
                    Discharged(Message(v), task[v].entry)'
    <2>1. task'[v].entry = task[v].entry /\ task[v].stage # "idle"
      BY <1>4, TaskMoves DEF AnsweredStages
    <2>2. PICK m, e : m = Message(v) /\ e = task[v].entry
      OBVIOUS
    <2>3. m \in Messages /\ e \in DOMAIN log /\ e \in Nat
      BY <2>1, <2>2, BusyTask
    <2>4. Message(v)' = m /\ task'[v].entry = e
      BY <1>1, <2>1, <2>2, <2>3 DEF LogKept, Message
    <2>5. CASE task'[v] = task[v]
      <3>1. task[v].stage = "record" => accepted[m] > 0
        BY <2>2 DEF LossInv
      <3>2. task[v].stage \in AnsweredStages => Discharged(m, e)
        BY <2>2 DEF LossInv
      <3>3. Discharged(m, e) => Discharged(m, e)'
        BY <1>1, <2>3 DEF Kept
      <3> QED
        BY <1>1, <2>3, <2>4, <2>5, <3>1, <3>2, <3>3
        DEF EvidenceKept, Discharged, LaterCopy
    <2>6. CASE TaskStep(v)
      <3>1. PICK s : s = task'[v].stage
        OBVIOUS
      <3>2. /\ s = "record" => accepted'[m] > 0
            /\ s = "ack" => accepted'[m] > 0
            /\ s = "ackRetry" => LaterCopy(m, e)'
            /\ s = "term" => m \in buried'
        BY <2>2, <2>6, <3>1, AnswerEarned
      <3> QED
        BY <2>4, <3>1, <3>2 DEF Discharged, LaterCopy, AnsweredStages
    <2> QED
      BY <1>4, <2>5, <2>6, TaskMoves
  <1> QED
    BY <1>2, <1>3, <1>4 DEF LossInv, AnsweredStages

LEMMA LossImplies == DataOK /\ LossInv => NothingLost
  BY DEF LossInv, NothingLost, Discharged, LaterCopy, Live

\* At-least-once, for every consumer and whatever fails: a message is live in the
\* stream, accepted by a handler, or buried.
THEOREM AtLeastOnceHolds == Spec => []NothingLost
  <1>1. Init => DataOK /\ LossInv
    BY DataInit, LossInit
  <1>2. DataOK /\ LossInv /\ [Next]_vars => (DataOK /\ LossInv)'
    BY DataNext, LossStep
  <1> QED
    BY <1>1, <1>2, LossImplies, PTL DEF Spec

------------------------------------------------------------------------------
(***************************************************************************)
(* The consumer implements AtLeastOnce.  A step of the program is one of   *)
(* the abstract steps or changes nothing that AtLeastOnce sees; settling   *)
(* the last live entry of a message is a Discharge because nothing is lost *)
(* by it.                                                                  *)
(***************************************************************************)

Owed == {m \in Messages : Live(log, m)}
Handled == {m \in Messages : accepted[m] > 0}

\* a step after which the same entries are live
SameLive ==
    /\ DOMAIN log' = DOMAIN log
    /\ \A j \in DOMAIN log : /\ log'[j].msg = log[j].msg
                             /\ log'[j].st = "done" <=> log[j].st = "done"

\* A new state of one entry leaves the live entries alone.
LEMMA OneEntryLive ==
    ASSUME NEW i \in DOMAIN log, SameBut(log, log', i)
    PROVE  (log[i].st = "done" <=> log'[i].st = "done") => SameLive
  BY DEF SameLive, SameBut

LEMMA PromiseInit == Init => Promise!Init
  <1> SUFFICES ASSUME Init PROVE Promise!Init
    OBVIOUS
  <1>1. DataOK /\ LossInv
    BY DataInit, LossInit
  <1>2. \A m \in Messages : accepted[m] = 0 /\ m \notin buried
    BY DEF Init
  <1>3. Owed = Messages
    BY <1>1, <1>2 DEF LossInv, Discharged, LaterCopy, Owed, Live
  <1> QED
    BY <1>2, <1>3 DEF Promise!Init, Init, Owed

\* The fetch loop, the broker and a crash neither discharge a message nor bring
\* one back.
LEMMA QuietStep ==
    ASSUME DataOK,
           \/ SendShutdown \/ LoopStep \/ BrokerStep \/ Crash \/ UNCHANGED vars
           \/ \E w \in Workers : Nack(w)
    PROVE  SameLive /\ UNCHANGED <<accepted, buried>>
  <1>1. log \in Seq(Entries(Messages))
    BY DEF DataOK
  <1>2. ASSUME UNCHANGED log
        PROVE  SameLive
    BY <1>2 DEF SameLive
  <1>3. ASSUME NEW i \in Deliverable(log), log' = Deliver(log, i)
        PROVE  SameLive
    <2>1. i \in DOMAIN log /\ SameBut(log, log', i)
      BY <1>1, <1>3, DeliverLemma
    <2>2. log[i].st = "done" <=> log'[i].st = "done"
      BY <1>1, <1>3, DeliverLemma
    <2> QED
      BY <2>1, <2>2, OneEntryLive
  <1>4. ASSUME NEW i \in DOMAIN log, log' = GiveBack(log, i)
        PROVE  SameLive
    <2>1. i \in DOMAIN log /\ SameBut(log, log', i)
      BY <1>1, <1>4, GiveBackLemma
    <2>2. log[i].st = "done" <=> log'[i].st = "done"
      BY <1>1, <1>4, GiveBackLemma
    <2> QED
      BY <2>1, <2>2, OneEntryLive
  <1>5. CASE LoopStep
    BY <1>2, <1>3, <1>5
    DEF LoopStep, RunStep, AcquireSlot, StopFetching, FetchNothing, FetchError, Wake, JoinAll,
        FetchMessage, history
  <1>6. ASSUME NEW i \in DOMAIN log, ForwardRetry(i)
        PROVE  SameLive
    <2>1. i \in DOMAIN log /\ log[i].st = "delayed" /\ log' = Forwarded(log, i)
      BY <1>6 DEF ForwardRetry, Is
    <2>2. SameBut(log, log', i) /\ log'[i].st = "ready"
      BY <1>1, <2>1, ForwardedLemma
    <2> QED
      BY <2>1, <2>2, OneEntryLive
  <1>7. CASE BrokerStep
    BY <1>4, <1>6, <1>7 DEF BrokerStep, LeaseExpires, ForwardRetry, history
  <1>8. ASSUME NEW w \in Workers, Nack(w)
        PROVE  SameLive /\ UNCHANGED <<accepted, buried>>
    <2>1. task[w].entry \in DOMAIN log
      BY <1>8, BusyTask DEF Nack
    <2> QED
      BY <1>2, <1>4, <1>8, <2>1 DEF Nack, history
  <1> QED
    BY <1>2, <1>5, <1>7, <1>8 DEF SendShutdown, Crash, vars, history

LEMMA PromiseStep ==
    ASSUME DataOK, LossInv, [Next]_vars
    PROVE  [Promise!Next]_(Promise!avars)
  <1>1. DataOK' /\ NothingLost'
    BY DataNext, LossStep DEF LossInv, NothingLost, Discharged, LaterCopy, Live
  <1>2. ASSUME SameLive
        PROVE  Owed' = Owed
    BY <1>2 DEF SameLive, Owed, Live
  <1>3. ASSUME Owed' = Owed, UNCHANGED <<accepted, buried>>
        PROVE  UNCHANGED Promise!avars
    BY <1>3 DEF Promise!avars, Owed
  <1>4. ASSUME UNCHANGED <<log, accepted, buried>>
        PROVE  UNCHANGED Promise!avars
    BY <1>4 DEF Promise!avars
  <1>5. ASSUME NEW w \in Workers, HandlerReturns(w)
        PROVE  [Promise!Next]_(Promise!avars)
    <2>1. Message(w) \in Messages
      BY <1>5, BusyTask DEF HandlerReturns
    <2>2. UNCHANGED <<log, buried>>
      BY <1>5 DEF HandlerReturns
    <2>3. \/ accepted' = accepted
          \/ accepted' = [accepted EXCEPT ![Message(w)] = @ + 1]
      BY <1>5 DEF HandlerReturns, Accept, Reject
    <2>4. PICK m \in Messages : m = Message(w)
      BY <2>1
    <2>5. CASE accepted' = [accepted EXCEPT ![m] = @ + 1]
      <3>1. accepted \in [Messages -> Nat]
        BY DEF DataOK
      <3>2. Handled' = Handled \cup {m}
        BY <2>5, <3>1 DEF Handled
      <3>3. Promise!Handle({m})
        BY <2>2, <3>2 DEF Promise!Handle, Handled
      <3> QED
        BY <3>3 DEF Promise!Next
    <2> QED
      BY <1>4, <2>2, <2>3, <2>4, <2>5
  <1>6. ASSUME NEW w \in Workers, PublishDeadLetter(w)
        PROVE  [Promise!Next]_(Promise!avars)
    <2>1. PICK m \in Messages : m = Message(w)
      BY <1>6, BusyTask DEF PublishDeadLetter
    <2>2. buried' = buried \/ buried' = buried \cup {m}
      BY <1>6, <2>1 DEF PublishDeadLetter
    <2>3. UNCHANGED <<log, accepted>>
      BY <1>6 DEF PublishDeadLetter
    <2>4. CASE buried' = buried \cup {m}
      BY <2>3, <2>4 DEF Promise!Next, Promise!Bury
    <2> QED
      BY <1>4, <2>2, <2>3, <2>4
  <1>7. ASSUME NEW w \in Workers, PublishRetry(w)
        PROVE  [Promise!Next]_(Promise!avars)
    <2>1. PICK m \in Messages, r \in Nat :
            /\ m = Message(w) /\ r = task[w].retries + 1
      BY <1>7, BusyTask DEF PublishRetry
    <2>2. log' = log \/ log' = Append(log, RetryCopy(m, r))
      BY <1>7, <2>1 DEF PublishRetry
    <2>3. UNCHANGED <<accepted, buried>>
      BY <1>7 DEF PublishRetry, history
    <2>4. CASE log' = Append(log, RetryCopy(m, r))
      <3>1. log \in Seq(Entries(Messages))
        BY DEF DataOK
      <3>2. PICK k : k = Len(log) + 1
        OBVIOUS
      <3>3. /\ DOMAIN log' = DOMAIN log \cup {k}
            /\ \A j \in DOMAIN log : log'[j] = log[j]
            /\ log'[k].msg = m /\ log'[k].st # "done"
            /\ k \notin DOMAIN log
        BY <2>4, <3>1, <3>2, AppendLemma
      <3>4. Owed' = Owed \cup {m}
        BY <3>3 DEF Owed, Live
      <3>5. Promise!Redo({m})
        BY <2>3, <3>4 DEF Promise!Redo, Owed
      <3> QED
        BY <3>5 DEF Promise!Next
    <2> QED
      BY <1>4, <2>2, <2>3, <2>4
  <1>8. ASSUME NEW w \in Workers, SettleMessage(w)
        PROVE  [Promise!Next]_(Promise!avars)
    <2>1. PICK m \in Messages, e \in DOMAIN log :
            m = Message(w) /\ e = task[w].entry
      BY <1>8, BusyTask DEF SettleMessage
    <2>2. log' = log \/ log' = Settle(log, e)
      BY <1>8, <2>1 DEF SettleMessage
    <2>3. UNCHANGED <<accepted, buried>>
      BY <1>8 DEF SettleMessage, history
    <2>4. CASE log' = Settle(log, e)
      <3>1. SameBut(log, log', e) /\ log'[e].st = "done" /\ log[e].msg = m
        BY <2>1, <2>4, SettleLemma DEF DataOK, Message
      <3>2. Owed' = Owed \/ Owed' = Owed \ {m}
        BY <3>1 DEF SameBut, Owed, Live
      <3>3. ASSUME Owed' = Owed \ {m}
            PROVE  Promise!Discharge({m})
        <4>1. ~Live(log', m)
          BY <3>3 DEF Owed
        <4>2. accepted[m] > 0 \/ m \in buried
          BY <1>1, <2>3, <4>1 DEF NothingLost
        <4> QED
          BY <2>3, <3>3, <4>2 DEF Promise!Discharge, Owed
      <3> QED
        BY <1>3, <2>3, <3>2, <3>3 DEF Promise!Next
    <2> QED
      BY <1>4, <2>2, <2>3, <2>4
  <1>9. ASSUME NEW w \in Workers, TaskStep(w), ~Nack(w)
        PROVE  [Promise!Next]_(Promise!avars)
    <2>1. CASE \/ QueueForKey(w) \/ CheckDuplicate(w) \/ HandlerPanics(w)
               \/ RecordConsumed(w)
      BY <1>4, <2>1
      DEF QueueForKey, CheckDuplicate, HandlerPanics, RecordConsumed, history
    <2> QED
      BY <1>5, <1>6, <1>7, <1>8, <1>9, <2>1 DEF TaskStep
  <1> QED
    BY <1>2, <1>3, <1>9, QuietStep DEF Next, Stopped

\* The consumer keeps the promise of AtLeastOnce: a message is discharged from
\* the broker only after it was accepted or buried.
THEOREM PromiseKept == Spec => KeepsPromise
  <1>1. Init => DataOK /\ LossInv
    BY DataInit, LossInit
  <1>2. DataOK /\ LossInv /\ [Next]_vars => (DataOK /\ LossInv)'
    BY DataNext, LossStep
  <1> QED
    BY <1>1, <1>2, PromiseInit, PromiseStep, PTL DEF Spec, KeepsPromise, Promise!Spec

------------------------------------------------------------------------------
(***************************************************************************)
(* The lines at the key locks                                              *)
(***************************************************************************)

\* A task that has asked for the lock of its key, and one that has got it.
Waits(w) == task[w].stage \notin {"idle", "spawned"}
HoldsKey(w) == task[w].stage \notin {"idle", "spawned", "locking"}

\* Every task that has asked stands once in the line of its key, and one that has got
\* the lock is at its head.
LineInv ==
    /\ queue \in [Keys -> Seq(Workers)]
    /\ \A k \in Keys :
          /\ IsInjective(queue[k])
          /\ Range(queue[k]) = {w \in Workers : Waits(w) /\ KeyOfTask(w) = k}
    /\ \A w \in Workers : HoldsKey(w) => Head(queue[KeyOfTask(w)]) = w

\* The task at the head of the line of its key.
First(w) == Waits(w) /\ Head(queue[KeyOfTask(w)]) = w

\* Somebody joins a line at its end.
LEMMA JoinLine ==
    ASSUME NEW W, NEW q \in Seq(W), IsInjective(q), NEW w \in W, w \notin Range(q)
    PROVE  /\ Append(q, w) \in Seq(W) /\ IsInjective(Append(q, w))
           /\ Range(Append(q, w)) = Range(q) \cup {w}
  <1> DEFINE r == Append(q, w)
  <1>1. /\ r \in Seq(W) /\ Len(r) = Len(q) + 1 /\ r[Len(q) + 1] = w
        /\ \A i \in 1..Len(q) : r[i] = q[i]
    BY AppendProperties
  <1> HIDE DEF r
  <1>2. DOMAIN q = 1..Len(q) /\ DOMAIN r = 1..(Len(q) + 1) /\ Len(q) \in Nat
    BY <1>1, LenProperties
  <1>3. \A i \in DOMAIN r : i \in DOMAIN q \/ i = Len(q) + 1
    BY <1>2
  <1>4. \A i \in DOMAIN q : i \in DOMAIN r /\ r[i] = q[i] /\ q[i] # w
    BY <1>1, <1>2 DEF Range
  <1>5. Len(q) + 1 \in DOMAIN r
    BY <1>2
  <1>6. IsInjective(r)
    BY <1>1, <1>3, <1>4 DEF IsInjective
  <1>7. Range(r) = Range(q) \cup {w}
    BY <1>1, <1>3, <1>4, <1>5 DEF Range
  <1> QED BY <1>1, <1>6, <1>7 DEF r

\* The first of a line leaves it.
LEMMA LeaveLine ==
    ASSUME NEW W, NEW q \in Seq(W), IsInjective(q), q # <<>>, NEW r, r = Tail(q)
    PROVE  r \in Seq(W) /\ IsInjective(r) /\ Range(r) = Range(q) \ {Head(q)}
  <1>1. /\ r \in Seq(W) /\ Len(r) = Len(q) - 1
        /\ \A i \in 1..Len(r) : r[i] = q[i + 1]
    BY HeadTailProperties
  <1>2. DOMAIN q = 1..Len(q) /\ DOMAIN r = 1..(Len(q) - 1) /\ Len(q) \in Nat /\ Len(q) > 0
    BY <1>1, LenProperties, EmptySeq
  <1>3. Head(q) = q[1] /\ 1 \in DOMAIN q
    BY <1>2
  <1>4. \A i \in DOMAIN r : i \in Nat /\ i + 1 \in DOMAIN q /\ i + 1 # 1 /\ r[i] = q[i + 1]
    BY <1>1, <1>2
  <1>5. \A i \in DOMAIN q : i # 1 => i - 1 \in DOMAIN r /\ r[i - 1] = q[i]
    <2> SUFFICES ASSUME NEW i \in DOMAIN q, i # 1
                 PROVE  i - 1 \in DOMAIN r /\ r[i - 1] = q[i]
      OBVIOUS
    <2>1. i - 1 \in DOMAIN r /\ (i - 1) + 1 = i
      BY <1>2
    <2> QED BY <1>4, <2>1
  <1>6. IsInjective(r)
    <2> SUFFICES ASSUME NEW i \in DOMAIN r, NEW j \in DOMAIN r, r[i] = r[j]
                 PROVE  i = j
      BY DEF IsInjective
    <2>1. i + 1 = j + 1
      BY <1>4 DEF IsInjective
    <2> QED BY <1>4, <2>1
  <1>7. Range(r) \subseteq Range(q) \ {Head(q)}
    BY <1>3, <1>4 DEF Range, IsInjective
  <1>8. Range(q) \ {Head(q)} \subseteq Range(r)
    BY <1>3, <1>5 DEF Range
  <1> QED BY <1>1, <1>6, <1>7, <1>8

\* The task of w moves and the others do not.
OnlyMoves(w) == \A v \in Workers \ {w} : task'[v] = task[v]

\* A task that does not move keeps its message.
LEMMA OthersStay ==
    ASSUME DataOK, LogKept, NEW v \in Workers, Waits(v), task'[v].entry = task[v].entry
    PROVE  Message(v)' = Message(v) /\ KeyOfTask(v)' = KeyOfTask(v) /\ KeyOfTask(v) \in Keys
           /\ Message(v) \in Messages
  <1>1. task[v].entry \in DOMAIN log /\ Message(v) \in Messages
    BY BusyTask DEF Waits
  <1>2. Message(v)' = Message(v)
    BY <1>1 DEF LogKept, Message
  <1> QED BY <1>1, <1>2, ConsumerAssumption DEF KeyOfTask

\* Whose turn it is has the head of the line, and is alone with its key.
LEMMA TurnIsFirst ==
    ASSUME Ordered, LineInv, NEW w \in Workers, HasTurn(w) \/ HoldsKey(w)
    PROVE  /\ First(w)
           /\ \A v \in Workers : HoldsKey(v) /\ KeyOfTask(v) = KeyOfTask(w) => v = w
  BY DEF LineInv, HasTurn, HoldsKey, Waits, First

\* Nobody asks or leaves: the lines stay.
LEMMA LinesStay ==
    ASSUME DataOK, LineInv, LogKept, NEW w \in Workers, OnlyMoves(w), queue' = queue,
           \/ ~Waits(w) /\ ~Waits(w)'
           \/ First(w) /\ Waits(w)' /\ task'[w].entry = task[w].entry
    PROVE  LineInv'
  <1>1. \A v \in Workers : /\ (Waits(v)' <=> Waits(v))
                           /\ Waits(v) => /\ KeyOfTask(v)' = KeyOfTask(v)
                                          /\ KeyOfTask(v) \in Keys
    <2> SUFFICES ASSUME NEW v \in Workers
                 PROVE  /\ (Waits(v)' <=> Waits(v))
                        /\ Waits(v) => /\ KeyOfTask(v)' = KeyOfTask(v)
                                       /\ KeyOfTask(v) \in Keys
      OBVIOUS
    <2>1. CASE v = w
      BY <2>1, OthersStay DEF First
    <2>2. CASE v # w
      BY <2>2, OthersStay DEF OnlyMoves, Waits
    <2> QED BY <2>1, <2>2
  <1>2. \A v \in Workers : HoldsKey(v)' => Waits(v)' /\ (HoldsKey(v) \/ First(v))
    BY DEF OnlyMoves, HoldsKey, Waits
  <1>3. ASSUME NEW v \in Workers, HoldsKey(v)'
        PROVE  Head(queue'[KeyOfTask(v)']) = v
    BY <1>1, <1>2, <1>3 DEF LineInv, First
  <1>4. \A k \in Keys :
           {v \in Workers : Waits(v)' /\ KeyOfTask(v)' = k}
             = {v \in Workers : Waits(v) /\ KeyOfTask(v) = k}
    BY <1>1
  <1> QED BY <1>3, <1>4 DEF LineInv

LEMMA LineJoined ==
    ASSUME DataOK, LineInv, LogKept, NEW w \in Workers, QueueForKey(w)
    PROVE  LineInv'
  <1> DEFINE k == KeyOfTask(w)
  <1>1. /\ Ordered /\ task[w].stage = "spawned"
        /\ queue' = [queue EXCEPT ![k] = Append(queue[k], w)]
        /\ task' = [task EXCEPT ![w].stage = "locking"] /\ log' = log
    BY DEF QueueForKey
  <1>2. /\ task'[w].stage = "locking" /\ task'[w].entry = task[w].entry /\ OnlyMoves(w)
    BY <1>1 DEF DataOK, OnlyMoves
  <1>3. Message(w) \in Messages /\ k \in Keys /\ KeyOfTask(w)' = k
    <2>1. Message(w) \in Messages
      BY <1>1, BusyTask
    <2> QED BY <1>1, <1>2, <2>1, ConsumerAssumption DEF KeyOfTask, Message
  <1>4. ~Waits(w) /\ Waits(w)' /\ ~HoldsKey(w)'
    BY <1>1, <1>2 DEF Waits, HoldsKey
  <1>5. \A v \in Workers \ {w} :
           /\ (Waits(v)' <=> Waits(v)) /\ (HoldsKey(v)' <=> HoldsKey(v))
           /\ Waits(v) => KeyOfTask(v)' = KeyOfTask(v) /\ KeyOfTask(v) \in Keys
    BY <1>2, OthersStay DEF OnlyMoves, Waits, HoldsKey
  <1> HIDE DEF k
  <1>6. PICK q : q = queue[k] /\ q \in Seq(Workers) /\ IsInjective(q)
                 /\ Range(q) = {v \in Workers : Waits(v) /\ KeyOfTask(v) = k}
    BY <1>3 DEF LineInv
  <1>7. PICK r : r = Append(q, w)
    OBVIOUS
  <1>8. /\ r \in Seq(Workers) /\ IsInjective(r) /\ Range(r) = Range(q) \cup {w}
        /\ Range(q) # {} => Head(r) = Head(q)
    <2>1. w \notin Range(q) /\ q \in Seq(Workers) /\ IsInjective(q)
      BY <1>4, <1>6
    <2>2. /\ Append(q, w) \in Seq(Workers) /\ IsInjective(Append(q, w))
          /\ Range(Append(q, w)) = Range(q) \cup {w}
      BY <2>1, JoinLine, Zenon
    <2>3. ASSUME Range(q) # {} PROVE Head(Append(q, w)) = Head(q)
      <3>1. 1 \in 1..Len(q)
        BY <2>1, <2>3, LenProperties DEF Range
      <3> QED BY <2>1, <3>1, AppendProperties
    <2> QED BY <1>7, <2>2, <2>3
  <1>9. /\ queue' \in [Keys -> Seq(Workers)] /\ queue'[k] = r
        /\ \A l \in Keys \ {k} : queue'[l] = queue[l]
    BY <1>1, <1>3, <1>6, <1>7, <1>8 DEF LineInv
  <1>10. ASSUME NEW l \in Keys
         PROVE  /\ IsInjective(queue'[l])
                /\ Range(queue'[l]) = {v \in Workers : Waits(v)' /\ KeyOfTask(v)' = l}
    <2>1. CASE l = k
      BY <1>3, <1>4, <1>5, <1>6, <1>8, <1>9, <2>1
    <2>2. CASE l # k
      BY <1>3, <1>4, <1>5, <1>9, <2>2 DEF LineInv
    <2> QED BY <2>1, <2>2
  <1>11. ASSUME NEW v \in Workers, HoldsKey(v)'
         PROVE  Head(queue'[KeyOfTask(v)']) = v
    <2>1. v # w /\ HoldsKey(v) /\ Waits(v)
      BY <1>4, <1>5, <1>11 DEF HoldsKey, Waits
    <2>2. KeyOfTask(v)' = KeyOfTask(v) /\ KeyOfTask(v) \in Keys
      BY <1>5, <2>1
    <2>3. Head(queue[KeyOfTask(v)]) = v
      BY <2>1 DEF LineInv
    <2>4. CASE KeyOfTask(v) = k
      <3>1. v \in Range(q)
        BY <1>6, <2>1, <2>4
      <3> QED BY <1>6, <1>8, <1>9, <2>2, <2>3, <2>4, <3>1
    <2>5. CASE KeyOfTask(v) # k
      BY <1>9, <2>2, <2>3, <2>5
    <2> QED BY <2>4, <2>5
  <1> QED BY <1>9, <1>10, <1>11 DEF LineInv

LEMMA LineLeft ==
    ASSUME Ordered, DataOK, LineInv, LogKept, NEW w \in Workers, First(w), Finish(w)
    PROVE  LineInv'
  <1> DEFINE k == KeyOfTask(w)
  <1>1. /\ queue' = [queue EXCEPT ![k] = Tail(queue[k])]
        /\ task' = [task EXCEPT ![w] = NoTask]
    BY DEF Finish
  <1>2. task'[w].stage = "idle" /\ OnlyMoves(w)
    BY <1>1 DEF DataOK, OnlyMoves, NoTask
  <1>3. Waits(w) /\ k \in Keys
    <2>1. Waits(w) /\ Message(w) \in Messages
      BY BusyTask DEF First, Waits
    <2> QED BY <2>1, ConsumerAssumption DEF KeyOfTask
  <1>4. ~Waits(w)' /\ ~HoldsKey(w)'
    BY <1>2 DEF Waits, HoldsKey
  <1>5. \A v \in Workers \ {w} :
           /\ (Waits(v)' <=> Waits(v)) /\ (HoldsKey(v)' <=> HoldsKey(v))
           /\ Waits(v) => KeyOfTask(v)' = KeyOfTask(v) /\ KeyOfTask(v) \in Keys
    BY <1>2, OthersStay DEF OnlyMoves, Waits, HoldsKey
  <1>6. Head(queue[k]) = w
    BY DEF First
  <1> HIDE DEF k
  <1>7. PICK q : q = queue[k] /\ q \in Seq(Workers) /\ IsInjective(q)
                 /\ Range(q) = {v \in Workers : Waits(v) /\ KeyOfTask(v) = k}
    BY <1>3 DEF LineInv
  <1>8. q # <<>>
    <2>1. w \in Range(q)
      BY <1>3, <1>7 DEF k
    <2> QED BY <2>1 DEF Range
  <1>9. PICK r : r = Tail(q)
    OBVIOUS
  <1>10. r \in Seq(Workers) /\ IsInjective(r) /\ Range(r) = Range(q) \ {w}
    BY <1>6, <1>7, <1>8, <1>9, LeaveLine
  <1>11. /\ queue' \in [Keys -> Seq(Workers)] /\ queue'[k] = r
         /\ \A l \in Keys \ {k} : queue'[l] = queue[l]
    BY <1>1, <1>3, <1>7, <1>9, <1>10 DEF LineInv
  <1>12. ASSUME NEW l \in Keys
         PROVE  /\ IsInjective(queue'[l])
                /\ Range(queue'[l]) = {v \in Workers : Waits(v)' /\ KeyOfTask(v)' = l}
    <2>1. CASE l = k
      BY <1>4, <1>5, <1>7, <1>10, <1>11, <2>1
    <2>2. CASE l # k
      <3>1. KeyOfTask(w) # l
        BY <2>2 DEF k
      <3> QED BY <1>4, <1>5, <1>11, <2>2, <3>1 DEF LineInv
    <2> QED BY <2>1, <2>2
  <1>13. ASSUME NEW v \in Workers, HoldsKey(v)'
         PROVE  Head(queue'[KeyOfTask(v)']) = v
    <2>1. v # w /\ HoldsKey(v) /\ Waits(v)
      BY <1>4, <1>5, <1>13 DEF HoldsKey, Waits
    <2>2. KeyOfTask(v)' = KeyOfTask(v) /\ KeyOfTask(v) \in Keys
      BY <1>5, <2>1
    <2>3. Head(queue[KeyOfTask(v)]) = v
      BY <2>1 DEF LineInv
    <2>4. KeyOfTask(v) # k
      BY <1>6, <2>1, <2>3
    <2> QED BY <1>11, <2>2, <2>3, <2>4
  <1> QED BY <1>11, <1>12, <1>13 DEF LineInv

\* A task either asks for the lock of its key, or has the turn or the lock, and then
\* goes on with the lock or ends (process_message holds the guard to its end).
LEMMA TaskShape ==
    ASSUME Ordered, NEW w \in Workers, TaskStep(w), ~QueueForKey(w)
    PROVE  /\ HasTurn(w) \/ HoldsKey(w)
           /\ \/ Finish(w)
              \/ \E s \in Stages \ {"idle", "spawned", "locking"} : Advance(w, s)
  <1>1. CASE CheckDuplicate(w)
    BY <1>1 DEF CheckDuplicate, Stages
  <1>2. CASE HandlerReturns(w)
    BY <1>2, RejectCases DEF HandlerReturns, HoldsKey, Accept, Stages
  <1>3. CASE \/ HandlerPanics(w) \/ RecordConsumed(w) \/ SettleMessage(w)
             \/ PublishRetry(w) \/ PublishDeadLetter(w) \/ Nack(w)
    BY <1>3 DEF HandlerPanics, RecordConsumed, SettleMessage, PublishRetry,
                PublishDeadLetter, Nack, HoldsKey, Stages
  <1> QED BY <1>1, <1>2, <1>3 DEF TaskStep

\* At the start nobody stands in a line.
LEMMA LineInit == Init => LineInv
  <1> SUFFICES ASSUME Init PROVE LineInv
    OBVIOUS
  <1>1. \A w \in Workers : ~Waits(w) /\ ~HoldsKey(w)
    BY DEF Init, NoTask, Waits, HoldsKey
  <1>2. IsInjective(<<>>) /\ Range(<<>>) = {}
    BY DEF IsInjective, Range
  <1> QED BY <1>1, <1>2 DEF Init, LineInv

\* The steps of the key-lock discipline keep the lines.
LEMMA LineStep == Ordered /\ DataOK /\ LineInv /\ [Next]_vars => LineInv'
  <1> SUFFICES ASSUME Ordered, DataOK, LineInv, [Next]_vars PROVE LineInv'
    OBVIOUS
  <1>1. LogKept
    BY LogStep
  <1>2. CASE UNCHANGED <<task, queue>>
    <2>1. \A w \in Workers : Waits(w) => /\ KeyOfTask(w)' = KeyOfTask(w)
                                         /\ KeyOfTask(w) \in Keys
      BY <1>1, <1>2, OthersStay
    <2>2. \A w \in Workers : (Waits(w)' <=> Waits(w)) /\ (HoldsKey(w)' <=> HoldsKey(w))
      BY <1>2 DEF Waits, HoldsKey
    <2>3. \A w \in Workers : HoldsKey(w) => Waits(w)
      BY DEF Waits, HoldsKey
    <2>4. \A k \in Keys :
             {w \in Workers : Waits(w)' /\ KeyOfTask(w)' = k}
               = {w \in Workers : Waits(w) /\ KeyOfTask(w) = k}
      BY <2>1, <2>2
    <2> QED BY <1>2, <2>1, <2>2, <2>3, <2>4 DEF LineInv
  <1>3. ASSUME NEW w \in Workers, TaskStep(w) PROVE LineInv'
    <2>1. CASE QueueForKey(w)
      BY <1>1, <2>1, LineJoined
    <2>2. CASE ~QueueForKey(w)
      <3>1. First(w)
        BY <1>3, <2>2, TaskShape, TurnIsFirst
      <3>2. CASE Finish(w)
        BY <1>1, <3>1, <3>2, LineLeft
      <3>3. ASSUME NEW s \in Stages \ {"idle", "spawned", "locking"}, Advance(w, s)
            PROVE  LineInv'
        <4>1. task' = [task EXCEPT ![w].stage = s] /\ queue' = queue
          BY <3>3 DEF Advance
        <4>2. OnlyMoves(w) /\ task'[w].stage = s /\ task'[w].entry = task[w].entry
          BY <4>1 DEF DataOK, OnlyMoves
        <4>3. Waits(w)'
          BY <4>2 DEF Waits
        <4> QED BY <1>1, <3>1, <4>1, <4>2, <4>3, LinesStay
      <3> QED BY <1>3, <2>2, <3>2, <3>3, TaskShape
    <2> QED BY <2>1, <2>2
  <1>4. ASSUME NEW w \in Workers, FetchMessage(w) PROVE LineInv'
    <2>1. PICK e, r : task' = [task EXCEPT ![w] = [stage |-> "spawned", entry |-> e,
                                                   retries |-> r]]
      BY <1>4 DEF FetchMessage
    <2>2. task'[w].stage = "spawned" /\ OnlyMoves(w)
      BY <2>1 DEF DataOK, OnlyMoves
    <2>3. ~Waits(w) /\ ~Waits(w)' /\ queue' = queue
      BY <1>4, <2>2 DEF FetchMessage, Waits, NoTask
    <2> QED BY <1>1, <2>2, <2>3, LinesStay
  <1>5. CASE Crash
    <2>1. \A w \in Workers : ~Waits(w)' /\ ~HoldsKey(w)'
      BY <1>5 DEF Crash, NoTask, Waits, HoldsKey
    <2>2. IsInjective(<<>>) /\ Range(<<>>) = {}
      BY DEF IsInjective, Range
    <2> QED BY <1>5, <2>1, <2>2 DEF Crash, LineInv
  <1>6. CASE LoopStep
    BY <1>2, <1>4, <1>6
    DEF LoopStep, RunStep, AcquireSlot, StopFetching, FetchNothing, FetchError, Wake, JoinAll
  <1>7. CASE SendShutdown \/ BrokerStep \/ UNCHANGED vars
    BY <1>2, <1>7 DEF SendShutdown, BrokerStep, LeaseExpires, ForwardRetry, vars
  <1> QED BY <1>3, <1>5, <1>6, <1>7 DEF Next, Stopped

------------------------------------------------------------------------------
(***************************************************************************)
(* Each acceptance is recorded.  AcceptedOnce is not inductive: a handler  *)
(* may accept once more only because the message is not in the store and   *)
(* no other task is about to put it there.  The first is what is_duplicate *)
(* saw, and stays true until the task ends because the second holds, and   *)
(* the second holds because the task is at the head of the line of its     *)
(* key.                                                                    *)
(***************************************************************************)

Recording(m) == \E w \in Workers : task[w].stage = "record" /\ Message(w) = m

OnceInv ==
    /\ \A w \in Workers :
          task[w].stage \in {"handling", "record"} => Message(w) \notin consumed
    /\ \A m \in Messages : accepted[m] <= 1 + unrecorded[m]
    /\ \A m \in Messages :
          accepted[m] > unrecorded[m] => m \in consumed \/ Recording(m)

LEMMA OnceInit == Init => OnceInv
  BY DEF Init, OnceInv, NoTask

\* A busy task that keeps its entry keeps its message.
LEMMA SameMessage ==
    ASSUME DataOK, LogKept, NEW v \in Workers, task[v].stage # "idle",
           task'[v].entry = task[v].entry
    PROVE  Message(v)' = Message(v) /\ Message(v) \in Messages
  BY BusyTask DEF LogKept, Message

\* A step that neither accepts nor records, and hands on only messages that are not
\* in the store.
LEMMA QuietOnce ==
    ASSUME DataOK, OnceInv, LogKept, UNCHANGED <<accepted, unrecorded, consumed>>,
           \A v \in Workers :
              /\ task[v].stage = "record" => task'[v] = task[v]
              /\ task'[v].stage \in {"handling", "record"} =>
                   \/ task'[v] = task[v]
                   \/ /\ task[v].stage # "idle" /\ task'[v].entry = task[v].entry
                      /\ Message(v) \notin consumed
    PROVE  OnceInv'
  <1>1. ASSUME NEW v \in Workers, task'[v].stage \in {"handling", "record"}
        PROVE  Message(v)' \notin consumed'
    <2>1. /\ task[v].stage # "idle" /\ task'[v].entry = task[v].entry
          /\ Message(v) \notin consumed
      BY <1>1 DEF OnceInv
    <2> QED BY <2>1, SameMessage
  <1>2. ASSUME NEW m \in Messages, Recording(m)
        PROVE  Recording(m)'
    <2>1. PICK v \in Workers : task[v].stage = "record" /\ Message(v) = m
      BY <1>2 DEF Recording
    <2>2. task'[v].stage = "record" /\ Message(v)' = m
      BY <2>1, SameMessage
    <2> QED BY <2>2 DEF Recording
  <1>3. \A m \in Messages : accepted'[m] > unrecorded'[m] => m \in consumed' \/ Recording(m)'
    BY <1>2 DEF OnceInv
  <1> QED BY <1>1, <1>3 DEF OnceInv

\* process_message accepts and records only under the lock of the key.
LEMMA AcceptOnce ==
    ASSUME Ordered, Idempotent, DataOK, LineInv, OnceInv, LogKept, NEW w \in Workers,
           task[w].stage = "handling", Accept(w), UNCHANGED <<unrecorded, consumed>>
    PROVE  OnceInv'
  <1>0. PICK a : a = Message(w)
    OBVIOUS
  <1>1. /\ accepted' = [accepted EXCEPT ![a] = @ + 1]
        /\ task' = [task EXCEPT ![w].stage = "record"]
    BY <1>0 DEF Accept, Advance
  <1>2. /\ task'[w].stage = "record" /\ task'[w].entry = task[w].entry
        /\ \A v \in Workers \ {w} : task'[v] = task[v]
    BY <1>1 DEF DataOK
  <1>3. a \in Messages /\ Message(w)' = a /\ a \notin consumed
    BY <1>0, <1>2, SameMessage DEF OnceInv
  <1>4. ~Recording(a)
    <2>1. ASSUME NEW v \in Workers, task[v].stage = "record", Message(v) = a
          PROVE  FALSE
      <3>1. HoldsKey(v) /\ HoldsKey(w) /\ KeyOfTask(v) = KeyOfTask(w)
        BY <1>0, <2>1 DEF HoldsKey, KeyOfTask
      <3>2. v = w
        BY <3>1, TurnIsFirst
      <3> QED BY <2>1, <3>2
    <2> QED BY <2>1 DEF Recording
  <1>5. \A v \in Workers : task'[v].stage \in {"handling", "record"} =>
            task[v].stage \in {"handling", "record"} /\ Message(v)' = Message(v)
    BY <1>0, <1>2, <1>3, SameMessage
  <1>6. ASSUME NEW m \in Messages, Recording(m)
        PROVE  Recording(m)'
    <2>1. PICK v \in Workers : task[v].stage = "record" /\ Message(v) = m
      BY <1>6 DEF Recording
    <2>2. task'[v].stage = "record" /\ Message(v)' = m
      BY <1>2, <2>1, SameMessage
    <2> QED BY <2>2 DEF Recording
  <1>7. Recording(a)'
    BY <1>0, <1>2, <1>3 DEF Recording
  <1>8. /\ accepted'[a] = accepted[a] + 1 /\ accepted[a] \in Nat /\ unrecorded[a] \in Nat
        /\ \A m \in Messages \ {a} : accepted'[m] = accepted[m]
    BY <1>1, <1>3 DEF DataOK
  <1>9. accepted[a] <= unrecorded[a]
    BY <1>3, <1>4, <1>8 DEF OnceInv
  <1>10. \A m \in Messages : accepted'[m] <= 1 + unrecorded'[m]
    <2> SUFFICES ASSUME NEW m \in Messages PROVE accepted'[m] <= 1 + unrecorded'[m]
      OBVIOUS
    <2>1. CASE m = a
      BY <1>8, <1>9, <2>1
    <2>2. CASE m # a
      BY <1>8, <2>2 DEF OnceInv
    <2> QED BY <2>1, <2>2
  <1>11. \A m \in Messages :
            accepted'[m] > unrecorded'[m] => m \in consumed' \/ Recording(m)'
    <2> SUFFICES ASSUME NEW m \in Messages, accepted'[m] > unrecorded'[m], m # a
                 PROVE  m \in consumed' \/ Recording(m)'
      BY <1>7
    <2>1. accepted[m] > unrecorded[m]
      BY <1>8
    <2>2. m \in consumed \/ Recording(m)
      BY <2>1 DEF OnceInv
    <2> QED BY <1>6, <2>2
  <1> QED BY <1>5, <1>10, <1>11 DEF OnceInv

LEMMA RecordOnce ==
    ASSUME Ordered, DataOK, LineInv, OnceInv, LogKept, NEW w \in Workers,
           RecordConsumed(w)
    PROVE  OnceInv'
  <1>0. PICK a : a = Message(w)
    OBVIOUS
  <1>1. /\ task[w].stage = "record" /\ accepted' = accepted
        /\ task'[w].stage \in {"ack", "idle"}
        /\ \A v \in Workers \ {w} : task'[v] = task[v]
    BY DEF RecordConsumed, Advance, Finish, NoTask, DataOK
  <1>2. /\ a \in Messages
        /\ consumed \subseteq consumed' /\ consumed' \subseteq consumed \cup {a}
        /\ \/ unrecorded' = unrecorded /\ a \in consumed'
           \/ unrecorded' = [unrecorded EXCEPT ![a] = @ + 1]
    BY <1>0, <1>1, BusyTask DEF RecordConsumed
  <1>3. ASSUME NEW v \in Workers, task'[v].stage \in {"handling", "record"}
        PROVE  Message(v)' \notin consumed'
    <2>1. v # w /\ task'[v] = task[v]
      BY <1>1, <1>3
    <2>2. Message(v)' = Message(v) /\ Message(v) \notin consumed
      BY <1>3, <2>1, SameMessage DEF OnceInv
    <2>3. Message(v) # a
      <3>1. HoldsKey(v) /\ HoldsKey(w)
        BY <1>1, <1>3, <2>1 DEF HoldsKey
      <3> QED BY <2>1, <3>1, TurnIsFirst, <1>0 DEF KeyOfTask
    <2> QED BY <1>2, <2>2, <2>3
  <1>4. ASSUME NEW m \in Messages \ {a}, Recording(m)
        PROVE  Recording(m)'
    <2>1. PICK v \in Workers : task[v].stage = "record" /\ Message(v) = m
      BY <1>4 DEF Recording
    <2>2. v # w
      BY <1>0, <2>1
    <2>3. task'[v].stage = "record" /\ Message(v)' = m
      BY <1>1, <2>1, <2>2, SameMessage
    <2> QED BY <2>3 DEF Recording
  <1>5. /\ \A m \in Messages : accepted[m] \in Nat /\ unrecorded[m] \in Nat
        /\ \A m \in Messages \ {a} : unrecorded'[m] = unrecorded[m]
        /\ \/ unrecorded'[a] = unrecorded[a] /\ a \in consumed'
           \/ unrecorded'[a] = unrecorded[a] + 1
    BY <1>2 DEF DataOK
  <1>6. \A m \in Messages : accepted[m] <= 1 + unrecorded[m]
    BY DEF OnceInv
  <1>7. \A m \in Messages : accepted'[m] <= 1 + unrecorded'[m]
    BY <1>1, <1>2, <1>5, <1>6
  <1>8. \A m \in Messages :
           accepted'[m] > unrecorded'[m] => m \in consumed' \/ Recording(m)'
    <2> SUFFICES ASSUME NEW m \in Messages, accepted'[m] > unrecorded'[m]
                 PROVE  m \in consumed' \/ Recording(m)'
      OBVIOUS
    <2>1. CASE m = a
      BY <1>1, <1>5, <1>6, <2>1
    <2>2. CASE m # a
      <3>1. m \in consumed \/ Recording(m)
        BY <1>1, <1>5, <2>2 DEF OnceInv
      <3> QED BY <1>2, <1>4, <2>2, <3>1
    <2> QED BY <2>1, <2>2
  <1> QED BY <1>3, <1>7, <1>8 DEF OnceInv

\* What a crash takes out of the store, or out of a task that was about to record,
\* it counts.
LEMMA CrashOnce ==
    ASSUME DataOK, OnceInv, Crash
    PROVE  OnceInv'
  <1> DEFINE lost(m) == {w \in Workers : task[w].stage = "record" /\ Message(w) = m}
  <1>1. ASSUME NEW m \in Messages
        PROVE  /\ Cardinality(lost(m)) \in Nat
               /\ Recording(m) => Cardinality(lost(m)) > 0
    <2>1. IsFiniteSet(lost(m))
      BY ConsumerAssumption, FS_Subset
    <2>2. Recording(m) => lost(m) # {}
      BY DEF Recording
    <2> QED BY <2>1, <2>2, FS_CardinalityType, FS_EmptySet
  <1>2. unrecorded' = [m \in Messages |->
                         unrecorded[m] + Cardinality(lost(m))
                         + IF m \in consumed /\ ~DurableStore THEN 1 ELSE 0]
    BY DEF Crash
  <1>3. \A w \in Workers : task'[w].stage = "idle"
    BY DEF Crash, NoTask
  <1>4. accepted' = accepted /\ consumed' = IF DurableStore THEN consumed ELSE {}
    BY DEF Crash
  <1> HIDE DEF lost
  <1>5. ASSUME NEW m \in Messages
        PROVE  /\ accepted'[m] <= 1 + unrecorded'[m]
               /\ accepted'[m] > unrecorded'[m] => m \in consumed'
    <2>1. PICK n \in Nat : n = Cardinality(lost(m)) /\ (Recording(m) => n > 0)
      BY <1>1
    <2>2. PICK c \in {0, 1} : c = IF m \in consumed /\ ~DurableStore THEN 1 ELSE 0
      OBVIOUS
    <2>3. unrecorded'[m] = unrecorded[m] + n + c
      BY <1>2, <2>1, <2>2
    <2>4. /\ unrecorded[m] \in Nat /\ accepted[m] \in Nat /\ accepted[m] <= 1 + unrecorded[m]
          /\ accepted[m] > unrecorded[m] => m \in consumed \/ Recording(m)
      BY DEF DataOK, OnceInv
    <2> QED BY <1>4, <2>1, <2>2, <2>3, <2>4
  <1> QED BY <1>3, <1>5 DEF OnceInv

LEMMA OnceStep ==
    Ordered /\ Idempotent /\ DataOK /\ LineInv /\ OnceInv /\ [Next]_vars => OnceInv'
  <1> SUFFICES ASSUME Ordered, Idempotent, DataOK, LineInv, OnceInv, [Next]_vars
               PROVE  OnceInv'
    OBVIOUS
  <1>1. LogKept
    BY LogStep
  <1>2. CASE UNCHANGED <<task, accepted, unrecorded, consumed>>
    BY <1>1, <1>2, QuietOnce
  <1>3. ASSUME NEW w \in Workers, TaskStep(w) PROVE OnceInv'
    <2>1. ASSUME NEW s \in Stages \ {"record"}, task' = [task EXCEPT ![w].stage = s],
                 task[w].stage \notin {"idle", "record"},
                 s = "handling" => Message(w) \notin consumed,
                 UNCHANGED <<accepted, unrecorded, consumed>>
          PROVE  OnceInv'
      <3>1. /\ task'[w].stage = s /\ task'[w].entry = task[w].entry
            /\ \A v \in Workers \ {w} : task'[v] = task[v]
        BY <2>1 DEF DataOK
      <3> QED BY <1>1, <2>1, <3>1, QuietOnce
    <2>2. ASSUME Finish(w), task[w].stage # "record",
                 UNCHANGED <<accepted, unrecorded, consumed>>
          PROVE  OnceInv'
      <3>1. /\ task'[w].stage = "idle"
            /\ \A v \in Workers \ {w} : task'[v] = task[v]
        BY <2>2 DEF DataOK, Finish, NoTask
      <3> QED BY <1>1, <2>2, <3>1, QuietOnce
    <2>3. CASE QueueForKey(w)
      <3>1. /\ task' = [task EXCEPT ![w].stage = "locking"] /\ task[w].stage = "spawned"
            /\ UNCHANGED <<accepted, unrecorded, consumed>>
        BY <2>3 DEF QueueForKey, history
      <3>2. "locking" \in Stages \ {"record"}
        BY DEF Stages
      <3> QED BY <2>1, <3>1, <3>2
    <2>4. CASE CheckDuplicate(w)
      <3>1. /\ task[w].stage \notin {"idle", "record"}
            /\ UNCHANGED <<accepted, unrecorded, consumed>>
        BY <2>4 DEF CheckDuplicate, HasTurn, history
      <3>2. CASE Finish(w)
        BY <2>2, <3>1, <3>2
      <3>3. CASE ~Finish(w)
        <4>1. PICK s \in {"ack", "handling"} :
                 /\ task' = [task EXCEPT ![w].stage = s]
                 /\ s = "handling" => Message(w) \notin consumed
          BY <2>4, <3>3 DEF CheckDuplicate, Advance
        <4> QED BY <2>1, <3>1, <4>1 DEF Stages
      <3> QED BY <3>2, <3>3
    <2>5. CASE HandlerReturns(w)
      <3>1. task[w].stage = "handling" /\ UNCHANGED <<unrecorded, consumed>>
        BY <2>5 DEF HandlerReturns
      <3>2. CASE Accept(w)
        BY <1>1, <3>1, <3>2, AcceptOnce
      <3>3. ASSUME NEW verdict, Reject(w, verdict) PROVE OnceInv'
        <4>1. accepted' = accepted
          BY <3>3 DEF Reject
        <4>2. ASSUME NEW s \in {"publish", "bury", "nack"}, Advance(w, s)
              PROVE  OnceInv'
          BY <2>1, <3>1, <4>1, <4>2 DEF Advance, Stages
        <4> QED BY <2>2, <3>1, <3>3, <4>1, <4>2, RejectCases
      <3> QED BY <2>5, <3>2, <3>3 DEF HandlerReturns
    <2>6. CASE RecordConsumed(w)
      BY <1>1, <2>6, RecordOnce
    <2>7. CASE HandlerPanics(w) \/ SettleMessage(w) \/ Nack(w)
      BY <2>2, <2>7 DEF HandlerPanics, SettleMessage, Nack, history
    <2>8. CASE PublishRetry(w) \/ PublishDeadLetter(w)
      <3>1. /\ task[w].stage \in {"publish", "bury"}
            /\ UNCHANGED <<accepted, unrecorded, consumed>>
            /\ Finish(w) \/ \E s \in {"ackRetry", "term"} : Advance(w, s)
        BY <2>8 DEF PublishRetry, PublishDeadLetter, history
      <3>2. ASSUME NEW s \in {"ackRetry", "term"}, Advance(w, s) PROVE OnceInv'
        BY <2>1, <3>1, <3>2 DEF Advance, Stages
      <3> QED BY <2>2, <3>1, <3>2
    <2> QED BY <1>3, <2>3, <2>4, <2>5, <2>6, <2>7, <2>8 DEF TaskStep
  <1>4. ASSUME NEW w \in Workers, FetchMessage(w) PROVE OnceInv'
    <2>1. PICK e, r : task' = [task EXCEPT ![w] = [stage |-> "spawned", entry |-> e,
                                                   retries |-> r]]
      BY <1>4 DEF FetchMessage
    <2>2. /\ task'[w].stage = "spawned" /\ task[w].stage = "idle"
          /\ \A v \in Workers \ {w} : task'[v] = task[v]
      BY <1>4, <2>1 DEF DataOK, FetchMessage, NoTask
    <2>3. UNCHANGED <<accepted, unrecorded, consumed>>
      BY <1>4 DEF FetchMessage, history
    <2> QED BY <1>1, <2>2, <2>3, QuietOnce
  <1>5. CASE Crash
    BY <1>5, CrashOnce
  <1>6. CASE LoopStep
    BY <1>2, <1>4, <1>6
    DEF LoopStep, RunStep, AcquireSlot, StopFetching, FetchNothing, FetchError, Wake,
        JoinAll, history
  <1>7. CASE SendShutdown \/ BrokerStep \/ UNCHANGED vars
    BY <1>2, <1>7 DEF SendShutdown, BrokerStep, LeaseExpires, ForwardRetry, vars, history
  <1> QED BY <1>3, <1>5, <1>6, <1>7 DEF Next, Stopped

\* With ordered = true and a store, every acceptance of a message beyond the first is
\* explained by a record that failed or was lost (process_message holds the guard of
\* the key from is_duplicate to the end of record_consumed).
THEOREM AcceptedOnceHolds == Spec => []AcceptedOnce
  <1> DEFINE Safe == DataOK /\ (Ordered /\ Idempotent => LineInv /\ OnceInv)
  <1>1. Init => Safe
    BY DataInit, LineInit, OnceInit
  <1>2. Safe /\ [Next]_vars => Safe'
    BY DataNext, LineStep, OnceStep
  <1>3. Safe => AcceptedOnce
    BY DEF AcceptedOnce, OnceInv
  <1> QED BY <1>1, <1>2, <1>3, PTL DEF Spec

------------------------------------------------------------------------------
(***************************************************************************)
(* The semaphore and the types that DataOK leaves out                      *)
(***************************************************************************)

InHand == IF loop = "fetch" THEN 1 ELSE 0

PermitInv ==
    /\ permits \in Nat
    /\ permits + Cardinality(Busy) + InHand = Cardinality(Workers)

\* Without ordered = true nobody uses the key locks.
QueueInv == IF Ordered THEN LineInv ELSE queue = [k \in Keys |-> <<>>]

LEMMA BusyCount == IsFiniteSet(Busy) /\ Cardinality(Busy) \in Nat
  BY ConsumerAssumption, FS_Subset, FS_CardinalityType DEF Busy

\* A permit goes into a task, or comes back from one.
LEMMA BusyMoves ==
    ASSUME DataOK, NEW w \in Workers, NEW t, task' = [task EXCEPT ![w] = t]
    PROVE  /\ task[w].stage = "idle" /\ t.stage # "idle" =>
                Cardinality(Busy)' = Cardinality(Busy) + 1
           /\ task[w].stage # "idle" /\ t.stage = "idle" =>
                Cardinality(Busy)' = Cardinality(Busy) - 1
           /\ task[w].stage # "idle" /\ t.stage # "idle" =>
                Cardinality(Busy)' = Cardinality(Busy)
  <1>1. task'[w] = t /\ \A v \in Workers \ {w} : task'[v] = task[v]
    BY DEF DataOK
  <1>2. Busy' = (Busy \ {w}) \cup {v \in {w} : t.stage # "idle"}
    BY <1>1 DEF Busy
  <1>3. CASE task[w].stage = "idle" /\ t.stage # "idle"
    <2>1. w \notin Busy /\ Busy' = Busy \cup {w}
      BY <1>2, <1>3 DEF Busy
    <2> QED BY <1>3, <2>1, BusyCount, FS_AddElement
  <1>4. CASE task[w].stage # "idle" /\ t.stage = "idle"
    <2>1. w \in Busy /\ Busy' = Busy \ {w}
      BY <1>2, <1>4 DEF Busy
    <2> QED BY <1>4, <2>1, BusyCount, FS_RemoveElement
  <1>5. CASE task[w].stage # "idle" /\ t.stage # "idle"
    <2>1. Busy' = Busy
      BY <1>2, <1>5 DEF Busy
    <2> QED BY <1>5, <2>1
  <1> QED BY <1>3, <1>4, <1>5

\* A new stage of a task that runs.
LEMMA BusyAdvances ==
    ASSUME DataOK, NEW w \in Workers, task[w].stage # "idle",
           NEW s \in Stages \ {"idle"}, task' = [task EXCEPT ![w].stage = s]
    PROVE  Cardinality(Busy)' = Cardinality(Busy)
  <1>1. /\ task'[w].stage # "idle"
        /\ \A v \in Workers \ {w} : task'[v] = task[v]
    BY DEF DataOK
  <1>2. Busy' = Busy
    BY <1>1 DEF Busy
  <1> QED BY <1>2

LEMMA PermitInit == Init => PermitInv
  <1> SUFFICES ASSUME Init PROVE PermitInv
    OBVIOUS
  <1>1. Busy = {} /\ permits = Cardinality(Workers) /\ loop = "acquire"
    BY DEF Init, Busy, NoTask
  <1> QED BY <1>1, ConsumerAssumption, FS_CardinalityType, FS_EmptySet DEF PermitInv, InHand

\* Every task step keeps its permit or ends the task and gives it back.
LEMMA PermitTask ==
    ASSUME DataOK, PermitInv, NEW w \in Workers, TaskStep(w)
    PROVE  PermitInv'
  <1>1. task[w].stage # "idle" /\ loop' = loop
    BY DEF TaskStep, QueueForKey, CheckDuplicate, HasTurn, HandlerReturns, HandlerPanics,
           RecordConsumed, SettleMessage, PublishRetry, PublishDeadLetter, Nack
  <1>2. \/ Finish(w)
        \/ \E s \in Stages \ {"idle"} : permits' = permits /\ task' = [task EXCEPT ![w].stage = s]
    <2>1. CASE HandlerReturns(w)
      BY <2>1, RejectCases DEF HandlerReturns, Accept, Advance, Stages
    <2>2. CASE QueueForKey(w) \/ CheckDuplicate(w) \/ HandlerPanics(w) \/ RecordConsumed(w)
      BY <2>2 DEF QueueForKey, CheckDuplicate, HandlerPanics, RecordConsumed, Advance, Stages
    <2>3. CASE \/ SettleMessage(w) \/ PublishRetry(w) \/ PublishDeadLetter(w) \/ Nack(w)
      BY <2>3 DEF SettleMessage, PublishRetry, PublishDeadLetter, Nack, Advance, Stages
    <2> QED BY <2>1, <2>2, <2>3 DEF TaskStep
  <1>3. CASE Finish(w)
    <2>1. task' = [task EXCEPT ![w] = NoTask] /\ permits' = permits + 1 /\ NoTask.stage = "idle"
      BY <1>3 DEF Finish, NoTask
    <2>2. Cardinality(Busy)' = Cardinality(Busy) - 1
      BY <1>1, <2>1, BusyMoves
    <2> QED BY <1>1, <2>1, <2>2, BusyCount DEF PermitInv, InHand
  <1>4. ASSUME NEW s \in Stages \ {"idle"}, permits' = permits,
               task' = [task EXCEPT ![w].stage = s]
        PROVE  PermitInv'
    <2>1. Cardinality(Busy)' = Cardinality(Busy)
      BY <1>1, <1>4, BusyAdvances
    <2> QED BY <1>1, <1>4, <2>1 DEF PermitInv, InHand
  <1> QED BY <1>2, <1>3, <1>4

LEMMA PermitStep == DataOK /\ PermitInv /\ [Next]_vars => PermitInv'
  <1> SUFFICES ASSUME DataOK, PermitInv, [Next]_vars PROVE PermitInv'
    OBVIOUS
  <1>1. task' = task => Cardinality(Busy)' = Cardinality(Busy)
    BY DEF Busy
  <1>2. Cardinality(Busy) \in Nat /\ permits \in Nat
    BY BusyCount DEF PermitInv
  <1>3. ASSUME NEW w \in Workers, FetchMessage(w) PROVE PermitInv'
    <2>1. PICK e, r : task' = [task EXCEPT ![w] = [stage |-> "spawned", entry |-> e,
                                                   retries |-> r]]
      BY <1>3 DEF FetchMessage
    <2>2. PICK t : t = [stage |-> "spawned", entry |-> e, retries |-> r]
      OBVIOUS
    <2>3. t.stage # "idle"
      BY <2>2
    <2>4. task[w].stage = "idle"
      BY <1>3 DEF FetchMessage, NoTask
    <2>5. task' = [task EXCEPT ![w] = t]
      BY <2>1, <2>2
    <2>6. Cardinality(Busy)' = Cardinality(Busy) + 1
      BY <2>3, <2>4, <2>5, BusyMoves
    <2> QED BY <1>2, <1>3, <2>6 DEF FetchMessage, PermitInv, InHand
  <1>4. CASE Crash
    <2>1. Busy' = {} /\ permits' = Cardinality(Workers) /\ loop' = "acquire"
      BY <1>4 DEF Crash, Busy, NoTask
    <2> QED BY <2>1, ConsumerAssumption, FS_CardinalityType, FS_EmptySet
        DEF PermitInv, InHand
  <1>5. CASE AcquireSlot
    BY <1>1, <1>2, <1>5 DEF AcquireSlot, PermitInv, InHand
  <1>6. CASE StopFetching
    BY <1>1, <1>2, <1>6 DEF StopFetching, PermitInv, InHand
  <1>7. CASE FetchNothing \/ FetchError
    BY <1>1, <1>2, <1>7 DEF FetchNothing, FetchError, PermitInv, InHand
  <1>8. CASE Wake \/ JoinAll \/ SendShutdown \/ UNCHANGED vars
    BY <1>1, <1>2, <1>8 DEF Wake, JoinAll, SendShutdown, vars, PermitInv, InHand
  <1>9. CASE BrokerStep
    BY <1>1, <1>2, <1>9 DEF BrokerStep, LeaseExpires, ForwardRetry, PermitInv, InHand
  <1> QED BY <1>3, <1>4, <1>5, <1>6, <1>7, <1>8, <1>9, PermitTask DEF Next, Stopped, LoopStep, RunStep

\* The key locks of a deployment without ordered = true.
LEMMA NoLines == ~Ordered /\ queue = [k \in Keys |-> <<>>] /\ [Next]_vars
                   => queue' = [k \in Keys |-> <<>>]
  <1> SUFFICES ASSUME ~Ordered, queue = [k \in Keys |-> <<>>], [Next]_vars
               PROVE  queue' = queue
    OBVIOUS
  <1>1. ASSUME NEW w \in Workers, TaskStep(w) PROVE queue' = queue
    <2>1. CASE HandlerReturns(w)
      BY <2>1, RejectCases DEF HandlerReturns, Accept, Advance, Finish
    <2>2. CASE QueueForKey(w) \/ CheckDuplicate(w) \/ HandlerPanics(w) \/ RecordConsumed(w)
      BY <2>2 DEF QueueForKey, CheckDuplicate, HandlerPanics, RecordConsumed, Advance, Finish
    <2>3. CASE \/ SettleMessage(w) \/ PublishRetry(w) \/ PublishDeadLetter(w) \/ Nack(w)
      BY <2>3 DEF SettleMessage, PublishRetry, PublishDeadLetter, Nack, Advance, Finish
    <2> QED BY <1>1, <2>1, <2>2, <2>3 DEF TaskStep
  <1>2. CASE LoopStep
    BY <1>2 DEF LoopStep, RunStep, AcquireSlot, StopFetching, FetchNothing, FetchError, Wake,
                JoinAll, FetchMessage
  <1>3. CASE SendShutdown \/ BrokerStep \/ Crash \/ UNCHANGED vars
    BY <1>3 DEF SendShutdown, BrokerStep, LeaseExpires, ForwardRetry, Crash, vars
  <1> QED BY <1>1, <1>2, <1>3 DEF Next, Stopped

LEMMA WholeInit == Init => DataOK /\ PermitInv /\ QueueInv
  BY DataInit, PermitInit, LineInit DEF QueueInv, Init

LEMMA WholeStep == DataOK /\ PermitInv /\ QueueInv /\ [Next]_vars
                     => (DataOK /\ PermitInv /\ QueueInv)'
  BY DataNext, PermitStep, LineStep, NoLines DEF QueueInv

\* Every permit is free, with the loop or with a task: the semaphore of the runtime
\* neither leaks a permit nor gives one back twice.
THEOREM PermitsHeldHolds == Spec => []PermitsHeld
  <1>1. PermitInv => PermitsHeld
    BY DEF PermitInv, PermitsHeld, InHand
  <1> QED BY <1>1, WholeInit, WholeStep, PTL DEF Spec

\* The whole state is well-formed: DataOK, and the semaphore and the key locks.
THEOREM TypeCorrect == Spec => []TypeOK
  <1>1. DataOK /\ PermitInv /\ QueueInv => TypeOK
    <2> SUFFICES ASSUME DataOK, PermitInv, QueueInv PROVE TypeOK
      OBVIOUS
    <2>1. permits \in 0..Cardinality(Workers)
      <3>1. Cardinality(Workers) \in Nat
        BY ConsumerAssumption, FS_CardinalityType
      <3> QED BY <3>1, BusyCount DEF PermitInv, InHand
    <2>2. queue \in [Keys -> Seq(Workers)]
      <3>1. CASE Ordered
        BY <3>1 DEF QueueInv, LineInv
      <3>2. CASE ~Ordered
        BY <3>2, EmptySeq DEF QueueInv
      <3> QED BY <3>1, <3>2
    <2> QED BY <2>1, <2>2 DEF TypeOK
  <1> QED BY <1>1, WholeInit, WholeStep, PTL DEF Spec

------------------------------------------------------------------------------
(***************************************************************************)
(* The retry budget.  RetryBudget is not inductive: what counts is how     *)
(* often each entry of the log may still be handled.  A chance is a future *)
(* handler call of an entry; every call uses one up, and a retry, whether  *)
(* it is a copy or a redelivery, has one chance less than what it repeats. *)
(***************************************************************************)

\* The handler calls that a message with r retries has left.
Left(r) == IF r < MaxRetries THEN MaxRetries + 1 - r ELSE 1

\* The retry count of the next delivery of an entry (RetryCount after Deliver).
NextCount(entry) == IF entry.retries > entry.delivered THEN entry.retries
                                                       ELSE entry.delivered

\* The calls that are left to a task, and to the retry that it is about to ask for.
TaskLeft(t) == CASE t.stage \in {"spawned", "locking", "handling"} -> Left(t.retries)
                 [] t.stage \in {"publish", "nack"} -> Left(t.retries + 1)
                 [] OTHER -> 0

Open(i, k) ==
    \/ \E w \in Workers : task[w].entry = i /\ k <= TaskLeft(task[w])
    \/ ~InFlight(i) /\ log[i].st # "done" /\ k <= Left(NextCount(log[i]))

Chances(m) ==
    {c \in (DOMAIN log) \X (1..(MaxRetries + 1)) : log[c[1]].msg = m /\ Open(c[1], c[2])}

Copies(m) == {i \in DOMAIN Backlog : Backlog[i] = m}

Budget(m) == (MaxRetries + 1) * Cardinality(Copies(m))

\* A message comes back only by its header or by a redelivery, and an entry that a
\* task works on has no other task.
DeliveryInv ==
    /\ \A v, w \in Busy : task[v].entry = task[w].entry => v = w
    /\ \A w \in Busy : log[task[w].entry].st = "leased"
    /\ ~HasRetryPublisher => /\ \A i \in DOMAIN log : log[i].retries = 0
                             /\ \A w \in Busy :
                                  log[task[w].entry].delivered = task[w].retries + 1
    /\ \A w \in Workers :
          /\ task[w].stage \in {"publish", "nack"} => task[w].retries < MaxRetries
          /\ task[w].stage = "nack" => ~HasRetryPublisher
          /\ task[w].stage = "publish" => HasRetryPublisher

SpentInv ==
    \A m \in Messages :
       /\ IsFiniteSet(Chances(m))
       /\ runs[m] + Cardinality(Chances(m)) <= Budget(m)

NoFaults == faults = 0 /\ EnableDlq /\ HasDeadLetterPublisher

BudgetInv == NoFaults => DeliveryInv /\ SpentInv

\* A retry has one chance less than what it repeats, and there is always one.
LEMMA LeftLemma ==
    /\ \A r \in Nat : Left(r) \in 1..(MaxRetries + 1)
    /\ \A r, s \in Nat : r <= s => Left(s) <= Left(r)
    /\ \A r \in Nat : r < MaxRetries => Left(r) = Left(r + 1) + 1
    /\ Left(0) = MaxRetries + 1
  BY RetryPolicyAssumption DEF Left

\* The next delivery of an entry has the count that was foreseen (RetryCount).
LEMMA DeliverCounts ==
    ASSUME NEW M, NEW entries \in Seq(Entries(M)), NEW i \in Deliverable(entries)
    PROVE  LET e == Deliver(entries, i)[i]
           IN  /\ e.retries = entries[i].retries /\ e.delivered = entries[i].delivered + 1
               /\ RetryCount(e) = NextCount(entries[i])
               /\ NextCount(e) \in Nat /\ NextCount(entries[i]) \in Nat
               /\ NextCount(entries[i]) <= NextCount(e)
  <1>1. PICK old \in Entries(M) : old = entries[i] /\ i \in DOMAIN entries
    <2>1. i \in DOMAIN entries
      BY DEF Deliverable
    <2> QED BY <2>1, EntryOf
  <1>2. PICK d \in Nat, r \in Nat : d = old.delivered /\ r = old.retries
    BY MaxDeliverAssumption DEF Entries
  <1>3. PICK new : /\ new = Deliver(entries, i)[i]
                   /\ new.retries = old.retries /\ new.delivered = old.delivered + 1
    <2>1. Deliver(entries, i)[i] = [old EXCEPT !.st = "leased", !.delivered = old.delivered + 1]
      BY <1>1 DEF Deliver
    <2>2. LET new == [old EXCEPT !.st = "leased", !.delivered = old.delivered + 1]
          IN  new.retries = old.retries /\ new.delivered = old.delivered + 1
      BY DEF Entries
    <2> QED BY <2>1, <2>2
  <1>4. new.retries = r /\ new.delivered = d + 1
    BY <1>2, <1>3
  <1>5. RetryCount(new) = IF r > d THEN r ELSE d
    BY <1>4 DEF RetryCount
  <1>6. NextCount(entries[i]) = IF r > d THEN r ELSE d
    BY <1>1, <1>2 DEF NextCount
  <1>7. NextCount(new) = IF r > d + 1 THEN r ELSE d + 1
    BY <1>4 DEF NextCount
  <1> QED BY <1>1, <1>2, <1>3, <1>4, <1>5, <1>6, <1>7

\* Answering, giving back and forwarding an entry leaves its counts.
LEMMA OtherCounts ==
    ASSUME NEW M, NEW entries \in Seq(Entries(M)), NEW i \in DOMAIN entries,
           NEW new \in {Settle(entries, i), GiveBack(entries, i), Forwarded(entries, i)}
    PROVE  /\ new[i].retries = entries[i].retries
           /\ new[i].delivered = entries[i].delivered
  <1>1. PICK old \in Entries(M) : old = entries[i]
    BY EntryOf
  <1>2. \A s \in EntryStates : LET e == [old EXCEPT !.st = s]
                                IN  e.retries = old.retries /\ e.delivered = old.delivered
    BY <1>1 DEF Entries
  <1>3. ASSUME NEW s \in EntryStates, new = [entries EXCEPT ![i].st = s]
        PROVE  new[i].retries = old.retries /\ new[i].delivered = old.delivered
    <2>1. new[i] = [old EXCEPT !.st = s]
      BY <1>1, <1>3
    <2> QED BY <1>2, <2>1
  <1>4. \/ new = entries
        \/ \E s \in EntryStates : new = [entries EXCEPT ![i].st = s]
    BY DEF Settle, GiveBack, Forwarded, EntryStates
  <1> QED BY <1>1, <1>3, <1>4

\* Without faults the counter of faults was zero before, and nothing is a fault.
LEMMA NoFaultStep ==
    ASSUME DataOK, [Next]_vars, faults' = 0
    PROVE  faults = 0 /\ ~Fault
  <1>1. faults \in Nat
    BY DEF DataOK
  <1>2. ~Fault
    BY <1>1 DEF Fault
  <1>3. ASSUME NEW w \in Workers, TaskStep(w) PROVE faults' = faults
    BY <1>2, <1>3 DEF TaskStep, QueueForKey, CheckDuplicate, HandlerReturns, HandlerPanics,
      RecordConsumed, SettleMessage, PublishRetry, PublishDeadLetter, Nack
  <1>4. CASE LoopStep
    BY <1>2, <1>4 DEF LoopStep, RunStep, AcquireSlot, StopFetching, FetchNothing, FetchError,
      Wake, JoinAll, FetchMessage
  <1>5. CASE SendShutdown \/ BrokerStep \/ Crash \/ UNCHANGED vars
    BY <1>2, <1>5 DEF SendShutdown, BrokerStep, LeaseExpires, ForwardRetry, Crash, vars
  <1> QED BY <1>2, <1>3, <1>4, <1>5 DEF Next, Stopped

\* A task has an entry; a worker without one has none.
LEMMA HasEntry ==
    ASSUME DataOK, NEW v \in Workers
    PROVE  /\ v \in Busy <=> task[v].entry \in DOMAIN log
           /\ v \in Busy <=> task[v].stage # "idle"
           /\ v \notin Busy => task[v].entry = 0 /\ task[v].stage = "idle"
           /\ 0 \notin DOMAIN log
  <1>1. DOMAIN log = 1..Len(log) /\ Len(log) \in Nat
    BY LenProperties DEF DataOK
  <1>2. 0 \notin DOMAIN log
    BY <1>1
  <1> QED BY <1>2 DEF DataOK, Busy, NoTask

\* No task takes up an entry, and no entry that a task keeps is touched.
LEMMA DeliveryKept ==
    ASSUME DataOK, DeliveryInv,
           \A v \in Workers : task'[v].stage # "idle" =>
              /\ task[v].stage # "idle" /\ task'[v].entry = task[v].entry
              /\ task'[v].retries = task[v].retries
              /\ log'[task[v].entry] = log[task[v].entry]
              /\ \/ task'[v].stage = task[v].stage
                 \/ task'[v].stage \notin {"publish", "nack"}
                 \/ /\ task[v].retries < MaxRetries
                    /\ task'[v].stage = "nack" => ~HasRetryPublisher
                    /\ task'[v].stage = "publish" => HasRetryPublisher,
           ~HasRetryPublisher => \A i \in DOMAIN log' : log'[i].retries = 0
    PROVE  DeliveryInv'
  <1>1. \A v \in Busy' : /\ v \in Busy /\ task'[v].entry = task[v].entry
                         /\ task'[v].retries = task[v].retries
                         /\ log'[task'[v].entry] = log[task[v].entry]
    BY DEF Busy
  <1>2. ASSUME NEW v \in Workers
        PROVE  /\ task'[v].stage \in {"publish", "nack"} => task'[v].retries < MaxRetries
               /\ task'[v].stage = "nack" => ~HasRetryPublisher
               /\ task'[v].stage = "publish" => HasRetryPublisher
    <2>1. CASE task'[v].stage \in {"publish", "nack"}
      <3>1. task'[v].stage # "idle"
        BY <2>1
      <3>2. CASE task'[v].stage = task[v].stage
        BY <3>1, <3>2 DEF DeliveryInv
      <3>3. CASE task'[v].stage # task[v].stage
        BY <2>1, <3>1, <3>3
      <3> QED BY <3>2, <3>3
    <2>2. CASE task'[v].stage \notin {"publish", "nack"}
      BY <2>2
    <2> QED BY <2>1, <2>2
  <1>3. \A v, w \in Busy' : task'[v].entry = task'[w].entry => v = w
    BY <1>1 DEF DeliveryInv
  <1>4. \A w \in Busy' : log'[task'[w].entry].st = "leased"
    BY <1>1 DEF DeliveryInv
  <1>5. ~HasRetryPublisher => /\ \A i \in DOMAIN log' : log'[i].retries = 0
                              /\ \A w \in Busy' :
                                   log'[task'[w].entry].delivered = task'[w].retries + 1
    BY <1>1 DEF DeliveryInv
  <1> QED BY <1>2, <1>3, <1>4, <1>5 DEF DeliveryInv

LEMMA BudgetType == \A m : IsFiniteSet(Copies(m)) /\ Budget(m) \in Nat
  <1> SUFFICES ASSUME NEW m PROVE IsFiniteSet(Copies(m)) /\ Budget(m) \in Nat
    OBVIOUS
  <1>1. DOMAIN Backlog = 1..Len(Backlog) /\ Len(Backlog) \in Nat
    BY ConsumerAssumption, LenProperties
  <1>2. IsFiniteSet(DOMAIN Backlog)
    BY <1>1, FS_Interval
  <1>3. IsFiniteSet(Copies(m))
    BY <1>2, FS_Subset DEF Copies
  <1>4. PICK n \in Nat : n = Cardinality(Copies(m))
    BY <1>3, FS_CardinalityType
  <1>5. (MaxRetries + 1) * n \in Nat
    BY RetryPolicyAssumption
  <1> QED BY <1>3, <1>4, <1>5 DEF Budget

\* A step on one entry of the log: no other entry changes, and a task that moves has
\* this entry or none.
OnEntry(i) ==
    /\ i \in DOMAIN log /\ DOMAIN log' = DOMAIN log
    /\ log'[i].msg = log[i].msg
    /\ \A j \in DOMAIN log : j # i => log'[j] = log[j]
    /\ \A v \in Workers : \/ task'[v] = task[v]
                          \/ task[v].entry \in {0, i} /\ task'[v].entry \in {0, i}

LEMMA ElsewhereSame ==
    ASSUME DataOK, NEW i, OnEntry(i), NEW j \in DOMAIN log, j # i, NEW k
    PROVE  Open(j, k)' <=> Open(j, k)
  <1>1. j # 0
    <2>1. PICK v : v \in Workers
      BY ConsumerAssumption
    <2> QED BY <2>1, HasEntry
  <1>2. \A v \in Workers : \/ task'[v] = task[v]
                           \/ task'[v].entry # j /\ task[v].entry # j
    BY <1>1 DEF OnEntry
  <1>3. InFlight(j)' <=> InFlight(j)
    BY <1>2 DEF InFlight
  <1>4. (\E w \in Workers : task'[w].entry = j /\ k <= TaskLeft(task'[w]))
          <=> (\E w \in Workers : task[w].entry = j /\ k <= TaskLeft(task[w]))
    BY <1>2
  <1> QED BY <1>3, <1>4 DEF Open, OnEntry

\* Such a step changes only the chances of its entry.
LEMMA ChancesOnEntry ==
    ASSUME DataOK, NEW i, OnEntry(i), NEW m, NEW c \in Chances(m)'
    PROVE  /\ c[1] # i => c \in Chances(m)
           /\ c[1] = i => /\ Open(i, c[2])' /\ c = <<i, c[2]>> /\ c[2] \in 1..(MaxRetries + 1)
                          /\ log[i].msg = m /\ i \in DOMAIN log
  <1>1. /\ c \in (DOMAIN log') \X (1..(MaxRetries + 1)) /\ log'[c[1]].msg = m
        /\ Open(c[1], c[2])'
    BY DEF Chances
  <1>2. PICK j, k : c = <<j, k>> /\ j \in DOMAIN log /\ k \in 1..(MaxRetries + 1)
    BY <1>1 DEF OnEntry
  <1>3. c[1] = j /\ c[2] = k
    BY <1>2
  <1>4. CASE j = i
    BY <1>1, <1>2, <1>3, <1>4 DEF OnEntry
  <1>5. CASE j # i
    <2>1. Open(j, k) /\ log[j].msg = m
      BY <1>1, <1>2, <1>3, <1>5, ElsewhereSame DEF OnEntry
    <2> QED BY <1>2, <1>3, <1>5, <2>1 DEF Chances
  <1> QED BY <1>4, <1>5

\* No new chance, and no call: the budget holds.
LEMMA SpentKept ==
    ASSUME DataOK, SpentInv, NEW i, OnEntry(i), runs' = runs,
           \A k \in 1..(MaxRetries + 1) : Open(i, k)' => Open(i, k)
    PROVE  SpentInv'
  <1> SUFFICES ASSUME NEW m \in Messages
               PROVE  /\ IsFiniteSet(Chances(m)')
                      /\ runs'[m] + Cardinality(Chances(m)') <= Budget(m)
    BY DEF SpentInv, Budget, Copies
  <1>1. Chances(m)' \subseteq Chances(m)
    <2> SUFFICES ASSUME NEW c \in Chances(m)' PROVE c \in Chances(m)
      OBVIOUS
    <2>1. CASE c[1] # i
      BY <2>1, ChancesOnEntry
    <2>2. CASE c[1] = i
      <3>1. PICK k \in 1..(MaxRetries + 1) : c = <<i, k>> /\ Open(i, k)
        BY <2>2, ChancesOnEntry
      <3>2. log[i].msg = m /\ i \in DOMAIN log
        BY <2>2, ChancesOnEntry
      <3> QED BY <3>1, <3>2 DEF Chances
    <2> QED BY <2>1, <2>2
  <1>2. PICK S, T : S = Chances(m)' /\ T = Chances(m)
    OBVIOUS
  <1>3. /\ IsFiniteSet(S) /\ Cardinality(S) <= Cardinality(T)
        /\ Cardinality(S) \in Nat /\ Cardinality(T) \in Nat
    BY <1>1, <1>2, FS_Subset, FS_CardinalityType DEF SpentInv
  <1>4. runs[m] + Cardinality(T) <= Budget(m) /\ runs[m] \in Nat /\ Budget(m) \in Int
    BY <1>2, BudgetType DEF SpentInv, DataOK
  <1> QED BY <1>2, <1>3, <1>4

\* A call uses up a chance.
LEMMA SpentCalled ==
    ASSUME DataOK, SpentInv, NEW i, OnEntry(i),
           NEW a \in Messages, a = log[i].msg, runs' = [runs EXCEPT ![a] = @ + 1],
           NEW n \in 1..(MaxRetries + 1), Open(i, n),
           \A k \in 1..(MaxRetries + 1) : Open(i, k)' => k < n /\ Open(i, k)
    PROVE  SpentInv'
  <1> SUFFICES ASSUME NEW m \in Messages
               PROVE  /\ IsFiniteSet(Chances(m)')
                      /\ runs'[m] + Cardinality(Chances(m)') <= Budget(m)
    BY DEF SpentInv, Budget, Copies
  <1>1. Chances(m)' \subseteq Chances(m) \ {<<i, n>>}
    <2> SUFFICES ASSUME NEW c \in Chances(m)' PROVE c \in Chances(m) /\ c # <<i, n>>
      OBVIOUS
    <2>1. CASE c[1] # i
      BY <2>1, ChancesOnEntry
    <2>2. CASE c[1] = i
      <3>1. PICK k \in 1..(MaxRetries + 1) : c = <<i, k>> /\ Open(i, k) /\ k < n
        BY <2>2, ChancesOnEntry
      <3>2. log[i].msg = m /\ i \in DOMAIN log
        BY <2>2, ChancesOnEntry
      <3> QED BY <3>1, <3>2 DEF Chances
    <2> QED BY <2>1, <2>2
  <1>2. PICK S, T : S = Chances(m)' /\ T = Chances(m)
    OBVIOUS
  <1>3. runs[m] + Cardinality(T) <= Budget(m) /\ runs[m] \in Nat /\ Budget(m) \in Int
        /\ IsFiniteSet(T)
    BY <1>2, BudgetType DEF SpentInv, DataOK
  <1>4. CASE m = a
    <2>1. <<i, n>> \in T
      BY <1>2, <1>4 DEF Chances, OnEntry
    <2>2. /\ IsFiniteSet(T \ {<<i, n>>})
          /\ Cardinality(T \ {<<i, n>>}) = Cardinality(T) - 1
      BY <1>3, <2>1, FS_RemoveElement
    <2>3. IsFiniteSet(S) /\ Cardinality(S) <= Cardinality(T \ {<<i, n>>})
      BY <1>1, <1>2, <2>2, FS_Subset
    <2>4. runs'[m] = runs[m] + 1
      BY <1>4 DEF DataOK
    <2>5. Cardinality(S) \in Nat /\ Cardinality(T) \in Nat
      BY <1>3, <2>3, FS_CardinalityType
    <2> QED BY <1>2, <1>3, <2>2, <2>3, <2>4, <2>5
  <1>5. CASE m # a
    <2>1. IsFiniteSet(S) /\ Cardinality(S) <= Cardinality(T)
      BY <1>1, <1>2, <1>3, FS_Subset
    <2>2. Cardinality(S) \in Nat /\ Cardinality(T) \in Nat
      BY <1>3, <2>1, FS_CardinalityType
    <2>3. runs'[m] = runs[m]
      BY <1>5 DEF DataOK
    <2> QED BY <1>2, <1>3, <2>1, <2>2, <2>3
  <1> QED BY <1>4, <1>5

\* The retry copy takes over what its original had left (publish_retry).
LEMMA SpentRetried ==
    ASSUME DataOK, DeliveryInv, SpentInv, NEW w \in Workers, task[w].stage = "publish",
           log' = Append(log, RetryCopy(Message(w), task[w].retries + 1)),
           task' = [task EXCEPT ![w].stage = "ackRetry"], runs' = runs
    PROVE  SpentInv'
  <1>1. PICK e, a, r : e = task[w].entry /\ a = Message(w) /\ r = task[w].retries + 1
    OBVIOUS
  <1>2. /\ e \in DOMAIN log /\ a \in Messages /\ r \in Nat /\ log[e].msg = a
        /\ w \in Busy
    BY <1>1, BusyTask DEF Message, Busy
  <1>3. PICK new : new = Len(log) + 1
    OBVIOUS
  <1>4. /\ DOMAIN log = 1..Len(log) /\ Len(log) \in Nat /\ new \notin DOMAIN log
        /\ DOMAIN log' = DOMAIN log \cup {new}
        /\ \A j \in DOMAIN log : log'[j] = log[j]
        /\ log'[new].msg = a /\ NextCount(log'[new]) = r
    <2>1. /\ DOMAIN log = 1..Len(log) /\ Len(log) \in Nat
          /\ DOMAIN log' = 1..(Len(log) + 1)
          /\ \A j \in DOMAIN log : log'[j] = log[j]
      BY <1>1, <1>2, AppendLemma DEF DataOK
    <2>2. log'[new] = RetryCopy(a, r)
      BY <1>1, <1>2, <1>3, AppendProperties DEF DataOK
    <2>3. NextCount(RetryCopy(a, r)) = r /\ RetryCopy(a, r).msg = a
      BY <1>2 DEF RetryCopy, NextCount
    <2> QED BY <1>3, <2>1, <2>2, <2>3
  <1>5. /\ task'[w].stage = "ackRetry" /\ task'[w].entry = e
        /\ \A v \in Workers \ {w} : task'[v] = task[v]
        /\ \A v \in Workers : task[v].entry = e => v = w
    <2>1. \A v \in Workers : task[v].entry = e => v = w
      BY <1>1, <1>2, HasEntry DEF DeliveryInv
    <2> QED BY <1>1, <2>1 DEF DataOK
  <1>6. \A k : Open(e, k) <=> k <= Left(r)
    BY <1>1, <1>5 DEF Open, InFlight, TaskLeft
  <1>7. ASSUME NEW k \in 1..(MaxRetries + 1) PROVE ~Open(e, k)'
    <2>1. TaskLeft(task'[w]) = 0
      BY <1>5 DEF TaskLeft
    <2>2. InFlight(e)'
      BY <1>5 DEF InFlight
    <2>3. \A v \in Workers : task'[v].entry = e => v = w
      BY <1>5
    <2>4. ~(k <= 0)
      OBVIOUS
    <2> QED BY <2>1, <2>2, <2>3, <2>4 DEF Open
  <1>8. ~InFlight(new)' /\ \A v \in Workers : task'[v].entry # new
    <2>1. ASSUME NEW v \in Workers PROVE task'[v].entry # new
      <3>1. task'[v].entry = task[v].entry
        BY <1>1, <1>5
      <3>2. task[v].entry \in DOMAIN log \/ task[v].entry = 0
        BY HasEntry
      <3> QED BY <1>3, <1>4, <3>1, <3>2
    <2> QED BY <2>1 DEF InFlight
  <1>9. \A k : Open(new, k)' => k <= Left(r)
    BY <1>4, <1>8 DEF Open
  <1>10. ASSUME NEW j \in DOMAIN log, j # e, NEW k
         PROVE  Open(j, k)' <=> Open(j, k)
    <2>1. \A v \in Workers : \/ task'[v] = task[v]
                             \/ task'[v].entry # j /\ task[v].entry # j
      BY <1>1, <1>5, <1>10
    <2>2. InFlight(j)' <=> InFlight(j)
      BY <2>1 DEF InFlight
    <2>3. (\E v \in Workers : task'[v].entry = j /\ k <= TaskLeft(task'[v]))
            <=> (\E v \in Workers : task[v].entry = j /\ k <= TaskLeft(task[v]))
      BY <2>1
    <2> QED BY <1>4, <2>2, <2>3 DEF Open
  <1> SUFFICES ASSUME NEW m \in Messages
               PROVE  /\ IsFiniteSet(Chances(m)')
                      /\ runs'[m] + Cardinality(Chances(m)') <= Budget(m)
    BY DEF SpentInv, Budget, Copies
  <1>11. PICK S, T : S = Chances(m)' /\ T = Chances(m)
    OBVIOUS
  <1> DEFINE f == [c \in S |-> IF c[1] = new THEN <<e, c[2]>> ELSE c]
  <1>12. ASSUME NEW c \in S
         PROVE  \E j \in DOMAIN log \cup {new}, k \in 1..(MaxRetries + 1) :
                   /\ c = <<j, k>> /\ c[1] = j /\ c[2] = k /\ j # e
                   /\ j = new => m = a /\ Open(e, k)
                   /\ j # new => c \in T
    <2>1. /\ c \in (DOMAIN log') \X (1..(MaxRetries + 1)) /\ log'[c[1]].msg = m
          /\ Open(c[1], c[2])'
      BY <1>11 DEF Chances
    <2>2. PICK j, k : c = <<j, k>> /\ j \in DOMAIN log' /\ k \in 1..(MaxRetries + 1)
      BY <2>1
    <2>3. c[1] = j /\ c[2] = k /\ Open(j, k)' /\ log'[j].msg = m
      BY <2>1, <2>2
    <2>4. j # e
      BY <1>7, <2>2, <2>3
    <2>5. j = new => m = a /\ Open(e, k)
      BY <1>4, <1>6, <1>9, <2>3
    <2>6. j # new => c \in T
      <3>1. j # new => j \in DOMAIN log /\ Open(j, k) /\ log[j].msg = m
        BY <1>4, <1>10, <2>2, <2>3, <2>4
      <3> QED BY <1>11, <2>2, <2>3, <3>1 DEF Chances
    <2> QED BY <1>4, <2>2, <2>3, <2>4, <2>5, <2>6
  <1>13. f \in [S -> T]
    <2> SUFFICES ASSUME NEW c \in S PROVE f[c] \in T
      OBVIOUS
    <2>1. PICK j \in DOMAIN log \cup {new}, k \in 1..(MaxRetries + 1) :
             /\ c = <<j, k>> /\ c[1] = j /\ c[2] = k /\ j # e
             /\ j = new => m = a /\ Open(e, k)
             /\ j # new => c \in T
      BY <1>12
    <2>2. CASE j = new
      <3>1. <<e, k>> \in T
        BY <1>2, <1>11, <2>1, <2>2 DEF Chances
      <3> QED BY <2>1, <2>2, <3>1
    <2>3. CASE j # new
      BY <2>1, <2>3
    <2> QED BY <2>2, <2>3
  <1>14. IsInjective(f)
    <2> SUFFICES ASSUME NEW c \in S, NEW d \in S, f[c] = f[d] PROVE c = d
      BY <1>13 DEF IsInjective
    <2>1. PICK j, k : c = <<j, k>> /\ c[1] = j /\ c[2] = k /\ j # e
      BY <1>12
    <2>2. PICK l, n : d = <<l, n>> /\ d[1] = l /\ d[2] = n /\ l # e
      BY <1>12
    <2>3. f[c] = (IF j = new THEN <<e, k>> ELSE <<j, k>>)
          /\ f[d] = (IF l = new THEN <<e, n>> ELSE <<l, n>>)
      BY <2>1, <2>2
    <2>4. k = n /\ j = l
      BY <2>1, <2>2, <2>3
    <2> QED BY <2>1, <2>2, <2>4
  <1> HIDE DEF f
  <1>15. /\ IsFiniteSet(T) /\ runs[m] + Cardinality(T) <= Budget(m) /\ runs[m] \in Nat
         /\ Budget(m) \in Int
    BY <1>11, BudgetType DEF SpentInv, DataOK
  <1>16. IsFiniteSet(S) /\ Cardinality(S) <= Cardinality(T)
    <2>1. f \in Injection(S, T)
      BY <1>13, <1>14 DEF Injection
    <2> QED BY <1>15, <2>1, FS_Injection
  <1>17. Cardinality(S) \in Nat /\ Cardinality(T) \in Nat
    BY <1>15, <1>16, FS_CardinalityType
  <1> QED BY <1>11, <1>15, <1>16, <1>17

\* The chances of an entry that a task works on are those of the task.
LEMMA TaskOpen ==
    ASSUME DataOK, DeliveryInv, NEW w \in Busy, NEW e, e = task[w].entry
    PROVE  /\ w \in Workers /\ e \in DOMAIN log /\ task[w].retries \in Nat
           /\ \A v \in Workers : task[v].entry = e => v = w
           /\ \A k : Open(e, k) <=> k <= TaskLeft(task[w])
  <1>1. w \in Workers /\ e \in DOMAIN log /\ task[w].retries \in Nat
    BY BusyTask DEF Busy
  <1>2. \A v \in Workers : task[v].entry = e => v = w
    BY <1>1, HasEntry DEF DeliveryInv
  <1>3. \A k : Open(e, k) <=> k <= TaskLeft(task[w])
    BY <1>1, <1>2 DEF Open, InFlight
  <1> QED BY <1>1, <1>2, <1>3

\* The same after a step in which the task goes on ...
LEMMA StageStep ==
    ASSUME DataOK, DeliveryInv, NEW w \in Busy, NEW e, e = task[w].entry, NEW s,
           task' = [task EXCEPT ![w].stage = s], log' = log
    PROVE  /\ OnEntry(e)
           /\ task'[w].stage = s /\ task'[w].retries = task[w].retries
           /\ task'[w].entry = e /\ \A v \in Workers \ {w} : task'[v] = task[v]
           /\ \A k : Open(e, k)' <=> k <= TaskLeft(task'[w])
  <1>1. w \in Workers /\ e \in DOMAIN log /\ \A v \in Workers : task[v].entry = e => v = w
    BY TaskOpen
  <1>2. /\ task'[w].stage = s /\ task'[w].retries = task[w].retries
        /\ task'[w].entry = e /\ \A v \in Workers \ {w} : task'[v] = task[v]
    BY <1>1 DEF DataOK
  <1>3. OnEntry(e)
    BY <1>1, <1>2 DEF OnEntry
  <1>4. \A v \in Workers : task'[v].entry = e => v = w
    BY <1>1, <1>2
  <1>5. \A k : Open(e, k)' <=> k <= TaskLeft(task'[w])
    BY <1>1, <1>2, <1>4 DEF Open, InFlight
  <1> QED BY <1>2, <1>3, <1>5

\* ... and when it ends, and the entry waits for its next delivery, if there is one.
LEMMA EndStep ==
    ASSUME DataOK, DeliveryInv, NEW w \in Busy, NEW e, e = task[w].entry,
           Finish(w), SameBut(log, log', e)
    PROVE  /\ OnEntry(e)
           /\ task'[w].stage = "idle" /\ \A v \in Workers \ {w} : task'[v] = task[v]
           /\ \A k : Open(e, k)' <=> log'[e].st # "done" /\ k <= Left(NextCount(log'[e]))
  <1>1. w \in Workers /\ e \in DOMAIN log /\ \A v \in Workers : task[v].entry = e => v = w
    BY TaskOpen
  <1>2. /\ task'[w].stage = "idle" /\ task'[w].entry = 0
        /\ \A v \in Workers \ {w} : task'[v] = task[v]
    BY <1>1 DEF DataOK, Finish, NoTask
  <1>3. OnEntry(e)
    BY <1>1, <1>2 DEF OnEntry, SameBut
  <1>4. \A v \in Workers : task'[v].entry # e
    BY <1>1, <1>2, HasEntry
  <1>5. \A k : Open(e, k)' <=> log'[e].st # "done" /\ k <= Left(NextCount(log'[e]))
    BY <1>4 DEF Open, InFlight
  <1> QED BY <1>2, <1>3, <1>5

Spent == DeliveryInv /\ SpentInv

\* A task that goes on without a call, and has not more left than before.
LEMMA StageKeeps ==
    ASSUME DataOK, Spent, NEW w \in Busy, NEW s \in {"locking", "handling", "ack", "term"},
           s \in {"locking", "handling"} => task[w].stage \in {"spawned", "locking"},
           task' = [task EXCEPT ![w].stage = s], log' = log, runs' = runs
    PROVE  Spent'
  <1>1. PICK e : e = task[w].entry
    OBVIOUS
  <1>2. /\ OnEntry(e)
        /\ task'[w].stage = s /\ task'[w].retries = task[w].retries
        /\ task'[w].entry = e /\ \A v \in Workers \ {w} : task'[v] = task[v]
        /\ \A k : Open(e, k)' <=> k <= TaskLeft(task'[w])
    BY <1>1, StageStep DEF Spent
  <1>3. \A k : Open(e, k) <=> k <= TaskLeft(task[w])
    BY <1>1, TaskOpen DEF Spent
  <1>4. \A k \in 1..(MaxRetries + 1) : Open(e, k)' => Open(e, k)
    <2>1. CASE s \in {"locking", "handling"}
      <3>1. TaskLeft(task'[w]) = TaskLeft(task[w])
        BY <1>2, <2>1 DEF TaskLeft
      <3> QED BY <1>2, <1>3, <3>1
    <2>2. CASE s \in {"ack", "term"}
      <3>1. TaskLeft(task'[w]) = 0
        BY <1>2, <2>2 DEF TaskLeft
      <3> QED BY <1>2, <3>1
    <2> QED BY <2>1, <2>2
  <1>5. SpentInv'
    BY <1>2, <1>4, SpentKept DEF Spent
  <1>6. DeliveryInv'
    <2>1. \A v \in Workers : task'[v].stage # "idle" =>
              /\ task[v].stage # "idle" /\ task'[v].entry = task[v].entry
              /\ task'[v].retries = task[v].retries
              /\ log'[task[v].entry] = log[task[v].entry]
              /\ \/ task'[v].stage = task[v].stage
                 \/ task'[v].stage \notin {"publish", "nack"}
      BY <1>1, <1>2, HasEntry
    <2>2. ~HasRetryPublisher => \A i \in DOMAIN log' : log'[i].retries = 0
      BY DEF Spent, DeliveryInv
    <2> QED BY <2>1, <2>2, DeliveryKept DEF Spent
  <1> QED BY <1>5, <1>6 DEF Spent

\* A task that ends keeps the tasks and the entries of the others.
LEMMA EndDelivery ==
    ASSUME DataOK, DeliveryInv, NEW w \in Busy, NEW e, e = task[w].entry,
           Finish(w), SameBut(log, log', e), log'[e].retries = log[e].retries
    PROVE  DeliveryInv'
  <1>1. task'[w].stage = "idle" /\ \A v \in Workers \ {w} : task'[v] = task[v]
    BY EndStep
  <1>2. \A v \in Workers : task[v].entry = e => v = w
    BY TaskOpen
  <1>3. \A v \in Workers : task'[v].stage # "idle" =>
            /\ task[v].stage # "idle" /\ task'[v].entry = task[v].entry
            /\ task'[v].retries = task[v].retries
            /\ log'[task[v].entry] = log[task[v].entry]
            /\ task'[v].stage = task[v].stage
    BY <1>1, <1>2, HasEntry DEF SameBut
  <1>4. ~HasRetryPublisher => \A i \in DOMAIN log' : log'[i].retries = 0
    BY DEF SameBut, DeliveryInv
  <1> QED BY <1>3, <1>4, DeliveryKept

\* Without a retry publisher the next delivery counts one more than the task did.
LEMMA NativeCount ==
    ASSUME DataOK, DeliveryInv, ~HasRetryPublisher, NEW w \in Busy, NEW e, e = task[w].entry
    PROVE  log[e].retries = 0 /\ log[e].delivered = task[w].retries + 1
  BY TaskOpen DEF DeliveryInv

\* What a handler call leaves of its task: an answer, a burial, or a retry that counts.
LEMMA HandlerSpends ==
    ASSUME DataOK, Spent, EnableDlq, HasDeadLetterPublisher, NEW w \in Workers,
           HandlerReturns(w)
    PROVE  Spent'
  <1>1. PICK e, a, r : e = task[w].entry /\ a = Message(w) /\ r = task[w].retries
    OBVIOUS
  <1>2. /\ w \in Busy /\ a \in Messages /\ a = log[e].msg /\ r \in Nat /\ e \in DOMAIN log
        /\ task[w].stage = "handling" /\ log' = log
        /\ runs' = [runs EXCEPT ![a] = @ + 1]
    BY <1>1, BusyTask DEF HandlerReturns, Busy, Message
  <1>3. PICK n \in 1..(MaxRetries + 1) : n = Left(r) /\ (r < MaxRetries => Left(r + 1) < n)
    <2>1. Left(r) \in 1..(MaxRetries + 1)
      BY <1>2, LeftLemma
    <2>2. r < MaxRetries => Left(r + 1) < Left(r)
      <3>1. r + 1 \in Nat
        BY <1>2
      <3>2. Left(r + 1) \in 1..(MaxRetries + 1)
        BY <3>1, LeftLemma
      <3>3. r < MaxRetries => Left(r) = Left(r + 1) + 1
        BY <1>2, LeftLemma
      <3> QED BY <3>2, <3>3
    <2> QED BY <2>1, <2>2
  <1>4. Open(e, n)  /\ \A k : Open(e, k) <=> k <= n
    <2>1. TaskLeft(task[w]) = n
      BY <1>1, <1>2, <1>3 DEF TaskLeft
    <2>2. n <= n
      OBVIOUS
    <2> QED BY <1>1, <1>2, <2>1, <2>2, TaskOpen DEF Spent
  <1>5. ASSUME OnEntry(e), \A k \in 1..(MaxRetries + 1) : Open(e, k)' => k < n
        PROVE  SpentInv'
    <2>1. \A k \in 1..(MaxRetries + 1) : Open(e, k)' => k < n /\ Open(e, k)
      BY <1>4, <1>5
    <2> QED BY <1>2, <1>4, <1>5, <2>1, SpentCalled DEF Spent
  <1>6. ASSUME NEW s \in {"record", "ack", "bury", "publish", "nack"}, Advance(w, s),
               s \in {"publish", "nack"} => r < MaxRetries,
               s = "nack" => ~HasRetryPublisher, s = "publish" => HasRetryPublisher
        PROVE  Spent'
    <2>1. /\ OnEntry(e)
          /\ task'[w].stage = s /\ task'[w].retries = r
          /\ task'[w].entry = e /\ \A v \in Workers \ {w} : task'[v] = task[v]
          /\ \A k : Open(e, k)' <=> k <= TaskLeft(task'[w])
      BY <1>1, <1>2, <1>6, StageStep DEF Spent, Advance
    <2>2. \A k \in 1..(MaxRetries + 1) : Open(e, k)' => k < n
      <3>1. CASE s \in {"record", "ack", "bury"}
        <4>1. TaskLeft(task'[w]) = 0
          BY <2>1, <3>1 DEF TaskLeft
        <4> QED BY <2>1, <4>1
      <3>2. CASE s \in {"publish", "nack"}
        <4>1. TaskLeft(task'[w]) = Left(r + 1)
          BY <2>1, <3>2 DEF TaskLeft
        <4>2. Left(r + 1) \in Nat /\ Left(r + 1) < n
          BY <1>2, <1>3, <1>6, <3>2, LeftLemma
        <4> QED BY <2>1, <4>1, <4>2
      <3> QED BY <3>1, <3>2
    <2>3. SpentInv'
      BY <1>5, <2>1, <2>2
    <2>4. DeliveryInv'
      <3>1. \A v \in Workers : task'[v].stage # "idle" =>
              /\ task[v].stage # "idle" /\ task'[v].entry = task[v].entry
              /\ task'[v].retries = task[v].retries
              /\ log'[task[v].entry] = log[task[v].entry]
              /\ \/ task'[v].stage = task[v].stage
                 \/ task'[v].stage \notin {"publish", "nack"}
                 \/ /\ task[v].retries < MaxRetries
                    /\ task'[v].stage = "nack" => ~HasRetryPublisher
                    /\ task'[v].stage = "publish" => HasRetryPublisher
        BY <1>1, <1>2, <1>6, <2>1
      <3>2. ~HasRetryPublisher => \A i \in DOMAIN log' : log'[i].retries = 0
        BY <1>2 DEF Spent, DeliveryInv
      <3> QED BY <3>1, <3>2, DeliveryKept DEF Spent
    <2> QED BY <2>3, <2>4 DEF Spent
  <1>7. ASSUME Finish(w), r < MaxRetries, ~HasRetryPublisher
        PROVE  Spent'
    <2>1. SameBut(log, log', e)
      BY <1>2 DEF SameBut
    <2>2. /\ OnEntry(e)
          /\ \A k : Open(e, k)' <=> log'[e].st # "done" /\ k <= Left(NextCount(log'[e]))
      BY <1>1, <1>2, <1>7, <2>1, EndStep DEF Spent
    <2>3. NextCount(log'[e]) = r + 1
      BY <1>1, <1>2, <1>7, NativeCount DEF Spent, NextCount
    <2>4. \A k \in 1..(MaxRetries + 1) : Open(e, k)' => k < n
      <3>1. Left(r + 1) \in Nat /\ Left(r + 1) < n
        BY <1>2, <1>3, <1>7, LeftLemma
      <3> QED BY <2>2, <2>3, <3>1
    <2>5. DeliveryInv'
      BY <1>1, <1>2, <1>7, <2>1, EndDelivery DEF Spent
    <2> QED BY <1>5, <2>2, <2>4, <2>5 DEF Spent
  <1>8. PICK verdict \in Verdicts :
           IF verdict = "Ack" THEN Accept(w) ELSE Reject(w, verdict)
    BY DEF HandlerReturns
  <1>9. CASE Accept(w)
    <2>1. \E s \in {"record", "ack"} : Advance(w, s)
      BY <1>9 DEF Accept
    <2> QED BY <1>6, <2>1
  <1>10. CASE Reject(w, verdict)
    <2>1. PICK action : action = FailureAction(verdict, r)
      OBVIOUS
    <2>2. action \in {"Retry", "DeadLetter"} /\ (action = "Retry" => r < MaxRetries)
      BY <2>1 DEF FailureAction, RetryOrDeadLetter, DeadLetterOrRetry
    <2>3. \/ action = "Retry" /\ HasRetryPublisher /\ Advance(w, "publish")
          \/ action = "DeadLetter" /\ Advance(w, "bury")
          \/ action = "Retry" /\ ~HasRetryPublisher /\ (Advance(w, "nack") \/ Finish(w))
      BY <1>1, <1>10, <2>1, <2>2 DEF Reject
    <2> QED BY <1>6, <1>7, <2>2, <2>3
  <1> QED BY <1>8, <1>9, <1>10

\* An acknowledgement, a term or a nack, and the end of its task.
LEMMA AnswerSpends ==
    ASSUME DataOK, Spent, NEW w \in Workers, SettleMessage(w) \/ Nack(w), ~Fault
    PROVE  Spent'
  <1>1. PICK e, r : e = task[w].entry /\ r = task[w].retries
    OBVIOUS
  <1>2. /\ w \in Busy /\ e \in DOMAIN log /\ r \in Nat /\ Finish(w) /\ runs' = runs
        /\ task[w].stage # "idle"
    BY <1>1, BusyTask DEF SettleMessage, Nack, Busy, history
  <1>3. \/ log' = Settle(log, e)
        \/ task[w].stage = "nack" /\ log' = GiveBack(log, e)
    BY <1>1 DEF SettleMessage, Nack
  <1>4. /\ SameBut(log, log', e)
        /\ log'[e].retries = log[e].retries /\ log'[e].delivered = log[e].delivered
    <2>1. SameBut(log, log', e)
      BY <1>2, <1>3, SettleLemma, GiveBackLemma DEF DataOK
    <2>2. log' \in {Settle(log, e), GiveBack(log, e), Forwarded(log, e)}
      BY <1>3
    <2> QED BY <1>2, <2>1, <2>2, OtherCounts DEF DataOK
  <1>5. /\ OnEntry(e)
        /\ \A k : Open(e, k)' <=> log'[e].st # "done" /\ k <= Left(NextCount(log'[e]))
    BY <1>1, <1>2, <1>4, EndStep DEF Spent
  <1>6. \A k \in 1..(MaxRetries + 1) : Open(e, k)' => Open(e, k)
    <2>1. CASE log' = Settle(log, e)
      <3>1. log'[e].st = "done"
        BY <1>2, <2>1, SettleLemma DEF DataOK
      <3> QED BY <1>5, <3>1
    <2>2. CASE task[w].stage = "nack"
      <3>1. ~HasRetryPublisher
        BY <2>2 DEF Spent, DeliveryInv
      <3>2. NextCount(log'[e]) = r + 1
        BY <1>1, <1>2, <1>4, <3>1, NativeCount DEF Spent, NextCount
      <3>3. TaskLeft(task[w]) = Left(r + 1)
        BY <1>1, <2>2 DEF TaskLeft
      <3>4. \A k : Open(e, k) <=> k <= TaskLeft(task[w])
        BY <1>1, <1>2, TaskOpen DEF Spent
      <3> QED BY <1>5, <3>2, <3>3, <3>4
    <2> QED BY <1>3, <2>1, <2>2
  <1>7. SpentInv'
    BY <1>2, <1>5, <1>6, SpentKept DEF Spent
  <1>8. DeliveryInv'
    BY <1>1, <1>2, <1>4, EndDelivery DEF Spent
  <1> QED BY <1>7, <1>8 DEF Spent

LEMMA RetrySpends ==
    ASSUME DataOK, Spent, NEW w \in Workers, PublishRetry(w), ~Fault
    PROVE  Spent'
  <1>1. /\ task[w].stage = "publish" /\ task' = [task EXCEPT ![w].stage = "ackRetry"]
        /\ log' = Append(log, RetryCopy(Message(w), task[w].retries + 1)) /\ runs' = runs
    BY DEF PublishRetry, Advance, history
  <1>2. SpentInv'
    BY <1>1, SpentRetried DEF Spent
  <1>3. \A j \in DOMAIN log : log'[j] = log[j]
    <2>1. Message(w) \in Messages /\ task[w].retries + 1 \in Nat
      BY <1>1, BusyTask
    <2> QED BY <1>1, <2>1, AppendLemma DEF DataOK
  <1>4. /\ task'[w].stage = "ackRetry" /\ task'[w].entry = task[w].entry
        /\ task'[w].retries = task[w].retries
        /\ \A v \in Workers \ {w} : task'[v] = task[v]
    BY <1>1 DEF DataOK
  <1>5. \A v \in Workers : task'[v].stage # "idle" =>
            /\ task[v].stage # "idle" /\ task'[v].entry = task[v].entry
            /\ task'[v].retries = task[v].retries
            /\ log'[task[v].entry] = log[task[v].entry]
            /\ \/ task'[v].stage = task[v].stage
               \/ task'[v].stage \notin {"publish", "nack"}
    <2> SUFFICES ASSUME NEW v \in Workers, task'[v].stage # "idle"
                 PROVE  /\ task[v].stage # "idle" /\ task'[v].entry = task[v].entry
                        /\ task'[v].retries = task[v].retries
                        /\ log'[task[v].entry] = log[task[v].entry]
                        /\ \/ task'[v].stage = task[v].stage
                           \/ task'[v].stage \notin {"publish", "nack"}
      OBVIOUS
    <2>1. task[v].stage # "idle"
      BY <1>1, <1>4
    <2>2. task[v].entry \in DOMAIN log
      BY <2>1, BusyTask
    <2> QED BY <1>3, <1>4, <2>1, <2>2
  <1>6. HasRetryPublisher
    BY <1>1 DEF Spent, DeliveryInv
  <1>7. DeliveryInv'
    BY <1>5, <1>6, DeliveryKept DEF Spent
  <1> QED BY <1>2, <1>7 DEF Spent

\* A delivery turns what the entry had left into what the task has left.
LEMMA FetchSpends ==
    ASSUME DataOK, Spent, NEW w \in Workers, FetchMessage(w)
    PROVE  Spent'
  <1>1. PICK i \in Deliverable(log) :
          /\ log' = Deliver(log, i)
          /\ task' = [task EXCEPT ![w] = [stage |-> "spawned", entry |-> i,
                                          retries |-> RetryCount(log'[i])]]
    BY DEF FetchMessage
  <1>2. /\ i \in DOMAIN log /\ SameBut(log, log', i)
        /\ log[i].st = "ready" /\ log'[i].st = "leased"
    BY <1>1, DeliverLemma DEF DataOK
  <1>3. /\ log'[i].retries = log[i].retries /\ log'[i].delivered = log[i].delivered + 1
        /\ RetryCount(log'[i]) = NextCount(log[i]) /\ NextCount(log[i]) \in Nat
    BY <1>1, DeliverCounts DEF DataOK
  <1>4. /\ task[w].stage = "idle" /\ task[w].entry = 0 /\ runs' = runs
    BY DEF FetchMessage, NoTask, history
  <1>5. PICK r \in Nat : r = NextCount(log[i])
    BY <1>3
  <1>6. /\ task'[w].stage = "spawned" /\ task'[w].entry = i /\ task'[w].retries = r
        /\ \A v \in Workers \ {w} : task'[v] = task[v]
    <2>1. task' = [task EXCEPT ![w] = [stage |-> "spawned", entry |-> i, retries |-> r]]
      BY <1>1, <1>3, <1>5
    <2> QED BY <2>1 DEF DataOK
  <1>7. \A v \in Workers : task[v].entry # i
    BY <1>2, HasEntry DEF Spent, DeliveryInv
  <1>8. OnEntry(i)
    BY <1>2, <1>4, <1>6 DEF OnEntry, SameBut
  <1>9. \A k : Open(i, k)' => Open(i, k)
    <2>1. ~InFlight(i) /\ \A k : Open(i, k) <=> k <= Left(r)
      BY <1>2, <1>5, <1>7 DEF InFlight, Open
    <2>2. TaskLeft(task'[w]) = Left(r)
      BY <1>6 DEF TaskLeft
    <2>3. InFlight(i)' /\ \A v \in Workers : task'[v].entry = i => v = w
      BY <1>6, <1>7 DEF InFlight
    <2> QED BY <2>1, <2>2, <2>3 DEF Open
  <1>10. SpentInv'
    BY <1>4, <1>8, <1>9, SpentKept DEF Spent
  <1>11. \A v \in Busy' : v # w => /\ v \in Busy /\ task'[v] = task[v]
                                   /\ log'[task[v].entry] = log[task[v].entry]
                                   /\ task[v].entry # i
    <2> SUFFICES ASSUME NEW v \in Busy', v # w
                 PROVE  /\ v \in Busy /\ task'[v] = task[v]
                        /\ log'[task[v].entry] = log[task[v].entry]
                        /\ task[v].entry # i
      OBVIOUS
    <2>1. v \in Busy /\ v \in Workers /\ task'[v] = task[v]
      BY <1>6 DEF Busy
    <2>2. task[v].entry \in DOMAIN log /\ task[v].entry # i
      BY <1>7, <2>1, HasEntry
    <2> QED BY <1>2, <2>1, <2>2 DEF SameBut
  <1>12. \A v, u \in Busy' : task'[v].entry = task'[u].entry => v = u
    BY <1>6, <1>11 DEF Spent, DeliveryInv
  <1>13. \A v \in Busy' : log'[task'[v].entry].st = "leased"
    BY <1>2, <1>6, <1>11 DEF Spent, DeliveryInv
  <1>14. ASSUME ~HasRetryPublisher
         PROVE  /\ \A j \in DOMAIN log' : log'[j].retries = 0
                /\ \A v \in Busy' : log'[task'[v].entry].delivered = task'[v].retries + 1
    <2>1. \A j \in DOMAIN log : log[j].retries = 0
      BY <1>14 DEF Spent, DeliveryInv
    <2>2. \A j \in DOMAIN log' : log'[j].retries = 0
      BY <1>2, <1>3, <2>1 DEF SameBut
    <2>3. log'[i].delivered = r + 1
      <3>1. PICK d \in Nat : d = log[i].delivered
        BY <1>2, EntryOf, MaxDeliverAssumption DEF DataOK
      <3>2. r = d
        BY <1>2, <1>5, <2>1, <3>1 DEF NextCount
      <3> QED BY <1>3, <3>1, <3>2
    <2>4. \A v \in Busy : log[task[v].entry].delivered = task[v].retries + 1
      BY <1>14 DEF Spent, DeliveryInv
    <2>5. \A v \in Busy' : log'[task'[v].entry].delivered = task'[v].retries + 1
      BY <1>6, <1>11, <2>3, <2>4
    <2> QED BY <2>2, <2>5
  <1>15. \A v \in Workers :
            /\ task'[v].stage \in {"publish", "nack"} => task'[v].retries < MaxRetries
            /\ task'[v].stage = "nack" => ~HasRetryPublisher
            /\ task'[v].stage = "publish" => HasRetryPublisher
    BY <1>6 DEF Spent, DeliveryInv
  <1>16. DeliveryInv'
    BY <1>12, <1>13, <1>14, <1>15 DEF DeliveryInv
  <1> QED BY <1>10, <1>16 DEF Spent

\* A step of the broker, or a delivery that is dropped, on an entry without a task.
LEMMA BrokerSpends ==
    ASSUME DataOK, Spent, NEW i \in DOMAIN log, ~InFlight(i), task' = task, runs' = runs,
           SameBut(log, log', i), log'[i].retries = log[i].retries,
           NextCount(log[i]) \in Nat, NextCount(log'[i]) \in Nat,
           NextCount(log[i]) <= NextCount(log'[i]),
           log[i].st # "done"
    PROVE  Spent'
  <1>1. OnEntry(i)
    BY DEF OnEntry, SameBut
  <1>2. ~InFlight(i)' /\ \A v \in Workers : task'[v].entry # i /\ task[v].entry # i
    BY DEF InFlight
  <1>3. PICK a \in Nat, b \in Nat : a = NextCount(log[i]) /\ b = NextCount(log'[i]) /\ a <= b
    OBVIOUS
  <1>4. Left(b) <= Left(a) /\ Left(a) \in Nat /\ Left(b) \in Nat
    BY <1>3, LeftLemma
  <1>5. \A k \in 1..(MaxRetries + 1) : Open(i, k)' => Open(i, k)
    BY <1>2, <1>3, <1>4 DEF Open
  <1>6. SpentInv'
    BY <1>1, <1>5, SpentKept DEF Spent
  <1>7. \A v \in Workers : task'[v].stage # "idle" =>
            /\ task[v].stage # "idle" /\ task'[v].entry = task[v].entry
            /\ task'[v].retries = task[v].retries
            /\ log'[task[v].entry] = log[task[v].entry]
            /\ task'[v].stage = task[v].stage
    BY <1>2, HasEntry DEF SameBut
  <1>8. ~HasRetryPublisher => \A j \in DOMAIN log' : log'[j].retries = 0
    BY DEF Spent, DeliveryInv, SameBut
  <1>9. DeliveryInv'
    BY <1>7, <1>8, DeliveryKept DEF Spent
  <1> QED BY <1>6, <1>9 DEF Spent

\* Nobody works, and no entry changes.
LEMMA QuietSpends ==
    ASSUME Spent, UNCHANGED <<log, task, runs>>
    PROVE  Spent'
  <1>1. \A j, k : Open(j, k)' <=> Open(j, k)
    BY DEF Open, InFlight
  <1>2. \A m : Chances(m)' = Chances(m)
    BY <1>1 DEF Chances
  <1>3. SpentInv'
    BY <1>2 DEF Spent, SpentInv, Budget, Copies
  <1>4. DeliveryInv'
    BY DEF Spent, DeliveryInv, Busy
  <1> QED BY <1>3, <1>4 DEF Spent

LEMMA TaskSpends ==
    ASSUME DataOK, Spent, EnableDlq, HasDeadLetterPublisher, ~Fault,
           NEW w \in Workers, TaskStep(w)
    PROVE  Spent'
  <1>1. ASSUME task[w].stage # "idle", NEW s \in {"locking", "handling", "ack", "term"},
               s \in {"locking", "handling"} => task[w].stage \in {"spawned", "locking"},
               task' = [task EXCEPT ![w].stage = s], UNCHANGED <<log, runs>>
        PROVE  Spent'
    <2>1. w \in Busy
      BY <1>1 DEF Busy
    <2> QED BY <1>1, <2>1, StageKeeps
  <1>2. CASE QueueForKey(w)
    BY <1>1, <1>2 DEF QueueForKey, history
  <1>3. CASE CheckDuplicate(w)
    <2>1. task[w].stage \in {"spawned", "locking"} /\ UNCHANGED <<log, runs>>
      BY <1>3 DEF CheckDuplicate, HasTurn, history
    <2>2. \E s \in {"handling", "ack"} : task' = [task EXCEPT ![w].stage = s]
      BY <1>3 DEF CheckDuplicate, Advance
    <2> QED BY <1>1, <2>1, <2>2
  <1>4. CASE RecordConsumed(w)
    BY <1>1, <1>4 DEF RecordConsumed, Advance
  <1>5. CASE PublishDeadLetter(w)
    BY <1>1, <1>5 DEF PublishDeadLetter, Advance
  <1>6. CASE HandlerReturns(w)
    BY <1>6, HandlerSpends
  <1>7. CASE SettleMessage(w) \/ Nack(w)
    BY <1>7, AnswerSpends
  <1>8. CASE PublishRetry(w)
    BY <1>8, RetrySpends
  <1>9. ~HandlerPanics(w)
    BY DEF HandlerPanics
  <1> QED BY <1>2, <1>3, <1>4, <1>5, <1>6, <1>7, <1>8, <1>9 DEF TaskStep

LEMMA SpentStep ==
    ASSUME DataOK, Spent, EnableDlq, HasDeadLetterPublisher, ~Fault, [Next]_vars
    PROVE  Spent'
  <1>1. ASSUME NEW i \in DOMAIN log, ~InFlight(i), UNCHANGED <<task, runs>>,
               log' = GiveBack(log, i) \/ log' = Forwarded(log, i), log[i].st # "done"
        PROVE  Spent'
    <2>1. SameBut(log, log', i)
      BY <1>1, GiveBackLemma, ForwardedLemma DEF DataOK
    <2>2. log' \in {Settle(log, i), GiveBack(log, i), Forwarded(log, i)}
      BY <1>1
    <2>3. log'[i].retries = log[i].retries /\ log'[i].delivered = log[i].delivered
      BY <2>2, OtherCounts DEF DataOK
    <2>4. NextCount(log[i]) \in Nat /\ NextCount(log'[i]) = NextCount(log[i])
      BY <2>3, EntryOf, MaxDeliverAssumption DEF NextCount, DataOK
    <2>5. NextCount(log[i]) <= NextCount(log'[i])
      BY <2>4
    <2> QED BY <1>1, <2>1, <2>3, <2>4, <2>5, BrokerSpends
  <1>2. CASE BrokerStep
    <2>1. PICK i \in DOMAIN log : LeaseExpires(i) \/ ForwardRetry(i)
      BY <1>2 DEF BrokerStep
    <2>2. CASE LeaseExpires(i)
      BY <1>1, <2>2 DEF LeaseExpires, Is, history
    <2>3. CASE ForwardRetry(i)
      <3>1. log[i].st = "delayed"
        BY <2>3 DEF ForwardRetry, Is
      <3>2. ~InFlight(i)
        BY <3>1, HasEntry DEF InFlight, Spent, DeliveryInv
      <3> QED BY <1>1, <2>3, <3>1, <3>2 DEF ForwardRetry, history
    <2> QED BY <2>1, <2>2, <2>3
  <1>3. CASE StopFetching
    <2>1. CASE UNCHANGED log
      BY <1>3, <2>1, QuietSpends DEF StopFetching, history
    <2>2. CASE ~UNCHANGED log
      <3>1. PICK i \in Deliverable(log) : log' = Deliver(log, i)
        BY <1>3, <2>2 DEF StopFetching
      <3>2. /\ i \in DOMAIN log /\ SameBut(log, log', i) /\ log[i].st = "ready"
        BY <3>1, DeliverLemma DEF DataOK
      <3>3. /\ log'[i].retries = log[i].retries
            /\ NextCount(log[i]) \in Nat /\ NextCount(log'[i]) \in Nat
            /\ NextCount(log[i]) <= NextCount(log'[i])
        BY <3>1, DeliverCounts DEF DataOK
      <3>4. ~InFlight(i)
        BY <3>2, HasEntry DEF InFlight, Spent, DeliveryInv
      <3>5. UNCHANGED <<task, runs>>
        BY <1>3 DEF StopFetching, history
      <3> QED BY <3>2, <3>3, <3>4, <3>5, BrokerSpends
    <2> QED BY <2>1, <2>2
  <1>4. CASE \E w \in Workers : FetchMessage(w)
    BY <1>4, FetchSpends
  <1>5. CASE AcquireSlot \/ FetchNothing \/ FetchError \/ Wake \/ JoinAll
    BY <1>5, QuietSpends DEF AcquireSlot, FetchNothing, FetchError, Wake, JoinAll, history
  <1>6. CASE SendShutdown \/ UNCHANGED vars
    BY <1>6, QuietSpends DEF SendShutdown, vars, history
  <1>7. ~Crash
    BY DEF Crash
  <1> QED BY <1>2, <1>3, <1>4, <1>5, <1>6, <1>7, TaskSpends DEF Next, Stopped, LoopStep, RunStep

\* At the start every copy of a message has max_retries + 1 calls.
LEMMA BudgetInit == Init => BudgetInv
  <1> SUFFICES ASSUME Init PROVE Spent
    BY DEF BudgetInv, Spent
  <1>1. /\ DOMAIN log = DOMAIN Backlog /\ 0 \notin DOMAIN log
        /\ \A i \in DOMAIN log : log[i] = Fresh(Backlog[i])
    <2>1. DOMAIN Backlog = 1..Len(Backlog)
      BY ConsumerAssumption, LenProperties
    <2> QED BY <2>1 DEF Init
  <1>2. \A w \in Workers : task[w].stage = "idle" /\ task[w].entry = 0
    BY DEF Init, NoTask
  <1>3. DeliveryInv
    <2>1. Busy = {} /\ \A i \in DOMAIN log : log[i].retries = 0
      BY <1>1, <1>2 DEF Busy, Fresh
    <2> QED BY <1>2, <2>1 DEF DeliveryInv
  <1>4. ASSUME NEW m \in Messages
        PROVE  IsFiniteSet(Chances(m)) /\ runs[m] + Cardinality(Chances(m)) <= Budget(m)
    <2>1. \A i \in DOMAIN log, k \in 1..(MaxRetries + 1) : Open(i, k)
      <3>1. \A i \in DOMAIN log : ~InFlight(i)
        BY <1>1, <1>2 DEF InFlight
      <3>2. \A i \in DOMAIN log : log[i].st # "done" /\ Left(NextCount(log[i])) = MaxRetries + 1
        BY <1>1, LeftLemma DEF Fresh, NextCount
      <3>3. \A k \in 1..(MaxRetries + 1) : k <= MaxRetries + 1
        BY RetryPolicyAssumption
      <3> QED BY <3>1, <3>2, <3>3 DEF Open
    <2>2. Chances(m) = Copies(m) \X (1..(MaxRetries + 1))
      BY <1>1, <2>1 DEF Chances, Copies, Fresh
    <2>3. IsFiniteSet(Copies(m)) /\ Budget(m) \in Nat
      BY BudgetType
    <2>4. IsFiniteSet(1..(MaxRetries + 1)) /\ Cardinality(1..(MaxRetries + 1)) = MaxRetries + 1
      BY RetryPolicyAssumption, FS_Interval
    <2>5. /\ IsFiniteSet(Chances(m))
          /\ Cardinality(Chances(m)) = Cardinality(Copies(m)) * (MaxRetries + 1)
      BY <2>2, <2>3, <2>4, FS_Product
    <2>6. Cardinality(Chances(m)) = Budget(m)
      <3>1. PICK c \in Nat : c = Cardinality(Copies(m))
        BY <2>3, FS_CardinalityType
      <3>2. c * (MaxRetries + 1) = (MaxRetries + 1) * c
        BY RetryPolicyAssumption
      <3> QED BY <2>5, <3>1, <3>2 DEF Budget
    <2> QED BY <2>3, <2>5, <2>6 DEF Init
  <1> QED BY <1>3, <1>4 DEF Spent, SpentInv

LEMMA BudgetStep == DataOK /\ BudgetInv /\ [Next]_vars => BudgetInv'
  <1> SUFFICES ASSUME DataOK, BudgetInv, [Next]_vars, NoFaults' PROVE Spent'
    BY DEF BudgetInv, Spent
  <1>1. faults' = 0 /\ EnableDlq /\ HasDeadLetterPublisher
    BY DEF NoFaults
  <1>2. faults = 0 /\ ~Fault
    BY <1>1, NoFaultStep
  <1>3. Spent
    BY <1>1, <1>2 DEF BudgetInv, Spent, NoFaults
  <1> QED BY <1>1, <1>2, <1>3, SpentStep

\* As long as nothing fails, and with a dead-letter queue, each copy of a message is
\* handled at most max_retries + 1 times, whether its retries are copies in the retry
\* topic, redeliveries that the broker counts, or both (delivery_attempt_retry_count,
\* retry_or_dead_letter).
THEOREM RetryBudgetHolds == Spec => []RetryBudget
  <1>1. DataOK /\ BudgetInv => RetryBudget
    <2> SUFFICES ASSUME DataOK, BudgetInv, NoFaults, NEW m \in Messages
                 PROVE  runs[m] <= Budget(m)
      BY DEF RetryBudget, NoFaults, Budget, Copies
    <2>1. /\ IsFiniteSet(Chances(m)) /\ runs[m] + Cardinality(Chances(m)) <= Budget(m)
          /\ runs[m] \in Nat
      BY DEF BudgetInv, SpentInv, DataOK
    <2>2. Cardinality(Chances(m)) \in Nat /\ Budget(m) \in Nat
      BY <2>1, FS_CardinalityType, BudgetType
    <2> QED BY <2>1, <2>2
  <1> QED BY <1>1, DataInit, DataNext, BudgetInit, BudgetStep, PTL DEF Spec

------------------------------------------------------------------------------
(***************************************************************************)
(* Batches: sequences of items and groups of them                          *)
(***************************************************************************)

\* A sequence over a set is one over a larger set.
LEMMA SeqGrows ==
    ASSUME NEW S, NEW T, S \subseteq T, NEW q \in Seq(S)
    PROVE  q \in Seq(T)
  <1>1. q \in [1..Len(q) -> S] /\ Len(q) \in Nat
    BY LenProperties
  <1>2. q \in [1..Len(q) -> T]
    BY <1>1
  <1> QED BY <1>1, <1>2, SeqDef

\* The head of a line of items and what is behind it.
LEMMA FirstAndRest ==
    ASSUME NEW S, NEW q \in Seq(S), q # <<>>
    PROVE  /\ Head(q) = q[1] /\ Head(q) \in S /\ 1 \in DOMAIN q
           /\ Tail(q) \in Seq(S)
           /\ Len(q) # 1 => Tail(q) # <<>>
  <1>1. Head(q) \in S /\ Tail(q) \in Seq(S) /\ Len(Tail(q)) = Len(q) - 1
    BY HeadTailProperties
  <1>2. Len(q) \in Nat /\ Len(q) # 0 /\ DOMAIN q = 1..Len(q)
    BY LenProperties, EmptySeq
  <1>3. Len(q) # 1 => Len(Tail(q)) # 0
    BY <1>1, <1>2
  <1>4. Len(q) # 1 => Tail(q) # <<>>
    BY <1>3, EmptySeq
  <1>5. Head(q) = q[1] /\ 1 \in DOMAIN q
    BY <1>2
  <1> QED BY <1>1, <1>4, <1>5

\* A sequence with a value for each position of another (WithResult, HandleBatch).
LEMMA SamePositions ==
    ASSUME NEW S, NEW T, NEW q \in Seq(S), NEW r, DOMAIN r = DOMAIN q, r = [n \in DOMAIN q |-> r[n]],
           \A n \in DOMAIN q : r[n] \in T
    PROVE  r \in Seq(T) /\ (r = <<>> <=> q = <<>>)
  <1>1. DOMAIN q = 1..Len(q) /\ Len(q) \in Nat
    BY LenProperties
  <1>2. r \in [1..Len(q) -> T]
    BY <1>1
  <1>3. r \in Seq(T)
    BY <1>1, <1>2, SeqDef
  <1>4. DOMAIN r = 1..Len(r) /\ Len(r) \in Nat
    BY <1>3, LenProperties
  <1>5. Len(r) = Len(q)
    BY <1>1, <1>4
  <1> QED BY <1>3, <1>5, EmptySeq

\* Group (w, k) becomes a group of items of G, and no other group changes.
Becomes(w, k, G) == \E g \in GroupsOf(G) : batch' = [batch EXCEPT ![w][k] = g]

LEMMA GroupIn ==
    ASSUME NEW G, NEW stage \in GroupStages, NEW todo \in Seq(G), NEW kept \in Seq(G),
           stage \notin {"idle", "ended"} => todo # <<>>
    PROVE  Group(stage, todo, kept) \in GroupsOf(G)
  BY DEF Group, GroupsOf

LEMMA NoGroupIn ==
    ASSUME NEW G, NEW failed \in BOOLEAN
    PROVE  /\ NoGroup \in GroupsOf(G)
           /\ [NoGroup EXCEPT !.stage = "ended", !.failed = failed] \in GroupsOf(G)
  <1>1. <<>> \in Seq(G)
    BY EmptySeq
  <1> QED BY <1>1 DEF NoGroup, Group, GroupsOf, GroupStages

LEMMA EndGroupBecomes ==
    ASSUME NEW G, NEW w, NEW k, NEW failed \in BOOLEAN, EndGroup(w, k, failed)
    PROVE  Becomes(w, k, G)
  BY NoGroupIn DEF EndGroup, Becomes

\* The first loop of process_batch goes on with the rest of the items.
LEMMA CheckedBecomes ==
    ASSUME NEW G, NEW w, NEW k, NEW kept \in Seq(G), Tail(batch[w][k].todo) \in Seq(G),
           Checked(w, k, kept)
    PROVE  Becomes(w, k, G)
  <1> DEFINE rest == Tail(batch[w][k].todo)
  <1>0. <<>> \in Seq(G)
    BY EmptySeq
  <1>1. CASE rest # <<>>
    <2>1. SetGroup(w, k, Group("check", rest, kept))
      BY <1>1 DEF Checked
    <2>2. Group("check", rest, kept) \in GroupsOf(G)
      BY <1>1, GroupIn DEF GroupStages
    <2> QED BY <2>1, <2>2 DEF SetGroup, Becomes
  <1>2. CASE rest = <<>> /\ kept # <<>>
    <2>1. SetGroup(w, k, Group("handling", kept, <<>>))
      BY <1>2 DEF Checked
    <2>2. Group("handling", kept, <<>>) \in GroupsOf(G)
      BY <1>0, <1>2, GroupIn DEF GroupStages
    <2> QED BY <2>1, <2>2 DEF SetGroup, Becomes
  <1>3. CASE rest = <<>> /\ kept = <<>>
    <2>1. EndGroup(w, k, FALSE)
      BY <1>3 DEF Checked
    <2> QED BY <2>1, EndGroupBecomes
  <1> QED BY <1>1, <1>2, <1>3

\* The first item of a group is done with but for its acknowledgement.
LEMMA AnswerBecomes ==
    ASSUME NEW G, NEW w, NEW k, batch[w][k] \in GroupsOf(G), batch[w][k].todo # <<>>,
           [Head(batch[w][k].todo) EXCEPT !.result = "answered"] \in G,
           NEW stage \in {"check", "settling"}, Answer(w, k, stage)
    PROVE  Becomes(w, k, G)
  <1> DEFINE todo == batch[w][k].todo
  <1> DEFINE kept == batch[w][k].kept
  <1> DEFINE item == [Head(todo) EXCEPT !.result = "answered"]
  <1>1. PICK new : new = [todo EXCEPT ![1] = item]
    OBVIOUS
  <1>2. todo \in Seq(G) /\ kept \in Seq(G) /\ batch[w][k].failed \in BOOLEAN
    BY DEF GroupsOf
  <1>3. new \in Seq(G) /\ new # <<>>
    <2>1. 1 \in DOMAIN todo /\ Head(todo) = todo[1]
      BY <1>2, FirstAndRest
    <2>2. DOMAIN todo = 1..Len(todo) /\ todo \in [DOMAIN todo -> G]
      BY <1>2, LenProperties
    <2>3. new \in [DOMAIN todo -> G]
      BY <1>1, <2>2
    <2> HIDE DEF item, todo
    <2>4. DOMAIN new = DOMAIN todo /\ \A n \in DOMAIN todo : new[n] \in G
      BY <2>3
    <2>5. new = [n \in DOMAIN todo |-> new[n]]
      BY <2>3
    <2>6. new \in Seq(G) /\ (new = <<>> <=> todo = <<>>)
      BY <1>2, <2>4, <2>5, SamePositions
    <2> QED BY <2>6 DEF todo
  <1>4. PICK g : g = [batch[w][k] EXCEPT !.stage = stage, !.todo[1].result = "answered"]
    OBVIOUS
  <1>5. g = [stage |-> stage, todo |-> new, kept |-> kept, failed |-> batch[w][k].failed]
    <2>1. Head(todo) = todo[1] /\ 1 \in DOMAIN todo
      BY <1>2, FirstAndRest
    <2> QED BY <1>1, <1>4, <2>1 DEF GroupsOf
  <1>6. g \in GroupsOf(G)
    BY <1>2, <1>3, <1>5 DEF GroupsOf, GroupStages
  <1> QED BY <1>4, <1>6 DEF Answer, SetGroup, Becomes

\* The settling loop goes on with the rest of the items.
LEMMA SettledBecomes ==
    ASSUME NEW G, NEW w, NEW k, batch[w][k] \in GroupsOf(G),
           batch[w][k].stage = "settling", NEW failed \in BOOLEAN, Settled(w, k, failed)
    PROVE  Becomes(w, k, G)
  <1>1. /\ batch[w][k].todo \in Seq(G) /\ batch[w][k].kept \in Seq(G)
        /\ batch[w][k].failed \in BOOLEAN /\ batch[w][k].todo # <<>>
    BY DEF GroupsOf
  <1>2. CASE Len(batch[w][k].todo) = 1
    <2>1. EndGroup(w, k, batch[w][k].failed \/ failed)
      BY <1>2 DEF Settled
    <2> QED BY <1>1, <2>1, EndGroupBecomes
  <1>3. CASE Len(batch[w][k].todo) # 1
    <2>1. Tail(batch[w][k].todo) \in Seq(G) /\ Tail(batch[w][k].todo) # <<>>
      BY <1>1, <1>3, FirstAndRest
    <2>2. PICK g : g = [batch[w][k] EXCEPT !.todo = Tail(@),
                                           !.failed = batch[w][k].failed \/ failed]
      OBVIOUS
    <2>3. g \in GroupsOf(G)
      BY <1>1, <2>1, <2>2 DEF GroupsOf
    <2> QED BY <1>3, <2>2, <2>3 DEF Settled, SetGroup, Becomes
  <1> QED BY <1>2, <1>3

------------------------------------------------------------------------------
(***************************************************************************)
(* Batches lose nothing.  What a task knows of its one message, a group    *)
(* has to know of each of its items: an item that is answered has been     *)
(* discharged, and one with the result Ack was accepted.                   *)
(***************************************************************************)

BatchDataOK ==
    /\ log \in Seq(Entries(Messages))
    /\ loop \in {"acquire", "fetch", "batch", "sleep", "drain", "stopped"}
    /\ signalled \in BOOLEAN
    /\ pending \in [Keys -> Seq(DOMAIN log)]
    /\ consumed \subseteq Messages
    /\ faults \in 0..MaxFaults
    /\ accepted \in [Messages -> Nat]
    /\ buried \subseteq Messages

Fits(item) ==
    /\ item.result = "answered" => Discharged(MessageOf(item), item.entry)
    /\ item.result = "Ack" => accepted[MessageOf(item)] > 0

GoodItem == {item \in ItemType : Fits(item)}

BatchLossInv ==
    /\ batch \in [Workers -> [Keys -> GroupsOf(GoodItem)]]
    /\ \A m \in Messages : Discharged(m, 0)
    /\ \A m \in consumed : accepted[m] > 0

\* What a step may do to the log; it settles only what is discharged.
LogMoves ==
    \/ log' = log
    \/ \E i \in Deliverable(log) : log' = Deliver(log, i)
    \/ \E i \in DOMAIN log : log' = GiveBack(log, i) \/ log' = Forwarded(log, i)
    \/ \E m \in Messages, r \in Nat : log' = Append(log, RetryCopy(m, r))
    \/ \E e \in DOMAIN log : log' = Settle(log, e) /\ Discharged(log[e].msg, e)

\* What was discharged stays discharged, settling included: the entry that is
\* settled was itself discharged by something further on.
LEMMA SettleKeeps ==
    ASSUME log \in Seq(Entries(Messages)), EvidenceKept, NEW e \in DOMAIN log,
           log' = Settle(log, e), Discharged(log[e].msg, e)
    PROVE  Kept
  <1>1. e \in Nat
    BY EntryOf
  <1>2. SameBut(log, log', e)
    BY SettleLemma
  <1>3. SUFFICES ASSUME NEW m \in Messages, NEW i \in Nat, Discharged(m, i)
                 PROVE  Discharged(m, i)'
    BY DEF Kept
  <1>4. ASSUME NEW j \in DOMAIN log, j # e, j > i, log[j].msg = m, log[j].st # "done"
        PROVE  LaterCopy(m, i)'
    BY <1>2, <1>4 DEF SameBut, LaterCopy
  <1>5. CASE accepted[m] > 0 \/ m \in buried
    BY <1>5 DEF EvidenceKept, Discharged
  <1>6. CASE LaterCopy(m, i)
    <2>1. PICK j \in DOMAIN log : j > i /\ log[j].msg = m /\ log[j].st # "done"
      BY <1>6 DEF LaterCopy
    <2>2. CASE j # e
      BY <1>4, <2>1, <2>2 DEF Discharged
    <2>3. CASE j = e
      <3>1. Discharged(m, e) /\ e > i
        BY <2>1, <2>3
      <3>2. CASE LaterCopy(m, e)
        <4>1. PICK h \in DOMAIN log : h > e /\ log[h].msg = m /\ log[h].st # "done"
          BY <3>2 DEF LaterCopy
        <4>2. h \in Nat
          BY EntryOf
        <4>3. h # e /\ h > i
          BY <1>1, <3>1, <4>1, <4>2
        <4> QED BY <1>4, <4>1, <4>3 DEF Discharged
      <3> QED BY <1>5, <3>1, <3>2 DEF Discharged
    <2> QED BY <2>2, <2>3
  <1> QED BY <1>3, <1>5, <1>6 DEF Discharged

\* A log that moves stays a log, and keeps what was discharged.
LEMMA LogMovesKeep ==
    ASSUME log \in Seq(Entries(Messages)), EvidenceKept, LogMoves
    PROVE  log' \in Seq(Entries(Messages)) /\ LogKept /\ Kept
  <1>1. ASSUME LogKept, NoneDone
        PROVE  Kept
    BY <1>1 DEF LogKept, NoneDone, EvidenceKept, Kept, Discharged, LaterCopy
  <1>2. CASE log' = log
    <2>1. LogKept /\ NoneDone
      BY <1>2 DEF LogKept, NoneDone
    <2> QED BY <1>1, <1>2, <2>1
  <1>3. ASSUME NEW i \in DOMAIN log, SameBut(log, log', i),
               log[i].st # "done" => log'[i].st # "done"
        PROVE  LogKept /\ Kept
    BY <1>1, <1>3, OneEntryKept
  <1>4. ASSUME NEW i \in Deliverable(log), log' = Deliver(log, i)
        PROVE  log' \in Seq(Entries(Messages)) /\ LogKept /\ Kept
    BY <1>3, <1>4, DeliverLemma
  <1>5. ASSUME NEW i \in DOMAIN log, log' = GiveBack(log, i) \/ log' = Forwarded(log, i)
        PROVE  log' \in Seq(Entries(Messages)) /\ LogKept /\ Kept
    <2>1. CASE log' = GiveBack(log, i)
      BY <1>3, <2>1, GiveBackLemma
    <2>2. CASE log' = Forwarded(log, i)
      <3>1. log'[i].st = "ready" /\ SameBut(log, log', i) /\ log' \in Seq(Entries(Messages))
        BY <2>2, ForwardedLemma
      <3> QED BY <1>3, <3>1
    <2> QED BY <1>5, <2>1, <2>2
  <1>6. ASSUME NEW m \in Messages, NEW r \in Nat, log' = Append(log, RetryCopy(m, r))
        PROVE  log' \in Seq(Entries(Messages)) /\ LogKept /\ Kept
    <2>1. log' \in Seq(Entries(Messages)) /\ LogKept /\ NoneDone
      BY <1>6, AppendLemma DEF LogKept, NoneDone
    <2> QED BY <1>1, <2>1
  <1>7. ASSUME NEW e \in DOMAIN log, log' = Settle(log, e), Discharged(log[e].msg, e)
        PROVE  log' \in Seq(Entries(Messages)) /\ LogKept /\ Kept
    <2>1. log' \in Seq(Entries(Messages)) /\ SameBut(log, log', e)
      BY <1>7, SettleLemma
    <2> QED BY <1>7, <2>1, OneEntryKept, SettleKeeps
  <1> QED BY <1>2, <1>4, <1>5, <1>6, <1>7 DEF LogMoves

\* The first item of a group that runs.
LEMMA FirstItem ==
    ASSUME BatchDataOK, BatchLossInv, NEW w \in Workers, NEW k \in Keys,
           batch[w][k].stage \notin {"idle", "ended"}
    PROVE  LET group == batch[w][k]
               item == Head(group.todo)
           IN  /\ group \in GroupsOf(GoodItem)
               /\ group.todo \in Seq(GoodItem) /\ group.kept \in Seq(GoodItem)
               /\ group.todo # <<>> /\ Tail(group.todo) \in Seq(GoodItem)
               /\ item \in GoodItem /\ item \in ItemType /\ Fits(item)
               /\ item.entry \in DOMAIN log /\ item.entry \in Nat
               /\ item.retries \in Nat
               /\ MessageOf(item) \in Messages /\ MessageOf(item) = log[item.entry].msg
  <1>1. batch[w][k] \in GroupsOf(GoodItem)
    BY DEF BatchLossInv
  <1>2. /\ batch[w][k].todo \in Seq(GoodItem) /\ batch[w][k].kept \in Seq(GoodItem)
        /\ batch[w][k].todo # <<>>
    BY <1>1 DEF GroupsOf
  <1>3. Head(batch[w][k].todo) \in GoodItem /\ Tail(batch[w][k].todo) \in Seq(GoodItem)
    BY <1>2, FirstAndRest
  <1>4. PICK item \in GoodItem : item = Head(batch[w][k].todo)
    BY <1>3
  <1>5. item \in ItemType /\ Fits(item) /\ item.entry \in DOMAIN log /\ item.retries \in Nat
    BY <1>4 DEF GoodItem, ItemType
  <1>6. item.entry \in Nat /\ log[item.entry].msg \in Messages
    BY <1>5, EntryOf DEF BatchDataOK
  <1> QED BY <1>1, <1>2, <1>3, <1>4, <1>5, <1>6 DEF MessageOf

\* An item whose result is answered or Ack is discharged.
LEMMA DoneItem ==
    ASSUME BatchDataOK, NEW item \in GoodItem, item.result \in {"answered", "Ack"}
    PROVE  Discharged(log[item.entry].msg, item.entry)
  BY DEF GoodItem, Fits, MessageOf, Discharged

\* The items that were accepted are finitely many, and none is not counted.
LEMMA AcksType ==
    ASSUME NEW S, NEW todo \in Seq(S), NEW results, NEW m
    PROVE  LET done == WithResults(todo, results)
           IN  /\ DOMAIN done = DOMAIN todo
               /\ Acks(done, m) \in Nat
               /\ \A n \in DOMAIN done : done[n].result = "Ack" /\ MessageOf(done[n]) = m
                                           => Acks(done, m) > 0
  <1>1. PICK done : done = WithResults(todo, results)
    OBVIOUS
  <1>2. DOMAIN done = DOMAIN todo
    BY <1>1 DEF WithResults
  <1>3. DOMAIN done = 1..Len(todo) /\ Len(todo) \in Nat
    BY <1>2, LenProperties
  <1>4. IsFiniteSet(DOMAIN done)
    BY <1>3, FS_Interval
  <1>5. PICK acks : acks = {n \in DOMAIN done : done[n].result = "Ack" /\ MessageOf(done[n]) = m}
    OBVIOUS
  <1>6. IsFiniteSet(acks)
    BY <1>4, <1>5, FS_Subset
  <1>7. Cardinality(acks) \in Nat /\ (acks # {} => Cardinality(acks) > 0)
    <2>1. Cardinality(acks) \in Nat /\ (acks # {} => Cardinality(acks) # 0)
      BY <1>6, FS_CardinalityType, FS_EmptySet
    <2> QED BY <2>1
  <1>8. Acks(done, m) = Cardinality(acks)
    BY <1>5 DEF Acks
  <1> QED BY <1>1, <1>2, <1>5, <1>7, <1>8

\* What a step of a group does to the log and to the evidence.
LEMMA GroupLog ==
    ASSUME BatchDataOK, BatchLossInv, NEW w \in Workers, NEW k \in Keys, GroupStep(w, k)
    PROVE  LogMoves /\ EvidenceKept
  <1> DEFINE group == batch[w][k]
  <1> DEFINE item == Head(group.todo)
  <1>1. ASSUME UNCHANGED <<accepted, buried>>
        PROVE  EvidenceKept
    BY <1>1 DEF EvidenceKept
  <1>2. CASE QueueGroup(w, k) \/ CheckNext(w, k) \/ GroupPanics(w, k)
    BY <1>1, <1>2 DEF QueueGroup, CheckNext, GroupPanics, LogMoves, batchHistory
  <1>3. CASE AckDuplicate(w, k)
    <2>1. group.stage = "check" /\ item.result = "answered"
      BY <1>3 DEF AckDuplicate
    <2>2. log' = log \/ log' = Settle(log, item.entry)
      BY <1>3 DEF AckDuplicate
    <2>3. item.entry \in DOMAIN log /\ Discharged(log[item.entry].msg, item.entry)
      BY <2>1, FirstItem, DoneItem
    <2> QED BY <1>1, <1>3, <2>2, <2>3 DEF AckDuplicate, LogMoves, batchHistory
  <1>4. CASE HandleBatch(w, k)
    <2>1. group.stage = "handling" /\ group.todo \in Seq(GoodItem)
      BY <1>4, FirstItem DEF HandleBatch
    <2>2. \/ accepted' = accepted
          \/ \E results : accepted' = [m \in Messages |->
                                accepted[m] + Acks(WithResults(group.todo, results), m)]
      BY <1>4 DEF HandleBatch
    <2>3. \A results, m : Acks(WithResults(group.todo, results), m) \in Nat
      BY <2>1, AcksType
    <2>4. \A m \in Messages : accepted[m] > 0 => accepted'[m] > 0
      BY <2>2, <2>3 DEF BatchDataOK
    <2> QED BY <1>4, <2>4 DEF HandleBatch, LogMoves, EvidenceKept
  <1>5. CASE HandleNext(w, k)
    <2>1. group.stage = "handling"
      BY <1>5 DEF HandleNext
    <2>2. PICK m \in Messages : m = MessageOf(item)
      BY <2>1, FirstItem
    <2>3. accepted' = accepted \/ accepted' = [accepted EXCEPT ![m] = @ + 1]
      BY <1>5, <2>2 DEF HandleNext
    <2>4. \A n \in Messages : accepted[n] > 0 => accepted'[n] > 0
      BY <2>3 DEF BatchDataOK
    <2> QED BY <1>5, <2>4 DEF HandleNext, LogMoves, EvidenceKept
  <1>6. CASE SettleNext(w, k)
    <2>1. group.stage = "settling" /\ accepted' = accepted
      BY <1>6 DEF SettleNext
    <2>2. PICK m \in Messages, e \in DOMAIN log, r \in Nat :
            m = MessageOf(item) /\ e = item.entry /\ r = item.retries + 1
      BY <2>1, FirstItem
    <2>3. buried \subseteq buried'
      BY <1>6 DEF SettleNext, AckNext, RecordNext, RetryNext, BuryNext, GiveBackNext
    <2>4. CASE /\ item.result = "answered" \/ (item.result = "Ack" /\ ~Idempotent)
               /\ AckNext(w, k, item)
      <3>1. Discharged(log[e].msg, e)
        BY <2>1, <2>2, <2>4, FirstItem, DoneItem
      <3> QED BY <2>1, <2>2, <2>3, <2>4, <3>1 DEF AckNext, LogMoves, EvidenceKept
    <2>5. CASE \/ RecordNext(w, k, item) \/ RetryNext(w, k, item) \/ BuryNext(w, k, item)
      BY <2>1, <2>2, <2>3, <2>5 DEF RecordNext, RetryNext, BuryNext, LogMoves, EvidenceKept
    <2>6. CASE \E action : GiveBackNext(w, k, item, action)
      BY <2>1, <2>2, <2>3, <2>6 DEF GiveBackNext, LogMoves, EvidenceKept
    <2>7. \/ /\ item.result = "answered" \/ (item.result = "Ack" /\ ~Idempotent)
             /\ AckNext(w, k, item)
          \/ RecordNext(w, k, item) \/ RetryNext(w, k, item) \/ BuryNext(w, k, item)
          \/ \E action : GiveBackNext(w, k, item, action)
      BY <1>6 DEF SettleNext
    <2> QED BY <2>4, <2>5, <2>6, <2>7
  <1> QED BY <1>2, <1>3, <1>4, <1>5, <1>6 DEF GroupStep

\* An item that gets a result is good if the result is justified.
LEMMA NewResult ==
    ASSUME BatchDataOK, LogKept, NEW item \in ItemType, NEW m, m = MessageOf(item),
           NEW result \in {"none", "answered"} \cup MessageVerdicts,
           result = "answered" => Discharged(m, item.entry)',
           result = "Ack" => accepted'[m] > 0
    PROVE  [item EXCEPT !.result = result] \in GoodItem'
  <1>1. PICK new : new = [item EXCEPT !.result = result]
    OBVIOUS
  <1>2. item.entry \in DOMAIN log /\ item.retries \in Nat
        /\ item = [entry |-> item.entry, retries |-> item.retries, result |-> item.result]
    BY DEF ItemType
  <1>3. new = [entry |-> item.entry, retries |-> item.retries, result |-> result]
    BY <1>1, <1>2
  <1>4. new \in ItemType' /\ new.entry = item.entry /\ new.result = result
    BY <1>2, <1>3 DEF LogKept, ItemType
  <1>5. log'[new.entry].msg = m
    BY <1>2, <1>4 DEF LogKept, MessageOf
  <1>6. Fits(new)'
    BY <1>4, <1>5 DEF Fits, MessageOf
  <1> QED BY <1>1, <1>4, <1>6 DEF GoodItem

\* A good item stays good.
LEMMA GoodItemsStay ==
    ASSUME BatchDataOK, LogKept, EvidenceKept, Kept
    PROVE  GoodItem \subseteq GoodItem'
  <1>1. ASSUME NEW item \in GoodItem
        PROVE  item \in GoodItem'
    <2>1. item \in ItemType /\ Fits(item) /\ item.entry \in DOMAIN log
      BY DEF GoodItem, ItemType
    <2>2. item \in ItemType' /\ log'[item.entry].msg = log[item.entry].msg
      BY <2>1 DEF LogKept, ItemType
    <2>3. item.entry \in Nat /\ log[item.entry].msg \in Messages
      BY <2>1, EntryOf DEF BatchDataOK
    <2>4. Fits(item)'
      BY <2>1, <2>2, <2>3 DEF Fits, MessageOf, EvidenceKept, Kept
    <2> QED BY <2>2, <2>4 DEF GoodItem
  <1> QED BY <1>1

\* Groups of good items are groups of items.
LEMMA GroupsGrow ==
    ASSUME NEW S, NEW T, S \subseteq T
    PROVE  GroupsOf(S) \subseteq GroupsOf(T)
  BY SeqGrows DEF GroupsOf

\* The check of the items, one by one.
LEMMA CheckGood ==
    ASSUME BatchDataOK, BatchLossInv, NEW w \in Workers, NEW k \in Keys,
           CheckNext(w, k) \/ AckDuplicate(w, k),
           LogKept, EvidenceKept, Kept, NEW G, G = GoodItem'
    PROVE  Becomes(w, k, G)
  <1> DEFINE group == batch[w][k]
  <1>1. group.stage \in {"check", "locking"}
    BY DEF CheckNext, AckDuplicate
  <1>2. PICK item \in ItemType, m \in Messages :
          item = Head(group.todo) /\ m = MessageOf(item)
    BY <1>1, FirstItem
  <1>3. /\ group \in GroupsOf(G) /\ group.todo # <<>> /\ group.kept \in Seq(G)
        /\ Tail(group.todo) \in Seq(G) /\ item \in G
    BY <1>1, <1>2, FirstItem, GoodItemsStay, GroupsGrow, SeqGrows
  <1>4. CASE Idempotent /\ m \in consumed /\ Answer(w, k, "check")
    <2>1. accepted'[m] > 0
      BY <1>2, <1>4 DEF BatchLossInv, EvidenceKept
    <2>2. Discharged(m, item.entry)'
      BY <2>1 DEF Discharged
    <2>3. [item EXCEPT !.result = "answered"] \in G
      BY <1>2, <2>2, NewResult
    <2> QED BY <1>2, <1>3, <1>4, <2>3, AnswerBecomes
  <1>5. CASE \/ Checked(w, k, Append(group.kept, item)) \/ Checked(w, k, group.kept)
             \/ EndGroup(w, k, TRUE)
    <2>1. Append(group.kept, item) \in Seq(G)
      BY <1>3, AppendProperties
    <2> QED BY <1>3, <1>5, <2>1, CheckedBecomes, EndGroupBecomes
  <1> QED BY <1>2, <1>4, <1>5 DEF CheckNext, AckDuplicate

\* Every item gets a result: good ones, if the results are justified.
LEMMA WithResultsGood ==
    ASSUME BatchDataOK, LogKept, NEW items \in Seq(ItemType),
           NEW results \in [DOMAIN items -> MessageVerdicts],
           \A n \in DOMAIN items, m \in Messages :
              results[n] = "Ack" /\ m = MessageOf(items[n]) => accepted'[m] > 0,
           NEW G, G = GoodItem'
    PROVE  /\ WithResults(items, results) \in Seq(G)
           /\ items # <<>> => WithResults(items, results) # <<>>
  <1>1. PICK new : new = WithResults(items, results)
    OBVIOUS
  <1>2. DOMAIN new = DOMAIN items /\ new = [n \in DOMAIN items |-> new[n]]
    BY <1>1 DEF WithResults
  <1>3. ASSUME NEW n \in DOMAIN items
        PROVE  new[n] \in G
    <2>1. items[n] \in ItemType
      BY ElementOfSeq, LenProperties
    <2>2. PICK item \in ItemType : item = items[n]
      BY <2>1
    <2>3. PICK m \in Messages : m = MessageOf(item)
      BY <2>2, EntryOf DEF ItemType, MessageOf, BatchDataOK
    <2>4. PICK result \in MessageVerdicts : result = results[n]
      OBVIOUS
    <2>5. new[n] = [item EXCEPT !.result = result]
      BY <1>1, <2>2, <2>4 DEF WithResults
    <2>6. result # "answered"
      BY DEF MessageVerdicts, Rejections, RetryableErrors, FatalErrors
    <2> QED BY <2>2, <2>3, <2>4, <2>5, <2>6, NewResult
  <1>4. new \in Seq(G) /\ (new = <<>> <=> items = <<>>)
    BY <1>2, <1>3, SamePositions
  <1> QED BY <1>1, <1>4

\* An error that is applied to all items leaves none of them answered or accepted.
LEMMA WithResultGood ==
    ASSUME BatchDataOK, LogKept, NEW items \in Seq(ItemType), NEW result \in Rejections,
           NEW G, G = GoodItem'
    PROVE  /\ WithResult(items, result) \in Seq(G)
           /\ items # <<>> => WithResult(items, result) # <<>>
  <1>1. PICK results : results = [n \in DOMAIN items |-> result]
    OBVIOUS
  <1>2. result \in MessageVerdicts /\ result # "Ack"
    BY DEF MessageVerdicts, Rejections, RetryableErrors, FatalErrors
  <1>3. results \in [DOMAIN items -> MessageVerdicts]
    BY <1>1, <1>2
  <1>4. \A n \in DOMAIN items : results[n] # "Ack"
    BY <1>1, <1>2
  <1> QED BY <1>1, <1>3, <1>4, WithResultsGood DEF WithResult

LEMMA SetGroupBecomes ==
    ASSUME NEW G, NEW w, NEW k, NEW g \in GroupsOf(G), SetGroup(w, k, g)
    PROVE  Becomes(w, k, G)
  BY DEF SetGroup, Becomes

\* A group whose items were all handled, and are settled next.
LEMMA SettlingIn ==
    ASSUME NEW G, NEW items \in Seq(G), items # <<>>
    PROVE  /\ Group("settling", items, <<>>) \in GroupsOf(G)
           /\ [Group("settling", items, <<>>) EXCEPT !.failed = TRUE] \in GroupsOf(G)
  <1>1. <<>> \in Seq(G)
    BY EmptySeq
  <1> QED BY <1>1 DEF Group, GroupsOf, GroupStages

\* A result for each item of the batch: an item with the result Ack was accepted.
LEMMA ResultsGood ==
    ASSUME BatchDataOK, LogKept, NEW todo \in Seq(ItemType), todo # <<>>,
           NEW results \in [DOMAIN todo -> MessageResults],
           accepted' = [m \in Messages |-> accepted[m] + Acks(WithResults(todo, results), m)],
           NEW G, G = GoodItem'
    PROVE  WithResults(todo, results) \in Seq(G) /\ WithResults(todo, results) # <<>>
  <1>1. results \in [DOMAIN todo -> MessageVerdicts]
    BY DEF MessageResults, MessageVerdicts, Rejections
  <1>2. ASSUME NEW n \in DOMAIN todo, NEW m \in Messages, results[n] = "Ack",
               m = MessageOf(todo[n])
        PROVE  accepted'[m] > 0
    <2>1. PICK item \in ItemType : item = todo[n]
      BY ElementOfSeq, LenProperties
    <2>2. PICK done : done = WithResults(todo, results)
      OBVIOUS
    <2>3. n \in DOMAIN done /\ done[n] = [item EXCEPT !.result = "Ack"]
      BY <1>2, <2>1, <2>2 DEF WithResults
    <2>4. done[n].result = "Ack" /\ MessageOf(done[n]) = m
      BY <1>2, <2>1, <2>3 DEF ItemType, MessageOf
    <2>5. Acks(done, m) \in Nat /\ Acks(done, m) > 0
      BY <2>2, <2>3, <2>4, AcksType
    <2>6. accepted'[m] = accepted[m] + Acks(done, m)
      BY <2>2
    <2> QED BY <2>5, <2>6 DEF BatchDataOK
  <1> QED BY <1>1, <1>2, WithResultsGood

\* The handling of a group, at once or item by item.
LEMMA HandleGood ==
    ASSUME BatchDataOK, BatchLossInv, NEW w \in Workers, NEW k \in Keys,
           HandleBatch(w, k) \/ HandleNext(w, k),
           LogKept, EvidenceKept, Kept, NEW G, G = GoodItem'
    PROVE  Becomes(w, k, G)
  <1> DEFINE group == batch[w][k]
  <1>1. group.stage = "handling"
    BY DEF HandleBatch, HandleNext
  <1>2. PICK todo, kept : todo = group.todo /\ kept = group.kept
    OBVIOUS
  <1>3. PICK item \in ItemType, m \in Messages : item = Head(todo) /\ m = MessageOf(item)
    BY <1>1, <1>2, FirstItem
  <1>4. todo \in Seq(ItemType) /\ kept \in Seq(ItemType) /\ todo # <<>>
    <2>1. GoodItem \subseteq ItemType
      BY DEF GoodItem
    <2> QED BY <1>1, <1>2, <2>1, FirstItem, SeqGrows
  <1>5. todo \in Seq(G) /\ kept \in Seq(G) /\ Tail(todo) \in Seq(G)
    BY <1>1, <1>2, FirstItem, GoodItemsStay, SeqGrows
  <1>6. ASSUME NEW results \in [DOMAIN todo -> Results \cap MessageResults],
               SetGroup(w, k, Group("settling", WithResults(todo, results), <<>>)),
               accepted' = [n \in Messages |->
                              accepted[n] + Acks(WithResults(todo, results), n)]
        PROVE  Becomes(w, k, G)
    <2>1. results \in [DOMAIN todo -> MessageResults]
      OBVIOUS
    <2>2. PICK done : done = WithResults(todo, results)
      OBVIOUS
    <2>3. done \in Seq(G) /\ done # <<>>
      BY <1>4, <1>6, <2>1, <2>2, ResultsGood
    <2> QED BY <1>6, <2>2, <2>3, SettlingIn, SetGroupBecomes
  <1>7. ASSUME NEW items \in Seq(ItemType), items # <<>>, NEW error \in Rejections,
               NEW g, g = Group("settling", WithResult(items, error), <<>>),
               SetGroup(w, k, g) \/ SetGroup(w, k, [g EXCEPT !.failed = TRUE])
        PROVE  Becomes(w, k, G)
    <2>1. PICK new : new = WithResult(items, error)
      OBVIOUS
    <2>2. new \in Seq(G) /\ new # <<>>
      BY <1>7, <2>1, WithResultGood
    <2>3. g \in GroupsOf(G) /\ [g EXCEPT !.failed = TRUE] \in GroupsOf(G)
      BY <1>7, <2>1, <2>2, SettlingIn
    <2> QED BY <1>7, <2>3, SetGroupBecomes
  <1>8. "Handler" \in Rejections /\ "NoHandler" \in Rejections
    BY DEF Rejections, RetryableErrors, FatalErrors
  <1>9. CASE HandleBatch(w, k)
    <2>1. \A error \in Results \ MessageResults : error \in Rejections
      BY BatchAssumption DEF MessageResults, MessageVerdicts, Rejections
    <2>2. \/ \E results \in [DOMAIN todo -> Results \cap MessageResults] :
                /\ SetGroup(w, k, Group("settling", WithResults(todo, results), <<>>))
                /\ accepted' = [n \in Messages |->
                                  accepted[n] + Acks(WithResults(todo, results), n)]
          \/ \E error \in Results \ MessageResults :
                SetGroup(w, k, Group("settling", WithResult(todo, error), <<>>))
          \/ SetGroup(w, k, [Group("settling", WithResult(todo, "Handler"), <<>>)
                                    EXCEPT !.failed = TRUE])
      BY <1>2, <1>9 DEF HandleBatch
    <2>3. ASSUME NEW error \in Results \ MessageResults,
                 SetGroup(w, k, Group("settling", WithResult(todo, error), <<>>))
          PROVE  Becomes(w, k, G)
      BY <1>4, <1>7, <2>1, <2>3
    <2>4. ASSUME SetGroup(w, k, [Group("settling", WithResult(todo, "Handler"), <<>>)
                                    EXCEPT !.failed = TRUE])
          PROVE  Becomes(w, k, G)
      BY <1>4, <1>7, <1>8, <2>4
    <2> QED BY <1>6, <2>2, <2>3, <2>4
  <1>10. CASE HandleNext(w, k) /\ m \in Unhandled
    <2>1. SetGroup(w, k, Group("settling", WithResult(kept \o todo, "NoHandler"), <<>>))
      BY <1>2, <1>3, <1>10 DEF HandleNext
    <2>2. kept \o todo \in Seq(ItemType) /\ kept \o todo # <<>>
      <3>1. kept \o todo \in Seq(ItemType) /\ Len(kept \o todo) = Len(kept) + Len(todo)
        BY <1>4, ConcatProperties
      <3>2. Len(kept) \in Nat /\ Len(todo) \in Nat /\ Len(todo) # 0
        BY <1>4, LenProperties, EmptySeq
      <3>3. Len(kept \o todo) # 0
        BY <3>1, <3>2
      <3> QED BY <3>1, <3>3, EmptySeq
    <2> QED BY <1>7, <1>8, <2>1, <2>2
  <1>11. CASE HandleNext(w, k) /\ m \notin Unhandled
    <2>1. PICK verdict \in Results :
            LET result == IF verdict \in MessageResults THEN verdict ELSE "Nack"
                handled == Append(kept, [item EXCEPT !.result = result])
            IN  /\ SetGroup(w, k, IF Len(todo) = 1
                                  THEN Group("settling", handled, <<>>)
                                  ELSE Group("handling", Tail(todo), handled))
                /\ accepted' = IF result = "Ack" THEN [accepted EXCEPT ![m] = @ + 1]
                                                 ELSE accepted
      BY <1>2, <1>3, <1>11 DEF HandleNext
    <2>2. PICK result : result = IF verdict \in MessageResults THEN verdict ELSE "Nack"
      OBVIOUS
    <2>3. PICK handled : handled = Append(kept, [item EXCEPT !.result = result])
      OBVIOUS
    <2>4. result \in MessageVerdicts /\ result # "answered"
      BY <2>2 DEF MessageResults, MessageVerdicts, Rejections
    <2>5. result = "Ack" => accepted'[m] > 0
      BY <2>1, <2>2 DEF BatchDataOK
    <2>6. [item EXCEPT !.result = result] \in G
      BY <1>3, <2>4, <2>5, NewResult
    <2>7. handled \in Seq(G) /\ handled # <<>>
      <3>1. /\ handled \in Seq(G) /\ Len(handled) = Len(kept) + 1
        BY <1>5, <2>3, <2>6, AppendProperties
      <3>2. Len(kept) \in Nat
        BY <1>4, LenProperties
      <3> QED BY <3>1, <3>2, EmptySeq
    <2>8. CASE Len(todo) = 1
      <3>1. SetGroup(w, k, Group("settling", handled, <<>>))
        BY <2>1, <2>2, <2>3, <2>8
      <3> QED BY <2>7, <3>1, SettlingIn, SetGroupBecomes
    <2>9. CASE Len(todo) # 1
      <3>1. SetGroup(w, k, Group("handling", Tail(todo), handled))
        BY <2>1, <2>2, <2>3, <2>9
      <3>2. Tail(todo) # <<>>
        BY <1>4, <2>9, FirstAndRest
      <3>3. Group("handling", Tail(todo), handled) \in GroupsOf(G)
        BY <1>5, <2>7, <3>2, GroupIn DEF GroupStages
      <3> QED BY <3>1, <3>3, SetGroupBecomes
    <2> QED BY <2>8, <2>9
  <1> QED BY <1>9, <1>10, <1>11

\* The settling of the items, one by one.
LEMMA SettleGood ==
    ASSUME BatchDataOK, BatchLossInv, NEW w \in Workers, NEW k \in Keys, SettleNext(w, k),
           LogKept, EvidenceKept, Kept, NEW G, G = GoodItem'
    PROVE  /\ Becomes(w, k, G)
           /\ consumed' \subseteq Messages /\ \A m \in consumed' : accepted'[m] > 0
           /\ faults' \in 0..MaxFaults
           /\ buried' \subseteq Messages
  <1> DEFINE group == batch[w][k]
  <1>1. group.stage = "settling" /\ accepted' = accepted
    BY DEF SettleNext
  <1>2. PICK item \in ItemType, m \in Messages, e \in DOMAIN log, r \in Nat :
          /\ item = Head(group.todo) /\ m = MessageOf(item)
          /\ e = item.entry /\ r = item.retries + 1
    BY <1>1, FirstItem
  <1>3. group \in GroupsOf(G) /\ group.todo # <<>> /\ Fits(item)
    BY <1>1, <1>2, FirstItem, GoodItemsStay, GroupsGrow
  <1>4. ASSUME Discharged(m, e)', Answer(w, k, "settling")
        PROVE  Becomes(w, k, G)
    <2>1. [item EXCEPT !.result = "answered"] \in G
      BY <1>2, <1>4, NewResult
    <2> QED BY <1>2, <1>3, <1>4, <2>1, AnswerBecomes
  <1>5. ASSUME NEW failed \in BOOLEAN, Settled(w, k, failed)
        PROVE  Becomes(w, k, G)
    BY <1>1, <1>3, <1>5, SettledBecomes
  <1>6. ASSUME Fault
        PROVE  faults' \in 0..MaxFaults
    BY <1>6, FaultBound DEF BatchDataOK
  <1>7. \A n \in consumed : n \in Messages /\ accepted'[n] > 0
    BY <1>1 DEF BatchDataOK, BatchLossInv
  <1>8. CASE AckNext(w, k, item)
    BY <1>5, <1>6, <1>7, <1>8 DEF AckNext, BatchDataOK
  <1>9. CASE RecordNext(w, k, item) /\ item.result = "Ack"
    <2>1. accepted'[m] > 0
      BY <1>1, <1>2, <1>3, <1>9 DEF Fits
    <2>2. Discharged(m, e)'
      BY <2>1 DEF Discharged
    <2>3. Becomes(w, k, G)
      BY <1>4, <1>9, <2>2, EndGroupBecomes DEF RecordNext
    <2>4. consumed' \subseteq consumed \cup {m}
      BY <1>2, <1>9 DEF RecordNext
    <2> QED BY <1>6, <1>7, <1>9, <2>1, <2>3, <2>4 DEF RecordNext, BatchDataOK
  <1>10. CASE RetryNext(w, k, item)
    <2>1. ASSUME log' = Append(log, RetryCopy(m, r))
          PROVE  Discharged(m, e)'
      <3>1. PICK n : n = Len(log) + 1
        OBVIOUS
      <3>2. n \in DOMAIN log' /\ log'[n].msg = m /\ log'[n].st = "delayed" /\ n > e
        <4>1. log \in Seq(Entries(Messages))
          BY DEF BatchDataOK
        <4>2. e \in 1..Len(log) /\ Len(log) \in Nat
          BY <4>1, LenProperties
        <4> QED BY <2>1, <3>1, <4>1, <4>2, AppendLemma
      <3>3. LaterCopy(m, e)'
        BY <3>2 DEF LaterCopy
      <3> QED BY <3>3 DEF Discharged
    <2>2. Becomes(w, k, G)
      BY <1>2, <1>4, <1>5, <1>10, <2>1 DEF RetryNext
    <2> QED BY <1>6, <1>7, <1>10, <2>2 DEF RetryNext, BatchDataOK
  <1>11. CASE BuryNext(w, k, item)
    <2>1. ASSUME buried' = buried \cup {m}
          PROVE  Discharged(m, e)'
      BY <2>1 DEF Discharged
    <2>2. Becomes(w, k, G)
      BY <1>2, <1>4, <1>5, <1>11, <2>1 DEF BuryNext
    <2> QED BY <1>2, <1>6, <1>7, <1>11, <2>2 DEF BuryNext, BatchDataOK
  <1>12. ASSUME NEW action, GiveBackNext(w, k, item, action)
         PROVE  /\ Becomes(w, k, G)
                /\ consumed' = consumed /\ buried' = buried /\ faults' \in 0..MaxFaults
    <2>1. PICK failed \in BOOLEAN : failed = ~(NativeRetry /\ action = "Retry")
      OBVIOUS
    <2>2. Becomes(w, k, G)
      BY <1>5, <1>12, <2>1 DEF GiveBackNext
    <2> QED BY <1>6, <1>12, <2>2 DEF GiveBackNext, BatchDataOK
  <1>13. \/ AckNext(w, k, item)
         \/ RecordNext(w, k, item) /\ item.result = "Ack"
         \/ RetryNext(w, k, item) \/ BuryNext(w, k, item)
         \/ \E action : GiveBackNext(w, k, item, action)
    BY <1>2 DEF SettleNext
  <1> QED BY <1>7, <1>8, <1>9, <1>10, <1>11, <1>12, <1>13 DEF BatchDataOK

\* A group that goes to the lock of its key keeps its items.
LEMMA QueueGood ==
    ASSUME BatchDataOK, BatchLossInv, NEW w \in Workers, NEW k \in Keys, QueueGroup(w, k),
           NEW G, GoodItem \subseteq G
    PROVE  Becomes(w, k, G)
  <1>1. batch[w][k].stage = "spawned"
    BY DEF QueueGroup
  <1>2. batch[w][k] \in GroupsOf(G)
    BY <1>1, FirstItem, GroupsGrow
  <1>3. PICK g : g = [batch[w][k] EXCEPT !.stage = "locking"]
    OBVIOUS
  <1>4. g \in GroupsOf(G)
    BY <1>1, <1>2, <1>3 DEF GroupsOf, GroupStages
  <1>5. batch' = [batch EXCEPT ![w][k] = g]
    BY <1>3 DEF QueueGroup
  <1> QED BY <1>4, <1>5 DEF Becomes

\* A step of a group.
LEMMA GroupGood ==
    ASSUME BatchDataOK, BatchLossInv, NEW w \in Workers, NEW k \in Keys, GroupStep(w, k)
    PROVE  BatchDataOK' /\ BatchLossInv'
  <1>1. LogMoves /\ EvidenceKept /\ log \in Seq(Entries(Messages))
    BY GroupLog DEF BatchDataOK
  <1>2. log' \in Seq(Entries(Messages)) /\ LogKept /\ Kept
    BY <1>1, LogMovesKeep
  <1>3. PICK G : G = GoodItem'
    OBVIOUS
  <1>4. GoodItem \subseteq G
    BY <1>1, <1>2, <1>3, GoodItemsStay
  <1>5. accepted' \in [Messages -> Nat]
    <2>1. CASE HandleBatch(w, k)
      <3>1. batch[w][k].stage = "handling"
        BY <2>1 DEF HandleBatch
      <3>2. PICK todo \in Seq(GoodItem) : todo = batch[w][k].todo
        BY <3>1, FirstItem
      <3>3. \A results, m : Acks(WithResults(todo, results), m) \in Nat
        BY AcksType
      <3> QED BY <2>1, <3>2, <3>3 DEF HandleBatch, BatchDataOK
    <2>2. CASE HandleNext(w, k)
      <3>1. batch[w][k].stage = "handling"
        BY <2>2 DEF HandleNext
      <3>2. PICK m \in Messages : m = MessageOf(Head(batch[w][k].todo))
        BY <3>1, FirstItem
      <3>3. accepted' = accepted \/ accepted' = [accepted EXCEPT ![m] = @ + 1]
        BY <2>2, <3>2 DEF HandleNext
      <3> QED BY <3>3 DEF BatchDataOK
    <2>3. CASE ~HandleBatch(w, k) /\ ~HandleNext(w, k)
      BY <2>3 DEF GroupStep, QueueGroup, CheckNext, AckDuplicate, GroupPanics, SettleNext,
                  BatchDataOK, batchHistory
    <2> QED BY <2>1, <2>2, <2>3
  <1>6. /\ Becomes(w, k, G)
        /\ consumed' \subseteq Messages /\ \A m \in consumed' : accepted'[m] > 0
        /\ faults' \in 0..MaxFaults
        /\ buried' \subseteq Messages
    <2>1. ASSUME Fault
          PROVE  faults' \in 0..MaxFaults
      BY <2>1, FaultBound DEF BatchDataOK
    <2>2. \A n \in consumed : n \in Messages /\ accepted'[n] > 0
      BY <1>1 DEF BatchDataOK, BatchLossInv, EvidenceKept
    <2>3. CASE QueueGroup(w, k)
      BY <1>4, <2>2, <2>3, QueueGood DEF QueueGroup, BatchDataOK, batchHistory
    <2>4. CASE CheckNext(w, k) \/ AckDuplicate(w, k)
      <3>1. Becomes(w, k, G)
        BY <1>1, <1>2, <1>3, <2>4, CheckGood
      <3>2. consumed' = consumed /\ buried' = buried /\ (faults' = faults \/ Fault)
        BY <2>4 DEF CheckNext, AckDuplicate, batchHistory
      <3> QED BY <2>1, <2>2, <3>1, <3>2 DEF BatchDataOK
    <2>5. CASE HandleBatch(w, k) \/ HandleNext(w, k)
      <3>1. Becomes(w, k, G)
        BY <1>1, <1>2, <1>3, <2>5, HandleGood
      <3>2. consumed' = consumed /\ buried' = buried /\ (faults' = faults \/ Fault)
        BY <2>5 DEF HandleBatch, HandleNext
      <3> QED BY <2>1, <2>2, <3>1, <3>2 DEF BatchDataOK
    <2>6. CASE GroupPanics(w, k)
      BY <2>1, <2>2, <2>6, EndGroupBecomes DEF GroupPanics, batchHistory, BatchDataOK
    <2>7. CASE SettleNext(w, k)
      BY <1>1, <1>2, <1>3, <2>7, SettleGood
    <2> QED BY <2>3, <2>4, <2>5, <2>6, <2>7 DEF GroupStep
  <1>7. loop' = loop /\ signalled' = signalled /\ pending' = pending
    BY DEF GroupStep, QueueGroup, CheckNext, AckDuplicate, HandleBatch, HandleNext, GroupPanics,
           SettleNext
  <1>8. pending' \in [Keys -> Seq(DOMAIN log')]
    BY <1>2, <1>7, SeqGrows DEF LogKept, BatchDataOK
  <1>9. batch' \in [Workers -> [Keys -> GroupsOf(G)]]
    <2>1. PICK g \in GroupsOf(G) : batch' = [batch EXCEPT ![w][k] = g]
      BY <1>6 DEF Becomes
    <2>2. batch \in [Workers -> [Keys -> GroupsOf(G)]]
      BY <1>4, GroupsGrow DEF BatchLossInv
    <2> QED BY <2>1, <2>2
  <1>10. BatchDataOK'
    BY <1>2, <1>5, <1>6, <1>7, <1>8 DEF BatchDataOK
  <1>11. \A m \in Messages : Discharged(m, 0)'
    BY <1>2 DEF BatchLossInv, Kept
  <1> QED BY <1>3, <1>6, <1>9, <1>10, <1>11 DEF BatchLossInv

\* At the start every message is in the log, and no batch runs.
LEMMA BatchLossInit == BatchInit => BatchDataOK /\ BatchLossInv
  <1> SUFFICES ASSUME BatchInit PROVE BatchDataOK /\ BatchLossInv
    OBVIOUS
  <1>1. Backlog \in [1..Len(Backlog) -> Messages] /\ Len(Backlog) \in Nat
        /\ DOMAIN Backlog = 1..Len(Backlog)
    BY ConsumerAssumption, LenProperties
  <1>2. log \in Seq(Entries(Messages))
    <2>1. \A m \in Messages : Fresh(m) \in Entries(Messages)
      BY MaxDeliverAssumption DEF Fresh, Entries, EntryStates
    <2>2. log \in [1..Len(Backlog) -> Entries(Messages)]
      BY <1>1, <2>1 DEF BatchInit
    <2> QED BY <1>1, <2>2, SeqDef
  <1>3. ASSUME NEW m \in Messages PROVE LaterCopy(m, 0)
    <2>1. PICK i \in DOMAIN Backlog : m = Backlog[i]
      BY DEF Messages
    <2>2. i \in DOMAIN log /\ log[i] = Fresh(m) /\ i > 0
      BY <1>1, <2>1 DEF BatchInit
    <2> QED BY <2>2 DEF LaterCopy, Fresh
  <1>4. pending \in [Keys -> Seq(DOMAIN log)]
    BY EmptySeq DEF BatchInit, NothingPending
  <1>5. BatchDataOK
    <2>1. faults \in 0..MaxFaults
      BY ConsumerAssumption DEF BatchInit
    <2>2. accepted \in [Messages -> Nat]
      BY DEF BatchInit
    <2>3. /\ loop = "acquire" /\ signalled \in BOOLEAN
          /\ consumed \subseteq Messages /\ buried \subseteq Messages
      BY DEF BatchInit
    <2> QED BY <1>2, <1>4, <2>1, <2>2, <2>3 DEF BatchDataOK
  <1>6. batch \in [Workers -> [Keys -> GroupsOf(GoodItem)]]
    BY NoGroupIn DEF BatchInit, NoBatch
  <1> QED BY <1>3, <1>5, <1>6 DEF BatchInit, BatchLossInv, Discharged

\* A new batch has items without a result.
LEMMA SpawnGood ==
    ASSUME BatchDataOK, BatchLossInv, NEW w \in Workers, SpawnBatch(w),
           LogKept, NEW G, GoodItem \subseteq G, G = GoodItem'
    PROVE  batch' \in [Workers -> [Keys -> GroupsOf(G)]]
  <1> DEFINE items(k) == [n \in DOMAIN pending[k] |-> Item(pending[k][n])]
  <1> DEFINE group(k) == IF pending[k] = <<>> THEN NoGroup
                         ELSE Group(IF Ordered THEN "spawned" ELSE "check", items(k), <<>>)
  <1>1. batch' = [batch EXCEPT ![w] = [k \in Keys |-> group(k)]]
    BY DEF SpawnBatch
  <1>2. ASSUME NEW k \in Keys
        PROVE  group(k) \in GroupsOf(G)
    <2>1. CASE pending[k] = <<>>
      BY <2>1, NoGroupIn
    <2>2. CASE pending[k] # <<>>
      <3>1. PICK q \in Seq(DOMAIN log) : q = pending[k]
        BY DEF BatchDataOK
      <3>2. PICK new : new = items(k)
        OBVIOUS
      <3>3. DOMAIN new = DOMAIN q /\ new = [n \in DOMAIN q |-> new[n]]
        BY <3>1, <3>2
      <3>4. ASSUME NEW n \in DOMAIN q
            PROVE  new[n] \in G
        <4>1. PICK i \in DOMAIN log : i = q[n]
          BY ElementOfSeq, LenProperties
        <4>2. new[n] = [entry |-> i, retries |-> RetryCount(log[i]), result |-> "none"]
          BY <3>1, <3>2, <4>1 DEF Item
        <4>3. RetryCount(log[i]) \in Nat
          BY EntryOf, RetryCountType DEF BatchDataOK
        <4>4. new[n] \in ItemType /\ Fits(new[n])
          BY <4>2, <4>3 DEF ItemType, Fits
        <4> QED BY <4>4 DEF GoodItem
      <3>5. new \in Seq(G) /\ new # <<>>
        <4>1. new \in Seq(G) /\ (new = <<>> <=> q = <<>>)
          BY <3>3, <3>4, SamePositions
        <4> QED BY <2>2, <3>1, <4>1
      <3>6. <<>> \in Seq(G)
        BY EmptySeq
      <3>7. Group(IF Ordered THEN "spawned" ELSE "check", new, <<>>) \in GroupsOf(G)
        BY <3>5, <3>6, GroupIn DEF GroupStages
      <3> QED BY <2>2, <3>2, <3>7
    <2> QED BY <2>1, <2>2
  <1> HIDE DEF group
  <1>3. [k \in Keys |-> group(k)] \in [Keys -> GroupsOf(G)]
    BY <1>2
  <1>4. batch \in [Workers -> [Keys -> GroupsOf(G)]]
    BY GroupsGrow DEF BatchLossInv
  <1> QED BY <1>1, <1>3, <1>4

\* What every step but those of the groups does to the log; it touches no evidence.
LEMMA OtherLog ==
    ASSUME BatchDataOK,
           \/ BatchSendShutdown \/ BatchLoopStep \/ \E w \in Workers : EndBatch(w)
           \/ BatchBrokerStep \/ BatchCrash \/ UNCHANGED batchVars
    PROVE  LogMoves /\ EvidenceKept /\ UNCHANGED <<consumed, accepted, buried>>
  <1>1. LogMoves
    <2>1. CASE BatchLoopStep
      BY <2>1 DEF BatchLoopStep, BatchAcquireSlot, BatchStopFetching, BatchFetchMessage,
                  BatchFetchNothing, BatchFetchError, BatchWake, BatchJoinAll, SpawnBatch, LogMoves
    <2>2. CASE BatchBrokerStep
      BY <2>2 DEF BatchBrokerStep, BatchLeaseExpires, BatchForwardRetry, LogMoves
    <2> QED BY <2>1, <2>2 DEF BatchSendShutdown, EndBatch, BatchCrash, batchVars, LogMoves
  <1>2. UNCHANGED <<consumed, accepted, buried>>
    BY DEF BatchSendShutdown, BatchLoopStep, BatchAcquireSlot, BatchStopFetching,
           BatchFetchMessage, BatchFetchNothing, BatchFetchError, BatchWake, BatchJoinAll,
           SpawnBatch, EndBatch, BatchBrokerStep, BatchLeaseExpires, BatchForwardRetry, BatchCrash,
           batchVars, batchHistory
  <1> QED BY <1>1, <1>2 DEF EvidenceKept

\* Every step of the consumer keeps the data and the items in order.
LEMMA BatchLossStep ==
    ASSUME BatchDataOK, BatchLossInv, [BatchNext]_batchVars
    PROVE  BatchDataOK' /\ BatchLossInv'
  <1>1. ASSUME \/ BatchSendShutdown \/ BatchLoopStep \/ \E w \in Workers : EndBatch(w)
               \/ BatchBrokerStep \/ BatchCrash \/ UNCHANGED batchVars
        PROVE  BatchDataOK' /\ BatchLossInv'
    <2>1. LogMoves /\ EvidenceKept /\ UNCHANGED <<consumed, accepted, buried>>
      BY <1>1, OtherLog
    <2>2. log' \in Seq(Entries(Messages)) /\ LogKept /\ Kept
      BY <2>1, LogMovesKeep DEF BatchDataOK
    <2>3. PICK G : G = GoodItem'
      OBVIOUS
    <2>4. GoodItem \subseteq G
      BY <2>1, <2>2, <2>3, GoodItemsStay
    <2>5. faults' \in 0..MaxFaults
      <3>1. faults' = faults \/ Fault
        BY <1>1 DEF BatchSendShutdown, BatchLoopStep, BatchAcquireSlot, BatchStopFetching,
           BatchFetchMessage, BatchFetchNothing, BatchFetchError, BatchWake, BatchJoinAll,
           SpawnBatch, EndBatch, BatchBrokerStep, BatchLeaseExpires, BatchForwardRetry, BatchCrash,
           batchVars
      <3> QED BY <3>1, FaultBound DEF BatchDataOK
    <2>6. /\ loop' \in {"acquire", "fetch", "batch", "sleep", "drain", "stopped"}
          /\ signalled' \in BOOLEAN
      BY <1>1 DEF BatchSendShutdown, BatchLoopStep, BatchAcquireSlot, BatchStopFetching,
           BatchFetchMessage, BatchFetchNothing, BatchFetchError, BatchWake, BatchJoinAll,
           SpawnBatch, EndBatch, BatchBrokerStep, BatchLeaseExpires, BatchForwardRetry, BatchCrash,
           batchVars, BatchDataOK
    <2>7. pending' \in [Keys -> Seq(DOMAIN log')]
      <3>1. pending \in [Keys -> Seq(DOMAIN log')]
        BY <2>2, SeqGrows DEF BatchDataOK, LogKept
      <3>2. CASE BatchFetchMessage
        <4>1. PICK i \in Deliverable(log) :
                pending' = [pending EXCEPT ![KeyOf[log[i].msg]] = Append(@, i)]
          BY <3>2 DEF BatchFetchMessage
        <4>2. PICK k \in Keys : k = KeyOf[log[i].msg]
          BY EntryOf, ConsumerAssumption DEF Deliverable, BatchDataOK
        <4>3. i \in DOMAIN log'
          BY <2>2 DEF Deliverable, LogKept
        <4>4. Append(pending[k], i) \in Seq(DOMAIN log')
          BY <3>1, <4>3, AppendProperties
        <4> QED BY <3>1, <4>1, <4>2, <4>4
      <3>3. CASE pending' = NothingPending
        BY <3>3, EmptySeq DEF NothingPending
      <3>4. CASE pending' = pending
        BY <3>1, <3>4
      <3> QED BY <1>1, <3>2, <3>3, <3>4 DEF BatchSendShutdown, BatchLoopStep, BatchAcquireSlot,
           BatchStopFetching, BatchFetchNothing, BatchFetchError, BatchWake, BatchJoinAll,
           SpawnBatch, EndBatch, BatchBrokerStep, BatchLeaseExpires, BatchForwardRetry, BatchCrash,
           batchVars
    <2>8. batch' \in [Workers -> [Keys -> GroupsOf(G)]]
      <3>1. batch \in [Workers -> [Keys -> GroupsOf(G)]]
        BY <2>4, GroupsGrow DEF BatchLossInv
      <3>2. NoBatch \in [Keys -> GroupsOf(G)]
        BY NoGroupIn DEF NoBatch
      <3>3. ASSUME NEW w \in Workers, SpawnBatch(w)
            PROVE  batch' \in [Workers -> [Keys -> GroupsOf(G)]]
        BY <2>2, <2>3, <2>4, <3>3, SpawnGood
      <3>4. ASSUME NEW w \in Workers, EndBatch(w)
            PROVE  batch' \in [Workers -> [Keys -> GroupsOf(G)]]
        BY <3>1, <3>2, <3>4 DEF EndBatch
      <3>5. CASE BatchCrash
        BY <3>2, <3>5 DEF BatchCrash
      <3>6. CASE batch' = batch
        BY <3>1, <3>6
      <3> QED BY <1>1, <3>3, <3>4, <3>5, <3>6 DEF BatchSendShutdown, BatchLoopStep,
           BatchAcquireSlot, BatchStopFetching, BatchFetchMessage, BatchFetchNothing,
           BatchFetchError, BatchWake, BatchJoinAll, BatchBrokerStep, BatchLeaseExpires,
           BatchForwardRetry, batchVars
    <2>9. BatchDataOK'
      BY <2>1, <2>2, <2>5, <2>6, <2>7 DEF BatchDataOK
    <2>10. \A m \in Messages : Discharged(m, 0)'
      BY <2>2 DEF BatchLossInv, Kept
    <2> QED BY <2>1, <2>3, <2>8, <2>9, <2>10 DEF BatchLossInv
  <1> QED BY <1>1, GroupGood DEF BatchNext, BatchStopped

LEMMA BatchPromiseInit == BatchInit => BatchPromise!Init
  <1> SUFFICES ASSUME BatchInit PROVE BatchPromise!Init
    OBVIOUS
  <1>1. \A m \in Messages : accepted[m] = 0 /\ m \notin buried
    BY DEF BatchInit
  <1>2. Owed = Messages
    BY <1>1, BatchLossInit DEF BatchLossInv, Discharged, LaterCopy, Owed, Live
  <1> QED BY <1>1, <1>2 DEF BatchPromise!Init, BatchInit, Owed

\* A log that moves adds copies of messages, or settles an entry of one that is discharged.
LEMMA LogPromise ==
    ASSUME log \in Seq(Entries(Messages)), LogMoves, UNCHANGED <<accepted, buried>>,
           \A m \in Messages : Discharged(m, 0)'
    PROVE  [BatchPromise!Next]_(BatchPromise!avars)
  <1>1. CASE Owed \subseteq Owed'
    <2>1. BatchPromise!Redo(Owed') /\ Owed' \in SUBSET Messages
      BY <1>1 DEF BatchPromise!Redo, Owed
    <2> QED BY <2>1 DEF BatchPromise!Next
  <1>2. CASE Owed' \subseteq Owed
    <2>1. PICK ms : ms = Owed \ Owed'
      OBVIOUS
    <2>2. ASSUME NEW m \in ms
          PROVE  m \in Messages /\ (accepted[m] > 0 \/ m \in buried)
      <3>1. m \in Messages /\ ~Live(log', m)
        BY <2>1 DEF Owed
      <3>2. Discharged(m, 0)'
        BY <3>1
      <3> QED BY <3>1, <3>2 DEF Discharged, LaterCopy, Live
    <2>3. Owed' = Owed \ ms
      BY <1>2, <2>1
    <2>4. BatchPromise!Discharge(ms) /\ ms \in SUBSET Messages
      BY <2>2, <2>3 DEF BatchPromise!Discharge, Owed
    <2> QED BY <2>4 DEF BatchPromise!Next
  <1>3. ASSUME NEW i \in DOMAIN log, SameBut(log, log', i),
               log[i].st # "done" => log'[i].st # "done"
        PROVE  Owed \subseteq Owed'
    BY <1>3 DEF SameBut, Owed, Live
  <1>4. ASSUME NEW i \in Deliverable(log), log' = Deliver(log, i)
        PROVE  Owed \subseteq Owed'
    BY <1>3, <1>4, DeliverLemma
  <1>5. ASSUME NEW i \in DOMAIN log, log' = GiveBack(log, i)
        PROVE  Owed \subseteq Owed'
    BY <1>3, <1>5, GiveBackLemma
  <1>6. ASSUME NEW i \in DOMAIN log, log' = Forwarded(log, i)
        PROVE  Owed \subseteq Owed'
    <2>1. SameBut(log, log', i) /\ log'[i].st = "ready"
      BY <1>6, ForwardedLemma
    <2> QED BY <1>3, <2>1
  <1>7. ASSUME NEW m \in Messages, NEW r \in Nat, log' = Append(log, RetryCopy(m, r))
        PROVE  Owed \subseteq Owed'
    <2>1. DOMAIN log \subseteq DOMAIN log' /\ \A j \in DOMAIN log : log'[j] = log[j]
      BY <1>7, AppendLemma
    <2> QED BY <2>1 DEF Owed, Live
  <1>8. ASSUME NEW e \in DOMAIN log, log' = Settle(log, e)
        PROVE  Owed' \subseteq Owed
    <2>1. SameBut(log, log', e) /\ log'[e].st = "done"
      BY <1>8, SettleLemma
    <2> QED BY <2>1 DEF SameBut, Owed, Live
  <1>9. log' = log => Owed' = Owed
    BY DEF Owed, Live
  <1> QED BY <1>1, <1>2, <1>4, <1>5, <1>6, <1>7, <1>8, <1>9 DEF LogMoves

LEMMA BatchPromiseStep ==
    ASSUME BatchDataOK, BatchLossInv, [BatchNext]_batchVars
    PROVE  [BatchPromise!Next]_(BatchPromise!avars)
  <1>1. log \in Seq(Entries(Messages)) /\ \A m \in Messages : Discharged(m, 0)'
    BY BatchLossStep DEF BatchDataOK, BatchLossInv
  <1>2. ASSUME NEW w \in Workers, NEW k \in Keys, GroupStep(w, k)
        PROVE  [BatchPromise!Next]_(BatchPromise!avars)
    <2>1. LogMoves /\ EvidenceKept
      BY <1>2, GroupLog
    <2>2. \/ UNCHANGED <<accepted, buried>>
          \/ UNCHANGED <<log, buried>>
          \/ \E m \in Messages : buried' = buried \cup {m} /\ UNCHANGED <<log, accepted>>
      <3>1. CASE SettleNext(w, k)
        <4>1. batch[w][k].stage = "settling" /\ accepted' = accepted
          BY <3>1 DEF SettleNext
        <4>2. PICK item \in GoodItem, m \in Messages :
                item = Head(batch[w][k].todo) /\ m = MessageOf(item)
          BY <4>1, FirstItem
        <4>3. \/ AckNext(w, k, item) \/ RecordNext(w, k, item) \/ RetryNext(w, k, item)
              \/ BuryNext(w, k, item) \/ \E action : GiveBackNext(w, k, item, action)
          BY <3>1, <4>2 DEF SettleNext
        <4>4. buried' = buried \/ (buried' = buried \cup {m} /\ UNCHANGED log)
          BY <4>2, <4>3 DEF AckNext, RecordNext, RetryNext, BuryNext, GiveBackNext
        <4> QED BY <4>1, <4>4
      <3>2. CASE ~SettleNext(w, k)
        BY <1>2, <3>2 DEF GroupStep, QueueGroup, CheckNext, AckDuplicate, HandleBatch, HandleNext,
                          GroupPanics, batchHistory
      <3> QED BY <3>1, <3>2
    <2>3. CASE UNCHANGED <<accepted, buried>>
      BY <1>1, <2>1, <2>3, LogPromise
    <2>4. CASE UNCHANGED <<log, buried>>
      <3>1. PICK ms \in SUBSET Messages : ms = Handled'
        BY DEF Handled
      <3>2. Handled' = Handled \cup ms
        BY <2>1, <3>1 DEF Handled, EvidenceKept
      <3>3. BatchPromise!Handle(ms)
        BY <2>4, <3>2 DEF BatchPromise!Handle, Handled
      <3> QED BY <3>3 DEF BatchPromise!Next
    <2>5. CASE \E m \in Messages : buried' = buried \cup {m} /\ UNCHANGED <<log, accepted>>
      BY <2>5 DEF BatchPromise!Next, BatchPromise!Bury
    <2> QED BY <2>2, <2>3, <2>4, <2>5
  <1>3. CASE \/ BatchSendShutdown \/ BatchLoopStep \/ \E w \in Workers : EndBatch(w)
             \/ BatchBrokerStep \/ BatchCrash \/ UNCHANGED batchVars
    BY <1>1, <1>3, OtherLog, LogPromise
  <1> QED BY <1>2, <1>3 DEF BatchNext, BatchStopped

\* In batches too the consumer keeps the promise of AtLeastOnce: no error that is
\* applied to a whole batch, and no group that stops half-way or is cancelled,
\* discharges a message that was neither accepted nor buried.
THEOREM BatchPromiseKept == BatchSpec => BatchKeepsPromise
  <1>1. BatchInit => BatchDataOK /\ BatchLossInv
    BY BatchLossInit
  <1>2. BatchDataOK /\ BatchLossInv /\ [BatchNext]_batchVars => (BatchDataOK /\ BatchLossInv)'
    BY BatchLossStep
  <1> QED
    BY <1>1, <1>2, BatchPromiseInit, BatchPromiseStep, PTL
    DEF BatchSpec, BatchKeepsPromise, BatchPromise!Spec

------------------------------------------------------------------------------
(***************************************************************************)
(* The lines at the key locks of ordered batches.  A worker may stand in   *)
(* one line per key; when its batch ends early it leaves all of them, from *)
(* wherever it stands.                                                     *)
(***************************************************************************)

HoldingStages == {"check", "handling", "settling"}

InLine(w, k) == batch[w][k].stage \in HoldingStages \cup {"locking"}
HasKey(w, k) == batch[w][k].stage \in HoldingStages

BatchLineInv ==
    /\ queue \in [Keys -> Seq(Workers)]
    /\ \A k \in Keys : /\ IsInjective(queue[k])
                       /\ Range(queue[k]) = {w \in Workers : InLine(w, k)}
    /\ \A w \in Workers, k \in Keys : HasKey(w, k) => Head(queue[k]) = w

BatchShape == batch \in [Workers -> [Keys -> GroupsOf(GoodItem)]]

\* Somebody leaves a line, wherever he stands, and nobody overtakes.
LEMMA WithoutLine ==
    ASSUME NEW W, NEW q \in Seq(W), IsInjective(q), NEW w, NEW r, r = Without(q, w)
    PROVE  /\ r \in Seq(W) /\ IsInjective(r) /\ Range(r) = Range(q) \ {w}
           /\ q # <<>> /\ Head(q) # w => Head(r) = Head(q)
  <1>1. DOMAIN q = 1..Len(q) /\ Len(q) \in Nat /\ q \in [1..Len(q) -> W]
    BY LenProperties
  <1>2. CASE ~ \E p \in DOMAIN q : q[p] = w
    <2>1. r = q
      BY <1>2 DEF Without
    <2> QED BY <1>2, <2>1 DEF Range
  <1>3. CASE \E p \in DOMAIN q : q[p] = w
    <2>1. PICK p \in DOMAIN q : p = CHOOSE i \in DOMAIN q : q[i] = w
      BY <1>3
    <2>2. q[p] = w
      BY <1>3, <2>1
    <2>3. r = [n \in 1..(Len(q) - 1) |-> IF n < p THEN q[n] ELSE q[n + 1]]
      BY <1>3, <2>1 DEF Without
    <2>4. p \in 1..Len(q) /\ Len(q) - 1 \in Nat
      BY <1>1
    <2>5. ASSUME NEW n \in 1..(Len(q) - 1)
          PROVE  \E i \in 1..Len(q) : i # p /\ r[n] = q[i] /\ i = IF n < p THEN n ELSE n + 1
      BY <1>1, <2>3, <2>4
    <2>6. ASSUME NEW i \in 1..Len(q), i # p
          PROVE  \E n \in 1..(Len(q) - 1) : r[n] = q[i] /\ i = IF n < p THEN n ELSE n + 1
      <3>1. PICK n : n = IF i < p THEN i ELSE i - 1
        OBVIOUS
      <3>2. n \in 1..(Len(q) - 1) /\ i = IF n < p THEN n ELSE n + 1
        BY <1>1, <2>4, <2>6, <3>1
      <3> QED BY <2>3, <3>2
    <2>7. DOMAIN r = 1..(Len(q) - 1)
      BY <2>3
    <2>8. r \in Seq(W)
      <3>1. \A n \in 1..(Len(q) - 1) : r[n] \in W
        BY <1>1, <2>5
      <3>2. r \in [1..(Len(q) - 1) -> W]
        BY <2>3, <3>1
      <3> QED BY <2>4, <3>2, SeqDef
    <2>9. IsInjective(r)
      <3> SUFFICES ASSUME NEW a \in DOMAIN r, NEW b \in DOMAIN r, r[a] = r[b]
                   PROVE  a = b
        BY DEF IsInjective
      <3>1. PICK i \in 1..Len(q), j \in 1..Len(q) :
              /\ r[a] = q[i] /\ i = IF a < p THEN a ELSE a + 1
              /\ r[b] = q[j] /\ j = IF b < p THEN b ELSE b + 1
        BY <2>5, <2>7
      <3>2. i = j
        BY <1>1, <3>1 DEF IsInjective
      <3> QED BY <1>1, <2>4, <2>7, <3>1, <3>2
    <2>10. Range(r) = Range(q) \ {w}
      <3>1. Range(r) \subseteq Range(q) \ {w}
        BY <1>1, <2>2, <2>5, <2>7 DEF Range, IsInjective
      <3>2. Range(q) \ {w} \subseteq Range(r)
        BY <1>1, <2>2, <2>6, <2>7 DEF Range
      <3> QED BY <3>1, <3>2
    <2>11. ASSUME q # <<>>, Head(q) # w
           PROVE  Head(r) = Head(q)
      <3>1. Head(q) = q[1] /\ 1 \in DOMAIN q
        BY <2>11, FirstAndRest
      <3>2. 1 < p
        BY <1>1, <2>2, <2>4, <2>11, <3>1
      <3>3. 1 \in 1..(Len(q) - 1)
        BY <1>1, <2>4, <3>2
      <3>4. r[1] = q[1]
        BY <2>3, <3>2, <3>3
      <3>5. r # <<>>
        BY <2>7, <3>3, EmptySeq
      <3>6. Head(r) = r[1]
        BY <2>8, <3>5, FirstAndRest
      <3> QED BY <3>1, <3>4, <3>6
    <2> QED BY <2>8, <2>9, <2>10, <2>11
  <1> QED BY <1>2, <1>3

\* A step of a group that has or gets its lock: the group goes on with it, or ends.
LEMMA GroupGoesOn ==
    ASSUME BatchShape, NEW w \in Workers, NEW k \in Keys,
           GroupStep(w, k), ~QueueGroup(w, k)
    PROVE  /\ HasKey(w, k) \/ (batch[w][k].stage = "locking" /\ HasLock(w, k))
           /\ \/ /\ queue' = queue
                 /\ \E g : g.stage \in HoldingStages /\ batch' = [batch EXCEPT ![w][k] = g]
              \/ \E failed \in BOOLEAN : EndGroup(w, k, failed)
  <1> DEFINE group == batch[w][k]
  <1> DEFINE Holds(g) == g.stage \in HoldingStages /\ SetGroup(w, k, g)
  <1> DEFINE GoesOn == \/ \E g : Holds(g)
                       \/ \E failed \in BOOLEAN : EndGroup(w, k, failed)
  <1>1. group \in GroupsOf(GoodItem)
    BY DEF BatchShape
  <1>2. ASSUME NEW kept, Checked(w, k, kept)
        PROVE  GoesOn
    <2>1. \/ \E todo, others : \/ SetGroup(w, k, Group("check", todo, others))
                              \/ SetGroup(w, k, Group("handling", todo, others))
          \/ EndGroup(w, k, FALSE)
      BY <1>2 DEF Checked
    <2>2. \A todo, others : /\ Group("check", todo, others).stage \in HoldingStages
                            /\ Group("handling", todo, others).stage \in HoldingStages
      BY DEF Group, HoldingStages
    <2> QED BY <2>1, <2>2
  <1>3. ASSUME NEW stage \in HoldingStages, Answer(w, k, stage)
        PROVE  GoesOn
    <2>1. PICK g : g = [group EXCEPT !.stage = stage, !.todo[1].result = "answered"]
      OBVIOUS
    <2>2. g.stage = stage
      BY <1>1, <2>1 DEF GroupsOf
    <2> QED BY <1>3, <2>1, <2>2 DEF Answer
  <1>4. ASSUME NEW failed \in BOOLEAN, Settled(w, k, failed), group.stage = "settling"
        PROVE  GoesOn
    <2>1. group.failed \/ failed \in BOOLEAN
      BY <1>1 DEF GroupsOf
    <2>2. PICK g : g = [group EXCEPT !.todo = Tail(@), !.failed = group.failed \/ failed]
      OBVIOUS
    <2>3. g.stage = "settling"
      BY <1>1, <1>4, <2>2 DEF GroupsOf
    <2>4. "settling" \in HoldingStages
      BY DEF HoldingStages
    <2>5. EndGroup(w, k, group.failed \/ failed) \/ SetGroup(w, k, g)
      BY <1>4, <2>2 DEF Settled
    <2> QED BY <2>1, <2>3, <2>4, <2>5
  <1>5. CASE CheckNext(w, k)
    <2>1. HasKey(w, k) \/ (batch[w][k].stage = "locking" /\ HasLock(w, k))
      BY <1>5 DEF CheckNext, HasKey, HoldingStages
    <2>2. GoesOn
      BY <1>2, <1>3, <1>5 DEF CheckNext, HoldingStages
    <2> QED BY <2>1, <2>2 DEF SetGroup
  <1>6. CASE AckDuplicate(w, k)
    <2>1. HasKey(w, k)
      BY <1>6 DEF AckDuplicate, HasKey, HoldingStages
    <2>2. GoesOn
      BY <1>2, <1>6 DEF AckDuplicate
    <2> QED BY <2>1, <2>2 DEF SetGroup
  <1>7. CASE HandleBatch(w, k) \/ HandleNext(w, k)
    <2>1. HasKey(w, k)
      BY <1>7 DEF HandleBatch, HandleNext, HasKey, HoldingStages
    <2>2. \A todo, others : /\ Group("settling", todo, others).stage \in HoldingStages
                            /\ Group("handling", todo, others).stage \in HoldingStages
                            /\ [Group("settling", todo, others) EXCEPT !.failed = TRUE].stage
                                  \in HoldingStages
      BY DEF Group, HoldingStages
    <2>3. \E todo, others :
             \/ SetGroup(w, k, Group("settling", todo, others))
             \/ SetGroup(w, k, Group("handling", todo, others))
             \/ SetGroup(w, k, [Group("settling", todo, others) EXCEPT !.failed = TRUE])
      <3>1. CASE HandleBatch(w, k)
        BY <3>1 DEF HandleBatch
      <3>2. CASE HandleNext(w, k)
        BY <3>2 DEF HandleNext
      <3> QED BY <1>7, <3>1, <3>2
    <2>4. GoesOn
      BY <2>2, <2>3
    <2> QED BY <2>1, <2>4 DEF SetGroup
  <1>8. CASE GroupPanics(w, k)
    <2>1. HasKey(w, k)
      BY <1>8 DEF GroupPanics, HasKey, HoldingStages
    <2> QED BY <1>8, <2>1 DEF GroupPanics
  <1>9. CASE SettleNext(w, k)
    <2>1. group.stage = "settling" /\ HasKey(w, k)
      BY <1>9 DEF SettleNext, HasKey, HoldingStages
    <2>2. PICK item : item = Head(group.todo)
      OBVIOUS
    <2>3. \/ AckNext(w, k, item) \/ RecordNext(w, k, item) \/ RetryNext(w, k, item)
          \/ BuryNext(w, k, item) \/ \E action : GiveBackNext(w, k, item, action)
      BY <1>9, <2>2 DEF SettleNext
    <2>4. \/ Answer(w, k, "settling") \/ EndGroup(w, k, TRUE)
          \/ \E failed \in BOOLEAN : Settled(w, k, failed)
      BY <2>3 DEF AckNext, RecordNext, RetryNext, BuryNext, GiveBackNext
    <2>5. "settling" \in HoldingStages
      BY DEF HoldingStages
    <2> QED BY <1>3, <1>4, <2>1, <2>4, <2>5 DEF SetGroup
  <1> QED BY <1>5, <1>6, <1>7, <1>8, <1>9 DEF GroupStep

\* Such a group is at the head of the line of its key.
LEMMA GroupTurn ==
    ASSUME Ordered, BatchShape, BatchLineInv, NEW w \in Workers, NEW k \in Keys,
           GroupStep(w, k), ~QueueGroup(w, k)
    PROVE  InLine(w, k) /\ Head(queue[k]) = w
  BY GroupGoesOn DEF BatchLineInv, HasKey, InLine, HasLock

\* A group asks for the lock of its key: its worker joins the line at the end.
LEMMA LineQueueGroup ==
    ASSUME Ordered, BatchShape, BatchLineInv, NEW w \in Workers, NEW k \in Keys, QueueGroup(w, k)
    PROVE  BatchLineInv'
  <1>1. /\ batch[w][k].stage = "spawned" /\ queue' = [queue EXCEPT ![k] = Append(@, w)]
        /\ batch' = [batch EXCEPT ![w][k].stage = "locking"]
    BY DEF QueueGroup
  <1>2. batch[w][k] \in GroupsOf(GoodItem)
    BY DEF BatchShape
  <1>3. /\ batch'[w][k].stage = "locking"
        /\ \A v \in Workers, j \in Keys : v # w \/ j # k => batch'[v][j] = batch[v][j]
    BY <1>1, <1>2 DEF BatchShape, GroupsOf
  <1>4. PICK q \in Seq(Workers) : q = queue[k]
    BY DEF BatchLineInv
  <1>5. IsInjective(q) /\ Range(q) = {v \in Workers : InLine(v, k)} /\ w \notin Range(q)
    BY <1>1, <1>4 DEF BatchLineInv, InLine, HoldingStages
  <1>6. PICK r : r = Append(q, w)
    OBVIOUS
  <1>7. r \in Seq(Workers) /\ IsInjective(r) /\ Range(r) = Range(q) \cup {w}
    BY <1>5, <1>6, JoinLine
  <1>8. queue' = [queue EXCEPT ![k] = r] /\ queue' \in [Keys -> Seq(Workers)]
    BY <1>1, <1>4, <1>6, <1>7 DEF BatchLineInv
  <1>9. queue'[k] = r /\ \A j \in Keys : j # k => queue'[j] = queue[j]
    BY <1>8 DEF BatchLineInv
  <1>10. ASSUME NEW j \in Keys
         PROVE  IsInjective(queue'[j]) /\ Range(queue'[j]) = {v \in Workers : InLine(v, j)'}
    <2>1. CASE j = k
      <3>1. \A v \in Workers : InLine(v, k)' <=> InLine(v, k) \/ v = w
        BY <1>3 DEF InLine
      <3> QED BY <1>5, <1>7, <1>9, <2>1, <3>1
    <2>2. CASE j # k
      <3>1. \A v \in Workers : InLine(v, j)' <=> InLine(v, j)
        BY <1>3, <2>2 DEF InLine
      <3> QED BY <1>9, <2>2, <3>1 DEF BatchLineInv
    <2> QED BY <2>1, <2>2
  <1>11. ASSUME NEW v \in Workers, NEW j \in Keys, HasKey(v, j)'
         PROVE  Head(queue'[j]) = v
    <2>1. HasKey(v, j)
      BY <1>3, <1>11 DEF HasKey, HoldingStages
    <2>2. Head(queue[j]) = v /\ v \in Range(queue[j])
      BY <2>1 DEF BatchLineInv, HasKey, InLine
    <2>3. CASE j = k
      <3>1. q # <<>>
        BY <1>4, <2>2, <2>3 DEF Range
      <3>2. Head(r) = Head(q)
        <4>1. 1 \in DOMAIN q /\ Head(q) = q[1]
          BY <3>1, FirstAndRest
        <4>2. /\ Len(r) = Len(q) + 1 /\ \A i \in 1..Len(q) : r[i] = q[i]
          BY <1>6, AppendProperties
        <4>3. Len(q) \in Nat /\ DOMAIN q = 1..Len(q)
          BY LenProperties
        <4>4. r # <<>>
          BY <4>2, <4>3, EmptySeq
        <4>5. Head(r) = r[1]
          BY <1>7, <4>4, FirstAndRest
        <4> QED BY <4>1, <4>2, <4>3, <4>5
      <3> QED BY <1>4, <1>9, <2>2, <2>3, <3>2
    <2>4. CASE j # k
      BY <1>9, <2>2, <2>4
    <2> QED BY <2>3, <2>4
  <1> QED BY <1>8, <1>10, <1>11 DEF BatchLineInv

\* The group at the head of the line of its key goes on, or ends and leaves the line.
LEMMA LineTurn ==
    ASSUME Ordered, BatchShape, BatchLineInv, NEW w \in Workers, NEW k \in Keys,
           GroupStep(w, k), ~QueueGroup(w, k)
    PROVE  BatchLineInv'
  <1>1. InLine(w, k) /\ Head(queue[k]) = w
    BY GroupTurn
  <1>2. ASSUME NEW g, batch' = [batch EXCEPT ![w][k] = g]
        PROVE  /\ batch'[w][k] = g
               /\ \A v \in Workers, j \in Keys : v # w \/ j # k => batch'[v][j] = batch[v][j]
    BY <1>2 DEF BatchShape
  <1>3. ASSUME NEW g, g.stage \in HoldingStages, batch' = [batch EXCEPT ![w][k] = g],
               queue' = queue
        PROVE  BatchLineInv'
    <2>1. \A v \in Workers, j \in Keys : InLine(v, j)' <=> InLine(v, j)
      BY <1>1, <1>2, <1>3 DEF InLine
    <2>2. \A v \in Workers, j \in Keys : HasKey(v, j)' => HasKey(v, j) \/ (v = w /\ j = k)
      BY <1>2, <1>3 DEF HasKey
    <2> QED BY <1>1, <1>3, <2>1, <2>2 DEF BatchLineInv
  <1>4. ASSUME NEW failed \in BOOLEAN, EndGroup(w, k, failed)
        PROVE  BatchLineInv'
    <2>1. PICK g : g = [NoGroup EXCEPT !.stage = "ended", !.failed = failed]
      OBVIOUS
    <2>2. g.stage = "ended" /\ batch' = [batch EXCEPT ![w][k] = g]
      BY <1>4, <2>1 DEF EndGroup, NoGroup, Group
    <2>3. /\ batch'[w][k] = g
          /\ \A v \in Workers, j \in Keys : v # w \/ j # k => batch'[v][j] = batch[v][j]
      BY <1>2, <2>2
    <2>4. PICK q \in Seq(Workers) : q = queue[k]
      BY DEF BatchLineInv
    <2>5. PICK r : r = Tail(q)
      OBVIOUS
    <2>6. IsInjective(q) /\ Range(q) = {v \in Workers : InLine(v, k)} /\ q # <<>>
      BY <1>1, <2>4 DEF BatchLineInv, Range
    <2>7. r \in Seq(Workers) /\ IsInjective(r) /\ Range(r) = Range(q) \ {w}
      BY <1>1, <2>4, <2>5, <2>6, LeaveLine
    <2>8. queue' = [queue EXCEPT ![k] = r] /\ queue' \in [Keys -> Seq(Workers)]
      BY <1>4, <2>4, <2>5, <2>7 DEF EndGroup, BatchLineInv
    <2>9. queue'[k] = r /\ \A j \in Keys : j # k => queue'[j] = queue[j]
      BY <2>8 DEF BatchLineInv
    <2>10. ASSUME NEW j \in Keys
           PROVE  IsInjective(queue'[j]) /\ Range(queue'[j]) = {v \in Workers : InLine(v, j)'}
      <3>1. CASE j = k
        <4>1. \A v \in Workers : InLine(v, k)' <=> InLine(v, k) /\ v # w
          BY <2>2, <2>3 DEF InLine, HoldingStages
        <4> QED BY <2>6, <2>7, <2>9, <3>1, <4>1
      <3>2. CASE j # k
        <4>1. \A v \in Workers : InLine(v, j)' <=> InLine(v, j)
          BY <2>3, <3>2 DEF InLine
        <4> QED BY <2>9, <3>2, <4>1 DEF BatchLineInv
      <3> QED BY <3>1, <3>2
    <2>11. ASSUME NEW v \in Workers, NEW j \in Keys, HasKey(v, j)'
           PROVE  Head(queue'[j]) = v
      <3>1. v # w \/ j # k
        BY <2>2, <2>3, <2>11 DEF HasKey, HoldingStages
      <3>2. Head(queue[j]) = v
        BY <2>3, <2>11, <3>1 DEF HasKey, BatchLineInv
      <3>3. j # k
        BY <1>1, <3>1, <3>2
      <3> QED BY <2>9, <3>2, <3>3
    <2> QED BY <2>8, <2>10, <2>11 DEF BatchLineInv
  <1> QED BY <1>3, <1>4, GroupGoesOn

\* A batch that is over leaves every line.
LEMMA LineEndBatch ==
    ASSUME BatchShape, BatchLineInv, NEW w \in Workers, EndBatch(w)
    PROVE  BatchLineInv'
  <1>1. /\ batch' = [batch EXCEPT ![w] = NoBatch]
        /\ queue' = [k \in Keys |-> Without(queue[k], w)]
    BY DEF EndBatch
  <1>2. /\ \A v \in Workers, k \in Keys : v # w => batch'[v][k] = batch[v][k]
        /\ \A k \in Keys : batch'[w][k].stage = "idle"
    BY <1>1 DEF BatchShape, NoBatch, NoGroup, Group
  <1>3. ASSUME NEW k \in Keys
        PROVE  /\ queue'[k] \in Seq(Workers)
               /\ IsInjective(queue'[k]) /\ Range(queue'[k]) = {v \in Workers : InLine(v, k)'}
               /\ \A v \in Workers : HasKey(v, k)' => Head(queue'[k]) = v
    <2>1. PICK q \in Seq(Workers) : q = queue[k]
      BY DEF BatchLineInv
    <2>2. PICK r : r = Without(q, w)
      OBVIOUS
    <2>3. IsInjective(q) /\ Range(q) = {v \in Workers : InLine(v, k)}
      BY <2>1 DEF BatchLineInv
    <2>4. /\ r \in Seq(Workers) /\ IsInjective(r) /\ Range(r) = Range(q) \ {w}
          /\ q # <<>> /\ Head(q) # w => Head(r) = Head(q)
      BY <2>2, <2>3, WithoutLine
    <2>5. queue'[k] = r
      BY <1>1, <2>1, <2>2
    <2>6. \A v \in Workers : InLine(v, k)' <=> InLine(v, k) /\ v # w
      BY <1>2 DEF InLine, HoldingStages
    <2>7. ASSUME NEW v \in Workers, HasKey(v, k)'
          PROVE  Head(r) = v
      <3>1. v # w /\ HasKey(v, k)
        BY <1>2, <2>7 DEF HasKey, HoldingStages
      <3>2. Head(q) = v /\ v \in Range(q)
        BY <2>1, <2>3, <3>1 DEF BatchLineInv, HasKey, InLine
      <3>3. q # <<>>
        BY <3>2 DEF Range
      <3> QED BY <2>4, <3>1, <3>2, <3>3
    <2> QED BY <2>3, <2>4, <2>5, <2>6, <2>7
  <1>4. queue' \in [Keys -> Seq(Workers)]
    BY <1>1, <1>3
  <1> QED BY <1>3, <1>4 DEF BatchLineInv

\* Nobody is in a line that nobody has joined.
LEMMA EmptyLines ==
    ASSUME queue = [k \in Keys |-> <<>>], batch = [w \in Workers |-> NoBatch]
    PROVE  BatchLineInv
  <1>1. \A w \in Workers, k \in Keys : ~InLine(w, k) /\ ~HasKey(w, k)
    BY DEF NoBatch, NoGroup, Group, InLine, HasKey, HoldingStages
  <1>2. IsInjective(<<>>) /\ Range(<<>>) = {} /\ <<>> \in Seq(Workers)
    BY EmptySeq DEF IsInjective, Range
  <1> QED BY <1>1, <1>2 DEF BatchLineInv

\* Every step keeps the lines.
LEMMA BatchLineStep ==
    ASSUME Ordered, BatchShape, BatchLineInv, [BatchNext]_batchVars
    PROVE  BatchLineInv'
  <1>1. CASE UNCHANGED <<batch, queue>>
    BY <1>1 DEF BatchLineInv, InLine, HasKey
  <1>2. ASSUME NEW w \in Workers, SpawnBatch(w)
        PROVE  BatchLineInv'
    <2>1. PICK new : /\ batch' = [batch EXCEPT ![w] = new]
                     /\ new = [k \in Keys |->
                          IF pending[k] = <<>> THEN NoGroup
                          ELSE Group(IF Ordered THEN "spawned" ELSE "check",
                                     [n \in DOMAIN pending[k] |-> Item(pending[k][n])], <<>>)]
      BY <1>2 DEF SpawnBatch
    <2>2. \A k \in Keys : new[k].stage \in {"idle", "spawned"}
      BY <2>1 DEF NoGroup, Group
    <2>3. \A k \in Keys : batch[w][k].stage = "idle"
      BY <1>2 DEF SpawnBatch, NoBatch, NoGroup, Group
    <2>4. batch'[w] = new /\ \A v \in Workers : v # w => batch'[v] = batch[v]
      BY <2>1 DEF BatchShape
    <2>5. \A v \in Workers, k \in Keys :
             (InLine(v, k)' <=> InLine(v, k)) /\ (HasKey(v, k)' <=> HasKey(v, k))
      BY <2>2, <2>3, <2>4 DEF InLine, HasKey, HoldingStages
    <2>6. queue' = queue
      BY <1>2 DEF SpawnBatch
    <2> QED BY <2>5, <2>6 DEF BatchLineInv
  <1>3. CASE BatchCrash
    <2>1. queue' = [k \in Keys |-> <<>>] /\ batch' = [w \in Workers |-> NoBatch]
      BY <1>3 DEF BatchCrash
    <2>2. \A w \in Workers, k \in Keys : ~InLine(w, k)' /\ ~HasKey(w, k)'
      BY <2>1 DEF NoBatch, NoGroup, Group, InLine, HasKey, HoldingStages
    <2>3. IsInjective(<<>>) /\ Range(<<>>) = {} /\ <<>> \in Seq(Workers)
      BY EmptySeq DEF IsInjective, Range
    <2> QED BY <2>1, <2>2, <2>3 DEF BatchLineInv
  <1>4. ASSUME NEW w \in Workers, NEW k \in Keys, GroupStep(w, k)
        PROVE  BatchLineInv'
    BY <1>4, LineQueueGroup, LineTurn
  <1>5. CASE BatchLoopStep /\ ~ \E w \in Workers : SpawnBatch(w)
    BY <1>1, <1>5 DEF BatchLoopStep, BatchAcquireSlot, BatchStopFetching, BatchFetchMessage,
                      BatchFetchNothing, BatchFetchError, BatchWake, BatchJoinAll
  <1>6. CASE BatchSendShutdown \/ BatchBrokerStep \/ UNCHANGED batchVars
    BY <1>1, <1>6 DEF BatchSendShutdown, BatchBrokerStep, BatchLeaseExpires, BatchForwardRetry,
                      batchVars
  <1> QED BY <1>2, <1>3, <1>4, <1>5, <1>6, LineEndBatch DEF BatchNext, BatchStopped, BatchLoopStep

------------------------------------------------------------------------------
(***************************************************************************)
(* The semaphore and what fetch_batch has collected                        *)
(***************************************************************************)

BatchInHand == IF loop \in {"fetch", "batch"} THEN 1 ELSE 0

CollectedSet == {c \in Keys \X (1..BatchSize) : c[2] \in DOMAIN pending[c[1]]}

BatchPermitInv ==
    /\ permits \in Nat
    /\ permits + Cardinality(BatchBusy) + BatchInHand = Cardinality(Workers)
    /\ loop = "batch" <=> pending # NothingPending

CollectedInv == IsFiniteSet(CollectedSet) /\ Collected \in 0..BatchSize

LEMMA BatchBusyCount == IsFiniteSet(BatchBusy) /\ Cardinality(BatchBusy) \in Nat
  BY ConsumerAssumption, FS_Subset, FS_CardinalityType DEF BatchBusy

\* A batch is spawned, runs on, or ends.
LEMMA BatchBusyMoves ==
    ASSUME BatchShape, NEW w \in Workers, NEW b, batch' = [batch EXCEPT ![w] = b]
    PROVE  /\ batch[w] = NoBatch /\ b # NoBatch =>
                Cardinality(BatchBusy)' = Cardinality(BatchBusy) + 1
           /\ batch[w] # NoBatch /\ b = NoBatch =>
                Cardinality(BatchBusy)' = Cardinality(BatchBusy) - 1
           /\ batch[w] # NoBatch /\ b # NoBatch =>
                Cardinality(BatchBusy)' = Cardinality(BatchBusy)
  <1>1. batch'[w] = b /\ \A v \in Workers \ {w} : batch'[v] = batch[v]
    BY DEF BatchShape
  <1>2. BatchBusy' = (BatchBusy \ {w}) \cup {v \in {w} : b # NoBatch}
    BY <1>1 DEF BatchBusy
  <1>3. CASE batch[w] = NoBatch /\ b # NoBatch
    <2>1. w \notin BatchBusy /\ BatchBusy' = BatchBusy \cup {w}
      BY <1>2, <1>3 DEF BatchBusy
    <2> QED BY <1>3, <2>1, BatchBusyCount, FS_AddElement
  <1>4. CASE batch[w] # NoBatch /\ b = NoBatch
    <2>1. w \in BatchBusy /\ BatchBusy' = BatchBusy \ {w}
      BY <1>2, <1>4 DEF BatchBusy
    <2> QED BY <1>4, <2>1, BatchBusyCount, FS_RemoveElement
  <1>5. CASE batch[w] # NoBatch /\ b # NoBatch
    <2>1. BatchBusy' = BatchBusy
      BY <1>2, <1>5 DEF BatchBusy
    <2> QED BY <1>5, <2>1
  <1> QED BY <1>3, <1>4, <1>5

\* No step of a group makes its batch a batch without groups.
LEMMA BatchStaysBusy ==
    ASSUME BatchShape, NEW w \in Workers, NEW k \in Keys, GroupStep(w, k)
    PROVE  Cardinality(BatchBusy)' = Cardinality(BatchBusy)
  <1>1. \E g : g.stage # "idle" /\ batch' = [batch EXCEPT ![w][k] = g]
    <2>1. CASE QueueGroup(w, k)
      <3>1. PICK g : g = [batch[w][k] EXCEPT !.stage = "locking"]
        OBVIOUS
      <3>2. g.stage = "locking"
        BY <3>1 DEF BatchShape, GroupsOf
      <3>3. batch' = [batch EXCEPT ![w][k] = g]
        BY <2>1, <3>1 DEF QueueGroup
      <3> QED BY <3>2, <3>3
    <2>2. ASSUME NEW failed, EndGroup(w, k, failed)
          PROVE  \E g : g.stage # "idle" /\ batch' = [batch EXCEPT ![w][k] = g]
      <3>1. PICK g : g = [NoGroup EXCEPT !.stage = "ended", !.failed = failed]
        OBVIOUS
      <3>2. g.stage = "ended" /\ batch' = [batch EXCEPT ![w][k] = g]
        BY <2>2, <3>1 DEF EndGroup, NoGroup, Group
      <3> QED BY <3>2
    <2>3. CASE ~QueueGroup(w, k)
      BY <2>2, <2>3, GroupGoesOn DEF HoldingStages
    <2> QED BY <2>1, <2>3
  <1>2. PICK g : g.stage # "idle" /\ batch' = [batch EXCEPT ![w][k] = g]
    BY <1>1
  <1>3. batch[w][k].stage # "idle"
    <2>1. CASE QueueGroup(w, k)
      BY <2>1 DEF QueueGroup
    <2>2. CASE ~QueueGroup(w, k)
      BY <2>2, GroupGoesOn DEF HasKey, HoldingStages
    <2> QED BY <2>1, <2>2
  <1>4. NoBatch[k].stage = "idle"
    BY DEF NoBatch, NoGroup, Group
  <1>5. PICK b : b = [batch[w] EXCEPT ![k] = g]
    OBVIOUS
  <1>6. batch' = [batch EXCEPT ![w] = b] /\ b[k] = g
    BY <1>2, <1>5 DEF BatchShape
  <1>7. batch[w] # NoBatch /\ b # NoBatch
    BY <1>2, <1>3, <1>4, <1>6
  <1> QED BY <1>6, <1>7, BatchBusyMoves

LEMMA BatchPermitInit == BatchInit => BatchPermitInv /\ CollectedInv
  <1> SUFFICES ASSUME BatchInit PROVE BatchPermitInv /\ CollectedInv
    OBVIOUS
  <1>1. BatchBusy = {} /\ permits = Cardinality(Workers) /\ loop = "acquire"
    BY DEF BatchInit, BatchBusy
  <1>2. BatchPermitInv
    BY <1>1, ConsumerAssumption, FS_CardinalityType, FS_EmptySet
    DEF BatchPermitInv, BatchInHand, BatchInit
  <1>3. CollectedSet = {}
    BY DEF BatchInit, NothingPending, CollectedSet
  <1> QED BY <1>2, <1>3, FS_EmptySet, BatchAssumption DEF CollectedInv, Collected, CollectedSet

\* One more message: one more pair in the set.
LEMMA CollectedStep ==
    ASSUME BatchDataOK, BatchPermitInv, CollectedInv, [BatchNext]_batchVars
    PROVE  CollectedInv'
  <1>1. CASE pending' = pending
    BY <1>1 DEF CollectedInv, Collected, CollectedSet
  <1>2. CASE pending' = NothingPending
    <2>1. CollectedSet' = {}
      BY <1>2 DEF NothingPending, CollectedSet
    <2>2. Collected' = 0
      BY <2>1, FS_EmptySet DEF Collected, CollectedSet
    <2> QED BY <2>1, <2>2, FS_EmptySet, BatchAssumption DEF CollectedInv
  <1>3. CASE BatchFetchMessage
    <2>1. PICK i \in Deliverable(log) :
            pending' = [pending EXCEPT ![KeyOf[log[i].msg]] = Append(@, i)]
      BY <1>3 DEF BatchFetchMessage
    <2>2. PICK k \in Keys : k = KeyOf[log[i].msg]
      BY EntryOf, ConsumerAssumption DEF Deliverable, BatchDataOK
    <2>3. PICK q \in Seq(DOMAIN log) : q = pending[k]
      BY DEF BatchDataOK
    <2>4. DOMAIN Append(q, i) = DOMAIN q \cup {Len(q) + 1}
      <3>1. i \in DOMAIN log
        BY DEF Deliverable
      <3>2. Append(q, i) \in Seq(DOMAIN log) /\ Len(Append(q, i)) = Len(q) + 1
        BY <3>1, AppendProperties
      <3>3. DOMAIN Append(q, i) = 1..(Len(q) + 1) /\ DOMAIN q = 1..Len(q) /\ Len(q) \in Nat
        BY <3>2, LenProperties
      <3> QED BY <3>3
    <2>5. /\ pending'[k] = Append(q, i)
          /\ \A j \in Keys : j # k => pending'[j] = pending[j]
      BY <2>1, <2>2, <2>3 DEF BatchDataOK
    <2>6. PICK c : c = <<k, Len(q) + 1>>
      OBVIOUS
    <2>7. CollectedSet' \subseteq CollectedSet \cup {c}
      BY <2>3, <2>4, <2>5, <2>6 DEF CollectedSet
    <2>8. Collected < BatchSize
      <3>1. CASE loop = "fetch"
        <4>1. CollectedSet = {}
          BY <3>1 DEF BatchPermitInv, NothingPending, CollectedSet
        <4>2. Collected = 0
          BY <4>1, FS_EmptySet DEF Collected, CollectedSet
        <4> QED BY <4>2, BatchAssumption
      <3> QED BY <1>3, <3>1 DEF BatchFetchMessage
    <2>9. PICK new : new = CollectedSet'
      OBVIOUS
    <2>10. IsFiniteSet(CollectedSet \cup {c}) /\ Cardinality(CollectedSet \cup {c}) \in Nat
           /\ Cardinality(CollectedSet \cup {c}) <= BatchSize
      <3>1. Cardinality(CollectedSet) \in 0..BatchSize /\ Cardinality(CollectedSet) < BatchSize
            /\ IsFiniteSet(CollectedSet)
        BY <2>8 DEF CollectedInv, Collected, CollectedSet
      <3>2. /\ IsFiniteSet(CollectedSet \cup {c})
            /\ \/ Cardinality(CollectedSet \cup {c}) = Cardinality(CollectedSet)
               \/ Cardinality(CollectedSet \cup {c}) = Cardinality(CollectedSet) + 1
        BY <3>1, FS_AddElement
      <3> QED BY <3>1, <3>2, BatchAssumption
    <2>11. IsFiniteSet(new) /\ Cardinality(new) \in 0..BatchSize
      <3>1. IsFiniteSet(new) /\ Cardinality(new) <= Cardinality(CollectedSet \cup {c})
            /\ Cardinality(new) \in Nat
        BY <2>7, <2>9, <2>10, FS_Subset, FS_CardinalityType
      <3> QED BY <2>10, <3>1, BatchAssumption
    <2> QED BY <2>9, <2>11 DEF CollectedInv, Collected, CollectedSet
  <1>4. ASSUME NEW w \in Workers, NEW k \in Keys, GroupStep(w, k)
        PROVE  pending' = pending
    BY <1>4 DEF GroupStep, QueueGroup, CheckNext, AckDuplicate, HandleBatch, HandleNext,
                GroupPanics, SettleNext
  <1>5. CASE BatchLoopStep \/ BatchBrokerStep \/ BatchCrash \/ \E w \in Workers : EndBatch(w)
    BY <1>1, <1>2, <1>3, <1>5
    DEF BatchLoopStep, BatchAcquireSlot, BatchStopFetching, BatchFetchNothing, BatchFetchError,
        BatchWake, BatchJoinAll, SpawnBatch, EndBatch, BatchBrokerStep, BatchLeaseExpires,
        BatchForwardRetry, BatchCrash
  <1>6. CASE BatchSendShutdown \/ UNCHANGED batchVars
    BY <1>1, <1>6 DEF BatchSendShutdown, batchVars
  <1> QED BY <1>1, <1>4, <1>5, <1>6 DEF BatchNext, BatchStopped

\* Every outcome of a fetch, of filling a batch included, and every end of a batch
\* gives the permit back.
LEMMA BatchPermitStep ==
    ASSUME BatchDataOK, BatchShape, BatchPermitInv, [BatchNext]_batchVars
    PROVE  BatchPermitInv'
  <1>1. batch' = batch => Cardinality(BatchBusy)' = Cardinality(BatchBusy)
    BY DEF BatchBusy
  <1>2. Cardinality(BatchBusy) \in Nat /\ permits \in Nat
    BY BatchBusyCount DEF BatchPermitInv
  <1>3. ASSUME NEW w \in Workers, SpawnBatch(w)
        PROVE  BatchPermitInv'
    <2>1. PICK b : /\ batch' = [batch EXCEPT ![w] = b]
                   /\ b = [k \in Keys |->
                          IF pending[k] = <<>> THEN NoGroup
                          ELSE Group(IF Ordered THEN "spawned" ELSE "check",
                                     [n \in DOMAIN pending[k] |-> Item(pending[k][n])], <<>>)]
      BY <1>3 DEF SpawnBatch
    <2>2. PICK k \in Keys : pending[k] # <<>>
      <3>1. pending # NothingPending
        BY <1>3 DEF SpawnBatch, BatchPermitInv
      <3>2. pending = [k \in Keys |-> pending[k]]
        BY DEF BatchDataOK
      <3> QED BY <3>1, <3>2 DEF NothingPending
    <2>3. b[k].stage \in {"spawned", "check"}
      BY <2>1, <2>2 DEF Group
    <2>4. NoBatch[k].stage = "idle"
      BY DEF NoBatch, NoGroup, Group
    <2>5. b # NoBatch
      BY <2>3, <2>4
    <2>6. Cardinality(BatchBusy)' = Cardinality(BatchBusy) + 1
      BY <1>3, <2>1, <2>5, BatchBusyMoves DEF SpawnBatch
    <2> QED BY <1>2, <1>3, <2>6 DEF SpawnBatch, BatchPermitInv, BatchInHand
  <1>4. ASSUME NEW w \in Workers, EndBatch(w)
        PROVE  BatchPermitInv'
    <2>1. Cardinality(BatchBusy)' = Cardinality(BatchBusy) - 1
      BY <1>4, BatchBusyMoves DEF EndBatch
    <2> QED BY <1>2, <1>4, <2>1 DEF EndBatch, BatchPermitInv, BatchInHand
  <1>5. ASSUME NEW w \in Workers, NEW k \in Keys, GroupStep(w, k)
        PROVE  BatchPermitInv'
    <2>1. loop' = loop /\ pending' = pending /\ permits' = permits
      BY <1>5 DEF GroupStep, QueueGroup, CheckNext, AckDuplicate, HandleBatch, HandleNext,
                  GroupPanics, SettleNext
    <2>2. Cardinality(BatchBusy)' = Cardinality(BatchBusy)
      BY <1>5, BatchStaysBusy
    <2> QED BY <1>2, <2>1, <2>2 DEF BatchPermitInv, BatchInHand
  <1>6. CASE BatchCrash
    <2>1. BatchBusy' = {} /\ permits' = Cardinality(Workers) /\ loop' = "acquire"
          /\ pending' = NothingPending
      BY <1>6 DEF BatchCrash, BatchBusy
    <2> QED BY <2>1, ConsumerAssumption, FS_CardinalityType, FS_EmptySet
        DEF BatchPermitInv, BatchInHand
  <1>7. CASE BatchFetchMessage
    <2>1. pending' # NothingPending
      <3>1. PICK i \in Deliverable(log) :
              pending' = [pending EXCEPT ![KeyOf[log[i].msg]] = Append(@, i)]
        BY <1>7 DEF BatchFetchMessage
      <3>2. PICK k \in Keys : k = KeyOf[log[i].msg]
        BY EntryOf, ConsumerAssumption DEF Deliverable, BatchDataOK
      <3>3. pending[k] \in Seq(DOMAIN log) /\ i \in DOMAIN log
        BY DEF BatchDataOK, Deliverable
      <3>4. pending'[k] = Append(pending[k], i)
        BY <3>1, <3>2 DEF BatchDataOK
      <3>5. Len(Append(pending[k], i)) = Len(pending[k]) + 1 /\ Len(pending[k]) \in Nat
        BY <3>3, AppendProperties, LenProperties
      <3>6. Len(pending'[k]) # 0
        BY <3>4, <3>5
      <3>7. pending'[k] # <<>>
        BY <3>6, EmptySeq
      <3> QED BY <3>7 DEF NothingPending
    <2> QED BY <1>1, <1>2, <1>7, <2>1 DEF BatchFetchMessage, BatchPermitInv, BatchInHand
  <1>8. CASE BatchAcquireSlot \/ BatchStopFetching
    BY <1>1, <1>2, <1>8 DEF BatchAcquireSlot, BatchStopFetching, BatchPermitInv, BatchInHand
  <1>9. CASE BatchFetchNothing \/ BatchFetchError
    BY <1>1, <1>2, <1>9 DEF BatchFetchNothing, BatchFetchError, BatchPermitInv, BatchInHand
  <1>10. CASE BatchWake \/ BatchJoinAll \/ BatchSendShutdown \/ UNCHANGED batchVars
    BY <1>1, <1>2, <1>10
    DEF BatchWake, BatchJoinAll, BatchSendShutdown, batchVars, BatchPermitInv, BatchInHand
  <1>11. CASE BatchBrokerStep
    BY <1>1, <1>2, <1>11
    DEF BatchBrokerStep, BatchLeaseExpires, BatchForwardRetry, BatchPermitInv, BatchInHand
  <1> QED BY <1>3, <1>4, <1>5, <1>6, <1>7, <1>8, <1>9, <1>10, <1>11
      DEF BatchNext, BatchStopped, BatchLoopStep

\* Without ordered = true the groups leave the key locks alone.
LEMMA NoBatchLines ==
    ASSUME ~Ordered, BatchShape, queue = [k \in Keys |-> <<>>], [BatchNext]_batchVars,
           \A w \in Workers, k \in Keys : batch[w][k].stage # "spawned"
    PROVE  /\ queue' = [k \in Keys |-> <<>>]
           /\ \A w \in Workers, k \in Keys : batch'[w][k].stage # "spawned"
  <1>1. ASSUME NEW w \in Workers, NEW k \in Keys, GroupStep(w, k)
        PROVE  /\ queue' = queue
               /\ \A v \in Workers, j \in Keys : batch'[v][j].stage # "spawned"
    <2>1. ~QueueGroup(w, k)
      BY DEF QueueGroup
    <2>2. queue' = queue /\ \E g : g.stage # "spawned" /\ batch' = [batch EXCEPT ![w][k] = g]
      <3>1. ASSUME NEW failed, EndGroup(w, k, failed)
            PROVE  /\ queue' = queue
                   /\ \E g : g.stage # "spawned" /\ batch' = [batch EXCEPT ![w][k] = g]
        <4>1. PICK g : g = [NoGroup EXCEPT !.stage = "ended", !.failed = failed]
          OBVIOUS
        <4>2. g.stage = "ended" /\ batch' = [batch EXCEPT ![w][k] = g] /\ queue' = queue
          BY <3>1, <4>1 DEF EndGroup, NoGroup, Group
        <4> QED BY <4>2
      <3> QED BY <1>1, <2>1, <3>1, GroupGoesOn DEF HoldingStages
    <2> QED BY <2>2 DEF BatchShape
  <1>2. ASSUME NEW w \in Workers, SpawnBatch(w)
        PROVE  /\ queue' = queue
               /\ \A v \in Workers, j \in Keys : batch'[v][j].stage # "spawned"
    <2>1. PICK b : /\ batch' = [batch EXCEPT ![w] = b]
                   /\ b = [k \in Keys |->
                          IF pending[k] = <<>> THEN NoGroup
                          ELSE Group(IF Ordered THEN "spawned" ELSE "check",
                                     [n \in DOMAIN pending[k] |-> Item(pending[k][n])], <<>>)]
      BY <1>2 DEF SpawnBatch
    <2>2. \A k \in Keys : b[k].stage # "spawned"
      BY <2>1 DEF Group, NoGroup
    <2> QED BY <1>2, <2>1, <2>2 DEF SpawnBatch, BatchShape
  <1>3. \A k \in Keys : NoBatch[k].stage # "spawned"
    BY DEF NoBatch, NoGroup, Group
  <1>4. ASSUME NEW w \in Workers, EndBatch(w)
        PROVE  /\ queue' = queue
               /\ \A v \in Workers, j \in Keys : batch'[v][j].stage # "spawned"
    <2>1. Without(<<>>, w) = <<>>
      BY DEF Without
    <2> QED BY <1>3, <1>4, <2>1 DEF EndBatch, BatchShape
  <1>5. CASE BatchCrash
    BY <1>3, <1>5 DEF BatchCrash
  <1>6. CASE BatchLoopStep /\ ~ \E w \in Workers : SpawnBatch(w)
    BY <1>6 DEF BatchLoopStep, BatchAcquireSlot, BatchStopFetching, BatchFetchMessage,
                BatchFetchNothing, BatchFetchError, BatchWake, BatchJoinAll
  <1>7. CASE BatchSendShutdown \/ BatchBrokerStep \/ UNCHANGED batchVars
    BY <1>7 DEF BatchSendShutdown, BatchBrokerStep, BatchLeaseExpires, BatchForwardRetry,
                batchVars
  <1> QED BY <1>1, <1>2, <1>4, <1>5, <1>6, <1>7 DEF BatchNext, BatchStopped, BatchLoopStep

BatchQueueInv ==
    IF Ordered THEN BatchLineInv
    ELSE /\ queue = [k \in Keys |-> <<>>]
         /\ \A w \in Workers, k \in Keys : batch[w][k].stage # "spawned"

BatchWhole == BatchDataOK /\ BatchLossInv /\ BatchPermitInv /\ CollectedInv /\ BatchQueueInv

LEMMA BatchWholeInit == BatchInit => BatchWhole
  <1> SUFFICES ASSUME BatchInit PROVE BatchQueueInv
    BY BatchLossInit, BatchPermitInit DEF BatchWhole
  <1>1. \A w \in Workers, k \in Keys : batch[w][k].stage # "spawned"
    BY DEF BatchInit, NoBatch, NoGroup, Group
  <1> QED BY <1>1, EmptyLines DEF BatchQueueInv, BatchInit

LEMMA BatchWholeStep == BatchWhole /\ [BatchNext]_batchVars => BatchWhole'
  <1> SUFFICES ASSUME BatchWhole, [BatchNext]_batchVars PROVE BatchWhole'
    OBVIOUS
  <1>1. BatchShape
    BY DEF BatchWhole, BatchLossInv, BatchShape
  <1>2. BatchDataOK' /\ BatchLossInv'
    BY BatchLossStep DEF BatchWhole
  <1>3. BatchPermitInv' /\ CollectedInv'
    BY <1>1, BatchPermitStep, CollectedStep DEF BatchWhole
  <1>4. BatchQueueInv'
    BY <1>1, BatchLineStep, NoBatchLines DEF BatchWhole, BatchQueueInv
  <1> QED BY <1>2, <1>3, <1>4 DEF BatchWhole

\* Every permit is free, with the loop or with a batch: an error in the middle of
\* filling a batch, a failed key and a cancelled group give it back, once.
THEOREM BatchPermitsHeldHolds == BatchSpec => []BatchPermitsHeld
  <1>1. BatchWhole => BatchPermitsHeld
    BY DEF BatchWhole, BatchPermitInv, BatchPermitsHeld, BatchInHand
  <1> QED BY <1>1, BatchWholeInit, BatchWholeStep, PTL DEF BatchSpec

\* The whole state of the consumer of batches is well-formed; no batch is larger than
\* batch_size, and a group that runs has an item to work on.
THEOREM BatchTypeCorrect == BatchSpec => []BatchTypeOK
  <1>1. BatchWhole => BatchTypeOK
    <2> SUFFICES ASSUME BatchWhole PROVE BatchTypeOK
      OBVIOUS
    <2>1. permits \in 0..Cardinality(Workers)
      <3>1. Cardinality(Workers) \in Nat
        BY ConsumerAssumption, FS_CardinalityType
      <3> QED BY <3>1, BatchBusyCount DEF BatchWhole, BatchPermitInv, BatchInHand
    <2>2. queue \in [Keys -> Seq(Workers)]
      <3>1. CASE Ordered
        BY <3>1 DEF BatchWhole, BatchQueueInv, BatchLineInv
      <3>2. CASE ~Ordered
        BY <3>2, EmptySeq DEF BatchWhole, BatchQueueInv
      <3> QED BY <3>1, <3>2
    <2>3. batch \in [Workers -> [Keys -> GroupsOf(ItemType)]]
      <3>1. GoodItem \subseteq ItemType
        BY DEF GoodItem
      <3>2. GroupsOf(GoodItem) \subseteq GroupsOf(ItemType)
        BY <3>1, GroupsGrow
      <3> QED BY <3>2 DEF BatchWhole, BatchLossInv
    <2>4. Collected <= BatchSize
      BY BatchAssumption DEF BatchWhole, CollectedInv
    <2> QED BY <2>1, <2>2, <2>3, <2>4 DEF BatchWhole, BatchDataOK, BatchTypeOK
  <1> QED BY <1>1, BatchWholeInit, BatchWholeStep, PTL DEF BatchSpec

\* With ordered = true the groups with one key work one at a time: of all batches at
\* most one group with the key is past its lock, whichever groups were cancelled.
THEOREM KeyExclusiveHolds == BatchSpec => []KeyExclusive
  <1>1. BatchWhole => KeyExclusive
    <2> SUFFICES ASSUME Ordered, BatchLineInv, NEW k \in Keys
                 PROVE  Cardinality({w \in Workers :
                           batch[w][k].stage \in {"check", "handling", "settling"}}) <= 1
      BY DEF KeyExclusive, BatchWhole, BatchQueueInv
    <2>1. PICK S : S = {w \in Workers : batch[w][k].stage \in {"check", "handling", "settling"}}
      OBVIOUS
    <2>2. PICK first : first = Head(queue[k])
      OBVIOUS
    <2>3. S \subseteq {first}
      BY <2>1, <2>2 DEF BatchLineInv, HasKey, HoldingStages
    <2>4. IsFiniteSet({first}) /\ Cardinality({first}) = 1
      BY FS_Singleton
    <2>5. Cardinality(S) <= 1
      BY <2>3, <2>4, FS_Subset
    <2> QED BY <2>1, <2>5
  <1> QED BY <1>1, BatchWholeInit, BatchWholeStep, PTL DEF BatchSpec

==============================================================================
