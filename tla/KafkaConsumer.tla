---------------------------- MODULE KafkaConsumer ----------------------------
(***************************************************************************)
(* The consumer runtime on Kafka (kafka/consumer.rs under process_message  *)
(* of consumer/runtime.rs), for one partition.  Kafka keeps no state per   *)
(* message: ack and term commit the offset after the message, everything   *)
(* before a committed offset counts as done, and nack does nothing.  The   *)
(* commits are asynchronous, and a consumer goes back to the committed     *)
(* offset when it restarts or gets its partition anew.                     *)
(*                                                                         *)
(* The fetch loop, its permits and its shutdown are those of               *)
(* ConsumerRuntime and are reduced here to the bound on running tasks.     *)
(* Offsets count from 1.                                                   *)
(***************************************************************************)
EXTENDS RetryPolicy, Sequences, FiniteSets

CONSTANTS
    Workers,                \* the permits: config.poll.concurrency of them
    Backlog,                \* the messages in the partition, a sequence
    Verdicts,               \* what the handlers of this deployment return
    Idempotent,             \* config.idempotent with a store that is durable
    HasRetryPublisher,      \* with_retry_publisher
    HasDeadLetterPublisher, \* with_dead_letter_publisher
    MaxFaults               \* bound on the faults of a behaviour

Messages == {Backlog[i] : i \in DOMAIN Backlog}

ASSUME KafkaAssumption ==
    /\ IsFiniteSet(Workers) /\ Workers # {}
    /\ Backlog \in Seq(Messages)
    /\ Verdicts \subseteq MessageVerdicts
    /\ Idempotent \in BOOLEAN
    /\ HasRetryPublisher \in BOOLEAN /\ HasDeadLetterPublisher \in BOOLEAN
    /\ MaxFaults \in Nat

VARIABLES
    log,        \* the partition
    delayed,    \* retry copies in the retry topic
    position,   \* the offset the consumer fetches next
    committed,  \* the committed offset of the group
    commits,    \* commits on their way to the broker
    task,       \* task[w]: what the task that holds permit w is doing
    consumed,   \* the idempotency store
    faults,     \* faults so far
    \* history
    handled,    \* messages a handler has accepted
    buried,     \* messages in the dead-letter queue
    abandoned   \* messages whose task ended without acknowledging them

vars == <<log, delayed, position, committed, commits, task, consumed, faults,
          handled, buried, abandoned>>

partition == <<log, delayed, position, committed, commits>>
history == <<handled, buried, abandoned>>

Stages == {"idle", "spawned", "handling", "record", "publish", "bury", "ack"}

NoTask == [stage |-> "idle", offset |-> 0]

Entry(w) == log[task[w].offset]
Message(w) == Entry(w).msg

Init ==
    /\ log = [i \in DOMAIN Backlog |-> [msg |-> Backlog[i], retries |-> 0]]
    /\ delayed = {}
    /\ position = 1
    /\ committed = 1
    /\ commits = <<>>
    /\ task = [w \in Workers |-> NoTask]
    /\ consumed = {}
    /\ faults = 0
    /\ handled = {}
    /\ buried = {}
    /\ abandoned = {}

Fault == faults < MaxFaults /\ faults' = faults + 1

Advance(w, stage) ==
    /\ task' = [task EXCEPT ![w].stage = stage]
    /\ UNCHANGED abandoned

\* the task returns an error, or panics: its message is not acknowledged
Abandon(w) ==
    /\ task' = [task EXCEPT ![w] = NoTask]
    /\ abandoned' = abandoned \cup {Message(w)}

------------------------------------------------------------------------------
(***************************************************************************)
(* A message, from its fetch to its acknowledgement                        *)
(***************************************************************************)

FetchMessage(w) ==
    /\ task[w] = NoTask /\ position <= Len(log)
    /\ task' = [task EXCEPT ![w] = [stage |-> "spawned", offset |-> position]]
    /\ position' = position + 1
    /\ UNCHANGED <<log, delayed, committed, commits, consumed, faults, history>>

CheckDuplicate(w) ==
    /\ task[w].stage = "spawned"
    /\ \/ /\ Advance(w, IF Idempotent /\ Message(w) \in consumed THEN "ack"
                                                               ELSE "handling")
          /\ UNCHANGED faults
       \/ Idempotent /\ Fault /\ Abandon(w)
    /\ UNCHANGED <<partition, consumed, handled, buried>>

Accept(w) ==
    /\ handled' = handled \cup {Message(w)}
    /\ Advance(w, IF Idempotent THEN "record" ELSE "ack")

\* mutant: a retry is acknowledged without being published
RejectAcknowledges(w, verdict) ==
    LET action == FailureAction(verdict, Entry(w).retries)
    IN  /\ IF action = "Retry" THEN Advance(w, "ack")
           ELSE IF HasDeadLetterPublisher THEN Advance(w, "bury")
           ELSE Abandon(w)
        /\ UNCHANGED handled

\* apply_failure_action with an ack handle that has no native retry
Reject(w, verdict) ==
    LET action == FailureAction(verdict, Entry(w).retries)
    IN  /\ CASE action = "Retry" /\ HasRetryPublisher -> Advance(w, "publish")
             [] action = "DeadLetter" /\ HasDeadLetterPublisher -> Advance(w, "bury")
             [] OTHER -> Abandon(w)
        /\ UNCHANGED handled

HandlerReturns(w) ==
    /\ task[w].stage = "handling"
    /\ \E verdict \in Verdicts :
          IF verdict = "Ack" THEN Accept(w) ELSE Reject(w, verdict)
    /\ UNCHANGED <<partition, consumed, faults, buried>>

HandlerPanics(w) ==
    /\ task[w].stage = "handling" /\ Fault
    /\ Abandon(w)
    /\ UNCHANGED <<partition, consumed, handled, buried>>

RecordConsumed(w) ==
    /\ task[w].stage = "record"
    /\ \/ /\ consumed' = consumed \cup {Message(w)}
          /\ Advance(w, "ack")
          /\ UNCHANGED faults
       \/ /\ Fault
          /\ consumed' \in {consumed, consumed \cup {Message(w)}}
          /\ Abandon(w)
    /\ UNCHANGED <<partition, handled, buried>>

\* mutant: a failed publish does not keep the message from being acknowledged
PublishRetryUnchecked(w) ==
    LET copy == [msg |-> Message(w), retries |-> Entry(w).retries + 1]
    IN  /\ task[w].stage = "publish"
        /\ \/ delayed' = delayed \cup {copy} /\ UNCHANGED faults
           \/ Fault /\ UNCHANGED delayed
        /\ Advance(w, "ack")
        /\ UNCHANGED <<log, position, committed, commits, consumed, handled, buried>>

PublishRetry(w) ==
    LET copy == [msg |-> Message(w), retries |-> Entry(w).retries + 1]
    IN  /\ task[w].stage = "publish"
        /\ \/ /\ delayed' = delayed \cup {copy}
              /\ Advance(w, "ack")
              /\ UNCHANGED faults
           \/ /\ Fault
              /\ delayed' \in {delayed, delayed \cup {copy}}
              /\ Abandon(w)
        /\ UNCHANGED <<log, position, committed, commits, consumed, handled, buried>>

PublishDeadLetter(w) ==
    /\ task[w].stage = "bury"
    /\ \/ /\ buried' = buried \cup {Message(w)}
          /\ Advance(w, "ack")
          /\ UNCHANGED faults
       \/ /\ Fault
          /\ buried' \in {buried, buried \cup {Message(w)}}
          /\ Abandon(w)
    /\ UNCHANGED <<partition, consumed, handled>>

\* commit_offset_inner: the offset to read next
CommitOffset(w) == Append(commits, task[w].offset + 1)

\* ack and term: the commit is only handed to the client, which may refuse it
Acknowledge(w) ==
    /\ task[w].stage = "ack"
    /\ \/ commits' = CommitOffset(w) /\ UNCHANGED faults
       \/ Fault /\ UNCHANGED commits
    /\ task' = [task EXCEPT ![w] = NoTask]
    /\ UNCHANGED <<log, delayed, position, committed, consumed, history>>

TaskStep(w) ==
    \/ FetchMessage(w) \/ CheckDuplicate(w)
    \/ HandlerReturns(w) \/ HandlerPanics(w) \/ RecordConsumed(w)
    \/ PublishRetry(w) \/ PublishDeadLetter(w) \/ Acknowledge(w)

------------------------------------------------------------------------------
(***************************************************************************)
(* The broker, the retry topic and the process                             *)
(***************************************************************************)

\* the broker takes the offset as it is, also when it goes back
CommitArrives ==
    /\ commits # <<>>
    /\ \/ committed' = Head(commits) /\ UNCHANGED faults
       \/ Fault /\ UNCHANGED committed
    /\ commits' = Tail(commits)
    /\ UNCHANGED <<log, delayed, position, task, consumed, history>>

\* mutant: the forwarder acknowledges a copy it did not send
ForwardRetryDrops(copy) ==
    /\ copy \in delayed
    /\ delayed' = delayed \ {copy}
    /\ UNCHANGED <<log, position, committed, commits, task, consumed, faults, history>>

\* RetryForwarderHandler sends a retry copy back to its topic
ForwardRetry(copy) ==
    /\ copy \in delayed
    /\ delayed' = delayed \ {copy}
    /\ log' = Append(log, copy)
    /\ UNCHANGED <<position, committed, commits, task, consumed, faults, history>>

\* The partition is assigned anew.  The tasks go on and commit what they had;
\* commits under way are refused when they belong to the old generation.
Rebalance ==
    /\ Fault
    /\ position' = committed
    /\ commits' \in {commits, <<>>}
    /\ UNCHANGED <<log, delayed, committed, task, consumed, history>>

Crash ==
    /\ Fault
    /\ position' = committed
    /\ commits' = <<>>
    /\ task' = [w \in Workers |-> NoTask]
    /\ UNCHANGED <<log, delayed, committed, consumed, history>>

Next ==
    \/ \E w \in Workers : TaskStep(w)
    \/ CommitArrives
    \/ \E copy \in delayed : ForwardRetry(copy)
    \/ Rebalance \/ Crash

Spec == Init /\ [][Next]_vars

\* the tokio runtime runs every task on, and the broker and the forwarder answer
FairSpec ==
    /\ Spec
    /\ \A w \in Workers : WF_vars(TaskStep(w))
    /\ WF_vars(CommitArrives)
    /\ WF_vars(\E copy \in delayed : ForwardRetry(copy))

------------------------------------------------------------------------------
(***************************************************************************)
(* Properties                                                              *)
(***************************************************************************)

\* Types of the state.  No offset is ever fetched or committed beyond the end
\* of the partition (commit_offset_inner commits the offset after the message).
TypeOK ==
    /\ log \in Seq([msg : Messages, retries : Nat])
    /\ delayed \subseteq [msg : Messages, retries : Nat]
    /\ {position, committed} \subseteq 1..(Len(log) + 1)
    /\ commits \in Seq(1..(Len(log) + 1))
    /\ task \in [Workers -> [stage : Stages, offset : 0..Len(log)]]
    /\ \A w \in Workers : task[w].stage # "idle" => task[w].offset > 0
    /\ faults \in 0..MaxFaults
    /\ consumed \subseteq handled
    /\ handled \cup buried \cup abandoned \subseteq Messages

\* the messages that will be delivered to a consumer that starts now
Owed == {log[i].msg : i \in committed..Len(log)} \cup {copy.msg : copy \in delayed}

\* A committed offset never passes over a message that has come to no end:
\* whatever is lost was abandoned by a task that ended with an error or a panic.
\* This needs concurrency = 1, which alone makes the commits follow the order
\* of the partition.
LossNeedsError == Messages \subseteq Owed \cup handled \cup buried \cup abandoned

\* As long as no task gives up on its message, the consumer keeps the promise
\* of AtLeastOnce, step by step, across crashes, rebalances and lost commits.
Promise == INSTANCE AtLeastOnce WITH owed <- Owed

PromiseUnlessAbandoned ==
    [][abandoned' = {} => Promise!Next \/ UNCHANGED Promise!avars]_vars

\* Every message comes to an end, or is abandoned.
EveryMessageResolved == \A m \in Messages : <>(m \in handled \cup buried \cup abandoned)

==============================================================================
