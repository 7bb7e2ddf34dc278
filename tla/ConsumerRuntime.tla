--------------------------- MODULE ConsumerRuntime ---------------------------
(***************************************************************************)
(* ConsumerRuntime::run_with_shutdown and process_message                  *)
(* (consumer/runtime.rs) with batch_size = 1: a loop that takes a permit,  *)
(* fetches a message and spawns a task for it; tasks that check the        *)
(* idempotency store, call the handler, record, and acknowledge, retry or  *)
(* bury the message; a shutdown signal that ends the loop and drains the   *)
(* tasks; a process that may crash and come back.                          *)
(*                                                                         *)
(* Every await of a task that another task, the broker or a crash can      *)
(* interleave with is the end of an action.  Everything that goes wrong    *)
(* outside the program (a store, a publish or an acknowledgement that      *)
(* fails, with or without effect, a handler slower than the ack_wait, a    *)
(* panic, a crash) uses up the fault budget MaxFaults.                     *)
(***************************************************************************)
EXTENDS Consumer

CONSTANTS
    Verdicts,               \* what the handlers of this deployment return
    DurableStore            \* the store survives a crash (InMemory does not)

ASSUME RuntimeAssumption ==
    /\ Verdicts \subseteq MessageVerdicts
    /\ DurableStore \in BOOLEAN

VARIABLES
    task,       \* task[w]: what the task that holds permit w is doing
    \* history
    runs,       \* runs[m]: handler calls that returned, for m
    unrecorded  \* unrecorded[m]: acceptances whose record failed or was lost

vars == <<log, loop, signalled, permits, task, queue, consumed, faults,
          runs, accepted, unrecorded, buried>>

history == <<runs, accepted, unrecorded, buried>>

LoopStates == {"acquire", "fetch", "sleep", "drain", "stopped"}
Stages == {"idle", "spawned", "locking", "handling", "record", "ack",
           "publish", "ackRetry", "nack", "bury", "term"}

NoTask == [stage |-> "idle", entry |-> 0, retries |-> 0]

Message(w) == log[task[w].entry].msg
KeyOfTask(w) == KeyOf[Message(w)]

Init ==
    /\ log = [i \in DOMAIN Backlog |-> Fresh(Backlog[i])]
    /\ loop = "acquire"
    /\ signalled = FALSE
    /\ permits = Cardinality(Workers)
    /\ task = [w \in Workers |-> NoTask]
    /\ queue = [k \in Keys |-> <<>>]
    /\ consumed = {}
    /\ faults = 0
    /\ runs = [m \in Messages |-> 0]
    /\ accepted = [m \in Messages |-> 0]
    /\ unrecorded = [m \in Messages |-> 0]
    /\ buried = {}

------------------------------------------------------------------------------
(***************************************************************************)
(* The fetch loop                                                          *)
(***************************************************************************)

\* the service runtime fires the oneshot channel
SendShutdown ==
    /\ ~signalled /\ loop # "stopped"
    /\ signalled' = TRUE
    /\ UNCHANGED <<log, loop, permits, task, queue, consumed, faults, history>>

AcquireSlot ==
    /\ loop = "acquire" /\ permits > 0
    /\ loop' = "fetch"
    /\ permits' = permits - 1
    /\ UNCHANGED <<log, signalled, task, queue, consumed, faults, history>>

\* Both selects of the loop watch the signal.  The fetch that the second one
\* drops may already have taken a message from the broker.
StopFetching ==
    /\ signalled /\ loop \in {"acquire", "fetch"}
    /\ loop' = "drain"
    /\ \/ /\ loop = "acquire"
          /\ UNCHANGED <<log, permits>>
       \/ /\ loop = "fetch"
          /\ permits' = permits + 1
          /\ \/ UNCHANGED log
             \/ \E i \in Deliverable(log) : log' = Deliver(log, i)
    /\ UNCHANGED <<signalled, task, queue, consumed, faults, history>>

\* spawn_message_task moves the permit into the task
FetchMessage(w) ==
    /\ loop = "fetch" /\ task[w] = NoTask
    /\ \E i \in Deliverable(log) :
          /\ log' = Deliver(log, i)
          /\ task' = [task EXCEPT ![w] = [stage |-> "spawned", entry |-> i,
                                          retries |-> RetryCount(log'[i])]]
    /\ loop' = "acquire"
    /\ UNCHANGED <<signalled, permits, queue, consumed, faults, history>>

FetchNothing ==
    /\ loop = "fetch" /\ Deliverable(log) = {}
    /\ loop' = "sleep"
    /\ permits' = permits + 1
    /\ UNCHANGED <<log, signalled, task, queue, consumed, faults, history>>

FetchError ==
    /\ loop = "fetch" /\ Fault
    /\ loop' = "sleep"
    /\ permits' = permits + 1
    /\ UNCHANGED <<log, signalled, task, queue, consumed, history>>

\* the end of idle_backoff or error_backoff; the signal is not watched meanwhile
Wake ==
    /\ loop = "sleep"
    /\ loop' = "acquire"
    /\ UNCHANGED <<log, signalled, permits, task, queue, consumed, faults, history>>

\* join_next until the JoinSet is empty
JoinAll ==
    /\ loop = "drain"
    /\ \A w \in Workers : task[w] = NoTask
    /\ loop' = "stopped"
    /\ UNCHANGED <<log, signalled, permits, task, queue, consumed, faults, history>>

------------------------------------------------------------------------------
(***************************************************************************)
(* A message task.  Advance moves it on; Finish ends it: its permit and    *)
(* its key guard are dropped, and the message is left as it is.            *)
(***************************************************************************)

Advance(w, stage) ==
    /\ task' = [task EXCEPT ![w].stage = stage]
    /\ UNCHANGED <<permits, queue>>

\* mutant: the permit is forgotten
FinishKeepsPermit(w) ==
    /\ task' = [task EXCEPT ![w] = NoTask]
    /\ permits' = permits
    /\ queue' = IF Ordered THEN [queue EXCEPT ![KeyOfTask(w)] = Tail(@)] ELSE queue

\* mutant: the key lock is not released
FinishKeepsLock(w) ==
    /\ task' = [task EXCEPT ![w] = NoTask]
    /\ permits' = permits + 1
    /\ queue' = queue

Finish(w) ==
    /\ task' = [task EXCEPT ![w] = NoTask]
    /\ permits' = permits + 1
    /\ queue' = IF Ordered THEN [queue EXCEPT ![KeyOfTask(w)] = Tail(@)] ELSE queue

\* The first poll of the task asks for the lock of its key.  The runtime polls
\* spawned tasks in any order; the lock serves its waiters first in, first out.
QueueForKey(w) ==
    /\ Ordered /\ task[w].stage = "spawned"
    /\ queue' = [queue EXCEPT ![KeyOfTask(w)] = Append(@, w)]
    /\ task' = [task EXCEPT ![w].stage = "locking"]
    /\ UNCHANGED <<log, loop, signalled, permits, consumed, faults, history>>

HasTurn(w) ==
    IF Ordered THEN task[w].stage = "locking" /\ Head(queue[KeyOfTask(w)]) = w
               ELSE task[w].stage = "spawned"

\* is_duplicate: a store error leaves the message alone, a duplicate is
\* acknowledged, anything else goes to the handler
CheckDuplicate(w) ==
    /\ HasTurn(w)
    /\ \/ /\ Advance(w, IF Idempotent /\ Message(w) \in consumed THEN "ack"
                                                               ELSE "handling")
          /\ UNCHANGED faults
       \/ Idempotent /\ Fault /\ Finish(w)
    /\ UNCHANGED <<log, loop, signalled, consumed, history>>

\* mutant: an accepted message is acknowledged but not recorded
AcceptUnrecorded(w) ==
    /\ accepted' = [accepted EXCEPT ![Message(w)] = @ + 1]
    /\ Advance(w, "ack")

Accept(w) ==
    /\ accepted' = [accepted EXCEPT ![Message(w)] = @ + 1]
    /\ Advance(w, IF Idempotent THEN "record" ELSE "ack")

\* mutant: a message for the dead-letter queue is terminated but not published
RejectTerminates(w, verdict) ==
    LET action == FailureAction(verdict, task[w].retries)
    IN  /\ CASE action = "Retry" /\ HasRetryPublisher -> Advance(w, "publish")
             [] action = "DeadLetter" -> Advance(w, "term")
             [] OTHER -> IF NativeRetry THEN Advance(w, "nack") ELSE Finish(w)
        /\ UNCHANGED accepted

\* apply_failure_action up to its first await
Reject(w, verdict) ==
    LET action == FailureAction(verdict, task[w].retries)
    IN  /\ CASE action = "Retry" /\ HasRetryPublisher -> Advance(w, "publish")
             [] action = "DeadLetter" /\ HasDeadLetterPublisher -> Advance(w, "bury")
             [] OTHER -> IF NativeRetry THEN Advance(w, "nack") ELSE Finish(w)
        /\ UNCHANGED accepted

HandlerReturns(w) ==
    /\ task[w].stage = "handling"
    /\ \E verdict \in Verdicts :
          IF verdict = "Ack" THEN Accept(w) ELSE Reject(w, verdict)
    /\ runs' = [runs EXCEPT ![Message(w)] = @ + 1]
    /\ UNCHANGED <<log, loop, signalled, consumed, faults, unrecorded, buried>>

HandlerPanics(w) ==
    /\ task[w].stage = "handling" /\ Fault
    /\ Finish(w)
    /\ UNCHANGED <<log, loop, signalled, consumed, history>>

RecordConsumed(w) ==
    /\ task[w].stage = "record"
    /\ \/ /\ consumed' = consumed \cup {Message(w)}
          /\ Advance(w, "ack")
          /\ UNCHANGED <<faults, unrecorded>>
       \/ /\ Fault
          /\ consumed' \in {consumed, consumed \cup {Message(w)}}
          /\ unrecorded' = [unrecorded EXCEPT ![Message(w)] = @ + 1]
          /\ Finish(w)
    /\ UNCHANGED <<log, loop, signalled, runs, accepted, buried>>

\* the ack of an accepted, duplicate or republished message, and the term of a
\* buried one
SettleMessage(w) ==
    /\ task[w].stage \in {"ack", "ackRetry", "term"}
    /\ \/ log' = Settle(log, task[w].entry) /\ UNCHANGED faults
       \/ Fault /\ UNCHANGED log
    /\ Finish(w)
    /\ UNCHANGED <<loop, signalled, consumed, history>>

PublishRetry(w) ==
    LET copy == RetryCopy(Message(w), task[w].retries + 1)
    IN  /\ task[w].stage = "publish"
        /\ \/ /\ log' = Append(log, copy)
              /\ Advance(w, "ackRetry")
              /\ UNCHANGED faults
           \/ /\ Fault
              /\ log' \in {log, Append(log, copy)}
              /\ Finish(w)
        /\ UNCHANGED <<loop, signalled, consumed, history>>

PublishDeadLetter(w) ==
    /\ task[w].stage = "bury"
    /\ \/ /\ buried' = buried \cup {Message(w)}
          /\ Advance(w, "term")
          /\ UNCHANGED faults
       \/ /\ Fault
          /\ buried' \in {buried, buried \cup {Message(w)}}
          /\ Finish(w)
    /\ UNCHANGED <<log, loop, signalled, consumed, runs, accepted, unrecorded>>

Nack(w) ==
    /\ task[w].stage = "nack"
    /\ \/ log' = GiveBack(log, task[w].entry) /\ UNCHANGED faults
       \/ Fault /\ UNCHANGED log
    /\ Finish(w)
    /\ UNCHANGED <<loop, signalled, consumed, history>>

TaskStep(w) ==
    \/ QueueForKey(w) \/ CheckDuplicate(w)
    \/ HandlerReturns(w) \/ HandlerPanics(w) \/ RecordConsumed(w)
    \/ SettleMessage(w) \/ PublishRetry(w) \/ PublishDeadLetter(w) \/ Nack(w)

------------------------------------------------------------------------------
(***************************************************************************)
(* The surroundings                                                        *)
(***************************************************************************)

InFlight(i) == \E w \in Workers : task[w].entry = i

\* ack_wait runs out; it is a fault only while a task still has the message
LeaseExpires(i) ==
    /\ Is(log, i, "leased")
    /\ IF InFlight(i) THEN Fault ELSE UNCHANGED faults
    /\ log' = GiveBack(log, i)
    /\ UNCHANGED <<loop, signalled, permits, task, queue, consumed, history>>

\* RetryForwarderHandler sends a retry copy back to its topic
ForwardRetry(i) ==
    /\ Is(log, i, "delayed")
    /\ log' = Forwarded(log, i)
    /\ UNCHANGED <<loop, signalled, permits, task, queue, consumed, faults, history>>

\* The process dies and is started again.  An acceptance that was not recorded
\* yet will never be; an in-memory store forgets all of them.
Crash ==
    /\ loop # "stopped" /\ Fault
    /\ loop' = "acquire"
    /\ signalled' = FALSE
    /\ permits' = Cardinality(Workers)
    /\ task' = [w \in Workers |-> NoTask]
    /\ queue' = [k \in Keys |-> <<>>]
    /\ consumed' = IF DurableStore THEN consumed ELSE {}
    /\ unrecorded' =
         [m \in Messages |->
            unrecorded[m]
            + Cardinality({w \in Workers : task[w].stage = "record" /\ Message(w) = m})
            + IF m \in consumed /\ ~DurableStore THEN 1 ELSE 0]
    /\ UNCHANGED <<log, runs, accepted, buried>>

\* `run`, the loop without a shutdown channel
RunStep ==
    \/ AcquireSlot \/ FetchNothing \/ FetchError \/ Wake
    \/ \E w \in Workers : FetchMessage(w)

\* run_with_shutdown, which adds the signal and the drain
LoopStep == RunStep \/ StopFetching \/ JoinAll

BrokerStep == \E i \in DOMAIN log : LeaseExpires(i) \/ ForwardRetry(i)

\* a runtime that has stopped stays stopped
Stopped == loop = "stopped" /\ UNCHANGED vars

Next ==
    \/ SendShutdown \/ LoopStep
    \/ \E w \in Workers : TaskStep(w)
    \/ BrokerStep \/ Crash \/ Stopped

Spec == Init /\ [][Next]_vars

(***************************************************************************)
(* Tokio polls the loop and every task that can run, a handler returns,    *)
(* and the broker ends the leases of messages no task has.  tokio::select! *)
(* picks at random among its ready branches, so the signal is not passed   *)
(* over for ever although the loop leaves the selects to sleep or spawn.   *)
(***************************************************************************)
Fairness ==
    /\ WF_vars(LoopStep)
    /\ SF_vars(StopFetching)
    /\ \A w \in Workers : WF_vars(TaskStep(w))
    /\ WF_vars(BrokerStep)

FairSpec == Spec /\ Fairness

------------------------------------------------------------------------------
(***************************************************************************)
(* Properties                                                              *)
(***************************************************************************)

Busy == {w \in Workers : task[w].stage # "idle"}

\* Everything but the semaphore and the key locks; a task that runs has an entry
\* of the log.
DataOK ==
    /\ log \in Seq(Entries(Messages))
    /\ loop \in LoopStates
    /\ signalled \in BOOLEAN
    /\ task \in [Workers -> [stage : Stages, entry : Nat, retries : Nat]]
    /\ \A w \in Workers : IF task[w].stage = "idle" THEN task[w] = NoTask
                                                  ELSE task[w].entry \in DOMAIN log
    /\ consumed \subseteq Messages
    /\ faults \in 0..MaxFaults
    /\ runs \in [Messages -> Nat]
    /\ accepted \in [Messages -> Nat]
    /\ unrecorded \in [Messages -> Nat]
    /\ buried \subseteq Messages

\* Types of the state: the log of run_with_shutdown's broker, its loop, its
\* semaphore, its tasks, its key locks and its store.
TypeOK ==
    /\ DataOK
    /\ permits \in 0..Cardinality(Workers)
    /\ queue \in [Keys -> Seq(Workers)]

\* Every permit is free, with the loop that is about to fetch, or with a task: none
\* leaks, whichever way a task ends, and none is given back twice.  (So the loop
\* that holds a permit always finds a worker without a task.)
PermitsHeld ==
    permits + Cardinality(Busy) + (IF loop = "fetch" THEN 1 ELSE 0) = Cardinality(Workers)

\* At-least-once: whatever fails and whenever the process dies, a message is
\* still in the stream, or a handler accepted it, or it is in the dead-letter
\* queue (process_message acknowledges only after the one or the other).
NothingLost ==
    \A m \in Messages : Live(log, m) \/ accepted[m] > 0 \/ m \in buried

\* With ordered = true and a store, each acceptance of a message beyond the
\* first is explained by a record that failed or was lost: the key lock makes
\* is_duplicate ... record_consumed atomic for the copies of a message.
AcceptedOnce ==
    Ordered /\ Idempotent =>
      \A m \in Messages : accepted[m] <= 1 + unrecorded[m]

\* Without faults, and with somewhere to bury it, each copy of a message is
\* handled at most max_retries + 1 times, whether its retries come from the
\* retry topic or from the broker.
RetryBudget ==
    faults = 0 /\ EnableDlq /\ HasDeadLetterPublisher =>
      \A m \in Messages :
        runs[m] <= (MaxRetries + 1) * Cardinality({i \in DOMAIN Backlog : Backlog[i] = m})

\* The consumer keeps the promise of AtLeastOnce.
Promise == INSTANCE AtLeastOnce WITH
    owed <- {m \in Messages : Live(log, m)},
    handled <- {m \in Messages : accepted[m] > 0}

KeepsPromise == Promise!Spec

\* Every message comes to an end: it is accepted, it is buried, or the broker
\* has given up on each of its copies, unless the runtime is told to stop.
Resolved(m) ==
    \/ accepted[m] > 0 \/ m \in buried
    \/ \A i \in DOMAIN log :
         log[i].msg = m => log[i].st = "done" \/ (Exhausted(log, i) /\ ~InFlight(i))

EveryMessageResolved == \A m \in Messages : <>(Resolved(m) \/ signalled)

\* A shutdown signal ends the runtime, after every task, whatever the loop was
\* doing when it came (a crash starts a new runtime, which has no signal).
ShutdownCompletes == signalled ~> (loop = "stopped" \/ ~signalled)

==============================================================================
