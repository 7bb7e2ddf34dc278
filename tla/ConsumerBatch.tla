---------------------------- MODULE ConsumerBatch ----------------------------
(***************************************************************************)
(* ConsumerRuntime (consumer/runtime.rs) with batch_size > 1: fetch_batch  *)
(* collects messages for one permit, and a task runs process_batch on them *)
(* or, with ordered = true, process_ordered_batch runs one process_batch   *)
(* per message key, each under the lock of its key, in a JoinSet of its    *)
(* own; dispatch_batch (consumer/dispatcher.rs) hands a batch to the       *)
(* handlers.                                                               *)
(*                                                                         *)
(* A batch is a function from keys to groups; an unordered batch is one    *)
(* group.  A group goes through the loops of process_batch: it checks its  *)
(* items one by one, has them handled, and settles them one by one.  An    *)
(* item that waits for its acknowledgement only is "answered".             *)
(***************************************************************************)
EXTENDS Consumer

CONSTANTS
    BatchSize,              \* config.batch_size
    Results,                \* the MessageResults and errors of the handlers
    BatchHandler,           \* one handler serves all topics, and supports_batch
    Unhandled               \* messages of topics that no handler is registered for

MessageResults == {"Ack", "Nack", "DeadLetter"}

\* without ordered = true a batch is one group, as if all had one key
ASSUME BatchAssumption ==
    /\ BatchSize \in Nat \ {0, 1}
    /\ Results \subseteq MessageVerdicts
    /\ Unhandled \subseteq Messages
    /\ BatchHandler \in BOOLEAN
    /\ Ordered \/ Cardinality(Keys) = 1

VARIABLES
    pending,    \* pending[k]: the entries with key k that fetch_batch has so far
    batch       \* batch[w][k]: the group of key k in the batch that holds permit w

batchVars == <<log, loop, signalled, permits, pending, batch, queue, consumed, faults,
          accepted, buried>>

batchHistory == <<accepted, buried>>

Group(stage, todo, kept) == [stage |-> stage, todo |-> todo, kept |-> kept, failed |-> FALSE]

NoGroup == Group("idle", <<>>, <<>>)
NoBatch == [k \in Keys |-> NoGroup]
NothingPending == [k \in Keys |-> <<>>]

Item(i) == [entry |-> i, retries |-> RetryCount(log[i]), result |-> "none"]
MessageOf(item) == log[item.entry].msg

BatchInit ==
    /\ log = [i \in DOMAIN Backlog |-> Fresh(Backlog[i])]
    /\ loop = "acquire"
    /\ signalled = FALSE
    /\ permits = Cardinality(Workers)
    /\ pending = NothingPending
    /\ batch = [w \in Workers |-> NoBatch]
    /\ queue = [k \in Keys |-> <<>>]
    /\ consumed = {}
    /\ faults = 0
    /\ accepted = [m \in Messages |-> 0]
    /\ buried = {}

------------------------------------------------------------------------------
(***************************************************************************)
(* The fetch loop.  The signal is watched before the permit is taken and   *)
(* while the first message is awaited, not while fetch_batch waits for     *)
(* more.                                                                   *)
(***************************************************************************)

BatchSendShutdown ==
    /\ ~signalled /\ loop # "stopped"
    /\ signalled' = TRUE
    /\ UNCHANGED <<log, loop, permits, pending, batch, queue, consumed, faults, batchHistory>>

BatchAcquireSlot ==
    /\ loop = "acquire" /\ permits > 0
    /\ loop' = "fetch"
    /\ permits' = permits - 1
    /\ UNCHANGED <<log, signalled, pending, batch, queue, consumed, faults, batchHistory>>

\* the fetch that is dropped may already have taken a message from the broker
BatchStopFetching ==
    /\ signalled /\ loop \in {"acquire", "fetch"}
    /\ loop' = "drain"
    /\ \/ loop = "acquire" /\ UNCHANGED <<log, permits>>
       \/ /\ loop = "fetch"
          /\ permits' = permits + 1
          /\ log' \in {log} \cup {Deliver(log, i) : i \in Deliverable(log)}
    /\ UNCHANGED <<signalled, pending, batch, queue, consumed, faults, batchHistory>>

\* how many messages fetch_batch has; it keeps them in one vector, which
\* process_ordered_batch splits by key, and here they are kept split
Collected == Cardinality({c \in Keys \X (1..BatchSize) : c[2] \in DOMAIN pending[c[1]]})

\* the first message of a batch, or one more within batch_timeout_ms
BatchFetchMessage ==
    /\ loop = "fetch" \/ (loop = "batch" /\ Collected < BatchSize)
    /\ \E i \in Deliverable(log) :
          /\ log' = Deliver(log, i)
          /\ pending' = [pending EXCEPT ![KeyOf[log[i].msg]] = Append(@, i)]
    /\ loop' = "batch"
    /\ UNCHANGED <<signalled, permits, batch, queue, consumed, faults, batchHistory>>

\* The batch is full, the timeout is over, or there is no message: spawn_batch_task.
\* The timeout too drops a fetch that may already have taken a message.
SpawnBatch(w) ==
    /\ loop = "batch" /\ batch[w] = NoBatch
    /\ batch' = [batch EXCEPT ![w] =
          [k \in Keys |->
             IF pending[k] = <<>> THEN NoGroup
             ELSE Group(IF Ordered THEN "spawned" ELSE "check",
                        [n \in DOMAIN pending[k] |-> Item(pending[k][n])], <<>>)]]
    /\ log' \in {log} \cup {Deliver(log, i) : i \in {j \in Deliverable(log) :
                                                    Collected < BatchSize}}
    /\ pending' = NothingPending
    /\ loop' = "acquire"
    /\ UNCHANGED <<signalled, permits, queue, consumed, faults, batchHistory>>

BatchFetchNothing ==
    /\ loop = "fetch" /\ Deliverable(log) = {}
    /\ loop' = "sleep"
    /\ permits' = permits + 1
    /\ UNCHANGED <<log, signalled, pending, batch, queue, consumed, faults, batchHistory>>

\* mutant: the permit is kept when fetch_batch fails
BatchFetchErrorKeepsPermit ==
    /\ loop \in {"fetch", "batch"} /\ Fault
    /\ loop' = "sleep"
    /\ permits' = IF loop = "fetch" THEN permits + 1 ELSE permits
    /\ pending' = NothingPending
    /\ UNCHANGED <<log, signalled, batch, queue, consumed, batchHistory>>

\* an error of fetch: what fetch_batch had collected is dropped with the permit
BatchFetchError ==
    /\ loop \in {"fetch", "batch"} /\ Fault
    /\ loop' = "sleep"
    /\ permits' = permits + 1
    /\ pending' = NothingPending
    /\ UNCHANGED <<log, signalled, batch, queue, consumed, batchHistory>>

BatchWake ==
    /\ loop = "sleep"
    /\ loop' = "acquire"
    /\ UNCHANGED <<log, signalled, permits, pending, batch, queue, consumed, faults, batchHistory>>

BatchJoinAll ==
    /\ loop = "drain"
    /\ \A w \in Workers : batch[w] = NoBatch
    /\ loop' = "stopped"
    /\ UNCHANGED <<log, signalled, permits, pending, batch, queue, consumed, faults, batchHistory>>

------------------------------------------------------------------------------
(***************************************************************************)
(* A group: process_batch under the lock of its key                        *)
(***************************************************************************)

SetGroup(w, k, group) ==
    /\ batch' = [batch EXCEPT ![w][k] = group]
    /\ UNCHANGED queue

\* the group's task is over, with Err when it failed; its key guard is dropped
EndGroup(w, k, failed) ==
    /\ batch' = [batch EXCEPT ![w][k] = [NoGroup EXCEPT !.stage = "ended", !.failed = failed]]
    /\ queue' = IF Ordered THEN [queue EXCEPT ![k] = Tail(@)] ELSE queue

QueueGroup(w, k) ==
    /\ batch[w][k].stage = "spawned"
    /\ batch' = [batch EXCEPT ![w][k].stage = "locking"]
    /\ queue' = [queue EXCEPT ![k] = Append(@, w)]
    /\ UNCHANGED <<log, loop, signalled, permits, pending, consumed, faults, batchHistory>>

\* mutant: the lock of the key is not awaited
HasLockAtOnce(w, k) == TRUE

HasLock(w, k) == Ordered => Head(queue[k]) = w

\* the head of the group's items is done with in the first loop of process_batch
Checked(w, k, kept) ==
    LET rest == Tail(batch[w][k].todo)
    IN  CASE rest # <<>>                 -> SetGroup(w, k, Group("check", rest, kept))
          [] rest = <<>> /\ kept # <<>>  -> SetGroup(w, k, Group("handling", kept, <<>>))
          [] OTHER                       -> EndGroup(w, k, FALSE)

\* the head of the group's items only waits for its acknowledgement
Answer(w, k, stage) ==
    SetGroup(w, k, [batch[w][k] EXCEPT !.stage = stage, !.todo[1].result = "answered"])

\* is_duplicate of the next item; an error of the store ends the group
CheckNext(w, k) ==
    LET group == batch[w][k]
        item == Head(group.todo)
    IN  /\ group.stage \in {"check", "locking"} /\ HasLock(w, k)
        /\ item.result = "none"
        /\ \/ /\ IF Idempotent /\ MessageOf(item) \in consumed
                 THEN Answer(w, k, "check")
                 ELSE Checked(w, k, Append(group.kept, item))
              /\ UNCHANGED faults
           \/ Idempotent /\ Fault /\ EndGroup(w, k, TRUE)
        /\ UNCHANGED <<log, loop, signalled, permits, pending, consumed, batchHistory>>

\* a duplicate is acknowledged and left out; an error ends the group
AckDuplicate(w, k) ==
    LET group == batch[w][k]
        item == Head(group.todo)
    IN  /\ group.stage = "check" /\ item.result = "answered"
        /\ \/ /\ log' = Settle(log, item.entry)
              /\ Checked(w, k, group.kept)
              /\ UNCHANGED faults
           \/ Fault /\ EndGroup(w, k, TRUE) /\ UNCHANGED log
        /\ UNCHANGED <<loop, signalled, permits, pending, consumed, batchHistory>>

WithResults(items, results) ==
    [n \in DOMAIN items |-> [items[n] EXCEPT !.result = results[n]]]

WithResult(items, result) == WithResults(items, [n \in DOMAIN items |-> result])

\* how many of the items were accepted and are copies of m
Acks(items, m) ==
    Cardinality({n \in DOMAIN items : items[n].result = "Ack" /\ MessageOf(items[n]) = m})

\* dispatch_batch hands the whole batch to a handler that supports it
Batched(group) ==
    BatchHandler /\ \A n \in DOMAIN group.todo : MessageOf(group.todo[n]) \notin Unhandled

\* handle_batch: a result for each item, one error for all of them, or a number
\* of results that does not match
HandleBatch(w, k) ==
    LET group == batch[w][k]
        todo == group.todo
    IN  /\ group.stage = "handling" /\ Batched(group)
        /\ \/ \E results \in [DOMAIN todo -> Results \cap MessageResults] :
                LET done == WithResults(todo, results)
                IN  /\ SetGroup(w, k, Group("settling", done, <<>>))
                    /\ accepted' = [m \in Messages |-> accepted[m] + Acks(done, m)]
                    /\ UNCHANGED faults
           \/ \E error \in Results \ MessageResults :
                /\ SetGroup(w, k, Group("settling", WithResult(todo, error), <<>>))
                /\ UNCHANGED <<accepted, faults>>
           \/ /\ Fault
              /\ SetGroup(w, k, [Group("settling", WithResult(todo, "Handler"), <<>>)
                                    EXCEPT !.failed = TRUE])
              /\ UNCHANGED accepted
        /\ UNCHANGED <<log, loop, signalled, permits, pending, consumed, buried>>

\* The fallback of dispatch_batch: the items are handled one by one, and an error
\* of the handler counts as a Nack of its item; but a topic without a handler is
\* an error of the whole batch, whatever the results so far were.
HandleNext(w, k) ==
    LET group == batch[w][k]
        item == Head(group.todo)
        Handled(result) == Append(group.kept, [item EXCEPT !.result = result])
    IN  /\ group.stage = "handling" /\ ~Batched(group)
        /\ \/ /\ MessageOf(item) \in Unhandled
              /\ SetGroup(w, k, Group("settling",
                                      WithResult(group.kept \o group.todo, "NoHandler"), <<>>))
              /\ UNCHANGED accepted
           \/ /\ MessageOf(item) \notin Unhandled
              /\ \E verdict \in Results :
                   LET result == IF verdict \in MessageResults THEN verdict ELSE "Nack"
                   IN  /\ SetGroup(w, k, IF Len(group.todo) = 1
                                         THEN Group("settling", Handled(result), <<>>)
                                         ELSE Group("handling", Tail(group.todo), Handled(result)))
                       /\ accepted' = IF result = "Ack"
                                      THEN [accepted EXCEPT ![MessageOf(item)] = @ + 1]
                                      ELSE accepted
        /\ UNCHANGED <<log, loop, signalled, permits, pending, consumed, faults, buried>>

GroupPanics(w, k) ==
    /\ batch[w][k].stage = "handling" /\ Fault
    /\ EndGroup(w, k, TRUE)
    /\ UNCHANGED <<log, loop, signalled, permits, pending, consumed, batchHistory>>

------------------------------------------------------------------------------
(***************************************************************************)
(* The settling loop of process_batch and apply_error_to_all: each item    *)
(* gets what its result asks for.  An acknowledgement or a publish that    *)
(* fails is remembered and the loop goes on; a record that fails ends it.  *)
(***************************************************************************)

\* on to the next item, or the end of the group
Settled(w, k, failed) ==
    LET group == batch[w][k]
        failedNow == group.failed \/ failed
    IN  IF Len(group.todo) = 1
        THEN EndGroup(w, k, failedNow)
        ELSE SetGroup(w, k, [group EXCEPT !.todo = Tail(@), !.failed = failedNow])

\* record_consumed
RecordNext(w, k, item) ==
    LET recorded == consumed \cup {MessageOf(item)}
    IN  /\ \/ /\ consumed' = recorded
              /\ Answer(w, k, "settling")
              /\ UNCHANGED faults
           \/ /\ Fault
              /\ consumed' \in {consumed, recorded}
              /\ EndGroup(w, k, TRUE)
        /\ UNCHANGED <<log, buried>>

\* the ack of an accepted or republished message, the term of a buried one
AckNext(w, k, item) ==
    /\ \/ log' = Settle(log, item.entry) /\ Settled(w, k, FALSE) /\ UNCHANGED faults
       \/ Fault /\ Settled(w, k, TRUE) /\ UNCHANGED log
    /\ UNCHANGED <<consumed, buried>>

\* mutant: the item is acknowledged although its retry copy was not published
RetryNextUnchecked(w, k, item) ==
    LET published == Append(log, RetryCopy(MessageOf(item), item.retries + 1))
    IN  /\ \/ log' = published /\ UNCHANGED faults
           \/ Fault /\ UNCHANGED log
        /\ Answer(w, k, "settling")
        /\ UNCHANGED <<consumed, buried>>

\* publish_retry
RetryNext(w, k, item) ==
    LET published == Append(log, RetryCopy(MessageOf(item), item.retries + 1))
    IN  /\ \/ log' = published /\ Answer(w, k, "settling") /\ UNCHANGED faults
           \/ Fault /\ log' \in {log, published} /\ Settled(w, k, TRUE)
        /\ UNCHANGED <<consumed, buried>>

\* publish_dead_letter
BuryNext(w, k, item) ==
    /\ \/ /\ buried' = buried \cup {MessageOf(item)}
          /\ Answer(w, k, "settling")
          /\ UNCHANGED faults
       \/ /\ Fault
          /\ buried' \in {buried, buried \cup {MessageOf(item)}}
          /\ Settled(w, k, TRUE)
    /\ UNCHANGED <<log, consumed>>

\* Nobody to publish to: the item is given back where the broker can take it.  It
\* is an error all the same, unless it was a retry that the broker takes.
GiveBackNext(w, k, item, action) ==
    /\ \/ /\ log' = IF NativeRetry THEN GiveBack(log, item.entry) ELSE log
          /\ Settled(w, k, ~(NativeRetry /\ action = "Retry"))
          /\ UNCHANGED faults
       \/ /\ NativeRetry /\ Fault
          /\ Settled(w, k, TRUE)
          /\ UNCHANGED log
    /\ UNCHANGED <<consumed, buried>>

SettleNext(w, k) ==
    LET item == Head(batch[w][k].todo)
        action == FailureAction(item.result, item.retries)
    IN  /\ batch[w][k].stage = "settling"
        /\ CASE item.result = "answered" \/ (item.result = "Ack" /\ ~Idempotent) ->
                    AckNext(w, k, item)
             [] item.result = "Ack" /\ Idempotent -> RecordNext(w, k, item)
             [] item.result \in Rejections /\ action = "Retry" /\ HasRetryPublisher ->
                    RetryNext(w, k, item)
             [] item.result \in Rejections /\ action = "DeadLetter" /\ HasDeadLetterPublisher ->
                    BuryNext(w, k, item)
             [] OTHER -> GiveBackNext(w, k, item, action)
        /\ UNCHANGED <<loop, signalled, permits, pending, accepted>>

GroupStep(w, k) ==
    \/ QueueGroup(w, k) \/ CheckNext(w, k) \/ AckDuplicate(w, k)
    \/ HandleBatch(w, k) \/ HandleNext(w, k) \/ GroupPanics(w, k)
    \/ SettleNext(w, k)

------------------------------------------------------------------------------
(***************************************************************************)
(* The batch task joins its groups (process_ordered_batch).  When one has  *)
(* failed it returns at once, which drops the JoinSet: the other groups    *)
(* are cancelled where they are, and their key guards are dropped.         *)
(***************************************************************************)

Ended(w) == \A k \in Keys : batch[w][k].stage \in {"idle", "ended"}
Failed(w) == \E k \in Keys : batch[w][k].stage = "ended" /\ batch[w][k].failed

\* a line without w, wherever in it w is
Without(line, w) ==
    IF \E p \in DOMAIN line : line[p] = w
    THEN LET p == CHOOSE p \in DOMAIN line : line[p] = w
         IN  [n \in 1..(Len(line) - 1) |-> IF n < p THEN line[n] ELSE line[n + 1]]
    ELSE line

EndBatch(w) ==
    /\ batch[w] # NoBatch
    /\ Ended(w) \/ Failed(w)
    /\ batch' = [batch EXCEPT ![w] = NoBatch]
    /\ queue' = [k \in Keys |-> Without(queue[k], w)]
    /\ permits' = permits + 1
    /\ UNCHANGED <<log, loop, signalled, pending, consumed, faults, batchHistory>>

------------------------------------------------------------------------------
(***************************************************************************)
(* The surroundings                                                        *)
(***************************************************************************)

Items(w) == UNION {{batch[w][k].todo[n] : n \in DOMAIN batch[w][k].todo}
                   \cup {batch[w][k].kept[n] : n \in DOMAIN batch[w][k].kept} : k \in Keys}

ItemInFlight(i) ==
    \/ \E k \in Keys : \E n \in DOMAIN pending[k] : pending[k][n] = i
    \/ \E w \in Workers : \E item \in Items(w) : item.entry = i

\* ack_wait runs out; it is a fault only while the consumer still has the message
BatchLeaseExpires(i) ==
    /\ Is(log, i, "leased")
    /\ IF ItemInFlight(i) THEN Fault ELSE UNCHANGED faults
    /\ log' = GiveBack(log, i)
    /\ UNCHANGED <<loop, signalled, permits, pending, batch, queue, consumed, batchHistory>>

\* RetryForwarderHandler sends a retry copy back to its topic
BatchForwardRetry(i) ==
    /\ Is(log, i, "delayed")
    /\ log' = Forwarded(log, i)
    /\ UNCHANGED <<loop, signalled, permits, pending, batch, queue, consumed, faults, batchHistory>>

\* the process dies and is started again
BatchCrash ==
    /\ loop # "stopped" /\ Fault
    /\ loop' = "acquire"
    /\ signalled' = FALSE
    /\ permits' = Cardinality(Workers)
    /\ pending' = NothingPending
    /\ batch' = [w \in Workers |-> NoBatch]
    /\ queue' = [k \in Keys |-> <<>>]
    /\ UNCHANGED <<log, consumed, batchHistory>>

BatchLoopStep ==
    \/ BatchAcquireSlot \/ BatchStopFetching \/ BatchFetchMessage \/ BatchFetchNothing \/ BatchFetchError
    \/ BatchWake \/ BatchJoinAll
    \/ \E w \in Workers : SpawnBatch(w)

BatchBrokerStep == \E i \in DOMAIN log : BatchLeaseExpires(i) \/ BatchForwardRetry(i)

BatchStopped == loop = "stopped" /\ UNCHANGED batchVars

BatchNext ==
    \/ BatchSendShutdown \/ BatchLoopStep
    \/ \E w \in Workers : EndBatch(w) \/ \E k \in Keys : GroupStep(w, k)
    \/ BatchBrokerStep \/ BatchCrash \/ BatchStopped

BatchSpec == BatchInit /\ [][BatchNext]_batchVars

\* as for ConsumerRuntime: tokio polls the loop, the batch tasks and their groups
BatchFairness ==
    /\ WF_batchVars(BatchLoopStep)
    /\ SF_batchVars(BatchStopFetching)
    /\ \A w \in Workers : WF_batchVars(EndBatch(w)) /\ \A k \in Keys : WF_batchVars(GroupStep(w, k))
    /\ WF_batchVars(BatchBrokerStep)

FairBatchSpec == BatchSpec /\ BatchFairness

------------------------------------------------------------------------------
(***************************************************************************)
(* Properties                                                              *)
(***************************************************************************)

ItemType == [entry : DOMAIN log, retries : Nat, result : {"none", "answered"} \cup MessageVerdicts]

GroupStages == {"idle", "spawned", "locking", "check", "handling", "settling", "ended"}

\* groups of items of S; one that runs has an item to work on
GroupsOf(S) ==
    {group \in [stage : GroupStages, todo : Seq(S), kept : Seq(S), failed : BOOLEAN] :
        group.stage \notin {"idle", "ended"} => group.todo # <<>>}

\* Types of the state: broker, loop, semaphore, batches, key locks and store.
BatchTypeOK ==
    /\ log \in Seq(Entries(Messages))
    /\ loop \in {"acquire", "fetch", "batch", "sleep", "drain", "stopped"}
    /\ signalled \in BOOLEAN
    /\ permits \in 0..Cardinality(Workers)
    /\ pending \in [Keys -> Seq(DOMAIN log)] /\ Collected <= BatchSize
    /\ batch \in [Workers -> [Keys -> GroupsOf(ItemType)]]
    /\ queue \in [Keys -> Seq(Workers)]
    /\ consumed \subseteq Messages
    /\ faults \in 0..MaxFaults
    /\ accepted \in [Messages -> Nat]
    /\ buried \subseteq Messages

BatchBusy == {w \in Workers : batch[w] # NoBatch}

\* Every permit is free, with the loop that fetches or fills a batch, or with a batch:
\* none leaks, whichever way a fetch or a batch ends, and none is given back twice.
BatchPermitsHeld ==
    permits + Cardinality(BatchBusy) + (IF loop \in {"fetch", "batch"} THEN 1 ELSE 0)
      = Cardinality(Workers)

\* The consumer keeps the promise of AtLeastOnce in batches too: no group that
\* stops half-way, and no error applied to a whole batch, discharges a message
\* that was neither accepted nor buried.
BatchPromise == INSTANCE AtLeastOnce WITH
    owed <- {m \in Messages : Live(log, m)},
    handled <- {m \in Messages : accepted[m] > 0}

BatchKeepsPromise == BatchPromise!Spec

\* With ordered = true, of the groups with one key at most one is past its lock,
\* in whichever batches they are and whichever groups are cancelled.
KeyExclusive ==
    Ordered =>
      \A k \in Keys :
        Cardinality({w \in Workers :
            batch[w][k].stage \in {"check", "handling", "settling"}}) <= 1

\* Every message comes to an end: it is accepted, it is buried, or the broker
\* has given up on each of its copies, unless the runtime is told to stop.
ItemResolved(m) ==
    \/ accepted[m] > 0 \/ m \in buried
    \/ \A i \in DOMAIN log :
         log[i].msg = m => log[i].st = "done" \/ (Exhausted(log, i) /\ ~ItemInFlight(i))

EveryItemResolved == \A m \in Messages : <>(ItemResolved(m) \/ signalled)

==============================================================================
