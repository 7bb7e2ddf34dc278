------------------------------- MODULE Consumer -------------------------------
(***************************************************************************)
(* What ConsumerRuntime (consumer/runtime.rs) is built with and what it    *)
(* keeps, whether it takes messages one by one (the module                 *)
(* ConsumerRuntime, batch_size = 1) or in batches (ConsumerBatch).         *)
(***************************************************************************)
EXTENDS JetStream, RetryPolicy, FiniteSets

CONSTANTS
    Workers,                \* the permits: config.poll.concurrency of them
    Backlog,                \* the messages in the stream, a sequence
    Keys, KeyOf,            \* ordered_key: the message key, or its topic
    Ordered,                \* config.ordered
    Idempotent,             \* config.idempotent with a store other than the no-op
    HasRetryPublisher,      \* with_retry_publisher
    HasDeadLetterPublisher, \* with_dead_letter_publisher
    NativeRetry,            \* supports_native_retry of the ack handle
    MaxFaults               \* bound on the faults of a behaviour

Messages == {Backlog[i] : i \in DOMAIN Backlog}

ASSUME ConsumerAssumption ==
    /\ IsFiniteSet(Workers) /\ Workers # {}
    /\ Backlog \in Seq(Messages)
    /\ KeyOf \in [Messages -> Keys]
    /\ Ordered \in BOOLEAN /\ Idempotent \in BOOLEAN
    /\ HasRetryPublisher \in BOOLEAN /\ HasDeadLetterPublisher \in BOOLEAN
    /\ NativeRetry \in BOOLEAN
    /\ MaxFaults \in Nat

VARIABLES
    log,        \* the stream
    loop,       \* where the fetch loop is
    signalled,  \* the shutdown signal was sent
    permits,    \* free permits of the semaphore
    queue,      \* queue[k]: who holds the key lock of k, and its waiters
    consumed,   \* the idempotency store
    faults,     \* faults so far
    \* history
    accepted,   \* accepted[m]: handler results for m that were Ack
    buried      \* messages in the dead-letter queue

Fault == faults < MaxFaults /\ faults' = faults + 1

==============================================================================
