----------------------------- MODULE RetryPolicy -----------------------------
(***************************************************************************)
(* The failure policy of the message consumer (consumer/failure.rs): what  *)
(* is done with a message whose handler did not accept it.  The verdict of *)
(* a handler run is a MessageResult or the variant of a ConsumerError.     *)
(***************************************************************************)
EXTENDS Naturals

CONSTANTS MaxRetries,   \* ConsumerConfig::max_retries
          EnableDlq     \* ConsumerConfig::enable_dlq

ASSUME RetryPolicyAssumption == /\ MaxRetries \in Nat
                                /\ EnableDlq \in BOOLEAN

\* ConsumerError, split by is_retryable
RetryableErrors == {"Handler", "Connection", "Timeout", "Retry", "Idempotency"}
FatalErrors == {"Serialization", "Deserialization", "DeadLetterError",
                "Shutdown", "Configuration", "NoHandler"}

Rejections == {"Nack", "DeadLetter"} \cup RetryableErrors \cup FatalErrors
MessageVerdicts == {"Ack"} \cup Rejections

FailureActions == {"Retry", "DeadLetter"}

\* retry_or_dead_letter: without a dead-letter queue the retries have no end
RetryOrDeadLetter(retries) ==
    IF retries < MaxRetries \/ ~EnableDlq THEN "Retry" ELSE "DeadLetter"

\* action_for_dead_letter, and the fatal half of action_for_error
DeadLetterOrRetry == IF EnableDlq THEN "DeadLetter" ELSE "Retry"

FailureAction(verdict, retries) ==
    IF verdict \in RetryableErrors \cup {"Nack"}
    THEN RetryOrDeadLetter(retries)
    ELSE DeadLetterOrRetry

==============================================================================
