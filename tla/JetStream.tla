------------------------------ MODULE JetStream ------------------------------
(***************************************************************************)
(* The broker as the NATS consumer configures and uses it: a log whose     *)
(* entries are delivered in order, leased until they are acknowledged      *)
(* (explicit ack policy), and delivered again when the lease (ack_wait)    *)
(* runs out or the consumer refuses them, at most max_deliver times.       *)
(* An entry that is acknowledged or terminated is done and never comes     *)
(* back; every other entry is live.                                        *)
(*                                                                         *)
(* The operators take and return the log, so that the consumers that share *)
(* the broker keep it in a variable of their own.  A retry copy is stored  *)
(* "delayed" (it sits in the retry topic) until the forwarder of the retry *)
(* topic sends it back to the topic it came from.                          *)
(***************************************************************************)
EXTENDS Naturals, Sequences

CONSTANT MaxDeliver   \* NatsConsumerConfig::max_deliver

ASSUME MaxDeliverAssumption == MaxDeliver \in Nat \ {0}

EntryStates == {"delayed", "ready", "leased", "done"}

Entries(M) == [msg : M, retries : Nat, delivered : 0..MaxDeliver, st : EntryStates]

Fresh(m) == [msg |-> m, retries |-> 0, delivered |-> 0, st |-> "ready"]

RetryCopy(m, r) == [msg |-> m, retries |-> r, delivered |-> 0, st |-> "delayed"]

Is(log, i, st) == i \in DOMAIN log /\ log[i].st = st

\* What a fetch may return: a new entry in stream order, or any entry that is
\* due for another delivery.
Deliverable(log) ==
    {i \in DOMAIN log :
        /\ log[i].st = "ready"
        /\ log[i].delivered < MaxDeliver
        /\ log[i].delivered = 0 =>
             \A j \in 1..(i - 1) : ~(log[j].st = "ready" /\ log[j].delivered = 0)}

Deliver(log, i) == [log EXCEPT ![i].st = "leased", ![i].delivered = @ + 1]

Settle(log, i) == [log EXCEPT ![i].st = "done"]

\* a Nak, or the end of the ack_wait: nothing happens to an entry without a lease
GiveBack(log, i) == IF log[i].st = "leased" THEN [log EXCEPT ![i].st = "ready"]
                                            ELSE log

Forwarded(log, i) == [log EXCEPT ![i].st = "ready"]

\* mutant: only the header counts
HeaderRetryCount(entry) == entry.retries

\* the retry count of a delivery: the header of the entry, or the number of
\* earlier deliveries of this entry when that is larger
RetryCount(entry) ==
    LET redeliveries == IF entry.delivered = 0 THEN 0 ELSE entry.delivered - 1
    IN  IF entry.retries > redeliveries THEN entry.retries ELSE redeliveries

Live(log, m) == \E i \in DOMAIN log : log[i].msg = m /\ log[i].st # "done"

\* the broker has given up on a live entry: it stays in the log, undelivered
Exhausted(log, i) == log[i].st = "ready" /\ log[i].delivered = MaxDeliver

==============================================================================
