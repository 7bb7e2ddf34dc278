------------------------------ MODULE Publishing ------------------------------
(***************************************************************************)
(* The way of an event from the code that publishes it to its end: the     *)
(* event bus over its three carriers (the in-process broadcast channel,    *)
(* NATS JetStream, Kafka), the producer with its retries, and, for NATS,   *)
(* the round trip of an event whose handler fails: retry topic, forwarder, *)
(* back to its topic, until it is handled or lies in the dead-letter       *)
(* topic.                                                                  *)
(*                                                                         *)
(* A consumer's tasks and acknowledgements are the subject of              *)
(* ConsumerRuntime; here a delivery is taken, handled and settled with     *)
(* nothing in between but the sends that settling it needs.  Topics are    *)
(* numbers: an application's topic, the topic its retries are parked in,   *)
(* the topic behind that one, and the dead-letter topic.                   *)
(***************************************************************************)
EXTENDS Integers, Sequences, FiniteSets, Bags, JetStream, RetryPolicy

CONSTANTS Setups,            \* the applications to look at
          ProducerRetries,   \* NatsProducer::retries
          Capacity,          \* of an in-memory bus
          Subscribers,       \* those who may subscribe to it
          MaxFaults          \* bound: requests and acks lost, crashes

Home == 0
Parked == 1
Beyond == 2
Dlq == 3
Topics == {Home, Parked, Beyond, Dlq}

\* What an application is made of.  The in-memory buses have no send_batch.
Applications ==
    [bus : {"local", "kafka", "nats"}, api : {"publish_batch", "send_batch"},
     batch : Nat \ {0}, to : Topics, named : BOOLEAN, idKept : BOOLEAN,
     streams : SUBSET Topics, retryTo : {"original", "fixed", "suffix", "none"},
     republish : BOOLEAN, legible : BOOLEAN, via : {"runtime", "subscribe"},
     patterns : SUBSET [of : Topics, kind : {"exact", "star", "tail"}]]

ASSUME PublishingAssumption ==
    /\ Setups \subseteq Applications
    /\ \A s \in Setups : s.bus = "local" => s.api = "publish_batch"
    /\ ProducerRetries \in Nat
    /\ Capacity \in Nat \ {0}
    /\ MaxFaults \in Nat

VARIABLES setup,       \* the application: an element of Setups
          told,        \* what the publisher has been told of its batch
          sent,        \* events of the batch whose send returned Ok
          arrived,     \* events in the order in which they were first stored
          calls,       \* a bag of the sends under way
          queue,       \* a bag of the messages in the topics
          handled,     \* events a handler has accepted
          seen,        \* what the duplicate windows of the streams remember
          swallowed,   \* events whose retry was taken for a duplicate
          strayed,     \* events whose retry has lost the way home
          doubled,     \* one send has stored two messages
          subs,        \* the receivers of the in-memory bus
          faults

publisher == <<told, sent>>
broker == <<arrived, queue, seen, doubled, strayed>>
ends == <<handled, swallowed>>
vars == <<setup, publisher, broker, calls, ends, subs, faults>>

Batch == 1..setup.batch

Message(e) == [ev |-> e, topic |-> setup.to, origin |-> {}, retries |-> 0,
               delivered |-> 0]

\* A send: what is sent, the delivery it settles, and what it is for.
Send(why, msg, of) == [why |-> why, msg |-> msg, of |-> of,
                       attempt |-> 0, copies |-> 0]

One(x) == SetToBag({x})
In(b) == BagToSet(b)
Seen(s) == {s[i] : i \in DOMAIN s}

Init == /\ setup \in Setups
        /\ told = "idle"
        /\ sent = {}
        /\ arrived = <<>>
        /\ calls = EmptyBag
        /\ queue = EmptyBag
        /\ handled = {}
        /\ seen = {}
        /\ swallowed = {}
        /\ strayed = {}
        /\ doubled = FALSE
        /\ subs = [s \in Subscribers |-> <<>>]
        /\ faults = 0

-----------------------------------------------------------------------------
(***************************************************************************)
(* The in-memory bus: a broadcast channel.  A receiver is a one-element    *)
(* sequence, or none; what a slow one has not read is overwritten.         *)
(***************************************************************************)
\* the powers of two
TwoTo[k \in 0..Capacity] == IF k = 0 THEN 1 ELSE 2 * TwoTo[k - 1]

\* mutant: the capacity is rounded down
RoundedDown == CHOOSE n \in {TwoTo[k] : k \in 0..Capacity} :
                   n <= Capacity /\ 2 * n > Capacity

\* tokio rounds the capacity up to a power of two
Slots == CHOOSE n \in {TwoTo[k] : k \in 0..Capacity} :
             n >= Capacity /\ n < 2 * Capacity

Receivers == {s \in Subscribers : subs[s] # <<>>}

Subscribe(s) ==
    /\ setup.bus = "local"
    /\ s \notin Receivers
    /\ subs' = [subs EXCEPT ![s] = <<[from |-> Len(arrived) + 1,
                                      next |-> Len(arrived) + 1,
                                      got |-> <<>>, lagged |-> 0]>>]
    /\ UNCHANGED <<setup, publisher, broker, calls, ends, faults>>

Unsubscribe(s) ==
    /\ s \in Receivers
    /\ subs' = [subs EXCEPT ![s] = <<>>]
    /\ UNCHANGED <<setup, publisher, broker, calls, ends, faults>>

\* What a receiver is after recv: it has the next event, or Lagged with the
\* number of events that were overwritten.
Received(sub) ==
    LET oldest == Len(arrived) - Slots + 1
    IN  IF sub.next < oldest
        THEN [sub EXCEPT !.next = oldest, !.lagged = @ + (oldest - sub.next)]
        ELSE [sub EXCEPT !.next = @ + 1, !.got = Append(@, arrived[sub.next])]

Receive(s) ==
    /\ s \in Receivers
    /\ subs[s][1].next <= Len(arrived)
    /\ subs' = [subs EXCEPT ![s] = <<Received(subs[s][1])>>]
    /\ UNCHANGED <<setup, publisher, broker, calls, ends, faults>>

LocalPublish(e) ==
    /\ IF Receivers = {}
       THEN told' = "failed" /\ UNCHANGED <<sent, arrived>>
       ELSE /\ sent' = sent \cup {e}
            /\ told' = IF sent' = Batch THEN "ok" ELSE "busy"
            /\ arrived' = Append(arrived, e)
    /\ UNCHANGED <<setup, queue, seen, doubled, strayed, calls, ends, subs, faults>>

-----------------------------------------------------------------------------
(***************************************************************************)
(* The publisher.  publish_batch sends one event after the other and stops *)
(* at the first error; send_batch sends all at once and gives up on the    *)
(* others with the first error, when some may be on their way.             *)
(***************************************************************************)
Publishing == {c \in In(calls) : c.why = "publish"}

Publish(es) ==
    /\ told' = "busy"
    /\ calls' = calls (+) SetToBag({Send("publish", Message(e), Message(e)) : e \in es})
    /\ UNCHANGED <<setup, sent, broker, ends, subs, faults>>

Waiting == told \in {"idle", "busy"}

\* mutant: the events of a batch are sent together
PublishAll ==
    /\ setup.api = "publish_batch"
    /\ told = "idle"
    /\ IF setup.bus = "local" THEN LocalPublish(1) ELSE Publish(Batch)

PublishNext ==
    /\ setup.api = "publish_batch"
    /\ Waiting
    /\ Publishing = {}
    /\ LET e == Cardinality(sent) + 1
       IN  IF setup.bus = "local" THEN LocalPublish(e) ELSE Publish({e})

SendBatch ==
    /\ setup.api = "send_batch"
    /\ told = "idle"
    /\ Publish(Batch)

-----------------------------------------------------------------------------
(***************************************************************************)
(* One send of a producer.  NATS repeats a request that failed or whose    *)
(* acknowledgement did not come, under the id of the call; a stream drops  *)
(* a message whose id it remembers.  The id is one of the event's own      *)
(* headers (setup.named) or drawn for the call.  It is set before the      *)
(* headers are, and whether it survives that is up to the NATS library     *)
(* (setup.idKept).  Kafka's producer repeats requests by itself.           *)
(***************************************************************************)
HasStream(t) == setup.bus = "kafka" \/ t \in setup.streams

\* mutant: every attempt draws an id
DuplicateByName(c) ==
    setup.idKept /\ setup.named /\ <<c.msg.topic, c.msg.ev>> \in seen

Duplicate(c) ==
    /\ setup.idKept
    /\ c.copies > 0 \/ (setup.named /\ <<c.msg.topic, c.msg.ev>> \in seen)

Attempts == IF setup.bus = "kafka" THEN 0 ELSE ProducerRetries

QueueWith(c) == IF Duplicate(c) THEN queue ELSE queue (+) One(c.msg)

\* the stream takes a message, unless it has seen it
Store(c) ==
    /\ seen' = IF setup.named /\ setup.idKept
               THEN seen \cup {<<c.msg.topic, c.msg.ev>>} ELSE seen
    /\ arrived' = IF c.msg.ev \in Seen(arrived) THEN arrived
                  ELSE Append(arrived, c.msg.ev)
    /\ doubled' = (doubled \/ (~Duplicate(c) /\ c.copies > 0))
    /\ strayed' = IF c.why = "retry" /\ c.msg.origin # {Home} /\ ~Duplicate(c)
                  THEN strayed \cup {c.msg.ev} ELSE strayed

Stored(c) == IF Duplicate(c) THEN c ELSE [c EXCEPT !.copies = @ + 1]

\* mutant: a retry keeps the count it came with
FailureHeadersUncounted(m, t, r) ==
    [m EXCEPT !.topic = t, !.origin = {m.topic}, !.delivered = 0]

\* failure_headers: where it failed is where it came from
FailureHeaders(m, t, r) ==
    [m EXCEPT !.topic = t, !.origin = {m.topic}, !.retries = r, !.delivered = 0]

\* FailureTopic::resolve
Resolve(kind, t) == CASE kind = "original" -> t
                      [] kind = "fixed"    -> Parked
                      [] kind = "suffix"   -> t + 1

\* What becomes of a delivery that failed, as an addition to the sends and
\* to the queue.
Failing(m, verdict, kind) ==
    LET r == RetryCount(m)
    IN  CASE FailureAction(verdict, r) = "DeadLetter" ->
               [calls |-> One(Send("bury", FailureHeaders(m, Dlq, r), m)), queue |-> EmptyBag]
          [] FailureAction(verdict, r) = "Retry" /\ kind # "none" ->
               [calls |-> One(Send("retry", FailureHeaders(m, Resolve(kind, m.topic), r + 1), m)),
                queue |-> EmptyBag]
          [] OTHER -> [calls |-> EmptyBag, queue |-> One(m)]

Replace(c, ds) == (calls (-) One(c)) (+) ds

\* The publisher hears of one of its events.
PublishReturns(c, ok) ==
    LET rest == {d \in Publishing : d # c}
    IN  IF ok
        THEN /\ sent' = sent \cup {c.msg.ev}
             /\ told' = IF sent' = Batch THEN "ok" ELSE told
             /\ calls' = Replace(c, EmptyBag)
        ELSE /\ told' = "failed"
             /\ calls' = (calls (-) SetToBag({c} \cup rest))
                           (+) SetToBag({[d EXCEPT !.why = "dropped"] : d \in rest})
             /\ UNCHANGED sent

\* the consumer of the retry topic has a retry publisher of its own, or none
ForwarderKind == IF setup.republish THEN setup.retryTo ELSE "none"

\* The forwarder could not send: to its own consumer that is a failure like
\* any other, and the place where it failed is the retry topic.
ForwardFails(c, q) ==
    LET f == Failing(c.of, "Retry", ForwarderKind)
    IN  /\ calls' = Replace(c, f.calls)
        /\ queue' = q (+) f.queue

\* mutant: a delivery is acknowledged however its send has ended
ReturnsAcked(c, ok, q) ==
    \/ /\ c.why = "publish"
       /\ PublishReturns(c, ok)
       /\ queue' = q
    \/ /\ c.why \in {"retry", "bury", "forward"}
       /\ calls' = Replace(c, EmptyBag)
       /\ queue' = q
       /\ UNCHANGED publisher

\* A send returns, q being what is in the topics by now; a delivery is
\* acknowledged when the send that settles it has succeeded.
Returns(c, ok, q) ==
    \/ /\ c.why = "publish"
       /\ PublishReturns(c, ok)
       /\ queue' = q
    \/ /\ c.why \in {"retry", "bury"} \/ (c.why = "forward" /\ ok)
       /\ calls' = Replace(c, EmptyBag)
       /\ queue' = IF ok THEN q ELSE q (+) One(c.of)
       /\ UNCHANGED publisher
    \/ /\ c.why = "forward" /\ ~ok
       /\ ForwardFails(c, q)
       /\ UNCHANGED publisher

\* d is the call after the attempt
TryAgain(c, d, q) ==
    IF c.attempt < Attempts
    THEN /\ calls' = Replace(c, One([d EXCEPT !.attempt = @ + 1]))
         /\ queue' = q
         /\ UNCHANGED publisher
    ELSE Returns(c, FALSE, q)

NoStream(c) ==
    /\ c.why # "dropped" /\ ~HasStream(c.msg.topic)
    /\ Returns(c, FALSE, queue)
    /\ UNCHANGED <<setup, arrived, seen, doubled, strayed, ends, subs, faults>>

Acknowledged(c) ==
    /\ c.why # "dropped" /\ HasStream(c.msg.topic)
    /\ Store(c)
    /\ Returns(c, TRUE, QueueWith(c))
    /\ swallowed' = IF c.why # "publish" /\ Duplicate(c) /\ c.copies = 0
                    THEN swallowed \cup {c.msg.ev} ELSE swallowed
    /\ UNCHANGED <<setup, handled, subs, faults>>

RequestLost(c) ==
    /\ c.why # "dropped" /\ HasStream(c.msg.topic)
    /\ TryAgain(c, c, queue)
    /\ UNCHANGED <<setup, arrived, seen, doubled, strayed, ends, subs>>

AckLost(c) ==
    /\ c.why # "dropped" /\ HasStream(c.msg.topic)
    /\ Store(c)
    /\ TryAgain(c, Stored(c), QueueWith(c))
    /\ UNCHANGED <<setup, ends, subs>>

SendFault ==
    /\ faults < MaxFaults
    /\ faults' = faults + 1
    /\ \E c \in In(calls) : RequestLost(c) \/ AckLost(c)

\* a send given up by try_join_all: its request is on the way, or never went
Dropped(c) ==
    /\ c.why = "dropped"
    /\ calls' = Replace(c, EmptyBag)
    /\ \/ UNCHANGED broker
       \/ HasStream(c.msg.topic) /\ Store(c) /\ queue' = QueueWith(c)
    /\ UNCHANGED <<setup, publisher, ends, subs, faults>>

-----------------------------------------------------------------------------
(***************************************************************************)
(* The consumers: of the application's topic, and of the retry topic (the  *)
(* forwarder).                                                             *)
(***************************************************************************)
\* subscribe builds a dispatcher and drops it: nothing consumes
Runs(s) == s.via # "subscribe"

\* a dispatcher run by a consumer runtime
Consuming == setup.bus = "nats" /\ Runs(setup)

\* find_handler: the topic itself, or a pattern that ends in a star and
\* whose prefix it has; NATS's tail wildcard is no such pattern
HandlerFound(t) ==
    \E p \in setup.patterns : \/ p.of = t /\ p.kind = "exact"
                              \/ p.of <= t /\ p.kind = "star"

\* an envelope in an encoding that this build of the consumer reads, or not
Outcomes == IF setup.legible THEN {"Ack", "Handler"} ELSE {"Deserialization"}

Verdicts(t) == IF HandlerFound(t) THEN Outcomes ELSE {"NoHandler"}

\* a delivery of an event
Taken(e, t) == {m \in In(queue) : m.ev = e /\ m.topic = t /\ m.delivered < MaxDeliver}

Delivered(m) == [m EXCEPT !.delivered = @ + 1]

Fails(m, verdict, kind) ==
    LET f == Failing(Delivered(m), verdict, kind)
    IN  /\ calls' = calls (+) f.calls
        /\ queue' = (queue (-) One(m)) (+) f.queue

Consume(e) ==
    /\ Consuming
    /\ \E m \in Taken(e, Home) : \E verdict \in Verdicts(Home) :
         IF verdict = "Ack"
         THEN /\ handled' = handled \cup {e}
              /\ queue' = queue (-) One(m)
              /\ UNCHANGED calls
         ELSE Fails(m, verdict, setup.retryTo) /\ UNCHANGED handled
    /\ UNCHANGED <<setup, publisher, arrived, seen, doubled, swallowed, strayed,
                   subs, faults>>

\* back to the topic in the header
Forward(e) ==
    /\ Consuming
    /\ \E m \in Taken(e, Parked) :
         IF m.origin = {}
         THEN Fails(m, "DeadLetterError", ForwarderKind)
         ELSE \E home \in m.origin :
                /\ calls' = calls (+) One(Send("forward",
                              [m EXCEPT !.topic = home, !.delivered = 0], Delivered(m)))
                /\ queue' = queue (-) One(m)
    /\ UNCHANGED <<setup, publisher, arrived, seen, doubled, strayed, ends, subs, faults>>

\* the deliveries of a bag of calls, as often as there are calls for them
Deliveries(b) ==
    [m \in {c.of : c \in In(b)} |->
        Cardinality(UNION {{c} \X (1..b[c]) : c \in {d \in In(b) : d.of = m}})]

\* the consumers' processes die: what they had taken is delivered again
Crash ==
    /\ faults < MaxFaults
    /\ faults' = faults + 1
    /\ LET theirs == [c \in {d \in In(calls) : d.why \in {"retry", "bury", "forward"}}
                        |-> calls[c]]
       IN  /\ In(theirs) # {}
           /\ calls' = calls (-) theirs
           /\ queue' = queue (+) Deliveries(theirs)
    /\ UNCHANGED <<setup, publisher, arrived, seen, doubled, strayed, ends, subs>>

\* the duplicate windows of the streams pass
Forget == /\ seen # {}
          /\ seen' = {}
          /\ UNCHANGED <<setup, publisher, arrived, queue, doubled, strayed, calls, ends, subs, faults>>

-----------------------------------------------------------------------------
SendStep(e) == \E c \in In(calls) : c.msg.ev = e /\ (NoStream(c) \/ Acknowledged(c))

Events == UNION {1..s.batch : s \in Setups}

\* those that a consumer of this module awaits
Awaited == UNION {1..s.batch : s \in {r \in Setups : r.bus = "nats" /\ Runs(r)}}

PublisherStep == PublishNext \/ SendBatch

EventStep(e) == SendStep(e) \/ Consume(e) \/ Forward(e)

Next == \/ PublisherStep
        \/ \E e \in Events : EventStep(e)
        \/ SendFault
        \/ \E c \in In(calls) : Dropped(c)
        \/ Crash
        \/ Forget
        \/ \E s \in Subscribers : Subscribe(s) \/ Unsubscribe(s) \/ Receive(s)

\* Every message has a task of its own, and every send ends; nobody has to
\* subscribe, to receive or to crash.
Fairness == /\ WF_vars(PublisherStep)
            /\ \A e \in Awaited : /\ WF_vars(SendStep(e))
                                  /\ WF_vars(Consume(e))
                                  /\ WF_vars(Forward(e))

Spec == Init /\ [][Next]_vars /\ Fairness

-----------------------------------------------------------------------------
Msgs == [ev : Events, topic : Topics, origin : SUBSET Topics, retries : Nat,
         delivered : 0..MaxDeliver]

\* Every variable has its type.
TypeOK ==
    /\ setup \in Setups
    /\ told \in {"idle", "busy", "ok", "failed"}
    /\ sent \subseteq Batch
    /\ arrived \in Seq(Batch)
    /\ In(queue) \subseteq Msgs
    /\ \A c \in In(calls) : c.msg \in Msgs /\ c.of \in Msgs /\ c.attempt \in 0..ProducerRetries
    /\ handled \cup swallowed \cup strayed \subseteq Batch
    /\ faults \in 0..MaxFaults

Buried == {m.ev : m \in {n \in In(queue) : n.topic = Dlq}}

\* What publish_batch promises (event_bus.rs): the events of a batch are
\* stored in the order of the batch, none before the one ahead of it is, and
\* a publisher that is told of success has all of them stored.
BatchIsPrefix ==
    /\ sent \subseteq Seen(arrived)
    /\ told = "ok" => sent = Batch
    /\ setup.api = "publish_batch" => \A i \in DOMAIN arrived : arrived[i] = i

\* A receiver of the in-memory bus sees the events from its subscription on in
\* their order; the only gaps are those it was told of, and there is none
\* while no more than the capacity asked for was published since.
GapsAreTold ==
    \A s \in Receivers :
        LET sub == subs[s][1]
        IN  /\ sub.next - sub.from = Len(sub.got) + sub.lagged
            /\ \A i, j \in DOMAIN sub.got : i < j => sub.got[i] < sub.got[j]
            /\ sub.lagged > 0 => Len(arrived) - sub.from + 1 > Capacity

\* The comment in NatsProducer::send: with a stable id the retries of a send
\* store nothing twice.  True of Kafka, and of NATS when the id survives.
OncePerSend == doubled => ~setup.idKept /\ faults > 0

\* An event whose publisher was told of success is handled, or still held by a
\* topic or by the send that settles its delivery, or it was given an id by
\* the application and the broker took its retry for a duplicate.
EventsKept ==
    setup.bus # "local" =>
        \A e \in sent : \/ e \in handled
                        \/ \E m \in In(queue) : m.ev = e
                        \/ \E c \in In(calls) : c.of.ev = e
                        \/ setup.named /\ setup.idKept /\ e \in swallowed

\* Under fair scheduling every event published to a topic that is consumed
\* is handled or buried, however its handler, the retry topic and the
\* forwarder fail; except for those lost as a duplicate, and those that the
\* forwarder's own consumer sent back into the retry topic, where they are
\* at home from then on.
EventSettles ==
    \A e \in Awaited :
        (e \in sent /\ Consuming)
            ~> (e \in handled \cup Buried \cup swallowed \cup strayed)

==============================================================================
