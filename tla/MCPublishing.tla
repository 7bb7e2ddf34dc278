----------------------------- MODULE MCPublishing -----------------------------
EXTENDS Publishing

\* one event over NATS, with a retry topic and a forwarder
Single == [bus |-> "nats", api |-> "publish_batch", batch |-> 1, to |-> Home,
           named |-> FALSE, idKept |-> FALSE, streams |-> {Home, Parked, Dlq},
           retryTo |-> "fixed", republish |-> TRUE, legible |-> TRUE, via |-> "runtime",
           patterns |-> {[of |-> Home, kind |-> "exact"]}]

\* several events, over the three carriers
Local == [Single EXCEPT !.bus = "local", !.batch = 5]
Kafka == [Single EXCEPT !.bus = "kafka", !.batch = 2, !.idKept = TRUE, !.via = "subscribe"]
KafkaBatch == [Kafka EXCEPT !.api = "send_batch"]
Nats == [Kafka EXCEPT !.bus = "nats"]
NatsBatch == [Nats EXCEPT !.api = "send_batch", !.idKept = FALSE]
Two == [Single EXCEPT !.batch = 2, !.republish = FALSE]

\* ids of the event's own or of the send, kept by the library or not
Named == [Single EXCEPT !.named = TRUE, !.idKept = TRUE]
Drawn == [Single EXCEPT !.idKept = TRUE]

\* where retries go
Suffixed == [Single EXCEPT !.retryTo = "suffix"]
SuffixedOn == [Suffixed EXCEPT !.streams = Topics]
Straight == [Single EXCEPT !.retryTo = "original"]
Native == [Single EXCEPT !.retryTo = "none"]
NoRetryStream == [Single EXCEPT !.streams = {Home, Dlq}]

\* nobody can handle the event
Illegible == [Single EXCEPT !.legible = FALSE]
Starred == [Single EXCEPT !.patterns = {[of |-> Home, kind |-> "star"]}]
TailOnly == [Single EXCEPT !.patterns = {[of |-> Home, kind |-> "tail"]}]
ToRetryTopic == [Single EXCEPT !.to = Parked]
NoSubject == [Single EXCEPT !.streams = {Dlq}]

MostSetups == {Single, Local, Kafka, KafkaBatch, Nats, NatsBatch, Two, Named, Drawn,
               Suffixed, SuffixedOn, Straight, Native, NoRetryStream, Illegible, Starred,
               TailOnly, ToRetryTopic, NoSubject}

==============================================================================
