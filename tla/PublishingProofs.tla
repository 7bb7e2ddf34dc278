--------------------------- MODULE PublishingProofs ---------------------------
(***************************************************************************)
(* Proofs about Publishing, for every set of applications, number of       *)
(* retries of the producer, capacity of an in-memory bus, set of           *)
(* subscribers, retry policy and bound on the faults.                      *)
(***************************************************************************)
EXTENDS Publishing, SequenceTheorems, FiniteSetTheorems, FunctionTheorems, TLAPS

------------------------------------------------------------------------------
(***************************************************************************)
(* Bags                                                                    *)
(***************************************************************************)

\* What is in the bags that the model builds.
LEMMA BagOfSet ==
    /\ IsABag(EmptyBag) /\ In(EmptyBag) = {}
    /\ \A S : IsABag(SetToBag(S)) /\ In(SetToBag(S)) = S
    /\ \A x : IsABag(One(x)) /\ In(One(x)) = {x}
  BY DEF IsABag, EmptyBag, SetToBag, In, BagToSet, One

\* A bag with more in it: what was in it has at least as many copies.
LEMMA BagPlus ==
    ASSUME NEW a, NEW b, IsABag(a), IsABag(b)
    PROVE  /\ IsABag(a (+) b)
           /\ In(a (+) b) = In(a) \cup In(b)
           /\ \A x \in In(a) \ In(b) : (a (+) b)[x] = a[x]
           /\ \A x \in In(b) \ In(a) : (a (+) b)[x] = b[x]
  BY DEF IsABag, In, BagToSet, (+)

\* A bag with less in it: the rest is as it was.
LEMMA BagMinus ==
    ASSUME NEW a, NEW b, IsABag(a), IsABag(b)
    PROVE  /\ IsABag(a (-) b)
           /\ In(a (-) b) \subseteq In(a)
           /\ In(a) \ In(b) \subseteq In(a (-) b)
           /\ \A x \in In(a) \ In(b) : (a (-) b)[x] = a[x]
           /\ \A x \in In(a) \cap In(b) : a[x] <= b[x] => x \notin In(a (-) b)
  <1> DEFINE B == [e \in DOMAIN a |-> IF e \in DOMAIN b THEN a[e] - b[e] ELSE a[e]]
             D == {d \in DOMAIN B : B[d] > 0}
  <1>1. a (-) b = [e \in D |-> B[e]]
    BY DEF (-)
  <1>2. \A e \in DOMAIN a : a[e] \in Nat /\ a[e] > 0
    BY DEF IsABag
  <1>3. \A e \in DOMAIN b : b[e] \in Nat /\ b[e] > 0
    BY DEF IsABag
  <1>4. D \subseteq DOMAIN a
    OBVIOUS
  <1>5. \A e \in DOMAIN a \ DOMAIN b : e \in D /\ B[e] = a[e]
    BY <1>2
  <1>6. \A e \in D : B[e] \in Nat /\ B[e] > 0
    BY <1>2, <1>3
  <1>7. \A e \in DOMAIN a \cap DOMAIN b : a[e] <= b[e] => e \notin D
    BY <1>2, <1>3
  <1> HIDE DEF B, D
  <1> QED
    BY <1>1, <1>4, <1>5, <1>6, <1>7 DEF IsABag, In, BagToSet

\* A call whose place is taken by others.
LEMMA ReplaceCalls ==
    ASSUME IsABag(calls), NEW c \in In(calls), NEW ds, IsABag(ds)
    PROVE  /\ IsABag(Replace(c, ds))
           /\ In(Replace(c, ds)) \subseteq In(calls) \cup In(ds)
           /\ (In(calls) \ {c}) \cup In(ds) \subseteq In(Replace(c, ds))
           /\ \A d \in In(calls) \ ({c} \cup In(ds)) : Replace(c, ds)[d] = calls[d]
           /\ \A d \in In(ds) \ In(calls) : Replace(c, ds)[d] = ds[d]
           /\ calls[c] = 1 /\ c \notin In(ds) => c \notin In(Replace(c, ds))
  <1>1. PICK o : o = One(c) /\ IsABag(o) /\ In(o) = {c}
    BY BagOfSet
  <1>2. PICK b : b = calls (-) o
    OBVIOUS
  <1>3. /\ IsABag(b) /\ In(b) \subseteq In(calls) /\ In(calls) \ {c} \subseteq In(b)
        /\ \A d \in In(calls) \ {c} : b[d] = calls[d]
        /\ \A x \in In(calls) \cap {c} : calls[x] <= o[x] => x \notin In(b)
    BY <1>1, <1>2, BagMinus
  <1>4. o[c] = 1
    BY <1>1 DEF One, SetToBag
  <1>5. /\ IsABag(b (+) ds) /\ In(b (+) ds) = In(b) \cup In(ds)
        /\ \A d \in In(b) \ In(ds) : (b (+) ds)[d] = b[d]
        /\ \A d \in In(ds) \ In(b) : (b (+) ds)[d] = ds[d]
    BY <1>3, BagPlus
  <1>6. Replace(c, ds) = b (+) ds
    BY <1>1, <1>2 DEF Replace
  <1>7. calls[c] = 1 => c \notin In(b)
    BY <1>3, <1>4
  <1> QED BY <1>3, <1>5, <1>6, <1>7

\* The image of a finite set is finite.
LEMMA FiniteImage ==
    ASSUME NEW S, IsFiniteSet(S), NEW f, DOMAIN f = S
    PROVE  IsFiniteSet({f[x] : x \in S})
  <1> DEFINE T == {f[x] : x \in S}
             g == [x \in S |-> f[x]]
  <1>1. g \in Surjection(S, T)
    <2>1. g \in [S -> T] /\ \A t \in T : \E s \in S : g[s] = t
      OBVIOUS
    <2> HIDE DEF T, g
    <2> QED BY <2>1, Fun_IsSurj
  <1> HIDE DEF T, g
  <1>2. IsFiniteSet(T)
    BY <1>1, FS_Surjection
  <1> QED BY <1>2 DEF T

\* What is delivered again is a bag, of the deliveries that the calls are for.
LEMMA DeliveriesAre ==
    ASSUME NEW b, IsABag(b), IsFiniteSet(In(b))
    PROVE  /\ IsABag(Deliveries(b))
           /\ In(Deliveries(b)) = {c.of : c \in In(b)}
  <1> DEFINE For(m) == {d \in In(b) : d.of = m}
             Copies(m) == UNION {{c} \X (1..b[c]) : c \in For(m)}
  <1>1. Deliveries(b) = [m \in {c.of : c \in In(b)} |-> Cardinality(Copies(m))]
    BY DEF Deliveries
  <1>2. ASSUME NEW m \in {c.of : c \in In(b)}
        PROVE  Cardinality(Copies(m)) \in Nat /\ Cardinality(Copies(m)) > 0
    <2>1. PICK d \in In(b) : d.of = m
      OBVIOUS
    <2>2. \A c \in In(b) : b[c] \in Nat /\ b[c] > 0
      BY DEF In, BagToSet, IsABag
    <2>3. IsFiniteSet(For(m))
      BY FS_Subset
    <2> DEFINE f == [c \in For(m) |-> {c} \X (1..b[c])]
    <2>4. IsFiniteSet({f[c] : c \in For(m)})
      <3>1. DOMAIN f = For(m)
        OBVIOUS
      <3> HIDE DEF For, f
      <3> QED BY <2>3, <3>1, FiniteImage
    <2>5. \A c \in For(m) : IsFiniteSet(f[c])
      <3> SUFFICES ASSUME NEW c \in For(m) PROVE IsFiniteSet({c} \X (1..b[c]))
        OBVIOUS
      <3>1. b[c] \in Int
        BY <2>2
      <3>2. IsFiniteSet(1..b[c])
        BY <3>1, 1 \in Int, FS_Interval
      <3>3. IsFiniteSet({c})
        BY FS_Singleton
      <3> QED BY <3>2, <3>3, FS_Product
    <2>6. Copies(m) = UNION {f[c] : c \in For(m)}
      OBVIOUS
    <2>7. IsFiniteSet(Copies(m))
      <3> HIDE DEF For, f, Copies
      <3> QED BY <2>4, <2>5, <2>6, FS_UNION
    <2>8. <<d, 1>> \in Copies(m)
      BY <2>1, <2>2
    <2> HIDE DEF Copies
    <2> QED BY <2>7, <2>8, FS_EmptySet, FS_CardinalityType
  <1> HIDE DEF Copies
  <1> QED BY <1>1, <1>2 DEF IsABag, In, BagToSet

------------------------------------------------------------------------------
(***************************************************************************)
(* The data                                                                *)
(***************************************************************************)

\* A message of an application; a send of one, and the sends that settle a delivery.
Carried == [ev : Batch, topic : Topics, origin : SUBSET Topics, retries : Nat,
            delivered : 0..MaxDeliver]

Settling == {"retry", "bury", "forward"}

Sends == [why : {"publish", "dropped"} \cup Settling, msg : Carried, of : Carried,
          attempt : 0..ProducerRetries, copies : Nat]

\* A delivery that is settled came from a topic that somebody consumes.
Consumed == {Home, Parked}

\* What is sent, and what it settles, are about the same event.
CallsOK ==
    /\ IsABag(calls) /\ IsFiniteSet(In(calls))
    /\ \A c \in In(calls) :
          /\ c \in Sends /\ c.msg.ev = c.of.ev
          /\ c.why \in Settling => c.of.topic \in Consumed

QueueOK == IsABag(queue) /\ In(queue) \subseteq Carried

DataInv ==
    /\ setup \in Setups
    /\ told \in {"idle", "busy", "ok", "failed"}
    /\ sent \subseteq Batch /\ arrived \in Seq(Batch)
    /\ CallsOK /\ QueueOK
    /\ handled \subseteq Batch /\ swallowed \subseteq Batch /\ strayed \subseteq Batch
    /\ seen \subseteq Topics \X Batch
    /\ doubled \in BOOLEAN
    /\ faults \in 0..MaxFaults

\* An application has the parts that its assumption says.
LEMMA SetupIs ==
    ASSUME setup \in Setups
    PROVE  /\ setup.bus \in {"local", "kafka", "nats"}
           /\ setup.api \in {"publish_batch", "send_batch"}
           /\ setup.batch \in Nat \ {0} /\ setup.to \in Topics
           /\ setup.streams \subseteq Topics
           /\ setup.retryTo \in {"original", "fixed", "suffix", "none"}
           /\ setup.bus = "local" => setup.api = "publish_batch"
           /\ ForwarderKind \in {"original", "fixed", "suffix", "none"}
  BY PublishingAssumption DEF Applications, ForwarderKind

\* The retries that a delivery has had are a natural number.
LEMMA RetriesAreNat ==
    ASSUME NEW m \in Carried PROVE RetryCount(m) \in Nat
  BY MaxDeliverAssumption DEF Carried, RetryCount

\* The send by which a delivery m that failed is settled.
Settles(d, m) ==
    /\ d \in Sends /\ d.why \in {"retry", "bury"}
    /\ d.copies = 0 /\ d.of = m /\ d.msg.ev = m.ev

\* A delivery that failed is settled by a send, or goes back to its topic.
LEMMA FailingIs ==
    ASSUME setup \in Setups, NEW m \in Carried, m.topic \in Consumed, NEW verdict,
           NEW kind \in {"original", "fixed", "suffix", "none"},
           NEW f, f = Failing(m, verdict, kind)
    PROVE  \/ f.queue = EmptyBag /\ \E d : f.calls = One(d) /\ Settles(d, m)
           \/ f.calls = EmptyBag /\ f.queue = One(m)
  <1> DEFINE r == RetryCount(m)
             action == FailureAction(verdict, r)
  <1>1. r \in Nat /\ r + 1 \in Nat
    BY RetriesAreNat
  <1>2. /\ m.ev \in Batch /\ m.topic \in Topics /\ m.origin \subseteq Topics
        /\ m.delivered \in 0..MaxDeliver /\ 0 \in 0..MaxDeliver
    BY MaxDeliverAssumption DEF Carried
  <1>3. \A t \in Topics, n \in Nat : FailureHeaders(m, t, n) \in Carried
                                    /\ FailureHeaders(m, t, n).ev = m.ev
    BY <1>2 DEF Carried, FailureHeaders
  <1>4. ASSUME NEW w \in {"retry", "bury"}, NEW x \in Carried, x.ev = m.ev
        PROVE  Settles(Send(w, x, m), m)
    BY <1>4, PublishingAssumption DEF Settles, Send, Sends, Settling
  <1>5. Resolve(kind, m.topic) \in Topics \/ kind = "none"
    BY DEF Resolve, Topics, Consumed, Home, Parked, Beyond, Dlq
  <1>6. Dlq \in Topics
    BY DEF Topics
  <1>7. CASE action = "DeadLetter"
    <2>1. f = [calls |-> One(Send("bury", FailureHeaders(m, Dlq, r), m)), queue |-> EmptyBag]
      BY <1>7 DEF Failing
    <2> HIDE DEF r
    <2> QED BY <1>1, <1>3, <1>4, <1>6, <2>1
  <1>8. CASE action # "DeadLetter" /\ action = "Retry" /\ kind # "none"
    <2>1. f = [calls |-> One(Send("retry",
                                  FailureHeaders(m, Resolve(kind, m.topic), r + 1), m)),
               queue |-> EmptyBag]
      BY <1>8 DEF Failing
    <2> HIDE DEF r
    <2> QED BY <1>1, <1>3, <1>4, <1>5, <1>8, <2>1
  <1>9. CASE action # "DeadLetter" /\ ~(action = "Retry" /\ kind # "none")
    <2>1. f = [calls |-> EmptyBag, queue |-> One(m)]
      BY <1>9 DEF Failing
    <2> QED BY <2>1
  <1> QED BY <1>7, <1>8, <1>9

------------------------------------------------------------------------------
(***************************************************************************)
(* What a step of a send does                                              *)
(***************************************************************************)

GivenUp(d) == [d EXCEPT !.why = "dropped"]

\* Where a call comes from after a step of call c: it was there, or it was given up
\* with c, or it settles the delivery that c failed to, or it is c after k attempts
\* that were stored.
Follows(d, c, k) ==
    \/ d \in In(calls)
    \/ \E e \in Publishing : c.why = "publish" /\ d = GivenUp(e)
    \/ c.why \in Settling /\ Settles(d, c.of)
    \/ /\ d.why = c.why /\ d.msg = c.msg /\ d.of = c.of
       /\ d.attempt \in 0..ProducerRetries /\ d.copies = c.copies + k
       /\ d \in Sends

\* The calls after a step of call c: those that settle a delivery go on, and so do
\* those of the publisher when c is none.
CallsAfter(c, k) ==
    /\ IsABag(calls') /\ IsFiniteSet(In(calls'))
    /\ \A d \in In(calls') : Follows(d, c, k)
    /\ \A d \in In(calls) : d # c /\ d.why \in Settling => d \in In(calls')
    /\ c.why # "publish" =>
          \A d \in Publishing : d \in In(calls') /\ calls'[d] = calls[d]

\* The topics after it, q being what is in them without it.
QueueAfter(c, q) ==
    /\ IsABag(queue') /\ In(q) \subseteq In(queue')
    /\ In(queue') \subseteq In(q) \cup IF c.why \in Settling THEN {c.of} ELSE {}

\* The publisher after it.
ToldAfter(c) ==
    /\ told' \in {told, "ok", "failed"}
    /\ sent \subseteq sent' /\ sent' \subseteq sent \cup {c.msg.ev}
    /\ told' = "ok" => told = "ok" \/ sent' = Batch
    /\ c.why # "publish" => UNCHANGED publisher

\* The delivery that c was to settle is not settled: something still has it.
StillHeld(c) ==
    \/ c.of \in In(queue')
    \/ \E d \in In(calls') : d.why \in Settling /\ d.copies = 0 /\ d.of.ev = c.of.ev

\* A call that ends in calls of ds, and sends or returns nothing else.
LEMMA Replaced ==
    ASSUME DataInv, NEW c \in In(calls), NEW ds, IsABag(ds), IsFiniteSet(In(ds)),
           NEW k \in {0, 1}, \A d \in In(ds) : Follows(d, c, k), calls' = Replace(c, ds),
           \A d \in In(ds) : d.why = "publish" => c.why = "publish"
    PROVE  CallsAfter(c, k) /\ In(ds) \subseteq In(calls')
  <1>1. IsABag(calls) /\ IsFiniteSet(In(calls))
    BY DEF DataInv, CallsOK
  <1>2. /\ IsABag(calls') /\ In(calls') \subseteq In(calls) \cup In(ds)
        /\ (In(calls) \ {c}) \cup In(ds) \subseteq In(calls')
        /\ \A d \in In(calls) \ ({c} \cup In(ds)) : calls'[d] = calls[d]
    <2>1. /\ IsABag(Replace(c, ds)) /\ In(Replace(c, ds)) \subseteq In(calls) \cup In(ds)
          /\ (In(calls) \ {c}) \cup In(ds) \subseteq In(Replace(c, ds))
          /\ \A d \in In(calls) \ ({c} \cup In(ds)) : Replace(c, ds)[d] = calls[d]
      BY <1>1, ReplaceCalls
    <2>2. In(calls') = In(Replace(c, ds))
      OBVIOUS
    <2> QED BY <2>1, <2>2
  <1>3. IsFiniteSet(In(calls) \cup In(ds))
    BY <1>1, FS_Union
  <1>4. IsFiniteSet(In(calls'))
    BY <1>2, <1>3, FS_Subset
  <1>5. \A d \in In(calls) : Follows(d, c, k)
    BY DEF Follows
  <1>6. ASSUME c.why # "publish", NEW d \in Publishing
        PROVE  d \in In(calls') /\ calls'[d] = calls[d]
    <2>1. d \in In(calls) /\ d.why = "publish"
      BY DEF Publishing
    <2>2. d # c /\ d \notin In(ds)
      BY <1>6, <2>1
    <2> QED BY <1>2, <2>1, <2>2
  <1> QED BY <1>2, <1>4, <1>5, <1>6 DEF CallsAfter

\* A publisher that hears of a failure gives up its other sends.
LEMMA GivesUp ==
    ASSUME DataInv, NEW c \in In(calls), NEW k \in {0, 1}, c.why = "publish",
           PublishReturns(c, FALSE)
    PROVE  CallsAfter(c, k)
  <1> DEFINE rest == {d \in Publishing : d # c}
             old == SetToBag({c} \cup rest)
             new == SetToBag({GivenUp(d) : d \in rest})
             left == calls (-) old
  <1>1. IsABag(calls) /\ IsFiniteSet(In(calls))
    BY DEF DataInv, CallsOK
  <1>2. calls' = left (+) new
    BY DEF PublishReturns, GivenUp
  <1>3. /\ IsABag(old) /\ In(old) = {c} \cup rest
        /\ IsABag(new) /\ In(new) = {GivenUp(d) : d \in rest}
    BY BagOfSet
  <1>4. /\ IsABag(left) /\ In(left) \subseteq In(calls)
        /\ In(calls) \ In(old) \subseteq In(left)
    <2> HIDE DEF old
    <2> QED BY <1>1, <1>3, BagMinus
  <1>5. IsABag(left (+) new) /\ In(left (+) new) = In(left) \cup In(new)
    <2> HIDE DEF left, new
    <2> QED BY <1>3, <1>4, BagPlus
  <1>6. IsFiniteSet(In(new))
    <2>1. IsFiniteSet(rest)
      BY <1>1, FS_Subset DEF Publishing
    <2> DEFINE f == [d \in rest |-> GivenUp(d)]
    <2>2. DOMAIN f = rest /\ {f[d] : d \in rest} = {GivenUp(d) : d \in rest}
      OBVIOUS
    <2>3. IsFiniteSet({f[d] : d \in rest})
      <3>1. DOMAIN f = rest
        OBVIOUS
      <3> HIDE DEF f, rest
      <3> QED BY <2>1, <3>1, FiniteImage
    <2> QED BY <1>3, <2>2, <2>3
  <1>7. IsFiniteSet(In(left))
    BY <1>1, <1>4, FS_Subset
  <1>8. IsFiniteSet(In(left) \cup In(new))
    <2> HIDE DEF left, new
    <2> QED BY <1>6, <1>7, FS_Union
  <1>9. \A d \in In(new) : \E e \in Publishing : d = GivenUp(e)
    BY <1>3
  <1>10. \A d \in In(left) \cup In(new) : Follows(d, c, k)
    <2> HIDE DEF left, new
    <2> QED BY <1>4, <1>9 DEF Follows
  <1>11. \A d \in In(calls) : d # c /\ d.why \in Settling => d \in In(left)
    <2>1. \A d \in {c} \cup rest : d.why = "publish"
      BY DEF Publishing
    <2>2. \A d \in In(calls) : d.why \in Settling => d \notin In(old)
      BY <1>3, <2>1 DEF Settling
    <2> HIDE DEF left, old
    <2> QED BY <1>4, <2>2
  <1> HIDE DEF left, new
  <1> QED BY <1>2, <1>5, <1>8, <1>10, <1>11 DEF CallsAfter

\* A send returns.
LEMMA ReturnsDoes ==
    ASSUME DataInv, NEW c \in In(calls), NEW k \in {0, 1}, NEW q, IsABag(q),
           NEW ok \in BOOLEAN, Returns(c, ok, q)
    PROVE  /\ CallsAfter(c, k) /\ QueueAfter(c, q) /\ ToldAfter(c)
           /\ ~ok => sent' = sent /\ (c.why \in Settling => StillHeld(c))
  <1>1. /\ IsABag(EmptyBag) /\ In(EmptyBag) = {} /\ IsFiniteSet(In(EmptyBag))
    BY BagOfSet, FS_EmptySet
  <1>2. calls' = Replace(c, EmptyBag) => CallsAfter(c, k)
    BY <1>1, Replaced
  <1>3. CASE c.why = "publish"
    <2>1. PublishReturns(c, ok) /\ queue' = q /\ c.why \notin Settling
      BY <1>3 DEF Returns, Settling
    <2>2. CallsAfter(c, k)
      <3>1. CASE ok
        BY <1>2, <2>1, <3>1 DEF PublishReturns
      <3>2. CASE ~ok
        BY <1>3, <2>1, <3>2, GivesUp
      <3> QED BY <3>1, <3>2
    <2>3. ToldAfter(c) /\ (~ok => sent' = sent)
      <3>1. CASE ok
        BY <1>3, <2>1, <3>1 DEF PublishReturns, ToldAfter, DataInv, Batch
      <3>2. CASE ~ok
        BY <1>3, <2>1, <3>2 DEF PublishReturns, ToldAfter
      <3> QED BY <3>1, <3>2
    <2> QED BY <2>1, <2>2, <2>3 DEF QueueAfter
  <1>4. CASE c.why \in {"retry", "bury"} \/ (c.why = "forward" /\ ok)
    <2>1. /\ calls' = Replace(c, EmptyBag) /\ UNCHANGED publisher
          /\ queue' = IF ok THEN q ELSE q (+) One(c.of)
          /\ c.why \in Settling
      BY <1>4 DEF Returns, Settling
    <2>2. QueueAfter(c, q) /\ (~ok => c.of \in In(queue'))
      <3>1. IsABag(One(c.of)) /\ In(One(c.of)) = {c.of}
        BY BagOfSet
      <3>2. IsABag(q (+) One(c.of)) /\ In(q (+) One(c.of)) = In(q) \cup {c.of}
        BY <3>1, BagPlus
      <3> QED BY <2>1, <3>2 DEF QueueAfter
    <2> QED BY <1>2, <2>1, <2>2 DEF ToldAfter, StillHeld, publisher
  <1>5. CASE c.why = "forward" /\ ~ok
    <2>1. ForwardFails(c, q) /\ UNCHANGED publisher /\ c.why \in Settling
      BY <1>5 DEF Returns, Settling
    <2>2. setup \in Setups /\ c.of \in Carried /\ c.of.topic \in Consumed
      BY <2>1 DEF DataInv, CallsOK, Sends
    <2>3. PICK f : f = Failing(c.of, "Retry", ForwarderKind)
      OBVIOUS
    <2>4. calls' = Replace(c, f.calls) /\ queue' = q (+) f.queue
      BY <2>1, <2>3 DEF ForwardFails
    <2>5. \/ f.queue = EmptyBag /\ \E d : f.calls = One(d) /\ Settles(d, c.of)
          \/ f.calls = EmptyBag /\ f.queue = One(c.of)
      BY <2>2, <2>3, SetupIs, FailingIs
    <2>6. CASE f.queue = EmptyBag /\ \E d : f.calls = One(d) /\ Settles(d, c.of)
      <3>1. PICK d : f.calls = One(d) /\ Settles(d, c.of)
        BY <2>6
      <3>2. /\ IsABag(One(d)) /\ In(One(d)) = {d} /\ IsFiniteSet(In(One(d)))
        <4>1. IsABag(One(d)) /\ In(One(d)) = {d}
          BY BagOfSet
        <4>2. IsFiniteSet({d})
          BY FS_Singleton
        <4> QED BY <4>1, <4>2
      <3>3. Follows(d, c, k)
        BY <2>1, <3>1 DEF Follows
      <3>4. CallsAfter(c, k) /\ d \in In(calls')
        <4>1. d.why # "publish"
          BY <3>1 DEF Settles
        <4> QED BY <2>4, <3>1, <3>2, <3>3, <4>1, Replaced
      <3>5. IsABag(q (+) EmptyBag) /\ In(q (+) EmptyBag) = In(q) \cup {}
        BY <1>1, BagPlus
      <3>6. QueueAfter(c, q)
        BY <2>4, <2>6, <3>5 DEF QueueAfter
      <3>7. StillHeld(c)
        BY <3>1, <3>4 DEF StillHeld, Settles, Settling
      <3> QED BY <2>1, <3>4, <3>6, <3>7 DEF ToldAfter, publisher
    <2>7. CASE f.calls = EmptyBag /\ f.queue = One(c.of)
      <3>1. IsABag(One(c.of)) /\ In(One(c.of)) = {c.of}
        BY BagOfSet
      <3>2. IsABag(q (+) One(c.of)) /\ In(q (+) One(c.of)) = In(q) \cup {c.of}
        BY <3>1, BagPlus
      <3>3. QueueAfter(c, q) /\ c.of \in In(queue')
        BY <2>1, <2>4, <2>7, <3>2 DEF QueueAfter
      <3> QED BY <1>2, <2>1, <2>4, <2>7, <3>3 DEF ToldAfter, StillHeld, publisher
    <2> QED BY <2>5, <2>6, <2>7
  <1> QED BY <1>3, <1>4, <1>5 DEF Returns

\* A send is tried again, or returns an error after the last attempt.
LEMMA TryAgainDoes ==
    ASSUME DataInv, NEW c \in In(calls), NEW k \in {0, 1}, NEW q, IsABag(q),
           NEW d, d = [c EXCEPT !.copies = c.copies + k], TryAgain(c, d, q)
    PROVE  /\ CallsAfter(c, k) /\ QueueAfter(c, q) /\ ToldAfter(c) /\ sent' = sent
           /\ c.why \in Settling /\ c.copies = 0 /\ k = 0 => StillHeld(c)
  <1>1. c \in Sends /\ c.attempt \in 0..ProducerRetries /\ c.copies \in Nat
    BY DEF DataInv, CallsOK, Sends
  <1>2. Attempts \in Nat /\ Attempts <= ProducerRetries
    BY PublishingAssumption DEF Attempts
  <1>3. CASE c.attempt < Attempts
    <2>1. PICK e : e = [d EXCEPT !.attempt = @ + 1]
      OBVIOUS
    <2>2. /\ e \in Sends /\ e.why = c.why /\ e.msg = c.msg /\ e.of = c.of
          /\ e.copies = c.copies + k
      <3>1. c.attempt + 1 \in 0..ProducerRetries /\ c.copies + k \in Nat
        BY <1>1, <1>2, <1>3, PublishingAssumption
      <3> QED BY <1>1, <2>1, <3>1 DEF Sends
    <2>3. calls' = Replace(c, One(e)) /\ queue' = q /\ UNCHANGED publisher
      BY <1>3, <2>1 DEF TryAgain
    <2>4. /\ IsABag(One(e)) /\ In(One(e)) = {e} /\ IsFiniteSet(In(One(e)))
      <3>1. IsABag(One(e)) /\ In(One(e)) = {e}
        BY BagOfSet
      <3>2. IsFiniteSet({e})
        BY FS_Singleton
      <3> QED BY <3>1, <3>2
    <2>5. Follows(e, c, k)
      BY <2>2 DEF Follows, Sends
    <2>6. CallsAfter(c, k) /\ e \in In(calls')
      <3>1. \A x \in In(One(e)) : Follows(x, c, k) /\ (x.why = "publish" => c.why = "publish")
        BY <2>2, <2>4, <2>5
      <3> QED BY <2>3, <2>4, <3>1, Replaced
    <2>7. c.why \in Settling /\ c.copies = 0 /\ k = 0 => StillHeld(c)
      BY <2>2, <2>6 DEF StillHeld
    <2> QED BY <2>3, <2>6, <2>7 DEF QueueAfter, ToldAfter, publisher
  <1>4. CASE ~(c.attempt < Attempts)
    <2>1. Returns(c, FALSE, q)
      BY <1>4 DEF TryAgain
    <2> QED BY <2>1, ReturnsDoes
  <1> QED BY <1>3, <1>4

\* The events of a sequence with one more.
LEMMA SeenAppend ==
    ASSUME NEW S, NEW s \in Seq(S), NEW e \in S
    PROVE  Append(s, e) \in Seq(S) /\ Seen(Append(s, e)) = Seen(s) \cup {e}
  <1>1. PICK t : t = Append(s, e)
    OBVIOUS
  <1>2. /\ t \in Seq(S) /\ Len(t) = Len(s) + 1 /\ t[Len(s) + 1] = e
        /\ \A i \in 1..Len(s) : t[i] = s[i]
    BY <1>1, AppendProperties
  <1>3. DOMAIN s = 1..Len(s) /\ DOMAIN t = 1..(Len(s) + 1) /\ Len(s) \in Nat
    BY <1>2, LenProperties
  <1>4. \A i \in 1..(Len(s) + 1) : i \in 1..Len(s) \/ i = Len(s) + 1
    BY <1>3
  <1>5. \A i \in 1..Len(s) : i \in 1..(Len(s) + 1)
    BY <1>3
  <1>6. Len(s) + 1 \in 1..(Len(s) + 1)
    BY <1>3
  <1>7. Seen(t) \subseteq Seen(s) \cup {e}
    BY <1>2, <1>3, <1>4 DEF Seen
  <1>8. Seen(s) \subseteq Seen(t)
    BY <1>2, <1>3, <1>5 DEF Seen
  <1>9. e \in Seen(t)
    BY <1>2, <1>3, <1>6 DEF Seen
  <1> QED BY <1>1, <1>2, <1>7, <1>8, <1>9

\* A stream or a partition takes a message.
LEMMA StoreDoes ==
    ASSUME DataInv, NEW c \in In(calls), Store(c)
    PROVE  /\ arrived' \in Seq(Batch) /\ Seen(arrived') = Seen(arrived) \cup {c.msg.ev}
           /\ seen' \subseteq Topics \X Batch /\ strayed' \subseteq Batch
           /\ doubled' \in BOOLEAN
           /\ \A te \in seen' : te \in seen \/ te = <<c.msg.topic, c.msg.ev>>
  <1>1. c.msg.ev \in Batch /\ c.msg.topic \in Topics
    BY DEF DataInv, CallsOK, Sends, Carried
  <1>2. arrived' \in Seq(Batch) /\ Seen(arrived') = Seen(arrived) \cup {c.msg.ev}
    <2>1. CASE c.msg.ev \in Seen(arrived)
      BY <2>1 DEF Store, DataInv
    <2>2. CASE c.msg.ev \notin Seen(arrived)
      <3>1. arrived' = Append(arrived, c.msg.ev) /\ arrived \in Seq(Batch)
        BY <2>2 DEF Store, DataInv
      <3> QED BY <1>1, <3>1, SeenAppend
    <2> QED BY <2>1, <2>2
  <1>3. seen' \subseteq seen \cup {<<c.msg.topic, c.msg.ev>>}
    BY DEF Store
  <1>4. strayed' \subseteq strayed \cup {c.msg.ev}
    BY DEF Store
  <1>5. doubled' \in BOOLEAN
    BY Zenon DEF Store
  <1> QED BY <1>1, <1>2, <1>3, <1>4, <1>5 DEF DataInv

\* What is in the topics then.
LEMMA QueueWithIs ==
    ASSUME DataInv, NEW c \in In(calls)
    PROVE  /\ IsABag(QueueWith(c)) /\ In(queue) \subseteq In(QueueWith(c))
           /\ In(QueueWith(c)) \subseteq In(queue) \cup {c.msg}
           /\ ~Duplicate(c) => c.msg \in In(QueueWith(c))
  <1>1. IsABag(queue)
    BY DEF DataInv, QueueOK
  <1>2. IsABag(One(c.msg)) /\ In(One(c.msg)) = {c.msg}
    BY BagOfSet
  <1>3. /\ IsABag(queue (+) One(c.msg))
        /\ In(queue (+) One(c.msg)) = In(queue) \cup {c.msg}
    BY <1>1, <1>2, BagPlus
  <1> QED BY <1>1, <1>3 DEF QueueWith

\* The steps of a send.
CallStep(c) ==
    \/ (NoStream(c) \/ Acknowledged(c) \/ Dropped(c))
    \/ faults < MaxFaults /\ faults' = faults + 1 /\ (RequestLost(c) \/ AckLost(c))

\* Whether the message of c is stored in a step, what is in the topics then, and how
\* many more copies of it c has made if it goes on.
BrokerAfter(c, q, k) ==
    \/ UNCHANGED <<arrived, seen, doubled, strayed>> /\ q = queue /\ k = 0
    \/ Store(c) /\ q = QueueWith(c) /\ (k = 1 => faults' > faults /\ ~Duplicate(c))

\* The delivery that c was to settle is not lost with c.
SettledOrHeld(c) ==
    \/ StillHeld(c)
    \/ c.msg \in In(queue')
    \/ setup.named /\ setup.idKept /\ c.msg.ev \in swallowed'

\* What every step of a send has in common.
Shape(c) ==
    /\ \E k \in {0, 1} : \E q :
          /\ BrokerAfter(c, q, k) /\ CallsAfter(c, k) /\ QueueAfter(c, q)
    /\ ToldAfter(c) /\ (sent' = sent \/ Store(c))
    /\ UNCHANGED <<setup, handled, subs>>
    /\ swallowed \subseteq swallowed' /\ swallowed' \subseteq swallowed \cup {c.msg.ev}
    /\ faults' \in 0..MaxFaults /\ faults' >= faults
    /\ c.why \in Settling /\ c.copies = 0 => SettledOrHeld(c)

LEMMA CallShape ==
    ASSUME DataInv, NEW c \in In(calls), CallStep(c)
    PROVE  Shape(c)
  <1>0. /\ c \in Sends /\ c.copies \in Nat /\ IsABag(queue)
        /\ faults \in 0..MaxFaults /\ MaxFaults \in Nat
    BY PublishingAssumption DEF DataInv, CallsOK, Sends, QueueOK
  <1>1. CASE NoStream(c)
    <2>1. /\ Returns(c, FALSE, queue)
          /\ UNCHANGED <<setup, arrived, seen, doubled, strayed, handled, swallowed, subs,
                         faults>>
      BY <1>1 DEF NoStream, ends
    <2>2. /\ CallsAfter(c, 0) /\ QueueAfter(c, queue) /\ ToldAfter(c) /\ sent' = sent
          /\ c.why \in Settling => StillHeld(c)
      BY <1>0, <2>1, ReturnsDoes
    <2>3. BrokerAfter(c, queue, 0)
      BY <2>1 DEF BrokerAfter
    <2> QED BY <1>0, <2>1, <2>2, <2>3 DEF Shape, SettledOrHeld
  <1>2. CASE Acknowledged(c)
    <2>1. /\ Store(c) /\ Returns(c, TRUE, QueueWith(c))
          /\ UNCHANGED <<setup, handled, subs, faults>>
          /\ swallowed' = IF c.why # "publish" /\ Duplicate(c) /\ c.copies = 0
                          THEN swallowed \cup {c.msg.ev} ELSE swallowed
      BY <1>2 DEF Acknowledged
    <2>2. CallsAfter(c, 0) /\ QueueAfter(c, QueueWith(c)) /\ ToldAfter(c)
      BY <2>1, QueueWithIs, ReturnsDoes
    <2>3. BrokerAfter(c, QueueWith(c), 0)
      BY <2>1 DEF BrokerAfter
    <2>4. c.why \in Settling /\ c.copies = 0 => SettledOrHeld(c)
      <3>1. CASE ~Duplicate(c)
        BY <2>2, <3>1, QueueWithIs DEF QueueAfter, SettledOrHeld
      <3>2. CASE Duplicate(c) /\ c.copies = 0
        BY <2>1, <3>2 DEF Duplicate, SettledOrHeld, Settling
      <3> QED BY <3>1, <3>2
    <2> QED BY <1>0, <2>1, <2>2, <2>3, <2>4 DEF Shape
  <1>3. CASE Dropped(c)
    <2>1. /\ c.why = "dropped" /\ calls' = Replace(c, EmptyBag)
          /\ UNCHANGED <<setup, told, sent, handled, swallowed, subs, faults>>
          /\ \/ UNCHANGED <<arrived, queue, seen, doubled, strayed>>
             \/ Store(c) /\ queue' = QueueWith(c)
      BY <1>3 DEF Dropped, broker, publisher, ends
    <2>2. IsABag(EmptyBag) /\ In(EmptyBag) = {} /\ IsFiniteSet(In(EmptyBag))
      BY BagOfSet, FS_EmptySet
    <2>3. CallsAfter(c, 0)
      BY <2>1, <2>2, Replaced
    <2>4. ToldAfter(c) /\ c.why \notin Settling
      BY <2>1 DEF ToldAfter, publisher, Settling
    <2>5. CASE UNCHANGED <<arrived, queue, seen, doubled, strayed>>
      <3>1. BrokerAfter(c, queue, 0) /\ QueueAfter(c, queue)
        BY <1>0, <2>5 DEF BrokerAfter, QueueAfter
      <3> QED BY <1>0, <2>1, <2>3, <2>4, <3>1 DEF Shape
    <2>6. CASE Store(c) /\ queue' = QueueWith(c)
      <3>1. BrokerAfter(c, QueueWith(c), 0) /\ QueueAfter(c, QueueWith(c))
        BY <2>6, QueueWithIs DEF BrokerAfter, QueueAfter
      <3> QED BY <1>0, <2>1, <2>3, <2>4, <3>1 DEF Shape
    <2> QED BY <2>1, <2>5, <2>6
  <1>4. CASE faults < MaxFaults /\ faults' = faults + 1 /\ RequestLost(c)
    <2>1. /\ TryAgain(c, c, queue)
          /\ UNCHANGED <<setup, arrived, seen, doubled, strayed, handled, swallowed, subs>>
      BY <1>4 DEF RequestLost, ends
    <2>2. c = [c EXCEPT !.copies = c.copies + 0]
      BY <1>0 DEF Sends
    <2>3. /\ CallsAfter(c, 0) /\ QueueAfter(c, queue) /\ ToldAfter(c) /\ sent' = sent
          /\ c.why \in Settling /\ c.copies = 0 => StillHeld(c)
      BY <1>0, <2>1, <2>2, TryAgainDoes
    <2>4. BrokerAfter(c, queue, 0)
      BY <2>1 DEF BrokerAfter
    <2> QED BY <1>0, <1>4, <2>1, <2>3, <2>4 DEF Shape, SettledOrHeld
  <1>5. CASE faults < MaxFaults /\ faults' = faults + 1 /\ AckLost(c)
    <2>1. /\ Store(c) /\ TryAgain(c, Stored(c), QueueWith(c))
          /\ UNCHANGED <<setup, handled, swallowed, subs>>
      BY <1>5 DEF AckLost, ends
    <2>2. IsABag(QueueWith(c))
      BY QueueWithIs
    <2>3. CASE Duplicate(c)
      <3>1. Stored(c) = [c EXCEPT !.copies = c.copies + 0]
        BY <1>0, <2>3 DEF Sends, Stored
      <3>2. /\ CallsAfter(c, 0) /\ QueueAfter(c, QueueWith(c)) /\ ToldAfter(c)
            /\ c.why \in Settling /\ c.copies = 0 => StillHeld(c)
        BY <2>1, <2>2, <3>1, TryAgainDoes
      <3>3. BrokerAfter(c, QueueWith(c), 0)
        BY <2>1 DEF BrokerAfter
      <3> QED BY <1>0, <1>5, <2>1, <3>2, <3>3 DEF Shape, SettledOrHeld
    <2>4. CASE ~Duplicate(c)
      <3>1. Stored(c) = [c EXCEPT !.copies = c.copies + 1]
        BY <1>0, <2>4 DEF Sends, Stored
      <3>2. CallsAfter(c, 1) /\ QueueAfter(c, QueueWith(c)) /\ ToldAfter(c)
        BY <2>1, <2>2, <3>1, TryAgainDoes
      <3>3. BrokerAfter(c, QueueWith(c), 1)
        BY <1>0, <1>5, <2>1, <2>4 DEF BrokerAfter
      <3>4. c.msg \in In(queue')
        BY <2>4, <3>2, QueueWithIs DEF QueueAfter
      <3> QED BY <1>0, <1>5, <2>1, <3>2, <3>3, <3>4 DEF Shape, SettledOrHeld
    <2> QED BY <2>3, <2>4
  <1> QED BY <1>1, <1>2, <1>3, <1>4, <1>5 DEF CallStep

------------------------------------------------------------------------------
(***************************************************************************)
(* What the steps of the sends keep                                        *)
(***************************************************************************)

\* Everything that is on its way, has been settled or is remembered was stored once.
StoredInv ==
    /\ \A m \in In(queue) : m.ev \in Seen(arrived)
    /\ \A te \in seen : te[2] \in Seen(arrived)
    /\ \A c \in In(calls) :
          c.why \in Settling \/ c.copies > 0 => c.of.ev \in Seen(arrived)
    /\ sent \subseteq Seen(arrived)
    /\ told = "ok" => sent = Batch

\* A send has stored a copy that it does not know of only after a fault, and stores
\* another one only when its id is lost.
OnceInv ==
    /\ \A c \in In(calls) : c.copies > 0 => faults > 0
    /\ OncePerSend

\* An event that has been stored is handled, in a topic, or with a send that settles
\* its delivery and has not stored it elsewhere; or the broker took it for another.
Kept(e) ==
    \/ e \in handled
    \/ \E m \in In(queue) : m.ev = e
    \/ \E c \in In(calls) : c.why \in Settling /\ c.copies = 0 /\ c.of.ev = e
    \/ setup.named /\ setup.idKept /\ e \in swallowed

KeptInv == setup.bus # "local" => \A e \in Seen(arrived) : Kept(e)

\* What is sent stays of the same kind as long as the application is the same.
LEMMA SameSets ==
    ASSUME setup' = setup
    PROVE  Batch' = Batch /\ Carried' = Carried /\ Sends' = Sends
  BY DEF Batch, Carried, Sends

\* A call that follows a step is well-formed.
LEMMA FollowsOK ==
    ASSUME DataInv, NEW c \in In(calls), NEW k \in {0, 1}, NEW d, Follows(d, c, k)
    PROVE  /\ d \in Sends /\ d.msg.ev = d.of.ev
           /\ d.why \in Settling => d.of.topic \in Consumed
  <1>1. /\ c \in Sends /\ c.msg.ev = c.of.ev
        /\ c.why \in Settling => c.of.topic \in Consumed
    BY DEF DataInv, CallsOK
  <1>2. CASE d \in In(calls)
    BY <1>2 DEF DataInv, CallsOK
  <1>3. CASE \E e \in Publishing : c.why = "publish" /\ d = GivenUp(e)
    <2>1. PICK e \in In(calls) : d = [e EXCEPT !.why = "dropped"]
      BY <1>3 DEF Publishing, GivenUp
    <2>2. e \in Sends /\ e.msg.ev = e.of.ev
      BY DEF DataInv, CallsOK
    <2>3. d \in Sends /\ d.msg = e.msg /\ d.of = e.of /\ d.why = "dropped"
      BY <2>1, <2>2 DEF Sends
    <2> QED BY <2>2, <2>3 DEF Settling
  <1>4. CASE c.why \in Settling /\ Settles(d, c.of)
    BY <1>1, <1>4 DEF Settles
  <1>5. CASE /\ d.why = c.why /\ d.msg = c.msg /\ d.of = c.of
             /\ d.attempt \in 0..ProducerRetries /\ d.copies = c.copies + k
             /\ d \in Sends
    BY <1>1, <1>5
  <1> QED BY <1>2, <1>3, <1>4, <1>5 DEF Follows

\* Every step of a send keeps the types.
LEMMA CallData ==
    ASSUME DataInv, NEW c \in In(calls), Shape(c)
    PROVE  DataInv'
  <1>1. Batch' = Batch /\ Carried' = Carried /\ Sends' = Sends /\ setup' = setup
    BY SameSets DEF Shape
  <1>2. /\ c \in Sends /\ c.msg \in Carried /\ c.of \in Carried /\ c.msg.ev \in Batch
        /\ c.msg.ev = c.of.ev
    BY DEF DataInv, CallsOK, Sends, Carried
  <1>3. PICK k \in {0, 1} : \E q : BrokerAfter(c, q, k) /\ CallsAfter(c, k) /\ QueueAfter(c, q)
    BY DEF Shape
  <1>4. PICK q : BrokerAfter(c, q, k) /\ CallsAfter(c, k) /\ QueueAfter(c, q)
    BY <1>3
  <1>5. CallsOK'
    <2>1. IsABag(calls') /\ IsFiniteSet(In(calls')) /\ \A d \in In(calls') : Follows(d, c, k)
      BY <1>4 DEF CallsAfter
    <2>2. \A d \in In(calls') : /\ d \in Sends /\ d.msg.ev = d.of.ev
                                /\ d.why \in Settling => d.of.topic \in Consumed
      BY <2>1, FollowsOK
    <2> QED BY <1>1, <2>1, <2>2 DEF CallsOK
  <1>6. In(q) \subseteq In(queue) \cup {c.msg}
    BY <1>4, QueueWithIs DEF BrokerAfter
  <1>7. QueueOK'
    BY <1>1, <1>2, <1>4, <1>6 DEF QueueAfter, QueueOK, DataInv
  <1>8. /\ arrived' \in Seq(Batch) /\ seen' \subseteq Topics \X Batch
        /\ strayed' \subseteq Batch /\ doubled' \in BOOLEAN
    <2>1. CASE Store(c)
      BY <2>1, StoreDoes
    <2>2. CASE UNCHANGED <<arrived, seen, doubled, strayed>>
      BY <2>2 DEF DataInv
    <2> QED BY <1>4, <2>1, <2>2 DEF BrokerAfter
  <1>9. told' \in {"idle", "busy", "ok", "failed"} /\ sent' \subseteq Batch
    BY <1>2 DEF Shape, ToldAfter, DataInv
  <1>10. /\ handled' \subseteq Batch /\ swallowed' \subseteq Batch
         /\ faults' \in 0..MaxFaults
    BY <1>2 DEF Shape, DataInv
  <1> QED BY <1>1, <1>5, <1>7, <1>8, <1>9, <1>10 DEF DataInv

\* ... and that everything was stored once.
LEMMA CallStored ==
    ASSUME DataInv, StoredInv, NEW c \in In(calls), Shape(c)
    PROVE  StoredInv' /\ Seen(arrived) \subseteq Seen(arrived')
  <1>1. Batch' = Batch
    BY SameSets DEF Shape
  <1>2. c.msg.ev = c.of.ev /\ c \in Sends /\ c.copies \in Nat
    BY DEF DataInv, CallsOK, Sends
  <1>3. PICK k \in {0, 1} : \E q : BrokerAfter(c, q, k) /\ CallsAfter(c, k) /\ QueueAfter(c, q)
    BY DEF Shape
  <1>4. PICK q : BrokerAfter(c, q, k) /\ CallsAfter(c, k) /\ QueueAfter(c, q)
    BY <1>3
  <1>5. Seen(arrived) \subseteq Seen(arrived')
    <2>1. CASE Store(c)
      BY <2>1, StoreDoes
    <2>2. CASE arrived' = arrived
      BY <2>2
    <2> QED BY <1>4, <2>1, <2>2 DEF BrokerAfter
  <1>6. Store(c) => c.msg.ev \in Seen(arrived')
    BY StoreDoes
  <1>7. \A m \in In(queue') : m.ev \in Seen(arrived')
    <2>1. \A m \in In(q) : m.ev \in Seen(arrived')
      BY <1>4, <1>5, <1>6, QueueWithIs DEF BrokerAfter, StoredInv
    <2>2. c.why \in Settling => c.of.ev \in Seen(arrived')
      BY <1>5 DEF StoredInv
    <2> QED BY <1>4, <2>1, <2>2 DEF QueueAfter
  <1>8. \A te \in seen' : te[2] \in Seen(arrived')
    <2>1. CASE Store(c)
      BY <1>5, <1>6, <2>1, StoreDoes DEF StoredInv
    <2>2. CASE seen' = seen
      BY <1>5, <2>2 DEF StoredInv
    <2> QED BY <1>4, <2>1, <2>2 DEF BrokerAfter
  <1>9. ASSUME NEW d \in In(calls'), d.why \in Settling \/ d.copies > 0
        PROVE  d.of.ev \in Seen(arrived')
    <2>1. Follows(d, c, k)
      BY <1>4 DEF CallsAfter
    <2>2. CASE d \in In(calls)
      BY <1>5, <1>9, <2>2 DEF StoredInv
    <2>3. CASE \E e \in Publishing : c.why = "publish" /\ d = GivenUp(e)
      <3>1. PICK e \in In(calls) : d = [e EXCEPT !.why = "dropped"]
        BY <2>3 DEF Publishing, GivenUp
      <3>2. e \in Sends
        BY DEF DataInv, CallsOK
      <3>3. d.of = e.of /\ d.copies = e.copies /\ d.why \notin Settling
        BY <3>1, <3>2 DEF Sends, Settling
      <3> QED BY <1>5, <1>9, <3>3 DEF StoredInv
    <2>4. CASE c.why \in Settling /\ Settles(d, c.of)
      BY <1>5, <2>4 DEF Settles, StoredInv
    <2>5. CASE d.why = c.why /\ d.of = c.of /\ d.copies = c.copies + k
      <3>1. CASE k = 0
        BY <1>2, <1>5, <1>9, <2>5, <3>1 DEF StoredInv
      <3>2. CASE k = 1
        BY <1>2, <1>4, <1>6, <2>5, <3>2 DEF BrokerAfter
      <3> QED BY <3>1, <3>2
    <2> QED BY <2>1, <2>2, <2>3, <2>4, <2>5 DEF Follows
  <1>10. sent' \subseteq Seen(arrived')
    BY <1>5, <1>6 DEF Shape, ToldAfter, StoredInv
  <1>11. told' = "ok" => sent' = Batch'
    <2>1. sent' \subseteq Batch
      BY <1>1, CallData DEF DataInv
    <2> QED BY <1>1, <2>1 DEF Shape, ToldAfter, StoredInv
  <1> QED BY <1>5, <1>7, <1>8, <1>9, <1>10, <1>11 DEF StoredInv

\* ... and that a send stores two messages only after a fault, without its id.
LEMMA CallOnce ==
    ASSUME DataInv, OnceInv, NEW c \in In(calls), Shape(c)
    PROVE  OnceInv'
  <1>1. c \in Sends /\ c.copies \in Nat
    BY DEF DataInv, CallsOK, Sends
  <1>2. faults \in Nat /\ faults' \in Nat /\ faults' >= faults /\ setup' = setup
    BY PublishingAssumption DEF Shape, DataInv
  <1>3. PICK k \in {0, 1} : \E q : BrokerAfter(c, q, k) /\ CallsAfter(c, k) /\ QueueAfter(c, q)
    BY DEF Shape
  <1>4. PICK q : BrokerAfter(c, q, k) /\ CallsAfter(c, k)
    BY <1>3
  <1>5. ASSUME NEW d \in In(calls'), d.copies > 0
        PROVE  faults' > 0
    <2>1. Follows(d, c, k)
      BY <1>4 DEF CallsAfter
    <2>2. CASE d \in In(calls)
      BY <1>2, <1>5, <2>2 DEF OnceInv
    <2>3. CASE \E e \in Publishing : c.why = "publish" /\ d = GivenUp(e)
      <3>1. PICK e \in In(calls) : d = [e EXCEPT !.why = "dropped"]
        BY <2>3 DEF Publishing, GivenUp
      <3>2. e \in Sends
        BY DEF DataInv, CallsOK
      <3>3. d.copies = e.copies
        BY <3>1, <3>2 DEF Sends
      <3> QED BY <1>2, <1>5, <3>3 DEF OnceInv
    <2>4. CASE Settles(d, c.of)
      BY <1>5, <2>4 DEF Settles
    <2>5. CASE d.copies = c.copies + k
      <3>1. CASE k = 0
        BY <1>1, <1>2, <1>5, <2>5, <3>1 DEF OnceInv
      <3>2. CASE k = 1
        BY <1>2, <1>4, <3>2 DEF BrokerAfter
      <3> QED BY <3>1, <3>2
    <2> QED BY <2>1, <2>2, <2>3, <2>4, <2>5 DEF Follows
  <1>6. OncePerSend'
    <2>1. CASE doubled' = doubled
      BY <1>2, <2>1 DEF OnceInv, OncePerSend
    <2>2. CASE Store(c)
      <3>1. doubled' = (doubled \/ (~Duplicate(c) /\ c.copies > 0))
        BY <2>2 DEF Store
      <3>2. c.copies > 0 => faults > 0
        BY DEF OnceInv
      <3>3. ~Duplicate(c) /\ c.copies > 0 => ~setup.idKept
        BY DEF Duplicate
      <3>4. doubled => ~setup.idKept /\ faults > 0
        BY DEF OnceInv, OncePerSend
      <3>5. faults > 0 => faults' > 0
        BY <1>2
      <3>6. doubled' => ~setup.idKept /\ faults' > 0
        BY <3>1, <3>2, <3>3, <3>4, <3>5
      <3> QED BY <1>2, <3>6 DEF OncePerSend
    <2> QED BY <1>4, <2>1, <2>2 DEF BrokerAfter
  <1> QED BY <1>5, <1>6 DEF OnceInv

\* ... and that what was stored is kept.
LEMMA CallKept ==
    ASSUME DataInv, StoredInv, KeptInv, NEW c \in In(calls), Shape(c)
    PROVE  KeptInv'
  <1> SUFFICES ASSUME setup'.bus # "local", NEW e \in Seen(arrived') PROVE Kept(e)'
    BY DEF KeptInv
  <1>1. c.msg.ev = c.of.ev /\ c \in Sends /\ c.copies \in Nat
    BY DEF DataInv, CallsOK, Sends
  <1>2. setup' = setup /\ handled' = handled /\ swallowed \subseteq swallowed'
    BY DEF Shape
  <1>3. PICK k \in {0, 1} : \E q : BrokerAfter(c, q, k) /\ CallsAfter(c, k) /\ QueueAfter(c, q)
    BY DEF Shape
  <1>4. PICK q : BrokerAfter(c, q, k) /\ CallsAfter(c, k) /\ QueueAfter(c, q)
    BY <1>3
  <1>5. In(queue) \subseteq In(queue')
    BY <1>4, QueueWithIs DEF BrokerAfter, QueueAfter
  <1>6. CASE e \notin Seen(arrived)
    <2>1. Store(c) /\ q = QueueWith(c) /\ e = c.msg.ev
      BY <1>4, <1>6, StoreDoes DEF BrokerAfter
    <2>2. ~Duplicate(c)
      <3>1. c.copies = 0
        BY <1>1, <1>6, <2>1 DEF StoredInv
      <3>2. <<c.msg.topic, c.msg.ev>> \notin seen
        BY <1>6, <2>1 DEF StoredInv
      <3> QED BY <3>1, <3>2 DEF Duplicate
    <2>3. c.msg \in In(queue')
      BY <1>4, <2>1, <2>2, QueueWithIs DEF QueueAfter
    <2> QED BY <2>1, <2>3 DEF Kept
  <1>7. CASE e \in Seen(arrived)
    <2>1. Kept(e)
      BY <1>2, <1>7 DEF KeptInv
    <2>2. CASE e \in handled \/ \E m \in In(queue) : m.ev = e
      BY <1>2, <1>5, <2>2 DEF Kept
    <2>3. CASE setup.named /\ setup.idKept /\ e \in swallowed
      BY <1>2, <2>3 DEF Kept
    <2>4. CASE \E d \in In(calls) : d.why \in Settling /\ d.copies = 0 /\ d.of.ev = e
      <3>1. PICK d \in In(calls) : d.why \in Settling /\ d.copies = 0 /\ d.of.ev = e
        BY <2>4
      <3>2. CASE d # c
        BY <1>4, <3>1, <3>2 DEF CallsAfter, Kept
      <3>3. CASE d = c
        <4>1. SettledOrHeld(c) /\ c.of.ev = e /\ c.msg.ev = e
          BY <1>1, <3>1, <3>3 DEF Shape
        <4> QED BY <1>2, <4>1 DEF SettledOrHeld, StillHeld, Kept
      <3> QED BY <3>2, <3>3
    <2> QED BY <2>1, <2>2, <2>3, <2>4 DEF Kept
  <1> QED BY <1>6, <1>7

------------------------------------------------------------------------------
(***************************************************************************)
(* A batch that is published event by event                                *)
(***************************************************************************)

\* At most one event is on its way, in one send.
OneSend ==
    /\ \A c \in In(calls) : c.why # "dropped"
    /\ \A c \in Publishing : Publishing = {c} /\ calls[c] = 1

\* The events of the batch are stored in their order: those that the publisher knows
\* to be stored, and at most the one that it is sending or has failed to send.
PrefixInv ==
    setup.api = "publish_batch" =>
        /\ OneSend
        /\ \A i \in DOMAIN arrived : arrived[i] = i
        /\ sent = 1..Cardinality(sent) /\ Cardinality(sent) \in Nat
        /\ Len(arrived) \in {Cardinality(sent), Cardinality(sent) + 1}
        /\ Len(arrived) = Cardinality(sent) \/ Publishing # {} \/ told = "failed"
        /\ \A c \in Publishing : c.msg.ev = Cardinality(sent) + 1
        /\ Publishing # {} => told = "busy"
        /\ Waiting => sent # Batch

\* Then the events that are stored are a prefix of the batch.
LEMMA SeenPrefix ==
    ASSUME NEW S, NEW s \in Seq(S), \A i \in DOMAIN s : s[i] = i
    PROVE  Seen(s) = 1..Len(s) /\ Len(s) \in Nat /\ DOMAIN s = 1..Len(s)
  <1>1. DOMAIN s = 1..Len(s) /\ Len(s) \in Nat
    BY LenProperties
  <1> QED BY <1>1 DEF Seen

\* One more event.
LEMMA LongerPrefix ==
    ASSUME NEW S, NEW s \in Seq(S), \A i \in DOMAIN s : s[i] = i, Len(s) + 1 \in S
    PROVE  LET t == Append(s, Len(s) + 1)
           IN  Len(t) = Len(s) + 1 /\ \A i \in DOMAIN t : t[i] = i
  <1>1. PICK t : t = Append(s, Len(s) + 1)
    OBVIOUS
  <1>2. /\ t \in Seq(S) /\ Len(t) = Len(s) + 1 /\ t[Len(s) + 1] = Len(s) + 1
        /\ \A i \in 1..Len(s) : t[i] = s[i]
    BY <1>1, AppendProperties
  <1>3. DOMAIN s = 1..Len(s) /\ DOMAIN t = 1..(Len(s) + 1) /\ Len(s) \in Nat
    BY <1>2, LenProperties
  <1>4. \A i \in 1..(Len(s) + 1) : i \in 1..Len(s) \/ i = Len(s) + 1
    BY <1>3
  <1> QED BY <1>1, <1>2, <1>3, <1>4

\* The events that are known to be stored, and one more.
LEMMA OneMoreSent ==
    ASSUME NEW n \in Nat, NEW s, s = 1..n
    PROVE  /\ s \cup {n + 1} = 1..(n + 1)
           /\ Cardinality(s \cup {n + 1}) = n + 1
  <1>1. s \cup {n + 1} = 1..(n + 1)
    OBVIOUS
  <1>2. Cardinality(1..(n + 1)) = n + 1
    <2>1. 1 \in Int /\ n + 1 \in Int /\ ~(1 > n + 1) /\ (n + 1) - 1 + 1 = n + 1
      OBVIOUS
    <2> QED BY <2>1, FS_Interval
  <1> QED BY <1>1, <1>2

\* The only send of a publisher returns, fails or is tried again.
LEMMA LoneReturns ==
    ASSUME DataInv, OneSend, NEW c \in Publishing, NEW q, NEW ok \in BOOLEAN,
           Returns(c, ok, q)
    PROVE  /\ OneSend' /\ Publishing' = {}
           /\ ok => /\ sent' = sent \cup {c.msg.ev}
                    /\ told' = IF sent' = Batch THEN "ok" ELSE told
           /\ ~ok => sent' = sent /\ told' = "failed"
  <1>1. c \in In(calls) /\ c.why = "publish" /\ calls[c] = 1 /\ Publishing = {c}
    BY DEF OneSend, Publishing
  <1>2. PublishReturns(c, ok)
    BY <1>1 DEF Returns
  <1>3. IsABag(calls)
    BY DEF DataInv, CallsOK
  <1>4. IsABag(EmptyBag) /\ In(EmptyBag) = {}
    BY BagOfSet
  <1>5. calls' = Replace(c, EmptyBag)
    <2>1. CASE ok
      BY <1>2, <2>1 DEF PublishReturns
    <2>2. CASE ~ok
      <3>1. {d \in Publishing : d # c} = {}
        BY <1>1
      <3>2. \A f : SetToBag({c} \cup {}) = One(c)
        BY DEF One
      <3>3. SetToBag({[d EXCEPT !.why = "dropped"] : d \in {}}) = EmptyBag
        BY DEF EmptyBag
      <3> QED BY <1>2, <2>2, <3>1, <3>2, <3>3 DEF PublishReturns, Replace
    <2> QED BY <2>1, <2>2
  <1>6. /\ In(Replace(c, EmptyBag)) \subseteq In(calls) \cup {}
        /\ c \notin In(Replace(c, EmptyBag))
    BY <1>1, <1>3, <1>4, ReplaceCalls
  <1>7. In(calls') \subseteq In(calls) \ {c}
    BY <1>5, <1>6
  <1>8. Publishing' = {} /\ OneSend'
    BY <1>1, <1>7 DEF Publishing, OneSend
  <1> QED BY <1>2, <1>8 DEF PublishReturns

LEMMA LoneTriesAgain ==
    ASSUME DataInv, OneSend, NEW c \in Publishing, NEW q, NEW k \in {0, 1},
           NEW d, d = [c EXCEPT !.copies = c.copies + k], TryAgain(c, d, q)
    PROVE  /\ OneSend' /\ sent' = sent
           /\ \/ Publishing' = {} /\ told' = "failed"
              \/ told' = told /\ \E e : Publishing' = {e} /\ e.msg = c.msg
  <1>1. c \in In(calls) /\ c.why = "publish" /\ calls[c] = 1 /\ Publishing = {c}
    BY DEF OneSend, Publishing
  <1>2. CASE c.attempt < Attempts
    <2>1. PICK e : e = [d EXCEPT !.attempt = @ + 1]
      OBVIOUS
    <2>2. calls' = Replace(c, One(e)) /\ UNCHANGED publisher
      BY <1>2, <2>1 DEF TryAgain
    <2>3. c \in Sends /\ c.attempt \in Nat /\ IsABag(calls)
      BY <1>1, PublishingAssumption DEF DataInv, CallsOK, Sends
    <2>4. e.why = "publish" /\ e.msg = c.msg /\ e.attempt = c.attempt + 1
      BY <1>1, <2>1, <2>3 DEF Sends
    <2>5. e # c /\ e \notin In(calls)
      <3>1. e # c
        BY <2>3, <2>4
      <3> QED BY <1>1, <2>4, <3>1 DEF Publishing
    <2>6. IsABag(One(e)) /\ In(One(e)) = {e} /\ One(e)[e] = 1
      BY BagOfSet DEF One, SetToBag
    <2>7. /\ In(Replace(c, One(e))) \subseteq In(calls) \cup {e}
          /\ e \in In(Replace(c, One(e))) /\ Replace(c, One(e))[e] = 1
          /\ c \notin In(Replace(c, One(e)))
      <3>1. PICK o : o = One(e) /\ IsABag(o) /\ In(o) = {e} /\ o[e] = 1
        BY <2>6
      <3>2. /\ In(Replace(c, o)) \subseteq In(calls) \cup In(o)
            /\ (In(calls) \ {c}) \cup In(o) \subseteq In(Replace(c, o))
            /\ \A x \in In(o) \ In(calls) : Replace(c, o)[x] = o[x]
            /\ calls[c] = 1 /\ c \notin In(o) => c \notin In(Replace(c, o))
        BY <1>1, <2>3, <3>1, ReplaceCalls
      <3> QED BY <1>1, <2>5, <3>1, <3>2
    <2>8. In(calls') \subseteq (In(calls) \ {c}) \cup {e} /\ e \in In(calls') /\ calls'[e] = 1
      BY <2>2, <2>7
    <2>9. Publishing' = {e}
      BY <1>1, <2>4, <2>8 DEF Publishing
    <2>10. OneSend'
      BY <2>4, <2>8, <2>9 DEF OneSend
    <2> QED BY <2>2, <2>4, <2>9, <2>10 DEF publisher
  <1>3. CASE ~(c.attempt < Attempts)
    <2>1. Returns(c, FALSE, q)
      BY <1>3 DEF TryAgain
    <2> QED BY <2>1, LoneReturns
  <1> QED BY <1>2, <1>3


\* A send of the publisher stores the event after those that it knows to be stored,
\* unless that is stored already.
LEMMA StoresNext ==
    ASSUME DataInv, PrefixInv, setup.api = "publish_batch", NEW c \in Publishing, Store(c)
    PROVE  /\ Len(arrived') = Cardinality(sent) + 1
           /\ \A i \in DOMAIN arrived' : arrived'[i] = i
  <1> DEFINE n == Cardinality(sent)
  <1>1. /\ n \in Nat /\ c.msg.ev = n + 1 /\ Len(arrived) \in {n, n + 1}
        /\ \A i \in DOMAIN arrived : arrived[i] = i
    BY DEF PrefixInv
  <1>2. arrived \in Seq(Batch) /\ n + 1 \in Batch
    BY <1>1 DEF DataInv, CallsOK, Publishing, Sends, Carried
  <1>3. Seen(arrived) = 1..Len(arrived) /\ Len(arrived) \in Nat
    BY <1>1, <1>2, SeenPrefix
  <1> HIDE DEF n
  <1>4. CASE Len(arrived) = n
    <2>1. n + 1 \notin Seen(arrived)
      BY <1>1, <1>3, <1>4
    <2>2. arrived' = Append(arrived, Len(arrived) + 1)
      BY <1>1, <1>4, <2>1 DEF Store
    <2>3. Len(arrived') = Len(arrived) + 1 /\ \A i \in DOMAIN arrived' : arrived'[i] = i
      BY <1>1, <1>2, <1>4, <2>2, LongerPrefix
    <2> QED BY <1>4, <2>3 DEF n
  <1>5. CASE Len(arrived) = n + 1
    <2>1. n + 1 \in Seen(arrived)
      BY <1>1, <1>3, <1>5
    <2>2. arrived' = arrived
      BY <1>1, <2>1 DEF Store
    <2> QED BY <1>1, <1>5, <2>2 DEF n
  <1> QED BY <1>1, <1>4, <1>5

\* Every step of a send keeps the order of the batch.
LEMMA CallPrefix ==
    ASSUME DataInv, StoredInv, PrefixInv, NEW c \in In(calls), CallStep(c)
    PROVE  PrefixInv'
  <1>1. setup' = setup /\ Batch' = Batch /\ Shape(c)
    BY CallShape, SameSets DEF Shape
  <1> SUFFICES ASSUME setup.api = "publish_batch" PROVE PrefixInv'
    BY <1>1 DEF PrefixInv
  <1> DEFINE n == Cardinality(sent)
  <1>2. /\ OneSend /\ n \in Nat /\ sent = 1..n /\ Len(arrived) \in {n, n + 1}
        /\ \A i \in DOMAIN arrived : arrived[i] = i
        /\ Len(arrived) = n \/ Publishing # {} \/ told = "failed"
        /\ \A d \in Publishing : d.msg.ev = n + 1
        /\ Publishing # {} => told = "busy"
        /\ Waiting => sent # Batch
    BY DEF PrefixInv
  <1>3. PICK k \in {0, 1} : \E q : BrokerAfter(c, q, k) /\ CallsAfter(c, k)
    BY <1>1 DEF Shape
  <1>4. PICK q : BrokerAfter(c, q, k) /\ CallsAfter(c, k)
    BY <1>3
  <1>5. arrived' = arrived \/ Store(c)
    BY <1>4 DEF BrokerAfter
  <1>6. CASE c.why # "publish"
    <2>1. c.why \in Settling /\ c.msg.ev = c.of.ev
      BY <1>2, <1>6 DEF DataInv, CallsOK, Sends, OneSend
    <2>2. arrived' = arrived
      BY <1>5, <2>1 DEF Store, StoredInv
    <2>3. told' = told /\ sent' = sent
      BY <1>1, <1>6 DEF Shape, ToldAfter, publisher
    <2>4. \A d \in In(calls') : d \in In(calls) \/ d.why \in Settling
      BY <1>4, <1>6, <2>1 DEF CallsAfter, Follows, Settles, Settling
    <2>5. /\ Publishing' = Publishing /\ \A d \in Publishing : calls'[d] = calls[d]
          /\ \A d \in In(calls') : d.why # "dropped"
      BY <1>2, <1>4, <1>6, <2>4 DEF CallsAfter, Publishing, Settling, OneSend
    <2>6. OneSend'
      BY <1>2, <2>5 DEF OneSend
    <2> QED BY <1>1, <1>2, <2>2, <2>3, <2>5, <2>6 DEF PrefixInv, Waiting
  <1>7. CASE c.why = "publish"
    <2>1. c \in Publishing /\ c.msg.ev = n + 1 /\ told = "busy" /\ c.copies \in Nat
      BY <1>2, <1>7 DEF Publishing, DataInv, CallsOK, Sends
    <2>2. Store(c) => Len(arrived') = n + 1 /\ \A i \in DOMAIN arrived' : arrived'[i] = i
      BY <2>1, StoresNext
    <2>3. /\ Len(arrived') \in {n, n + 1}
          /\ \A i \in DOMAIN arrived' : arrived'[i] = i
      BY <1>2, <1>5, <2>2
    <2>4. ASSUME NEW p, Returns(c, FALSE, p)
          PROVE  PrefixInv'
      <3>1. OneSend' /\ Publishing' = {} /\ sent' = sent /\ told' = "failed"
        BY <1>2, <2>1, <2>4, LoneReturns
      <3> QED BY <1>2, <2>3, <3>1 DEF PrefixInv, Waiting
    <2>5. ASSUME NEW p, NEW j \in {0, 1}, NEW d, d = [c EXCEPT !.copies = c.copies + j],
                 TryAgain(c, d, p)
          PROVE  PrefixInv'
      <3>1. /\ OneSend' /\ sent' = sent
            /\ \/ Publishing' = {} /\ told' = "failed"
               \/ told' = told /\ \E e : Publishing' = {e} /\ e.msg = c.msg
        BY <1>2, <2>1, <2>5, LoneTriesAgain
      <3>2. CASE Publishing' = {} /\ told' = "failed"
        BY <1>2, <2>3, <3>1, <3>2 DEF PrefixInv, Waiting
      <3>3. CASE told' = told /\ \E e : Publishing' = {e} /\ e.msg = c.msg
        BY <1>1, <1>2, <2>1, <2>3, <3>1, <3>3 DEF PrefixInv, Waiting
      <3> QED BY <3>1, <3>2, <3>3
    <2>6. CASE NoStream(c)
      BY <2>4, <2>6 DEF NoStream
    <2>7. CASE Acknowledged(c)
      <3>1. Store(c) /\ Returns(c, TRUE, QueueWith(c))
        BY <2>7 DEF Acknowledged
      <3>2. /\ OneSend' /\ Publishing' = {} /\ sent' = sent \cup {n + 1}
            /\ told' = IF sent' = Batch THEN "ok" ELSE told
        BY <1>2, <2>1, <3>1, LoneReturns
      <3>3. sent' = 1..(n + 1) /\ Cardinality(sent') = n + 1
        <4> HIDE DEF n
        <4> QED BY <1>2, <3>2, OneMoreSent
      <3>4. Len(arrived') = Cardinality(sent') /\ n + 1 \in Nat
        BY <1>2, <2>2, <3>1, <3>3
      <3> QED BY <1>1, <2>3, <3>2, <3>3, <3>4 DEF PrefixInv, Waiting
    <2>8. CASE RequestLost(c)
      <3>1. TryAgain(c, c, queue) /\ c = [c EXCEPT !.copies = c.copies + 0]
        BY <2>1, <2>8 DEF RequestLost, DataInv, CallsOK, Sends, Publishing
      <3> QED BY <2>5, <3>1
    <2>9. CASE AckLost(c)
      <3>1. TryAgain(c, Stored(c), QueueWith(c)) /\ c \in Sends
        BY <2>1, <2>9 DEF AckLost, DataInv, CallsOK, Publishing
      <3>2. Stored(c) = [c EXCEPT !.copies = c.copies + 0]
            \/ Stored(c) = [c EXCEPT !.copies = c.copies + 1]
        BY <2>1, <3>1 DEF Stored, Sends
      <3> QED BY <2>5, <3>1, <3>2
    <2> QED BY <1>7, <2>6, <2>7, <2>8, <2>9 DEF CallStep, Dropped
  <1> QED BY <1>6, <1>7

------------------------------------------------------------------------------
(***************************************************************************)
(* What the other steps keep                                               *)
(***************************************************************************)

BusInv == DataInv /\ StoredInv /\ OnceInv /\ KeptInv /\ PrefixInv

LEMMA BusInit == Init => BusInv
  <1> SUFFICES ASSUME Init PROVE BusInv
    OBVIOUS
  <1>1. /\ setup \in Setups /\ told = "idle" /\ sent = {} /\ arrived = <<>>
        /\ calls = EmptyBag /\ queue = EmptyBag /\ handled = {} /\ seen = {}
        /\ swallowed = {} /\ strayed = {} /\ doubled = FALSE /\ faults = 0
    BY DEF Init
  <1>2. IsABag(EmptyBag) /\ In(EmptyBag) = {} /\ IsFiniteSet(In(EmptyBag))
    BY BagOfSet, FS_EmptySet
  <1>3. setup.batch \in Nat \ {0} /\ 1 \in Batch
    BY <1>1, SetupIs DEF Batch
  <1>4. arrived \in Seq(Batch) /\ Len(arrived) = 0 /\ DOMAIN arrived = {} /\ Seen(arrived) = {}
    BY <1>1 DEF Seen
  <1>5. DataInv
    <2>1. CallsOK /\ QueueOK
      BY <1>1, <1>2 DEF CallsOK, QueueOK
    <2>2. faults \in 0..MaxFaults
      BY <1>1, PublishingAssumption
    <2> QED BY <1>1, <1>4, <2>1, <2>2 DEF DataInv
  <1>6. StoredInv /\ OnceInv /\ KeptInv
    BY <1>1, <1>2, <1>4 DEF StoredInv, OnceInv, OncePerSend, KeptInv
  <1>7. Cardinality(sent) = 0
    BY <1>1, FS_EmptySet
  <1>8. PrefixInv
    BY <1>1, <1>2, <1>3, <1>4, <1>7 DEF PrefixInv, OneSend, Publishing
  <1> QED BY <1>5, <1>6, <1>8 DEF BusInv


\* Sends of the publisher set out.
LEMMA PublishDoes ==
    ASSUME DataInv, StoredInv, OnceInv, KeptInv, NEW es, es \subseteq Batch,
           IsFiniteSet(es), Waiting, Publish(es)
    PROVE  /\ DataInv' /\ StoredInv' /\ OnceInv' /\ KeptInv'
           /\ In(calls') = In(calls) \cup {Send("publish", Message(e), Message(e)) : e \in es}
           /\ \A d \in In(calls') \ In(calls) : calls'[d] = 1
  <1> DEFINE S == {Send("publish", Message(e), Message(e)) : e \in es}
             new == SetToBag(S)
  <1>1. /\ told' = "busy" /\ calls' = calls (+) new
        /\ UNCHANGED <<setup, sent, arrived, queue, seen, doubled, strayed, handled,
                       swallowed, subs, faults>>
    BY DEF Publish, broker, ends
  <1>2. IsABag(new) /\ In(new) = S /\ \A d \in S : new[d] = 1
    <2>1. \A T : \A d \in T : SetToBag(T)[d] = 1
      BY DEF SetToBag
    <2> QED BY <2>1, BagOfSet
  <1>3. IsFiniteSet(S)
    <2> DEFINE f == [e \in es |-> Send("publish", Message(e), Message(e))]
    <2>1. DOMAIN f = es /\ {f[e] : e \in es} = S
      OBVIOUS
    <2>2. IsFiniteSet({f[e] : e \in es})
      <3>1. DOMAIN f = es
        OBVIOUS
      <3> HIDE DEF f
      <3> QED BY <3>1, FiniteImage
    <2> QED BY <2>1, <2>2
  <1>4. \A d \in S : /\ d \in Sends /\ d.msg.ev = d.of.ev /\ d.why = "publish"
                     /\ d.copies = 0
    <2>1. ASSUME NEW e \in es PROVE Message(e) \in Carried
      BY SetupIs, MaxDeliverAssumption DEF Message, Carried, DataInv
    <2>2. \A e \in es : Message(e) \in Carried
      BY <2>1
    <2> QED BY <2>2, PublishingAssumption DEF Send, Sends
  <1>5. IsABag(calls) /\ IsFiniteSet(In(calls))
    BY DEF DataInv, CallsOK
  <1> HIDE DEF S, new
  <1>6. /\ IsABag(calls') /\ In(calls') = In(calls) \cup S /\ IsFiniteSet(In(calls'))
        /\ \A d \in S \ In(calls) : calls'[d] = 1
    <2>1. /\ IsABag(calls (+) new) /\ In(calls (+) new) = In(calls) \cup In(new)
          /\ \A d \in In(new) \ In(calls) : (calls (+) new)[d] = new[d]
      BY <1>2, <1>5, BagPlus
    <2>2. IsFiniteSet(In(calls) \cup S)
      BY <1>3, <1>5, FS_Union
    <2>3. In(calls') = In(calls (+) new)
      BY <1>1
    <2> QED BY <1>1, <1>2, <2>1, <2>2, <2>3
  <1>7. Batch' = Batch /\ Carried' = Carried /\ Sends' = Sends
    BY <1>1, SameSets
  <1>8. CallsOK'
    BY <1>4, <1>6, <1>7 DEF CallsOK, DataInv, Settling
  <1>9. DataInv'
    BY <1>1, <1>7, <1>8 DEF DataInv, QueueOK
  <1>10. StoredInv'
    BY <1>1, <1>4, <1>6 DEF StoredInv, Settling, Waiting
  <1>11. OnceInv'
    <2>1. OncePerSend'
      BY <1>1 DEF OnceInv, OncePerSend
    <2> QED BY <1>1, <1>4, <1>6, <2>1 DEF OnceInv
  <1>12. KeptInv'
    BY <1>1, <1>6 DEF KeptInv, Kept
  <1> QED BY <1>6, <1>9, <1>10, <1>11, <1>12 DEF S

\* The publisher of a batch goes on with the next event.
LEMMA NextEvent ==
    ASSUME DataInv, PrefixInv, setup.api = "publish_batch", Waiting, Publishing = {}
    PROVE  /\ Cardinality(sent) \in Nat /\ Cardinality(sent) + 1 \in Batch
           /\ Len(arrived) = Cardinality(sent) /\ sent = 1..Cardinality(sent)
  <1> DEFINE n == Cardinality(sent)
  <1>1. n \in Nat /\ sent = 1..n /\ Len(arrived) = n /\ sent # Batch
    BY DEF PrefixInv, Waiting
  <1>2. setup.batch \in Nat /\ sent \subseteq Batch
    BY SetupIs DEF DataInv
  <1> HIDE DEF n
  <1>3. n < setup.batch
    BY <1>1, <1>2 DEF Batch
  <1>4. n + 1 \in Batch
    BY <1>1, <1>2, <1>3 DEF Batch
  <1> QED BY <1>1, <1>4 DEF n

LEMMA LocalPublishKeeps ==
    ASSUME BusInv, setup.api = "publish_batch", Waiting, Publishing = {},
           setup.bus = "local", LocalPublish(Cardinality(sent) + 1)
    PROVE  BusInv'
  <1> DEFINE n == Cardinality(sent)
  <1>1. /\ UNCHANGED <<setup, queue, seen, doubled, strayed, calls, handled, swallowed,
                       subs, faults>>
        /\ \/ told' = "failed" /\ UNCHANGED <<sent, arrived>>
           \/ /\ sent' = sent \cup {n + 1}
              /\ told' = IF sent' = Batch THEN "ok" ELSE "busy"
              /\ arrived' = Append(arrived, n + 1)
    BY DEF LocalPublish, ends
  <1>2. n \in Nat /\ n + 1 \in Batch /\ Len(arrived) = n /\ sent = 1..n
    BY NextEvent DEF BusInv
  <1>3. DataInv /\ StoredInv /\ OnceInv /\ PrefixInv /\ arrived \in Seq(Batch)
    BY DEF BusInv, DataInv
  <1>4. Batch' = Batch /\ Carried' = Carried /\ Sends' = Sends
    BY <1>1, SameSets
  <1>5. OneSend' /\ Publishing' = {} /\ OnceInv' /\ KeptInv'
    BY <1>1, <1>3 DEF PrefixInv, OneSend, Publishing, OnceInv, OncePerSend, KeptInv
  <1>6. CallsOK' /\ QueueOK'
    BY <1>1, <1>3, <1>4 DEF DataInv, CallsOK, QueueOK
  <1> HIDE DEF n
  <1>7. CASE told' = "failed" /\ UNCHANGED <<sent, arrived>>
    <2>1. DataInv' /\ StoredInv'
      BY <1>1, <1>3, <1>4, <1>6, <1>7 DEF DataInv, StoredInv
    <2>2. PrefixInv'
      BY <1>1, <1>3, <1>5, <1>7 DEF PrefixInv, Waiting
    <2> QED BY <1>5, <2>1, <2>2 DEF BusInv
  <1>8. CASE /\ sent' = sent \cup {n + 1}
             /\ told' = IF sent' = Batch THEN "ok" ELSE "busy"
             /\ arrived' = Append(arrived, n + 1)
    <2>1. arrived' \in Seq(Batch) /\ Seen(arrived') = Seen(arrived) \cup {n + 1}
      BY <1>2, <1>3, <1>8, SeenAppend
    <2>2. /\ Len(arrived') = n + 1 /\ \A i \in DOMAIN arrived' : arrived'[i] = i
      <3>1. \A i \in DOMAIN arrived : arrived[i] = i
        BY <1>3 DEF PrefixInv
      <3> QED BY <1>2, <1>3, <1>8, <3>1, LongerPrefix
    <2>3. sent' = 1..(n + 1) /\ Cardinality(sent') = n + 1 /\ n + 1 \in Nat
      BY <1>2, <1>8, OneMoreSent
    <2>4. DataInv'
      BY <1>1, <1>2, <1>3, <1>4, <1>6, <1>8, <2>1 DEF DataInv
    <2>5. StoredInv'
      BY <1>1, <1>3, <1>4, <1>8, <2>1 DEF StoredInv
    <2>6. PrefixInv'
      BY <1>1, <1>4, <1>5, <1>8, <2>2, <2>3 DEF PrefixInv, Waiting
    <2> QED BY <1>5, <2>4, <2>5, <2>6 DEF BusInv
  <1> QED BY <1>1, <1>7, <1>8 DEF n

LEMMA PublisherKeeps ==
    ASSUME BusInv, PublisherStep
    PROVE  BusInv'
  <1>0. DataInv /\ StoredInv /\ OnceInv /\ KeptInv /\ PrefixInv /\ setup \in Setups
    BY DEF BusInv, DataInv
  <1>1. CASE SendBatch
    <2>1. setup.api = "send_batch" /\ Waiting /\ Publish(Batch) /\ setup' = setup
      BY <1>1 DEF SendBatch, Waiting, Publish
    <2>2. IsFiniteSet(Batch)
      <3>1. setup.batch \in Int /\ 1 \in Int
        BY <1>0, SetupIs
      <3> QED BY <3>1, FS_Interval DEF Batch
    <2>3. DataInv' /\ StoredInv' /\ OnceInv' /\ KeptInv'
      BY <1>0, <2>1, <2>2, PublishDoes
    <2>4. PrefixInv'
      BY <2>1 DEF PrefixInv
    <2> QED BY <2>3, <2>4 DEF BusInv
  <1>2. CASE PublishNext
    <2> DEFINE n == Cardinality(sent)
               s == Send("publish", Message(n + 1), Message(n + 1))
    <2>1. setup.api = "publish_batch" /\ Waiting /\ Publishing = {}
      BY <1>2 DEF PublishNext
    <2>2. n \in Nat /\ n + 1 \in Batch /\ Len(arrived) = n
      BY <1>0, <2>1, NextEvent
    <2>3. CASE setup.bus = "local"
      BY <1>2, <2>1, <2>3, LocalPublishKeeps DEF PublishNext
    <2>4. CASE setup.bus # "local"
      <3>1. Publish({n + 1})
        BY <1>2, <2>4 DEF PublishNext
      <3>2. IsFiniteSet({n + 1})
        BY FS_Singleton
      <3>3. {n + 1} \subseteq Batch
        BY <2>2
      <3>4. /\ DataInv' /\ StoredInv' /\ OnceInv' /\ KeptInv'
            /\ In(calls') = In(calls) \cup {Send("publish", Message(e), Message(e)) : e \in {n + 1}}
            /\ \A d \in In(calls') \ In(calls) : calls'[d] = 1
        BY <1>0, <2>1, <3>1, <3>2, <3>3, PublishDoes
      <3>5. In(calls') = In(calls) \cup {s}
        BY <3>4
      <3>6. s.why = "publish" /\ s.msg.ev = n + 1
        BY DEF Send, Message
      <3>7. s \notin In(calls)
        BY <2>1, <3>6 DEF Publishing
      <3> HIDE DEF s
      <3>8. Publishing' = {s} /\ calls'[s] = 1
        BY <2>1, <3>4, <3>5, <3>6, <3>7 DEF Publishing
      <3>9. OneSend'
        BY <1>0, <2>1, <3>5, <3>6, <3>8 DEF OneSend, PrefixInv
      <3>10. /\ told' = "busy" /\ sent' = sent /\ arrived' = arrived /\ setup' = setup
             /\ Batch' = Batch
        BY <3>1 DEF Publish, broker, Batch
      <3>11. PrefixInv'
        BY <1>0, <2>1, <2>2, <3>6, <3>8, <3>9, <3>10 DEF PrefixInv, Waiting
      <3> QED BY <3>4, <3>11 DEF BusInv
    <2> QED BY <2>3, <2>4
  <1> QED BY <1>1, <1>2 DEF PublisherStep

\* A delivery m of an event is taken from its topic: the event is handled, or another
\* delivery or a send that settles this one takes its place.
Takes(m) ==
    /\ m \in In(queue)
    /\ IsABag(queue') /\ In(queue) \ {m} \subseteq In(queue')
    /\ \A x \in In(queue') : x \in In(queue) \/ (x \in Carried /\ x.ev = m.ev)
    /\ IsABag(calls') /\ IsFiniteSet(In(calls')) /\ In(calls) \subseteq In(calls')
    /\ \A d \in In(calls) : d.why = "publish" => calls'[d] = calls[d]
    /\ \A d \in In(calls') \ In(calls) :
          /\ d \in Sends /\ d.why \in Settling /\ d.of.topic \in Consumed
          /\ d.copies = 0 /\ d.of.ev = m.ev /\ d.msg.ev = m.ev
    /\ handled \subseteq handled' /\ handled' \subseteq handled \cup {m.ev}
    /\ \/ m.ev \in handled'
       \/ \E x \in In(queue') : x.ev = m.ev
       \/ \E d \in In(calls') : d.why \in Settling /\ d.copies = 0 /\ d.of.ev = m.ev
    /\ UNCHANGED <<setup, publisher, arrived, seen, doubled, strayed, swallowed, subs,
                   faults>>

LEMMA TakesKeeps ==
    ASSUME BusInv, NEW m, Takes(m)
    PROVE  BusInv'
  <1>0. DataInv /\ StoredInv /\ OnceInv /\ KeptInv /\ PrefixInv
    BY DEF BusInv
  <1>1. /\ UNCHANGED <<setup, told, sent, arrived, seen, doubled, strayed, swallowed,
                       subs, faults>>
        /\ Batch' = Batch /\ Carried' = Carried /\ Sends' = Sends
    BY SameSets DEF Takes, publisher
  <1>2. m \in Carried /\ m.ev \in Batch /\ m.ev \in Seen(arrived)
    BY <1>0 DEF Takes, DataInv, QueueOK, Carried, StoredInv
  <1>3. DataInv'
    <2>1. CallsOK'
      BY <1>0, <1>1 DEF Takes, DataInv, CallsOK
    <2>2. QueueOK'
      BY <1>0, <1>1 DEF Takes, DataInv, QueueOK
    <2> QED BY <1>0, <1>1, <1>2, <2>1, <2>2 DEF Takes, DataInv
  <1>4. StoredInv'
    <2>1. \A x \in In(queue') : x.ev \in Seen(arrived')
      BY <1>0, <1>1, <1>2 DEF Takes, StoredInv
    <2>2. \A d \in In(calls') : d.why \in Settling \/ d.copies > 0 => d.of.ev \in Seen(arrived')
      BY <1>0, <1>1, <1>2 DEF Takes, StoredInv
    <2> QED BY <1>0, <1>1, <2>1, <2>2 DEF StoredInv
  <1>5. OnceInv'
    <2>1. \A d \in In(calls') : d.copies > 0 => faults' > 0
      BY <1>0, <1>1 DEF Takes, OnceInv
    <2> QED BY <1>0, <1>1, <2>1 DEF OnceInv, OncePerSend
  <1>6. KeptInv'
    <2> SUFFICES ASSUME setup.bus # "local", NEW e \in Seen(arrived) PROVE Kept(e)'
      BY <1>1 DEF KeptInv
    <2>1. Kept(e)
      BY <1>0 DEF KeptInv
    <2>2. CASE e = m.ev
      BY <2>2 DEF Takes, Kept
    <2>3. CASE e # m.ev
      BY <1>1, <2>1, <2>3 DEF Takes, Kept
    <2> QED BY <2>2, <2>3
  <1>7. PrefixInv'
    <2> SUFFICES ASSUME setup.api = "publish_batch" PROVE PrefixInv'
      BY <1>1 DEF PrefixInv
    <2>1. \A d \in In(calls') : d \in In(calls) \/ d.why \in Settling
      BY DEF Takes
    <2>2. /\ Publishing' = Publishing
          /\ \A d \in Publishing : calls'[d] = calls[d]
          /\ \A d \in In(calls') : d.why # "dropped"
      BY <1>0, <2>1 DEF Takes, Publishing, PrefixInv, OneSend, Settling
    <2>3. OneSend'
      BY <1>0, <2>2 DEF OneSend, PrefixInv
    <2> QED BY <1>0, <1>1, <2>2, <2>3 DEF PrefixInv, Waiting
  <1> QED BY <1>3, <1>4, <1>5, <1>6, <1>7 DEF BusInv

\* A delivery that is taken once more.
LEMMA DeliveredIs ==
    ASSUME DataInv, NEW m \in In(queue), m.delivered < MaxDeliver
    PROVE  /\ m \in Carried /\ Delivered(m) \in Carried
           /\ Delivered(m).ev = m.ev /\ Delivered(m).topic = m.topic
  <1>1. m \in Carried /\ m.delivered \in 0..MaxDeliver
    BY DEF DataInv, QueueOK, Carried
  <1>2. m.delivered + 1 \in 0..MaxDeliver
    BY <1>1, MaxDeliverAssumption
  <1> QED BY <1>1, <1>2 DEF Delivered, Carried

\* What is left of a topic when a delivery is taken from it, and what is added to the
\* sends that are under way.
LEMMA TakenFrom ==
    ASSUME DataInv, NEW m \in In(queue)
    PROVE  /\ IsABag(queue (-) One(m)) /\ In(queue (-) One(m)) \subseteq In(queue)
           /\ In(queue) \ {m} \subseteq In(queue (-) One(m))
  <1>1. IsABag(queue)
    BY DEF DataInv, QueueOK
  <1>2. PICK o : o = One(m) /\ IsABag(o) /\ In(o) = {m}
    BY BagOfSet
  <1>3. /\ IsABag(queue (-) o) /\ In(queue (-) o) \subseteq In(queue)
        /\ In(queue) \ In(o) \subseteq In(queue (-) o)
    BY <1>1, <1>2, BagMinus
  <1> QED BY <1>2, <1>3

LEMMA OneMoreCall ==
    ASSUME DataInv, NEW d, d.why # "publish", calls' = calls (+) One(d)
    PROVE  /\ IsABag(calls') /\ IsFiniteSet(In(calls')) /\ In(calls') = In(calls) \cup {d}
           /\ \A x \in In(calls) : x.why = "publish" => calls'[x] = calls[x]
  <1>1. IsABag(calls) /\ IsFiniteSet(In(calls))
    BY DEF DataInv, CallsOK
  <1>2. PICK o : o = One(d) /\ IsABag(o) /\ In(o) = {d}
    BY BagOfSet
  <1>3. /\ IsABag(calls (+) o) /\ In(calls (+) o) = In(calls) \cup In(o)
        /\ \A x \in In(calls) \ In(o) : (calls (+) o)[x] = calls[x]
    BY <1>1, <1>2, BagPlus
  <1>4. IsFiniteSet({d})
    BY FS_Singleton
  <1>5. IsFiniteSet(In(calls) \cup {d})
    BY <1>1, <1>4, FS_Union
  <1>6. In(calls') = In(calls (+) o)
    BY <1>2
  <1> QED BY <1>2, <1>3, <1>5, <1>6

\* A delivery fails.
LEMMA FailsTakes ==
    ASSUME DataInv, NEW m \in In(queue), m.delivered < MaxDeliver, m.topic \in Consumed,
           NEW verdict, NEW kind \in {"original", "fixed", "suffix", "none"},
           Fails(m, verdict, kind), UNCHANGED handled,
           UNCHANGED <<setup, publisher, arrived, seen, doubled, strayed, swallowed, subs,
                       faults>>
    PROVE  Takes(m)
  <1>1. PICK n : n = Delivered(m)
    OBVIOUS
  <1>2. n \in Carried /\ n.ev = m.ev /\ n.topic \in Consumed
    BY <1>1, DeliveredIs
  <1>3. PICK f : f = Failing(n, verdict, kind)
    OBVIOUS
  <1>4. PICK r : r = queue (-) One(m)
    OBVIOUS
  <1>5. calls' = calls (+) f.calls /\ queue' = r (+) f.queue
    BY <1>1, <1>3, <1>4 DEF Fails
  <1>6. /\ IsABag(r) /\ In(r) \subseteq In(queue) /\ In(queue) \ {m} \subseteq In(r)
    BY <1>4, TakenFrom
  <1>7. setup \in Setups
    BY DEF DataInv
  <1>8. \/ f.queue = EmptyBag /\ \E d : f.calls = One(d) /\ Settles(d, n)
        \/ f.calls = EmptyBag /\ f.queue = One(n)
    BY <1>2, <1>3, <1>7, FailingIs
  <1>9. IsABag(EmptyBag) /\ In(EmptyBag) = {}
    BY BagOfSet
  <1>10. CASE f.queue = EmptyBag /\ \E d : f.calls = One(d) /\ Settles(d, n)
    <2>1. PICK d : f.calls = One(d) /\ Settles(d, n)
      BY <1>10
    <2>2. /\ d \in Sends /\ d.why \in Settling /\ d.why # "publish" /\ d.copies = 0
          /\ d.of.topic \in Consumed /\ d.of.ev = m.ev /\ d.msg.ev = m.ev
      BY <1>2, <2>1 DEF Settles, Settling
    <2>3. /\ IsABag(calls') /\ IsFiniteSet(In(calls')) /\ In(calls') = In(calls) \cup {d}
          /\ \A x \in In(calls) : x.why = "publish" => calls'[x] = calls[x]
      BY <1>5, <2>1, <2>2, OneMoreCall
    <2>4. IsABag(queue') /\ In(queue') = In(r)
      <3>1. IsABag(r (+) EmptyBag) /\ In(r (+) EmptyBag) = In(r) \cup {}
        BY <1>6, <1>9, BagPlus
      <3>2. IsABag(queue') /\ In(queue') = In(r) \cup {}
        BY <1>5, <1>10, <3>1
      <3> QED BY <3>2
    <2> QED BY <1>6, <2>2, <2>3, <2>4 DEF Takes
  <1>11. CASE f.calls = EmptyBag /\ f.queue = One(n)
    <2>1. /\ IsABag(calls') /\ IsFiniteSet(In(calls')) /\ In(calls') = In(calls)
          /\ \A x \in In(calls) : calls'[x] = calls[x]
      <3>1. IsABag(calls) /\ IsFiniteSet(In(calls))
        BY DEF DataInv, CallsOK
      <3>2. /\ IsABag(calls (+) EmptyBag) /\ In(calls (+) EmptyBag) = In(calls) \cup {}
            /\ \A x \in In(calls) \ {} : (calls (+) EmptyBag)[x] = calls[x]
        BY <1>9, <3>1, BagPlus
      <3>3. calls' = calls (+) EmptyBag
        BY <1>5, <1>11
      <3>4. In(calls') = In(calls) \cup {}
        BY <3>2, <3>3
      <3>5. In(calls') = In(calls)
        BY <3>4
      <3> QED BY <3>1, <3>2, <3>3, <3>5
    <2>2. IsABag(queue') /\ In(queue') = In(r) \cup {n}
      <3>1. PICK o : o = One(n) /\ IsABag(o) /\ In(o) = {n}
        BY BagOfSet
      <3>2. IsABag(r (+) o) /\ In(r (+) o) = In(r) \cup In(o)
        BY <1>6, <3>1, BagPlus
      <3> QED BY <1>5, <1>11, <3>1, <3>2
    <2> QED BY <1>2, <1>6, <2>1, <2>2 DEF Takes
  <1> QED BY <1>8, <1>10, <1>11

LEMMA ConsumeKeeps ==
    ASSUME BusInv, NEW e, Consume(e)
    PROVE  BusInv'
  <1>1. PICK m \in Taken(e, Home) : \E verdict \in Verdicts(Home) :
          IF verdict = "Ack"
          THEN handled' = handled \cup {e} /\ queue' = queue (-) One(m) /\ UNCHANGED calls
          ELSE Fails(m, verdict, setup.retryTo) /\ UNCHANGED handled
    BY DEF Consume
  <1>2. /\ m \in In(queue) /\ m.ev = e /\ m.topic \in Consumed /\ m.delivered < MaxDeliver
        /\ DataInv /\ setup \in Setups
    BY DEF Taken, Consumed, BusInv, DataInv
  <1>3. UNCHANGED <<setup, publisher, arrived, seen, doubled, strayed, swallowed, subs, faults>>
    BY DEF Consume
  <1>4. CASE handled' = handled \cup {e} /\ queue' = queue (-) One(m) /\ UNCHANGED calls
    <2>1. IsABag(calls) /\ IsFiniteSet(In(calls))
      BY <1>2 DEF DataInv, CallsOK
    <2>2. /\ IsABag(queue') /\ In(queue') \subseteq In(queue)
          /\ In(queue) \ {m} \subseteq In(queue')
      BY <1>2, <1>4, TakenFrom
    <2>3. Takes(m)
      BY <1>2, <1>3, <1>4, <2>1, <2>2 DEF Takes
    <2> QED BY <2>3, TakesKeeps
  <1>5. CASE \E verdict : Fails(m, verdict, setup.retryTo) /\ UNCHANGED handled
    <2>1. setup.retryTo \in {"original", "fixed", "suffix", "none"}
      BY <1>2, SetupIs
    <2>2. Takes(m)
      BY <1>2, <1>3, <1>5, <2>1, FailsTakes
    <2> QED BY <2>2, TakesKeeps
  <1> QED BY <1>1, <1>4, <1>5

LEMMA ForwardKeeps ==
    ASSUME BusInv, NEW e, Forward(e)
    PROVE  BusInv'
  <1>1. PICK m \in Taken(e, Parked) :
          IF m.origin = {}
          THEN Fails(m, "DeadLetterError", ForwarderKind)
          ELSE \E home \in m.origin :
                 /\ calls' = calls (+) One(Send("forward",
                               [m EXCEPT !.topic = home, !.delivered = 0], Delivered(m)))
                 /\ queue' = queue (-) One(m)
    BY DEF Forward
  <1>2. /\ m \in In(queue) /\ m.ev = e /\ m.topic \in Consumed /\ m.delivered < MaxDeliver
        /\ DataInv /\ setup \in Setups
    BY DEF Taken, Consumed, BusInv, DataInv
  <1>3. /\ UNCHANGED <<setup, publisher, arrived, seen, doubled, strayed, swallowed, subs, faults>>
        /\ UNCHANGED handled
    BY DEF Forward, ends
  <1>4. CASE Fails(m, "DeadLetterError", ForwarderKind)
    <2>1. ForwarderKind \in {"original", "fixed", "suffix", "none"}
      BY <1>2, SetupIs
    <2>2. Takes(m)
      BY <1>2, <1>3, <1>4, <2>1, FailsTakes
    <2> QED BY <2>2, TakesKeeps
  <1>5. CASE \E home \in m.origin :
               /\ calls' = calls (+) One(Send("forward",
                             [m EXCEPT !.topic = home, !.delivered = 0], Delivered(m)))
               /\ queue' = queue (-) One(m)
    <2>1. PICK home \in m.origin :
               /\ calls' = calls (+) One(Send("forward",
                             [m EXCEPT !.topic = home, !.delivered = 0], Delivered(m)))
               /\ queue' = queue (-) One(m)
      BY <1>5
    <2>2. PICK n : n = [m EXCEPT !.topic = home, !.delivered = 0]
      OBVIOUS
    <2>3. PICK d : d = Send("forward", n, Delivered(m))
      OBVIOUS
    <2>4. /\ m \in Carried /\ Delivered(m) \in Carried
          /\ Delivered(m).ev = m.ev /\ Delivered(m).topic = m.topic
      BY <1>2, DeliveredIs
    <2>5. n \in Carried /\ n.ev = m.ev
      <3>1. home \in Topics /\ 0 \in 0..MaxDeliver
        BY <2>4, MaxDeliverAssumption DEF Carried
      <3> QED BY <2>2, <2>4, <3>1 DEF Carried
    <2>6. /\ d \in Sends /\ d.why = "forward" /\ d.copies = 0 /\ d.of = Delivered(m)
          /\ d.msg = n
      BY <2>3, <2>4, <2>5, PublishingAssumption DEF Send, Sends, Settling
    <2>7. /\ IsABag(calls') /\ IsFiniteSet(In(calls')) /\ In(calls') = In(calls) \cup {d}
          /\ \A x \in In(calls) : x.why = "publish" => calls'[x] = calls[x]
      <3>1. calls' = calls (+) One(d) /\ d.why # "publish"
        BY <2>1, <2>2, <2>3, <2>6
      <3> QED BY <1>2, <3>1, OneMoreCall
    <2>8. /\ IsABag(queue') /\ In(queue') \subseteq In(queue)
          /\ In(queue) \ {m} \subseteq In(queue')
      BY <1>2, <2>1, TakenFrom
    <2>9. Takes(m)
      BY <1>2, <1>3, <2>4, <2>5, <2>6, <2>7, <2>8 DEF Takes, Settling
    <2> QED BY <2>9, TakesKeeps
  <1> QED BY <1>1, <1>4, <1>5

\* The consumers die.
LEMMA CrashKeeps ==
    ASSUME BusInv, Crash
    PROVE  BusInv'
  <1> DEFINE their == {d \in In(calls) : d.why \in Settling}
             theirs == [c \in their |-> calls[c]]
  <1>0. DataInv /\ StoredInv /\ OnceInv /\ KeptInv /\ PrefixInv
    BY DEF BusInv
  <1>1. /\ faults < MaxFaults /\ faults' = faults + 1
        /\ calls' = calls (-) theirs /\ queue' = queue (+) Deliveries(theirs)
        /\ UNCHANGED <<setup, told, sent, arrived, seen, doubled, strayed, handled,
                       swallowed, subs>>
    BY DEF Crash, Settling, publisher, ends
  <1>2. IsABag(calls) /\ IsFiniteSet(In(calls)) /\ IsABag(queue)
    BY <1>0 DEF DataInv, CallsOK, QueueOK
  <1>3. DOMAIN theirs = their /\ \A c \in their : theirs[c] = calls[c]
    OBVIOUS
  <1>4. IsABag(theirs) /\ In(theirs) = their /\ their \subseteq In(calls)
    BY <1>2 DEF IsABag, In, BagToSet
  <1>5. IsFiniteSet(In(theirs))
    BY <1>2, <1>4, FS_Subset
  <1> HIDE DEF theirs
  <1>6. IsABag(Deliveries(theirs)) /\ In(Deliveries(theirs)) = {c.of : c \in their}
    BY <1>4, <1>5, DeliveriesAre
  <1>7. IsABag(queue') /\ In(queue') = In(queue) \cup {c.of : c \in their}
    <2>1. PICK b : b = Deliveries(theirs)
      OBVIOUS
    <2>2. IsABag(queue (+) b) /\ In(queue (+) b) = In(queue) \cup In(b)
      BY <1>2, <1>6, <2>1, BagPlus
    <2>3. queue' = queue (+) b
      BY <1>1, <2>1
    <2> QED BY <1>6, <2>1, <2>2, <2>3
  <1>8. /\ IsABag(calls') /\ In(calls') = In(calls) \ their
        /\ \A d \in In(calls) \ their : calls'[d] = calls[d]
    <2>1. /\ IsABag(calls (-) theirs) /\ In(calls (-) theirs) \subseteq In(calls)
          /\ In(calls) \ In(theirs) \subseteq In(calls (-) theirs)
          /\ \A x \in In(calls) \ In(theirs) : (calls (-) theirs)[x] = calls[x]
          /\ \A x \in In(calls) \cap In(theirs) :
                calls[x] <= theirs[x] => x \notin In(calls (-) theirs)
      BY <1>2, <1>4, BagMinus
    <2>2. \A x \in their : calls[x] \in Nat
      BY <1>2, <1>4 DEF IsABag, In, BagToSet
    <2>3. \A x \in their : calls[x] <= theirs[x]
      BY <1>3, <2>2
    <2> QED BY <1>1, <1>4, <2>1, <2>3
  <1>9. IsFiniteSet(In(calls'))
    BY <1>2, <1>8, FS_Subset
  <1> HIDE DEF their
  <1>10. \A d \in their : d \in In(calls) /\ d.why \in Settling
    BY DEF their
  <1>11. Batch' = Batch /\ Carried' = Carried /\ Sends' = Sends
    BY <1>1, SameSets
  <1>12. /\ \A d \in In(calls) : d \in Sends /\ d.of \in Carried
         /\ faults \in 0..MaxFaults /\ MaxFaults \in Nat
    BY <1>0, PublishingAssumption DEF DataInv, CallsOK, Sends
  <1>13. DataInv'
    <2>1. CallsOK'
      BY <1>0, <1>8, <1>9, <1>11 DEF DataInv, CallsOK
    <2>2. QueueOK'
      BY <1>0, <1>7, <1>10, <1>11, <1>12 DEF DataInv, QueueOK
    <2>3. faults' \in 0..MaxFaults
      BY <1>1, <1>12
    <2> QED BY <1>0, <1>1, <1>11, <2>1, <2>2, <2>3 DEF DataInv
  <1>14. StoredInv'
    <2>1. \A m \in In(queue') : m.ev \in Seen(arrived)
      BY <1>0, <1>7, <1>10 DEF StoredInv
    <2> QED BY <1>0, <1>1, <1>8, <1>11, <2>1 DEF StoredInv
  <1>15. OnceInv'
    <2>1. faults' > 0
      BY <1>1, <1>12
    <2> QED BY <1>0, <1>1, <2>1 DEF OnceInv, OncePerSend
  <1>16. KeptInv'
    <2> SUFFICES ASSUME setup.bus # "local", NEW e \in Seen(arrived) PROVE Kept(e)'
      BY <1>1 DEF KeptInv
    <2>1. Kept(e)
      BY <1>0 DEF KeptInv
    <2>2. CASE \E c \in In(calls) : c.why \in Settling /\ c.copies = 0 /\ c.of.ev = e
      <3>1. PICK c \in their : c.of.ev = e
        BY <2>2 DEF their
      <3> QED BY <1>7, <3>1 DEF Kept
    <2>3. CASE e \in handled \/ \E m \in In(queue) : m.ev = e
      BY <1>1, <1>7, <2>3 DEF Kept
    <2>4. CASE setup.named /\ setup.idKept /\ e \in swallowed
      BY <1>1, <2>4 DEF Kept
    <2> QED BY <2>1, <2>2, <2>3, <2>4 DEF Kept
  <1>17. PrefixInv'
    <2> SUFFICES ASSUME setup.api = "publish_batch" PROVE PrefixInv'
      BY <1>1 DEF PrefixInv
    <2>1. \A d \in Publishing : d \in In(calls) /\ d \notin their
      BY <1>10 DEF Publishing, Settling
    <2>2. Publishing' = Publishing /\ \A d \in Publishing : calls'[d] = calls[d]
      BY <1>8, <2>1 DEF Publishing
    <2>3. OneSend'
      BY <1>0, <1>8, <2>2 DEF OneSend, PrefixInv
    <2> QED BY <1>0, <1>1, <1>11, <2>2, <2>3 DEF PrefixInv, Waiting
  <1> QED BY <1>13, <1>14, <1>15, <1>16, <1>17 DEF BusInv

\* A step that leaves all but the receivers and the duplicate windows alone.
LEMMA RestKeeps ==
    ASSUME BusInv,
           UNCHANGED <<setup, told, sent, arrived, calls, queue, handled, swallowed,
                       strayed, doubled, faults>>,
           seen' \subseteq seen
    PROVE  BusInv'
  <1>0. DataInv /\ StoredInv /\ OnceInv /\ KeptInv /\ PrefixInv
    BY DEF BusInv
  <1>1. Batch' = Batch /\ Carried' = Carried /\ Sends' = Sends
    BY SameSets
  <1>2. DataInv'
    BY <1>0, <1>1 DEF DataInv, CallsOK, QueueOK
  <1>3. StoredInv' /\ OnceInv' /\ KeptInv'
    BY <1>0, <1>1 DEF StoredInv, OnceInv, OncePerSend, KeptInv, Kept
  <1>4. PrefixInv'
    <2>1. Publishing' = Publishing
      BY DEF Publishing
    <2> QED BY <1>0, <1>1, <2>1 DEF PrefixInv, OneSend, Waiting
  <1> QED BY <1>2, <1>3, <1>4 DEF BusInv

LEMMA BusStep == BusInv /\ [Next]_vars => BusInv'
  <1> SUFFICES ASSUME BusInv, [Next]_vars PROVE BusInv'
    OBVIOUS
  <1>1. ASSUME NEW c \in In(calls), CallStep(c)
        PROVE  BusInv'
    <2>1. DataInv /\ StoredInv /\ OnceInv /\ KeptInv /\ PrefixInv
      BY DEF BusInv
    <2>2. Shape(c)
      BY <1>1, <2>1, CallShape
    <2>3. DataInv' /\ StoredInv' /\ OnceInv' /\ KeptInv'
      BY <2>1, <2>2, CallData, CallStored, CallOnce, CallKept
    <2>4. PrefixInv'
      BY <1>1, <2>1, CallPrefix
    <2> QED BY <2>3, <2>4 DEF BusInv
  <1>2. CASE PublisherStep
    BY <1>2, PublisherKeeps
  <1>3. ASSUME NEW e \in Events, EventStep(e)
        PROVE  BusInv'
    <2>1. CASE SendStep(e)
      <3>1. PICK c \in In(calls) : NoStream(c) \/ Acknowledged(c)
        BY <2>1 DEF SendStep
      <3> QED BY <1>1, <3>1 DEF CallStep
    <2>2. CASE Consume(e) \/ Forward(e)
      BY <2>2, ConsumeKeeps, ForwardKeeps
    <2> QED BY <1>3, <2>1, <2>2 DEF EventStep
  <1>4. CASE SendFault
    <2>1. PICK c \in In(calls) : RequestLost(c) \/ AckLost(c)
      BY <1>4 DEF SendFault
    <2>2. CallStep(c)
      BY <1>4, <2>1 DEF SendFault, CallStep
    <2> QED BY <1>1, <2>2
  <1>5. CASE \E c \in In(calls) : Dropped(c)
    BY <1>1, <1>5 DEF CallStep
  <1>6. CASE Crash
    BY <1>6, CrashKeeps
  <1>7. CASE Forget
    <2>1. /\ UNCHANGED <<setup, told, sent, arrived, calls, queue, handled, swallowed,
                         strayed, doubled, faults>>
          /\ seen' \subseteq seen
      BY <1>7 DEF Forget, publisher, ends
    <2> QED BY <2>1, RestKeeps
  <1>8. CASE \/ \E s \in Subscribers : Subscribe(s) \/ Unsubscribe(s) \/ Receive(s)
             \/ UNCHANGED vars
    <2>1. /\ UNCHANGED <<setup, told, sent, arrived, calls, queue, handled, swallowed,
                         strayed, doubled, faults>>
          /\ seen' \subseteq seen
      <3>1. UNCHANGED <<setup, publisher, broker, calls, ends, faults>>
        BY <1>8 DEF Subscribe, Unsubscribe, Receive, vars
      <3> QED BY <3>1 DEF publisher, broker, ends
    <2> QED BY <2>1, RestKeeps
  <1> QED BY <1>2, <1>3, <1>4, <1>5, <1>6, <1>7, <1>8 DEF Next

------------------------------------------------------------------------------
(***************************************************************************)
(* The receivers of the in-memory bus                                      *)
(***************************************************************************)

\* A set of natural numbers has a smallest one.
LEMMA SmallestNat ==
    ASSUME NEW T \in SUBSET Nat, T # {}
    PROVE  \E m \in T : \A n \in T : m <= n
  <1> DEFINE Less == OpToRel(<, Nat)
  <1>1. IsWellFoundedOn(Less, Nat)
    BY NatLessThanWellFounded
  <1>2. PICK m \in T : \A n \in T : <<n, m>> \notin Less
    BY <1>1, WFMin
  <1>3. \A l, n \in Nat : l < n => <<l, n>> \in Less
    BY DEF OpToRel
  <1>4. ASSUME NEW n \in T PROVE m <= n
    <2>1. n \in Nat /\ m \in Nat /\ ~(n < m)
      BY <1>2, <1>3
    <2> QED BY <2>1
  <1> QED BY <1>4

\* f has the powers of two up to the n-th.
Doubles(f, n) == f = [k \in 0..n |-> IF k = 0 THEN 1 ELSE 2 * f[k - 1]]

LEMMA DoublesOn ==
    ASSUME NEW n \in Nat, NEW f, Doubles(f, n)
    PROVE  \E g : Doubles(g, n + 1)
  <1> DEFINE next(k) == 2 * f[k - 1]
             g == [k \in 0..(n + 1) |-> IF k = 0 THEN 1 ELSE next(k)]
  <1>1. \A k \in 0..n : f[k] = IF k = 0 THEN 1 ELSE next(k)
    BY DEF Doubles
  <1>2. \A k \in 0..(n + 1) : k # 0 => k - 1 \in 0..n /\ k - 1 \in 0..(n + 1)
    OBVIOUS
  <1>3. \A k \in 0..n : g[k] = f[k]
    BY <1>1
  <1>4. \A k \in 0..(n + 1) : k # 0 => next(k) = 2 * g[k - 1]
    BY <1>2, <1>3
  <1>5. \A k \in 0..(n + 1) : (IF k = 0 THEN 1 ELSE next(k))
                                = (IF k = 0 THEN 1 ELSE 2 * g[k - 1])
    BY <1>4
  <1>6. g = [k \in 0..(n + 1) |-> IF k = 0 THEN 1 ELSE 2 * g[k - 1]]
    <2> HIDE DEF next
    <2> QED BY <1>5
  <1> QED BY <1>6 DEF Doubles

LEMMA DoublesExist ==
    ASSUME NEW n \in Nat
    PROVE  \E f : Doubles(f, n)
  <1> DEFINE T == {k \in Nat : ~ \E f : Doubles(f, k)}
  <1> SUFFICES ASSUME T # {} PROVE FALSE
    OBVIOUS
  <1>1. PICK k \in T : \A j \in T : k <= j
    BY SmallestNat
  <1>2. CASE k = 0
    <2> DEFINE f == [j \in 0..0 |-> 1]
    <2>1. \A j \in 0..0 : 1 = IF j = 0 THEN 1 ELSE 2 * f[j - 1]
      OBVIOUS
    <2>2. Doubles(f, 0)
      BY <2>1 DEF Doubles
    <2> QED BY <1>2, <2>2
  <1>3. CASE k # 0
    <2>1. k - 1 \in Nat /\ k - 1 \notin T /\ (k - 1) + 1 = k
      BY <1>1, <1>3
    <2>2. PICK f : Doubles(f, k - 1)
      BY <2>1
    <2>3. \E g : Doubles(g, k)
      BY <2>1, <2>2, DoublesOn
    <2> QED BY <2>3
  <1> QED BY <1>2, <1>3

\* A receiver can lag behind by at least the capacity that was asked for.
LEMMA SlotsSuffice == Slots \in Nat /\ Slots >= Capacity
  <1>0. Capacity \in Nat /\ Capacity > 0
    BY PublishingAssumption
  <1>1. Doubles(TwoTo, Capacity)
    <2>1. TwoTo = CHOOSE f : Doubles(f, Capacity)
      BY DEF TwoTo, Doubles
    <2>2. \E f : Doubles(f, Capacity)
      BY <1>0, DoublesExist
    <2> QED BY <2>1, <2>2
  <1>2. PICK f : f = TwoTo
    OBVIOUS
  <1>3. \A k \in 0..Capacity : f[k] = IF k = 0 THEN 1 ELSE 2 * f[k - 1]
    BY <1>1, <1>2 DEF Doubles
  <1>4. \A k \in 0..Capacity : f[k] \in Nat /\ f[k] > k
    <2> DEFINE T == {k \in 0..Capacity : ~(f[k] \in Nat /\ f[k] > k)}
    <2> SUFFICES ASSUME T # {} PROVE FALSE
      OBVIOUS
    <2>0. T \in SUBSET Nat
      BY <1>0
    <2>1. PICK k \in T : \A j \in T : k <= j
      <3> HIDE DEF T
      <3> QED BY <2>0, SmallestNat
    <2>2. k \in 0..Capacity /\ ~(f[k] \in Nat /\ f[k] > k)
      OBVIOUS
    <2>3. k # 0
      BY <1>3, <2>2
    <2>4. k - 1 \in 0..Capacity /\ k - 1 \notin T
      BY <1>0, <2>1, <2>2, <2>3
    <2>5. f[k - 1] \in Nat /\ f[k - 1] > k - 1 /\ f[k] = 2 * f[k - 1]
      BY <1>3, <2>2, <2>3, <2>4
    <2>6. k \in Nat /\ k > 0
      BY <1>0, <2>2, <2>3
    <2>7. \A j \in Nat : j > k - 1 => 2 * j \in Nat /\ 2 * j > k
      BY <2>6
    <2> QED BY <2>2, <2>5, <2>7
  <1> DEFINE E == {k \in 0..Capacity : f[k] >= Capacity}
  <1>5. E \in SUBSET Nat /\ E # {}
    <2>1. Capacity \in E
      BY <1>0, <1>4
    <2> QED BY <1>0, <2>1
  <1>6. PICK k \in E : \A j \in E : k <= j
    <2> HIDE DEF E
    <2> QED BY <1>5, SmallestNat
  <1>7. k \in 0..Capacity /\ f[k] >= Capacity
    OBVIOUS
  <1>8. f[k] < 2 * Capacity
    <2>1. CASE k = 0
      BY <1>0, <1>3, <1>7, <2>1
    <2>2. CASE k # 0
      <3>1. k - 1 \in 0..Capacity /\ k - 1 \notin E
        BY <1>0, <1>6, <1>7, <2>2
      <3>2. f[k - 1] \in Nat /\ ~(f[k - 1] >= Capacity) /\ f[k] = 2 * f[k - 1]
        BY <1>3, <1>4, <1>7, <2>2, <3>1
      <3> QED BY <1>0, <3>2
    <2> QED BY <2>1, <2>2
  <1>9. \E n \in {TwoTo[j] : j \in 0..Capacity} : n >= Capacity /\ n < 2 * Capacity
    BY <1>2, <1>7, <1>8
  <1>10. Slots \in {TwoTo[j] : j \in 0..Capacity} /\ Slots >= Capacity
    BY <1>9 DEF Slots
  <1> QED BY <1>2, <1>4, <1>10

\* Where a receiver has got to, with n events published.
Reads(r, n) ==
    /\ r \in [from : Nat, next : Nat, got : Seq(Nat), lagged : Nat]
    /\ 1 <= r.from /\ r.from <= r.next /\ r.next <= n + 1
    /\ r.next - r.from = Len(r.got) + r.lagged
    /\ \A i \in DOMAIN r.got : r.got[i] < r.next
    /\ \A i, j \in DOMAIN r.got : i < j => r.got[i] < r.got[j]
    /\ r.lagged > 0 => n - r.from + 1 > Capacity

SubsInv ==
    /\ DOMAIN subs = Subscribers
    /\ \A s \in Subscribers :
          subs[s] # <<>> => /\ setup.bus = "local"
                            /\ \E r : subs[s] = <<r>> /\ Reads(r, Len(arrived))

\* More events do not bring a receiver into disorder.
LEMMA ReadsOn ==
    ASSUME NEW r, NEW n \in Nat, NEW m \in Nat, n <= m, Reads(r, n)
    PROVE  Reads(r, m)
  BY PublishingAssumption DEF Reads

\* A receiver reads the next event.
LEMMA ReadsNext ==
    ASSUME NEW r, NEW n \in Nat, Reads(r, n), r.next <= n
    PROVE  Reads([r EXCEPT !.next = @ + 1, !.got = Append(@, r.next)], n)
  <1>1. PICK got : got = Append(r.got, r.next)
    OBVIOUS
  <1>2. PICK q : q = [r EXCEPT !.next = @ + 1, !.got = Append(@, r.next)]
    OBVIOUS
  <1>3. r \in [from : Nat, next : Nat, got : Seq(Nat), lagged : Nat]
    BY DEF Reads
  <1>4. /\ got \in Seq(Nat) /\ Len(got) = Len(r.got) + 1 /\ Len(r.got) \in Nat
        /\ got[Len(r.got) + 1] = r.next
        /\ \A i \in 1..Len(r.got) : got[i] = r.got[i]
    BY <1>1, <1>3, AppendProperties, LenProperties
  <1>5. DOMAIN r.got = 1..Len(r.got) /\ DOMAIN got = 1..(Len(r.got) + 1)
    BY <1>3, <1>4, LenProperties
  <1>6. /\ q \in [from : Nat, next : Nat, got : Seq(Nat), lagged : Nat]
        /\ q.from = r.from /\ q.next = r.next + 1 /\ q.got = got /\ q.lagged = r.lagged
    <2>1. r.next \in Nat /\ r.next + 1 \in Nat
      BY <1>3
    <2>2. q = [r EXCEPT !.next = r.next + 1, !.got = got]
      BY <1>1, <1>2
    <2>3. \A x \in Nat, g \in Seq(Nat) :
             LET y == [r EXCEPT !.next = x, !.got = g]
             IN  /\ y \in [from : Nat, next : Nat, got : Seq(Nat), lagged : Nat]
                 /\ y.from = r.from /\ y.next = x /\ y.got = g /\ y.lagged = r.lagged
      BY <1>3
    <2> QED BY <1>4, <2>1, <2>2, <2>3
  <1>7. \A i \in DOMAIN got : i \in DOMAIN r.got \/ i = Len(r.got) + 1
    BY <1>4, <1>5
  <1>8. \A i \in DOMAIN r.got : r.got[i] < r.next /\ r.got[i] \in Nat /\ i < Len(r.got) + 1
    <2>1. \A i \in DOMAIN r.got : r.got[i] < r.next
      BY DEF Reads
    <2>2. r.got \in Seq(Nat)
      BY <1>3
    <2>3. \A i \in DOMAIN r.got : r.got[i] \in Nat
      BY <2>2
    <2>4. \A i \in DOMAIN r.got : i < Len(r.got) + 1
      BY <1>4, <1>5
    <2> QED BY <2>1, <2>3, <2>4
  <1>9. \A i \in DOMAIN got : got[i] < r.next + 1
    <2>1. r.next \in Nat
      BY <1>3
    <2>2. \A i \in DOMAIN r.got : got[i] = r.got[i]
      BY <1>4, <1>5
    <2> QED BY <1>4, <1>7, <1>8, <2>1, <2>2
  <1>10. \A i, j \in DOMAIN got : i < j => got[i] < got[j]
    <2> SUFFICES ASSUME NEW i \in DOMAIN got, NEW j \in DOMAIN got, i < j
                 PROVE  got[i] < got[j]
      OBVIOUS
    <2>1. i \in DOMAIN r.got /\ got[i] = r.got[i]
      BY <1>4, <1>5, <1>7
    <2>2. CASE j \in DOMAIN r.got
      <3>1. got[j] = r.got[j]
        BY <1>4, <1>5, <2>2
      <3> QED BY <2>1, <2>2, <3>1 DEF Reads
    <2>3. CASE j = Len(r.got) + 1
      BY <1>4, <1>8, <2>1, <2>3
    <2> QED BY <1>7, <2>2, <2>3
  <1>11. Reads(q, n)
    <2>1. q.next - q.from = Len(q.got) + q.lagged
      BY <1>3, <1>4, <1>6 DEF Reads
    <2>2. 1 <= q.from /\ q.from <= q.next /\ q.next <= n + 1
      BY <1>3, <1>6 DEF Reads
    <2>3. q.lagged > 0 => n - q.from + 1 > Capacity
      BY <1>6 DEF Reads
    <2> QED BY <1>6, <1>9, <1>10, <2>1, <2>2, <2>3 DEF Reads
  <1> QED BY <1>2, <1>11

\* A receiver that lags is told how many events it has missed.
LEMMA ReadsLagged ==
    ASSUME NEW r, NEW n \in Nat, Reads(r, n), NEW o, o = n - Slots + 1, r.next < o
    PROVE  Reads([r EXCEPT !.next = o, !.lagged = @ + (o - r.next)], n)
  <1>1. PICK q : q = [r EXCEPT !.next = o, !.lagged = @ + (o - r.next)]
    OBVIOUS
  <1>2. r \in [from : Nat, next : Nat, got : Seq(Nat), lagged : Nat]
    BY DEF Reads
  <1>3. Slots \in Nat /\ Slots >= Capacity /\ Capacity \in Nat
    BY SlotsSuffice, PublishingAssumption
  <1>4. o \in Nat /\ o - r.next \in Nat /\ o <= n + 1
    BY <1>2, <1>3
  <1>5. /\ q \in [from : Nat, next : Nat, got : Seq(Nat), lagged : Nat]
        /\ q.from = r.from /\ q.next = o /\ q.got = r.got /\ q.lagged = r.lagged + (o - r.next)
    <2>1. r.lagged \in Nat /\ r.lagged + (o - r.next) \in Nat
      BY <1>2, <1>4
    <2>2. q = [r EXCEPT !.next = o, !.lagged = r.lagged + (o - r.next)]
      BY <1>1
    <2>3. \A x, l \in Nat :
             LET y == [r EXCEPT !.next = x, !.lagged = l]
             IN  /\ y \in [from : Nat, next : Nat, got : Seq(Nat), lagged : Nat]
                 /\ y.from = r.from /\ y.next = x /\ y.got = r.got /\ y.lagged = l
      BY <1>2
    <2> QED BY <1>4, <2>1, <2>2, <2>3
  <1>6. r.got \in Seq(Nat) /\ Len(r.got) \in Nat
    BY <1>2, LenProperties
  <1>7. q.next - q.from = Len(q.got) + q.lagged
    <2>1. r.next - r.from = Len(r.got) + r.lagged
      BY DEF Reads
    <2>2. r.next \in Nat /\ r.from \in Nat /\ r.lagged \in Nat
      BY <1>2
    <2>3. o - r.from = Len(r.got) + (r.lagged + (o - r.next))
      <3>1. PICK g \in Nat : g = Len(r.got)
        BY <1>6
      <3>2. PICK a \in Nat, b \in Nat, l \in Nat : a = r.next /\ b = r.from /\ l = r.lagged
        BY <2>2
      <3>3. a - b = g + l
        BY <2>1, <3>1, <3>2
      <3>4. o - b = g + (l + (o - a))
        BY <1>4, <3>3
      <3> QED BY <3>1, <3>2, <3>4
    <2> QED BY <1>5, <2>3
  <1>8. \A i \in DOMAIN r.got : r.got[i] \in Nat
    BY <1>6
  <1>9. \A i \in DOMAIN q.got : q.got[i] < q.next
    BY <1>2, <1>4, <1>5, <1>8 DEF Reads
  <1>10. n - q.from + 1 > Capacity
    BY <1>2, <1>3, <1>4, <1>5 DEF Reads
  <1>11. 1 <= q.from /\ q.from <= q.next /\ q.next <= n + 1
    BY <1>2, <1>4, <1>5 DEF Reads
  <1>12. \A i, j \in DOMAIN q.got : i < j => q.got[i] < q.got[j]
    BY <1>5 DEF Reads
  <1>13. Reads(q, n)
    BY <1>5, <1>7, <1>9, <1>10, <1>11, <1>12 DEF Reads
  <1> QED BY <1>1, <1>13

LEMMA SubsInit == Init => SubsInv
  BY DEF Init, SubsInv

\* Events are only ever added.
LEMMA ArrivedGrows ==
    ASSUME BusInv, [Next]_vars
    PROVE  Len(arrived) \in Nat /\ Len(arrived') \in Nat /\ Len(arrived) <= Len(arrived')
  <1>1. DataInv /\ arrived \in Seq(Batch) /\ Len(arrived) \in Nat
    BY LenProperties DEF BusInv, DataInv
  <1>2. CASE arrived' = arrived
    BY <1>1, <1>2
  <1>3. ASSUME NEW e, arrived' = Append(arrived, e)
        PROVE  Len(arrived') \in Nat /\ Len(arrived) <= Len(arrived')
    <2>1. arrived' \in Seq(Batch \cup {e}) /\ Len(arrived') = Len(arrived) + 1
      BY <1>1, <1>3
    <2> QED BY <1>1, <2>1
  <1>4. ASSUME NEW c, Store(c)
        PROVE  arrived' = arrived \/ \E e : arrived' = Append(arrived, e)
    BY <1>4 DEF Store
  <1>5. arrived' = arrived \/ \E e : arrived' = Append(arrived, e)
    <2>1. CASE PublisherStep
      BY <2>1 DEF PublisherStep, PublishNext, SendBatch, Publish, LocalPublish, broker
    <2>2. ASSUME NEW c \in In(calls),
                 NoStream(c) \/ Acknowledged(c) \/ RequestLost(c) \/ AckLost(c) \/ Dropped(c)
          PROVE  arrived' = arrived \/ \E e : arrived' = Append(arrived, e)
      BY <1>4, <2>2 DEF NoStream, Acknowledged, RequestLost, AckLost, Dropped, broker
    <2>3. CASE (\E e \in Events : EventStep(e)) \/ SendFault \/ \E c \in In(calls) : Dropped(c)
      BY <2>2, <2>3 DEF EventStep, SendStep, Consume, Forward, SendFault
    <2>4. CASE \/ Crash \/ Forget \/ UNCHANGED vars
               \/ \E s \in Subscribers : Subscribe(s) \/ Unsubscribe(s) \/ Receive(s)
      BY <2>4 DEF Crash, Forget, Subscribe, Unsubscribe, Receive, vars, broker
    <2> QED BY <2>1, <2>3, <2>4 DEF Next
  <1> QED BY <1>1, <1>2, <1>3, <1>5

\* Only the receivers themselves change what they have read.
LEMMA SubsChange ==
    ASSUME BusInv, [Next]_vars
    PROVE  \/ UNCHANGED <<setup, subs>>
           \/ \E s \in Subscribers : Subscribe(s) \/ Unsubscribe(s) \/ Receive(s)
  <1>0. DataInv
    BY DEF BusInv
  <1>1. CASE PublisherStep
    BY <1>1 DEF PublisherStep, PublishNext, SendBatch, Publish, LocalPublish
  <1>2. CASE (\E e \in Events : EventStep(e)) \/ SendFault \/ \E c \in In(calls) : Dropped(c)
    BY <1>2 DEF EventStep, SendStep, Consume, Forward, SendFault, NoStream, Acknowledged,
                RequestLost, AckLost, Dropped
  <1>3. CASE Crash \/ Forget \/ UNCHANGED vars
    BY <1>3 DEF Crash, Forget, vars
  <1> QED BY <1>1, <1>2, <1>3 DEF Next

LEMMA SubsStep == BusInv /\ SubsInv /\ [Next]_vars => SubsInv'
  <1> SUFFICES ASSUME BusInv, SubsInv, [Next]_vars PROVE SubsInv'
    OBVIOUS
  <1>1. Len(arrived) \in Nat /\ Len(arrived') \in Nat /\ Len(arrived) <= Len(arrived')
    BY ArrivedGrows
  <1>2. CASE UNCHANGED <<setup, subs>>
    BY <1>1, <1>2, ReadsOn DEF SubsInv
  <1>3. ASSUME NEW s \in Subscribers, NEW x, subs' = [subs EXCEPT ![s] = x],
               setup' = setup, arrived' = arrived,
               x # <<>> => setup.bus = "local" /\ \E r : x = <<r>> /\ Reads(r, Len(arrived))
        PROVE  SubsInv'
    <2>1. DOMAIN subs' = Subscribers /\ subs'[s] = x
      BY <1>3 DEF SubsInv
    <2>2. \A t \in Subscribers \ {s} : subs'[t] = subs[t]
      BY <1>3 DEF SubsInv
    <2>3. ASSUME NEW t \in Subscribers, subs'[t] # <<>>
          PROVE  setup.bus = "local" /\ \E r : subs'[t] = <<r>> /\ Reads(r, Len(arrived))
      BY <1>3, <2>1, <2>2, <2>3 DEF SubsInv
    <2> QED BY <1>3, <2>1, <2>3 DEF SubsInv
  <1>4. ASSUME NEW s \in Subscribers, Subscribe(s)
        PROVE  SubsInv'
    <2> DEFINE n == Len(arrived)
               r == [from |-> n + 1, next |-> n + 1, got |-> <<>>, lagged |-> 0]
    <2>1. subs' = [subs EXCEPT ![s] = <<r>>] /\ setup.bus = "local"
      BY <1>4 DEF Subscribe
    <2>2. setup' = setup /\ arrived' = arrived
      BY <1>4 DEF Subscribe, broker
    <2>3. Reads(r, n)
      <3> HIDE DEF n
      <3>1. n \in Nat
        BY <1>1 DEF n
      <3>2. <<>> \in Seq(Nat) /\ Len(<<>>) = 0 /\ DOMAIN <<>> = {}
        OBVIOUS
      <3> QED BY <3>1, <3>2 DEF Reads
    <2> QED BY <1>3, <2>1, <2>2, <2>3
  <1>5. ASSUME NEW s \in Subscribers, Unsubscribe(s)
        PROVE  SubsInv'
    <2>1. subs' = [subs EXCEPT ![s] = <<>>] /\ setup' = setup /\ arrived' = arrived
      BY <1>5 DEF Unsubscribe, broker
    <2> QED BY <1>3, <2>1
  <1>6. ASSUME NEW s \in Subscribers, Receive(s)
        PROVE  SubsInv'
    <2>1. s \in Receivers /\ setup' = setup /\ arrived' = arrived
      BY <1>6 DEF Receive, broker
    <2>2. PICK r : subs[s] = <<r>> /\ Reads(r, Len(arrived))
      BY <2>1 DEF SubsInv, Receivers
    <2>3. setup.bus = "local" /\ setup \in Setups /\ setup.api = "publish_batch"
      BY <2>1, SetupIs DEF SubsInv, Receivers, BusInv, DataInv
    <2>4. PICK o : o = Len(arrived) - Slots + 1
      OBVIOUS
    <2> DEFINE x == Received(r)
    <2>5. r.next <= Len(arrived) /\ subs' = [subs EXCEPT ![s] = <<x>>]
      <3>1. subs[s][1] = r
        BY <2>2
      <3> QED BY <1>6, <3>1 DEF Receive
    <2>6. Reads(x, Len(arrived))
      <3>1. CASE r.next < o
        <4>1. x = [r EXCEPT !.next = o, !.lagged = @ + (o - r.next)]
          BY <2>4, <3>1 DEF Received
        <4> QED BY <1>1, <2>2, <2>4, <3>1, <4>1, ReadsLagged
      <3>2. CASE ~(r.next < o)
        <4>1. r.next \in Nat /\ 1 <= r.next
          BY <2>2 DEF Reads
        <4>2. r.next \in DOMAIN arrived
          <5>1. DOMAIN arrived = 1..Len(arrived)
            BY LenProperties DEF BusInv, DataInv
          <5> QED BY <1>1, <2>5, <4>1, <5>1
        <4>3. arrived[r.next] = r.next
          BY <2>3, <4>2 DEF BusInv, PrefixInv
        <4>4. x = [r EXCEPT !.next = @ + 1, !.got = Append(@, r.next)]
          BY <2>4, <3>2, <4>3 DEF Received
        <4> QED BY <1>1, <2>2, <2>5, <4>4, ReadsNext
      <3> QED BY <3>1, <3>2
    <2> HIDE DEF x
    <2> QED BY <1>3, <2>1, <2>3, <2>5, <2>6
  <1> QED BY <1>2, <1>4, <1>5, <1>6, SubsChange

------------------------------------------------------------------------------
(***************************************************************************)
(* The theorems                                                            *)
(***************************************************************************)

PublishingInv == BusInv /\ SubsInv

LEMMA PublishingIsInvariant == Spec => []PublishingInv
  <1>1. Init => PublishingInv
    BY BusInit, SubsInit DEF PublishingInv
  <1>2. PublishingInv /\ [Next]_vars => PublishingInv'
    BY BusStep, SubsStep DEF PublishingInv
  <1> QED BY <1>1, <1>2, PTL DEF Spec

\* Every variable of an application that publishes and consumes has its type: what
\* failure_headers, the forwarder and a redelivery make of a message is one.
THEOREM TypeCorrect == Spec => []TypeOK
  <1>1. PublishingInv => TypeOK
    <2> SUFFICES ASSUME DataInv PROVE TypeOK
      BY DEF PublishingInv, BusInv
    <2>1. setup \in Setups /\ Batch \subseteq Events
      BY DEF DataInv, Batch, Events
    <2>2. Carried \subseteq Msgs
      BY <2>1 DEF Carried, Msgs
    <2>3. In(queue) \subseteq Msgs
      BY <2>2 DEF DataInv, QueueOK
    <2>4. \A c \in In(calls) :
             c.msg \in Msgs /\ c.of \in Msgs /\ c.attempt \in 0..ProducerRetries
      BY <2>2 DEF DataInv, CallsOK, Sends
    <2> QED BY <2>1, <2>3, <2>4 DEF DataInv, TypeOK
  <1> QED BY <1>1, PublishingIsInvariant, PTL

\* The default publish_batch of an event bus stores the events of a batch in its order,
\* none before the one ahead of it, however its sends fail, are tried again or are
\* stored without an answer; and a publisher told of success has all of them stored.
THEOREM BatchInOrder == Spec => []BatchIsPrefix
  <1>1. PublishingInv => BatchIsPrefix
    BY DEF PublishingInv, BusInv, StoredInv, PrefixInv, BatchIsPrefix
  <1> QED BY <1>1, PublishingIsInvariant, PTL

\* A receiver of the in-memory bus (subscribe, recv) sees the events in their order from
\* where it subscribed; what it misses it is told of, and it misses nothing while no more
\* than the capacity that was asked for have been published since.
THEOREM NoSilentGap == Spec => []GapsAreTold
  <1>1. PublishingInv => GapsAreTold
    <2> SUFFICES ASSUME SubsInv, NEW s \in Receivers
                 PROVE  LET sub == subs[s][1]
                        IN  /\ sub.next - sub.from = Len(sub.got) + sub.lagged
                            /\ \A i, j \in DOMAIN sub.got : i < j => sub.got[i] < sub.got[j]
                            /\ sub.lagged > 0 => Len(arrived) - sub.from + 1 > Capacity
      BY DEF PublishingInv, GapsAreTold
    <2>1. PICK r : subs[s] = <<r>> /\ Reads(r, Len(arrived))
      BY DEF SubsInv, Receivers
    <2>2. subs[s][1] = r
      BY <2>1
    <2> QED BY <2>1, <2>2 DEF Reads
  <1> QED BY <1>1, PublishingIsInvariant, PTL

\* NatsProducer::send stores one message however often it has to try, as its comment
\* says, except after a fault when the id it sets does not survive.
THEOREM SentOnce == Spec => []OncePerSend
  <1>1. PublishingInv => OncePerSend
    BY DEF PublishingInv, BusInv, OnceInv
  <1> QED BY <1>1, PublishingIsInvariant, PTL

\* An event that its publisher was told of is never lost on its way through handlers,
\* retry topic, forwarder and dead-letter topic, whatever sends fail and whenever the
\* consumers die, unless the broker takes its retry for a duplicate.
THEOREM NothingLost == Spec => []EventsKept
  <1>1. PublishingInv => EventsKept
    <2> SUFFICES ASSUME StoredInv, KeptInv, setup.bus # "local", NEW e \in sent
                 PROVE  \/ e \in handled
                        \/ \E m \in In(queue) : m.ev = e
                        \/ \E c \in In(calls) : c.of.ev = e
                        \/ setup.named /\ setup.idKept /\ e \in swallowed
      BY DEF PublishingInv, BusInv, EventsKept
    <2>1. Kept(e)
      BY DEF StoredInv, KeptInv
    <2> QED BY <2>1 DEF Kept
  <1> QED BY <1>1, PublishingIsInvariant, PTL
==============================================================================
