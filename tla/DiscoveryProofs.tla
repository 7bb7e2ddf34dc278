--------------------------- MODULE DiscoveryProofs ---------------------------
(***************************************************************************)
(* Proofs about Registration, and about Discovery as a whole: for every    *)
(* set of instances, capacity of the channel to the balancer, number of    *)
(* updates and of faults.                                                  *)
(***************************************************************************)
EXTENDS Discovery, SequenceTheorems, FiniteSetTheorems, TLAPS

------------------------------------------------------------------------------
(***************************************************************************)
(* The service, with or without clients                                    *)
(***************************************************************************)

\* While the registry is held its task is up, and with a backend whose heartbeat
\* registers nothing, and no fault, there is nothing to register again.
HeldInv ==
    /\ TypeOK
    /\ owner = "held" => sender /\ ~stop /\ beat # "stopped"
    /\ ~HeartbeatRegisters /\ faults = 0 /\ owner = "held" =>
          stored = instance /\ beat # "registering"

\* The initial state has it.
LEMMA HeldInit == Init => HeldInv
<1> SUFFICES ASSUME Init PROVE HeldInv
  OBVIOUS
<1>1. unregistered \in BOOLEAN /\ stop \in BOOLEAN /\ sender \in BOOLEAN /\ sender /\ ~stop
  BY Zenon DEF Init
<1> QED
  BY <1>1, RegistrationAssumption DEF Init, HeldInv, TypeOK, Versions, Original, None

\* Every step of the heartbeat task and of the owner keeps it.
LEMMA HeldStep == HeldInv /\ [Next]_vars => HeldInv'
<1> SUFFICES ASSUME HeldInv, [Next]_vars PROVE HeldInv'
  OBVIOUS
<1> USE RegistrationAssumption DEF HeldInv, TypeOK, Versions, Original, None, Fault
<1>1. CASE Tick
  BY <1>1 DEF Tick
<1>2. CASE HeartbeatSent
  BY <1>2 DEF HeartbeatSent, Heartbeat, CanBeat
<1>3. CASE HeartbeatFails
  BY <1>3 DEF HeartbeatFails, Heartbeat, CanBeat
<1>4. CASE Reregister
  BY <1>4 DEF Reregister
<1>5. CASE StopBeating
  BY <1>5 DEF StopBeating
<1>6. CASE UpdateInstance
  BY <1>6 DEF UpdateInstance
<1>7. CASE OwnHeartbeat
  BY <1>7 DEF OwnHeartbeat, Heartbeat, CanBeat
<1>8. CASE BeginShutdown
  BY <1>8 DEF BeginShutdown
<1>9. CASE Unregister
  <2>1. unregistered' \in BOOLEAN /\ sender' \in BOOLEAN /\ stop' \in BOOLEAN
    BY <1>9, Zenon DEF Unregister
  <2>2. stored' \in {stored, None} /\ faults' \in {faults, faults + 1} /\ (faults' # faults => faults < MaxFaults)
    BY <1>9 DEF Unregister
  <2> QED
    BY <1>9, <2>1, <2>2 DEF Unregister
<1>10. CASE Drop
  BY <1>10 DEF Drop
<1>11. CASE DropUnregisters
  <2>1. unregistered' \in BOOLEAN /\ sender' \in BOOLEAN /\ stop' \in BOOLEAN
    BY <1>11, Zenon DEF DropUnregisters
  <2>2. stored' \in {stored, None} /\ faults' \in {faults, faults + 1} /\ (faults' # faults => faults < MaxFaults)
    BY <1>11 DEF DropUnregisters
  <2> QED
    BY <1>11, <2>1, <2>2 DEF DropUnregisters
<1>12. CASE Expire
  BY <1>12 DEF Expire
<1>13. CASE Crash
  BY <1>13 DEF Crash
<1>14. CASE UNCHANGED vars
  BY <1>14 DEF vars
<1> QED
  BY <1>1, <1>2, <1>3, <1>4, <1>5, <1>6, <1>7, <1>8, <1>9, <1>10, <1>11, <1>12,
     <1>13, <1>14 DEF Next, BeatStep, Finished

\* The backend, the owner, the heartbeat task and their channel are always in the
\* states that the code has for them.
THEOREM TypeCorrect == Spec => []TypeOK
<1>1. HeldInv => TypeOK
  BY DEF HeldInv
<1> QED
  BY <1>1, HeldInit, HeldStep, PTL DEF Spec

\* An update of the instance is not undone by the heartbeats of the task, which
\* works on the instance it was created with, where a heartbeat does not register.
THEOREM UpdatesStick == ~HeartbeatRegisters /\ Spec => []UpdateSticks
<1>1. ~HeartbeatRegisters /\ HeldInv => UpdateSticks
  BY DEF HeldInv, UpdateSticks
<1> SUFFICES ASSUME ~HeartbeatRegisters PROVE Spec => []UpdateSticks
  OBVIOUS
<1>2. HeldInv => UpdateSticks
  BY <1>1
<1> QED
  BY <1>2, HeldInit, HeldStep, PTL DEF Spec

------------------------------------------------------------------------------
(***************************************************************************)
(* What the balancer serves when it has taken a queue of changes           *)
(***************************************************************************)

Changes == [op : {"insert", "remove"}, id : Ids, to : Versions \cup {None}]

Applied(s, change) == [s EXCEPT ![change.id] = change.to]

\* f holds what is served after each of the first n changes of q.
Runs(f, s, q, n) ==
    f = [k \in 0..n |-> IF k = 0 THEN s ELSE Applied(f[k - 1], q[k])]

\* Drained of ServiceDiscover, for any balancer and any queue.
After(s, q) ==
    LET after[k \in 0..Len(q)] ==
          IF k = 0 THEN s ELSE Applied(after[k - 1], q[k])
    IN  after[Len(q)]

\* A set of natural numbers has a smallest one, from which what is said of every
\* prefix of a queue follows by induction.
LEMMA SmallestNat ==
    ASSUME NEW T \in SUBSET Nat, T # {}
    PROVE  \E m \in T : \A n \in T : m <= n
  <1> DEFINE Less == OpToRel(<, Nat)
  <1>1. IsWellFoundedOn(Less, Nat)
    BY NatLessThanWellFounded
  <1>2. PICK m \in T : \A n \in T : <<n, m>> \notin Less
    BY <1>1, WFMin
  <1>3. \A l, n \in Nat : l < n => <<l, n>> \in Less
    BY DEF OpToRel
  <1>4. ASSUME NEW n \in T PROVE m <= n
    <2>1. n \in Nat /\ m \in Nat
      OBVIOUS
    <2>2. ~(n < m)
      BY <1>2, <1>3, <2>1
    <2> QED BY <2>1, <2>2
  <1> QED BY <1>4

\* Two functions that run through the same changes agree.
LEMMA RunsAgree ==
    ASSUME NEW s, NEW q, NEW n \in Nat, NEW f, NEW g, NEW r, NEW l \in Nat,
           Runs(f, s, q, n), Runs(g, s, r, l)
    PROVE  \A m \in Nat :
              m <= n /\ m <= l /\ (\A k \in 1..m : q[k] = r[k]) => f[m] = g[m]
  <1> SUFFICES ASSUME NEW m \in Nat, m <= n, m <= l, \A k \in 1..m : q[k] = r[k]
               PROVE  f[m] = g[m]
    OBVIOUS
  <1> DEFINE T == {k \in 0..m : f[k] # g[k]}
  <1> SUFFICES ASSUME T # {} PROVE FALSE
    OBVIOUS
  <1>0. T \in SUBSET Nat
    OBVIOUS
  <1>1. PICK k \in T : \A j \in T : k <= j
    <2> HIDE DEF T
    <2> QED BY <1>0, SmallestNat
  <1>2. k \in 0..m /\ f[k] # g[k] /\ k \in 0..n /\ k \in 0..l
    OBVIOUS
  <1>3. /\ f[k] = IF k = 0 THEN s ELSE Applied(f[k - 1], q[k])
        /\ g[k] = IF k = 0 THEN s ELSE Applied(g[k - 1], r[k])
    BY <1>2 DEF Runs
  <1>4. k # 0
    BY <1>2, <1>3
  <1>5. k - 1 \in 0..m /\ k - 1 \notin T /\ k \in 1..m
    BY <1>1, <1>2, <1>4
  <1>6. f[k - 1] = g[k - 1] /\ q[k] = r[k]
    BY <1>5
  <1> QED BY <1>2, <1>3, <1>4, <1>6

\* A run is extended by the next change.
LEMMA RunsOn ==
    ASSUME NEW s, NEW q, NEW n \in Nat, NEW f, Runs(f, s, q, n)
    PROVE  \E g : Runs(g, s, q, n + 1)
  <1> DEFINE next(k) == Applied(f[k - 1], q[k])
             g == [k \in 0..(n + 1) |-> IF k = 0 THEN s ELSE next(k)]
  <1>1. \A k \in 0..n : f[k] = IF k = 0 THEN s ELSE next(k)
    BY DEF Runs
  <1>2. \A k \in 1..(n + 1) : k - 1 \in 0..n /\ k - 1 \in 0..(n + 1)
    OBVIOUS
  <1>3. \A k \in 0..n : g[k] = f[k]
    BY <1>1
  <1>4. \A k \in 1..(n + 1) : next(k) = Applied(g[k - 1], q[k])
    BY <1>2, <1>3
  <1>5. g = [k \in 0..(n + 1) |-> IF k = 0 THEN s ELSE Applied(g[k - 1], q[k])]
    <2>1. \A k \in 0..(n + 1) : k # 0 => k \in 1..(n + 1)
      OBVIOUS
    <2>2. \A k \in 0..(n + 1) : (IF k = 0 THEN s ELSE next(k))
                                  = (IF k = 0 THEN s ELSE Applied(g[k - 1], q[k]))
      BY <1>4, <2>1
    <2> HIDE DEF next
    <2> QED BY <2>2
  <1> QED BY <1>5 DEF Runs

\* Every prefix of a queue has a run.
LEMMA RunsExist ==
    ASSUME NEW s, NEW q, NEW n \in Nat
    PROVE  \E f : Runs(f, s, q, n)
  <1> DEFINE T == {k \in Nat : ~ \E f : Runs(f, s, q, k)}
  <1> SUFFICES ASSUME T # {} PROVE FALSE
    OBVIOUS
  <1>1. PICK k \in T : \A j \in T : k <= j
    BY SmallestNat
  <1>2. CASE k = 0
    <2> DEFINE f == [j \in 0..0 |-> s]
    <2>1. \A j \in 0..0 : s = IF j = 0 THEN s ELSE Applied(f[j - 1], q[j])
      OBVIOUS
    <2>2. Runs(f, s, q, 0)
      BY <2>1 DEF Runs
    <2> QED BY <1>2, <2>2
  <1>3. CASE k # 0
    <2>1. k - 1 \in Nat /\ k - 1 \notin T /\ (k - 1) + 1 = k
      BY <1>1, <1>3
    <2>2. PICK f : Runs(f, s, q, k - 1)
      BY <2>1
    <2>3. \E g : Runs(g, s, q, k)
      BY <2>1, <2>2, RunsOn
    <2> QED BY <2>3
  <1> QED BY <1>2, <1>3

\* After is the end of a run through the whole queue.
LEMMA AfterRuns ==
    ASSUME NEW s, NEW q, Len(q) \in Nat
    PROVE  \E f : Runs(f, s, q, Len(q)) /\ After(s, q) = f[Len(q)]
  <1> DEFINE n == Len(q)
             f == CHOOSE f : Runs(f, s, q, n)
  <1>1. Runs(f, s, q, n)
    BY RunsExist
  <1>2. After(s, q) = f[n]
    BY DEF After, Runs
  <1> QED BY <1>1, <1>2

\* No change changes nothing.
LEMMA AfterNothing ==
    ASSUME NEW s PROVE After(s, <<>>) = s
  <1>1. Len(<<>>) = 0
    OBVIOUS
  <1>2. PICK f : Runs(f, s, <<>>, 0) /\ After(s, <<>>) = f[0]
    BY <1>1, AfterRuns
  <1> QED BY <1>2 DEF Runs

\* A change at the end of the queue is the last one that is taken.
LEMMA AfterAppend ==
    ASSUME NEW S, NEW s, NEW q \in Seq(S), NEW c \in S
    PROVE  After(s, Append(q, c)) = Applied(After(s, q), c)
  <1> DEFINE n == Len(q)
  <1>1. PICK p \in Seq(S) : p = Append(q, c)
    BY AppendProperties
  <1>2. /\ n \in Nat /\ Len(p) = n + 1 /\ p[n + 1] = c
        /\ \A k \in 1..n : q[k] = p[k]
    BY <1>1, AppendProperties
  <1>3. PICK f : Runs(f, s, q, n) /\ After(s, q) = f[n]
    BY <1>2, AfterRuns
  <1>4. PICK g : Runs(g, s, p, n + 1) /\ After(s, p) = g[n + 1]
    BY <1>2, AfterRuns
  <1>5. f[n] = g[n]
    <2>1. PICK l \in Nat : l = n + 1 /\ n <= n /\ n <= l
      BY <1>2
    <2> HIDE DEF n
    <2>2. n \in Nat /\ \A k \in 1..n : q[k] = p[k]
      BY <1>2
    <2>3. Runs(f, s, q, n) /\ Runs(g, s, p, l)
      BY <1>3, <1>4, <2>1
    <2>4. \A m \in Nat :
             m <= n /\ m <= l /\ (\A k \in 1..m : q[k] = p[k]) => f[m] = g[m]
      BY <2>2, <2>3, RunsAgree
    <2> QED BY <2>1, <2>2, <2>4
  <1>6. n + 1 \in 0..(n + 1) /\ n + 1 # 0 /\ (n + 1) - 1 = n
    BY <1>2
  <1>7. g[n + 1] = Applied(g[n], c)
    BY <1>2, <1>4, <1>6 DEF Runs
  <1> QED BY <1>1, <1>3, <1>4, <1>5, <1>7

\* Taking the first change does not change what is served in the end.
LEMMA AfterHead ==
    ASSUME NEW S, NEW s, NEW q \in Seq(S), q # <<>>
    PROVE  After(Applied(s, Head(q)), Tail(q)) = After(s, q)
  <1> DEFINE n == Len(q)
  <1>1. PICK r \in Seq(S) : r = Tail(q)
    BY HeadTailProperties
  <1>2. /\ n \in Nat /\ n # 0 /\ Len(r) = n - 1 /\ Head(q) = q[1]
        /\ \A k \in 1..(n - 1) : r[k] = q[k + 1]
    BY <1>1, EmptySeq, LenProperties, HeadTailProperties
  <1>3. PICK t : t = Applied(s, q[1])
    OBVIOUS
  <1>4. PICK f : Runs(f, s, q, n) /\ After(s, q) = f[n]
    BY <1>2, AfterRuns
  <1>5. PICK g : Runs(g, t, r, n - 1) /\ After(t, r) = g[n - 1]
    BY <1>2, AfterRuns
  <1> DEFINE T == {k \in 0..(n - 1) : g[k] # f[k + 1]}
  <1>6. T = {}
    <2> SUFFICES ASSUME T # {} PROVE FALSE
      OBVIOUS
    <2>1. T \in SUBSET Nat
      BY <1>2
    <2>2. PICK k \in T : \A j \in T : k <= j
      BY <2>1, SmallestNat
    <2>3. /\ k \in 0..(n - 1) /\ k + 1 \in 0..n /\ k + 1 # 0 /\ (k + 1) - 1 = k
          /\ k \in Nat /\ g[k] # f[k + 1]
      BY <1>2
    <2>4. /\ g[k] = IF k = 0 THEN t ELSE Applied(g[k - 1], r[k])
          /\ f[k + 1] = Applied(f[k], q[k + 1])
      BY <1>4, <1>5, <2>3 DEF Runs
    <2>5. CASE k = 0
      <3>1. f[0] = s
        BY <1>2, <1>4 DEF Runs
      <3> QED BY <1>3, <2>3, <2>4, <2>5, <3>1
    <2>6. CASE k # 0
      <3>1. k - 1 \in 0..(n - 1) /\ k - 1 \notin T /\ (k - 1) + 1 = k /\ k \in 1..(n - 1)
        BY <1>2, <2>2, <2>3, <2>6
      <3>2. g[k - 1] = f[k] /\ r[k] = q[k + 1]
        BY <1>2, <3>1
      <3> QED BY <2>3, <2>4, <2>6, <3>2
    <2> QED BY <2>5, <2>6
  <1>7. n - 1 \in 0..(n - 1) /\ (n - 1) + 1 = n
    BY <1>2
  <1>8. g[n - 1] = f[n]
    BY <1>6, <1>7
  <1> QED BY <1>1, <1>2, <1>3, <1>4, <1>5, <1>8

------------------------------------------------------------------------------
(***************************************************************************)
(* The client                                                              *)
(***************************************************************************)

Maps == [Ids -> Versions \cup {None}]

\* The states of the client.  Until from_backend has returned there is a balancer to
\* come, and what is still to be inserted is not known yet.
ClientOK ==
    /\ others \in [Ids \ {Own} -> Versions \cup {None}]
    /\ answer \in Maps /\ instances \in Maps /\ served \in Maps
    /\ cached \subseteq Maps
    /\ stage \in {"discover", "fill", "idle", "compare"}
    /\ todo \subseteq Ids /\ half \in Ids \cup {None}
    /\ queue \in Seq(Changes)
    /\ balancer \in {"building", "polling", "dropped"}
    /\ stage \in {"discover", "fill"} => balancer = "building" /\ half = None
    /\ stage = "discover" => \A i \in Ids : instances[i] = None
    /\ stage = "fill" => \A i \in todo : instances[i] = None

\* What the balancer is to serve: the instances that are known, but for the one that
\* is being replaced.
Known == [i \in Ids |-> IF i = half THEN None ELSE instances[i]]

\* The cache of channels holds the channels of these, and the queue leads to them.
ServesInv ==
    /\ channels = Known
    /\ balancer # "dropped" => After(served, queue) = Known

\* The service and its clients, together.
DiscoveryInv == HeldInv /\ ClientOK /\ ServesInv

\* What the backend shows is a map of instances.
LEMMA RunningIsMap ==
    ASSUME HeldInv, ClientOK PROVE Running \in Maps
  BY DiscoveryAssumption DEF HeldInv, TypeOK, ClientOK, Running, Maps

\* The initial state has the invariant.
LEMMA DiscoveryStarts == DiscoveryInit => DiscoveryInv
<1> SUFFICES ASSUME DiscoveryInit PROVE DiscoveryInv
  OBVIOUS
<1>1. HeldInv
  BY HeldInit DEF DiscoveryInit
<1>2. /\ cached = {} /\ stage = "discover" /\ answer = Client!Empty /\ todo = {}
      /\ half = None /\ instances = Client!Empty /\ channels = Client!Empty
      /\ queue = <<>> /\ balancer = "building" /\ served = Client!Empty
  BY DEF DiscoveryInit, Client!Init
<1>3. Client!Empty = [i \in Ids |-> None]
  BY DEF Client!Empty
<1>4. others \in [Ids \ {Own} -> Versions \cup {None}]
  BY RegistrationAssumption DEF DiscoveryInit, Versions, Original
<1>5. ClientOK
  BY <1>2, <1>3, <1>4, EmptySeq DEF ClientOK, Maps
<1>6. Known = Client!Empty
  BY <1>2, <1>3 DEF Known
<1>7. After(served, queue) = served
  BY <1>2, AfterNothing
<1> QED
  BY <1>1, <1>2, <1>5, <1>6, <1>7 DEF DiscoveryInv, ServesInv

\* No step of the service touches the client.
LEMMA ServiceKeeps ==
    ASSUME DiscoveryInv, ServiceStep, UNCHANGED <<clientVars, others>>
    PROVE  DiscoveryInv'
<1>1. HeldInv'
  <2>1. [Next]_vars => HeldInv'
    BY HeldStep DEF DiscoveryInv
  <2>2. ServiceStep => [Next]_vars
    BY DEF ServiceStep, Beats, BeatFails, Registers, CheckFails, Next, BeatStep
  <2> QED BY <2>1, <2>2
<1>2. ClientOK' /\ ServesInv'
  BY DEF DiscoveryInv, ClientOK, ServesInv, Known, Maps, Changes, clientVars
<1> QED
  BY <1>1, <1>2 DEF DiscoveryInv

\* A change that ServiceDiscoverUpdater sends is the last one to be taken.
LEMMA ChangeSent ==
    ASSUME queue \in Seq(Changes), NEW c \in Changes,
           queue' = Client!Sent(c), served' = served, balancer' = balancer
    PROVE  /\ queue' \in Seq(Changes)
           /\ balancer' # "dropped" =>
                 After(served', queue') = Applied(After(served, queue), c)
<1>1. CASE balancer = "dropped"
  BY <1>1 DEF Client!Sent
<1>2. CASE balancer # "dropped"
  <2>1. queue' = Append(queue, c)
    BY <1>2 DEF Client!Sent
  <2>2. queue' \in Seq(Changes)
    BY <2>1, AppendProperties
  <2>3. After(served, Append(queue, c)) = Applied(After(served, queue), c)
    BY AfterAppend
  <2> QED BY <2>1, <2>2, <2>3
<1> QED BY <1>1, <1>2

\* What sending the change of an instance i to version v does to channels and queue.
Sends(i, v) ==
    /\ queue' \in Seq(Changes)
    /\ channels' = [Known EXCEPT ![i] = v]
    /\ balancer' # "dropped" => After(served', queue') = [Known EXCEPT ![i] = v]

\* insert creates the channel anew, for it has none.
LEMMA InsertSends ==
    ASSUME ClientOK, ServesInv, NEW i \in Ids, Known[i] = None,
           Client!Insert(i), served' = served, balancer' = balancer
    PROVE  Sends(i, answer[i])
<1>1. channels = Known /\ Client!ChannelFor(i) = answer[i]
  BY DEF ServesInv, Client!ChannelFor
<1>2. PICK c \in Changes : c = [op |-> "insert", id |-> i, to |-> answer[i]]
  BY DEF ClientOK, Maps, Changes
<1>3. queue' = Client!Sent(c) /\ channels' = [Known EXCEPT ![i] = answer[i]]
  BY <1>1, <1>2 DEF Client!Insert
<1>4. /\ queue' \in Seq(Changes)
      /\ balancer' # "dropped" =>
            After(served', queue') = Applied(After(served, queue), c)
  BY <1>3, ChangeSent DEF ClientOK
<1>5. balancer' # "dropped" => After(served, queue) = Known
  BY DEF ServesInv
<1>6. Applied(Known, c) = [Known EXCEPT ![i] = answer[i]]
  BY <1>2 DEF Applied
<1> QED BY <1>3, <1>4, <1>5, <1>6 DEF Sends

\* remove takes the channel out of the cache.
LEMMA RemoveSends ==
    ASSUME ClientOK, ServesInv, NEW i \in Ids,
           Client!Remove(i), served' = served, balancer' = balancer
    PROVE  Sends(i, None)
<1>2. PICK c \in Changes : c = [op |-> "remove", id |-> i, to |-> None]
  BY DEF Changes
<1>3. queue' = Client!Sent(c) /\ channels' = [Known EXCEPT ![i] = None]
  BY <1>2 DEF Client!Remove, ServesInv
<1>4. /\ queue' \in Seq(Changes)
      /\ balancer' # "dropped" =>
            After(served', queue') = Applied(After(served, queue), c)
  BY <1>3, ChangeSent DEF ClientOK
<1>5. balancer' # "dropped" => After(served, queue) = Known
  BY DEF ServesInv
<1>6. Applied(Known, c) = [Known EXCEPT ![i] = None]
  BY <1>2 DEF Applied
<1> QED BY <1>3, <1>4, <1>5, <1>6 DEF Sends

\* When what is known changes in the same way, both still agree.
LEMMA SentIsKnown ==
    ASSUME NEW i \in Ids, NEW v, Sends(i, v), Known' = [Known EXCEPT ![i] = v]
    PROVE  ServesInv'
  BY DEF Sends, ServesInv

\* An answer of the backend is a map, wherever it comes from.
LEMMA AnswerIsMap ==
    ASSUME HeldInv, ClientOK, Client!Answered
    PROVE  answer' \in Maps /\ cached' \subseteq Maps
<1>1. Running \in Maps
  BY RunningIsMap
<1>2. Client!AnswersOnFailure \subseteq Maps
  BY DEF Client!AnswersOnFailure, Client!Map, Maps, ClientOK
<1> QED
  BY <1>1, <1>2 DEF Client!Answered, ClientOK

\* A step that leaves the queue, the channels and what is known serves the same.
LEMMA ServesSame ==
    ASSUME ServesInv,
           UNCHANGED <<half, instances, channels, queue, balancer, served>>
    PROVE  ServesInv'
  BY DEF ServesInv, Known

\* The task and its updater: every step of from_backend and of the refresh task.
LEMMA TaskKeeps ==
    ASSUME HeldInv, ClientOK, ServesInv, others' = others,
           Client!Building \/ Client!Refresh \/ Client!Compare
    PROVE  ClientOK' /\ ServesInv'
<1> USE DEF ClientOK, Maps
<1>1. CASE Client!FirstDiscover
  <2>1. ServesInv'
    BY <1>1, ServesSame DEF Client!FirstDiscover
  <2>2. answer' \in Maps /\ cached' \subseteq Maps /\ todo' \subseteq Ids
    BY <1>1, AnswerIsMap DEF Client!FirstDiscover, Client!Unanswered
  <2> QED BY <1>1, <2>1, <2>2 DEF Client!FirstDiscover
<1>2. CASE Client!FirstInsert
  <2>1. PICK i \in todo : /\ Client!Insert(i)
                          /\ instances' = [instances EXCEPT ![i] = answer[i]]
                          /\ todo' = todo \ {i}
    BY <1>2 DEF Client!FirstInsert
  <2>2. /\ stage = "fill" /\ half = None /\ half' = half
        /\ i \in Ids /\ instances[i] = None
        /\ UNCHANGED <<cached, stage, answer, balancer, served>>
    BY <1>2 DEF Client!FirstInsert
  <2>3. Sends(i, answer[i])
    BY <2>1, <2>2, InsertSends DEF Known
  <2>4. Known' = [Known EXCEPT ![i] = answer[i]]
    BY <2>1, <2>2, DiscoveryAssumption DEF Known
  <2>5. ServesInv'
    BY <2>2, <2>3, <2>4, SentIsKnown
  <2> QED BY <2>1, <2>2, <2>3, <2>5 DEF Sends
<1>3. CASE Client!StartRefreshTask
  <2>1. stage = "fill" /\ balancer = "building" /\ UNCHANGED <<half, instances, channels, queue, served>>
    BY <1>3 DEF Client!StartRefreshTask
  <2>2. ServesInv'
    BY <2>1 DEF ServesInv, Known
  <2> QED BY <1>3, <2>2 DEF Client!StartRefreshTask
<1>4. CASE Client!Refresh
  <2>1. ServesInv'
    BY <1>4, ServesSame DEF Client!Refresh
  <2>2. answer' \in Maps /\ cached' \subseteq Maps /\ todo' \subseteq Ids
    BY <1>4, AnswerIsMap DEF Client!Refresh, Client!Unanswered
  <2> QED BY <1>4, <2>1, <2>2 DEF Client!Refresh
<1>5. CASE Client!BeginUpdate
  <2>1. PICK i \in todo : Client!Remove(i) /\ half' = i
    BY <1>5 DEF Client!BeginUpdate
  <2>2. /\ stage = "compare" /\ half = None /\ i \in Ids
        /\ UNCHANGED <<cached, stage, answer, todo, instances, balancer, served>>
    BY <1>5 DEF Client!BeginUpdate
  <2>3. Sends(i, None)
    BY <2>1, <2>2, RemoveSends
  <2>4. Known' = [Known EXCEPT ![i] = None]
    BY <2>1, <2>2, DiscoveryAssumption DEF Known
  <2>5. ServesInv'
    BY <2>2, <2>3, <2>4, SentIsKnown
  <2> QED BY <2>1, <2>2, <2>3, <2>5 DEF Sends
<1>6. CASE Client!EndUpdate
  <2>1. /\ stage = "compare" /\ half # None /\ half \in Ids
        /\ Client!Insert(half)
        /\ instances' = [instances EXCEPT ![half] = answer[half]]
        /\ todo' = todo \ {half} /\ half' = None
        /\ UNCHANGED <<cached, stage, answer, balancer, served>>
    BY <1>6 DEF Client!EndUpdate
  <2>2. Sends(half, answer[half])
    BY <2>1, InsertSends DEF Known
  <2>3. Known' = [Known EXCEPT ![half] = answer[half]]
    BY <2>1, DiscoveryAssumption DEF Known
  <2>4. ServesInv'
    BY <2>1, <2>2, <2>3, SentIsKnown
  <2> QED BY <2>1, <2>2, <2>4 DEF Sends
<1>7. CASE Client!AddInstance
  <2>1. PICK i \in todo : /\ instances[i] = None
                          /\ Client!Insert(i)
                          /\ instances' = [instances EXCEPT ![i] = answer[i]]
                          /\ todo' = todo \ {i}
    BY <1>7 DEF Client!AddInstance
  <2>2. /\ stage = "compare" /\ half = None /\ half' = half /\ i \in Ids
        /\ UNCHANGED <<cached, stage, answer, balancer, served>>
    BY <1>7 DEF Client!AddInstance
  <2>3. Sends(i, answer[i])
    BY <2>1, <2>2, InsertSends DEF Known
  <2>4. Known' = [Known EXCEPT ![i] = answer[i]]
    BY <2>1, <2>2, DiscoveryAssumption DEF Known
  <2>5. ServesInv'
    BY <2>2, <2>3, <2>4, SentIsKnown
  <2> QED BY <2>1, <2>2, <2>3, <2>5 DEF Sends
<1>8. CASE Client!RemoveInstance
  <2>1. PICK i \in todo : /\ Client!Remove(i)
                          /\ instances' = [instances EXCEPT ![i] = None]
                          /\ todo' = todo \ {i}
    BY <1>8 DEF Client!RemoveInstance
  <2>2. /\ stage = "compare" /\ half = None /\ half' = half /\ i \in Ids
        /\ UNCHANGED <<cached, stage, answer, balancer, served>>
    BY <1>8 DEF Client!RemoveInstance
  <2>3. Sends(i, None)
    BY <2>1, <2>2, RemoveSends
  <2>4. Known' = [Known EXCEPT ![i] = None]
    BY <2>1, <2>2, DiscoveryAssumption DEF Known
  <2>5. ServesInv'
    BY <2>2, <2>3, <2>4, SentIsKnown
  <2> QED BY <2>1, <2>2, <2>3, <2>5 DEF Sends
<1>9. CASE Client!EndRefresh
  <2>1. ServesInv'
    BY <1>9, ServesSame DEF Client!EndRefresh
  <2> QED BY <1>9, <2>1 DEF Client!EndRefresh
<1> QED
  BY <1>1, <1>2, <1>3, <1>4, <1>5, <1>6, <1>7, <1>8, <1>9
     DEF Client!Building, Client!Compare

\* The balancer takes a change, or is dropped; another client fills the cache.
LEMMA OwnerKeeps ==
    ASSUME HeldInv, ClientOK, ServesInv, others' = others,
           Client!Poll \/ Client!DropOwner \/ Client!OtherDiscover
    PROVE  ClientOK' /\ ServesInv'
<1> USE DEF ClientOK, Maps
<1>1. CASE Client!Poll
  <2>1. /\ queue # <<>> /\ queue' = Tail(queue)
        /\ served' = Applied(served, Head(queue))
        /\ UNCHANGED <<half, instances, channels, balancer>>
    BY <1>1 DEF Client!Poll, Client!Applied, Applied
  <2>2. Head(queue) \in Changes /\ Tail(queue) \in Seq(Changes)
    BY <2>1, HeadTailProperties
  <2>3. served' \in Maps
    BY <2>1, <2>2 DEF Changes, Applied
  <2>4. After(served', queue') = After(served, queue)
    BY <2>1, AfterHead
  <2>5. ServesInv'
    BY <2>1, <2>4 DEF ServesInv, Known
  <2> QED BY <1>1, <2>1, <2>2, <2>3, <2>5 DEF Client!Poll
<1>2. CASE Client!DropOwner
  <2>1. served' \in Maps /\ queue' \in Seq(Changes)
    BY <1>2, EmptySeq DEF Client!DropOwner, Client!Empty
  <2>2. ServesInv'
    BY <1>2 DEF Client!DropOwner, ServesInv, Known
  <2> QED BY <1>2, <2>1, <2>2 DEF Client!DropOwner
<1>3. CASE Client!OtherDiscover
  <2>1. ServesInv'
    BY <1>3, ServesSame DEF Client!OtherDiscover
  <2> QED BY <1>3, <2>1, RunningIsMap DEF Client!OtherDiscover
<1> QED
  BY <1>1, <1>2, <1>3

\* Every step of the service and of the client keeps the invariant.
LEMMA DiscoverySteps == DiscoveryInv /\ [DiscoveryNext]_discoveryVars => DiscoveryInv'
<1> SUFFICES ASSUME DiscoveryInv, [DiscoveryNext]_discoveryVars PROVE DiscoveryInv'
  OBVIOUS
<1>1. CASE ServiceStep /\ UNCHANGED <<clientVars, others>>
  BY <1>1, ServiceKeeps
<1>2. CASE ClientStep
  <2>1. HeldInv /\ ClientOK /\ ServesInv /\ Client!Next
    BY <1>2 DEF DiscoveryInv, ClientStep, Reads
  <2>2. others' = others /\ UNCHANGED vars
    BY <1>2 DEF ClientStep, Reads, serviceVars
  <2>3. HeldInv'
    BY <2>1, <2>2, HeldStep
  <2>4. ClientOK' /\ ServesInv'
    BY <2>1, <2>2, TaskKeeps, OwnerKeeps DEF Client!Next
  <2> QED BY <2>3, <2>4 DEF DiscoveryInv
<1>3. CASE UNCHANGED discoveryVars
  <2>1. HeldInv'
    BY <1>3, HeldStep DEF discoveryVars, serviceVars, DiscoveryInv
  <2>2. ClientOK' /\ ServesInv'
    BY <1>3 DEF discoveryVars, clientVars, DiscoveryInv, ClientOK, ServesInv, Known, Maps,
                Changes
  <2> QED BY <2>1, <2>2 DEF DiscoveryInv
<1> QED
  BY <1>1, <1>2, <1>3 DEF DiscoveryNext

------------------------------------------------------------------------------
(***************************************************************************)
(* Theorems about Discovery                                                *)
(***************************************************************************)

\* The service and its clients are always in the states of DiscoveryInv.
LEMMA DiscoveryHolds == DiscoverySpec => []DiscoveryInv
<1> QED
  BY DiscoveryStarts, DiscoverySteps, PTL DEF DiscoverySpec

\* However an answer of the backend, a full channel and the polls of the balancer
\* interleave, what the balancer serves, once it has taken the changes on their way, is
\* what ServiceDiscover knows, over channels made for the instances as they now are.
THEOREM ServedIsKnown == DiscoverySpec => []ServesKnown
<1>1. DiscoveryInv => ServesKnown
  <2>1. Client!Drained = After(served, queue)
    BY DEF Client!Drained, Client!Applied, After, Applied
  <2> QED BY <2>1 DEF DiscoveryInv, ServesInv, Known, ServesKnown, Client!ServesKnown
<1> QED
  BY <1>1, DiscoveryHolds, PTL

\* Clients do not disturb it: with Consul, whose heartbeats register nothing, an update
\* of the instance is not undone as long as nothing fails.
THEOREM UpdatesStickForClients ==
    ~HeartbeatRegisters /\ DiscoverySpec => []UpdateSticks
<1> SUFFICES ASSUME ~HeartbeatRegisters PROVE DiscoverySpec => []UpdateSticks
  OBVIOUS
<1>1. DiscoveryInv => UpdateSticks
  BY DEF DiscoveryInv, HeldInv, UpdateSticks
<1> QED
  BY <1>1, DiscoveryHolds, PTL

==============================================================================
