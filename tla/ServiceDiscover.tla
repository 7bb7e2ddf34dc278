---------------------------- MODULE ServiceDiscover ----------------------------
(***************************************************************************)
(* ServiceDiscover of flare-core-transport (discovery/discover.rs): it     *)
(* asks the discovery backend for the instances of a service, once in      *)
(* from_backend and then from a refresh task, compares the answer with the *)
(* instances it knows and sends what has changed over a bounded channel to *)
(* its owner, a load balancer that keeps a gRPC channel per instance.      *)
(* ConsulBackend::discover answers from a cache while it is fresh, and     *)
(* from a stale one when Consul fails; EtcdBackend::discover leaves out    *)
(* what it cannot read.                                                    *)
(*                                                                         *)
(* An instance is what ServiceInstance's equality tells apart, a member of *)
(* Values; the gRPC channel created for an instance is known by the        *)
(* instance it was created for.  A map is a function on Ids, None where it *)
(* has no entry.                                                           *)
(***************************************************************************)
EXTENDS Naturals, Sequences

CONSTANTS
    Ids, Values, None,
    Steady,      \* ids whose instance neither comes, goes nor changes
    Capacity,    \* of the channel to the owner, 16 in from_backend
    Consul,      \* ConsulBackend, else EtcdBackend
    MaxFaults    \* bound on the failed requests of a behaviour

VARIABLES
    running,   \* the instances that are up
    cached,    \* the answer in CONSUL_DISCOVER_CACHE: a set of at most one
    stage,     \* where from_backend, and then the refresh task, is
    answer,    \* the answer of the backend that is worked on
    todo,      \* the ids of the answer, and of instances, still to compare
    half,      \* the id that is removed and not yet inserted again, or None
    instances, \* what ServiceDiscover knows
    channels,  \* channel_cache
    queue,     \* the changes in the channel to the owner
    owner,     \* "building" until from_backend returns, then "polling" or "dropped"
    served,    \* the channels of the balancer
    faults     \* failed requests so far

vars == <<running, cached, stage, answer, todo, half, instances, channels, queue, owner,
          served, faults>>

Map == [Ids -> Values \cup {None}]
Empty == [i \in Ids |-> None]

Init ==
    /\ running \in Map
    /\ cached = {}
    /\ stage = "discover"
    /\ answer = Empty
    /\ todo = {}
    /\ half = None
    /\ instances = Empty
    /\ channels = Empty
    /\ queue = <<>>
    /\ owner = "building"
    /\ served = Empty
    /\ faults = 0

Fault == faults < MaxFaults /\ faults' = faults + 1

------------------------------------------------------------------------------
(***************************************************************************)
(* The backend's answer                                                    *)
(***************************************************************************)

\* What discover returns when requests fail: Consul's stale answer, if there is one;
\* with etcd, where the instances are under several prefixes, those of some.
AnswersOnFailure ==
    IF Consul THEN cached
              ELSE {a \in Map : \A i \in Ids : a[i] \in {None, running[i]}}

\* discover asks the backend, or finds the answer in its cache
Answered ==
    \/ /\ answer' = running
       /\ cached' = IF Consul THEN {running} ELSE cached
       /\ UNCHANGED faults
    \/ /\ answer' \in cached
       /\ UNCHANGED <<cached, faults>>
    \/ /\ Fault
       /\ answer' \in AnswersOnFailure
       /\ UNCHANGED cached

Unanswered == Fault /\ Consul /\ cached = {} /\ UNCHANGED <<answer, cached>>

\* another ServiceDiscover of the process asks for the same service
OtherDiscover ==
    /\ Consul /\ cached # {running}
    /\ cached' = {running}
    /\ UNCHANGED <<running, stage, answer, todo, half, instances, channels, queue, owner,
                   served, faults>>

------------------------------------------------------------------------------
(***************************************************************************)
(* ServiceDiscoverUpdater                                                  *)
(***************************************************************************)

\* send goes through when there is room, or nobody to receive
CanSend == owner = "dropped" \/ Len(queue) < Capacity
Sent(change) == IF owner = "dropped" THEN queue ELSE Append(queue, change)

\* create_channel_service: the cached channel, or a new one
ChannelFor(i) == IF channels[i] # None THEN channels[i] ELSE answer[i]

\* create_channel_service and insert
Insert(i) ==
    /\ CanSend
    /\ queue' = Sent([op |-> "insert", id |-> i, to |-> ChannelFor(i)])
    /\ channels' = [channels EXCEPT ![i] = ChannelFor(i)]

\* mutant: the channel stays in the cache
RemoveKeepsChannel(i) ==
    /\ CanSend
    /\ queue' = Sent([op |-> "remove", id |-> i, to |-> None])
    /\ UNCHANGED channels

\* remove
Remove(i) ==
    /\ CanSend
    /\ queue' = Sent([op |-> "remove", id |-> i, to |-> None])
    /\ channels' = [channels EXCEPT ![i] = None]

------------------------------------------------------------------------------
(***************************************************************************)
(* from_backend                                                            *)
(***************************************************************************)

\* the first discover; its failure is ignored
FirstDiscover ==
    /\ stage = "discover"
    /\ \/ Answered /\ stage' = "fill" /\ todo' = {i \in Ids : answer'[i] # None}
       \/ Unanswered /\ stage' = "fill" /\ UNCHANGED todo
    /\ UNCHANGED <<running, half, instances, channels, queue, owner, served>>

\* one of the instances found
FirstInsert ==
    /\ stage = "fill"
    /\ \E i \in todo :
          /\ Insert(i)
          /\ instances' = [instances EXCEPT ![i] = answer[i]]
          /\ todo' = todo \ {i}
    /\ UNCHANGED <<running, cached, stage, answer, half, owner, served, faults>>

\* the refresh task is spawned and from_backend returns
StartRefreshTask ==
    /\ stage = "fill" /\ todo = {}
    /\ stage' = "idle"
    /\ owner' = "polling"
    /\ UNCHANGED <<running, cached, answer, todo, half, instances, channels, queue, served, faults>>

------------------------------------------------------------------------------
(***************************************************************************)
(* The refresh task                                                        *)
(***************************************************************************)

\* a tick; a failure of discover is only logged
Refresh ==
    /\ stage = "idle"
    /\ \/ Answered /\ stage' = "compare" /\ todo' = {i \in Ids : answer'[i] # instances[i]}
       \/ Unanswered /\ UNCHANGED <<stage, todo>>
    /\ UNCHANGED <<running, half, instances, channels, queue, owner, served>>

\* an instance that has changed is removed first
BeginUpdate ==
    /\ stage = "compare" /\ half = None
    /\ \E i \in todo :
          /\ answer[i] # None /\ instances[i] # None
          /\ Remove(i)
          /\ half' = i
    /\ UNCHANGED <<running, cached, stage, answer, todo, instances, owner, served, faults>>

EndUpdate ==
    /\ stage = "compare" /\ half # None
    /\ Insert(half)
    /\ instances' = [instances EXCEPT ![half] = answer[half]]
    /\ todo' = todo \ {half}
    /\ half' = None
    /\ UNCHANGED <<running, cached, stage, answer, owner, served, faults>>

AddInstance ==
    /\ stage = "compare" /\ half = None
    /\ \E i \in todo :
          /\ instances[i] = None
          /\ Insert(i)
          /\ instances' = [instances EXCEPT ![i] = answer[i]]
          /\ todo' = todo \ {i}
    /\ UNCHANGED <<running, cached, stage, answer, half, owner, served, faults>>

\* mutant: what is gone is forgotten and not removed from the balancer
RemoveInstanceSilently ==
    /\ stage = "compare" /\ half = None
    /\ \A i \in todo : answer[i] = None
    /\ \E i \in todo :
          /\ instances' = [instances EXCEPT ![i] = None]
          /\ todo' = todo \ {i}
    /\ UNCHANGED <<running, cached, stage, answer, half, channels, queue, owner, served, faults>>

\* when the answer has been gone through, what it does not hold is removed
RemoveInstance ==
    /\ stage = "compare" /\ half = None
    /\ \A i \in todo : answer[i] = None
    /\ \E i \in todo :
          /\ Remove(i)
          /\ instances' = [instances EXCEPT ![i] = None]
          /\ todo' = todo \ {i}
    /\ UNCHANGED <<running, cached, stage, answer, half, owner, served, faults>>

EndRefresh ==
    /\ stage = "compare" /\ todo = {}
    /\ stage' = "idle"
    /\ UNCHANGED <<running, cached, answer, todo, half, instances, channels, queue, owner,
                   served, faults>>

Compare == BeginUpdate \/ EndUpdate \/ AddInstance \/ RemoveInstance \/ EndRefresh

------------------------------------------------------------------------------
(***************************************************************************)
(* The owner and the surroundings                                          *)
(***************************************************************************)

\* what a change does to the balancer's channels
Applied(s, change) == [s EXCEPT ![change.id] = change.to]

\* the balancer polls the stream of changes
Poll ==
    /\ owner = "polling" /\ queue # <<>>
    /\ served' = Applied(served, Head(queue))
    /\ queue' = Tail(queue)
    /\ UNCHANGED <<running, cached, stage, answer, todo, half, instances, channels, owner,
                   faults>>

\* the balancer is dropped; nothing ends the refresh task
DropOwner ==
    /\ owner = "polling"
    /\ owner' = "dropped"
    /\ queue' = <<>>
    /\ served' = Empty
    /\ UNCHANGED <<running, cached, stage, answer, todo, half, instances, channels, faults>>

Building == FirstDiscover \/ FirstInsert \/ StartRefreshTask

Next ==
    \/ Building \/ Refresh \/ Compare
    \/ Poll \/ DropOwner \/ OtherDiscover

------------------------------------------------------------------------------
(***************************************************************************)
(* Properties                                                              *)
(***************************************************************************)

\* Types of the maps, the channel and the positions of the owner and the task.
TypeOK ==
    /\ {running, answer, instances, channels, served} \subseteq Map
    /\ cached \subseteq Map /\ \A x, y \in cached : x = y
    /\ stage \in {"discover", "fill", "idle", "compare"}
    /\ todo \subseteq Ids /\ half \in Ids \cup {None}
    /\ Len(queue) <= Capacity
    /\ \A k \in DOMAIN queue :
          queue[k] \in [op : {"insert", "remove"}, id : Ids, to : Values \cup {None}]
    /\ owner \in {"building", "polling", "dropped"}
    /\ faults \in 0..MaxFaults

\* what the balancer serves when it has taken all changes of the channel
Drained ==
    LET after[k \in 0..Len(queue)] ==
          IF k = 0 THEN served ELSE Applied(after[k - 1], queue[k])
    IN  after[Len(queue)]

\* The balancer, behind by what is in the channel, serves the instances that
\* ServiceDiscover knows, each over a channel made for it as it now is: no address of
\* an earlier time is left in the channel cache.
ServesKnown ==
    owner # "dropped" =>
        Drained = [i \in Ids |-> IF i = half THEN None ELSE instances[i]]

==============================================================================
