------------------------------- MODULE Discovery -------------------------------
(***************************************************************************)
(* From registration to calls: a service registers an instance with Consul *)
(* and keeps it alive (Registration), a client asks Consul for the         *)
(* service's instances and balances its calls over them (ServiceDiscover). *)
(* They meet in Consul, which holds the registered instance and shows it   *)
(* to clients while its TTL check passes.  Its other instances are not     *)
(* followed to their processes, and stay as they are.                      *)
(***************************************************************************)
EXTENDS Registration, Sequences

CONSTANTS
    Ids,           \* instances of the service
    Own,           \* the one that is followed
    Capacity,      \* of the channel to the balancer, 16 in from_backend
    MaxAskFaults   \* bound on the failed requests of the client

ASSUME DiscoveryAssumption ==
    /\ Own \in Ids /\ None \notin Ids
    /\ Capacity \in Nat \ {0} /\ MaxAskFaults \in Nat

VARIABLES
    passing,   \* the TTL check of the registered instance
    others,    \* the other instances, which are up and stay as they are
    cached, stage, answer, todo, half, instances, channels, queue, balancer, served,
    askFaults  \* the client, as in ServiceDiscover

\* the answer to a request for the instances whose check passes
Running == [i \in Ids |-> IF i # Own THEN others[i] ELSE IF passing THEN stored ELSE None]

Client == INSTANCE ServiceDiscover WITH
    Values <- Versions, Steady <- Ids \ {Own}, Consul <- Leased, MaxFaults <- MaxAskFaults,
    running <- Running, owner <- balancer, faults <- askFaults

serviceVars == <<vars, passing>>
clientVars == <<cached, stage, answer, todo, half, instances, channels, queue, balancer,
                served, askFaults>>
discoveryVars == <<serviceVars, clientVars, others>>

\* The check of a service that is new is critical; that of one that is registered
\* again stays as it is.
DiscoveryInit ==
    /\ Init
    /\ passing = FALSE
    /\ others = [i \in Ids \ {Own} |-> Original]
    /\ Client!Init

------------------------------------------------------------------------------
(***************************************************************************)
(* The service                                                             *)
(***************************************************************************)

\* a heartbeat passes the check
Beats ==
    /\ HeartbeatSent \/ OwnHeartbeat
    /\ passing' = TRUE

\* one that fails may have done so
BeatFails ==
    /\ HeartbeatFails
    /\ passing' \in {passing, passing \/ (faults' > faults /\ stored # None)}

Registers ==
    /\ \/ Tick \/ Reregister \/ StopBeating \/ UpdateInstance \/ BeginShutdown
       \/ Unregister \/ Drop \/ DropUnregisters \/ Expire \/ Crash
    /\ passing' = (passing /\ stored' # None)

\* the TTL is over, which is a fault as long as there are heartbeats
CheckFails ==
    /\ passing /\ (beat = "stopped" \/ owner = "crashed")
    /\ passing' = FALSE
    /\ UNCHANGED vars

ServiceStep == Beats \/ BeatFails \/ Registers \/ CheckFails

------------------------------------------------------------------------------
(***************************************************************************)
(* The client, which leaves Consul as it is                                *)
(***************************************************************************)

Reads(A) == UNCHANGED <<serviceVars, others>> /\ A

ClientStep == Reads(Client!Next)

DiscoveryNext ==
    \/ ServiceStep /\ UNCHANGED <<clientVars, others>>
    \/ ClientStep

\* Tokio polls the heartbeat task; when its channel is ready it wins the select before
\* the next tick is due, in whatever round.  The owner need not shut down, but goes on
\* once it has begun to.  Consul lets checks and leases run out.  The client's tasks are
\* polled too, its balancer is used, and it asks Consul itself now and then: the time
\* of the cache is over in the end.
DiscoveryFairness ==
    /\ WF_discoveryVars((BeatStep /\ ServiceStep) /\ UNCHANGED <<clientVars, others>>)
    /\ SF_discoveryVars((StopBeating /\ Registers) /\ UNCHANGED <<clientVars, others>>)
    /\ WF_discoveryVars(((Unregister \/ DropUnregisters) /\ Registers)
                           /\ UNCHANGED <<clientVars, others>>)
    /\ WF_discoveryVars((beat = "stopped" /\ (CheckFails \/ (Expire /\ Registers)))
                           /\ UNCHANGED <<clientVars, others>>)
    /\ WF_discoveryVars(Reads(Client!Building))
    /\ WF_discoveryVars(Reads(Client!Compare))
    /\ WF_discoveryVars(Reads(Client!Poll))
    /\ SF_discoveryVars(Reads(Client!Refresh /\ answer' = Running'))

DiscoverySpec == DiscoveryInit /\ [][DiscoveryNext]_discoveryVars /\ DiscoveryFairness

------------------------------------------------------------------------------
(***************************************************************************)
(* Properties                                                              *)
(***************************************************************************)

\* ServiceDiscover: the balancer, behind by what is in the channel, serves the
\* instances that are known, each over a channel made for it as it now is.
ServesKnown == Client!ServesKnown

\* What clients are served and what Consul holds agree in the end: updates arrive.
Converges == <>[](balancer = "dropped" \/ served = Running)

\* As long as a service holds its registration its clients come to be served by it,
\* whatever Consul loses or refuses: a failed heartbeat registers the instance again
\* and a later one passes its check.
HeldIsServed ==
    owner = "held" ~> owner # "held" \/ balancer = "dropped" \/ served[Own] # None

\* A service that has gone, in whatever way, is served to nobody any more: neither
\* the registration, nor a cache, nor a channel on its way outlives it for good.
GoneIsGone == owner # "held" ~> [](stored = None /\ served[Own] = None)

==============================================================================
