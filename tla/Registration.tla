----------------------------- MODULE Registration -----------------------------
(***************************************************************************)
(* ServiceRegistry of flare-core-transport (discovery/factory.rs): the     *)
(* owner of a registered service instance, and the task that               *)
(* ServiceRegistry::new spawns to keep it alive with heartbeats.  They     *)
(* share the discovery backend and a channel through which the owner stops *)
(* the task; the task works on the instance it was created with.           *)
(*                                                                         *)
(* An instance is its version, the number of updates it has had; the       *)
(* backend holds one version, or None.                                     *)
(***************************************************************************)
EXTENDS Naturals

CONSTANTS
    HeartbeatRegisters, \* heartbeat is DiscoveryBackend's default, as for etcd;
                        \* ConsulBackend only renews the check of what is there
    Leased,             \* the backend forgets an instance without heartbeats
    MaxUpdates,         \* bound on the updates of a behaviour
    MaxFaults           \* bound on the faults of a behaviour

ASSUME RegistrationAssumption ==
    /\ HeartbeatRegisters \in BOOLEAN /\ Leased \in BOOLEAN
    /\ MaxUpdates \in Nat /\ MaxFaults \in Nat

VARIABLES
    stored,       \* what the backend holds
    owner,        \* where the owner is
    instance,     \* the owner's instance
    unregistered, \* the owner was told that the instance is unregistered
    beat,         \* where the heartbeat task is
    stop,         \* a message is in the channel
    sender,       \* shutdown_tx has not been dropped
    faults        \* faults so far

vars == <<stored, owner, instance, unregistered, beat, stop, sender, faults>>

None == MaxUpdates + 1
Versions == 0..MaxUpdates

\* the instance_clone of the heartbeat task
Original == 0

Init ==
    /\ stored = Original
    /\ owner = "held"
    /\ instance = Original
    /\ unregistered = FALSE
    /\ beat = "beating"
    /\ stop = FALSE
    /\ sender = TRUE
    /\ faults = 0

Fault == faults < MaxFaults /\ faults' = faults + 1

------------------------------------------------------------------------------
(***************************************************************************)
(* The heartbeat task: it sends a heartbeat at once and then at every tick *)
(***************************************************************************)

\* mutant: the heartbeat of Consul is the default one
HeartbeatByDefault(version) == version

\* what the backend holds after a successful heartbeat
Heartbeat(version) == IF HeartbeatRegisters THEN version ELSE stored

\* a heartbeat succeeds only where there is something to renew
CanBeat == HeartbeatRegisters \/ stored # None

Tick ==
    /\ beat = "waiting"
    /\ beat' = "beating"
    /\ UNCHANGED <<stored, owner, instance, unregistered, stop, sender, faults>>

HeartbeatSent ==
    /\ beat = "beating" /\ CanBeat
    /\ stored' = Heartbeat(Original)
    /\ beat' = "waiting"
    /\ UNCHANGED <<owner, instance, unregistered, stop, sender, faults>>

\* mutant: the next tick is waited for
HeartbeatFailsQuietly ==
    /\ beat = "beating"
    /\ \/ ~CanBeat /\ UNCHANGED <<stored, faults>>
       \/ Fault /\ stored' \in {stored, Heartbeat(Original)}
    /\ beat' = "waiting"
    /\ UNCHANGED <<owner, instance, unregistered, stop, sender>>

\* the backend refuses it, or cannot be reached, before or after it took it
HeartbeatFails ==
    /\ beat = "beating"
    /\ \/ ~CanBeat /\ UNCHANGED <<stored, faults>>
       \/ Fault /\ stored' \in {stored, Heartbeat(Original)}
    /\ beat' = "registering"
    /\ UNCHANGED <<owner, instance, unregistered, stop, sender>>

\* the instance is registered again, or this fails too
Reregister ==
    /\ beat = "registering"
    /\ \/ stored' = Original /\ UNCHANGED faults
       \/ Fault /\ stored' \in {stored, Original}
    /\ beat' = "waiting"
    /\ UNCHANGED <<owner, instance, unregistered, stop, sender>>

\* recv has a message, or there is no sender any more
StopBeating ==
    /\ beat = "waiting" /\ (stop \/ ~sender)
    /\ beat' = "stopped"
    /\ UNCHANGED <<stored, owner, instance, unregistered, stop, sender, faults>>

------------------------------------------------------------------------------
(***************************************************************************)
(* The owner                                                               *)
(***************************************************************************)

\* update_instance: the owner keeps the update also when the backend fails
UpdateInstance ==
    /\ owner = "held" /\ instance < MaxUpdates
    /\ instance' = instance + 1
    /\ \/ stored' = instance + 1 /\ UNCHANGED faults
       \/ Fault /\ stored' \in {stored, instance + 1}
    /\ UNCHANGED <<owner, unregistered, beat, stop, sender>>

\* heartbeat of the owner
OwnHeartbeat ==
    /\ owner = "held" /\ CanBeat
    /\ stored' = Heartbeat(instance)
    /\ UNCHANGED <<owner, instance, unregistered, beat, stop, sender, faults>>

\* shutdown: shutdown_tx.send(()) is a future that nobody awaits, so that nothing is
\* sent; 100 ms later the instance is unregistered
BeginShutdown ==
    /\ owner = "held"
    /\ owner' = "stopping"
    /\ UNCHANGED <<stored, instance, unregistered, beat, stop, sender, faults>>

\* mutant: the sender lives on in the closed registry
UnregisterKeepsSender ==
    /\ owner = "stopping"
    /\ owner' = "closed"
    /\ \/ stored' = None /\ unregistered' = TRUE /\ UNCHANGED faults
       \/ Fault /\ stored' \in {stored, None} /\ UNCHANGED unregistered
    /\ UNCHANGED <<instance, beat, stop, sender>>

\* unregister, and shutdown_tx goes out of scope
Unregister ==
    /\ owner = "stopping"
    /\ owner' = "closed"
    /\ sender' = FALSE
    /\ \/ stored' = None /\ unregistered' = TRUE /\ UNCHANGED faults
       \/ Fault /\ stored' \in {stored, None} /\ UNCHANGED unregistered
    /\ UNCHANGED <<instance, beat, stop>>

\* drop without shutdown: the task is told, and another one spawned to unregister
Drop ==
    /\ owner = "held"
    /\ owner' = "dropped"
    /\ stop' = TRUE
    /\ sender' = FALSE
    /\ UNCHANGED <<stored, instance, unregistered, beat, faults>>

DropUnregisters ==
    /\ owner = "dropped"
    /\ owner' = "closed"
    /\ \/ stored' = None /\ unregistered' = TRUE /\ UNCHANGED faults
       \/ Fault /\ stored' \in {stored, None} /\ UNCHANGED unregistered
    /\ UNCHANGED <<instance, beat, stop, sender>>

------------------------------------------------------------------------------
(***************************************************************************)
(* The surroundings                                                        *)
(***************************************************************************)

\* the backend forgets an instance: its lease has run out, which is a fault as long
\* as the heartbeat task is up (the backend was restarted, or not reached for long)
Expire ==
    /\ Leased /\ stored # None
    /\ IF beat = "stopped" THEN UNCHANGED faults ELSE Fault
    /\ stored' = None
    /\ UNCHANGED <<owner, instance, unregistered, beat, stop, sender>>

\* the process dies
Crash ==
    /\ owner # "crashed" /\ Fault
    /\ owner' = "crashed"
    /\ beat' = "stopped"
    /\ UNCHANGED <<stored, instance, unregistered, stop, sender>>

BeatStep == Tick \/ HeartbeatSent \/ HeartbeatFails \/ Reregister

Finished == owner \in {"closed", "crashed"} /\ beat = "stopped" /\ UNCHANGED vars

Next ==
    \/ BeatStep \/ StopBeating
    \/ UpdateInstance \/ OwnHeartbeat \/ BeginShutdown \/ Unregister
    \/ Drop \/ DropUnregisters
    \/ Expire \/ Crash \/ Finished

Spec == Init /\ [][Next]_vars

------------------------------------------------------------------------------
(***************************************************************************)
(* Properties                                                              *)
(***************************************************************************)

\* Types of the backend, the owner, the task and their channel.
TypeOK ==
    /\ stored \in Versions \cup {None}
    /\ owner \in {"held", "stopping", "dropped", "closed", "crashed"}
    /\ instance \in Versions
    /\ unregistered \in BOOLEAN
    /\ beat \in {"beating", "registering", "waiting", "stopped"}
    /\ stop \in BOOLEAN /\ sender \in BOOLEAN
    /\ faults \in 0..MaxFaults

\* An update is not undone: without faults the backend holds the owner's instance.
UpdateSticks == faults = 0 /\ owner = "held" => stored = instance

\* After shutdown has unregistered the instance it is not registered again.
UnregisteredForGood == unregistered => stored = None

==============================================================================
