------------------------------ MODULE Propagation ------------------------------
(***************************************************************************)
(* How the identity in a context travels with a request through a chain of *)
(* services: over gRPC metadata (grpc/utils/metadata_codec.rs), the        *)
(* interceptor of a client and the ContextLayer of a server, over NATS     *)
(* headers (mq/nats/producer.rs, consumer.rs) and over the headers of      *)
(* Kafka, which use the map of utils/context.rs.  Each carrier has a codec *)
(* of its own, and no two of them agree on the actor.                      *)
(*                                                                         *)
(* Empty strings count as absent: the codecs treat them alike.  The        *)
(* attributes of an actor are left out.                                    *)
(***************************************************************************)
EXTENDS Naturals, Sequences

CONSTANTS
    Values,        \* texts: identifiers, names
    Visible,       \* those of visible ASCII, which alone may be gRPC metadata
    Uuid,          \* an identifier that is made up on the way
    Roles,         \* role names, visible and without commas
    Origins,       \* contexts that a first service makes
    Interceptors,  \* ClientContextConfigs
    Layers,        \* ContextLayers: the default tenant, or None
    MaxHops,
    None

\* ActorType; a header that is missing or not a number is Unspecified
Types == {"Unspecified", "User", "Service", "TenantAdmin", "System", "Guest"}

Fields == {"request", "trace", "tenant", "user", "device", "platform", "session"}

Actors == [id : Values, type : Types, roles : Seq(Roles)]

Contexts == [id : [Fields -> Values \cup {None}], actor : Actors \cup {None}]

\* what is in the headers of a request or message
Headers == [id : [Fields -> Values \cup {None}], actor : Values \cup {None},
            type : Types, roles : Seq(Roles)]

ASSUME PropagationAssumption ==
    /\ Visible \subseteq Values /\ Uuid \in Visible /\ None \notin Values
    /\ None \notin Actors
    /\ Origins \subseteq Contexts
    /\ Interceptors \subseteq
         [context : Contexts \cup {None}, tenant : Values \cup {None}, trace : BOOLEAN]
    /\ None \notin Contexts
    /\ \A i \in Interceptors :
          i.context # None /\ i.context.actor # None => i.context.actor.id \in Visible
    /\ Layers \subseteq Visible \cup {None}
    /\ MaxHops \in Nat

VARIABLES
    ctx,    \* the context of the service that the request has reached
    origin, \* history: the context of the first service
    via,    \* history: the carrier that brought the request here
    hops

vars == <<ctx, origin, via, hops>>

------------------------------------------------------------------------------
(***************************************************************************)
(* The codecs                                                              *)
(***************************************************************************)

NoHeaders ==
    [id |-> [f \in Fields |-> None], actor |-> None, type |-> "Unspecified", roles |-> <<>>]

Or(value, default) == IF value = None THEN default ELSE value

IsUser(actor) == actor # None /\ actor.type = "User"

ActorId(actor) == IF actor = None THEN None ELSE actor.id
ActorType(actor) == IF actor = None THEN "Unspecified" ELSE actor.type
ActorRoles(actor) == IF actor = None THEN <<>> ELSE actor.roles

\* ctx_to_map: an actor of type User fills in for a missing user
MapEncode(c) ==
    [id |-> [c.id EXCEPT !["user"] = IF IsUser(c.actor) THEN Or(@, c.actor.id) ELSE @],
     actor |-> ActorId(c.actor), type |-> ActorType(c.actor), roles |-> ActorRoles(c.actor)]

\* add_context_to_headers
NatsEncode(c) ==
    [id |-> c.id,
     actor |-> ActorId(c.actor), type |-> ActorType(c.actor), roles |-> ActorRoles(c.actor)]

\* metadata has no value that is not visible
Text(value, old) == IF value \in Visible THEN value ELSE old

\* encode_actor_to_metadata: an actor of type User overwrites the user, and the roles
\* are appended
EncodeActor(actor, h) ==
    [id |-> [h.id EXCEPT !["user"] = IF IsUser(actor) THEN Text(actor.id, @) ELSE @],
     actor |-> Text(ActorId(actor), h.actor),
     type |-> IF ActorType(actor) = "Unspecified" THEN h.type ELSE actor.type,
     roles |-> h.roles \o ActorRoles(actor)]

\* encode_context_to_metadata, into metadata that may hold entries already
GrpcEncode(c, h) ==
    EncodeActor(c.actor, [h EXCEPT !.id = [f \in Fields |-> Text(c.id[f], @[f])]])

\* mutant: the user comes first
OwnerUserFirst(h) == Or(h.id["user"], h.actor)

\* decode_actor_from_map, decode_actor_from_metadata: the user stands in for a
\* missing actor
Owner(h) == Or(h.actor, h.id["user"])

DecodeActor(h, id) ==
    IF id = None THEN None ELSE [id |-> id, type |-> h.type, roles |-> h.roles]

DecodeFields(h) == [h.id EXCEPT !["request"] = Or(@, Uuid)]

\* map_to_ctx and decode_context_from_metadata
Decode(h) == [id |-> DecodeFields(h), actor |-> DecodeActor(h, Owner(h))]

\* build_context_from_headers
NatsDecode(h) == [id |-> DecodeFields(h), actor |-> DecodeActor(h, h.actor)]

\* from_headers of an HTTP server: no actor, and a trace id in any case
HttpDecode(h) ==
    [id |-> [f \in Fields |->
               Text(h.id[f], IF f \in {"request", "trace"} THEN Uuid ELSE None)],
     actor |-> None]

------------------------------------------------------------------------------
(***************************************************************************)
(* A client's interceptor and a server's layer                             *)
(***************************************************************************)

\* mutant: the defaults of the client win
FilledAlways(c, default) ==
    [id |-> [f \in Fields |-> IF f = "request" THEN c.id[f] ELSE Or(default.id[f], c.id[f])],
     actor |-> IF c.actor = None THEN default.actor ELSE c.actor]

\* mutant: an actor without roles takes those of the default actor
FilledWithRoles(c, default) ==
    [id |-> [f \in Fields |-> IF f = "request" THEN c.id[f] ELSE Or(c.id[f], default.id[f])],
     actor |-> IF c.actor = None THEN default.actor
               ELSE IF default.actor # None /\ c.actor.roles = <<>>
               THEN [c.actor EXCEPT !.roles = default.actor.roles] ELSE c.actor]

\* the default context fills what is missing, except the request id
Filled(c, default) ==
    [id |-> [f \in Fields |-> IF f = "request" THEN c.id[f] ELSE Or(c.id[f], default.id[f])],
     actor |-> IF c.actor = None THEN default.actor ELSE c.actor]

WithTenant(c, tenant) ==
    [id |-> [c.id EXCEPT !["tenant"] = Or(@, tenant)], actor |-> c.actor]

WithTrace(c) == [id |-> [c.id EXCEPT !["trace"] = Or(@, Uuid)], actor |-> c.actor]

\* ClientContextInterceptor::call decodes the metadata, fills in what is missing and
\* encodes the result into the same metadata
Intercepted(i, h) ==
    LET received == Decode(h)
        filled == IF i.context = None THEN received ELSE Filled(received, i.context)
        owned == WithTenant(filled, i.tenant)
    IN  GrpcEncode(IF i.trace THEN WithTrace(owned) ELSE owned, h)

\* merge_request_context: the context of the layer, completed from the metadata
Merged(layered, received) ==
    [layered EXCEPT !.id = [f \in Fields |->
        IF f \in {"user", "tenant", "trace", "device"}
        THEN Or(@[f], received.id[f]) ELSE @[f]]]

\* ContextService::call copies the headers one by one, and of several values of one
\* header keeps the last
LastOnly(roles) == IF roles = <<>> THEN <<>> ELSE <<roles[Len(roles)]>>

Layered(tenant, h) == WithTenant(Decode([h EXCEPT !.roles = LastOnly(@)]), tenant)

------------------------------------------------------------------------------
(***************************************************************************)
(* The journey                                                             *)
(***************************************************************************)

\* a service makes a context, or receives one from an HTTP client, whose headers are a map
Init ==
    /\ origin \in Origins \cup {HttpDecode(MapEncode(c)) : c \in Origins}
    /\ ctx = origin
    /\ via = "start"
    /\ hops = 0

Arrive(carrier, c) ==
    /\ hops < MaxHops
    /\ hops' = hops + 1
    /\ ctx' = c
    /\ via' = carrier
    /\ UNCHANGED origin

\* request_with_context, and require_ctx_from_request at the other end
SendGrpc == Arrive("grpc", Decode(GrpcEncode(ctx, NoHeaders)))

SendGrpcIntercepted == \E i \in Interceptors :
    Arrive("grpc", Decode(Intercepted(i, GrpcEncode(ctx, NoHeaders))))

SendGrpcLayered == \E tenant \in Layers :
    LET h == GrpcEncode(ctx, NoHeaders)
    IN  Arrive("grpc", Merged(Layered(tenant, h), Decode(h)))

SendGrpcBoth == \E i \in Interceptors, tenant \in Layers :
    LET h == Intercepted(i, GrpcEncode(ctx, NoHeaders))
    IN  Arrive("grpc", Merged(Layered(tenant, h), Decode(h)))

\* NatsProducer::send to NatsMessageFetcher::decode_message
SendNats == Arrive("nats", NatsDecode(NatsEncode(ctx)))

\* KafkaProducer::send to KafkaMessageFetcher::decode_message
SendKafka == Arrive("kafka", Decode(MapEncode(ctx)))

Next ==
    \/ SendGrpc \/ SendGrpcIntercepted \/ SendGrpcLayered \/ SendGrpcBoth
    \/ SendNats \/ SendKafka

Spec == Init /\ [][Next]_vars

------------------------------------------------------------------------------
(***************************************************************************)
(* Properties                                                              *)
(***************************************************************************)

TypeOK ==
    /\ ctx \in Contexts
    /\ origin \in Contexts
    /\ via \in {"start", "grpc", "nats", "kafka"}
    /\ hops \in 0..MaxHops

\* What the first service set arrives at every service, whatever carriers, defaults
\* and layers lie between, if gRPC can carry it.  The user is exempt where a User
\* acts for another, since gRPC then names the actor as the user.
FieldsKept ==
    \A f \in Fields :
       \/ origin.id[f] \notin Visible
       \/ f = "user" /\ IsUser(origin.actor) /\ origin.actor.id # origin.id[f]
       \/ ctx.id[f] = origin.id[f]

\* require_user_id
EffectiveUser(c) == Or(ActorId(c.actor), c.id["user"])

\* Every service acts for the same user as the first: the codecs move it between the
\* user and the actor but never lose or replace it.
SameUser == EffectiveUser(origin) \in Visible => EffectiveUser(ctx) = EffectiveUser(origin)

RolesOf(actor) == {actor.roles[i] : i \in DOMAIN actor.roles}

\* the actors that somebody on the way may have named
NamedActors ==
    ({origin.actor} \cup {i.context.actor : i \in {j \in Interceptors : j.context # None}})
      \ {None}

\* Roles and type stay with their actor: they never pass to an identity that was put
\* together from parts of two.
StandingKept ==
    (origin.actor = None \/ origin.actor.id \in Visible) /\ ctx.actor # None =>
       \/ ctx.actor.type = "Unspecified" /\ ctx.actor.roles = <<>>
       \/ \E actor \in NamedActors :
             /\ ctx.actor.id = actor.id
             /\ ctx.actor.type = actor.type
             /\ RolesOf(ctx.actor) \subseteq RolesOf(actor)

==============================================================================
