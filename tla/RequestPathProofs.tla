--------------------------- MODULE RequestPathProofs ---------------------------
(***************************************************************************)
(* Proofs about RequestPath and the modules it is made of, for every value *)
(* of their constants.                                                     *)
(*                                                                         *)
(* 1. Propagation.  What a request carries is sound with respect to the    *)
(*    origin o of its journey if it keeps o's fields, acts for o's user    *)
(*    and lends nobody else's standing.  The same is said of a context and *)
(*    of headers: every encoding turns sound contexts into sound headers,  *)
(*    every decoding the other way round, and interceptor and layer keep   *)
(*    headers sound.                                                       *)
(* 2. Tokens.  A token is in its user's set, or revoked, or exempt.        *)
(* 3. The path: types, the contexts of all who wait, whom they act for.    *)
(* 4. Errors, and which of them are tried again.                           *)
(* 5. How long the callers hold out, and the gateway's rate.               *)
(***************************************************************************)
EXTENDS RequestPath, FiniteSetTheorems, TLAPS

------------------------------------------------------------------------------
(***************************************************************************)
(* Propagation                                                             *)
(***************************************************************************)

USE PropagationAssumption

\* the fields other than the user
FieldsFrom(o, id) ==
    \A f \in Fields \ {"user"} : o.id[f] \in Visible => id[f] = o.id[f]

\* o's user is visible, and its actor does not act for another
PlainUser(o) ==
    /\ o.id["user"] \in Visible
    /\ IsUser(o.actor) => o.actor.id = o.id["user"]

UserFrom(o, id, type, actorId) ==
    PlainUser(o) =>
       /\ id["user"] = o.id["user"]
       /\ type = "User" => actorId = o.id["user"]

SameFrom(o, id, actorId) ==
    EffectiveUser(o) \in Visible => Or(actorId, id["user"]) = EffectiveUser(o)

InRoles(roles, actor) ==
    \A i \in DOMAIN roles : \E j \in DOMAIN actor.roles : roles[i] = actor.roles[j]

Named(o) ==
    ({o.actor} \cup {i.context.actor : i \in {j \in Interceptors : j.context # None}})
      \ {None}

Bare(type, roles) == type = "Unspecified" /\ roles = <<>>

Matches(actor, actorId, type, roles) ==
    actorId = actor.id /\ type = actor.type /\ InRoles(roles, actor)

StandingFrom(o, actorId, type, roles) ==
    o.actor = None \/ o.actor.id \in Visible =>
       \/ Bare(type, roles)
       \/ \E actor \in Named(o) : Matches(actor, actorId, type, roles)

SoundParts(o, id, actorId, type, roles) ==
    /\ FieldsFrom(o, id)
    /\ UserFrom(o, id, type, actorId)
    /\ SameFrom(o, id, actorId)
    /\ StandingFrom(o, actorId, type, roles)

SoundHeaders(o, h) == SoundParts(o, h.id, h.actor, h.type, h.roles)

Sound(o, c) ==
    SoundParts(o, c.id, ActorId(c.actor), ActorType(c.actor), ActorRoles(c.actor))

------------------------------------------------------------------------------

\* Facts about the parts of a context.
LEMMA Parts ==
    ASSUME NEW c \in Contexts
    PROVE  /\ c.id \in [Fields -> Values \cup {None}]
           /\ c.actor \in Actors \cup {None}
           /\ ActorId(c.actor) \in Values \cup {None}
           /\ ActorType(c.actor) \in Types
           /\ ActorRoles(c.actor) \in Seq(Roles)
           /\ ActorId(c.actor) = None <=> c.actor = None
           /\ IsUser(c.actor) <=> ActorType(c.actor) = "User"
           /\ c.actor = None => Bare(ActorType(c.actor), ActorRoles(c.actor))
           /\ c.actor # None => /\ ActorId(c.actor) = c.actor.id
                                /\ ActorType(c.actor) = c.actor.type
                                /\ ActorRoles(c.actor) = c.actor.roles
  BY DEF Contexts, Actors, Types, ActorId, ActorType, ActorRoles, IsUser, Bare

\* A context is sound with respect to itself.
LEMMA Reflexive ==
    ASSUME NEW c \in Contexts
    PROVE  Sound(c, c)
  <1>1. FieldsFrom(c, c.id)
    BY DEF FieldsFrom
  <1>2. UserFrom(c, c.id, ActorType(c.actor), ActorId(c.actor))
    BY Parts DEF UserFrom, PlainUser, IsUser
  <1>3. SameFrom(c, c.id, ActorId(c.actor))
    BY DEF SameFrom, EffectiveUser
  <1>4. StandingFrom(c, ActorId(c.actor), ActorType(c.actor), ActorRoles(c.actor))
    <2>1. CASE c.actor = None
      BY <2>1, Parts DEF StandingFrom
    <2>2. CASE c.actor # None
      <3>1. c.actor \in Named(c)
        BY <2>2 DEF Named
      <3>2. Matches(c.actor, ActorId(c.actor), ActorType(c.actor), ActorRoles(c.actor))
        BY <2>2, Parts DEF Matches, InRoles
      <3> QED BY <3>1, <3>2 DEF StandingFrom
    <2> QED BY <2>1, <2>2
  <1> QED BY <1>1, <1>2, <1>3, <1>4 DEF Sound, SoundParts

\* Every actor that may be named can travel over gRPC, if the origin's can.
LEMMA NamedVisible ==
    ASSUME NEW o \in Contexts, o.actor = None \/ o.actor.id \in Visible,
           NEW actor \in Named(o)
    PROVE  actor \in Actors /\ actor.id \in Visible
  <1>1. CASE actor = o.actor
    BY <1>1 DEF Contexts, Named
  <1>2. CASE actor # o.actor
    <2>1. PICK i \in Interceptors : i.context # None /\ actor = i.context.actor
      BY <1>2 DEF Named
    <2>2. actor # None /\ i.context \in Contexts
      BY <2>1 DEF Named
    <2> QED BY <2>1, <2>2 DEF Contexts
  <1> QED BY <1>1, <1>2

------------------------------------------------------------------------------
(***************************************************************************)
(* Maps and NATS                                                           *)
(***************************************************************************)

\* The map of a sound context is sound.
LEMMA MapEncodeSound ==
    ASSUME NEW o \in Contexts, NEW c \in Contexts, Sound(o, c)
    PROVE  MapEncode(c) \in Headers /\ SoundHeaders(o, MapEncode(c))
  <1> DEFINE h == MapEncode(c)
  <1>1. /\ h.actor = ActorId(c.actor) /\ h.type = ActorType(c.actor)
        /\ h.roles = ActorRoles(c.actor)
    BY DEF MapEncode
  <1>2. h.id \in [Fields -> Values \cup {None}]
    BY Parts DEF MapEncode, Or, IsUser, Actors, Fields
  <1>3. h \in Headers
    BY <1>2, Parts DEF MapEncode, Headers
  <1>4. \A f \in Fields \ {"user"} : h.id[f] = c.id[f]
    BY Parts DEF MapEncode
  <1>5. h.id["user"] = IF IsUser(c.actor) THEN Or(c.id["user"], c.actor.id) ELSE c.id["user"]
    BY Parts DEF MapEncode, Fields
  <1>6. FieldsFrom(o, h.id)
    BY <1>4 DEF FieldsFrom, Sound, SoundParts
  <1>7. UserFrom(o, h.id, h.type, h.actor)
    BY <1>1, <1>5 DEF UserFrom, PlainUser, Sound, SoundParts, Or
  <1>8. SameFrom(o, h.id, h.actor)
    BY <1>1, <1>5, Parts DEF SameFrom, Sound, SoundParts, Or
  <1> QED BY <1>1, <1>3, <1>6, <1>7, <1>8 DEF SoundHeaders, Sound, SoundParts

\* The headers that NATS gives a sound context are sound.
LEMMA NatsEncodeSound ==
    ASSUME NEW o \in Contexts, NEW c \in Contexts, Sound(o, c)
    PROVE  NatsEncode(c) \in Headers /\ SoundHeaders(o, NatsEncode(c))
  <1>1. NatsEncode(c) \in Headers
    BY Parts DEF NatsEncode, Headers
  <1> QED BY <1>1 DEF NatsEncode, SoundHeaders, Sound

\* The fields that a decoder reads.
LEMMA DecodeFieldsSound ==
    ASSUME NEW h \in Headers
    PROVE  /\ DecodeFields(h) \in [Fields -> Values \cup {None}]
           /\ \A f \in Fields : h.id[f] # None => DecodeFields(h)[f] = h.id[f]
           /\ \A f \in Fields \ {"request"} : DecodeFields(h)[f] = h.id[f]
  BY DEF Headers, DecodeFields, Or, Fields

\* A decoder whose actor is the one of the headers, or else the user or nobody,
\* makes a sound context of sound headers.
LEMMA DecodedSound ==
    ASSUME NEW o \in Contexts, NEW h \in Headers, SoundHeaders(o, h),
           NEW id \in {h.actor, Owner(h)}
    PROVE  /\ [id |-> DecodeFields(h), actor |-> DecodeActor(h, id)] \in Contexts
           /\ Sound(o, [id |-> DecodeFields(h), actor |-> DecodeActor(h, id)])
  <1> DEFINE c == [id |-> DecodeFields(h), actor |-> DecodeActor(h, id)]
  <1>1. c \in Contexts
    BY DecodeFieldsSound DEF Contexts, DecodeActor, Actors, Headers, Owner, Or, Fields
  <1>2. /\ ActorId(c.actor) = id
        /\ id # None => ActorType(c.actor) = h.type /\ ActorRoles(c.actor) = h.roles
        /\ id = None => Bare(ActorType(c.actor), ActorRoles(c.actor))
    <2>1. CASE id = None
      BY <2>1 DEF DecodeActor, ActorId, ActorType, ActorRoles, Bare
    <2>2. CASE id # None
      <3>1. c.actor = [id |-> id, type |-> h.type, roles |-> h.roles]
        BY <2>2 DEF DecodeActor
      <3>2. c.actor # None
        BY <1>1, <2>2, <3>1 DEF Actors, Headers, Owner, Or, Fields
      <3> QED BY <2>2, <3>1, <3>2 DEF ActorId, ActorType, ActorRoles
    <2> QED BY <2>1, <2>2
  <1>3. FieldsFrom(o, c.id)
    BY DecodeFieldsSound DEF FieldsFrom, SoundHeaders, SoundParts
  <1>4. c.id["user"] = h.id["user"]
    BY DecodeFieldsSound DEF Fields
  <1>5. UserFrom(o, c.id, ActorType(c.actor), ActorId(c.actor))
    <2> SUFFICES ASSUME PlainUser(o)
                 PROVE  /\ c.id["user"] = o.id["user"]
                        /\ ActorType(c.actor) = "User" => ActorId(c.actor) = o.id["user"]
      BY DEF UserFrom
    <2>1. h.id["user"] = o.id["user"] /\ (h.type = "User" => h.actor = o.id["user"])
      BY DEF SoundHeaders, SoundParts, UserFrom
    <2>2. o.id["user"] # None
      BY DEF PlainUser
    <2> QED BY <1>2, <1>4, <2>1, <2>2 DEF Bare, Owner, Or
  <1>6. SameFrom(o, c.id, ActorId(c.actor))
    BY <1>2, <1>4 DEF SameFrom, SoundHeaders, SoundParts, Owner, Or
  <1>7. StandingFrom(o, ActorId(c.actor), ActorType(c.actor), ActorRoles(c.actor))
    <2> SUFFICES ASSUME o.actor = None \/ o.actor.id \in Visible
                 PROVE  \/ Bare(ActorType(c.actor), ActorRoles(c.actor))
                        \/ \E actor \in Named(o) :
                              Matches(actor, ActorId(c.actor), ActorType(c.actor),
                                      ActorRoles(c.actor))
      BY DEF StandingFrom
    <2>1. CASE id = None
      BY <1>2, <2>1
    <2>2. CASE Bare(h.type, h.roles)
      BY <1>2, <2>2
    <2>3. CASE id # None /\ ~Bare(h.type, h.roles)
      <3>1. PICK actor \in Named(o) : Matches(actor, h.actor, h.type, h.roles)
        BY <2>3 DEF SoundHeaders, SoundParts, StandingFrom
      <3>2. h.actor # None
        BY <3>1, NamedVisible DEF Matches
      <3>3. id = h.actor
        BY <3>2 DEF Owner, Or
      <3> QED BY <1>2, <2>3, <3>1, <3>3
    <2> QED BY <2>1, <2>2, <2>3
  <1> QED BY <1>1, <1>3, <1>5, <1>6, <1>7 DEF Sound, SoundParts

\* map_to_ctx and decode_context_from_metadata make sound contexts of sound headers.
LEMMA DecodeSound ==
    ASSUME NEW o \in Contexts, NEW h \in Headers, SoundHeaders(o, h)
    PROVE  Decode(h) \in Contexts /\ Sound(o, Decode(h))
  BY DecodedSound DEF Decode

\* So does build_context_from_headers.
LEMMA NatsDecodeSound ==
    ASSUME NEW o \in Contexts, NEW h \in Headers, SoundHeaders(o, h)
    PROVE  NatsDecode(h) \in Contexts /\ Sound(o, NatsDecode(h))
  BY DecodedSound DEF NatsDecode

------------------------------------------------------------------------------
(***************************************************************************)
(* gRPC                                                                    *)
(***************************************************************************)

\* What encode_context_to_metadata writes into metadata.
LEMMA GrpcEncoded ==
    ASSUME NEW c \in Contexts, NEW h \in Headers
    PROVE  LET g == GrpcEncode(c, h)
               user == Text(c.id["user"], h.id["user"])
           IN  /\ g \in Headers
               /\ \A f \in Fields \ {"user"} : g.id[f] = Text(c.id[f], h.id[f])
               /\ g.id["user"] = IF IsUser(c.actor) THEN Text(c.actor.id, user) ELSE user
               /\ g.actor = Text(ActorId(c.actor), h.actor)
               /\ g.type = IF ActorType(c.actor) = "Unspecified" THEN h.type
                           ELSE ActorType(c.actor)
               /\ g.roles = h.roles \o ActorRoles(c.actor)
  <1> DEFINE g == GrpcEncode(c, h)
             texts == [f \in Fields |-> Text(c.id[f], h.id[f])]
             user == texts["user"]
  <1>1. texts \in [Fields -> Values \cup {None}] /\ user = Text(c.id["user"], h.id["user"])
    BY Parts DEF Text, Headers, Fields
  <1>2. g.id = [texts EXCEPT !["user"] = IF IsUser(c.actor) THEN Text(c.actor.id, @) ELSE @]
    BY DEF GrpcEncode, EncodeActor, Headers
  <1>3. /\ g.actor = Text(ActorId(c.actor), h.actor)
        /\ g.type = IF ActorType(c.actor) = "Unspecified" THEN h.type ELSE c.actor.type
        /\ g.roles = h.roles \o ActorRoles(c.actor)
    BY DEF GrpcEncode, EncodeActor, Headers
  <1>4. ActorType(c.actor) # "Unspecified" => c.actor.type = ActorType(c.actor)
    BY Parts DEF ActorType
  <1>5. g.id \in [Fields -> Values \cup {None}]
    <2>1. IsUser(c.actor) => c.actor.id \in Values
      BY Parts DEF IsUser, Actors
    <2> HIDE DEF texts
    <2> QED BY <1>1, <1>2, <2>1 DEF Text
  <1>6. g.actor \in Values \cup {None} /\ g.type \in Types /\ g.roles \in Seq(Roles)
    BY <1>3, <1>4, Parts DEF Headers, Text
  <1>7. g = [id |-> g.id, actor |-> g.actor, type |-> g.type, roles |-> g.roles]
    BY DEF GrpcEncode, EncodeActor
  <1>8. g \in Headers
    BY <1>5, <1>6, <1>7 DEF Headers
  <1>9. \A f \in Fields \ {"user"} : g.id[f] = Text(c.id[f], h.id[f])
    BY <1>1, <1>2
  <1>10. g.id["user"] = IF IsUser(c.actor) THEN Text(c.actor.id, user) ELSE user
    BY <1>1, <1>2 DEF Fields
  <1> QED BY <1>1, <1>3, <1>4, <1>8, <1>9, <1>10

\* The fields survive in any metadata.
LEMMA GrpcKeepsFields ==
    ASSUME NEW o \in Contexts, NEW c \in Contexts, Sound(o, c), NEW h \in Headers
    PROVE  FieldsFrom(o, GrpcEncode(c, h).id)
  <1>1. \A f \in Fields \ {"user"} : GrpcEncode(c, h).id[f] = Text(c.id[f], h.id[f])
    BY GrpcEncoded
  <1> QED BY <1>1 DEF FieldsFrom, Sound, SoundParts, Text

\* Metadata that holds nothing of an actor but what the context has too.
Fits(c, h) ==
    /\ h.type \in {"Unspecified", ActorType(c.actor)}
    /\ h.roles \in {<<>>, ActorRoles(c.actor)}
    /\ c.actor = None => h.actor = None

\* What is appended to a sequence of roles, or to none, has the same roles.
LEMMA RolesAppended ==
    ASSUME NEW old \in Seq(Roles), NEW new \in Seq(Roles), old \in {<<>>, new}
    PROVE  /\ new = <<>> => old \o new = <<>>
           /\ \A actor : InRoles(new, actor) => InRoles(old \o new, actor)
  <1>1. \A i \in DOMAIN (old \o new) : \E k \in DOMAIN new : (old \o new)[i] = new[k]
    <2>1. CASE old = <<>>
      BY <2>1
    <2>2. CASE old = new
      <3> SUFFICES ASSUME NEW i \in 1..(Len(new) + Len(new))
                   PROVE  \E k \in 1..Len(new) : (new \o new)[i] = new[k]
        BY <2>2
      <3>1. CASE i <= Len(new)
        BY <3>1
      <3>2. CASE i > Len(new)
        BY <3>2, i - Len(new) \in 1..Len(new)
      <3> QED BY <3>1, <3>2
    <2> QED BY <2>1, <2>2
  <1>2. new = <<>> => old \o new = <<>>
    OBVIOUS
  <1>3. \A actor : InRoles(new, actor) => InRoles(old \o new, actor)
    BY <1>1 DEF InRoles
  <1> QED BY <1>2, <1>3

\* A sound context encoded into fitting metadata makes it sound.
LEMMA GrpcEncodeSound ==
    ASSUME NEW o \in Contexts, NEW c \in Contexts, Sound(o, c),
           NEW h \in Headers, Fits(c, h)
    PROVE  SoundHeaders(o, GrpcEncode(c, h))
  <1> DEFINE g == GrpcEncode(c, h)
             user == Text(c.id["user"], h.id["user"])
  <1>a. /\ g.id["user"] = IF IsUser(c.actor) THEN Text(c.actor.id, user) ELSE user
        /\ g.actor = Text(ActorId(c.actor), h.actor)
        /\ g.type = IF ActorType(c.actor) = "Unspecified" THEN h.type
                    ELSE ActorType(c.actor)
        /\ g.roles = h.roles \o ActorRoles(c.actor)
    BY GrpcEncoded
  <1>b. /\ ActorId(c.actor) = None <=> c.actor = None
        /\ IsUser(c.actor) <=> ActorType(c.actor) = "User"
        /\ IsUser(c.actor) => c.actor # None
        /\ c.actor # None => ActorId(c.actor) = c.actor.id
    BY Parts DEF IsUser
  <1> HIDE DEF g
  <1>1. FieldsFrom(o, g.id)
    BY GrpcKeepsFields DEF g
  <1>2. g.type = ActorType(c.actor)
    BY <1>a DEF Fits
  <1>3. UserFrom(o, g.id, g.type, g.actor)
    <2> SUFFICES ASSUME PlainUser(o)
                 PROVE  /\ g.id["user"] = o.id["user"]
                        /\ g.type = "User" => g.actor = o.id["user"]
      BY DEF UserFrom
    <2>1. /\ c.id["user"] = o.id["user"]
          /\ IsUser(c.actor) => c.actor.id = o.id["user"] /\ ActorId(c.actor) = c.actor.id
      BY <1>b DEF Sound, SoundParts, UserFrom
    <2>2. o.id["user"] \in Visible
      BY DEF PlainUser
    <2> QED BY <1>a, <1>b, <1>2, <2>1, <2>2 DEF Text
  <1>4. SameFrom(o, g.id, g.actor)
    <2> SUFFICES ASSUME EffectiveUser(o) \in Visible
                 PROVE  Or(g.actor, g.id["user"]) = EffectiveUser(o)
      BY DEF SameFrom
    <2>1. Or(ActorId(c.actor), c.id["user"]) = EffectiveUser(o)
      BY DEF Sound, SoundParts, SameFrom
    <2>2. EffectiveUser(o) # None
      OBVIOUS
    <2>3. CASE c.actor = None
      <3>1. g.actor = Text(None, None) /\ g.id["user"] = Text(c.id["user"], h.id["user"])
        BY <1>a, <1>b, <2>3 DEF Fits, Text
      <3>2. c.id["user"] = EffectiveUser(o)
        BY <1>b, <2>1, <2>3 DEF Or
      <3> QED BY <2>2, <3>1, <3>2 DEF Or, Text
    <2>4. CASE c.actor # None
      BY <1>a, <1>b, <2>1, <2>2, <2>4 DEF Or, Text
    <2> QED BY <2>3, <2>4
  <1>5. StandingFrom(o, g.actor, g.type, g.roles)
    <2> SUFFICES ASSUME o.actor = None \/ o.actor.id \in Visible
                 PROVE  \/ Bare(g.type, g.roles)
                        \/ \E actor \in Named(o) : Matches(actor, g.actor, g.type, g.roles)
      BY DEF StandingFrom
    <2>1. /\ ActorRoles(c.actor) = <<>> => g.roles = <<>>
          /\ \A actor : InRoles(ActorRoles(c.actor), actor) => InRoles(g.roles, actor)
      <3>1. h.roles \in Seq(Roles) /\ ActorRoles(c.actor) \in Seq(Roles)
        BY Parts DEF Headers
      <3>2. h.roles \in {<<>>, ActorRoles(c.actor)}
        BY DEF Fits
      <3> QED BY <1>a, <3>1, <3>2, RolesAppended
    <2>2. CASE Bare(ActorType(c.actor), ActorRoles(c.actor))
      BY <1>2, <2>1, <2>2 DEF Bare
    <2>3. CASE ~Bare(ActorType(c.actor), ActorRoles(c.actor))
      <3>1. PICK actor \in Named(o) :
              Matches(actor, ActorId(c.actor), ActorType(c.actor), ActorRoles(c.actor))
        BY <2>3 DEF Sound, SoundParts, StandingFrom
      <3>2. g.actor = actor.id
        BY <1>a, <3>1, NamedVisible DEF Matches, Text
      <3> QED BY <1>2, <2>1, <3>1, <3>2 DEF Matches
    <2> QED BY <2>2, <2>3
  <1> QED BY <1>1, <1>3, <1>4, <1>5 DEF SoundHeaders, SoundParts, g

\* New metadata fits every context.
LEMMA NewMetadata ==
    NoHeaders \in Headers /\ \A c \in Contexts : Fits(c, NoHeaders)
  BY DEF NoHeaders, Headers, Types, Fits

------------------------------------------------------------------------------
(***************************************************************************)
(* Interceptor and layer                                                   *)
(***************************************************************************)

\* d completes c: it is a context that has whatever fields c has.
Completes(c, d) ==
    /\ d \in Contexts
    /\ \A f \in Fields : c.id[f] # None => d.id[f] = c.id[f]

\* A sound context may be completed, and if it names nobody an actor be added.
LEMMA CompletedSound ==
    ASSUME NEW o \in Contexts, NEW c \in Contexts, Sound(o, c),
           NEW d, Completes(c, d),
           \/ d.actor = c.actor
           \/ c.actor = None /\ c.id["user"] = None /\ d.actor \in Named(o)
    PROVE  Sound(o, d)
  <1>1. FieldsFrom(o, d.id)
    BY DEF FieldsFrom, Sound, SoundParts, Completes
  <1>2. c.id["user"] # None => d.id["user"] = c.id["user"]
    BY DEF Completes, Fields
  <1>3. CASE d.actor = c.actor
    <2>1. UserFrom(o, d.id, ActorType(d.actor), ActorId(d.actor))
      BY <1>2, <1>3 DEF UserFrom, PlainUser, Sound, SoundParts
    <2>2. SameFrom(o, d.id, ActorId(d.actor))
      BY <1>2, <1>3 DEF SameFrom, Or, Sound, SoundParts
    <2> QED BY <1>1, <1>3, <2>1, <2>2 DEF Sound, SoundParts
  <1>4. CASE c.actor = None /\ c.id["user"] = None /\ d.actor \in Named(o)
    <2>1. ActorId(c.actor) = None
      BY <1>4 DEF ActorId
    <2>2. ~PlainUser(o)
      BY <1>4 DEF Sound, SoundParts, UserFrom, PlainUser
    <2>3. EffectiveUser(o) \notin Visible
      BY <1>4, <2>1 DEF Sound, SoundParts, SameFrom, Or
    <2>4. Matches(d.actor, ActorId(d.actor), ActorType(d.actor), ActorRoles(d.actor))
      BY <1>4, Parts DEF Completes, Matches, InRoles, Named
    <2> QED BY <1>1, <1>4, <2>2, <2>3, <2>4
            DEF Sound, SoundParts, UserFrom, SameFrom, StandingFrom
  <1> QED BY <1>3, <1>4

\* The default context of an interceptor completes a context.
LEMMA FilledCompletes ==
    ASSUME NEW c \in Contexts, NEW default \in Contexts
    PROVE  /\ Completes(c, Filled(c, default))
           /\ Filled(c, default).actor = IF c.actor = None THEN default.actor ELSE c.actor
  BY DEF Filled, Completes, Contexts, Or

\* So does a default tenant.
LEMMA WithTenantCompletes ==
    ASSUME NEW c \in Contexts, NEW tenant \in Values \cup {None}
    PROVE  Completes(c, WithTenant(c, tenant)) /\ WithTenant(c, tenant).actor = c.actor
  <1> DEFINE id == [c.id EXCEPT !["tenant"] = Or(@, tenant)]
  <1>1. id \in [Fields -> Values \cup {None}]
    BY DEF Contexts, Or, Fields
  <1>2. \A f \in Fields : c.id[f] # None => id[f] = c.id[f]
    BY DEF Contexts, Or
  <1>3. WithTenant(c, tenant) = [id |-> id, actor |-> c.actor]
    BY DEF WithTenant
  <1> HIDE DEF id
  <1> QED BY <1>1, <1>2, <1>3 DEF Completes, Contexts

\* So does a generated trace.
LEMMA WithTraceCompletes ==
    ASSUME NEW c \in Contexts
    PROVE  Completes(c, WithTrace(c)) /\ WithTrace(c).actor = c.actor
  <1> DEFINE id == [c.id EXCEPT !["trace"] = Or(@, Uuid)]
  <1>1. id \in [Fields -> Values \cup {None}]
    BY DEF Contexts, Or, Fields
  <1>2. \A f \in Fields : c.id[f] # None => id[f] = c.id[f]
    BY DEF Contexts, Or
  <1>3. WithTrace(c) = [id |-> id, actor |-> c.actor]
    BY DEF WithTrace
  <1> HIDE DEF id
  <1> QED BY <1>1, <1>2, <1>3 DEF Completes, Contexts

\* So does the merge with the metadata.
LEMMA MergedCompletes ==
    ASSUME NEW c \in Contexts, NEW received \in Contexts
    PROVE  Completes(c, Merged(c, received)) /\ Merged(c, received).actor = c.actor
  BY DEF Merged, Completes, Contexts, Or

\* ClientContextInterceptor keeps headers sound.
LEMMA InterceptedSound ==
    ASSUME NEW o \in Contexts, NEW h \in Headers, SoundHeaders(o, h),
           NEW i \in Interceptors
    PROVE  Intercepted(i, h) \in Headers /\ SoundHeaders(o, Intercepted(i, h))
  <1> DEFINE received == Decode(h)
             filled == IF i.context = None THEN received ELSE Filled(received, i.context)
             owned == WithTenant(filled, i.tenant)
             sent == IF i.trace THEN WithTrace(owned) ELSE owned
  <1>1. Intercepted(i, h) = GrpcEncode(sent, h)
    BY DEF Intercepted
  <1>2. received \in Contexts /\ Sound(o, received)
    BY DecodeSound
  <1>3. /\ received.id["user"] = h.id["user"]
        /\ received.actor = DecodeActor(h, Owner(h))
    BY DecodeFieldsSound DEF Decode, Fields
  <1>4. /\ i.context # None => i.context \in Contexts
        /\ i.tenant \in Values \cup {None}
    OBVIOUS
  <1> HIDE DEF received
  <1>5. /\ Completes(received, filled)
        /\ \/ filled.actor = received.actor
           \/ received.actor = None /\ filled.actor \in Named(o)
    <2>1. CASE i.context = None
      BY <1>2, <2>1 DEF Completes
    <2>2. CASE i.context # None
      <3>1. i.context.actor # None => i.context.actor \in Named(o)
        BY <2>2 DEF Named
      <3> QED BY <1>2, <1>4, <2>2, <3>1, FilledCompletes
    <2> QED BY <2>1, <2>2
  <1> HIDE DEF filled
  <1>6. Completes(filled, owned) /\ owned.actor = filled.actor
    BY <1>4, <1>5, WithTenantCompletes DEF Completes
  <1> HIDE DEF owned
  <1>7. Completes(owned, sent) /\ sent.actor = owned.actor
    BY <1>6, WithTraceCompletes DEF Completes
  <1> HIDE DEF sent
  <1>8. Completes(received, sent)
    BY <1>5, <1>6, <1>7 DEF Completes
  <1>9. sent \in Contexts
    BY <1>7 DEF Completes
  <1>10. Owner(h) = None => h.actor = None /\ h.id["user"] = None
    BY DEF Owner, Or
  <1>11. received.actor = None <=> Owner(h) = None
    BY <1>2, <1>3 DEF DecodeActor, Contexts, Actors, Headers, Owner, Or, Fields
  <1>12. Sound(o, sent)
    BY <1>2, <1>3, <1>5, <1>6, <1>7, <1>8, <1>10, <1>11, CompletedSound
  <1>13. GrpcEncode(sent, h) \in Headers
    BY <1>9, GrpcEncoded
  <1>14. CASE Owner(h) # None
    <2>1. sent.actor = [id |-> Owner(h), type |-> h.type, roles |-> h.roles]
      BY <1>3, <1>5, <1>6, <1>7, <1>11, <1>14 DEF DecodeActor
    <2>2. sent.actor # None
      BY <1>5, <1>6, <1>7, <1>11, <1>14
    <2>3. Fits(sent, h)
      BY <2>1, <2>2 DEF Fits, ActorType, ActorRoles
    <2> QED BY <1>1, <1>9, <1>12, <1>13, <2>3, GrpcEncodeSound
  <1>15. CASE Owner(h) = None
    <2>1. ~PlainUser(o)
      BY <1>10, <1>15 DEF SoundHeaders, SoundParts, UserFrom, PlainUser
    <2>2. EffectiveUser(o) \notin Visible
      BY <1>10, <1>15 DEF SoundHeaders, SoundParts, SameFrom, Or
    <2>3. CASE o.actor = None \/ o.actor.id \in Visible
      <3>1. Bare(h.type, h.roles)
        BY <1>10, <1>15, <2>3, NamedVisible
           DEF SoundHeaders, SoundParts, StandingFrom, Matches
      <3>2. Fits(sent, h)
        BY <1>10, <1>15, <3>1 DEF Fits, Bare
      <3> QED BY <1>1, <1>9, <1>12, <1>13, <3>2, GrpcEncodeSound
    <2>4. CASE ~(o.actor = None \/ o.actor.id \in Visible)
      <3>1. FieldsFrom(o, GrpcEncode(sent, h).id)
        BY <1>9, <1>12, GrpcKeepsFields
      <3> QED BY <1>1, <1>13, <2>1, <2>2, <2>4, <3>1
              DEF SoundHeaders, SoundParts, UserFrom, SameFrom, StandingFrom
    <2> QED BY <2>3, <2>4
  <1> QED BY <1>14, <1>15

\* The layer's copy of the headers is sound.
LEMMA LastOnlySound ==
    ASSUME NEW o \in Contexts, NEW h \in Headers, SoundHeaders(o, h)
    PROVE  /\ [h EXCEPT !.roles = LastOnly(@)] \in Headers
           /\ SoundHeaders(o, [h EXCEPT !.roles = LastOnly(@)])
  <1> DEFINE g == [h EXCEPT !.roles = LastOnly(@)]
  <1>1. h.roles \in Seq(Roles)
    BY DEF Headers
  <1>2. CASE h.roles = <<>>
    BY <1>2 DEF LastOnly, Headers, SoundHeaders
  <1>3. CASE h.roles # <<>>
    <2>1. Len(h.roles) \in DOMAIN h.roles /\ h.roles[Len(h.roles)] \in Roles
      BY <1>1, <1>3
    <2>2. g.roles = <<h.roles[Len(h.roles)]>> /\ g.roles \in Seq(Roles)
      BY <1>3, <2>1 DEF LastOnly, Headers
    <2>3. g.id = h.id /\ g.actor = h.actor /\ g.type = h.type /\ g \in Headers
      BY <2>2 DEF Headers
    <2>4. \A actor : InRoles(h.roles, actor) => InRoles(g.roles, actor)
      BY <2>1, <2>2 DEF InRoles
    <2>5. ~Bare(h.type, h.roles)
      BY <1>3 DEF Bare
    <2>6. StandingFrom(o, g.actor, g.type, g.roles)
      BY <2>3, <2>4, <2>5 DEF SoundHeaders, SoundParts, StandingFrom, Matches
    <2> QED BY <2>3, <2>6 DEF SoundHeaders, SoundParts
  <1> QED BY <1>2, <1>3

\* ContextLayer and require_ctx_from_request make a sound context of sound headers.
LEMMA LayeredSound ==
    ASSUME NEW o \in Contexts, NEW h \in Headers, SoundHeaders(o, h),
           NEW tenant \in Layers
    PROVE  /\ Merged(Layered(tenant, h), Decode(h)) \in Contexts
           /\ Sound(o, Merged(Layered(tenant, h), Decode(h)))
  <1> DEFINE copied == Decode([h EXCEPT !.roles = LastOnly(@)])
             layered == WithTenant(copied, tenant)
             merged == Merged(layered, Decode(h))
  <1>1. copied \in Contexts /\ Sound(o, copied)
    BY LastOnlySound, DecodeSound
  <1>2. Decode(h) \in Contexts
    BY DecodeSound
  <1> HIDE DEF copied
  <1>3. Completes(copied, layered) /\ layered.actor = copied.actor
    BY <1>1, WithTenantCompletes
  <1> HIDE DEF layered
  <1>4. layered \in Contexts /\ Sound(o, layered)
    BY <1>1, <1>3, CompletedSound DEF Completes
  <1>5. Completes(layered, merged) /\ merged.actor = layered.actor
    BY <1>2, <1>4, MergedCompletes
  <1> HIDE DEF merged
  <1>6. merged \in Contexts /\ Sound(o, merged)
    BY <1>4, <1>5, CompletedSound DEF Completes
  <1> QED BY <1>6 DEF merged, layered, copied, Layered

------------------------------------------------------------------------------
(***************************************************************************)
(* The journey                                                             *)
(***************************************************************************)

PropagationInv == TypeOK /\ Sound(origin, ctx)

\* A first service's context is its own origin.
LEMMA InitSound == Init => PropagationInv
  <1> SUFFICES ASSUME Init PROVE PropagationInv
    OBVIOUS
  <1>1. origin \in Contexts
    <2>1. CASE origin \in Origins
      BY <2>1
    <2>2. CASE origin \notin Origins
      <3>1. PICK c \in Origins : origin = HttpDecode(MapEncode(c))
        BY <2>2 DEF Init
      <3>2. MapEncode(c) \in Headers
        BY Reflexive, MapEncodeSound
      <3> QED BY <3>1, <3>2 DEF HttpDecode, Headers, Contexts, Text
    <2> QED BY <2>1, <2>2
  <1> QED BY <1>1, Reflexive DEF Init, PropagationInv, TypeOK

\* Every carrier delivers a sound context.
LEMMA StepSound == PropagationInv /\ [Next]_vars => PropagationInv'
  <1> SUFFICES ASSUME PropagationInv, [Next]_vars PROVE PropagationInv'
    OBVIOUS
  <1>1. origin \in Contexts /\ ctx \in Contexts /\ Sound(origin, ctx)
    BY DEF PropagationInv, TypeOK
  <1> DEFINE sent == GrpcEncode(ctx, NoHeaders)
  <1>2. sent \in Headers /\ SoundHeaders(origin, sent)
    BY <1>1, NewMetadata, GrpcEncoded, GrpcEncodeSound
  <1>3. ASSUME NEW carrier \in {"grpc", "nats", "kafka"},
               NEW c \in Contexts, Sound(origin, c), Arrive(carrier, c)
        PROVE  PropagationInv'
    BY <1>3 DEF Arrive, PropagationInv, TypeOK
  <1> HIDE DEF sent
  <1>4. CASE SendGrpc
    BY <1>1, <1>2, <1>3, <1>4, DecodeSound DEF SendGrpc, sent
  <1>5. CASE SendGrpcIntercepted
    <2>1. PICK i \in Interceptors : Arrive("grpc", Decode(Intercepted(i, sent)))
      BY <1>5 DEF SendGrpcIntercepted, sent
    <2> QED BY <1>1, <1>2, <1>3, <2>1, InterceptedSound, DecodeSound
  <1>6. CASE SendGrpcLayered
    <2>1. PICK tenant \in Layers : Arrive("grpc", Merged(Layered(tenant, sent), Decode(sent)))
      BY <1>6 DEF SendGrpcLayered, sent
    <2> QED BY <1>1, <1>2, <1>3, <2>1, LayeredSound
  <1>7. CASE SendGrpcBoth
    <2>1. PICK i \in Interceptors, tenant \in Layers :
            LET h == Intercepted(i, sent)
            IN  Arrive("grpc", Merged(Layered(tenant, h), Decode(h)))
      BY <1>7 DEF SendGrpcBoth, sent
    <2> DEFINE h == Intercepted(i, sent)
    <2>2. h \in Headers /\ SoundHeaders(origin, h)
      BY <1>1, <1>2, InterceptedSound
    <2>3. Arrive("grpc", Merged(Layered(tenant, h), Decode(h)))
      BY <2>1
    <2> HIDE DEF h
    <2> QED BY <1>1, <1>3, <2>2, <2>3, LayeredSound
  <1>8. CASE SendNats
    BY <1>1, <1>3, <1>8, NatsEncodeSound, NatsDecodeSound DEF SendNats
  <1>9. CASE SendKafka
    BY <1>1, <1>3, <1>9, MapEncodeSound, DecodeSound DEF SendKafka
  <1>10. CASE UNCHANGED vars
    BY <1>10 DEF vars, PropagationInv, TypeOK
  <1> QED BY <1>4, <1>5, <1>6, <1>7, <1>8, <1>9, <1>10 DEF Next

\* What the first service set arrives.
LEMMA SoundFields == PropagationInv => FieldsKept
  <1> SUFFICES ASSUME PropagationInv, NEW f \in Fields, origin.id[f] \in Visible,
                      ~(f = "user" /\ IsUser(origin.actor)
                          /\ origin.actor.id # origin.id[f])
               PROVE  ctx.id[f] = origin.id[f]
    BY DEF FieldsKept
  <1>1. CASE f = "user"
    BY <1>1 DEF PropagationInv, Sound, SoundParts, UserFrom, PlainUser
  <1>2. CASE f # "user"
    BY <1>2 DEF PropagationInv, Sound, SoundParts, FieldsFrom
  <1> QED BY <1>1, <1>2

\* The user of the first service is the user of this one.
LEMMA SoundSameUser == PropagationInv => SameUser
  BY DEF PropagationInv, Sound, SoundParts, SameFrom, SameUser, EffectiveUser

\* Roles and type have stayed with their actor.
LEMMA SoundStanding == PropagationInv => StandingKept
  <1> SUFFICES ASSUME PropagationInv, origin.actor = None \/ origin.actor.id \in Visible,
                      ctx.actor # None, ~Bare(ctx.actor.type, ctx.actor.roles)
               PROVE  \E actor \in NamedActors :
                         /\ ctx.actor.id = actor.id
                         /\ ctx.actor.type = actor.type
                         /\ RolesOf(ctx.actor) \subseteq RolesOf(actor)
    BY DEF StandingKept, Bare
  <1>1. ctx \in Contexts
    BY DEF PropagationInv, TypeOK
  <1>2. PICK actor \in Named(origin) :
          Matches(actor, ctx.actor.id, ctx.actor.type, ctx.actor.roles)
    BY <1>1, Parts DEF PropagationInv, Sound, SoundParts, StandingFrom
  <1>3. RolesOf(ctx.actor) \subseteq RolesOf(actor)
    BY <1>2 DEF Matches, InRoles, RolesOf
  <1> QED BY <1>2, <1>3 DEF Matches, Named, NamedActors

HIDE PropagationAssumption

------------------------------------------------------------------------------
(***************************************************************************)
(* Tokens                                                                  *)
(***************************************************************************)

\* What a request may present: nothing, a refusal (of a hook, with a reason), a
\* voucher, or a token of the user.
Presentations ==
    {NotPresented, Refused, [stage |-> "vouched"]}
    \cup [stage : {"refused"}, error : {"InvalidToken", "ProviderUnavailable"}]
    \cup [stage : {"decoded", "accepted"}, token : Tokens, late : BOOLEAN]

TokenStages == {"none", "active", "listed", "issued", "leaving", "gone", "failed"}

TokensOK ==
    /\ now \in Nat
    /\ token \in [Tokens -> [stage : TokenStages, exp : Nat]]
    /\ list \in [of : SUBSET Tokens, until : Nat]
    /\ revokedUntil \in [Tokens -> Nat]
    /\ sweep \in [on : BOOLEAN, left : SUBSET Tokens, found : SUBSET Tokens]
    /\ presented \in Presentations
    /\ tokenFaults \in Nat
    /\ revoked \in SUBSET Tokens
    /\ stray \in SUBSET Tokens

Over(t) == now >= token[t].exp
Barred(t) == revokedUntil[t] >= token[t].exp

\* a token that the set of the user holds for as long as it lives
InList(t) == t \in list.of /\ (list.until = 0 \/ list.until >= token[t].exp)

\* No token lives longer than from now on.
LifeInv == \A t \in Tokens : token[t].exp <= now + Life

\* A token handed out is in the user's set, or has been revoked, or is exempt.
ListInv == \A t \in Tokens :
    token[t].stage = "issued" /\ t \notin stray =>
        Over(t) \/ t \in revoked \/ InList(t)

\* Whoever is said to be revoked is known, and barred for the rest of its life.
RevokedInv == \A t \in revoked : t \in Known /\ (Over(t) \/ Barred(t))

\* A sweep bars those it has found, or has still to do so, and it has found all that
\* it could.
SweepInv ==
    /\ \A t \in sweep.found : t \in Known /\ (Over(t) \/ Barred(t) \/ t \in sweep.left)
    /\ sweep.on => Registering \subseteq stray
    /\ sweep.on => \A t \in Tokens :
          token[t].stage = "issued" /\ t \notin stray => t \in sweep.found

\* A request whose token had been revoked when it was decoded is late.
LateInv ==
    /\ presented.stage \in {"decoded", "accepted"} => presented.token \in Known
    /\ presented.stage = "decoded" /\ presented.late => presented.token \in revoked
    /\ presented.stage = "accepted" /\ presented.late => Over(presented.token)

TokenInv == TokensOK /\ LifeInv /\ ListInv /\ RevokedInv /\ SweepInv /\ LateInv

LEMMA TokenInvInit == now \in Nat /\ TokenInit => TokenInv
  <1> SUFFICES ASSUME now \in Nat, TokenInit PROVE TokenInv
    OBVIOUS
  <1> USE TokenAssumption
  <1>1. TokensOK
    BY DEF TokenInit, TokensOK, Presentations, TokenStages
  <1>2. LifeInv /\ ListInv /\ RevokedInv /\ SweepInv /\ LateInv
    BY DEF TokenInit, LifeInv, ListInv, RevokedInv, SweepInv, LateInv, Registering, NotPresented
  <1> QED BY <1>1, <1>2 DEF TokenInv

LEMMA TokenInvImplies == TokenInv => RevokedStays
  BY TokenAssumption DEF TokenInv, TokensOK, LateInv, RevokedStays, Over, Known

\* As time passes all stays as it is.
LEMMA TokenInvWaits ==
    ASSUME TokenInv, now' \in Nat, now <= now', UNCHANGED tokenVars
    PROVE  TokenInv'
  <1> USE TokenAssumption DEF tokenVars
  <1>1. TokensOK'
    BY DEF TokenInv, TokensOK
  <1>2. \A t \in Tokens : (Over(t) => Over(t)') /\ (Barred(t) <=> Barred(t)') /\ (InList(t) <=> InList(t)')
    BY DEF TokenInv, TokensOK, Over, Barred, InList
  <1>3. Known' = Known /\ Registering' = Registering
    BY DEF Known, Registering
  <1>4. LifeInv'
    BY DEF TokenInv, TokensOK, LifeInv
  <1>5. ListInv' /\ RevokedInv' /\ SweepInv'
    BY <1>2, <1>3 DEF TokenInv, TokensOK, ListInv, RevokedInv, SweepInv, Known
  <1>6. LateInv'
    BY <1>2, <1>3 DEF TokenInv, TokensOK, LateInv, Known
  <1> QED BY <1>1, <1>4, <1>5, <1>6 DEF TokenInv

\* Registering a token: it lives from now on, joins the list, and is handed out.
LEMMA RegisterKeeps ==
    ASSUME TokenInv, NEW t \in Tokens,
           Generate(t) \/ ListToken(t) \/ KeepList(t) \/ RegisterFails(t)
    PROVE  TokenInv'
  <1> USE TokenAssumption DEF TokenInv
  <1>1. TokensOK'
    <2>1. token[t].exp \in Nat /\ Listed \in SUBSET Tokens /\ now + Life \in Nat
      BY DEF TokensOK, Listed
    <2>2. CASE Generate(t)
      BY <2>1, <2>2 DEF Generate, TokensOK, TokenStages
    <2>3. CASE ListToken(t)
      BY <2>1, <2>3 DEF ListToken, Goes, TokensOK, TokenStages
    <2>4. CASE KeepList(t)
      BY <2>1, <2>4 DEF KeepList, Goes, TokensOK, TokenStages
    <2>5. CASE RegisterFails(t)
      BY <2>1, <2>5 DEF RegisterFails, Goes, TokenFault, TokensOK, TokenStages
    <2> QED BY <2>2, <2>3, <2>4, <2>5
  <1>2. /\ UNCHANGED <<now, revokedUntil, sweep, presented, revoked>>
        /\ token[t].stage \in {"none", "active", "listed"}
        /\ \A s \in Tokens \ {t} : token'[s] = token[s]
        /\ token'[t].exp = token[t].exp \/ (token[t].stage = "none" /\ token'[t].exp = now + Life)
        /\ stray \subseteq stray'
    BY DEF Generate, ListToken, KeepList, RegisterFails, Goes, TokensOK
  <1>3. Known \subseteq Known' /\ t \notin Known
    BY <1>2 DEF Known
  <1>4. LifeInv'
    BY <1>2 DEF LifeInv, TokensOK
  <1>5. \A s \in Known : token'[s] = token[s]
    BY <1>2, <1>3 DEF Known
  <1>6. RevokedInv'
    BY <1>2, <1>3, <1>5 DEF RevokedInv, Over, Barred
  <1>7. LateInv'
    BY <1>2, <1>3, <1>5 DEF LateInv, Over
  <1>8. SweepInv'
    <2>1. \A s \in sweep.found : s \in Known' /\ (Over(s)' \/ Barred(s)' \/ s \in sweep'.left)
      BY <1>2, <1>3, <1>5 DEF SweepInv, Over, Barred
    <2>2. sweep.on /\ token'[t].stage # "failed" => t \in stray'
      BY <1>2 DEF Generate, ListToken, KeepList, RegisterFails, Goes, SweepInv, Registering,
         TokensOK
    <2>3. sweep.on => Registering' \subseteq stray'
      BY <1>2, <2>2 DEF SweepInv, Registering
    <2> QED BY <1>2, <2>1, <2>2, <2>3 DEF SweepInv
  <1>9. ListInv'
    <2> SUFFICES ASSUME NEW s \in Tokens, token'[s].stage = "issued", s \notin stray'
                 PROVE  Over(s)' \/ s \in revoked' \/ InList(s)'
      BY DEF ListInv
    <2>1. CASE s = t
      <3>1. KeepList(t) /\ t \in Listed
        BY <1>2, <2>1 DEF Generate, ListToken, KeepList, RegisterFails, Goes, TokensOK
      <3>2. list' = [of |-> Listed, until |-> now + Life] /\ token'[t].exp = token[t].exp
        BY <1>2, <3>1 DEF KeepList
      <3> QED BY <2>1, <3>1, <3>2 DEF InList, LifeInv, TokensOK
    <2>2. CASE s # t
      <3>1. token'[s] = token[s] /\ (Over(s) \/ s \in revoked \/ InList(s))
        BY <1>2, <2>2 DEF ListInv
      <3>2. CASE list' = list
        BY <1>2, <3>1, <3>2 DEF Over, InList
      <3>3. CASE list' # list
        <4>1. /\ ListToken(t) \/ KeepList(t)
              /\ Listed \subseteq list'.of
              /\ list'.until \in {0, list.until, now + Life}
          BY <3>3 DEF Generate, ListToken, KeepList, RegisterFails
        <4>2. InList(s) => Over(s) \/ s \in Listed
          BY DEF InList, Listed, Over, TokensOK
        <4> QED BY <1>2, <3>1, <4>1, <4>2 DEF Over, InList, LifeInv, TokensOK
      <3> QED BY <3>2, <3>3
    <2> QED BY <2>1, <2>2
  <1> QED BY <1>1, <1>4, <1>6, <1>7, <1>8, <1>9

\* revoke takes the token out of the list and then bars it, or fails in between.
LEMMA RevokeKeeps ==
    ASSUME TokenInv, NEW t \in Tokens, BeginRevoke(t) \/ EndRevoke(t) \/ RevokeFails(t)
    PROVE  TokenInv'
  <1> USE TokenAssumption DEF TokenInv
  <1>1. TokensOK'
    <2>1. token[t].exp \in Nat /\ Listed \in SUBSET Tokens /\ RevokedNow(t) \in [Tokens -> Nat]
      BY DEF TokensOK, Listed, RevokedNow
    <2>2. CASE BeginRevoke(t)
      BY <2>1, <2>2 DEF BeginRevoke, Goes, TokensOK, TokenStages
    <2>3. CASE EndRevoke(t)
      BY <2>1, <2>3 DEF EndRevoke, Goes, TokensOK, TokenStages
    <2>4. CASE RevokeFails(t)
      BY <2>1, <2>4 DEF RevokeFails, Goes, TokenFault, TokensOK, TokenStages
    <2> QED BY <2>2, <2>3, <2>4
  <1>2. /\ UNCHANGED <<now, sweep, presented>>
        /\ \A s \in Tokens : token'[s].exp = token[s].exp
        /\ \A s \in Tokens \ {t} : token'[s] = token[s]
        /\ token[t].stage \in {"issued", "leaving"}
        /\ token'[t].stage \in {"issued", "leaving", "gone"}
        /\ stray' \in {stray, stray \cup {t}}
        /\ revoked \subseteq revoked'
        /\ revokedUntil' \in {revokedUntil, RevokedNow(t)}
    BY DEF BeginRevoke, EndRevoke, RevokeFails, Goes, TokensOK
  <1>3. Known' = Known
    BY <1>2 DEF Known
  <1>4. LifeInv'
    BY <1>2 DEF LifeInv, TokensOK
  <1>5. \A s \in Tokens : (Over(s)' <=> Over(s)) /\ (Barred(s) => Barred(s)')
    BY <1>2 DEF Over, Barred, RevokedNow, LifeInv, TokensOK
  <1>6. RevokedInv'
    <2>1. revoked' # revoked => revoked' = revoked \cup {t} /\ revokedUntil' = RevokedNow(t)
      BY DEF BeginRevoke, EndRevoke, RevokeFails
    <2>2. revokedUntil' = RevokedNow(t) => Barred(t)'
      BY <1>2 DEF Barred, RevokedNow, LifeInv, TokensOK
    <2>3. t \in Known
      BY <1>2 DEF Known
    <2> QED BY <1>3, <1>5, <2>1, <2>2, <2>3 DEF RevokedInv, TokensOK
  <1>7. LateInv'
    BY <1>2, <1>3, <1>5 DEF LateInv, Known
  <1>8. SweepInv'
    <2>1. Registering' = Registering
      BY <1>2 DEF Registering
    <2>2. \A s \in sweep.found : s \in Tokens
      BY DEF TokensOK
    <2>3. token'[t].stage = "issued" => t \in stray'
      BY DEF BeginRevoke, EndRevoke, RevokeFails, Goes, TokensOK
    <2> QED BY <1>2, <1>3, <1>5, <2>1, <2>2, <2>3 DEF SweepInv
  <1>9. ListInv'
    <2> SUFFICES ASSUME NEW s \in Tokens, token'[s].stage = "issued", s \notin stray'
                 PROVE  Over(s)' \/ s \in revoked' \/ InList(s)'
      BY DEF ListInv
    <2>1. s # t
      BY DEF BeginRevoke, EndRevoke, RevokeFails, Goes, TokensOK
    <2>2. token'[s] = token[s] /\ (Over(s) \/ s \in revoked \/ InList(s))
      BY <1>2, <2>1 DEF ListInv
    <2>3. list' \in {list, [list EXCEPT !.of = Listed \ {t}]}
      BY DEF BeginRevoke, EndRevoke, RevokeFails
    <2>4. InList(s) => Over(s) \/ s \in Listed
      BY DEF InList, Listed, Over, TokensOK
    <2> QED BY <1>2, <1>5, <2>1, <2>2, <2>3, <2>4 DEF InList, TokensOK
  <1> QED BY <1>1, <1>4, <1>6, <1>7, <1>8, <1>9

\* revoke_user bars the tokens it has found one by one, then deletes the list.
LEMMA SweepKeeps ==
    ASSUME TokenInv, BeginSweep \/ SweepOne \/ EndSweep \/ SweepFails
    PROVE  TokenInv'
  <1> USE TokenAssumption DEF TokenInv
  <1>1. TokensOK'
    <2>1. Listed \in SUBSET Tokens /\ \A t \in Tokens : RevokedNow(t) \in [Tokens -> Nat]
      BY DEF TokensOK, Listed, RevokedNow
    <2>2. CASE BeginSweep
      BY <2>1, <2>2 DEF BeginSweep, Known, Registering, TokensOK
    <2>3. CASE SweepOne
      BY <2>1, <2>3 DEF SweepOne, TokensOK
    <2>4. CASE EndSweep
      BY <2>1, <2>4 DEF EndSweep, TokensOK
    <2>5. CASE SweepFails
      BY <2>1, <2>5 DEF SweepFails, TokenFault, TokensOK
    <2> QED BY <2>2, <2>3, <2>4, <2>5
  <1>2. UNCHANGED <<now, token, presented>> /\ revoked \subseteq revoked' /\ stray \subseteq stray'
    BY DEF BeginSweep, SweepOne, EndSweep, SweepFails
  <1>3. Known' = Known /\ Registering' = Registering /\ LifeInv'
    BY <1>2 DEF Known, Registering, LifeInv
  <1>4. \A s \in Tokens : (Over(s)' <=> Over(s)) /\ (Barred(s) => Barred(s)')
    <2>1. CASE UNCHANGED revokedUntil
      BY <1>2, <2>1 DEF Over, Barred
    <2>2. CASE SweepOne
      BY <1>2, <2>2 DEF SweepOne, Over, Barred, RevokedNow, LifeInv, TokensOK
    <2> QED BY <2>1, <2>2 DEF BeginSweep, EndSweep, SweepFails
  <1>5. RevokedInv'
    <2>1. \A t \in revoked' : t \in revoked \/ (EndSweep /\ t \in sweep.found)
      BY DEF BeginSweep, SweepOne, EndSweep, SweepFails
    <2>2. EndSweep => sweep.left = {}
      BY DEF EndSweep
    <2> QED BY <1>3, <1>4, <2>1, <2>2 DEF RevokedInv, SweepInv, Known
  <1>6. LateInv'
    BY <1>2, <1>3, <1>4 DEF LateInv, Known
  <1>7. SweepInv'
    <2>1. CASE BeginSweep
      <3>1. \A t \in sweep'.found :
               t \in Known /\ (Over(t) \/ t \in revoked \/ InList(t)) /\ t \in Tokens
        BY <2>1 DEF BeginSweep, ListInv, Known
      <3>2. \A t \in Tokens : InList(t) => Over(t) \/ t \in Listed
        BY DEF InList, Listed, Over, TokensOK
      <3>3. \A t \in sweep'.found : Over(t) \/ Barred(t) \/ t \in sweep'.left
        BY <2>1, <3>1, <3>2 DEF BeginSweep, RevokedInv
      <3>4. sweep'.on => \A t \in Tokens :
               token[t].stage = "issued" /\ t \notin stray' => t \in sweep'.found
        BY <2>1 DEF BeginSweep, Known
      <3>5. Registering \subseteq stray'
        BY <2>1 DEF BeginSweep
      <3> QED BY <1>2, <1>3, <1>4, <3>1, <3>3, <3>4, <3>5 DEF SweepInv
    <2>2. CASE SweepOne
      <3>1. PICK t \in sweep.left :
               /\ revokedUntil' = RevokedNow(t)
               /\ sweep' = [sweep EXCEPT !.left = @ \ {t}]
        BY <2>2 DEF SweepOne
      <3>2. t \in Tokens /\ Barred(t)'
        BY <1>2, <3>1 DEF TokensOK, Barred, RevokedNow, LifeInv
      <3>3. sweep'.found = sweep.found /\ sweep'.on = sweep.on /\ sweep'.left = sweep.left \ {t}
        BY <3>1 DEF TokensOK
      <3>4. stray' = stray
        BY <2>2 DEF SweepOne
      <3> QED BY <1>2, <1>3, <1>4, <3>2, <3>3, <3>4 DEF SweepInv, TokensOK
    <2>3. CASE EndSweep \/ SweepFails
      BY <2>3 DEF EndSweep, SweepFails, SweepInv
    <2> QED BY <2>1, <2>2, <2>3
  <1>8. ListInv'
    <2> SUFFICES ASSUME NEW s \in Tokens, token'[s].stage = "issued", s \notin stray'
                 PROVE  Over(s)' \/ s \in revoked' \/ InList(s)'
      BY DEF ListInv
    <2>1. Over(s) \/ s \in revoked \/ InList(s)
      BY <1>2 DEF ListInv
    <2>2. CASE list' = list
      BY <1>2, <1>4, <2>1, <2>2 DEF InList
    <2>3. CASE EndSweep
      BY <1>2, <2>3 DEF EndSweep, SweepInv
    <2> QED BY <2>2, <2>3 DEF BeginSweep, SweepOne, SweepFails
  <1> QED BY <1>1, <1>3, <1>5, <1>6, <1>7, <1>8

\* validate_token decodes a token and then asks whether it is revoked.
LEMMA ValidateKeeps ==
    ASSUME TokenInv, CheckRevoked \/ \E t \in Tokens : Present(t)
    PROVE  TokenInv'
  <1> USE TokenAssumption DEF TokenInv
  <1>1. UNCHANGED <<now, token, list, revokedUntil, sweep, revoked, stray>>
    BY DEF CheckRevoked, Present
  <1>2. Known' = Known /\ Registering' = Registering /\ LifeInv' /\ ListInv' /\ RevokedInv' /\ SweepInv'
    BY <1>1 DEF Known, Registering, LifeInv, ListInv, RevokedInv, SweepInv, Over, Barred, InList
  <1>3. CASE CheckRevoked
    <2>1. presented.token \in Tokens /\ presented.late \in BOOLEAN /\ presented.token \in Known
      BY <1>3 DEF CheckRevoked, TokensOK, LateInv, Presentations, NotPresented, Refused
    <2>2. presented' \in {Refused, [presented EXCEPT !.stage = "accepted"]}
      BY <1>3 DEF CheckRevoked
    <2>3. presented' # Refused => ~IsRevoked(presented.token)
      BY <1>3 DEF CheckRevoked
    <2>4. presented \in [stage : {"decoded", "accepted"}, token : Tokens, late : BOOLEAN]
      BY <1>3 DEF CheckRevoked, TokensOK, Presentations, NotPresented, Refused
    <2>5. presented' \in Presentations
      BY <2>2, <2>4 DEF Presentations, Refused
    <2>6. tokenFaults' \in Nat
      BY <1>3 DEF CheckRevoked, TokenFault, TokensOK
    <2>7. LateInv'
      <3>1. CASE presented' = Refused
        BY <3>1 DEF LateInv, Refused
      <3>2. CASE presented' = [presented EXCEPT !.stage = "accepted"] /\ presented' # Refused
        <4>1. presented'.token = presented.token /\ presented'.late = presented.late
              /\ presented'.stage = "accepted"
          BY <3>2, <2>4
        <4>2. presented.late => presented.token \in revoked
          BY <1>3 DEF CheckRevoked, LateInv
        <4>3. presented.late => Over(presented.token)
          BY <2>1, <2>3, <3>2, <4>2 DEF IsRevoked, RevokedInv, Over, Barred, TokensOK
        <4> QED BY <1>1, <1>2, <2>1, <4>1, <4>3 DEF LateInv, Over
      <3> QED BY <2>2, <3>1, <3>2
    <2> QED BY <1>1, <1>2, <2>5, <2>6, <2>7 DEF TokensOK
  <1>4. CASE \E t \in Tokens : Present(t)
    <2>1. PICK t \in Tokens : Present(t)
      BY <1>4
    <2>2. /\ t \in Known
          /\ \/ presented' = Refused
             \/ \E late \in BOOLEAN :
                   /\ presented' = [stage |-> "decoded", token |-> t, late |-> late]
                   /\ late => t \in revoked
      <3>1. CASE t \in revoked
        <4>1. (t \in revoked) = TRUE
          BY <3>1
        <4> QED BY <2>1, <3>1, <4>1 DEF Present
      <3>2. CASE t \notin revoked
        <4>1. (t \in revoked) = FALSE
          BY <3>2
        <4> QED BY <2>1, <3>2, <4>1 DEF Present
      <3> QED BY <3>1, <3>2
    <2>3. presented' \in Presentations
      BY <2>2 DEF Presentations
    <2>4. LateInv'
      <3>1. CASE presented' = Refused
        BY <3>1 DEF LateInv, Refused
      <3>2. CASE \E late \in BOOLEAN :
                    /\ presented' = [stage |-> "decoded", token |-> t, late |-> late]
                    /\ late => t \in revoked
        BY <1>1, <1>2, <2>2, <3>2 DEF LateInv
      <3> QED BY <2>2, <3>1, <3>2
    <2>5. tokenFaults' = tokenFaults
      BY <2>1 DEF Present
    <2> QED BY <1>1, <1>2, <2>3, <2>4, <2>5 DEF TokensOK
  <1> QED BY <1>3, <1>4

LEMMA TokenInvStep == TokenInv /\ TokenStep => TokenInv'
  BY RegisterKeeps, RevokeKeeps, SweepKeeps, ValidateKeeps DEF TokenStep

\* Trust and AskHook touch nothing but what the request presents, and no store.
LEMMA VouchKeeps ==
    ASSUME TokenInv, presented' \in Presentations, presented'.stage \in {"vouched", "refused"},
           UNCHANGED <<now, token, list, revokedUntil, sweep, tokenFaults, revoked, stray>>
    PROVE  TokenInv'
  <1>1. TokensOK'
    BY DEF TokenInv, TokensOK
  <1>2. LateInv'
    BY DEF LateInv
  <1>3. Known' = Known /\ Registering' = Registering
    BY DEF Known, Registering
  <1>4. LifeInv' /\ ListInv' /\ RevokedInv' /\ SweepInv'
    BY <1>3 DEF TokenInv, LifeInv, ListInv, RevokedInv, SweepInv, Over, Barred, InList
  <1> QED BY <1>1, <1>2, <1>4 DEF TokenInv

------------------------------------------------------------------------------
(***************************************************************************)
(* The path                                                                *)
(***************************************************************************)

Carriers == {"start", "grpc", "nats", "kafka"}

Stages == {"login", "door", "run", "again", "back", "done"}

PathOK ==
    /\ TypeOK
    /\ script \in Scripts
    /\ stage \in Stages
    /\ attempt \in Nat
    /\ callers \in Seq([ctx : Contexts, via : Carriers, attempt : Nat])
    /\ Len(callers) <= hops
    /\ stage \in {"login", "door"} => callers = <<>> /\ via = "start" /\ hops = 0
    /\ stage = "back" => callers # <<>>
    /\ result \in Statuses
    /\ ran \in Nat /\ wire \in Nat

\* What a service knows of the request is sound, and so is what every caller will go
\* on with.
JourneyInv ==
    /\ Sound(origin, ctx)
    /\ \A i \in DOMAIN callers : Sound(origin, callers[i].ctx)

Claims == IF presented.stage \in {"accepted", "vouched"} THEN script.holder ELSE Nobody

\* Behind the gateway the origin is the holder of the token.
HolderInv ==
    stage # "login" /\ (presented.stage \in {"accepted", "vouched"} \/ script.login = "optional") =>
       /\ \A c \in Claimed : origin.id[c] \in {Claims[c], Text(Claims[c], None)}
       /\ Claims["user"] \in Visible => EffectiveUser(origin) = Claims["user"]

PathInv == PathOK /\ JourneyInv /\ TokenInv /\ HolderInv

LEMMA LesserIs ==
    ASSUME NEW a \in Nat, NEW b \in Nat
    PROVE  Lesser(a, b) \in Nat /\ Lesser(a, b) <= a /\ Lesser(a, b) <= b
                /\ Lesser(a, b) \in {a, b}
  BY DEF Lesser

Policies == [kind : {"exponential", "fixed"}, attempts : Nat, base : Nat, cap : Nat]

\* A caller waits for some time, or none, before it calls again.
LEMMA BackoffIs ==
    ASSUME NEW p \in Policies, NEW n \in Nat
    PROVE  Backoff(p, n) \in Nat
  <1>1. p.base \in Nat /\ p.cap \in Nat
    BY DEF Policies
  <1>2. ExponentialBackoff(p, n) \in Nat
    <2> DEFINE e == Lesser(n, 10)
    <2>1. e \in 0..10
      BY DEF Lesser
    <2> HIDE DEF e
    <2>2. 2 ^ e \in Nat
      <3>1. CASE e = 0  BY <3>1
      <3>2. CASE e = 1  BY <3>2
      <3>3. CASE e = 2  BY <3>3
      <3>4. CASE e = 3  BY <3>4
      <3>5. CASE e = 4  BY <3>5
      <3>6. CASE e = 5  BY <3>6
      <3>7. CASE e = 6  BY <3>7
      <3>8. CASE e = 7  BY <3>8
      <3>9. CASE e = 8  BY <3>9
      <3>10. CASE e = 9  BY <3>10
      <3>11. CASE e = 10  BY <3>11
      <3> QED BY <2>1, <3>1, <3>2, <3>3, <3>4, <3>5, <3>6, <3>7, <3>8, <3>9, <3>10, <3>11
    <2> DEFINE d == 2 ^ e
    <2>3. d \in Nat
      BY <2>2
    <2>4. ExponentialBackoff(p, n) = Lesser(p.base * d, p.cap)
      BY DEF ExponentialBackoff, e
    <2> HIDE DEF d
    <2>5. p.base * d \in Nat
      BY <1>1, <2>3
    <2> QED BY <1>1, <2>4, <2>5, LesserIs
  <1> QED BY <1>1, <1>2 DEF Backoff, FixedBackoff

\* The statuses are closed under what callers make of them.
LEMMA StatusOfIs == ASSUME NEW e PROVE StatusOf(e) \in Statuses
  BY DEF StatusOf, Statuses

\* The map of a context, with the identity of a token in it, is read as a context.
LEMMA EntryIs ==
    ASSUME NEW h \in Contexts, NEW claims \in [Claimed -> Values \cup {None}]
    PROVE  /\ Principal(claims) \in Contexts
           /\ HttpDecode(MapEncode(h)) \in Contexts
           /\ HttpDecode(Authenticated(MapEncode(h), claims)) \in Contexts
           /\ \A c \in Claimed :
                 /\ Principal(claims).id[c] = claims[c]
                 /\ HttpDecode(Authenticated(MapEncode(h), claims)).id[c]
                       = Text(claims[c], None)
           /\ Principal(claims).actor = None
           /\ HttpDecode(Authenticated(MapEncode(h), claims)).actor = None
  <1> USE PropagationAssumption
  <1>1. MapEncode(h) \in Headers
    BY Reflexive, MapEncodeSound
  <1>2. Authenticated(MapEncode(h), claims).id \in [Fields -> Values \cup {None}]
    BY <1>1 DEF Authenticated, Headers, Text
  <1>3. \A c \in Claimed : Authenticated(MapEncode(h), claims).id[c] = Text(claims[c], None)
    BY <1>1 DEF Authenticated, Headers, Claimed, Fields
  <1>4. Claimed \subseteq Fields \ {"request", "trace"}
    BY DEF Claimed, Fields
  <1>5. Principal(claims) \in Contexts /\ Principal(claims).actor = None
        /\ \A c \in Claimed : Principal(claims).id[c] = claims[c]
    BY <1>4 DEF Principal, Contexts
  <1>6. HttpDecode(MapEncode(h)) \in Contexts
    BY <1>1 DEF HttpDecode, Headers, Contexts, Text
  <1>7. HttpDecode(Authenticated(MapEncode(h), claims)) \in Contexts
    BY <1>2 DEF HttpDecode, Contexts, Text
  <1>8. \A c \in Claimed :
           HttpDecode(Authenticated(MapEncode(h), claims)).id[c] = Text(claims[c], None)
    BY <1>2, <1>3, <1>4 DEF HttpDecode, Text
  <1> QED BY <1>5, <1>6, <1>7, <1>8 DEF HttpDecode

\* A request begins where its origin is, with nobody waiting.
LEMMA PathInit == RequestInit => PathInv
  <1> SUFFICES ASSUME RequestInit PROVE PathInv
    OBVIOUS
  <1>1. script \in Scripts /\ script.origin \in Origins /\ script.origin \in Contexts
    BY RequestAssumption, PropagationAssumption DEF RequestInit
  <1>2. Nobody \in [Claimed -> Values \cup {None}]
    BY DEF Nobody
  <1>3. origin \in Contexts
    BY <1>1, <1>2, EntryIs DEF RequestInit
  <1>4. PathOK
    BY <1>1, <1>3, PropagationAssumption DEF RequestInit, PathOK, TypeOK, Stages, Statuses
  <1>5. JourneyInv
    BY <1>3, Reflexive DEF RequestInit, JourneyInv
  <1>6. TokenInv
    BY TokenInvInit DEF RequestInit
  <1>7. HolderInv
    BY DEF RequestInit, HolderInv, TokenInit, NotPresented
  <1> QED BY <1>4, <1>5, <1>6, <1>7 DEF PathInv

\* A step that leaves the journey, and what the request presents, as they are.
LEMMA StaysPut ==
    ASSUME PathInv, PathOK', UNCHANGED <<ctx, origin, callers>>,
           stage # "login", UNCHANGED <<script, tokenVars>>,
           now' \in Nat, now <= now'
    PROVE  PathInv'
  <1>1. JourneyInv'
    BY DEF PathInv, JourneyInv
  <1>2. TokenInv'
    BY TokenInvWaits DEF PathInv
  <1>3. HolderInv'
    BY DEF PathInv, HolderInv, Claims, tokenVars
  <1> QED BY <1>1, <1>2, <1>3 DEF PathInv

\* At the gateway: tokens come and go, and the request becomes its holder's.
LEMMA LoginKeeps ==
    ASSUME PathInv, Login \/ Trust \/ AskHook
    PROVE  PathInv'
  <1>1. PathOK'
    BY DEF Login, Trust, AskHook, journey, PathInv, PathOK, TypeOK
  <1>2. stage' = "login" /\ UNCHANGED <<origin, ctx, callers>>
    BY DEF Login, Trust, AskHook, journey
  <1>3. JourneyInv' /\ HolderInv'
    BY <1>2 DEF PathInv, JourneyInv, HolderInv
  <1>4. TokenInv'
    <2>1. CASE Login
      BY <2>1, TokenInvStep DEF Login, PathInv
    <2>2. CASE Trust
      BY <2>2, VouchKeeps DEF Trust, PathInv, Presentations
    <2>3. CASE AskHook
      <3>1. presented' \in Presentations /\ presented'.stage \in {"vouched", "refused"}
        <4>1. CASE presented' = [stage |-> "vouched"]
          BY <4>1 DEF Presentations
        <4>2. CASE presented' # [stage |-> "vouched"]
          <5>1. PICK a \in DOMAIN HookErrors :
                  presented' = [stage |-> "refused", error |-> HookErrors[a]]
            BY <2>3, <4>2 DEF AskHook
          <5>2. HookErrors[a] \in {"InvalidToken", "ProviderUnavailable"}
            BY DEF HookErrors
          <5> QED BY <5>1, <5>2 DEF Presentations
        <4> QED BY <4>1, <4>2
      <3> QED BY <2>3, <3>1, VouchKeeps DEF AskHook, PathInv
    <2> QED BY <2>1, <2>2, <2>3
  <1> QED BY <1>1, <1>3, <1>4 DEF PathInv

\* What the gateway knows of the scripts.
LEMMA ScriptIs ==
    ASSUME PathOK
    PROVE  /\ script.origin \in Contexts
           /\ script.holder \in [Claimed -> Values \cup {None}]
           /\ script.policy \in Policies
           /\ script.hops \in 0..MaxHops
           /\ script.error \in FlareErrors
  BY RequestAssumption, PropagationAssumption DEF PathOK, Policies

LEMMA EnterKeeps ==
    ASSUME PathInv, Enter \/ EnterAnonymously
    PROVE  PathInv'
  <1>1. Claims \in [Claimed -> Values \cup {None}]
    BY ScriptIs DEF PathInv, Claims, Nobody
  <1>2. EnterAs(Claims) /\ stage = "login"
    BY DEF Enter, EnterAnonymously, Claims
  <1> DEFINE carried == HttpDecode(Authenticated(MapEncode(script.origin), Claims))
             connected == Principal(Claims)
  <1>3. /\ origin' \in {carried, connected} /\ ctx' = origin' /\ stage' = "door"
        /\ UNCHANGED <<via, hops, script, now, tokenVars, attempt, callers, result, ran, wire>>
    BY <1>2 DEF EnterAs, gateway
  <1>4. /\ carried \in Contexts /\ connected \in Contexts
        /\ carried.actor = None /\ connected.actor = None
        /\ \A c \in Claimed :
              connected.id[c] = Claims[c] /\ carried.id[c] = Text(Claims[c], None)
    BY <1>1, EntryIs, ScriptIs DEF PathInv
  <1> HIDE DEF carried, connected
  <1>5. PathOK'
    BY <1>2, <1>3, <1>4 DEF PathInv, PathOK, TypeOK, Stages
  <1>6. callers = <<>>
    BY <1>2 DEF PathInv, PathOK
  <1>7. JourneyInv'
    BY <1>3, <1>4, <1>6, Reflexive DEF JourneyInv
  <1>8. TokenInv'
    BY <1>3, TokenInvWaits DEF PathInv, TokenInv, TokensOK
  <1>9. HolderInv'
    <2>1. Claims' = Claims
      BY <1>3 DEF Claims, tokenVars
    <2>2. EffectiveUser(origin') = origin'.id["user"]
      BY <1>3, <1>4 DEF EffectiveUser, ActorId, Or
    <2>3. \A c \in Claimed : origin'.id[c] \in {Claims[c], Text(Claims[c], None)}
      BY <1>3, <1>4
    <2>4. Claims["user"] \in Visible => origin'.id["user"] = Claims["user"]
      BY <2>3 DEF Claimed, Text
    <2> QED BY <2>1, <2>2, <2>3, <2>4 DEF HolderInv
  <1> QED BY <1>5, <1>7, <1>8, <1>9 DEF PathInv

LEMMA DoorKeeps ==
    ASSUME PathInv, TurnAway \/ Check \/ Pass
    PROVE  PathInv'
  <1>1. now' \in Nat /\ now <= now'
    <2>1. now \in Nat
      BY DEF PathInv, TokenInv, TokensOK
    <2>2. now' \in {now, now + 1}
      BY DEF TurnAway, Check, Pass
    <2> QED BY <2>1, <2>2
  <1>2. UNCHANGED <<ctx, origin, callers, script, via, hops, attempt, result, ran, wire, tokenVars>>
    BY DEF TurnAway, Check, Pass, journey, gateway
  <1>3. /\ stage' \in Stages
        /\ stage' # "back"
        /\ stage' \in {"login", "door"} => stage \in {"login", "door"}
    BY DEF TurnAway, Check, Pass, PathInv, PathOK, Stages
  <1>4. PathOK'
    BY <1>2, <1>3 DEF PathInv, PathOK, TypeOK
  <1>5. JourneyInv'
    BY <1>2 DEF PathInv, JourneyInv
  <1>6. TokenInv'
    BY <1>1, <1>2, TokenInvWaits DEF PathInv
  <1>7. HolderInv'
    <2>1. Claims' = Claims /\ presented' = presented /\ script' = script /\ origin' = origin
      BY <1>2 DEF Claims, tokenVars
    <2>2. CASE TurnAway
      BY <2>1, <2>2 DEF TurnAway, HolderInv
    <2>3. CASE Check
      BY <2>1, <2>3 DEF Check, HolderInv, PathInv
    <2>4. CASE Pass
      BY <2>1, <2>4 DEF Pass, HolderInv, PathInv
    <2> QED BY <2>2, <2>3, <2>4
  <1> QED BY <1>4, <1>5, <1>6, <1>7 DEF PathInv

\* A service answers: with an error of its own, or with what it was asked for.
LEMMA AnswerKeeps ==
    ASSUME PathInv, Refuse \/ Handle \/ ConnectFails
    PROVE  PathInv'
  <1>1. /\ stage = "run"
        /\ (\E e : Raise(e)) \/ Return
        /\ ran' \in {ran, ran + 1} /\ wire' \in {wire, wire + 1}
    BY DEF Refuse, Handle, ConnectFails
  <1>2. /\ UNCHANGED <<journey, script, now, gateway, attempt, callers>>
        /\ stage' = IF callers = <<>> THEN "done" ELSE "back"
        /\ result' \in Statuses
    BY <1>1, StatusOfIs DEF Raise, Return, Statuses
  <1>3. PathOK'
    BY <1>1, <1>2 DEF PathInv, PathOK, TypeOK, Stages, journey
  <1> QED BY <1>1, <1>2, <1>3, StaysPut DEF journey, gateway, PathInv, TokenInv, TokensOK

\* A service that sends the request on, with its own context kept or forgotten.
LEMMA SendKeeps ==
    ASSUME PathInv, Call \/ Publish
    PROVE  PathInv'
  <1>1. /\ Next
        /\ UNCHANGED <<script, now, gateway, result, ran, wire>>
        /\ stage' = "run" /\ attempt' = 0 /\ stage \in {"run", "again"}
    BY DEF Call, Publish, Next
  <1>2. PropagationInv
    BY DEF PathInv, PathOK, JourneyInv, PropagationInv
  <1>3. PropagationInv'
    BY <1>1, <1>2, StepSound
  <1>4. origin' = origin /\ hops' = hops + 1
    BY <1>1 DEF Next, SendGrpc, SendGrpcIntercepted, SendGrpcLayered, SendGrpcBoth, SendNats,
       SendKafka, Arrive
  <1> DEFINE entry == [ctx |-> ctx, via |-> via, attempt |-> attempt]
  <1>5. callers' \in {<<>>, Append(callers, entry)}
    BY DEF Call, Publish
  <1>6. entry \in [ctx : Contexts, via : Carriers, attempt : Nat]
    BY DEF PathInv, PathOK, TypeOK, Carriers
  <1>7. callers \in Seq([ctx : Contexts, via : Carriers, attempt : Nat]) /\ hops \in Nat
        /\ Len(callers) <= hops
    BY PropagationAssumption DEF PathInv, PathOK, TypeOK
  <1>8. PathOK'
    <2>1. /\ callers' \in Seq([ctx : Contexts, via : Carriers, attempt : Nat])
          /\ Len(callers') <= hops'
      <3> HIDE DEF entry
      <3>1. CASE callers' = <<>>
        BY <1>4, <1>7, <3>1
      <3>2. CASE callers' = Append(callers, entry)
        BY <1>4, <1>6, <1>7, <3>2
      <3> QED BY <1>5, <3>1, <3>2
    <2> QED BY <1>1, <1>3, <2>1 DEF PathInv, PathOK, PropagationInv, Stages
  <1>9. JourneyInv'
    <2>1. \A i \in DOMAIN callers' : \/ i \in DOMAIN callers /\ callers'[i] = callers[i]
                                     \/ callers'[i] = entry
      BY <1>5, <1>7
    <2>2. entry.ctx = ctx
      OBVIOUS
    <2>3. \A i \in DOMAIN callers' : Sound(origin, callers'[i].ctx)
      BY <2>1, <2>2 DEF PathInv, JourneyInv
    <2> QED BY <1>3, <1>4, <2>3 DEF JourneyInv, PropagationInv
  <1>10. TokenInv' /\ HolderInv'
    <2>1. TokenInv'
      BY <1>1, TokenInvWaits DEF gateway, PathInv, TokenInv, TokensOK
    <2>2. HolderInv'
      BY <1>1, <1>4 DEF gateway, tokenVars, PathInv, HolderInv, Claims
    <2> QED BY <2>1, <2>2
  <1> QED BY <1>8, <1>9, <1>10 DEF PathInv

\* A call that fails on the wire leaves its caller waiting for nobody.
LEMMA CallFailsKeeps ==
    ASSUME PathInv, CallFails
    PROVE  PathInv'
  <1> DEFINE entry == [ctx |-> ctx, via |-> via, attempt |-> attempt]
  <1>1. /\ callers' = Append(callers, entry)
        /\ UNCHANGED <<ctx, origin, via, script, now, gateway, ran>>
        /\ stage' = "back" /\ attempt' = 0 /\ hops' = hops + 1 /\ wire' = wire + 1
        /\ result' \in Statuses /\ hops < script.hops
        /\ stage # "login"
    BY DEF CallFails, Statuses
  <1>2. entry \in [ctx : Contexts, via : Carriers, attempt : Nat] /\ entry.ctx = ctx
    BY DEF PathInv, PathOK, TypeOK, Carriers
  <1>3. callers \in Seq([ctx : Contexts, via : Carriers, attempt : Nat])
        /\ hops \in Nat /\ script.hops \in Nat /\ script.hops <= MaxHops /\ MaxHops \in Nat
        /\ Len(callers) <= hops
    BY PropagationAssumption, ScriptIs DEF PathInv, PathOK, TypeOK
  <1>4. PathOK'
    <2>1. /\ callers' \in Seq([ctx : Contexts, via : Carriers, attempt : Nat])
          /\ Len(callers') <= hops' /\ callers' # <<>> /\ hops' \in 0..MaxHops
      BY <1>1, <1>2, <1>3
    <2> QED BY <1>1, <2>1 DEF PathInv, PathOK, TypeOK, Stages
  <1>5. JourneyInv'
    <2>1. \A i \in DOMAIN callers' : \/ i \in DOMAIN callers /\ callers'[i] = callers[i]
                                     \/ callers'[i] = entry
      BY <1>1, <1>3
    <2>2. \A i \in DOMAIN callers' : Sound(origin, callers'[i].ctx)
      BY <1>2, <2>1 DEF PathInv, JourneyInv
    <2> QED BY <1>1, <2>2 DEF PathInv, JourneyInv
  <1>6. TokenInv'
    BY <1>1, TokenInvWaits DEF gateway, PathInv, TokenInv, TokensOK
  <1>7. HolderInv'
    BY <1>1 DEF gateway, tokenVars, PathInv, HolderInv, Claims
  <1> QED BY <1>4, <1>5, <1>6, <1>7 DEF PathInv

\* A sequence without its last element.
LEMMA FrontIs ==
    ASSUME NEW S, NEW s \in Seq(S), Len(s) # 0
    PROVE  /\ SubSeq(s, 1, Len(s) - 1) \in Seq(S)
           /\ Len(SubSeq(s, 1, Len(s) - 1)) = Len(s) - 1
           /\ DOMAIN SubSeq(s, 1, Len(s) - 1) = 1..(Len(s) - 1)
           /\ \A i \in 1..(Len(s) - 1) : i \in DOMAIN s /\ SubSeq(s, 1, Len(s) - 1)[i] = s[i]
  <1> DEFINE n == Len(s) - 1
             f == SubSeq(s, 1, n)
  <1>1. n \in Nat /\ n < Len(s) /\ Len(s) \in Nat /\ DOMAIN s = 1..Len(s)
    OBVIOUS
  <1>2. Len(f) = n /\ DOMAIN f = 1..n
    BY <1>1
  <1>3. \A i \in 1..n : f[i] = s[i]
    BY <1>1
  <1>4. f \in Seq(S)
    BY <1>1
  <1> QED BY <1>1, <1>2, <1>3, <1>4

\* The last caller is one of those who wait, and the others go on waiting.
LEMMA ResumeIs ==
    ASSUME PathOK, stage = "back"
    PROVE  /\ Len(callers) \in DOMAIN callers
           /\ Caller \in [ctx : Contexts, via : Carriers, attempt : Nat]
           /\ Waiting \in Seq([ctx : Contexts, via : Carriers, attempt : Nat])
           /\ Len(Waiting) = Len(callers) - 1
           /\ Len(callers) \in Nat \ {0}
           /\ hops \in Nat \ {0} /\ hops <= MaxHops
           /\ \A i \in DOMAIN Waiting : i \in DOMAIN callers /\ Waiting[i] = callers[i]
  <1>1. callers \in Seq([ctx : Contexts, via : Carriers, attempt : Nat]) /\ callers # <<>>
        /\ Len(callers) <= hops
    BY DEF PathOK
  <1>2. hops \in 0..MaxHops /\ MaxHops \in Nat
    BY PropagationAssumption DEF PathOK, TypeOK
  <1> DEFINE Entries == [ctx : Contexts, via : Carriers, attempt : Nat]
             n == Len(callers)
  <1>3. callers \in Seq(Entries)
    BY <1>1
  <1> HIDE DEF Entries
  <1>4. n \in Nat \ {0} /\ n \in DOMAIN callers /\ callers[n] \in Entries
    BY <1>1, <1>3
  <1>5. /\ Waiting \in Seq(Entries) /\ Len(Waiting) = n - 1
        /\ \A i \in DOMAIN Waiting : i \in DOMAIN callers /\ Waiting[i] = callers[i]
    BY <1>3, <1>4, FrontIs DEF Waiting
  <1> QED BY <1>1, <1>2, <1>4, <1>5 DEF Caller, Entries

LEMMA ResumeKeeps ==
    ASSUME PathInv, CallAgain \/ GiveUp \/ PassOn
    PROVE  PathInv'
  <1>1. /\ stage = "back" /\ ctx' = Caller.ctx /\ via' = Caller.via /\ hops' = hops - 1
        /\ callers' = Waiting
        /\ UNCHANGED <<origin, script, gateway, ran, wire>>
    BY DEF CallAgain, GiveUp, PassOn, Resume
  <1>2. /\ Len(callers) \in DOMAIN callers
        /\ Caller \in [ctx : Contexts, via : Carriers, attempt : Nat]
        /\ Waiting \in Seq([ctx : Contexts, via : Carriers, attempt : Nat])
        /\ Len(Waiting) = Len(callers) - 1
        /\ Len(callers) \in Nat \ {0} /\ Len(callers) <= hops
        /\ hops \in Nat \ {0} /\ hops <= MaxHops
        /\ \A i \in DOMAIN Waiting : i \in DOMAIN callers /\ Waiting[i] = callers[i]
    BY <1>1, ResumeIs DEF PathInv, PathOK
  <1>3. now' \in Nat /\ now <= now' /\ attempt' \in Nat
    <2>1. now \in Nat
      BY DEF PathInv, TokenInv, TokensOK
    <2>2. CASE CallAgain
      <3>1. Caller.attempt \in Nat
        BY <1>2
      <3>2. Backoff(policy, Caller.attempt) \in Nat
        BY <3>1, BackoffIs, ScriptIs DEF policy, PathInv
      <3>3. now' = now + Backoff(policy, Caller.attempt) /\ attempt' = Caller.attempt + 1
        BY <2>2 DEF CallAgain
      <3> QED BY <2>1, <3>1, <3>2, <3>3
    <2>3. CASE GiveUp \/ PassOn
      <3>1. now' = now /\ attempt' = 0
        BY <2>3 DEF GiveUp, PassOn
      <3> QED BY <2>1, <3>1
    <2> QED BY <2>2, <2>3
  <1>4. /\ stage' \in {"again", "back", "done"}
        /\ stage' = "back" => Waiting # <<>>
        /\ result' \in Statuses
    <2>1. CASE CallAgain
      BY <2>1 DEF CallAgain, PathInv, PathOK
    <2>2. CASE GiveUp
      BY <1>1, <2>2, StatusOfIs DEF GiveUp, PathInv, PathOK
    <2>3. CASE PassOn
      BY <1>1, <2>3 DEF PassOn, PathInv, PathOK
    <2> QED BY <2>1, <2>2, <2>3
  <1>5. PathOK'
    <2>1. Caller.ctx \in Contexts /\ Caller.via \in Carriers
      BY <1>2
    <2>2. hops' \in 0..MaxHops /\ Len(callers') <= hops'
      BY <1>1, <1>2, PropagationAssumption
    <2> QED BY <1>1, <1>2, <1>3, <1>4, <2>1, <2>2 DEF PathInv, PathOK, TypeOK, Stages, Carriers
  <1>6. JourneyInv'
    <2>1. Sound(origin, Caller.ctx)
      BY <1>2 DEF PathInv, JourneyInv, Caller
    <2>2. \A i \in DOMAIN Waiting : Sound(origin, Waiting[i].ctx)
      BY <1>2 DEF PathInv, JourneyInv
    <2> QED BY <1>1, <2>1, <2>2 DEF JourneyInv
  <1>7. TokenInv'
    BY <1>1, <1>3, TokenInvWaits DEF gateway, PathInv
  <1>8. HolderInv'
    BY <1>1 DEF gateway, tokenVars, PathInv, HolderInv, Claims
  <1> QED BY <1>5, <1>6, <1>7, <1>8 DEF PathInv

LEMMA PathStep == PathInv /\ [RequestNext]_requestVars => PathInv'
  <1> SUFFICES ASSUME PathInv, [RequestNext]_requestVars PROVE PathInv'
    OBVIOUS
  <1>1. CASE Gateway
    BY <1>1, LoginKeeps, EnterKeeps, DoorKeeps DEF Gateway
  <1>2. CASE Service
    BY <1>2, AnswerKeeps, SendKeeps, CallFailsKeeps DEF Service
  <1>3. CASE CallAgain \/ GiveUp \/ PassOn
    BY <1>3, ResumeKeeps
  <1>4. CASE UNCHANGED requestVars
    <2>1. PathOK' /\ JourneyInv'
      BY <1>4 DEF requestVars, journey, PathInv, PathOK, TypeOK, JourneyInv
    <2>2. TokenInv' /\ HolderInv'
      BY <1>4, TokenInvWaits
         DEF requestVars, journey, gateway, tokenVars, PathInv, HolderInv, Claims, TokenInv, TokensOK
    <2> QED BY <2>1, <2>2 DEF PathInv
  <1> QED BY <1>1, <1>2, <1>3, <1>4 DEF RequestNext

\* The invariant of the path.
LEMMA PathInvariance == RequestSpec => []PathInv
  BY PathInit, PathStep, PTL DEF RequestSpec

LEMMA PathIsSound == PathInv => PropagationInv
  BY DEF PathInv, PathOK, JourneyInv, PropagationInv

\* Every context that is decoded, sent on or gone back to is a context, every status
\* one of the statuses, and nobody waits before the request has passed the gateway.
THEOREM PathTypeCorrect == RequestSpec => []PathOK
  BY PathInvariance, PTL DEF PathInv

\* What the first service set arrives everywhere, also where a caller goes on after
\* an answer or an error.
THEOREM FieldsArrive == RequestSpec => []FieldsKept
  BY PathInvariance, PathIsSound, SoundFields, PTL

\* Every service acts for the user of the first.
THEOREM UserArrives == RequestSpec => []SameUser
  BY PathInvariance, PathIsSound, SoundSameUser, PTL

\* Roles and type stay with their actor.
THEOREM StandingStays == RequestSpec => []StandingKept
  BY PathInvariance, PathIsSound, SoundStanding, PTL

\* A token is not accepted in its life once it has been revoked, however the commands
\* of all who register, revoke and validate tokens interleave.
THEOREM RevocationHolds == RequestSpec => []RevokedStays
  <1>1. PathInv => RevokedStays
    BY TokenInvImplies DEF PathInv
  <1> QED BY <1>1, PathInvariance, PTL

\* Whoever was let in by the gateway, every service acts for the holder of the token.
THEOREM HolderActs == RequestSpec => []ActsForHolder
  <1>1. PathInv => ActsForHolder
    <2> SUFFICES ASSUME PathInv, stage # "login",
                        \/ presented.stage \in {"accepted", "vouched"}
                        \/ script.login = "optional"
                 PROVE  /\ \A c \in Claimed : origin.id[c] \in {Claims[c], Text(Claims[c], None)}
                        /\ Claims["user"] \in Visible => EffectiveUser(ctx) = Claims["user"]
      BY DEF ActsForHolder, Claims
    <2>1. SameUser
      BY PathIsSound, SoundSameUser
    <2> QED BY <2>1 DEF PathInv, HolderInv, SameUser
  <1> QED BY <1>1, PathInvariance, PTL

------------------------------------------------------------------------------
(***************************************************************************)
(* Errors                                                                  *)
(***************************************************************************)

HttpCodes == DOMAIN HttpNumber
OwnCodes == DOMAIN OwnNumber

\* the numbers of the HTTP codes, and those of the others
Below == 400..599
Above == 1000..9999

\* The ranges of the two kinds of numbers.
LEMMA RangesAre ==
    /\ \A n \in Above : n \in Nat /\ ~IsHttpErrorCode(n)
    /\ \A n \in Below : n \in Nat /\ IsHttpErrorCode(n)
  BY DEF Above, Below, IsHttpErrorCode

\* The numbers of the HTTP codes are statuses, the others are none.
LEMMA NumberIs ==
    /\ \A c \in HttpCodes : HttpNumber[c] \in Below /\ Number[c] = HttpNumber[c]
    /\ \A c \in OwnCodes : c \notin HttpCodes /\ OwnNumber[c] \in Above
                               /\ Number[c] = OwnNumber[c]
    /\ ErrorCodes = HttpCodes \cup OwnCodes
  <1>1. \A c \in HttpCodes : HttpNumber[c] \in Below
    BY DEF HttpCodes, HttpNumber, Below
  <1>2. \A c \in OwnCodes : OwnNumber[c] \in Above
    BY DEF OwnCodes, OwnNumber, Above
  <1>3. \A c \in OwnCodes : c \notin HttpCodes
    BY DEF OwnCodes, OwnNumber, HttpCodes, HttpNumber
  <1>4. ErrorCodes = HttpCodes \cup OwnCodes
    BY DEF ErrorCodes, Number, HttpCodes, OwnCodes
  <1>5. /\ \A c \in HttpCodes : Number[c] = HttpNumber[c]
        /\ \A c \in OwnCodes : c \notin HttpCodes => Number[c] = OwnNumber[c]
    BY DEF Number, HttpCodes, OwnCodes
  <1> QED BY <1>1, <1>2, <1>3, <1>4, <1>5

\* Every error has a code, and "System" and "Io" are none themselves.
LEMMA CodeIs ==
    /\ "System" \notin ErrorCodes /\ "Io" \notin ErrorCodes
    /\ \A e \in FlareErrors : CodeOf(e) \in ErrorCodes
    /\ \A e \in ErrorCodes : CodeOf(e) = e
    /\ CodeOf("System") \in OwnCodes /\ CodeOf("Io") \in OwnCodes
  <1>1. "System" \notin HttpCodes /\ "Io" \notin HttpCodes
    BY DEF HttpCodes, HttpNumber
  <1>2. "System" \notin OwnCodes /\ "Io" \notin OwnCodes
    BY DEF OwnCodes, OwnNumber
  <1>3. "InternalError" \in OwnCodes /\ "NetworkError" \in OwnCodes
    BY DEF OwnCodes, OwnNumber
  <1>4. CodeOf("System") = "InternalError" /\ CodeOf("Io") = "NetworkError"
    BY DEF CodeOf
  <1>5. \A e : e # "System" /\ e # "Io" => CodeOf(e) = e
    BY DEF CodeOf
  <1> QED BY <1>1, <1>2, <1>3, <1>4, <1>5, NumberIs DEF FlareErrors

\* The two tables, that of the status line and that of the body, agree.
LEMMA BodyIsStatus == \A e \in FlareErrors : HttpBody(e) = HttpStatus(e)
  <1> SUFFICES ASSUME NEW e \in FlareErrors PROVE HttpBody(e) = HttpStatus(e)
    OBVIOUS
  <1>1. CASE e \in HttpCodes
    <2>1. CodeOf(e) = e /\ Number[e] = HttpNumber[e] /\ IsHttpErrorCode(HttpNumber[e])
      BY <1>1, NumberIs, CodeIs, RangesAre
    <2> QED BY <1>1, <2>1 DEF HttpBody, HttpStatus, HttpCodes
  <1>2. CASE e \notin HttpCodes
    <2>1. CodeOf(e) \in OwnCodes
      BY <1>2, NumberIs, CodeIs DEF FlareErrors
    <2>2. Number[CodeOf(e)] \in Above
      BY <2>1, NumberIs
    <2>3. ~IsHttpErrorCode(Number[CodeOf(e)])
      BY <2>2, RangesAre
    <2>4. HttpBody(e) = 500
      BY <2>3 DEF HttpBody
    <2> QED BY <1>2, <2>4 DEF HttpStatus, HttpCodes
  <1> QED BY <1>1, <1>2

\* An ErrorDetail gives back the code it was made of.
LEMMA DetailReturns ==
    \A e \in FlareErrors : Number[FromDetail(ToDetail(e))] = Number[CodeOf(e)]
  <1> SUFFICES ASSUME NEW e \in FlareErrors
               PROVE  Number[FromDetail(ToDetail(e))] = Number[CodeOf(e)]
    OBVIOUS
  <1> DEFINE n == Number[CodeOf(e)]
  <1>1. CodeOf(e) \in ErrorCodes /\ n \in Nat
    <2>1. CodeOf(e) \in ErrorCodes
      BY CodeIs
    <2>2. ASSUME NEW c \in ErrorCodes PROVE Number[c] \in Nat
      <3>1. Number[c] \in Below \/ Number[c] \in Above
        BY NumberIs
      <3> QED BY <3>1, RangesAre
    <2> QED BY <2>1, <2>2
  <1>2. FromDetail(ToDetail(e)) = CHOOSE c \in ErrorCodes : Number[c] = n
    BY <1>1 DEF FromDetail, ToDetail, FromNumber
  <1>3. \E c \in ErrorCodes : Number[c] = n
    BY <1>1
  <1> HIDE DEF n
  <1>4. Number[CHOOSE c \in ErrorCodes : Number[c] = n] = n
    BY <1>3
  <1> QED BY <1>2, <1>4 DEF n

\* What a caller makes of a status has no HTTP code.
LEMMA ReceivedIs == \A s : Received(s) \in OwnCodes
  <1>1. \A s : Received(s) \in
           {"AuthenticationFailed", "PermissionDenied", "InvalidParameter", "UserNotFound",
            "ResourceExhausted", "InternalError", "ServiceUnavailable", "OperationTimeout",
            "UnknownError"}
    BY DEF Received
  <1>2. {"AuthenticationFailed", "PermissionDenied", "InvalidParameter", "UserNotFound",
         "ResourceExhausted", "InternalError", "ServiceUnavailable", "OperationTimeout",
         "UnknownError"} \subseteq OwnCodes
    BY DEF OwnCodes, OwnNumber
  <1> QED BY <1>1, <1>2

\* An answer that means what its error means.
Meaningful(a) ==
    /\ a.kind = "http" => a.body = a.code /\ (a.code < 500 => a.own)
    /\ a.kind = "message" => a.body = Number[CodeOf(a.error)]

LEMMA OwnAnswers ==
    ASSUME NEW e \in FlareErrors
    PROVE  /\ \A h \in HttpErrors(e) : Meaningful(HttpAnswer(h, TRUE))
           /\ Meaningful(DetailAnswer(e, TRUE))
  <1>1. HttpErrors(e) \subseteq FlareErrors
    BY NumberIs DEF HttpErrors, Wrapped, FlareErrors, HttpCodes, HttpNumber
  <1>2. \A h \in HttpErrors(e) : Meaningful(HttpAnswer(h, TRUE))
    BY <1>1, BodyIsStatus DEF Meaningful, HttpAnswer
  <1> QED BY <1>2, DetailReturns DEF Meaningful, DetailAnswer

LEMMA PassedAnswers ==
    ASSUME NEW s
    PROVE  /\ \A e \in HttpErrorsOfStatus(s) : Meaningful(HttpAnswer(e, FALSE))
           /\ \A e \in {Received(s), Wrapped(Received(s))} : Meaningful(DetailAnswer(e, FALSE))
  <1>1. "HttpBadGateway" \in HttpCodes /\ HttpNumber["HttpBadGateway"] = 502
        /\ "HttpInternalServerError" \in HttpCodes
        /\ HttpNumber["HttpInternalServerError"] = 500
    BY DEF HttpCodes, HttpNumber
  <1>2. Received(s) \in FlareErrors /\ Received(s) \notin HttpCodes /\ "System" \in FlareErrors
        /\ "System" \notin HttpCodes
    BY ReceivedIs, NumberIs, CodeIs DEF FlareErrors
  <1>3. \A e \in HttpErrorsOfStatus(s) :
           /\ e \in FlareErrors
           /\ e \in HttpCodes => HttpNumber[e] >= 500
    BY <1>1, <1>2, NumberIs DEF HttpErrorsOfStatus, HttpErrors, Wrapped, FlareErrors
  <1>4. \A e \in HttpErrorsOfStatus(s) : HttpStatus(e) >= 500
    BY <1>3, NumberIs DEF HttpStatus, HttpCodes
  <1>5. \A e \in HttpErrorsOfStatus(s) : Meaningful(HttpAnswer(e, FALSE))
    <2> SUFFICES ASSUME NEW e \in HttpErrorsOfStatus(s)
                 PROVE  Meaningful(HttpAnswer(e, FALSE))
      OBVIOUS
    <2>1. HttpBody(e) = HttpStatus(e) /\ ~(HttpStatus(e) < 500)
      <3>1. HttpStatus(e) \in Int
        BY <1>3, NumberIs, RangesAre DEF HttpStatus, HttpCodes
      <3> QED BY <1>3, <1>4, <3>1, BodyIsStatus
    <2> QED BY <2>1 DEF Meaningful, HttpAnswer
  <1>6. \A e \in {Received(s), Wrapped(Received(s))} : e \in FlareErrors
    BY <1>2 DEF Wrapped
  <1> QED BY <1>5, <1>6, DetailReturns DEF Meaningful, DetailAnswer

\* The errors that a service may raise.
LEMMA RaisedIs ==
    ASSUME PathOK, Refuse \/ Handle \/ ConnectFails
    PROVE  Return \/ \E e \in FlareErrors : Raise(e)
  <1>1. {"InvalidParameter", "AuthenticationRequired", "ConnectionFailed", "NetworkError"}
           \subseteq OwnCodes
    BY DEF OwnCodes, OwnNumber
  <1>2. OwnCodes \subseteq FlareErrors
    BY NumberIs DEF FlareErrors
  <1> QED BY <1>1, <1>2, ScriptIs DEF Refuse, Handle, ConnectFails, TransportErrors

LEMMA ErrorsStep ==
    PathInv /\ ErrorsKeepMeaning /\ [RequestNext]_requestVars => ErrorsKeepMeaning'
  <1> SUFFICES ASSUME PathInv, ErrorsKeepMeaning, [RequestNext]_requestVars, stage' = "done"
               PROVE  Meaningful(answer')
    BY DEF ErrorsKeepMeaning, Answered, Meaningful
  <1>1. CASE Gateway
    <2>1. TurnAway
      BY <1>1 DEF Gateway, Login, Trust, AskHook, Enter, EnterAnonymously, EnterAs, Check, Pass,
         PathInv, PathOK
    <2>2. \/ answer' = HttpAnswer("HttpUnauthorized", TRUE)
          \/ answer'.kind = "connection"
      BY <2>1 DEF TurnAway
    <2>3. "HttpUnauthorized" \in FlareErrors
      BY NumberIs DEF FlareErrors, HttpCodes, HttpNumber
    <2> QED BY <2>2, <2>3, OwnAnswers DEF HttpErrors, Meaningful
  <1>2. CASE Refuse \/ Handle \/ ConnectFails
    <2>1. CASE Return
      BY <2>1 DEF Return, Meaningful, Success
    <2>2. CASE \E e \in FlareErrors : Raise(e)
      BY <2>2, OwnAnswers DEF Raise
    <2> QED BY <1>2, <2>1, <2>2, RaisedIs DEF PathInv
  <1>3. CASE Call \/ CallFails \/ Publish \/ CallAgain
    BY <1>3 DEF Call, CallFails, Publish, CallAgain
  <1>4. CASE GiveUp
    <2>1. Waiting = <<>>
      BY <1>4 DEF GiveUp, Resume
    <2>2. \/ \E e \in HttpErrorsOfStatus(result) : answer' = HttpAnswer(e, FALSE)
          \/ \E e \in {Received(result), Wrapped(Received(result))} :
                answer' = DetailAnswer(e, FALSE)
      BY <1>4, <2>1 DEF GiveUp
    <2> QED BY <2>2, PassedAnswers
  <1>5. CASE PassOn
    BY <1>5 DEF PassOn, Resume, Success, Meaningful
  <1>6. CASE UNCHANGED requestVars
    BY <1>6 DEF requestVars, ErrorsKeepMeaning, Answered, Meaningful
  <1> QED BY <1>1, <1>2, <1>3, <1>4, <1>5, <1>6 DEF RequestNext, Service

\* What is told of an error agrees wherever it is told.
THEOREM ErrorsMeanTheSame == RequestSpec => []ErrorsKeepMeaning
  <1>1. RequestInit => ErrorsKeepMeaning
    BY DEF RequestInit, ErrorsKeepMeaning, Answered
  <1> QED BY <1>1, ErrorsStep, PathInvariance, PTL DEF RequestSpec

------------------------------------------------------------------------------
(***************************************************************************)
(* What is tried again                                                     *)
(***************************************************************************)

\* the statuses that a policy tries again
Repeatable == {"Unavailable", "DeadlineExceeded", "ResourceExhausted"}

\* The errors that become such a status.
LEMMA RepeatableErrors ==
    \A e : StatusOf(e) \in Repeatable =>
       e \in {"ResourceExhausted", "ConnectionLimitExceeded", "UserQuotaExceeded",
              "MessageRateLimitExceeded", "ServiceUnavailable", "NetworkError",
              "NetworkUnreachable", "NetworkConnectionLost", "Io", "ConnectionTimeout",
              "NetworkTimeout", "OperationTimeout"}
  BY DEF StatusOf, Repeatable

Lasting == {"Authentication", "Protocol", "Serialization", "General"}

\* None of them is final.
LEMMA FinalIsNotRepeatable == \A e : Final(e) => StatusOf(e) \notin Repeatable
  <1>1. \A c \in OwnCodes : Number[c] = OwnNumber[c]
    BY NumberIs
  <1>2. {"ResourceExhausted", "ConnectionLimitExceeded", "UserQuotaExceeded",
         "MessageRateLimitExceeded", "ServiceUnavailable", "NetworkError",
         "NetworkUnreachable", "NetworkConnectionLost", "ConnectionTimeout",
         "NetworkTimeout"} \subseteq OwnCodes
    BY DEF OwnCodes, OwnNumber
  <1>3. /\ OwnNumber["ResourceExhausted"] = 6002
        /\ OwnNumber["ConnectionLimitExceeded"] = 1004
        /\ OwnNumber["UserQuotaExceeded"] = 5003
        /\ OwnNumber["MessageRateLimitExceeded"] = 4004
        /\ OwnNumber["ServiceUnavailable"] = 6001
        /\ OwnNumber["NetworkError"] = 7000
        /\ OwnNumber["NetworkUnreachable"] = 7002
        /\ OwnNumber["NetworkConnectionLost"] = 7003
        /\ OwnNumber["ConnectionTimeout"] = 1001
        /\ OwnNumber["NetworkTimeout"] = 7001
    BY DEF OwnNumber
  <1>4. ASSUME NEW c, NEW n \in Nat, Number[c] = n,
               (n \div 1000) \in {1, 4, 5, 6, 7}
        PROVE  Category(c) \notin Lasting
    BY <1>4 DEF Category, Lasting
  <1>5. /\ (6002 \div 1000) = 6 /\ (1004 \div 1000) = 1 /\ (5003 \div 1000) = 5
        /\ (4004 \div 1000) = 4 /\ (6001 \div 1000) = 6 /\ (7000 \div 1000) = 7
        /\ (7002 \div 1000) = 7 /\ (7003 \div 1000) = 7 /\ (1001 \div 1000) = 1
        /\ (7001 \div 1000) = 7
    OBVIOUS
  <1>6. \A c \in {"ResourceExhausted", "ConnectionLimitExceeded", "UserQuotaExceeded",
         "MessageRateLimitExceeded", "ServiceUnavailable", "NetworkError",
         "NetworkUnreachable", "NetworkConnectionLost", "ConnectionTimeout",
         "NetworkTimeout"} : Category(c) \notin Lasting
    BY <1>1, <1>2, <1>3, <1>4, <1>5
  <1> QED BY <1>6, RepeatableErrors, CodeIs DEF Final, Lasting

\* What is not tried again at one caller is not at the next, whatever becomes of it.
LEMMA LastingStatuses ==
    \A s \in Statuses \ Repeatable :
       /\ StatusOf(Received(s)) \notin Repeatable
       /\ StatusOf(Wrapped(Received(s))) \notin Repeatable
  <1>1. \A s \in Statuses \ Repeatable :
           Received(s) \in {"AuthenticationFailed", "PermissionDenied", "InvalidParameter",
                            "UserNotFound", "InternalError", "UnknownError"}
    BY DEF Received, Statuses, Repeatable
  <1> QED BY <1>1, RepeatableErrors DEF Wrapped

\* A final error runs once: before it nothing has run, after it nobody calls again.
OnceInv ==
    wire = 0 /\ Final(script.error) =>
       /\ stage \in {"login", "door", "run"} => ran = 0
       /\ stage # "again"
       /\ stage = "back" => result \notin Repeatable
       /\ ran <= 1

LEMMA OnceStep == PathInv /\ OnceInv /\ [RequestNext]_requestVars => OnceInv'
  <1> SUFFICES ASSUME PathInv, OnceInv, [RequestNext]_requestVars,
                      wire' = 0, Final(script'.error)
               PROVE  /\ stage' \in {"login", "door", "run"} => ran' = 0
                      /\ stage' # "again"
                      /\ stage' = "back" => result' \notin Repeatable
                      /\ ran' <= 1
    BY DEF OnceInv
  <1>1. wire \in Nat /\ ran \in Nat /\ result \in Statuses /\ stage \in Stages
    BY DEF PathInv, PathOK
  <1>2. CASE Gateway
    <2>1. UNCHANGED <<script, ran, wire, result>>
      BY <1>2 DEF Gateway, Login, Trust, AskHook, Enter, EnterAnonymously, EnterAs, TurnAway,
         Check, Pass
    <2>2. stage' \notin {"again", "back"} /\ stage \in {"login", "door"}
      BY <1>2 DEF Gateway, Login, Trust, AskHook, Enter, EnterAnonymously, EnterAs, TurnAway,
         Check, Pass
    <2> QED BY <2>1, <2>2 DEF OnceInv
  <1>3. CASE Refuse
    <2>1. \E e \in {"InvalidParameter", "AuthenticationRequired"} : Raise(e)
      BY <1>3 DEF Refuse
    <2>2. script' = script /\ wire' = wire /\ ran' = ran /\ stage = "run"
      BY <1>3, <2>1 DEF Refuse, Raise
    <2>3. result' \notin Repeatable /\ stage' \in {"done", "back"}
      BY <2>1, RepeatableErrors DEF Raise
    <2> QED BY <2>2, <2>3 DEF OnceInv
  <1>4. CASE Handle
    <2>1. /\ stage = "run" /\ ran' = ran + 1 /\ wire' = wire /\ script' = script
          /\ stage' \in {"done", "back"}
          /\ result' = "Ok" \/ result' = StatusOf(script.error)
      BY <1>4 DEF Handle, Raise, Return
    <2>2. "Ok" \notin Repeatable
      BY DEF Repeatable
    <2> QED BY <2>1, <2>2, FinalIsNotRepeatable DEF OnceInv
  <1>5. CASE Call \/ Publish
    BY <1>5 DEF Call, Publish, OnceInv
  <1>6. CASE CallFails \/ ConnectFails
    BY <1>1, <1>6 DEF CallFails, ConnectFails
  <1>7. CASE CallAgain
    BY <1>7 DEF CallAgain, Resume, ShouldRetry, Repeatable, OnceInv
  <1>8. CASE GiveUp
    <2>1. /\ stage = "back" /\ UNCHANGED <<script, ran, wire>>
          /\ stage' \in {"done", "back"}
          /\ result' \in {result, StatusOf(Received(result)), StatusOf(Wrapped(Received(result)))}
      BY <1>8 DEF GiveUp, Resume
    <2> QED BY <1>1, <2>1, LastingStatuses DEF OnceInv
  <1>9. CASE PassOn
    <2>1. /\ stage = "back" /\ UNCHANGED <<script, ran, wire, result>>
          /\ stage' \in {"done", "back"}
      BY <1>9 DEF PassOn, Resume
    <2> QED BY <2>1 DEF OnceInv
  <1>10. CASE UNCHANGED requestVars
    BY <1>10 DEF requestVars, OnceInv
  <1> QED BY <1>2, <1>3, <1>4, <1>5, <1>6, <1>7, <1>8, <1>9, <1>10 DEF RequestNext, Service

\* However long the path, an error that no repetition mends is not tried again.
THEOREM FinalErrorsOnce == RequestSpec => []FinalErrorsRunOnce
  <1>1. RequestInit => OnceInv
    BY DEF RequestInit, OnceInv
  <1>2. OnceInv => FinalErrorsRunOnce
    BY DEF OnceInv, FinalErrorsRunOnce
  <1> QED BY <1>1, <1>2, OnceStep, PathInvariance, PTL DEF RequestSpec

------------------------------------------------------------------------------
(***************************************************************************)
(* How long the callers hold out                                           *)
(***************************************************************************)

\* the order of the natural numbers
Less == {pair \in Nat \X Nat : pair[1] < pair[2]}

\* Every set of natural numbers has a smallest element.
LEMMA SmallestNat ==
    ASSUME NEW T \in SUBSET Nat, T # {}
    PROVE  \E m \in T : \A n \in T : m <= n
  <1>1. IsWellFoundedOn(Less, Nat)
    BY NatLessThanWellFounded DEF OpToRel, Less
  <1>2. PICK m \in T : \A n \in T : <<n, m>> \notin Less
    BY <1>1, WFMin
  <1>3. \A l, n \in Nat : l < n => <<l, n>> \in Less
    BY DEF Less
  <1>4. ASSUME NEW n \in T PROVE m <= n
    <2>1. n \in Nat /\ m \in Nat
      OBVIOUS
    <2>2. ~(n < m)
      BY <1>2, <1>3, <2>1
    <2> QED BY <2>1, <2>2
  <1> QED BY <1>4

\* Sums of what backoff says exist, up to every number of attempts.
SumsTo(sum, p, n) ==
    sum = [k \in 0..n |-> IF k = 0 THEN 0 ELSE sum[k - 1] + Backoff(p, k - 1)]

LEMMA SumsExist ==
    ASSUME NEW p \in Policies, NEW n \in Nat
    PROVE  \E sum \in [0..n -> Nat] : SumsTo(sum, p, n)
  <1> DEFINE T == {m \in Nat : ~ \E sum \in [0..m -> Nat] : SumsTo(sum, p, m)}
  <1>1. SUFFICES ASSUME T # {} PROVE FALSE
    OBVIOUS
  <1>2. PICK m \in T : \A l \in T : m <= l
    BY <1>1, SmallestNat
  <1>3. m \in Nat /\ \A sum \in [0..m -> Nat] : ~SumsTo(sum, p, m)
    OBVIOUS
  <1>4. CASE m = 0
    <2> DEFINE sum == [k \in 0..0 |-> 0]
    <2>1. sum \in [0..0 -> Nat] /\ SumsTo(sum, p, 0)
      BY DEF SumsTo
    <2> QED BY <1>3, <1>4, <2>1
  <1>5. CASE m # 0
    <2>1. m - 1 \in Nat /\ m - 1 \notin T
      BY <1>2, <1>5
    <2>2. PICK s \in [0..(m - 1) -> Nat] : SumsTo(s, p, m - 1)
      BY <2>1
    <2> DEFINE next(k) == s[k - 1] + Backoff(p, k - 1)
               sum == [k \in 0..m |-> IF k = 0 THEN 0 ELSE next(k)]
    <2>3. \A k \in 0..(m - 1) : s[k] = IF k = 0 THEN 0 ELSE next(k)
      BY <2>2 DEF SumsTo
    <2>4. \A k \in 1..m : k - 1 \in 0..(m - 1) /\ sum[k - 1] = s[k - 1]
      BY <1>3, <1>5, <2>3
    <2>5. \A k \in 1..m : next(k) \in Nat
      <3> SUFFICES ASSUME NEW k \in 1..m PROVE next(k) \in Nat
        OBVIOUS
      <3>1. k - 1 \in Nat /\ s[k - 1] \in Nat
        BY <1>3, <2>4
      <3>2. Backoff(p, k - 1) \in Nat
        BY <3>1, BackoffIs
      <3> QED BY <3>1, <3>2
    <2>6. sum \in [0..m -> Nat]
      BY <1>3, <2>5
    <2>7. \A k \in 0..m : sum[k] = IF k = 0 THEN 0 ELSE sum[k - 1] + Backoff(p, k - 1)
      <3> SUFFICES ASSUME NEW k \in 0..m, k # 0
                   PROVE  sum[k] = sum[k - 1] + Backoff(p, k - 1)
        BY <1>3
      <3>1. sum[k] = next(k)
        OBVIOUS
      <3> HIDE DEF sum
      <3>2. k \in 1..m
        BY <1>3
      <3>3. sum[k - 1] = s[k - 1]
        BY <2>4, <3>2
      <3> QED BY <3>1, <3>3
    <2>8. SumsTo(sum, p, m)
      <3> HIDE DEF sum
      <3> QED BY <2>6, <2>7 DEF SumsTo
    <2> QED BY <1>3, <2>6, <2>8
  <1> QED BY <1>4, <1>5

IsSchedule(sum, p) ==
    /\ sum[0] = 0
    /\ \A k \in 0..p.attempts :
          k < p.attempts => sum[k + 1] = sum[k] + Backoff(p, k)
    /\ sum[p.attempts] = Endurance(p)

\* when a caller of the policy calls again for the k-th time, at the earliest
Schedule(p) == CHOOSE sum \in [0..p.attempts -> Nat] : IsSchedule(sum, p)

LEMMA ScheduleIs ==
    ASSUME NEW p \in Policies
    PROVE  /\ Schedule(p) \in [0..p.attempts -> Nat] /\ IsSchedule(Schedule(p), p)
           /\ p.attempts \in Nat
  <1> DEFINE n == p.attempts
             sum[k \in 0..n] == IF k = 0 THEN 0 ELSE sum[k - 1] + Backoff(p, k - 1)
  <1>1. n \in Nat
    BY DEF Policies
  <1>2. Endurance(p) = sum[n]
    BY DEF Endurance
  <1>3. sum = CHOOSE s : SumsTo(s, p, n)
    BY DEF SumsTo
  <1>4. SumsTo(sum, p, n)
    <2>1. \E s : SumsTo(s, p, n)
      BY <1>1, SumsExist
    <2> HIDE DEF sum
    <2> QED BY <1>3, <2>1
  <1> HIDE DEF sum
  <1>5. PICK s \in [0..n -> Nat] : SumsTo(s, p, n)
    BY <1>1, SumsExist
  <1>6. \A k \in 0..n : sum[k] = IF k = 0 THEN 0 ELSE sum[k - 1] + Backoff(p, k - 1)
    BY <1>4 DEF SumsTo
  <1>7. DOMAIN sum = 0..n
    BY <1>4 DEF SumsTo
  <1>8. sum \in [0..n -> Nat]
    <2> DEFINE T == {k \in 0..n : sum[k] \notin Nat}
    <2>1. SUFFICES ASSUME T # {} PROVE FALSE
      BY <1>4, <1>7 DEF SumsTo
    <2>2. T \in SUBSET Nat
      BY <1>1
    <2>3. PICK m \in T : \A l \in T : m <= l
      BY <2>1, <2>2, SmallestNat
    <2>4. m \in 0..n /\ sum[m] \notin Nat
      OBVIOUS
    <2>5. m # 0
      BY <1>1, <1>6, <2>4
    <2>6. m - 1 \in 0..n /\ m - 1 \in Nat /\ sum[m - 1] \in Nat
      BY <1>1, <2>3, <2>4, <2>5
    <2>7. sum[m] = sum[m - 1] + Backoff(p, m - 1)
      BY <1>6, <2>4, <2>5
    <2> QED BY <2>4, <2>6, <2>7, BackoffIs
  <1>9. IsSchedule(sum, p)
    <2>1. \A k \in 0..n : k < n => sum[k + 1] = sum[k] + Backoff(p, k)
      <3> SUFFICES ASSUME NEW k \in 0..n, k < n
                   PROVE  sum[k + 1] = sum[k] + Backoff(p, k)
        OBVIOUS
      <3>1. k + 1 \in 0..n /\ k + 1 # 0 /\ (k + 1) - 1 = k
        BY <1>1
      <3> QED BY <1>6, <3>1
    <2>2. sum[0] = 0
      BY <1>1, <1>6
    <2> QED BY <1>2, <2>1, <2>2 DEF IsSchedule
  <1> QED BY <1>1, <1>8, <1>9 DEF Schedule

\* An outage that the callers can wait out, and nothing else that goes wrong.
Outlasted ==
    /\ wire = 0 /\ script.needs = "nothing"
    /\ IsRetryable(script.error) /\ script.error # "ConnectionClosed"
    /\ script.heals <= Endurance(policy)

\* A service that is about to call for the k-th time does so on time.
OnTime(k) == k <= policy.attempts /\ Schedule(policy)[k] <= now

\* how often those who wait have called again
Attempts == {callers[i].attempt : i \in DOMAIN callers}

\* While such an outage lasts, whoever waits has an attempt left.
PatienceInv ==
    Outlasted =>
       /\ OnTime(attempt)
       /\ \A k \in Attempts : OnTime(k)
       /\ stage = "back" => result = "Ok" \/ (result \in Repeatable /\ now < script.heals)
       /\ stage = "done" /\ answer.kind # "success" => answer.own

\* An error that may be retried becomes a status that is.
LEMMA RetryableIsRepeatable ==
    \A e : IsRetryable(e) /\ e # "ConnectionClosed" => StatusOf(e) \in Repeatable
  BY DEF IsRetryable, StatusOf, Repeatable

\* Time that passes makes nobody late.
LEMMA StaysOnTime ==
    ASSUME PathInv, now' \in Nat, now <= now', script' = script, NEW k \in Nat, OnTime(k)
    PROVE  OnTime(k)'
  <1>1. policy \in Policies /\ policy' = policy
    BY ScriptIs DEF PathInv, policy
  <1>2. Schedule(policy)[k] \in Nat /\ Schedule(policy') = Schedule(policy)
    BY <1>1, ScheduleIs DEF OnTime
  <1>3. now \in Nat
    BY DEF PathInv, TokenInv, TokensOK
  <1>4. Schedule(policy)[k] <= now'
    BY <1>2, <1>3 DEF OnTime
  <1> QED BY <1>1, <1>2, <1>4 DEF OnTime

\* Whoever calls for the first time is on time.
LEMMA FirstOnTime == ASSUME PathInv PROVE OnTime(0)
  <1>1. policy \in Policies
    BY ScriptIs DEF PathInv, policy
  <1>2. Schedule(policy)[0] = 0 /\ policy.attempts \in Nat
    BY <1>1, ScheduleIs DEF IsSchedule
  <1>3. now \in Nat
    BY DEF PathInv, TokenInv, TokensOK
  <1> QED BY <1>2, <1>3 DEF OnTime

\* A caller that has waited is on time for its next call.
LEMMA NextOnTime ==
    ASSUME PathInv, NEW k \in Nat, OnTime(k), k < policy.attempts,
           now' = now + Backoff(policy, k), script' = script
    PROVE  OnTime(k + 1)'
  <1>1. policy \in Policies /\ policy' = policy
    BY ScriptIs DEF PathInv, policy
  <1> DEFINE w == Schedule(policy)
  <1>2. w \in [0..policy.attempts -> Nat] /\ policy.attempts \in Nat
        /\ w[k + 1] = w[k] + Backoff(policy, k)
    BY <1>1, ScheduleIs DEF IsSchedule
  <1>3. now \in Nat /\ Backoff(policy, k) \in Nat
    BY <1>1, BackoffIs DEF PathInv, TokenInv, TokensOK
  <1>4. w[k] <= now /\ w[k] \in Nat
    BY <1>2 DEF OnTime
  <1>5. w' = w
    BY <1>1
  <1> HIDE DEF w
  <1>6. w[k + 1] <= now' /\ k + 1 <= policy.attempts
    BY <1>2, <1>3, <1>4
  <1> QED BY <1>1, <1>5, <1>6 DEF OnTime, w

\* A caller has an attempt left while the outage lasts.
LEMMA AttemptLeft ==
    ASSUME PathInv, NEW k \in Nat, OnTime(k), now < script.heals,
           script.heals <= Endurance(policy)
    PROVE  k < policy.attempts
  <1>1. policy \in Policies
    BY ScriptIs DEF PathInv, policy
  <1> DEFINE n == policy.attempts
  <1>2. Schedule(policy) \in [0..n -> Nat] /\ n \in Nat
        /\ Schedule(policy)[n] = Endurance(policy)
    BY <1>1, ScheduleIs DEF IsSchedule
  <1>3. now \in Nat /\ script.heals \in Nat
    BY RequestAssumption DEF PathInv, PathOK, TokenInv, TokensOK
  <1>4. k <= n /\ Schedule(policy)[k] <= now
    BY DEF OnTime
  <1>5. Endurance(policy) \in Nat
    BY <1>2
  <1> HIDE DEF n
  <1>6. k # n
    BY <1>2, <1>3, <1>4, <1>5
  <1> QED BY <1>2, <1>4, <1>6 DEF n

LEMMA PatienceInit == RequestInit => PatienceInv
  <1> SUFFICES ASSUME RequestInit PROVE PatienceInv
    OBVIOUS
  <1>1. OnTime(0)
    BY PathInit, FirstOnTime
  <1> QED BY <1>1 DEF RequestInit, PatienceInv, Attempts

LEMMA AttemptsAre == PathOK => Attempts \subseteq Nat
  <1> SUFFICES ASSUME PathOK, NEW i \in DOMAIN callers PROVE callers[i].attempt \in Nat
    BY DEF Attempts
  <1> DEFINE Entries == [ctx : Contexts, via : Carriers, attempt : Nat]
  <1>1. callers \in Seq(Entries)
    BY DEF PathOK
  <1>2. \A e \in Entries : e.attempt \in Nat
    OBVIOUS
  <1> HIDE DEF Entries
  <1>3. callers[i] \in Entries
    BY <1>1
  <1> QED BY <1>2, <1>3

\* Who waits after a step: who did before, or the service that has just called.
LEMMA WaitersAre ==
    ASSUME PathInv, [RequestNext]_requestVars
    PROVE  /\ Attempts' \subseteq Attempts \cup {attempt}
           /\ attempt' \in {0, attempt} \/ CallAgain
           /\ stage = "back" => Caller.attempt \in Attempts
           /\ script' = script /\ now' \in Nat /\ now <= now'
           /\ wire \in Nat /\ wire <= wire'
  <1>1. wire \in Nat /\ now \in Nat
    BY DEF PathInv, PathOK, TokenInv, TokensOK
  <1>2. stage = "back" => Caller.attempt \in Attempts
    BY ResumeIs DEF PathInv, Caller, Attempts
  <1>3. CASE Gateway
    <2>1. UNCHANGED <<callers, script, attempt, wire>>
      BY <1>3 DEF Gateway, Login, Trust, AskHook, Enter, EnterAnonymously, EnterAs, TurnAway,
         Check, Pass
    <2>2. now' \in {now, now + 1}
      <3>1. TokenStep => now' = now
        BY DEF TokenStep, Generate, ListToken, KeepList, RegisterFails, BeginRevoke, EndRevoke,
           RevokeFails, BeginSweep, SweepOne, EndSweep, SweepFails, CheckRevoked, Present
      <3> QED BY <1>3, <3>1 DEF Gateway, Login, Trust, AskHook, Enter, EnterAnonymously, EnterAs,
         TurnAway, Check, Pass
    <2>3. Attempts' = Attempts
      BY <2>1 DEF Attempts
    <2> QED BY <1>1, <1>2, <2>1, <2>2, <2>3
  <1>4. CASE Refuse \/ Handle \/ ConnectFails
    <2>1. UNCHANGED <<callers, script, attempt, now>> /\ wire' \in {wire, wire + 1}
      BY <1>4 DEF Refuse, Handle, ConnectFails, Raise, Return
    <2>2. Attempts' = Attempts
      BY <2>1 DEF Attempts
    <2> QED BY <1>1, <1>2, <2>1, <2>2
  <1>5. CASE Call \/ CallFails
    <2> DEFINE entry == [ctx |-> ctx, via |-> via, attempt |-> attempt]
               Entries == [ctx : Contexts, via : Carriers, attempt : Nat]
    <2>1. /\ UNCHANGED <<script, now>> /\ attempt' = 0 /\ wire' \in {wire, wire + 1}
          /\ callers' = Append(callers, entry)
      BY <1>5 DEF Call, CallFails
    <2>2. callers \in Seq(Entries) /\ entry.attempt = attempt
      BY DEF PathInv, PathOK
    <2> HIDE DEF entry, Entries
    <2>3. \A i \in DOMAIN callers' : \/ i \in DOMAIN callers /\ callers'[i] = callers[i]
                                     \/ callers'[i] = entry
      BY <2>1, <2>2
    <2>4. Attempts' \subseteq Attempts \cup {attempt}
      BY <2>2, <2>3 DEF Attempts
    <2> QED BY <1>1, <1>2, <2>1, <2>4
  <1>6. CASE Publish
    <2>1. UNCHANGED <<script, now, wire>> /\ attempt' = 0 /\ callers' = <<>>
      BY <1>6 DEF Publish
    <2>2. Attempts' = {}
      BY <2>1 DEF Attempts
    <2> QED BY <1>1, <1>2, <2>1, <2>2
  <1>7. CASE CallAgain \/ GiveUp \/ PassOn
    <2>1. /\ stage = "back" /\ UNCHANGED <<script, wire>> /\ callers' = Waiting
          /\ attempt' = 0 \/ CallAgain
      BY <1>7 DEF CallAgain, GiveUp, PassOn, Resume
    <2>2. \A i \in DOMAIN Waiting : i \in DOMAIN callers /\ Waiting[i] = callers[i]
      BY <2>1, ResumeIs DEF PathInv
    <2>3. Attempts' \subseteq Attempts
      BY <2>1, <2>2 DEF Attempts
    <2>4. now' \in Nat /\ now <= now'
      <3>1. CASE CallAgain
        <4>1. Caller.attempt \in Nat
          BY <1>2, <2>1, AttemptsAre DEF PathInv
        <4>2. Backoff(policy, Caller.attempt) \in Nat
          BY <4>1, BackoffIs, ScriptIs DEF policy, PathInv
        <4>3. now' = now + Backoff(policy, Caller.attempt)
          BY <3>1 DEF CallAgain
        <4> QED BY <1>1, <4>2, <4>3
      <3>2. CASE GiveUp \/ PassOn
        <4>1. now' = now
          BY <3>2 DEF GiveUp, PassOn
        <4> QED BY <1>1, <4>1
      <3> QED BY <1>7, <3>1, <3>2
    <2> QED BY <1>1, <1>2, <2>1, <2>3, <2>4
  <1>8. CASE UNCHANGED requestVars
    <2>1. UNCHANGED <<callers, script, attempt, now, wire>>
      BY <1>8 DEF requestVars
    <2>2. Attempts' = Attempts
      BY <2>1 DEF Attempts
    <2> QED BY <1>1, <1>2, <2>1, <2>2
  <1> QED BY <1>3, <1>4, <1>5, <1>6, <1>7, <1>8 DEF RequestNext, Service

LEMMA PatienceStep ==
    PathInv /\ PatienceInv /\ [RequestNext]_requestVars => PatienceInv'
  <1> SUFFICES ASSUME PathInv, PatienceInv, [RequestNext]_requestVars, Outlasted'
               PROVE  /\ OnTime(attempt)'
                      /\ \A k \in Attempts' : OnTime(k)'
                      /\ stage' = "back" => \/ result' = "Ok"
                                            \/ result' \in Repeatable /\ now' < script'.heals
                      /\ stage' = "done" /\ answer'.kind # "success" => answer'.own
    BY DEF PatienceInv
  <1>1. /\ Attempts' \subseteq Attempts \cup {attempt}
        /\ attempt' \in {0, attempt} \/ CallAgain
        /\ stage = "back" => Caller.attempt \in Attempts
        /\ script' = script /\ now' \in Nat /\ now <= now'
        /\ wire \in Nat /\ wire <= wire'
    BY WaitersAre
  <1>2. Outlasted /\ wire = 0 /\ wire' = 0
    BY <1>1 DEF Outlasted, policy
  <1>3. /\ OnTime(attempt) /\ \A k \in Attempts : OnTime(k)
        /\ stage = "back" => result = "Ok" \/ (result \in Repeatable /\ now < script.heals)
        /\ stage = "done" /\ answer.kind # "success" => answer.own
    BY <1>2 DEF PatienceInv
  <1>4. attempt \in Nat /\ Attempts \subseteq Nat
    BY AttemptsAre DEF PathInv, PathOK
  <1>5. \A k \in Attempts' : OnTime(k)'
    <2> SUFFICES ASSUME NEW k \in Attempts' PROVE OnTime(k)'
      OBVIOUS
    <2>1. k \in Nat /\ OnTime(k)
      BY <1>1, <1>3, <1>4
    <2> QED BY <1>1, <2>1, StaysOnTime
  <1>6. ASSUME NEW k \in Nat, attempt' = k, OnTime(k)' PROVE OnTime(attempt)'
    BY <1>6 DEF OnTime
  <1>7. attempt' \in {0, attempt} => OnTime(attempt)'
    <2>1. OnTime(0)' /\ \A k \in Nat : k = attempt => OnTime(k)'
      BY <1>1, <1>3, FirstOnTime, StaysOnTime
    <2> QED BY <1>4, <1>6, <2>1
  <1>8. ASSUME attempt' \in {0, attempt},
               stage' = "back" => \/ result' = "Ok"
                                  \/ result' \in Repeatable /\ now' < script'.heals,
               stage' = "done" /\ answer'.kind # "success" => answer'.own
        PROVE  /\ OnTime(attempt)'
               /\ \A k \in Attempts' : OnTime(k)'
               /\ stage' = "back" => \/ result' = "Ok"
                                     \/ result' \in Repeatable /\ now' < script'.heals
               /\ stage' = "done" /\ answer'.kind # "success" => answer'.own
    BY <1>5, <1>7, <1>8
  <1>9. CASE Gateway
    <2>1. /\ attempt' = attempt /\ stage' # "back"
          /\ stage' = "done" => TurnAway
      BY <1>9 DEF Gateway, Login, Trust, AskHook, Enter, EnterAnonymously, EnterAs, TurnAway,
         Check, Pass, PathInv, PathOK
    <2>2. TurnAway => answer'.own
      BY DEF TurnAway, HttpAnswer
    <2> QED BY <1>8, <2>1, <2>2
  <1>10. CASE Refuse
    BY <1>2, <1>10 DEF Refuse, Lacks, LacksUser, Outlasted
  <1>11. CASE Handle
    <2>1. attempt' = attempt /\ now' = now
      BY <1>11 DEF Handle, Raise, Return
    <2>2. CASE now < script.heals
      <3>1. Raise(script.error)
        BY <1>11, <2>2 DEF Handle
      <3>2. StatusOf(script.error) \in Repeatable
        BY <1>2, RetryableIsRepeatable DEF Outlasted
      <3>3. stage' = "back" => result' \in Repeatable /\ now' < script'.heals
        BY <1>1, <2>1, <2>2, <3>1, <3>2 DEF Raise
      <3>4. stage' = "done" => answer'.own
        BY <3>1 DEF Raise, HttpAnswer, DetailAnswer
      <3> QED BY <1>8, <2>1, <3>3, <3>4
    <2>3. CASE ~(now < script.heals)
      <3>1. Return
        BY <1>11, <2>3 DEF Handle
      <3>2. result' = "Ok" /\ (stage' = "done" => answer'.kind = "success")
        BY <3>1 DEF Return, Success
      <3> QED BY <1>8, <2>1, <3>2
    <2> QED BY <2>2, <2>3
  <1>12. CASE Call \/ Publish
    <2>1. attempt' = 0 /\ stage' = "run"
      BY <1>12 DEF Call, Publish
    <2> QED BY <1>8, <2>1
  <1>13. CASE CallFails \/ ConnectFails
    BY <1>2, <1>13 DEF CallFails, ConnectFails
  <1>14. CASE CallAgain
    <2> DEFINE k == Caller.attempt
    <2>1. stage = "back" /\ k < policy.attempts /\ now' = now + Backoff(policy, k)
          /\ attempt' = k + 1 /\ stage' = "again"
      BY <1>14 DEF CallAgain, Resume, ShouldRetry
    <2>2. k \in Nat /\ OnTime(k)
      BY <1>1, <1>3, <1>4, <2>1
    <2> HIDE DEF k
    <2>3. PICK l \in Nat : l = k
      BY <2>2
    <2>4. OnTime(l + 1)' /\ attempt' = l + 1 /\ l + 1 \in Nat
      BY <1>1, <2>1, <2>2, <2>3, NextOnTime
    <2>5. OnTime(attempt)'
      BY <1>6, <2>4
    <2> QED BY <1>5, <2>1, <2>5
  <1>15. CASE GiveUp
    <2>1. stage = "back" /\ result # "Ok" /\ ~ShouldRetry(Caller.attempt, result)
      BY <1>15 DEF GiveUp, Resume
    <2>2. result \in Repeatable /\ now < script.heals
      BY <1>3, <2>1
    <2>3. Caller.attempt < policy.attempts
      BY <1>1, <1>2, <1>3, <1>4, <2>1, <2>2, AttemptLeft DEF Outlasted
    <2> QED BY <2>1, <2>2, <2>3 DEF ShouldRetry, Repeatable
  <1>16. CASE PassOn
    <2>1. attempt' = 0 /\ result' = result /\ result = "Ok"
          /\ (stage' = "done" => answer'.kind = "success")
      BY <1>16 DEF PassOn, Resume, Success
    <2> QED BY <1>8, <2>1
  <1>17. CASE UNCHANGED requestVars
    <2>1. UNCHANGED <<attempt, stage, result, now, script, answer>>
      BY <1>17 DEF requestVars
    <2> QED BY <1>3, <1>8, <2>1
  <1> QED BY <1>9, <1>10, <1>11, <1>12, <1>13, <1>14, <1>15, <1>16, <1>17
          DEF RequestNext, Service

\* An outage that is over before the callers' policy is exhausted does not show.
THEOREM OutagesAreSurvived == RequestSpec => []OutageSurvived
  <1>1. PathInv /\ PatienceInv => OutageSurvived
    <2> SUFFICES ASSUME PathInv, PatienceInv, stage = "done", answer.kind # "success",
                        ~answer.own, ~(wire > 0), script.needs = "nothing",
                        IsRetryable(script.error), script.error # "ConnectionClosed",
                        ~(script.heals > Endurance(policy))
                 PROVE  FALSE
      BY DEF OutageSurvived
    <2>1. wire = 0
      BY DEF PathInv, PathOK
    <2>2. script.heals <= Endurance(policy)
      <3>1. policy \in Policies /\ script.heals \in Nat
        BY RequestAssumption, ScriptIs DEF PathInv, PathOK, policy
      <3>2. Endurance(policy) \in Nat
        BY <3>1, ScheduleIs DEF IsSchedule
      <3> QED BY <3>1, <3>2
    <2> QED BY <2>1, <2>2 DEF PatienceInv, Outlasted
  <1> QED BY <1>1, PatienceInit, PatienceStep, PathInvariance, PTL DEF RequestSpec

------------------------------------------------------------------------------
(***************************************************************************)
(* The gateway's rate                                                      *)
(***************************************************************************)

\* the checks from the i-th to the j-th that admitted a request
Admitted(cs, i, j) == {k \in i..j : cs[k].admitted}

Checks == [at : Nat, admitted : BOOLEAN]

Buckets == [tokens : Nat, last : Nat]

\* Whoever was admitted since a check, and whoever still may be, is covered by the
\* burst and the time since.
Covered(i) ==
    Second * (Cardinality(Admitted(checks, i, Len(checks))) + door.tokens)
       <= Second * Burst + Rate * (door.last - checks[i].at)

RateInv ==
    /\ checks \in Seq(Checks)
    /\ \A i \in DOMAIN checks : checks[i].at <= now
    /\ checks = <<>> => door = None
    /\ checks # <<>> =>
          /\ door \in Buckets
          /\ door.tokens <= Burst
          /\ door.last = checks[Len(checks)].at
          /\ \A i \in DOMAIN checks : Covered(i)
    /\ RateHeld

\* Facts of arithmetic: a division cuts off, and the time of two stretches adds up.
LEMMA DivisionIs ==
    ASSUME NEW a \in Nat, NEW s \in Nat \ {0}
    PROVE  /\ a \div s \in Nat
           /\ s * (a \div s) <= a
           /\ a >= s => a \div s > 0
  <1>1. a \div s \in Nat /\ s * (a \div s) <= a /\ a < s * ((a \div s) + 1)
    OBVIOUS
  <1>2. a >= s => a \div s # 0
    BY <1>1
  <1> QED BY <1>1, <1>2

LEMMA Stretches ==
    ASSUME NEW r \in Int, NEW a \in Int, NEW b \in Int, NEW c \in Int
    PROVE  r * (c - a) = r * (b - a) + r * (c - b)
  OBVIOUS

LEMMA Sums ==
    ASSUME NEW s \in Int, NEW a \in Int, NEW b \in Int
    PROVE  s * (a + b) = s * a + s * b
  OBVIOUS

\* what a client may spend at a check
Bucket == IF door = None THEN Burst ELSE Lesser(door.tokens + Refill(now - door.last), Burst)

\* A check refills the bucket for the time that has passed and no more.
LEMMA BucketIs ==
    ASSUME PathInv, RateInv
    PROVE  /\ Bucket \in 0..Burst
           /\ checks # <<>> =>
                 /\ Second * Bucket <= Second * door.tokens + Rate * (now - door.last)
                 /\ Burst > 0 /\ Rate * (now - door.last) >= Second => Bucket > 0
  <1>1. now \in Nat /\ Burst \in Nat /\ Rate \in Nat /\ Second \in Nat \ {0}
    BY RequestAssumption DEF PathInv, TokenInv, TokensOK
  <1>2. CASE checks = <<>>
    BY <1>1, <1>2 DEF RateInv, Bucket
  <1>3. CASE checks # <<>>
    <2>1. door \in Buckets /\ door # None
      BY <1>3, RequestAssumption DEF RateInv, Buckets
    <2>2. door.tokens \in Nat /\ door.last \in Nat
      BY <2>1 DEF Buckets
    <2>3. door.last <= now
      BY <1>3 DEF RateInv
    <2> DEFINE e == now - door.last
               r == Refill(e)
    <2>4. e \in Nat /\ e * Rate \in Nat /\ e * Rate = Rate * e
      BY <1>1, <2>2, <2>3
    <2>5. r \in Nat /\ Second * r <= Rate * e /\ (Rate * e >= Second => r > 0)
      BY <1>1, <2>4, DivisionIs DEF Refill
    <2>6. Bucket = Lesser(door.tokens + r, Burst)
      BY <2>1 DEF Bucket
    <2> HIDE DEF r, e
    <2>7. Bucket \in Nat /\ Bucket <= door.tokens + r /\ Bucket <= Burst
          /\ Bucket \in {door.tokens + r, Burst}
      <3>1. door.tokens + r \in Nat
        BY <2>2, <2>5
      <3> QED BY <1>1, <2>6, <3>1, LesserIs
    <2>8. Second * Bucket <= Second * (door.tokens + r)
      BY <1>1, <2>2, <2>5, <2>7
    <2>9. Second * (door.tokens + r) = Second * door.tokens + Second * r
      BY <1>1, <2>2, <2>5, Sums
    <2>10. Second * Bucket <= Second * door.tokens + Rate * e
      <3>1. Second * Bucket \in Int /\ Second * door.tokens \in Int /\ Second * r \in Int
            /\ Rate * e \in Int
        BY <1>1, <2>2, <2>4, <2>5, <2>7
      <3> QED BY <2>5, <2>8, <2>9, <3>1
    <2>11. Burst > 0 /\ Rate * e >= Second => Bucket > 0
      BY <1>1, <2>2, <2>5, <2>7
    <2> QED BY <1>1, <2>7, <2>10, <2>11 DEF e
  <1> QED BY <1>2, <1>3

\* What a check leaves in the bucket.
LEMMA CheckedIs ==
    ASSUME PathInv, RateInv, Check
    PROVE  /\ door' \in Buckets /\ door'.last = now
           /\ \E a \in BOOLEAN :
                 /\ checks' = Append(checks, [at |-> now, admitted |-> a])
                 /\ (a <=> Bucket > 0)
                 /\ a => door'.tokens = Bucket - 1
                 /\ ~a => door'.tokens = 0
           /\ stage = "door" /\ now' = now
  <1>1. Checked(door) = [tokens |-> IF Bucket > 0 THEN Bucket - 1 ELSE 0, last |-> now,
                         admitted |-> Bucket > 0]
    BY DEF Checked, Bucket
  <1>2. /\ door' = [tokens |-> Checked(door).tokens, last |-> Checked(door).last]
        /\ checks' = Append(checks, [at |-> now, admitted |-> Checked(door).admitted])
        /\ stage = "door" /\ now' = now
    BY DEF Check
  <1>3. Bucket \in Nat /\ now \in Nat
    BY BucketIs, RequestAssumption DEF PathInv, TokenInv, TokensOK
  <1>4. CASE Bucket > 0
    <2>1. (Bucket > 0) = TRUE
      BY <1>4
    <2>2. Checked(door) = [tokens |-> Bucket - 1, last |-> now, admitted |-> TRUE]
      BY <1>1, <1>4, <2>1
    <2>3. door' = [tokens |-> Bucket - 1, last |-> now]
          /\ checks' = Append(checks, [at |-> now, admitted |-> TRUE])
      BY <1>2, <2>2
    <2>4. Bucket - 1 \in Nat
      BY <1>3, <1>4
    <2>5. door' \in Buckets /\ door'.tokens = Bucket - 1 /\ door'.last = now
      BY <1>3, <2>3, <2>4 DEF Buckets
    <2> QED BY <1>2, <1>4, <2>3, <2>5
  <1>5. CASE ~(Bucket > 0)
    <2>1. (Bucket > 0) = FALSE
      BY <1>5
    <2>2. Checked(door) = [tokens |-> 0, last |-> now, admitted |-> FALSE]
      BY <1>1, <1>5, <2>1
    <2>3. door' = [tokens |-> 0, last |-> now]
          /\ checks' = Append(checks, [at |-> now, admitted |-> FALSE])
      BY <1>2, <2>2
    <2>4. door' \in Buckets /\ door'.tokens = 0 /\ door'.last = now
      BY <1>3, <2>3 DEF Buckets
    <2> QED BY <1>2, <1>5, <2>3, <2>4
  <1> QED BY <1>4, <1>5

\* One more check: the earlier ones count as before, and this one where it admits.
CountsOn(cs, ds, n, a, t) ==
    /\ n \in Nat /\ DOMAIN cs = 1..n
    /\ ds \in Seq(Checks) /\ Len(ds) = n + 1 /\ DOMAIN ds = 1..(n + 1)
    /\ \A i \in 1..n : ds[i] = cs[i]
    /\ ds[n + 1].at = t /\ ds[n + 1].admitted = a
    /\ \A i, j \in 1..n : Admitted(ds, i, j) = Admitted(cs, i, j)
    /\ \A i \in 1..(n + 1) :
          /\ Cardinality(Admitted(cs, i, n)) \in Nat
          /\ a => Cardinality(Admitted(ds, i, n + 1)) = Cardinality(Admitted(cs, i, n)) + 1
          /\ ~a => Cardinality(Admitted(ds, i, n + 1)) = Cardinality(Admitted(cs, i, n))

LEMMA AdmittedIs ==
    ASSUME NEW cs \in Seq(Checks), NEW a \in BOOLEAN, NEW t \in Nat
    PROVE  CountsOn(cs, Append(cs, [at |-> t, admitted |-> a]), Len(cs), a, t)
  <1> DEFINE n == Len(cs)
             ds == Append(cs, [at |-> t, admitted |-> a])
             entry == [at |-> t, admitted |-> a]
  <1>1. n \in Nat /\ DOMAIN cs = 1..n
    OBVIOUS
  <1>2. entry \in Checks /\ entry.at = t /\ entry.admitted = a
    BY DEF Checks
  <1> HIDE DEF entry, n
  <1>3. /\ ds \in Seq(Checks) /\ Len(ds) = n + 1 /\ DOMAIN ds = 1..(n + 1)
        /\ ds[n + 1] = entry
        /\ \A i \in 1..n : ds[i] = cs[i]
    BY <1>1, <1>2 DEF entry, n
  <1> HIDE DEF ds
  <1>4. \A i, j \in 1..n : Admitted(ds, i, j) = Admitted(cs, i, j)
    BY <1>1, <1>3 DEF Admitted
  <1>5. ASSUME NEW i \in 1..(n + 1)
        PROVE  /\ Cardinality(Admitted(cs, i, n)) \in Nat
               /\ a => Cardinality(Admitted(ds, i, n + 1)) = Cardinality(Admitted(cs, i, n)) + 1
               /\ ~a => Cardinality(Admitted(ds, i, n + 1)) = Cardinality(Admitted(cs, i, n))
    <2>1. IsFiniteSet(Admitted(cs, i, n))
      <3>1. IsFiniteSet(i..n)
        BY <1>1, FS_Interval
      <3>2. Admitted(cs, i, n) \in SUBSET (i..n)
        BY DEF Admitted
      <3> QED BY <3>1, <3>2, FS_Subset
    <2>2. n + 1 \notin Admitted(cs, i, n)
      BY <1>1 DEF Admitted
    <2>3. \A k \in i..(n + 1) : k = n + 1 \/ (k \in i..n /\ ds[k] = cs[k])
      BY <1>1, <1>3
    <2>4. i..n \subseteq i..(n + 1) /\ n + 1 \in i..(n + 1)
      BY <1>1
    <2>5. ds[n + 1].admitted = a /\ \A k \in i..n : ds[k] = cs[k]
      BY <1>1, <1>2, <1>3
    <2>6. a => Admitted(ds, i, n + 1) = Admitted(cs, i, n) \cup {n + 1}
      BY <2>3, <2>4, <2>5 DEF Admitted
    <2>7. ~a => Admitted(ds, i, n + 1) = Admitted(cs, i, n)
      BY <2>3, <2>4, <2>5 DEF Admitted
    <2>8. Cardinality(Admitted(cs, i, n) \cup {n + 1}) = Cardinality(Admitted(cs, i, n)) + 1
      BY <2>1, <2>2, FS_AddElement
    <2> QED BY <2>1, <2>6, <2>7, <2>8, FS_CardinalityType
  <1> QED BY <1>1, <1>2, <1>3, <1>4, <1>5 DEF CountsOn, n, ds

\* The arithmetic of a refill: what was covered before is covered after it.
LEMMA RefillCovers ==
    ASSUME NEW s \in Nat, NEW b \in Nat, NEW r \in Nat,
           NEW at \in Nat, NEW last \in Nat, NEW t \in Nat,
           NEW got \in Nat, NEW old \in Nat, NEW new \in Nat,
           s * (got + old) <= s * b + r * (last - at),
           s * new <= s * old + r * (t - last)
    PROVE  s * (got + new) <= s * b + r * (t - at)
  <1>1. s * (got + new) = s * got + s * new /\ s * (got + old) = s * got + s * old
    BY Sums
  <1>2. r * (t - at) = r * (last - at) + r * (t - last)
    BY Stretches
  <1> DEFINE sg == s * got
             sn == s * new
             so == s * old
             sb == s * b
             ra == r * (last - at)
             rt == r * (t - last)
  <1>3. sg \in Int /\ sn \in Int /\ so \in Int /\ sb \in Int /\ ra \in Int /\ rt \in Int
    OBVIOUS
  <1>4. sg + so <= sb + ra /\ sn <= so + rt
    BY <1>1
  <1> HIDE DEF sg, sn, so, sb, ra, rt
  <1>5. sg + sn <= sb + (ra + rt)
    BY <1>3, <1>4
  <1> QED BY <1>1, <1>2, <1>5 DEF sg, sn, so, sb, ra, rt

LEMMA Products ==
    ASSUME NEW s \in Nat, NEW a \in Int, NEW b \in Int, a <= b
    PROVE  s * a <= s * b
  OBVIOUS

\* A check keeps the gateway within its rate.
LEMMA CheckHolds ==
    ASSUME PathInv, RateInv, Check
    PROVE  RateInv'
  <1> DEFINE n == Len(checks)
             cs == checks
             old == door
             t == now
  <1>1. PICK a \in BOOLEAN :
           /\ checks' = Append(checks, [at |-> now, admitted |-> a])
           /\ a <=> Bucket > 0
           /\ a => door'.tokens = Bucket - 1
           /\ ~a => door'.tokens = 0
    BY CheckedIs
  <1>2. /\ now \in Nat /\ now' = now
        /\ Burst \in Nat /\ Rate \in Nat /\ Second \in Nat \ {0}
        /\ door' \in Buckets /\ door'.last = now
        /\ Bucket \in 0..Burst /\ cs \in Seq(Checks)
    BY CheckedIs, BucketIs, RequestAssumption DEF PathInv, TokenInv, TokensOK, RateInv
  <1> DEFINE ds == checks'
             new == door'
             got(i) == Cardinality(Admitted(cs, i, n))
  <1>3. /\ n \in Nat /\ DOMAIN cs = 1..n
        /\ ds \in Seq(Checks) /\ Len(ds) = n + 1 /\ DOMAIN ds = 1..(n + 1)
        /\ \A i \in 1..n : ds[i] = cs[i]
        /\ ds[n + 1].at = now /\ ds[n + 1].admitted = a
        /\ \A i, j \in 1..n : Admitted(ds, i, j) = Admitted(cs, i, j)
        /\ \A i \in 1..(n + 1) :
              /\ got(i) \in Nat
              /\ a => Cardinality(Admitted(ds, i, n + 1)) = got(i) + 1
              /\ ~a => Cardinality(Admitted(ds, i, n + 1)) = got(i)
    <2>1. CountsOn(cs, ds, n, a, now)
      BY <1>1, <1>2, AdmittedIs
    <2> QED BY <2>1 DEF CountsOn
  <1>4. \A i \in 1..n : cs[i].at \in Nat /\ cs[i].at <= now
    <2>1. \A i \in 1..n : cs[i] \in Checks
      BY <1>2, <1>3
    <2> QED BY <1>3, <2>1 DEF RateInv, Checks
  \* what was admitted and what is left make up the bucket
  <1>5. ASSUME NEW i \in 1..(n + 1)
        PROVE  /\ Cardinality(Admitted(ds, i, n + 1)) \in Nat
               /\ Cardinality(Admitted(ds, i, n + 1)) + new.tokens = got(i) + Bucket
               /\ new.tokens \in Nat /\ new.tokens <= Burst
    <2>1. Bucket \in Nat /\ Bucket <= Burst
      BY <1>2
    <2> QED BY <1>1, <1>2, <1>3, <2>1
  <1>6. ASSUME NEW i \in 1..(n + 1)
        PROVE  Second * (got(i) + Bucket) <= Second * Burst + Rate * (now - ds[i].at)
    <2>1. Bucket \in Nat /\ Bucket <= Burst
      BY <1>2
    <2>2. CASE i = n + 1
      <3>1. Admitted(cs, i, n) = {}
        BY <1>3, <2>2 DEF Admitted
      <3>2. got(i) = 0
        BY <3>1, FS_EmptySet
      <3>3. Second * Bucket <= Second * Burst
        BY <1>2, <2>1, Products
      <3>4. Rate * (now - ds[i].at) = 0
        BY <1>2, <1>3, <2>2
      <3>5. Second * Burst \in Int /\ Second * Bucket \in Int /\ got(i) + Bucket = Bucket
        BY <1>2, <2>1, <3>2
      <3> QED BY <3>3, <3>4, <3>5
    <2>3. CASE i \in 1..n
      <3>1. cs # <<>>
        BY <1>3, <2>3
      <3>2. /\ old \in Buckets
            /\ Second * (got(i) + old.tokens) <= Second * Burst + Rate * (old.last - cs[i].at)
        BY <1>3, <2>3, <3>1 DEF RateInv, Covered
      <3>3. Second * Bucket <= Second * old.tokens + Rate * (now - old.last)
        BY <3>1, BucketIs
      <3>4. old.tokens \in Nat /\ old.last \in Nat
        BY <3>2 DEF Buckets
      <3>5. got(i) \in Nat /\ ds[i].at = cs[i].at /\ cs[i].at \in Nat
        BY <1>3, <1>4, <2>3
      <3> HIDE DEF n, cs, ds, old, got
      <3> QED BY <1>2, <2>1, <3>2, <3>3, <3>4, <3>5, RefillCovers
    <2> QED BY <1>3, <2>2, <2>3
  <1>7. \A i \in DOMAIN ds : Covered(i)'
    BY <1>2, <1>3, <1>5, <1>6 DEF Covered
  <1>8. RateHeld'
    <2>1. ASSUME NEW i \in 1..(n + 1), NEW j \in 1..(n + 1), i <= j
          PROVE  Second * Cardinality(Admitted(ds, i, j))
                    <= Second * Burst + Rate * (ds[j].at - ds[i].at)
      <3>1. CASE j \in 1..n
        <4>1. i \in 1..n
          BY <1>3, <2>1, <3>1
        <4>2. Second * Cardinality(Admitted(cs, i, j))
                 <= Second * Burst + Rate * (cs[j].at - cs[i].at)
          BY <1>3, <2>1, <3>1, <4>1 DEF RateInv, RateHeld, Admitted
        <4> QED BY <1>3, <3>1, <4>1, <4>2
      <3>2. CASE j = n + 1
        <4> DEFINE c == Cardinality(Admitted(ds, i, n + 1))
        <4>1. c \in Nat /\ got(i) + Bucket \in Nat /\ c <= got(i) + Bucket
          BY <1>2, <1>3, <1>5
        <4>2. Second * c <= Second * (got(i) + Bucket)
          BY <1>2, <4>1, Products
        <4>3. Second * (got(i) + Bucket) <= Second * Burst + Rate * (now - ds[i].at)
          BY <1>6
        <4>4. Second * c \in Int /\ Second * (got(i) + Bucket) \in Int
          BY <1>2, <4>1
        <4>5. Second * Burst + Rate * (now - ds[i].at) \in Int
          <5>1. ds[i].at \in Nat
            <6>1. CASE i \in 1..n  BY <1>3, <1>4, <6>1
            <6>2. CASE i = n + 1  BY <1>2, <1>3, <6>2
            <6> QED BY <1>3, <6>1, <6>2
          <5> QED BY <1>2, <5>1
        <4>6. Second * c <= Second * Burst + Rate * (now - ds[i].at)
          BY <4>2, <4>3, <4>4, <4>5
        <4> QED BY <1>3, <3>2, <4>6
      <3> QED BY <1>3, <3>1, <3>2
    <2>2. ASSUME NEW i \in 1..(n + 1), i > 1, Burst > 0,
                 Rate * (ds[i].at - ds[i - 1].at) >= Second
          PROVE  ds[i].admitted
      <3>1. CASE i \in 1..n
        <4>1. i - 1 \in 1..n
          BY <1>3, <2>2, <3>1
        <4>2. ds[i] = cs[i] /\ ds[i - 1] = cs[i - 1]
          BY <1>3, <3>1, <4>1
        <4> QED BY <1>3, <2>2, <3>1, <4>2 DEF RateInv, RateHeld
      <3>2. CASE i = n + 1
        <4>1. n \in 1..n /\ i - 1 = n /\ cs # <<>>
          BY <1>3, <2>2, <3>2
        <4>2. old.last = cs[n].at
          BY <4>1 DEF RateInv
        <4>3. Rate * (now - old.last) >= Second
          BY <1>3, <2>2, <3>2, <4>1, <4>2
        <4>4. Bucket > 0
          BY <2>2, <4>1, <4>3, BucketIs
        <4> QED BY <1>1, <1>3, <3>2, <4>4
      <3> QED BY <1>3, <3>1, <3>2
    <2> QED BY <1>3, <2>1, <2>2 DEF RateHeld, Admitted
  <1>9. \A i \in DOMAIN ds : ds[i].at <= now'
    BY <1>2, <1>3, <1>4
  <1>10. ds # <<>> /\ new.last = ds[Len(ds)].at
    BY <1>2, <1>3
  <1> QED BY <1>2, <1>3, <1>5, <1>7, <1>8, <1>9, <1>10 DEF RateInv

LEMMA RateStep == PathInv /\ RateInv /\ [RequestNext]_requestVars => RateInv'
  <1> SUFFICES ASSUME PathInv, RateInv, [RequestNext]_requestVars PROVE RateInv'
    OBVIOUS
  <1>1. now \in Nat /\ now' \in Nat /\ now <= now'
    BY WaitersAre DEF PathInv, TokenInv, TokensOK
  <1>2. Check \/ UNCHANGED <<door, checks>>
    BY DEF RequestNext, Gateway, Service, Login, Trust, AskHook, Enter, EnterAnonymously, EnterAs,
       TurnAway, Pass, Refuse, Handle, ConnectFails, Raise, Return, Call, CallFails, Publish,
       CallAgain, GiveUp, PassOn, Resume, gateway, requestVars
  <1>3. CASE UNCHANGED <<door, checks>>
    <2>1. \A i \in DOMAIN checks : Covered(i) => Covered(i)'
      BY <1>3 DEF Covered
    <2>2. \A i \in DOMAIN checks : checks[i].at \in Nat
      <3>1. \A i \in DOMAIN checks : checks[i] \in Checks
        BY DEF RateInv
      <3> QED BY <3>1 DEF Checks
    <2>3. \A i \in DOMAIN checks : checks[i].at <= now'
      BY <1>1, <2>2 DEF RateInv
    <2>4. RateHeld'
      BY <1>3 DEF RateInv, RateHeld
    <2> QED BY <1>3, <2>1, <2>3, <2>4 DEF RateInv
  <1> QED BY <1>2, <1>3, CheckHolds

\* The gateway lets no more through than the burst and the tokens of the time, and
\* nobody out who has kept still for the time of a token.
THEOREM GatewayHoldsRate == RequestSpec => []RateHeld
  <1>1. RequestInit => RateInv
    <2> SUFFICES ASSUME RequestInit PROVE RateInv
      OBVIOUS
    <2>1. checks = <<>> /\ door = None
      BY DEF RequestInit
    <2> QED BY <2>1 DEF RateInv, RateHeld
  <1>2. RateInv => RateHeld
    BY DEF RateInv
  <1> QED BY <1>1, <1>2, RateStep, PathInvariance, PTL DEF RequestSpec

==============================================================================
