------------------------------ MODULE RequestPath ------------------------------
(***************************************************************************)
(* A request on its way through several services and its answer on the way *)
(* back.  An HTTP gateway admits it (http/middleware/rate_limit.rs); each  *)
(* service handles it, calls the next one over gRPC or publishes it as a   *)
(* message, and the context travels as in Propagation.  A failure returns  *)
(* as a gRPC status that every caller converts into an error of its own    *)
(* (Errors), after it has called again as often as its RetryPolicy says    *)
(* (grpc/retry).  The first service answers in HTTP, or with an            *)
(* ErrorDetail where the request came as a message.                        *)
(*                                                                         *)
(* Time passes while a caller waits before it calls again, and between the *)
(* checks at the gateway.  The service that handles the request fails with *)
(* one error until a time when it has recovered.                           *)
(***************************************************************************)
EXTENDS Propagation, Errors, Tokens, FiniteSets

CONSTANTS
    Scripts,   \* what may befall a request
    Rate,      \* requests_per_second of the gateway's RateLimiter
    Burst,     \* its burst_capacity
    Second,    \* a second, in units of time
    MaxWire    \* bound on the calls that fail on the wire

Needs == {"nothing", "user", "tenant"}

\* how the gateway authenticates a request: not, in auth_middleware, in
\* optional_auth_middleware, or, for a connection, with the validator of a mode
Logins == {"none", "required", "optional", "core_jwt", "http_hook"}

\* what the claims of a token say of its holder
Claimed == {"user", "device", "tenant"}

ASSUME RequestAssumption ==
    /\ \A s \in Scripts :
          /\ s.origin \in Origins
          /\ s.error \in FlareErrors /\ s.heals \in Nat
          /\ s.needs \in Needs
          /\ s.checks \in Nat /\ s.patience \in Nat /\ s.hops \in 0..MaxHops
          /\ s.login \in Logins
          /\ s.holder \in [Claimed -> Values \cup {None}] /\ s.holder["user"] # None
          /\ s.policy \in [kind : {"exponential", "fixed"}, attempts : Nat, base : Nat, cap : Nat]
    /\ Rate \in Nat /\ Burst \in Nat /\ Second \in Nat \ {0}
    /\ None \notin [tokens : Nat, last : Nat]
    /\ MaxWire \in Nat

VARIABLES
    script,  \* what befalls this request
    door,    \* the gateway's limiter: tokens and last_update of a client, or None
    checks,  \* history: when the client was checked, and whether it was admitted
    stage,   \* "login", "door", "run", "again", "back", "done"
    attempt, \* how often the current service has repeated its call
    callers, \* the services that wait for an answer, the last one first to get it
    result,  \* the status on its way to the last caller
    answer,  \* what the first service answers, or None
    ran,     \* history: how often a service has handled the request
    wire     \* calls that failed on the wire

\* the RetryPolicy of the callers
policy == script.policy

journey == <<ctx, origin, via, hops>>
gateway == <<door, checks, tokenVars>>
requestVars == <<journey, script, now, gateway, stage, attempt, callers, result,
                 answer, ran, wire>>

RequestInit ==
    /\ script \in Scripts
    /\ origin \in {HttpDecode(MapEncode(script.origin))}
                  \cup {o \in {script.origin} : script.login = "none"}
    /\ ctx = origin /\ via = "start" /\ hops = 0
    /\ now = 0 /\ TokenInit
    /\ door = None
    /\ checks = <<>>
    /\ stage = IF script.login = "none" THEN "door" ELSE "login"
    /\ attempt = 0
    /\ callers = <<>>
    /\ result = "Ok"
    /\ answer = None
    /\ ran = 0
    /\ wire = 0

------------------------------------------------------------------------------
(***************************************************************************)
(* The gateway's authentication                                            *)
(***************************************************************************)

\* mutant: a header stays where the token has no claim
AuthenticatedPartly(h, claims) ==
    [h EXCEPT !.id = [f \in Fields |-> IF f \in Claimed THEN Text(claims[f], @[f]) ELSE @[f]]]

\* the request's own identity headers are removed, and the claims put in their place
Authenticated(h, claims) ==
    [h EXCEPT !.id = [f \in Fields |-> IF f \in Claimed THEN Text(claims[f], None) ELSE @[f]]]

Nobody == [c \in Claimed |-> None]

\* what happens to tokens, and the request that arrives with one
Login ==
    /\ stage = "login"
    /\ presented.stage \in {"none", "decoded"} /\ script.login # "http_hook"
    /\ TokenStep
    /\ UNCHANGED <<journey, script, door, checks, stage, attempt, callers, result,
                   answer, ran, wire>>

\* CompositeTokenValidator: a token of a trusted issuer is looked up in no store
Trust ==
    /\ stage = "login" /\ script.login = "core_jwt" /\ presented.stage = "none"
    /\ presented' = [stage |-> "vouched"]
    /\ UNCHANGED <<token, list, revokedUntil, sweep, tokenFaults, revoked, stray>>
    /\ UNCHANGED <<journey, script, now, door, checks, stage, attempt, callers, result,
                   answer, ran, wire>>

\* what the hook may answer; it says that a token is active, and of whom, or of nobody
HookErrors ==
    [rejected |-> "InvalidToken", inactive |-> "InvalidToken",
     failed |-> "ProviderUnavailable", anonymous |-> "ProviderUnavailable"]

\* HttpHookTokenValidator::validate and into_principal
AskHook ==
    /\ stage = "login" /\ script.login = "http_hook" /\ presented.stage = "none"
    /\ presented' \in {[stage |-> "vouched"]}
                     \cup {[stage |-> "refused", error |-> HookErrors[a]] : a \in DOMAIN HookErrors}
    /\ UNCHANGED <<token, list, revokedUntil, sweep, tokenFaults, revoked, stray>>
    /\ UNCHANGED <<journey, script, now, door, checks, stage, attempt, callers, result,
                   answer, ran, wire>>

\* from_token_claims: a principal makes the context of a connection
Principal(claims) ==
    [id |-> [f \in Fields |-> IF f \in Claimed THEN claims[f]
                              ELSE IF f = "request" THEN Uuid ELSE None],
     actor |-> None]

EnterAs(claims) ==
    /\ origin' = IF script.login \in {"required", "optional"}
                 THEN HttpDecode(Authenticated(MapEncode(script.origin), claims))
                 ELSE Principal(claims)
    /\ ctx' = origin'
    /\ stage' = "door"
    /\ UNCHANGED <<via, hops, script, now, gateway, attempt, callers, result, answer, ran, wire>>

\* with a token that is valid
Enter ==
    /\ stage = "login" /\ presented.stage \in {"accepted", "vouched"}
    /\ EnterAs(script.holder)

\* optional_auth_middleware, without one
EnterAnonymously ==
    /\ stage = "login" /\ script.login = "optional"
    /\ presented.stage \in {"none", "refused"}
    /\ EnterAs(Nobody)

------------------------------------------------------------------------------
(***************************************************************************)
(* RateLimiter                                                             *)
(***************************************************************************)

Lesser(m, n) == IF m < n THEN m ELSE n

\* mutant: only whole seconds count
RefillBySeconds(elapsed) == (elapsed \div Second) * Rate

\* tokens_to_add: fractions are cut off
Refill(elapsed) == (elapsed * Rate) \div Second

\* check: what becomes of the client's bucket, and the answer
Checked(d) ==
    LET tokens == IF d = None THEN Burst ELSE Lesser(d.tokens + Refill(now - d.last), Burst)
    IN  [tokens |-> IF tokens > 0 THEN tokens - 1 ELSE 0, last |-> now,
         admitted |-> tokens > 0]

\* The client asks; of the requests that are admitted one goes on its way.
Check ==
    /\ stage = "door" /\ Len(checks) < script.checks
    /\ LET d == Checked(door) IN
       /\ door' = [tokens |-> d.tokens, last |-> d.last]
       /\ checks' = Append(checks, [at |-> now, admitted |-> d.admitted])
       /\ stage' \in IF d.admitted THEN {"door", "run"} ELSE {"door"}
    /\ UNCHANGED <<journey, script, now, tokenVars, attempt, callers, result, answer,
                   ran, wire>>

Pass ==
    /\ now < script.patience
    /\ stage = "login" \/ (stage = "door" /\ Len(checks) \in 1..(script.checks - 1))
    /\ now' = now + 1
    /\ UNCHANGED <<journey, script, gateway, stage, attempt, callers, result, answer,
                   ran, wire>>

------------------------------------------------------------------------------
(***************************************************************************)
(* RetryPolicy                                                             *)
(***************************************************************************)

\* mutant: what was refused for lack of resources is not tried again
ShouldRetryUnlessExhausted(attempts, status) ==
    attempts < policy.attempts /\ status \in {"Unavailable", "DeadlineExceeded"}

\* mutant: everything but a success is tried again
ShouldRetryAnything(attempts, status) == attempts < policy.attempts /\ status # "Ok"

\* should_retry of both policies
ShouldRetry(attempts, status) ==
    /\ attempts < policy.attempts
    /\ status \in {"Unavailable", "DeadlineExceeded", "ResourceExhausted"}

\* ExponentialBackoffPolicy::backoff_duration
ExponentialBackoff(p, attempts) == Lesser(p.base * 2 ^ Lesser(attempts, 10), p.cap)

\* FixedRetryPolicy::backoff_duration
FixedBackoff(p, attempts) == p.base

Backoff(p, attempts) ==
    IF p.kind = "fixed" THEN FixedBackoff(p, attempts) ELSE ExponentialBackoff(p, attempts)

------------------------------------------------------------------------------
(***************************************************************************)
(* A service                                                               *)
(***************************************************************************)

\* into_response of the gateway's HttpApiError
HttpAnswer(e, own) ==
    [kind |-> "http", error |-> e, code |-> HttpStatus(e), body |-> HttpBody(e), own |-> own]

\* an ErrorDetail, and what its receiver makes of it
DetailAnswer(e, own) ==
    [kind |-> "message", error |-> e, code |-> ToDetail(e),
     body |-> Number[FromDetail(ToDetail(e))], own |-> own]

Success ==
    [kind |-> "success", error |-> None, code |-> 200, body |-> 0, own |-> TRUE]

\* without a valid token
TurnAway ==
    /\ stage = "login" /\ script.login # "optional"
    /\ presented.stage \in {"none", "refused"}
    /\ stage' = "done"
    /\ answer' = IF script.login = "required" THEN HttpAnswer("HttpUnauthorized", TRUE)
                 ELSE [kind |-> "connection", own |-> TRUE, error |->
                         CASE presented.stage = "none" -> "MissingToken"
                           [] script.login = "core_jwt" -> "InvalidToken"
                           [] OTHER -> presented.error]
    /\ UNCHANGED <<journey, script, now, gateway, attempt, callers, result, ran, wire>>

\* the service returns an error of its own
Raise(e) ==
    /\ result' = StatusOf(e)
    /\ IF callers = <<>>
       THEN /\ stage' = "done"
            /\ answer' \in IF via = "start" THEN {HttpAnswer(h, TRUE) : h \in HttpErrors(e)}
                                           ELSE {DetailAnswer(e, TRUE)}
       ELSE stage' = "back" /\ UNCHANGED answer
    /\ UNCHANGED <<journey, script, now, gateway, attempt, callers>>

Return ==
    /\ result' = "Ok"
    /\ IF callers = <<>> THEN stage' = "done" /\ answer' = Success
                         ELSE stage' = "back" /\ UNCHANGED answer
    /\ UNCHANGED <<journey, script, now, gateway, attempt, callers>>

\* require_user_id and require_tenant_id of grpc/utils
Lacks(need) ==
    \/ need = "user" /\ EffectiveUser(ctx) = None
    \/ need = "tenant" /\ ctx.id["tenant"] = None

\* require_user_id of error/mod.rs, in a service that is not called over gRPC
LacksUser == script.needs = "user" /\ ctx.id["user"] = None

\* the service does not handle a request without the identity it needs
Refuse ==
    /\ stage = "run"
    /\ IF via = "grpc"
       THEN Lacks(script.needs) /\ Raise("InvalidParameter")
       ELSE LacksUser /\ Raise("AuthenticationRequired")
    /\ UNCHANGED <<ran, wire>>

MayHandle == ~ IF via = "grpc" THEN Lacks(script.needs) ELSE LacksUser

Handle ==
    /\ stage = "run" /\ MayHandle
    /\ IF now < script.heals THEN Raise(script.error) ELSE Return
    /\ ran' = ran + 1
    /\ UNCHANGED wire

\* the service calls the next one, over gRPC
Call ==
    /\ stage = "again" \/ (stage = "run" /\ MayHandle)
    /\ hops < script.hops
    /\ SendGrpc \/ SendGrpcIntercepted \/ SendGrpcLayered \/ SendGrpcBoth
    /\ callers' = Append(callers, [ctx |-> ctx, via |-> via, attempt |-> attempt])
    /\ stage' = "run"
    /\ attempt' = 0
    /\ UNCHANGED <<script, now, gateway, result, answer, ran, wire>>

\* the call does not reach the next service, or its answer is late
CallFails ==
    /\ stage \in {"run", "again"} /\ wire < MaxWire /\ hops < script.hops
    /\ wire' = wire + 1
    /\ callers' = Append(callers, [ctx |-> ctx, via |-> via, attempt |-> attempt])
    /\ stage' = "back"
    /\ result' \in {"Unavailable", "DeadlineExceeded", "Cancelled"}
    /\ attempt' = 0
    /\ hops' = hops + 1
    /\ UNCHANGED <<ctx, origin, via, script, now, gateway, answer, ran>>

\* what becomes of tonic's transport errors: in ClientBuilder::build, or converted
TransportErrors == {"ConnectionFailed", "NetworkError"}

\* GrpcClient::new has no connection
ConnectFails ==
    /\ stage = "run" /\ wire < MaxWire
    /\ wire' = wire + 1
    /\ \E e \in TransportErrors : Raise(e)
    /\ UNCHANGED ran

\* The service publishes the request, which goes on as a message; the services that
\* called for it have their answer and are followed no further.
Publish ==
    /\ stage = "run" /\ MayHandle /\ hops < script.hops
    /\ SendNats \/ SendKafka
    /\ callers' = <<>>
    /\ attempt' = 0
    /\ UNCHANGED <<script, now, gateway, stage, result, answer, ran, wire>>

------------------------------------------------------------------------------
(***************************************************************************)
(* The way back                                                            *)
(***************************************************************************)

Caller == callers[Len(callers)]
Waiting == SubSeq(callers, 1, Len(callers) - 1)

\* the last caller has the status
Resume ==
    /\ stage = "back"
    /\ ctx' = Caller.ctx
    /\ via' = Caller.via
    /\ hops' = hops - 1
    /\ callers' = Waiting
    /\ UNCHANGED <<origin, script, gateway, ran, wire>>

CallAgain ==
    /\ Resume
    /\ ShouldRetry(Caller.attempt, result)
    /\ now' = now + Backoff(policy, Caller.attempt)
    /\ attempt' = Caller.attempt + 1
    /\ stage' = "again"
    /\ UNCHANGED <<result, answer>>

\* the caller passes on the status, or an error that it makes of it
GiveUp ==
    /\ Resume
    /\ result # "Ok" /\ ~ShouldRetry(Caller.attempt, result)
    /\ IF Waiting = <<>>
       THEN /\ stage' = "done"
            /\ answer' \in
                 IF Caller.via = "start"
                 THEN {HttpAnswer(e, FALSE) : e \in HttpErrorsOfStatus(result)}
                 ELSE {DetailAnswer(e, FALSE) :
                          e \in {Received(result), Wrapped(Received(result))}}
            /\ UNCHANGED result
       ELSE /\ result' \in {result, StatusOf(Received(result)),
                            StatusOf(Wrapped(Received(result)))}
            /\ UNCHANGED <<stage, answer>>
    /\ attempt' = 0
    /\ UNCHANGED now

PassOn ==
    /\ Resume
    /\ result = "Ok"
    /\ IF Waiting = <<>> THEN stage' = "done" /\ answer' = Success
                         ELSE UNCHANGED <<stage, answer>>
    /\ attempt' = 0
    /\ UNCHANGED <<now, result>>

Service == Refuse \/ Handle \/ Call \/ CallFails \/ ConnectFails \/ Publish

Gateway == Login \/ Trust \/ AskHook \/ Enter \/ EnterAnonymously \/ TurnAway \/ Check \/ Pass

RequestNext == Gateway \/ Service \/ CallAgain \/ GiveUp \/ PassOn

RequestSpec == RequestInit /\ [][RequestNext]_requestVars

------------------------------------------------------------------------------
(***************************************************************************)
(* Properties                                                              *)
(***************************************************************************)

\* Behind the gateway's authentication the identity of a request is that of the token
\* it was accepted with, or none: nothing of it is taken from the request itself, and
\* every service on the way acts for the holder.
ActsForHolder ==
    LET accepted == presented.stage \in {"accepted", "vouched"}
        claims == IF accepted THEN script.holder ELSE Nobody
    IN  stage # "login" /\ (accepted \/ script.login = "optional") =>
           /\ \A c \in Claimed : origin.id[c] \in {claims[c], Text(claims[c], None)}
           /\ claims["user"] \in Visible => EffectiveUser(ctx) = claims["user"]

Answered(kind) == stage = "done" /\ answer.kind = kind

\* What is told of an error agrees wherever it is told.  HTTP clients find the code
\* of the status line in the body too, which two tables compute
\* (status_from_flare_error and ApiResponse::from); the gateway blames its client
\* (4xx) only for an error that it has raised itself; and an ErrorDetail gives back
\* the code of every error.
ErrorsKeepMeaning ==
    /\ Answered("http") => answer.body = answer.code
    /\ Answered("http") /\ answer.code < 500 => answer.own
    /\ Answered("message") => answer.body = Number[CodeOf(answer.error)]

\* errors that no repetition mends: SyncCursorRegression says so itself
Final(e) ==
    \/ e = "SyncCursorRegression"
    \/ e \in ErrorCodes
       /\ Category(e) \in {"Authentication", "Protocol", "Serialization", "General"}
       /\ e # "OperationTimeout"

\* However many services a request passes, and whatever they make of the error of
\* the last one, an error that no repetition mends is not tried again by any of them.
FinalErrorsRunOnce ==
    Final(script.error) /\ script.heals > 0 /\ wire = 0 => ran <= 1

\* how long the callers of a policy keep trying
Endurance(p) ==
    LET sum[k \in 0..p.attempts] == IF k = 0 THEN 0 ELSE sum[k - 1] + Backoff(p, k - 1)
    IN  sum[p.attempts]

\* An outage that is_retryable says may be waited out, and that is over before a
\* policy is exhausted, does not show to the client.  ConnectionClosed is exempt: it
\* travels as Unknown, which no policy tries again.
OutageSurvived ==
    stage = "done" /\ answer.kind # "success" =>
       \/ answer.own \/ wire > 0 \/ script.needs # "nothing"
       \/ ~IsRetryable(script.error) \/ script.error = "ConnectionClosed"
       \/ script.heals > Endurance(policy)

\* In no stretch of time does a client get more requests through than its burst and
\* the tokens of that time, and one that has kept still for the time of a token is
\* admitted, unless the burst is none at all.  (One that asks more often may never be:
\* the fractions of a token are cut off at every check, and the time of the refill moves
\* on.)
RateHeld ==
    /\ \A i, j \in DOMAIN checks :
          i <= j =>
             Second * Cardinality({k \in i..j : checks[k].admitted})
                <= Second * Burst + Rate * (checks[j].at - checks[i].at)
    /\ \A i \in DOMAIN checks :
          i > 1 /\ Burst > 0 /\ Rate * (checks[i].at - checks[i - 1].at) >= Second =>
             checks[i].admitted

==============================================================================
