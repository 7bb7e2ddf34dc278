----------------------------- MODULE MCRequestPath -----------------------------
(***************************************************************************)
(* Requests of three kinds: one of every identity that the codecs tell     *)
(* apart, one for every error of the last service, and one of an impatient *)
(* client of the gateway.                                                  *)
(***************************************************************************)
EXTENDS RequestPath, TLC

CONSTANTS t1, t2, alice, bob, wide, house, uuid, reader, writer

Identified(value, tenant, user) ==
    [f \in Fields |-> CASE f = "tenant" -> tenant [] f = "user" -> user [] OTHER -> value]

ActingFor ==
    {None} \cup [id : {alice, bob, wide}, type : {"Unspecified", "User", "Service"},
                 roles : {<<>>, <<reader, writer>>}]

SmallOrigins ==
    {[id |-> Identified(value, tenant, user), actor |-> actor] :
        value \in {None, alice}, tenant \in {None, alice, wide},
        user \in {None, alice, wide}, actor \in ActingFor}

Anybody == [id |-> Identified(None, None, None), actor |-> None]

Holder(user, tenant) ==
    [c \in Claimed |-> CASE c = "user" -> user [] c = "tenant" -> tenant [] OTHER -> None]

Plain == [context |-> None, tenant |-> None, trace |-> FALSE]

Defaults ==
    [context |-> [id |-> Identified(house, None, house),
                  actor |-> [id |-> house, type |-> "System", roles |-> <<writer>>]],
     tenant |-> house, trace |-> TRUE]

SmallInterceptors == {Plain, Defaults}

Twice == [kind |-> "fixed", attempts |-> 1, base |-> 2, cap |-> 2]
Patiently == [kind |-> "exponential", attempts |-> 3, base |-> 1, cap |-> 2]

Script(first, error, heals, needs) ==
    [origin |-> first, error |-> error, heals |-> heals, needs |-> needs, policy |-> Patiently,
     checks |-> 1, patience |-> 0, hops |-> 3, login |-> "none", holder |-> Holder(alice, None)]

With(policies, scripts) == {[s EXCEPT !.policy = p] : p \in policies, s \in scripts}

Impatient == [Script(Anybody, "System", 0, "nothing") EXCEPT !.checks = 5, !.patience = 5]

\* a request that names somebody itself, with a token of bob or of someone whose name
\* cannot be in a header
WithToken(login, holder, n) ==
    [Script([id |-> Identified(None, alice, alice), actor |-> None], "System", 0, "user")
       EXCEPT !.hops = n, !.login = login, !.holder = holder]

TokenScripts ==
    {[WithToken("required", Holder(bob, None), 0) EXCEPT !.patience = 3, !.checks = 0]}
    \cup {WithToken(login, holder, 1) : login \in Logins \ {"none"},
                   holder \in {Holder(bob, None), Holder(bob, house), Holder(wide, None)}}

SmallScripts ==
    {Script(o, "System", 0, "nothing") : o \in SmallOrigins}
    \cup {Script(Anybody, "System", 0, n) : n \in {"user", "tenant"}}
    \cup {Impatient} \cup TokenScripts
    \cup With({Twice, Patiently},
               {Script(Anybody, e, 1, "nothing") : e \in FlareErrors}
               \cup {Script(Anybody, e, n, "nothing") :
                        e \in {x \in FlareErrors : IsRetryable(x)}, n \in 2..6})

TokenSymmetry == Permutations(Tokens)

==============================================================================
