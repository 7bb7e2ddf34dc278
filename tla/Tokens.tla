-------------------------------- MODULE Tokens --------------------------------
(***************************************************************************)
(* The tokens of one user: TokenService (auth/token.rs) generates and      *)
(* validates them, and RedisTokenStore (auth/store/redis.rs) registers and *)
(* revokes them with several Redis commands each, which those of other     *)
(* processes interleave with and which may fail.                           *)
(*                                                                         *)
(* Time is in seconds.  The key token:active is written and deleted, but   *)
(* never read, and is left out; whoever revokes gives the revocation the   *)
(* life of a token.                                                        *)
(***************************************************************************)
EXTENDS Naturals

CONSTANTS
    Tokens,        \* their jti
    Life,          \* ttl of the TokenService
    Leeway,        \* for which jsonwebtoken accepts a token that has expired
    MaxTokenFaults \* bound on the Redis commands that fail

ASSUME TokenAssumption ==
    /\ Life \in Nat \ {0} /\ Leeway \in Nat /\ MaxTokenFaults \in Nat

VARIABLES
    now,          \* the time
    token,        \* token[t]: how far t is, and its claim exp
    list,         \* token:user, the set of the user's tokens, and when it expires, or 0
    revokedUntil, \* revokedUntil[t]: when token:revoked of t expires
    sweep,        \* revoke_user: whether it runs, and whom it has still to revoke
    presented,    \* the token that a request carries, and what becomes of it
    tokenFaults,  \* failed commands so far
    \* history
    revoked,      \* tokens that the store has said are revoked
    stray         \* tokens whose entry in the list may be missing

tokenVars == <<token, list, revokedUntil, sweep, presented, tokenFaults, revoked, stray>>

NotPresented == [stage |-> "none"]
Refused == [stage |-> "refused"]

TokenInit ==
    /\ token = [t \in Tokens |-> [stage |-> "none", exp |-> 0]]
    /\ list = [of |-> {}, until |-> 0]
    /\ revokedUntil = [t \in Tokens |-> 0]
    /\ sweep = [on |-> FALSE, left |-> {}, found |-> {}]
    /\ presented = NotPresented
    /\ tokenFaults = 0
    /\ revoked = {} /\ stray = {}

TokenFault == tokenFaults < MaxTokenFaults /\ tokenFaults' = tokenFaults + 1

Goes(t, stage) == token' = [token EXCEPT ![t].stage = stage]

Known == {t \in Tokens : token[t].stage \in {"issued", "leaving", "gone"}}
Registering == {t \in Tokens : token[t].stage \in {"active", "listed"}}

------------------------------------------------------------------------------
(***************************************************************************)
(* generate_token and register                                             *)
(***************************************************************************)

\* smembers: a key that has expired is an empty set
Listed == IF list.until = 0 \/ now < list.until THEN list.of ELSE {}

\* the claims are signed and the active key is set
Generate(t) ==
    /\ token[t].stage = "none"
    /\ token' = [token EXCEPT ![t] = [stage |-> "active", exp |-> now + Life]]
    /\ stray' = IF sweep.on THEN stray \cup {t} ELSE stray
    /\ UNCHANGED <<now, list, revokedUntil, sweep, presented, tokenFaults, revoked>>

\* sadd: a set that it makes does not expire
ListToken(t) ==
    /\ token[t].stage = "active"
    /\ Goes(t, "listed")
    /\ list' = [of |-> Listed \cup {t}, until |-> IF Listed = {} THEN 0 ELSE list.until]
    /\ UNCHANGED <<now, revokedUntil, sweep, presented, tokenFaults, revoked, stray>>

\* mutant: a set that expires already is left to
KeepListOnce(t) ==
    /\ token[t].stage = "listed"
    /\ Goes(t, "issued")
    /\ list' = [of |-> Listed, until |-> IF Listed = {} THEN 0
                                         ELSE IF list.until = 0 THEN now + Life ELSE list.until]
    /\ stray' = IF t \in Listed THEN stray ELSE stray \cup {t}
    /\ UNCHANGED <<now, revokedUntil, sweep, presented, tokenFaults, revoked>>

\* expire, which is no error when the set is gone; the token is handed out
KeepList(t) ==
    /\ token[t].stage = "listed"
    /\ Goes(t, "issued")
    /\ list' = [of |-> Listed, until |-> IF Listed = {} THEN 0 ELSE now + Life]
    /\ stray' = IF t \in Listed THEN stray ELSE stray \cup {t}
    /\ UNCHANGED <<now, revokedUntil, sweep, presented, tokenFaults, revoked>>

\* a command fails, and generate_token: the token is dropped
RegisterFails(t) ==
    /\ token[t].stage \in {"none", "active", "listed"}
    /\ TokenFault
    /\ Goes(t, "failed")
    /\ UNCHANGED <<now, list, revokedUntil, sweep, presented, revoked, stray>>

------------------------------------------------------------------------------
(***************************************************************************)
(* revoke and revoke_user                                                  *)
(***************************************************************************)

RevokedNow(t) == [revokedUntil EXCEPT ![t] = now + Life]

\* revoke: srem
BeginRevoke(t) ==
    /\ token[t].stage = "issued"
    /\ Goes(t, "leaving")
    /\ list' = [list EXCEPT !.of = Listed \ {t}]
    /\ UNCHANGED <<now, revokedUntil, sweep, presented, tokenFaults, revoked, stray>>

\* revoke: set_ex
EndRevoke(t) ==
    /\ token[t].stage = "leaving"
    /\ Goes(t, "gone")
    /\ revokedUntil' = RevokedNow(t)
    /\ revoked' = revoked \cup {t}
    /\ UNCHANGED <<now, list, sweep, presented, tokenFaults, stray>>

RevokeFails(t) ==
    /\ token[t].stage = "leaving"
    /\ TokenFault
    /\ Goes(t, "issued")
    /\ revokedUntil' \in {revokedUntil, RevokedNow(t)}
    /\ stray' = stray \cup {t}
    /\ UNCHANGED <<now, list, sweep, presented, revoked>>

\* revoke_user: smembers
BeginSweep ==
    /\ ~sweep.on /\ Known # {}
    /\ sweep' = [on |-> TRUE, left |-> Listed,
                 found |-> {t \in Known : token[t].stage = "issued"} \ stray]
    /\ stray' = stray \cup Registering
    /\ UNCHANGED <<now, token, list, revokedUntil, presented, tokenFaults, revoked>>

SweepOne ==
    /\ sweep.on
    /\ \E t \in sweep.left :
          /\ revokedUntil' = RevokedNow(t)
          /\ sweep' = [sweep EXCEPT !.left = @ \ {t}]
    /\ UNCHANGED <<now, token, list, presented, tokenFaults, revoked, stray>>

\* del of the set, with whatever was added to it since smembers
EndSweep ==
    /\ sweep.on /\ sweep.left = {}
    /\ sweep' = [on |-> FALSE, left |-> {}, found |-> {}]
    /\ list' = [of |-> {}, until |-> 0]
    /\ revoked' = revoked \cup sweep.found
    /\ UNCHANGED <<now, token, revokedUntil, presented, tokenFaults, stray>>

\* a command fails, and revoke_user; it may be called again
SweepFails ==
    /\ sweep.on
    /\ TokenFault
    /\ sweep' = [on |-> FALSE, left |-> {}, found |-> {}]
    /\ UNCHANGED <<now, token, list, revokedUntil, presented, revoked, stray>>

------------------------------------------------------------------------------
(***************************************************************************)
(* validate_token                                                          *)
(***************************************************************************)

\* decode
IsExpired(t) == now > token[t].exp + Leeway

\* a request carries a token of the user, which is decoded
Present(t) ==
    /\ presented.stage = "none" /\ t \in Known
    /\ presented' = IF IsExpired(t) THEN Refused
                    ELSE [stage |-> "decoded", token |-> t, late |-> t \in revoked]
    /\ UNCHANGED <<now, token, list, revokedUntil, sweep, tokenFaults, revoked, stray>>

\* is_revoked
IsRevoked(t) == now < revokedUntil[t]

CheckRevoked ==
    /\ presented.stage = "decoded"
    /\ \/ /\ presented' = IF IsRevoked(presented.token) THEN Refused
                          ELSE [presented EXCEPT !.stage = "accepted"]
          /\ UNCHANGED tokenFaults
       \/ TokenFault /\ presented' = Refused
    /\ UNCHANGED <<now, token, list, revokedUntil, sweep, revoked, stray>>

TokenStep ==
    \/ \E t \in Tokens :
          \/ Generate(t) \/ ListToken(t) \/ KeepList(t) \/ RegisterFails(t)
          \/ BeginRevoke(t) \/ EndRevoke(t) \/ RevokeFails(t)
    \/ BeginSweep \/ SweepOne \/ EndSweep \/ SweepFails
    \/ CheckRevoked \/ \E t \in Tokens : Present(t)

------------------------------------------------------------------------------
(***************************************************************************)
(* Properties                                                              *)
(***************************************************************************)

\* A token is not accepted in its life any more once revoke, or a revoke_user that
\* found it handed out, has returned.  (For the leeway after its life it may be.)
\* Exempt are tokens that are missing in the user's set: those registered while
\* revoke_user runs, or while the set expires, and those whose own revoke has failed.
RevokedStays ==
    presented.stage = "accepted" /\ now < token[presented.token].exp => ~presented.late

==============================================================================
