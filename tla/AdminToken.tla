----------------------------- MODULE AdminToken -----------------------------
(***************************************************************************)
(* The admin token of auth-service: the cache that all handlers of a       *)
(* process share, filled under an asyncio lock by _get_admin_token         *)
(* (services/keycloak_service.py).                                         *)
(*                                                                         *)
(* Time is kept in counters that run down: of a token, the time until      *)
(* Keycloak refuses it (life) and until the cache does (left).  Requests   *)
(* and answers may be under way for any time: httpx has a timeout of ten   *)
(* seconds for each phase of a call and none for the whole.                *)
(***************************************************************************)
EXTENDS Handlers, Naturals, Sequences, FiniteSets

CONSTANTS
    LIFETIME,   \* expires_in: how long Keycloak accepts an admin token
    MARGIN      \* how much sooner the cache gives it up

ASSUME AdminTokenAssumption == LIFETIME \in Nat /\ MARGIN \in Nat

VARIABLES
    waiting,    \* the handlers at the lock: the first holds it
    cache,      \* _admin_token_cache: what is left of its token
    token       \* token[h]: how far handler h is with its token

tokenVars == <<waiting, cache, token>>

-----------------------------------------------------------------------------
(* Types *)

Time == 0 .. LIFETIME + MARGIN

Stage == {"none", "waiting", "asking", "told", "held", "used"}

AtLock == {"waiting", "asking", "told"}

\* The lock's queue holds each handler that waits or asks once, and only the
\* first asks.
TokenTypeOK ==
    /\ waiting \in Seq(Handler)
    /\ \A i, j \in 1 .. Len(waiting) : waiting[i] = waiting[j] => i = j
    /\ \A h \in Handler :
         token[h].stage \in AtLock <=> \E i \in 1 .. Len(waiting) : waiting[i] = h
    /\ \A i \in 2 .. Len(waiting) : token[waiting[i]].stage = "waiting"
    /\ cache \in [left: Time, life: Time]
    /\ token \in [Handler -> [stage: Stage, left: Time, life: Time]]

NoToken == [stage |-> "none", left |-> 0, life |-> 0]

TokenInit ==
    /\ waiting = <<>>
    /\ cache = [left |-> 0, life |-> 0]
    /\ token = [h \in Handler |-> NoToken]

-----------------------------------------------------------------------------
(* Time *)

\* What the cache counts as expired it will not return.
Cached(left, life) ==
    IF left = 0 THEN [left |-> 0, life |-> 0] ELSE [left |-> left, life |-> life]

Less(n) == IF n = 0 THEN 0 ELSE n - 1

\* Time passes, for the cache and every token alike.
Tick ==
    /\ cache' = Cached(Less(cache.left), Less(cache.life))
    /\ token' = [h \in Handler |-> [token[h] EXCEPT !.left = Less(@), !.life = Less(@)]]
    /\ UNCHANGED waiting

-----------------------------------------------------------------------------
(* _get_admin_token *)

Holds(h) == waiting # <<>> /\ Head(waiting) = h

\* Leaving the async with block, by return or by exception.
Release == waiting' = Tail(waiting)

Take(h, t) == token' = [token EXCEPT ![h] = t]

\* await lock.acquire(): the lock is given out in the order of the requests.
AwaitLock(h) ==
    /\ token[h].stage = "none"
    /\ waiting' = Append(waiting, h)
    /\ Take(h, [NoToken EXCEPT !.stage = "waiting"])
    /\ UNCHANGED cache

\* The cache still counts its token as good.  Its first use is under way from
\* here on, and left says for how long the margin covers it.
FromCache(h) ==
    /\ Holds(h) /\ token[h].stage = "waiting"
    /\ cache.left > 0
    /\ Take(h, [stage |-> "held", left |-> MARGIN, life |-> cache.life])
    /\ Release
    /\ UNCHANGED cache

\* now is read: the new token's expires_at will be counted from here.
AskKeycloak(h) ==
    /\ Holds(h) /\ token[h].stage = "waiting"
    /\ cache.left = 0
    /\ Take(h, [stage |-> "asking", left |-> IF MARGIN < LIFETIME THEN LIFETIME - MARGIN ELSE 0,
                life |-> 0])
    /\ UNCHANGED <<waiting, cache>>

\* Keycloak issues the token; its answer is under way.
TokenIssued(h) ==
    /\ token[h].stage = "asking"
    /\ Take(h, [stage |-> "told", left |-> token[h].left, life |-> LIFETIME])
    /\ UNCHANGED <<waiting, cache>>

\* Mutant: expires_at is counted from the answer.
StoreTokenFromAnswer(h) ==
    /\ token[h].stage = "told"
    /\ cache' = Cached(LIFETIME - MARGIN, token[h].life)
    /\ Take(h, [stage |-> "held", left |-> 0, life |-> token[h].life])
    /\ Release

\* The answer is stored and the token returned, however late the answer came:
\* no margin covers the use of a new token.
StoreToken(h) ==
    /\ token[h].stage = "told"
    /\ cache' = Cached(token[h].left, token[h].life)
    /\ Take(h, [stage |-> "held", left |-> 0, life |-> token[h].life])
    /\ Release

\* Mutant: the lock is released after the answer only.
TokenFailsHoldingLock(h) ==
    /\ token[h].stage \in {"asking", "told"}
    /\ Take(h, NoToken)
    /\ UNCHANGED <<waiting, cache>>

\* The request fails or is refused, or its answer is lost: the exception
\* releases the lock and leaves the cache alone.
TokenFails(h) ==
    /\ token[h].stage \in {"asking", "told"}
    /\ Take(h, NoToken)
    /\ Release
    /\ UNCHANGED cache

GetAdminToken(h) ==
    \/ FromCache(h) \/ AskKeycloak(h) \/ TokenIssued(h) \/ StoreToken(h)

-----------------------------------------------------------------------------
(* The use of a token *)

\* Keycloak accepts the token of handler h.
Authorised(h) ==
    \/ token[h].stage = "held" /\ token[h].life > 0
    \/ token[h].stage = "used"

\* The first request with the token has arrived.  How long those that follow
\* take is left open: the token may have expired by any of them, which then
\* fails as for any other reason.
Used(h) ==
    /\ Take(h, [NoToken EXCEPT !.stage = "used"])
    /\ UNCHANGED <<waiting, cache>>

\* The caller has done with it.
Forget(h) ==
    /\ Take(h, NoToken)
    /\ UNCHANGED <<waiting, cache>>

-----------------------------------------------------------------------------
(* What holds however the handlers interleave *)

\* A token that the cache gives out is good for MARGIN longer: the first request
\* made with it, if it arrives within that time, never meets a Keycloak that has
\* expired the token, however long the wait for the lock, the request for the
\* token and its answer took, as expires_at is counted from before the token was
\* asked for.  Of a token that has just come from Keycloak nothing of the kind
\* holds, since its answer may have come at any time.
CachedTokenCovered ==
    \A h \in Handler : token[h].stage = "held" /\ token[h].left > 0 => token[h].life > 0

=============================================================================
