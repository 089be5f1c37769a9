--------------------------- MODULE KeycloakProofs ---------------------------
(***************************************************************************)
(* Proofs about AdminToken and Keycloak, for any number of handlers and    *)
(* sessions, any roles, and any lifetime and margin of the admin token.    *)
(***************************************************************************)
EXTENDS Keycloak, TLAPS

-----------------------------------------------------------------------------
(* The lock and the token of a handler *)

Token == [stage: Stage, left: Time, life: Time]

\* What a handler without a token has, and some times.
LEMMA NoTokenType == NoToken \in Token /\ 0 \in Time /\ MARGIN \in Time
BY AdminTokenAssumption DEF NoToken, Token, Stage, Time

\* What a handler that takes a new token leaves of the others.
LEMMA TakeEffect ==
  ASSUME token \in [Handler -> Token], NEW h \in Handler, NEW t \in Token, Take(h, t)
  PROVE  /\ token' \in [Handler -> Token] /\ token'[h] = t
         /\ \A g \in Handler \ {h} : token'[g] = token[g]
BY DEF Take

\* A handler queues at the lock.
LEMMA PushType ==
  ASSUME TokenTypeOK, NEW h \in Handler, AwaitLock(h)
  PROVE  TokenTypeOK' /\ token'[h].stage = "waiting"
         /\ \A g \in Handler \ {h} : token'[g] = token[g]
<1> DEFINE t == [NoToken EXCEPT !.stage = "waiting"]
           n == Len(waiting)
<1>1. /\ token[h].stage = "none" /\ waiting' = Append(waiting, h) /\ cache' = cache
      /\ t \in Token /\ t.stage = "waiting" /\ token \in [Handler -> Token]
  BY NoTokenType DEF AwaitLock, TokenTypeOK, Token, NoToken, Stage
<1>2. Take(h, t)
  BY DEF AwaitLock
<1> HIDE DEF t
<1>3. /\ token' \in [Handler -> Token] /\ token'[h] = t
      /\ \A g \in Handler \ {h} : token'[g] = token[g]
  BY <1>1, <1>2, TakeEffect
<1>4. n \in Nat /\ \A i \in 1 .. n : waiting[i] # h /\ waiting[i] \in Handler
  BY <1>1 DEF TokenTypeOK, AtLock
<1>5. /\ waiting' \in Seq(Handler) /\ Len(waiting') = n + 1 /\ waiting'[n + 1] = h
      /\ \A i \in 1 .. n : waiting'[i] = waiting[i]
  BY <1>1 DEF TokenTypeOK
<1>6. \A i, j \in 1 .. Len(waiting') : waiting'[i] = waiting'[j] => i = j
  BY <1>4, <1>5 DEF TokenTypeOK
<1>7. ASSUME NEW g \in Handler
      PROVE  token'[g].stage \in AtLock <=> \E i \in 1 .. Len(waiting') : waiting'[i] = g
  <2>1. CASE g = h
    <3>1. token'[g].stage \in AtLock
      BY <1>1, <1>3, <2>1 DEF AtLock
    <3>2. n + 1 \in 1 .. Len(waiting') /\ waiting'[n + 1] = g
      BY <1>4, <1>5, <2>1
    <3> QED BY <3>1, <3>2
  <2>2. CASE g # h
    <3>1. (\E i \in 1 .. Len(waiting') : waiting'[i] = g) <=> \E i \in 1 .. n : waiting[i] = g
      BY <1>4, <1>5, <2>2
    <3> QED BY <1>3, <2>2, <3>1 DEF TokenTypeOK
  <2> QED BY <2>1, <2>2
<1>8. \A i \in 2 .. Len(waiting') : token'[waiting'[i]].stage = "waiting"
  <2> SUFFICES ASSUME NEW i \in 2 .. n + 1
               PROVE  token'[waiting'[i]].stage = "waiting"
    BY <1>5
  <2>1. CASE i = n + 1
    BY <1>1, <1>3, <1>5, <2>1
  <2>2. CASE i \in 2 .. n
    BY <1>3, <1>4, <1>5, <2>2 DEF TokenTypeOK
  <2> QED BY <1>4, <2>1, <2>2
<1>9. cache' \in [left: Time, life: Time]
  BY <1>1 DEF TokenTypeOK
<1> QED BY <1>1, <1>3, <1>5, <1>6, <1>7, <1>8, <1>9 DEF TokenTypeOK, Token

\* The first at the lock leaves it.
LEMMA PopType ==
  ASSUME TokenTypeOK, NEW h \in Handler, waiting # <<>>, Head(waiting) = h,
         NEW t \in Token, t.stage \notin AtLock, Take(h, t), Release,
         cache' \in [left: Time, life: Time]
  PROVE  TokenTypeOK' /\ token'[h] = t
         /\ \A g \in Handler \ {h} : token'[g] = token[g]
<1> DEFINE n == Len(waiting)
<1>1. /\ token \in [Handler -> Token] /\ waiting \in Seq(Handler)
  BY DEF TokenTypeOK, Token
<1>2. /\ token' \in [Handler -> Token] /\ token'[h] = t
      /\ \A g \in Handler \ {h} : token'[g] = token[g]
  BY <1>1, TakeEffect
<1>3. n \in Nat \ {0} /\ waiting[1] = h /\ \A i \in 1 .. n : waiting[i] \in Handler
  BY <1>1
<1>4. /\ waiting' \in Seq(Handler) /\ Len(waiting') = n - 1
      /\ \A i \in 1 .. n - 1 : waiting'[i] = waiting[i + 1]
  BY <1>1, <1>3 DEF Release
<1>5. \A i \in 1 .. n - 1 : i + 1 \in 2 .. n /\ i + 1 \in 1 .. n
  BY <1>3
<1>6. \A i, j \in 1 .. Len(waiting') : waiting'[i] = waiting'[j] => i = j
  <2> SUFFICES ASSUME NEW i \in 1 .. n - 1, NEW j \in 1 .. n - 1, waiting'[i] = waiting'[j]
               PROVE  i = j
    BY <1>4
  <2>1. waiting[i + 1] = waiting[j + 1]
    BY <1>4
  <2>2. i + 1 = j + 1
    BY <1>5, <2>1 DEF TokenTypeOK
  <2> QED BY <2>2
<1>7. \A i \in 1 .. n - 1 : waiting'[i] # h
  <2> SUFFICES ASSUME NEW i \in 1 .. n - 1, waiting'[i] = h
               PROVE  FALSE
    OBVIOUS
  <2>1. waiting[i + 1] = waiting[1] /\ i + 1 \in 1 .. n /\ 1 \in 1 .. n
    BY <1>3, <1>4, <1>5
  <2>2. i + 1 = 1
    BY <2>1 DEF TokenTypeOK
  <2> QED BY <2>2
<1>8. ASSUME NEW g \in Handler
      PROVE  token'[g].stage \in AtLock <=> \E i \in 1 .. Len(waiting') : waiting'[i] = g
  <2>1. CASE g = h
    BY <1>2, <1>4, <1>7, <2>1
  <2>2. CASE g # h
    <3>1. (\E i \in 1 .. n : waiting[i] = g) => \E i \in 1 .. n - 1 : waiting'[i] = g
      <4> SUFFICES ASSUME NEW i \in 1 .. n, waiting[i] = g
                   PROVE  \E j \in 1 .. n - 1 : waiting'[j] = g
        OBVIOUS
      <4>1. i - 1 \in 1 .. n - 1 /\ (i - 1) + 1 = i
        BY <1>3, <2>2
      <4> QED BY <1>4, <4>1
    <3>2. (\E i \in 1 .. n - 1 : waiting'[i] = g) => \E i \in 1 .. n : waiting[i] = g
      BY <1>4, <1>5
    <3> QED BY <1>2, <1>4, <2>2, <3>1, <3>2 DEF TokenTypeOK
  <2> QED BY <2>1, <2>2
<1>9. \A i \in 2 .. Len(waiting') : token'[waiting'[i]].stage = "waiting"
  <2> SUFFICES ASSUME NEW i \in 2 .. n - 1
               PROVE  token'[waiting'[i]].stage = "waiting"
    BY <1>4
  <2>1. i \in 1 .. n - 1 /\ waiting'[i] = waiting[i + 1] /\ i + 1 \in 2 .. n
    BY <1>3, <1>4, <1>5
  <2>2. waiting'[i] # h /\ waiting'[i] \in Handler
    BY <1>3, <1>5, <1>7, <2>1
  <2>3. token[waiting[i + 1]].stage = "waiting"
    BY <2>1 DEF TokenTypeOK
  <2> QED BY <1>2, <2>1, <2>2, <2>3
<1> QED BY <1>2, <1>4, <1>6, <1>8, <1>9 DEF TokenTypeOK, Token

\* A handler goes on with its token, and the queue stays.
LEMMA StayType ==
  ASSUME TokenTypeOK, NEW h \in Handler, NEW t \in Token, Take(h, t), UNCHANGED <<waiting, cache>>,
         t.stage \in AtLock <=> token[h].stage \in AtLock,
         t.stage \in AtLock => t.stage = "waiting" \/ token[h].stage # "waiting" \/ Holds(h)
  PROVE  TokenTypeOK' /\ token'[h] = t
         /\ \A g \in Handler \ {h} : token'[g] = token[g]
<1>1. token \in [Handler -> Token] /\ waiting \in Seq(Handler) /\ Len(waiting) \in Nat
  BY DEF TokenTypeOK, Token
<1>2. /\ token' \in [Handler -> Token] /\ token'[h] = t
      /\ \A g \in Handler \ {h} : token'[g] = token[g]
  BY <1>1, TakeEffect
<1>3. ASSUME NEW i \in 2 .. Len(waiting)
      PROVE  token'[waiting[i]].stage = "waiting"
  <2>1. i \in 1 .. Len(waiting) /\ waiting[i] \in Handler /\ 1 \in 1 .. Len(waiting)
    BY <1>1
  <2>2. token[waiting[i]].stage = "waiting"
    BY DEF TokenTypeOK
  <2>3. CASE waiting[i] # h
    BY <1>2, <2>1, <2>2, <2>3
  <2>4. CASE waiting[i] = h
    <3>1. t.stage \in AtLock
      BY <2>2, <2>4 DEF AtLock
    <3>2. ~ Holds(h)
      <4> SUFFICES ASSUME waiting[1] = h
                   PROVE  FALSE
        BY <1>1, <2>1 DEF Holds
      <4>1. i = 1
        BY <2>1, <2>4 DEF TokenTypeOK
      <4> QED BY <4>1
    <3> QED BY <1>2, <2>2, <2>4, <3>1, <3>2
  <2> QED BY <2>3, <2>4
<1>4. \A g \in Handler : token'[g].stage \in AtLock <=> token[g].stage \in AtLock
  BY <1>2
<1> QED BY <1>2, <1>3, <1>4 DEF TokenTypeOK, Token

\* A handler that asks Keycloak, or has its answer, is the first at the lock.
LEMMA OnlyFirstAsks ==
  ASSUME TokenTypeOK, NEW h \in Handler, token[h].stage \in {"asking", "told"}
  PROVE  waiting # <<>> /\ Head(waiting) = h
<1>1. PICK i \in 1 .. Len(waiting) : waiting[i] = h
  BY DEF TokenTypeOK, AtLock
<1>2. i \notin 2 .. Len(waiting)
  BY <1>1 DEF TokenTypeOK
<1>3. i = 1 /\ waiting \in Seq(Handler) /\ Len(waiting) # 0
  BY <1>1, <1>2 DEF TokenTypeOK
<1> QED BY <1>1, <1>3

-----------------------------------------------------------------------------
(* What is left of a token's life *)

\* The cache gives a token up MARGIN before it ends, as it will one that is
\* asked for or told of; a token it has given out lives longer than the margin
\* that is left.
TokenFine(t) ==
    /\ t.stage = "asking" /\ t.left > 0 => t.left + MARGIN <= LIFETIME
    /\ t.stage = "told" /\ t.left > 0 => t.life >= t.left + MARGIN
    /\ t.stage = "held" /\ t.left > 0 => t.life > t.left

TimeInv ==
    /\ cache.left > 0 => cache.life >= cache.left + MARGIN
    /\ \A h \in Handler : TokenFine(token[h])

TokenInv == TokenTypeOK /\ TimeInv

Only(h) == \A g \in Handler \ {h} : token'[g] = token[g]

\* The type invariant, for the provers.
LEMMA TokenTypes ==
  ASSUME TokenTypeOK
  PROVE  /\ token \in [Handler -> Token] /\ cache.left \in Time /\ cache.life \in Time
         /\ cache \in [left: Time, life: Time]
         /\ \A h \in Handler : /\ token[h].left \in Time /\ token[h].life \in Time
                               /\ token[h].stage \in Stage
         /\ LIFETIME \in Time /\ MARGIN \in Time /\ 0 \in Time /\ Time \subseteq Nat
BY AdminTokenAssumption DEF TokenTypeOK, Token, Time

\* From here on a time is a number, whatever Time is.
LEMMA CachedType ==
  ASSUME NEW left \in Time, NEW life \in Time
  PROVE  /\ Cached(left, life) \in [left: Time, life: Time]
         /\ Cached(left, life).left = left
         /\ left > 0 => Cached(left, life).life = life
BY AdminTokenAssumption DEF Cached, Time

\* A handler takes the cached token (line 69 of keycloak_service.py).
LEMMA FromCacheStep ==
  ASSUME TokenInv, NEW h \in Handler, FromCache(h)
  PROVE  TokenInv' /\ token'[h].stage = "held" /\ Only(h)
<1> DEFINE t == [stage |-> "held", left |-> MARGIN, life |-> cache.life]
<1>1. /\ TokenTypeOK /\ waiting # <<>> /\ Head(waiting) = h /\ Take(h, t) /\ Release
      /\ cache' = cache /\ cache.left > 0
  BY DEF FromCache, Holds, TokenInv
<1>2. /\ t \in Token /\ t.stage = "held" /\ t.life = cache.life /\ t.left = MARGIN
      /\ t.stage \notin AtLock
  BY <1>1, TokenTypes DEF Token, Stage, AtLock
<1>3. cache.life > MARGIN
  <2>1. cache.life >= cache.left + MARGIN
    BY <1>1 DEF TokenInv, TimeInv
  <2>2. cache.life \in Nat /\ cache.left \in Nat
    BY <1>1, TokenTypes
  <2> QED BY <1>1, <2>1, <2>2, AdminTokenAssumption
<1> HIDE DEF t
<1>4. TokenTypeOK' /\ token'[h] = t /\ Only(h)
  BY <1>1, <1>2, TokenTypes, PopType DEF Only
<1>5. TokenFine(t)
  BY <1>2, <1>3 DEF TokenFine
<1>6. TimeInv'
  BY <1>1, <1>4, <1>5 DEF TokenInv, TimeInv, Only
<1> QED BY <1>2, <1>4, <1>6 DEF TokenInv

\* The first at the lock asks Keycloak (lines 71-84).
LEMMA AskStep ==
  ASSUME TokenInv, NEW h \in Handler, AskKeycloak(h)
  PROVE  TokenInv' /\ token'[h].stage = "asking" /\ Only(h)
<1> DEFINE left == IF MARGIN < LIFETIME THEN LIFETIME - MARGIN ELSE 0
           t == [stage |-> "asking", left |-> left, life |-> 0]
<1>1. /\ TokenTypeOK /\ Holds(h) /\ token[h].stage = "waiting" /\ Take(h, t)
      /\ UNCHANGED <<waiting, cache>>
  BY DEF AskKeycloak, TokenInv
<1>2. left \in Time /\ (left > 0 => left + MARGIN <= LIFETIME)
  BY AdminTokenAssumption DEF Time
<1> HIDE DEF left
<1>3. /\ t \in Token /\ t.stage = "asking" /\ t.left = left /\ t.stage \in AtLock
  BY <1>1, <1>2, TokenTypes DEF Token, Stage, AtLock
<1> HIDE DEF t
<1>4. TokenTypeOK' /\ token'[h] = t /\ Only(h)
  <2>1. token[h].stage \in AtLock
    BY <1>1 DEF AtLock
  <2> QED BY <1>1, <1>3, <2>1, StayType DEF Only
<1>5. TokenFine(t)
  BY <1>2, <1>3 DEF TokenFine
<1>6. TimeInv'
  BY <1>1, <1>4, <1>5 DEF TokenInv, TimeInv, Only
<1> QED BY <1>3, <1>4, <1>6 DEF TokenInv

\* Keycloak issues the token that was asked for.
LEMMA IssuedStep ==
  ASSUME TokenInv, NEW h \in Handler, TokenIssued(h)
  PROVE  TokenInv' /\ token'[h].stage = "told" /\ Only(h)
<1> DEFINE t == [stage |-> "told", left |-> token[h].left, life |-> LIFETIME]
<1>1. /\ TokenTypeOK /\ token[h].stage = "asking" /\ Take(h, t) /\ UNCHANGED <<waiting, cache>>
  BY DEF TokenIssued, TokenInv
<1>2. /\ t \in Token /\ t.stage = "told" /\ t.left = token[h].left /\ t.life = LIFETIME
      /\ t.stage \in AtLock /\ token[h].stage \in AtLock
  BY <1>1, TokenTypes DEF Token, Stage, AtLock
<1>3. t.left > 0 => t.left + MARGIN <= LIFETIME
  BY <1>1, <1>2 DEF TokenInv, TimeInv, TokenFine
<1> HIDE DEF t
<1>4. TokenTypeOK' /\ token'[h] = t /\ Only(h)
  BY <1>1, <1>2, StayType DEF Only
<1>5. TokenFine(t)
  BY <1>2, <1>3, AdminTokenAssumption DEF TokenFine
<1>6. TimeInv'
  BY <1>1, <1>4, <1>5 DEF TokenInv, TimeInv, Only
<1> QED BY <1>2, <1>4, <1>6 DEF TokenInv

\* The answer is stored in the cache (lines 85-88).
LEMMA StoreStep ==
  ASSUME TokenInv, NEW h \in Handler, StoreToken(h)
  PROVE  TokenInv' /\ token'[h].stage = "held" /\ Only(h)
<1> DEFINE t == [stage |-> "held", left |-> 0, life |-> token[h].life]
<1>1. /\ TokenTypeOK /\ token[h].stage = "told" /\ Take(h, t) /\ Release
      /\ cache' = Cached(token[h].left, token[h].life)
  BY DEF StoreToken, TokenInv
<1>2. /\ t \in Token /\ t.stage = "held" /\ t.left = 0
      /\ t.stage \notin AtLock
  BY <1>1, TokenTypes DEF Token, Stage, AtLock
<1>3. token[h].left > 0 => token[h].life >= token[h].left + MARGIN
  BY <1>1 DEF TokenInv, TimeInv, TokenFine
<1> HIDE DEF t
<1>4. /\ cache' \in [left: Time, life: Time]
      /\ cache'.left > 0 => cache'.life >= cache'.left + MARGIN
  BY <1>1, <1>3, TokenTypes, CachedType
<1>5. TokenTypeOK' /\ token'[h] = t /\ Only(h)
  BY <1>1, <1>2, <1>4, OnlyFirstAsks, PopType DEF Only
<1>6. TokenFine(t)
  BY <1>2 DEF TokenFine
<1>7. TimeInv'
  BY <1>1, <1>4, <1>5, <1>6 DEF TokenInv, TimeInv, Only
<1> QED BY <1>2, <1>5, <1>7 DEF TokenInv

\* A token with these stages says nothing of times.
LEMMA IdleFine ==
  ASSUME NEW t, t.stage \in {"none", "waiting", "used"}
  PROVE  TokenFine(t)
BY DEF TokenFine

\* A handler waits for the lock (line 66).
LEMMA AwaitStep ==
  ASSUME TokenInv, NEW h \in Handler, AwaitLock(h)
  PROVE  TokenInv' /\ token'[h].stage = "waiting" /\ Only(h)
<1>1. TokenTypeOK' /\ token'[h].stage = "waiting" /\ Only(h) /\ cache' = cache
  BY PushType DEF TokenInv, AwaitLock, Only
<1>2. TokenFine(token'[h])
  BY <1>1, IdleFine
<1> QED BY <1>1, <1>2 DEF TokenInv, TimeInv, Only

\* The request for a token fails, and its exception leaves the lock.
LEMMA FailsStep ==
  ASSUME TokenInv, NEW h \in Handler, TokenFails(h)
  PROVE  TokenInv' /\ token'[h].stage = "none" /\ Only(h)
<1>1. /\ TokenTypeOK /\ token[h].stage \in {"asking", "told"} /\ Take(h, NoToken) /\ Release
      /\ cache' = cache /\ NoToken \in Token /\ NoToken.stage = "none"
      /\ NoToken.stage \notin AtLock
  BY NoTokenType DEF TokenFails, TokenInv, NoToken, AtLock
<1>2. TokenTypeOK' /\ token'[h] = NoToken /\ Only(h)
  BY <1>1, TokenTypes, OnlyFirstAsks, PopType DEF Only
<1>3. TokenFine(token'[h])
  BY <1>1, <1>2, IdleFine
<1> QED BY <1>1, <1>2, <1>3 DEF TokenInv, TimeInv, Only

\* A token that is out of the lock is used or forgotten.
LEMMA UsedStep ==
  ASSUME TokenInv, NEW h \in Handler, token[h].stage \notin AtLock, Used(h)
  PROVE  TokenInv' /\ token'[h].stage = "used" /\ Only(h)
<1> DEFINE t == [NoToken EXCEPT !.stage = "used"]
<1>1. TokenTypeOK /\ Take(h, t) /\ UNCHANGED <<waiting, cache>>
  BY DEF Used, TokenInv
<1>2. t \in Token /\ t.stage = "used" /\ t.stage \notin AtLock
  BY NoTokenType DEF NoToken, Token, Stage, AtLock
<1> HIDE DEF t
<1>3. TokenTypeOK' /\ token'[h] = t /\ Only(h)
  BY <1>1, <1>2, StayType DEF Only
<1>4. TokenFine(token'[h])
  BY <1>2, <1>3, IdleFine
<1> QED BY <1>1, <1>2, <1>3, <1>4 DEF TokenInv, TimeInv, Only

\* The caller has done with it.
LEMMA ForgetStep ==
  ASSUME TokenInv, NEW h \in Handler, token[h].stage \notin AtLock, Forget(h)
  PROVE  TokenInv' /\ token'[h].stage = "none" /\ Only(h)
<1>1. /\ TokenTypeOK /\ Take(h, NoToken) /\ UNCHANGED <<waiting, cache>>
      /\ NoToken \in Token /\ NoToken.stage = "none" /\ NoToken.stage \notin AtLock
  BY NoTokenType DEF Forget, TokenInv, NoToken, AtLock
<1>2. TokenTypeOK' /\ token'[h] = NoToken /\ Only(h)
  BY <1>1, StayType DEF Only
<1>3. TokenFine(token'[h])
  BY <1>1, <1>2, IdleFine
<1> QED BY <1>1, <1>2, <1>3 DEF TokenInv, TimeInv, Only

\* A step of _get_admin_token, whichever it is.
LEMMA GetStep ==
  ASSUME TokenInv, NEW h \in Handler, GetAdminToken(h)
  PROVE  TokenInv' /\ token[h].stage \in AtLock /\ Only(h)
<1>1. token[h].stage \in AtLock
  BY DEF GetAdminToken, FromCache, AskKeycloak, TokenIssued, StoreToken, AtLock
<1> QED BY <1>1, FromCacheStep, AskStep, IssuedStep, StoreStep DEF GetAdminToken

\* Time passes for the cache and for every token alike.
LEMMA TickStep ==
  ASSUME TokenInv, Tick
  PROVE  TokenInv' /\ \A h \in Handler : token'[h].stage = token[h].stage
<1>1. \A n \in Time : Less(n) \in Time /\ Less(n) = IF n = 0 THEN 0 ELSE n - 1
  BY AdminTokenAssumption DEF Less, Time
<1>2. /\ TokenTypeOK /\ waiting' = waiting
      /\ cache' = Cached(Less(cache.left), Less(cache.life))
  BY DEF Tick, TokenInv
<1>3. /\ cache' \in [left: Time, life: Time]
      /\ cache'.left = Less(cache.left)
      /\ cache'.left > 0 => cache'.life = Less(cache.life)
  BY <1>1, <1>2, TokenTypes, CachedType
<1>4. /\ token' \in [Handler -> Token]
      /\ \A h \in Handler :
           /\ token'[h].stage = token[h].stage /\ token'[h].left = Less(token[h].left)
           /\ token'[h].life = Less(token[h].life)
  BY <1>1, <1>2, TokenTypes DEF Tick, Token
<1>5. TokenTypeOK'
  BY <1>2, <1>3, <1>4 DEF TokenTypeOK, Token
<1>6. cache'.left > 0 => cache'.life >= cache'.left + MARGIN
  <2>1. cache.left > 0 => cache.life >= cache.left + MARGIN
    BY DEF TokenInv, TimeInv
  <2>2. cache.left \in Nat /\ cache.life \in Nat
    BY <1>2, TokenTypes
  <2>3. /\ Less(cache.left) = IF cache.left = 0 THEN 0 ELSE cache.left - 1
        /\ Less(cache.life) = IF cache.life = 0 THEN 0 ELSE cache.life - 1
    BY <1>1, <1>2, TokenTypes
  <2> QED BY <1>3, <2>1, <2>2, <2>3, AdminTokenAssumption
<1>7. ASSUME NEW h \in Handler
      PROVE  TokenFine(token'[h])
  <2>1. TokenFine(token[h])
    BY DEF TokenInv, TimeInv
  <2>2. token[h].left \in Nat /\ token[h].life \in Nat
    BY <1>2, TokenTypes
  <2>3. /\ token'[h].left = IF token[h].left = 0 THEN 0 ELSE token[h].left - 1
        /\ token'[h].life = IF token[h].life = 0 THEN 0 ELSE token[h].life - 1
    BY <1>1, <1>2, <1>4, TokenTypes
  <2> QED BY <1>4, <2>1, <2>2, <2>3, AdminTokenAssumption DEF TokenFine
<1> QED BY <1>4, <1>5, <1>6, <1>7 DEF TokenInv, TimeInv

\* A process that starts has no token and nobody at the lock.
LEMMA ResetStep ==
  ASSUME waiting' = <<>>, cache' = [left |-> 0, life |-> 0],
         token' = [h \in Handler |-> NoToken]
  PROVE  TokenInv' /\ \A h \in Handler : token'[h].stage = "none"
<1>1. \A h \in Handler : token'[h] = NoToken /\ NoToken.stage = "none" /\ NoToken \in Token
  BY NoTokenType DEF NoToken
<1>2. /\ token' \in [Handler -> Token] /\ cache' \in [left: Time, life: Time]
      /\ cache'.left = 0
  BY NoTokenType DEF Token
<1>3. TokenTypeOK'
  BY <1>1, <1>2 DEF TokenTypeOK, Token, AtLock
<1>4. \A h \in Handler : TokenFine(token'[h])
  BY <1>1, IdleFine
<1> QED BY <1>1, <1>2, <1>3, <1>4 DEF TokenInv, TimeInv

\* The margin that is left of a cached token ends before the token does.
LEMMA MarginCovers == TokenInv => CachedTokenCovered
<1> SUFFICES ASSUME TokenInv, NEW h \in Handler, token[h].stage = "held", token[h].left > 0
             PROVE  token[h].life > 0
  BY DEF CachedTokenCovered
<1>1. token[h].life > token[h].left
  BY DEF TokenInv, TimeInv, TokenFine
<1>2. token[h].life \in Nat /\ token[h].left \in Nat
  BY TokenTypes DEF TokenInv
<1> QED BY <1>1, <1>2

-----------------------------------------------------------------------------
(* The invariant of the account, the sessions and the handlers *)

World ==
    /\ account \in Account
    /\ kcSessions \in Seq(BOOLEAN) /\ Len(kcSessions) <= MaxSessions
    /\ rows \in Seq(Row)
    /\ \A i \in 1 .. Len(rows) : rows[i].session <= Len(kcSessions)

\* With account a, Keycloak sessions ks and rows rs: what a handler with task t
\* relies on at stage p, and the tokens it has made at "insert".
Safe(a, ks, rs, t, p) ==
    /\ t.session <= Len(ks)
    /\ t.kind = "login" => ~ t.late
    /\ t.kind = "refresh" => t.fetched = {}
    /\ p \in {"patch", "existing", "assign", "issue"} => a.exists
    /\ p = "issue" => t.fetched \intersect RealmRole \subseteq a.roles
    /\ p \in {"revoke", "rotate"} =>
         /\ t.old \in 1 .. Len(rs)
         /\ t.late => rs[t.old].session = 0 \/ ~ ks[rs[t.old].session]
    /\ p = "insert" =>
         /\ t.session # 0 => t.fetched \intersect RealmRole \subseteq t.roles
         /\ t.late => t.roles = {"customer"}
         /\ t.barred => t.session = 0
    /\ p # "insert" /\ t.barred => a.exists /\ ~ a.enabled

HandlerType(h) ==
    /\ task[h] \in Task
    /\ pc[h] \in Stages[task[h].kind]
    /\ token[h].stage # "none" => pc[h] \in Sync \union {"logout", "admin"}
    /\ pc[h] = "patch" => token[h].stage = "used"

HandlerInv(h) ==
    /\ HandlerType(h)
    /\ task[h] \in Minting => Safe(account, kcSessions, rows, task[h], pc[h])

KeycloakInv ==
    /\ TokenInv /\ World
    /\ DOMAIN pc = Handler /\ DOMAIN task = Handler
    /\ \A h \in Handler : HandlerInv(h)

\* What no step takes back.
Grows ==
    /\ account.exists => account'.exists /\ account.roles \subseteq account'.roles
    /\ Len(kcSessions) <= Len(kcSessions')
    /\ \A s \in 1 .. Len(kcSessions) : kcSessions'[s] => kcSessions[s]
    /\ Len(rows) <= Len(rows')
    /\ \A i \in 1 .. Len(rows) : rows'[i].session = rows[i].session

\* A handler that does not move, and whose bar is lifted at most, stays safe.
LEMMA SafeKept ==
  ASSUME World, World', Grows, NEW t \in Minting, NEW u, NEW p,
         Safe(account, kcSessions, rows, t, p),
         u.kind = t.kind, u.old = t.old, u.session = t.session, u.roles = t.roles,
         u.fetched = t.fetched, u.late = t.late,
         u.barred => t.barred /\ (Barred => Barred')
  PROVE  Safe(account', kcSessions', rows', u, p)
<1>1. /\ t.session \in Nat /\ Len(kcSessions) \in Nat /\ Len(kcSessions') \in Nat
      /\ Len(rows) \in Nat /\ Len(rows') \in Nat
  BY KeycloakAssumption DEF World, Minting
<1>2. t.session <= Len(kcSessions')
  BY <1>1 DEF Grows, Safe
<1>3. ASSUME p \in {"revoke", "rotate"}
      PROVE  /\ t.old \in 1 .. Len(rows')
             /\ t.late => rows'[t.old].session = 0 \/ ~ kcSessions'[rows'[t.old].session]
  <2>1. /\ t.old \in 1 .. Len(rows) /\ rows'[t.old].session = rows[t.old].session
        /\ t.late => rows[t.old].session = 0 \/ ~ kcSessions[rows[t.old].session]
    BY <1>3 DEF Safe, Grows
  <2>2. rows[t.old] \in Row /\ rows[t.old].session <= Len(kcSessions)
    BY <2>1 DEF World
  <2>3. rows[t.old].session = 0 \/ rows[t.old].session \in 1 .. Len(kcSessions)
    BY <1>1, <2>2, KeycloakAssumption DEF Row
  <2> QED BY <1>1, <2>1, <2>3 DEF Grows
<1>4. p # "insert" /\ u.barred => account'.exists /\ ~ account'.enabled
  BY DEF Safe, Barred
<1> QED BY <1>2, <1>3, <1>4 DEF Safe, Grows

\* The kinds of task at each stage, and the tasks that may be at one.
LEMMA Kinds ==
  ASSUME NEW h \in Handler, HandlerType(h)
  PROVE  /\ pc[h] = "idle" => task[h].kind = "nothing" /\ token[h].stage = "none"
         /\ pc[h] \in Sync \union {"issue"} => task[h] \in Minting /\ task[h].kind = "login"
         /\ pc[h] \in {"revoke", "rotate"} => task[h] \in Minting /\ task[h].kind = "refresh"
         /\ pc[h] = "insert" => task[h] \in Minting
         /\ pc[h] \in {"logout", "admin"} => task[h] \in [kind: {"logout", "admin"}]
         /\ pc[h] \notin Sync \union {"logout", "admin"} => token[h].stage = "none"
<1>1. task[h].kind \in {"nothing", "login", "refresh", "logout", "admin"}
  BY DEF HandlerType, Task, Minting, Nothing
<1>2. /\ task[h].kind \in {"login", "refresh"} => task[h] \in Minting
      /\ task[h].kind \in {"logout", "admin"} => task[h] \in [kind: {"logout", "admin"}]
  <2>1. task[h] \in Task
    BY DEF HandlerType
  <2>2. CASE task[h] = Nothing
    BY <2>2 DEF Nothing
  <2>3. CASE task[h] \in Minting
    <3>1. task[h].kind \in {"login", "refresh"}
      BY <2>3 DEF Minting
    <3> QED BY <2>3, <3>1
  <2>4. CASE task[h] \in [kind: {"logout", "admin"}]
    <3>1. task[h].kind \in {"logout", "admin"}
      BY <2>4
    <3> QED BY <2>4, <3>1
  <2> QED BY <2>1, <2>2, <2>3, <2>4 DEF Task
<1>3. /\ task[h].kind = "nothing" => pc[h] = "idle"
      /\ task[h].kind = "login" => pc[h] \in Sync \union {"issue", "insert"}
      /\ task[h].kind = "refresh" => pc[h] \in {"revoke", "rotate", "insert"}
      /\ task[h].kind = "logout" => pc[h] = "logout"
      /\ task[h].kind = "admin" => pc[h] = "admin"
  BY DEF HandlerType, Stages
<1> QED BY <1>1, <1>2, <1>3 DEF HandlerType, Sync

\* The stages of each kind of handler.
LEMMA StagesOf ==
  /\ Stages["nothing"] = {"idle"}
  /\ Stages["login"] = Sync \union {"issue", "insert"}
  /\ Stages["refresh"] = {"revoke", "rotate", "insert"}
  /\ Stages["logout"] = {"logout"} /\ Stages["admin"] = {"admin"}
BY DEF Stages

\* One handler moves, and the others stay.
LEMMA OneMoves ==
  ASSUME KeycloakInv, TokenInv', World', Grows, Barred => Barred',
         DOMAIN pc' = Handler, DOMAIN task' = Handler, NEW h \in Handler,
         \A g \in Handler \ {h} : pc'[g] = pc[g] /\ task'[g] = task[g] /\ token'[g] = token[g],
         HandlerInv(h)'
  PROVE  KeycloakInv'
<1>1. ASSUME NEW g \in Handler \ {h}
      PROVE  HandlerInv(g)'
  <2>1. HandlerInv(g) /\ pc'[g] = pc[g] /\ task'[g] = task[g] /\ token'[g] = token[g]
    BY DEF KeycloakInv
  <2>2. HandlerType(g)'
    BY <2>1 DEF HandlerInv, HandlerType
  <2>3. task[g] \in Minting => Safe(account', kcSessions', rows', task[g], pc[g])
    BY <2>1, SafeKept DEF HandlerInv, KeycloakInv
  <2> QED BY <2>1, <2>2, <2>3 DEF HandlerInv
<1> QED BY <1>1 DEF KeycloakInv

\* A step that leaves the account, the sessions and the rows.
LEMMA WorldStays ==
  ASSUME World, UNCHANGED kcVars
  PROVE  World' /\ Grows /\ (Barred => Barred')
<1>1. Len(kcSessions) \in Nat /\ Len(rows) \in Nat
  BY DEF World
<1> QED BY <1>1 DEF World, Grows, kcVars, Barred

\* A handler's type at a new stage, from those of its task and its token.
LEMMA TypeAt ==
  ASSUME NEW h \in Handler, task'[h] \in Task, pc'[h] \in Stages[task'[h].kind],
         token'[h].stage # "none" => pc'[h] \in Sync \union {"logout", "admin"},
         pc'[h] = "patch" => token'[h].stage = "used"
  PROVE  HandlerType(h)'
BY DEF HandlerType

\* Making tokens.
LEMMA MintEffect ==
  ASSUME KeycloakInv, NEW h \in Handler, task[h] \in Minting,
         NEW session \in 0 .. MaxSessions, NEW roles \in SUBSET Role, Mint(h, session, roles),
         session <= Len(kcSessions'),
         session # 0 => task[h].fetched \intersect RealmRole \subseteq roles,
         task[h].late => roles = {"customer"},
         task[h].barred => session = 0,
         token'[h].stage = "none"
  PROVE  /\ DOMAIN pc' = Handler /\ DOMAIN task' = Handler /\ HandlerInv(h)'
         /\ \A g \in Handler \ {h} : pc'[g] = pc[g] /\ task'[g] = task[g]
<1> DEFINE t == task[h]
           u == task'[h]
<1>1. /\ DOMAIN pc = Handler /\ DOMAIN task = Handler
      /\ task' = [task EXCEPT ![h].session = session, ![h].roles = roles, ![h].old = 0]
      /\ pc' = [pc EXCEPT ![h] = "insert"]
  BY DEF KeycloakInv, Mint, Goto
<1>2. /\ DOMAIN pc' = Handler /\ DOMAIN task' = Handler /\ pc'[h] = "insert"
      /\ \A g \in Handler \ {h} : pc'[g] = pc[g] /\ task'[g] = task[g]
  BY <1>1
<1>3. u = [kind |-> t.kind, old |-> 0, kc |-> t.kc, session |-> session, roles |-> roles,
           fetched |-> t.fetched, late |-> t.late, barred |-> t.barred]
  BY <1>1 DEF Minting
<1>4. /\ t.kind \in {"login", "refresh"} /\ t.kc \in BOOLEAN /\ t.fetched \in Told \union {{}}
      /\ t.late \in BOOLEAN /\ t.barred \in BOOLEAN
  BY DEF Minting
<1>5. u \in Minting
  <2>1. 0 \in 0 .. MaxSessions
    BY KeycloakAssumption
  <2> QED BY <1>3, <1>4, <2>1 DEF Minting
<1>6. Safe(account, kcSessions, rows, t, pc[h])
  BY DEF KeycloakInv, HandlerInv
<1>7. Safe(account', kcSessions', rows', u, "insert")
  BY <1>3, <1>6 DEF Safe
<1>8. u.kind = t.kind
  BY <1>3
<1>9. HandlerType(h)'
  <2>1. "insert" \in Stages[u.kind]
    BY <1>4, <1>8, StagesOf
  <2> HIDE DEF u
  <2> QED BY <1>2, <1>5, <2>1, TypeAt DEF Task, u
<1> QED BY <1>2, <1>7, <1>9 DEF HandlerInv

\* Signing them locally.
LEMMA MintLocallyEffect ==
  ASSUME KeycloakInv, NEW h \in Handler, task[h] \in Minting, MintLocally(h),
         UNCHANGED kcSessions, token'[h].stage = "none"
  PROVE  /\ DOMAIN pc' = Handler /\ DOMAIN task' = Handler /\ HandlerInv(h)'
         /\ \A g \in Handler \ {h} : pc'[g] = pc[g] /\ task'[g] = task[g]
<1> DEFINE made == IF task[h].fetched = {} THEN {"customer"} ELSE task[h].fetched
<1>1. task[h].fetched \in Told \union {{}} /\ task[h].kind \in {"login", "refresh"}
  BY DEF Minting
<1>2. made \in SUBSET Role
  BY <1>1, KeycloakAssumption
<1>3. 0 \in 0 .. MaxSessions /\ 0 <= Len(kcSessions')
  BY KeycloakAssumption DEF KeycloakInv, World
<1>4. task[h].late => made = {"customer"}
  BY <1>1 DEF KeycloakInv, HandlerInv, Safe
<1>5. Mint(h, 0, made)
  BY DEF MintLocally
<1> HIDE DEF made
<1> QED BY <1>2, <1>3, <1>4, <1>5, MintEffect

\* A synchronisation, a logout or an administrator's call is out of the lock
\* when its request arrives.
LEMMA ArrivesOut ==
  ASSUME NEW h \in Handler, Authorised(h)
  PROVE  token[h].stage \notin AtLock
BY DEF Authorised, AtLock

-----------------------------------------------------------------------------
(* Where a step leaves its handler *)

\* A handler that makes tokens goes on at stage p.
LEMMA Moves ==
  ASSUME NEW h \in Handler, NEW p, NEW u \in Minting, pc'[h] = p, task'[h] = u,
         p \in Stages[u.kind], Safe(account', kcSessions', rows', u, p),
         token'[h].stage # "none" => p \in Sync, p = "patch" => token'[h].stage = "used"
  PROVE  HandlerInv(h)'
<1>1. u \in Task
  BY DEF Task
<1>2. HandlerType(h)'
  BY <1>1, TypeAt
<1> QED BY <1>2 DEF HandlerInv

\* A handler has another kind of task, or none.
LEMMA Rests ==
  ASSUME NEW h \in Handler, NEW u \in Task, u.kind \notin {"login", "refresh"}, task'[h] = u,
         pc'[h] \in Stages[u.kind], pc'[h] # "patch",
         token'[h].stage # "none" => pc'[h] \in {"logout", "admin"}
  PROVE  HandlerInv(h)'
<1>1. u \notin Minting
  BY DEF Minting
<1>2. HandlerType(h)'
  BY TypeAt
<1> QED BY <1>1, <1>2 DEF HandlerInv

\* A handler answers.
LEMMA DoneEffect ==
  ASSUME KeycloakInv, NEW h \in Handler, Done(h), token'[h].stage = "none"
  PROVE  /\ DOMAIN pc' = Handler /\ DOMAIN task' = Handler /\ HandlerInv(h)'
         /\ \A g \in Handler \ {h} : pc'[g] = pc[g] /\ task'[g] = task[g]
<1>1. /\ DOMAIN pc' = Handler /\ DOMAIN task' = Handler
      /\ pc'[h] = "idle" /\ task'[h] = Nothing
      /\ \A g \in Handler \ {h} : pc'[g] = pc[g] /\ task'[g] = task[g]
  BY DEF Done, Goto, KeycloakInv
<1>2. Nothing \in Task /\ Nothing.kind = "nothing" /\ "idle" \in Stages["nothing"]
  BY StagesOf DEF Nothing, Task
<1>3. HandlerInv(h)'
  BY <1>1, <1>2, Rests
<1> QED BY <1>1, <1>3

\* What a synchronisation relies on carries over to its next stage.
LEMMA SafeOn ==
  ASSUME NEW a, NEW ks, NEW rs, NEW t, NEW u, NEW p, NEW q,
         Safe(a, ks, rs, t, p), p # "insert", q \notin {"revoke", "rotate", "insert"},
         u.kind = t.kind, u.session = t.session, u.fetched = t.fetched, u.late = t.late,
         u.barred = t.barred,
         q \in {"patch", "existing", "assign", "issue"} => a.exists,
         q = "issue" => t.fetched \intersect RealmRole \subseteq a.roles
  PROVE  Safe(a, ks, rs, u, q)
BY DEF Safe

\* What the handler relies on still holds of the account after its step.
LEMMA SafeMine ==
  ASSUME KeycloakInv, World', Grows, Barred => Barred', NEW h \in Handler, task[h] \in Minting
  PROVE  Safe(account', kcSessions', rows', task[h], pc[h])
<1>1. Safe(account, kcSessions, rows, task[h], pc[h]) /\ World
  BY DEF KeycloakInv, HandlerInv
<1> QED BY <1>1, SafeKept

\* The synchronisation goes on at stage p.
LEMMA SyncGoesOn ==
  ASSUME KeycloakInv, TokenInv', World', Grows, Barred => Barred',
         NEW h \in Handler, pc[h] \in Sync, Only(h),
         NEW p \in {"create", "patch", "existing", "assign"}, Goto(h, p), UNCHANGED task,
         p # "create" => account'.exists, p = "patch" => token'[h].stage = "used"
  PROVE  KeycloakInv'
<1>1. HandlerType(h) /\ DOMAIN pc = Handler /\ DOMAIN task = Handler
  BY DEF KeycloakInv, HandlerInv
<1>2. task[h] \in Minting /\ task[h].kind = "login" /\ pc[h] # "insert"
  BY <1>1, Kinds DEF Sync
<1>3. /\ DOMAIN pc' = Handler /\ DOMAIN task' = Handler /\ pc'[h] = p /\ task' = task
      /\ \A g \in Handler \ {h} : pc'[g] = pc[g] /\ task'[g] = task[g]
  BY <1>1 DEF Goto
<1>4. Safe(account', kcSessions', rows', task[h], p)
  BY <1>2, SafeMine, SafeOn
<1>5. p \in Sync /\ p \in Stages[task[h].kind]
  BY <1>2, StagesOf DEF Sync
<1>6. HandlerInv(h)'
  BY <1>2, <1>3, <1>4, <1>5, Moves
<1> QED BY <1>3, <1>6, OneMoves DEF Only

\* It returns kc_user_id.
LEMMA SyncReturns ==
  ASSUME KeycloakInv, World', Grows, Barred => Barred',
         NEW h \in Handler, pc[h] \in Sync, token[h].stage \notin AtLock, Synced(h),
         account'.exists, task[h].fetched \intersect RealmRole \subseteq account'.roles
  PROVE  KeycloakInv'
<1>1. HandlerType(h) /\ DOMAIN pc = Handler /\ DOMAIN task = Handler /\ TokenInv
  BY DEF KeycloakInv, HandlerInv
<1>2. task[h] \in Minting /\ task[h].kind = "login" /\ pc[h] # "insert"
  BY <1>1, Kinds DEF Sync
<1>3. TokenInv' /\ token'[h].stage = "none" /\ Only(h)
  BY <1>1, ForgetStep DEF Synced
<1>4. /\ DOMAIN pc' = Handler /\ DOMAIN task' = Handler /\ pc'[h] = "issue"
      /\ \A g \in Handler \ {h} : pc'[g] = pc[g] /\ task'[g] = task[g]
      /\ task'[h] = [task[h] EXCEPT !.kc = TRUE]
  BY <1>1 DEF Synced, Goto
<1>5. PICK u : u = task'[h]
  OBVIOUS
<1>6. /\ u \in Minting /\ u.kind = "login" /\ u.session = task[h].session
      /\ u.fetched = task[h].fetched /\ u.late = task[h].late /\ u.barred = task[h].barred
  BY <1>2, <1>4, <1>5 DEF Minting
<1>7. Safe(account', kcSessions', rows', u, "issue")
  BY <1>2, <1>6, SafeMine, SafeOn
<1>8. "issue" \in Stages[u.kind]
  BY <1>6, StagesOf
<1>9. HandlerInv(h)'
  BY <1>3, <1>4, <1>5, <1>6, <1>7, <1>8, Moves
<1> QED BY <1>3, <1>4, <1>9, OneMoves DEF Only

\* The answer to its last call is lost.
LEMMA SyncUnheard ==
  ASSUME KeycloakInv, World', Grows, Barred => Barred', UNCHANGED kcSessions,
         NEW h \in Handler, pc[h] \in Sync, token[h].stage \notin AtLock, Unheard(h)
  PROVE  KeycloakInv'
<1>1. HandlerType(h) /\ TokenInv
  BY DEF KeycloakInv, HandlerInv
<1>2. task[h] \in Minting
  BY <1>1, Kinds DEF Sync
<1>3. TokenInv' /\ token'[h].stage = "none" /\ Only(h)
  BY <1>1, ForgetStep DEF Unheard
<1>4. /\ DOMAIN pc' = Handler /\ DOMAIN task' = Handler /\ HandlerInv(h)'
      /\ \A g \in Handler \ {h} : pc'[g] = pc[g] /\ task'[g] = task[g]
  BY <1>2, <1>3, MintLocallyEffect DEF Unheard
<1> QED BY <1>3, <1>4, OneMoves DEF Only

\* What is left of a synchronisation after its user is there.
LEMMA RolesNextStep ==
  ASSUME KeycloakInv, World', Grows, Barred => Barred',
         NEW h \in Handler, pc[h] \in Sync, token[h].stage \notin AtLock, RolesNext(h),
         account'.exists
  PROVE  KeycloakInv'
<1>1. CASE task[h].fetched = {}
  BY <1>1, SyncReturns DEF RolesNext
<1>2. CASE task[h].fetched # {}
  <2>1. TokenInv' /\ Only(h)
    BY <1>2, UsedStep DEF RolesNext, KeycloakInv
  <2> QED BY <1>2, <2>1, SyncGoesOn DEF RolesNext
<1> QED BY <1>1, <1>2

-----------------------------------------------------------------------------
(* The steps of a login *)

\* A login reaches _sync_to_keycloak.
LEMMA StartLoginStep ==
  ASSUME KeycloakInv, NEW h \in Handler, NEW fetched \in Told, StartLogin(h, fetched)
  PROVE  KeycloakInv'
<1>1. DOMAIN pc = Handler /\ DOMAIN task = Handler /\ TokenInv /\ World
  BY DEF KeycloakInv
<1>2. TokenInv' /\ token'[h].stage = "waiting" /\ Only(h)
  BY <1>1, AwaitStep DEF StartLogin
<1>3. World' /\ Grows /\ (Barred => Barred')
  BY <1>1, WorldStays DEF StartLogin
<1>4. PICK u : u = New("login", fetched)
  OBVIOUS
<1>5. /\ DOMAIN pc' = Handler /\ DOMAIN task' = Handler /\ pc'[h] = "lookup" /\ task'[h] = u
      /\ \A g \in Handler \ {h} : pc'[g] = pc[g] /\ task'[g] = task[g]
  BY <1>1, <1>4 DEF StartLogin, Start, Goto
<1>6. /\ u.kind = "login" /\ u.session = 0 /\ ~ u.late
      /\ u.barred => account.exists /\ ~ account.enabled
  BY <1>4 DEF New, Barred
<1>7. u \in Minting
  <2>1. Barred \in BOOLEAN /\ 0 \in 0 .. MaxSessions
    BY KeycloakAssumption DEF Barred
  <2> QED BY <1>4, <2>1 DEF New, Minting
<1>8. Safe(account', kcSessions', rows', u, "lookup")
  <2>1. account' = account /\ Len(kcSessions') \in Nat
    BY <1>1 DEF StartLogin, kcVars, World
  <2> QED BY <1>6, <2>1 DEF Safe
<1>9. "lookup" \in Stages[u.kind] /\ "lookup" \in Sync
  BY <1>6, StagesOf DEF Sync
<1>10. HandlerInv(h)'
  BY <1>5, <1>7, <1>8, <1>9, Moves
<1> QED BY <1>2, <1>3, <1>5, <1>10, OneMoves DEF Only

\* A call of the synchronisation fails.
LEMMA SyncFailsStep ==
  ASSUME KeycloakInv, NEW h \in Handler, SyncFails(h)
  PROVE  KeycloakInv'
<1>1. /\ HandlerType(h) /\ TokenInv /\ World /\ pc[h] \in Sync /\ MintLocally(h)
      /\ UNCHANGED kcVars
  BY DEF KeycloakInv, HandlerInv, SyncFails
<1>2. TokenInv' /\ token'[h].stage = "none" /\ Only(h)
  <2>1. CASE token[h].stage \in {"held", "used"} /\ Forget(h)
    BY <1>1, <2>1, ForgetStep DEF AtLock
  <2>2. CASE TokenFails(h)
    BY <1>1, <2>2, FailsStep
  <2> QED BY <2>1, <2>2 DEF SyncFails
<1>3. World' /\ Grows /\ (Barred => Barred') /\ kcSessions' = kcSessions
  BY <1>1, WorldStays DEF kcVars
<1>4. task[h] \in Minting
  BY <1>1, Kinds
<1>5. /\ DOMAIN pc' = Handler /\ DOMAIN task' = Handler /\ HandlerInv(h)'
      /\ \A g \in Handler \ {h} : pc'[g] = pc[g] /\ task'[g] = task[g]
  BY <1>1, <1>2, <1>3, <1>4, MintLocallyEffect
<1> QED BY <1>2, <1>3, <1>5, OneMoves DEF Only

\* The user is looked up in Keycloak.
LEMMA LookupUserStep ==
  ASSUME KeycloakInv, NEW h \in Handler, LookupUser(h)
  PROVE  KeycloakInv'
<1>1. TokenInv /\ World /\ pc[h] = "lookup" /\ Authorised(h) /\ Used(h) /\ UNCHANGED kcVars
      /\ UNCHANGED task
  BY DEF KeycloakInv, LookupUser, Arrives
<1>2. TokenInv' /\ token'[h].stage = "used" /\ Only(h)
  BY <1>1, ArrivesOut, UsedStep
<1>3. World' /\ Grows /\ (Barred => Barred') /\ account' = account
  BY <1>1, WorldStays DEF kcVars
<1>4. PICK p : p = IF account.exists THEN "patch" ELSE "create"
  OBVIOUS
<1>5. p \in {"create", "patch"} /\ (p # "create" => account'.exists) /\ pc[h] \in Sync
  BY <1>1, <1>3, <1>4 DEF Sync
<1>6. Goto(h, p)
  BY <1>4 DEF LookupUser
<1> QED BY <1>1, <1>2, <1>3, <1>5, <1>6, SyncGoesOn

\* It is created.
LEMMA CreateUserStep ==
  ASSUME KeycloakInv, NEW h \in Handler, CreateUser(h)
  PROVE  KeycloakInv'
<1>1. /\ World /\ pc[h] \in Sync /\ token[h].stage \notin AtLock /\ ~ account.exists
      /\ account' = [exists |-> TRUE, enabled |-> TRUE, roles |-> {}]
      /\ kcSessions' = kcSessions /\ rows' = rows /\ (RolesNext(h) \/ Unheard(h))
  BY ArrivesOut DEF KeycloakInv, CreateUser, Arrives, Sync
<1>2. World' /\ Grows /\ (Barred => Barred') /\ account'.exists
  <2>1. Len(kcSessions) \in Nat /\ Len(rows) \in Nat
    BY <1>1 DEF World
  <2>2. account' \in Account
    BY <1>1 DEF Account
  <2> QED BY <1>1, <2>1, <2>2 DEF World, Grows, Barred
<1> QED BY <1>1, <1>2, RolesNextStep, SyncUnheard

\* Its attributes are patched.
LEMMA PatchUserStep ==
  ASSUME KeycloakInv, NEW h \in Handler, PatchUser(h)
  PROVE  KeycloakInv'
<1>1. /\ HandlerInv(h) /\ World /\ pc[h] = "patch" /\ UNCHANGED kcVars /\ RolesNext(h)
  BY DEF KeycloakInv, PatchUser
<1>2. token[h].stage \notin AtLock /\ pc[h] \in Sync
  BY <1>1 DEF HandlerInv, HandlerType, AtLock, Sync
<1>3. World' /\ Grows /\ (Barred => Barred') /\ account' = account
  BY <1>1, WorldStays DEF kcVars
<1>4. account.exists
  <2>1. task[h] \in Minting
    BY <1>1, Kinds DEF HandlerInv, Sync
  <2> QED BY <1>1, <2>1 DEF HandlerInv, Safe
<1> QED BY <1>1, <1>2, <1>3, <1>4, RolesNextStep

\* Its roles are read.
LEMMA ReadExistingStep ==
  ASSUME KeycloakInv, NEW h \in Handler, ReadExisting(h)
  PROVE  KeycloakInv'
<1>1. /\ HandlerInv(h) /\ World /\ TokenInv /\ pc[h] = "existing" /\ UNCHANGED kcVars
      /\ token[h].stage \notin AtLock
  BY ArrivesOut DEF KeycloakInv, ReadExisting, Arrives
<1>2. World' /\ Grows /\ (Barred => Barred') /\ account' = account /\ pc[h] \in Sync
  BY <1>1, WorldStays DEF kcVars, Sync
<1>3. account.exists
  <2>1. task[h] \in Minting
    BY <1>1, <1>2, Kinds DEF HandlerInv
  <2> QED BY <1>1, <2>1 DEF HandlerInv, Safe
<1>4. CASE ToAdd(h) = {}
  <2>1. task[h].fetched \intersect RealmRole \subseteq account.roles
    BY <1>4 DEF ToAdd
  <2> QED BY <1>1, <1>2, <1>3, <1>4, <2>1, SyncReturns DEF ReadExisting
<1>5. CASE ToAdd(h) # {}
  <2>1. /\ Goto(h, "assign") /\ UNCHANGED task /\ waiting' = waiting /\ cache' = cache
        /\ token' = token
    BY <1>5 DEF ReadExisting, tokenVars
  <2>2. TokenInv' /\ Only(h)
    BY <1>1, <2>1 DEF TokenInv, TokenTypeOK, TimeInv, Only
  <2> QED BY <1>2, <1>3, <2>1, <2>2, SyncGoesOn
<1> QED BY <1>4, <1>5

\* Those that are missing are assigned.
LEMMA AssignRolesStep ==
  ASSUME KeycloakInv, NEW h \in Handler, AssignRoles(h)
  PROVE  KeycloakInv'
<1> DEFINE added == account.roles \union (task[h].fetched \intersect RealmRole)
<1>1. /\ HandlerInv(h) /\ World /\ pc[h] = "assign" /\ pc[h] \in Sync
      /\ token[h].stage \notin AtLock /\ account' = [account EXCEPT !.roles = added]
      /\ kcSessions' = kcSessions /\ rows' = rows /\ (Synced(h) \/ Unheard(h))
  BY ArrivesOut DEF KeycloakInv, AssignRoles, Arrives, Sync
<1>2. account.exists
  <2>1. task[h] \in Minting
    BY <1>1, Kinds DEF HandlerInv
  <2> QED BY <1>1, <2>1 DEF HandlerInv, Safe
<1>3. /\ account' \in Account /\ account'.roles = added /\ account'.exists = account.exists
      /\ account'.enabled = account.enabled
  BY <1>1 DEF World, Account
<1>4. World' /\ Grows /\ (Barred => Barred')
  <2>1. Len(kcSessions) \in Nat /\ Len(rows) \in Nat
    BY <1>1 DEF World
  <2> QED BY <1>1, <1>3, <2>1 DEF World, Grows, Barred
<1>5. task[h].fetched \intersect RealmRole \subseteq account'.roles
  BY <1>3
<1> QED BY <1>1, <1>2, <1>3, <1>4, <1>5, SyncReturns, SyncUnheard

\* A step that is not one of the token's leaves the token of a handler that has
\* none.
LEMMA TokenStays ==
  ASSUME TokenInv, UNCHANGED tokenVars
  PROVE  TokenInv' /\ token' = token /\ \A h \in Handler : Only(h)
BY DEF tokenVars, TokenInv, TokenTypeOK, TimeInv, Only

\* Keycloak issues tokens for a login.
LEMMA IssueTokenStep ==
  ASSUME KeycloakInv, NEW h \in Handler, IssueToken(h)
  PROVE  KeycloakInv'
<1> DEFINE session == Len(kcSessions) + 1
<1>1. /\ HandlerInv(h) /\ World /\ TokenInv /\ pc[h] = "issue" /\ UNCHANGED tokenVars
      /\ account' = account /\ rows' = rows /\ account.enabled
      /\ Len(kcSessions) < MaxSessions /\ kcSessions' = Append(kcSessions, TRUE)
      /\ Mint(h, session, account.roles)
  BY DEF KeycloakInv, IssueToken
<1>2. TokenInv' /\ token' = token /\ Only(h)
  BY <1>1, TokenStays
<1>3. task[h] \in Minting /\ task[h].kind = "login" /\ token[h].stage = "none"
  BY <1>1, Kinds DEF HandlerInv, Sync
<1>4. /\ Len(kcSessions) \in Nat /\ Len(rows) \in Nat /\ MaxSessions \in Nat
      /\ session \in 0 .. MaxSessions
  BY <1>1, KeycloakAssumption DEF World
<1>5. /\ kcSessions' \in Seq(BOOLEAN) /\ Len(kcSessions') = session
      /\ \A s \in 1 .. Len(kcSessions) : kcSessions'[s] = kcSessions[s]
  BY <1>1 DEF World
<1> HIDE DEF session
<1>6. World' /\ Grows /\ (Barred => Barred')
  <2>1. Len(kcSessions) <= Len(kcSessions') /\ Len(kcSessions') <= MaxSessions
    BY <1>4, <1>5 DEF session
  <2>2. \A i \in 1 .. Len(rows) : rows[i].session <= Len(kcSessions')
    <3> SUFFICES ASSUME NEW i \in 1 .. Len(rows)
                 PROVE  rows[i].session <= Len(kcSessions')
      OBVIOUS
    <3>1. rows[i] \in Row /\ rows[i].session <= Len(kcSessions)
      BY <1>1 DEF World
    <3>2. rows[i].session \in Nat
      BY <1>4, <3>1 DEF Row
    <3> QED BY <1>4, <1>5, <2>1, <3>1, <3>2
  <2> QED BY <1>1, <1>4, <1>5, <2>1, <2>2 DEF World, Grows, Barred
<1>7. Safe(account, kcSessions, rows, task[h], "issue")
  BY <1>1, <1>3 DEF HandlerInv
<1>8. /\ task[h].fetched \intersect RealmRole \subseteq account.roles
      /\ ~ task[h].late /\ ~ task[h].barred
  BY <1>1, <1>3, <1>7 DEF Safe
<1>9. account.roles \in SUBSET Role
  BY <1>1, KeycloakAssumption DEF World, Account
<1>10. session <= Len(kcSessions')
  BY <1>4, <1>5
<1>11. /\ DOMAIN pc' = Handler /\ DOMAIN task' = Handler /\ HandlerInv(h)'
       /\ \A g \in Handler \ {h} : pc'[g] = pc[g] /\ task'[g] = task[g]
  BY <1>1, <1>2, <1>3, <1>4, <1>8, <1>9, <1>10, MintEffect
<1> QED BY <1>2, <1>6, <1>11, OneMoves DEF Only

\* A handler without a token signs the tokens itself.
LEMMA FallbackStep ==
  ASSUME KeycloakInv, World', Grows, Barred => Barred', UNCHANGED <<tokenVars, kcSessions>>,
         NEW h \in Handler, pc[h] \in {"issue", "revoke", "rotate"}, MintLocally(h)
  PROVE  KeycloakInv'
<1>1. HandlerType(h) /\ TokenInv
  BY DEF KeycloakInv, HandlerInv
<1>2. TokenInv' /\ token' = token /\ Only(h)
  BY <1>1, TokenStays
<1>3. task[h] \in Minting /\ token[h].stage = "none"
  BY <1>1, Kinds DEF Sync
<1>4. /\ DOMAIN pc' = Handler /\ DOMAIN task' = Handler /\ HandlerInv(h)'
      /\ \A g \in Handler \ {h} : pc'[g] = pc[g] /\ task'[g] = task[g]
  BY <1>2, <1>3, MintLocallyEffect
<1> QED BY <1>2, <1>4, OneMoves DEF Only

\* Keycloak does not.
LEMMA IssueTokenFailsStep ==
  ASSUME KeycloakInv, NEW h \in Handler, IssueTokenFails(h)
  PROVE  KeycloakInv'
<1>1. World /\ pc[h] = "issue" /\ MintLocally(h) /\ UNCHANGED <<tokenVars, kcVars>>
  BY DEF KeycloakInv, IssueTokenFails
<1>2. World' /\ Grows /\ (Barred => Barred')
  BY <1>1, WorldStays
<1> QED BY <1>1, <1>2, FallbackStep DEF kcVars

\* The session's row is inserted.
LEMMA InsertRowStep ==
  ASSUME KeycloakInv, NEW h \in Handler, InsertRow(h)
  PROVE  KeycloakInv'
<1> DEFINE row == [kc |-> task[h].kc, session |-> task[h].session, revoked |-> FALSE]
<1>1. /\ HandlerInv(h) /\ World /\ TokenInv /\ pc[h] = "insert" /\ UNCHANGED tokenVars
      /\ account' = account /\ kcSessions' = kcSessions /\ rows' = Append(rows, row) /\ Done(h)
  BY DEF KeycloakInv, InsertRow
<1>2. TokenInv' /\ token' = token /\ Only(h)
  BY <1>1, TokenStays
<1>3. task[h] \in Minting /\ token[h].stage = "none"
  BY <1>1, Kinds DEF HandlerInv, Sync
<1>4. row \in Row /\ row.session = task[h].session /\ row.session <= Len(kcSessions)
  BY <1>1, <1>3 DEF Minting, Row, HandlerInv, Safe
<1> HIDE DEF row
<1>5. Len(rows) \in Nat /\ Len(kcSessions) \in Nat
  BY <1>1 DEF World
<1>6. /\ rows' \in Seq(Row) /\ Len(rows') = Len(rows) + 1 /\ rows'[Len(rows) + 1] = row
      /\ \A i \in 1 .. Len(rows) : rows'[i] = rows[i]
  BY <1>1, <1>4 DEF World
<1>7. World' /\ Grows /\ (Barred => Barred')
  <2>1. ASSUME NEW i \in 1 .. Len(rows')
        PROVE  rows'[i].session <= Len(kcSessions')
    <3>1. CASE i = Len(rows) + 1
      BY <1>1, <1>4, <1>6, <3>1
    <3>2. CASE i \in 1 .. Len(rows)
      BY <1>1, <1>6, <3>2 DEF World
    <3> QED BY <1>5, <1>6, <3>1, <3>2
  <2> QED BY <1>1, <1>5, <1>6, <2>1 DEF World, Grows, Barred
<1>8. /\ DOMAIN pc' = Handler /\ DOMAIN task' = Handler /\ HandlerInv(h)'
      /\ \A g \in Handler \ {h} : pc'[g] = pc[g] /\ task'[g] = task[g]
  BY <1>1, <1>2, <1>3, DoneEffect
<1> QED BY <1>2, <1>7, <1>8, OneMoves DEF Only

-----------------------------------------------------------------------------
(* The steps of a refresh *)

\* A row is revoked, which leaves its Keycloak session.
LEMMA RowRevoked ==
  ASSUME World, UNCHANGED <<account, kcSessions>>, NEW i \in 1 .. Len(rows),
         rows' = [rows EXCEPT ![i].revoked = TRUE]
  PROVE  World' /\ Grows /\ (Barred => Barred')
<1>1. Len(kcSessions) \in Nat /\ Len(rows) \in Nat /\ rows[i] \in Row
  BY DEF World
<1>2. [rows[i] EXCEPT !.revoked = TRUE] \in Row
  BY <1>1 DEF Row
<1>3. /\ rows' \in Seq(Row) /\ Len(rows') = Len(rows)
      /\ \A j \in 1 .. Len(rows) : rows'[j].session = rows[j].session
  <2>1. rows' \in Seq(Row) /\ Len(rows') = Len(rows)
    BY <1>2 DEF World
  <2>2. \A j \in 1 .. Len(rows) : j # i => rows'[j] = rows[j]
    BY DEF World
  <2>3. rows'[i] = [rows[i] EXCEPT !.revoked = TRUE]
    <3>1. i \in DOMAIN rows
      BY DEF World
    <3> QED BY <3>1
  <2>4. rows'[i].session = rows[i].session
    BY <1>1, <2>3 DEF Row
  <2> QED BY <2>1, <2>2, <2>4
<1> QED BY <1>1, <1>3 DEF World, Grows, Barred

\* A refresh begins.
LEMMA StartRefreshStep ==
  ASSUME KeycloakInv, NEW h \in Handler, NEW i \in Sid, StartRefresh(h, i)
  PROVE  KeycloakInv'
<1>1. /\ HandlerInv(h) /\ World /\ TokenInv /\ pc[h] = "idle" /\ i \in 1 .. Len(rows)
      /\ UNCHANGED <<tokenVars, kcVars>> /\ DOMAIN pc = Handler /\ DOMAIN task = Handler
  BY DEF KeycloakInv, StartRefresh, Start
<1>2. PICK u : u = [New("refresh", {}) EXCEPT !.old = i, !.kc = rows[i].kc,
                                             !.late = ~ Alive(rows[i].session)]
  OBVIOUS
<1>3. /\ DOMAIN pc' = Handler /\ DOMAIN task' = Handler /\ pc'[h] = "revoke" /\ task'[h] = u
      /\ \A g \in Handler \ {h} : pc'[g] = pc[g] /\ task'[g] = task[g]
  BY <1>1, <1>2 DEF StartRefresh, Start, Goto
<1>4. TokenInv' /\ token' = token /\ Only(h) /\ token[h].stage = "none"
  BY <1>1, TokenStays, Kinds DEF HandlerInv
<1>5. World' /\ Grows /\ (Barred => Barred')
  BY <1>1, WorldStays
<1>6. u = [kind |-> "refresh", old |-> i, kc |-> rows[i].kc, session |-> 0, roles |-> {},
           fetched |-> {}, late |-> ~ Alive(rows[i].session), barred |-> Barred]
  BY <1>2 DEF New
<1>7. i \in 0 .. MaxSessions
  BY KeycloakAssumption DEF Sid
<1>8. u \in Minting
  <2>1. Barred \in BOOLEAN /\ (~ Alive(rows[i].session)) \in BOOLEAN
    BY DEF Barred, Alive
  <2>2. rows[i] \in Row
    BY <1>1 DEF World
  <2>3. rows[i].kc \in BOOLEAN /\ 0 \in 0 .. MaxSessions
    BY <2>2, KeycloakAssumption DEF Row
  <2> QED BY <1>6, <1>7, <2>1, <2>3 DEF Minting
<1>9. Safe(account', kcSessions', rows', u, "revoke")
  <2>1. account' = account /\ kcSessions' = kcSessions /\ rows' = rows /\ Len(kcSessions) \in Nat
    BY <1>1 DEF kcVars, World
  <2>2. /\ u.kind = "refresh" /\ u.fetched = {} /\ u.session = 0 /\ u.old = i
        /\ u.late => ~ Alive(rows[i].session)
        /\ u.barred => Barred
    BY <1>6
  <2> QED BY <1>1, <2>1, <2>2 DEF Safe, Alive, Barred
<1>10. "revoke" \in Stages[u.kind]
  BY <1>6, StagesOf
<1>11. HandlerInv(h)'
  BY <1>3, <1>4, <1>8, <1>9, <1>10, Moves
<1> QED BY <1>3, <1>4, <1>5, <1>11, OneMoves DEF Only

\* It revokes its row.
LEMMA RevokeOldStep ==
  ASSUME KeycloakInv, NEW h \in Handler, RevokeOld(h)
  PROVE  KeycloakInv'
<1>1. /\ HandlerInv(h) /\ World /\ TokenInv /\ pc[h] = "revoke" /\ UNCHANGED tokenVars
      /\ account' = account /\ kcSessions' = kcSessions
      /\ rows' = [rows EXCEPT ![task[h].old].revoked = TRUE]
      /\ DOMAIN pc = Handler /\ DOMAIN task = Handler
  BY DEF KeycloakInv, RevokeOld
<1>2. task[h] \in Minting /\ task[h].kind = "refresh" /\ token[h].stage = "none"
  BY <1>1, Kinds DEF HandlerInv, Sync
<1>3. task[h].old \in 1 .. Len(rows)
  BY <1>1, <1>2 DEF HandlerInv, Safe
<1>4. World' /\ Grows /\ (Barred => Barred')
  BY <1>1, <1>3, RowRevoked
<1>5. CASE task[h].kc
  <2>1. TokenInv' /\ token' = token /\ Only(h)
    BY <1>1, TokenStays
  <2>2. /\ DOMAIN pc' = Handler /\ DOMAIN task' = Handler /\ pc'[h] = "rotate" /\ task' = task
        /\ \A g \in Handler \ {h} : pc'[g] = pc[g] /\ task'[g] = task[g]
    BY <1>1, <1>5 DEF RevokeOld, Goto
  <2>3. Safe(account', kcSessions', rows', task[h], "revoke")
    BY <1>1, <1>2, <1>4, SafeMine
  <2>4. Safe(account', kcSessions', rows', task[h], "rotate")
    BY <2>3 DEF Safe
  <2>5. "rotate" \in Stages[task[h].kind]
    BY <1>2, StagesOf
  <2>6. HandlerInv(h)'
    BY <1>2, <2>1, <2>2, <2>4, <2>5, Moves
  <2> QED BY <1>4, <2>1, <2>2, <2>6, OneMoves DEF Only
<1>6. CASE ~ task[h].kc
  BY <1>1, <1>4, <1>6, FallbackStep DEF RevokeOld
<1> QED BY <1>5, <1>6

\* Keycloak rotates the tokens of its session.
LEMMA RotateTokenStep ==
  ASSUME KeycloakInv, NEW h \in Handler, RotateToken(h)
  PROVE  KeycloakInv'
<1> DEFINE session == rows[task[h].old].session
<1>1. /\ HandlerInv(h) /\ World /\ TokenInv /\ pc[h] = "rotate"
      /\ UNCHANGED <<tokenVars, kcVars>> /\ Alive(session) /\ account.enabled
      /\ Mint(h, session, account.roles)
  BY DEF KeycloakInv, RotateToken
<1>2. TokenInv' /\ token' = token /\ Only(h)
  BY <1>1, TokenStays
<1>3. World' /\ Grows /\ (Barred => Barred') /\ kcSessions' = kcSessions
  BY <1>1, WorldStays DEF kcVars
<1>4. task[h] \in Minting /\ task[h].kind = "refresh" /\ token[h].stage = "none"
  BY <1>1, Kinds DEF HandlerInv, Sync
<1>5. /\ task[h].old \in 1 .. Len(rows) /\ task[h].fetched = {}
      /\ task[h].late => session = 0 \/ ~ kcSessions[session]
      /\ task[h].barred => account.exists /\ ~ account.enabled
  BY <1>1, <1>4 DEF HandlerInv, Safe
<1>6. ~ task[h].late /\ ~ task[h].barred
  BY <1>1, <1>5 DEF Alive
<1>7. session \in 0 .. MaxSessions /\ session <= Len(kcSessions')
  <2>1. rows[task[h].old] \in Row /\ session <= Len(kcSessions)
    BY <1>1, <1>5 DEF World
  <2> QED BY <1>3, <2>1 DEF Row
<1>8. account.roles \in SUBSET Role
  BY <1>1, KeycloakAssumption DEF World, Account
<1> HIDE DEF session
<1>9. /\ DOMAIN pc' = Handler /\ DOMAIN task' = Handler /\ HandlerInv(h)'
      /\ \A g \in Handler \ {h} : pc'[g] = pc[g] /\ task'[g] = task[g]
  BY <1>1, <1>2, <1>4, <1>5, <1>6, <1>7, <1>8, MintEffect
<1> QED BY <1>2, <1>3, <1>9, OneMoves DEF Only

\* It does not, and the tokens are a customer's.
LEMMA RotateTokenFailsStep ==
  ASSUME KeycloakInv, NEW h \in Handler, RotateTokenFails(h)
  PROVE  KeycloakInv'
<1>1. World /\ pc[h] = "rotate" /\ MintLocally(h) /\ UNCHANGED <<tokenVars, kcVars>>
  BY DEF KeycloakInv, RotateTokenFails
<1>2. World' /\ Grows /\ (Barred => Barred')
  BY <1>1, WorldStays
<1> QED BY <1>1, <1>2, FallbackStep DEF kcVars

\* A request that is answered in one step leaves no handler behind.
LEMMA IdleStays ==
  ASSUME KeycloakInv, World', Grows, Barred => Barred', NEW h \in Handler, pc[h] = "idle",
         UNCHANGED <<tokenVars, pc, task>>
  PROVE  KeycloakInv'
<1>1. HandlerInv(h) /\ TokenInv /\ DOMAIN pc = Handler /\ DOMAIN task = Handler
  BY DEF KeycloakInv
<1>2. TokenInv' /\ token' = token /\ Only(h)
  BY <1>1, TokenStays
<1>3. task[h].kind = "nothing"
  BY <1>1, Kinds DEF HandlerInv
<1>4. HandlerInv(h)'
  <2>1. task[h] \notin Minting
    BY <1>3 DEF Minting
  <2> QED BY <1>1, <1>2, <2>1 DEF HandlerInv, HandlerType
<1> QED BY <1>1, <1>2, <1>4, OneMoves

-----------------------------------------------------------------------------
(* Logouts and an administrator's calls *)

\* A logout revokes its row.
LEMMA StartLogoutStep ==
  ASSUME KeycloakInv, NEW h \in Handler, NEW i \in Sid, StartLogout(h, i)
  PROVE  KeycloakInv'
<1>1. /\ HandlerInv(h) /\ World /\ TokenInv /\ i \in 1 .. Len(rows)
      /\ rows' = [rows EXCEPT ![i].revoked = TRUE] /\ account' = account
      /\ kcSessions' = kcSessions /\ DOMAIN pc = Handler /\ DOMAIN task = Handler
  BY DEF KeycloakInv, StartLogout
<1>2. World' /\ Grows /\ (Barred => Barred')
  BY <1>1, RowRevoked
<1>3. CASE rows[i].kc
  <2>1. Start(h, "logout", [kind |-> "logout"]) /\ AwaitLock(h)
    BY <1>3 DEF StartLogout
  <2>2. TokenInv' /\ token'[h].stage = "waiting" /\ Only(h)
    BY <1>1, <2>1, AwaitStep
  <2>3. PICK u : u = [kind |-> "logout"]
    OBVIOUS
  <2>4. /\ DOMAIN pc' = Handler /\ DOMAIN task' = Handler /\ pc'[h] = "logout" /\ task'[h] = u
        /\ \A g \in Handler \ {h} : pc'[g] = pc[g] /\ task'[g] = task[g]
    BY <1>1, <2>1, <2>3 DEF Start, Goto
  <2>5. u \in Task /\ u.kind = "logout" /\ "logout" \in Stages[u.kind]
    BY <2>3, StagesOf DEF Task
  <2>6. HandlerInv(h)'
    BY <2>4, <2>5, Rests
  <2> QED BY <1>2, <2>2, <2>4, <2>6, OneMoves DEF Only
<1>4. CASE ~ rows[i].kc
  <2>1. pc[h] = "idle" /\ UNCHANGED <<tokenVars, pc, task>>
    BY <1>4 DEF StartLogout
  <2> QED BY <1>1, <1>2, <2>1, IdleStays
<1> QED BY <1>3, <1>4

\* Every Keycloak session of the user ends.
LEMMA LogoutAllStep ==
  ASSUME KeycloakInv, NEW h \in Handler, LogoutAll(h)
  PROVE  KeycloakInv'
<1>1. /\ World /\ TokenInv /\ token[h].stage \notin AtLock /\ Done(h) /\ Forget(h)
      /\ account' = account /\ rows' = rows
      /\ kcSessions' = [s \in 1 .. Len(kcSessions) |-> FALSE]
  BY ArrivesOut DEF KeycloakInv, LogoutAll, Arrives
<1>2. TokenInv' /\ token'[h].stage = "none" /\ Only(h)
  BY <1>1, ForgetStep
<1>3. Len(kcSessions) \in Nat /\ Len(rows) \in Nat
  BY <1>1 DEF World
<1>4. /\ kcSessions' \in Seq(BOOLEAN) /\ Len(kcSessions') = Len(kcSessions)
      /\ \A s \in 1 .. Len(kcSessions) : ~ kcSessions'[s]
  BY <1>1, <1>3
<1>5. World' /\ Grows /\ (Barred => Barred')
  BY <1>1, <1>3, <1>4 DEF World, Grows, Barred
<1>6. /\ DOMAIN pc' = Handler /\ DOMAIN task' = Handler /\ HandlerInv(h)'
      /\ \A g \in Handler \ {h} : pc'[g] = pc[g] /\ task'[g] = task[g]
  BY <1>1, <1>2, DoneEffect
<1> QED BY <1>2, <1>5, <1>6, OneMoves DEF Only

\* A session is revoked, and Keycloak is told nothing.
LEMMA RevokeSessionStep ==
  ASSUME KeycloakInv, NEW h \in Handler, NEW i \in Sid, RevokeSession(h, i)
  PROVE  KeycloakInv'
<1>1. /\ World /\ i \in 1 .. Len(rows) /\ rows' = [rows EXCEPT ![i].revoked = TRUE]
      /\ pc[h] = "idle" /\ UNCHANGED <<tokenVars, account, kcSessions, pc, task>>
  BY DEF KeycloakInv, RevokeSession
<1>2. World' /\ Grows /\ (Barred => Barred')
  BY <1>1, RowRevoked
<1> QED BY <1>1, <1>2, IdleStays

\* An administrator's call begins.
LEMMA StartAdminStep ==
  ASSUME KeycloakInv, NEW h \in Handler, StartAdmin(h)
  PROVE  KeycloakInv'
<1>1. /\ World /\ TokenInv /\ Start(h, "admin", [kind |-> "admin"]) /\ AwaitLock(h)
      /\ UNCHANGED kcVars /\ DOMAIN pc = Handler /\ DOMAIN task = Handler
  BY DEF KeycloakInv, StartAdmin
<1>2. TokenInv' /\ token'[h].stage = "waiting" /\ Only(h)
  BY <1>1, AwaitStep
<1>3. World' /\ Grows /\ (Barred => Barred')
  BY <1>1, WorldStays
<1>4. PICK u : u = [kind |-> "admin"]
  OBVIOUS
<1>5. /\ DOMAIN pc' = Handler /\ DOMAIN task' = Handler /\ pc'[h] = "admin" /\ task'[h] = u
      /\ \A g \in Handler \ {h} : pc'[g] = pc[g] /\ task'[g] = task[g]
  BY <1>1, <1>4 DEF Start, Goto
<1>6. u \in Task /\ u.kind = "admin" /\ "admin" \in Stages[u.kind]
  BY <1>4, StagesOf DEF Task
<1>7. HandlerInv(h)'
  BY <1>2, <1>5, <1>6, Rests
<1> QED BY <1>2, <1>3, <1>5, <1>7, OneMoves DEF Only

\* Its account is enabled or disabled: an enable lifts the bar of those in
\* flight.
LEMMA SetEnabledStep ==
  ASSUME KeycloakInv, NEW h \in Handler, NEW enabled \in BOOLEAN, SetEnabled(h, enabled),
         Goto(h, "idle"), rows' = rows, TokenInv', Only(h), token'[h].stage = "none"
  PROVE  KeycloakInv'
<1>1. /\ World /\ TokenInv /\ account' = [account EXCEPT !.enabled = enabled]
      /\ kcSessions' = kcSessions /\ DOMAIN pc = Handler /\ DOMAIN task = Handler
      /\ \A g \in Handler : HandlerInv(g)
  BY DEF KeycloakInv, SetEnabled
<1>2. /\ account' \in Account /\ account'.exists = account.exists
      /\ account'.roles = account.roles /\ account'.enabled = enabled
  BY <1>1 DEF World, Account
<1>3. World' /\ Grows
  <2>1. Len(kcSessions) \in Nat /\ Len(rows) \in Nat
    BY <1>1 DEF World
  <2> QED BY <1>1, <1>2, <2>1 DEF World, Grows
<1>4. /\ DOMAIN pc' = Handler /\ DOMAIN task' = Handler /\ pc'[h] = "idle" /\ task'[h] = Nothing
      /\ \A g \in Handler \ {h} : pc'[g] = pc[g] /\ token'[g] = token[g]
  BY <1>1 DEF SetEnabled, Goto, Only
<1>5. HandlerInv(h)'
  <2>1. Nothing \in Task /\ Nothing.kind = "nothing" /\ "idle" \in Stages["nothing"]
    BY StagesOf DEF Nothing, Task
  <2> QED BY <1>4, <2>1, Rests
<1>6. ASSUME NEW g \in Handler \ {h}
      PROVE  HandlerInv(g)'
  <2>1. HandlerInv(g) /\ pc'[g] = pc[g] /\ token'[g] = token[g]
    BY <1>1, <1>4
  <2>2. CASE enabled /\ task[g].kind \in {"login", "refresh"}
    <3>1. PICK u : u = [task[g] EXCEPT !.barred = FALSE]
      OBVIOUS
    <3>2. task[g] \in Minting
      <4>1. task[g] \notin [kind: {"logout", "admin"}] /\ task[g] # Nothing
        BY <2>2 DEF Nothing
      <4> QED BY <2>1, <4>1 DEF HandlerInv, HandlerType, Task
    <3>3. /\ u \in Minting /\ u.kind = task[g].kind /\ u.old = task[g].old
          /\ u.session = task[g].session /\ u.roles = task[g].roles
          /\ u.fetched = task[g].fetched /\ u.late = task[g].late /\ ~ u.barred
      BY <3>1, <3>2 DEF Minting
    <3>4. task'[g] = u
      BY <2>2, <3>1 DEF SetEnabled
    <3>5. Safe(account', kcSessions', rows', u, pc[g])
      BY <1>1, <1>3, <2>1, <3>2, <3>3, SafeKept DEF HandlerInv
    <3>6. HandlerType(g)'
      BY <2>1, <3>3, <3>4 DEF HandlerInv, HandlerType, Task
    <3> QED BY <2>1, <3>4, <3>5, <3>6 DEF HandlerInv
  <2>3. CASE ~ (enabled /\ task[g].kind \in {"login", "refresh"})
    <3>1. task'[g] = task[g]
      BY <2>3 DEF SetEnabled
    <3>2. HandlerType(g)'
      BY <2>1, <3>1 DEF HandlerInv, HandlerType
    <3>3. task[g] \in Minting => Safe(account', kcSessions', rows', task[g], pc[g])
      <4> SUFFICES ASSUME task[g] \in Minting
                   PROVE  Safe(account', kcSessions', rows', task[g], pc[g])
        OBVIOUS
      <4>1. ~ enabled
        BY <2>3 DEF Minting
      <4>2. Barred => Barred'
        BY <1>2, <4>1 DEF Barred
      <4> QED BY <1>1, <1>3, <2>1, <4>2, SafeKept DEF HandlerInv
    <3> QED BY <2>1, <3>1, <3>2, <3>3 DEF HandlerInv
  <2> QED BY <2>2, <2>3
<1> QED BY <1>3, <1>4, <1>5, <1>6 DEF KeycloakInv

\* The call of an administrator arrives.
LEMMA AdminCallStep ==
  ASSUME KeycloakInv, NEW h \in Handler, AdminCall(h)
  PROVE  KeycloakInv'
<1>1. /\ World /\ TokenInv /\ token[h].stage \notin AtLock /\ Goto(h, "idle") /\ Forget(h)
      /\ rows' = rows
  BY ArrivesOut DEF KeycloakInv, AdminCall, Arrives
<1>2. TokenInv' /\ token'[h].stage = "none" /\ Only(h)
  BY <1>1, ForgetStep
<1>3. ASSUME task' = [task EXCEPT ![h] = Nothing], World', Grows, account' = account
      PROVE  KeycloakInv'
  <2>1. Done(h)
    BY <1>1, <1>3 DEF Done
  <2>2. /\ DOMAIN pc' = Handler /\ DOMAIN task' = Handler /\ HandlerInv(h)'
        /\ \A g \in Handler \ {h} : pc'[g] = pc[g] /\ task'[g] = task[g]
    BY <1>2, <2>1, DoneEffect
  <2>3. Barred => Barred'
    BY <1>3 DEF Barred
  <2> QED BY <1>2, <1>3, <2>2, <2>3, OneMoves DEF Only
<1>4. CASE \E enabled \in BOOLEAN : SetEnabled(h, enabled)
  BY <1>1, <1>2, <1>4, SetEnabledStep
<1>5. CASE \E s \in Sid : DeleteSession(h, s)
  <2>1. PICK s \in Sid : DeleteSession(h, s)
    BY <1>5
  <2>2. /\ task' = [task EXCEPT ![h] = Nothing] /\ account' = account
        /\ kcSessions' = [kcSessions EXCEPT ![s] = FALSE]
    BY <2>1 DEF DeleteSession
  <2>3. /\ Len(kcSessions) \in Nat /\ Len(rows) \in Nat
        /\ kcSessions' \in Seq(BOOLEAN) /\ Len(kcSessions') = Len(kcSessions)
        /\ \A r \in 1 .. Len(kcSessions) : kcSessions'[r] => kcSessions[r]
    <3>1. kcSessions \in Seq(BOOLEAN) /\ Len(kcSessions) \in Nat /\ Len(rows) \in Nat
      BY <1>1 DEF World
    <3>2. s \in 1 .. Len(kcSessions)
      BY <2>1, <3>1, KeycloakAssumption DEF DeleteSession, Sid
    <3>3. /\ kcSessions' \in Seq(BOOLEAN) /\ Len(kcSessions') = Len(kcSessions)
          /\ \A r \in 1 .. Len(kcSessions) : kcSessions'[r] = IF r = s THEN FALSE ELSE kcSessions[r]
      <4>1. kcSessions' \in Seq(BOOLEAN) /\ Len(kcSessions') = Len(kcSessions)
        <5>1. PICK n \in Nat : n = Len(kcSessions)
          BY <3>1
        <5>2. kcSessions \in [1 .. n -> BOOLEAN]
          BY <3>1, <5>1
        <5>3. kcSessions' \in [1 .. n -> BOOLEAN]
          BY <2>2, <5>2, Zenon
        <5>4. kcSessions' \in Seq(BOOLEAN) /\ Len(kcSessions') = n
          BY <5>3
        <5> QED BY <5>1, <5>4
      <4>2. \A r \in 1 .. Len(kcSessions) : r # s => kcSessions'[r] = kcSessions[r]
        BY <2>2, <3>1
      <4>3. kcSessions'[s] = FALSE
        BY <2>2, <3>1, <3>2
      <4> QED BY <4>1, <4>2, <4>3
    <3> QED BY <3>1, <3>3
  <2>4. World' /\ Grows
    BY <1>1, <2>2, <2>3 DEF World, Grows
  <2> QED BY <1>3, <2>2, <2>4
<1>6. CASE task' = [task EXCEPT ![h] = Nothing] /\ UNCHANGED <<account, kcSessions>>
  <2>1. World' /\ Grows
    BY <1>1, <1>6, WorldStays DEF kcVars
  <2> QED BY <1>3, <1>6, <2>1
<1> QED BY <1>4, <1>5, <1>6 DEF AdminCall

\* It fails, as may that of a logout.
LEMMA CallFailsStep ==
  ASSUME KeycloakInv, NEW h \in Handler, CallFails(h)
  PROVE  KeycloakInv'
<1>1. World /\ TokenInv /\ Done(h) /\ UNCHANGED kcVars
  BY DEF KeycloakInv, CallFails
<1>2. TokenInv' /\ token'[h].stage = "none" /\ Only(h)
  <2>1. CASE token[h].stage = "held" /\ Forget(h)
    BY <1>1, <2>1, ForgetStep DEF AtLock
  <2>2. CASE TokenFails(h)
    BY <1>1, <2>2, FailsStep
  <2> QED BY <2>1, <2>2 DEF CallFails
<1>3. World' /\ Grows /\ (Barred => Barred')
  BY <1>1, WorldStays
<1>4. /\ DOMAIN pc' = Handler /\ DOMAIN task' = Handler /\ HandlerInv(h)'
      /\ \A g \in Handler \ {h} : pc'[g] = pc[g] /\ task'[g] = task[g]
  BY <1>1, <1>2, DoneEffect
<1> QED BY <1>2, <1>3, <1>4, OneMoves DEF Only

-----------------------------------------------------------------------------
(* The invariant is inductive *)

\* A handler goes on to its admin token.
LEMMA GetAdminTokenStep ==
  ASSUME KeycloakInv, NEW h \in Handler, GetAdminToken(h), UNCHANGED <<kcVars, pc, task>>
  PROVE  KeycloakInv'
<1>1. HandlerInv(h) /\ TokenInv /\ World /\ DOMAIN pc = Handler /\ DOMAIN task = Handler
  BY DEF KeycloakInv
<1>2. TokenInv' /\ token[h].stage \in AtLock /\ Only(h)
  BY <1>1, GetStep
<1>3. World' /\ Grows /\ (Barred => Barred')
  BY <1>1, WorldStays
<1>4. /\ token[h].stage # "none" /\ token[h].stage # "used"
  BY <1>2 DEF AtLock
<1>5. HandlerInv(h)'
  BY <1>1, <1>4 DEF HandlerInv, HandlerType, kcVars
<1> QED BY <1>1, <1>2, <1>3, <1>5, OneMoves DEF Only

\* Time passes, or nothing does.
LEMMA AllStay ==
  ASSUME KeycloakInv, TokenInv', \A h \in Handler : token'[h].stage = token[h].stage,
         UNCHANGED <<kcVars, pc, task>>
  PROVE  KeycloakInv'
<1>1. World'
  BY DEF KeycloakInv, World, kcVars
<1>2. \A h \in Handler : HandlerInv(h)'
  BY DEF KeycloakInv, HandlerInv, HandlerType, kcVars
<1> QED BY <1>1, <1>2 DEF KeycloakInv

\* The process stops and starts again.
LEMMA RestartStep ==
  ASSUME KeycloakInv, Restart
  PROVE  KeycloakInv'
<1>1. TokenInv' /\ \A h \in Handler : token'[h].stage = "none"
  BY ResetStep DEF Restart
<1>2. World'
  BY DEF KeycloakInv, Restart, World, kcVars
<1>3. /\ DOMAIN pc' = Handler /\ DOMAIN task' = Handler
      /\ \A h \in Handler : pc'[h] = "idle" /\ task'[h] = Nothing
  BY DEF Restart
<1>4. Nothing \in Task /\ Nothing.kind = "nothing" /\ "idle" \in Stages["nothing"]
  BY StagesOf DEF Nothing, Task
<1>5. \A h \in Handler : HandlerInv(h)'
  BY <1>1, <1>3, <1>4, Rests
<1> QED BY <1>1, <1>2, <1>3, <1>5 DEF KeycloakInv

\* It holds before the first request.
LEMMA KeycloakInitially == Init => KeycloakInv
<1> SUFFICES ASSUME Init PROVE KeycloakInv
  OBVIOUS
<1>1. TokenInv
  <2>1. /\ NoToken \in Token /\ NoToken.stage = "none" /\ 0 \in Time
    BY NoTokenType DEF NoToken
  <2>2. \A h \in Handler : token[h] = NoToken
    BY DEF Init, TokenInit
  <2>3. TokenTypeOK
    BY <2>1, <2>2 DEF Init, TokenInit, TokenTypeOK, Token, AtLock
  <2>4. \A h \in Handler : TokenFine(token[h])
    <3>1. TokenFine(NoToken)
      BY <2>1, IdleFine
    <3> QED BY <2>2, <3>1
  <2> QED BY <2>3, <2>4 DEF Init, TokenInit, TokenInv, TimeInv
<1>2. World
  <2>1. NoAccount \in Account
    BY DEF NoAccount, Account
  <2> QED BY <2>1, KeycloakAssumption DEF Init, World
<1>3. /\ DOMAIN pc = Handler /\ DOMAIN task = Handler
      /\ \A h \in Handler : pc[h] = "idle" /\ task[h] = Nothing /\ token[h].stage = "none"
  BY DEF Init, HandlersInit, TokenInit, NoToken
<1>4. /\ Nothing \in Task /\ Nothing.kind = "nothing" /\ "idle" \in Stages["nothing"]
      /\ Nothing \notin Minting
  BY StagesOf DEF Nothing, Task, Minting
<1>5. \A h \in Handler : HandlerInv(h)
  BY <1>3, <1>4 DEF HandlerInv, HandlerType
<1> QED BY <1>1, <1>2, <1>3, <1>5 DEF KeycloakInv

\* Every step keeps it.
LEMMA KeycloakStep == KeycloakInv /\ [Next]_vars => KeycloakInv'
<1> SUFFICES ASSUME KeycloakInv, [Next]_vars PROVE KeycloakInv'
  OBVIOUS
<1>1. ASSUME NEW h \in Handler, Begin(h) PROVE KeycloakInv'
  BY <1>1, StartLoginStep, StartRefreshStep, StartLogoutStep, RevokeSessionStep,
     StartAdminStep DEF Begin
<1>2. ASSUME NEW h \in Handler, Step(h) PROVE KeycloakInv'
  BY <1>2, GetAdminTokenStep, SyncFailsStep, LookupUserStep, CreateUserStep, PatchUserStep,
     ReadExistingStep, AssignRolesStep, IssueTokenStep, IssueTokenFailsStep, RevokeOldStep,
     RotateTokenStep, RotateTokenFailsStep, InsertRowStep, LogoutAllStep, AdminCallStep,
     CallFailsStep DEF Step
<1>3. CASE Tick /\ UNCHANGED <<kcVars, pc, task>>
  <2>1. TokenInv' /\ \A h \in Handler : token'[h].stage = token[h].stage
    BY <1>3, TickStep DEF KeycloakInv
  <2> QED BY <1>3, <2>1, AllStay
<1>4. CASE Restart
  BY <1>4, RestartStep
<1>5. CASE UNCHANGED vars
  <2>1. UNCHANGED tokenVars /\ UNCHANGED <<kcVars, pc, task>>
    BY <1>5 DEF vars
  <2>2. TokenInv' /\ token' = token
    BY <2>1, TokenStays DEF KeycloakInv
  <2> QED BY <2>1, <2>2, AllStay
<1> QED BY <1>1, <1>2, <1>3, <1>4, <1>5 DEF Next

\* It always holds.
LEMMA KeycloakAlways == Spec => []KeycloakInv
<1> QED BY KeycloakInitially, KeycloakStep, PTL DEF Spec

-----------------------------------------------------------------------------
(* The theorems *)

\* The types of the tokens, the account, the sessions and the handlers of
\* keycloak_service.py and session_service.py.
THEOREM KeycloakTypes == Spec => []KeycloakTypeOK
<1>1. KeycloakInv => KeycloakTypeOK
  BY DEF KeycloakInv, TokenInv, World, HandlerInv, HandlerType, KeycloakTypeOK
<1> QED BY <1>1, KeycloakAlways, PTL

\* A token that the cache of _get_admin_token gives out is good for MARGIN
\* longer, for every lifetime and margin and any number of handlers, with
\* nothing assumed of how long the requests and their answers take.
THEOREM KeycloakCachedToken == Spec => []CachedTokenCovered
<1>1. KeycloakInv => CachedTokenCovered
  BY MarginCovers DEF KeycloakInv
<1> QED BY <1>1, KeycloakAlways, PTL

\* The tokens that Keycloak issues at a login carry the roles user-service told
\* of: get_or_create_user returns no user whose roles it has not assigned.
THEOREM KeycloakRolesReachToken == Spec => []RolesReachToken
<1>1. KeycloakInv => RolesReachToken
  <2> SUFFICES ASSUME KeycloakInv, NEW h \in Handler, pc[h] = "insert", task[h].session # 0
               PROVE  task[h].fetched \intersect RealmRole \subseteq task[h].roles
    BY DEF RolesReachToken, Minted
  <2>1. task[h] \in Minting
    BY Kinds DEF KeycloakInv, HandlerInv
  <2> QED BY <2>1 DEF KeycloakInv, HandlerInv, Safe
<1> QED BY <1>1, KeycloakAlways, PTL

\* refresh_session gives a mere customer's tokens once the Keycloak session has
\* ended.
THEOREM KeycloakLateRefresh == Spec => []LateRefreshIsCustomer
<1>1. KeycloakInv => LateRefreshIsCustomer
  <2> SUFFICES ASSUME KeycloakInv, NEW h \in Handler, pc[h] = "insert", task[h].late
               PROVE  task[h].roles = {"customer"}
    BY DEF LateRefreshIsCustomer, Minted
  <2>1. task[h] \in Minting
    BY Kinds DEF KeycloakInv, HandlerInv
  <2> QED BY <2>1 DEF KeycloakInv, HandlerInv, Safe
<1> QED BY <1>1, KeycloakAlways, PTL

\* Keycloak mints nothing for an account that an administrator keeps disabled,
\* and _patch_user_attributes does not enable it.
THEOREM KeycloakDisabledStays == Spec => []DisabledStaysDisabled
<1>1. KeycloakInv => DisabledStaysDisabled
  <2> SUFFICES ASSUME KeycloakInv, NEW h \in Handler, pc[h] = "insert", task[h].barred
               PROVE  task[h].session = 0
    BY DEF DisabledStaysDisabled, Minted
  <2>1. task[h] \in Minting
    BY Kinds DEF KeycloakInv, HandlerInv
  <2> QED BY <2>1 DEF KeycloakInv, HandlerInv, Safe
<1> QED BY <1>1, KeycloakAlways, PTL

=============================================================================
