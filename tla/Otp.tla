-------------------------------- MODULE Otp --------------------------------
(***************************************************************************)
(* The one-time codes of auth-service, services/otp_service.py, for one    *)
(* mobile number (its two Redis keys are otp:rate:<mobile> and             *)
(* otp:code:<mobile>; the keys of different numbers never meet).           *)
(*                                                                         *)
(* A handler of POST /otp/send, POST /otp/verify or POST                   *)
(* /internal/.../otp/validate talks to Redis one command (or one MULTI     *)
(* pipeline) at a time and holds no lock between two of them, so every     *)
(* action below stands for the code around ONE Redis command and the       *)
(* handlers Req interleave between them.  What a handler keeps in local    *)
(* variables across an await is in local, its program counter in pc.       *)
(*                                                                         *)
(* A Redis key with a TTL is a record with the instant exp at which it     *)
(* disappears: it is there exactly while now < exp.                        *)
(***************************************************************************)
EXTENDS Naturals, Sequences, FiniteSets

CONSTANTS
    Sender,                     \* handlers of /otp/send that may overlap
    Verifier,                   \* handlers that call verify_otp and may overlap
    OTP_EXPIRE_SECONDS,         \* config.py settings, in units of time
    OTP_RATE_WINDOW_SECONDS,
    OTP_RATE_LIMIT,
    MAX_ATTEMPTS,               \* the literal 5 of verify_otp
    MaxTime,                    \* bound: the clock stops here
    MaxSends,                   \* bound: INCRs of the rate key, codes stored
    MaxAnswers                  \* bound: answers of each kind to one code

Req == Sender \union Verifier

ASSUME HandlersAssumption == IsFiniteSet(Sender) /\ IsFiniteSet(Verifier)

ASSUME SettingsAssumption ==
    /\ OTP_EXPIRE_SECONDS \in Nat \ {0}
    /\ OTP_RATE_WINDOW_SECONDS \in Nat \ {0}
    /\ OTP_RATE_LIMIT \in Nat \ {0}
    /\ MAX_ATTEMPTS \in Nat \ {0}

ASSUME BoundsAssumption ==
    /\ MaxTime \in Nat
    /\ MaxSends \in Nat
    /\ MaxAnswers \in Nat

VARIABLES
    now,        \* the clock
    rate,       \* otp:rate:<mobile>: a count and the instant it disappears
    code,       \* otp:code:<mobile>: the stored payload and its exp
    pc,         \* pc[r]: the next Redis command of handler r
    local,      \* local[r]: what handler r read before its last await
    \* history, read by no action's guard but the bounds:
    increments, \* the instants of the INCRs of the rate key, in order
    made,       \* made[i]: the clock reading from which code i was dated
    wrong,      \* wrong[i]: answers "invalid" given about code i
    ok,         \* ok[i]: answers "ok" given about code i
    lastOk,     \* lastOk[i]: clock reading of the latest of them
    contested   \* the codes that two verifies have held at the same time

history == <<increments, made, wrong, ok, lastOk, contested>>
vars == <<now, rate, code, pc, local, history>>

-----------------------------------------------------------------------------
(* Types *)

Issue == 1 .. MaxSends          \* codes are numbered in the order stored

\* The JSON of the code key.  Its hash is that of the code sent, so comparing
\* hashes is comparing an answer with code `issue'; 0 is no code at all.
Payload == [issue: 0 .. MaxSends, expires_at: Nat, attempts: 0 .. MAX_ATTEMPTS]

NoPayload == [issue |-> 0, expires_at |-> 0, attempts |-> 0]

TypeOK ==
    /\ now \in 0 .. MaxTime
    /\ rate \in [count: Nat, exp: Nat]
    /\ code \in [payload: Payload, exp: Nat]
    /\ pc \in [Req -> {"idle", "incr", "setex", "decide"}]
    /\ local \in [Req -> [at: Nat, payload: Payload, right: BOOLEAN]]
    /\ increments \in Seq(Nat)
    /\ made \in Seq(Nat) /\ Len(made) <= MaxSends
    /\ wrong \in [Issue -> Nat]
    /\ ok \in [Issue -> Nat]
    /\ lastOk \in [Issue -> Nat]
    /\ contested \subseteq 0 .. MaxSends

Idle == [at |-> 0, payload |-> NoPayload, right |-> FALSE]

Init ==
    /\ now = 0
    /\ rate = [count |-> 0, exp |-> 0]
    /\ code = [payload |-> NoPayload, exp |-> 0]
    /\ pc = [r \in Req |-> "idle"]
    /\ local = [r \in Req |-> Idle]
    /\ increments = <<>>
    /\ made = <<>>
    /\ wrong = [i \in Issue |-> 0]
    /\ ok = [i \in Issue |-> 0]
    /\ lastOk = [i \in Issue |-> 0]
    /\ contested = {}

-----------------------------------------------------------------------------
(* Redis and the clock *)

Tick ==
    /\ now < MaxTime
    /\ now' = now + 1
    /\ UNCHANGED <<rate, code, pc, local, history>>

Present(key) == now < key.exp

\* GET of the rate key as an int; a missing key counts as zero.
SendCount == IF Present(rate) THEN rate.count ELSE 0

\* SETEX otp:code OTP_EXPIRE_SECONDS p, and DEL otp:code.
SetCode(p) == code' = [payload |-> p, exp |-> now + OTP_EXPIRE_SECONDS]
DelCode == code' = [payload |-> NoPayload, exp |-> 0]

Goto(r, label) == pc' = [pc EXCEPT ![r] = label]
Respond(r) ==
    /\ Goto(r, "idle")
    /\ local' = [local EXCEPT ![r] = Idle]

-----------------------------------------------------------------------------
(* POST /otp/send *)

\* Mutant: the limit is compared with > where line 81 has >=.
CheckRateLimitLoosely(r) ==
    /\ pc[r] = "idle"
    /\ Len(increments) < MaxSends
    /\ SendCount <= OTP_RATE_LIMIT
    /\ Goto(r, "incr")
    /\ UNCHANGED <<now, rate, code, local, history>>

\* check_rate_limit: 429 at the limit (nothing changes, so no action), else
\* the handler goes on to send_otp.  The GET and TTL of the code key that
\* send_otp begins with are only logged.
CheckRateLimit(r) ==
    /\ pc[r] = "idle"
    /\ Len(increments) < MaxSends
    /\ SendCount < OTP_RATE_LIMIT
    /\ Goto(r, "incr")
    /\ UNCHANGED <<now, rate, code, local, history>>

\* The pipeline INCR; EXPIRE: every send re-arms the whole window.
CountSend(r) ==
    /\ pc[r] = "incr"
    /\ Len(increments) < MaxSends
    /\ rate' = [count |-> SendCount + 1, exp |-> now + OTP_RATE_WINDOW_SECONDS]
    /\ increments' = Append(increments, now)
    /\ Goto(r, "setex")
    /\ local' = [local EXCEPT ![r].at = now]
    /\ UNCHANGED <<now, code, made, wrong, ok, lastOk, contested>>

\* The code is dated at some instant t between the reply of the pipeline and
\* the arrival of the SETEX; it replaces whatever code was there.  The SMS
\* follows; its failure changes no state and the router ignores it.
StoreCode(r) ==
    /\ pc[r] = "setex"
    /\ Len(made) < MaxSends
    /\ \E t \in local[r].at .. now :
         /\ SetCode([issue |-> Len(made) + 1,
                     expires_at |-> t + OTP_EXPIRE_SECONDS,
                     attempts |-> 0])
         /\ made' = Append(made, t)
    /\ Respond(r)
    /\ UNCHANGED <<now, rate, increments, wrong, ok, lastOk, contested>>

-----------------------------------------------------------------------------
(* POST /otp/verify and POST /internal/v1/auth/otp/validate: verify_otp *)

\* The handlers that have read code i and not yet decided about it.
Holders(i) == {q \in Req : pc[q] = "decide" /\ local[q].payload.issue = i}

\* GET otp:code; "expired" when it is missing (no change, so no action).  The
\* client's answer is right or wrong for the code that was read.
ReadCode(r) ==
    /\ pc[r] = "idle"
    /\ Present(code)
    /\ \A i \in Issue : wrong[i] < MaxAnswers /\ ok[i] < MaxAnswers
    /\ Goto(r, "decide")
    /\ \E right \in BOOLEAN :
         local' = [local EXCEPT ![r] =
                     [at |-> now, payload |-> code.payload, right |-> right]]
    /\ contested' = IF Holders(code.payload.issue) = {}
                      THEN contested
                      ELSE contested \union {code.payload.issue}
    /\ UNCHANGED <<now, rate, code, increments, made, wrong, ok, lastOk>>

\* The rest of verify_otp reads the clock at some instant t after the GET and
\* ends with one command on the key, whatever the key holds by then.
Expired(r, t) ==
    /\ t > local[r].payload.expires_at
    /\ DelCode
    /\ UNCHANGED <<wrong, ok, lastOk>>

TooManyAttempts(r, t) ==
    /\ t <= local[r].payload.expires_at
    /\ local[r].payload.attempts >= MAX_ATTEMPTS
    /\ DelCode
    /\ UNCHANGED <<wrong, ok, lastOk>>

AnswerWrong(p) ==
    /\ wrong' = [wrong EXCEPT ![p.issue] = @ + 1]
    /\ UNCHANGED <<ok, lastOk>>

AnswerOk(p, t) ==
    /\ ok' = [ok EXCEPT ![p.issue] = @ + 1]
    /\ lastOk' = [lastOk EXCEPT ![p.issue] = t]
    /\ UNCHANGED wrong

\* Mutant: the lock-out compares with > where line 165 has >=.
InvalidOnceMore(r, t) ==
    LET p == local[r].payload
    IN /\ t <= p.expires_at
       /\ p.attempts <= MAX_ATTEMPTS
       /\ ~ local[r].right
       /\ SetCode([p EXCEPT !.attempts = @ + 1])
       /\ AnswerWrong(p)

\* Mutant: rewriting the key dates the code anew.
InvalidRenews(r, t) ==
    LET p == local[r].payload
    IN /\ t <= p.expires_at
       /\ p.attempts < MAX_ATTEMPTS
       /\ ~ local[r].right
       /\ SetCode([p EXCEPT !.attempts = @ + 1,
                            !.expires_at = t + OTP_EXPIRE_SECONDS])
       /\ AnswerWrong(p)

\* The payload read is written back with one attempt more and a full TTL; its
\* expires_at stays.
Invalid(r, t) ==
    LET p == local[r].payload
    IN /\ t <= p.expires_at
       /\ p.attempts < MAX_ATTEMPTS
       /\ ~ local[r].right
       /\ SetCode([p EXCEPT !.attempts = @ + 1])
       /\ AnswerWrong(p)

\* Mutant: the accepted code is left in Redis.
ValidKeepsCode(r, t) ==
    LET p == local[r].payload
    IN /\ t <= p.expires_at
       /\ p.attempts < MAX_ATTEMPTS
       /\ local[r].right
       /\ AnswerOk(p, t)
       /\ UNCHANGED code

Valid(r, t) ==
    LET p == local[r].payload
    IN /\ t <= p.expires_at
       /\ p.attempts < MAX_ATTEMPTS
       /\ local[r].right
       /\ AnswerOk(p, t)
       /\ DelCode

DecideCode(r) ==
    /\ pc[r] = "decide"
    /\ \E t \in local[r].at .. now :
         Expired(r, t) \/ TooManyAttempts(r, t) \/ Invalid(r, t) \/ Valid(r, t)
    /\ Respond(r)
    /\ UNCHANGED <<now, rate, increments, made, contested>>

-----------------------------------------------------------------------------
(* A handler dies between two commands: its process stops, or Redis fails    *)
(* and the exception becomes a 500.  What it has written so far stays.       *)

Abandon(r) ==
    /\ pc[r] # "idle"
    /\ Respond(r)
    /\ UNCHANGED <<now, rate, code, history>>

SendOtp(r) == CheckRateLimit(r) \/ CountSend(r) \/ StoreCode(r)
VerifyOtp(r) == ReadCode(r) \/ DecideCode(r)

Next ==
    \/ Tick
    \/ \E r \in Sender : SendOtp(r)
    \/ \E r \in Verifier : VerifyOtp(r)
    \/ \E r \in Req : Abandon(r)

Spec == Init /\ [][Next]_vars

-----------------------------------------------------------------------------
(* What holds however the handlers interleave *)

\* No "ok" is dated later than the code's lifetime after the code was made:
\* neither the full TTL a wrong answer gives the key again (line 171) nor a
\* payload that an "invalid" writes back over a consumed or replaced code can
\* keep a code acceptable past its own expires_at.
AcceptedInTime ==
    \A i \in 1 .. Len(made) :
        ok[i] > 0 => lastOk[i] <= made[i] + OTP_EXPIRE_SECONDS

\* Redis never drops a stored code before the deadline written inside it, so
\* a user who answers in time is not told "expired" because a TTL was short.
KeyOutlivesCode ==
    code.exp > 0 => code.payload.expires_at <= code.exp

\* The sends whose INCR lies in the window that ends now.
RecentSends ==
    {i \in 1 .. Len(increments) :
        increments[i] + OTP_RATE_WINDOW_SECONDS > now}

\* In any window no more codes are counted than the limit and the handlers
\* that can slip between the check and the INCR (lines 77-107): the TOCTOU of
\* the limit is worth at most one send per other handler in flight, however
\* often it is repeated and although the count restarts when its key expires.
WindowBudget ==
    Sender # {} =>
        Cardinality(RecentSends) < OTP_RATE_LIMIT + Cardinality(Sender)

-----------------------------------------------------------------------------
(* What holds of a code that no two verifies held at the same time, whatever *)
(* overlapping sends and verifies of other codes do to its key               *)

\* A code is accepted once: the DEL of lines 174-175 consumes it, and the
\* only way back into Redis is a payload some other verify still holds.
AcceptedOnce == \A i \in Issue \ contested : ok[i] <= 1

\* A code is compared with at most MAX_ATTEMPTS wrong answers before the
\* lock-out of line 165: no attempt is lost when a verify writes its payload
\* back over the key.
LockedOut == \A i \in Issue \ contested : wrong[i] <= MAX_ATTEMPTS

\* Once accepted a code is never looked at again, not even to be called wrong.
ConsumedStaysConsumed ==
    [][\A i \in Issue \ contested : ok[i] > 0 => wrong'[i] = wrong[i]]_vars

=============================================================================
