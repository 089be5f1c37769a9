----------------------------- MODULE OtpProofs -----------------------------
(***************************************************************************)
(* Proofs about Otp for every set of handlers and every setting.           *)
(***************************************************************************)
EXTENDS Otp, FiniteSetTheorems, TLAPS

LocalCopy == [at: Nat, payload: Payload, right: BOOLEAN]

\* The empty payload and the local state of a handler that waits for nothing
\* have their types.
LEMMA NoPayloadType == NoPayload \in Payload /\ Idle \in LocalCopy
  BY SettingsAssumption, BoundsAssumption
     DEF NoPayload, Payload, Idle, LocalCopy

\* A code just stored has the type of a payload (lines 114-118).
LEMMA NewPayloadType ==
  ASSUME NEW n \in Nat, n < MaxSends, NEW d \in Nat
  PROVE  [issue |-> n + 1, expires_at |-> d, attempts |-> 0] \in Payload
  BY SettingsAssumption, BoundsAssumption DEF Payload

\* An attempt counted below the lock-out keeps the type (lines 165-171).
LEMMA AttemptType ==
  ASSUME NEW p \in Payload, p.attempts < MAX_ATTEMPTS
  PROVE  [p EXCEPT !.attempts = @ + 1] \in Payload
  BY SettingsAssumption DEF Payload

-----------------------------------------------------------------------------

\* Counting one more answer about a code keeps a counter per code.
LEMMA CounterType ==
  ASSUME NEW D, NEW f \in [D -> Nat], NEW i
  PROVE  [f EXCEPT ![i] = @ + 1] \in [D -> Nat]
<1> DEFINE g == [f EXCEPT ![i] = @ + 1]
<1>1. ASSUME NEW d \in D
      PROVE  g[d] \in Nat
  <2>1. f[d] \in Nat /\ f[d] + 1 \in Nat
    OBVIOUS
  <2>2. CASE i = d
    BY <2>1, <2>2
  <2>3. CASE i # d
    BY <2>1, <2>3
  <2> QED BY <2>2, <2>3
<1>2. g = [d \in D |-> g[d]]
  OBVIOUS
<1> QED BY <1>1, <1>2

\* Type correctness of the OTP service: every Redis value and every local
\* copy keeps its shape, in particular a stored attempt count never passes
\* MAX_ATTEMPTS (lines 165-171).
THEOREM OtpTypeOK == Spec => []TypeOK
<1> USE DEF LocalCopy
<1>1. Init => TypeOK
  BY NoPayloadType, BoundsAssumption DEF Init, TypeOK
<1>2. TypeOK /\ [Next]_vars => TypeOK'
  <2> SUFFICES ASSUME TypeOK, [Next]_vars
               PROVE  TypeOK'
    OBVIOUS
  <2> USE DEF TypeOK, history
  <2>1. CASE Tick
    BY <2>1, BoundsAssumption DEF Tick
  <2>2. ASSUME NEW r \in Req, CheckRateLimit(r)
        PROVE  TypeOK'
    BY <2>2 DEF CheckRateLimit, Goto
  <2>3. ASSUME NEW r \in Req, CountSend(r)
        PROVE  TypeOK'
    <3>1. SendCount \in Nat
      BY DEF SendCount
    <3>2. rate' \in [count: Nat, exp: Nat]
      BY <2>3, <3>1, SettingsAssumption, BoundsAssumption DEF CountSend
    <3>3. now \in Nat /\ local[r] \in LocalCopy
      BY BoundsAssumption
    <3>4. increments' \in Seq(Nat)
      BY <2>3, <3>3 DEF CountSend
    <3>5. local' = [local EXCEPT ![r] = [local[r] EXCEPT !.at = now]]
      BY <2>3 DEF CountSend
    <3>6. local' \in [Req -> LocalCopy]
      BY <3>3, <3>5
    <3> QED BY <2>3, <3>2, <3>4, <3>6 DEF CountSend, Goto
  <2>4. ASSUME NEW r \in Req, StoreCode(r)
        PROVE  TypeOK'
    <3>1. PICK t \in local[r].at .. now :
             /\ SetCode([issue |-> Len(made) + 1,
                         expires_at |-> t + OTP_EXPIRE_SECONDS,
                         attempts |-> 0])
             /\ made' = Append(made, t)
      BY <2>4 DEF StoreCode
    <3>2. t \in Nat /\ t + OTP_EXPIRE_SECONDS \in Nat
      BY SettingsAssumption, BoundsAssumption
    <3>3. [issue |-> Len(made) + 1, expires_at |-> t + OTP_EXPIRE_SECONDS,
           attempts |-> 0] \in Payload
      BY <2>4, <3>2, NewPayloadType DEF StoreCode
    <3>4. code' \in [payload: Payload, exp: Nat]
      BY <3>1, <3>3, SettingsAssumption, BoundsAssumption DEF SetCode
    <3>5. made' \in Seq(Nat) /\ Len(made') <= MaxSends
      BY <2>4, <3>1, <3>2, BoundsAssumption DEF StoreCode
    <3> QED BY <2>4, <3>4, <3>5, NoPayloadType DEF StoreCode, Respond, Goto
  <2>5. ASSUME NEW r \in Req, ReadCode(r)
        PROVE  TypeOK'
    <3>1. local' \in [Req -> LocalCopy]
      BY <2>5, BoundsAssumption DEF ReadCode
    <3>2. contested' \subseteq 0 .. MaxSends
      BY <2>5 DEF ReadCode, Payload
    <3> QED BY <2>5, <3>1, <3>2 DEF ReadCode, Goto
  <2>6. ASSUME NEW r \in Req, DecideCode(r)
        PROVE  TypeOK'
    <3>1. PICK t \in local[r].at .. now :
             Expired(r, t) \/ TooManyAttempts(r, t) \/ Invalid(r, t) \/ Valid(r, t)
      BY <2>6 DEF DecideCode
    <3>2. local[r].payload \in Payload /\ t \in Nat
      BY BoundsAssumption
    <3>3. code' \in [payload: Payload, exp: Nat]
      BY <3>1, <3>2, AttemptType, NoPayloadType, SettingsAssumption, BoundsAssumption
         DEF Expired, TooManyAttempts, Invalid, Valid, AnswerWrong, AnswerOk, SetCode, DelCode
    <3>4. wrong' \in [Issue -> Nat]
      <4>1. \/ wrong' = wrong
            \/ wrong' = [wrong EXCEPT ![local[r].payload.issue] = @ + 1]
        BY <3>1 DEF Expired, TooManyAttempts, Invalid, Valid, AnswerWrong, AnswerOk
      <4> QED BY <4>1, CounterType
    <3>5. ok' \in [Issue -> Nat]
      <4>1. \/ ok' = ok
            \/ ok' = [ok EXCEPT ![local[r].payload.issue] = @ + 1]
        BY <3>1 DEF Expired, TooManyAttempts, Invalid, Valid, AnswerWrong, AnswerOk
      <4> QED BY <4>1, CounterType
    <3>6. lastOk' \in [Issue -> Nat]
      BY <3>1, <3>2 DEF Expired, TooManyAttempts, Invalid, Valid, AnswerWrong, AnswerOk
    <3> QED BY <2>6, <3>3, <3>4, <3>5, <3>6, NoPayloadType DEF DecideCode, Respond, Goto
  <2>7. ASSUME NEW r \in Req, Abandon(r)
        PROVE  TypeOK'
    BY <2>7, NoPayloadType DEF Abandon, Respond, Goto
  <2>8. CASE UNCHANGED vars
    BY <2>8 DEF vars
  <2> QED
    BY <2>1, <2>2, <2>3, <2>4, <2>5, <2>6, <2>7, <2>8
       DEF Next, SendOtp, VerifyOtp, Req
<1> QED BY <1>1, <1>2, PTL DEF Spec

-----------------------------------------------------------------------------
(* A code cannot outlive the deadline written when it was made.              *)

\* A payload that really is code number p.issue, with that code's deadline.
Genuine(p) ==
    /\ p.issue \in 1 .. Len(made)
    /\ p.expires_at = made[p.issue] + OTP_EXPIRE_SECONDS

\* Every copy of a payload, in Redis or in a handler, is genuine; so it does
\* not matter which copy a verify decides about, nor which it writes back.
DatedInv ==
    /\ \A i \in 1 .. Len(made) : made[i] <= now
    /\ code.exp > 0 => Genuine(code.payload)
    /\ \A r \in Req : pc[r] = "decide" => Genuine(local[r].payload)
    /\ \A i \in Issue : i > Len(made) => ok[i] = 0
    /\ AcceptedInTime
    /\ KeyOutlivesCode

\* Storing another code leaves the genuine payloads genuine.
LEMMA GenuineStays ==
  ASSUME made \in Seq(Nat), NEW t \in Nat, made' = Append(made, t),
         NEW p, Genuine(p)
  PROVE  /\ p.issue \in 1 .. Len(made')
         /\ p.expires_at = made'[p.issue] + OTP_EXPIRE_SECONDS
  BY DEF Genuine

\* The deadlines survive every step of every handler.
LEMMA DatedStep == TypeOK /\ DatedInv /\ [Next]_vars => DatedInv'
<1> SUFFICES ASSUME TypeOK, DatedInv, [Next]_vars
             PROVE  DatedInv'
  OBVIOUS
<1> USE DEF history
<1>0. /\ now \in Nat
      /\ made \in Seq(Nat)
      /\ OTP_EXPIRE_SECONDS \in Nat \ {0}
      /\ code.exp \in Nat
  BY SettingsAssumption, BoundsAssumption DEF TypeOK
<1>1. CASE Tick
  BY <1>0, <1>1 DEF Tick, DatedInv, Genuine, AcceptedInTime, KeyOutlivesCode
<1>2. ASSUME NEW r \in Req, CheckRateLimit(r)
      PROVE  DatedInv'
  BY <1>2 DEF CheckRateLimit, Goto, TypeOK,
              DatedInv, Genuine, AcceptedInTime, KeyOutlivesCode
<1>3. ASSUME NEW r \in Req, CountSend(r)
      PROVE  DatedInv'
  BY <1>3 DEF CountSend, Goto, TypeOK,
              DatedInv, Genuine, AcceptedInTime, KeyOutlivesCode
<1>4. ASSUME NEW r \in Req, StoreCode(r)
      PROVE  DatedInv'
  <2>1. PICK t \in local[r].at .. now :
           /\ SetCode([issue |-> Len(made) + 1,
                       expires_at |-> t + OTP_EXPIRE_SECONDS,
                       attempts |-> 0])
           /\ made' = Append(made, t)
    BY <1>4 DEF StoreCode
  <2>2. /\ t \in Nat /\ t <= now
        /\ Len(made') = Len(made) + 1
        /\ made'[Len(made) + 1] = t
        /\ \A i \in 1 .. Len(made) : made'[i] = made[i]
        /\ Len(made) \in Nat
    BY <1>0, <2>1 DEF TypeOK
  <2>3. \A i \in 1 .. Len(made') : i \in 1 .. Len(made) \/ i = Len(made) + 1
    BY <2>2
  <2>4. Len(made) + 1 \in Issue
    BY <1>4, <2>2, BoundsAssumption DEF StoreCode, Issue
  <2>5. now' = now /\ ok' = ok /\ lastOk' = lastOk
    BY <1>4 DEF StoreCode
  <2>6. (\A i \in 1 .. Len(made) : made[i] <= now)'
    BY <2>2, <2>3, <2>5 DEF DatedInv
  <2>7. (Genuine(code.payload) /\ KeyOutlivesCode)'
    BY <1>0, <2>1, <2>2 DEF SetCode, Genuine, KeyOutlivesCode
  <2>8. (\A q \in Req : pc[q] = "decide" => Genuine(local[q].payload))'
    <3> SUFFICES ASSUME NEW q \in Req, pc'[q] = "decide"
                 PROVE  Genuine(local[q].payload)'
      OBVIOUS
    <3>1. pc[q] = "decide" /\ local'[q] = local[q]
      BY <1>4 DEF StoreCode, Respond, Goto, TypeOK
    <3> QED BY <1>0, <2>1, <2>2, <3>1, GenuineStays DEF DatedInv, Genuine
  <2>9. (\A i \in Issue : i > Len(made) => ok[i] = 0)'
    BY <2>2, <2>5 DEF DatedInv, Issue
  <2>10. AcceptedInTime'
    <3>1. ok[Len(made) + 1] = 0
      BY <2>2, <2>4 DEF DatedInv
    <3> QED BY <2>2, <2>3, <2>5, <3>1 DEF DatedInv, AcceptedInTime
  <2> QED BY <2>6, <2>7, <2>8, <2>9, <2>10 DEF DatedInv
<1>5. ASSUME NEW r \in Req, ReadCode(r)
      PROVE  DatedInv'
  <2>1. Genuine(code.payload)
    BY <1>0, <1>5 DEF ReadCode, Present, DatedInv
  <2>2. \A q \in Req : pc'[q] = "decide" =>
           (pc[q] = "decide" /\ local'[q] = local[q])
             \/ local'[q].payload = code.payload
    BY <1>5 DEF ReadCode, Goto, TypeOK
  <2> QED
    BY <1>5, <2>1, <2>2
       DEF ReadCode, DatedInv, Genuine, AcceptedInTime, KeyOutlivesCode
<1>6. ASSUME NEW r \in Req, DecideCode(r)
      PROVE  DatedInv'
  <2>1. PICK t \in local[r].at .. now :
           Expired(r, t) \/ TooManyAttempts(r, t) \/ Invalid(r, t) \/ Valid(r, t)
    BY <1>6 DEF DecideCode
  <2> DEFINE p == local[r].payload
  <2>2. /\ Genuine(p)
        /\ UNCHANGED <<now, made>>
        /\ made[p.issue] \in Nat /\ made[p.issue] <= now
        /\ t \in Nat
    BY <1>0, <1>6 DEF DecideCode, DatedInv, Genuine, TypeOK
  <2>3. (\A q \in Req : pc[q] = "decide" => Genuine(local[q].payload))'
    BY <1>6, <2>2 DEF DecideCode, Respond, Goto, TypeOK, DatedInv, Genuine
  <2>4. (code.exp > 0 => Genuine(code.payload) /\ KeyOutlivesCode)'
    <3>1. CASE Invalid(r, t)
      <4>1. code' = [payload |-> [p EXCEPT !.attempts = @ + 1],
                     exp |-> now + OTP_EXPIRE_SECONDS]
        BY <3>1 DEF Invalid, AnswerWrong, SetCode
      <4>2. /\ code'.payload.issue = p.issue
            /\ code'.payload.expires_at = p.expires_at
            /\ code'.exp = now + OTP_EXPIRE_SECONDS
        BY <4>1 DEF TypeOK, Payload
      <4> QED BY <1>0, <2>2, <4>2 DEF Genuine, KeyOutlivesCode
    <3>2. CASE code' = [payload |-> NoPayload, exp |-> 0]
      BY <3>2
    <3> QED
      BY <2>1, <3>1, <3>2 DEF Expired, TooManyAttempts, Valid, DelCode
  <2>5. KeyOutlivesCode'
    BY <2>4 DEF KeyOutlivesCode
  <2>6. p.issue \in Issue
    <3>1. p.issue \in 1 .. Len(made)
      BY <2>2 DEF Genuine
    <3>2. Len(made) \in Nat /\ Len(made) <= MaxSends
      BY <1>0 DEF TypeOK
    <3> QED BY <3>1, <3>2, BoundsAssumption DEF Issue
  <2>7. (\A i \in Issue : i > Len(made) => ok[i] = 0)' /\ AcceptedInTime'
    <3>1. CASE Valid(r, t)
      <4>1. /\ ok' = [ok EXCEPT ![p.issue] = @ + 1]
            /\ lastOk' = [lastOk EXCEPT ![p.issue] = t]
            /\ t <= p.expires_at
        BY <3>1 DEF Valid, AnswerOk
      <4>2. \A i \in Issue : i # p.issue => ok'[i] = ok[i] /\ lastOk'[i] = lastOk[i]
        BY <4>1 DEF TypeOK
      <4>3. lastOk'[p.issue] = t
        BY <2>6, <4>1 DEF TypeOK
      <4>4. \A i \in 1 .. Len(made) : i \in Issue
        BY <1>0, BoundsAssumption DEF TypeOK, Issue
      <4> QED
        BY <2>2, <4>1, <4>2, <4>3, <4>4 DEF DatedInv, AcceptedInTime, Genuine, Issue
    <3>2. CASE UNCHANGED <<ok, lastOk>>
      BY <2>2, <3>2 DEF DatedInv, AcceptedInTime
    <3> QED BY <2>1, <3>1, <3>2 DEF Expired, TooManyAttempts, Invalid, AnswerWrong
  <2> QED BY <2>2, <2>3, <2>4, <2>5, <2>7 DEF DatedInv
<1>7. ASSUME NEW r \in Req, Abandon(r)
      PROVE  DatedInv'
  BY <1>7 DEF Abandon, Respond, Goto, TypeOK,
              DatedInv, Genuine, AcceptedInTime, KeyOutlivesCode
<1>8. CASE UNCHANGED vars
  BY <1>8 DEF vars, DatedInv, Genuine, AcceptedInTime, KeyOutlivesCode
<1> QED
  BY <1>1, <1>2, <1>3, <1>4, <1>5, <1>6, <1>7, <1>8
     DEF Next, SendOtp, VerifyOtp, Req

\* DatedInv holds throughout.
LEMMA DatedInvariant == Spec => []DatedInv
<1>1. Init => DatedInv
  BY DEF Init, DatedInv, AcceptedInTime, KeyOutlivesCode
<1> QED BY <1>1, DatedStep, OtpTypeOK, PTL DEF Spec

\* However many sends and verifies overlap, no answer is accepted after the
\* lifetime of the code it is about (verify_otp, lines 161-176).
THEOREM OtpAcceptedInTime == Spec => []AcceptedInTime
<1>1. DatedInv => AcceptedInTime
  BY DEF DatedInv
<1> QED BY <1>1, DatedInvariant, PTL

\* Redis keeps a code at least until the deadline its payload states, also
\* when a wrong answer has rewritten it (lines 112-125 and 171).
THEOREM OtpKeyOutlivesCode == Spec => []KeyOutlivesCode
<1>1. DatedInv => KeyOutlivesCode
  BY DEF DatedInv
<1> QED BY <1>1, DatedInvariant, PTL

-----------------------------------------------------------------------------
(* The rate limit is overshot by no more than the handlers in flight.        *)

\* The handlers between the check of the limit and the INCR.
Checked == {r \in Sender : pc[r] = "incr"}

\* The count and the handlers about to raise it stay within the budget; every
\* INCR but the last rate.count ones has left the window; and when the key is
\* gone, all have.
BudgetInv ==
    /\ \A r \in Req : pc[r] = "incr" => r \in Sender
    /\ Sender # {} =>
         SendCount + Cardinality(Checked) < OTP_RATE_LIMIT + Cardinality(Sender)
    /\ \A i \in 1 .. Len(increments) :
         /\ increments[i] <= now
         /\ increments[i] + OTP_RATE_WINDOW_SECONDS <= rate.exp
         /\ increments[i] + OTP_RATE_WINDOW_SECONDS > now
              => i + SendCount > Len(increments)

\* A check passes below the limit, so however many handlers have passed it
\* together, the budget holds (lines 79-83).
LEMMA CheckedBudget ==
  ASSUME Sender # {}, SendCount \in Nat, SendCount < OTP_RATE_LIMIT
  PROVE  SendCount + Cardinality(Checked) < OTP_RATE_LIMIT + Cardinality(Sender)
<1>1. Checked \subseteq Sender /\ IsFiniteSet(Sender)
  BY HandlersAssumption DEF Checked
<1>2. /\ Cardinality(Checked) \in Nat
      /\ Cardinality(Sender) \in Nat
      /\ Cardinality(Checked) <= Cardinality(Sender)
  BY <1>1, FS_Subset, FS_CardinalityType
<1> QED BY <1>2, SettingsAssumption

\* The window holds at most as many sends as the count of the rate key.
LEMMA RecentCounted ==
  ASSUME TypeOK, BudgetInv
  PROVE  /\ Cardinality(RecentSends) \in Nat
         /\ Cardinality(RecentSends) <= SendCount
<1> DEFINE n == Len(increments)
<1>1. n \in Nat /\ SendCount \in Nat /\ increments \in Seq(Nat)
  BY DEF TypeOK, SendCount
<1>2. CASE SendCount <= n
  <2>1. RecentSends \subseteq (n - SendCount + 1) .. n
    BY <1>1, <1>2 DEF RecentSends, BudgetInv
  <2>2. /\ IsFiniteSet((n - SendCount + 1) .. n)
        /\ Cardinality((n - SendCount + 1) .. n) = SendCount
    BY <1>1, <1>2, FS_Interval
  <2>3. IsFiniteSet(RecentSends)
    BY <2>1, <2>2, FS_Subset
  <2>4. Cardinality(RecentSends) \in Nat
    BY <2>3, FS_CardinalityType
  <2>5. Cardinality(RecentSends) <= Cardinality((n - SendCount + 1) .. n)
    BY <2>1, <2>2, FS_Subset
  <2> QED BY <2>2, <2>4, <2>5
<1>3. CASE SendCount > n
  <2>1. RecentSends \subseteq 1 .. n
    BY DEF RecentSends
  <2>2. IsFiniteSet(1 .. n) /\ Cardinality(1 .. n) = n
    <3>1. n \in Nat
      BY <1>1
    <3> HIDE DEF n
    <3>2. /\ IsFiniteSet(1 .. n)
          /\ Cardinality(1 .. n) = IF 1 > n THEN 0 ELSE n - 1 + 1
      BY <3>1, FS_Interval
    <3> QED BY <3>1, <3>2
  <2>3. IsFiniteSet(RecentSends)
    BY <2>1, <2>2, FS_Subset
  <2>4. Cardinality(RecentSends) \in Nat
    BY <2>3, FS_CardinalityType
  <2>5. Cardinality(RecentSends) <= Cardinality(1 .. n)
    BY <2>1, <2>2, FS_Subset
  <2> QED BY <1>1, <1>3, <2>2, <2>4, <2>5
<1> QED BY <1>1, <1>2, <1>3

\* The budget survives every step of every handler.
LEMMA BudgetStep == TypeOK /\ BudgetInv /\ [Next]_vars => BudgetInv'
<1> SUFFICES ASSUME TypeOK, BudgetInv, [Next]_vars
             PROVE  BudgetInv'
  OBVIOUS
<1> USE DEF history
<1>0. /\ now \in Nat
      /\ OTP_RATE_WINDOW_SECONDS \in Nat \ {0}
      /\ OTP_RATE_LIMIT \in Nat \ {0}
      /\ rate.exp \in Nat /\ rate.count \in Nat
      /\ SendCount \in Nat
      /\ increments \in Seq(Nat)
      /\ Cardinality(Sender) \in Nat
      /\ IsFiniteSet(Checked)
      /\ Cardinality(Checked) \in Nat
  <2>1. IsFiniteSet(Checked)
    BY HandlersAssumption, FS_Subset DEF Checked
  <2> QED
    BY <2>1, SettingsAssumption, BoundsAssumption, HandlersAssumption,
       FS_CardinalityType DEF TypeOK, SendCount
<1>1. CASE Tick
  <2>1. SendCount' \in Nat /\ SendCount' <= SendCount
    BY <1>0, <1>1 DEF Tick, SendCount, Present
  <2>2. \/ SendCount' = SendCount
        \/ rate.exp <= now'
    BY <1>0, <1>1 DEF Tick, SendCount, Present
  <2>3. Checked' = Checked
    BY <1>1 DEF Tick, Checked
  <2>4. (Sender # {} =>
          SendCount + Cardinality(Checked) < OTP_RATE_LIMIT + Cardinality(Sender))'
    BY <1>0, <2>1, <2>3 DEF BudgetInv
  <2>5. (\A i \in 1 .. Len(increments) :
           /\ increments[i] <= now
           /\ increments[i] + OTP_RATE_WINDOW_SECONDS <= rate.exp
           /\ increments[i] + OTP_RATE_WINDOW_SECONDS > now
                => i + SendCount > Len(increments))'
    <3> SUFFICES ASSUME NEW i \in 1 .. Len(increments)
                 PROVE  /\ increments[i] <= now + 1
                        /\ increments[i] + OTP_RATE_WINDOW_SECONDS <= rate.exp
                        /\ increments[i] + OTP_RATE_WINDOW_SECONDS > now + 1
                             => i + SendCount' > Len(increments)
      BY <1>1 DEF Tick
    <3>1. increments[i] \in Nat
      BY <1>0
    <3> QED BY <1>0, <1>1, <2>2, <3>1 DEF Tick, BudgetInv
  <2>6. (\A r \in Req : pc[r] = "incr" => r \in Sender)'
    BY <1>1 DEF Tick, BudgetInv
  <2> QED BY <2>4, <2>5, <2>6 DEF BudgetInv
<1>2. ASSUME NEW r \in Sender, CheckRateLimit(r)
      PROVE  BudgetInv'
  <2>1. SendCount' = SendCount /\ SendCount < OTP_RATE_LIMIT
    BY <1>2 DEF CheckRateLimit, SendCount, Present
  <2>2. Checked' \subseteq Sender
    BY DEF Checked
  <2>3. /\ Cardinality(Checked') \in Nat
        /\ Cardinality(Checked') <= Cardinality(Sender)
    BY <2>2, HandlersAssumption, FS_Subset, FS_CardinalityType
  <2> QED
    BY <1>0, <1>2, <2>1, <2>3 DEF CheckRateLimit, Goto, BudgetInv, TypeOK
<1>3. ASSUME NEW r \in Sender, CountSend(r)
      PROVE  BudgetInv'
  <2>1. SendCount' = SendCount + 1 /\ rate'.exp = now + OTP_RATE_WINDOW_SECONDS
    BY <1>0, <1>3 DEF CountSend, SendCount, Present
  <2>2. r \in Checked /\ Checked' = Checked \ {r}
    BY <1>3 DEF CountSend, Goto, Checked, TypeOK, Req
  <2>3. Cardinality(Checked') = Cardinality(Checked) - 1
    BY <1>0, <2>2, FS_RemoveElement
  <2>4. /\ Len(increments') = Len(increments) + 1
        /\ increments'[Len(increments) + 1] = now
        /\ \A i \in 1 .. Len(increments) :
             increments'[i] = increments[i] /\ increments[i] \in Nat
        /\ now' = now
    BY <1>0, <1>3 DEF CountSend
  <2>5. \A i \in 1 .. Len(increments) :
           increments[i] + OTP_RATE_WINDOW_SECONDS > now => Present(rate)
    BY <1>0, <2>4 DEF BudgetInv, Present
  <2>6. \A i \in 1 .. Len(increments') :
           /\ increments'[i] <= now'
           /\ increments'[i] + OTP_RATE_WINDOW_SECONDS <= rate'.exp
           /\ increments'[i] + OTP_RATE_WINDOW_SECONDS > now'
                => i + SendCount' > Len(increments')
    <3> SUFFICES ASSUME NEW i \in 1 .. Len(increments')
                 PROVE  /\ increments'[i] <= now'
                        /\ increments'[i] + OTP_RATE_WINDOW_SECONDS <= rate'.exp
                        /\ increments'[i] + OTP_RATE_WINDOW_SECONDS > now'
                             => i + SendCount' > Len(increments')
      OBVIOUS
    <3>1. CASE i = Len(increments) + 1
      BY <1>0, <2>1, <2>4, <3>1
    <3>2. CASE i \in 1 .. Len(increments)
      <4>1. increments[i] <= now
        BY <3>2 DEF BudgetInv
      <4>2. increments[i] + OTP_RATE_WINDOW_SECONDS > now
              => i + SendCount > Len(increments)
        BY <3>2 DEF BudgetInv
      <4> QED BY <1>0, <2>1, <2>4, <3>2, <4>1, <4>2
    <3> QED BY <1>0, <2>4, <3>1, <3>2
  <2>7. (\A q \in Req : pc[q] = "incr" => q \in Sender)'
    BY <1>3 DEF CountSend, Goto, BudgetInv, TypeOK
  <2>8. SendCount' + Cardinality(Checked') < OTP_RATE_LIMIT + Cardinality(Sender)
    BY <1>0, <2>1, <2>3 DEF BudgetInv
  <2> QED BY <2>6, <2>7, <2>8 DEF BudgetInv
<1>4. ASSUME UNCHANGED <<now, rate, increments>>,
             \A q \in Req : pc'[q] = "incr" => pc[q] = "incr"
      PROVE  BudgetInv'
  <2>1. SendCount' = SendCount
    BY <1>4 DEF SendCount, Present
  <2>2. Checked' \subseteq Checked
    BY <1>4 DEF Checked, Req
  <2>3. (Sender # {} =>
          SendCount + Cardinality(Checked) < OTP_RATE_LIMIT + Cardinality(Sender))'
    <3> SUFFICES ASSUME Sender # {}
                 PROVE  SendCount + Cardinality(Checked')
                          < OTP_RATE_LIMIT + Cardinality(Sender)
      BY <2>1
    <3>1. /\ Cardinality(Checked') \in Nat
          /\ Cardinality(Checked') <= Cardinality(Checked)
      BY <1>0, <2>2, FS_Subset, FS_CardinalityType
    <3> QED BY <1>0, <3>1 DEF BudgetInv
  <2> QED BY <1>4, <2>1, <2>3 DEF BudgetInv
<1>5. ASSUME NEW r \in Req,
             StoreCode(r) \/ ReadCode(r) \/ DecideCode(r) \/ Abandon(r)
      PROVE  BudgetInv'
  <2>1. UNCHANGED <<now, rate, increments>>
    BY <1>5 DEF StoreCode, ReadCode, DecideCode, Abandon
  <2>2. \A q \in Req : pc'[q] = "incr" => pc[q] = "incr"
    BY <1>5 DEF StoreCode, ReadCode, DecideCode, Abandon, Respond, Goto, TypeOK
  <2> QED BY <2>1, <2>2, <1>4
<1>6. CASE UNCHANGED vars
  BY <1>6 DEF vars, BudgetInv, SendCount, Present, Checked
<1> QED
  BY <1>1, <1>2, <1>3, <1>5, <1>6 DEF Next, SendOtp, VerifyOtp, Req

\* In every window of OTP_RATE_WINDOW_SECONDS fewer codes are counted than the
\* limit plus the number of send handlers (lines 77-107): the unguarded check
\* costs at most one send per other handler.
THEOREM OtpWindowBudget == Spec => []WindowBudget
<1>1. Init => BudgetInv
  <2> SUFFICES ASSUME Init
               PROVE  BudgetInv
    OBVIOUS
  <2>1. SendCount = 0 /\ increments = <<>> /\ Checked = {}
    BY DEF Init, SendCount, Present, Checked, Req
  <2>2. Sender # {} => Cardinality(Sender) \in Nat \ {0}
    BY HandlersAssumption, FS_CardinalityType, FS_EmptySet
  <2> QED
    BY <2>1, <2>2, FS_EmptySet, SettingsAssumption DEF Init, BudgetInv
<1>2. TypeOK /\ BudgetInv => WindowBudget
  <2> SUFFICES ASSUME TypeOK, BudgetInv, Sender # {}
               PROVE  Cardinality(RecentSends) < OTP_RATE_LIMIT + Cardinality(Sender)
    BY DEF WindowBudget
  <2>1. /\ Cardinality(Sender) \in Nat
        /\ Cardinality(Checked) \in Nat
        /\ SendCount \in Nat
    BY HandlersAssumption, FS_CardinalityType, FS_Subset
       DEF Checked, TypeOK, SendCount
  <2> QED
    BY <2>1, RecentCounted, SettingsAssumption DEF BudgetInv
<1> QED BY <1>1, <1>2, BudgetStep, OtpTypeOK, PTL DEF Spec

-----------------------------------------------------------------------------
(* A code that no two verifies hold together is accepted once and locked out.*)

\* A payload that tells the truth about its code: the code has not been
\* accepted, and its attempts are the wrong answers given so far.
Accurate(p) ==
    /\ p.issue \in 1 .. Len(made)
    /\ ok[p.issue] = 0
    /\ wrong[p.issue] = p.attempts

\* Uncontested codes have one holder at most, and every copy of them, in
\* Redis or in a handler, is accurate.
SerialInv ==
    /\ \A q, r \in Req :
         /\ q # r /\ pc[q] = "decide" /\ pc[r] = "decide"
         /\ local[q].payload.issue = local[r].payload.issue
         => local[r].payload.issue \in contested
    /\ \A r \in Req :
         pc[r] = "decide" /\ local[r].payload.issue \notin contested
           => Accurate(local[r].payload)
    /\ code.exp > 0 /\ code.payload.issue \notin contested => Accurate(code.payload)
    /\ \A i \in Issue : i > Len(made) => ok[i] = 0 /\ wrong[i] = 0
    /\ AcceptedOnce
    /\ LockedOut

\* Steps that touch neither code, nor counters, nor a copy keep the accuracy.
LEMMA SerialFrame ==
  ASSUME SerialInv, UNCHANGED <<code, made, wrong, ok, contested>>,
         \A q \in Req : pc'[q] = "decide" =>
            pc[q] = "decide" /\ local'[q] = local[q]
  PROVE  SerialInv'
  BY DEF SerialInv, Accurate, AcceptedOnce, LockedOut

\* Every step of every handler keeps uncontested codes accurate.
LEMMA SerialStep == TypeOK /\ DatedInv /\ SerialInv /\ [Next]_vars => SerialInv'
<1> SUFFICES ASSUME TypeOK, DatedInv, SerialInv, [Next]_vars
             PROVE  SerialInv'
  OBVIOUS
<1> USE DEF history
<1>0. /\ now \in Nat
      /\ made \in Seq(Nat) /\ Len(made) \in Nat
      /\ OTP_EXPIRE_SECONDS \in Nat \ {0}
      /\ code.exp \in Nat
      /\ \A i \in 1 .. Len(made) : i \in Issue
      /\ wrong \in [Issue -> Nat] /\ ok \in [Issue -> Nat]
  BY SettingsAssumption, BoundsAssumption DEF TypeOK, Issue
<1>1. CASE Tick \/ UNCHANGED vars
  BY <1>1, SerialFrame DEF Tick, vars
<1>2. ASSUME NEW r \in Req, CheckRateLimit(r) \/ CountSend(r) \/ Abandon(r)
      PROVE  SerialInv'
  <2>1. \A q \in Req : pc'[q] = "decide" =>
            pc[q] = "decide" /\ local'[q] = local[q]
    BY <1>2 DEF CheckRateLimit, CountSend, Abandon, Respond, Goto, TypeOK
  <2> QED BY <1>2, <2>1, SerialFrame DEF CheckRateLimit, CountSend, Abandon
<1>3. ASSUME NEW r \in Req, StoreCode(r)
      PROVE  SerialInv'
  <2>1. PICK t \in local[r].at .. now :
           /\ SetCode([issue |-> Len(made) + 1,
                       expires_at |-> t + OTP_EXPIRE_SECONDS,
                       attempts |-> 0])
           /\ made' = Append(made, t)
    BY <1>3 DEF StoreCode
  <2>2. Len(made') = Len(made) + 1 /\ UNCHANGED <<ok, wrong, contested>>
    BY <1>0, <1>3, <2>1 DEF TypeOK, StoreCode
  <2>3. Len(made) + 1 \in Issue
    BY <1>0, <1>3, BoundsAssumption DEF StoreCode, Issue
  <2>4. Accurate(code.payload)'
    BY <1>0, <2>1, <2>2, <2>3 DEF SetCode, Accurate, SerialInv
  <2>5. \A q \in Req : pc'[q] = "decide" =>
            pc[q] = "decide" /\ local'[q] = local[q]
    BY <1>3 DEF StoreCode, Respond, Goto, TypeOK
  <2>6. ASSUME NEW q \in Req,
               pc'[q] = "decide", local'[q].payload.issue \notin contested'
        PROVE  Accurate(local[q].payload)'
    <3>1. local'[q] = local[q] /\ Accurate(local[q].payload)
      BY <2>2, <2>5, <2>6 DEF SerialInv
    <3>2. Len(made) \in Nat
      BY DEF TypeOK
    <3> QED BY <2>2, <3>1, <3>2 DEF Accurate
  <2>7. (\A p, q \in Req :
           /\ p # q /\ pc[p] = "decide" /\ pc[q] = "decide"
           /\ local[p].payload.issue = local[q].payload.issue
           => local[q].payload.issue \in contested)'
    BY <2>2, <2>5 DEF SerialInv
  <2> QED
    BY <1>0, <2>2, <2>4, <2>6, <2>7 DEF SerialInv, AcceptedOnce, LockedOut, Issue
<1>4. ASSUME NEW r \in Req, ReadCode(r)
      PROVE  SerialInv'
  <2> DEFINE i == code.payload.issue
  <2>1. i \notin contested => Accurate(code.payload)
    BY <1>0, <1>4 DEF ReadCode, Present, SerialInv
  <2>2. /\ pc[r] = "idle"
        /\ local'[r].payload = code.payload
        /\ \A q \in Req : q # r => pc'[q] = pc[q] /\ local'[q] = local[q]
        /\ UNCHANGED <<code, made, wrong, ok>>
    BY <1>4 DEF ReadCode, Goto, TypeOK
  <2>3. /\ contested \subseteq contested'
        /\ \A q \in Req : pc[q] = "decide" /\ local[q].payload.issue = i
                            => i \in contested'
    BY <1>4 DEF ReadCode, Holders
  <2>4. (\A p, q \in Req :
           /\ p # q /\ pc[p] = "decide" /\ pc[q] = "decide"
           /\ local[p].payload.issue = local[q].payload.issue
           => local[q].payload.issue \in contested)'
    BY <2>2, <2>3 DEF SerialInv
  <2>5. (\A q \in Req :
           pc[q] = "decide" /\ local[q].payload.issue \notin contested
             => Accurate(local[q].payload))'
    BY <2>1, <2>2, <2>3 DEF SerialInv, Accurate
  <2> QED
    BY <2>1, <2>2, <2>3, <2>4, <2>5 DEF SerialInv, Accurate, AcceptedOnce, LockedOut
<1>5. ASSUME NEW r \in Req, DecideCode(r)
      PROVE  SerialInv'
  <2>1. PICK t \in local[r].at .. now :
           Expired(r, t) \/ TooManyAttempts(r, t) \/ Invalid(r, t) \/ Valid(r, t)
    BY <1>5 DEF DecideCode
  <2> DEFINE p == local[r].payload
  <2>2. /\ p.issue \notin contested => Accurate(p) /\ p.issue \in Issue
        /\ made' = made /\ contested' = contested
        /\ p \in Payload
    BY <1>0, <1>5 DEF DecideCode, SerialInv, Accurate, TypeOK
  <2>3. \A q \in Req :
           pc'[q] = "decide" => q # r /\ pc[q] = "decide" /\ local'[q] = local[q]
    BY <1>5 DEF DecideCode, Respond, Goto, TypeOK
  <2>4. (\A x, q \in Req :
           /\ x # q /\ pc[x] = "decide" /\ pc[q] = "decide"
           /\ local[x].payload.issue = local[q].payload.issue
           => local[q].payload.issue \in contested)'
    BY <2>2, <2>3 DEF SerialInv
  <2>5. \A q \in Req :
           pc'[q] = "decide" /\ local[q].payload.issue \notin contested
             => local[q].payload.issue # p.issue
    BY <1>5, <2>3 DEF SerialInv, DecideCode
  <2>6. ASSUME \A i \in Issue : i # p.issue => wrong'[i] = wrong[i] /\ ok'[i] = ok[i]
        PROVE  (\A q \in Req :
                  pc[q] = "decide" /\ local[q].payload.issue \notin contested
                    => Accurate(local[q].payload))'
    <3> SUFFICES ASSUME NEW q \in Req, pc'[q] = "decide",
                        local'[q].payload.issue \notin contested'
                 PROVE  Accurate(local[q].payload)'
      OBVIOUS
    <3>1. local'[q] = local[q] /\ Accurate(local[q].payload)
      BY <2>2, <2>3 DEF SerialInv
    <3>2. local[q].payload.issue \in Issue /\ local[q].payload.issue # p.issue
      BY <1>0, <2>2, <2>3, <2>5, <3>1 DEF Accurate
    <3> QED BY <2>2, <2>6, <3>1, <3>2 DEF Accurate
  <2>7. CASE Invalid(r, t)
    <3>1. /\ code' = [payload |-> [p EXCEPT !.attempts = @ + 1],
                      exp |-> now + OTP_EXPIRE_SECONDS]
          /\ wrong' = [wrong EXCEPT ![p.issue] = @ + 1]
          /\ ok' = ok
          /\ p.attempts < MAX_ATTEMPTS
      BY <2>7 DEF Invalid, AnswerWrong, SetCode
    <3>2. /\ code'.payload.issue = p.issue
          /\ code'.payload.attempts = p.attempts + 1
      BY <2>2, <3>1 DEF Payload
    <3>3. \A i \in Issue : i # p.issue => wrong'[i] = wrong[i]
      BY <1>0, <3>1
    <3>4. p.issue \notin contested => wrong'[p.issue] = p.attempts + 1
      BY <1>0, <2>2, <3>1 DEF Accurate
    <3>5. (code.payload.issue \notin contested => Accurate(code.payload))'
      BY <2>2, <3>1, <3>2, <3>4 DEF Accurate
    <3>6. LockedOut'
      <4>1. p.attempts + 1 <= MAX_ATTEMPTS
        BY <2>2, <3>1, SettingsAssumption DEF Payload
      <4> QED BY <2>2, <3>3, <3>4, <4>1 DEF SerialInv, LockedOut
    <3>7. (\A i \in Issue : i > Len(made) => ok[i] = 0 /\ wrong[i] = 0)'
      <4>1. p.issue \in 1 .. Len(made)
        BY <1>5 DEF DecideCode, DatedInv, Genuine
      <4> QED BY <1>0, <2>2, <3>1, <3>3, <4>1 DEF SerialInv, Issue
    <3> QED
      BY <2>2, <2>4, <2>6, <3>1, <3>3, <3>5, <3>6, <3>7 DEF SerialInv, AcceptedOnce
  <2>8. CASE Valid(r, t)
    <3>1. /\ code'.exp = 0
          /\ ok' = [ok EXCEPT ![p.issue] = @ + 1]
          /\ wrong' = wrong
      BY <2>8 DEF Valid, AnswerOk, DelCode
    <3>2. p.issue \notin contested => ok'[p.issue] = 1
      BY <1>0, <2>2, <3>1 DEF Accurate
    <3>3. \A i \in Issue : i # p.issue => ok'[i] = ok[i]
      BY <1>0, <3>1
    <3>4. AcceptedOnce'
      BY <2>2, <3>2, <3>3 DEF SerialInv, AcceptedOnce
    <3>5. (\A i \in Issue : i > Len(made) => ok[i] = 0 /\ wrong[i] = 0)'
      <4>1. p.issue \in 1 .. Len(made)
        BY <1>5 DEF DecideCode, DatedInv, Genuine
      <4> QED BY <1>0, <2>2, <3>1, <3>3, <4>1 DEF SerialInv, Issue
    <3> QED
      BY <2>2, <2>4, <2>6, <3>1, <3>3, <3>4, <3>5 DEF SerialInv, LockedOut
  <2>9. CASE code'.exp = 0 /\ UNCHANGED <<wrong, ok>>
    BY <2>2, <2>4, <2>6, <2>9 DEF SerialInv, AcceptedOnce, LockedOut
  <2> QED
    BY <2>1, <2>7, <2>8, <2>9 DEF Expired, TooManyAttempts, DelCode
<1> QED
  BY <1>1, <1>2, <1>3, <1>4, <1>5 DEF Next, SendOtp, VerifyOtp, Req

\* SerialInv holds throughout.
LEMMA SerialInvariant == Spec => []SerialInv
<1>1. Init => SerialInv
  BY SettingsAssumption DEF Init, SerialInv, AcceptedOnce, LockedOut
<1> QED BY <1>1, SerialStep, OtpTypeOK, DatedInvariant, PTL DEF Spec

\* A code that no two verifies held together is accepted at most once,
\* whatever the sends that overlap do to its key (lines 174-175).
THEOREM OtpAcceptedOnce == Spec => []AcceptedOnce
<1>1. SerialInv => AcceptedOnce
  BY DEF SerialInv
<1> QED BY <1>1, SerialInvariant, PTL

\* A code that no two verifies held together is compared with at most
\* MAX_ATTEMPTS wrong answers (lines 165-172).
THEOREM OtpLockedOut == Spec => []LockedOut
<1>1. SerialInv => LockedOut
  BY DEF SerialInv
<1> QED BY <1>1, SerialInvariant, PTL

\* Once such a code is accepted it is never answered again, not even with
\* "invalid".
THEOREM OtpConsumedStaysConsumed == Spec => ConsumedStaysConsumed
<1>1. TypeOK /\ SerialInv /\ [Next]_vars
        => [\A i \in Issue \ contested : ok[i] > 0 => wrong'[i] = wrong[i]]_vars
  <2> SUFFICES ASSUME TypeOK, SerialInv, Next,
                      NEW i \in Issue \ contested, ok[i] > 0
               PROVE  wrong'[i] = wrong[i]
    BY DEF vars
  <2>1. ASSUME NEW r \in Req, DecideCode(r)
        PROVE  wrong'[i] = wrong[i]
    <3>1. local[r].payload.issue \notin contested => Accurate(local[r].payload)
      BY <2>1 DEF DecideCode, SerialInv
    <3>2. i # local[r].payload.issue
      BY <3>1 DEF Accurate
    <3>3. \/ wrong' = wrong
          \/ wrong' = [wrong EXCEPT ![local[r].payload.issue] = @ + 1]
      BY <2>1 DEF DecideCode, Expired, TooManyAttempts, Invalid, Valid, AnswerWrong, AnswerOk
    <3> QED BY <3>2, <3>3 DEF TypeOK
  <2>2. CASE wrong' = wrong
    BY <2>2
  <2> QED
    BY <2>1, <2>2 DEF Next, SendOtp, VerifyOtp, Tick, CheckRateLimit, CountSend,
                      StoreCode, ReadCode, Abandon, history, Req
<1> QED BY <1>1, SerialInvariant, OtpTypeOK, PTL DEF Spec, ConsumedStaysConsumed

=============================================================================
