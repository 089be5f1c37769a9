---------------------------- MODULE SocialProofs ----------------------------
(***************************************************************************)
(* Proofs about Devices and Social for any number of handlers, users,      *)
(* accounts, e-mails and devices.                                          *)
(***************************************************************************)
EXTENDS Social, TLAPS, FiniteSetTheorems

-----------------------------------------------------------------------------
(* The invariants *)

RevokeTask == [kind: {"revoke"}, user: User, device: Device]
MfaTask == [kind: {"mfa"}, user: User, secret: 1 .. MaxSecrets, found: BOOLEAN]
LoginTask == [kind: {"social"}, account: Account, email: MaybeEmail, user: User,
              device: Device, found: {NoUser} \union User]
UpdateTask == [kind: {"profile", "register"}, user: 1 .. MaxUsers, email: Email]

LoginStages == {"find", "make", "link", "save", "device", "register"}

\* What a handler at stage p with task t works with: its secret has been made,
\* its user inserted, and a code that is verified was checked against a row.
Fits(p, t) ==
    \/ p = "idle" /\ t = Nothing
    \/ p = "delete" /\ t \in RevokeTask
    \/ /\ p \in {"secret", "enable"} /\ t \in MfaTask
       /\ t.secret <= secrets
       /\ p = "enable" => mfa[t.user].secret # 0
    \/ /\ p \in LoginStages /\ t \in LoginTask
       /\ t.user \in {t.account} \union 1 .. Len(users)
    \/ p = "update" /\ t \in UpdateTask /\ t.user <= Len(users)

Handling ==
    /\ DOMAIN pc = Handler /\ DOMAIN task = Handler
    /\ \A h \in Handler : Fits(pc[h], task[h])

UsersOK ==
    /\ users \in Seq(UserRow) /\ Len(users) <= MaxUsers
    /\ \A i, j \in 1 .. Len(users) :
         users[i].email = users[j].email => i = j \/ users[i].email = NoEmail
    /\ had \in [Email -> SUBSET (1 .. MaxUsers)]

LinksOK ==
    /\ links \in [Account -> {NoUser} \union User]
    /\ \A a \in Account : links[a] \in {NoUser, a} \union 1 .. Len(users)
    /\ presented \in [Account -> MaybeEmail]

TypeInv == DevicesTypeOK /\ UsersOK /\ LinksOK /\ Handling

\* Of a device that two users never registered together all rows and all
\* registrations in flight are one user's; the row that a revocation has
\* checked stays as long as no other revocation of the device meets it.
DeviceInv ==
    /\ \A d \in Device \ raced :
         /\ \A r, s \in Of(d) : r.user = s.user
         /\ \A g \in Registering(d) :
              /\ \A r \in Of(d) : r.user = task[g].user
              /\ \A h \in Registering(d) : task[h].user = task[g].user
    /\ \A d \in Device \ overlapped : \A h \in Revoking(d) :
         /\ [device |-> d, user |-> task[h].user] \in devices
         /\ \A g \in Revoking(d) : g = h
    /\ robbed \subseteq overlapped
    /\ IsFiniteSet(devices)

\* A verify that has checked its code, and whose secret no setup replaced, finds
\* that secret in the row.
MfaInv ==
    \A u \in User \ replaced :
        mfa[u].enabled \/ Verifying(u) # {} => mfa[u].secret \in proven

\* The logins on their way to link account a to user u of user-service.
Linking(a, u) ==
    {h \in Handler : /\ pc[h] \in {"link", "save"}
                     /\ task[h].account = a /\ task[h].user = u}

\* Accounts that have come, or are about to come, to u without an e-mail.
Nameless(u) ==
    {a \in Account : \/ links[a] = u /\ presented[a] = NoEmail
                     \/ \E h \in Linking(a, u) : task[h].email = NoEmail}

LinkInv ==
    /\ \A h \in Handler :
         pc[h] \in {"find", "make"} => task[h].user = task[h].account
    /\ \A i \in 1 .. Len(users) :
         /\ users[i].email # NoEmail => i \in had[users[i].email]
         /\ \A a, b \in Nameless(i) : a = b
    /\ \A a \in Account : \A i \in 1 .. Len(users) :
         /\ links[a] = i /\ presented[a] # NoEmail => i \in had[presented[a]]
         /\ \A h \in Linking(a, i) :
              task[h].email # NoEmail => i \in had[task[h].email]

-----------------------------------------------------------------------------
(* Type correctness *)

\* The invariant says what the types of the runs do.
LEMMA TypesFollow == TypeInv => SocialTypeOK
<1> SUFFICES ASSUME TypeInv
             PROVE  SocialTypeOK
  OBVIOUS
<1>1. ASSUME NEW h \in Handler
      PROVE  \/ task[h] \in DeviceTask /\ pc[h] \in DeviceStages[task[h].kind]
             \/ task[h] \in SocialTask /\ pc[h] \in SocialStages[task[h].kind]
  <2>1. Fits(pc[h], task[h])
    BY DEF TypeInv, Handling
  <2>2. CASE pc[h] = "idle" /\ task[h] = Nothing
    <3>1. task[h].kind = "nothing" /\ task[h] \in DeviceTask
      BY <2>2 DEF Nothing, DeviceTask
    <3> QED BY <2>2, <3>1 DEF DeviceStages
  <2>3. CASE pc[h] = "delete" /\ task[h] \in RevokeTask
    <3>1. task[h].kind = "revoke" /\ task[h] \in DeviceTask
      BY <2>3 DEF RevokeTask, DeviceTask
    <3> QED BY <2>3, <3>1 DEF DeviceStages
  <2>4. CASE pc[h] \in {"secret", "enable"} /\ task[h] \in MfaTask
    <3>1. task[h].kind = "mfa" /\ task[h] \in DeviceTask
      BY <2>4 DEF MfaTask, DeviceTask
    <3> QED BY <2>4, <3>1 DEF DeviceStages
  <2>5. CASE pc[h] \in LoginStages /\ task[h] \in LoginTask
    <3>1. task[h].kind = "social" /\ task[h] \in SocialTask
      BY <2>5 DEF LoginTask, SocialTask
    <3> QED BY <2>5, <3>1 DEF SocialStages, LoginStages
  <2>6. CASE pc[h] = "update" /\ task[h] \in UpdateTask
    <3>1. task[h].kind \in {"profile", "register"} /\ task[h] \in SocialTask
      BY <2>6 DEF UpdateTask, SocialTask
    <3> QED BY <2>6, <3>1 DEF SocialStages
  <2> QED BY <2>1, <2>2, <2>3, <2>4, <2>5, <2>6 DEF Fits
<1> QED BY <1>1 DEF TypeInv, UsersOK, LinksOK, SocialTypeOK

\* What a handler works with at each stage.
LEMMA AtStage ==
  ASSUME Handling, NEW h \in Handler
  PROVE  /\ pc[h] = "delete" => task[h] \in RevokeTask
         /\ pc[h] \in {"secret", "enable"} =>
              task[h] \in MfaTask /\ task[h].secret <= secrets
         /\ pc[h] = "enable" => mfa[task[h].user].secret # 0
         /\ pc[h] \in LoginStages =>
              /\ task[h] \in LoginTask
              /\ task[h].user \in {task[h].account} \union 1 .. Len(users)
         /\ pc[h] = "update" => task[h] \in UpdateTask /\ task[h].user <= Len(users)
<1>1. Fits(pc[h], task[h])
  BY DEF Handling
<1> QED BY <1>1 DEF Fits, LoginStages

\* What no step takes back.
Grows ==
    /\ secrets <= secrets'
    /\ Len(users) <= Len(users')
    /\ \A u \in User : mfa[u].secret # 0 => mfa'[u].secret # 0

Numbers == secrets \in Nat /\ Len(users) \in Nat

\* Handler h moves, and no other.
Moves(h) ==
    /\ DOMAIN pc' = Handler /\ DOMAIN task' = Handler
    /\ \A g \in Handler \ {h} : pc'[g] = pc[g] /\ task'[g] = task[g]

\* The ways a handler moves.
LEMMA Going ==
  ASSUME Handling, NEW h \in Handler, NEW s, Goto(h, s),
         UNCHANGED task \/ \E t : task' = [task EXCEPT ![h] = t]
  PROVE  Moves(h) /\ pc'[h] = s
BY DEF Handling, Goto, Moves

LEMMA Starting ==
  ASSUME Handling, NEW h \in Handler, NEW s, NEW t, Start(h, s, t)
  PROVE  Moves(h) /\ pc'[h] = s /\ task'[h] = t /\ pc[h] = "idle"
BY DEF Handling, Start, Goto, Moves

LEMMA Ending ==
  ASSUME Handling, NEW h \in Handler, Done(h)
  PROVE  Moves(h) /\ pc'[h] = "idle" /\ task'[h] = Nothing
BY DEF Handling, Done, Goto, Moves

\* If only h moves and what it works with fits, all handlers do.
LEMMA HandlingMoves ==
  ASSUME Handling, Grows, Numbers, Numbers', NEW h \in Handler, Moves(h),
         Fits(pc[h], task[h])'
  PROVE  Handling'
<1> SUFFICES ASSUME NEW g \in Handler \ {h}
             PROVE  Fits(pc[g], task[g])'
  BY DEF Handling, Moves
<1>1. pc'[g] = pc[g] /\ task'[g] = task[g] /\ Fits(pc[g], task[g])
  BY DEF Moves, Handling
<1>2. ASSUME task[g] \in MfaTask
      PROVE  task[g].secret \in Nat /\ task[g].user \in User
  BY <1>2 DEF MfaTask
<1>3. ASSUME task[g] \in UpdateTask
      PROVE  task[g].user \in Nat
  BY <1>3 DEF UpdateTask
<1> QED BY <1>1, <1>2, <1>3 DEF Fits, Grows, Numbers

\* Steps that leave the tables of users and MFA alone.
LEMMA GrowsTrivially ==
  ASSUME TypeInv, UNCHANGED <<users, secrets, mfa>>
  PROVE  Grows /\ Numbers /\ Numbers'
BY DEF Grows, Numbers, TypeInv, DevicesTypeOK, UsersOK

-----------------------------------------------------------------------------
(* Each step keeps the types *)

\* The steps of devices.
LEMMA DeviceTypes ==
  ASSUME TypeInv, NEW h \in Handler, UNCHANGED socialVars,
         \/ LookDevice(h) \/ InsertDevice(h) \/ DeleteDevice(h) \/ Fail(h)
         \/ \E u \in User, d \in Device : CheckDeviceOwner(h, u, d)
  PROVE  TypeInv' /\ Moves(h)
<1>0. Handling /\ DevicesTypeOK
  BY DEF TypeInv
<1> DEFINE Kept ==
             /\ UNCHANGED <<users, secrets, mfa, proven, replaced>>
             /\ Grows /\ Numbers /\ Numbers'
             /\ Moves(h) /\ Fits(pc[h], task[h])'
             /\ devices' \subseteq Registration /\ raced' \subseteq Device
             /\ overlapped' \subseteq Device /\ robbed' \subseteq Device
<1>1. Kept
  <2>1. CASE LookDevice(h)
    <3>1. /\ UNCHANGED <<users, secrets, mfa, proven, replaced, devices, overlapped, robbed>>
          /\ pc[h] = "device"
      BY <2>1 DEF LookDevice, socialVars, mfaVars
    <3>2. task[h] \in LoginTask /\ task[h].user \in {task[h].account} \union 1 .. Len(users)
      BY <1>0, <3>1, AtStage DEF LoginStages
    <3>3. raced' \subseteq Device
      BY <1>0, <2>1, <3>2 DEF LookDevice, DevicesTypeOK, LoginTask
    <3>4. CASE Done(h)
      BY <1>0, <3>1, <3>3, <3>4, Ending, GrowsTrivially DEF Fits, DevicesTypeOK
    <3>5. CASE Goto(h, "register") /\ UNCHANGED task
      <4>1. Moves(h) /\ pc'[h] = "register" /\ task'[h] = task[h]
        BY <1>0, <3>5, Going
      <4>2. Fits(pc[h], task[h])'
        BY <3>1, <3>2, <4>1 DEF Fits, LoginStages, LoginTask
      <4> QED BY <1>0, <3>1, <3>3, <4>1, <4>2, GrowsTrivially DEF DevicesTypeOK
    <3> QED BY <2>1, <3>4, <3>5 DEF LookDevice
  <2>2. CASE InsertDevice(h)
    <3>1. /\ UNCHANGED <<users, secrets, mfa, proven, replaced, raced, overlapped, robbed>>
          /\ pc[h] = "register" /\ Done(h)
      BY <2>2 DEF InsertDevice, socialVars, mfaVars
    <3>2. task[h].user \in User /\ task[h].device \in Device
      BY <1>0, <3>1, AtStage DEF LoginStages, LoginTask
    <3>3. devices' \subseteq Registration
      BY <1>0, <2>2, <3>2 DEF InsertDevice, DevicesTypeOK, Registration
    <3> QED BY <1>0, <3>1, <3>3, Ending, GrowsTrivially DEF Fits, DevicesTypeOK
  <2>3. CASE DeleteDevice(h)
    <3>1. /\ UNCHANGED <<users, secrets, mfa, proven, replaced, raced, overlapped>>
          /\ pc[h] = "delete" /\ Done(h)
      BY <2>3 DEF DeleteDevice, socialVars, mfaVars
    <3>2. task[h].device \in Device
      BY <1>0, <3>1, AtStage DEF RevokeTask
    <3>3. devices' \subseteq Registration /\ robbed' \subseteq Device
      BY <1>0, <2>3, <3>2 DEF DeleteDevice, DevicesTypeOK
    <3> QED BY <1>0, <3>1, <3>3, Ending, GrowsTrivially DEF Fits, DevicesTypeOK
  <2>4. CASE Fail(h)
    <3>1. UNCHANGED <<users, secrets, mfa, proven, replaced, devices, raced, overlapped, robbed>>
          /\ Done(h)
      BY <2>4 DEF Fail, Quit, socialVars, mfaVars, deviceVars
    <3> QED BY <1>0, <3>1, Ending, GrowsTrivially DEF Fits, DevicesTypeOK
  <2>5. ASSUME NEW u \in User, NEW d \in Device, CheckDeviceOwner(h, u, d)
        PROVE  Kept
    <3>1. PICK t : t = [kind |-> "revoke", user |-> u, device |-> d]
      OBVIOUS
    <3>2. t \in RevokeTask
      BY <3>1 DEF RevokeTask
    <3>3. /\ UNCHANGED <<users, secrets, mfa, proven, replaced, devices, raced, robbed>>
          /\ Start(h, "delete", t) /\ overlapped' \subseteq Device
      BY <1>0, <2>5, <3>1 DEF CheckDeviceOwner, socialVars, mfaVars, DevicesTypeOK
    <3> QED BY <1>0, <3>2, <3>3, Starting, GrowsTrivially DEF Fits, DevicesTypeOK
  <2> QED BY <2>1, <2>2, <2>3, <2>4, <2>5
<1>2. Handling'
  BY <1>0, <1>1, HandlingMoves
<1>3. DevicesTypeOK'
  BY <1>0, <1>1 DEF DevicesTypeOK
<1> QED BY <1>1, <1>2, <1>3 DEF TypeInv, socialVars, UsersOK, LinksOK

\* The steps of MFA.
LEMMA MfaTypes ==
  ASSUME TypeInv, NEW h \in Handler, UNCHANGED socialVars,
         SaveSecret(h) \/ EnableMfa(h) \/ \E u \in User : StartSetup(h, u) \/ CheckTotp(h, u)
  PROVE  TypeInv' /\ Moves(h)
<1>0. Handling /\ DevicesTypeOK /\ Numbers
  BY DEF TypeInv, Numbers, DevicesTypeOK, UsersOK
<1> DEFINE Kept ==
             /\ Grows /\ Numbers' /\ Moves(h) /\ Fits(pc[h], task[h])'
             /\ DevicesTypeOK'
<1>1. Kept
  <2>1. ASSUME NEW u \in User, StartSetup(h, u)
        PROVE  Kept
    <3>1. PICK t : t = [kind |-> "mfa", user |-> u, secret |-> secrets + 1,
                        found |-> mfa[u].secret # 0]
      OBVIOUS
    <3>2. /\ secrets < MaxSecrets /\ secrets' = secrets + 1 /\ Start(h, "secret", t)
          /\ UNCHANGED <<deviceVars, mfa, proven, replaced, users>>
      BY <2>1, <3>1 DEF StartSetup, socialVars
    <3>3. t \in MfaTask /\ t.secret = secrets + 1
      BY <1>0, <3>1, <3>2, DevicesAssumption DEF MfaTask, DevicesTypeOK
    <3>4. Grows /\ Numbers'
      BY <1>0, <3>2 DEF Grows, Numbers
    <3>5. Moves(h) /\ pc'[h] = "secret" /\ task'[h] = t
      BY <1>0, <3>2, Starting
    <3>6. DevicesTypeOK'
      <4>1. secrets' \in 0 .. MaxSecrets /\ proven' \subseteq 1 .. secrets'
        BY <1>0, <3>2, DevicesAssumption DEF DevicesTypeOK
      <4>2. ASSUME NEW v \in User
            PROVE  mfa'[v].secret <= secrets' /\ (mfa'[v].enabled => mfa'[v].secret # 0)
        <5>1. mfa[v] \in MfaConfig
          BY <1>0 DEF DevicesTypeOK
        <5>2. mfa[v].secret \in Nat /\ mfa[v].secret <= secrets
          BY <1>0, <5>1 DEF DevicesTypeOK, MfaConfig
        <5> QED BY <1>0, <3>2, <5>2 DEF DevicesTypeOK, Numbers
      <4> QED BY <1>0, <3>2, <4>1, <4>2 DEF DevicesTypeOK, deviceVars
    <3>7. Fits(pc[h], task[h])'
      <4>1. task'[h].secret <= secrets'
        BY <1>0, <3>2, <3>3, <3>5 DEF Numbers
      <4> QED BY <3>3, <3>5, <4>1 DEF Fits
    <3> QED BY <3>4, <3>5, <3>6, <3>7
  <2>2. ASSUME NEW u \in User, CheckTotp(h, u)
        PROVE  Kept
    <3>1. PICK t : t = [kind |-> "mfa", user |-> u, secret |-> mfa[u].secret, found |-> TRUE]
      OBVIOUS
    <3>2. /\ mfa[u].secret # 0 /\ Start(h, "enable", t)
          /\ UNCHANGED <<deviceVars, mfa, secrets, replaced, users>>
          /\ proven' = proven \union {mfa[u].secret}
      BY <2>2, <3>1 DEF CheckTotp, socialVars
    <3>3. mfa[u] \in MfaConfig /\ mfa[u].secret <= secrets
      BY <1>0 DEF DevicesTypeOK
    <3>4. mfa[u].secret \in 1 .. secrets /\ mfa[u].secret \in 1 .. MaxSecrets
      BY <1>0, <3>2, <3>3, DevicesAssumption DEF MfaConfig, Numbers
    <3>5. t \in MfaTask /\ t.secret <= secrets /\ mfa[t.user].secret # 0
      BY <3>1, <3>2, <3>3, <3>4 DEF MfaTask
    <3>6. Moves(h) /\ pc'[h] = "enable" /\ task'[h] = t
      BY <1>0, <3>2, Starting
    <3>7. Fits(pc[h], task[h])'
      BY <3>2, <3>5, <3>6 DEF Fits
    <3>8. DevicesTypeOK'
      BY <1>0, <3>2, <3>4 DEF DevicesTypeOK, deviceVars
    <3> QED BY <1>0, <3>2, <3>6, <3>7, <3>8 DEF Grows, Numbers
  <2>3. CASE SaveSecret(h)
    <3> DEFINE u == task[h].user
    <3>1. /\ pc[h] = "secret" /\ Done(h) /\ UNCHANGED <<deviceVars, secrets, proven, users>>
      BY <2>3 DEF SaveSecret, socialVars
    <3>2. task[h] \in MfaTask /\ task[h].secret <= secrets
      BY <1>0, <3>1, AtStage
    <3>3. u \in User /\ task[h].secret \in 1 .. secrets /\ task[h].secret \in 1 .. MaxSecrets
      BY <1>0, <3>2, DevicesAssumption DEF MfaTask, Numbers
    <3>4. replaced' \subseteq User
      BY <1>0, <2>3, <3>3 DEF SaveSecret, DevicesTypeOK
    <3>5. /\ mfa' \in [User -> MfaConfig]
          /\ \A v \in User : v # u => mfa'[v] = mfa[v]
          /\ mfa'[u] = mfa[u] \/ mfa'[u].secret = task[h].secret
          /\ mfa'[u].enabled => mfa'[u].secret # 0
      <4>1. mfa \in [User -> MfaConfig] /\ (mfa[u].enabled => mfa[u].secret # 0)
        BY <1>0, <3>3 DEF DevicesTypeOK
      <4>2. CASE mfa' = [mfa EXCEPT ![u].secret = task[h].secret]
        BY <3>3, <4>1, <4>2, DevicesAssumption DEF MfaConfig
      <4>3. CASE mfa' = [mfa EXCEPT ![u] = [secret |-> task[h].secret, enabled |-> FALSE]]
        BY <3>3, <4>1, <4>3, DevicesAssumption DEF MfaConfig
      <4>4. CASE UNCHANGED mfa
        BY <4>1, <4>4
      <4> QED BY <2>3, <4>2, <4>3, <4>4 DEF SaveSecret
    <3>6. \A v \in User : /\ mfa'[v].secret <= secrets
                          /\ mfa'[v].enabled => mfa'[v].secret # 0
                          /\ mfa[v].secret # 0 => mfa'[v].secret # 0
      BY <1>0, <3>3, <3>5 DEF DevicesTypeOK
    <3>7. DevicesTypeOK'
      BY <1>0, <3>1, <3>4, <3>5, <3>6 DEF DevicesTypeOK, deviceVars
    <3>8. Moves(h) /\ Fits(pc[h], task[h])'
      BY <1>0, <3>1, Ending DEF Fits
    <3> QED BY <1>0, <3>1, <3>6, <3>7, <3>8 DEF Grows, Numbers
  <2>4. CASE EnableMfa(h)
    <3> DEFINE u == task[h].user
    <3>1. /\ pc[h] = "enable" /\ Done(h)
          /\ mfa' = [mfa EXCEPT ![u].enabled = TRUE]
          /\ UNCHANGED <<deviceVars, secrets, proven, replaced, users>>
      BY <2>4 DEF EnableMfa, socialVars
    <3>2. u \in User /\ mfa[u].secret # 0 /\ mfa \in [User -> MfaConfig]
      BY <1>0, <3>1, AtStage DEF MfaTask, DevicesTypeOK
    <3>3. mfa' \in [User -> MfaConfig] /\ \A v \in User : mfa'[v].secret = mfa[v].secret
                                       /\ (v # u => mfa'[v] = mfa[v])
      BY <3>1, <3>2 DEF MfaConfig
    <3>4. DevicesTypeOK'
      BY <1>0, <3>1, <3>2, <3>3 DEF DevicesTypeOK, deviceVars
    <3>5. Moves(h) /\ Fits(pc[h], task[h])'
      BY <1>0, <3>1, Ending DEF Fits
    <3> QED BY <1>0, <3>1, <3>3, <3>4, <3>5 DEF Grows, Numbers
  <2> QED BY <2>1, <2>2, <2>3, <2>4
<1>2. Handling'
  BY <1>0, <1>1, HandlingMoves
<1> QED BY <1>1, <1>2 DEF TypeInv, socialVars, UsersOK, LinksOK

\* A user is appended to the table.
LEMMA AddedUser ==
  ASSUME UsersOK, NEW e \in MaybeEmail, AddUser(e)
  PROVE  /\ UsersOK' /\ Len(users') = Len(users) + 1
         /\ users'[Len(users) + 1].email = e
         /\ \A i \in 1 .. Len(users) : users'[i] = users[i]
<1> DEFINE n == Len(users)
           r == [email |-> e, registered |-> FALSE]
<1>1. users \in Seq(UserRow) /\ n \in Nat /\ n < MaxUsers /\ users' = Append(users, r)
  BY DEF AddUser, UsersOK
<1>2. r \in UserRow /\ r.email = e
  BY DEF UserRow
<1> HIDE DEF r
<1>3. /\ users' \in Seq(UserRow) /\ Len(users') = n + 1 /\ users'[n + 1] = r
      /\ \A i \in 1 .. n : users'[i] = users[i]
  BY <1>1, <1>2
<1>4. Len(users') <= MaxUsers
  BY <1>1, <1>3, SocialAssumption
<1>5. ASSUME NEW i \in 1 .. Len(users'), NEW j \in 1 .. Len(users'),
             users'[i].email = users'[j].email
      PROVE  i = j \/ users'[i].email = NoEmail
  <2>1. \A k \in 1 .. n : users[k].email # e \/ e = NoEmail
    BY DEF AddUser, Owners
  <2>2. i \in 1 .. n \/ i = n + 1
    BY <1>1, <1>3
  <2>3. j \in 1 .. n \/ j = n + 1
    BY <1>1, <1>3
  <2>4. CASE i \in 1 .. n /\ j \in 1 .. n
    BY <1>3, <1>5, <2>4 DEF UsersOK
  <2>5. CASE i = n + 1 \/ j = n + 1
    BY <1>2, <1>3, <1>5, <2>1, <2>2, <2>3, <2>5
  <2> QED BY <2>2, <2>3, <2>4, <2>5
<1>6. had' \in [Email -> SUBSET (1 .. MaxUsers)]
  <2>1. n + 1 \in 1 .. MaxUsers
    BY <1>1, SocialAssumption
  <2> QED BY <2>1 DEF AddUser, Held, UsersOK
<1> QED BY <1>2, <1>3, <1>4, <1>5, <1>6 DEF UsersOK

\* The steps of a social login and of a profile.
LEMMA LoginTypes ==
  ASSUME TypeInv, NEW h \in Handler,
         \/ FindUser(h) \/ MakeUser(h) \/ CallFails(h) \/ ReadLink(h) \/ SaveLink(h)
         \/ \E a \in Account, e \in MaybeEmail, d \in Device : StartSocial(h, a, e, d)
  PROVE  TypeInv' /\ Moves(h)
<1>0. Handling /\ DevicesTypeOK /\ Numbers /\ UsersOK /\ LinksOK
  BY DEF TypeInv, Numbers, DevicesTypeOK, UsersOK
<1> DEFINE Kept ==
             /\ UNCHANGED <<deviceVars, mfaVars>>
             /\ Grows /\ Numbers' /\ Moves(h) /\ Fits(pc[h], task[h])'
             /\ UsersOK' /\ LinksOK'
<1>1. Kept
  <2>1. ASSUME NEW a \in Account, NEW e \in MaybeEmail, NEW d \in Device, StartSocial(h, a, e, d)
        PROVE  Kept
    <3>1. PICK t : t = [kind |-> "social", account |-> a, email |-> e, user |-> a,
                        device |-> d, found |-> NoUser]
      OBVIOUS
    <3>2. t \in LoginTask /\ t.user = t.account
      BY <3>1, SocialAssumption DEF LoginTask
    <3>3. Start(h, "find", t) /\ UNCHANGED <<deviceVars, mfaVars, socialVars>>
      BY <2>1, <3>1 DEF StartSocial
    <3>4. Moves(h) /\ Fits(pc[h], task[h])'
      BY <1>0, <3>2, <3>3, Starting DEF Fits, LoginStages
    <3> QED BY <1>0, <3>3, <3>4 DEF socialVars, mfaVars, Grows, Numbers, UsersOK, LinksOK
  <2>2. ASSUME pc[h] \in LoginStages
        PROVE  /\ task[h] \in LoginTask
               /\ task[h].user \in {task[h].account} \union 1 .. Len(users)
    BY <1>0, <2>2, AtStage
  <2>3. CASE FindUser(h) \/ CallFails(h) \/ ReadLink(h)
    <3>1. UNCHANGED <<deviceVars, mfaVars, socialVars>> /\ pc[h] \in LoginStages
      BY <2>3 DEF FindUser, CallFails, ReadLink, LoginStages
    <3>2. Moves(h) /\ Fits(pc[h], task[h])'
      <4>1. ASSUME NEW u \in Owners(task[h].email), Answered(h, u)
            PROVE  Moves(h) /\ Fits(pc[h], task[h])'
        <5>1. u \in 1 .. Len(users) /\ u \in User
          BY <1>0, <4>1, SocialAssumption DEF Owners, UsersOK, Numbers
        <5>2. Moves(h) /\ pc'[h] = "link"
          BY <1>0, <4>1, Going DEF Answered
        <5>3. task'[h] = [task[h] EXCEPT !.user = u]
          BY <1>0, <4>1 DEF Answered, Handling
        <5>4. task'[h] \in LoginTask /\ task'[h].user = u
          BY <2>2, <3>1, <5>1, <5>3 DEF LoginTask
        <5> QED BY <3>1, <5>1, <5>2, <5>4 DEF Fits, LoginStages, socialVars
      <4>2. CASE Goto(h, "make") /\ UNCHANGED task
        BY <1>0, <2>2, <3>1, <4>2, Going DEF Fits, LoginStages, socialVars, Moves
      <4>3. CASE CallFails(h)
        BY <1>0, <2>2, <3>1, <4>3, Going DEF Fits, LoginStages, socialVars, Moves, CallFails
      <4>4. CASE ReadLink(h)
        <5>1. Moves(h) /\ pc'[h] = "save"
          BY <1>0, <4>4, Going DEF ReadLink
        <5>2. task'[h] = [task[h] EXCEPT !.found = links[task[h].account]]
          BY <1>0, <4>4 DEF ReadLink, Handling
        <5>3. links[task[h].account] \in {NoUser} \union User
          BY <1>0, <2>2, <3>1 DEF LinksOK, LoginTask
        <5>4. task'[h] \in LoginTask /\ task'[h].user = task[h].user
              /\ task'[h].account = task[h].account
          BY <2>2, <3>1, <5>2, <5>3 DEF LoginTask
        <5> QED BY <2>2, <3>1, <5>1, <5>4 DEF Fits, LoginStages, socialVars
      <4> QED BY <2>3, <4>1, <4>2, <4>3, <4>4 DEF FindUser
    <3> QED BY <1>0, <3>1, <3>2 DEF socialVars, mfaVars, Grows, Numbers, UsersOK, LinksOK
  <2>4. CASE MakeUser(h)
    <3>1. /\ pc[h] = "make" /\ AddUser(task[h].email) /\ Len(users) < MaxUsers
          /\ UNCHANGED <<deviceVars, mfaVars, links, presented>>
      BY <2>4 DEF MakeUser, AddUser
    <3>2. task[h] \in LoginTask /\ task[h].email \in MaybeEmail
          /\ task[h].user \in {task[h].account} \union 1 .. Len(users)
      BY <2>2, <3>1 DEF LoginStages, LoginTask
    <3>3. UsersOK' /\ Len(users') = Len(users) + 1
      BY <1>0, <3>1, <3>2, AddedUser
    <3>4. Grows /\ Numbers'
      BY <1>0, <3>1, <3>3 DEF Grows, Numbers, mfaVars
    <3>5. LinksOK'
      BY <1>0, <3>1, <3>3 DEF LinksOK, Numbers
    <3>6. Moves(h) /\ Fits(pc[h], task[h])'
      <4>1. CASE Answered(h, Len(users) + 1)
        <5>1. Len(users) + 1 \in User /\ Len(users) + 1 \in 1 .. Len(users')
          BY <1>0, <3>1, <3>3, SocialAssumption DEF Numbers
        <5>2. Moves(h) /\ pc'[h] = "link"
          BY <1>0, <4>1, Going DEF Answered
        <5>3. task'[h] = [task[h] EXCEPT !.user = Len(users) + 1]
          BY <1>0, <4>1 DEF Answered, Handling
        <5>4. task'[h] \in LoginTask /\ task'[h].user = Len(users) + 1
          BY <3>2, <5>1, <5>3 DEF LoginTask
        <5> QED BY <5>1, <5>2, <5>4 DEF Fits, LoginStages
      <4>2. CASE Goto(h, "link") /\ UNCHANGED task
        <5>1. Moves(h) /\ pc'[h] = "link" /\ task'[h] = task[h]
          BY <1>0, <4>2, Going
        <5>2. task[h].user \in {task[h].account} \union 1 .. Len(users')
          BY <1>0, <3>2, <3>3 DEF Numbers
        <5> QED BY <3>2, <5>1, <5>2 DEF Fits, LoginStages
      <4> QED BY <2>4, <4>1, <4>2 DEF MakeUser
    <3> QED BY <3>1, <3>3, <3>4, <3>5, <3>6
  <2>5. CASE SaveLink(h)
    <3> DEFINE t == task[h]
    <3>1. pc[h] = "save" /\ UNCHANGED <<deviceVars, mfaVars, users, had>>
      BY <2>5 DEF SaveLink
    <3>2. /\ t \in LoginTask /\ t.user \in {t.account} \union 1 .. Len(users)
          /\ t.account \in Account /\ t.email \in MaybeEmail /\ t.user \in User
      BY <2>2, <3>1 DEF LoginStages, LoginTask
    <3>3. LinksOK'
      <4>1. CASE UNCHANGED <<links, presented>>
        BY <1>0, <3>1, <4>1 DEF LinksOK
      <4>2. CASE /\ links' = [links EXCEPT ![t.account] = t.user]
                 /\ presented' = [presented EXCEPT ![t.account] = t.email]
        BY <1>0, <3>1, <3>2, <4>2 DEF LinksOK
      <4> QED BY <2>5, <4>1, <4>2 DEF SaveLink
    <3>4. Moves(h) /\ Fits(pc[h], task[h])'
      <4>1. CASE Done(h)
        BY <1>0, <4>1, Ending DEF Fits
      <4>2. CASE Goto(h, "device") /\ UNCHANGED task
        BY <1>0, <3>1, <3>2, <4>2, Going DEF Fits, LoginStages, Moves
      <4> QED BY <2>5, <4>1, <4>2 DEF SaveLink
    <3> QED BY <1>0, <3>1, <3>3, <3>4 DEF mfaVars, Grows, Numbers, UsersOK
  <2> QED BY <2>1, <2>3, <2>4, <2>5
<1>2. Handling'
  BY <1>0, <1>1, HandlingMoves
<1> QED BY <1>0, <1>1, <1>2 DEF TypeInv, DevicesTypeOK, deviceVars, mfaVars

\* A user's e-mail is written, or the row is left alone.
LEMMA UpdatedUser ==
  ASSUME UsersOK, NEW h \in Handler, UpdateUser(h), task[h] \in UpdateTask,
         task[h].user <= Len(users)
  PROVE  /\ UsersOK' /\ Len(users') = Len(users)
         /\ \A i \in 1 .. Len(users) :
              users'[i].email # users[i].email =>
                i = task[h].user /\ users'[i].email = task[h].email
         /\ \A e \in Email : had[e] \subseteq had'[e]
         /\ \A i \in 1 .. Len(users) :
              users'[i].email # users[i].email => i \in had'[users'[i].email]
<1> DEFINE u == task[h].user
           e == task[h].email
           r == [email |-> e, registered |-> users[u].registered \/ task[h].kind = "register"]
<1>1. u \in 1 .. Len(users) /\ e \in Email /\ users \in Seq(UserRow) /\ Len(users) \in Nat
      /\ e # NoEmail
  BY SocialAssumption DEF UpdateTask, UsersOK
<1>2. CASE UNCHANGED <<users, had>>
  BY <1>2 DEF UsersOK
<1>3. CASE Owners(e) \subseteq {u} /\ users' = [users EXCEPT ![u] = r] /\ Held(e, u)
  <2>1. r \in UserRow /\ r.email = e
    BY <1>1 DEF UserRow, MaybeEmail
  <2> HIDE DEF r
  <2>2. /\ users' \in Seq(UserRow) /\ Len(users') = Len(users) /\ users'[u] = r
        /\ \A i \in 1 .. Len(users) : i # u => users'[i] = users[i]
    BY <1>1, <1>3, <2>1
  <2>3. had' = [had EXCEPT ![e] = had[e] \union {u}]
    BY <1>1, <1>3 DEF Held
  <2>4. u \in 1 .. MaxUsers
    BY <1>1, SocialAssumption DEF UpdateTask, UsersOK
  <2>5. had' \in [Email -> SUBSET (1 .. MaxUsers)] /\ u \in had'[e]
        /\ \A f \in Email : had[f] \subseteq had'[f]
    BY <1>1, <2>3, <2>4 DEF UsersOK
  <2>6. \A i \in 1 .. Len(users) : users[i].email = e => i = u
    BY <1>1, <1>3 DEF Owners
  <2>7. ASSUME NEW i \in 1 .. Len(users'), NEW j \in 1 .. Len(users'),
               users'[i].email = users'[j].email
        PROVE  i = j \/ users'[i].email = NoEmail
    <3>1. CASE i # u /\ j # u
      BY <2>2, <2>7, <3>1 DEF UsersOK
    <3>2. CASE i = u \/ j = u
      BY <2>1, <2>2, <2>6, <2>7, <3>2
    <3> QED BY <3>1, <3>2
  <2> QED BY <1>1, <2>1, <2>2, <2>5, <2>7 DEF UsersOK
<1> QED BY <1>2, <1>3 DEF UpdateUser

LEMMA UpdateTypes ==
  ASSUME TypeInv, NEW h \in Handler,
         \/ UpdateUser(h)
         \/ \E kind \in {"profile", "register"}, u \in 1 .. MaxUsers, e \in Email :
              CheckEmail(h, kind, u, e)
  PROVE  TypeInv' /\ Moves(h)
<1>0. Handling /\ DevicesTypeOK /\ Numbers /\ UsersOK /\ LinksOK
  BY DEF TypeInv, Numbers, DevicesTypeOK, UsersOK
<1> DEFINE Kept ==
             /\ UNCHANGED <<deviceVars, mfaVars>>
             /\ Grows /\ Numbers' /\ Moves(h) /\ Fits(pc[h], task[h])'
             /\ UsersOK' /\ LinksOK'
<1>1. Kept
  <2>1. ASSUME NEW kind \in {"profile", "register"}, NEW u \in 1 .. MaxUsers, NEW e \in Email,
               CheckEmail(h, kind, u, e)
        PROVE  Kept
    <3>1. PICK t : t = [kind |-> kind, user |-> u, email |-> e]
      OBVIOUS
    <3>2. /\ Start(h, "update", t) /\ u <= Len(users)
          /\ UNCHANGED <<deviceVars, mfaVars, socialVars>>
      BY <1>0, <2>1, <3>1 DEF CheckEmail, Numbers
    <3>3. t \in UpdateTask /\ t.user = u
      BY <3>1 DEF UpdateTask
    <3>4. Moves(h) /\ Fits(pc[h], task[h])'
      BY <1>0, <3>2, <3>3, Starting DEF Fits, socialVars
    <3> QED BY <1>0, <3>2, <3>4 DEF socialVars, mfaVars, Grows, Numbers, UsersOK, LinksOK
  <2>2. CASE UpdateUser(h)
    <3>1. pc[h] = "update" /\ Done(h) /\ UNCHANGED <<deviceVars, mfaVars, links, presented>>
      BY <2>2 DEF UpdateUser
    <3>2. task[h] \in UpdateTask /\ task[h].user <= Len(users)
      BY <1>0, <3>1, AtStage
    <3>3. UsersOK' /\ Len(users') = Len(users)
      BY <1>0, <2>2, <3>2, UpdatedUser
    <3> QED BY <1>0, <3>1, <3>3, Ending DEF Fits, mfaVars, Grows, Numbers, LinksOK
  <2> QED BY <2>1, <2>2
<1>2. Handling'
  BY <1>0, <1>1, HandlingMoves
<1> QED BY <1>0, <1>1, <1>2 DEF TypeInv, DevicesTypeOK, deviceVars, mfaVars

\* Any step of a handler.
LEMMA TypeStep ==
  ASSUME TypeInv, NEW h \in Handler, SocialStep(h) \/ (DeviceStep(h) /\ UNCHANGED socialVars)
  PROVE  TypeInv' /\ Moves(h)
<1>1. CASE SocialStep(h)
  BY <1>1, LoginTypes, UpdateTypes DEF SocialStep
<1>2. CASE DeviceStep(h) /\ UNCHANGED socialVars
  BY <1>2, DeviceTypes, MfaTypes DEF DeviceStep
<1> QED BY <1>1, <1>2

LEMMA TypeStutter ==
  ASSUME TypeInv, UNCHANGED vars
  PROVE  TypeInv'
BY DEF TypeInv, vars, deviceVars, mfaVars, socialVars, DevicesTypeOK, UsersOK, LinksOK,
       Handling, Fits

\* The types hold at the beginning, with no rows and idle handlers.
LEMMA TypeInit == Init => TypeInv
<1> SUFFICES ASSUME Init
             PROVE  TypeInv
  OBVIOUS
<1>1. DevicesTypeOK
  BY DevicesAssumption DEF Init, DevicesInit, DevicesTypeOK, NoConfig, MfaConfig
<1>2. UsersOK /\ LinksOK
  BY SocialAssumption DEF Init, UsersOK, LinksOK, MaybeEmail
<1>3. Handling
  BY DEF Init, DevicesInit, HandlersInit, Handling, Fits
<1> QED BY <1>1, <1>2, <1>3 DEF TypeInv

LEMMA Typed == Spec => []TypeInv
<1>1. TypeInv /\ [Next]_vars => TypeInv'
  BY TypeStep, TypeStutter DEF Next
<1> QED BY <1>1, TypeInit, PTL DEF Spec

\* The tables keep their unique columns and the handlers work with rows that
\* exist: no two users share an e-mail, whoever takes it between another's
\* check and commit (lines 60 and 172 of domains/users/service.py), and MFA is
\* enabled only where there is a secret.
THEOREM SocialTypes == Spec => []SocialTypeOK
BY Typed, TypesFollow, PTL

-----------------------------------------------------------------------------
(* Devices *)

\* Steps that leave the registrations alone and put no handler at a stage that
\* writes them.
LEMMA DeviceKept ==
  ASSUME TypeInv, DeviceInv, NEW h \in Handler, Moves(h), UNCHANGED deviceVars,
         pc'[h] \notin {"register", "delete"}
  PROVE  DeviceInv'
<1>1. ASSUME NEW d \in Device
      PROVE  /\ Registering(d)' \subseteq Registering(d) /\ Revoking(d)' \subseteq Revoking(d)
             /\ Of(d)' = Of(d)
             /\ \A g \in Registering(d)' \union Revoking(d)' : task'[g] = task[g]
  BY DEF Moves, Registering, Revoking, Of, deviceVars
<1> QED BY <1>1 DEF DeviceInv, deviceVars

\* A login finds no row, and meets the registrations of its own user only,
\* unless the device is noted.
LEMMA LookKeeps ==
  ASSUME TypeInv, DeviceInv, NEW h \in Handler, Moves(h), LookDevice(h)
  PROVE  DeviceInv'
<1> DEFINE d == task[h].device
<1>0. Handling
  BY DEF TypeInv
<1>1. UNCHANGED <<devices, overlapped, robbed>> /\ raced \subseteq raced' /\ d \in Device
  BY <1>0, AtStage DEF LookDevice, LoginStages, LoginTask
<1>2. CASE Done(h)
  <2>1. pc'[h] = "idle"
    BY <1>0, <1>2, Ending
  <2>2. ASSUME NEW c \in Device
        PROVE  /\ Registering(c)' \subseteq Registering(c) /\ Revoking(c)' \subseteq Revoking(c)
               /\ Of(c)' = Of(c)
               /\ \A g \in Registering(c)' \union Revoking(c)' : task'[g] = task[g]
    BY <1>1, <2>1 DEF Moves, Registering, Revoking, Of
  <2> QED BY <1>1, <2>2 DEF DeviceInv
<1>3. CASE Of(d) = {} /\ Goto(h, "register") /\ UNCHANGED task
  <2>1. pc'[h] = "register" /\ task' = task
    BY <1>0, <1>3, Going
  <2>2. ASSUME NEW c \in Device
        PROVE  /\ Revoking(c)' \subseteq Revoking(c) /\ Of(c)' = Of(c)
               /\ Registering(c)' \subseteq Registering(c) \union {h}
               /\ c # d => Registering(c)' \subseteq Registering(c)
    BY <1>1, <2>1 DEF Moves, Registering, Revoking, Of
  <2>3. d \notin raced' => \A g \in Registering(d) : task[g].user = task[h].user
    BY <1>3 DEF LookDevice
  <2>4. ASSUME NEW c \in Device \ raced', NEW g \in Registering(c)'
        PROVE  /\ \A r \in Of(c)' : r.user = task'[g].user
               /\ \A k \in Registering(c)' : task'[k].user = task'[g].user
    <3>1. CASE c # d
      BY <1>1, <2>1, <2>2, <2>4, <3>1 DEF DeviceInv
    <3>2. CASE c = d
      <4>1. \A k \in Registering(d)' : task'[k].user = task[h].user
        BY <1>1, <2>1, <2>2, <2>3, <2>4, <3>2
      <4> QED BY <1>3, <2>2, <2>4, <3>2, <4>1
    <3> QED BY <3>1, <3>2
  <2> QED BY <1>1, <2>1, <2>2, <2>4 DEF DeviceInv
<1> QED BY <1>2, <1>3 DEF LookDevice

\* The row that a login inserts is its user's, as are those that are there.
LEMMA InsertKeeps ==
  ASSUME TypeInv, DeviceInv, NEW h \in Handler, Moves(h), InsertDevice(h)
  PROVE  DeviceInv'
<1>0. Handling
  BY DEF TypeInv
<1>d. PICK d : d = task[h].device
  OBVIOUS
<1>1. PICK r : r = [device |-> d, user |-> task[h].user]
  OBVIOUS
<1>2. /\ devices' = devices \union {r} /\ UNCHANGED <<raced, overlapped, robbed>>
      /\ r.device = d /\ r.user = task[h].user /\ pc'[h] = "idle" /\ d \in Device
      /\ h \in Registering(d)
  BY <1>0, <1>d, <1>1, Ending, AtStage DEF InsertDevice, LoginStages, LoginTask, Registering
<1>3. ASSUME NEW c \in Device
      PROVE  /\ Registering(c)' \subseteq Registering(c) /\ Revoking(c)' \subseteq Revoking(c)
             /\ \A g \in Registering(c)' \union Revoking(c)' : task'[g] = task[g]
             /\ c # d => Of(c)' = Of(c)
             /\ Of(d)' = Of(d) \union {r}
  BY <1>2 DEF Moves, Registering, Revoking, Of
<1>4. ASSUME NEW c \in Device \ raced'
      PROVE  /\ \A q, s \in Of(c)' : q.user = s.user
             /\ \A g \in Registering(c)' :
                  /\ \A q \in Of(c)' : q.user = task'[g].user
                  /\ \A k \in Registering(c)' : task'[k].user = task'[g].user
  <2>1. CASE c # d
    BY <1>2, <1>3, <2>1 DEF DeviceInv
  <2>2. CASE c = d
    <3>1. \A q \in Of(d)' : q.user = task[h].user
      BY <1>2, <1>3, <2>2 DEF DeviceInv
    <3>2. \A g \in Registering(d)' : task'[g].user = task[h].user
      BY <1>2, <1>3, <2>2 DEF DeviceInv
    <3> QED BY <2>2, <3>1, <3>2
  <2> QED BY <2>1, <2>2
<1>5. IsFiniteSet(devices')
  BY <1>2, FS_AddElement DEF DeviceInv
<1>6. \A c \in Device \ overlapped' : \A g \in Revoking(c)' :
        /\ [device |-> c, user |-> task'[g].user] \in devices'
        /\ \A k \in Revoking(c)' : k = g
  BY <1>2, <1>3 DEF DeviceInv
<1> QED BY <1>2, <1>4, <1>5, <1>6 DEF DeviceInv

\* A device has at most one row where its rows are one user's.
LEMMA RowsAlike ==
  ASSUME devices \subseteq Registration, NEW d \in Device
  PROVE  /\ (\A r, s \in Of(d) : r.user = s.user) => Unique(d)
         /\ IsFiniteSet(Of(d)) /\ Unique(d) => \A r, s \in Of(d) : r = s
<1>1. ASSUME NEW r \in Of(d), NEW s \in Of(d), r.user = s.user
      PROVE  r = s
  <2>1. r = [device |-> d, user |-> r.user] /\ s = [device |-> d, user |-> s.user]
    BY DEF Of, Registration
  <2> QED BY <1>1, <2>1
<1>2. ASSUME \A r, s \in Of(d) : r = s
      PROVE  Unique(d)
  <2>1. CASE Of(d) = {}
    BY <2>1, FS_EmptySet DEF Unique
  <2>2. CASE Of(d) # {}
    <3>1. PICK r : r \in Of(d)
      BY <2>2
    <3>2. Of(d) = {r}
      BY <1>2, <3>1
    <3> QED BY <3>2, FS_Singleton DEF Unique
  <2> QED BY <2>1, <2>2
<1>3. ASSUME IsFiniteSet(Of(d)), Unique(d), NEW r \in Of(d), NEW s \in Of(d), r # s
      PROVE  FALSE
  <2>1. {r, s} \subseteq Of(d)
    BY <1>3
  <2>2. Cardinality({r, s}) <= Cardinality(Of(d)) /\ IsFiniteSet({r, s})
    BY <1>3, <2>1, FS_Subset
  <2>3. Cardinality({r, s}) = 2
    <3>1. {r, s} = {s} \union {r} /\ r \notin {s}
      BY <1>3
    <3>2. IsFiniteSet({s}) /\ Cardinality({s}) = 1
      BY FS_Singleton
    <3> QED BY <3>1, <3>2, FS_AddElement
  <2>4. Cardinality(Of(d)) \in Nat
    BY <1>3, FS_CardinalityType
  <2> QED BY <1>3, <2>2, <2>3, <2>4 DEF Unique
<1> QED BY <1>1, <1>2, <1>3

\* A revocation reads its row, and is alone with the device or notes it.
LEMMA CheckKeeps ==
  ASSUME TypeInv, DeviceInv, NEW h \in Handler, Moves(h),
         NEW u \in User, NEW d \in Device, CheckDeviceOwner(h, u, d)
  PROVE  DeviceInv'
<1>1. PICK t : t = [kind |-> "revoke", user |-> u, device |-> d]
  OBVIOUS
<1>2. /\ UNCHANGED <<devices, raced, robbed>> /\ overlapped \subseteq overlapped'
      /\ pc'[h] = "delete" /\ task'[h] = t
      /\ d \notin overlapped' => Revoking(d) = {}
      /\ [device |-> d, user |-> u] \in devices /\ t.user = u /\ t.device = d
  BY <1>1, Starting DEF CheckDeviceOwner, TypeInv
<1>3. ASSUME NEW c \in Device
      PROVE  /\ Registering(c)' \subseteq Registering(c) /\ Of(c)' = Of(c)
             /\ h \notin Registering(c)'
             /\ \A g \in Registering(c)' : task'[g] = task[g]
             /\ \A g \in Revoking(c)' :
                  (g = h /\ c = d) \/ (g \in Revoking(c) /\ task'[g] = task[g])
  BY <1>2 DEF Moves, Registering, Revoking, Of
<1>4. ASSUME NEW c \in Device \ overlapped', NEW g \in Revoking(c)'
      PROVE  /\ [device |-> c, user |-> task'[g].user] \in devices'
             /\ \A k \in Revoking(c)' : k = g
  <2>1. CASE c = d
    BY <1>2, <1>3, <1>4, <2>1
  <2>2. CASE c # d
    BY <1>2, <1>3, <1>4, <2>2 DEF DeviceInv
  <2> QED BY <2>1, <2>2
<1> QED BY <1>2, <1>3, <1>4 DEF DeviceInv

\* A revocation removes the row it has checked, or nothing.
LEMMA DeleteKeeps ==
  ASSUME TypeInv, DeviceInv, NEW h \in Handler, Moves(h), DeleteDevice(h)
  PROVE  DeviceInv'
<1>1. PICK d : d = task[h].device
  OBVIOUS
<1>2. /\ UNCHANGED <<raced, overlapped>> /\ pc'[h] = "idle" /\ h \in Revoking(d) /\ d \in Device
      /\ devices' = IF Unique(d) THEN devices \ Of(d) ELSE devices
      /\ robbed' = IF Unique(d) /\ \E r \in Of(d) : r.user # task[h].user
                     THEN robbed \union {d} ELSE robbed
  BY <1>1, Ending, AtStage DEF DeleteDevice, TypeInv, RevokeTask, Revoking
<1>3. ASSUME NEW c \in Device
      PROVE  /\ Registering(c)' \subseteq Registering(c)
             /\ Revoking(c)' \subseteq Revoking(c) /\ h \notin Revoking(c)'
             /\ \A g \in Registering(c)' \union Revoking(c)' : task'[g] = task[g]
             /\ Of(c)' \subseteq Of(c)
  BY <1>2 DEF Moves, Registering, Revoking, Of
<1>4. ASSUME NEW c \in Device \ overlapped', NEW g \in Revoking(c)'
      PROVE  /\ [device |-> c, user |-> task'[g].user] \in devices'
             /\ \A k \in Revoking(c)' : k = g
  <2>1. c # d
    BY <1>2, <1>3, <1>4 DEF DeviceInv
  <2>2. [device |-> c, user |-> task[g].user] \notin Of(d)
    BY <2>1 DEF Of
  <2> QED BY <1>2, <1>3, <1>4, <2>2 DEF DeviceInv
<1>5. IsFiniteSet(devices') /\ IsFiniteSet(Of(d))
  <2>1. devices' \in SUBSET devices /\ Of(d) \in SUBSET devices
    BY <1>2 DEF Of
  <2> QED BY <2>1, FS_Subset DEF DeviceInv
<1>6. robbed' \subseteq overlapped'
  <2>1. ASSUME Unique(d), d \notin overlapped
        PROVE  \A r \in Of(d) : r.user = task[h].user
    <3>1. PICK q : q = [device |-> d, user |-> task[h].user]
      OBVIOUS
    <3>2. q \in Of(d) /\ q.user = task[h].user
      BY <1>2, <2>1, <3>1 DEF DeviceInv, Of
    <3>3. devices \subseteq Registration
      BY DEF TypeInv, DevicesTypeOK
    <3>4. \A r \in Of(d) : r = q
      BY <1>2, <1>5, <2>1, <3>2, <3>3, RowsAlike
    <3> QED BY <3>2, <3>4
  <2> QED BY <1>2, <2>1 DEF DeviceInv
<1> QED BY <1>2, <1>3, <1>4, <1>5, <1>6 DEF DeviceInv

\* The stage that a step leaves its handler at, where it writes no device.
LEMMA OtherSteps ==
  ASSUME TypeInv, NEW h \in Handler,
         \/ SocialStep(h) \/ Fail(h) \/ SaveSecret(h) \/ EnableMfa(h)
         \/ \E u \in User : StartSetup(h, u) \/ CheckTotp(h, u)
  PROVE  UNCHANGED deviceVars /\ pc'[h] \notin {"register", "delete"}
<1>0. Handling
  BY DEF TypeInv
<1>1. CASE \E a \in Account, e \in MaybeEmail, d \in Device : StartSocial(h, a, e, d)
  BY <1>0, <1>1, Starting DEF StartSocial
<1>2. CASE FindUser(h)
  BY <1>0, <1>2, Going DEF FindUser, Answered
<1>3. CASE MakeUser(h)
  BY <1>0, <1>3, Going DEF MakeUser, Answered
<1>4. CASE CallFails(h)
  BY <1>0, <1>4, Going DEF CallFails
<1>5. CASE ReadLink(h)
  <2>1. pc'[h] = "save"
    BY <1>0, <1>5, Going DEF ReadLink
  <2> QED BY <1>5, <2>1 DEF ReadLink
<1>6. CASE SaveLink(h)
  BY <1>0, <1>6, Going, Ending DEF SaveLink
<1>7. CASE \E kind \in {"profile", "register"}, u \in 1 .. MaxUsers, e \in Email :
             CheckEmail(h, kind, u, e)
  BY <1>0, <1>7, Starting DEF CheckEmail
<1>8. CASE UpdateUser(h)
  BY <1>0, <1>8, Ending DEF UpdateUser
<1>9. CASE Fail(h) \/ SaveSecret(h) \/ EnableMfa(h)
  BY <1>0, <1>9, Ending DEF Fail, Quit, SaveSecret, EnableMfa, deviceVars
<1>10. CASE \E u \in User : StartSetup(h, u) \/ CheckTotp(h, u)
  BY <1>0, <1>10, Starting DEF StartSetup, CheckTotp, deviceVars
<1> QED BY <1>1, <1>2, <1>3, <1>4, <1>5, <1>6, <1>7, <1>8, <1>9, <1>10 DEF SocialStep

LEMMA DeviceStepKeeps ==
  ASSUME TypeInv, DeviceInv, [Next]_vars
  PROVE  DeviceInv'
<1>1. CASE UNCHANGED vars
  BY <1>1 DEF vars, deviceVars, DeviceInv, Of, Registering, Revoking
<1>2. ASSUME NEW h \in Handler, SocialStep(h) \/ (DeviceStep(h) /\ UNCHANGED socialVars)
      PROVE  DeviceInv'
  <2>1. Moves(h)
    BY <1>2, TypeStep
  <2>2. CASE SocialStep(h)
    BY <2>1, <2>2, OtherSteps, DeviceKept
  <2>3. CASE DeviceStep(h)
    BY <2>1, <2>3, OtherSteps, DeviceKept, LookKeeps, InsertKeeps, CheckKeeps, DeleteKeeps
      DEF DeviceStep
  <2> QED BY <1>2, <2>2, <2>3
<1> QED BY <1>1, <1>2 DEF Next

\* A device has one registration unless two users registered it together, and
\* only overlapping revocations take one from another user, for any number of
\* logins and revocations at once (lines 50 and 93 of services/device_service.py).
THEOREM SocialDeviceRows == Spec => []DeviceRowsSound
<1>1. Init => DeviceInv
  BY FS_EmptySet DEF Init, DevicesInit, HandlersInit, DeviceInv, Of, Registering, Revoking
<1>2. TypeInv /\ DeviceInv /\ [Next]_vars => DeviceInv'
  BY DeviceStepKeeps
<1>3. TypeInv /\ DeviceInv => DeviceRowsSound
  BY RowsAlike DEF TypeInv, DevicesTypeOK, DeviceInv, DeviceRowsSound
<1> QED BY <1>1, <1>2, <1>3, Typed, PTL DEF Spec

-----------------------------------------------------------------------------
(* MFA *)

\* Steps that leave the secrets alone.
LEMMA MfaElsewhere ==
  ASSUME TypeInv, NEW h \in Handler,
         \/ SocialStep(h) \/ LookDevice(h) \/ InsertDevice(h) \/ DeleteDevice(h) \/ Fail(h)
         \/ \E u \in User, d \in Device : CheckDeviceOwner(h, u, d)
  PROVE  UNCHANGED mfaVars /\ pc'[h] # "enable"
<1>0. Handling
  BY DEF TypeInv
<1>1. CASE \E a \in Account, e \in MaybeEmail, d \in Device : StartSocial(h, a, e, d)
  BY <1>0, <1>1, Starting DEF StartSocial
<1>2. CASE FindUser(h)
  BY <1>0, <1>2, Going DEF FindUser, Answered
<1>3. CASE MakeUser(h)
  BY <1>0, <1>3, Going DEF MakeUser, Answered
<1>4. CASE CallFails(h)
  BY <1>0, <1>4, Going DEF CallFails
<1>5. CASE ReadLink(h)
  <2>1. pc'[h] = "save"
    BY <1>0, <1>5, Going DEF ReadLink
  <2> QED BY <1>5, <2>1 DEF ReadLink
<1>6. CASE SaveLink(h)
  BY <1>0, <1>6, Going, Ending DEF SaveLink
<1>7. CASE \E kind \in {"profile", "register"}, u \in 1 .. MaxUsers, e \in Email :
             CheckEmail(h, kind, u, e)
  BY <1>0, <1>7, Starting DEF CheckEmail
<1>8. CASE UpdateUser(h)
  BY <1>0, <1>8, Ending DEF UpdateUser
<1>9. CASE LookDevice(h)
  BY <1>0, <1>9, Going, Ending DEF LookDevice
<1>10. CASE InsertDevice(h) \/ DeleteDevice(h) \/ Fail(h)
  BY <1>0, <1>10, Ending DEF InsertDevice, DeleteDevice, Fail, Quit
<1>11. CASE \E u \in User, d \in Device : CheckDeviceOwner(h, u, d)
  BY <1>0, <1>11, Starting DEF CheckDeviceOwner
<1> QED BY <1>1, <1>2, <1>3, <1>4, <1>5, <1>6, <1>7, <1>8, <1>9, <1>10, <1>11 DEF SocialStep

\* Whoever is verifying after a step was so before, or is the one that moved.
LEMMA VerifyingMoves ==
  ASSUME NEW h \in Handler, Moves(h), NEW u \in User
  PROVE  /\ Verifying(u)' \subseteq Verifying(u) \union {h}
         /\ pc'[h] # "enable" => Verifying(u)' \subseteq Verifying(u)
         /\ pc'[h] = "enable" /\ task'[h].user # u => Verifying(u)' \subseteq Verifying(u)
BY DEF Moves, Verifying

\* A setup replaces a secret, and is noted where that is in use, or makes a row
\* that nobody has verified against.
LEMMA SaveSecretKeeps ==
  ASSUME TypeInv, MfaInv, NEW h \in Handler, Moves(h), SaveSecret(h)
  PROVE  MfaInv'
<1>0. Handling /\ mfa \in [User -> MfaConfig]
  BY DEF TypeInv, DevicesTypeOK
<1>u. PICK u : u = task[h].user
  OBVIOUS
<1>1. u \in User /\ pc'[h] = "idle" /\ proven' = proven /\ replaced \subseteq replaced'
  BY <1>0, <1>u, AtStage, Ending DEF SaveSecret, MfaTask
<1>2. ASSUME NEW v \in User \ replaced', mfa'[v].enabled \/ Verifying(v)' # {}
      PROVE  mfa'[v].secret \in proven'
  <2>0. Verifying(v)' \subseteq Verifying(v)
    BY <1>1, VerifyingMoves
  <2>1. CASE mfa'[v] = mfa[v]
    BY <1>1, <1>2, <2>0, <2>1 DEF MfaInv
  <2>2. CASE v = u /\ task[h].found
    <3>1. ~ mfa[v].enabled /\ Verifying(v) = {}
      BY <1>2, <1>u, <2>2 DEF SaveSecret
    <3>2. mfa' = [mfa EXCEPT ![v].secret = task[h].secret]
      BY <1>u, <2>2 DEF SaveSecret
    <3>3. mfa'[v].enabled = mfa[v].enabled
      BY <1>0, <3>2 DEF MfaConfig
    <3> QED BY <1>2, <2>0, <3>1, <3>3
  <2>3. CASE v = u /\ ~ task[h].found /\ mfa[u].secret = 0
    <3>1. mfa'[v].enabled = FALSE
      BY <1>0, <1>u, <1>1, <2>3 DEF SaveSecret
    <3>2. Verifying(v) = {}
      BY <1>0, <2>3, AtStage DEF Verifying
    <3> QED BY <1>2, <2>0, <3>1, <3>2
  <2>4. v # u \/ UNCHANGED mfa => mfa'[v] = mfa[v]
    BY <1>0, <1>u, <1>1 DEF SaveSecret
  <2> QED BY <1>u, <2>1, <2>2, <2>3, <2>4 DEF SaveSecret
<1> QED BY <1>2 DEF MfaInv

\* A code that is right proves the secret of the row.
LEMMA CheckTotpKeeps ==
  ASSUME TypeInv, MfaInv, NEW h \in Handler, Moves(h), NEW u \in User, CheckTotp(h, u)
  PROVE  MfaInv'
<1>1. PICK t : t = [kind |-> "mfa", user |-> u, secret |-> mfa[u].secret, found |-> TRUE]
  OBVIOUS
<1>2. /\ pc'[h] = "enable" /\ task'[h].user = u
      /\ UNCHANGED <<mfa, replaced>> /\ proven' = proven \union {mfa[u].secret}
  BY <1>1, Starting DEF CheckTotp, TypeInv
<1>3. ASSUME NEW v \in User \ {u}
      PROVE  Verifying(v)' \subseteq Verifying(v)
  BY <1>2, <1>3, VerifyingMoves
<1> QED BY <1>2, <1>3 DEF MfaInv

\* The row is enabled by one who has verified a code.
LEMMA EnableKeeps ==
  ASSUME TypeInv, MfaInv, NEW h \in Handler, Moves(h), EnableMfa(h)
  PROVE  MfaInv'
<1>0. Handling /\ mfa \in [User -> MfaConfig]
  BY DEF TypeInv, DevicesTypeOK
<1>u. PICK u : u = task[h].user
  OBVIOUS
<1>1. /\ u \in User /\ pc'[h] = "idle" /\ UNCHANGED <<proven, replaced>>
      /\ h \in Verifying(u) /\ mfa' = [mfa EXCEPT ![u].enabled = TRUE]
  BY <1>0, <1>u, AtStage, Ending DEF EnableMfa, MfaTask, Verifying
<1>2. \A v \in User : mfa'[v].secret = mfa[v].secret /\ (v # u => mfa'[v] = mfa[v])
  BY <1>0, <1>1 DEF MfaConfig
<1>3. \A v \in User : Verifying(v)' \subseteq Verifying(v)
  BY <1>1, VerifyingMoves
<1> QED BY <1>1, <1>2, <1>3 DEF MfaInv

LEMMA MfaStepKeeps ==
  ASSUME TypeInv, MfaInv, [Next]_vars
  PROVE  MfaInv'
<1>1. CASE UNCHANGED vars
  BY <1>1 DEF vars, mfaVars, MfaInv, Verifying
<1>2. ASSUME NEW h \in Handler, SocialStep(h) \/ (DeviceStep(h) /\ UNCHANGED socialVars)
      PROVE  MfaInv'
  <2>1. Moves(h)
    BY <1>2, TypeStep
  <2>2. ASSUME UNCHANGED mfaVars, pc'[h] # "enable"
        PROVE  MfaInv'
    <3>1. \A u \in User : Verifying(u)' \subseteq Verifying(u)
      BY <2>1, <2>2, VerifyingMoves
    <3> QED BY <2>2, <3>1 DEF MfaInv, mfaVars
  <2>3. ASSUME NEW u \in User, StartSetup(h, u)
        PROVE  MfaInv'
    <3>1. /\ pc'[h] = "secret" /\ UNCHANGED <<mfa, proven, replaced>>
      BY <2>3, Starting DEF StartSetup, TypeInv
    <3>2. \A v \in User : Verifying(v)' \subseteq Verifying(v)
      BY <2>1, <3>1, VerifyingMoves
    <3> QED BY <3>1, <3>2 DEF MfaInv
  <2> QED BY <1>2, <2>1, <2>2, <2>3, MfaElsewhere, SaveSecretKeeps, CheckTotpKeeps, EnableKeeps
        DEF DeviceStep
<1> QED BY <1>1, <1>2 DEF Next

\* MFA that is enabled is enabled with a secret that a code was verified
\* against, unless MFA was set up again since, however setups and verifications
\* of the user overlap (MfaRepository.enable, at line 118 of
\* repositories/auth.py, names the user and not the secret).
THEOREM SocialEnabledSecrets == Spec => []EnabledSecretProven
<1>1. Init => MfaInv
  BY DEF Init, DevicesInit, HandlersInit, MfaInv, NoConfig, Verifying
<1>2. TypeInv /\ MfaInv /\ [Next]_vars => MfaInv'
  BY MfaStepKeeps
<1>3. MfaInv => EnabledSecretProven
  BY DEF MfaInv, EnabledSecretProven
<1> QED BY <1>1, <1>2, <1>3, Typed, PTL DEF Spec


-----------------------------------------------------------------------------
(* Links *)

\* An account that is linked, or about to be linked, to a user is so to an
\* inserted one or to nobody of user-service.
LEMMA LinkTypes ==
  ASSUME TypeInv
  PROVE  /\ \A i \in 1 .. Len(users) : users[i].email \in MaybeEmail
         /\ \A a \in Account : presented[a] \in MaybeEmail
         /\ \A h \in Handler : pc[h] \in LoginStages =>
              /\ task[h].account \in Account /\ task[h].email \in MaybeEmail
              /\ task[h].account \notin 1 .. Len(users)
<1>1. \A i \in 1 .. Len(users) : users[i].email \in MaybeEmail
  <2>1. users \in Seq(UserRow)
    BY DEF TypeInv, UsersOK
  <2>2. \A i \in 1 .. Len(users) : users[i] \in UserRow
    BY <2>1
  <2> QED BY <2>2 DEF UserRow
<1>2. \A i \in 1 .. Len(users) : i \in 1 .. MaxUsers
  BY SocialAssumption DEF TypeInv, UsersOK
<1>3. ASSUME NEW h \in Handler, pc[h] \in LoginStages
      PROVE  /\ task[h].account \in Account /\ task[h].email \in MaybeEmail
             /\ task[h].account \notin 1 .. Len(users)
  BY <1>2, <1>3, SocialAssumption, AtStage DEF TypeInv, LoginTask
<1>4. \A a \in Account : presented[a] \in MaybeEmail
  BY DEF TypeInv, LinksOK
<1> QED BY <1>1, <1>3, <1>4

\* A step that writes nothing: its handler goes on with the user it had, with
\* none of user-service, or with one that has had its e-mail.
LEMMA LinkStill ==
  ASSUME TypeInv, LinkInv, NEW h \in Handler, Moves(h), UNCHANGED socialVars,
         pc'[h] \in {"find", "make"} => task'[h].user = task'[h].account,
         pc'[h] \in {"link", "save"} =>
           \/ task'[h].user \notin 1 .. Len(users)
           \/ /\ pc[h] \in {"link", "save"} /\ task'[h].user = task[h].user
              /\ task'[h].account = task[h].account /\ task'[h].email = task[h].email
           \/ /\ task'[h].email # NoEmail
              /\ task'[h].user \in had[task'[h].email]
  PROVE  LinkInv'
<1>1. UNCHANGED <<users, links, presented, had>>
  BY DEF socialVars
<1>2. ASSUME NEW a \in Account, NEW i \in 1 .. Len(users), NEW g \in Linking(a, i)'
      PROVE  \/ g \in Linking(a, i) /\ task'[g].email = task[g].email
             \/ task'[g].email # NoEmail /\ i \in had[task'[g].email]
  <2>1. CASE g # h
    BY <1>2, <2>1 DEF Moves, Linking
  <2>2. CASE g = h
    BY <1>2, <2>2 DEF Linking
  <2> QED BY <2>1, <2>2
<1>3. ASSUME NEW i \in 1 .. Len(users)
      PROVE  Nameless(i)' \subseteq Nameless(i)
  BY <1>1, <1>2 DEF Nameless
<1>4. \A g \in Handler : pc'[g] \in {"find", "make"} => task'[g].user = task'[g].account
  BY DEF Moves, LinkInv
<1>5. \A i \in 1 .. Len(users') :
        /\ users'[i].email # NoEmail => i \in had'[users'[i].email]
        /\ \A a, b \in Nameless(i)' : a = b
  BY <1>1, <1>3 DEF LinkInv
<1>6. \A a \in Account : \A i \in 1 .. Len(users') :
        /\ links'[a] = i /\ presented'[a] # NoEmail => i \in had'[presented'[a]]
        /\ \A g \in Linking(a, i)' : task'[g].email # NoEmail => i \in had'[task'[g].email]
  BY <1>1, <1>2 DEF LinkInv
<1> QED BY <1>4, <1>5, <1>6 DEF LinkInv

\* Users are only added to the history of an e-mail.
LEMMA HadGrows ==
  ASSUME UsersOK, NEW e \in MaybeEmail, NEW u, Held(e, u)
  PROVE  /\ \A f \in Email : had[f] \subseteq had'[f]
         /\ e # NoEmail => u \in had'[e]
BY DEF UsersOK, Held, MaybeEmail

\* The steps of a login before its link that write nothing.
LEMMA FindKeeps ==
  ASSUME TypeInv, LinkInv, NEW h \in Handler, Moves(h),
         \/ FindUser(h) \/ CallFails(h) \/ ReadLink(h)
         \/ \E a \in Account, e \in MaybeEmail, d \in Device : StartSocial(h, a, e, d)
  PROVE  LinkInv'
<1>0. Handling /\ UNCHANGED socialVars
  BY DEF TypeInv, FindUser, CallFails, ReadLink, StartSocial
<1>1. ASSUME NEW a \in Account, NEW e \in MaybeEmail, NEW d \in Device, StartSocial(h, a, e, d)
      PROVE  LinkInv'
  <2>1. PICK t : t = [kind |-> "social", account |-> a, email |-> e, user |-> a,
                      device |-> d, found |-> NoUser]
    OBVIOUS
  <2>2. pc'[h] = "find" /\ task'[h] = t
    BY <1>0, <1>1, <2>1, Starting DEF StartSocial
  <2> QED BY <1>0, <2>1, <2>2, LinkStill
<1>2. CASE CallFails(h)
  <2>1. pc'[h] = "link" /\ task'[h] = task[h] /\ pc[h] \in {"find", "make"}
    BY <1>0, <1>2, Going DEF CallFails
  <2>2. task[h].user \notin 1 .. Len(users)
    BY <2>1, LinkTypes DEF LinkInv, LoginStages
  <2> QED BY <1>0, <2>1, <2>2, LinkStill
<1>3. CASE ReadLink(h)
  <2>1. pc'[h] = "save" /\ pc[h] = "link"
    BY <1>0, <1>3, Going DEF ReadLink
  <2>2. task'[h] = [task[h] EXCEPT !.found = links[task[h].account]]
    BY <1>0, <1>3 DEF ReadLink, Handling
  <2>3. task[h] \in LoginTask
    BY <1>0, <2>1, AtStage DEF LoginStages
  <2>4. /\ task'[h].user = task[h].user /\ task'[h].email = task[h].email
        /\ task'[h].account = task[h].account
    BY <2>2, <2>3 DEF LoginTask
  <2> QED BY <1>0, <2>1, <2>4, LinkStill
<1>4. CASE FindUser(h)
  <2>0. pc[h] = "find" /\ task[h] \in LoginTask
    BY <1>0, <1>4, AtStage DEF FindUser, LoginStages
  <2>1. CASE Goto(h, "make") /\ UNCHANGED task
    <3>1. pc'[h] = "make" /\ task'[h] = task[h]
      BY <1>0, <2>1, Going
    <3> QED BY <1>0, <2>0, <3>1, LinkStill DEF LinkInv
  <2>2. ASSUME NEW u \in Owners(task[h].email), Answered(h, u)
        PROVE  LinkInv'
    <3>1. pc'[h] = "link" /\ task'[h] = [task[h] EXCEPT !.user = u]
      <4>1. pc'[h] = "link"
        BY <1>0, <2>2, Going DEF Answered
      <4> QED BY <1>0, <2>2, <4>1 DEF Answered, Handling
    <3>2. task'[h].user = u /\ task'[h].email = task[h].email
      BY <2>0, <3>1 DEF LoginTask
    <3>3. task[h].email # NoEmail /\ u \in had[task[h].email]
      BY <2>2 DEF Owners, LinkInv
    <3> QED BY <1>0, <3>1, <3>2, <3>3, LinkStill
  <2> QED BY <1>4, <2>1, <2>2 DEF FindUser
<1> QED BY <1>1, <1>2, <1>3, <1>4

\* A new user has the e-mail of the login, which alone may link to it.
LEMMA MakeKeeps ==
  ASSUME TypeInv, LinkInv, NEW h \in Handler, Moves(h), MakeUser(h)
  PROVE  LinkInv'
<1>n. PICK n : n = Len(users) + 1
  OBVIOUS
<1>e. PICK e : e = task[h].email
  OBVIOUS
<1>a. PICK c : c = task[h].account
  OBVIOUS
<1>0. Handling /\ UsersOK /\ LinksOK /\ Len(users) \in Nat
  BY DEF TypeInv, UsersOK
<1>1. /\ pc[h] = "make" /\ AddUser(e) /\ UNCHANGED <<links, presented>>
      /\ task[h] \in LoginTask /\ e \in MaybeEmail /\ c \in Account
      /\ n \in 1 .. MaxUsers
  BY <1>0, <1>n, <1>e, <1>a, AtStage, SocialAssumption DEF MakeUser, AddUser, LoginStages, LoginTask
<1>2. /\ Len(users') = n /\ users'[n].email = e
      /\ \A i \in 1 .. Len(users) : users'[i] = users[i]
  BY <1>0, <1>1, <1>n, AddedUser
<1>3. /\ \A f \in Email : had[f] \subseteq had'[f]
      /\ e # NoEmail => n \in had'[e]
  BY <1>0, <1>1, <1>n, HadGrows DEF AddUser
<1>4. /\ pc'[h] = "link" /\ task'[h].email = e /\ task'[h].account = c
      /\ task'[h].user \notin 1 .. Len(users)
  <2>1. CASE Answered(h, n)
    <3>1. pc'[h] = "link"
      BY <1>0, <2>1, Going DEF Answered
    <3>2. task'[h] = [task[h] EXCEPT !.user = n]
      BY <1>0, <2>1 DEF Answered, Handling
    <3>3. task'[h].user = n /\ task'[h].email = e /\ task'[h].account = c
      BY <1>1, <1>e, <1>a, <3>2 DEF LoginTask
    <3> QED BY <1>0, <1>n, <3>1, <3>3
  <2>2. CASE Goto(h, "link") /\ UNCHANGED task
    <3>1. pc'[h] = "link" /\ task'[h] = task[h]
      BY <1>0, <2>2, Going
    <3>2. task[h].user \notin 1 .. Len(users)
      BY <1>1, LinkTypes DEF LinkInv, LoginStages
    <3> QED BY <1>e, <1>a, <3>1, <3>2
  <2> QED BY <1>n, <2>1, <2>2 DEF MakeUser
<1>5. 1 .. Len(users') = 1 .. Len(users) \union {n}
  BY <1>0, <1>n, <1>2
<1>6. ASSUME NEW a \in Account, NEW i \in 1 .. Len(users), NEW g \in Linking(a, i)'
      PROVE  g \in Linking(a, i) /\ task'[g].email = task[g].email
  <2>1. g # h
    BY <1>4, <1>6 DEF Linking
  <2> QED BY <1>6, <2>1 DEF Moves, Linking
<1>7. \A a \in Account : links[a] # n
  BY <1>0, <1>1, <1>n, SocialAssumption DEF LinksOK
<1>8. ASSUME NEW a \in Account, NEW g \in Linking(a, n)'
      PROVE  g = h /\ a = c
  <2>1. ASSUME g # h
        PROVE  FALSE
    <3>1. g \in Handler /\ pc[g] \in LoginStages /\ task[g].user = n
      BY <1>8, <2>1 DEF Moves, Linking, LoginStages
    <3>2. task[g].user \in {task[g].account} \union 1 .. Len(users) /\ task[g].account \in Account
      BY <1>0, <3>1, AtStage DEF LoginTask
    <3> QED BY <1>0, <1>1, <1>n, <3>1, <3>2, SocialAssumption
  <2> QED BY <1>4, <1>8, <2>1 DEF Linking
<1>9. \A i \in 1 .. Len(users') :
        /\ users'[i].email # NoEmail => i \in had'[users'[i].email]
        /\ \A a, b \in Nameless(i)' : a = b
  <2>1. ASSUME NEW i \in 1 .. Len(users)
        PROVE  /\ users'[i].email # NoEmail => i \in had'[users'[i].email]
               /\ \A a, b \in Nameless(i)' : a = b
    <3>1. Nameless(i)' \subseteq Nameless(i)
      BY <1>1, <1>6 DEF Nameless
    <3>2. users[i].email \in MaybeEmail
      BY LinkTypes
    <3> QED BY <1>2, <1>3, <3>1, <3>2 DEF LinkInv, MaybeEmail
  <2>2. \A a, b \in Nameless(n)' : a = b
    BY <1>1, <1>7, <1>8 DEF Nameless
  <2> QED BY <1>2, <1>3, <1>5, <2>1, <2>2
<1>10. \A a \in Account : \A i \in 1 .. Len(users') :
        /\ links'[a] = i /\ presented'[a] # NoEmail => i \in had'[presented'[a]]
        /\ \A g \in Linking(a, i)' : task'[g].email # NoEmail => i \in had'[task'[g].email]
  <2>1. ASSUME NEW a \in Account, NEW i \in 1 .. Len(users)
        PROVE  /\ links'[a] = i /\ presented'[a] # NoEmail => i \in had'[presented'[a]]
               /\ \A g \in Linking(a, i)' : task'[g].email # NoEmail => i \in had'[task'[g].email]
    <3>1. presented[a] \in MaybeEmail
      BY LinkTypes
    <3>2. \A g \in Linking(a, i) : task[g].email \in MaybeEmail
      BY LinkTypes DEF Linking, LoginStages
    <3> QED BY <1>1, <1>3, <1>6, <3>1, <3>2 DEF LinkInv, MaybeEmail
  <2> QED BY <1>1, <1>3, <1>4, <1>5, <1>7, <1>8, <2>1
<1>11. \A g \in Handler : pc'[g] \in {"find", "make"} => task'[g].user = task'[g].account
  BY <1>4 DEF Moves, LinkInv
<1> QED BY <1>9, <1>10, <1>11 DEF LinkInv


\* The link that is saved is the one that the login was about to save.
LEMMA SaveKeeps ==
  ASSUME TypeInv, LinkInv, NEW h \in Handler, Moves(h), SaveLink(h)
  PROVE  LinkInv'
<1>t. PICK t : t = task[h]
  OBVIOUS
<1>0. Handling /\ LinksOK
  BY DEF TypeInv
<1>1. /\ pc[h] = "save" /\ UNCHANGED <<users, had>> /\ t.account \in Account
      /\ pc'[h] \in {"device", "idle"}
  BY <1>0, <1>t, AtStage, Going, Ending DEF SaveLink, LoginStages, LoginTask
<1>2. ASSUME NEW a \in Account, NEW i \in 1 .. Len(users)
      PROVE  /\ Linking(a, i)' \subseteq Linking(a, i)
             /\ \A g \in Linking(a, i)' : task'[g] = task[g]
  BY <1>1 DEF Moves, Linking
<1>3. ASSUME NEW a \in Account, NEW i \in 1 .. Len(users), links'[a] = i
      PROVE  \/ links[a] = i /\ presented'[a] = presented[a]
             \/ h \in Linking(a, i) /\ presented'[a] = task[h].email
  <2>1. CASE UNCHANGED <<links, presented>>
    BY <1>3, <2>1
  <2>2. CASE /\ links' = [links EXCEPT ![t.account] = t.user]
             /\ presented' = [presented EXCEPT ![t.account] = t.email]
    <3>1. CASE a = t.account
      BY <1>0, <1>1, <1>3, <1>t, <2>2, <3>1 DEF LinksOK, Linking
    <3>2. CASE a # t.account
      BY <1>0, <1>1, <1>3, <2>2, <3>2 DEF LinksOK
    <3> QED BY <3>1, <3>2
  <2> QED BY <1>t, <2>1, <2>2 DEF SaveLink
<1>4. ASSUME NEW i \in 1 .. Len(users)
      PROVE  Nameless(i)' \subseteq Nameless(i)
  BY <1>1, <1>2, <1>3 DEF Nameless
<1>5. \A g \in Handler : pc'[g] \in {"find", "make"} => task'[g].user = task'[g].account
  BY <1>1 DEF Moves, LinkInv
<1>6. \A i \in 1 .. Len(users') :
        /\ users'[i].email # NoEmail => i \in had'[users'[i].email]
        /\ \A a, b \in Nameless(i)' : a = b
  BY <1>1, <1>4 DEF LinkInv
<1>7. \A a \in Account : \A i \in 1 .. Len(users') :
        /\ links'[a] = i /\ presented'[a] # NoEmail => i \in had'[presented'[a]]
        /\ \A g \in Linking(a, i)' : task'[g].email # NoEmail => i \in had'[task'[g].email]
  BY <1>1, <1>2, <1>3 DEF LinkInv
<1> QED BY <1>5, <1>6, <1>7 DEF LinkInv

\* A user that changes its e-mail has had the old one.
LEMMA UpdateKeeps ==
  ASSUME TypeInv, LinkInv, NEW h \in Handler, Moves(h), UpdateUser(h)
  PROVE  LinkInv'
<1>0. Handling /\ UsersOK
  BY DEF TypeInv
<1>1. /\ pc[h] = "update" /\ pc'[h] = "idle" /\ UNCHANGED <<links, presented>>
      /\ task[h] \in UpdateTask /\ task[h].user <= Len(users)
  BY <1>0, AtStage, Ending DEF UpdateUser
<1>2. /\ Len(users') = Len(users)
      /\ \A e \in Email : had[e] \subseteq had'[e]
      /\ \A i \in 1 .. Len(users) :
           users'[i].email # users[i].email => i \in had'[users'[i].email]
  BY <1>0, <1>1, UpdatedUser
<1>3. ASSUME NEW a \in Account, NEW i \in 1 .. Len(users)
      PROVE  /\ Linking(a, i)' \subseteq Linking(a, i)
             /\ \A g \in Linking(a, i)' : task'[g] = task[g] /\ task[g].email \in MaybeEmail
  <2>1. Linking(a, i)' \subseteq Linking(a, i) /\ \A g \in Linking(a, i)' : task'[g] = task[g]
    BY <1>1 DEF Moves, Linking
  <2> QED BY <2>1, LinkTypes DEF Linking, LoginStages
<1>4. ASSUME NEW i \in 1 .. Len(users)
      PROVE  Nameless(i)' \subseteq Nameless(i)
  BY <1>1, <1>3 DEF Nameless
<1>5. \A g \in Handler : pc'[g] \in {"find", "make"} => task'[g].user = task'[g].account
  BY <1>1 DEF Moves, LinkInv
<1>6. \A i \in 1 .. Len(users') :
        /\ users'[i].email # NoEmail => i \in had'[users'[i].email]
        /\ \A a, b \in Nameless(i)' : a = b
  <2>1. \A i \in 1 .. Len(users) : users[i].email \in MaybeEmail
    BY LinkTypes
  <2> QED BY <1>2, <1>4, <2>1 DEF LinkInv, MaybeEmail
<1>7. \A a \in Account : \A i \in 1 .. Len(users') :
        /\ links'[a] = i /\ presented'[a] # NoEmail => i \in had'[presented'[a]]
        /\ \A g \in Linking(a, i)' : task'[g].email # NoEmail => i \in had'[task'[g].email]
  <2>1. \A a \in Account : presented[a] \in MaybeEmail
    BY LinkTypes
  <2> QED BY <1>1, <1>2, <1>3, <2>1 DEF LinkInv, MaybeEmail
<1> QED BY <1>5, <1>6, <1>7 DEF LinkInv

\* The steps that have nothing to do with links.
LEMMA LinkElsewhere ==
  ASSUME TypeInv, NEW h \in Handler,
         \/ DeviceStep(h) /\ UNCHANGED socialVars
         \/ \E kind \in {"profile", "register"}, u \in 1 .. MaxUsers, e \in Email :
              CheckEmail(h, kind, u, e)
  PROVE  UNCHANGED socialVars /\ pc'[h] \notin {"find", "make", "link", "save"}
<1>0. Handling
  BY DEF TypeInv
<1> DEFINE Off == pc'[h] \notin {"find", "make", "link", "save"}
<1>1. LookDevice(h) => Off
  BY <1>0, Going, Ending DEF LookDevice
<1>2. InsertDevice(h) \/ DeleteDevice(h) \/ Fail(h) \/ SaveSecret(h) \/ EnableMfa(h) => Off
  BY <1>0, Ending DEF InsertDevice, DeleteDevice, Fail, Quit, SaveSecret, EnableMfa
<1>3. (\E u \in User : StartSetup(h, u) \/ CheckTotp(h, u)) => Off
  BY <1>0, Starting DEF StartSetup, CheckTotp
<1>4. (\E u \in User, d \in Device : CheckDeviceOwner(h, u, d)) => Off
  BY <1>0, Starting DEF CheckDeviceOwner
<1>5. CASE \E kind \in {"profile", "register"}, u \in 1 .. MaxUsers, e \in Email :
             CheckEmail(h, kind, u, e)
  BY <1>0, <1>5, Starting DEF CheckEmail
<1>6. CASE UNCHANGED socialVars /\ DeviceStep(h)
  BY <1>1, <1>2, <1>3, <1>4, <1>6 DEF DeviceStep
<1> QED BY <1>5, <1>6 DEF CheckEmail

LEMMA LinkStepKeeps ==
  ASSUME TypeInv, LinkInv, [Next]_vars
  PROVE  LinkInv'
<1>1. CASE UNCHANGED vars
  BY <1>1 DEF vars, socialVars, LinkInv, Linking, Nameless
<1>2. ASSUME NEW h \in Handler, SocialStep(h) \/ (DeviceStep(h) /\ UNCHANGED socialVars)
      PROVE  LinkInv'
  <2>1. Moves(h)
    BY <1>2, TypeStep
  <2>2. CASE \/ DeviceStep(h) /\ UNCHANGED socialVars
             \/ \E kind \in {"profile", "register"}, u \in 1 .. MaxUsers, e \in Email :
                  CheckEmail(h, kind, u, e)
    BY <2>1, <2>2, LinkElsewhere, LinkStill
  <2> QED BY <1>2, <2>1, <2>2, FindKeeps, MakeKeeps, SaveKeeps, UpdateKeeps DEF SocialStep
<1> QED BY <1>1, <1>2 DEF Next

\* An account is linked to a user only through an e-mail that the user has had,
\* or as the only account without one, however logins, lost answers and changes
\* of e-mail interleave (_social_login in routers/auth.py finds or makes the
\* user and writes the link in separate steps).
THEOREM SocialAccountsMeet == Spec => []AccountsMeetByEmail
<1>1. Init => LinkInv
  <2> SUFFICES ASSUME Init
               PROVE  LinkInv
    OBVIOUS
  <2>1. Len(users) = 0 /\ \A h \in Handler : pc[h] = "idle"
    BY DEF Init, DevicesInit, HandlersInit
  <2> QED BY <2>1 DEF LinkInv
<1>2. TypeInv /\ LinkInv /\ [Next]_vars => LinkInv'
  BY LinkStepKeeps
<1>3. TypeInv /\ LinkInv => AccountsMeetByEmail
  <2> SUFFICES ASSUME TypeInv, LinkInv, NEW a \in Account, links[a] \in 1 .. MaxUsers
               PROVE  IF presented[a] # NoEmail
                        THEN links[a] \in had[presented[a]]
                        ELSE \A b \in Account \ {a} :
                               links[b] = links[a] => presented[b] # NoEmail
    BY DEF AccountsMeetByEmail
  <2>1. links[a] \in 1 .. Len(users)
    BY SocialAssumption DEF TypeInv, LinksOK
  <2> QED BY <2>1 DEF LinkInv, Nameless
<1> QED BY <1>1, <1>2, <1>3, Typed, PTL DEF Spec


=============================================================================
