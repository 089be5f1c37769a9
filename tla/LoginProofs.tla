----------------------------- MODULE LoginProofs -----------------------------
(***************************************************************************)
(* Proofs about Login for every set of logins, mobiles, handlers and       *)
(* portals: the directory that logins call is the one of Directory, and    *)
(* what a login grants is what that directory says.                        *)
(***************************************************************************)
EXTENDS Login, DirectoryProofs

-----------------------------------------------------------------------------
(* The form of a login *)

FormOK ==
    /\ stage \in [Client -> {"idle", "status", "call", "wait", "roles", "done"}]
    /\ form \in [Client -> {NoForm} \union Form]
    /\ \A c \in Client : form[c].started <=> stage[c] # "idle"

\* A login that has begun has the form of its request.
LEMMA Started ==
  ASSUME FormOK, NEW c \in Client, stage[c] # "idle"
  PROVE  form[c] \in Form /\ form[c].mobile \in Mobile /\ form[c].portal \in LoginPortal
<1>1. form[c] # NoForm
  BY DEF FormOK, NoForm
<1>2. form[c] \in Form
  BY <1>1 DEF FormOK
<1> QED BY <1>2 DEF Form

\* A login moves on with its form.
LEMMA MoveForm ==
  ASSUME FormOK, NEW c \in Client, stage[c] # "idle", UNCHANGED form,
         NEW s \in {"status", "call", "wait", "roles", "done"}, Move(c, s)
  PROVE  FormOK'
BY DEF FormOK, Move

\* A login ends, and its form with it.
LEMMA EndForm ==
  ASSUME FormOK, NEW c \in Client, End(c)
  PROVE  FormOK'
<1>1. NoForm.started = FALSE
  BY DEF NoForm
<1> QED BY <1>1 DEF FormOK, End, Move

\* Each step of verify_otp keeps the form of a login.
LEMMA FormStep ==
  ASSUME FormOK, [LoginNext]_allVars
  PROVE  FormOK'
<1>1. ASSUME NEW c \in Client, NEW m \in Mobile, NEW p \in LoginPortal, StartLogin(c, m, p)
      PROVE  FormOK'
  <2>1. PICK f : f = [started |-> TRUE, mobile |-> m, portal |-> p]
    OBVIOUS
  <2>2. f \in Form /\ f.started
    BY <2>1 DEF Form
  <2>3. form' = [form EXCEPT ![c] = f] /\ Move(c, "status")
    BY <1>1, <2>1 DEF StartLogin
  <2> QED BY <2>2, <2>3 DEF FormOK, Move
<1>2. ASSUME NEW c \in Client, LoginStep(c) \/ GiveUp(c)
      PROVE  FormOK'
  <2>1. CASE CheckAccountStatus(c)
    BY <2>1, EndForm, MoveForm DEF CheckAccountStatus
  <2>2. CASE StatusUnknown(c) \/ CallGetOrCreate(c)
    BY <2>2, MoveForm DEF StatusUnknown, CallGetOrCreate
  <2>3. CASE GetOrCreateAnswers(c) \/ GetOrCreateFails(c) \/ GetUserRoles(c)
    BY <2>3, MoveForm DEF GetOrCreateAnswers, GetOrCreateFails, GetUserRoles
  <2>4. CASE Return(c) \/ GiveUp(c)
    BY <2>4, EndForm DEF Return, GiveUp
  <2> QED BY <1>2, <2>1, <2>2, <2>3, <2>4 DEF LoginStep
<1>3. CASE UserService \/ AdminUpdate \/ UNCHANGED allVars
  BY <1>3 DEF UserService, AdminUpdate, allVars, loginVars, FormOK
<1> QED BY <1>1, <1>2, <1>3 DEF LoginNext

\* The form is right from the beginning on.
LEMMA FormAlways == LoginSpec => []FormOK
<1>1. LoginInit => FormOK
  BY DEF LoginInit, FormOK, NoForm
<1> QED BY <1>1, FormStep, PTL DEF LoginSpec

-----------------------------------------------------------------------------
(* The directory under the logins *)

\* A step of the composition is one of the directory's, or leaves it alone.
LEMMA DirectoryStep ==
  ASSUME FormOK, [LoginNext]_allVars
  PROVE  [Next]_vars
<1>1. ASSUME NEW c \in Client, CallGetOrCreate(c)
      PROVE  Next
  <2>1. form[c].mobile \in Mobile
    BY <1>1, Started DEF CallGetOrCreate
  <2> QED BY <1>1, <2>1, LoginAssumption DEF CallGetOrCreate, Next
<1>2. ASSUME NEW c \in Client, LoginStep(c) \/ GiveUp(c), ~ CallGetOrCreate(c)
      PROVE  UNCHANGED vars
  BY <1>2 DEF LoginStep, CheckAccountStatus, StatusUnknown, GetOrCreateAnswers,
              GetOrCreateFails, GetUserRoles, Return, GiveUp
<1>3. ASSUME NEW c \in Client, NEW m \in Mobile, NEW p \in LoginPortal, StartLogin(c, m, p)
      PROVE  UNCHANGED vars
  BY <1>3 DEF StartLogin
<1>4. CASE UserService
  BY <1>4, LoginAssumption DEF UserService, Next
<1>5. CASE AdminUpdate
  BY <1>5 DEF AdminUpdate, Next
<1>6. CASE UNCHANGED allVars
  BY <1>6 DEF allVars
<1> QED BY <1>1, <1>2, <1>3, <1>4, <1>5, <1>6 DEF LoginNext

\* The directory behind the logins of auth-service, whose calls time out and go
\* on without them, behaves as Directory says: everything that is proved of
\* Directory holds under any logins.
THEOREM LoginKeepsDirectory == LoginSpec => Spec
<1>1. LoginInit => Init
  BY DEF LoginInit
<1>2. FormOK /\ [LoginNext]_allVars => [Next]_vars
  BY DirectoryStep
<1> QED BY <1>1, <1>2, FormAlways, PTL DEF LoginSpec, Spec

-----------------------------------------------------------------------------
(* What a step of the directory may do to a login *)

\* Only an administrator deactivates or activates a user that is there.
LEMMA UserStays ==
  ASSUME TypeOK, NEW h \in Handler,
         \/ \E m \in Mobile : Lookup(h, m)
         \/ GetOrCreate(h) \/ WalkIn(h) \/ Onboard(h) \/ SubAdmin(h) \/ Fail(h)
  PROVE  \A m \in Mobile : Exists(m) => users'[m] = users[m]
<1>1. \/ UNCHANGED users
      \/ \E m : ~ Exists(m) /\ \E u : users' = [users EXCEPT ![m] = u]
  BY DEF Lookup, GetOrCreate, CreateUser, ReadRoles, AssignRole, WalkIn, LookupWalkIn,
         CreateWalkIn, Onboard, CheckForm, InsertRequest, StartReview, CreateProvider,
         FinishApprove, FinishReject, SubAdmin, LookupSubAdmin, CreateSubAdmin,
         GrantSubAdmin, Fail
<1> QED BY <1>1 DEF Exists, TypeOK

\* The handler that a login's call has become is at one of the stages of
\* get-or-create with the login's mobile; an answer means that there is a role.
Calls(c) ==
    /\ pc[c] \in {"idle", "create", "roles", "assign"}
    /\ pc[c] # "idle" => task[c].mobile = form[c].mobile /\ answer[c] = "none"
    /\ answer[c] = "ok" => roles[form[c].mobile] # {}

\* A step of another handler.
LEMMA CallsOthers ==
  ASSUME TypeOK, NEW h \in Handler, NEW c \in Handler, h # c,
         \/ \E m \in Mobile : Lookup(h, m)
         \/ GetOrCreate(h) \/ WalkIn(h) \/ Onboard(h) \/ SubAdmin(h) \/ Fail(h)
  PROVE  pc'[c] = pc[c] /\ task'[c] = task[c] /\ answer'[c] = answer[c]
<1>1. /\ \/ UNCHANGED pc
         \/ \E s : pc' = [pc EXCEPT ![h] = s]
      /\ \/ UNCHANGED task
         \/ \E t : task' = [task EXCEPT ![h] = t]
      /\ \/ UNCHANGED answer
         \/ \E a : answer' = [answer EXCEPT ![h] = a]
  <2>1. CASE \E m \in Mobile : Lookup(h, m)
    BY <2>1 DEF Lookup, Start, Goto
  <2>2. CASE GetOrCreate(h)
    BY <2>2 DEF GetOrCreate, CreateUser, ReadRoles, AssignRole, Respond, Done, Goto
  <2>3. CASE WalkIn(h) \/ Fail(h)
    BY <2>3 DEF WalkIn, LookupWalkIn, CreateWalkIn, Fail, Start, Done, Goto
  <2>4. CASE Onboard(h)
    BY <2>4 DEF Onboard, CheckForm, InsertRequest, StartReview, CreateProvider, FinishApprove,
                FinishReject, Start, Done, Goto
  <2>5. CASE SubAdmin(h)
    BY <2>5 DEF SubAdmin, LookupSubAdmin, CreateSubAdmin, GrantSubAdmin, Start, Done, Goto
  <2> QED BY <2>1, <2>2, <2>3, <2>4, <2>5
<1> QED BY <1>1 DEF TypeOK

\* The call goes on.
LEMMA CallsOn ==
  ASSUME TypeOK, FormOK, NEW c \in Client, stage[c] # "idle", Calls(c), UNCHANGED form,
         GetOrCreate(c) \/ Fail(c)
  PROVE  Calls(c)'
<1>1. c \in Handler /\ form[c].mobile \in Mobile /\ pc[c] \in {"create", "roles", "assign"}
      /\ task[c].mobile = form[c].mobile /\ answer[c] = "none"
  BY Started, LoginAssumption DEF Calls, GetOrCreate, CreateUser, ReadRoles, AssignRole, Fail
<1>2. CASE CreateUser(c)
  <2>1. \/ pc'[c] = "roles" /\ task' = task /\ answer' = answer
        \/ pc'[c] = "idle" /\ answer'[c] = "error"
    BY <1>1, <1>2 DEF CreateUser, Respond, Done, Goto, TypeOK
  <2> QED BY <1>1, <2>1 DEF Calls
<1>3. CASE ReadRoles(c)
  <2>1. \/ pc'[c] = "assign" /\ task' = task /\ answer' = answer
        \/ /\ pc'[c] = "idle" /\ roles' = roles /\ roles[form[c].mobile] # {}
    BY <1>1, <1>3 DEF ReadRoles, Respond, Done, Goto, TypeOK
  <2> QED BY <1>1, <2>1 DEF Calls
<1>4. CASE AssignRole(c)
  <2>1. pc'[c] = "idle" /\ roles'[form[c].mobile] # {}
    BY <1>1, <1>4 DEF AssignRole, Respond, Done, Goto, TypeOK
  <2> QED BY <2>1 DEF Calls
<1>5. CASE Fail(c)
  <2>1. pc'[c] = "idle" /\ answer'[c] = "none"
    BY <1>1, <1>5 DEF Fail, Done, Goto, TypeOK
  <2> QED BY <2>1 DEF Calls
<1> QED BY <1>2, <1>3, <1>4, <1>5 DEF GetOrCreate

-----------------------------------------------------------------------------
(* The invariant of the logins *)

\* An account that was inactive when the login started still is, and the login
\* is past the check of its status only after an outage; a user's id means that
\* the user has a role.
Fine(c) ==
    /\ user_id[c] # "none" <=> stage[c] \in {"roles", "done"}
    /\ granted[c] # {} <=> stage[c] = "done"
    /\ c \in barred =>
         /\ stage[c] # "idle" /\ Inactive(form[c].mobile)
         /\ stage[c] # "status" => c \in outage
    /\ stage[c] = "wait" => Calls(c)
    /\ user_id[c] = "user" => roles[form[c].mobile] # {}
    /\ stage[c] = "done" /\ user_id[c] = "user" /\ c \notin outage =>
         granted[c] \subseteq roles[form[c].mobile]

Values ==
    /\ user_id \in [Client -> {"none", "user", "mobile"}]
    /\ granted \in [Client -> SUBSET UserType]
    /\ outage \subseteq Client /\ barred \subseteq Client

LoginInv == Values /\ \A c \in Client : Fine(c)

\* Another login's step leaves it alone.
LEMMA FineOthers ==
  ASSUME NEW c \in Client, Fine(c), UNCHANGED <<users, roles, pc, task, answer>>,
         stage'[c] = stage[c], form'[c] = form[c], user_id'[c] = user_id[c],
         granted'[c] = granted[c], c \in outage' <=> c \in outage, c \in barred' <=> c \in barred
  PROVE  Fine(c)'
BY DEF Fine, Calls, Inactive, Exists

\* A login that has ended.
LEMMA EndStep ==
  ASSUME FormOK, LoginInv, NEW c \in Client, End(c), UNCHANGED vars
  PROVE  LoginInv'
<1>1. /\ stage'[c] = "idle" /\ user_id'[c] = "none" /\ granted'[c] = {}
      /\ c \notin barred'
  BY DEF End, Move, FormOK, LoginInv, Values
<1>2. Fine(c)'
  BY <1>1 DEF Fine
<1>3. ASSUME NEW d \in Client, d # c PROVE Fine(d)'
  <2>1. /\ stage'[d] = stage[d] /\ form'[d] = form[d] /\ user_id'[d] = user_id[d]
        /\ granted'[d] = granted[d] /\ (d \in outage' <=> d \in outage)
        /\ (d \in barred' <=> d \in barred)
    BY <1>3 DEF End, Move, FormOK, LoginInv, Values
  <2> QED BY <2>1, FineOthers DEF LoginInv, vars
<1>4. Values'
  BY DEF End, LoginInv, Values, UserType
<1> QED BY <1>2, <1>3, <1>4 DEF LoginInv

\* A login starts, with the status of its account not looked at yet.
LEMMA StartLoginStep ==
  ASSUME FormOK, LoginInv, NEW c \in Client, NEW m \in Mobile, NEW p \in LoginPortal,
         StartLogin(c, m, p)
  PROVE  LoginInv'
<1>1. /\ stage[c] = "idle" /\ stage'[c] = "status" /\ form'[c].mobile = m
      /\ UNCHANGED <<vars, user_id, granted, outage>>
      /\ barred' = IF Inactive(m) THEN barred \union {c} ELSE barred
  BY DEF StartLogin, Move, FormOK
<1>2. Fine(c) /\ c \notin barred
  BY <1>1 DEF LoginInv, Fine
<1>3. Fine(c)'
  <2>1. c \in barred' => Inactive(m)'
    BY <1>1, <1>2 DEF Inactive, Exists, vars
  <2> QED BY <1>1, <1>2, <2>1 DEF Fine
<1>4. ASSUME NEW d \in Client, d # c PROVE Fine(d)'
  <2>1. stage'[d] = stage[d] /\ form'[d] = form[d] /\ (d \in barred' <=> d \in barred)
    BY <1>1, <1>4 DEF StartLogin, Move, FormOK
  <2> QED BY <1>1, <2>1, FineOthers DEF LoginInv, vars
<1>5. Values'
  BY <1>1 DEF LoginInv, Values, UserType
<1> QED BY <1>3, <1>4, <1>5 DEF LoginInv

\* A login moves on, and may have met an outage.
LEMMA OnStep ==
  ASSUME FormOK, LoginInv, NEW c \in Client, UNCHANGED <<vars, form, barred>>,
         \E s : Move(c, s),
         UNCHANGED outage \/ Outage(c),
         UNCHANGED user_id \/ \E i \in {"user", "mobile"} : user_id' = [user_id EXCEPT ![c] = i],
         UNCHANGED granted \/ \E r \in SUBSET UserType : granted' = [granted EXCEPT ![c] = r],
         Fine(c)'
  PROVE  LoginInv'
<1>1. ASSUME NEW d \in Client, d # c PROVE Fine(d)'
  <2>1. stage'[d] = stage[d] /\ form'[d] = form[d] /\ (d \in outage' <=> d \in outage)
    BY <1>1 DEF Move, FormOK, Outage
  <2>2. user_id'[d] = user_id[d]
    BY <1>1 DEF LoginInv, Values
  <2>3. granted'[d] = granted[d]
    BY <1>1 DEF LoginInv, Values
  <2> QED BY <2>1, <2>2, <2>3, FineOthers DEF LoginInv, vars
<1>2. Values'
  <2>1. user_id' \in [Client -> {"none", "user", "mobile"}]
    BY DEF LoginInv, Values
  <2>2. granted' \in [Client -> SUBSET UserType]
    BY DEF LoginInv, Values, UserType
  <2>3. outage' \subseteq Client /\ barred' \subseteq Client
    BY DEF LoginInv, Values, Outage
  <2> QED BY <2>1, <2>2, <2>3 DEF Values
<1> QED BY <1>1, <1>2 DEF LoginInv

\* The check of the status lets no login of an inactive account on.
LEMMA CheckStep ==
  ASSUME FormOK, LoginInv, NEW c \in Client, CheckAccountStatus(c)
  PROVE  LoginInv'
<1>1. CASE End(c)
  BY <1>1, EndStep DEF CheckAccountStatus
<1>2. CASE ~ End(c)
  <2>1. /\ stage[c] = "status" /\ ~ Inactive(form[c].mobile) /\ Move(c, "call")
        /\ UNCHANGED <<vars, form, user_id, granted, outage, barred>>
    BY <1>2 DEF CheckAccountStatus
  <2>2. Fine(c) /\ stage'[c] = "call"
    BY <2>1 DEF LoginInv, Move, FormOK
  <2>3. Fine(c)'
    BY <2>1, <2>2 DEF Fine, vars
  <2> QED BY <2>1, <2>3, OnStep
<1> QED BY <1>1, <1>2

\* Nor does an outage, unnoticed.
LEMMA StatusUnknownStep ==
  ASSUME FormOK, LoginInv, NEW c \in Client, StatusUnknown(c)
  PROVE  LoginInv'
<1>1. /\ stage[c] = "status" /\ Move(c, "call") /\ Outage(c)
      /\ UNCHANGED <<vars, form, user_id, granted, barred>>
  BY DEF StatusUnknown
<1>2. Fine(c) /\ stage'[c] = "call" /\ c \in outage'
  BY <1>1 DEF LoginInv, Move, FormOK, Outage
<1>3. Fine(c)'
  BY <1>1, <1>2 DEF Fine, Inactive, Exists, vars
<1> QED BY <1>1, <1>3, OnStep

\* An answer of 200 is the id of a user with a role.
LEMMA AnswersStep ==
  ASSUME FormOK, LoginInv, NEW c \in Client, GetOrCreateAnswers(c)
  PROVE  LoginInv'
<1>1. /\ stage[c] = "wait" /\ Move(c, "roles") /\ UNCHANGED <<vars, form, granted, outage, barred>>
  BY DEF GetOrCreateAnswers
<1>2. PICK i \in {"user", "mobile"} : /\ user_id' = [user_id EXCEPT ![c] = i]
                                      /\ i = "user" => answer[c] = "ok"
  BY DEF GetOrCreateAnswers
<1>3. Fine(c) /\ stage'[c] = "roles" /\ user_id'[c] = i
  BY <1>1, <1>2 DEF LoginInv, Move, FormOK, Values
<1>4. Fine(c)'
  BY <1>1, <1>2, <1>3 DEF Fine, Calls, Inactive, Exists, vars
<1> QED BY <1>1, <1>2, <1>4, OnStep

\* A call that failed leaves the mobile.
LEMMA CallFailsStep ==
  ASSUME FormOK, LoginInv, NEW c \in Client, GetOrCreateFails(c)
  PROVE  LoginInv'
<1>1. /\ stage[c] \in {"call", "wait"} /\ Move(c, "roles") /\ Outage(c)
      /\ user_id' = [user_id EXCEPT ![c] = "mobile"] /\ UNCHANGED <<vars, form, granted, barred>>
  BY DEF GetOrCreateFails
<1>2. Fine(c) /\ stage'[c] = "roles" /\ user_id'[c] = "mobile" /\ c \in outage'
  BY <1>1 DEF LoginInv, Move, FormOK, Values, Outage
<1>3. Fine(c)'
  BY <1>1, <1>2 DEF Fine, Inactive, Exists, vars
<1> QED BY <1>1, <1>3, OnStep

\* The roles of a user's id are the user's, unless the call for them failed.
LEMMA RolesStep ==
  ASSUME FormOK, LoginInv, TypeOK, NEW c \in Client, GetUserRoles(c)
  PROVE  LoginInv'
<1> DEFINE has == roles[form[c].mobile]
<1>1. /\ stage[c] = "roles" /\ Move(c, "done") /\ UNCHANGED <<vars, form, user_id, barred>>
  BY DEF GetUserRoles
<1>2. has \in SUBSET UserType /\ Fine(c) /\ stage'[c] = "done"
  BY <1>1, Started DEF TypeOK, LoginInv, Move, FormOK
<1>3. PICK r \in SUBSET UserType :
         /\ granted' = [granted EXCEPT ![c] = r] /\ r # {}
         /\ \/ Outage(c)
            \/ UNCHANGED outage /\ (user_id[c] = "user" => r = has)
  <2>1. user_id[c] = "user" => has # {}
    BY <1>2 DEF Fine
  <2>2. {"customer"} \in SUBSET UserType /\ {"customer"} # {}
    BY DEF UserType
  <2> QED BY <1>2, <2>1, <2>2 DEF GetUserRoles
<1>4. granted'[c] = r /\ (UNCHANGED outage \/ Outage(c))
  BY <1>3 DEF LoginInv, Values
<1>5. roles' = roles /\ form' = form
  BY <1>1 DEF vars
<1>6. Outage(c) => c \in outage'
  BY DEF Outage
<1>7. Fine(c)'
  <2>1. c \in barred' => Inactive(form[c].mobile)' /\ c \in outage'
    BY <1>1, <1>2, <1>4, <1>6 DEF Fine, Inactive, Exists, vars, Outage
  <2>2. user_id'[c] = "user" /\ c \notin outage' => granted'[c] \subseteq roles[form[c].mobile]
    BY <1>1, <1>3, <1>4, <1>6
  <2> QED BY <1>1, <1>2, <1>3, <1>4, <1>5, <2>1, <2>2 DEF Fine
<1> HIDE DEF has
<1> QED BY <1>1, <1>3, <1>4, <1>7, OnStep

\* The call of get-or-create begins: its handler is free.
LEMMA CallStep ==
  ASSUME FormOK, LoginInv, TypeOK, NEW c \in Client, CallGetOrCreate(c)
  PROVE  LoginInv'
<1> DEFINE m == form[c].mobile
<1>1. /\ stage[c] = "call" /\ Lookup(c, m) /\ Move(c, "wait") /\ c \in Handler /\ m \in Mobile
      /\ UNCHANGED <<form, user_id, granted, outage, barred, users, roles>>
  BY Started, LoginAssumption DEF CallGetOrCreate, Lookup
<1>2. Fine(c) /\ stage'[c] = "wait"
  BY <1>1 DEF LoginInv, Move, FormOK
<1>3. Calls(c)'
  <2>1. answer'[c] = "none" /\ pc'[c] \in {"create", "roles"} /\ task'[c].mobile = m
    BY <1>1 DEF Lookup, Start, Goto, TypeOK
  <2> QED BY <1>1, <2>1 DEF Calls
<1>4. Fine(c)'
  BY <1>1, <1>2, <1>3 DEF Fine, Inactive, Exists
<1>5. ASSUME NEW d \in Client, d # c PROVE Fine(d)'
  <2>1. stage'[d] = stage[d] /\ d \in Handler /\ Fine(d)
    BY <1>1, <1>5, LoginAssumption DEF Move, FormOK, LoginInv
  <2>2. pc'[d] = pc[d] /\ task'[d] = task[d] /\ answer'[d] = answer[d]
    BY <1>1, <1>5, <2>1, CallsOthers
  <2> QED BY <1>1, <2>1, <2>2 DEF Fine, Calls, Inactive, Exists
<1>6. Values'
  BY <1>1 DEF LoginInv, Values, UserType
<1> QED BY <1>4, <1>5, <1>6 DEF LoginInv

\* A role that an administrator gives adds to the user's.
LEMMA GrantStep ==
  ASSUME FormOK, LoginInv, TypeOK, NEW m \in Mobile, AdminAssignRole(m), UNCHANGED loginVars
  PROVE  LoginInv'
<1>1. /\ UNCHANGED <<stage, form, user_id, granted, outage, barred>>
      /\ UNCHANGED <<users, pc, task, answer>>
  BY DEF AdminAssignRole, loginVars
<1>2. ASSUME NEW c \in Client PROVE Fine(c)'
  <2>1. Fine(c)
    BY DEF LoginInv
  <2>2. stage[c] # "idle" => roles[form[c].mobile] \subseteq roles'[form[c].mobile]
    BY Started, GrantEffect
  <2> QED BY <1>1, <2>1, <2>2 DEF Fine, Calls, Inactive, Exists
<1>3. Values'
  BY <1>1 DEF LoginInv, Values, UserType
<1> QED BY <1>2, <1>3 DEF LoginInv

\* The handlers of user-service, the calls of logins among them.
LEMMA ServiceStep ==
  ASSUME FormOK, LoginInv, TypeOK, UserService, \A m \in Mobile : ~ AdminAssignRole(m)
  PROVE  LoginInv'
<1>1. UNCHANGED <<stage, form, user_id, granted, outage, barred>>
  BY DEF UserService, loginVars
<1>2. PICK h \in Handler :
        /\ \/ \E m \in Mobile : Lookup(h, m)
           \/ GetOrCreate(h) \/ WalkIn(h) \/ Onboard(h) \/ SubAdmin(h) \/ Fail(h)
        /\ h \in Client => GetOrCreate(h) \/ Fail(h)
  BY LoginAssumption DEF UserService
<1>3. [Next]_vars
  BY <1>2 DEF Next
<1>4. ASSUME NEW c \in Client PROVE Fine(c)'
  <2>1. Fine(c) /\ c \in Handler
    BY LoginAssumption DEF LoginInv
  <2>2. stage[c] # "idle" => form[c].mobile \in Mobile
    BY Started
  <2>3. stage[c] = "wait" => Calls(c)'
    <3>1. CASE h = c
      BY <1>1, <1>2, <2>1, <3>1, CallsOn DEF Fine
    <3>2. CASE h # c
      <4>1. pc'[c] = pc[c] /\ task'[c] = task[c] /\ answer'[c] = answer[c]
        BY <1>2, <2>1, <3>2, CallsOthers
      <4>2. stage[c] = "wait" => roles[form[c].mobile] \subseteq roles'[form[c].mobile]
        BY <1>3, <2>2, UsersKept
      <4> QED BY <1>1, <2>1, <4>1, <4>2 DEF Fine, Calls
    <3> QED BY <3>1, <3>2
  <2>4. stage[c] # "idle" => roles[form[c].mobile] \subseteq roles'[form[c].mobile]
    BY <1>3, <2>2, UsersKept
  <2>5. c \in barred => Inactive(form[c].mobile)'
    <3>1. c \in barred => form[c].mobile \in Mobile /\ Inactive(form[c].mobile)
      BY <2>1, <2>2 DEF Fine
    <3>2. c \in barred => users'[form[c].mobile] = users[form[c].mobile]
      BY <1>2, <3>1, UserStays DEF Inactive
    <3> QED BY <1>1, <3>1, <3>2 DEF Inactive, Exists
  <2>6. user_id[c] = "user" => stage[c] # "idle"
    BY <2>1 DEF Fine
  <2> QED BY <1>1, <2>1, <2>3, <2>4, <2>5, <2>6 DEF Fine
<1>5. Values'
  BY <1>1 DEF LoginInv, Values, UserType
<1> QED BY <1>4, <1>5 DEF LoginInv

\* An administrator who activates an account ends the bar of its logins.
LEMMA AdminStep ==
  ASSUME FormOK, LoginInv, TypeOK, AdminUpdate
  PROVE  LoginInv'
<1>1. PICK m \in Mobile :
        /\ AdminUpdateUser(m)
        /\ barred' = {c \in barred : form[c].mobile = m => ~ users'[m].is_active}
        /\ UNCHANGED <<stage, form, user_id, granted, outage>>
  BY DEF AdminUpdate
<1>2. UNCHANGED <<roles, pc, task, answer>>
  BY <1>1 DEF AdminUpdateUser
<1>3. ASSUME NEW c \in Client PROVE Fine(c)'
  <2>1. Fine(c) /\ Calls(c)' = Calls(c)
    BY <1>1, <1>2 DEF LoginInv, Calls
  <2>2. c \in barred' => Inactive(form[c].mobile)'
    <3>1. SUFFICES ASSUME c \in barred'
                   PROVE  Exists(form[c].mobile)' /\ ~ users'[form[c].mobile].is_active
      BY <1>1 DEF Inactive, Exists
    <3>2. c \in barred /\ form[c].mobile \in Mobile /\ Inactive(form[c].mobile)
      BY <1>1, <2>1, <3>1, Started DEF Fine
    <3>3. Exists(form[c].mobile)'
      <4>1. [Next]_vars
        BY <1>1 DEF Next
      <4>2. users'[form[c].mobile].exists
        BY <3>2, <4>1, UsersKept DEF Inactive, Exists
      <4> QED BY <1>1, <4>2 DEF Exists
    <3>4. CASE form[c].mobile = m
      BY <1>1, <3>1, <3>3, <3>4
    <3>5. CASE form[c].mobile # m
      <4>1. users'[form[c].mobile] = users[form[c].mobile]
        BY <1>1, <3>2, <3>5 DEF AdminUpdateUser, TypeOK
      <4> QED BY <3>2, <3>3, <4>1 DEF Inactive
    <3> QED BY <3>4, <3>5
  <2> QED BY <1>1, <1>2, <2>1, <2>2 DEF Fine
<1>4. Values'
  BY <1>1 DEF LoginInv, Values, UserType
<1> QED BY <1>3, <1>4 DEF LoginInv

\* Every step keeps the invariant.
LEMMA LoginInvStep ==
  ASSUME FormOK, TypeOK, LoginInv, [LoginNext]_allVars
  PROVE  LoginInv'
<1>1. CASE UNCHANGED allVars
  BY <1>1 DEF allVars, vars, loginVars, LoginInv, Values, UserType, Fine, Calls, Inactive, Exists
<1>2. ASSUME NEW c \in Client, LoginStep(c) PROVE LoginInv'
  BY <1>2, CheckStep, StatusUnknownStep, CallStep, AnswersStep, CallFailsStep, RolesStep, EndStep
     DEF LoginStep, Return
<1> QED BY <1>1, <1>2, StartLoginStep, EndStep, ServiceStep, GrantStep, AdminStep
        DEF LoginNext, GiveUp, UserService

\* It always holds, with the types of the directory.
LEMMA LoginAlways == LoginSpec => [](FormOK /\ TypeOK /\ LoginInv)
<1>1. LoginInit => LoginInv
  BY DEF LoginInit, LoginInv, Values, Fine, UserType
<1>2. FormOK /\ TypeOK /\ LoginInv /\ [LoginNext]_allVars => LoginInv'
  BY LoginInvStep
<1>3. LoginSpec => []TypeOK
  BY LoginKeepsDirectory, DirectoryTypeOK, PTL
<1> QED BY <1>1, <1>2, <1>3, FormAlways, PTL DEF LoginSpec

-----------------------------------------------------------------------------
(* The theorems *)

\* The local variables of verify_otp at each of its stages.
THEOREM LoginTypes == LoginSpec => []LoginTypeOK
<1>1. FormOK /\ LoginInv => LoginTypeOK
  BY DEF FormOK, LoginInv, Values, Fine, LoginTypeOK
<1> QED BY <1>1, LoginAlways, PTL

\* verify_otp gives no token to an account that has been inactive ever since,
\* unless one of its calls to user-service failed (lines 231-253 of auth.py).
THEOREM LoginInactiveKeptOut == LoginSpec => []InactiveKeptOut
<1>1. FormOK /\ LoginInv => InactiveKeptOut
  <2> SUFFICES ASSUME LoginInv, NEW c \in barred, stage[c] = "done"
               PROVE  c \in outage
    BY DEF InactiveKeptOut
  <2>1. c \in Client
    BY DEF LoginInv, Values
  <2> QED BY <2>1 DEF LoginInv, Fine
<1> QED BY <1>1, LoginAlways, PTL

\* The token that verify_otp makes for a user's id carries roles of that user.
THEOREM LoginRolesAreTheUsers == LoginSpec => []RolesAreTheUsers
<1>1. LoginInv => RolesAreTheUsers
  BY DEF LoginInv, Fine, RolesAreTheUsers
<1> QED BY <1>1, LoginAlways, PTL

=============================================================================
