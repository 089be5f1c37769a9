-------------------------- MODULE DirectoryProofs --------------------------
(***************************************************************************)
(* Proofs about Directory for every set of mobiles, handlers and portals   *)
(* and every number of onboarding requests.                                *)
(***************************************************************************)
EXTENDS Directory, TLAPS

-----------------------------------------------------------------------------
(* What the tables and the handlers hold *)

\* The fields of a request of the table.
LEMMA RequestType ==
  ASSUME TypeOK, NEW i \in 1 .. Len(reqs)
  PROVE  /\ reqs[i] \in Request
         /\ reqs[i].mobile \in Mobile /\ reqs[i].portal_type \in Portal
         /\ PortalToUserType[reqs[i].portal_type] \in ProviderType
         /\ PortalToUserType[reqs[i].portal_type] \in UserType
<1>1. reqs[i] \in Request
  BY DEF TypeOK
<1> QED BY <1>1 DEF Request, ProviderType, UserType

\* The kind of task that each stage of a handler works on.
LEMMA StageKind ==
  ASSUME TypeOK, NEW h \in Handler
  PROVE  /\ pc[h] \in {"create", "roles", "assign", "walk_in"} <=> task[h].kind = "user"
         /\ pc[h] = "submit" <=> task[h].kind = "form"
         /\ pc[h] \in {"approve", "finish", "reject"} <=> task[h].kind = "review"
         /\ pc[h] \in {"sub_admin", "grant"} <=> task[h].kind = "sub_admin"
         /\ pc[h] = "idle" <=> task[h].kind = "nothing"
<1>1. pc[h] \in Stage /\ task[h].kind = KindOf(pc[h])
  BY DEF TypeOK
<1> QED BY <1>1 DEF Stage, KindOf

\* What a handler keeps for the stage it is at.
LEMMA TaskType ==
  ASSUME TypeOK, NEW h \in Handler
  PROVE  /\ pc[h] \in {"create", "roles", "assign", "walk_in"} =>
              task[h] \in [kind: {"user"}, mobile: Mobile, user_type: UserType]
         /\ pc[h] = "submit" =>
              task[h] \in [kind: {"form"}, mobile: Mobile, portal_type: Portal]
         /\ pc[h] \in {"approve", "finish", "reject"} =>
              /\ task[h] \in [kind: {"review"}, req: 1 .. MaxRequests]
              /\ task[h].req \in 1 .. Len(reqs)
         /\ pc[h] \in {"sub_admin", "grant"} =>
              task[h] \in [kind: {"sub_admin"}, mobile: Mobile, role: GrantedRole]
<1>1. task[h] \in Task
  BY DEF TypeOK
<1>2. task[h].kind = "review" => task[h].req <= Len(reqs)
  BY DEF TypeOK
<1>3. Len(reqs) \in Nat
  BY DEF TypeOK
<1>4. Nothing.kind = "nothing"
  BY DEF Nothing
<1> QED BY <1>1, <1>2, <1>3, <1>4, StageKind, DirectoryAssumption DEF Task

\* Setting the status of a request leaves the others and its other fields.
LEMMA SetStatus ==
  ASSUME TypeOK, NEW i \in 1 .. Len(reqs),
         NEW s \in {"pending", "approved", "rejected"},
         reqs' = [reqs EXCEPT ![i].status = s]
  PROVE  /\ reqs' \in Seq(Request) /\ Len(reqs') = Len(reqs)
         /\ \A j \in 1 .. Len(reqs) :
              /\ reqs'[j].mobile = reqs[j].mobile
              /\ reqs'[j].portal_type = reqs[j].portal_type
              /\ reqs'[j].status = IF j = i THEN s ELSE reqs[j].status
<1> DEFINE x == [reqs[i] EXCEPT !.status = s]
<1>1. reqs \in Seq(Request) /\ reqs[i] \in Request
  BY DEF TypeOK
<1>2. /\ x \in Request
      /\ x.mobile = reqs[i].mobile /\ x.portal_type = reqs[i].portal_type
      /\ x.status = s
  BY <1>1 DEF Request
<1>3. reqs' = [reqs EXCEPT ![i] = x]
  OBVIOUS
<1> HIDE DEF x
<1>4. /\ reqs' \in Seq(Request) /\ Len(reqs') = Len(reqs)
      /\ \A j \in 1 .. Len(reqs) : reqs'[j] = IF j = i THEN x ELSE reqs[j]
  BY <1>1, <1>2, <1>3
<1> QED BY <1>2, <1>4

\* Submitting a form adds a pending request at the end of the table.
LEMMA AddRequest ==
  ASSUME TypeOK, NEW h \in Handler, InsertRequest(h)
  PROVE  /\ reqs' \in Seq(Request) /\ Len(reqs') = Len(reqs) + 1
         /\ Len(reqs) \in Nat /\ Len(reqs') <= MaxRequests
         /\ \A i \in 1 .. Len(reqs) : reqs'[i] = reqs[i]
         /\ reqs'[Len(reqs) + 1].status = "pending"
<1> DEFINE x == [mobile |-> task[h].mobile, portal_type |-> task[h].portal_type,
                 status |-> "pending"]
<1>1. pc[h] = "submit" /\ Len(reqs) < MaxRequests /\ reqs' = Append(reqs, x)
  BY DEF InsertRequest
<1>2. x \in Request /\ x.status = "pending"
  BY <1>1, TaskType DEF Request
<1> HIDE DEF x
<1> QED BY <1>1, <1>2, DirectoryAssumption DEF TypeOK

\* A user's row after an insertion, and after an admin's update.
LEMMA UserRows ==
  ASSUME TypeOK
  PROVE  /\ \A type \in UserType : NewUser(type) \in UserRow /\ NewUser(type).user_type = type
         /\ \A u \in UserRow : u.exists /\ u.user_type \in UserType
         /\ \A m \in Mobile : users[m] = NoUser \/ users[m] \in UserRow
         /\ \A m \in Mobile : Exists(m) <=> users[m] \in UserRow
<1>1. \A m \in Mobile : users[m] = NoUser \/ users[m] \in UserRow
  BY DEF TypeOK
<1>2. ~ NoUser.exists /\ \A u \in UserRow : u.exists /\ u.user_type \in UserType
  BY DEF NoUser, UserRow
<1>3. \A type \in UserType : NewUser(type) \in UserRow /\ NewUser(type).user_type = type
  BY DEF NewUser, UserRow
<1> QED BY <1>1, <1>2, <1>3 DEF Exists

\* What an admin's update does to the users and to what has been vouched for.
LEMMA AdminEffect ==
  ASSUME TypeOK, NEW m \in Mobile, AdminUpdateUser(m)
  PROVE  /\ users' \in [Mobile -> {NoUser} \union UserRow]
         /\ \A n \in Mobile : n # m => users'[n] = users[n] /\ vouched'[n] = vouched[n]
         /\ users[m] \in UserRow /\ users'[m] \in UserRow
         /\ \E type \in UserType :
              /\ users'[m].user_type = type
              /\ vouched'[m] = vouched[m] \union ({type} \intersect ProviderType)
         /\ vouched' \in [Mobile -> SUBSET ProviderType]
<1>1. users[m] \in UserRow
  BY UserRows DEF AdminUpdateUser
<1>2. PICK active \in BOOLEAN, type \in UserType :
        /\ users' = [users EXCEPT ![m].is_active = active, ![m].user_type = type]
        /\ vouched' = [vouched EXCEPT ![m] = @ \union ({type} \intersect ProviderType)]
  BY DEF AdminUpdateUser
<1> DEFINE x == [users[m] EXCEPT !.is_active = active, !.user_type = type]
<1>3. x \in UserRow /\ x.user_type = type
  BY <1>1 DEF UserRow
<1>4. users' = [users EXCEPT ![m] = x]
  BY <1>2 DEF TypeOK
<1> HIDE DEF x
<1>5. /\ users' \in [Mobile -> {NoUser} \union UserRow]
      /\ users'[m] = x /\ \A n \in Mobile : n # m => users'[n] = users[n]
  BY <1>3, <1>4 DEF TypeOK
<1>6. /\ vouched' \in [Mobile -> SUBSET ProviderType]
      /\ vouched'[m] = vouched[m] \union ({type} \intersect ProviderType)
      /\ \A n \in Mobile : n # m => vouched'[n] = vouched[n]
  BY <1>2 DEF TypeOK
<1> QED BY <1>1, <1>3, <1>5, <1>6

\* What an administrator's grant does, within a sub-admin's creation or alone:
\* roles are added, and each has been vouched for.
LEMMA GrantEffect ==
  ASSUME TypeOK,
         \/ \E m \in Mobile : AdminAssignRole(m)
         \/ \E h \in Handler : GrantSubAdmin(h)
  PROVE  /\ roles' \in [Mobile -> SUBSET UserType]
         /\ vouched' \in [Mobile -> SUBSET ProviderType]
         /\ \A m \in Mobile : roles[m] \subseteq roles'[m] /\ vouched[m] \subseteq vouched'[m]
         /\ \A m \in Mobile, r \in ProviderType :
              r \in roles'[m] => r \in roles[m] \/ r \in vouched'[m]
<1>1. CASE UNCHANGED <<roles, vouched>>
  BY <1>1 DEF TypeOK
<1>2. ASSUME NEW m \in Mobile, NEW r \in UserType,
             roles' = [roles EXCEPT ![m] = @ \union {r}],
             vouched' = [vouched EXCEPT ![m] = @ \union ({r} \intersect ProviderType)]
      PROVE  /\ roles' \in [Mobile -> SUBSET UserType]
             /\ vouched' \in [Mobile -> SUBSET ProviderType]
             /\ \A n \in Mobile : roles[n] \subseteq roles'[n] /\ vouched[n] \subseteq vouched'[n]
             /\ \A n \in Mobile, t \in ProviderType :
                  t \in roles'[n] => t \in roles[n] \/ t \in vouched'[n]
  BY <1>2 DEF TypeOK
<1>3. ASSUME NEW h \in Handler, GrantSubAdmin(h)
      PROVE  /\ task[h].mobile \in Mobile /\ task[h].role \in UserType
             /\ \/ /\ roles' = [roles EXCEPT ![task[h].mobile] = @ \union {task[h].role}]
                   /\ vouched' = [vouched EXCEPT ![task[h].mobile] =
                                    @ \union ({task[h].role} \intersect ProviderType)]
                \/ UNCHANGED <<roles, vouched>>
  BY <1>3, TaskType, DirectoryAssumption DEF GrantSubAdmin
<1>4. ASSUME NEW m \in Mobile, AdminAssignRole(m)
      PROVE  \E r \in UserType :
               /\ roles' = [roles EXCEPT ![m] = @ \union {r}]
               /\ vouched' = [vouched EXCEPT ![m] = @ \union ({r} \intersect ProviderType)]
  BY <1>4, DirectoryAssumption DEF AdminAssignRole
<1> QED BY <1>1, <1>2, <1>3, <1>4

\* The insertion of a sub-admin's user, or the conflict that ends it.
LEMMA SubAdminUser ==
  ASSUME TypeOK, NEW h \in Handler, CreateSubAdmin(h)
  PROVE  /\ users' \in [Mobile -> {NoUser} \union UserRow]
         /\ \A m \in Mobile : users'[m] # users[m] =>
              ~ Exists(m) /\ users'[m] = NewUser("admin")
<1>1. NewUser("admin") \in UserRow
  BY UserRows DEF UserType
<1>2. task[h].mobile \in Mobile
  BY TaskType DEF CreateSubAdmin
<1>3. \/ UNCHANGED users
      \/ /\ ~ Exists(task[h].mobile)
         /\ users' = [users EXCEPT ![task[h].mobile] = NewUser("admin")]
  BY DEF CreateSubAdmin
<1>4. CASE UNCHANGED users
  BY <1>4 DEF TypeOK
<1>5. CASE /\ ~ Exists(task[h].mobile)
           /\ users' = [users EXCEPT ![task[h].mobile] = NewUser("admin")]
  <2> DEFINE n == task[h].mobile
             u == NewUser("admin")
  <2>1. u \in UserRow /\ n \in Mobile /\ ~ Exists(n) /\ users' = [users EXCEPT ![n] = u]
    BY <1>1, <1>2, <1>5
  <2> HIDE DEF n, u
  <2>2. /\ users' \in [Mobile -> {NoUser} \union UserRow]
        /\ \A m \in Mobile : users'[m] # users[m] => ~ Exists(m) /\ users'[m] = u
    BY <2>1 DEF TypeOK
  <2> QED BY <2>2 DEF u
<1> QED BY <1>3, <1>4, <1>5

-----------------------------------------------------------------------------
(* Type correctness *)

\* The part of TypeOK about handlers survives a step in which one handler
\* goes to another stage with a task of that stage's kind.
LEMMA HandlersType ==
  ASSUME TypeOK, NEW h \in Handler, NEW stage \in Stage, NEW t \in Task,
         pc' = [pc EXCEPT ![h] = stage], task' = [task EXCEPT ![h] = t],
         t.kind = KindOf(stage), t.kind = "review" => t.req <= Len(reqs'),
         Len(reqs) <= Len(reqs'), Len(reqs) \in Nat, Len(reqs') \in Nat
  PROVE  /\ pc' \in [Handler -> Stage]
         /\ task' \in [Handler -> Task]
         /\ \A g \in Handler :
              /\ task'[g].kind = KindOf(pc'[g])
              /\ task'[g].kind = "review" => task'[g].req <= Len(reqs')
<1>1. pc' \in [Handler -> Stage] /\ task' \in [Handler -> Task]
  BY DEF TypeOK
<1>2. ASSUME NEW g \in Handler
      PROVE  /\ task'[g].kind = KindOf(pc'[g])
             /\ task'[g].kind = "review" => task'[g].req <= Len(reqs')
  <2>1. CASE g = h
    BY <2>1 DEF TypeOK
  <2>2. CASE g # h
    <3>1. pc'[g] = pc[g] /\ task'[g] = task[g]
      BY <2>2 DEF TypeOK
    <3>2. task[g].kind = KindOf(pc[g])
      BY DEF TypeOK
    <3>3. ASSUME task[g].kind = "review"
          PROVE  task[g].req <= Len(reqs) /\ task[g].req \in Nat
      BY <3>3, StageKind, TaskType
    <3> QED BY <3>1, <3>2, <3>3
  <2> QED BY <2>1, <2>2
<1> QED BY <1>1, <1>2

\* A handler that goes on with its task, or ends.
LEMMA HandlerMoves ==
  ASSUME TypeOK, NEW h \in Handler,
         Len(reqs') = Len(reqs) \/ Len(reqs') = Len(reqs) + 1,
         \/ Done(h)
         \/ \E stage \in Stage :
              /\ Goto(h, stage) /\ KindOf(stage) = KindOf(pc[h])
              /\ UNCHANGED task
  PROVE  /\ pc' \in [Handler -> Stage]
         /\ task' \in [Handler -> Task]
         /\ \A g \in Handler :
              /\ task'[g].kind = KindOf(pc'[g])
              /\ task'[g].kind = "review" => task'[g].req <= Len(reqs')
<1>1. Len(reqs) \in Nat /\ Len(reqs') \in Nat /\ Len(reqs) <= Len(reqs')
  BY DEF TypeOK
<1>2. CASE Done(h)
  <2>1. "idle" \in Stage /\ KindOf("idle") = "nothing"
    BY DEF Stage, KindOf
  <2>2. Nothing \in Task /\ Nothing.kind = "nothing"
    BY DEF Task, Nothing
  <2> QED BY <1>1, <1>2, <2>1, <2>2, HandlersType DEF Done, Goto
<1>3. ASSUME NEW stage \in Stage, Goto(h, stage),
             KindOf(stage) = KindOf(pc[h]), UNCHANGED task
      PROVE  /\ pc' \in [Handler -> Stage]
             /\ task' \in [Handler -> Task]
             /\ \A g \in Handler :
                  /\ task'[g].kind = KindOf(pc'[g])
                  /\ task'[g].kind = "review" => task'[g].req <= Len(reqs')
  <2>1. task' = [task EXCEPT ![h] = task[h]] /\ task[h] \in Task
    BY <1>3 DEF TypeOK
  <2>2. task[h].kind = KindOf(stage)
    BY <1>3 DEF TypeOK
  <2>3. task[h].kind = "review" => task[h].req <= Len(reqs')
    <3>1. task[h].kind = "review" => task[h].req \in 1 .. Len(reqs)
      BY StageKind, TaskType
    <3> QED BY <1>1, <3>1
  <2>4. pc' = [pc EXCEPT ![h] = stage]
    BY <1>3 DEF Goto
  <2> QED BY <1>1, <2>1, <2>2, <2>3, <2>4, HandlersType
<1> QED BY <1>2, <1>3

\* A handler that begins.
LEMMA HandlerStarts ==
  ASSUME TypeOK, NEW h \in Handler, NEW stage \in Stage, NEW t \in Task,
         Start(h, stage, t), t.kind = KindOf(stage),
         t.kind = "review" => t.req <= Len(reqs), UNCHANGED reqs
  PROVE  /\ pc' \in [Handler -> Stage]
         /\ task' \in [Handler -> Task]
         /\ \A g \in Handler :
              /\ task'[g].kind = KindOf(pc'[g])
              /\ task'[g].kind = "review" => task'[g].req <= Len(reqs')
<1>1. Len(reqs) \in Nat /\ Len(reqs') = Len(reqs)
  BY DEF TypeOK
<1>2. pc' = [pc EXCEPT ![h] = stage] /\ task' = [task EXCEPT ![h] = t]
  BY DEF Start, Goto
<1>3. t.kind = "review" => t.req <= Len(reqs')
  BY <1>1
<1>4. Len(reqs) <= Len(reqs') /\ Len(reqs') \in Nat
  BY <1>1
<1> QED BY <1>1, <1>2, <1>3, <1>4, HandlersType

\* Nothing but the handlers' own variables changes when one begins.
LEMMA LookupType ==
  ASSUME TypeOK, NEW h \in Handler, NEW m \in Mobile, Lookup(h, m)
  PROVE  TypeOK'
<1>1. PICK stage \in {"roles", "create"}, type \in UserType :
        Start(h, stage, [kind |-> "user", mobile |-> m, user_type |-> type])
  <2>1. "customer" \in UserType
    BY DEF UserType
  <2> QED BY <2>1, UserRows DEF Lookup, Exists
<1>2. /\ [kind |-> "user", mobile |-> m, user_type |-> type] \in Task
      /\ stage \in Stage /\ KindOf(stage) = "user"
  BY DEF Task, Stage, KindOf
<1>3. UNCHANGED <<users, roles, reqs, history>> /\ answer' = [answer EXCEPT ![h] = "none"]
  BY DEF Lookup
<1>4. /\ pc' \in [Handler -> Stage] /\ task' \in [Handler -> Task]
      /\ \A g \in Handler :
           /\ task'[g].kind = KindOf(pc'[g])
           /\ task'[g].kind = "review" => task'[g].req <= Len(reqs')
  BY <1>1, <1>2, <1>3, HandlerStarts
<1> QED BY <1>3, <1>4 DEF TypeOK, history

\* The steps of get-or-create and of a walk-in.
LEMMA GetOrCreateType ==
  ASSUME TypeOK, NEW h \in Handler, GetOrCreate(h) \/ CreateWalkIn(h)
  PROVE  TypeOK'
<1>1. /\ pc[h] \in {"create", "roles", "assign", "walk_in"}
      /\ UNCHANGED <<reqs, history>>
  BY DEF GetOrCreate, CreateUser, ReadRoles, AssignRole, CreateWalkIn
<1>2. task[h].mobile \in Mobile /\ task[h].user_type \in UserType
  BY <1>1, TaskType
<1>3. users' \in [Mobile -> {NoUser} \union UserRow]
  <2>1. "customer" \in UserType
    BY DEF UserType
  <2>2. NewUser("customer") \in UserRow /\ NewUser(task[h].user_type) \in UserRow
    BY <1>2, <2>1, UserRows
  <2> QED BY <1>2, <2>2
          DEF TypeOK, GetOrCreate, CreateUser, ReadRoles, AssignRole, CreateWalkIn
<1>4. roles' \in [Mobile -> SUBSET UserType]
  BY <1>2 DEF TypeOK, GetOrCreate, CreateUser, ReadRoles, AssignRole, CreateWalkIn
<1>5. answer' \in [Handler -> {"none", "ok", "error"}]
  BY DEF TypeOK, GetOrCreate, CreateUser, ReadRoles, AssignRole, CreateWalkIn, Respond
<1>6. \/ Done(h)
      \/ \E stage \in Stage :
           /\ Goto(h, stage) /\ KindOf(stage) = KindOf(pc[h])
           /\ UNCHANGED task
  <2>1. KindOf("create") = "user" /\ KindOf("roles") = "user" /\ KindOf("assign") = "user"
    BY DEF KindOf
  <2> QED BY <2>1 DEF GetOrCreate, CreateUser, ReadRoles, AssignRole, CreateWalkIn,
                      Respond, Stage
<1>7. /\ pc' \in [Handler -> Stage] /\ task' \in [Handler -> Task]
      /\ \A g \in Handler :
           /\ task'[g].kind = KindOf(pc'[g])
           /\ task'[g].kind = "review" => task'[g].req <= Len(reqs')
  BY <1>1, <1>6, HandlerMoves
<1> QED BY <1>1, <1>3, <1>4, <1>5, <1>7 DEF TypeOK, history

\* The steps of onboarding, without the start of a review.
LEMMA OnboardType ==
  ASSUME TypeOK, NEW h \in Handler,
         \/ InsertRequest(h) \/ CreateProvider(h)
         \/ FinishApprove(h) \/ FinishReject(h)
  PROVE  TypeOK'
<1>1. /\ reqs' \in Seq(Request) /\ Len(reqs') <= MaxRequests
      /\ Len(reqs') = Len(reqs) \/ Len(reqs') = Len(reqs) + 1
  <2>1. CASE InsertRequest(h)
    BY <2>1, AddRequest
  <2>2. CASE CreateProvider(h)
    BY <2>2 DEF CreateProvider, TypeOK
  <2>3. CASE FinishApprove(h) \/ FinishReject(h)
    <3>1. task[h].req \in 1 .. Len(reqs)
      BY <2>3, TaskType DEF FinishApprove, FinishReject
    <3>2. reqs' \in Seq(Request) /\ Len(reqs') = Len(reqs)
      BY <2>3, <3>1, SetStatus DEF FinishApprove, FinishReject
    <3> QED BY <3>2 DEF TypeOK
  <2> QED BY <2>1, <2>2, <2>3
<1>2. /\ users' \in [Mobile -> {NoUser} \union UserRow]
      /\ roles' \in [Mobile -> SUBSET UserType]
      /\ vouched' \in [Mobile -> SUBSET ProviderType]
      /\ provided' \subseteq Mobile
  <2>1. CASE InsertRequest(h)
    BY <2>1 DEF InsertRequest, history, TypeOK
  <2>2. CASE CreateProvider(h)
    <3>1. task[h].req \in 1 .. Len(reqs)
      BY <2>2, TaskType DEF CreateProvider
    <3> DEFINE m == reqs[task[h].req].mobile
               type == PortalToUserType[reqs[task[h].req].portal_type]
    <3>2. m \in Mobile /\ type \in ProviderType /\ NewUser(type) \in UserRow
      BY <3>1, RequestType, UserRows
    <3>3. \/ /\ users' = [users EXCEPT ![m] = NewUser(type)]
             /\ vouched' = [vouched EXCEPT ![m] = @ \union {type}]
             /\ provided' = provided \union {m}
          \/ UNCHANGED <<users, vouched, provided>>
      BY <2>2 DEF CreateProvider
    <3>4. UNCHANGED roles
      BY <2>2 DEF CreateProvider
    <3> HIDE DEF m, type
    <3> QED BY <3>2, <3>3, <3>4 DEF TypeOK
  <2>3. CASE FinishApprove(h)
    <3>1. task[h].req \in 1 .. Len(reqs)
      BY <2>3, TaskType DEF FinishApprove
    <3>2. /\ reqs[task[h].req].mobile \in Mobile
          /\ PortalToUserType[reqs[task[h].req].portal_type] \in UserType
      BY <3>1, RequestType
    <3> QED BY <2>3, <3>2 DEF FinishApprove, history, TypeOK
  <2>4. CASE FinishReject(h)
    BY <2>4 DEF FinishReject, history, TypeOK
  <2> QED BY <2>1, <2>2, <2>3, <2>4
<1>3. UNCHANGED <<answer, overlapped, half>>
  BY DEF InsertRequest, CreateProvider, FinishApprove, FinishReject, history
<1>4. \/ Done(h)
      \/ \E stage \in Stage :
           /\ Goto(h, stage) /\ KindOf(stage) = KindOf(pc[h])
           /\ UNCHANGED task
  <2>1. KindOf("approve") = "review" /\ KindOf("finish") = "review"
    BY DEF KindOf
  <2> QED BY <2>1 DEF InsertRequest, CreateProvider, FinishApprove, FinishReject, Stage
<1>5. /\ pc' \in [Handler -> Stage] /\ task' \in [Handler -> Task]
      /\ \A g \in Handler :
           /\ task'[g].kind = KindOf(pc'[g])
           /\ task'[g].kind = "review" => task'[g].req <= Len(reqs')
  BY <1>1, <1>4, HandlerMoves
<1> QED BY <1>1, <1>2, <1>3, <1>5 DEF TypeOK

\* The two transactions that make a sub-admin.
LEMMA SubAdminType ==
  ASSUME TypeOK, NEW h \in Handler, CreateSubAdmin(h) \/ GrantSubAdmin(h)
  PROVE  TypeOK'
<1>1. /\ UNCHANGED <<reqs, answer, overlapped, provided, half>>
      /\ pc[h] \in {"sub_admin", "grant"}
  BY DEF CreateSubAdmin, GrantSubAdmin, history
<1>2. /\ users' \in [Mobile -> {NoUser} \union UserRow]
      /\ roles' \in [Mobile -> SUBSET UserType]
      /\ vouched' \in [Mobile -> SUBSET ProviderType]
  <2>1. CASE CreateSubAdmin(h)
    <3>1. UNCHANGED <<roles, vouched>>
      BY <2>1 DEF CreateSubAdmin, history
    <3> QED BY <2>1, <3>1, SubAdminUser DEF TypeOK
  <2>2. CASE GrantSubAdmin(h)
    <3>1. UNCHANGED users
      BY <2>2 DEF GrantSubAdmin
    <3> QED BY <2>2, <3>1, GrantEffect DEF TypeOK
  <2> QED BY <2>1, <2>2
<1>3. \/ Done(h)
      \/ \E stage \in Stage :
           /\ Goto(h, stage) /\ KindOf(stage) = KindOf(pc[h])
           /\ UNCHANGED task
  <2>1. KindOf("sub_admin") = "sub_admin" /\ KindOf("grant") = "sub_admin"
    BY DEF KindOf
  <2> QED BY <2>1 DEF CreateSubAdmin, GrantSubAdmin, Stage
<1>4. /\ pc' \in [Handler -> Stage] /\ task' \in [Handler -> Task]
      /\ \A g \in Handler :
           /\ task'[g].kind = KindOf(pc'[g])
           /\ task'[g].kind = "review" => task'[g].req <= Len(reqs')
  BY <1>1, <1>3, HandlerMoves
<1> QED BY <1>1, <1>2, <1>4 DEF TypeOK

\* A handler of another kind begins: a walk-in, a form, a review or a sub-admin.
LEMMA StartType ==
  ASSUME TypeOK, NEW h \in Handler,
         \/ \E m \in Mobile : LookupWalkIn(h, m)
         \/ \E m \in Mobile, r \in GrantedRole : LookupSubAdmin(h, m, r)
         \/ \E m \in Mobile, p \in Portal : CheckForm(h, m, p)
         \/ \E i \in 1 .. MaxRequests, stage \in {"approve", "reject"} :
              StartReview(h, i, stage)
  PROVE  TypeOK'
<1>1. PICK stage \in Stage, t \in Task :
        /\ Start(h, stage, t) /\ t.kind = KindOf(stage)
        /\ t.kind = "review" => t.req <= Len(reqs)
  <2>1. ASSUME NEW m \in Mobile, LookupWalkIn(h, m)
        PROVE  \E stage \in Stage, t \in Task :
                 /\ Start(h, stage, t) /\ t.kind = KindOf(stage)
                 /\ t.kind = "review" => t.req <= Len(reqs)
    <3>1. [kind |-> "user", mobile |-> m, user_type |-> "customer"] \in Task
      BY DEF Task, UserType
    <3> QED BY <2>1, <3>1 DEF LookupWalkIn, Stage, KindOf
  <2>2. ASSUME NEW m \in Mobile, NEW p \in Portal, CheckForm(h, m, p)
        PROVE  \E stage \in Stage, t \in Task :
                 /\ Start(h, stage, t) /\ t.kind = KindOf(stage)
                 /\ t.kind = "review" => t.req <= Len(reqs)
    <3>1. [kind |-> "form", mobile |-> m, portal_type |-> p] \in Task
      BY DEF Task
    <3> QED BY <2>2, <3>1 DEF CheckForm, Stage, KindOf
  <2>3. ASSUME NEW i \in 1 .. MaxRequests, NEW s \in {"approve", "reject"},
               StartReview(h, i, s)
        PROVE  \E stage \in Stage, t \in Task :
                 /\ Start(h, stage, t) /\ t.kind = KindOf(stage)
                 /\ t.kind = "review" => t.req <= Len(reqs)
    <3>1. [kind |-> "review", req |-> i] \in Task
      BY DEF Task
    <3>2. i <= Len(reqs) /\ Start(h, s, [kind |-> "review", req |-> i])
      BY <2>3 DEF StartReview, TypeOK
    <3>3. s \in Stage /\ KindOf(s) = "review"
      BY DEF Stage, KindOf
    <3> QED BY <3>1, <3>2, <3>3
  <2>4. ASSUME NEW m \in Mobile, NEW r \in GrantedRole, LookupSubAdmin(h, m, r)
        PROVE  \E stage \in Stage, t \in Task :
                 /\ Start(h, stage, t) /\ t.kind = KindOf(stage)
                 /\ t.kind = "review" => t.req <= Len(reqs)
    <3>1. [kind |-> "sub_admin", mobile |-> m, role |-> r] \in Task
      BY DEF Task
    <3> QED BY <2>4, <3>1 DEF LookupSubAdmin, Stage, KindOf
  <2> QED BY <2>1, <2>2, <2>3, <2>4
<1>2. /\ UNCHANGED <<users, roles, reqs, answer, vouched, provided, half>>
      /\ overlapped' \subseteq 1 .. MaxRequests
  BY DEF LookupWalkIn, LookupSubAdmin, CheckForm, StartReview, history, TypeOK
<1>3. /\ pc' \in [Handler -> Stage] /\ task' \in [Handler -> Task]
      /\ \A g \in Handler :
           /\ task'[g].kind = KindOf(pc'[g])
           /\ task'[g].kind = "review" => task'[g].req <= Len(reqs')
  BY <1>1, <1>2, HandlerStarts
<1> QED BY <1>2, <1>3 DEF TypeOK

\* A handler that fails.
LEMMA FailType ==
  ASSUME TypeOK, NEW h \in Handler, Fail(h)
  PROVE  TypeOK'
<1>1. UNCHANGED <<users, roles, reqs, answer, vouched, overlapped, provided>> /\ Done(h)
  BY DEF Fail
<1>2. half' \subseteq Mobile
  <2>1. pc[h] = "finish" => reqs[task[h].req].mobile \in Mobile
    BY TaskType, RequestType
  <2> QED BY <2>1 DEF Fail, TypeOK
<1>3. /\ pc' \in [Handler -> Stage] /\ task' \in [Handler -> Task]
      /\ \A g \in Handler :
           /\ task'[g].kind = KindOf(pc'[g])
           /\ task'[g].kind = "review" => task'[g].req <= Len(reqs')
  BY <1>1, HandlerMoves
<1> QED BY <1>1, <1>2, <1>3 DEF TypeOK

\* The tables and what the handlers keep are well typed, and what a handler
\* keeps is of the kind its next transaction needs: a review's request is in
\* the table, since requests are never deleted.
THEOREM DirectoryTypeOK == Spec => []TypeOK
<1>1. Init => TypeOK
  <2> SUFFICES ASSUME Init PROVE TypeOK
    OBVIOUS
  <2>1. KindOf("idle") = "nothing" /\ Nothing.kind = "nothing"
    BY DEF KindOf, Nothing
  <2> QED BY <2>1, DirectoryAssumption DEF Init, TypeOK, Stage, Task
<1>2. TypeOK /\ [Next]_vars => TypeOK'
  <2> SUFFICES ASSUME TypeOK, [Next]_vars
               PROVE  TypeOK'
    OBVIOUS
  <2>1. ASSUME NEW h \in Handler, NEW m \in Mobile, Lookup(h, m)
        PROVE  TypeOK'
    BY <2>1, LookupType
  <2>2. ASSUME NEW h \in Handler, GetOrCreate(h) \/ WalkIn(h)
        PROVE  TypeOK'
    BY <2>2, GetOrCreateType, StartType DEF WalkIn
  <2>3. ASSUME NEW h \in Handler, Onboard(h)
        PROVE  TypeOK'
    BY <2>3, OnboardType, StartType DEF Onboard
  <2>4. ASSUME NEW h \in Handler, Fail(h)
        PROVE  TypeOK'
    BY <2>4, FailType
  <2>5. ASSUME NEW m \in Mobile, AdminUpdateUser(m)
        PROVE  TypeOK'
    <3>1. UNCHANGED <<roles, reqs, pc, task, answer, overlapped, provided, half>>
      BY <2>5 DEF AdminUpdateUser
    <3>2. /\ users' \in [Mobile -> {NoUser} \union UserRow]
          /\ vouched' \in [Mobile -> SUBSET ProviderType]
      BY <2>5, AdminEffect
    <3> QED BY <3>1, <3>2 DEF TypeOK
  <2>6. ASSUME NEW m \in Mobile, AdminAssignRole(m)
        PROVE  TypeOK'
    <3>1. UNCHANGED <<users, reqs, pc, task, answer, overlapped, provided, half>>
      BY <2>6 DEF AdminAssignRole
    <3>2. /\ roles' \in [Mobile -> SUBSET UserType]
          /\ vouched' \in [Mobile -> SUBSET ProviderType]
      BY <2>6, GrantEffect
    <3> QED BY <3>1, <3>2 DEF TypeOK
  <2>7. ASSUME NEW h \in Handler, SubAdmin(h)
        PROVE  TypeOK'
    BY <2>7, SubAdminType, StartType DEF SubAdmin
  <2>8. CASE UNCHANGED vars
    BY <2>8 DEF vars, history, TypeOK
  <2> QED BY <2>1, <2>2, <2>3, <2>4, <2>5, <2>6, <2>7, <2>8 DEF Next
<1> QED BY <1>1, <1>2, PTL DEF Spec

-----------------------------------------------------------------------------
(* What a step may do *)

Review == {"approve", "finish", "reject"}

\* The handlers other than h stay where they are.
OthersStay(h) == \A g \in Handler \ {h} : pc'[g] = pc[g] /\ task'[g] = task[g]

\* Handler h takes a step that has nothing to do with onboarding requests.
Quiet(h) ==
    /\ UNCHANGED <<reqs, overlapped, provided, half>>
    /\ OthersStay(h)
    /\ pc[h] \notin Review /\ pc'[h] \notin Review

\* Every step moves one handler at most.
LEMMA OneMoves ==
  ASSUME TypeOK, NEW h \in Handler,
         \/ \E stage : Goto(h, stage) /\ UNCHANGED task
         \/ \E stage : Goto(h, stage) /\ \E t : task' = [task EXCEPT ![h] = t]
  PROVE  OthersStay(h)
BY DEF OthersStay, Goto, TypeOK

\* The steps of get-or-create, of a walk-in and of a sub-admin, and the check of
\* a form, are quiet.
LEMMA QuietSteps ==
  ASSUME TypeOK, NEW h \in Handler,
         \/ \E m \in Mobile : Lookup(h, m)
         \/ GetOrCreate(h) \/ WalkIn(h) \/ SubAdmin(h)
         \/ \E m \in Mobile, p \in Portal : CheckForm(h, m, p)
  PROVE  Quiet(h)
<1>1. UNCHANGED <<reqs, overlapped, provided, half>>
  BY DEF Lookup, GetOrCreate, CreateUser, ReadRoles, AssignRole, WalkIn,
         LookupWalkIn, CreateWalkIn, SubAdmin, LookupSubAdmin, CreateSubAdmin,
         GrantSubAdmin, CheckForm, history
<1>2. PICK stage \in Stage \ Review :
        /\ Goto(h, stage)
        /\ UNCHANGED task \/ \E t : task' = [task EXCEPT ![h] = t]
  BY DEF Lookup, GetOrCreate, CreateUser, ReadRoles, AssignRole, WalkIn,
         LookupWalkIn, CreateWalkIn, SubAdmin, LookupSubAdmin, CreateSubAdmin,
         GrantSubAdmin, CheckForm, Start, Done, Respond, Stage, Review
<1>3. pc[h] \notin Review
  BY DEF Lookup, GetOrCreate, CreateUser, ReadRoles, AssignRole, WalkIn,
         LookupWalkIn, CreateWalkIn, SubAdmin, LookupSubAdmin, CreateSubAdmin,
         GrantSubAdmin, CheckForm, Start, Review
<1>4. pc'[h] \notin Review
  BY <1>2 DEF Goto, TypeOK
<1> QED BY <1>1, <1>2, <1>3, <1>4, OneMoves DEF Quiet

\* Submitting a form moves its handler only.
LEMMA InsertSteps ==
  ASSUME TypeOK, NEW h \in Handler, InsertRequest(h)
  PROVE  /\ OthersStay(h) /\ pc[h] \notin Review /\ pc'[h] \notin Review
         /\ UNCHANGED <<users, roles, history>>
<1>1. /\ pc[h] = "submit" /\ Done(h) /\ UNCHANGED <<users, roles, history>>
  BY DEF InsertRequest
<1>2. pc'[h] = "idle"
  BY <1>1 DEF Done, Goto, TypeOK
<1> QED BY <1>1, <1>2, OneMoves DEF Done, Review

\* The beginning of a review.
LEMMA StartSteps ==
  ASSUME TypeOK, NEW h \in Handler, NEW i \in 1 .. MaxRequests,
         NEW s \in {"approve", "reject"}, StartReview(h, i, s)
  PROVE  /\ UNCHANGED <<users, roles, reqs, vouched, provided, half>>
         /\ overlapped' = IF Reviewing(i) = {} THEN overlapped
                                               ELSE overlapped \union {i}
         /\ i \in 1 .. Len(reqs) /\ reqs[i].status = "pending"
         /\ OthersStay(h) /\ pc[h] = "idle"
         /\ pc'[h] = s /\ task'[h].req = i
<1>1. Start(h, s, [kind |-> "review", req |-> i])
  BY DEF StartReview
<1>2. pc'[h] = s /\ task'[h] = [kind |-> "review", req |-> i] /\ pc[h] = "idle"
  BY <1>1 DEF Start, Goto, TypeOK
<1>3. OthersStay(h)
  BY <1>1, OneMoves DEF Start
<1> QED BY <1>2, <1>3 DEF StartReview

\* The user of an approval is inserted, or the approval ends.
LEMMA CreateSteps ==
  ASSUME TypeOK, NEW h \in Handler, CreateProvider(h)
  PROVE  /\ UNCHANGED <<roles, reqs, overlapped, half>>
         /\ OthersStay(h) /\ pc[h] = "approve" /\ task[h].req \in 1 .. Len(reqs)
         /\ LET m == reqs[task[h].req].mobile
                type == PortalToUserType[reqs[task[h].req].portal_type]
            IN \/ /\ ~ Exists(m)
                  /\ users' = [users EXCEPT ![m] = NewUser(type)]
                  /\ vouched' = [vouched EXCEPT ![m] = @ \union {type}]
                  /\ provided' = provided \union {m}
                  /\ pc'[h] = "finish" /\ task'[h] = task[h]
               \/ /\ pc'[h] = "idle"
                  /\ UNCHANGED <<users, vouched, provided>>
<1>1. pc[h] = "approve" /\ UNCHANGED <<roles, reqs, overlapped, half>>
  BY DEF CreateProvider
<1>2. task[h].req \in 1 .. Len(reqs)
  BY <1>1, TaskType
<1>3. OthersStay(h)
  BY OneMoves DEF CreateProvider, Done
<1> QED BY <1>1, <1>2, <1>3 DEF CreateProvider, Done, Goto, TypeOK

\* The role and the status of an approval are committed.
LEMMA ApproveSteps ==
  ASSUME TypeOK, NEW h \in Handler, FinishApprove(h)
  PROVE  /\ UNCHANGED <<users, history>>
         /\ OthersStay(h) /\ pc[h] = "finish" /\ pc'[h] = "idle"
         /\ task[h].req \in 1 .. Len(reqs)
         /\ Len(reqs') = Len(reqs)
         /\ \A j \in 1 .. Len(reqs) :
              /\ reqs'[j].mobile = reqs[j].mobile
              /\ reqs'[j].portal_type = reqs[j].portal_type
              /\ reqs'[j].status = IF j = task[h].req THEN "approved"
                                                      ELSE reqs[j].status
         /\ roles' = [roles EXCEPT ![reqs[task[h].req].mobile] =
                        @ \union {PortalToUserType[reqs[task[h].req].portal_type]}]
<1>1. pc[h] = "finish" /\ Done(h) /\ UNCHANGED <<users, history>>
  BY DEF FinishApprove
<1>2. task[h].req \in 1 .. Len(reqs)
  BY <1>1, TaskType
<1>3. OthersStay(h) /\ pc'[h] = "idle"
  BY <1>1, OneMoves DEF Done, Goto, TypeOK
<1>4. reqs' = [reqs EXCEPT ![task[h].req].status = "approved"]
  BY DEF FinishApprove
<1>5. /\ Len(reqs') = Len(reqs)
      /\ \A j \in 1 .. Len(reqs) :
           /\ reqs'[j].mobile = reqs[j].mobile
           /\ reqs'[j].portal_type = reqs[j].portal_type
           /\ reqs'[j].status = IF j = task[h].req THEN "approved" ELSE reqs[j].status
  BY <1>2, <1>4, SetStatus
<1> QED BY <1>1, <1>2, <1>3, <1>5 DEF FinishApprove

\* The status of a rejection is committed.
LEMMA RejectSteps ==
  ASSUME TypeOK, NEW h \in Handler, FinishReject(h)
  PROVE  /\ UNCHANGED <<users, roles, history>>
         /\ OthersStay(h) /\ pc[h] = "reject" /\ pc'[h] = "idle"
         /\ task[h].req \in 1 .. Len(reqs)
         /\ Len(reqs') = Len(reqs)
         /\ \A j \in 1 .. Len(reqs) :
              /\ reqs'[j].mobile = reqs[j].mobile
              /\ reqs'[j].portal_type = reqs[j].portal_type
              /\ reqs'[j].status = IF j = task[h].req THEN "rejected"
                                                      ELSE reqs[j].status
<1>1. pc[h] = "reject" /\ Done(h) /\ UNCHANGED <<users, roles, history>>
  BY DEF FinishReject
<1>2. task[h].req \in 1 .. Len(reqs)
  BY <1>1, TaskType
<1>3. OthersStay(h) /\ pc'[h] = "idle"
  BY <1>1, OneMoves DEF Done, Goto, TypeOK
<1>4. reqs' = [reqs EXCEPT ![task[h].req].status = "rejected"]
  BY DEF FinishReject
<1> QED BY <1>1, <1>2, <1>3, <1>4, SetStatus

\* A handler that fails writes nothing.
LEMMA FailSteps ==
  ASSUME TypeOK, NEW h \in Handler, Fail(h)
  PROVE  /\ UNCHANGED <<users, roles, reqs, vouched, overlapped, provided>>
         /\ OthersStay(h) /\ pc'[h] = "idle"
         /\ half' = IF pc[h] = "finish" THEN half \union {reqs[task[h].req].mobile}
                                        ELSE half
<1>1. Done(h)
  BY DEF Fail
<1>2. OthersStay(h) /\ pc'[h] = "idle"
  BY <1>1, OneMoves DEF Done, Goto, TypeOK
<1> QED BY <1>2 DEF Fail

-----------------------------------------------------------------------------
(* Consequences of a step, whichever it is *)

\* Requests stay in the table with their mobile and portal, a new one is
\* pending, and a status changes only when a review of the request ends.
LEMMA RequestsKept ==
  ASSUME TypeOK, [Next]_vars
  PROVE  /\ Len(reqs) \in Nat /\ Len(reqs') \in Nat /\ Len(reqs) <= Len(reqs')
         /\ \A i \in 1 .. Len(reqs) :
              /\ reqs'[i].mobile = reqs[i].mobile
              /\ reqs'[i].portal_type = reqs[i].portal_type
              /\ \/ reqs'[i].status = reqs[i].status
                 \/ \E h \in Handler :
                      /\ task[h].req = i
                      /\ \/ FinishApprove(h) /\ reqs'[i].status = "approved"
                         \/ FinishReject(h) /\ reqs'[i].status = "rejected"
         /\ \A i \in 1 .. Len(reqs') :
              i \in 1 .. Len(reqs) \/ reqs'[i].status = "pending"
<1>1. Len(reqs) \in Nat
  BY DEF TypeOK
<1>2. CASE UNCHANGED reqs
  BY <1>1, <1>2
<1>3. ASSUME NEW h \in Handler, InsertRequest(h)
      PROVE  /\ Len(reqs') = Len(reqs) + 1
             /\ \A i \in 1 .. Len(reqs) : reqs'[i] = reqs[i]
             /\ reqs'[Len(reqs) + 1].status = "pending"
  BY <1>3, AddRequest
<1>4. ASSUME NEW h \in Handler, FinishApprove(h)
      PROVE  /\ Len(reqs') = Len(reqs)
             /\ \A j \in 1 .. Len(reqs) :
                  /\ reqs'[j].mobile = reqs[j].mobile
                  /\ reqs'[j].portal_type = reqs[j].portal_type
                  /\ reqs'[j].status = IF j = task[h].req THEN "approved"
                                                          ELSE reqs[j].status
  BY <1>4, ApproveSteps
<1>5. ASSUME NEW h \in Handler, FinishReject(h)
      PROVE  /\ Len(reqs') = Len(reqs)
             /\ \A j \in 1 .. Len(reqs) :
                  /\ reqs'[j].mobile = reqs[j].mobile
                  /\ reqs'[j].portal_type = reqs[j].portal_type
                  /\ reqs'[j].status = IF j = task[h].req THEN "rejected"
                                                          ELSE reqs[j].status
  BY <1>5, RejectSteps
<1>6. \/ UNCHANGED reqs
      \/ \E h \in Handler : InsertRequest(h) \/ FinishApprove(h) \/ FinishReject(h)
  BY DEF Next, vars, Lookup, GetOrCreate, CreateUser, ReadRoles, AssignRole, WalkIn,
         LookupWalkIn, CreateWalkIn, Onboard, CheckForm, StartReview, CreateProvider,
         Fail, AdminUpdateUser, AdminAssignRole, SubAdmin, LookupSubAdmin,
         CreateSubAdmin, GrantSubAdmin
<1> QED BY <1>1, <1>2, <1>3, <1>4, <1>5, <1>6

\* Users and roles stay, and so does what history recorded.
LEMMA UsersKept ==
  ASSUME TypeOK, [Next]_vars
  PROVE  /\ \A m \in Mobile : Exists(m) => Exists(m)'
         /\ \A m \in Mobile : roles[m] \subseteq roles'[m]
         /\ \A m \in Mobile : vouched[m] \subseteq vouched'[m]
         /\ overlapped \subseteq overlapped' /\ half \subseteq half'
         /\ provided \subseteq provided'
<1>1. ASSUME NEW h \in Handler, GetOrCreate(h) \/ CreateWalkIn(h)
      PROVE  /\ \A m \in Mobile : Exists(m) => Exists(m)'
             /\ \A m \in Mobile : roles[m] \subseteq roles'[m]
             /\ UNCHANGED history
  <2>1. UNCHANGED history
    BY <1>1 DEF GetOrCreate, CreateUser, ReadRoles, AssignRole, CreateWalkIn
  <2>2. \/ UNCHANGED users
        \/ \E m : ~ Exists(m) /\ \E u : users' = [users EXCEPT ![m] = u]
    BY <1>1 DEF GetOrCreate, CreateUser, ReadRoles, AssignRole, CreateWalkIn
  <2>3. \A m \in Mobile : Exists(m) => Exists(m)'
    BY <2>2 DEF Exists, TypeOK
  <2>4. \A m \in Mobile : roles[m] \subseteq roles'[m]
    BY <1>1 DEF GetOrCreate, CreateUser, ReadRoles, AssignRole, CreateWalkIn, TypeOK
  <2> QED BY <2>1, <2>3, <2>4
<1>2. ASSUME NEW h \in Handler,
             \/ \E m \in Mobile : Lookup(h, m)
             \/ \E m \in Mobile : LookupWalkIn(h, m)
             \/ \E m \in Mobile, r \in GrantedRole : LookupSubAdmin(h, m, r)
             \/ \E m \in Mobile, p \in Portal : CheckForm(h, m, p)
             \/ InsertRequest(h) \/ FinishReject(h)
      PROVE  UNCHANGED <<users, roles, history>>
  BY <1>2 DEF Lookup, LookupWalkIn, LookupSubAdmin, CheckForm, InsertRequest, FinishReject
<1>3. ASSUME NEW h \in Handler, NEW i \in 1 .. MaxRequests,
             NEW s \in {"approve", "reject"}, StartReview(h, i, s)
      PROVE  /\ UNCHANGED <<users, roles, vouched, half, provided>>
             /\ overlapped \subseteq overlapped'
  BY <1>3 DEF StartReview
<1>4. ASSUME NEW h \in Handler, CreateProvider(h)
      PROVE  /\ \A m \in Mobile : Exists(m) => Exists(m)'
             /\ \A m \in Mobile : vouched[m] \subseteq vouched'[m]
             /\ provided \subseteq provided'
             /\ UNCHANGED <<roles, overlapped, half>>
  BY <1>4, CreateSteps DEF Exists, TypeOK
<1>5. ASSUME NEW h \in Handler, FinishApprove(h)
      PROVE  /\ UNCHANGED <<users, history>>
             /\ \A m \in Mobile : roles[m] \subseteq roles'[m]
  BY <1>5, ApproveSteps DEF TypeOK
<1>6. ASSUME NEW h \in Handler, Fail(h)
      PROVE  /\ UNCHANGED <<users, roles, vouched, overlapped, provided>>
             /\ half \subseteq half'
  BY <1>6 DEF Fail
<1>7. ASSUME NEW m \in Mobile, AdminUpdateUser(m)
      PROVE  /\ \A n \in Mobile : Exists(n) => Exists(n)'
             /\ \A n \in Mobile : vouched[n] \subseteq vouched'[n]
             /\ UNCHANGED <<roles, overlapped, provided, half>>
  <2>1. UNCHANGED <<roles, overlapped, provided, half>>
    BY <1>7 DEF AdminUpdateUser
  <2>2. users'[m].exists
    BY <1>7, AdminEffect, UserRows
  <2> QED BY <1>7, <2>1, <2>2, AdminEffect DEF Exists
<1>8. ASSUME NEW h \in Handler, CreateSubAdmin(h)
      PROVE  /\ \A m \in Mobile : Exists(m) => Exists(m)'
             /\ UNCHANGED <<roles, history>>
  <2>1. NewUser("admin").exists
    BY DEF NewUser
  <2> QED BY <1>8, <2>1, SubAdminUser DEF CreateSubAdmin, Exists
<1>9. ASSUME \/ \E m \in Mobile : AdminAssignRole(m)
             \/ \E h \in Handler : GrantSubAdmin(h)
      PROVE  /\ \A m \in Mobile : roles[m] \subseteq roles'[m] /\ vouched[m] \subseteq vouched'[m]
             /\ UNCHANGED <<users, overlapped, provided, half>>
  BY <1>9, GrantEffect DEF AdminAssignRole, GrantSubAdmin
<1> QED BY <1>1, <1>2, <1>3, <1>4, <1>5, <1>6, <1>7, <1>8, <1>9
        DEF Next, vars, history, Exists, WalkIn, Onboard, SubAdmin

\* How a handler gets to the second commit of an approval, and leaves it.
LEMMA FinishMoves ==
  ASSUME TypeOK, [Next]_vars, NEW g \in Handler
  PROVE  /\ pc'[g] = "finish" =>
              /\ task'[g] = task[g] /\ task[g].req \in 1 .. Len(reqs)
              /\ pc[g] = "finish" \/ CreateProvider(g)
         /\ pc[g] = "finish" =>
              \/ pc'[g] = "finish" /\ task'[g] = task[g]
              \/ FinishApprove(g) \/ Fail(g)
<1> DEFINE Goal ==
        /\ pc'[g] = "finish" =>
             /\ task'[g] = task[g] /\ task[g].req \in 1 .. Len(reqs)
             /\ pc[g] = "finish" \/ CreateProvider(g)
        /\ pc[g] = "finish" =>
             \/ pc'[g] = "finish" /\ task'[g] = task[g]
             \/ FinishApprove(g) \/ Fail(g)
<1>1. pc[g] = "finish" => task[g].req \in 1 .. Len(reqs)
  BY TaskType
<1>2. ASSUME NEW h \in Handler, Quiet(h)
      PROVE  Goal
  BY <1>1, <1>2 DEF Quiet, OthersStay, Review
<1>3. ASSUME NEW h \in Handler, InsertRequest(h)
      PROVE  Goal
  BY <1>1, <1>3, InsertSteps DEF OthersStay, Review
<1>4. ASSUME NEW h \in Handler, NEW i \in 1 .. MaxRequests,
             NEW s \in {"approve", "reject"}, StartReview(h, i, s)
      PROVE  Goal
  BY <1>1, <1>4, StartSteps DEF OthersStay
<1>5. ASSUME NEW h \in Handler, CreateProvider(h)
      PROVE  Goal
  BY <1>1, <1>5, CreateSteps DEF OthersStay
<1>6. ASSUME NEW h \in Handler, FinishApprove(h)
      PROVE  Goal
  BY <1>1, <1>6, ApproveSteps DEF OthersStay
<1>7. ASSUME NEW h \in Handler, FinishReject(h)
      PROVE  Goal
  BY <1>1, <1>7, RejectSteps DEF OthersStay
<1>8. ASSUME NEW h \in Handler, Fail(h)
      PROVE  Goal
  BY <1>1, <1>8, FailSteps DEF OthersStay
<1>9. ASSUME UNCHANGED <<pc, task>>
      PROVE  Goal
  BY <1>1, <1>9
<1> HIDE DEF Goal
<1>10. \/ UNCHANGED <<pc, task>>
       \/ \E h \in Handler :
            \/ Quiet(h) \/ InsertRequest(h) \/ CreateProvider(h)
            \/ FinishApprove(h) \/ FinishReject(h) \/ Fail(h)
            \/ \E i \in 1 .. MaxRequests, s \in {"approve", "reject"} : StartReview(h, i, s)
  BY QuietSteps DEF Next, vars, AdminUpdateUser, AdminAssignRole, Onboard
<1>11. Goal
  <2>1. CASE UNCHANGED <<pc, task>>
    BY <1>9, <2>1
  <2>2. ASSUME NEW h \in Handler,
               \/ Quiet(h) \/ InsertRequest(h) \/ CreateProvider(h)
               \/ FinishApprove(h) \/ FinishReject(h) \/ Fail(h)
        PROVE  Goal
    BY <1>2, <1>3, <1>5, <1>6, <1>7, <1>8, <2>2
  <2> QED BY <1>4, <1>10, <2>1, <2>2
<1> QED BY <1>11 DEF Goal

-----------------------------------------------------------------------------
(* An approved request has a user with its role *)

\* Between its two commits an approval has its user: nobody deletes one.
FinishHasUser ==
    \A h \in Handler : pc[h] = "finish" => Exists(reqs[task[h].req].mobile)

LEMMA FinishUserStep ==
  ASSUME TypeOK, FinishHasUser, [Next]_vars
  PROVE  FinishHasUser'
<1> SUFFICES ASSUME NEW g \in Handler, pc'[g] = "finish"
             PROVE  Exists(reqs[task[g].req].mobile)'
  BY DEF FinishHasUser
<1> DEFINE m == reqs[task[g].req].mobile
<1>1. task'[g] = task[g] /\ task[g].req \in 1 .. Len(reqs)
  BY FinishMoves
<1>2. reqs'[task'[g].req].mobile = m /\ m \in Mobile
  BY <1>1, RequestsKept, RequestType
<1>3. CASE pc[g] = "finish"
  <2>1. Exists(m)
    BY <1>3 DEF FinishHasUser
  <2>2. Exists(m) => Exists(m)'
    BY <1>2, UsersKept
  <2> QED BY <1>2, <2>1, <2>2 DEF Exists
<1>4. CASE CreateProvider(g)
  <2>1. users' = [users EXCEPT ![m] =
                    NewUser(PortalToUserType[reqs[task[g].req].portal_type])]
    BY <1>4, CreateSteps
  <2>2. users'[m].exists
    BY <1>2, <2>1 DEF NewUser, TypeOK
  <2> QED BY <1>2, <2>2 DEF Exists
<1> QED BY <1>3, <1>4, FinishMoves

LEMMA ApprovedStep ==
  ASSUME TypeOK, FinishHasUser, ApprovedHasRole, [Next]_vars
  PROVE  ApprovedHasRole'
<1> SUFFICES ASSUME NEW i \in 1 .. Len(reqs'), reqs'[i].status = "approved"
             PROVE  /\ Exists(reqs[i].mobile)'
                    /\ PortalToUserType[reqs'[i].portal_type] \in roles'[reqs'[i].mobile]
  BY DEF ApprovedHasRole
<1> DEFINE m == reqs[i].mobile
           type == PortalToUserType[reqs[i].portal_type]
<1>1. i \in 1 .. Len(reqs)
  BY RequestsKept
<1>2. reqs'[i].mobile = m /\ reqs'[i].portal_type = reqs[i].portal_type /\ m \in Mobile
  BY <1>1, RequestsKept, RequestType
<1>3. (Exists(m) => Exists(m)') /\ roles[m] \subseteq roles'[m]
  BY <1>2, UsersKept
<1>4. CASE reqs'[i].status = reqs[i].status
  <2>1. Exists(m) /\ type \in roles[m]
    BY <1>1, <1>4 DEF ApprovedHasRole
  <2> QED BY <1>2, <1>3, <2>1 DEF Exists
<1>5. ASSUME NEW h \in Handler, task[h].req = i, FinishApprove(h)
      PROVE  Exists(m)' /\ type \in roles'[m]
  <2>1. pc[h] = "finish" /\ roles' = [roles EXCEPT ![m] = @ \union {type}]
    BY <1>5, ApproveSteps
  <2>2. Exists(m)
    BY <1>5, <2>1 DEF FinishHasUser
  <2>3. type \in roles'[m]
    BY <1>2, <2>1 DEF TypeOK
  <2> QED BY <1>3, <2>2, <2>3
<1>6. reqs'[i].status # "rejected"
  OBVIOUS
<1> QED BY <1>1, <1>2, <1>4, <1>5, <1>6, RequestsKept DEF Exists

\* An approved request has a user with the role of its portal.  The approval
\* commits the user long before; that the user is still there when the role
\* and the status are committed is what FinishHasUser adds.
THEOREM DirectoryApprovedHasRole == Spec => []ApprovedHasRole
<1>1. Init => FinishHasUser /\ ApprovedHasRole
  BY DEF Init, FinishHasUser, ApprovedHasRole
<1>2. TypeOK /\ FinishHasUser /\ ApprovedHasRole /\ [Next]_vars
        => (FinishHasUser /\ ApprovedHasRole)'
  BY FinishUserStep, ApprovedStep
<1> QED BY <1>1, <1>2, DirectoryTypeOK, PTL DEF Spec

-----------------------------------------------------------------------------
(* One approval of a mobile *)

\* The approvals between their two commits, and the approved requests, are of
\* different mobiles.
OneFinish ==
    /\ \A g, h \in Handler :
         /\ pc[g] = "finish" /\ pc[h] = "finish"
         /\ reqs[task[g].req].mobile = reqs[task[h].req].mobile
         => g = h
    /\ \A h \in Handler, i \in 1 .. Len(reqs) :
         pc[h] = "finish" /\ reqs[i].mobile = reqs[task[h].req].mobile =>
            reqs[i].status # "approved"

\* A handler that reaches its second commit found no user of its mobile.
LEMMA FinishFirst ==
  ASSUME TypeOK, NEW h \in Handler, CreateProvider(h), pc'[h] = "finish"
  PROVE  ~ Exists(reqs[task[h].req].mobile) /\ reqs' = reqs
BY CreateSteps

LEMMA OneFinishStep ==
  ASSUME TypeOK, FinishHasUser, ApprovedHasRole, OneFinish, [Next]_vars
  PROVE  OneFinish'
<1>1. ASSUME NEW h \in Handler, pc'[h] = "finish"
      PROVE  /\ task'[h] = task[h] /\ task[h].req \in 1 .. Len(reqs)
             /\ reqs'[task'[h].req].mobile = reqs[task[h].req].mobile
             /\ pc[h] = "finish" \/ CreateProvider(h)
  BY <1>1, FinishMoves, RequestsKept
<1>2. ASSUME NEW g \in Handler, NEW h \in Handler,
             pc'[g] = "finish", pc'[h] = "finish",
             reqs[task[g].req].mobile = reqs[task[h].req].mobile
      PROVE  g = h
  <2>1. CASE pc[g] = "finish" /\ pc[h] = "finish"
    BY <1>2, <2>1 DEF OneFinish
  <2>2. CASE pc[g] = "finish" /\ CreateProvider(h)
    BY <1>2, <2>2, FinishFirst DEF FinishHasUser
  <2>3. CASE CreateProvider(g) /\ pc[h] = "finish"
    BY <1>2, <2>3, FinishFirst DEF FinishHasUser
  <2>4. CASE CreateProvider(g) /\ CreateProvider(h)
    BY <1>2, <2>4, CreateSteps DEF OthersStay
  <2> QED BY <1>1, <1>2, <2>1, <2>2, <2>3, <2>4
<1>3. ASSUME NEW h \in Handler, NEW i \in 1 .. Len(reqs), pc'[h] = "finish",
             reqs[i].mobile = reqs[task[h].req].mobile
      PROVE  reqs'[i].status # "approved"
  <2>1. CASE CreateProvider(h)
    BY <1>3, <2>1, FinishFirst DEF ApprovedHasRole
  <2>2. CASE pc[h] = "finish"
    <3>1. reqs[i].status # "approved"
      BY <1>3, <2>2 DEF OneFinish
    <3>2. ASSUME NEW g \in Handler, task[g].req = i, FinishApprove(g)
          PROVE  FALSE
      <4>1. pc[g] = "finish" /\ pc'[g] = "idle"
        BY <3>2, ApproveSteps
      <4>2. g = h
        BY <1>3, <2>2, <3>2, <4>1 DEF OneFinish
      <4> QED BY <1>3, <4>1, <4>2
    <3>3. \/ reqs'[i].status = reqs[i].status
          \/ \E g \in Handler : task[g].req = i /\ FinishApprove(g)
          \/ reqs'[i].status = "rejected"
      BY RequestsKept
    <3> QED BY <3>1, <3>2, <3>3
  <2> QED BY <1>1, <1>3, <2>1, <2>2
<1>4. ASSUME NEW h \in Handler, NEW i \in 1 .. Len(reqs'), pc'[h] = "finish",
             reqs'[i].mobile = reqs'[task'[h].req].mobile
      PROVE  reqs'[i].status # "approved"
  <2>1. CASE i \in 1 .. Len(reqs)
    <3>1. reqs'[i].mobile = reqs[i].mobile
      BY <2>1, RequestsKept
    <3>2. reqs'[task'[h].req].mobile = reqs[task[h].req].mobile
      BY <1>1, <1>4
    <3> QED BY <1>3, <1>4, <2>1, <3>1, <3>2
  <2>2. CASE i \notin 1 .. Len(reqs)
    BY <1>4, <2>2, RequestsKept
  <2> QED BY <2>1, <2>2
<1>5. ASSUME NEW g \in Handler, NEW h \in Handler,
             pc'[g] = "finish", pc'[h] = "finish",
             reqs'[task'[g].req].mobile = reqs'[task'[h].req].mobile
      PROVE  g = h
  BY <1>1, <1>2, <1>5
<1> QED BY <1>4, <1>5 DEF OneFinish

LEMMA OneApprovedStep ==
  ASSUME TypeOK, OneFinish, OneApproved, [Next]_vars
  PROVE  OneApproved'
<1> SUFFICES ASSUME NEW i \in 1 .. Len(reqs'), NEW j \in 1 .. Len(reqs'),
                    reqs'[i].status = "approved", reqs'[j].status = "approved",
                    reqs'[i].mobile = reqs'[j].mobile
             PROVE  i = j
  BY DEF OneApproved
<1>1. i \in 1 .. Len(reqs) /\ j \in 1 .. Len(reqs)
  BY RequestsKept
<1>2. reqs[i].mobile = reqs[j].mobile
  BY <1>1, RequestsKept
<1>3. ASSUME NEW k \in {i, j}, NEW l \in {i, j}, NEW h \in Handler,
             task[h].req = k, FinishApprove(h)
      PROVE  k = l
  <2>1. pc[h] = "finish" /\ reqs'[l].status = IF l = k THEN "approved" ELSE reqs[l].status
    BY <1>1, <1>3, ApproveSteps
  <2>2. reqs[l].status # "approved"
    BY <1>1, <1>2, <1>3, <2>1 DEF OneFinish
  <2> QED BY <2>1, <2>2
<1>4. CASE reqs[i].status = "approved" /\ reqs[j].status = "approved"
  BY <1>1, <1>2, <1>4 DEF OneApproved
<1>5. \A k \in {i, j} :
        \/ reqs[k].status = "approved"
        \/ \E h \in Handler : task[h].req = k /\ FinishApprove(h)
  BY <1>1, RequestsKept
<1> QED BY <1>3, <1>4, <1>5

\* However many forms of a mobile are pending together, only one of them is
\* ever approved: users are never deleted, so the first approval's user makes
\* every later one fail.
THEOREM DirectoryOneApproved == Spec => []OneApproved
<1> DEFINE I == FinishHasUser /\ ApprovedHasRole /\ OneFinish /\ OneApproved
<1>1. Init => I
  BY DEF Init, FinishHasUser, ApprovedHasRole, OneFinish, OneApproved
<1>2. TypeOK /\ I /\ [Next]_vars => I'
  BY FinishUserStep, ApprovedStep, OneFinishStep, OneApprovedStep
<1>3. I => OneApproved
  OBVIOUS
<1> HIDE DEF I
<1> QED BY <1>1, <1>2, <1>3, DirectoryTypeOK, PTL DEF Spec

-----------------------------------------------------------------------------
(* A decision stands *)

\* A request that no two reviews shared has one reviewer at most, and is
\* pending while it has one.
OneReviewer ==
    \A i \in 1 .. Len(reqs) : i \notin overlapped =>
        /\ \A g, h \in Reviewing(i) : g = h
        /\ Reviewing(i) # {} => reqs[i].status = "pending"

\* A handler comes to review a request by the first read of a review only.
LEMMA ReviewMoves ==
  ASSUME TypeOK, [Next]_vars, NEW g \in Handler, NEW i, g \in Reviewing(i)'
  PROVE  \/ g \in Reviewing(i)
         \/ /\ i \in 1 .. MaxRequests
            /\ \E s \in {"approve", "reject"} : StartReview(g, i, s)
<1> DEFINE Goal ==
        \/ g \in Reviewing(i)
        \/ /\ i \in 1 .. MaxRequests
           /\ \E s \in {"approve", "reject"} : StartReview(g, i, s)
<1>1. pc'[g] \in Review /\ task'[g].req = i
  BY DEF Reviewing, Review
<1>2. pc'[g] = pc[g] /\ task'[g] = task[g] => Goal
  BY <1>1 DEF Reviewing, Review
<1>3. ASSUME NEW h \in Handler, Quiet(h)
      PROVE  Goal
  BY <1>1, <1>2, <1>3 DEF Quiet, OthersStay
<1>4. ASSUME NEW h \in Handler, InsertRequest(h)
      PROVE  Goal
  BY <1>1, <1>2, <1>4, InsertSteps DEF OthersStay
<1>5. ASSUME NEW h \in Handler, NEW k \in 1 .. MaxRequests,
             NEW s \in {"approve", "reject"}, StartReview(h, k, s)
      PROVE  Goal
  <2>1. CASE g = h
    BY <1>1, <1>5, <2>1, StartSteps
  <2>2. CASE g # h
    BY <1>2, <1>5, <2>2, StartSteps DEF OthersStay
  <2> QED BY <2>1, <2>2
<1>6. ASSUME NEW h \in Handler, CreateProvider(h)
      PROVE  Goal
  <2>1. CASE g = h
    BY <1>1, <1>6, <2>1, CreateSteps DEF Reviewing, Review
  <2>2. CASE g # h
    BY <1>2, <1>6, <2>2, CreateSteps DEF OthersStay
  <2> QED BY <2>1, <2>2
<1>7. ASSUME NEW h \in Handler, FinishApprove(h) \/ FinishReject(h) \/ Fail(h)
      PROVE  Goal
  <2>1. OthersStay(h) /\ pc'[h] = "idle"
    BY <1>7, ApproveSteps, RejectSteps, FailSteps
  <2> QED BY <1>1, <1>2, <2>1 DEF OthersStay, Review
<1>8. ASSUME UNCHANGED <<pc, task>>
      PROVE  Goal
  BY <1>2, <1>8
<1>9. \/ UNCHANGED <<pc, task>>
      \/ \E h \in Handler :
           \/ Quiet(h) \/ InsertRequest(h) \/ CreateProvider(h)
           \/ FinishApprove(h) \/ FinishReject(h) \/ Fail(h)
           \/ \E k \in 1 .. MaxRequests, s \in {"approve", "reject"} : StartReview(h, k, s)
  BY QuietSteps DEF Next, vars, AdminUpdateUser, AdminAssignRole, Onboard
<1> HIDE DEF Goal
<1>10. Goal
  <2>1. ASSUME NEW h \in Handler,
               \/ Quiet(h) \/ InsertRequest(h) \/ CreateProvider(h)
               \/ FinishApprove(h) \/ FinishReject(h) \/ Fail(h)
        PROVE  Goal
    BY <1>3, <1>4, <1>6, <1>7, <2>1
  <2> QED BY <1>5, <1>8, <1>9, <2>1
<1> QED BY <1>10 DEF Goal

\* A reviewer's request is in the table.
LEMMA ReviewedExists ==
  ASSUME TypeOK, NEW i, NEW g \in Reviewing(i)
  PROVE  g \in Handler /\ pc[g] # "idle" /\ i \in 1 .. Len(reqs)
<1>1. g \in Handler /\ pc[g] \in {"approve", "finish", "reject"} /\ task[g].req = i
  BY DEF Reviewing
<1> QED BY <1>1, TaskType

LEMMA OneReviewerStep ==
  ASSUME TypeOK, OneReviewer, [Next]_vars
  PROVE  OneReviewer'
<1> SUFFICES ASSUME NEW i \in 1 .. Len(reqs'), i \notin overlapped'
             PROVE  /\ \A g, h \in Reviewing(i)' : g = h
                    /\ Reviewing(i)' # {} => reqs'[i].status = "pending"
  BY DEF OneReviewer
<1>1. i \notin overlapped
  BY UsersKept
<1>2. ASSUME NEW g \in Handler, NEW s \in {"approve", "reject"},
             i \in 1 .. MaxRequests, StartReview(g, i, s)
      PROVE  /\ Reviewing(i) = {} /\ i \in 1 .. Len(reqs)
             /\ reqs'[i].status = "pending"
             /\ \A h \in Handler : h # g => pc'[h] = pc[h]
             /\ pc[g] = "idle"
  BY <1>2, StartSteps DEF OthersStay
<1>3. ASSUME NEW g \in Reviewing(i)', g \notin Reviewing(i)
      PROVE  /\ g \in Handler
             /\ Reviewing(i) = {} /\ i \in 1 .. Len(reqs)
             /\ reqs'[i].status = "pending"
             /\ \A h \in Handler : h # g => pc'[h] = pc[h]
             /\ pc[g] = "idle"
  <2>1. g \in Handler
    BY DEF Reviewing
  <2>2. /\ i \in 1 .. MaxRequests
        /\ \E s \in {"approve", "reject"} : StartReview(g, i, s)
    BY <1>3, <2>1, ReviewMoves
  <2> QED BY <1>2, <2>1, <2>2
<1>4. ASSUME NEW g \in Reviewing(i)', NEW h \in Reviewing(i)'
      PROVE  g = h
  <2>1. CASE g \in Reviewing(i) /\ h \in Reviewing(i)
    <3>1. i \in 1 .. Len(reqs)
      BY <2>1, ReviewedExists
    <3> QED BY <1>1, <2>1, <3>1 DEF OneReviewer
  <2>2. CASE g \notin Reviewing(i) /\ h \notin Reviewing(i)
    <3>1. pc'[h] # "idle" /\ pc[h] = "idle"
      BY <1>3, <2>2 DEF Reviewing
    <3> QED BY <1>3, <2>2, <3>1
  <2> QED BY <1>3, <2>1, <2>2
<1>5. ASSUME NEW g \in Reviewing(i)', g \in Reviewing(i)
      PROVE  reqs'[i].status = "pending"
  <2>1. i \in 1 .. Len(reqs)
    BY <1>5, ReviewedExists
  <2>2. reqs[i].status = "pending" /\ \A h \in Reviewing(i) : h = g
    BY <1>1, <1>5, <2>1 DEF OneReviewer
  <2>3. ASSUME NEW h \in Handler, task[h].req = i, FinishApprove(h) \/ FinishReject(h)
        PROVE  FALSE
    <3>1. h \in Reviewing(i) /\ pc'[h] = "idle"
      BY <2>3, ApproveSteps, RejectSteps DEF Reviewing
    <3>2. pc'[g] # "idle"
      BY DEF Reviewing
    <3> QED BY <2>2, <3>1, <3>2
  <2> QED BY <2>1, <2>2, <2>3, RequestsKept
<1> QED BY <1>3, <1>4, <1>5

\* The end of a review of a request that was never shared finds it pending.
LEMMA EndsPending ==
  ASSUME TypeOK, OneReviewer, NEW i \in 1 .. Len(reqs), i \notin overlapped,
         NEW h \in Handler, task[h].req = i, FinishApprove(h) \/ FinishReject(h)
  PROVE  reqs[i].status = "pending"
<1>1. h \in Reviewing(i)
  BY DEF Reviewing, FinishApprove, FinishReject
<1> QED BY <1>1 DEF OneReviewer

\* Both reviews write the status blindly; that the read of line 274 or 333
\* still holds then is what having one reviewer gives.
THEOREM DirectoryDecisionStands == Spec => DecisionStands
<1> DEFINE A == \A i \in 1 .. Len(reqs) :
                  reqs[i].status # "pending" /\ i \notin overlapped =>
                    reqs'[i].status = reqs[i].status
<1>1. Init => OneReviewer
  BY DEF Init, OneReviewer
<1>2. TypeOK /\ OneReviewer /\ [Next]_vars => OneReviewer'
  BY OneReviewerStep
<1>3. TypeOK /\ OneReviewer /\ [Next]_vars => A
  BY RequestsKept, EndsPending
<1>4. A => [A]_vars
  OBVIOUS
<1> QED BY <1>1, <1>2, <1>3, DirectoryTypeOK, PTL DEF Spec, DecisionStands

-----------------------------------------------------------------------------
(* Every user that an approval created is accounted for *)

\* An approval between its two commits, or what it left, accounts for m.
LEMMA ProvidedStep ==
  ASSUME TypeOK, [Next]_vars, NEW m \in provided', m \notin provided
  PROVE  \E h \in Handler :
           /\ CreateProvider(h) /\ pc'[h] = "finish" /\ task'[h] = task[h]
           /\ task[h].req \in 1 .. Len(reqs) /\ reqs[task[h].req].mobile = m
           /\ reqs' = reqs
<1>1. PICK h \in Handler : CreateProvider(h)
  BY DEF Next, vars, history, Lookup, GetOrCreate, CreateUser, ReadRoles, AssignRole,
         WalkIn, LookupWalkIn, CreateWalkIn, Onboard, CheckForm, InsertRequest,
         StartReview, FinishApprove, FinishReject, Fail, AdminUpdateUser,
         AdminAssignRole, SubAdmin, LookupSubAdmin, CreateSubAdmin, GrantSubAdmin
<1> QED BY <1>1, CreateSteps

LEMMA AccountStep ==
  ASSUME TypeOK, OneReviewer, ProvidersAccountedFor, [Next]_vars
  PROVE  ProvidersAccountedFor'
<1> DEFINE Kept(m, i) == reqs'[i].mobile = m /\
              \/ reqs'[i].status = "approved"
              \/ i \in overlapped'
              \/ \E h \in Reviewing(i)' : pc'[h] = "finish"
<1> SUFFICES ASSUME NEW m \in provided'
             PROVE  m \in half' \/ \E i \in 1 .. Len(reqs') : Kept(m, i)
  BY DEF ProvidersAccountedFor
<1>1. CASE m \notin provided
  <2>1. PICK h \in Handler :
          /\ CreateProvider(h) /\ pc'[h] = "finish" /\ task'[h] = task[h]
          /\ task[h].req \in 1 .. Len(reqs) /\ reqs[task[h].req].mobile = m
          /\ reqs' = reqs
    BY <1>1, ProvidedStep
  <2>2. h \in Reviewing(task[h].req)'
    BY <2>1 DEF Reviewing
  <2> QED BY <2>1, <2>2
<1>2. CASE m \in provided /\ m \in half
  BY <1>2, UsersKept
<1>3. CASE m \in provided /\ m \notin half
  <2>1. PICK i \in 1 .. Len(reqs) :
          /\ reqs[i].mobile = m
          /\ \/ reqs[i].status = "approved"
             \/ i \in overlapped
             \/ \E h \in Reviewing(i) : pc[h] = "finish"
    BY <1>3 DEF ProvidersAccountedFor
  <2>2. i \in 1 .. Len(reqs') /\ reqs'[i].mobile = m
    BY <2>1, RequestsKept
  <2>3. CASE i \in overlapped
    BY <2>2, <2>3, UsersKept
  <2>4. CASE reqs[i].status = "approved" /\ i \notin overlapped
    <3>1. reqs'[i].status = "approved"
      BY <2>4, RequestsKept, EndsPending
    <3> QED BY <2>2, <3>1
  <2>5. ASSUME NEW h \in Reviewing(i), pc[h] = "finish"
        PROVE  m \in half' \/ Kept(m, i)
    <3>1. h \in Handler /\ task[h].req = i
      BY DEF Reviewing
    <3>2. CASE pc'[h] = "finish" /\ task'[h] = task[h]
      <4>1. h \in Reviewing(i)'
        BY <3>1, <3>2 DEF Reviewing
      <4> QED BY <2>2, <3>2, <4>1
    <3>3. CASE FinishApprove(h)
      BY <2>2, <3>1, <3>3, ApproveSteps
    <3>4. CASE Fail(h)
      BY <2>1, <2>5, <3>1, <3>4, FailSteps
    <3> QED BY <2>5, <3>1, <3>2, <3>3, <3>4, FinishMoves
  <2> HIDE DEF Kept
  <2>6. CASE \E h \in Reviewing(i) : pc[h] = "finish"
    BY <2>2, <2>5, <2>6
  <2> QED BY <2>1, <2>2, <2>3, <2>4, <2>6
<1> QED BY <1>1, <1>2, <1>3

\* A user created by an approval has an approved request, unless the approval
\* is still running, failed half way or overlapped another review: no other
\* order of reviews leaves a provider account without its approval.
THEOREM DirectoryProvidersAccountedFor == Spec => []ProvidersAccountedFor
<1>1. Init => OneReviewer /\ ProvidersAccountedFor
  BY DEF Init, OneReviewer, ProvidersAccountedFor
<1>2. TypeOK /\ OneReviewer /\ ProvidersAccountedFor /\ [Next]_vars
        => (OneReviewer /\ ProvidersAccountedFor)'
  BY OneReviewerStep, AccountStep
<1> QED BY <1>1, <1>2, DirectoryTypeOK, PTL DEF Spec

-----------------------------------------------------------------------------
(* Nobody gets a provider role that was not vouched for *)

Vouched(m, type) == type \in ProviderType => type \in vouched[m]

\* Every type on its way into user_roles, in a user's row or in a handler's
\* local variables, has been vouched for.
TypesVouched ==
    /\ \A m \in Mobile : Exists(m) => Vouched(m, users[m].user_type)
    /\ \A h \in Handler :
         task[h].kind = "user" => Vouched(task[h].mobile, task[h].user_type)
    /\ \A h \in Handler :
         pc[h] = "finish" => Vouched(reqs[task[h].req].mobile,
                                     PortalToUserType[reqs[task[h].req].portal_type])

\* No portal makes a customer or an administrator.
LEMMA NoProvider == \A m \in Mobile : Vouched(m, "customer") /\ Vouched(m, "admin")
<1>1. "customer" \notin ProviderType /\ "admin" \notin ProviderType
  BY DirectoryAssumption DEF ProviderType, PortalToUserType
<1> QED BY <1>1 DEF Vouched

\* The type of a user comes from the handler that inserts it, from an approval
\* or from an admin.
LEMMA UserTypeSource ==
  ASSUME TypeOK, [Next]_vars, NEW m \in Mobile, users'[m] # users[m]
  PROVE  \/ users'[m].user_type \in {"customer", "admin"}
         \/ \E h \in Handler : /\ task[h].kind = "user" /\ task[h].mobile = m
                               /\ users'[m].user_type = task[h].user_type
         \/ users'[m].user_type \in ProviderType =>
              users'[m].user_type \in vouched'[m]
<1> DEFINE Goal ==
        \/ users'[m].user_type \in {"customer", "admin"}
        \/ \E h \in Handler : /\ task[h].kind = "user" /\ task[h].mobile = m
                              /\ users'[m].user_type = task[h].user_type
        \/ users'[m].user_type \in ProviderType =>
             users'[m].user_type \in vouched'[m]
<1>1. ASSUME NEW h \in Handler, CreateUser(h)
      PROVE  Goal
  <2>1. task[h].kind = "user"
    BY <1>1, StageKind DEF CreateUser
  <2>2. users' = [users EXCEPT ![task[h].mobile] = NewUser(task[h].user_type)]
    BY <1>1 DEF CreateUser
  <2>3. task[h].mobile = m /\ users'[m] = NewUser(task[h].user_type)
    BY <2>2 DEF TypeOK
  <2> QED BY <2>1, <2>3 DEF NewUser
<1>2. ASSUME NEW h \in Handler, CreateWalkIn(h)
      PROVE  Goal
  <2>1. users' = [users EXCEPT ![task[h].mobile] = NewUser("customer")]
    BY <1>2 DEF CreateWalkIn
  <2>2. users'[m] = NewUser("customer")
    BY <2>1 DEF TypeOK
  <2> QED BY <2>2 DEF NewUser
<1>3. ASSUME NEW h \in Handler, CreateProvider(h)
      PROVE  Goal
  <2> DEFINE n == reqs[task[h].req].mobile
             type == PortalToUserType[reqs[task[h].req].portal_type]
  <2>1. /\ users' = [users EXCEPT ![n] = NewUser(type)]
        /\ vouched' = [vouched EXCEPT ![n] = @ \union {type}]
    BY <1>3, CreateSteps
  <2>2. users'[m] = NewUser(type) /\ n = m
    BY <2>1 DEF TypeOK
  <2>3. type \in vouched'[m]
    BY <2>1, <2>2 DEF TypeOK
  <2> QED BY <2>2, <2>3 DEF NewUser
<1>4. ASSUME NEW n \in Mobile, AdminUpdateUser(n)
      PROVE  Goal
  BY <1>4, AdminEffect
<1>5. ASSUME NEW h \in Handler, CreateSubAdmin(h)
      PROVE  Goal
  BY <1>5, SubAdminUser DEF NewUser
<1>6. \/ \E h \in Handler : \/ CreateUser(h) \/ CreateWalkIn(h)
                           \/ CreateProvider(h) \/ CreateSubAdmin(h)
      \/ \E n \in Mobile : AdminUpdateUser(n)
  BY DEF Next, vars, Lookup, GetOrCreate, ReadRoles, AssignRole, WalkIn, LookupWalkIn,
         Onboard, CheckForm, InsertRequest, StartReview, FinishApprove, FinishReject,
         Fail, AdminAssignRole, SubAdmin, LookupSubAdmin, GrantSubAdmin
<1> HIDE DEF Goal
<1>7. Goal
  BY <1>1, <1>2, <1>3, <1>4, <1>5, <1>6
<1> QED BY <1>7 DEF Goal

\* A handler begins with the type that the user has, or will be given.
LEMMA TaskTypeSource ==
  ASSUME TypeOK, [Next]_vars, NEW g \in Handler, task'[g] # task[g],
         task'[g].kind = "user"
  PROVE  \E m \in Mobile :
           /\ task'[g].mobile = m /\ UNCHANGED vouched
           /\ \/ task'[g].user_type = "customer"
              \/ Exists(m) /\ task'[g].user_type = users[m].user_type
<1>1. Nothing.kind # "user"
  BY DEF Nothing
<1>2. ASSUME NEW h \in Handler, NEW stage, NEW t, Start(h, stage, t)
      PROVE  h = g /\ task'[g] = t
  BY <1>2 DEF Start, TypeOK
<1>3. ASSUME NEW h \in Handler, Done(h)
      PROVE  FALSE
  BY <1>1, <1>3 DEF Done, TypeOK
<1>4. ASSUME NEW h \in Handler, NEW m \in Mobile, Lookup(h, m) \/ LookupWalkIn(h, m)
      PROVE  /\ task'[g].mobile = m /\ UNCHANGED vouched
             /\ \/ task'[g].user_type = "customer"
                \/ Exists(m) /\ task'[g].user_type = users[m].user_type
  BY <1>2, <1>4 DEF Lookup, LookupWalkIn, history
<1>5. ASSUME NEW h \in Handler, NEW m \in Mobile, NEW p \in Portal, CheckForm(h, m, p)
      PROVE  FALSE
  BY <1>2, <1>5 DEF CheckForm
<1>6. ASSUME NEW h \in Handler, NEW i \in 1 .. MaxRequests,
             NEW s \in {"approve", "reject"}, StartReview(h, i, s)
      PROVE  FALSE
  BY <1>2, <1>6 DEF StartReview
<1>7. ASSUME NEW h \in Handler, NEW m \in Mobile, NEW r \in GrantedRole,
             LookupSubAdmin(h, m, r)
      PROVE  FALSE
  BY <1>2, <1>7 DEF LookupSubAdmin
<1>8. task' # task
  OBVIOUS
<1>9. \/ \E h \in Handler : Done(h)
      \/ \E h \in Handler, m \in Mobile : Lookup(h, m) \/ LookupWalkIn(h, m)
      \/ \E h \in Handler, m \in Mobile, p \in Portal : CheckForm(h, m, p)
      \/ \E h \in Handler, i \in 1 .. MaxRequests, s \in {"approve", "reject"} :
           StartReview(h, i, s)
      \/ \E h \in Handler, m \in Mobile, r \in GrantedRole : LookupSubAdmin(h, m, r)
  BY <1>8 DEF Next, vars, GetOrCreate, CreateUser, ReadRoles, AssignRole, Respond,
              WalkIn, CreateWalkIn, Onboard, InsertRequest, CreateProvider,
              FinishApprove, FinishReject, Fail, AdminUpdateUser, AdminAssignRole,
              SubAdmin, CreateSubAdmin, GrantSubAdmin
<1> QED BY <1>3, <1>4, <1>5, <1>6, <1>7, <1>9

\* A role is the type that a get-or-create carries, or an approval's, or one that
\* an administrator gives.
LEMMA RoleSource ==
  ASSUME TypeOK, [Next]_vars, NEW m \in Mobile, NEW r \in roles'[m], r \notin roles[m]
  PROVE  \/ r \in ProviderType => r \in vouched'[m]
         \/ /\ UNCHANGED vouched
            /\ \E h \in Handler :
                 \/ task[h].kind = "user" /\ task[h].mobile = m /\ task[h].user_type = r
                 \/ /\ pc[h] = "finish" /\ reqs[task[h].req].mobile = m
                    /\ PortalToUserType[reqs[task[h].req].portal_type] = r
<1>1. CASE \/ \E n \in Mobile : AdminAssignRole(n)
           \/ \E h \in Handler : GrantSubAdmin(h)
  BY <1>1, GrantEffect
<1> SUFFICES ASSUME \A n \in Mobile : ~ AdminAssignRole(n),
                    \A h \in Handler : ~ GrantSubAdmin(h)
             PROVE  /\ UNCHANGED vouched
                    /\ \E h \in Handler :
                         \/ /\ task[h].kind = "user" /\ task[h].mobile = m
                            /\ task[h].user_type = r
                         \/ /\ pc[h] = "finish" /\ reqs[task[h].req].mobile = m
                            /\ PortalToUserType[reqs[task[h].req].portal_type] = r
  BY <1>1
<1>2. PICK h \in Handler : AssignRole(h) \/ FinishApprove(h)
  BY DEF Next, vars, Lookup, GetOrCreate, CreateUser, ReadRoles, WalkIn, LookupWalkIn,
         CreateWalkIn, Onboard, CheckForm, InsertRequest, StartReview, CreateProvider,
         FinishReject, Fail, AdminUpdateUser, SubAdmin, LookupSubAdmin, CreateSubAdmin
<1>3. CASE AssignRole(h)
  <2>1. task[h].kind = "user" /\ UNCHANGED vouched
    BY <1>3, StageKind DEF AssignRole, history
  <2>2. roles' = [roles EXCEPT ![task[h].mobile] = @ \union {task[h].user_type}]
    BY <1>3 DEF AssignRole
  <2>3. task[h].mobile = m /\ task[h].user_type = r
    BY <2>2 DEF TypeOK
  <2> QED BY <2>1, <2>3
<1>4. CASE FinishApprove(h)
  <2> DEFINE n == reqs[task[h].req].mobile
             type == PortalToUserType[reqs[task[h].req].portal_type]
  <2>1. /\ pc[h] = "finish" /\ UNCHANGED vouched
        /\ roles' = [roles EXCEPT ![n] = @ \union {type}]
    BY <1>4, ApproveSteps DEF history
  <2>2. n = m /\ type = r
    BY <2>1 DEF TypeOK
  <2> QED BY <2>1, <2>2
<1> QED BY <1>2, <1>3, <1>4

LEMMA TypesVouchedStep ==
  ASSUME TypeOK, TypesVouched, [Next]_vars
  PROVE  TypesVouched'
<1>1. ASSUME NEW m \in Mobile, NEW type, Vouched(m, type)
      PROVE  Vouched(m, type)'
  BY <1>1, UsersKept DEF Vouched
<1>2. ASSUME NEW m \in Mobile, Exists(m)'
      PROVE  Vouched(m, users[m].user_type)'
  <2>1. CASE users'[m] = users[m]
    BY <1>1, <1>2, <2>1 DEF TypesVouched, Exists, Vouched
  <2>2. CASE users'[m].user_type \in {"customer", "admin"}
    BY <1>1, <2>2, NoProvider DEF Vouched
  <2>3. ASSUME NEW h \in Handler, task[h].kind = "user", task[h].mobile = m,
               users'[m].user_type = task[h].user_type
        PROVE  Vouched(m, users[m].user_type)'
    BY <1>1, <2>3 DEF TypesVouched, Vouched
  <2> QED BY <2>1, <2>2, <2>3, UserTypeSource DEF Vouched
<1>3. ASSUME NEW g \in Handler, task'[g].kind = "user"
      PROVE  Vouched(task[g].mobile, task[g].user_type)'
  <2>1. CASE task'[g] = task[g]
    <3>1. Vouched(task[g].mobile, task[g].user_type) /\ task[g].mobile \in Mobile
      BY <1>3, <2>1, StageKind, TaskType DEF TypesVouched
    <3> QED BY <1>1, <2>1, <3>1 DEF Vouched
  <2>2. CASE task'[g] # task[g]
    <3>1. PICK m \in Mobile :
            /\ task'[g].mobile = m /\ UNCHANGED vouched
            /\ \/ task'[g].user_type = "customer"
               \/ Exists(m) /\ task'[g].user_type = users[m].user_type
      BY <1>3, <2>2, TaskTypeSource
    <3>2. Vouched(m, task'[g].user_type)
      BY <3>1, NoProvider DEF TypesVouched
    <3> QED BY <3>1, <3>2 DEF Vouched
  <2> QED BY <2>1, <2>2
<1>4. ASSUME NEW g \in Handler, pc'[g] = "finish"
      PROVE  Vouched(reqs[task[g].req].mobile,
                     PortalToUserType[reqs[task[g].req].portal_type])'
  <2> DEFINE m == reqs[task[g].req].mobile
             type == PortalToUserType[reqs[task[g].req].portal_type]
  <2>1. task'[g] = task[g] /\ task[g].req \in 1 .. Len(reqs)
    BY <1>4, FinishMoves
  <2>2. /\ reqs'[task'[g].req].mobile = m /\ m \in Mobile
        /\ reqs'[task'[g].req].portal_type = reqs[task[g].req].portal_type
    BY <2>1, RequestsKept, RequestType
  <2>3. CASE pc[g] = "finish"
    <3>1. Vouched(m, type)
      BY <2>3 DEF TypesVouched
    <3> QED BY <1>1, <2>2, <3>1 DEF Vouched
  <2>4. CASE CreateProvider(g)
    <3>1. vouched' = [vouched EXCEPT ![m] = @ \union {type}]
      BY <1>4, <2>4, CreateSteps
    <3>2. type \in vouched'[m]
      BY <2>2, <3>1 DEF TypeOK
    <3> QED BY <2>2, <3>2 DEF Vouched
  <2> QED BY <1>4, <2>3, <2>4, FinishMoves
<1> QED BY <1>2, <1>3, <1>4 DEF TypesVouched

LEMMA RoleVouchedStep ==
  ASSUME TypeOK, TypesVouched, ProviderRoleVouched, [Next]_vars
  PROVE  ProviderRoleVouched'
<1> SUFFICES ASSUME NEW m \in Mobile, NEW r \in roles'[m], r \in ProviderType
             PROVE  r \in vouched'[m]
  BY DEF ProviderRoleVouched
<1>1. CASE r \in roles[m]
  BY <1>1, UsersKept DEF ProviderRoleVouched
<1>2. CASE r \notin roles[m]
  BY <1>2, RoleSource DEF TypesVouched, Vouched
<1> QED BY <1>1, <1>2

\* A provider role comes from an approval, an admin's update or an admin's grant:
\* what a login assigns is the type it read from the user's row, or "customer".
THEOREM DirectoryProviderRoleVouched == Spec => []ProviderRoleVouched
<1>1. Init => TypesVouched /\ ProviderRoleVouched
  <2> SUFFICES ASSUME Init PROVE TypesVouched /\ ProviderRoleVouched
    OBVIOUS
  <2>1. ~ NoUser.exists /\ Nothing.kind = "nothing"
    BY DEF NoUser, Nothing
  <2> QED BY <2>1 DEF Init, TypesVouched, ProviderRoleVouched, Exists
<1>2. TypeOK /\ TypesVouched /\ ProviderRoleVouched /\ [Next]_vars
        => (TypesVouched /\ ProviderRoleVouched)'
  BY TypesVouchedStep, RoleVouchedStep
<1> QED BY <1>1, <1>2, DirectoryTypeOK, PTL DEF Spec

=============================================================================
