----------------------------- MODULE Directory -----------------------------
(***************************************************************************)
(* The user directory of user-service: the tables users, user_roles and    *)
(* onboarding_requests, and the handlers that write them                   *)
(* (domains/users/service.py, domains/users/router.py,                     *)
(* domains/rbac/router.py, routers/internal.py).                           *)
(*                                                                         *)
(* A handler runs in a database session of its own at READ COMMITTED, and  *)
(* UserRepository.create commits at once, in the middle of the handlers    *)
(* that call it.  Each step below is what one transaction reads, or what   *)
(* one commits; between two steps other handlers run.  A user is           *)
(* identified by its mobile, which is unique in the table.                 *)
(***************************************************************************)
EXTENDS Naturals, Sequences, FiniteSets

CONSTANTS
    Mobile,         \* mobile numbers
    Handler,        \* requests that may be in flight together
    Portal,         \* provider portals with an onboarding form (PortalType)
    GrantedRole,    \* roles that administrators give users themselves
    MaxRequests     \* bound: onboarding requests ever submitted

\* _PORTAL_TO_USER_TYPE
PortalToUserType ==
    [doctor |-> "doctor", lab |-> "lab_technician", seller |-> "seller",
     pharmacy |-> "pharmacist", groomer |-> "groomer"]

ProviderType == {PortalToUserType[p] : p \in Portal}
\* "admin" stands for super_admin, and for any other role, too.
UserType == {"customer", "admin"} \union ProviderType

ASSUME DirectoryAssumption ==
    /\ Portal \subseteq DOMAIN PortalToUserType
    /\ GrantedRole \subseteq UserType
    /\ MaxRequests \in Nat

VARIABLES
    users,      \* the users table, by mobile
    roles,      \* user_roles: the roles of the user with that mobile
    reqs,       \* the onboarding_requests table, in the order of insertion
    pc,         \* pc[h]: what handler h does next
    task,       \* task[h]: the mobile, type or request it works with
    answer,     \* answer[h]: how its last get-or-create call ended
    \* history, read by no guard:
    vouched,    \* vouched[m]: what an approval or an admin has made of m's user
    overlapped, \* requests that two reviews have worked on at the same time
    provided,   \* mobiles whose user an approval created
    half        \* mobiles whose approval failed after it created the user

history == <<vouched, overlapped, provided, half>>
vars == <<users, roles, reqs, pc, task, answer, history>>

-----------------------------------------------------------------------------
(* Types *)

NoUser == [exists |-> FALSE]
UserRow == [exists: {TRUE}, user_type: UserType, is_active: BOOLEAN]

Request == [mobile: Mobile, portal_type: Portal,
            status: {"pending", "approved", "rejected"}]

\* What a handler keeps in its local variables.
Nothing == [kind |-> "nothing"]
Task ==
    {Nothing}
    \union [kind: {"user"}, mobile: Mobile, user_type: UserType]
    \union [kind: {"form"}, mobile: Mobile, portal_type: Portal]
    \union [kind: {"review"}, req: 1 .. MaxRequests]
    \union [kind: {"sub_admin"}, mobile: Mobile, role: GrantedRole]

Stage == {"idle", "create", "roles", "assign", "walk_in", "submit",
          "approve", "finish", "reject", "sub_admin", "grant"}

KindOf(stage) ==
    CASE stage \in {"create", "roles", "assign", "walk_in"} -> "user"
      [] stage = "submit" -> "form"
      [] stage \in {"approve", "finish", "reject"} -> "review"
      [] stage \in {"sub_admin", "grant"} -> "sub_admin"
      [] stage = "idle" -> "nothing"

TypeOK ==
    /\ users \in [Mobile -> {NoUser} \union UserRow]
    /\ roles \in [Mobile -> SUBSET UserType]
    /\ reqs \in Seq(Request) /\ Len(reqs) <= MaxRequests
    /\ pc \in [Handler -> Stage]
    /\ task \in [Handler -> Task]
    /\ \A h \in Handler :
         /\ task[h].kind = KindOf(pc[h])
         /\ task[h].kind = "review" => task[h].req <= Len(reqs)
    /\ answer \in [Handler -> {"none", "ok", "error"}]
    /\ vouched \in [Mobile -> SUBSET ProviderType]
    /\ overlapped \subseteq 1 .. MaxRequests
    /\ provided \subseteq Mobile /\ half \subseteq Mobile

Init ==
    /\ users = [m \in Mobile |-> NoUser]
    /\ roles = [m \in Mobile |-> {}]
    /\ reqs = <<>>
    /\ pc = [h \in Handler |-> "idle"]
    /\ task = [h \in Handler |-> Nothing]
    /\ answer = [h \in Handler |-> "none"]
    /\ vouched = [m \in Mobile |-> {}]
    /\ overlapped = {} /\ provided = {} /\ half = {}

-----------------------------------------------------------------------------
(* Helpers *)

Exists(m) == users[m].exists

NewUser(type) == [exists |-> TRUE, user_type |-> type, is_active |-> TRUE]

Reviewing(i) ==
    {h \in Handler : pc[h] \in {"approve", "finish", "reject"} /\ task[h].req = i}

Goto(h, stage) == pc' = [pc EXCEPT ![h] = stage]

Start(h, stage, t) ==
    /\ pc[h] = "idle"
    /\ Goto(h, stage)
    /\ task' = [task EXCEPT ![h] = t]

Done(h) == Goto(h, "idle") /\ task' = [task EXCEPT ![h] = Nothing]

Respond(h, a) == Done(h) /\ answer' = [answer EXCEPT ![h] = a]

-----------------------------------------------------------------------------
(* POST /internal/v1/users/get-or-create, with a mobile *)

\* Mutant: a new user gets the type of a provider portal.
LookupAsProvider(h, m) ==
    /\ IF Exists(m)
         THEN Start(h, "roles", [kind |-> "user", mobile |-> m,
                                 user_type |-> users[m].user_type])
         ELSE \E p \in Portal :
                Start(h, "create", [kind |-> "user", mobile |-> m,
                                    user_type |-> PortalToUserType[p]])
    /\ answer' = [answer EXCEPT ![h] = "none"]
    /\ UNCHANGED <<users, roles, reqs, history>>

\* The user is looked up; user_type is what this read returned, or what the
\* insertion will give it.
Lookup(h, m) ==
    /\ IF Exists(m)
         THEN Start(h, "roles", [kind |-> "user", mobile |-> m,
                                 user_type |-> users[m].user_type])
         ELSE Start(h, "create", [kind |-> "user", mobile |-> m,
                                  user_type |-> "customer"])
    /\ answer' = [answer EXCEPT ![h] = "none"]
    /\ UNCHANGED <<users, roles, reqs, history>>

\* The insertion commits, or meets a user that another handler has inserted
\* since the lookup: mobile is unique, the call fails with a 500.
CreateUser(h) ==
    LET m == task[h].mobile
    IN /\ pc[h] = "create"
       /\ \/ /\ ~ Exists(m)
             /\ users' = [users EXCEPT ![m] = NewUser(task[h].user_type)]
             /\ Goto(h, "roles")
             /\ UNCHANGED <<task, answer>>
          \/ /\ Exists(m)
             /\ Respond(h, "error")
             /\ UNCHANGED users
       /\ UNCHANGED <<roles, reqs, history>>

\* Mutant: a user without a role is left without one.
ReadRolesOnly(h) ==
    /\ pc[h] = "roles"
    /\ Respond(h, "ok")
    /\ UNCHANGED <<users, roles, reqs, history>>

\* The call answers if the user has any role, and else goes on to give it one.
ReadRoles(h) ==
    /\ pc[h] = "roles"
    /\ IF roles[task[h].mobile] = {}
         THEN Goto(h, "assign") /\ UNCHANGED <<task, answer>>
         ELSE Respond(h, "ok")
    /\ UNCHANGED <<users, roles, reqs, history>>

\* The role of the type read at the lookup is added and committed.  If another
\* handler has added it, the call finds it, or has looked too early and fails
\* on the primary key.
AssignRole(h) ==
    LET m == task[h].mobile
        r == task[h].user_type
    IN /\ pc[h] = "assign"
       /\ roles' = [roles EXCEPT ![m] = @ \union {r}]
       /\ \/ Respond(h, "ok")
          \/ r \in roles[m] /\ Respond(h, "error")
       /\ UNCHANGED <<users, reqs, history>>

-----------------------------------------------------------------------------
(* POST /provider/walk-in-customers *)

LookupWalkIn(h, m) ==
    /\ ~ Exists(m)
    /\ Start(h, "walk_in", [kind |-> "user", mobile |-> m, user_type |-> "customer"])
    /\ UNCHANGED <<users, roles, reqs, answer, history>>

\* The user is inserted, without a role; a mobile taken since is a 500.
CreateWalkIn(h) ==
    LET m == task[h].mobile
    IN /\ pc[h] = "walk_in"
       /\ users' = IF Exists(m) THEN users
                   ELSE [users EXCEPT ![m] = NewUser("customer")]
       /\ Done(h)
       /\ UNCHANGED <<roles, reqs, answer, history>>

-----------------------------------------------------------------------------
(* Provider onboarding *)

\* submit_onboarding: a pending or approved request of the mobile is a 409.
CheckForm(h, m, p) ==
    /\ \A i \in 1 .. Len(reqs) :
         reqs[i].mobile = m => reqs[i].status = "rejected"
    /\ Start(h, "submit", [kind |-> "form", mobile |-> m, portal_type |-> p])
    /\ UNCHANGED <<users, roles, reqs, answer, history>>

\* Nothing in the table keeps a second pending request out.
InsertRequest(h) ==
    /\ pc[h] = "submit"
    /\ Len(reqs) < MaxRequests
    /\ reqs' = Append(reqs, [mobile |-> task[h].mobile,
                             portal_type |-> task[h].portal_type,
                             status |-> "pending"])
    /\ Done(h)
    /\ UNCHANGED <<users, roles, answer, history>>

\* Mutant: the status is not looked at.
StartReviewOfAny(h, i, stage) ==
    /\ i \in 1 .. Len(reqs)
    /\ Start(h, stage, [kind |-> "review", req |-> i])
    /\ overlapped' = IF Reviewing(i) = {} THEN overlapped
                                          ELSE overlapped \union {i}
    /\ UNCHANGED <<users, roles, reqs, answer, vouched, provided, half>>

\* Both reviews read the request and go on with a pending one; a decided one
\* is a 409.
StartReview(h, i, stage) ==
    /\ i \in 1 .. Len(reqs)
    /\ reqs[i].status = "pending"
    /\ Start(h, stage, [kind |-> "review", req |-> i])
    /\ overlapped' = IF Reviewing(i) = {} THEN overlapped
                                          ELSE overlapped \union {i}
    /\ UNCHANGED <<users, roles, reqs, answer, vouched, provided, half>>

\* Mutant: a user the mobile already has is taken over.
CreateProviderOrReuse(h) ==
    LET req == reqs[task[h].req]
        m == req.mobile
        type == PortalToUserType[req.portal_type]
    IN /\ pc[h] = "approve"
       /\ users' = [users EXCEPT ![m] = NewUser(type)]
       /\ vouched' = [vouched EXCEPT ![m] = @ \union {type}]
       /\ provided' = provided \union {m}
       /\ Goto(h, "finish")
       /\ UNCHANGED <<roles, reqs, task, answer, overlapped, half>>

\* approve_onboarding commits the user before anything else, or fails when the
\* mobile has one.
CreateProvider(h) ==
    LET req == reqs[task[h].req]
        m == req.mobile
        type == PortalToUserType[req.portal_type]
    IN /\ pc[h] = "approve"
       /\ \/ /\ ~ Exists(m)
             /\ users' = [users EXCEPT ![m] = NewUser(type)]
             /\ vouched' = [vouched EXCEPT ![m] = @ \union {type}]
             /\ provided' = provided \union {m}
             /\ Goto(h, "finish")
             /\ UNCHANGED task
          \/ /\ Exists(m)
             /\ Done(h)
             /\ UNCHANGED <<users, vouched, provided>>
       /\ UNCHANGED <<roles, reqs, answer, overlapped, half>>

\* Mutant: the role is not assigned.
FinishApproveStatusOnly(h) ==
    /\ pc[h] = "finish"
    /\ reqs' = [reqs EXCEPT ![task[h].req].status = "approved"]
    /\ Done(h)
    /\ UNCHANGED <<users, roles, answer, history>>

\* Mutant: a role that a login has assigned meanwhile fails the approval.
FinishApproveIfNew(h) ==
    LET i == task[h].req
        type == PortalToUserType[reqs[i].portal_type]
    IN /\ pc[h] = "finish"
       /\ IF type \in roles[reqs[i].mobile]
            THEN UNCHANGED <<roles, reqs>>
            ELSE /\ roles' = [roles EXCEPT ![reqs[i].mobile] = @ \union {type}]
                 /\ reqs' = [reqs EXCEPT ![i].status = "approved"]
       /\ Done(h)
       /\ UNCHANGED <<users, answer, history>>

\* The role and the status are committed together.  The status is written
\* whatever it has become since it was read.
FinishApprove(h) ==
    LET i == task[h].req
        type == PortalToUserType[reqs[i].portal_type]
    IN /\ pc[h] = "finish"
       /\ roles' = [roles EXCEPT ![reqs[i].mobile] = @ \union {type}]
       /\ reqs' = [reqs EXCEPT ![i].status = "approved"]
       /\ Done(h)
       /\ UNCHANGED <<users, answer, history>>

\* Mutant: a rejected request is deleted.
RejectByDeleting(h) ==
    LET i == task[h].req
    IN /\ pc[h] = "reject"
       /\ reqs' = SubSeq(reqs, 1, i - 1) \o SubSeq(reqs, i + 1, Len(reqs))
       /\ Done(h)
       /\ UNCHANGED <<users, roles, answer, history>>

\* The status is written whatever it has become since it was read.
FinishReject(h) ==
    /\ pc[h] = "reject"
    /\ reqs' = [reqs EXCEPT ![task[h].req].status = "rejected"]
    /\ Done(h)
    /\ UNCHANGED <<users, roles, answer, history>>

-----------------------------------------------------------------------------
\* PATCH /admin/users/{id}: an admin sets is_active and user_type; the roles
\* stay as they are.
AdminUpdateUser(m) ==
    /\ Exists(m)
    /\ \E active \in BOOLEAN, type \in UserType :
         /\ users' = [users EXCEPT ![m].is_active = active, ![m].user_type = type]
         /\ vouched' = [vouched EXCEPT ![m] = @ \union ({type} \intersect ProviderType)]
    /\ UNCHANGED <<roles, reqs, pc, task, answer, overlapped, provided, half>>

\* POST /admin/users/{id}/roles/assign, PATCH /admin/sub-admins/{id}: an admin
\* gives a user who is there any role, which is inserted or found to be there.
AdminAssignRole(m) ==
    /\ Exists(m)
    /\ \E r \in GrantedRole :
         /\ roles' = [roles EXCEPT ![m] = @ \union {r}]
         /\ vouched' = [vouched EXCEPT ![m] = @ \union ({r} \intersect ProviderType)]
    /\ UNCHANGED <<users, reqs, pc, task, answer, overlapped, provided, half>>

-----------------------------------------------------------------------------
(* POST /admin/sub-admins *)

LookupSubAdmin(h, m, r) ==
    /\ ~ Exists(m)
    /\ Start(h, "sub_admin", [kind |-> "sub_admin", mobile |-> m, role |-> r])
    /\ UNCHANGED <<users, roles, reqs, answer, history>>

\* The user is committed before the role; a mobile taken since is a 500.
CreateSubAdmin(h) ==
    LET m == task[h].mobile
    IN /\ pc[h] = "sub_admin"
       /\ \/ /\ ~ Exists(m)
             /\ users' = [users EXCEPT ![m] = NewUser("admin")]
             /\ Goto(h, "grant")
             /\ UNCHANGED task
          \/ Exists(m) /\ Done(h) /\ UNCHANGED users
       /\ UNCHANGED <<roles, reqs, answer, history>>

\* The role is given, whichever it is, unless no role has that id.
GrantSubAdmin(h) ==
    LET m == task[h].mobile
        r == task[h].role
    IN /\ pc[h] = "grant"
       /\ \/ /\ roles' = [roles EXCEPT ![m] = @ \union {r}]
             /\ vouched' = [vouched EXCEPT ![m] = @ \union ({r} \intersect ProviderType)]
          \/ UNCHANGED <<roles, vouched>>
       /\ Done(h)
       /\ UNCHANGED <<users, reqs, answer, overlapped, provided, half>>

-----------------------------------------------------------------------------
\* A handler dies or a statement fails (a role or an e-mail inserted by
\* another handler, the database): what it committed stays, the rest is gone.
\* Its caller gets no answer to use.
Fail(h) ==
    /\ pc[h] # "idle"
    /\ Done(h)
    /\ half' = IF pc[h] = "finish" THEN half \union {reqs[task[h].req].mobile} ELSE half
    /\ UNCHANGED <<users, roles, reqs, answer, vouched, overlapped, provided>>

GetOrCreate(h) == CreateUser(h) \/ ReadRoles(h) \/ AssignRole(h)

WalkIn(h) == CreateWalkIn(h) \/ \E m \in Mobile : LookupWalkIn(h, m)

Onboard(h) ==
    \/ \E m \in Mobile, p \in Portal : CheckForm(h, m, p)
    \/ InsertRequest(h)
    \/ \E i \in 1 .. MaxRequests, stage \in {"approve", "reject"} :
         StartReview(h, i, stage)
    \/ CreateProvider(h) \/ FinishApprove(h) \/ FinishReject(h)

SubAdmin(h) ==
    \/ \E m \in Mobile, r \in GrantedRole : LookupSubAdmin(h, m, r)
    \/ CreateSubAdmin(h) \/ GrantSubAdmin(h)

Next ==
    \/ \E h \in Handler :
         \/ \E m \in Mobile : Lookup(h, m)
         \/ GetOrCreate(h) \/ WalkIn(h) \/ Onboard(h) \/ SubAdmin(h) \/ Fail(h)
    \/ \E m \in Mobile : AdminUpdateUser(m) \/ AdminAssignRole(m)

Spec == Init /\ [][Next]_vars

-----------------------------------------------------------------------------
(* What holds however the handlers interleave *)

\* An approved request has a user with the role of its portal: the role and
\* the status are committed together, and no other handler takes them away.
\* Requests that two reviews worked on are included.
ApprovedHasRole ==
    \A i \in 1 .. Len(reqs) :
        reqs[i].status = "approved" =>
            /\ Exists(reqs[i].mobile)
            /\ PortalToUserType[reqs[i].portal_type] \in roles[reqs[i].mobile]

\* Two forms of one mobile submitted together leave two pending requests, but
\* only one is ever approved: the second approval meets the user of the first.
OneApproved ==
    \A i, j \in 1 .. Len(reqs) :
        /\ reqs[i].status = "approved" /\ reqs[j].status = "approved"
        /\ reqs[i].mobile = reqs[j].mobile
        => i = j

\* A provider role comes from an approval, or from an admin who set user_type or
\* gave the role: although a login assigns the role of the type it has read
\* before, no order of logins, walk-ins, forms and reviews that fail half way
\* gives one to anybody else.
ProviderRoleVouched == \A m \in Mobile : roles[m] \intersect ProviderType \subseteq vouched[m]

\* A request that only one review at a time has worked on keeps its decision.
DecisionStands ==
    [][\A i \in 1 .. Len(reqs) :
         reqs[i].status # "pending" /\ i \notin overlapped =>
            reqs'[i].status = reqs[i].status]_vars

\* A user created by an approval has an approved request, or the approval is
\* still running, failed between its two commits, or overlapped another review.
ProvidersAccountedFor ==
    \A m \in provided :
        \/ m \in half
        \/ \E i \in 1 .. Len(reqs) :
             /\ reqs[i].mobile = m
             /\ \/ reqs[i].status = "approved"
                \/ i \in overlapped
                \/ \E h \in Reviewing(i) : pc[h] = "finish"

=============================================================================
