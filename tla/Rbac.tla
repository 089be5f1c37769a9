-------------------------------- MODULE Rbac --------------------------------
(***************************************************************************)
(* Role administration of user-service: the tables roles and user_roles,   *)
(* the seeding of the system roles when a process starts (main.py,         *)
(* domains/rbac/service.py), and what administrators do with roles, users' *)
(* grants and sub-admins (domains/rbac/router.py).                         *)
(*                                                                         *)
(* As in Directory a step is what one transaction reads or commits.  A     *)
(* handler writes a row through SQLAlchemy's unit of work: a commit writes *)
(* the columns whose value differs from the one this handler has read, and *)
(* no other.                                                               *)
(***************************************************************************)
EXTENDS Naturals, Sequences, FiniteSets

CONSTANTS
    User,           \* users, named by their mobile
    Role,           \* role names
    Handler,        \* requests and starting processes in flight together
    SYSTEM_ROLES    \* the names seed_roles goes through, in its order

ASSUME RbacAssumption ==
    /\ SYSTEM_ROLES \in Seq(Role)
    /\ \A i, j \in 1 .. Len(SYSTEM_ROLES) : SYSTEM_ROLES[i] = SYSTEM_ROLES[j] => i = j

VARIABLES
    roles,      \* the roles table: absent, or is_system, or made by an admin
    users,      \* the users whose row exists
    grants,     \* user_roles: the grant of a role to a user
    pc,         \* pc[h]: what handler h does next
    task,       \* task[h]: the values it works with
    \* history, read by no guard:
    seeded,     \* a process has committed the system roles
    taken,      \* names an administrator has made a role of
    decided,    \* decided[u][r]: what was last done about a grant
    overtaken,  \* handlers whose grant another decision has written since they read it
    blurred,    \* grants whose last decision had been overtaken
    appointed,  \* users made by create_sub_admin
    half,       \* appointed users whose request failed after making them
    roleless    \* appointed users whose request named a role that was not there

history == <<seeded, taken, decided, overtaken, blurred, appointed, half, roleless>>
vars == <<roles, users, grants, pc, task, history>>

-----------------------------------------------------------------------------
(* Types *)

System == {SYSTEM_ROLES[i] : i \in 1 .. Len(SYSTEM_ROLES)}

NoGrant == [exists |-> FALSE]
\* stamped: deactivated_at is set
GrantRow == [exists: {TRUE}, is_active: BOOLEAN, stamped: BOOLEAN]

NewGrant == [exists |-> TRUE, is_active |-> TRUE, stamped |-> FALSE]

Nothing == [kind |-> "nothing"]
Task ==
    {Nothing}
    \* the rows seed_roles has looked at, and those of them it adds
    \union [kind: {"seed"}, at: Nat, add: SUBSET Role]
    \union [kind: {"role"}, role: Role]
    \union [kind: {"user"}, user: User, role: Role, appoints: BOOLEAN]
    \union [kind: {"grant"}, user: User, role: Role, read: GrantRow]

Stage == {"idle", "seed", "create_role", "admin_user", "admin_role", "assign",
          "deactivate", "reactivate"}

KindOf(stage) ==
    CASE stage = "seed" -> "seed"
      [] stage = "create_role" -> "role"
      [] stage \in {"admin_user", "admin_role", "assign"} -> "user"
      [] stage \in {"deactivate", "reactivate"} -> "grant"
      [] stage = "idle" -> "nothing"

\* The second conjunct of grants holds the foreign keys of user_roles.
TypeOK ==
    /\ roles \in [Role -> {"absent", "system", "custom"}]
    /\ users \subseteq User
    /\ grants \in [User -> [Role -> {NoGrant} \union GrantRow]]
    /\ \A u \in User, r \in Role :
         grants[u][r].exists => u \in users /\ roles[r] # "absent"
    /\ pc \in [Handler -> Stage]
    /\ task \in [Handler -> Task]
    /\ \A h \in Handler :
         /\ task[h].kind = KindOf(pc[h])
         /\ pc[h] = "seed" => task[h].at <= Len(SYSTEM_ROLES)
    /\ seeded \in BOOLEAN
    /\ taken \subseteq Role
    /\ decided \in [User -> [Role -> {"nothing", "active", "inactive"}]]
    /\ overtaken \subseteq Handler
    /\ blurred \subseteq User \X Role
    /\ appointed \subseteq User /\ half \subseteq User /\ roleless \subseteq User

Init ==
    /\ roles = [r \in Role |-> "absent"]
    /\ users = {}
    /\ grants = [u \in User |-> [r \in Role |-> NoGrant]]
    /\ pc = [h \in Handler |-> "idle"]
    /\ task = [h \in Handler |-> Nothing]
    /\ seeded = FALSE
    /\ taken = {}
    /\ decided = [u \in User |-> [r \in Role |-> "nothing"]]
    /\ overtaken = {} /\ blurred = {} /\ appointed = {} /\ half = {} /\ roleless = {}

-----------------------------------------------------------------------------
(* Helpers *)

Goto(h, stage) == pc' = [pc EXCEPT ![h] = stage]

Proceed(h, stage, t) == Goto(h, stage) /\ task' = [task EXCEPT ![h] = t]

Start(h, stage, t) == pc[h] = "idle" /\ Proceed(h, stage, t)

Done(h) == Proceed(h, "idle", Nothing)

\* Handlers that have read the grant of r to u and will write it.
Deciding(u, r) ==
    {h \in Handler : /\ pc[h] \in {"deactivate", "reactivate"}
                     /\ task[h].user = u /\ task[h].role = r}

-----------------------------------------------------------------------------
(* A process of user-service starts: seed_roles, in one transaction *)

SeedStart(h) ==
    /\ Start(h, "seed", [kind |-> "seed", at |-> 0, add |-> {}])
    /\ UNCHANGED <<roles, users, grants, history>>

\* Mutant: a role that is there is taken for a table already seeded.
SeedLookAtFirst(h) ==
    /\ pc[h] = "seed"
    /\ task[h].at < Len(SYSTEM_ROLES)
    /\ LET r == SYSTEM_ROLES[task[h].at + 1]
       IN task' = IF roles[r] = "absent"
                    THEN [task EXCEPT ![h].at = @ + 1, ![h].add = @ \union {r}]
                    ELSE [task EXCEPT ![h].at = Len(SYSTEM_ROLES)]
    /\ UNCHANGED <<roles, users, grants, pc, history>>

\* The next name is looked up, and added if nobody has committed it.
SeedLook(h) ==
    /\ pc[h] = "seed"
    /\ task[h].at < Len(SYSTEM_ROLES)
    /\ LET r == SYSTEM_ROLES[task[h].at + 1]
           new == IF roles[r] = "absent" THEN {r} ELSE {}
       IN task' = [task EXCEPT ![h].at = task[h].at + 1,
                               ![h].add = task[h].add \union new]
    /\ UNCHANGED <<roles, users, grants, pc, history>>

\* All the added roles are committed; or one of them has been committed by
\* another since, the name is unique, and none is.  The process starts anyway.
SeedCommit(h) ==
    /\ pc[h] = "seed"
    /\ task[h].at = Len(SYSTEM_ROLES)
    /\ \/ /\ \A r \in task[h].add : roles[r] = "absent"
          /\ roles' = [r \in Role |-> IF r \in task[h].add THEN "system" ELSE roles[r]]
          /\ seeded' = TRUE
       \/ /\ \E r \in task[h].add : roles[r] # "absent"
          /\ UNCHANGED <<roles, seeded>>
    /\ Done(h)
    /\ UNCHANGED <<users, grants, taken, decided, overtaken, blurred, appointed, half, roleless>>

-----------------------------------------------------------------------------
(* POST /admin/roles, DELETE /admin/roles/{id} *)

CreateRoleCheck(h, r) ==
    /\ roles[r] = "absent"
    /\ Start(h, "create_role", [kind |-> "role", role |-> r])
    /\ UNCHANGED <<roles, users, grants, history>>

\* The role is inserted, unless the name is taken by now, which is a 500.
CreateRole(h) ==
    LET r == task[h].role
    IN /\ pc[h] = "create_role"
       /\ \/ /\ roles[r] = "absent"
             /\ roles' = [roles EXCEPT ![r] = "custom"]
             /\ taken' = taken \union {r}
          \/ roles[r] # "absent" /\ UNCHANGED <<roles, taken>>
       /\ Done(h)
       /\ UNCHANGED <<users, grants, seeded, decided, overtaken, blurred, appointed, half, roleless>>

\* What deactivation writes is that the role is no system role, and it refuses
\* those that are: nothing changes.
DeactivateRole(r) ==
    /\ roles[r] = "custom"
    /\ roles' = [roles EXCEPT ![r] = "custom"]
    /\ UNCHANGED <<users, grants, pc, task, history>>

-----------------------------------------------------------------------------
(* POST /admin/users/{id}/roles/assign, PATCH /admin/sub-admins/{id} *)

\* The role must be there.  A grant that is there is left as it is, active or
\* not, and the request answers.
AssignLook(h, u, r) ==
    /\ roles[r] # "absent"
    /\ ~ grants[u][r].exists
    /\ Start(h, "assign", [kind |-> "user", user |-> u, role |-> r, appoints |-> FALSE])
    /\ UNCHANGED <<roles, users, grants, history>>

\* Mutant: the foreign key to users is not there.
AssignRoleToAnyone(h) ==
    LET u == task[h].user
        r == task[h].role
    IN /\ pc[h] = "assign"
       /\ \/ /\ ~ grants[u][r].exists
             /\ grants' = [grants EXCEPT ![u][r] = NewGrant]
             /\ decided' = [decided EXCEPT ![u][r] = "active"]
          \/ grants[u][r].exists /\ UNCHANGED <<grants, decided>>
       /\ Done(h)
       /\ UNCHANGED <<roles, users, seeded, taken, overtaken, blurred, appointed, half, roleless>>

\* The grant is inserted, or fails: on the primary key when another handler
\* has inserted it since, on the foreign key when the user has no row.
AssignRole(h) ==
    LET u == task[h].user
        r == task[h].role
    IN /\ pc[h] = "assign"
       /\ \/ /\ u \in users /\ ~ grants[u][r].exists
             /\ grants' = [grants EXCEPT ![u][r] = NewGrant]
             /\ decided' = [decided EXCEPT ![u][r] = "active"]
          \/ /\ u \notin users \/ grants[u][r].exists
             /\ UNCHANGED <<grants, decided>>
       /\ Done(h)
       /\ UNCHANGED <<roles, users, seeded, taken, overtaken, blurred, appointed, half, roleless>>

-----------------------------------------------------------------------------
(* POST /admin/sub-admins *)

\* r is the role of the request's role_id, which may name none.
LookupSubAdmin(h, u, r) ==
    /\ u \notin users
    /\ Start(h, "admin_user", [kind |-> "user", user |-> u, role |-> r, appoints |-> TRUE])
    /\ UNCHANGED <<roles, users, grants, history>>

\* UserRepository.create commits the user, or fails when the mobile is taken.
CreateSubAdmin(h) ==
    LET u == task[h].user
    IN /\ pc[h] = "admin_user"
       /\ \/ /\ u \notin users
             /\ users' = users \union {u}
             /\ appointed' = appointed \union {u}
             /\ Goto(h, "admin_role")
             /\ UNCHANGED task
          \/ u \in users /\ Done(h) /\ UNCHANGED <<users, appointed>>
       /\ UNCHANGED <<roles, grants, seeded, taken, decided, overtaken, blurred, half, roleless>>

\* Mutant: the new sub-admin is taken to have its role.
SubAdminRoleAssumed(h) ==
    /\ pc[h] = "admin_role"
    /\ Done(h)
    /\ UNCHANGED <<roles, users, grants, history>>

\* Without a role of that id the request ends with a user and no role; a role
\* that another handler has given the user meanwhile is left as it is.
SubAdminRole(h) ==
    LET u == task[h].user
        r == task[h].role
    IN /\ pc[h] = "admin_role"
       /\ \/ /\ roles[r] = "absent"
             /\ roleless' = roleless \union {u}
             /\ Done(h)
          \/ roles[r] # "absent" /\ grants[u][r].exists /\ Done(h) /\ UNCHANGED roleless
          \/ /\ roles[r] # "absent" /\ ~ grants[u][r].exists
             /\ Goto(h, "assign")
             /\ UNCHANGED <<task, roleless>>
       /\ UNCHANGED <<roles, users, grants, seeded, taken, decided, overtaken, blurred, appointed, half>>

-----------------------------------------------------------------------------
(* PATCH /admin/sub-admins/{id}/deactivate and /activate *)

\* Both read the grant, whatever its state.
StartDecision(h, u, r, stage) ==
    /\ grants[u][r].exists
    /\ Start(h, stage, [kind |-> "grant", user |-> u, role |-> r, read |-> grants[u][r]])
    /\ UNCHANGED <<roles, users, grants, history>>

\* Commits a decision, that leaves the row as it writes it.  All the others
\* that have read the row are overtaken now.
Decide(h, stage, row, decision) ==
    LET u == task[h].user
        r == task[h].role
    IN /\ pc[h] = stage
       /\ grants' = [grants EXCEPT ![u][r] = row]
       /\ decided' = [decided EXCEPT ![u][r] = decision]
       /\ overtaken' = (overtaken \union Deciding(u, r)) \ {h}
       /\ blurred' = IF h \in overtaken THEN blurred \union {<<u, r>>}
                                       ELSE blurred \ {<<u, r>>}
       /\ Done(h)
       /\ UNCHANGED <<roles, users, seeded, taken, appointed, half, roleless>>

\* A column is written where its value differs from the one h has read.
Written(old, read, new) == IF read = new THEN old ELSE new

\* The time of a deactivation is a new one, and always written.
Deactivate(h) ==
    LET old == grants[task[h].user][task[h].role]
    IN Decide(h, "deactivate",
              [old EXCEPT !.is_active = Written(@, task[h].read.is_active, FALSE),
                          !.stamped = TRUE],
              "inactive")

\* Mutant: the time of the deactivation is left.
ReactivateOnly(h) ==
    LET old == grants[task[h].user][task[h].role]
    IN Decide(h, "reactivate",
              [old EXCEPT !.is_active = Written(@, task[h].read.is_active, TRUE)],
              "active")

Reactivate(h) ==
    LET old == grants[task[h].user][task[h].role]
    IN Decide(h, "reactivate",
              [old EXCEPT !.is_active = Written(@, task[h].read.is_active, TRUE),
                          !.stamped = Written(@, task[h].read.stamped, FALSE)],
              "active")

-----------------------------------------------------------------------------
\* A login or a form makes the user's row.
Register(u) ==
    /\ u \notin users
    /\ users' = users \union {u}
    /\ UNCHANGED <<roles, grants, pc, task, history>>

\* A handler or a starting process dies: what it committed stays.
Fail(h) ==
    /\ pc[h] # "idle"
    /\ Done(h)
    /\ half' = IF task[h].kind = "user" /\ task[h].appoints /\ pc[h] # "admin_user"
               THEN half \union {task[h].user} ELSE half
    /\ overtaken' = overtaken \ {h}
    /\ UNCHANGED <<roles, users, grants, seeded, taken, decided, blurred, appointed, roleless>>

Seed(h) == SeedStart(h) \/ SeedLook(h) \/ SeedCommit(h)

AdministerRoles(h) == CreateRole(h) \/ \E r \in Role : CreateRoleCheck(h, r)

AdministerUsers(h) ==
    \/ \E u \in User, r \in Role :
         \/ AssignLook(h, u, r)
         \/ LookupSubAdmin(h, u, r)
         \/ \E stage \in {"deactivate", "reactivate"} : StartDecision(h, u, r, stage)
    \/ AssignRole(h)
    \/ CreateSubAdmin(h) \/ SubAdminRole(h)
    \/ Deactivate(h) \/ Reactivate(h)

Next ==
    \/ \E h \in Handler : Seed(h) \/ AdministerRoles(h) \/ AdministerUsers(h) \/ Fail(h)
    \/ \E r \in Role : DeactivateRole(r)
    \/ \E u \in User : Register(u)

Spec == Init /\ [][Next]_vars

-----------------------------------------------------------------------------
(* What holds however the handlers interleave *)

\* Once any process has seeded the roles, every system role is in the table,
\* and is a system role unless an administrator had made one of its name:
\* whatever other processes and administrators insert meanwhile, and however
\* often a seeding fails half way.
SystemRolesSeeded ==
    seeded => \A r \in System : roles[r] = "system" \/ (roles[r] = "custom" /\ r \in taken)

\* create_sub_admin commits its user before the role: a sub-admin has a role,
\* or its request is still running, has failed in between, or named no role.
SubAdminHasRole ==
    \A u \in appointed :
        \/ u \in half \union roleless
        \/ \E r \in Role : grants[u][r].exists
        \/ \E h \in Handler : /\ pc[h] \in {"admin_role", "assign"}
                              /\ task[h].user = u /\ task[h].appoints

\* A grant says what was last decided about it, in is_active and in
\* deactivated_at, although a decision writes only what differs from what it
\* has read: assigning the role again revives no deactivated grant, the first
\* of several decisions that overlap counts in full, and a decision that none
\* overtakes mends the grant that overlapping ones left half deactivated.  Only
\* a decision committed after another that its handler had not read (blurred)
\* may leave the grant active with a time of deactivation, or against itself.
GrantAsDecided ==
    \A u \in User, r \in Role :
        grants[u][r].exists /\ <<u, r>> \notin blurred =>
            /\ grants[u][r].is_active = (decided[u][r] = "active")
            /\ grants[u][r].stamped = (decided[u][r] = "inactive")

=============================================================================
