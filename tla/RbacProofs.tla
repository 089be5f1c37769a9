----------------------------- MODULE RbacProofs -----------------------------
(***************************************************************************)
(* Proofs about Rbac for every set of users, roles and handlers and every  *)
(* list of system roles.                                                   *)
(***************************************************************************)
EXTENDS Rbac, TLAPS

-----------------------------------------------------------------------------
(* What the tables and the handlers hold *)

\* The kind of task that each stage of a handler works on.
LEMMA StageKind ==
  ASSUME TypeOK, NEW h \in Handler
  PROVE  /\ pc[h] = "seed" <=> task[h].kind = "seed"
         /\ pc[h] = "create_role" <=> task[h].kind = "role"
         /\ pc[h] \in {"admin_user", "admin_role", "assign"} <=> task[h].kind = "user"
         /\ pc[h] \in {"deactivate", "reactivate"} <=> task[h].kind = "grant"
         /\ pc[h] = "idle" <=> task[h].kind = "nothing"
<1>1. pc[h] \in Stage /\ task[h].kind = KindOf(pc[h])
  BY DEF TypeOK
<1> QED BY <1>1 DEF Stage, KindOf

\* What a handler keeps for the stage it is at.
LEMMA TaskType ==
  ASSUME TypeOK, NEW h \in Handler
  PROVE  /\ pc[h] = "seed" =>
              /\ task[h] \in [kind: {"seed"}, at: Nat, add: SUBSET Role]
              /\ task[h].at <= Len(SYSTEM_ROLES)
         /\ pc[h] = "create_role" => task[h] \in [kind: {"role"}, role: Role]
         /\ pc[h] \in {"admin_user", "admin_role", "assign"} =>
              task[h] \in [kind: {"user"}, user: User, role: Role, appoints: BOOLEAN]
         /\ pc[h] \in {"deactivate", "reactivate"} =>
              task[h] \in [kind: {"grant"}, user: User, role: Role, read: GrantRow]
<1>1. task[h] \in Task /\ (pc[h] = "seed" => task[h].at <= Len(SYSTEM_ROLES))
  BY DEF TypeOK
<1>2. Nothing.kind = "nothing"
  BY DEF Nothing
<1> QED BY <1>1, <1>2, StageKind DEF Task

\* The rows of user_roles.
LEMMA GrantRows ==
  /\ ~ NoGrant.exists
  /\ \A g \in GrantRow : g.exists /\ g.is_active \in BOOLEAN /\ g.stamped \in BOOLEAN
  /\ NewGrant \in GrantRow /\ NewGrant.is_active = TRUE /\ NewGrant.stamped = FALSE
BY DEF NoGrant, GrantRow, NewGrant

\* A name of the list is a role.
LEMMA SystemRole ==
  /\ Len(SYSTEM_ROLES) \in Nat
  /\ \A i \in 1 .. Len(SYSTEM_ROLES) : SYSTEM_ROLES[i] \in Role
  /\ System \subseteq Role
BY RbacAssumption DEF System

\* One lookup of seed_roles.
LEMMA SeedLookEffect ==
  ASSUME TypeOK, NEW h \in Handler, SeedLook(h)
  PROVE  \E t \in [kind: {"seed"}, at: Nat, add: SUBSET Role] :
           /\ task' = [task EXCEPT ![h] = t]
           /\ t.at = task[h].at + 1 /\ t.at <= Len(SYSTEM_ROLES)
           /\ t.add = task[h].add \union
                        IF roles[SYSTEM_ROLES[t.at]] = "absent" THEN {SYSTEM_ROLES[t.at]} ELSE {}
<1> DEFINE r == SYSTEM_ROLES[task[h].at + 1]
           new == IF roles[r] = "absent" THEN {r} ELSE {}
           add == task[h].add \union new
           n == task[h].at + 1
           t == [task[h] EXCEPT !.at = n, !.add = add]
<1>1. /\ pc[h] = "seed" /\ task[h].at < Len(SYSTEM_ROLES)
      /\ task[h] \in [kind: {"seed"}, at: Nat, add: SUBSET Role]
  BY TaskType DEF SeedLook
<1>2. r \in Role
  BY <1>1, SystemRole
<1>3. add \in SUBSET Role
  BY <1>1, <1>2
<1> HIDE DEF new
<1>4. task' = [task EXCEPT ![h] = t]
  BY DEF SeedLook, TypeOK, new
<1>5. n \in Nat /\ n <= Len(SYSTEM_ROLES)
  BY <1>1, SystemRole
<1> HIDE DEF add, n
<1>6. /\ t \in [kind: {"seed"}, at: Nat, add: SUBSET Role]
      /\ t.at = n /\ t.add = add
  BY <1>1, <1>3, <1>5
<1> HIDE DEF t
<1> QED BY <1>4, <1>5, <1>6 DEF add, new, n

\* Every step moves one handler to a stage with a task of that stage's kind,
\* or none.
LEMMA StepMoves ==
  ASSUME TypeOK, Next
  PROVE  \/ UNCHANGED <<pc, task>>
         \/ \E h \in Handler, stage \in Stage, t \in Task :
              /\ pc' = [pc EXCEPT ![h] = stage] /\ task' = [task EXCEPT ![h] = t]
              /\ t.kind = KindOf(stage)
              /\ stage = "seed" => t.at <= Len(SYSTEM_ROLES)
<1> DEFINE Moves(h, stage, t) ==
             /\ pc' = [pc EXCEPT ![h] = stage] /\ task' = [task EXCEPT ![h] = t]
             /\ t.kind = KindOf(stage)
             /\ stage = "seed" => t.at <= Len(SYSTEM_ROLES)
           Moved == \E h \in Handler, stage \in Stage, t \in Task : Moves(h, stage, t)
<1>1. ASSUME NEW h \in Handler, Done(h)  PROVE Moved
  <2>1. "idle" \in Stage /\ Nothing \in Task /\ Nothing.kind = KindOf("idle")
    BY DEF Stage, Task, Nothing, KindOf
  <2> QED BY <1>1, <2>1 DEF Done, Proceed, Goto
<1>2. ASSUME NEW h \in Handler, SeedStart(h)  PROVE Moved
  <2> DEFINE t == [kind |-> "seed", at |-> 0, add |-> {}]
  <2>1. "seed" \in Stage /\ t \in Task /\ t.kind = KindOf("seed") /\ t.at <= Len(SYSTEM_ROLES)
    BY SystemRole DEF Stage, Task, KindOf
  <2> QED BY <1>2, <2>1 DEF SeedStart, Start, Proceed, Goto
<1>3. ASSUME NEW h \in Handler, SeedLook(h)  PROVE Moved
  <2>1. PICK t \in [kind: {"seed"}, at: Nat, add: SUBSET Role] :
          /\ task' = [task EXCEPT ![h] = t] /\ t.at <= Len(SYSTEM_ROLES)
    BY <1>3, SeedLookEffect
  <2>2. pc' = [pc EXCEPT ![h] = "seed"]
    BY <1>3 DEF SeedLook, TypeOK
  <2>3. t \in Task /\ "seed" \in Stage /\ t.kind = KindOf("seed")
    BY <2>1 DEF Task, Stage, KindOf
  <2> QED BY <2>1, <2>2, <2>3
<1>4. ASSUME NEW h \in Handler, NEW r \in Role, CreateRoleCheck(h, r)  PROVE Moved
  <2> DEFINE t == [kind |-> "role", role |-> r]
  <2>1. "create_role" \in Stage /\ t \in Task /\ t.kind = KindOf("create_role")
    BY DEF Stage, Task, KindOf
  <2> QED BY <1>4, <2>1 DEF CreateRoleCheck, Start, Proceed, Goto
<1>5. ASSUME NEW h \in Handler, NEW u \in User, NEW r \in Role,
             AssignLook(h, u, r) \/ LookupSubAdmin(h, u, r)
      PROVE  Moved
  <2>1. PICK stage \in {"assign", "admin_user"}, appoints \in BOOLEAN :
          Start(h, stage, [kind |-> "user", user |-> u, role |-> r, appoints |-> appoints])
    BY <1>5 DEF AssignLook, LookupSubAdmin
  <2> DEFINE t == [kind |-> "user", user |-> u, role |-> r, appoints |-> appoints]
  <2>2. stage \in Stage /\ t \in Task /\ t.kind = KindOf(stage)
    BY DEF Stage, Task, KindOf
  <2> QED BY <2>1, <2>2 DEF Start, Proceed, Goto
<1>6. ASSUME NEW h \in Handler, NEW u \in User, NEW r \in Role,
             NEW stage \in {"deactivate", "reactivate"}, StartDecision(h, u, r, stage)
      PROVE  Moved
  <2> DEFINE t == [kind |-> "grant", user |-> u, role |-> r, read |-> grants[u][r]]
  <2>1. grants[u][r] \in GrantRow
    BY <1>6, GrantRows DEF StartDecision, TypeOK
  <2>2. stage \in Stage /\ t \in Task /\ t.kind = KindOf(stage)
    BY <2>1 DEF Stage, Task, KindOf
  <2> QED BY <1>6, <2>2 DEF StartDecision, Start, Proceed, Goto
<1>7. ASSUME NEW h \in Handler, CreateSubAdmin(h) \/ SubAdminRole(h)  PROVE Moved
  <2>1. CASE Done(h)
    BY <1>1, <2>1
  <2>2. CASE ~ Done(h)
    <3>1. PICK stage \in {"admin_role", "assign"} : Goto(h, stage) /\ UNCHANGED task
      BY <1>7, <2>2 DEF CreateSubAdmin, SubAdminRole
    <3>2. task[h].kind = "user" /\ task[h] \in Task
      BY <1>7, StageKind DEF CreateSubAdmin, SubAdminRole, TypeOK
    <3>3. stage \in Stage /\ task[h].kind = KindOf(stage) /\ stage # "seed"
      BY <3>2 DEF Stage, KindOf
    <3>4. task' = [task EXCEPT ![h] = task[h]]
      BY <3>1 DEF TypeOK
    <3> QED BY <3>1, <3>2, <3>3, <3>4 DEF Goto
  <2> QED BY <2>1, <2>2
<1>8. ASSUME NEW h \in Handler,
             \/ SeedCommit(h) \/ CreateRole(h) \/ AssignRole(h)
             \/ Deactivate(h) \/ Reactivate(h) \/ Fail(h)
      PROVE  Moved
  BY <1>1, <1>8 DEF SeedCommit, CreateRole, AssignRole, Deactivate, Reactivate, Decide, Fail
<1>9. ASSUME \/ \E r \in Role : DeactivateRole(r)
             \/ \E u \in User : Register(u)
      PROVE  UNCHANGED <<pc, task>>
  BY <1>9 DEF DeactivateRole, Register
<1> HIDE DEF Moved
<1> QED BY <1>2, <1>3, <1>4, <1>5, <1>6, <1>7, <1>8, <1>9
        DEF Next, Seed, AdministerRoles, AdministerUsers, Moved

-----------------------------------------------------------------------------
(* Type correctness *)

\* A handler about to write a grant has read one, and one about to insert a
\* grant has seen its role: rows are never deleted.
RowsSeen ==
  \A h \in Handler :
    /\ pc[h] \in {"deactivate", "reactivate"} => grants[task[h].user][task[h].role].exists
    /\ pc[h] = "assign" => roles[task[h].role] # "absent"

\* What the commit of a deactivation or an activation does.
LEMMA DecisionEffect ==
  ASSUME TypeOK, RowsSeen, NEW h \in Handler, Deactivate(h) \/ Reactivate(h)
  PROVE  \E u \in User, r \in Role, x \in GrantRow, active \in BOOLEAN :
           /\ pc[h] \in {"deactivate", "reactivate"}
           /\ task[h].user = u /\ task[h].role = r /\ task[h].read \in GrantRow
           /\ grants[u][r] \in GrantRow
           /\ grants' = [grants EXCEPT ![u] = [@ EXCEPT ![r] = x]]
           /\ task[h].read = grants[u][r] => x.is_active = active /\ x.stamped = ~ active
           /\ decided' = [decided EXCEPT ![u] = [@ EXCEPT ![r] =
                            IF active THEN "active" ELSE "inactive"]]
           /\ overtaken' = (overtaken \union Deciding(u, r)) \ {h}
           /\ blurred' = IF h \in overtaken THEN blurred \union {<<u, r>>}
                                           ELSE blurred \ {<<u, r>>}
           /\ Done(h)
           /\ UNCHANGED <<roles, users, seeded, taken, appointed, half, roleless>>
<1> DEFINE u == task[h].user
           r == task[h].role
           read == task[h].read
           g == grants[u][r]
           Effect(x, active) ==
             /\ grants' = [grants EXCEPT ![u] = [@ EXCEPT ![r] = x]]
             /\ read = g => x.is_active = active /\ x.stamped = ~ active
             /\ decided' = [decided EXCEPT ![u] = [@ EXCEPT ![r] =
                              IF active THEN "active" ELSE "inactive"]]
             /\ overtaken' = (overtaken \union Deciding(u, r)) \ {h}
             /\ blurred' = IF h \in overtaken THEN blurred \union {<<u, r>>}
                                             ELSE blurred \ {<<u, r>>}
             /\ Done(h)
             /\ UNCHANGED <<roles, users, seeded, taken, appointed, half, roleless>>
<1>1. pc[h] \in {"deactivate", "reactivate"}
  BY DEF Deactivate, Reactivate, Decide
<1>2. u \in User /\ r \in Role /\ read \in GrantRow
  BY <1>1, TaskType
<1>3. g \in GrantRow
  BY <1>1, <1>2, GrantRows DEF RowsSeen, TypeOK
<1>4. ASSUME NEW x, NEW stage, NEW active \in BOOLEAN,
             Decide(h, stage, x, IF active THEN "active" ELSE "inactive"),
             read = g => x.is_active = active /\ x.stamped = ~ active
      PROVE  Effect(x, active)
  BY <1>2, <1>4 DEF Decide, TypeOK
<1>5. ASSUME Deactivate(h)  PROVE \E x \in GrantRow : Effect(x, FALSE)
  <2> DEFINE a == Written(g.is_active, read.is_active, FALSE)
             x == [g EXCEPT !.is_active = a, !.stamped = TRUE]
  <2>1. a \in BOOLEAN
    BY <1>3, GrantRows DEF Written
  <2>2. read = g => a = FALSE
    BY Zenon DEF Written
  <2>3. x = [g EXCEPT !.is_active = Written(@, read.is_active, FALSE), !.stamped = TRUE]
    BY <1>3 DEF GrantRow
  <2> HIDE DEF a
  <2>4. x \in GrantRow /\ x.is_active = a /\ x.stamped = TRUE
    BY <1>3, <2>1 DEF GrantRow
  <2>5. Decide(h, "deactivate", x, "inactive")
    BY <1>5, <2>3, Zenon DEF Deactivate
  <2> HIDE DEF x
  <2> QED BY <1>4, <2>2, <2>4, <2>5
<1>6. ASSUME Reactivate(h)  PROVE \E x \in GrantRow : Effect(x, TRUE)
  <2> DEFINE a == Written(g.is_active, read.is_active, TRUE)
             s == Written(g.stamped, read.stamped, FALSE)
             x == [g EXCEPT !.is_active = a, !.stamped = s]
  <2>1. a \in BOOLEAN /\ s \in BOOLEAN
    BY <1>3, GrantRows DEF Written
  <2>2. read = g => a = TRUE /\ s = FALSE
    BY Zenon DEF Written
  <2>3. x = [g EXCEPT !.is_active = Written(@, read.is_active, TRUE),
                      !.stamped = Written(@, read.stamped, FALSE)]
    BY <1>3 DEF GrantRow
  <2> HIDE DEF a, s
  <2>4. x \in GrantRow /\ x.is_active = a /\ x.stamped = s
    BY <1>3, <2>1 DEF GrantRow
  <2>5. Decide(h, "reactivate", x, "active")
    BY <1>6, <2>3, Zenon DEF Reactivate
  <2> HIDE DEF x
  <2> QED BY <1>4, <2>2, <2>4, <2>5
<1>7. PICK active \in BOOLEAN : \E x \in GrantRow : Effect(x, active)
  BY <1>5, <1>6
<1>8. PICK x \in GrantRow : Effect(x, active)
  BY <1>7
<1> QED BY <1>1, <1>2, <1>3, <1>8

\* The tables after each kind of step that writes them.
LEMMA TablesKept ==
  ASSUME TypeOK, RowsSeen, Next
  PROVE  /\ roles' \in [Role -> {"absent", "system", "custom"}]
         /\ users' \subseteq User
         /\ grants' \in [User -> [Role -> {NoGrant} \union GrantRow]]
         /\ decided' \in [User -> [Role -> {"nothing", "active", "inactive"}]]
         /\ users \subseteq users'
         /\ \A r \in Role : roles[r] # "absent" => roles'[r] # "absent"
         /\ \A u \in User, r \in Role : grants[u][r].exists => grants'[u][r].exists
         /\ \A u \in User, r \in Role :
              grants'[u][r].exists => u \in users' /\ roles'[r] # "absent"
<1> DEFINE Kept ==
         /\ roles' \in [Role -> {"absent", "system", "custom"}]
         /\ users' \subseteq User
         /\ grants' \in [User -> [Role -> {NoGrant} \union GrantRow]]
         /\ decided' \in [User -> [Role -> {"nothing", "active", "inactive"}]]
         /\ users \subseteq users'
         /\ \A r \in Role : roles[r] # "absent" => roles'[r] # "absent"
         /\ \A u \in User, r \in Role : grants[u][r].exists => grants'[u][r].exists
         /\ \A u \in User, r \in Role :
              grants'[u][r].exists => u \in users' /\ roles'[r] # "absent"
<1>1. ASSUME UNCHANGED <<roles, users, grants, decided>>  PROVE Kept
  BY <1>1 DEF TypeOK
<1>2. ASSUME UNCHANGED <<users, grants, decided>>,
             roles' \in [Role -> {"absent", "system", "custom"}],
             \A r \in Role : roles[r] # "absent" => roles'[r] # "absent"
      PROVE  Kept
  BY <1>2 DEF TypeOK
<1>3. ASSUME NEW h \in Handler, SeedCommit(h)  PROVE Kept
  <2>1. CASE UNCHANGED roles
    BY <1>1, <1>3, <2>1 DEF SeedCommit
  <2>2. CASE roles' = [r \in Role |-> IF r \in task[h].add THEN "system" ELSE roles[r]]
    <3>1. /\ roles' \in [Role -> {"absent", "system", "custom"}]
          /\ \A r \in Role : roles[r] # "absent" => roles'[r] # "absent"
      BY <2>2 DEF TypeOK
    <3> QED BY <1>2, <1>3, <3>1 DEF SeedCommit
  <2> QED BY <1>3, <2>1, <2>2 DEF SeedCommit
<1>4. ASSUME NEW h \in Handler, CreateRole(h)  PROVE Kept
  <2>1. CASE UNCHANGED roles
    BY <1>1, <1>4, <2>1 DEF CreateRole
  <2>2. CASE roles' = [roles EXCEPT ![task[h].role] = "custom"]
    <3>1. /\ roles' \in [Role -> {"absent", "system", "custom"}]
          /\ \A r \in Role : roles[r] # "absent" => roles'[r] # "absent"
      BY <2>2 DEF TypeOK
    <3> QED BY <1>2, <1>4, <3>1 DEF CreateRole
  <2> QED BY <1>4, <2>1, <2>2 DEF CreateRole
<1>5. ASSUME NEW r \in Role, DeactivateRole(r)  PROVE Kept
  <2>1. /\ roles' \in [Role -> {"absent", "system", "custom"}]
        /\ \A n \in Role : roles[n] # "absent" => roles'[n] # "absent"
    BY <1>5 DEF DeactivateRole, TypeOK
  <2> QED BY <1>2, <1>5, <2>1 DEF DeactivateRole, history
<1>6. ASSUME NEW u \in User, UNCHANGED <<roles, grants, decided>>,
             users' = users \union {u}
      PROVE  Kept
  BY <1>6 DEF TypeOK
<1>7. ASSUME NEW h \in Handler, CreateSubAdmin(h)  PROVE Kept
  <2>1. pc[h] = "admin_user" /\ task[h].user \in User
    BY <1>7, TaskType DEF CreateSubAdmin
  <2>2. UNCHANGED users \/ users' = users \union {task[h].user}
    BY <1>7 DEF CreateSubAdmin
  <2>3. UNCHANGED <<roles, grants, decided>>
    BY <1>7 DEF CreateSubAdmin
  <2> QED BY <1>1, <1>6, <2>1, <2>2, <2>3
<1>8. ASSUME NEW u \in User, Register(u)  PROVE Kept
  BY <1>6, <1>8 DEF Register, history
<1>9. ASSUME NEW u \in User, NEW r \in Role, NEW x \in GrantRow,
             NEW d \in {"active", "inactive"},
             u \in users, roles[r] # "absent",
             grants' = [grants EXCEPT ![u] = [@ EXCEPT ![r] = x]],
             decided' = [decided EXCEPT ![u] = [@ EXCEPT ![r] = d]],
             UNCHANGED <<roles, users>>
      PROVE  Kept
  <2>1. /\ grants' \in [User -> [Role -> {NoGrant} \union GrantRow]]
        /\ \A v \in User, n \in Role :
             grants'[v][n] = IF v = u /\ n = r THEN x ELSE grants[v][n]
    BY <1>9 DEF TypeOK
  <2>2. decided' \in [User -> [Role -> {"nothing", "active", "inactive"}]]
    BY <1>9 DEF TypeOK
  <2>3. x.exists
    BY GrantRows
  <2>4. /\ roles \in [Role -> {"absent", "system", "custom"}] /\ users \subseteq User
        /\ \A v \in User, n \in Role :
             grants[v][n].exists => v \in users /\ roles[n] # "absent"
    BY DEF TypeOK
  <2> QED BY <1>9, <2>1, <2>2, <2>3, <2>4
<1>10. ASSUME NEW h \in Handler, AssignRole(h)  PROVE Kept
  <2> DEFINE u == task[h].user
             r == task[h].role
  <2>1. /\ pc[h] = "assign" /\ u \in User /\ r \in Role
        /\ UNCHANGED <<roles, users>>
    BY <1>10, TaskType DEF AssignRole
  <2>2. roles[r] # "absent"
    BY <2>1 DEF RowsSeen
  <2>3. CASE UNCHANGED <<grants, decided>>
    BY <1>1, <2>1, <2>3
  <2>4. CASE /\ u \in users
             /\ grants' = [grants EXCEPT ![u][r] = NewGrant]
             /\ decided' = [decided EXCEPT ![u][r] = "active"]
    BY <1>9, <2>1, <2>2, <2>4, GrantRows DEF TypeOK
  <2> QED BY <1>10, <2>3, <2>4 DEF AssignRole
<1>11. ASSUME NEW h \in Handler, Deactivate(h) \/ Reactivate(h)  PROVE Kept
  <2>1. PICK u \in User, r \in Role, x \in GrantRow, d \in {"active", "inactive"} :
          /\ grants[u][r] \in GrantRow
          /\ grants' = [grants EXCEPT ![u] = [@ EXCEPT ![r] = x]]
          /\ decided' = [decided EXCEPT ![u] = [@ EXCEPT ![r] = d]]
          /\ UNCHANGED <<roles, users>>
    BY <1>11, DecisionEffect
  <2>2. u \in users /\ roles[r] # "absent"
    BY <2>1, GrantRows DEF TypeOK
  <2> QED BY <1>9, <2>1, <2>2
<1>12. ASSUME NEW h \in Handler,
             \/ SeedStart(h) \/ SeedLook(h)
             \/ \E r \in Role : CreateRoleCheck(h, r)
             \/ \E u \in User, r \in Role :
                  \/ AssignLook(h, u, r) \/ LookupSubAdmin(h, u, r)
                  \/ \E stage \in {"deactivate", "reactivate"} : StartDecision(h, u, r, stage)
             \/ SubAdminRole(h) \/ Fail(h)
      PROVE  Kept
  BY <1>1, <1>12 DEF SeedStart, SeedLook, CreateRoleCheck, AssignLook, LookupSubAdmin,
                     StartDecision, SubAdminRole, Fail, history
<1> HIDE DEF Kept
<1>13. Kept
  BY <1>3, <1>4, <1>5, <1>7, <1>8, <1>10, <1>11, <1>12
     DEF Next, Seed, AdministerRoles, AdministerUsers
<1> QED BY <1>13 DEF Kept

\* The history variables keep their types.
LEMMA HistoryType ==
  ASSUME TypeOK, RowsSeen, Next
  PROVE  /\ seeded' \in BOOLEAN /\ taken' \subseteq Role
         /\ overtaken' \subseteq Handler /\ blurred' \subseteq User \X Role
         /\ appointed' \subseteq User /\ half' \subseteq User /\ roleless' \subseteq User
<1> DEFINE Typed == /\ seeded' \in BOOLEAN /\ taken' \subseteq Role
                    /\ overtaken' \subseteq Handler /\ blurred' \subseteq User \X Role
                    /\ appointed' \subseteq User /\ half' \subseteq User
                    /\ roleless' \subseteq User
<1>1. ASSUME UNCHANGED <<seeded, taken, overtaken, blurred, appointed, half, roleless>>  PROVE Typed
  BY <1>1 DEF TypeOK
<1>2. ASSUME NEW h \in Handler, SeedCommit(h)  PROVE Typed
  BY <1>2 DEF SeedCommit, TypeOK
<1>3. ASSUME NEW h \in Handler, CreateRole(h)  PROVE Typed
  BY <1>3, TaskType DEF CreateRole, TypeOK
<1>4. ASSUME NEW h \in Handler, CreateSubAdmin(h)  PROVE Typed
  BY <1>4, TaskType DEF CreateSubAdmin, TypeOK
<1>5. ASSUME NEW h \in Handler, SubAdminRole(h)  PROVE Typed
  BY <1>5, TaskType DEF SubAdminRole, TypeOK
<1>6. ASSUME NEW h \in Handler, NEW u \in User, NEW r \in Role,
             NEW stage \in {"deactivate", "reactivate"}, StartDecision(h, u, r, stage)
      PROVE  Typed
  BY <1>1, <1>6 DEF StartDecision, history
<1>7. ASSUME NEW h \in Handler, Fail(h)  PROVE Typed
  <2>1. task[h].kind = "user" => task[h].user \in User
    BY TaskType, StageKind
  <2> QED BY <1>7, <2>1 DEF Fail, TypeOK
<1>8. ASSUME NEW h \in Handler, AssignRole(h)  PROVE Typed
  BY <1>1, <1>8 DEF AssignRole
<1>8a. ASSUME NEW h \in Handler, Deactivate(h) \/ Reactivate(h)  PROVE Typed
  <2>1. PICK u \in User, r \in Role :
          /\ overtaken' = (overtaken \union Deciding(u, r)) \ {h}
          /\ blurred' = IF h \in overtaken THEN blurred \union {<<u, r>>}
                                          ELSE blurred \ {<<u, r>>}
          /\ UNCHANGED <<seeded, taken, appointed, half, roleless>>
    BY <1>8a, DecisionEffect
  <2> QED BY <2>1 DEF TypeOK, Deciding
<1>9. ASSUME \/ \E r \in Role : DeactivateRole(r)
             \/ \E u \in User : Register(u)
             \/ \E h \in Handler :
                  \/ SeedStart(h) \/ SeedLook(h)
                  \/ \E r \in Role : CreateRoleCheck(h, r)
                  \/ \E u \in User, r \in Role : AssignLook(h, u, r) \/ LookupSubAdmin(h, u, r)
      PROVE  Typed
  BY <1>1, <1>9 DEF DeactivateRole, Register, SeedStart, SeedLook, CreateRoleCheck,
                    AssignLook, LookupSubAdmin, history
<1> HIDE DEF Typed
<1>10. Typed
  BY <1>2, <1>3, <1>4, <1>5, <1>6, <1>7, <1>8, <1>8a, <1>9
     DEF Next, Seed, AdministerRoles, AdministerUsers
<1> QED BY <1>10 DEF Typed

\* How a handler comes to the stages in which it writes a grant.
LEMMA NewDecider ==
  ASSUME TypeOK, Next, NEW g \in Handler,
         pc'[g] \in {"deactivate", "reactivate", "assign"}
  PROVE  \/ pc'[g] = pc[g] /\ task'[g] = task[g]
         \/ \E u \in User, r \in Role :
              /\ pc'[g] \in {"deactivate", "reactivate"}
              /\ StartDecision(g, u, r, pc'[g])
              /\ task'[g] = [kind |-> "grant", user |-> u, role |-> r, read |-> grants[u][r]]
         \/ /\ pc'[g] = "assign" /\ task'[g].user \in User /\ task'[g].role \in Role
            /\ roles[task'[g].role] # "absent"
<1> DEFINE New ==
         \/ pc'[g] = pc[g] /\ task'[g] = task[g]
         \/ \E u \in User, r \in Role :
              /\ pc'[g] \in {"deactivate", "reactivate"}
              /\ StartDecision(g, u, r, pc'[g])
              /\ task'[g] = [kind |-> "grant", user |-> u, role |-> r, read |-> grants[u][r]]
         \/ /\ pc'[g] = "assign" /\ task'[g].user \in User /\ task'[g].role \in Role
            /\ roles[task'[g].role] # "absent"
<1> USE DEF Proceed, Goto
<1>0. pc \in [Handler -> Stage] /\ task \in [Handler -> Task]
  BY DEF TypeOK
<1>1. ASSUME NEW h \in Handler, Done(h)  PROVE New
  BY <1>0, <1>1 DEF Done
<1>2. ASSUME NEW h \in Handler, SeedStart(h) \/ \E r \in Role : CreateRoleCheck(h, r)
      PROVE  New
  BY <1>0, <1>2 DEF SeedStart, CreateRoleCheck, Start
<1>3. ASSUME NEW h \in Handler, SeedLook(h)  PROVE New
  BY <1>0, <1>3 DEF SeedLook
<1>4. ASSUME NEW h \in Handler, NEW u \in User, NEW r \in Role, AssignLook(h, u, r)
      PROVE  New
  BY <1>0, <1>4 DEF AssignLook, Start
<1>5. ASSUME NEW h \in Handler, NEW u \in User, NEW r \in Role, LookupSubAdmin(h, u, r)
      PROVE  New
  BY <1>0, <1>5 DEF LookupSubAdmin, Start
<1>6. ASSUME NEW h \in Handler, NEW u \in User, NEW r \in Role,
             NEW stage \in {"deactivate", "reactivate"}, StartDecision(h, u, r, stage)
      PROVE  New
  <2>1. h # g => pc'[g] = pc[g] /\ task'[g] = task[g]
    BY <1>0, <1>6 DEF StartDecision, Start
  <2>2. h = g => /\ pc'[g] = stage
                 /\ task'[g] = [kind |-> "grant", user |-> u, role |-> r, read |-> grants[u][r]]
    BY <1>0, <1>6 DEF StartDecision, Start
  <2> QED BY <1>6, <2>1, <2>2
<1>7. ASSUME NEW h \in Handler, CreateSubAdmin(h)  PROVE New
  <2>1. CASE Done(h)
    BY <1>1, <2>1
  <2>2. CASE Goto(h, "admin_role") /\ UNCHANGED task
    BY <1>0, <2>2
  <2> QED BY <1>7, <2>1, <2>2 DEF CreateSubAdmin
<1>8. ASSUME NEW h \in Handler, SubAdminRole(h)  PROVE New
  <2>1. CASE Done(h)
    BY <1>1, <2>1
  <2>2. CASE Goto(h, "assign") /\ UNCHANGED task /\ roles[task[h].role] # "absent"
    <3>1. task[h].user \in User /\ task[h].role \in Role
      BY <1>8, TaskType DEF SubAdminRole
    <3> QED BY <1>0, <2>2, <3>1
  <2> QED BY <1>8, <2>1, <2>2 DEF SubAdminRole
<1>9. ASSUME NEW h \in Handler,
             \/ SeedCommit(h) \/ CreateRole(h) \/ AssignRole(h)
             \/ Deactivate(h) \/ Reactivate(h) \/ Fail(h)
      PROVE  New
  BY <1>1, <1>9 DEF SeedCommit, CreateRole, AssignRole, Deactivate, Reactivate, Decide, Fail
<1>10. ASSUME \/ \E r \in Role : DeactivateRole(r)
              \/ \E u \in User : Register(u)
       PROVE  New
  BY <1>10 DEF DeactivateRole, Register
<1> HIDE DEF New
<1>11. New
  BY <1>2, <1>3, <1>4, <1>5, <1>6, <1>7, <1>8, <1>9, <1>10
     DEF Next, Seed, AdministerRoles, AdministerUsers
<1> QED BY <1>11 DEF New

\* The type invariant, with what it needs to be inductive.
TypeInv == TypeOK /\ RowsSeen

\* Every step preserves it.
LEMMA TypeStep ==
  ASSUME TypeInv, [Next]_vars
  PROVE  TypeInv'
<1>1. CASE UNCHANGED vars
  BY <1>1 DEF TypeInv, TypeOK, RowsSeen, vars, history
<1>2. CASE Next
  <2> USE DEF TypeInv
  <2>1. \/ UNCHANGED <<pc, task>>
        \/ \E h \in Handler, stage \in Stage, t \in Task :
             /\ pc' = [pc EXCEPT ![h] = stage] /\ task' = [task EXCEPT ![h] = t]
             /\ t.kind = KindOf(stage)
             /\ stage = "seed" => t.at <= Len(SYSTEM_ROLES)
    BY <1>2, StepMoves
  <2>2. /\ pc' \in [Handler -> Stage] /\ task' \in [Handler -> Task]
        /\ \A g \in Handler :
             /\ task'[g].kind = KindOf(pc'[g])
             /\ pc'[g] = "seed" => task'[g].at <= Len(SYSTEM_ROLES)
    <3>1. CASE UNCHANGED <<pc, task>>
      BY <3>1 DEF TypeOK
    <3>2. CASE ~ UNCHANGED <<pc, task>>
      <4>1. PICK h \in Handler, stage \in Stage, t \in Task :
              /\ pc' = [pc EXCEPT ![h] = stage] /\ task' = [task EXCEPT ![h] = t]
              /\ t.kind = KindOf(stage)
              /\ stage = "seed" => t.at <= Len(SYSTEM_ROLES)
        BY <2>1, <3>2
      <4>2. pc' \in [Handler -> Stage] /\ task' \in [Handler -> Task]
        BY <4>1 DEF TypeOK
      <4>3. ASSUME NEW g \in Handler
            PROVE  /\ task'[g].kind = KindOf(pc'[g])
                   /\ pc'[g] = "seed" => task'[g].at <= Len(SYSTEM_ROLES)
        BY <4>1 DEF TypeOK
      <4> QED BY <4>2, <4>3
    <3> QED BY <3>1, <3>2
  <2>3. TypeOK'
    BY <1>2, <2>2, TablesKept, HistoryType DEF TypeOK
  <2>4. RowsSeen'
    <3>1. ASSUME NEW g \in Handler, pc'[g] \in {"deactivate", "reactivate", "assign"}
          PROVE  \/ pc'[g] = pc[g] /\ task'[g] = task[g]
                 \/ /\ pc'[g] # "assign"
                    /\ grants[task'[g].user][task'[g].role].exists
                    /\ task'[g].user \in User /\ task'[g].role \in Role
                 \/ /\ pc'[g] = "assign"
                    /\ roles[task'[g].role] # "absent" /\ task'[g].role \in Role
      <4>1. CASE \E u \in User, r \in Role :
                   /\ pc'[g] \in {"deactivate", "reactivate"}
                   /\ StartDecision(g, u, r, pc'[g])
                   /\ task'[g] = [kind |-> "grant", user |-> u, role |-> r,
                                  read |-> grants[u][r]]
        <5>1. PICK u \in User, r \in Role :
                /\ pc'[g] \in {"deactivate", "reactivate"}
                /\ grants[u][r].exists
                /\ task'[g] = [kind |-> "grant", user |-> u, role |-> r,
                               read |-> grants[u][r]]
          BY <4>1 DEF StartDecision
        <5>2. task'[g].user = u /\ task'[g].role = r
          BY <5>1
        <5> QED BY <5>1, <5>2
      <4> QED BY <1>2, <3>1, <4>1, NewDecider
    <3>2. ASSUME NEW g \in Handler
          PROVE  /\ pc'[g] \in {"deactivate", "reactivate"} =>
                      grants'[task'[g].user][task'[g].role].exists
                 /\ pc'[g] = "assign" => roles'[task'[g].role] # "absent"
      BY <1>2, <3>1, TaskType, TablesKept DEF RowsSeen
    <3> QED BY <3>2 DEF RowsSeen
  <2> QED BY <2>3, <2>4
<1> QED BY <1>1, <1>2

\* It holds initially.
LEMMA RbacInit ==
  ASSUME Init
  PROVE  TypeInv
<1>1. "idle" \in Stage /\ Nothing \in Task /\ Nothing.kind = KindOf("idle")
  BY DEF Stage, Task, Nothing, KindOf
<1>2. \A h \in Handler : pc[h] = "idle" /\ task[h] = Nothing
  BY DEF Init
<1>3. /\ grants \in [User -> [Role -> {NoGrant} \union GrantRow]]
      /\ \A u \in User, r \in Role : ~ grants[u][r].exists
  BY GrantRows DEF Init
<1>4. decided \in [User -> [Role -> {"nothing", "active", "inactive"}]]
  BY DEF Init
<1>5. RowsSeen
  BY <1>2 DEF RowsSeen
<1>6. TypeOK
  BY <1>1, <1>2, <1>3, <1>4 DEF Init, TypeOK
<1> QED BY <1>5, <1>6 DEF TypeInv

\* TypeOK: the tables and what handlers keep are well typed, and a grant is of
\* a user and a role that have rows.
THEOREM RbacTypeOK == Spec => []TypeOK
<1>1. Init => TypeInv
  BY RbacInit
<1>2. TypeInv /\ [Next]_vars => TypeInv'
  BY TypeStep
<1>3. TypeInv => TypeOK
  BY DEF TypeInv
<1> QED BY <1>1, <1>2, <1>3, PTL DEF Spec

-----------------------------------------------------------------------------
(* The system roles *)

\* A role that is no system role was made by an administrator; what a seeding
\* has looked at it adds, or it was there; a seeding that committed left
\* nothing out.
SeedInv ==
  /\ \A r \in Role : roles[r] = "custom" => r \in taken
  /\ \A h \in Handler : pc[h] = "seed" =>
       \A i \in 1 .. task[h].at :
         SYSTEM_ROLES[i] \in task[h].add \/ roles[SYSTEM_ROLES[i]] # "absent"
  /\ seeded => \A r \in System : roles[r] # "absent"

\* How a handler comes to be seeding.
LEMMA NewSeeder ==
  ASSUME TypeOK, Next, NEW g \in Handler, pc'[g] = "seed"
  PROVE  \/ pc'[g] = pc[g] /\ task'[g] = task[g]
         \/ task'[g] = [kind |-> "seed", at |-> 0, add |-> {}]
         \/ SeedLook(g)
<1> DEFINE New == \/ pc'[g] = pc[g] /\ task'[g] = task[g]
                  \/ task'[g] = [kind |-> "seed", at |-> 0, add |-> {}]
                  \/ SeedLook(g)
<1> USE DEF Proceed, Goto
<1>0. pc \in [Handler -> Stage] /\ task \in [Handler -> Task]
  BY DEF TypeOK
<1>1. ASSUME NEW h \in Handler, Done(h)  PROVE New
  BY <1>0, <1>1 DEF Done
<1>2. ASSUME NEW h \in Handler, SeedStart(h)  PROVE New
  BY <1>0, <1>2 DEF SeedStart, Start
<1>3. ASSUME NEW h \in Handler, SeedLook(h)  PROVE New
  BY <1>0, <1>3 DEF SeedLook
<1>4. ASSUME NEW h \in Handler,
             \/ \E r \in Role : CreateRoleCheck(h, r)
             \/ \E u \in User, r \in Role :
                  \/ AssignLook(h, u, r) \/ LookupSubAdmin(h, u, r)
                  \/ \E stage \in {"deactivate", "reactivate"} : StartDecision(h, u, r, stage)
      PROVE  New
  BY <1>0, <1>4 DEF CreateRoleCheck, AssignLook, LookupSubAdmin, StartDecision, Start
<1>5. ASSUME NEW h \in Handler, CreateSubAdmin(h) \/ SubAdminRole(h)  PROVE New
  <2>1. CASE Done(h)
    BY <1>1, <2>1
  <2>2. CASE (Goto(h, "assign") \/ Goto(h, "admin_role")) /\ UNCHANGED task
    BY <1>0, <2>2
  <2> QED BY <1>5, <2>1, <2>2 DEF CreateSubAdmin, SubAdminRole
<1>6. ASSUME NEW h \in Handler,
             \/ SeedCommit(h) \/ CreateRole(h) \/ AssignRole(h)
             \/ Deactivate(h) \/ Reactivate(h) \/ Fail(h)
      PROVE  New
  BY <1>1, <1>6 DEF SeedCommit, CreateRole, AssignRole, Deactivate, Reactivate, Decide, Fail
<1>7. ASSUME \/ \E r \in Role : DeactivateRole(r)
             \/ \E u \in User : Register(u)
      PROVE  New
  BY <1>7 DEF DeactivateRole, Register
<1> HIDE DEF New
<1>8. New
  BY <1>2, <1>3, <1>4, <1>5, <1>6, <1>7
     DEF Next, Seed, AdministerRoles, AdministerUsers
<1> QED BY <1>8 DEF New

\* What a step does to the roles, the names taken and the seeding.
LEMMA RolesStep ==
  ASSUME TypeInv, Next
  PROVE  /\ taken \subseteq taken'
         /\ \A r \in Role : roles'[r] = "custom" => roles[r] = "custom" \/ r \in taken'
         /\ seeded' = seeded
            \/ \E h \in Handler : SeedCommit(h) /\ \A r \in task[h].add \intersect Role :
                                                       roles'[r] # "absent"
<1> DEFINE Ok ==
         /\ taken \subseteq taken'
         /\ \A r \in Role : roles'[r] = "custom" => roles[r] = "custom" \/ r \in taken'
         /\ seeded' = seeded
            \/ \E h \in Handler : SeedCommit(h) /\ \A r \in task[h].add \intersect Role :
                                                       roles'[r] # "absent"
<1>1. ASSUME UNCHANGED <<roles, taken, seeded>>  PROVE Ok
  BY <1>1
<1>2. ASSUME NEW h \in Handler, SeedCommit(h)  PROVE Ok
  <2>1. CASE UNCHANGED <<roles, seeded>>
    BY <1>1, <1>2, <2>1 DEF SeedCommit
  <2>2. CASE roles' = [r \in Role |-> IF r \in task[h].add THEN "system" ELSE roles[r]]
    BY <1>2, <2>2 DEF SeedCommit
  <2> QED BY <1>2, <2>1, <2>2 DEF SeedCommit
<1>3. ASSUME NEW h \in Handler, CreateRole(h)  PROVE Ok
  <2>1. seeded' = seeded
    BY <1>3 DEF CreateRole
  <2>2. CASE UNCHANGED <<roles, taken>>
    BY <1>1, <2>1, <2>2
  <2>3. CASE /\ roles' = [roles EXCEPT ![task[h].role] = "custom"]
             /\ taken' = taken \union {task[h].role}
    BY <2>1, <2>3 DEF TypeInv, TypeOK
  <2> QED BY <1>3, <2>2, <2>3 DEF CreateRole
<1>4. ASSUME NEW r \in Role, DeactivateRole(r)  PROVE Ok
  BY <1>4 DEF DeactivateRole, history, TypeInv, TypeOK
<1>5. ASSUME \/ \E u \in User : Register(u)
             \/ \E h \in Handler :
                  \/ SeedStart(h) \/ CreateSubAdmin(h) \/ SubAdminRole(h)
                  \/ \E r \in Role : CreateRoleCheck(h, r)
                  \/ \E u \in User, r \in Role :
                       \/ AssignLook(h, u, r) \/ LookupSubAdmin(h, u, r)
                       \/ \E stage \in {"deactivate", "reactivate"} :
                            StartDecision(h, u, r, stage)
      PROVE  Ok
  BY <1>1, <1>5 DEF Register, SeedStart, CreateRoleCheck, AssignLook,
       LookupSubAdmin, StartDecision, CreateSubAdmin, SubAdminRole, history
<1>6. ASSUME NEW h \in Handler,
             SeedLook(h) \/ AssignRole(h) \/ Deactivate(h) \/ Reactivate(h) \/ Fail(h)
      PROVE  Ok
  <2>1. SeedLook(h) => UNCHANGED <<roles, taken, seeded>>
    BY DEF SeedLook, history
  <2>2. AssignRole(h) => UNCHANGED <<roles, taken, seeded>>
    BY DEF AssignRole
  <2>3. Deactivate(h) \/ Reactivate(h) => UNCHANGED <<roles, taken, seeded>>
    BY DEF Deactivate, Reactivate, Decide
  <2>4. Fail(h) => UNCHANGED <<roles, taken, seeded>>
    BY DEF Fail
  <2> QED BY <1>1, <1>6, <2>1, <2>2, <2>3, <2>4
<1> HIDE DEF Ok
<1>7. Ok
  BY <1>2, <1>3, <1>4, <1>5, <1>6 DEF Next, Seed, AdministerRoles, AdministerUsers
<1> QED BY <1>7 DEF Ok

\* Every step preserves SeedInv.
LEMMA SeedStep ==
  ASSUME TypeInv, SeedInv, [Next]_vars
  PROVE  SeedInv'
<1>1. CASE UNCHANGED vars
  BY <1>1 DEF SeedInv, vars, history
<1>2. CASE Next
  <2>0. TypeOK /\ RowsSeen
    BY DEF TypeInv
  <2>1. \A r \in Role : roles[r] # "absent" => roles'[r] # "absent"
    BY <1>2, <2>0, TablesKept
  <2>2. \A r \in Role : roles'[r] = "custom" => r \in taken'
    BY <1>2, RolesStep DEF SeedInv
  <2>3. ASSUME NEW g \in Handler, pc'[g] = "seed", NEW i \in 1 .. task'[g].at
        PROVE  SYSTEM_ROLES[i] \in task'[g].add \/ roles'[SYSTEM_ROLES[i]] # "absent"
    <3>1. CASE pc'[g] = pc[g] /\ task'[g] = task[g]
      <4>1. task[g].at \in Nat /\ task[g].at <= Len(SYSTEM_ROLES) /\ i \in 1 .. task[g].at
        BY <2>0, <2>3, <3>1, TaskType
      <4>2. SYSTEM_ROLES[i] \in Role
        BY <4>1, SystemRole
      <4> QED BY <2>1, <2>3, <3>1, <4>1, <4>2 DEF SeedInv
    <3>2. CASE task'[g] = [kind |-> "seed", at |-> 0, add |-> {}]
      BY <2>3, <3>2
    <3>3. CASE SeedLook(g)
      <4>1. /\ pc[g] = "seed" /\ task[g].at \in Nat
            /\ roles' = roles
        BY <2>0, <3>3, TaskType DEF SeedLook
      <4>2. PICK t \in [kind: {"seed"}, at: Nat, add: SUBSET Role] :
              /\ task' = [task EXCEPT ![g] = t]
              /\ t.at = task[g].at + 1
              /\ t.add = task[g].add \union
                   IF roles[SYSTEM_ROLES[t.at]] = "absent" THEN {SYSTEM_ROLES[t.at]} ELSE {}
        BY <2>0, <3>3, SeedLookEffect
      <4>3. task'[g] = t
        BY <2>0, <4>2 DEF TypeOK
      <4>4. i \in 1 .. task[g].at \/ i = t.at
        BY <2>3, <4>1, <4>2, <4>3
      <4> QED BY <4>1, <4>2, <4>3, <4>4 DEF SeedInv
    <3> QED BY <1>2, <2>0, <2>3, <3>1, <3>2, <3>3, NewSeeder
  <2>4. ASSUME seeded', NEW r \in System  PROVE roles'[r] # "absent"
    <3>1. r \in Role
      BY SystemRole
    <3>2. CASE seeded' = seeded
      BY <2>1, <2>4, <3>1, <3>2 DEF SeedInv
    <3>3. CASE \E h \in Handler : SeedCommit(h) /\ \A n \in task[h].add \intersect Role :
                                                       roles'[n] # "absent"
      <4>1. PICK h \in Handler : /\ SeedCommit(h)
                                 /\ \A n \in task[h].add \intersect Role : roles'[n] # "absent"
        BY <3>3
      <4>2. pc[h] = "seed" /\ task[h].at = Len(SYSTEM_ROLES)
        BY <4>1 DEF SeedCommit
      <4>3. PICK i \in 1 .. Len(SYSTEM_ROLES) : r = SYSTEM_ROLES[i]
        BY DEF System
      <4>4. r \in task[h].add \/ roles[r] # "absent"
        BY <4>2, <4>3 DEF SeedInv
      <4> QED BY <2>1, <3>1, <4>1, <4>4
    <3> QED BY <1>2, <3>2, <3>3, RolesStep
  <2> QED BY <2>2, <2>3, <2>4 DEF SeedInv
<1> QED BY <1>1, <1>2

\* SystemRolesSeeded: a committed seeding left every system role in the table,
\* a system role unless an administrator had taken the name.
THEOREM RbacSystemRolesSeeded == Spec => []SystemRolesSeeded
<1>1. Init => TypeInv
  BY RbacInit
<1>2. Init => SeedInv
  BY DEF Init, SeedInv
<1>3. TypeInv /\ SeedInv /\ [Next]_vars => TypeInv' /\ SeedInv'
  BY TypeStep, SeedStep
<1>4. TypeInv /\ SeedInv => SystemRolesSeeded
  <2> SUFFICES ASSUME TypeInv, SeedInv, seeded, NEW r \in System
               PROVE  roles[r] = "system" \/ (roles[r] = "custom" /\ r \in taken)
    BY DEF SystemRolesSeeded
  <2>1. r \in Role /\ roles[r] \in {"absent", "system", "custom"}
    BY SystemRole DEF TypeInv, TypeOK
  <2> QED BY <2>1 DEF SeedInv
<1> QED BY <1>1, <1>2, <1>3, <1>4, PTL DEF Spec

-----------------------------------------------------------------------------
(* Decisions about grants *)

AsDecided(u, r) ==
  grants[u][r].exists =>
    /\ grants[u][r].is_active = (decided[u][r] = "active")
    /\ grants[u][r].stamped = (decided[u][r] = "inactive")

\* A handler that nobody has overtaken has read the row as it is, and a grant
\* whose last decision was of that kind is as decided.
GrantInv ==
  /\ \A h \in overtaken : pc[h] \in {"deactivate", "reactivate"}
  /\ \A u \in User, r \in Role, h \in Handler :
       h \in Deciding(u, r) /\ h \notin overtaken => task[h].read = grants[u][r]
  /\ \A u \in User, r \in Role : <<u, r>> \notin blurred => AsDecided(u, r)

\* What a step does to one grant.
LEMMA GrantChange ==
  ASSUME TypeInv, Next, NEW u \in User, NEW r \in Role
  PROVE  \/ /\ grants'[u][r] = grants[u][r] /\ decided'[u][r] = decided[u][r]
            /\ <<u, r>> \in blurred' <=> <<u, r>> \in blurred
         \/ /\ ~ grants[u][r].exists
            /\ grants'[u][r] = NewGrant /\ decided'[u][r] = "active"
            /\ <<u, r>> \in blurred' <=> <<u, r>> \in blurred
         \/ \E h \in Deciding(u, r), active \in BOOLEAN :
              /\ pc'[h] = "idle"
              /\ Deciding(u, r) \ {h} \subseteq overtaken'
              /\ <<u, r>> \in blurred' <=> h \in overtaken
              /\ task[h].read = grants[u][r] =>
                   grants'[u][r].is_active = active /\ grants'[u][r].stamped = ~ active
              /\ decided'[u][r] = IF active THEN "active" ELSE "inactive"
<1> DEFINE Change ==
         \/ /\ grants'[u][r] = grants[u][r] /\ decided'[u][r] = decided[u][r]
            /\ <<u, r>> \in blurred' <=> <<u, r>> \in blurred
         \/ /\ ~ grants[u][r].exists
            /\ grants'[u][r] = NewGrant /\ decided'[u][r] = "active"
            /\ <<u, r>> \in blurred' <=> <<u, r>> \in blurred
         \/ \E h \in Deciding(u, r), active \in BOOLEAN :
              /\ pc'[h] = "idle"
              /\ Deciding(u, r) \ {h} \subseteq overtaken'
              /\ <<u, r>> \in blurred' <=> h \in overtaken
              /\ task[h].read = grants[u][r] =>
                   grants'[u][r].is_active = active /\ grants'[u][r].stamped = ~ active
              /\ decided'[u][r] = IF active THEN "active" ELSE "inactive"
<1>0. TypeOK /\ RowsSeen
  BY DEF TypeInv
<1>1. ASSUME UNCHANGED <<grants, decided, blurred>>  PROVE Change
  BY <1>1
<1>2. ASSUME NEW h \in Handler, AssignRole(h)  PROVE Change
  <2>1. task[h].user \in User /\ task[h].role \in Role
    BY <1>0, <1>2, TaskType DEF AssignRole
  <2>2. CASE UNCHANGED <<grants, decided, blurred>>
    BY <1>1, <2>2
  <2>3. CASE /\ blurred' = blurred
             /\ ~ grants[task[h].user][task[h].role].exists
             /\ grants' = [grants EXCEPT ![task[h].user][task[h].role] = NewGrant]
             /\ decided' = [decided EXCEPT ![task[h].user][task[h].role] = "active"]
    BY <1>0, <2>1, <2>3 DEF TypeOK
  <2> QED BY <1>2, <2>2, <2>3 DEF AssignRole
<1>3. ASSUME NEW h \in Handler, Deactivate(h) \/ Reactivate(h)  PROVE Change
  <2>1. PICK v \in User, n \in Role, x \in GrantRow, active \in BOOLEAN :
          /\ pc[h] \in {"deactivate", "reactivate"}
          /\ task[h].user = v /\ task[h].role = n
          /\ grants' = [grants EXCEPT ![v] = [@ EXCEPT ![n] = x]]
          /\ task[h].read = grants[v][n] => x.is_active = active /\ x.stamped = ~ active
          /\ decided' = [decided EXCEPT ![v] = [@ EXCEPT ![n] =
                           IF active THEN "active" ELSE "inactive"]]
          /\ overtaken' = (overtaken \union Deciding(v, n)) \ {h}
          /\ blurred' = IF h \in overtaken THEN blurred \union {<<v, n>>}
                                          ELSE blurred \ {<<v, n>>}
          /\ Done(h)
    BY <1>0, <1>3, DecisionEffect
  <2>2. CASE v = u /\ n = r
    <3>1. /\ grants'[u][r] = x
          /\ decided'[u][r] = IF active THEN "active" ELSE "inactive"
      BY <1>0, <2>1, <2>2 DEF TypeOK
    <3>2. pc'[h] = "idle"
      BY <1>0, <2>1 DEF Done, Proceed, Goto, TypeOK
    <3>3. h \in Deciding(u, r)
      BY <2>1, <2>2 DEF Deciding
    <3>4. /\ Deciding(u, r) \ {h} \subseteq overtaken'
          /\ <<u, r>> \in blurred' <=> h \in overtaken
      BY <2>1, <2>2
    <3> QED BY <2>1, <2>2, <3>1, <3>2, <3>3, <3>4
  <2>3. CASE ~ (v = u /\ n = r)
    <3>1. grants'[u][r] = grants[u][r] /\ decided'[u][r] = decided[u][r]
      BY <1>0, <2>1, <2>3 DEF TypeOK
    <3>2. <<u, r>> \in blurred' <=> <<u, r>> \in blurred
      BY <2>1, <2>3
    <3> QED BY <3>1, <3>2
  <2> QED BY <2>2, <2>3
<1>4. ASSUME \/ \E n \in Role : DeactivateRole(n)
             \/ \E v \in User : Register(v)
             \/ \E h \in Handler :
                  \/ SeedStart(h) \/ CreateSubAdmin(h) \/ SubAdminRole(h)
                  \/ \E n \in Role : CreateRoleCheck(h, n)
                  \/ \E v \in User, n \in Role :
                       \/ AssignLook(h, v, n) \/ LookupSubAdmin(h, v, n)
                       \/ \E stage \in {"deactivate", "reactivate"} :
                            StartDecision(h, v, n, stage)
      PROVE  Change
  BY <1>1, <1>4 DEF DeactivateRole, Register, SeedStart, CreateSubAdmin, SubAdminRole,
       CreateRoleCheck, AssignLook, LookupSubAdmin, StartDecision, history
<1>5. ASSUME NEW h \in Handler, SeedLook(h) \/ SeedCommit(h) \/ CreateRole(h) \/ Fail(h)
      PROVE  Change
  <2>1. SeedLook(h) => UNCHANGED <<grants, decided, blurred>>
    BY DEF SeedLook, history
  <2>2. SeedCommit(h) \/ CreateRole(h) \/ Fail(h) => UNCHANGED <<grants, decided, blurred>>
    BY DEF SeedCommit, CreateRole, Fail
  <2> QED BY <1>1, <1>5, <2>1, <2>2
<1> HIDE DEF Change
<1>6. Change
  BY <1>2, <1>3, <1>4, <1>5 DEF Next, Seed, AdministerRoles, AdministerUsers
<1> QED BY <1>6 DEF Change

\* A handler is overtaken while it is deciding, until it commits or fails.
LEMMA Overtaking ==
  ASSUME TypeOK, RowsSeen, Next, NEW g \in Handler
  PROVE  /\ g \in overtaken' =>
              g \in overtaken \/ pc[g] \in {"deactivate", "reactivate"}
         /\ g \in overtaken' /\ pc[g] \in {"deactivate", "reactivate"} => pc'[g] = pc[g]
         /\ g \in overtaken /\ pc'[g] = pc[g] /\ pc[g] # "idle" => g \in overtaken'
<1> DEFINE D == {"deactivate", "reactivate"}
           Kept == /\ g \in overtaken' => g \in overtaken \/ pc[g] \in D
                   /\ g \in overtaken' /\ pc[g] \in D => pc'[g] = pc[g]
                   /\ g \in overtaken /\ pc'[g] = pc[g] /\ pc[g] # "idle" => g \in overtaken'
<1>1. ASSUME overtaken' = overtaken, NEW h \in Handler, pc[h] \notin D,
             \E stage \in Stage : pc' = [pc EXCEPT ![h] = stage]
      PROVE  Kept
  BY <1>1 DEF TypeOK
<1>2. ASSUME overtaken' = overtaken, pc' = pc  PROVE Kept
  BY <1>2
<1>3. ASSUME NEW h \in Handler, Deactivate(h) \/ Reactivate(h)  PROVE Kept
  <2>1. PICK u \in User, r \in Role :
          /\ overtaken' = (overtaken \union Deciding(u, r)) \ {h}
          /\ Done(h)
    BY <1>3, DecisionEffect
  <2>2. pc' = [pc EXCEPT ![h] = "idle"]
    BY <2>1 DEF Done, Proceed, Goto
  <2> QED BY <2>1, <2>2 DEF Deciding, TypeOK
<1>4. ASSUME NEW h \in Handler, Fail(h)  PROVE Kept
  BY <1>4 DEF Fail, Done, Proceed, Goto, TypeOK
<1>5. ASSUME NEW h \in Handler,
             \/ SeedStart(h) \/ \E r \in Role : CreateRoleCheck(h, r)
             \/ \E u \in User, r \in Role :
                  \/ AssignLook(h, u, r) \/ LookupSubAdmin(h, u, r)
                  \/ \E stage \in D : StartDecision(h, u, r, stage)
      PROVE  Kept
  <2>1. pc[h] \notin D /\ overtaken' = overtaken
    BY <1>5 DEF SeedStart, CreateRoleCheck, AssignLook, LookupSubAdmin, StartDecision,
                Start, history
  <2>2. \E stage \in Stage : pc' = [pc EXCEPT ![h] = stage]
    BY <1>5 DEF SeedStart, CreateRoleCheck, AssignLook, LookupSubAdmin, StartDecision,
                Start, Proceed, Goto, Stage
  <2> QED BY <1>1, <2>1, <2>2
<1>6. ASSUME NEW h \in Handler,
             \/ SeedCommit(h) \/ CreateRole(h) \/ AssignRole(h)
             \/ CreateSubAdmin(h) \/ SubAdminRole(h)
      PROVE  Kept
  <2>1. pc[h] \notin D /\ overtaken' = overtaken
    BY <1>6 DEF SeedCommit, CreateRole, AssignRole, CreateSubAdmin, SubAdminRole
  <2>2. \E stage \in Stage : pc' = [pc EXCEPT ![h] = stage]
    BY <1>6 DEF SeedCommit, CreateRole, AssignRole, CreateSubAdmin, SubAdminRole,
                Done, Proceed, Goto, Stage
  <2> QED BY <1>1, <2>1, <2>2
<1>7. ASSUME \/ \E h \in Handler : SeedLook(h)
             \/ \E r \in Role : DeactivateRole(r)
             \/ \E u \in User : Register(u)
      PROVE  Kept
  <2>1. overtaken' = overtaken /\ pc' = pc
    BY <1>7 DEF SeedLook, DeactivateRole, Register, history
  <2> QED BY <1>2, <2>1
<1> HIDE DEF Kept
<1>8. Kept
  BY <1>3, <1>4, <1>5, <1>6, <1>7 DEF Next, Seed, AdministerRoles, AdministerUsers
<1> QED BY <1>8 DEF Kept

\* Every step preserves GrantInv.
LEMMA GrantStep ==
  ASSUME TypeInv, GrantInv, [Next]_vars
  PROVE  GrantInv'
<1>1. CASE UNCHANGED vars
  BY <1>1 DEF GrantInv, AsDecided, Deciding, vars, history
<1>2. CASE Next
  <2>0. TypeOK /\ RowsSeen
    BY DEF TypeInv
  <2>1. ASSUME NEW h \in overtaken'  PROVE pc'[h] \in {"deactivate", "reactivate"}
    <3>1. h \in Handler
      BY <1>2, <2>0, HistoryType
    <3>2. pc[h] \in {"deactivate", "reactivate"}
      BY <1>2, <2>0, <3>1, Overtaking DEF GrantInv
    <3> QED BY <1>2, <2>0, <3>1, <3>2, Overtaking
  <2>2. ASSUME NEW u \in User, NEW r \in Role, NEW g \in Handler,
               g \in Deciding(u, r)', g \notin overtaken'
        PROVE  task'[g].read = grants'[u][r]
    <3>1. /\ pc'[g] \in {"deactivate", "reactivate"}
          /\ task'[g].user = u /\ task'[g].role = r
      BY <2>2 DEF Deciding
    <3>2. CASE pc'[g] = pc[g] /\ task'[g] = task[g]
      <4>1. g \in Deciding(u, r)
        BY <3>1, <3>2 DEF Deciding
      <4>2. g \notin overtaken
        BY <1>2, <2>0, <2>2, <3>1, <3>2, Overtaking
      <4>3. task[g].read = grants[u][r] /\ grants[u][r].exists
        BY <2>0, <4>1, <4>2 DEF GrantInv, Deciding, RowsSeen
      <4>4. ASSUME NEW h \in Deciding(u, r), pc'[h] = "idle",
                   Deciding(u, r) \ {h} \subseteq overtaken'
            PROVE  FALSE
        <5>1. h = g
          BY <2>2, <4>1, <4>4
        <5> QED BY <3>1, <4>4, <5>1
      <4>5. grants'[u][r] = grants[u][r]
        BY <1>2, <4>3, <4>4, GrantChange
      <4> QED BY <3>2, <4>3, <4>5
    <3>3. CASE \E v \in User, n \in Role :
                 /\ StartDecision(g, v, n, pc'[g])
                 /\ task'[g] = [kind |-> "grant", user |-> v, role |-> n, read |-> grants[v][n]]
      <4>1. PICK v \in User, n \in Role :
                 /\ StartDecision(g, v, n, pc'[g])
                 /\ task'[g] = [kind |-> "grant", user |-> v, role |-> n, read |-> grants[v][n]]
        BY <3>3
      <4>2. v = u /\ n = r /\ task'[g].read = grants[v][n]
        BY <3>1, <4>1
      <4>3. grants' = grants
        BY <4>1 DEF StartDecision
      <4> QED BY <4>2, <4>3
    <3> QED BY <1>2, <2>0, <3>1, <3>2, <3>3, NewDecider
  <2>3. ASSUME NEW u \in User, NEW r \in Role, <<u, r>> \notin blurred'
        PROVE  AsDecided(u, r)'
    <3>1. CASE /\ grants'[u][r] = grants[u][r] /\ decided'[u][r] = decided[u][r]
               /\ <<u, r>> \notin blurred
      BY <3>1 DEF GrantInv, AsDecided
    <3>2. CASE /\ grants'[u][r] = NewGrant /\ decided'[u][r] = "active"
      <4>1. grants'[u][r].is_active = TRUE /\ grants'[u][r].stamped = FALSE
        BY <3>2 DEF NewGrant
      <4> QED BY <3>2, <4>1 DEF AsDecided
    <3>3. ASSUME NEW h \in Deciding(u, r), NEW active \in BOOLEAN, h \notin overtaken,
                 task[h].read = grants[u][r] =>
                   grants'[u][r].is_active = active /\ grants'[u][r].stamped = ~ active,
                 decided'[u][r] = IF active THEN "active" ELSE "inactive"
          PROVE  AsDecided(u, r)'
      <4>0. h \in Handler
        BY DEF Deciding
      <4>1. grants'[u][r].is_active = active /\ grants'[u][r].stamped = ~ active
        BY <3>3, <4>0 DEF GrantInv
      <4>2. CASE active = TRUE
        <5>1. decided'[u][r] = "active"
          BY <3>3, <4>2
        <5> QED BY <4>1, <4>2, <5>1 DEF AsDecided
      <4>3. CASE active = FALSE
        <5>1. decided'[u][r] = "inactive"
          BY <3>3, <4>3
        <5> QED BY <4>1, <4>3, <5>1 DEF AsDecided
      <4> QED BY <4>2, <4>3
    <3> QED BY <1>2, <2>3, <3>1, <3>2, <3>3, GrantChange
  <2> QED BY <2>1, <2>2, <2>3 DEF GrantInv
<1> QED BY <1>1, <1>2

\* GrantAsDecided: a grant whose last decision nobody had overtaken says in
\* all its columns what was decided, whatever decisions overlapped before.
THEOREM RbacGrantAsDecided == Spec => []GrantAsDecided
<1>1. Init => TypeInv
  BY RbacInit
<1>2. Init => GrantInv
  BY GrantRows DEF Init, GrantInv, AsDecided, Deciding
<1>3. TypeInv /\ GrantInv /\ [Next]_vars => TypeInv' /\ GrantInv'
  BY TypeStep, GrantStep
<1>4. GrantInv => GrantAsDecided
  BY DEF GrantInv, AsDecided, GrantAsDecided
<1> QED BY <1>1, <1>2, <1>3, <1>4, PTL DEF Spec

-----------------------------------------------------------------------------
(* Sub-admins *)

\* A handler on its way to a grant stays where it is until it takes its own
\* next step; one that will appoint a user has just begun to.
LEMMA Appointing ==
  ASSUME TypeOK, Next, NEW g \in Handler
  PROVE  /\ pc[g] \in {"admin_role", "assign"} =>
              \/ pc'[g] = pc[g] /\ task'[g] = task[g]
              \/ SubAdminRole(g) \/ AssignRole(g) \/ Fail(g)
         /\ pc'[g] = "admin_user" =>
              \/ pc'[g] = pc[g] /\ task'[g] = task[g]
              \/ task'[g].appoints
<1> DEFINE Same == pc'[g] = pc[g] /\ task'[g] = task[g]
           Stays == /\ pc[g] \in {"admin_role", "assign"} =>
                         Same \/ SubAdminRole(g) \/ AssignRole(g) \/ Fail(g)
                    /\ pc'[g] = "admin_user" => Same \/ task'[g].appoints
<1> USE DEF Proceed, Goto
<1>0. pc \in [Handler -> Stage] /\ task \in [Handler -> Task]
  BY DEF TypeOK
<1>1. ASSUME NEW h \in Handler, Done(h),
             h = g => pc[g] \notin {"admin_role", "assign"}
                        \/ SubAdminRole(g) \/ AssignRole(g) \/ Fail(g)
      PROVE  Stays
  <2>1. h # g => Same
    BY <1>0, <1>1 DEF Done
  <2>2. h = g => pc'[g] = "idle"
    BY <1>0, <1>1 DEF Done
  <2> QED BY <1>1, <2>1, <2>2
<1>2. ASSUME NEW h \in Handler, NEW stage, NEW t, Start(h, stage, t),
             stage = "admin_user" => t.appoints
      PROVE  Stays
  BY <1>0, <1>2 DEF Start
<1>3. ASSUME NEW h \in Handler, SeedLook(h)  PROVE Stays
  <2>1. h # g => Same
    BY <1>0, <1>3 DEF SeedLook
  <2>2. h = g => pc[g] = "seed" /\ pc'[g] = "seed"
    BY <1>3 DEF SeedLook
  <2> QED BY <2>1, <2>2
<1>4. ASSUME NEW h \in Handler,
             \/ SeedStart(h)
             \/ \E r \in Role : CreateRoleCheck(h, r)
             \/ \E u \in User, r \in Role :
                  \/ AssignLook(h, u, r) \/ LookupSubAdmin(h, u, r)
                  \/ \E stage \in {"deactivate", "reactivate"} : StartDecision(h, u, r, stage)
      PROVE  Stays
  <2> HIDE DEF Stays
  <2> QED BY <1>2, <1>4 DEF SeedStart, CreateRoleCheck, AssignLook, LookupSubAdmin,
                            StartDecision
<1>5. ASSUME NEW h \in Handler, CreateSubAdmin(h)  PROVE Stays
  <2>1. pc[h] = "admin_user"
    BY <1>5 DEF CreateSubAdmin
  <2>2. CASE Done(h)
    BY <1>1, <2>1, <2>2
  <2>3. CASE Goto(h, "admin_role") /\ UNCHANGED task
    BY <1>0, <2>1, <2>3
  <2> QED BY <1>5, <2>2, <2>3 DEF CreateSubAdmin
<1>6. ASSUME NEW h \in Handler, SubAdminRole(h)  PROVE Stays
  <2>1. CASE Done(h)
    BY <1>1, <1>6, <2>1
  <2>2. CASE Goto(h, "assign") /\ UNCHANGED task
    BY <1>0, <1>6, <2>2
  <2> QED BY <1>6, <2>1, <2>2 DEF SubAdminRole
<1>7. ASSUME NEW h \in Handler, AssignRole(h) \/ Fail(h)  PROVE Stays
  <2>1. Done(h)
    BY <1>7 DEF AssignRole, Fail
  <2> QED BY <1>1, <1>7, <2>1
<1>8. ASSUME NEW h \in Handler,
             SeedCommit(h) \/ CreateRole(h) \/ Deactivate(h) \/ Reactivate(h)
      PROVE  Stays
  <2>1. pc[h] \notin {"admin_role", "assign"} /\ Done(h)
    BY <1>8 DEF SeedCommit, CreateRole, Deactivate, Reactivate, Decide
  <2> QED BY <1>1, <2>1
<1>9. ASSUME \/ \E r \in Role : DeactivateRole(r)
             \/ \E u \in User : Register(u)
      PROVE  Stays
  BY <1>9 DEF DeactivateRole, Register
<1> HIDE DEF Stays
<1>10. Stays
  BY <1>3, <1>4, <1>5, <1>6, <1>7, <1>8, <1>9
     DEF Next, Seed, AdministerRoles, AdministerUsers
<1> QED BY <1>10 DEF Stays

\* Only the commit of a sub-admin's user appoints it, and excuses are kept.
LEMMA Appointed ==
  ASSUME Next
  PROVE  /\ half \subseteq half' /\ roleless \subseteq roleless'
         /\ \/ appointed' = appointed
            \/ \E h \in Handler : /\ CreateSubAdmin(h)
                                  /\ appointed' = appointed \union {task[h].user}
<1> DEFINE Kept == half \subseteq half' /\ roleless \subseteq roleless'
           Appoints(h) == CreateSubAdmin(h) /\ appointed' = appointed \union {task[h].user}
           Moved == Kept /\ (appointed' = appointed \/ \E h \in Handler : Appoints(h))
<1>1. ASSUME NEW h \in Handler
      PROVE  /\ SeedStart(h) => Moved
             /\ SeedLook(h) => Moved
             /\ SeedCommit(h) => Moved
             /\ CreateRole(h) => Moved
             /\ AssignRole(h) => Moved
             /\ Deactivate(h) => Moved
             /\ Reactivate(h) => Moved
  <2> QED BY DEF SeedStart, SeedLook, SeedCommit, CreateRole, AssignRole,
                 Deactivate, Reactivate, Decide, history
<1>2. ASSUME NEW h \in Handler, CreateSubAdmin(h)  PROVE Moved
  <2>1. Kept
    BY <1>2 DEF CreateSubAdmin
  <2>2. appointed' = appointed \/ Appoints(h)
    BY <1>2 DEF CreateSubAdmin
  <2> QED BY <2>1, <2>2
<1>3. ASSUME NEW h \in Handler, SubAdminRole(h)  PROVE Moved
  BY <1>3 DEF SubAdminRole
<1>4. ASSUME NEW h \in Handler, Fail(h)  PROVE Moved
  BY <1>4 DEF Fail
<1>5. ASSUME NEW h \in Handler, NEW u \in User, NEW r \in Role
      PROVE  /\ CreateRoleCheck(h, r) => Moved
             /\ AssignLook(h, u, r) => Moved
             /\ LookupSubAdmin(h, u, r) => Moved
             /\ \A stage \in {"deactivate", "reactivate"} : StartDecision(h, u, r, stage) => Moved
  BY DEF CreateRoleCheck, AssignLook, LookupSubAdmin, StartDecision, history
<1>6. ASSUME NEW h \in Handler, \E r \in Role : CreateRoleCheck(h, r)  PROVE Moved
  BY <1>6 DEF CreateRoleCheck, history
<1>7. ASSUME \/ \E r \in Role : DeactivateRole(r)
             \/ \E u \in User : Register(u)
      PROVE  Moved
  BY <1>7 DEF DeactivateRole, Register, history
<1> HIDE DEF Moved
<1>8. Moved
  BY <1>1, <1>2, <1>3, <1>4, <1>5, <1>6, <1>7 DEF Next, Seed, AdministerRoles, AdministerUsers
<1> QED BY <1>8 DEF Moved

\* Handler h is about to give the user it has made its role.
Granting(h, u) ==
    pc[h] \in {"admin_role", "assign"} /\ task[h].user = u /\ task[h].appoints

\* Sub-admins have rows, and those that have no role have a handler on the way.
SubAdminInv ==
    /\ appointed \subseteq users
    /\ \A h \in Handler : pc[h] = "admin_user" => task[h].appoints
    /\ \A u \in appointed :
         \/ u \in half \union roleless
         \/ \E r \in Role : grants[u][r].exists
         \/ \E h \in Handler : Granting(h, u)

\* Every step preserves SubAdminInv.
LEMMA SubAdminStep ==
  ASSUME TypeInv, SubAdminInv, [Next]_vars
  PROVE  SubAdminInv'
<1>1. CASE UNCHANGED vars
  BY <1>1 DEF SubAdminInv, Granting, vars, history
<1>2. CASE Next
  <2>0. TypeOK /\ RowsSeen /\ pc \in [Handler -> Stage] /\ task \in [Handler -> Task]
    BY DEF TypeInv, TypeOK
  <2>1. users \subseteq users'
    BY <1>2, <2>0, TablesKept
  <2>2. half \subseteq half' /\ roleless \subseteq roleless'
    BY <1>2, Appointed
  <2>3. (appointed \subseteq users)'
    <3>1. CASE appointed' = appointed
      BY <2>1, <3>1 DEF SubAdminInv
    <3>2. ASSUME NEW h \in Handler, CreateSubAdmin(h),
                 appointed' = appointed \union {task[h].user}
          PROVE  (appointed \subseteq users)'
      <4>1. task[h].user \in users'
        BY <3>2 DEF CreateSubAdmin
      <4> QED BY <2>1, <3>2, <4>1 DEF SubAdminInv
    <3> QED BY <1>2, <3>1, <3>2, Appointed
  <2>4. ASSUME NEW g \in Handler, pc'[g] = "admin_user"  PROVE task'[g].appoints
    BY <1>2, <2>0, <2>4, Appointing DEF SubAdminInv
  <2>5. ASSUME NEW u \in appointed'
        PROVE  \/ u \in half' \union roleless'
               \/ \E r \in Role : grants'[u][r].exists
               \/ \E h \in Handler : Granting(h, u)'
    <3>0. u \in User
      BY <1>2, <2>0, HistoryType
    <3>1. CASE u \in half \union roleless
      BY <2>2, <3>1
    <3>2. ASSUME NEW r \in Role, grants[u][r].exists
          PROVE  \E n \in Role : grants'[u][n].exists
      BY <1>2, <2>0, <3>0, <3>2, TablesKept
    <3>3. ASSUME NEW h \in Handler, Granting(h, u), u \in users
          PROVE  \/ u \in half' \union roleless'
                 \/ \E r \in Role : grants'[u][r].exists
                 \/ Granting(h, u)'
      <4>1. pc[h] \in {"admin_role", "assign"} /\ task[h].user = u /\ task[h].appoints
        BY <3>3 DEF Granting
      <4>2. task[h].role \in Role
        BY <2>0, <4>1, TaskType
      <4>3. CASE pc'[h] = pc[h] /\ task'[h] = task[h]
        BY <4>1, <4>3 DEF Granting
      <4>4. CASE SubAdminRole(h)
        <5>1. CASE grants[u][task[h].role].exists
          BY <3>2, <4>2, <5>1
        <5>2. CASE ~ grants[u][task[h].role].exists
          BY <2>0, <4>1, <4>4, <5>2 DEF SubAdminRole, Granting, Goto
        <5> QED BY <5>1, <5>2
      <4>5. CASE AssignRole(h)
        <5>1. CASE grants[u][task[h].role].exists
          BY <3>2, <4>2, <5>1
        <5>2. CASE ~ grants[u][task[h].role].exists
          <6>1. grants' = [grants EXCEPT ![u][task[h].role] = NewGrant]
            BY <3>3, <4>1, <4>5, <5>2 DEF AssignRole
          <6>2. grants \in [User -> [Role -> {NoGrant} \union GrantRow]]
            BY <2>0 DEF TypeOK
          <6>3. grants'[u][task[h].role] = NewGrant
            BY <3>0, <4>2, <6>1, <6>2
          <6> QED BY <4>2, <6>3 DEF NewGrant
        <5> QED BY <5>1, <5>2
      <4>6. CASE Fail(h)
        <5>1. task[h].kind = "user"
          BY <2>0, <4>1, StageKind
        <5>2. half' = half \union {u}
          BY <4>1, <4>6, <5>1 DEF Fail
        <5> QED BY <5>2
      <4> QED BY <1>2, <2>0, <4>1, <4>3, <4>4, <4>5, <4>6, Appointing
    <3>4. CASE u \in appointed
      <4>1. u \in users
        BY <3>4 DEF SubAdminInv
      <4>2. \/ u \in half \union roleless
            \/ \E r \in Role : grants[u][r].exists
            \/ \E h \in Handler : Granting(h, u)
        BY <3>4 DEF SubAdminInv
      <4> QED BY <3>1, <3>2, <3>3, <4>1, <4>2
    <3>5. CASE u \notin appointed
      <4>1. PICK h \in Handler : CreateSubAdmin(h) /\ task[h].user = u
        BY <1>2, <3>5, Appointed
      <4>2. u \notin users
        BY <3>5, <4>1, <2>5 DEF CreateSubAdmin
      <4>3. pc[h] = "admin_user" /\ Goto(h, "admin_role") /\ UNCHANGED task
        BY <4>1, <4>2 DEF CreateSubAdmin
      <4>4. Granting(h, u)'
        BY <2>0, <4>1, <4>3 DEF SubAdminInv, Granting, Goto
      <4> QED BY <4>4
    <3> QED BY <3>4, <3>5
  <2> QED BY <2>3, <2>4, <2>5 DEF SubAdminInv
<1> QED BY <1>1, <1>2

\* SubAdminHasRole: a user made by create_sub_admin is not left without a role
\* but by a failure between its two commits or a role_id of no role.
THEOREM RbacSubAdminHasRole == Spec => []SubAdminHasRole
<1>1. Init => TypeInv
  BY RbacInit
<1>2. Init => SubAdminInv
  BY DEF Init, SubAdminInv, Granting
<1>3. TypeInv /\ SubAdminInv /\ [Next]_vars => TypeInv' /\ SubAdminInv'
  BY TypeStep, SubAdminStep
<1>4. SubAdminInv => SubAdminHasRole
  BY DEF SubAdminInv, Granting, SubAdminHasRole
<1> QED BY <1>1, <1>2, <1>3, <1>4, PTL DEF Spec

=============================================================================
