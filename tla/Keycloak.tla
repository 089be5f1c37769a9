------------------------------ MODULE Keycloak ------------------------------
(***************************************************************************)
(* One user's logins with Keycloak enabled: auth-service copies the user   *)
(* and its roles to Keycloak (get_or_create_user), has Keycloak issue and  *)
(* rotate tokens (services/session_service.py), signs them itself whenever *)
(* a call fails, and passes on logouts and an administrator's calls        *)
(* (routers/admin.py).                                                     *)
(*                                                                         *)
(* A step is one call to Keycloak or one commit.  A call may fail without  *)
(* effect, or have its effect and lose its answer; calls made with the     *)
(* admin token of AdminToken also fail when that has expired.  A process   *)
(* may stop at any time: its handlers and its cache are gone.              *)
(***************************************************************************)
EXTENDS AdminToken

CONSTANTS
    Role,           \* role names of user-service
    RealmRole,      \* those that the realm knows
    Told,           \* sets of roles that user-service may tell a login
    MaxSessions     \* bound: rows, and Keycloak sessions, ever made

ASSUME KeycloakAssumption ==
    /\ "customer" \in RealmRole
    /\ RealmRole \subseteq Role
    /\ Told \subseteq SUBSET Role
    /\ MaxSessions \in Nat

VARIABLES
    account,    \* the user in Keycloak
    kcSessions, \* its sessions in Keycloak, in the order they began
    rows        \* the sessions table of auth-service

kcVars == <<account, kcSessions, rows>>
vars == <<tokenVars, kcVars, pc, task>>

-----------------------------------------------------------------------------
(* Types *)

Sid == 1 .. MaxSessions

NoAccount == [exists |-> FALSE, enabled |-> FALSE, roles |-> {}]
Account == [exists: BOOLEAN, enabled: BOOLEAN, roles: SUBSET RealmRole]

\* kc: kc_user_id is set.  session: the Keycloak session whose refresh token
\* the row holds (0: a token signed locally).
Row == [kc: BOOLEAN, session: 0 .. MaxSessions, revoked: BOOLEAN]

\* What a login or a refresh makes: roles are those of the access token.
\* fetched: the roles user-service told the login.  late: a history, that the
\* Keycloak session of the old row had ended when the refresh began.  barred: a
\* history, that the account was disabled when the handler began, and no
\* administrator has enabled it since.
Minting == [kind: {"login", "refresh"}, old: 0 .. MaxSessions, kc: BOOLEAN,
            session: 0 .. MaxSessions, roles: SUBSET Role,
            fetched: Told \union {{}}, late: BOOLEAN, barred: BOOLEAN]

Task ==
    {Nothing} \union Minting
    \union [kind: {"logout", "admin"}]

\* What handlers of each kind may do next, and which of it needs the admin
\* token.
Sync == {"lookup", "create", "patch", "existing", "assign"}
Stages == [nothing |-> {"idle"},
           login   |-> Sync \union {"issue", "insert"},
           refresh |-> {"revoke", "rotate", "insert"},
           logout  |-> {"logout"},
           admin   |-> {"admin"}]

KeycloakTypeOK ==
    /\ TokenTypeOK
    /\ account \in Account
    /\ kcSessions \in Seq(BOOLEAN) /\ Len(kcSessions) <= MaxSessions
    /\ rows \in Seq(Row)
    /\ \A i \in 1 .. Len(rows) : rows[i].session <= Len(kcSessions)
    /\ \A h \in Handler :
         /\ task[h] \in Task
         /\ pc[h] \in Stages[task[h].kind]
         /\ token[h].stage # "none" => pc[h] \in Sync \union {"logout", "admin"}

Init ==
    /\ TokenInit
    /\ account = NoAccount
    /\ kcSessions = <<>> /\ rows = <<>>
    /\ HandlersInit

-----------------------------------------------------------------------------
(* Helpers *)

Barred == account.exists /\ ~ account.enabled

Alive(s) == s # 0 /\ kcSessions[s]

\* The tokens that handler h stores and returns.
Mint(h, session, roles) ==
    /\ task' = [task EXCEPT ![h].session = session, ![h].roles = roles, ![h].old = 0]
    /\ Goto(h, "insert")

\* A call with the admin token arrives in stage s.
Arrives(h, s) == pc[h] = s /\ Authorised(h)

-----------------------------------------------------------------------------
(* The end of a login: _sync_to_keycloak and create_session *)

\* Bound: there is room for the row that a handler begins to make.
Room ==
    Len(rows) + Cardinality({h \in Handler : task[h].kind \in {"login", "refresh"}}) < MaxSessions

New(kind, fetched) ==
    [kind |-> kind, old |-> 0, kc |-> FALSE, session |-> 0, roles |-> {},
     fetched |-> fetched, late |-> FALSE, barred |-> Barred]

StartLogin(h, fetched) ==
    /\ Room
    /\ Start(h, "lookup", New("login", fetched))
    /\ AwaitLock(h)
    /\ UNCHANGED kcVars

\* roles or ["customer"], signed locally
MintLocally(h) ==
    LET fetched == task[h].fetched
    IN Mint(h, 0, IF fetched = {} THEN {"customer"} ELSE fetched)

\* A call of the synchronisation fails: whichever it was, there is no
\* kc_user_id.
SyncFails(h) ==
    /\ pc[h] \in Sync
    /\ \/ token[h].stage \in {"held", "used"} /\ Forget(h)
       \/ TokenFails(h)
    /\ MintLocally(h)
    /\ UNCHANGED kcVars

\* The synchronisation returns kc_user_id.
Synced(h) ==
    /\ Goto(h, "issue")
    /\ task' = [task EXCEPT ![h].kc = TRUE]
    /\ Forget(h)

\* The answer to a call that changed something is lost.
Unheard(h) == MintLocally(h) /\ Forget(h)

LookupUser(h) ==
    /\ Arrives(h, "lookup") /\ Used(h)
    /\ Goto(h, IF account.exists THEN "patch" ELSE "create")
    /\ UNCHANGED <<kcVars, task>>

\* _sync_realm_roles is skipped when there are no roles.
RolesNext(h) ==
    IF task[h].fetched = {}
      THEN Synced(h)
      ELSE Goto(h, "existing") /\ Used(h) /\ UNCHANGED task

\* _create_user; another handler's user of that name is a 409 (SyncFails).
CreateUser(h) ==
    /\ Arrives(h, "create")
    /\ ~ account.exists
    /\ account' = [exists |-> TRUE, enabled |-> TRUE, roles |-> {}]
    /\ RolesNext(h) \/ Unheard(h)
    /\ UNCHANGED <<kcSessions, rows>>

\* Mutant: the attributes are sent with enabled, as those of a new user.
PatchUserEnabled(h) ==
    /\ pc[h] = "patch"
    /\ account' = [account EXCEPT !.enabled = TRUE]
    /\ RolesNext(h)
    /\ UNCHANGED <<kcSessions, rows>>

\* _patch_user_attributes: neither enabled nor the roles are among them, and
\* whether Keycloak accepted them, or the token, is not looked at.
PatchUser(h) ==
    /\ pc[h] = "patch"
    /\ RolesNext(h)
    /\ UNCHANGED kcVars

\* What the realm knows and the user lacks.
ToAdd(h) == (task[h].fetched \intersect RealmRole) \ account.roles

\* The realm's roles, which do not change, and the user's are read.
ReadExisting(h) ==
    /\ Arrives(h, "existing")
    /\ IF ToAdd(h) = {} THEN Synced(h) ELSE Goto(h, "assign") /\ UNCHANGED <<tokenVars, task>>
    /\ UNCHANGED kcVars

\* Mutant: a failure here is passed over, as that of the attributes is.
AssignRolesOrNot(h) ==
    /\ pc[h] = "assign"
    /\ \/ /\ Authorised(h)
          /\ account' = [account EXCEPT !.roles =
                            account.roles \union (task[h].fetched \intersect RealmRole)]
       \/ UNCHANGED account
    /\ Synced(h)
    /\ UNCHANGED <<kcSessions, rows>>

\* Roles are only added: what others have assigned since the read stays.
AssignRoles(h) ==
    /\ Arrives(h, "assign")
    /\ account' = [account EXCEPT !.roles =
                      account.roles \union (task[h].fetched \intersect RealmRole)]
    /\ Synced(h) \/ Unheard(h)
    /\ UNCHANGED <<kcSessions, rows>>

\* issue_token: two requests, of which the first changes nothing.  Keycloak
\* begins a session, with the roles the account has by now.
IssueToken(h) ==
    /\ pc[h] = "issue"
    /\ account.enabled
    /\ Len(kcSessions) < MaxSessions
    /\ kcSessions' = Append(kcSessions, TRUE)
    /\ Mint(h, Len(kcSessions) + 1, account.roles)
    /\ UNCHANGED <<tokenVars, account, rows>>

\* ... or fails, as for a disabled account: the tokens are signed locally, and
\* the row keeps kc_user_id.
IssueTokenFails(h) ==
    /\ pc[h] = "issue"
    /\ MintLocally(h)
    /\ UNCHANGED <<tokenVars, kcVars>>

\* repo.create, at the end of a login and of a refresh
InsertRow(h) ==
    /\ pc[h] = "insert"
    /\ rows' = Append(rows, [kc |-> task[h].kc, session |-> task[h].session, revoked |-> FALSE])
    /\ Done(h)
    /\ UNCHANGED <<tokenVars, account, kcSessions>>

-----------------------------------------------------------------------------
(* refresh_session, past its checks of the token *)

StartRefresh(h, i) ==
    /\ Room
    /\ i \in 1 .. Len(rows) /\ ~ rows[i].revoked
    /\ Start(h, "revoke", [New("refresh", {}) EXCEPT !.old = i, !.kc = rows[i].kc,
                                                    !.late = ~ Alive(rows[i].session)])
    /\ UNCHANGED <<tokenVars, kcVars>>

\* The old row is revoked; without kc_user_id the new tokens are a customer's.
RevokeOld(h) ==
    /\ pc[h] = "revoke"
    /\ rows' = [rows EXCEPT ![task[h].old].revoked = TRUE]
    /\ IF task[h].kc THEN Goto(h, "rotate") /\ UNCHANGED task ELSE MintLocally(h)
    /\ UNCHANGED <<tokenVars, account, kcSessions>>

\* Keycloak rotates the tokens of a session that is alive, and knows no token
\* that was signed locally.
RotateToken(h) ==
    LET session == rows[task[h].old].session
    IN /\ pc[h] = "rotate"
       /\ Alive(session) /\ account.enabled
       /\ Mint(h, session, account.roles)
       /\ UNCHANGED <<tokenVars, kcVars>>

\* Mutant: the fallback gives the roles last known of the account.
RotateTokenFailsWithRoles(h) ==
    /\ pc[h] = "rotate"
    /\ Mint(h, 0, account.roles)
    /\ UNCHANGED <<tokenVars, kcVars>>

\* Any failure is caught, and the new tokens are signed locally.
RotateTokenFails(h) ==
    /\ pc[h] = "rotate"
    /\ MintLocally(h)
    /\ UNCHANGED <<tokenVars, kcVars>>

-----------------------------------------------------------------------------
(* POST /logout *)

\* The row is revoked, also if it was already; then Keycloak is told.
StartLogout(h, i) ==
    /\ i \in 1 .. Len(rows)
    /\ rows' = [rows EXCEPT ![i].revoked = TRUE]
    /\ IF rows[i].kc
         THEN Start(h, "logout", [kind |-> "logout"]) /\ AwaitLock(h)
         ELSE pc[h] = "idle" /\ UNCHANGED <<tokenVars, pc, task>>
    /\ UNCHANGED <<account, kcSessions>>

\* logout_all_sessions ends every session of the user, those of other logins
\* too.
LogoutAll(h) ==
    /\ Arrives(h, "logout")
    /\ kcSessions' = [s \in 1 .. Len(kcSessions) |-> FALSE]
    /\ Done(h) /\ Forget(h)
    /\ UNCHANGED <<account, rows>>

\* DELETE /sessions/{session_id} tells Keycloak nothing.
RevokeSession(h, i) ==
    /\ pc[h] = "idle"
    /\ i \in 1 .. Len(rows)
    /\ rows' = [rows EXCEPT ![i].revoked = TRUE]
    /\ UNCHANGED <<tokenVars, account, kcSessions, pc, task>>

-----------------------------------------------------------------------------
(* /keycloak/...: an administrator's calls *)

StartAdmin(h) ==
    /\ Start(h, "admin", [kind |-> "admin"])
    /\ AwaitLock(h)
    /\ UNCHANGED kcVars

\* An account that is not there is a 404.  No administrator's decision before
\* an enable bars the handlers that are in flight.
SetEnabled(h, enabled) ==
    /\ account.exists
    /\ account' = [account EXCEPT !.enabled = enabled]
    /\ task' = [g \in Handler |->
                  IF g = h THEN Nothing
                  ELSE IF enabled /\ task[g].kind \in {"login", "refresh"}
                    THEN [task[g] EXCEPT !.barred = FALSE]
                    ELSE task[g]]
    /\ UNCHANGED kcSessions

DeleteSession(h, s) ==
    /\ s <= Len(kcSessions) /\ kcSessions[s]
    /\ kcSessions' = [kcSessions EXCEPT ![s] = FALSE]
    /\ task' = [task EXCEPT ![h] = Nothing]
    /\ UNCHANGED account

\* Which call it is matters when it arrives.  Those left out read, or clear a
\* lock-out that nothing here depends on.
AdminCall(h) ==
    /\ Arrives(h, "admin")
    /\ \/ \E enabled \in BOOLEAN : SetEnabled(h, enabled)
       \/ \E s \in Sid : DeleteSession(h, s)
       \/ task' = [task EXCEPT ![h] = Nothing] /\ UNCHANGED <<account, kcSessions>>
    /\ Goto(h, "idle") /\ Forget(h)
    /\ UNCHANGED rows

\* The call of a logout or of an administrator fails: the logout has succeeded
\* nevertheless.
CallFails(h) ==
    /\ pc[h] \in {"logout", "admin"}
    /\ \/ token[h].stage = "held" /\ Forget(h)
       \/ TokenFails(h)
    /\ Done(h)
    /\ UNCHANGED kcVars

-----------------------------------------------------------------------------
\* The process stops and starts again.
Restart ==
    /\ waiting' = <<>> /\ cache' = [left |-> 0, life |-> 0]
    /\ token' = [h \in Handler |-> NoToken]
    /\ UNCHANGED kcVars
    /\ pc' = [h \in Handler |-> "idle"]
    /\ task' = [h \in Handler |-> Nothing]

\* A handler's next step, once it has begun.
Step(h) ==
    \/ GetAdminToken(h) /\ UNCHANGED <<kcVars, pc, task>>
    \/ SyncFails(h) \/ LookupUser(h) \/ CreateUser(h) \/ PatchUser(h)
    \/ ReadExisting(h) \/ AssignRoles(h)
    \/ IssueToken(h) \/ IssueTokenFails(h)
    \/ RevokeOld(h) \/ RotateToken(h) \/ RotateTokenFails(h)
    \/ InsertRow(h)
    \/ LogoutAll(h) \/ AdminCall(h) \/ CallFails(h)

Begin(h) ==
    \/ \E fetched \in Told : StartLogin(h, fetched)
    \/ \E i \in Sid : StartRefresh(h, i) \/ StartLogout(h, i) \/ RevokeSession(h, i)
    \/ StartAdmin(h)

Next ==
    \/ \E h \in Handler : Begin(h) \/ Step(h)
    \/ Tick /\ UNCHANGED <<kcVars, pc, task>>
    \/ Restart

Spec == Init /\ [][Next]_vars

\* httpx ends every phase of a call within its timeout and so the call, and the
\* event loop runs every handler that can go on.
FairSpec == Spec /\ \A h \in Handler : WF_vars(Step(h))

-----------------------------------------------------------------------------
(* What holds however the handlers interleave *)

\* The tokens that handler h is about to store and return.
Minted(h) == pc[h] = "insert"

\* The tokens that Keycloak issues at a login carry every role that user-service
\* told of, as far as the realm knows it, although calls fail, several logins
\* synchronise the account at once and the token expires between the calls: a
\* synchronisation that stopped half way is followed by local tokens.
RolesReachToken ==
    \A h \in Handler :
        Minted(h) /\ task[h].session # 0 =>
            task[h].fetched \intersect RealmRole \subseteq task[h].roles

\* A refresh that begins when the Keycloak session of its row has ended (another
\* login's logout, an administrator, or a login that fell back) gives the tokens
\* of a mere customer: no fallback brings roles back.
LateRefreshIsCustomer ==
    \A h \in Handler : Minted(h) /\ task[h].late => task[h].roles = {"customer"}

\* Keycloak issues and rotates no tokens for an account that was disabled when
\* the login or refresh began, until an administrator enables it: the logins
\* that keep the account's attributes in step do not enable it.
DisabledStaysDisabled ==
    \A h \in Handler : Minted(h) /\ task[h].barred => task[h].session = 0

\* Every handler ends: no failing or slow call leaves the lock taken.
HandlersEnd == \A h \in Handler : pc[h] # "idle" ~> pc[h] = "idle"

=============================================================================
