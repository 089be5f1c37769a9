------------------------------- MODULE Login -------------------------------
(***************************************************************************)
(* The login of auth-service after a correct OTP (verify_otp in            *)
(* routers/auth.py), composed with the user directory it calls.            *)
(*                                                                         *)
(* A login makes three HTTP calls to user-service, each with a timeout of  *)
(* five seconds and a value to go on with when the call fails: the status  *)
(* of the account, get-or-create, and the roles.  A get-or-create call     *)
(* that times out goes on in user-service: it is a handler of Directory    *)
(* with the name of the login that made it.                                *)
(*                                                                         *)
(* The devices and the session rows a login writes are not its concern     *)
(* here; a login that fails there is one that gives up.                    *)
(***************************************************************************)
EXTENDS Directory

CONSTANTS
    Client,         \* logins that may be in flight together
    LoginPortal     \* the values of the portal field that clients send

ASSUME LoginAssumption == Client \subseteq Handler

VARIABLES
    stage,      \* stage[c]: what login c does next
    form,       \* form[c]: the mobile and the portal it was started with
    user_id,    \* user_id[c]: the user's id, or the mobile in its place
    granted,    \* granted[c]: the roles its access token will carry
    \* history, read by no guard:
    outage,     \* logins that a call to user-service has failed
    barred      \* logins whose account has been inactive since they started

loginVars == <<stage, form, user_id, granted, outage, barred>>
allVars == <<vars, loginVars>>

\* _PROVIDER_TYPES
PROVIDER_TYPES == {"doctor", "seller", "lab_technician", "groomer", "pharmacist"}

-----------------------------------------------------------------------------
(* Types *)

NoForm == [started |-> FALSE]
Form == [started: {TRUE}, mobile: Mobile, portal: LoginPortal]

\* A login that works on a form, and only such a login, has one.
LoginTypeOK ==
    /\ stage \in [Client -> {"idle", "status", "call", "wait", "roles", "done"}]
    /\ form \in [Client -> {NoForm} \union Form]
    /\ user_id \in [Client -> {"none", "user", "mobile"}]
    /\ granted \in [Client -> SUBSET UserType]
    /\ outage \subseteq Client /\ barred \subseteq Client
    /\ \A c \in Client :
         /\ form[c].started <=> stage[c] # "idle"
         /\ user_id[c] # "none" <=> stage[c] \in {"roles", "done"}
         /\ granted[c] # {} <=> stage[c] = "done"

LoginInit ==
    /\ Init
    /\ stage = [c \in Client |-> "idle"]
    /\ form = [c \in Client |-> NoForm]
    /\ user_id = [c \in Client |-> "none"]
    /\ granted = [c \in Client |-> {}]
    /\ outage = {} /\ barred = {}

-----------------------------------------------------------------------------
(* Helpers *)

Move(c, s) == stage' = [stage EXCEPT ![c] = s]

End(c) ==
    /\ Move(c, "idle")
    /\ form' = [form EXCEPT ![c] = NoForm]
    /\ user_id' = [user_id EXCEPT ![c] = "none"]
    /\ granted' = [granted EXCEPT ![c] = {}]
    /\ outage' = outage \ {c}
    /\ barred' = barred \ {c}

Inactive(m) == Exists(m) /\ ~ users[m].is_active

\* A call to user-service does not answer in time, or not with a 200.
Outage(c) == outage' = outage \union {c}

-----------------------------------------------------------------------------
(* POST /otp/verify, from line 231 on *)

StartLogin(c, m, p) ==
    /\ stage[c] = "idle" /\ pc[c] = "idle"
    /\ Move(c, "status")
    /\ form' = [form EXCEPT ![c] = [started |-> TRUE, mobile |-> m, portal |-> p]]
    /\ barred' = IF Inactive(m) THEN barred \union {c} ELSE barred
    /\ UNCHANGED <<vars, user_id, granted, outage>>

\* Mutant: only providers are turned away when inactive.
CheckProviderStatus(c) ==
    LET m == form[c].mobile
    IN /\ stage[c] = "status"
       /\ IF \/ ~ Exists(m) /\ form[c].portal \in PROVIDER_TYPES
             \/ Inactive(m) /\ users[m].user_type \in PROVIDER_TYPES
            THEN End(c)
            ELSE Move(c, "call") /\ UNCHANGED <<form, user_id, granted, outage, barred>>
       /\ UNCHANGED vars

\* No account ends a login on a portal of PROVIDER_TYPES with a 404, an
\* inactive account any login with a 403.
CheckAccountStatus(c) ==
    LET m == form[c].mobile
    IN /\ stage[c] = "status"
       /\ IF \/ ~ Exists(m) /\ form[c].portal \in PROVIDER_TYPES
             \/ Inactive(m)
            THEN End(c)
            ELSE Move(c, "call") /\ UNCHANGED <<form, user_id, granted, outage, barred>>
       /\ UNCHANGED vars

\* Without an answer the account is taken for an active customer's.
StatusUnknown(c) ==
    /\ stage[c] = "status"
    /\ Move(c, "call")
    /\ Outage(c)
    /\ UNCHANGED <<vars, form, user_id, granted, barred>>

CallGetOrCreate(c) ==
    /\ stage[c] = "call"
    /\ Lookup(c, form[c].mobile)
    /\ Move(c, "wait")
    /\ UNCHANGED <<form, user_id, granted, outage, barred>>

\* A 200 carries the user's id; anything else leaves the mobile.
GetOrCreateAnswers(c) ==
    /\ stage[c] = "wait" /\ answer[c] # "none"
    /\ user_id' = [user_id EXCEPT ![c] = IF answer[c] = "ok" THEN "user" ELSE "mobile"]
    /\ Move(c, "roles")
    /\ UNCHANGED <<vars, form, granted, outage, barred>>

\* Mutant: the call has no timeout.
GetOrCreateRefused(c) ==
    /\ stage[c] = "call"
    /\ user_id' = [user_id EXCEPT ![c] = "mobile"]
    /\ Move(c, "roles")
    /\ Outage(c)
    /\ UNCHANGED <<vars, form, granted, barred>>

\* The call cannot be made, or it dies, or it times out and goes on without its
\* caller.
GetOrCreateFails(c) ==
    /\ stage[c] \in {"call", "wait"}
    /\ user_id' = [user_id EXCEPT ![c] = "mobile"]
    /\ Move(c, "roles")
    /\ Outage(c)
    /\ UNCHANGED <<vars, form, granted, barred>>

\* The roles of the id, which must be a UUID: for a mobile the call is a 500.
\* A call that fails leaves the role of a customer, as does a user without any.
GetUserRoles(c) ==
    LET has == roles[form[c].mobile]
    IN /\ stage[c] = "roles"
       /\ \/ /\ granted' = [granted EXCEPT ![c] =
                              IF user_id[c] = "mobile" \/ has = {} THEN {"customer"} ELSE has]
             /\ UNCHANGED outage
          \/ /\ granted' = [granted EXCEPT ![c] = {"customer"}]
             /\ Outage(c)
       /\ Move(c, "done")
       /\ UNCHANGED <<vars, form, user_id, barred>>

\* The session is there and the token pair returned.
Return(c) == stage[c] = "done" /\ End(c) /\ UNCHANGED vars

\* A login dies, or the database fails it when it registers the device.
GiveUp(c) == stage[c] # "idle" /\ End(c) /\ UNCHANGED vars

-----------------------------------------------------------------------------
\* user-service: the calls that logins have made, and everybody else's, the
\* logins of other replicas of auth-service among them.
UserService ==
    /\ \/ \E c \in Client : GetOrCreate(c) \/ Fail(c)
       \/ \E m \in Mobile : AdminAssignRole(m)
       \/ \E h \in Handler \ Client :
            \/ \E m \in Mobile : Lookup(h, m)
            \/ GetOrCreate(h) \/ WalkIn(h) \/ Onboard(h) \/ SubAdmin(h) \/ Fail(h)
    /\ UNCHANGED loginVars

AdminUpdate ==
    \E m \in Mobile :
        /\ AdminUpdateUser(m)
        /\ barred' = {c \in barred : form[c].mobile = m => ~ users'[m].is_active}
        /\ UNCHANGED <<stage, form, user_id, granted, outage>>

LoginStep(c) ==
    \/ CheckAccountStatus(c) \/ StatusUnknown(c)
    \/ CallGetOrCreate(c) \/ GetOrCreateAnswers(c) \/ GetOrCreateFails(c)
    \/ GetUserRoles(c) \/ Return(c)

LoginNext ==
    \/ \E c \in Client :
         \/ \E m \in Mobile, p \in LoginPortal : StartLogin(c, m, p)
         \/ LoginStep(c) \/ GiveUp(c)
    \/ UserService
    \/ AdminUpdate

\* The event loop runs every login that is ready, and httpx lets no phase of a
\* call wait longer than five seconds; of user-service nothing is assumed.
Fairness == \A c \in Client : WF_allVars(LoginStep(c))

LoginSpec == LoginInit /\ [][LoginNext]_allVars /\ Fairness

-----------------------------------------------------------------------------
(* What holds however logins and the handlers of user-service interleave *)

\* An account that has been inactive ever since the login started gets no
\* token, unless a call to user-service failed.
InactiveKeptOut ==
    \A c \in barred : stage[c] = "done" => c \in outage

\* The token of a user whom user-service answered for carries roles the user
\* has: get-or-create leaves nobody without one, so the default of an empty
\* list is never taken.
RolesAreTheUsers ==
    \A c \in Client :
        stage[c] = "done" /\ user_id[c] = "user" /\ c \notin outage =>
            granted[c] \subseteq roles[form[c].mobile]

\* A login ends, whatever becomes of its calls.
LoginEnds == \A c \in Client : stage[c] # "idle" ~> stage[c] = "idle"

=============================================================================
