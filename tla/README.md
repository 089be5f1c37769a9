# A verification project for Pet Emporio's auth-service and user-service

The repository holds two FastAPI services that log people in and keep their accounts.
This directory models them in TLA+, model-checks small instances with TLC and proves the
central properties with TLAPS for every value of the constants.

## 1. Inventory

Paths below are relative to `src/services/auth-service/app` (A) and
`src/services/user-service/app` (U).

| Component | State it keeps | Operations | What is hard | What makes it correct | Modelled |
|---|---|---|---|---|---|
| One-time codes, `A/services/otp_service.py` | two Redis keys per mobile: a send counter and the stored code, each with a TTL | send, verify (also from `/internal/.../otp/validate`) | every Redis command is a separate await; checks, increments and writes of overlapping handlers interleave; keys expire; a wrong answer re-arms the TTL | a code is not accepted late or twice, wrong answers are bounded, sends are bounded per window | `Otp` |
| Sessions, `A/services/session_service.py`, `A/repositories/auth.py` | the `sessions` table | create, refresh (rotation), logout, delete, list | a refresh is two commits with a Keycloak call between them; the `rowcount` of the revocation is not looked at | a login has one good token at a time, a closed login stays closed, nobody is logged out without a reason | `Sessions`, which implements `LoginLife` |
| Keycloak bridge, `A/services/keycloak_service.py` | the admin-token cache and its lock; Keycloak's users, roles and sessions | synchronise a user, issue, rotate, log out everywhere | the token expires between calls; every call may fail, or act and lose its answer; roles are only ever added; a logout ends the sessions of other devices | tokens carry the roles, a fallback brings none back, a disabled account stays disabled, no failing call leaves the lock taken | `AdminToken`, `Keycloak` |
| Admin user management, `A/routers/admin.py` | none of its own | enable, disable, end a session, list | runs beside the logins that write the same account | as above | `Keycloak` |
| Login, `A/routers/auth.py` | none of its own | `/otp/verify` after the code is accepted | three calls to user-service, each with a timeout and a fallback value; a call that timed out goes on in user-service | inactive accounts are kept out, tokens carry the user's roles, a login ends | `Login` on top of `Directory` |
| Social login, `A/routers/auth.py`, `U/domains/users/service.py` | `social_accounts`, the e-mails of `users` | find or create the user, link it, take its device | the user is looked up by an e-mail that profiles change meanwhile; an account without an e-mail gets a new user each time | an account never lands on a user that never had its e-mail | `Social` |
| Devices, MFA, `A/services/device_service.py`, `A/repositories/auth.py` | `device_registrations`, `mfa_configs` | register at a login, revoke; set up, verify | check-then-insert without a constraint; the owner is checked on one read and the row deleted by another; a secret is replaced under a verify | one row per device, an enabled secret is one its user has proven | `Devices` |
| User directory, `U/domains/users`, `U/routers/internal.py`, `U/domains/rbac/router.py` | `users`, `user_roles` | get-or-create by mobile or social account, walk-in customers, profile, an admin's update, an admin's grant of a role, sub-admins | lookups and insertions are separate transactions; `UserRepository.create` commits in the middle of its callers; a role is assigned by a type read before | a provider role is one that an approval or an admin vouched for, nobody is left without one | `Directory` (mobile), `Social` (e-mail) |
| Provider onboarding, `U/domains/users/service.py` | `onboarding_requests`, and the two tables above | submit, approve, reject | status read and written in different transactions; an approval commits its user first | a decision stands, an approved provider has the role, one approval per mobile | `Directory` |
| RBAC, `U/domains/rbac`, `U/main.py` | `roles`, `user_roles`, `role_permissions` | seed at start, make and deactivate a role, assign, sub-admins, deactivate and activate a grant | every process seeds, in one transaction; a sub-admin is made in two; a commit writes only the columns that differ from those read, and the time of a deactivation always | system roles are there once seeded, a sub-admin has its role, a grant says what was last decided | `Rbac` (without `role_permissions`) |
| Tenants, `U/domains/tenants` | `tenants`, their entries in `audit_logs` | register, approve, reject | slug and owner chosen by check-then-insert; only the slug is unique in the table; a rejection looks at no status | one tenant per owner, numbered slugs only where the plain one is taken, an audit log that is the tenant's history | `Tenants` |
| KYC, addresses, `U/domains/users` | `kyc_documents` and their audit entries, `user_addresses` | submit, review; add, change, delete, make default | reviews without a status guard; a default is made in two statements | the last entry tells the status, one default address | `Profile` |
| Commissions, `U/domains/commissions` | `commission_configs` | create, change, resolve for a tenant | up to three queries while rows change and midnight passes; dates at their boundaries | the answer is the most specific configuration in force | `Commissions` |
| Access tokens, audit log | | sign and check; append and list | stateless, or rows that no decision reads | | entries of reviews only |
| Events, `packages/pe-common`, `U/consumers` | a RabbitMQ exchange | publish, consume `user.login` | nothing calls `EventPublisher.connect`, so every publish fails and is logged; the consumer's handler is a get-or-create without a role | | not modelled |
| `ServiceClient`, gateway, infrastructure, migrations | | | no service uses the client; the rest is configuration and schema | | not modelled |

auth-service calls user-service over HTTP (`Login` on top of `Directory`, `Social` with the
handlers of both services) and Keycloak (`Keycloak`). A login begins with an accepted code
(`Valid` of `Otp`), takes a device (`Devices`) and ends with `create_session`
(`CreateSession` of `Sessions`, `InsertRow` of `Keycloak`). Requests of user-service meet in
its tables alone.

## 2. The modules

An asyncio handler runs without interruption from one `await` to the next, and each request
has a database session of its own at READ COMMITTED. So in every module **one action stands
for the code around one Redis command, one database statement that is decided on or one
transaction, or one HTTP call**, and handlers interleave between actions. What a handler
keeps in local variables across an await is a variable of the model; that is where stale
reads live. A handler may die at any such point (`Abandon`, `Fail`, `GiveUp`, `Restart`),
which stands for a stopped process as well as for an exception that becomes a 500.

History variables and fields (named at their declarations) are read by no guard; they let a
property say "unless two refreshes worked on it at the same time".

| Module | Models | How state and actions correspond |
|---|---|---|
| `Otp` | the two keys of one mobile; keys of different mobiles never meet | `rate` and `code` are Redis values with the instant `exp` at which they disappear; `CheckRateLimit`, `CountSend`, `StoreCode` are the GET, the pipeline and the SETEX of a send; `ReadCode`, `DecideCode` the GET of a verify and the one command that ends it. The clock read between two commands is any instant between them. Codes are numbered, so an old payload written back is told from a new one, although the code itself is the literal `"123456"` at present (line 110) |
| `LoginLife` | what sessions promise, an abstract specification | a login is open with one good token, renewing between two, shared once two refreshes overlap, or over for good; a spent token is never good again |
| `Sessions` | the `sessions` table and refresh, logout, delete, expiry; INSTANCE of `LoginLife` | `rows[n]` is the n-th row inserted; `login` and `parent` are its ancestry, which the table does not keep. `RefreshCheck`, `RevokeOld`, `MintTokens`, `InsertNew` are a refresh's read, first commit, Keycloak call and second commit. What Keycloak stores is abstracted to whether its call succeeds, and both outcomes give the refresh a pair to store |
| `Handlers` | the requests in flight | `pc[h]` is what handler `h` does next and `task[h]` its local variables; EXTENDed by the modules below except `Directory`, `Login` and `Rbac` |
| `AdminToken` | `_get_admin_token` | `waiting` is the queue of the asyncio lock, whose head holds it; `cache` is the cached token; `token[h]` says how far a handler is with its own. Time is kept in counters that `Tick` runs down, and it may run at any point: httpx limits each phase of a call (connect, write, read) to ten seconds and the whole to nothing, so a request or an answer is under way for any time. `token[h].left` is how much longer the cache vouches for a token that came out of it (`MARGIN`, at the moment it is given) |
| `Keycloak` | one user's logins, refreshes, logouts and an administrator's calls with Keycloak on; EXTENDS `AdminToken` | `account` and `kcSessions` are Keycloak's, `rows` the sessions table. One step is one call or one commit; a call fails without effect, or takes effect and loses its answer (`Unheard` and the other `...Fails`), or comes with an expired admin token. `Restart` ends all handlers and empties the cache |
| `Devices` | device registrations and MFA | `LookDevice`, `InsertDevice`; `CheckDeviceOwner`, `DeleteDevice`; `StartSetup`, `SaveSecret`; `CheckTotp`, `EnableMfa` are the read and the commit of each request. Secrets are numbered |
| `Social` | social logins and e-mails; EXTENDS `Devices` | `FindUser`, `MakeUser` are user-service's lookup and insertion, `ReadLink`, `SaveLink` auth-service's upsert, and the login goes on with `LookDevice`; `CheckEmail`, `UpdateUser` a profile's or a registration's change of e-mail |
| `Directory` | `users`, `user_roles`, `onboarding_requests` by mobile | `Lookup`, `CreateUser`, `ReadRoles`, `AssignRole` are get-or-create; `LookupWalkIn`, `CreateWalkIn`; `CheckForm`, `InsertRequest`; `StartReview`, then `CreateProvider` and `FinishApprove`, or `FinishReject`; `AdminUpdateUser`; `AdminAssignRole`, an administrator's grant of a role to a user who is there, by `assign_role` or `update_sub_admin`; `LookupSubAdmin`, `CreateSubAdmin`, `GrantSubAdmin` are `create_sub_admin`, which commits its user before the role. `GrantedRole` are the roles that administrators give, provider roles included. The system roles are taken to be in the table, as `main.py` seeds them at start; unique-constraint failures are modelled where they bite |
| `Login` | `/otp/verify` from line 231 on; EXTENDS `Directory` | the call that a login makes is a handler of `Directory` with the login's name, so a timed-out call really goes on; `answer` is its response |
| `Rbac` | `roles`, `users`, `user_roles` | `SeedStart`, `SeedLook`, `SeedCommit` are one process's `seed_roles`: a lookup per name and one commit, where a name committed by another since makes the whole seeding fail; the process starts all the same. `CreateRoleCheck`, `CreateRole`; `AssignLook`, `AssignRole` with the primary and foreign keys of `user_roles`; `LookupSubAdmin`, `CreateSubAdmin`, `SubAdminRole`. `StartDecision` reads a grant, `Deactivate` and `Reactivate` write back the columns whose value differs from the one read (`Written`), as SQLAlchemy's unit of work does; the time of a deactivation is a new one and always written, so that overlapping decisions can leave a grant active and stamped as deactivated. `deactivated_reason` is text and left out. `DeactivateRole` refuses system roles and changes nothing of the others, because `is_system` is the only column it writes |
| `Tenants` | `tenants`, the audit entries of reviews | `CheckOwner`, one `TrySlug` per round of the loop, `InsertTenant` against the unique slug; `StartReview`, then `Approve` or `Reject`, which commit status and audit entry together. A slug is a sequence of words, so that a plain slug can equal a numbered one |
| `Profile` | addresses, KYC documents and the audit entries of their reviews | an UPDATE that clears the defaults finds its rows (`ClearDefault`), and the commit writes them and the row of the request (`WriteDefault`); a row deleted in between makes the commit fail as a whole. `ReadDocument`, then `ApproveKyc` or `RejectKyc`, which write the columns that differ from those read |
| `Commissions` | `commission_configs` and `resolve_for_tenant` | `StartResolve` reads the day; `QueryTenant`, `QueryTenantType`, `QueryPlatform` are its queries, each over the table as it is by then; `CreateConfig`, `ReadConfig`, `UpdateConfig`; `Midnight` |
| `Records` | `Tenants`, `Profile` and `Commissions` together | requests of all three share the handlers |
| `MCOtp`, `MCSessions`, `MCKeycloak`, `MCSocial`, `MCDirectory`, `MCLogin`, `MCRbac`, `MCRecords` | | values of constants, symmetry sets, and the statements of documentation that the violation runs compare with the code |
| `OtpProofs`, `SessionsProofs`, `KeycloakProofs`, `DirectoryProofs`, `LoginProofs`, `RbacProofs`, `RecordsProofs`, `SocialProofs` | | the theorems |

Definitions named "Mutant" in a comment are deliberately wrong variants of the definition
that follows them; a property of a passing run is only kept if replacing the definition by
the mutant makes TLC find it violated. They are part of no specification.

## 3. The runs

`tlc -config <cfg> <module>`; a run takes from a second to about two minutes.

| Run | Question | Bounds and why they are enough |
|---|---|---|
| `MCOtp.cfg` | four properties of codes and sends: deadlines, single use, lock-out, the budget of a window | two sends and two verifies at once, so each can be overtaken by its like and by the other kind; three codes (an old, a current and a later one); lifetime 1, window 2, limit 1, clock up to 2: a key can be live, at its deadline and past it, and the count can expire and start again; two attempts, so that a code can be answered wrongly and accepted later, and an answer more than the lock-out allows |
| `MCSessions.cfg` | three properties of rotation, and that the table implements `LoginLife` | two handlers (contention needs two), three rows (a login and two rotations, or two logins), Keycloak on; off is the special case in which no row has `kc` |
| `MCKeycloak.cfg` | the margin of the cached token, the roles in tokens, late refreshes, disabled accounts, and that handlers end | two handlers (one holds the lock and one waits, or two synchronise); two rows and two Keycloak sessions, an old and a new one; lifetime 3, margin 2: a token can be fresh, in its margin, expired under way, and so late that it is not cached any more; a longer lifetime adds only time; a role that the realm knows, one that it does not, and `customer`. No symmetry, as the run checks liveness |
| `MCSocial.cfg` | e-mails and accounts, device rows, enabled secrets | two handlers; two accounts, one of each kind or two of one kind; one e-mail, which they share or not, and none; one device, two users; three secrets, an enabled one, its replacement and a third under an older verify. The constraint `OneAtATime` lets a behaviour fill the tables of one of e-mails, devices and MFA: they share no column but ids |
| `MCDirectory.cfg` | five properties of users, roles, requests | one mobile, since rows of different mobiles never meet; three handlers (two reviews and a login, a sub-admin beside an approval and a login, or two forms and a review); two requests; one portal, whose role is also the one that administrators give, as giving it unasked is what `ProviderRoleVouched` is about |
| `MCLogin.cfg` | two safety properties and that a login ends | one login and one other handler, which may be another login's call, a walk-in, a form, a review or a sub-admin; two portals, two requests; administrators give a provider's role and another |
| `MCRbac.cfg` | three properties of roles, grants and sub-admins | two handlers, so that two seedings, a seeding and a role of the same name, or two decisions meet; two system roles, so that a seeding can find one there and one not; a third role that only administrators make; one user, since grants of different users never meet. Nothing bounds the run: the tables are finite |
| `MCRecords.cfg` | three properties of tenants, one each of addresses, KYC documents and commissions | two handlers; two owners, so that one's registration passes another's tenant; three tenants, so that a number above 1 is given; three reviews, a decision, its reversal and the next; two slugs of which the plain form of one is a numbered form of the other; three addresses, two documents; two configurations over two days, which reach every boundary of a validity. `kind` gives a behaviour one kind of record, as their tables share no column that is decided on, and the constraint `OneAsks` lets one question be answered at a time, as questions only read |
| `MCSessions_pair.cfg` | *violated*: "exchange a valid refresh token for a new access + refresh token pair" (`A/routers/auth.py:307`) | the router answers with the `session_id` of the row that the refresh has just revoked (line 323), so the pair returned is refused by the next refresh |
| `MCDirectory_approval.cfg` | *violated*: the account "is created only after approval" (`U/domains/users/router.py:313`) | an approval commits the user first; if it dies, or a rejection that read the request as pending commits after it, a rejected applicant keeps an active provider account |
| `MCLogin_race.cfg` | *violated*: the fallback to the mobile "only happens in early local development" (`A/routers/auth.py:38`) | the login that loses the race of two insertions gets a 500 and goes on with the mobile as its user id |
| `MCLogin_portal.cfg` | *violated*: "Valid OTP on a provider portal when no account exists → ACCOUNT_NOT_FOUND" (`tests/test_auth.py:423`) | `_PROVIDER_TYPES` holds user types; the portals `lab` and `pharmacy` (`A/schemas/auth.py:24`) are not among them |

Every passing run but `login` also checks the type invariant of its module.

`CHECK_DEADLOCK FALSE` is there because the bounds stop a model: `MaxTime`, `MaxSends`,
`MaxAnswers` (`Otp`), `MaxSessions` (`Sessions`, `Keycloak`), `MaxUsers`, `MaxSecrets`
(`Social`, `Devices`), `MaxRequests` (`Directory`), `MaxTenants`, `MaxReviews` (`Tenants`),
`MaxAddresses`, `MaxDocuments`, `MaxVerdicts` (`Profile`), `MaxConfigs`, `LastDay`
(`Commissions`). They appear in the guards of the actions that would exceed them and nowhere
else but in types. The services themselves wait for requests. The one lock they hold over an
await is the admin token's; that everybody gets past it is `HandlersEnd`.

**Fairness** is assumed in two places, each time of the steps of a request alone, never of
its beginning.

* `Login`: weak fairness of each login's own steps. The event loop runs every task that is
  ready, and httpx lets no phase of a call wait longer than five seconds, after which the
  call fails and the login goes on; answers are short, so that a call has few phases. How long
  it takes in all does not matter. So a login can always take its next step whether or not user-service ever answers; of user-service nothing is assumed. The run
  shows that a login ends (`LoginEnds`); the mutant without the timeout shows that it is the
  timeout that makes it so.
* `Keycloak` (`FairSpec`): weak fairness of each handler's `Step`, as httpx ends every phase
  of a call to Keycloak within ten seconds, and so the call, and the asyncio lock is given out in the order of the
  requests. The run shows that a handler ends (`HandlersEnd`); the mutant in which a failing
  call keeps the lock shows that the `async with` matters.

### What the properties say about races

Several of the code's races are real, and the properties say exactly how much survives them.

* `WindowBudget`: the check of the rate limit and the increment are separate commands, so
  the limit can be exceeded, but by less than the number of sends in flight at once.
* `AcceptedOnce` and `LockedOut` hold of every code that no two verifies held at the same
  time, whatever overlapping *sends* and verifies of other codes do to the key. For a code
  that two verifies held together they fail: both may accept it, and attempts may be lost.
* `AcceptedInTime` holds without any such condition: the deadline inside the payload is
  what bounds a code's life, not the TTL.
* `KeepsPromise` and `ClosedStaysClosed`: a login of which two refreshes are in flight
  together may end with several live rows, and one that is refreshed while a logout runs may
  live on. `LoginLife` promises such a *shared* login only that its tokens come and go one at
  a time and that a spent one stays spent; all others one good token at a time and an end
  that is final.
* `RolesReachToken`, `LateRefreshIsCustomer`, `DisabledStaysDisabled` and
  `CachedTokenCovered` include every race, lost answer and restart.
* `CachedTokenCovered` is what the margin of the admin token gives: a token from the cache has
  15 seconds left for the request made with it, however long the lock was waited for and the
  token was under way, since `expires_at` is counted from before it was asked for. It says
  nothing of a request that takes longer to arrive (httpx bounds its phases, not the request)
  nor of a token that has just come from Keycloak; the model has both, and Keycloak refuses
  the request.
* `ProviderRoleVouched` includes every race. Two things vouch for a provider's role: an
  approval's user, and an administrator, who may set `user_type` or give the role itself
  without either (`assign_role`, `create_sub_admin`, `update_sub_admin`). What it leaves to
  logins, walk-ins and forms is no provider's role at all, although a get-or-create assigns
  the role of a type that it has read long before.
* `AccountsMeetByEmail` includes every race. `DeviceRowsSound` excludes devices that two
  logins registered together (no constraint keeps the second row out, and every later lookup
  of the device raises) and revocations of one device that overlapped (the second may delete
  the row of the next owner). `EnabledSecretProven` excludes users who set MFA up again while
  it was enabled or being verified: the setup leaves `is_enabled` alone.
* `GrantAsDecided` includes decisions that overlap. The one that commits first counts in full.
  One that commits after another since it read the grant is *overtaken*, and leaves the grant
  *blurred*: an activation that read it as active writes nothing over the deactivation
  committed since, and a deactivation that read it as deactivated writes only its time over
  the activation committed since, so that the grant is active and stamped. The next decision that nobody overtakes must mend it. `SystemRolesSeeded` and `SubAdminHasRole` include every race.
* `OneTenantPerOwner` excludes owners two of whose registrations were in flight together:
  no constraint of the table keeps their second tenant out, and from then on the lookup by
  owner raises. `AuditTellsStatus` and `KycTellsStatus` exclude tenants and documents that
  two reviews shared. `SlugsInOrder` includes every race, because the slug is unique.
* `OneDefaultAddress` excludes users of whom two requests for a default were in flight
  together. `CommissionResolved` speaks of configurations that nobody changed while the
  queries of a request ran; others may come, change and go.
* `DecisionStands` excludes requests that two reviews worked on at the same time. The other
  properties of `Directory`, and those of `Login`, include them.

Differences between documentation and code that are no question for a checker:
`OTP_EXPIRE_SECONDS` is 3000 where its comment and the send response say 5 minutes
(`A/config.py:16`), and the send limit is 30 where a test speaks of the third request
(`tests/test_auth.py:32`). What `DisabledStaysDisabled` and `LateRefreshIsCustomer` leave
open follows from the fallbacks and is modelled as such: when Keycloak refuses a disabled
account, or a session that was ended there, the service signs tokens itself, for a login
with all its roles, for a refresh with those of a customer.

## 4. The proofs

`tlapm <module>` proves every obligation; nothing is assumed but the named ASSUMEs of the
modules: `HandlersAssumption`, `SettingsAssumption`, `BoundsAssumption` (`Otp`: the handlers
are finitely many, the settings positive, the bounds natural numbers), `SessionsAssumption`,
`DirectoryAssumption` (portals are among the mapped ones, and administrators give roles that exist), `LoginAssumption` (a login's call
is a handler), `RbacAssumption` (the list of system roles names each role once),
`TenantsAssumption`, `ProfileAssumption`, `CommissionsAssumption` and `DevicesAssumption`
(the bounds are natural numbers, and there is a first day), `SocialAssumption` (an account of a
provider is none of user-service's ids, as the ones are the provider's and the others UUIDs
that user-service draws; no e-mail is the empty one), `KeycloakAssumption` (the realm knows `customer`) and
`AdminTokenAssumption` (the lifetime and the margin are natural numbers: of how long a call
takes nothing is assumed).

**`OtpProofs`** proves all properties of the `otp` run, and that Redis keeps a code as long
as its deadline (`KeyOutlivesCode`) and that a consumed code stays consumed
(`ConsumedStaysConsumed`). The conditions on `contested` codes are inductive only together
with where a code's payload may be: in the key, or held by one verify, never both past a
decision. The invariants say that the copy in the key of an uncontested code counts the wrong
answers given about it, that an accepted code is in no copy, and that every copy carries the
deadline its code was made with. `WindowBudget` rests on the counter's not expiring before
the sends it counts leave the window, and on the handlers that have passed the check being
fewer than the senders.

**`SessionsProofs`** proves all properties of the `sessions` run, and `OneLiveRow`. The
invariant `SoleInv` says that an uncontested login has at most one live row, at most one
refresh past its checks, and that the row this refresh is about to revoke is the only live
one; `MidInv` says that a refresh past its first commit has revoked its row. From these
follow that an insertion never adds a second live row and that a closed login, having no
refresh and no live row, never gets one. `SessionsKeepsPromise` is the refinement: under the
mapping (`LifeOf`, `LiveRows`, `Spent`) each step of `Sessions` is a step of `LoginLife` or
leaves its state alone.

**`KeycloakProofs`** proves the five safety properties of the `keycloak` run. `TokenInv` is
about the lock and the clock alone: the queue holds each waiting handler once, only its head
asks, and the cache gives a token up `MARGIN` before Keycloak does, also while its answer is
under way (`MarginCovers`): that is what `KeycloakCachedToken` rests on, for every lifetime and
margin and with no bound on a call. The rest is one invariant, `Safe(account, kcSessions, rows, task, pc)`, for each
handler: what its stage says of the account (the roles that a synchronisation has passed are
there) and of the session it works on. `Grows` says what any step leaves of the state the
others speak of: accounts stay, roles are only added, ended sessions stay ended and rows keep
their session. `SafeKept` shows that a handler that did not move stays safe when the state
grows, so that each action is looked at for the one handler that moves (`OneMoves`).

**`DirectoryProofs`** proves all properties of the `directory` run. `FinishHasUser` and
`OneFinish`: an approval past its first commit has its user, and alone of all approvals and
approved requests of that mobile (users are never deleted and the mobile is unique, which is
what makes a second approval fail). `TypesVouched`: every provider type on its way into the
tables, in a user's row or in a handler's local variables, has been vouched for. `UserTypeSource`,
`TaskTypeSource` and `RoleSource` name everything that writes a type or a role, and
`GrantEffect` that an administrator's grant vouches for what it adds. `OneReviewer`: a request that two reviews never shared has one reviewer at most and is
pending while it has one. The lemmas `RequestsKept`, `UsersKept`, `FinishMoves` and
`ReviewMoves` say what any step may do to the part of the state an invariant speaks of, so
that each of these invariants is proved from them without going through the actions again.

**`LoginProofs`** first proves that the composition refines its part: `LoginKeepsDirectory`,
`LoginSpec => Spec` of `Directory`, as every step of a login is a step of the handler with
its name, or none. All theorems of `DirectoryProofs` hold under logins by that alone. Then
`LoginInv` gives `InactiveKeptOut` and `RolesAreTheUsers`: the call a login waits for is about
its own mobile, and leaves a user with a role when it succeeds (`Calls`); an account that was
inactive when the login began still is, and the login is past its check only after an
outage (`Fine`).

**`RbacProofs`** proves all properties of the `rbac` run. `TypeInv` adds to the types
that a decision works on a grant that exists and an assignment on a role that exists, which
holds because neither is ever deleted (`TablesKept`). For `SystemRolesSeeded` the invariant
says that each name a seeding has passed is in the table or among those it will add, so its
commit completes the table or fails as a whole. `GrantInv` says that a decision in
flight that no other has overtaken has read the row as it still is (`Overtaking`: a commit
overtakes all others in flight on its grant): only then does writing the differing columns
leave the whole row as decided, whatever earlier decisions had left in it. `SubAdminInv` says that a
sub-admin without a role and without an excuse has a handler on its way to the grant.

**`RecordsProofs`** proves all properties of the `records` run. First those of tenants, of
the specification of `Tenants` by itself. `SlugTried` says that a registration has found every
slug before its number taken; slugs are never given back (`TakenKept`), so `SlugsInOrder` is
kept however long a registration waits. That the number stays within the type's bound takes
counting: as many distinct slugs are taken as there are rounds, and the table holds
`MaxTenants` rows (`TakenInARow`). `OwnerInv` says that a registration past its check, of an
owner that no other registration meets, finds no tenant of that owner; `ReviewInv` that a
review of a tenant that is not shared has read its status as it still is.

Then the same and the other properties of the composition, where one set of handlers serves
requests of all kinds. `Moving(S)` says of a step that no handler comes to a stage outside
`S`, `Quiet(S)` that none comes to a stage in `S` or changes its task there. `StepKinds` sorts
the steps: each is one of tenants, addresses, KYC or commissions, moves among the stages of
that kind alone and is quiet in the others, whose tables it leaves as they were. So each
invariant is proved against the steps of its own kind and against quiet ones, and
`RecordsTypes` collects them: no request meets what one of another kind left in its handler.
* `DefaultInv`: a user whose requests for a default never met has one default at most, one
  such request past its UPDATE at most, and that one has seen every default there is; hence
  the row it commits stands alone. A row deleted meanwhile makes the commit fail and clear
  nothing, which keeps the rows as they were.
* `JudgeInv`: the one review of a document that is not shared has read the status that the
  row still has, so that writing it only where it differs leaves the row as the entry says.
* `CommissionFits`: the rows in force for a request when it began, which nobody has changed,
  are not of a scope that it has asked for and found empty; `ActiveFinds` shows that the query
  of a row's own scope finds it (the two dates are inclusive). A change of a row takes it from
  the steady rows of each request in flight (`ConfigUpdated`); rows that are added, and
  midnight, do not matter, as a request keeps the day it read.

Last, `RecordsKeepsTenants` is the refinement: with a handler at work on another kind of record
seen as idle (`TenantPc`, `TenantTask`), every step of `Records` is one of `Tenants` or changes
nothing that `Tenants` has. What will be said of `Tenants` alone therefore holds in the
composition too.

**`SocialProofs`** proves all properties of the `social` run. `Fits` gives each stage the
values it works with, and `Handling` that every handler fits its stage. `DeviceInv`: of a
device that two users never registered together, all rows and all registrations in flight
are one user's, and the row that a lone revocation has checked is still there, so that its
deletion by device id takes nobody else's. `MfaInv`: a verify past its check, of a user who has
not set MFA up again, finds the proven secret in the row. `LinkInv` relates a link to where it
came from: a login that is about to write one, and each link that is written, goes to a user
who has had the e-mail presented, or to one whose only account without an e-mail it is (the
user such a login has just made). `had`, which remembers who had which e-mail, only grows
(`HadGrows`), so a change of e-mail after the lookup breaks nothing.

Only model-checked: liveness (`LoginEnds`, `HandlersEnd`), which is out of the prover's
reach, and the violation runs, each of which is a counterexample.

## 5. Not modelled

* `role_permissions` of RBAC: rows are inserted and deleted one at a time under their primary
  key, and the one query that reads them (`/internal/v1/users/{id}/permissions/check`) answers
  a question of other services.
* Access tokens: signing and checking are functions of a token and a key, without state.
* Columns that are stored and never decided on: names, avatars, texts, fingerprints, amounts
  of a commission (the answer of a resolution is the configuration itself).
* The audit log beyond the entries of reviews: nothing reads an entry back into a decision.
* Functions nothing calls: `revoke_all_user_sessions`, Keycloak's `revoke_token` and
  `get_user_roles`, and `pe-common`'s `ServiceClient`.
* Events: no service calls `EventPublisher.connect`, so that nothing is published; the
  consumer's handler is the get-or-create of `Directory` without its role.
* The gateway, infrastructure and migrations are configuration and schema.

What a further effort could add: `role_permissions` beside the grants of `Rbac`; and a
composition of `Sessions` with `Keycloak`, which now share the actions of a refresh but each
abstract the other's tables.
