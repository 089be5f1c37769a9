------------------------------- MODULE Social -------------------------------
(***************************************************************************)
(* Social logins: auth-service has user-service find or make the user of   *)
(* an e-mail, links the provider's account to it, and registers the        *)
(* device (_social_login in routers/auth.py); the users of user-service,   *)
(* who may change their e-mail meanwhile (domains/users/service.py).       *)
(*                                                                         *)
(* Devices has the handlers and what follows the link.                     *)
(***************************************************************************)
EXTENDS Devices

CONSTANTS
    Account,    \* accounts of a provider: a provider and its user id
    Email,
    NoEmail,    \* the provider tells none, or the user has none
    MaxUsers    \* bound: users ever inserted

NoUser == 0     \* an account that is not linked

ASSUME SocialAssumption ==
    /\ MaxUsers \in Nat
    /\ 1 .. MaxUsers \subseteq User
    /\ Account \subseteq User /\ NoUser \notin User
    \* a provider's user id is none of user-service's
    /\ Account \intersect (1 .. MaxUsers) = {}
    /\ NoEmail \notin Email

VARIABLES
    users,      \* the users table, in the order of insertion
    links,      \* links[a]: the social_accounts row of account a
    \* history, read by no guard:
    presented,  \* presented[a]: the e-mail of the login that wrote the link
    had         \* had[e]: the users that have ever had the e-mail e

socialVars == <<users, links, presented, had>>
vars == <<deviceVars, mfaVars, pc, task, socialVars>>

-----------------------------------------------------------------------------
(* Types *)

MaybeEmail == Email \union {NoEmail}

\* registered: first_name is set
UserRow == [email: MaybeEmail, registered: BOOLEAN]

SocialTask ==
    [kind: {"social"}, account: Account, email: MaybeEmail, user: User,
     device: Device, found: {NoUser} \union User]
    \union [kind: {"profile", "register"}, user: 1 .. MaxUsers, email: Email]

SocialStages ==
    [social |-> {"find", "make", "link", "save", "device", "register"},
     profile |-> {"update"}, register |-> {"update"}]

SocialTypeOK ==
    /\ DevicesTypeOK
    /\ users \in Seq(UserRow) /\ Len(users) <= MaxUsers
    /\ \A i, j \in 1 .. Len(users) :
         users[i].email = users[j].email => i = j \/ users[i].email = NoEmail
    /\ links \in [Account -> {NoUser} \union User]
    /\ \A a \in Account : links[a] \in {NoUser, a} \union 1 .. Len(users)
    /\ \A h \in Handler :
         \/ task[h] \in DeviceTask /\ pc[h] \in DeviceStages[task[h].kind]
         \/ task[h] \in SocialTask /\ pc[h] \in SocialStages[task[h].kind]
    /\ presented \in [Account -> MaybeEmail]
    /\ had \in [Email -> SUBSET (1 .. MaxUsers)]

Init ==
    /\ DevicesInit
    /\ users = <<>>
    /\ links = [a \in Account |-> NoUser]
    /\ presented = [a \in Account |-> NoEmail]
    /\ had = [e \in Email |-> {}]

-----------------------------------------------------------------------------
(* Helpers *)

Owners(e) == {i \in 1 .. Len(users) : e # NoEmail /\ users[i].email = e}

Held(e, u) == had' = IF e = NoEmail THEN had ELSE [had EXCEPT ![e] = had[e] \union {u}]

\* create_social commits; the e-mail is unique.
AddUser(e) ==
    /\ Owners(e) = {}
    /\ Len(users) < MaxUsers
    /\ users' = Append(users, [email |-> e, registered |-> FALSE])
    /\ Held(e, Len(users) + 1)

-----------------------------------------------------------------------------
(* _social_login *)

\* user_id = provider_user_id, until user-service has answered.
StartSocial(h, a, e, d) ==
    /\ Start(h, "find", [kind |-> "social", account |-> a, email |-> e, user |-> a,
                         device |-> d, found |-> NoUser])
    /\ UNCHANGED <<deviceVars, mfaVars, socialVars>>

Answered(h, u) ==
    /\ Goto(h, "link")
    /\ task' = [task EXCEPT ![h].user = u]

\* Mutant: a login without an e-mail looks for a user without one.
FindAnyUser(h) ==
    LET e == task[h].email
        found == {i \in 1 .. Len(users) : users[i].email = e}
    IN /\ pc[h] = "find"
       /\ IF found = {} THEN Goto(h, "make") /\ UNCHANGED task
                        ELSE Answered(h, CHOOSE i \in found : TRUE)
       /\ UNCHANGED <<deviceVars, mfaVars, socialVars>>

\* get_or_create_by_social: the user of the e-mail, if the provider told one.
FindUser(h) ==
    LET e == task[h].email
    IN /\ pc[h] = "find"
       /\ \/ \E u \in Owners(e) : Answered(h, u)
          \/ Owners(e) = {} /\ Goto(h, "make") /\ UNCHANGED task
       /\ UNCHANGED <<deviceVars, mfaVars, socialVars>>

\* A new user; its answer may be lost, or the role that follows may fail.
MakeUser(h) ==
    /\ pc[h] = "make"
    /\ AddUser(task[h].email)
    /\ \/ Answered(h, Len(users) + 1)
       \/ Goto(h, "link") /\ UNCHANGED task
    /\ UNCHANGED <<deviceVars, mfaVars, links, presented>>

\* Any failure, of which a taken e-mail is one, is caught and the provider's
\* user id is used.  (A call that user-service goes on with when its login has
\* timed out is that of a handler that dies before its link.)
CallFails(h) ==
    /\ pc[h] \in {"find", "make"}
    /\ Goto(h, "link")
    /\ UNCHANGED <<deviceVars, mfaVars, task, socialVars>>

\* SocialAccountRepository.upsert reads the row, ...
ReadLink(h) ==
    /\ pc[h] = "link"
    /\ Goto(h, "save")
    /\ task' = [task EXCEPT ![h].found = links[task[h].account]]
    /\ UNCHANGED <<deviceVars, mfaVars, socialVars>>

\* ... and commits.  A user equal to the one read is not written; a new row may
\* meet another login's, and the login fails.
SaveLink(h) ==
    LET a == task[h].account
        t == task[h]
    IN /\ pc[h] = "save"
       /\ \/ /\ t.found # t.user /\ (t.found = NoUser => links[a] = NoUser)
             /\ links' = [links EXCEPT ![a] = t.user]
             /\ presented' = [presented EXCEPT ![a] = t.email]
             /\ Goto(h, "device") /\ UNCHANGED task
          \/ /\ t.found = t.user
             /\ Goto(h, "device") /\ UNCHANGED <<task, links, presented>>
          \/ /\ t.found = NoUser /\ links[a] # NoUser
             /\ Done(h) /\ UNCHANGED <<links, presented>>
       /\ UNCHANGED <<deviceVars, mfaVars, users, had>>

-----------------------------------------------------------------------------
(* PATCH /users/me and POST /users/me/complete-registration *)

\* An e-mail of another user is a 409; so is a second registration.
CheckEmail(h, kind, u, e) ==
    /\ u \in 1 .. Len(users)
    /\ Owners(e) \subseteq {u}
    /\ kind = "register" => ~ users[u].registered
    /\ Start(h, "update", [kind |-> kind, user |-> u, email |-> e])
    /\ UNCHANGED <<deviceVars, mfaVars, socialVars>>

\* Mutant: the column of the e-mail is not unique.
UpdateUserAnyway(h) ==
    LET t == task[h]
    IN /\ pc[h] = "update"
       /\ users' = [users EXCEPT ![t.user] =
                      [email |-> t.email, registered |-> users[t.user].registered \/ t.kind = "register"]]
       /\ Held(t.email, t.user)
       /\ Done(h)
       /\ UNCHANGED <<deviceVars, mfaVars, links, presented>>

\* The commit fails if the e-mail has been taken since.
UpdateUser(h) ==
    LET t == task[h]
    IN /\ pc[h] = "update"
       /\ \/ /\ Owners(t.email) \subseteq {t.user}
             /\ users' = [users EXCEPT ![t.user] =
                            [email |-> t.email,
                             registered |-> users[t.user].registered \/ t.kind = "register"]]
             /\ Held(t.email, t.user)
          \/ ~ Owners(t.email) \subseteq {t.user} /\ UNCHANGED <<users, had>>
       /\ Done(h)
       /\ UNCHANGED <<deviceVars, mfaVars, links, presented>>

-----------------------------------------------------------------------------

SocialStep(h) ==
    \/ \E a \in Account, e \in MaybeEmail, d \in Device : StartSocial(h, a, e, d)
    \/ FindUser(h) \/ MakeUser(h) \/ CallFails(h)
    \/ ReadLink(h) \/ SaveLink(h)
    \/ \E kind \in {"profile", "register"}, u \in 1 .. MaxUsers, e \in Email :
         CheckEmail(h, kind, u, e)
    \/ UpdateUser(h)

Next == \E h \in Handler : SocialStep(h) \/ (DeviceStep(h) /\ UNCHANGED socialVars)

Spec == Init /\ [][Next]_vars

-----------------------------------------------------------------------------
(* What holds however the handlers interleave *)

\* Social accounts share a user only through an e-mail: an account that is
\* linked to a user of user-service presented an e-mail that this user has had,
\* or presented none and is the only such account of that user.
AccountsMeetByEmail ==
    \A a \in Account :
        links[a] \in 1 .. MaxUsers =>
            IF presented[a] # NoEmail
              THEN links[a] \in had[presented[a]]
              ELSE \A b \in Account \ {a} : links[b] = links[a] => presented[b] # NoEmail

=============================================================================
