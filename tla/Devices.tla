------------------------------ MODULE Devices ------------------------------
(***************************************************************************)
(* What auth-service keeps of a user besides sessions: the registrations   *)
(* of devices (services/device_service.py) and the TOTP secret of MFA      *)
(* (the /mfa endpoints), with their repositories in repositories/auth.py.  *)
(*                                                                         *)
(* A step is what one query reads or one commit writes; handlers           *)
(* interleave between them, and one may die at any of them.                *)
(***************************************************************************)
EXTENDS Handlers, Naturals, Sequences, FiniteSets

CONSTANTS
    User,       \* the user ids that tokens carry
    Device,     \* device ids that clients send or are given
    MaxSecrets  \* bound: TOTP secrets ever made

ASSUME DevicesAssumption == MaxSecrets \in Nat

VARIABLES
    devices,    \* the device_registrations table
    mfa,        \* mfa[u]: the mfa_configs row of user u
    secrets,    \* the TOTP secrets made so far, numbered
    \* history, read by no guard:
    raced,      \* devices that two users were registering together
    overlapped, \* devices of which two revocations were in flight together
    robbed,     \* devices whose registration another user's request removed
    proven,     \* secrets that a code has been verified against
    replaced    \* users who set MFA up again when it was or was being enabled

deviceVars == <<devices, raced, overlapped, robbed>>
mfaVars == <<mfa, secrets, proven, replaced>>

-----------------------------------------------------------------------------
(* Types *)

Registration == [device: Device, user: User]

\* secret 0: there is no row
MfaConfig == [secret: 0 .. MaxSecrets, enabled: BOOLEAN]
NoConfig == [secret |-> 0, enabled |-> FALSE]

DeviceTask ==
    {Nothing}
    \union [kind: {"revoke"}, user: User, device: Device]
    \union [kind: {"mfa"}, user: User, secret: 1 .. MaxSecrets, found: BOOLEAN]

DeviceStages ==
    [nothing |-> {"idle"}, revoke |-> {"delete"}, mfa |-> {"secret", "enable"}]

DevicesTypeOK ==
    /\ devices \subseteq Registration
    /\ mfa \in [User -> MfaConfig]
    /\ secrets \in 0 .. MaxSecrets
    /\ \A u \in User : mfa[u].secret <= secrets /\ (mfa[u].enabled => mfa[u].secret # 0)
    /\ raced \subseteq Device /\ overlapped \subseteq Device /\ robbed \subseteq Device
    /\ proven \subseteq 1 .. secrets /\ replaced \subseteq User

DevicesInit ==
    /\ devices = {}
    /\ mfa = [u \in User |-> NoConfig]
    /\ secrets = 0
    /\ HandlersInit
    /\ raced = {} /\ overlapped = {} /\ robbed = {}
    /\ proven = {} /\ replaced = {}

-----------------------------------------------------------------------------
(* Helpers *)

Of(d) == {r \in devices : r.device = d}

\* DeviceRepository.get and delete find a row by its device id alone, and
\* raise when there are several.
Unique(d) == Cardinality(Of(d)) <= 1

-----------------------------------------------------------------------------
(* register_or_validate_device, near the end of every login *)

Registering(d) == {h \in Handler : pc[h] = "register" /\ task[h].device = d}

\* A device that is known to anybody is taken as it is, and only its last use
\* is noted; the roles, Keycloak and the session follow.  With several rows
\* the login ends in a 500.
LookDevice(h) ==
    LET d == task[h].device
        u == task[h].user
    IN /\ pc[h] = "device"
       /\ \/ Of(d) # {} /\ Done(h)
          \/ Of(d) = {} /\ Goto(h, "register") /\ UNCHANGED task
       /\ raced' = IF Of(d) = {} /\ \E g \in Registering(d) : task[g].user # u
                     THEN raced \union {d} ELSE raced
       /\ UNCHANGED <<devices, overlapped, robbed, mfaVars>>

\* The pair of user and device is unique: of two logins of one user the second
\* fails.
InsertDevice(h) ==
    LET r == [device |-> task[h].device, user |-> task[h].user]
    IN /\ pc[h] = "register"
       /\ devices' = devices \union {r}
       /\ Done(h)
       /\ UNCHANGED <<raced, overlapped, robbed, mfaVars>>

-----------------------------------------------------------------------------
(* DELETE /devices/{device_id}: revoke_device *)

Revoking(d) == {h \in Handler : pc[h] = "delete" /\ task[h].device = d}

\* Mutant: the owner is not looked at.
CheckDevice(h, u, d) ==
    /\ Of(d) # {} /\ Unique(d)
    /\ Start(h, "delete", [kind |-> "revoke", user |-> u, device |-> d])
    /\ overlapped' = IF Revoking(d) = {} THEN overlapped ELSE overlapped \union {d}
    /\ UNCHANGED <<devices, raced, robbed, mfaVars>>

\* A device that is not the caller's is a 404.
CheckDeviceOwner(h, u, d) ==
    /\ [device |-> d, user |-> u] \in devices /\ Unique(d)
    /\ Start(h, "delete", [kind |-> "revoke", user |-> u, device |-> d])
    /\ overlapped' = IF Revoking(d) = {} THEN overlapped ELSE overlapped \union {d}
    /\ UNCHANGED <<devices, raced, robbed, mfaVars>>

\* The row is looked up again, by the device alone, and deleted.
DeleteDevice(h) ==
    LET d == task[h].device
    IN /\ pc[h] = "delete"
       /\ devices' = IF Unique(d) THEN devices \ Of(d) ELSE devices
       /\ robbed' = IF Unique(d) /\ \E r \in Of(d) : r.user # task[h].user
                      THEN robbed \union {d} ELSE robbed
       /\ Done(h)
       /\ UNCHANGED <<raced, overlapped, mfaVars>>

-----------------------------------------------------------------------------
(* POST /mfa/setup and /mfa/verify *)

Verifying(u) == {h \in Handler : pc[h] = "enable" /\ task[h].user = u}

\* A new secret, and whether the user has a row.
StartSetup(h, u) ==
    /\ secrets < MaxSecrets
    /\ secrets' = secrets + 1
    /\ Start(h, "secret", [kind |-> "mfa", user |-> u, secret |-> secrets + 1,
                           found |-> mfa[u].secret # 0])
    /\ UNCHANGED <<deviceVars, mfa, proven, replaced>>

\* Mutant: a new row is enabled at once.
SaveSecretEnabled(h) ==
    LET u == task[h].user
    IN /\ pc[h] = "secret"
       /\ IF task[h].found
            THEN mfa' = [mfa EXCEPT ![u].secret = task[h].secret]
            ELSE mfa' = [mfa EXCEPT ![u] = [secret |-> task[h].secret, enabled |-> TRUE]]
       /\ replaced' = IF mfa[u].enabled \/ Verifying(u) # {} THEN replaced \union {u} ELSE replaced
       /\ Done(h)
       /\ UNCHANGED <<deviceVars, secrets, proven>>

\* The secret of an old row is replaced and is_enabled left alone; a new row
\* meets the unique user_id if another setup was faster, and fails.
SaveSecret(h) ==
    LET u == task[h].user
    IN /\ pc[h] = "secret"
       /\ \/ /\ task[h].found
             /\ mfa' = [mfa EXCEPT ![u].secret = task[h].secret]
          \/ /\ ~ task[h].found /\ mfa[u].secret = 0
             /\ mfa' = [mfa EXCEPT ![u] = [secret |-> task[h].secret, enabled |-> FALSE]]
          \/ ~ task[h].found /\ mfa[u].secret # 0 /\ UNCHANGED mfa
       /\ replaced' = IF task[h].found /\ (mfa[u].enabled \/ Verifying(u) # {})
                        THEN replaced \union {u} ELSE replaced
       /\ Done(h)
       /\ UNCHANGED <<deviceVars, secrets, proven>>

\* The row is read and the code checked against its secret; a wrong code, or no
\* row, is a 400.
CheckTotp(h, u) ==
    /\ mfa[u].secret # 0
    /\ Start(h, "enable", [kind |-> "mfa", user |-> u, secret |-> mfa[u].secret, found |-> TRUE])
    /\ proven' = proven \union {mfa[u].secret}
    /\ UNCHANGED <<deviceVars, mfa, secrets, replaced>>

\* UPDATE ... SET is_enabled WHERE user_id, whatever secret the row has by now.
EnableMfa(h) ==
    /\ pc[h] = "enable"
    /\ mfa' = [mfa EXCEPT ![task[h].user].enabled = TRUE]
    /\ Done(h)
    /\ UNCHANGED <<deviceVars, secrets, proven, replaced>>

-----------------------------------------------------------------------------
\* A handler dies, or a query fails under it.
Fail(h) == Quit(h) /\ UNCHANGED <<deviceVars, mfaVars>>

DeviceStep(h) ==
    \/ LookDevice(h) \/ InsertDevice(h)
    \/ \E u \in User, d \in Device : CheckDeviceOwner(h, u, d)
    \/ DeleteDevice(h)
    \/ \E u \in User : StartSetup(h, u) \/ CheckTotp(h, u)
    \/ SaveSecret(h) \/ EnableMfa(h)
    \/ Fail(h)

-----------------------------------------------------------------------------
(* What holds however the handlers interleave *)

\* A device has one registration, unless two users registered it together (with
\* two rows every later login and revocation of it fails); and nobody loses a
\* registration to another user's revocation, unless two revocations of the
\* device were in flight together: the second deletes by device id alone, and
\* the device may be another's by then.
DeviceRowsSound ==
    /\ \A d \in Device \ raced : Unique(d)
    /\ robbed \subseteq overlapped

\* A user's MFA is enabled with a secret that a code was verified against,
\* unless MFA was set up again after that: the setup leaves it enabled.
EnabledSecretProven ==
    \A u \in User \ replaced : mfa[u].enabled => mfa[u].secret \in proven

=============================================================================
