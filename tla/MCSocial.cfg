\* Two requests in flight, two accounts, one e-mail, one device, two users, three
\* secrets.
SPECIFICATION Spec
CONSTANTS
    Handler = {h1, h2}
    a1 = a1
    a2 = a2
    Account <- MCAccount
    User <- MCUser
    Device = {d1}
    Email = {e1}
    NoEmail = NoEmail
    MaxUsers = 2
    MaxSecrets = 3
CONSTRAINT OneAtATime
SYMMETRY Symmetry
CHECK_DEADLOCK FALSE
INVARIANTS
    SocialTypeOK
    AccountsMeetByEmail
    DeviceRowsSound
    EnabledSecretProven
