\* A login and one other handler of user-service about one mobile, two forms.
SPECIFICATION LoginSpec
CONSTANTS
    Mobile = {m1}
    Handler = {c1, h1}
    Client = {c1}
    Portal = {"doctor"}
    LoginPortal = {"customer", "doctor"}
    GrantedRole = {"admin", "doctor"}
    MaxRequests = 2
CHECK_DEADLOCK FALSE
INVARIANTS
    InactiveKeptOut
    RolesAreTheUsers
PROPERTY
    LoginEnds
