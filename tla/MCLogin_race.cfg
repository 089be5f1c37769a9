\* A login and one other caller of get-or-create or walk-in.
SPECIFICATION LoginSpec
CONSTANTS
    Mobile = {m1}
    Handler = {c1, h1}
    Client = {c1}
    Portal = {"doctor"}
    LoginPortal = {"customer"}
    GrantedRole = {"doctor"}
    MaxRequests = 1
CHECK_DEADLOCK FALSE
INVARIANT MobileOnlyWhenUnreachable
