\* A login on the lab portal.
SPECIFICATION LoginSpec
CONSTANTS
    Mobile = {m1}
    Handler = {c1, h1}
    Client = {c1}
    Portal = {"lab"}
    LoginPortal = {"lab"}
    GrantedRole = {"lab_technician"}
    MaxRequests = 1
CHECK_DEADLOCK FALSE
PROPERTY PortalNeedsAccount
