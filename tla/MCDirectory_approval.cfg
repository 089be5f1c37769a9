\* An approval and a rejection of one form.
SPECIFICATION Spec
CONSTANTS
    Mobile = {m1}
    Handler = {h1, h2}
    Portal = {"lab"}
    GrantedRole = {"lab_technician"}
    MaxRequests = 1
CHECK_DEADLOCK FALSE
INVARIANT RejectedHasNoAccount
