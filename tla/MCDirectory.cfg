\* Three requests in flight about one mobile, two forms.
SPECIFICATION Spec
CONSTANTS
    Mobile = {m1}
    Handler = {h1, h2, h3}
    Portal = {"lab"}
    GrantedRole = {"lab_technician"}
    MaxRequests = 2
SYMMETRY Symmetry
CHECK_DEADLOCK FALSE
INVARIANTS
    TypeOK
    ApprovedHasRole
    OneApproved
    ProviderRoleVouched
    ProvidersAccountedFor
PROPERTY
    DecisionStands
