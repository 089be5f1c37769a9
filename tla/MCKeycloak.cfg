\* Two requests in flight, two rows and Keycloak sessions; time in units of which
\* a token lives three and the margin is two.
SPECIFICATION FairSpec
CONSTANTS
    Handler = {h1, h2}
    LIFETIME = 3
    MARGIN = 2
    Role <- Roles
    RealmRole <- RealmRoles
    Told <- ToldRoles
    MaxSessions = 2
CHECK_DEADLOCK FALSE
INVARIANTS
    KeycloakTypeOK
    CachedTokenCovered
    RolesReachToken
    LateRefreshIsCustomer
    DisabledStaysDisabled
PROPERTY
    HandlersEnd
