\* Two handlers in flight, Keycloak on and unreliable.
SPECIFICATION Spec
CONSTANTS
    Req = {r1, r2}
    KEYCLOAK_ENABLED = TRUE
    MaxSessions = 3
SYMMETRY Symmetry
CHECK_DEADLOCK FALSE
INVARIANTS
    TypeOK
    RotationRetires
    ClosedStaysClosed
    LoginsAccountedFor
PROPERTY
    KeepsPromise
