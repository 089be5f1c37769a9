\* Two handlers or starting processes, one user, two system roles and another.
SPECIFICATION Spec
CONSTANTS
    User = {u1}
    Role = {"admin", "customer", "vet"}
    Handler = {h1, h2}
    SYSTEM_ROLES <- SeededRoles
SYMMETRY Symmetry
CHECK_DEADLOCK FALSE
INVARIANTS
    TypeOK
    SystemRolesSeeded
    SubAdminHasRole
    GrantAsDecided
