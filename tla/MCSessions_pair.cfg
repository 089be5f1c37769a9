\* One handler, Keycloak off: the settings of config.py.
SPECIFICATION Spec
CONSTANTS
    Req = {r1}
    KEYCLOAK_ENABLED = FALSE
    MaxSessions = 3
CHECK_DEADLOCK FALSE
PROPERTY
    HandedPairWorks
