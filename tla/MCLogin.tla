------------------------------ MODULE MCLogin ------------------------------
(***************************************************************************)
(* Small instances of Login for TLC, and the statements of a docstring and *)
(* a test that runs compare with the code.                                 *)
(***************************************************************************)
EXTENDS Login, TLC

-----------------------------------------------------------------------------
\* auth.py:38-39: the mobile takes the place of the user's id "when
\* user-service is unreachable, which only happens in early local development".
\* As long as every call is answered, a login gets the id of a user.
MobileOnlyWhenUnreachable ==
    \A c \in Client :
        stage[c] \in {"roles", "done"} /\ c \notin outage => user_id[c] = "user"

\* tests/test_auth.py:423: "Valid OTP on a provider portal when no account
\* exists -> ACCOUNT_NOT_FOUND".
PortalNeedsAccount ==
    [][\A c \in Client :
         /\ stage[c] = "status" /\ stage'[c] = "call"
         /\ c \notin outage' /\ form[c].portal \in Portal
         => Exists(form[c].mobile)]_allVars

=============================================================================
