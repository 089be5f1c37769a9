----------------------------- MODULE MCKeycloak -----------------------------
(***************************************************************************)
(* A small instance of Keycloak for TLC.                                   *)
(***************************************************************************)
EXTENDS Keycloak, TLC

\* "auditor" stands for a role made in user-service that the realm lacks.
Roles == {"customer", "doctor", "auditor"}
RealmRoles == {"customer", "doctor"}
ToldRoles == {{}, {"doctor", "auditor"}}

=============================================================================
