------------------------------- MODULE MCRbac -------------------------------
(***************************************************************************)
(* A small instance of Rbac for TLC.                                       *)
(***************************************************************************)
EXTENDS Rbac, TLC

\* A part of SYSTEM_ROLES in its order; Role has a name more, for a role that
\* only administrators make.
SeededRoles == <<"admin", "customer">>

Symmetry == Permutations(Handler)

=============================================================================
