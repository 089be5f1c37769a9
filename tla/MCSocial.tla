------------------------------ MODULE MCSocial ------------------------------
(***************************************************************************)
(* A small instance of Social for TLC.                                     *)
(***************************************************************************)
EXTENDS Social, TLC

CONSTANTS a1, a2

MCAccount == {a1, a2}
MCUser == {a1, a2} \union 1 .. MaxUsers

\* MFA shares no table with logins, nor devices with the users table, and both
\* know users by their ids alone: a behaviour fills the tables of one of them.
OneAtATime ==
    /\ users = <<>> \/ devices = {}
    /\ \/ secrets = 0
       \/ users = <<>> /\ devices = {} /\ \A a \in Account : links[a] = NoUser

Symmetry == Permutations(Handler) \union Permutations(Account)

=============================================================================
