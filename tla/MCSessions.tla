----------------------------- MODULE MCSessions -----------------------------
(***************************************************************************)
(* Small instances of Sessions for TLC, and the statement of a docstring   *)
(* that a run compares with the code.                                      *)
(***************************************************************************)
EXTENDS Sessions, TLC

Symmetry == Permutations(Req)

-----------------------------------------------------------------------------
\* auth.py:307: refresh exchanges "a valid refresh token for a new access +
\* refresh token pair".  The session_id and refresh_token of a response, used
\* together as the API asks, name a live session.
HandedPairWorks ==
    [][\A l \in Sid :
        handed'[l] # handed[l] =>
            LET s == handed'[l].session_id
            IN ~ rows'[s].revoked /\ s = handed'[l].refresh_token]_vars

=============================================================================
