---------------------------- MODULE MCDirectory ----------------------------
(***************************************************************************)
(* Small instances of Directory for TLC, and the statement of a docstring  *)
(* that a run compares with the code.                                      *)
(***************************************************************************)
EXTENDS Directory, TLC

Symmetry == Permutations(Handler) \union Permutations(Mobile)

-----------------------------------------------------------------------------
\* users/router.py:313-315: the admin "approves or rejects it. The user account
\* is created only after approval".  No user that an approval created belongs
\* to a mobile whose requests have all been rejected, once the approval is over.
RejectedHasNoAccount ==
    \A m \in provided :
        \E i \in 1 .. Len(reqs) :
            /\ reqs[i].mobile = m
            /\ \/ reqs[i].status # "rejected"
               \/ \E h \in Reviewing(i) : pc[h] = "finish"

=============================================================================
