------------------------------- MODULE MCOtp -------------------------------
(* A small instance of Otp for TLC.                                        *)
EXTENDS Otp, TLC

\* Handlers of one kind are interchangeable, and no property names one.
Symmetry == Permutations(Sender) \union Permutations(Verifier)

=============================================================================
