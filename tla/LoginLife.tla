----------------------------- MODULE LoginLife -----------------------------
(***************************************************************************)
(* What the sessions of auth-service promise to a client that keeps to one *)
(* refresh at a time: a login has one good token, which a refresh retires  *)
(* before it gives the next; once the login is over it has none for good,  *)
(* and no token that was retired is ever good again.  A login that shares  *)
(* its token between two refreshes is promised only the last of these.     *)
(*                                                                         *)
(* Sessions implements this (Sessions!KeepsPromise).                       *)
(***************************************************************************)
CONSTANTS Login, Token

VARIABLES
    life,   \* life[l]: where login l is
    good,   \* good[l]: its tokens that a refresh would accept, expiry aside
    spent   \* tokens that were good once

lifeVars == <<life, good, spent>>

Init ==
    /\ life = [l \in Login |-> "none"]
    /\ good = [l \in Login |-> {}]
    /\ spent = {}

Becomes(l, state) == life' = [life EXCEPT ![l] = state]

\* A token never seen before becomes good for l.
Give(l) ==
    /\ \E t \in Token :
         /\ t \notin spent /\ \A k \in Login : t \notin good[k]
         /\ good' = [good EXCEPT ![l] = good[l] \union {t}]
    /\ UNCHANGED spent

Take(l) ==
    /\ \E t \in good[l] :
         /\ good' = [good EXCEPT ![l] = good[l] \ {t}]
         /\ spent' = spent \union {t}

\* The client logs in, or its refresh comes to its end.
Open(l) ==
    /\ life[l] \in {"none", "renewing"} /\ good[l] = {}
    /\ Give(l) /\ Becomes(l, "open")

\* A refresh retires the token, or the login is closed.
Retire(l) ==
    /\ life[l] = "open"
    /\ Take(l) /\ good'[l] = {}
    /\ \E state \in {"renewing", "over"} : Becomes(l, state)

\* The refresh dies before it gives a new token.
Lose(l) ==
    /\ life[l] = "renewing"
    /\ Becomes(l, "over") /\ UNCHANGED <<good, spent>>

\* A second refresh begins while one is under way; from then on tokens come
\* and go one at a time.
Share(l) ==
    /\ life[l] \in {"open", "renewing"}
    /\ Becomes(l, "shared") /\ UNCHANGED <<good, spent>>

Shared(l) == life[l] = "shared" /\ (Give(l) \/ Take(l)) /\ UNCHANGED life

Next == \E l \in Login : Open(l) \/ Retire(l) \/ Lose(l) \/ Share(l) \/ Shared(l)

Spec == Init /\ [][Next]_lifeVars

=============================================================================
