------------------------------ MODULE Sessions ------------------------------
(***************************************************************************)
(* The sessions of auth-service: the rows of the sessions table            *)
(* (repositories/auth.py), services/session_service.py, and the handlers   *)
(* of /token/refresh, /logout and DELETE /sessions in routers/auth.py.     *)
(*                                                                         *)
(* Every repository call commits on its own, so a refresh is a read, a     *)
(* commit that revokes the old row, possibly a call to Keycloak, and a     *)
(* commit that inserts the new row; handlers interleave between these, and *)
(* one may die between any two.                                            *)
(*                                                                         *)
(* Rows are numbered in the order they are inserted.  Row n holds the hash *)
(* of the n-th refresh token to be stored, so a token is a number too;     *)
(* tokens that were never stored match no row and are left out.  So are    *)
(* the owner of a row, which only decides a 404, and what Keycloak keeps:  *)
(* here it is a call that succeeds or fails.                               *)
(***************************************************************************)
EXTENDS Naturals, Sequences, FiniteSets

CONSTANTS
    Req,                \* handlers that may be in flight together
    KEYCLOAK_ENABLED,   \* config.py
    MaxSessions         \* bound: rows ever inserted

ASSUME SessionsAssumption ==
    /\ KEYCLOAK_ENABLED \in BOOLEAN
    /\ MaxSessions \in Nat

VARIABLES
    rows,       \* the sessions table
    expired,    \* the rows whose expires_at has passed
    pc,         \* pc[r]: what handler r does next
    held,       \* held[r]: the session_id it works on
    \* history, read by no guard:
    handed,     \* handed[l]: the pair last returned to the client of login l
    contested,  \* logins that two refreshes have worked on at the same time
    ended,      \* logins of which a logout or DELETE has revoked a row
    closed,     \* those it revoked while no refresh was working on them
    dropped     \* logins of which a refresh died between its two commits

history == <<handed, contested, ended, closed, dropped>>
vars == <<rows, expired, pc, held, history>>

-----------------------------------------------------------------------------
(* Types *)

Sid == 1 .. MaxSessions

\* A row's login is the row that the login it descends from inserted, parent
\* the row whose refresh inserted it (0: a login); kc says that kc_user_id is
\* set.
Row == [login: Sid, parent: 0 .. MaxSessions, kc: BOOLEAN, revoked: BOOLEAN]

Pair == [session_id: 0 .. MaxSessions, refresh_token: 0 .. MaxSessions]
NoPair == [session_id |-> 0, refresh_token |-> 0]

\* The state is well typed, and a handler past the checks works on a row that
\* exists: rows are never deleted, so the refresh's later commits find it.
TypeOK ==
    /\ rows \in Seq(Row) /\ Len(rows) <= MaxSessions
    /\ expired \subseteq Sid
    /\ pc \in [Req -> {"idle", "revoke", "mint", "insert"}]
    /\ held \in [Req -> 0 .. MaxSessions]
    /\ \A r \in Req : pc[r] # "idle" => held[r] \in 1 .. Len(rows)
    /\ handed \in [Sid -> Pair]
    /\ contested \subseteq Sid /\ ended \subseteq Sid
    /\ closed \subseteq Sid /\ dropped \subseteq Sid

Init ==
    /\ rows = <<>>
    /\ expired = {}
    /\ pc = [r \in Req |-> "idle"]
    /\ held = [r \in Req |-> 0]
    /\ handed = [s \in Sid |-> NoPair]
    /\ contested = {} /\ ended = {} /\ closed = {} /\ dropped = {}

-----------------------------------------------------------------------------
(* The table *)

Live(s) == ~ rows[s].revoked

LiveRows(l) == {s \in 1 .. Len(rows) : rows[s].login = l /\ Live(s)}

\* Mutant: the row is deleted, not marked.
RevokeByDeleting(s) ==
    rows' = SubSeq(rows, 1, s - 1) \o SubSeq(rows, s + 1, Len(rows))

\* UPDATE ... SET revoked_at WHERE id = s AND revoked_at IS NULL
Revoke(s) == rows' = [rows EXCEPT ![s].revoked = TRUE]

Stage(r) == pc[r] \in {"revoke", "mint", "insert"}

\* The refreshes of login l that have passed the checks of refresh_session.
Refreshing(l) == {r \in Req : Stage(r) /\ rows[held[r]].login = l}

Respond(r) ==
    /\ pc' = [pc EXCEPT ![r] = "idle"]
    /\ held' = [held EXCEPT ![r] = 0]

\* Time passes: expires_at of row s lies in the past from now on.
Expire(s) ==
    /\ s \in 1 .. Len(rows) /\ s \notin expired
    /\ expired' = expired \union {s}
    /\ UNCHANGED <<rows, pc, held, history>>

-----------------------------------------------------------------------------
(* create_session, at the end of a login *)

\* With Keycloak enabled the row keeps the kc_user_id of an account that was
\* synchronised, whether Keycloak then issued the tokens or the call failed
\* and they were signed locally.
CreateSession ==
    /\ Len(rows) < MaxSessions
    /\ \E kc \in BOOLEAN :
         LET s == Len(rows) + 1
         IN /\ kc => KEYCLOAK_ENABLED
            /\ rows' = Append(rows, [login |-> s, parent |-> 0, kc |-> kc,
                                     revoked |-> FALSE])
            /\ handed' = [handed EXCEPT ![s] = [session_id |-> s, refresh_token |-> s]]
    /\ UNCHANGED <<expired, pc, held, contested, ended, closed, dropped>>

-----------------------------------------------------------------------------
(* POST /token/refresh/{session_id}: refresh_session *)

\* Mutant: revoked_at is not looked at.
RefreshCheckOfAnyRow(r, s, token) ==
    /\ pc[r] = "idle"
    /\ s \in 1 .. Len(rows)
    /\ s \notin expired
    /\ token = s
    /\ pc' = [pc EXCEPT ![r] = "revoke"]
    /\ held' = [held EXCEPT ![r] = s]
    /\ contested' = IF Refreshing(rows[s].login) = {}
                      THEN contested
                      ELSE contested \union {rows[s].login}
    /\ UNCHANGED <<rows, expired, handed, ended, closed, dropped>>

\* The checks, all on one read of the row; failing one is a 401 and changes
\* nothing.
RefreshCheck(r, s, token) ==
    /\ pc[r] = "idle"
    /\ s \in 1 .. Len(rows)
    /\ Live(s)
    /\ s \notin expired
    /\ token = s
    /\ pc' = [pc EXCEPT ![r] = "revoke"]
    /\ held' = [held EXCEPT ![r] = s]
    /\ contested' = IF Refreshing(rows[s].login) = {}
                      THEN contested
                      ELSE contested \union {rows[s].login}
    /\ UNCHANGED <<rows, expired, handed, ended, closed, dropped>>

\* Mutant: the old row is revoked on the local path only.
RevokeOldLocally(r) ==
    /\ pc[r] = "revoke"
    /\ IF KEYCLOAK_ENABLED /\ rows[held[r]].kc
         THEN pc' = [pc EXCEPT ![r] = "mint"] /\ UNCHANGED rows
         ELSE pc' = [pc EXCEPT ![r] = "insert"] /\ Revoke(held[r])
    /\ UNCHANGED <<expired, held, history>>

\* The row is revoked and the transaction committed; whether this call was the
\* one that revoked it (the rowcount) is not looked at.
RevokeOld(r) ==
    /\ pc[r] = "revoke"
    /\ Revoke(held[r])
    /\ pc' = [pc EXCEPT ![r] = IF KEYCLOAK_ENABLED /\ rows[held[r]].kc
                                 THEN "mint" ELSE "insert"]
    /\ UNCHANGED <<expired, held, history>>

\* Mutant: a failing Keycloak fails the refresh.
MintTokensOrFail(r) ==
    /\ pc[r] = "mint"
    /\ \/ pc' = [pc EXCEPT ![r] = "insert"] /\ UNCHANGED held
       \/ Respond(r)
    /\ UNCHANGED <<rows, expired, history>>

\* Keycloak answers with new tokens, or its failure is caught and they are
\* signed locally: either way there is a pair to store.
MintTokens(r) ==
    /\ pc[r] = "mint"
    /\ pc' = [pc EXCEPT ![r] = "insert"]
    /\ UNCHANGED <<rows, expired, held, history>>

\* The new row is inserted.  The router returns the new token with the
\* session_id it was called with.
InsertNew(r) ==
    /\ pc[r] = "insert"
    /\ Len(rows) < MaxSessions
    /\ LET old == rows[held[r]]
           new == Len(rows) + 1
       IN /\ rows' = Append(rows, [login |-> old.login, parent |-> held[r],
                                   kc |-> old.kc, revoked |-> FALSE])
          /\ handed' = [handed EXCEPT ![old.login] =
                          [session_id |-> held[r], refresh_token |-> new]]
    /\ Respond(r)
    /\ UNCHANGED <<expired, contested, ended, closed, dropped>>

-----------------------------------------------------------------------------
(* POST /logout and DELETE /sessions/{session_id} *)

\* Both read the row (404 without it; DELETE also when it is not the
\* caller's), then revoke it; what they read does not change, so this is one
\* step.  A row that is already revoked still answers 200.  Logout then tells
\* Keycloak; when that fails the exception is logged and it has succeeded.
EndSession(s) ==
    /\ s \in 1 .. Len(rows)
    /\ Revoke(s)
    /\ LET l == rows[s].login
       IN /\ ended' = IF Live(s) THEN ended \union {l} ELSE ended
          /\ closed' = IF Live(s) /\ Refreshing(l) = {} /\ l \notin contested
                         THEN closed \union {l} ELSE closed
    /\ UNCHANGED <<expired, pc, held, handed, contested, dropped>>

-----------------------------------------------------------------------------
\* A handler dies: its process stops, or the database fails under it.
Abandon(r) ==
    /\ pc[r] # "idle"
    /\ dropped' = IF pc[r] \in {"mint", "insert"}
                    THEN dropped \union {rows[held[r]].login} ELSE dropped
    /\ Respond(r)
    /\ UNCHANGED <<rows, expired, handed, contested, ended, closed>>

Refresh(r) ==
    \/ \E s, token \in Sid : RefreshCheck(r, s, token)
    \/ RevokeOld(r) \/ MintTokens(r) \/ InsertNew(r)

Next ==
    \/ CreateSession
    \/ \E s \in Sid : Expire(s) \/ EndSession(s)
    \/ \E r \in Req : Refresh(r) \/ Abandon(r)

Spec == Init /\ [][Next]_vars

-----------------------------------------------------------------------------
(* What holds however the handlers interleave *)

\* A row that a refresh inserted has a revoked parent: the old token is dead
\* before the new one exists (lines 121-122 before 148), so no crash between
\* the two commits and no other handler leaves a token and its successor both
\* alive.
RotationRetires ==
    \A s \in 1 .. Len(rows) :
        rows[s].parent # 0 => rows[rows[s].parent].revoked

\* A login has one live row at most, unless two refreshes have worked on it at
\* the same time: then both may insert one (the rowcount of revoke is unused).
OneLiveRow ==
    \A l \in Sid \ contested : \A s, t \in LiveRows(l) : s = t

\* A login that a logout or DELETE closed by revoking its live row, while no
\* refresh was in flight for it, never gets another live row.
ClosedStaysClosed == \A l \in closed : LiveRows(l) = {}

\* A login without a live row was ended by its user, or is between the two
\* commits of a refresh, or lost its row when a refresh died there: a failing
\* Keycloak alone (lines 131-139) never logs anyone out.
LoginsAccountedFor ==
    \A l \in 1 .. Len(rows) :
        rows[l].login = l /\ LiveRows(l) = {} =>
            \/ l \in ended \union dropped
            \/ \E r \in Refreshing(l) : pc[r] \in {"mint", "insert"}

-----------------------------------------------------------------------------
(* What the client of a login is promised *)

Spent == {s \in 1 .. Len(rows) : rows[s].revoked}

Known(l) == \E s \in 1 .. Len(rows) : rows[s].login = l

\* A login that nobody can refresh any more is over.
LifeOf(l) ==
    IF ~ Known(l) THEN "none"
    ELSE IF l \in contested THEN "shared"
    ELSE IF LiveRows(l) # {} THEN "open"
    ELSE IF Refreshing(l) # {} THEN "renewing"
    ELSE "over"

Promise == INSTANCE LoginLife WITH
    Login <- Sid, Token <- Sid,
    life <- [l \in Sid |-> LifeOf(l)], good <- [l \in Sid |-> LiveRows(l)],
    spent <- Spent

\* Whatever handlers, logouts, crashes and an unreliable Keycloak do, the rows
\* of the table are the tokens of LoginLife: no client that refreshes one at a
\* time ever sees two good tokens, or one where its login is over.
KeepsPromise == Promise!Spec

=============================================================================
