--------------------------- MODULE SessionsProofs ---------------------------
(***************************************************************************)
(* Proofs about Sessions for every set of handlers, every number of rows,  *)
(* and Keycloak enabled or not.                                            *)
(***************************************************************************)
EXTENDS Sessions, TLAPS

-----------------------------------------------------------------------------
(* What the two writes do to the table *)

\* Overwriting one row of a table.
LEMMA Overwritten ==
  ASSUME NEW S, NEW q \in Seq(S), NEW s \in 1 .. Len(q), NEW x \in S
  PROVE  /\ [q EXCEPT ![s] = x] \in Seq(S)
         /\ Len([q EXCEPT ![s] = x]) = Len(q)
         /\ \A t \in 1 .. Len(q) :
              [q EXCEPT ![s] = x][t] = IF t = s THEN x ELSE q[t]
  OBVIOUS

\* Revoking keeps the identity of every row and takes one row from the live
\* ones (lines 72-79 of repositories/auth.py).
LEMMA RevokeRows ==
  ASSUME TypeOK, NEW s \in 1 .. Len(rows), Revoke(s)
  PROVE  /\ rows' \in Seq(Row) /\ Len(rows') = Len(rows)
         /\ \A t \in 1 .. Len(rows) :
              /\ rows'[t].login = rows[t].login /\ rows'[t].parent = rows[t].parent
              /\ rows'[t].kc = rows[t].kc
              /\ rows'[t].revoked = IF t = s THEN TRUE ELSE rows[t].revoked
         /\ \A l : LiveRows(l)' = LiveRows(l) \ {s}
<1> DEFINE x == [rows[s] EXCEPT !.revoked = TRUE]
<1>1. rows \in Seq(Row) /\ rows[s] \in Row
  BY DEF TypeOK
<1>2. /\ x \in Row
      /\ x.login = rows[s].login /\ x.parent = rows[s].parent
      /\ x.kc = rows[s].kc /\ x.revoked = TRUE
  BY <1>1 DEF Row
<1>3. rows' = [rows EXCEPT ![s] = x]
  BY DEF Revoke
<1> HIDE DEF x
<1>4. /\ rows' \in Seq(Row) /\ Len(rows') = Len(rows)
      /\ \A t \in 1 .. Len(rows) : rows'[t] = IF t = s THEN x ELSE rows[t]
  BY <1>1, <1>2, <1>3, Overwritten
<1>5. \A t \in 1 .. Len(rows) :
        /\ rows'[t].login = rows[t].login /\ rows'[t].parent = rows[t].parent
        /\ rows'[t].kc = rows[t].kc
        /\ rows'[t].revoked = IF t = s THEN TRUE ELSE rows[t].revoked
  BY <1>2, <1>4
<1>6. ASSUME NEW l
      PROVE  LiveRows(l)' = LiveRows(l) \ {s}
  BY <1>4, <1>5 DEF LiveRows, Live
<1> QED BY <1>4, <1>5, <1>6

\* Inserting a row keeps the rows there are and adds a live one.
LEMMA AppendRow ==
  ASSUME TypeOK, Len(rows) < MaxSessions,
         NEW x \in Row, ~ x.revoked, rows' = Append(rows, x)
  PROVE  /\ rows' \in Seq(Row) /\ Len(rows') = Len(rows) + 1
         /\ Len(rows') <= MaxSessions /\ Len(rows) \in Nat
         /\ rows'[Len(rows) + 1] = x
         /\ \A t \in 1 .. Len(rows) : rows'[t] = rows[t]
         /\ \A l : LiveRows(l)' = IF x.login = l
                                    THEN LiveRows(l) \union {Len(rows) + 1}
                                    ELSE LiveRows(l)
<1>1. /\ rows' \in Seq(Row) /\ Len(rows') = Len(rows) + 1
      /\ Len(rows') <= MaxSessions /\ Len(rows) \in Nat
      /\ rows'[Len(rows) + 1] = x
      /\ \A t \in 1 .. Len(rows) : rows'[t] = rows[t]
  BY SessionsAssumption DEF TypeOK
<1>2. ASSUME NEW l
      PROVE  LiveRows(l)' = IF x.login = l
                              THEN LiveRows(l) \union {Len(rows) + 1}
                              ELSE LiveRows(l)
  BY <1>1 DEF LiveRows, Live
<1> QED BY <1>1, <1>2

\* A row of the table has the type of a row.
LEMMA RowType ==
  ASSUME TypeOK, NEW s \in 1 .. Len(rows)
  PROVE  rows[s] \in Row /\ rows[s].login \in Sid
<1>1. rows[s] \in Row
  BY DEF TypeOK
<1> QED BY <1>1 DEF Row

\* The row that a login inserts, and the one that a refresh inserts.
LEMMA NewRowType ==
  ASSUME TypeOK, Len(rows) < MaxSessions
  PROVE  /\ Len(rows) + 1 \in Sid
         /\ \A kc \in BOOLEAN :
              [login |-> Len(rows) + 1, parent |-> 0, kc |-> kc,
               revoked |-> FALSE] \in Row
         /\ \A h \in 1 .. Len(rows) :
              /\ h \in Sid /\ rows[h] \in Row
              /\ [login |-> rows[h].login, parent |-> h, kc |-> rows[h].kc,
                  revoked |-> FALSE] \in Row
<1>1. Len(rows) \in Nat /\ Len(rows) + 1 \in Sid
  BY SessionsAssumption DEF TypeOK, Sid
<1>2. ASSUME NEW h \in 1 .. Len(rows)
      PROVE  h \in Sid /\ h \in 0 .. MaxSessions /\ rows[h] \in Row
  <2>1. rows[h] \in Row
    BY RowType
  <2> QED BY <1>1, <2>1, SessionsAssumption DEF Sid
<1>3. 0 \in 0 .. MaxSessions
  BY SessionsAssumption
<1> QED BY <1>1, <1>2, <1>3 DEF Row

-----------------------------------------------------------------------------
(* Type correctness *)

\* Type correctness of the sessions table, and: the row a refresh works on
\* exists until it is done (rows are marked, never deleted).
THEOREM SessionsTypeOK == Spec => []TypeOK
<1>1. Init => TypeOK
  BY SessionsAssumption DEF Init, TypeOK, Sid, Pair, NoPair
<1>2. TypeOK /\ [Next]_vars => TypeOK'
  <2> SUFFICES ASSUME TypeOK, [Next]_vars
               PROVE  TypeOK'
    OBVIOUS
  <2>1. CASE CreateSession
    <3>1. PICK kc \in BOOLEAN :
             /\ rows' = Append(rows, [login |-> Len(rows) + 1, parent |-> 0,
                                      kc |-> kc, revoked |-> FALSE])
             /\ handed' = [handed EXCEPT ![Len(rows) + 1] =
                             [session_id |-> Len(rows) + 1,
                              refresh_token |-> Len(rows) + 1]]
      BY <2>1 DEF CreateSession
    <3>2. Len(rows) < MaxSessions
      BY <2>1 DEF CreateSession
    <3>3. /\ rows' \in Seq(Row) /\ Len(rows') <= MaxSessions
          /\ Len(rows') = Len(rows) + 1 /\ Len(rows) \in Nat
      BY <3>1, <3>2, NewRowType, AppendRow
    <3>4. handed' \in [Sid -> Pair]
      <4>1. Len(rows) + 1 \in 0 .. MaxSessions
        BY <3>2, <3>3, SessionsAssumption
      <4>2. [session_id |-> Len(rows) + 1, refresh_token |-> Len(rows) + 1] \in Pair
        BY <4>1 DEF Pair
      <4> QED BY <3>1, <4>2 DEF TypeOK
    <3>5. UNCHANGED <<expired, pc, held, contested, ended, closed, dropped>>
      BY <2>1 DEF CreateSession
    <3> QED BY <3>3, <3>4, <3>5 DEF TypeOK
  <2>2. ASSUME NEW s \in Sid, Expire(s)
        PROVE  TypeOK'
    BY <2>2 DEF Expire, TypeOK, history
  <2>3. ASSUME NEW s \in Sid, EndSession(s)
        PROVE  TypeOK'
    <3>1. rows' \in Seq(Row) /\ Len(rows') = Len(rows)
      BY <2>3, RevokeRows DEF EndSession
    <3>2. rows[s].login \in Sid
      BY <2>3, RowType DEF EndSession
    <3>3. ended' \subseteq Sid /\ closed' \subseteq Sid
      BY <2>3, <3>2 DEF EndSession, TypeOK
    <3>4. UNCHANGED <<expired, pc, held, handed, contested, dropped>>
      BY <2>3 DEF EndSession
    <3> QED BY <3>1, <3>3, <3>4 DEF TypeOK
  <2>4. ASSUME NEW r \in Req, NEW s \in Sid, NEW token \in Sid,
               RefreshCheck(r, s, token)
        PROVE  TypeOK'
    <3>1. rows[s].login \in Sid
      BY <2>4, RowType DEF RefreshCheck
    <3>2. contested' \subseteq Sid
      BY <2>4, <3>1 DEF RefreshCheck, TypeOK
    <3>3. s \in 0 .. MaxSessions
      BY SessionsAssumption DEF Sid
    <3> QED BY <2>4, <3>2, <3>3 DEF RefreshCheck, TypeOK
  <2>5. ASSUME NEW r \in Req, RevokeOld(r)
        PROVE  TypeOK'
    <3>1. rows' \in Seq(Row) /\ Len(rows') = Len(rows)
      BY <2>5, RevokeRows DEF RevokeOld, TypeOK
    <3> QED BY <2>5, <3>1 DEF RevokeOld, TypeOK, history
  <2>6. ASSUME NEW r \in Req, MintTokens(r)
        PROVE  TypeOK'
    BY <2>6 DEF MintTokens, TypeOK, history
  <2>7. ASSUME NEW r \in Req, InsertNew(r)
        PROVE  TypeOK'
    <3>1. held[r] \in 1 .. Len(rows) /\ Len(rows) < MaxSessions
      BY <2>7 DEF InsertNew, TypeOK
    <3>2. /\ rows' = Append(rows, [login |-> rows[held[r]].login, parent |-> held[r],
                                   kc |-> rows[held[r]].kc, revoked |-> FALSE])
          /\ handed' = [handed EXCEPT ![rows[held[r]].login] =
                          [session_id |-> held[r], refresh_token |-> Len(rows) + 1]]
      BY <2>7 DEF InsertNew
    <3>3. /\ rows' \in Seq(Row) /\ Len(rows') <= MaxSessions
          /\ Len(rows') = Len(rows) + 1 /\ Len(rows) \in Nat
      BY <3>1, <3>2, NewRowType, AppendRow
    <3>4. handed' \in [Sid -> Pair]
      <4>1. Len(rows) + 1 \in 0 .. MaxSessions /\ held[r] \in 0 .. MaxSessions
        BY <3>1, <3>3, SessionsAssumption
      <4>2. [session_id |-> held[r], refresh_token |-> Len(rows) + 1] \in Pair
        BY <4>1 DEF Pair
      <4> QED BY <3>2, <4>2 DEF TypeOK
    <3>5. /\ pc' = [pc EXCEPT ![r] = "idle"] /\ held' = [held EXCEPT ![r] = 0]
          /\ UNCHANGED <<expired, contested, ended, closed, dropped>>
      BY <2>7 DEF InsertNew, Respond
    <3>6. /\ pc' \in [Req -> {"idle", "revoke", "mint", "insert"}]
          /\ held' \in [Req -> 0 .. MaxSessions]
          /\ \A q \in Req : pc'[q] # "idle" => held'[q] \in 1 .. Len(rows')
      BY <3>3, <3>5, SessionsAssumption DEF TypeOK
    <3> QED BY <3>3, <3>4, <3>5, <3>6 DEF TypeOK
  <2>8. ASSUME NEW r \in Req, Abandon(r)
        PROVE  TypeOK'
    <3>1. rows[held[r]].login \in Sid
      BY <2>8, RowType DEF Abandon, TypeOK
    <3>2. dropped' \subseteq Sid
      BY <2>8, <3>1 DEF Abandon, TypeOK
    <3> QED BY <2>8, <3>2, SessionsAssumption DEF Abandon, Respond, TypeOK
  <2>9. CASE UNCHANGED vars
    BY <2>9 DEF vars, history, TypeOK
  <2> QED BY <2>1, <2>2, <2>3, <2>4, <2>5, <2>6, <2>7, <2>8, <2>9 DEF Next, Refresh
<1> QED BY <1>1, <1>2, PTL DEF Spec


-----------------------------------------------------------------------------
(* The inductive invariant *)

\* Rows are inserted after the rows they descend from.
IdInv ==
    \A s \in 1 .. Len(rows) :
        rows[s].login \in 1 .. s /\ rows[s].parent \in 0 .. (s - 1)

\* A refresh past its first commit has revoked its row (line 122).
MidInv == \A r \in Req : pc[r] \in {"mint", "insert"} => rows[held[r]].revoked

\* A login that no two refreshes have worked on at the same time has one live
\* row or one refresh past line 122, and the row a refresh is about to revoke
\* is the only live one.
SoleInv ==
    \A l \in Sid \ contested :
        /\ \A s, t \in LiveRows(l) : s = t
        /\ \A q, r \in Refreshing(l) : q = r
        /\ \A r \in Refreshing(l) : \A s \in LiveRows(l) :
             pc[r] = "revoke" /\ held[r] = s

\* A closed login has nothing left that could insert a row for it.
ClosedInv ==
    \A l \in closed :
        l \in 1 .. Len(rows) /\ l \notin contested /\ LiveRows(l) = {} /\ Refreshing(l) = {}

LoginsKept ==
    /\ Len(rows) \in Nat /\ Len(rows) <= Len(rows')
    /\ \A t \in 1 .. Len(rows) : rows'[t].login = rows[t].login

\* The refreshes of a login stay the same while no handler moves.
LEMMA RefreshingKept ==
  ASSUME TypeOK, LoginsKept, UNCHANGED <<pc, held>>
  PROVE  \A l : Refreshing(l)' = Refreshing(l)
  BY DEF TypeOK, LoginsKept, Refreshing, Stage

\* One handler moves from the checks to the first commit.
LEMMA RefreshingStart ==
  ASSUME TypeOK, NEW r \in Req, NEW s \in 1 .. Len(rows), pc[r] = "idle",
         UNCHANGED rows,
         pc' = [pc EXCEPT ![r] = "revoke"], held' = [held EXCEPT ![r] = s]
  PROVE  \A l : Refreshing(l)' = IF rows[s].login = l
                                   THEN Refreshing(l) \union {r}
                                   ELSE Refreshing(l)
<1>1. \A q \in Req \ {r} : pc'[q] = pc[q] /\ held'[q] = held[q]
  BY DEF TypeOK
<1>2. pc'[r] = "revoke" /\ held'[r] = s
  BY DEF TypeOK
<1> QED BY <1>1, <1>2 DEF Refreshing, Stage

\* One handler goes on to its next step.
LEMMA RefreshingGoesOn ==
  ASSUME TypeOK, LoginsKept, NEW r \in Req, Stage(r), UNCHANGED held,
         NEW v \in {"mint", "insert"}, pc' = [pc EXCEPT ![r] = v]
  PROVE  \A l : Refreshing(l)' = Refreshing(l)
<1>1. \A q \in Req \ {r} : pc'[q] = pc[q] /\ held'[q] = held[q]
  BY DEF TypeOK
<1>2. pc'[r] = v /\ held'[r] = held[r]
  BY DEF TypeOK
<1>3. \A q \in Req : Stage(q) => held[q] \in 1 .. Len(rows)
  BY DEF TypeOK, Stage
<1> QED BY <1>1, <1>2, <1>3 DEF LoginsKept, Refreshing, Stage

\* One handler is done.
LEMMA RefreshingEnds ==
  ASSUME TypeOK, LoginsKept, NEW r \in Req, Respond(r)
  PROVE  \A l : Refreshing(l)' = Refreshing(l) \ {r}
<1>1. \A q \in Req \ {r} : pc'[q] = pc[q] /\ held'[q] = held[q]
  BY DEF TypeOK, Respond
<1>2. pc'[r] = "idle"
  BY DEF TypeOK, Respond
<1>3. \A q \in Req : Stage(q) => held[q] \in 1 .. Len(rows)
  BY DEF TypeOK, Stage
<1> QED BY <1>1, <1>2, <1>3 DEF LoginsKept, Refreshing, Stage

-----------------------------------------------------------------------------
(* What each action does to the table, the live rows and the refreshes *)

\* A login inserts a live row of a login of its own (lines 69-78).
LEMMA CreateEffect ==
  ASSUME TypeOK, CreateSession
  PROVE  /\ Len(rows) \in Nat /\ Len(rows') = Len(rows) + 1
         /\ \A t \in 1 .. Len(rows) : rows'[t] = rows[t]
         /\ rows'[Len(rows) + 1].login = Len(rows) + 1
         /\ rows'[Len(rows) + 1].parent = 0
         /\ \A l : LiveRows(l)' = IF Len(rows) + 1 = l
                                    THEN LiveRows(l) \union {Len(rows) + 1}
                                    ELSE LiveRows(l)
         /\ \A l : Refreshing(l)' = Refreshing(l)
<1>1. PICK kc \in BOOLEAN :
         rows' = Append(rows, [login |-> Len(rows) + 1, parent |-> 0,
                               kc |-> kc, revoked |-> FALSE])
  BY DEF CreateSession
<1> DEFINE x == [login |-> Len(rows) + 1, parent |-> 0, kc |-> kc, revoked |-> FALSE]
<1>2. Len(rows) < MaxSessions
  BY DEF CreateSession
<1>3. /\ x \in Row /\ ~ x.revoked /\ rows' = Append(rows, x)
      /\ x.login = Len(rows) + 1 /\ x.parent = 0
  BY <1>1, <1>2, NewRowType
<1> HIDE DEF x
<1>4. /\ Len(rows) \in Nat /\ Len(rows') = Len(rows) + 1
      /\ rows'[Len(rows) + 1] = x
      /\ \A t \in 1 .. Len(rows) : rows'[t] = rows[t]
      /\ \A l : LiveRows(l)' = IF x.login = l
                                 THEN LiveRows(l) \union {Len(rows) + 1}
                                 ELSE LiveRows(l)
  BY <1>2, <1>3, AppendRow
<1>5. LoginsKept /\ UNCHANGED <<pc, held>>
  BY <1>4 DEF LoginsKept, CreateSession
<1>6. \A l : Refreshing(l)' = Refreshing(l)
  BY <1>5, RefreshingKept
<1> QED BY <1>3, <1>4, <1>6

\* A logout or DELETE takes one row from the live ones.
LEMMA EndEffect ==
  ASSUME TypeOK, NEW s, EndSession(s)
  PROVE  /\ s \in 1 .. Len(rows) /\ Len(rows) \in Nat /\ Len(rows') = Len(rows)
         /\ \A t \in 1 .. Len(rows) :
              /\ rows'[t].login = rows[t].login /\ rows'[t].parent = rows[t].parent
              /\ rows'[t].revoked = IF t = s THEN TRUE ELSE rows[t].revoked
         /\ \A l : LiveRows(l)' = LiveRows(l) \ {s}
         /\ \A l : Refreshing(l)' = Refreshing(l)
<1>1. s \in 1 .. Len(rows) /\ Revoke(s) /\ UNCHANGED <<pc, held>>
  BY DEF EndSession
<1>2. /\ Len(rows') = Len(rows)
      /\ \A t \in 1 .. Len(rows) :
           /\ rows'[t].login = rows[t].login /\ rows'[t].parent = rows[t].parent
           /\ rows'[t].revoked = IF t = s THEN TRUE ELSE rows[t].revoked
      /\ \A l : LiveRows(l)' = LiveRows(l) \ {s}
  BY <1>1, RevokeRows
<1>3. Len(rows) \in Nat
  BY DEF TypeOK
<1>4. LoginsKept
  <2>1. Len(rows) <= Len(rows')
    BY <1>2, <1>3
  <2>2. \A t \in 1 .. Len(rows) : rows'[t].login = rows[t].login
    BY <1>2
  <2> QED BY <1>3, <2>1, <2>2 DEF LoginsKept
<1> QED BY <1>1, <1>2, <1>3, <1>4, RefreshingKept

\* A refresh that passes the checks (lines 106-119) writes nothing.
LEMMA CheckEffect ==
  ASSUME TypeOK, NEW r \in Req, NEW s, NEW token, RefreshCheck(r, s, token)
  PROVE  /\ s \in LiveRows(rows[s].login) /\ s \in 1 .. Len(rows)
         /\ rows' = rows
         /\ \A l : LiveRows(l)' = LiveRows(l)
         /\ \A l : Refreshing(l)' = IF rows[s].login = l
                                      THEN Refreshing(l) \union {r}
                                      ELSE Refreshing(l)
         /\ pc'[r] = "revoke" /\ held'[r] = s
         /\ \A q \in Req \ {r} : pc'[q] = pc[q] /\ held'[q] = held[q]
<1>1. /\ s \in 1 .. Len(rows) /\ Live(s) /\ rows' = rows /\ pc[r] = "idle"
      /\ pc' = [pc EXCEPT ![r] = "revoke"] /\ held' = [held EXCEPT ![r] = s]
  BY DEF RefreshCheck
<1>2. s \in LiveRows(rows[s].login) /\ \A l : LiveRows(l)' = LiveRows(l)
  BY <1>1 DEF LiveRows, Live
<1>3. \A l : Refreshing(l)' = IF rows[s].login = l
                                THEN Refreshing(l) \union {r}
                                ELSE Refreshing(l)
  BY <1>1, RefreshingStart
<1> QED BY <1>1, <1>2, <1>3 DEF TypeOK

\* The first commit of a refresh takes its row from the live ones (line 122).
LEMMA RevokeEffect ==
  ASSUME TypeOK, NEW r \in Req, RevokeOld(r)
  PROVE  /\ held[r] \in 1 .. Len(rows) /\ Len(rows) \in Nat
         /\ r \in Refreshing(rows[held[r]].login) /\ pc[r] = "revoke"
         /\ Len(rows') = Len(rows)
         /\ \A t \in 1 .. Len(rows) :
              /\ rows'[t].login = rows[t].login /\ rows'[t].parent = rows[t].parent
              /\ rows'[t].revoked = IF t = held[r] THEN TRUE ELSE rows[t].revoked
         /\ \A l : LiveRows(l)' = LiveRows(l) \ {held[r]}
         /\ \A l : Refreshing(l)' = Refreshing(l)
         /\ pc'[r] \in {"mint", "insert"} /\ held' = held
         /\ \A q \in Req \ {r} : pc'[q] = pc[q]
<1>1. /\ pc[r] = "revoke" /\ Revoke(held[r]) /\ held' = held
      /\ held[r] \in 1 .. Len(rows) /\ Len(rows) \in Nat
  BY DEF RevokeOld, TypeOK
<1>2. PICK v \in {"mint", "insert"} : pc' = [pc EXCEPT ![r] = v]
  BY DEF RevokeOld
<1>3. /\ Len(rows') = Len(rows)
      /\ \A t \in 1 .. Len(rows) :
           /\ rows'[t].login = rows[t].login /\ rows'[t].parent = rows[t].parent
           /\ rows'[t].revoked = IF t = held[r] THEN TRUE ELSE rows[t].revoked
      /\ \A l : LiveRows(l)' = LiveRows(l) \ {held[r]}
  BY <1>1, RevokeRows
<1>4. LoginsKept /\ Stage(r)
  <2>1. Len(rows) <= Len(rows')
    BY <1>1, <1>3
  <2>2. \A t \in 1 .. Len(rows) : rows'[t].login = rows[t].login
    BY <1>3
  <2> QED BY <1>1, <2>1, <2>2 DEF LoginsKept, Stage
<1>5. \A l : Refreshing(l)' = Refreshing(l)
  BY <1>1, <1>2, <1>4, RefreshingGoesOn
<1>6. r \in Refreshing(rows[held[r]].login)
  BY <1>4 DEF Refreshing
<1>7. pc'[r] = v /\ \A q \in Req \ {r} : pc'[q] = pc[q]
  BY <1>2 DEF TypeOK
<1> QED BY <1>1, <1>3, <1>5, <1>6, <1>7

\* New tokens, whoever signs them, change no row (lines 124-143).
LEMMA MintEffect ==
  ASSUME TypeOK, NEW r \in Req, MintTokens(r)
  PROVE  /\ pc[r] = "mint" /\ r \in Refreshing(rows[held[r]].login)
         /\ rows' = rows /\ held' = held
         /\ \A l : LiveRows(l)' = LiveRows(l)
         /\ \A l : Refreshing(l)' = Refreshing(l)
         /\ pc'[r] = "insert" /\ \A q \in Req \ {r} : pc'[q] = pc[q]
<1>1. /\ pc[r] = "mint" /\ rows' = rows /\ held' = held
      /\ pc' = [pc EXCEPT ![r] = "insert"]
  BY DEF MintTokens
<1>2. LoginsKept /\ Stage(r)
  BY <1>1 DEF LoginsKept, Stage, TypeOK
<1>3. \A l : Refreshing(l)' = Refreshing(l)
  BY <1>1, <1>2, RefreshingGoesOn
<1>4. \A l : LiveRows(l)' = LiveRows(l)
  BY <1>1 DEF LiveRows, Live
<1>5. r \in Refreshing(rows[held[r]].login)
  BY <1>2 DEF Refreshing
<1> QED BY <1>1, <1>3, <1>4, <1>5 DEF TypeOK

\* The second commit of a refresh inserts a live row (lines 148-157).
LEMMA InsertEffect ==
  ASSUME TypeOK, NEW r \in Req, InsertNew(r)
  PROVE  /\ held[r] \in 1 .. Len(rows) /\ Len(rows) \in Nat
         /\ r \in Refreshing(rows[held[r]].login) /\ pc[r] = "insert"
         /\ Len(rows') = Len(rows) + 1
         /\ \A t \in 1 .. Len(rows) : rows'[t] = rows[t]
         /\ rows'[Len(rows) + 1].login = rows[held[r]].login
         /\ rows'[Len(rows) + 1].parent = held[r]
         /\ \A l : LiveRows(l)' = IF rows[held[r]].login = l
                                    THEN LiveRows(l) \union {Len(rows) + 1}
                                    ELSE LiveRows(l)
         /\ \A l : Refreshing(l)' = Refreshing(l) \ {r}
         /\ pc'[r] = "idle"
         /\ \A q \in Req \ {r} : pc'[q] = pc[q] /\ held'[q] = held[q]
<1>1. /\ pc[r] = "insert" /\ Len(rows) < MaxSessions /\ Respond(r)
      /\ held[r] \in 1 .. Len(rows)
  BY DEF InsertNew, TypeOK
<1> DEFINE x == [login |-> rows[held[r]].login, parent |-> held[r],
                 kc |-> rows[held[r]].kc, revoked |-> FALSE]
<1>2. /\ x \in Row /\ ~ x.revoked
      /\ x.login = rows[held[r]].login /\ x.parent = held[r]
  BY <1>1, NewRowType
<1>3. rows' = Append(rows, x)
  BY DEF InsertNew
<1> HIDE DEF x
<1>4. /\ Len(rows) \in Nat /\ Len(rows') = Len(rows) + 1
      /\ rows'[Len(rows) + 1] = x
      /\ \A t \in 1 .. Len(rows) : rows'[t] = rows[t]
      /\ \A l : LiveRows(l)' = IF x.login = l
                                 THEN LiveRows(l) \union {Len(rows) + 1}
                                 ELSE LiveRows(l)
  BY <1>1, <1>2, <1>3, AppendRow
<1>5. LoginsKept
  BY <1>4 DEF LoginsKept
<1>6. \A l : Refreshing(l)' = Refreshing(l) \ {r}
  BY <1>1, <1>5, RefreshingEnds
<1>7. r \in Refreshing(rows[held[r]].login)
  BY <1>1 DEF Refreshing, Stage
<1>8. /\ pc'[r] = "idle"
      /\ \A q \in Req \ {r} : pc'[q] = pc[q] /\ held'[q] = held[q]
  BY <1>1 DEF Respond, TypeOK
<1> QED BY <1>1, <1>2, <1>4, <1>6, <1>7, <1>8

\* A handler that dies leaves the table as it is.
LEMMA AbandonEffect ==
  ASSUME TypeOK, NEW r \in Req, Abandon(r)
  PROVE  /\ held[r] \in 1 .. Len(rows) /\ rows' = rows
         /\ r \in Refreshing(rows[held[r]].login)
         /\ \A l : LiveRows(l)' = LiveRows(l)
         /\ \A l : Refreshing(l)' = Refreshing(l) \ {r}
         /\ pc'[r] = "idle"
         /\ \A q \in Req \ {r} : pc'[q] = pc[q] /\ held'[q] = held[q]
<1>1. /\ pc[r] # "idle" /\ Respond(r) /\ rows' = rows
      /\ held[r] \in 1 .. Len(rows)
  BY DEF Abandon, TypeOK
<1>2. LoginsKept /\ Stage(r)
  BY <1>1 DEF LoginsKept, Stage, TypeOK
<1>3. \A l : Refreshing(l)' = Refreshing(l) \ {r}
  BY <1>1, <1>2, RefreshingEnds
<1>4. \A l : LiveRows(l)' = LiveRows(l)
  BY <1>1 DEF LiveRows, Live
<1>5. r \in Refreshing(rows[held[r]].login)
  BY <1>2 DEF Refreshing
<1> QED BY <1>1, <1>3, <1>4, <1>5 DEF Respond, TypeOK

\* A step that leaves the table and the handlers alone.
LEMMA QuietEffect ==
  ASSUME TypeOK, UNCHANGED <<rows, pc, held>>
  PROVE  \A l : LiveRows(l)' = LiveRows(l) /\ Refreshing(l)' = Refreshing(l)
<1>1. LoginsKept
  BY DEF LoginsKept, TypeOK
<1> QED BY <1>1, RefreshingKept DEF LiveRows, Live

-----------------------------------------------------------------------------
(* Rotation *)

\* When the old rows keep their parents and stay revoked, and a new row has no
\* parent or a revoked one, every parent stays revoked.
LEMMA RetiresStep ==
  ASSUME IdInv, RotationRetires, Len(rows) \in Nat, Len(rows') \in Nat,
         \A t \in 1 .. Len(rows) :
           /\ rows'[t].parent = rows[t].parent
           /\ rows[t].revoked => rows'[t].revoked,
         \A t \in 1 .. Len(rows') :
           t \notin 1 .. Len(rows) =>
             \/ rows'[t].parent = 0
             \/ /\ rows'[t].parent \in 1 .. Len(rows)
                /\ rows[rows'[t].parent].revoked
  PROVE  RotationRetires'
<1> SUFFICES ASSUME NEW s \in 1 .. Len(rows'), rows'[s].parent # 0
             PROVE  rows'[rows'[s].parent].revoked
  BY DEF RotationRetires
<1>1. CASE s \in 1 .. Len(rows)
  <2>1. rows'[s].parent = rows[s].parent /\ rows[s].parent \in 1 .. Len(rows)
    BY <1>1 DEF IdInv
  <2>2. rows[rows[s].parent].revoked
    BY <1>1, <2>1 DEF RotationRetires
  <2> QED BY <2>1, <2>2
<1>2. CASE s \notin 1 .. Len(rows)
  BY <1>2
<1> QED BY <1>1, <1>2

\* A step keeps the descent of the rows and the order of a refresh's commits.
LEMMA RotationStep ==
  ASSUME TypeOK, IdInv, MidInv, RotationRetires, [Next]_vars
  PROVE  IdInv' /\ MidInv' /\ RotationRetires'
<1>1. CASE CreateSession
  <2>1. UNCHANGED <<pc, held>>
    BY <1>1 DEF CreateSession
  <2>2. IdInv'
    BY <1>1, CreateEffect DEF IdInv
  <2>3. MidInv'
    BY <1>1, <2>1, CreateEffect DEF MidInv, TypeOK
  <2>4. RotationRetires'
    <3>1. /\ Len(rows) \in Nat /\ Len(rows') = Len(rows) + 1
          /\ \A t \in 1 .. Len(rows) : rows'[t] = rows[t]
          /\ rows'[Len(rows) + 1].parent = 0
      BY <1>1, CreateEffect
    <3> QED BY <3>1, RetiresStep
  <2> QED BY <2>2, <2>3, <2>4
<1>2. ASSUME NEW s \in Sid, EndSession(s)
      PROVE  IdInv' /\ MidInv' /\ RotationRetires'
  <2>1. UNCHANGED <<pc, held>>
    BY <1>2 DEF EndSession
  <2>2. IdInv'
    BY <1>2, EndEffect DEF IdInv
  <2>3. MidInv'
    BY <1>2, <2>1, EndEffect DEF MidInv, TypeOK
  <2>4. RotationRetires'
    <3>1. /\ Len(rows) \in Nat /\ Len(rows') = Len(rows)
          /\ \A t \in 1 .. Len(rows) :
               /\ rows'[t].parent = rows[t].parent
               /\ rows'[t].revoked = IF t = s THEN TRUE ELSE rows[t].revoked
      BY <1>2, EndEffect
    <3> QED BY <3>1, RetiresStep
  <2> QED BY <2>2, <2>3, <2>4
<1>3. ASSUME NEW r \in Req, NEW s \in Sid, NEW token \in Sid,
             RefreshCheck(r, s, token)
      PROVE  IdInv' /\ MidInv' /\ RotationRetires'
  <2>1. rows' = rows /\ pc'[r] = "revoke"
        /\ \A q \in Req \ {r} : pc'[q] = pc[q] /\ held'[q] = held[q]
    BY <1>3, CheckEffect
  <2> QED BY <2>1 DEF IdInv, MidInv, RotationRetires
<1>4. ASSUME NEW r \in Req, RevokeOld(r)
      PROVE  IdInv' /\ MidInv' /\ RotationRetires'
  <2>1. IdInv'
    BY <1>4, RevokeEffect DEF IdInv
  <2>2. MidInv'
    BY <1>4, RevokeEffect DEF MidInv, TypeOK
  <2>3. RotationRetires'
    <3>1. /\ Len(rows) \in Nat /\ Len(rows') = Len(rows)
          /\ \A t \in 1 .. Len(rows) :
               /\ rows'[t].parent = rows[t].parent
               /\ rows'[t].revoked = IF t = held[r] THEN TRUE ELSE rows[t].revoked
      BY <1>4, RevokeEffect
    <3> QED BY <3>1, RetiresStep
  <2> QED BY <2>1, <2>2, <2>3
<1>5. ASSUME NEW r \in Req, MintTokens(r)
      PROVE  IdInv' /\ MidInv' /\ RotationRetires'
  <2>1. /\ rows' = rows /\ held' = held /\ pc[r] = "mint"
        /\ \A q \in Req \ {r} : pc'[q] = pc[q]
    BY <1>5, MintEffect
  <2> QED BY <2>1 DEF IdInv, MidInv, RotationRetires
<1>6. ASSUME NEW r \in Req, InsertNew(r)
      PROVE  IdInv' /\ MidInv' /\ RotationRetires'
  <2>1. IdInv'
    BY <1>6, InsertEffect DEF IdInv
  <2>2. MidInv'
    BY <1>6, InsertEffect DEF MidInv, TypeOK
  <2>3. rows[held[r]].revoked
    BY <1>6, InsertEffect DEF MidInv
  <2>4. RotationRetires'
    <3>1. /\ Len(rows) \in Nat /\ Len(rows') = Len(rows) + 1
          /\ \A t \in 1 .. Len(rows) : rows'[t] = rows[t]
          /\ rows'[Len(rows) + 1].parent = held[r] /\ held[r] \in 1 .. Len(rows)
      BY <1>6, InsertEffect
    <3> QED BY <2>3, <3>1, RetiresStep
  <2> QED BY <2>1, <2>2, <2>4
<1>7. ASSUME NEW r \in Req, Abandon(r)
      PROVE  IdInv' /\ MidInv' /\ RotationRetires'
  <2>1. rows' = rows /\ pc'[r] = "idle"
        /\ \A q \in Req \ {r} : pc'[q] = pc[q] /\ held'[q] = held[q]
    BY <1>7, AbandonEffect
  <2> QED BY <2>1 DEF IdInv, MidInv, RotationRetires
<1>8. CASE UNCHANGED <<rows, pc, held>>
  BY <1>8 DEF IdInv, MidInv, RotationRetires
<1> QED BY <1>1, <1>2, <1>3, <1>4, <1>5, <1>6, <1>7, <1>8
        DEF Next, Refresh, Expire, vars

\* A refresh revokes the old row in a commit of its own before it inserts the
\* new one (lines 121-122, 148), so however handlers interleave and wherever
\* one dies, a token and its successor are never both alive.
THEOREM SessionsRotationRetires == Spec => []RotationRetires
<1>1. Init => IdInv /\ MidInv /\ RotationRetires
  BY DEF Init, IdInv, MidInv, RotationRetires
<1>2. TypeOK /\ IdInv /\ MidInv /\ RotationRetires /\ [Next]_vars
        => IdInv' /\ MidInv' /\ RotationRetires'
  BY RotationStep
<1>3. Spec => []TypeOK
  BY SessionsTypeOK
<1> QED BY <1>1, <1>2, <1>3, PTL DEF Spec

\* The descent of the rows, as an invariant of its own.
LEMMA SessionsIdInv == Spec => []IdInv
<1>1. Init => IdInv /\ MidInv /\ RotationRetires
  BY DEF Init, IdInv, MidInv, RotationRetires
<1>2. TypeOK /\ IdInv /\ MidInv /\ RotationRetires /\ [Next]_vars
        => IdInv' /\ MidInv' /\ RotationRetires'
  BY RotationStep
<1>3. Spec => []TypeOK
  BY SessionsTypeOK
<1> QED BY <1>1, <1>2, <1>3, PTL DEF Spec

-----------------------------------------------------------------------------
(* One live row per login *)

\* A step keeps a login that is not contested to one live row or one refresh
\* past its first commit, and a closed login empty.
LEMMA SoleStep ==
  ASSUME TypeOK, IdInv, SoleInv, ClosedInv, [Next]_vars
  PROVE  SoleInv' /\ ClosedInv'
<1>1. CASE CreateSession
  <2>1. UNCHANGED <<pc, held, contested, closed>>
    BY <1>1 DEF CreateSession
  <2>2. LiveRows(Len(rows) + 1) = {} /\ Refreshing(Len(rows) + 1) = {}
    BY DEF IdInv, TypeOK, LiveRows, Refreshing, Stage
  <2>3. SoleInv'
    BY <1>1, <2>1, <2>2, CreateEffect DEF SoleInv
  <2>4. ClosedInv'
    <3>1. /\ Len(rows) \in Nat /\ Len(rows') = Len(rows) + 1
          /\ Len(rows) + 1 \notin closed
      BY <1>1, CreateEffect DEF ClosedInv
    <3>2. \A l \in closed : LiveRows(l)' = LiveRows(l) /\ Refreshing(l)' = Refreshing(l)
      BY <1>1, <3>1, CreateEffect
    <3> QED BY <2>1, <3>1, <3>2 DEF ClosedInv
  <2> QED BY <2>3, <2>4
<1>2. ASSUME NEW s \in Sid, EndSession(s)
      PROVE  SoleInv' /\ ClosedInv'
  <2>1. /\ UNCHANGED <<pc, held, contested>>
        /\ s \in 1 .. Len(rows) /\ Len(rows') = Len(rows)
        /\ \A l : LiveRows(l)' = LiveRows(l) \ {s} /\ Refreshing(l)' = Refreshing(l)
    BY <1>2, EndEffect DEF EndSession
  <2>2. SoleInv'
    BY <2>1 DEF SoleInv
  <2>3. ASSUME NEW l \in closed', l \notin closed
        PROVE  /\ l \in 1 .. Len(rows') /\ l \notin contested'
               /\ LiveRows(l)' = {} /\ Refreshing(l)' = {}
    <3>1. /\ l = rows[s].login /\ Live(s)
          /\ Refreshing(l) = {} /\ l \notin contested
      BY <1>2, <2>3 DEF EndSession
    <3>2. l \in 1 .. Len(rows) /\ l \in Sid
      BY <2>1, <3>1, RowType DEF IdInv, TypeOK
    <3>3. s \in LiveRows(l)
      BY <2>1, <3>1 DEF LiveRows
    <3>4. LiveRows(l) = {s}
      BY <3>1, <3>2, <3>3 DEF SoleInv
    <3> QED BY <2>1, <3>1, <3>2, <3>4
  <2>4. ClosedInv'
    BY <2>1, <2>3 DEF ClosedInv
  <2> QED BY <2>2, <2>4
<1>3. ASSUME NEW r \in Req, NEW s \in Sid, NEW token \in Sid,
             RefreshCheck(r, s, token)
      PROVE  SoleInv' /\ ClosedInv'
  <2> DEFINE m == rows[s].login
  <2>1. /\ s \in LiveRows(m) /\ s \in 1 .. Len(rows) /\ rows' = rows
        /\ pc'[r] = "revoke" /\ held'[r] = s
        /\ \A q \in Req \ {r} : pc'[q] = pc[q] /\ held'[q] = held[q]
        /\ \A l : LiveRows(l)' = LiveRows(l)
        /\ \A l : Refreshing(l)' = IF m = l THEN Refreshing(l) \union {r}
                                            ELSE Refreshing(l)
    BY <1>3, CheckEffect
  <2>2. /\ contested' = IF Refreshing(m) = {} THEN contested ELSE contested \union {m}
        /\ closed' = closed /\ pc[r] = "idle"
    BY <1>3 DEF RefreshCheck
  <2>3. \A l : r \notin Refreshing(l)
    BY <2>2 DEF Refreshing, Stage
  <2>4. m \notin closed
    BY <2>1 DEF ClosedInv
  <2> HIDE DEF m
  <2>5. ClosedInv'
    BY <2>1, <2>2, <2>4 DEF ClosedInv
  <2>6. ASSUME NEW l \in Sid \ contested'
        PROVE  /\ \A t, u \in LiveRows(l)' : t = u
               /\ \A q, p \in Refreshing(l)' : q = p
               /\ \A q \in Refreshing(l)' : \A t \in LiveRows(l)' :
                    pc'[q] = "revoke" /\ held'[q] = t
    <3>1. l \notin contested
      BY <2>2, <2>6
    <3>2. CASE l = m
      <4>1. Refreshing(l) = {} /\ Refreshing(l)' = {r}
        BY <2>1, <2>2, <2>6, <3>2
      <4>2. \A t \in LiveRows(l)' : t = s
        BY <2>1, <3>1, <3>2 DEF SoleInv
      <4> QED BY <2>1, <4>1, <4>2
    <3>3. CASE l # m
      <4>1. LiveRows(l)' = LiveRows(l) /\ Refreshing(l)' = Refreshing(l)
        BY <2>1, <3>3
      <4>2. \A q \in Refreshing(l) : pc'[q] = pc[q] /\ held'[q] = held[q]
        BY <2>1, <2>3 DEF Refreshing
      <4> QED BY <3>1, <4>1, <4>2 DEF SoleInv
    <3> QED BY <3>2, <3>3
  <2>7. SoleInv'
    BY <2>6 DEF SoleInv
  <2> QED BY <2>5, <2>7
<1>4. ASSUME NEW r \in Req, RevokeOld(r)
      PROVE  SoleInv' /\ ClosedInv'
  <2> DEFINE m == rows[held[r]].login
  <2>1. /\ r \in Refreshing(m) /\ held' = held /\ Len(rows') = Len(rows)
        /\ \A q \in Req \ {r} : pc'[q] = pc[q]
        /\ \A l : LiveRows(l)' = LiveRows(l) \ {held[r]}
        /\ \A l : Refreshing(l)' = Refreshing(l)
    BY <1>4, RevokeEffect
  <2>2. closed' = closed /\ contested' = contested
    BY <1>4 DEF RevokeOld, history
  <2>3. ClosedInv'
    BY <2>1, <2>2 DEF ClosedInv
  <2>4. ASSUME NEW l \in Sid \ contested
        PROVE  /\ \A t, u \in LiveRows(l)' : t = u
               /\ \A q, p \in Refreshing(l)' : q = p
               /\ \A q \in Refreshing(l)' : \A t \in LiveRows(l)' :
                    pc'[q] = "revoke" /\ held'[q] = t
    <3>1. CASE r \in Refreshing(l)
      <4>1. \A q \in Refreshing(l) : q = r
        BY <3>1 DEF SoleInv
      <4>2. \A t \in LiveRows(l) : t = held[r]
        BY <3>1 DEF SoleInv
      <4> QED BY <2>1, <4>1, <4>2
    <3>2. CASE r \notin Refreshing(l)
      <4>1. \A q \in Refreshing(l) : pc'[q] = pc[q]
        BY <2>1, <3>2 DEF Refreshing
      <4> QED BY <2>1, <4>1 DEF SoleInv
    <3> QED BY <3>1, <3>2
  <2>5. SoleInv'
    BY <2>2, <2>4 DEF SoleInv
  <2> QED BY <2>3, <2>5
<1>5. ASSUME NEW r \in Req, MintTokens(r)
      PROVE  SoleInv' /\ ClosedInv'
  <2>1. /\ pc[r] = "mint" /\ r \in Refreshing(rows[held[r]].login)
        /\ rows' = rows /\ held' = held
        /\ \A l : LiveRows(l)' = LiveRows(l) /\ Refreshing(l)' = Refreshing(l)
        /\ pc'[r] = "insert" /\ \A q \in Req \ {r} : pc'[q] = pc[q]
    BY <1>5, MintEffect
  <2>2. closed' = closed /\ contested' = contested
    BY <1>5 DEF MintTokens, history
  <2>3. \A l : \A q \in Refreshing(l) : q \in Req
    BY DEF Refreshing
  <2> QED BY <2>1, <2>2, <2>3 DEF SoleInv, ClosedInv
<1>6. ASSUME NEW r \in Req, InsertNew(r)
      PROVE  SoleInv' /\ ClosedInv'
  <2> DEFINE m == rows[held[r]].login
             n == Len(rows) + 1
  <2>1. /\ r \in Refreshing(m) /\ pc[r] = "insert"
        /\ Len(rows) \in Nat /\ Len(rows') = n
        /\ \A q \in Req \ {r} : pc'[q] = pc[q] /\ held'[q] = held[q]
        /\ \A l : LiveRows(l)' = IF m = l THEN LiveRows(l) \union {n} ELSE LiveRows(l)
        /\ \A l : Refreshing(l)' = Refreshing(l) \ {r}
    BY <1>6, InsertEffect
  <2>2. closed' = closed /\ contested' = contested
    BY <1>6 DEF InsertNew
  <2>3. m \notin closed
    BY <2>1 DEF ClosedInv
  <2> HIDE DEF m
  <2>4. ClosedInv'
    BY <2>1, <2>2, <2>3 DEF ClosedInv
  <2>5. ASSUME NEW l \in Sid \ contested
        PROVE  /\ \A t, u \in LiveRows(l)' : t = u
               /\ \A q, p \in Refreshing(l)' : q = p
               /\ \A q \in Refreshing(l)' : \A t \in LiveRows(l)' :
                    pc'[q] = "revoke" /\ held'[q] = t
    <3>1. CASE l = m
      <4>1. Refreshing(l)' = {}
        BY <2>1, <3>1 DEF SoleInv
      <4>2. LiveRows(l) = {}
        BY <2>1, <3>1 DEF SoleInv
      <4> QED BY <2>1, <3>1, <4>1, <4>2
    <3>2. CASE l # m
      <4>1. \A q \in Refreshing(l)' : q \in Req \ {r} /\ q \in Refreshing(l)
        BY <2>1 DEF Refreshing
      <4>2. LiveRows(l)' = LiveRows(l)
        BY <2>1, <3>2
      <4> QED BY <2>1, <4>1, <4>2 DEF SoleInv
    <3> QED BY <3>1, <3>2
  <2>6. SoleInv'
    BY <2>2, <2>5 DEF SoleInv
  <2> QED BY <2>4, <2>6
<1>7. ASSUME NEW r \in Req, Abandon(r)
      PROVE  SoleInv' /\ ClosedInv'
  <2>1. /\ rows' = rows
        /\ \A l : LiveRows(l)' = LiveRows(l) /\ Refreshing(l)' = Refreshing(l) \ {r}
        /\ \A q \in Req \ {r} : pc'[q] = pc[q] /\ held'[q] = held[q]
    BY <1>7, AbandonEffect
  <2>2. closed' = closed /\ contested' = contested
    BY <1>7 DEF Abandon
  <2>3. \A l : \A q \in Refreshing(l)' : q \in Req \ {r} /\ q \in Refreshing(l)
    BY <2>1 DEF Refreshing
  <2>4. ClosedInv'
    BY <2>1, <2>2 DEF ClosedInv
  <2>5. SoleInv'
    BY <2>1, <2>2, <2>3 DEF SoleInv
  <2> QED BY <2>4, <2>5
<1>8. CASE UNCHANGED <<rows, pc, held, contested, closed>>
  <2>1. \A l : LiveRows(l)' = LiveRows(l) /\ Refreshing(l)' = Refreshing(l)
    BY <1>8, QuietEffect
  <2> QED BY <1>8, <2>1 DEF SoleInv, ClosedInv
<1> QED BY <1>1, <1>2, <1>3, <1>4, <1>5, <1>6, <1>7, <1>8
        DEF Next, Refresh, Expire, vars, history

\* SoleInv and ClosedInv hold of every behaviour.
LEMMA SessionsSole == Spec => [](SoleInv /\ ClosedInv)
<1>1. Init => SoleInv /\ ClosedInv
  BY DEF Init, SoleInv, ClosedInv, LiveRows, Refreshing, Stage
<1>2. TypeOK /\ IdInv /\ (SoleInv /\ ClosedInv) /\ [Next]_vars
        => (SoleInv /\ ClosedInv)'
  BY SoleStep
<1> QED BY <1>1, <1>2, SessionsTypeOK, SessionsIdInv, PTL DEF Spec

\* As long as no two refreshes of a login overlap, it has one live row at
\* most, whatever else happens (lines 106-157).
THEOREM SessionsOneLiveRow == Spec => []OneLiveRow
<1>1. SoleInv => OneLiveRow
  BY DEF SoleInv, OneLiveRow
<1> QED BY <1>1, SessionsSole, PTL

\* A logout or DELETE that finds no refresh in flight is final.
THEOREM SessionsClosedStaysClosed == Spec => []ClosedStaysClosed
<1>1. ClosedInv => ClosedStaysClosed
  BY DEF ClosedInv, ClosedStaysClosed
<1> QED BY <1>1, SessionsSole, PTL

-----------------------------------------------------------------------------
(* No login is lost unaccounted for *)

\* The refreshes of a login between their two commits.
Between(l) == {r \in Refreshing(l) : pc[r] \in {"mint", "insert"}}

\* A step that keeps the live rows of a login, or empties them on record,
\* keeps the login accounted for.
LEMMA AccountStep ==
  ASSUME LoginsAccountedFor, NEW l \in 1 .. Len(rows), rows[l].login = l,
         LiveRows(l) = {} =>
            \/ LiveRows(l)' # {}
            \/ l \in ended' \union dropped' \/ Between(l)' # {}
            \/ /\ ended \subseteq ended' /\ dropped \subseteq dropped'
               /\ Between(l) \subseteq Between(l)',
         LiveRows(l) # {} =>
            \/ LiveRows(l)' # {}
            \/ l \in ended' \union dropped' \/ Between(l)' # {}
  PROVE  LiveRows(l)' # {} \/ l \in ended' \union dropped' \/ Between(l)' # {}
<1>1. CASE LiveRows(l) = {}
  <2>1. l \in ended \union dropped \/ Between(l) # {}
    BY <1>1 DEF LoginsAccountedFor, Between
  <2> QED BY <1>1, <2>1
<1>2. CASE LiveRows(l) # {}
  BY <1>2
<1> QED BY <1>1, <1>2

\* Every step keeps every login accounted for.
LEMMA LoginsStep ==
  ASSUME TypeOK, LoginsAccountedFor, [Next]_vars
  PROVE  LoginsAccountedFor'
<1> DEFINE Fine(l) == \/ LiveRows(l)' # {}
                      \/ l \in ended' \union dropped' \/ Between(l)' # {}
<1>1. CASE CreateSession
  <2>1. UNCHANGED <<pc, ended, dropped>>
    BY <1>1 DEF CreateSession
  <2>2. /\ Len(rows) \in Nat /\ Len(rows') = Len(rows) + 1
        /\ \A t \in 1 .. Len(rows) : rows'[t] = rows[t]
        /\ \A l : LiveRows(l)' = IF Len(rows) + 1 = l
                                   THEN LiveRows(l) \union {Len(rows) + 1}
                                   ELSE LiveRows(l)
        /\ \A l : Refreshing(l)' = Refreshing(l)
    BY <1>1, CreateEffect
  <2>3. \A l : Between(l)' = Between(l)
    BY <2>1, <2>2 DEF Between
  <2>4. ASSUME NEW l \in 1 .. Len(rows'), rows'[l].login = l
        PROVE  Fine(l)
    <3>1. CASE l = Len(rows) + 1
      BY <2>2, <3>1
    <3>2. CASE l # Len(rows) + 1
      <4>1. l \in 1 .. Len(rows) /\ rows[l].login = l
        BY <2>2, <2>4, <3>2
      <4>2. LiveRows(l)' = LiveRows(l)
        BY <2>2, <3>2
      <4> QED BY <2>1, <2>3, <4>1, <4>2, AccountStep
    <3> QED BY <3>1, <3>2
  <2> QED BY <2>4 DEF LoginsAccountedFor, Between
<1>2. ASSUME NEW s \in Sid, EndSession(s)
      PROVE  LoginsAccountedFor'
  <2>1. /\ UNCHANGED <<pc, dropped>>
        /\ s \in 1 .. Len(rows)
        /\ ended' = IF Live(s) THEN ended \union {rows[s].login} ELSE ended
    BY <1>2 DEF EndSession
  <2>2. /\ Len(rows') = Len(rows)
        /\ \A t \in 1 .. Len(rows) : rows'[t].login = rows[t].login
        /\ \A l : LiveRows(l)' = LiveRows(l) \ {s} /\ Refreshing(l)' = Refreshing(l)
    BY <1>2, EndEffect
  <2>3. \A l : Between(l)' = Between(l)
    BY <2>1, <2>2 DEF Between
  <2>4. ASSUME NEW l \in 1 .. Len(rows'), rows'[l].login = l
        PROVE  Fine(l)
    <3>1. l \in 1 .. Len(rows) /\ rows[l].login = l
      BY <2>2, <2>4
    <3>2. CASE s \in LiveRows(l)
      BY <2>1, <3>2 DEF LiveRows
    <3>3. CASE s \notin LiveRows(l)
      <4>1. LiveRows(l)' = LiveRows(l)
        BY <2>2, <3>3
      <4>2. ended \subseteq ended'
        BY <2>1
      <4> QED BY <2>1, <2>3, <3>1, <4>1, <4>2, AccountStep
    <3> QED BY <3>2, <3>3
  <2> QED BY <2>4 DEF LoginsAccountedFor, Between
<1>3. ASSUME NEW r \in Req, NEW s \in Sid, NEW token \in Sid,
             RefreshCheck(r, s, token)
      PROVE  LoginsAccountedFor'
  <2>1. /\ rows' = rows
        /\ \A q \in Req \ {r} : pc'[q] = pc[q]
        /\ \A l : LiveRows(l)' = LiveRows(l)
        /\ \A l : Refreshing(l) \subseteq Refreshing(l)'
    BY <1>3, CheckEffect
  <2>2. UNCHANGED <<ended, dropped>> /\ pc[r] = "idle"
    BY <1>3 DEF RefreshCheck
  <2>3. \A l : Between(l) \subseteq Between(l)'
    BY <2>1, <2>2 DEF Between, Refreshing
  <2>4. ASSUME NEW l \in 1 .. Len(rows'), rows'[l].login = l
        PROVE  Fine(l)
    BY <2>1, <2>2, <2>3, <2>4, AccountStep
  <2> QED BY <2>4 DEF LoginsAccountedFor, Between
<1>4. ASSUME NEW r \in Req, RevokeOld(r)
      PROVE  LoginsAccountedFor'
  <2> DEFINE m == rows[held[r]].login
  <2>1. /\ r \in Refreshing(m) /\ held' = held /\ Len(rows') = Len(rows)
        /\ held[r] \in 1 .. Len(rows) /\ pc[r] = "revoke"
        /\ \A t \in 1 .. Len(rows) : rows'[t].login = rows[t].login
        /\ \A q \in Req \ {r} : pc'[q] = pc[q]
        /\ pc'[r] \in {"mint", "insert"}
        /\ \A l : LiveRows(l)' = LiveRows(l) \ {held[r]}
        /\ \A l : Refreshing(l)' = Refreshing(l)
    BY <1>4, RevokeEffect
  <2>2. UNCHANGED <<ended, dropped>>
    BY <1>4 DEF RevokeOld, history
  <2>3. \A l : Between(l) \subseteq Between(l)'
    BY <2>1 DEF Between, Refreshing
  <2>4. \A l : l = m => r \in Between(l)'
    BY <2>1 DEF Between
  <2>5. ASSUME NEW l \in 1 .. Len(rows'), rows'[l].login = l
        PROVE  Fine(l)
    <3>1. l \in 1 .. Len(rows) /\ rows[l].login = l
      BY <2>1, <2>5
    <3>2. CASE l = m
      BY <2>4, <3>2
    <3>3. CASE l # m
      <4>1. LiveRows(l)' = LiveRows(l)
        BY <2>1, <3>3 DEF LiveRows
      <4> QED BY <2>2, <2>3, <3>1, <4>1, AccountStep
    <3> QED BY <3>2, <3>3
  <2> QED BY <2>5 DEF LoginsAccountedFor, Between
<1>5. ASSUME NEW r \in Req, MintTokens(r)
      PROVE  LoginsAccountedFor'
  <2>1. /\ rows' = rows /\ held' = held
        /\ \A l : LiveRows(l)' = LiveRows(l) /\ Refreshing(l)' = Refreshing(l)
        /\ pc'[r] = "insert" /\ \A q \in Req \ {r} : pc'[q] = pc[q]
    BY <1>5, MintEffect
  <2>2. UNCHANGED <<ended, dropped>>
    BY <1>5 DEF MintTokens, history
  <2>3. \A l : Between(l) \subseteq Between(l)'
    BY <2>1 DEF Between, Refreshing
  <2>4. ASSUME NEW l \in 1 .. Len(rows'), rows'[l].login = l
        PROVE  Fine(l)
    BY <2>1, <2>2, <2>3, <2>4, AccountStep
  <2> QED BY <2>4 DEF LoginsAccountedFor, Between
<1>6. ASSUME NEW r \in Req, InsertNew(r)
      PROVE  LoginsAccountedFor'
  <2> DEFINE m == rows[held[r]].login
             n == Len(rows) + 1
  <2>1. /\ r \in Refreshing(m)
        /\ Len(rows) \in Nat /\ Len(rows') = n
        /\ \A t \in 1 .. Len(rows) : rows'[t] = rows[t]
        /\ rows'[n].login = m
        /\ \A q \in Req \ {r} : pc'[q] = pc[q]
        /\ \A l : LiveRows(l)' = IF m = l THEN LiveRows(l) \union {n} ELSE LiveRows(l)
        /\ \A l : Refreshing(l)' = Refreshing(l) \ {r}
    BY <1>6, InsertEffect
  <2>2. UNCHANGED <<ended, dropped>>
    BY <1>6 DEF InsertNew
  <2>3. \A l : l # m => Between(l) \subseteq Between(l)'
    BY <2>1 DEF Between, Refreshing
  <2>4. ASSUME NEW l \in 1 .. Len(rows'), rows'[l].login = l
        PROVE  Fine(l)
    <3>1. CASE l = m
      BY <2>1, <3>1
    <3>2. CASE l # m
      <4>1. l # n
        BY <2>1, <2>4, <3>2
      <4>2. l \in 1 .. Len(rows) /\ rows[l].login = l
        BY <2>1, <2>4, <4>1
      <4>3. LiveRows(l)' = LiveRows(l)
        BY <2>1, <3>2
      <4> QED BY <2>2, <2>3, <3>2, <4>2, <4>3, AccountStep
    <3> QED BY <3>1, <3>2
  <2> QED BY <2>4 DEF LoginsAccountedFor, Between
<1>7. ASSUME NEW r \in Req, Abandon(r)
      PROVE  LoginsAccountedFor'
  <2> DEFINE m == rows[held[r]].login
  <2>1. /\ rows' = rows
        /\ \A l : LiveRows(l)' = LiveRows(l) /\ Refreshing(l)' = Refreshing(l) \ {r}
        /\ \A q \in Req \ {r} : pc'[q] = pc[q] /\ held'[q] = held[q]
    BY <1>7, AbandonEffect
  <2>2. /\ ended' = ended
        /\ dropped' = IF pc[r] \in {"mint", "insert"}
                        THEN dropped \union {m} ELSE dropped
    BY <1>7 DEF Abandon
  <2>3. \A l : Between(l) \subseteq Between(l)' \union {r}
    BY <2>1 DEF Between, Refreshing
  <2>4. ASSUME NEW l \in 1 .. Len(rows'), rows'[l].login = l
        PROVE  Fine(l)
    <3>1. CASE r \in Between(l)
      <4>1. l = m /\ pc[r] \in {"mint", "insert"}
        BY <3>1 DEF Between, Refreshing
      <4> QED BY <2>2, <4>1
    <3>2. CASE r \notin Between(l)
      <4>1. Between(l) \subseteq Between(l)'
        BY <2>3, <3>2
      <4>2. ended \subseteq ended' /\ dropped \subseteq dropped'
        BY <2>2
      <4> QED BY <2>1, <2>4, <4>1, <4>2, AccountStep
    <3> QED BY <3>1, <3>2
  <2> QED BY <2>4 DEF LoginsAccountedFor, Between
<1>8. CASE UNCHANGED <<rows, pc, held, ended, dropped>>
  <2>1. \A l : LiveRows(l)' = LiveRows(l) /\ Refreshing(l)' = Refreshing(l)
    BY <1>8, QuietEffect
  <2>2. \A l : Between(l)' = Between(l)
    BY <1>8, <2>1 DEF Between
  <2>3. ASSUME NEW l \in 1 .. Len(rows'), rows'[l].login = l
        PROVE  Fine(l)
    BY <1>8, <2>1, <2>2, <2>3, AccountStep
  <2> QED BY <2>3 DEF LoginsAccountedFor, Between
<1> QED BY <1>1, <1>2, <1>3, <1>4, <1>5, <1>6, <1>7, <1>8
        DEF Next, Refresh, Expire, vars, history

\* Only its user, or a refresh that died between its two commits, leaves a
\* login without a live row: the fallback of lines 131-139 keeps it when
\* Keycloak fails.
THEOREM SessionsLoginsAccountedFor == Spec => []LoginsAccountedFor
<1>1. Init => LoginsAccountedFor
  BY DEF Init, LoginsAccountedFor
<1>2. TypeOK /\ LoginsAccountedFor /\ [Next]_vars => LoginsAccountedFor'
  BY LoginsStep
<1> QED BY <1>1, <1>2, SessionsTypeOK, PTL DEF Spec

-----------------------------------------------------------------------------
(* The table keeps the promise of LoginLife *)

\* Two refreshes have only ever worked on a login that has a row.
ContestedKnown == \A l \in contested : Known(l)

\* A step that gives login l a token that never was in the table.
LEMMA GiveMaps ==
  ASSUME NEW l \in Sid, NEW t \in Sid, t \notin Spent,
         \A k \in Sid : t \notin LiveRows(k),
         \A k \in Sid : LiveRows(k)' = IF k = l THEN LiveRows(k) \union {t}
                                              ELSE LiveRows(k),
         Spent' = Spent
  PROVE  Promise!Give(l)
BY DEF Promise!Give

\* A step that takes token t from login l.
LEMMA TakeMaps ==
  ASSUME NEW l \in Sid, NEW t \in LiveRows(l),
         \A k \in Sid : LiveRows(k)' = IF k = l THEN LiveRows(k) \ {t}
                                              ELSE LiveRows(k),
         Spent' = Spent \union {t}
  PROVE  Promise!Take(l)
BY DEF Promise!Take

\* A step after which login l is somewhere else, and no other login is.
LEMMA BecomesMaps ==
  ASSUME NEW l \in Sid, NEW state, LifeOf(l)' = state,
         \A k \in Sid \ {l} : LifeOf(k)' = LifeOf(k)
  PROVE  Promise!Becomes(l, state)
BY DEF Promise!Becomes

\* A step that the client cannot see.
LEMMA StutterMaps ==
  ASSUME \A k \in Sid : LifeOf(k)' = LifeOf(k) /\ LiveRows(k)' = LiveRows(k),
         Spent' = Spent
  PROVE  UNCHANGED Promise!lifeVars
BY DEF Promise!lifeVars

\* A login whose row, contest, live rows and refreshes stay is where it was.
LEMMA SameLife ==
  ASSUME NEW k, Known(k)' <=> Known(k), k \in contested' <=> k \in contested,
         LiveRows(k)' = LiveRows(k), Refreshing(k)' = Refreshing(k)
  PROVE  LifeOf(k)' = LifeOf(k)
BY DEF LifeOf

\* The logins and the revoked rows of a table, when the rows there were keep
\* their login, and when they stay altogether.
LEMMA TableKept ==
  ASSUME Len(rows) \in Nat, Len(rows') = Len(rows),
         \A t \in 1 .. Len(rows) : rows'[t].login = rows[t].login
  PROVE  /\ \A k : Known(k)' <=> Known(k)
         /\ (\A t \in 1 .. Len(rows) : rows'[t].revoked = rows[t].revoked)
              => Spent' = Spent
         /\ \A s \in 1 .. Len(rows) :
              (\A t \in 1 .. Len(rows) :
                 rows'[t].revoked = IF t = s THEN TRUE ELSE rows[t].revoked)
              => Spent' = Spent \union {s}
BY DEF Known, Spent

LEMMA TableGrown ==
  ASSUME Len(rows) \in Nat, Len(rows') = Len(rows) + 1,
         \A t \in 1 .. Len(rows) : rows'[t] = rows[t],
         ~ rows'[Len(rows) + 1].revoked
  PROVE  /\ \A k : Known(k)' <=> (Known(k) \/ rows'[Len(rows) + 1].login = k)
         /\ Spent' = Spent
<1>1. 1 .. Len(rows') = (1 .. Len(rows)) \union {Len(rows) + 1}
  OBVIOUS
<1>2. ASSUME NEW k
      PROVE  Known(k)' <=> (Known(k) \/ rows'[Len(rows) + 1].login = k)
  BY <1>1 DEF Known
<1>3. Spent' = Spent
  BY <1>1 DEF Spent
<1> QED BY <1>2, <1>3

\* The end of a login opens it (lines 69-78 of session_service.py).
LEMMA CreateMaps ==
  ASSUME TypeOK, IdInv, ContestedKnown, CreateSession
  PROVE  (\E l \in Sid : Promise!Open(l)) /\ ContestedKnown'
<1>1. PICK n \in Sid : n = Len(rows) + 1
  BY NewRowType DEF CreateSession
<1>2. /\ Len(rows) \in Nat /\ Len(rows') = n
      /\ \A t \in 1 .. Len(rows) : rows'[t] = rows[t]
      /\ rows'[n].login = n
      /\ \A l : LiveRows(l)' = IF n = l THEN LiveRows(l) \union {n} ELSE LiveRows(l)
      /\ \A l : Refreshing(l)' = Refreshing(l)
  BY <1>1, CreateEffect
<1>3. contested' = contested
  BY DEF CreateSession
<1>4. n \notin Spent /\ ~ Known(n) /\ \A k : n \notin LiveRows(k)
  BY <1>1 DEF Spent, Known, LiveRows, IdInv
<1>5. n \in LiveRows(n)'
  BY <1>2
<1>6. ~ rows'[n].revoked
  BY <1>5 DEF LiveRows, Live
<1>7. Spent' = Spent /\ \A k : Known(k)' <=> (Known(k) \/ n = k)
  BY <1>1, <1>2, <1>6, TableGrown
<1>8. Promise!Give(n)
  BY <1>2, <1>4, <1>7, GiveMaps
<1>9. LifeOf(n) = "none" /\ LifeOf(n)' = "open" /\ LiveRows(n) = {}
  <2>1. n \notin contested
    BY <1>4 DEF ContestedKnown
  <2>2. Known(n)' /\ n \notin contested' /\ LiveRows(n)' # {}
    BY <1>3, <1>5, <1>7, <2>1
  <2>3. LiveRows(n) = {}
    BY <1>4 DEF Known, LiveRows
  <2> QED BY <1>4, <2>2, <2>3 DEF LifeOf
<1>10. \A k \in Sid \ {n} : LifeOf(k)' = LifeOf(k)
  BY <1>2, <1>3, <1>7, SameLife
<1>11. Promise!Becomes(n, "open")
  BY <1>9, <1>10, BecomesMaps
<1>12. ContestedKnown'
  BY <1>3, <1>7 DEF ContestedKnown
<1> QED BY <1>8, <1>9, <1>11, <1>12 DEF Promise!Open

\* A logout, a DELETE and the first commit of a refresh retire a live row, if
\* theirs is one (line 122 of session_service.py).
LEMMA RetireMaps ==
  ASSUME TypeOK, SoleInv, NEW s \in 1 .. Len(rows), Len(rows') = Len(rows),
         \A t \in 1 .. Len(rows) :
           /\ rows'[t].login = rows[t].login
           /\ rows'[t].revoked = IF t = s THEN TRUE ELSE rows[t].revoked,
         \A k : LiveRows(k)' = LiveRows(k) \ {s},
         \A k : Refreshing(k)' = Refreshing(k),
         contested' = contested
  PROVE  Promise!Next \/ UNCHANGED Promise!lifeVars
<1>1. Len(rows) \in Nat
  BY DEF TypeOK
<1>2. (\A k : Known(k)' <=> Known(k)) /\ Spent' = Spent \union {s}
  BY <1>1, TableKept
<1>3. CASE ~ Live(s)
  <2>1. Spent' = Spent /\ \A k : LiveRows(k)' = LiveRows(k)
    BY <1>2, <1>3 DEF Spent, Live, LiveRows
  <2>2. \A k : LifeOf(k)' = LifeOf(k)
    BY <1>2, <2>1, SameLife
  <2> QED BY <2>1, <2>2, StutterMaps
<1>4. CASE Live(s)
  <2>1. PICK l \in Sid : l = rows[s].login
    BY RowType
  <2>2. s \in LiveRows(l) /\ Known(l) /\ \A k : k # l => s \notin LiveRows(k)
    BY <1>4, <2>1 DEF LiveRows, Known
  <2>3. Promise!Take(l)
    BY <1>2, <2>2, TakeMaps
  <2>4. \A k \in Sid \ {l} : LifeOf(k)' = LifeOf(k)
    <3>1. \A k \in Sid \ {l} : LiveRows(k)' = LiveRows(k)
      BY <2>2
    <3> QED BY <1>2, <3>1, SameLife
  <2>5. CASE l \in contested
    <3>1. LifeOf(l) = "shared" /\ LifeOf(l)' = "shared"
      BY <1>2, <2>2, <2>5 DEF LifeOf
    <3>2. \A k \in Sid : LifeOf(k)' = LifeOf(k)
      BY <2>4, <3>1
    <3>3. Promise!Shared(l)
      BY <2>3, <3>1, <3>2 DEF Promise!Shared
    <3> QED BY <3>3 DEF Promise!Next
  <2>6. CASE l \notin contested
    <3>1. LiveRows(l)' = {}
      BY <2>2, <2>6 DEF SoleInv
    <3>2. LifeOf(l) = "open"
      BY <2>2, <2>6 DEF LifeOf
    <3>3. LifeOf(l)' \in {"renewing", "over"}
      BY <1>2, <2>2, <2>6, <3>1 DEF LifeOf
    <3>4. \E state \in {"renewing", "over"} : Promise!Becomes(l, state)
      BY <2>4, <3>3, BecomesMaps
    <3>5. Promise!Retire(l)
      BY <2>3, <3>1, <3>2, <3>4 DEF Promise!Retire
    <3> QED BY <3>5 DEF Promise!Next
  <2> QED BY <2>5, <2>6
<1> QED BY <1>3, <1>4

\* A second refresh that passes the checks shares the login; a first one cannot
\* be seen (lines 106-119).
LEMMA CheckMaps ==
  ASSUME TypeOK, ContestedKnown, NEW r \in Req, NEW s, NEW token, RefreshCheck(r, s, token)
  PROVE  (Promise!Next \/ UNCHANGED Promise!lifeVars) /\ ContestedKnown'
<1>1. PICK l \in Sid : l = rows[s].login
  BY RowType, CheckEffect
<1>2. /\ s \in LiveRows(l) /\ s \in 1 .. Len(rows) /\ rows' = rows
      /\ \A k : LiveRows(k)' = LiveRows(k)
      /\ \A k : Refreshing(k)' = IF l = k THEN Refreshing(k) \union {r} ELSE Refreshing(k)
  BY <1>1, CheckEffect
<1>3. contested' = IF Refreshing(l) = {} THEN contested ELSE contested \union {l}
  BY <1>1 DEF RefreshCheck
<1>4. Known(l) /\ Spent' = Spent /\ \A k : Known(k)' <=> Known(k)
  BY <1>1, <1>2 DEF Known, Spent
<1>5. \A k \in Sid \ {l} : LifeOf(k)' = LifeOf(k)
  BY <1>2, <1>3, <1>4, SameLife
<1>6. CASE l \in contested \/ Refreshing(l) = {}
  <2>1. contested' = contested
    BY <1>3, <1>6
  <2>2. LifeOf(l)' = LifeOf(l)
    BY <1>2, <1>4, <2>1 DEF LifeOf
  <2> QED BY <1>2, <1>4, <1>5, <2>1, <2>2, StutterMaps DEF ContestedKnown
<1>7. CASE l \notin contested /\ Refreshing(l) # {}
  <2>1. LifeOf(l) = "open" /\ LifeOf(l)' = "shared"
    BY <1>2, <1>3, <1>4, <1>7 DEF LifeOf
  <2>2. Promise!Becomes(l, "shared")
    BY <1>5, <2>1, BecomesMaps
  <2>3. Promise!Share(l)
    BY <1>2, <1>4, <2>1, <2>2 DEF Promise!Share
  <2>4. ContestedKnown'
    BY <1>3, <1>4 DEF ContestedKnown
  <2> QED BY <2>3, <2>4 DEF Promise!Next
<1> QED BY <1>6, <1>7

\* The second commit of a refresh opens the login again (lines 148-157).
LEMMA InsertMaps ==
  ASSUME TypeOK, SoleInv, NEW r \in Req, InsertNew(r)
  PROVE  Promise!Next /\ \A k : Known(k) => Known(k)'
<1>1. PICK l \in Sid : l = rows[held[r]].login
  BY RowType, InsertEffect
<1>2. PICK n \in Sid : n = Len(rows) + 1
  BY NewRowType DEF InsertNew
<1>3. /\ held[r] \in 1 .. Len(rows) /\ Len(rows) \in Nat
      /\ r \in Refreshing(l) /\ pc[r] = "insert"
      /\ Len(rows') = n
      /\ \A t \in 1 .. Len(rows) : rows'[t] = rows[t]
      /\ rows'[n].login = l
      /\ \A k : LiveRows(k)' = IF l = k THEN LiveRows(k) \union {n} ELSE LiveRows(k)
      /\ \A k : Refreshing(k)' = Refreshing(k) \ {r}
  BY <1>1, <1>2, InsertEffect
<1>4. contested' = contested /\ Known(l)
  BY <1>1, <1>3 DEF InsertNew, Known
<1>5. n \notin Spent /\ \A k : n \notin LiveRows(k)
  BY <1>2, <1>3 DEF Spent, LiveRows
<1>6. n \in LiveRows(l)' /\ ~ rows'[n].revoked
  BY <1>3 DEF LiveRows, Live
<1>7. Spent' = Spent /\ \A k : Known(k)' <=> Known(k)
  BY <1>2, <1>3, <1>4, <1>6, TableGrown
<1>8. Promise!Give(l)
  BY <1>3, <1>5, <1>7, GiveMaps
<1>9. \A k \in Sid \ {l} : LifeOf(k)' = LifeOf(k)
  <2>1. \A k \in Sid \ {l} : r \notin Refreshing(k)
    BY <1>1 DEF Refreshing
  <2>2. \A k \in Sid \ {l} : LiveRows(k)' = LiveRows(k) /\ Refreshing(k)' = Refreshing(k)
    BY <1>3, <2>1
  <2> QED BY <1>4, <1>7, <2>2, SameLife
<1>10. CASE l \in contested
  <2>1. LifeOf(l) = "shared" /\ LifeOf(l)' = "shared"
    BY <1>4, <1>7, <1>10 DEF LifeOf
  <2>2. \A k \in Sid : LifeOf(k)' = LifeOf(k)
    BY <1>9, <2>1
  <2>3. Promise!Shared(l)
    BY <1>8, <2>1, <2>2 DEF Promise!Shared
  <2> QED BY <1>7, <2>3 DEF Promise!Next
<1>11. CASE l \notin contested
  <2>1. LiveRows(l) = {}
    BY <1>3, <1>11 DEF SoleInv
  <2>2. LifeOf(l) = "renewing" /\ LifeOf(l)' = "open"
    BY <1>3, <1>4, <1>6, <1>7, <1>11, <2>1 DEF LifeOf
  <2>3. Promise!Becomes(l, "open")
    BY <1>9, <2>2, BecomesMaps
  <2>4. Promise!Open(l)
    BY <1>8, <2>1, <2>2, <2>3 DEF Promise!Open
  <2> QED BY <1>7, <2>4 DEF Promise!Next
<1> QED BY <1>10, <1>11

\* A refresh that dies loses its login, unless it is shared or the row is not
\* yet revoked.
LEMMA AbandonMaps ==
  ASSUME TypeOK, SoleInv, NEW r \in Req, Abandon(r)
  PROVE  (Promise!Next \/ UNCHANGED Promise!lifeVars) /\ \A k : Known(k) => Known(k)'
<1>1. PICK l \in Sid : l = rows[held[r]].login
  BY RowType, AbandonEffect
<1>2. /\ held[r] \in 1 .. Len(rows) /\ rows' = rows
      /\ r \in Refreshing(l)
      /\ \A k : LiveRows(k)' = LiveRows(k)
      /\ \A k : Refreshing(k)' = Refreshing(k) \ {r}
  BY <1>1, AbandonEffect
<1>3. contested' = contested
  BY DEF Abandon
<1>4. Known(l) /\ Spent' = Spent /\ \A k : Known(k)' <=> Known(k)
  BY <1>1, <1>2 DEF Known, Spent
<1>5. \A k \in Sid \ {l} : LifeOf(k)' = LifeOf(k)
  <2>1. \A k \in Sid \ {l} : r \notin Refreshing(k)
    BY <1>1 DEF Refreshing
  <2>2. \A k \in Sid \ {l} : Refreshing(k)' = Refreshing(k)
    BY <1>2, <2>1
  <2> QED BY <1>2, <1>3, <1>4, <2>2, SameLife
<1>6. CASE l \in contested \/ LiveRows(l) # {}
  <2>1. LifeOf(l)' = LifeOf(l)
    BY <1>2, <1>3, <1>4, <1>6 DEF LifeOf
  <2> QED BY <1>2, <1>4, <1>5, <2>1, StutterMaps
<1>7. CASE l \notin contested /\ LiveRows(l) = {}
  <2>1. Refreshing(l)' = {}
    BY <1>2, <1>7 DEF SoleInv
  <2>2. LifeOf(l) = "renewing" /\ LifeOf(l)' = "over"
    BY <1>2, <1>3, <1>4, <1>7, <2>1 DEF LifeOf
  <2>3. Promise!Becomes(l, "over")
    BY <1>5, <2>2, BecomesMaps
  <2>4. Promise!Lose(l)
    BY <1>2, <1>4, <2>2, <2>3 DEF Promise!Lose
  <2> QED BY <1>4, <2>4 DEF Promise!Next
<1> QED BY <1>6, <1>7

\* Every step of the handlers is a step of LoginLife, or invisible to it.
LEMMA PromiseStep ==
  ASSUME TypeOK, IdInv, SoleInv, ContestedKnown, [Next]_vars
  PROVE  (Promise!Next \/ UNCHANGED Promise!lifeVars) /\ ContestedKnown'
<1>1. CASE CreateSession
  BY <1>1, CreateMaps DEF Promise!Next
<1>2. ASSUME NEW s \in Sid, EndSession(s)
      PROVE  (Promise!Next \/ UNCHANGED Promise!lifeVars) /\ ContestedKnown'
  <2>1. contested' = contested
    BY <1>2 DEF EndSession
  <2>2. \A k : Known(k)' <=> Known(k)
    BY <1>2, EndEffect, TableKept
  <2>3. Promise!Next \/ UNCHANGED Promise!lifeVars
    BY <1>2, <2>1, EndEffect, RetireMaps
  <2> QED BY <2>1, <2>2, <2>3 DEF ContestedKnown
<1>3. ASSUME NEW r \in Req, NEW s \in Sid, NEW token \in Sid, RefreshCheck(r, s, token)
      PROVE  (Promise!Next \/ UNCHANGED Promise!lifeVars) /\ ContestedKnown'
  BY <1>3, CheckMaps
<1>4. ASSUME NEW r \in Req, RevokeOld(r)
      PROVE  (Promise!Next \/ UNCHANGED Promise!lifeVars) /\ ContestedKnown'
  <2>1. contested' = contested
    BY <1>4 DEF RevokeOld, history
  <2>2. \A k : Known(k)' <=> Known(k)
    BY <1>4, RevokeEffect, TableKept
  <2>3. PICK s \in 1 .. Len(rows) : s = held[r]
    BY <1>4, RevokeEffect
  <2>4. Promise!Next \/ UNCHANGED Promise!lifeVars
    BY <1>4, <2>1, <2>3, RevokeEffect, RetireMaps
  <2> QED BY <2>1, <2>2, <2>4 DEF ContestedKnown
<1>5. ASSUME NEW r \in Req, InsertNew(r)
      PROVE  (Promise!Next \/ UNCHANGED Promise!lifeVars) /\ ContestedKnown'
  <2>1. contested' = contested
    BY <1>5 DEF InsertNew
  <2> QED BY <1>5, <2>1, InsertMaps DEF ContestedKnown
<1>6. ASSUME NEW r \in Req, Abandon(r)
      PROVE  (Promise!Next \/ UNCHANGED Promise!lifeVars) /\ ContestedKnown'
  <2>1. contested' = contested
    BY <1>6 DEF Abandon
  <2> QED BY <1>6, <2>1, AbandonMaps DEF ContestedKnown
<1>7. ASSUME rows' = rows, contested' = contested,
             \A k : LiveRows(k)' = LiveRows(k) /\ Refreshing(k)' = Refreshing(k)
      PROVE  (Promise!Next \/ UNCHANGED Promise!lifeVars) /\ ContestedKnown'
  <2>1. Spent' = Spent /\ \A k : Known(k)' <=> Known(k)
    BY <1>7 DEF Spent, Known
  <2>2. \A k \in Sid : LifeOf(k)' = LifeOf(k)
    BY <1>7, <2>1, SameLife
  <2> QED BY <1>7, <2>1, <2>2, StutterMaps DEF ContestedKnown
<1>8. ASSUME NEW r \in Req, MintTokens(r)
      PROVE  (Promise!Next \/ UNCHANGED Promise!lifeVars) /\ ContestedKnown'
  <2>1. contested' = contested
    BY <1>8 DEF MintTokens, history
  <2> QED BY <1>7, <1>8, <2>1, MintEffect
<1>9. CASE UNCHANGED <<rows, pc, held, contested>>
  BY <1>7, <1>9, QuietEffect
<1> QED BY <1>1, <1>2, <1>3, <1>4, <1>5, <1>6, <1>8, <1>9
        DEF Next, Refresh, Expire, vars, history

\* A login that refreshes one at a time has one good token until it is over,
\* and no retired token is ever good again: for any number of handlers, of
\* crashes and of failures of Keycloak (lines 69-157 of session_service.py).
THEOREM SessionsKeepsPromise == Spec => KeepsPromise
<1>1. Init => Promise!Init /\ ContestedKnown
  <2> SUFFICES ASSUME Init PROVE Promise!Init /\ ContestedKnown
    OBVIOUS
  <2>1. \A l \in Sid : LiveRows(l) = {} /\ LifeOf(l) = "none"
    BY DEF Init, LiveRows, LifeOf, Known
  <2>2. Spent = {} /\ ContestedKnown
    BY DEF Init, Spent, ContestedKnown
  <2> QED BY <2>1, <2>2 DEF Promise!Init
<1>2. /\ TypeOK /\ IdInv /\ (SoleInv /\ ClosedInv) /\ ContestedKnown /\ [Next]_vars
      => [Promise!Next]_(Promise!lifeVars) /\ ContestedKnown'
  BY PromiseStep
<1> QED BY <1>1, <1>2, SessionsTypeOK, SessionsIdInv, SessionsSole, PTL
        DEF Spec, KeepsPromise, Promise!Spec

=============================================================================
