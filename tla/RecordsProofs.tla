--------------------------- MODULE RecordsProofs ---------------------------
(***************************************************************************)
(* Proofs about Tenants, Profile, Commissions and their composition        *)
(* Records, for any number of handlers and of records of each kind.        *)
(***************************************************************************)
EXTENDS Records, TLAPS, FiniteSetTheorems

-----------------------------------------------------------------------------
(* Slugs *)

\* Of one name, different numbers make different slugs (lines 39-44 of
\* domains/tenants/service.py).
LEMMA CandidateInjective ==
  ASSUME NEW base \in BaseSlug, NEW n \in Nat, NEW m \in Nat,
         Candidate(base, n) = Candidate(base, m)
  PROVE  n = m
<1>1. base \in Seq(Nat)
  BY TenantsAssumption
<1>2. /\ Len(Append(base, n)) = Len(base) + 1 /\ Append(base, n)[Len(base) + 1] = n
      /\ Len(Append(base, m)) = Len(base) + 1 /\ Append(base, m)[Len(base) + 1] = m
      /\ Len(base) \in Nat
  BY <1>1
<1>3. CASE n = 0 \/ m = 0
  <2>1. base # Append(base, n) /\ base # Append(base, m)
    BY <1>2
  <2> QED BY <1>3, <2>1 DEF Candidate
<1>4. CASE n # 0 /\ m # 0
  BY <1>2, <1>4 DEF Candidate
<1> QED BY <1>3, <1>4

\* There are no more numbers taken in a row than tenants: the loop over the
\* candidates ends.
LEMMA TakenInARow ==
  ASSUME Len(tenants) \in Nat, NEW base \in BaseSlug, NEW c \in Nat,
         \A k \in 0 .. c - 1 : Taken(Candidate(base, k))
  PROVE  c <= Len(tenants)
<1> DEFINE S == 0 .. c - 1
           T == 1 .. Len(tenants)
           f == [k \in S |-> CHOOSE i \in T : tenants[i].slug = Candidate(base, k)]
<1>1. \A k \in S : f[k] \in T /\ tenants[f[k]].slug = Candidate(base, k)
  <2> SUFFICES ASSUME NEW k \in S
               PROVE  f[k] \in T /\ tenants[f[k]].slug = Candidate(base, k)
    OBVIOUS
  <2>1. \E i \in T : tenants[i].slug = Candidate(base, k)
    BY DEF Taken
  <2> QED BY <2>1
<1>2. f \in [S -> T]
  BY <1>1
<1>3. \A k, m \in S : f[k] = f[m] => k = m
  <2> HIDE DEF f
  <2> SUFFICES ASSUME NEW k \in S, NEW m \in S, f[k] = f[m]
               PROVE  k = m
    OBVIOUS
  <2>1. Candidate(base, k) = Candidate(base, m)
    BY <1>1
  <2> QED BY <2>1, CandidateInjective
<1>4. IsFiniteSet(S) /\ Cardinality(S) = c
  <2>1. 0 \in Int /\ c - 1 \in Int /\ (IF 0 > c - 1 THEN 0 ELSE (c - 1) - 0 + 1) = c
    OBVIOUS
  <2> QED BY <2>1, FS_Interval
<1>5. IsFiniteSet(T) /\ Cardinality(T) = Len(tenants)
  <2>1. /\ 1 \in Int /\ Len(tenants) \in Int
        /\ (IF 1 > Len(tenants) THEN 0 ELSE Len(tenants) - 1 + 1) = Len(tenants)
    OBVIOUS
  <2> QED BY <2>1, FS_Interval
<1> HIDE DEF S, T, f
<1>6. ~ (Cardinality(T) < Cardinality(S))
  BY <1>2, <1>3, <1>4, <1>5, FS_PigeonHole
<1> QED BY <1>4, <1>5, <1>6

-----------------------------------------------------------------------------
(* Type correctness *)

\* What TypeOK leaves open: every handler has a stage and a task.
Handling == DOMAIN pc = Handler /\ DOMAIN task = Handler

\* A registration has passed over the lower numbers because they were taken.
SlugTried ==
    \A h \in Handler : pc[h] \in {"slug", "insert"} =>
        \A k \in 0 .. task[h].counter - 1 : Taken(Candidate(task[h].base, k))

\* What a handler that begins, goes on or ends leaves of the others.
LEMMA StartEffect ==
  ASSUME Handling, NEW h \in Handler,
         NEW stage \in {"slug", "insert", "approve", "reject"}, NEW t, Start(h, stage, t)
  PROVE  /\ Handling' /\ pc[h] = "idle" /\ pc'[h] = stage /\ task'[h] = t
         /\ \A g \in Handler \ {h} : pc'[g] = pc[g] /\ task'[g] = task[g]
BY DEF Handling, Start, Goto

LEMMA DoneEffect ==
  ASSUME Handling, NEW h \in Handler, Done(h)
  PROVE  /\ Handling' /\ pc'[h] = "idle"
         /\ \A g \in Handler \ {h} : pc'[g] = pc[g] /\ task'[g] = task[g]
BY DEF Handling, Done, Goto

\* A round of the loop takes the slug it tries, or goes on to the next number.
LEMMA TryEffect ==
  ASSUME TypeOK, Handling, SlugTried, NEW h \in Handler, TrySlug(h)
  PROVE  /\ Handling' /\ pc[h] = "slug" /\ pc'[h] \in {"slug", "insert"}
         /\ \A g \in Handler \ {h} : pc'[g] = pc[g] /\ task'[g] = task[g]
         /\ task'[h] \in RegisterTask
         /\ task'[h].base = task[h].base /\ task'[h].owner = task[h].owner
         /\ \A k \in 0 .. task'[h].counter - 1 : Taken(Candidate(task[h].base, k))
         /\ UNCHANGED <<tenants, audit, history>>
<1> DEFINE t == task[h]
<1>1. /\ pc[h] = "slug" /\ t \in RegisterTask /\ UNCHANGED <<tenants, audit, history>>
      /\ \A k \in 0 .. t.counter - 1 : Taken(Candidate(t.base, k))
  BY DEF TrySlug, TypeOK, SlugTried
<1>2. t.counter \in Nat /\ t.counter <= MaxTenants /\ t.base \in BaseSlug
  BY <1>1, TenantsAssumption DEF RegisterTask
<1>3. CASE ~ Taken(Candidate(t.base, t.counter))
  <2>1. pc' = [pc EXCEPT ![h] = "insert"] /\ task' = task
    BY <1>3 DEF TrySlug, Goto
  <2> QED BY <1>1, <2>1 DEF Handling
<1>4. CASE Taken(Candidate(t.base, t.counter))
  <2>1. pc' = pc /\ task' = [task EXCEPT ![h].counter = t.counter + 1]
    BY <1>4 DEF TrySlug
  <2>2. \A k \in 0 .. t.counter : Taken(Candidate(t.base, k))
    <3>1. \A k \in 0 .. t.counter : k = t.counter \/ k \in 0 .. t.counter - 1
      BY <1>2
    <3> QED BY <1>1, <1>4, <3>1
  <2>3. t.counter + 1 <= Len(tenants) /\ Len(tenants) <= MaxTenants /\ Len(tenants) \in Nat
    <3>1. t.counter + 1 \in Nat /\ (t.counter + 1) - 1 = t.counter
      BY <1>2
    <3>2. Len(tenants) <= MaxTenants /\ Len(tenants) \in Nat
      BY DEF TypeOK
    <3> QED BY <1>2, <2>2, <3>1, <3>2, TakenInARow
  <2>4. /\ task'[h] = [t EXCEPT !.counter = t.counter + 1]
        /\ \A g \in Handler \ {h} : task'[g] = task[g]
    BY <2>1 DEF Handling
  <2>5. /\ task'[h] \in RegisterTask
        /\ task'[h].base = t.base /\ task'[h].owner = t.owner
        /\ task'[h].counter = t.counter + 1
    BY <1>1, <1>2, <2>3, <2>4, TenantsAssumption DEF RegisterTask
  <2>6. (t.counter + 1) - 1 = t.counter
    BY <1>2
  <2> QED BY <1>1, <2>1, <2>2, <2>4, <2>5, <2>6 DEF Handling
<1> QED BY <1>3, <1>4

\* A registration inserts a pending tenant with the slug it has tried, or ends
\* without one.
LEMMA InsertEffect ==
  ASSUME TypeOK, Handling, NEW h \in Handler, InsertTenant(h)
  PROVE  /\ Handling' /\ pc[h] = "insert" /\ pc'[h] = "idle"
         /\ task[h] \in RegisterTask
         /\ \A g \in Handler \ {h} : pc'[g] = pc[g] /\ task'[g] = task[g]
         /\ UNCHANGED <<audit, history>>
         /\ \/ tenants' = tenants
            \/ /\ tenants' \in Seq(Tenant) /\ Len(tenants) \in Nat
               /\ Len(tenants') = Len(tenants) + 1 /\ Len(tenants') <= MaxTenants
               /\ \A i \in 1 .. Len(tenants) : tenants'[i] = tenants[i]
               /\ tenants'[Len(tenants) + 1].owner = task[h].owner
               /\ tenants'[Len(tenants) + 1].base = task[h].base
               /\ tenants'[Len(tenants) + 1].slug = Candidate(task[h].base, task[h].counter)
               /\ tenants'[Len(tenants) + 1].status = "pending"
<1> DEFINE t == task[h]
           x == [owner |-> t.owner, base |-> t.base,
                 slug |-> Candidate(t.base, t.counter), status |-> "pending"]
<1>1. /\ pc[h] = "insert" /\ t \in RegisterTask /\ Done(h)
      /\ UNCHANGED <<audit, history>>
      /\ \/ Len(tenants) < MaxTenants /\ tenants' = Append(tenants, x)
         \/ UNCHANGED tenants
  BY DEF InsertTenant, TypeOK
<1>2. x \in Tenant
  <2>1. t.owner \in Owner /\ t.base \in BaseSlug /\ t.counter \in 0 .. MaxTenants
    BY <1>1 DEF RegisterTask
  <2>2. Candidate(t.base, t.counter) \in Slug
    BY <2>1 DEF Slug
  <2> QED BY <2>1, <2>2 DEF Tenant, Status
<1>3. /\ tenants \in Seq(Tenant) /\ Len(tenants) \in Nat
      /\ x.owner = t.owner /\ x.base = t.base
      /\ x.slug = Candidate(t.base, t.counter) /\ x.status = "pending"
  BY DEF TypeOK
<1> HIDE DEF x
<1>4. ASSUME Len(tenants) < MaxTenants, tenants' = Append(tenants, x)
      PROVE  /\ tenants' \in Seq(Tenant)
             /\ Len(tenants') = Len(tenants) + 1 /\ Len(tenants') <= MaxTenants
             /\ \A i \in 1 .. Len(tenants) : tenants'[i] = tenants[i]
             /\ tenants'[Len(tenants) + 1] = x
  BY <1>2, <1>3, <1>4, TenantsAssumption
<1>5. /\ Handling' /\ pc'[h] = "idle"
      /\ \A g \in Handler \ {h} : pc'[g] = pc[g] /\ task'[g] = task[g]
  BY <1>1, DoneEffect
<1> QED BY <1>1, <1>3, <1>4, <1>5

\* A review writes one status and appends one entry that begins at what it read.
LEMMA DecideEffect ==
  ASSUME TypeOK, Handling, NEW h \in Handler, Approve(h) \/ Reject(h)
  PROVE  /\ Handling' /\ pc[h] \in {"approve", "reject"} /\ pc'[h] = "idle"
         /\ \A g \in Handler \ {h} : pc'[g] = pc[g] /\ task'[g] = task[g]
         /\ UNCHANGED history
         /\ task[h] \in ReviewTask /\ task[h].tenant \in 1 .. Len(tenants)
         /\ tenants' \in Seq(Tenant) /\ Len(tenants) \in Nat
         /\ Len(tenants') = Len(tenants)
         /\ \A i \in 1 .. Len(tenants) :
              /\ tenants'[i].owner = tenants[i].owner /\ tenants'[i].base = tenants[i].base
              /\ tenants'[i].slug = tenants[i].slug
              /\ i # task[h].tenant => tenants'[i].status = tenants[i].status
         /\ audit' \in Seq(Review) /\ Len(audit) \in Nat
         /\ Len(audit') = Len(audit) + 1 /\ Len(audit') <= MaxReviews
         /\ \A k \in 1 .. Len(audit) : audit'[k] = audit[k]
         /\ audit'[Len(audit) + 1].tenant = task[h].tenant
         /\ audit'[Len(audit) + 1].old = task[h].read
         /\ tenants'[task[h].tenant].status =
              IF audit'[Len(audit) + 1].new = task[h].read
                THEN tenants[task[h].tenant].status ELSE audit'[Len(audit) + 1].new
<1>1. PICK status \in {"active", "rejected"} :
        /\ pc[h] \in {"approve", "reject"} /\ Len(audit) < MaxReviews
        /\ tenants' = [tenants EXCEPT ![task[h].tenant].status =
                          IF task[h].read = status THEN tenants[task[h].tenant].status
                                                   ELSE status]
        /\ audit' = Append(audit, [tenant |-> task[h].tenant, old |-> task[h].read,
                                   new |-> status])
        /\ Done(h) /\ UNCHANGED history
  BY DEF Approve, Reject, Decide
<1>2. /\ task[h] \in ReviewTask /\ task[h].tenant \in 1 .. Len(tenants)
      /\ tenants \in Seq(Tenant) /\ Len(tenants) \in Nat
      /\ audit \in Seq(Review) /\ Len(audit) \in Nat
  BY <1>1, TenantsAssumption DEF TypeOK, ReviewTask
<1>3. PICK i \in 1 .. Len(tenants) : i = task[h].tenant
  BY <1>2
<1> DEFINE new == IF task[h].read = status THEN tenants[i].status ELSE status
           x == [tenants[i] EXCEPT !.status = new]
           e == [tenant |-> i, old |-> task[h].read, new |-> status]
<1>4. tenants[i] \in Tenant /\ new \in Status
  <2>1. tenants[i] \in Tenant
    BY <1>2
  <2>2. tenants[i].status \in Status /\ status \in Status
    BY <2>1 DEF Tenant, Status
  <2> QED BY <2>1, <2>2
<1>5. /\ x \in Tenant /\ x.owner = tenants[i].owner /\ x.base = tenants[i].base
      /\ x.slug = tenants[i].slug /\ x.status = new
  BY <1>4 DEF Tenant
<1>6. e \in Review
  BY <1>2, <1>3 DEF Review, ReviewTask
<1>7. tenants' = [tenants EXCEPT ![i] = x] /\ audit' = Append(audit, e)
  BY <1>1, <1>3
<1>8. /\ tenants' \in Seq(Tenant) /\ Len(tenants') = Len(tenants)
      /\ \A j \in 1 .. Len(tenants) : tenants'[j] = IF j = i THEN x ELSE tenants[j]
  <2> HIDE DEF x
  <2> QED BY <1>2, <1>5, <1>7
<1>9. /\ audit' \in Seq(Review)
      /\ Len(audit') = Len(audit) + 1 /\ Len(audit') <= MaxReviews
      /\ \A k \in 1 .. Len(audit) : audit'[k] = audit[k]
      /\ audit'[Len(audit) + 1] = e
  <2> HIDE DEF e
  <2> QED BY <1>1, <1>2, <1>6, <1>7, TenantsAssumption
<1>10. /\ Handling' /\ pc'[h] = "idle"
       /\ \A g \in Handler \ {h} : pc'[g] = pc[g] /\ task'[g] = task[g]
  BY <1>1, DoneEffect
<1>11. /\ tenants'[i].status = new /\ e.tenant = i /\ e.old = task[h].read /\ e.new = status
       /\ \A j \in 1 .. Len(tenants) :
              /\ tenants'[j].owner = tenants[j].owner /\ tenants'[j].base = tenants[j].base
              /\ tenants'[j].slug = tenants[j].slug
              /\ j # i => tenants'[j].status = tenants[j].status
  BY <1>5, <1>8
<1> HIDE DEF e, x
<1> QED BY <1>1, <1>2, <1>3, <1>8, <1>9, <1>10, <1>11

\* The slugs and owners of the rows, and what is left of them in TypeOK, when no
\* slug that was taken is given up.
TakenKept == \A slug : Taken(slug) => Taken(slug)'

\* A step keeps the types and the record of the numbers tried.
LEMMA TypeStep ==
  ASSUME TypeOK, Handling, SlugTried, [Next]_vars
  PROVE  TypeOK' /\ Handling' /\ SlugTried'
<1>1. ASSUME NEW h \in Handler, NEW o \in Owner, NEW base \in BaseSlug, CheckOwner(h, o, base)
      PROVE  TypeOK' /\ Handling' /\ SlugTried'
  <2> DEFINE t == [kind |-> "register", owner |-> o, base |-> base, counter |-> 0]
  <2>1. /\ Handling' /\ pc'[h] = "slug" /\ task'[h] = t
        /\ \A g \in Handler \ {h} : pc'[g] = pc[g] /\ task'[g] = task[g]
    <3>1. Start(h, "slug", t)
      BY <1>1 DEF CheckOwner
    <3> QED BY <3>1, StartEffect
  <2>2. /\ UNCHANGED <<tenants, audit, overlapped>>
        /\ doubled' = doubled \/ doubled' = doubled \union {o}
    BY <1>1 DEF CheckOwner
  <2>3. t \in RegisterTask /\ t.counter = 0
    BY TenantsAssumption DEF RegisterTask
  <2> HIDE DEF t
  <2>4. TypeOK'
    BY <2>1, <2>2, <2>3 DEF TypeOK
  <2>5. SlugTried'
    BY <2>1, <2>2, <2>3 DEF SlugTried, Taken
  <2> QED BY <2>1, <2>4, <2>5
<1>2. ASSUME NEW h \in Handler, TrySlug(h)
      PROVE  TypeOK' /\ Handling' /\ SlugTried'
  <2>1. /\ Handling' /\ pc'[h] \in {"slug", "insert"}
        /\ \A g \in Handler \ {h} : pc'[g] = pc[g] /\ task'[g] = task[g]
        /\ task'[h] \in RegisterTask /\ task'[h].base = task[h].base
        /\ \A k \in 0 .. task'[h].counter - 1 : Taken(Candidate(task[h].base, k))
        /\ UNCHANGED <<tenants, audit, doubled, overlapped>>
    BY <1>2, TryEffect DEF history
  <2>2. TypeOK'
    BY <2>1 DEF TypeOK
  <2>3. SlugTried'
    BY <2>1 DEF SlugTried, Taken
  <2> QED BY <2>1, <2>2, <2>3
<1>3. ASSUME NEW h \in Handler, InsertTenant(h)
      PROVE  TypeOK' /\ Handling' /\ SlugTried'
  <2>1. /\ Handling' /\ pc'[h] = "idle"
        /\ \A g \in Handler \ {h} : pc'[g] = pc[g] /\ task'[g] = task[g]
        /\ UNCHANGED <<audit, doubled, overlapped>>
    BY <1>3, InsertEffect DEF history
  <2>2. /\ tenants' \in Seq(Tenant) /\ Len(tenants') <= MaxTenants
        /\ Len(tenants) <= Len(tenants') /\ Len(tenants) \in Nat /\ Len(tenants') \in Nat
        /\ \A i \in 1 .. Len(tenants) : tenants'[i] = tenants[i]
    <3>1. tenants \in Seq(Tenant) /\ Len(tenants) <= MaxTenants /\ Len(tenants) \in Nat
      BY DEF TypeOK
    <3>2. CASE tenants' = tenants
      BY <3>1, <3>2
    <3>3. CASE tenants' # tenants
      <4>1. /\ tenants' \in Seq(Tenant) /\ Len(tenants') <= MaxTenants
            /\ Len(tenants') = Len(tenants) + 1
            /\ \A i \in 1 .. Len(tenants) : tenants'[i] = tenants[i]
        BY <1>3, <3>3, InsertEffect
      <4> QED BY <3>1, <4>1
    <3> QED BY <3>2, <3>3
  <2>3. TakenKept
    BY <2>2 DEF TakenKept, Taken
  <2>4. TypeOK'
    <3>1. \A g \in Handler : task[g] \in ReviewTask => task[g].tenant \in Nat
      BY DEF ReviewTask
    <3>2. ASSUME NEW g \in Handler
          PROVE  /\ pc'[g] \in {"slug", "insert"} => task'[g] \in RegisterTask
                 /\ pc'[g] \in {"approve", "reject"} =>
                      task'[g] \in ReviewTask /\ task'[g].tenant <= Len(tenants')
      BY <2>1, <2>2, <3>1 DEF TypeOK
    <3>3. \A k \in 1 .. Len(audit) : audit[k].tenant <= Len(tenants')
      <4>1. \A k \in 1 .. Len(audit) : audit[k].tenant \in Nat
        <5>1. \A k \in 1 .. Len(audit) : audit[k] \in Review
          BY DEF TypeOK
        <5> QED BY <5>1 DEF Review
      <4> QED BY <2>2, <4>1 DEF TypeOK
    <3> QED BY <2>1, <2>2, <3>2, <3>3 DEF TypeOK
  <2>5. SlugTried'
    BY <2>1, <2>3 DEF SlugTried, TakenKept
  <2> QED BY <2>1, <2>4, <2>5
<1>4. ASSUME NEW h \in Handler, NEW i \in 1 .. MaxTenants,
             NEW stage \in {"approve", "reject"}, StartReview(h, i, stage)
      PROVE  TypeOK' /\ Handling' /\ SlugTried'
  <2> DEFINE t == [kind |-> "review", tenant |-> i, read |-> tenants[i].status]
  <2>1. /\ Handling' /\ pc'[h] = stage /\ task'[h] = t
        /\ \A g \in Handler \ {h} : pc'[g] = pc[g] /\ task'[g] = task[g]
    <3>1. Start(h, stage, t)
      BY <1>4 DEF StartReview
    <3> QED BY <3>1, StartEffect
  <2>2. /\ UNCHANGED <<tenants, audit, doubled>> /\ i \in 1 .. Len(tenants)
        /\ overlapped' = overlapped \/ overlapped' = overlapped \union {i}
    BY <1>4 DEF StartReview
  <2>3. t \in ReviewTask /\ t.tenant = i
    <3>1. tenants[i] \in Tenant
      BY <2>2 DEF TypeOK
    <3> QED BY <3>1 DEF ReviewTask, Tenant
  <2> HIDE DEF t
  <2>4. TypeOK'
    <3>1. ASSUME NEW g \in Handler
          PROVE  /\ pc'[g] \in {"slug", "insert"} => task'[g] \in RegisterTask
                 /\ pc'[g] \in {"approve", "reject"} =>
                      task'[g] \in ReviewTask /\ task'[g].tenant <= Len(tenants')
      <4>1. CASE g = h
        BY <2>1, <2>2, <2>3, <4>1
      <4>2. CASE g # h
        BY <2>1, <2>2, <4>2 DEF TypeOK
      <4> QED BY <4>1, <4>2
    <3>2. overlapped' \subseteq 1 .. MaxTenants
      BY <2>2 DEF TypeOK
    <3> QED BY <2>2, <3>1, <3>2 DEF TypeOK
  <2>5. SlugTried'
    BY <2>1, <2>2 DEF SlugTried, Taken
  <2> QED BY <2>1, <2>4, <2>5
<1>5. ASSUME NEW h \in Handler, Approve(h) \/ Reject(h)
      PROVE  TypeOK' /\ Handling' /\ SlugTried'
  <2>1. /\ Handling' /\ pc'[h] = "idle"
        /\ \A g \in Handler \ {h} : pc'[g] = pc[g] /\ task'[g] = task[g]
        /\ UNCHANGED <<doubled, overlapped>>
        /\ tenants' \in Seq(Tenant) /\ Len(tenants') = Len(tenants)
        /\ audit' \in Seq(Review) /\ Len(audit') <= MaxReviews
    BY <1>5, DecideEffect DEF history
  <2>2. TakenKept
    BY <1>5, DecideEffect DEF TakenKept, Taken
  <2>3. \A k \in 1 .. Len(audit') : audit'[k].tenant <= Len(tenants')
    <3>1. /\ \A k \in 1 .. Len(audit) : audit'[k] = audit[k]
          /\ audit'[Len(audit) + 1].tenant <= Len(tenants)
          /\ Len(audit') = Len(audit) + 1 /\ Len(audit) \in Nat
      BY <1>5, DecideEffect
    <3>2. \A k \in 1 .. Len(audit') : k \in 1 .. Len(audit) \/ k = Len(audit) + 1
      BY <3>1
    <3> QED BY <2>1, <3>1, <3>2 DEF TypeOK
  <2>4. TypeOK'
    BY <2>1, <2>3 DEF TypeOK
  <2>5. SlugTried'
    BY <2>1, <2>2 DEF SlugTried, TakenKept
  <2> QED BY <2>1, <2>4, <2>5
<1>6. ASSUME NEW h \in Handler, Fail(h)
      PROVE  TypeOK' /\ Handling' /\ SlugTried'
  <2>1. /\ Handling' /\ pc'[h] = "idle"
        /\ \A g \in Handler \ {h} : pc'[g] = pc[g] /\ task'[g] = task[g]
        /\ UNCHANGED <<tenants, audit, doubled, overlapped>>
    BY <1>6, DoneEffect DEF Fail, Quit, history
  <2> QED BY <2>1 DEF TypeOK, SlugTried, Taken
<1>7. CASE UNCHANGED vars
  BY <1>7 DEF vars, history, TypeOK, Handling, SlugTried, Taken
<1> QED BY <1>1, <1>2, <1>3, <1>4, <1>5, <1>6, <1>7 DEF Next, Register, ReviewTenant

\* The tables and the handlers of tenants are well typed; in particular the
\* number of a slug stays within the number of tenants.
LEMMA TenantsTyped == Spec => [](TypeOK /\ Handling /\ SlugTried)
<1>1. Init => TypeOK /\ Handling /\ SlugTried
  BY TenantsAssumption DEF Init, HandlersInit, TypeOK, Handling, SlugTried
<1>2. (TypeOK /\ Handling /\ SlugTried) /\ [Next]_vars
        => (TypeOK /\ Handling /\ SlugTried)'
  BY TypeStep
<1> QED BY <1>1, <1>2, PTL DEF Spec

\* The tables and the registrations and reviews in flight are well typed: no
\* loop over the candidates goes past the tenants there are (lines 42-44).
THEOREM TenantsTypeOK == Spec => []TypeOK
BY TenantsTyped, PTL

-----------------------------------------------------------------------------
(* One tenant per owner *)

\* An owner whose registrations never met has a tenant or one registration in
\* flight that has found none.
OwnerInv ==
    \A o \in Owner \ doubled :
        /\ \A i, j \in TenantsOf(o) : i = j
        /\ \A g, h \in Registering(o) : g = h
        /\ \A h \in Registering(o) : TenantsOf(o) = {}

\* Handlers that leave the tenants alone and begin no registration keep it.
LEMMA OwnerKept ==
  ASSUME OwnerInv, doubled \subseteq doubled', \A o : TenantsOf(o)' = TenantsOf(o),
         \A o : Registering(o)' \subseteq Registering(o)
  PROVE  OwnerInv'
BY DEF OwnerInv

\* A step keeps the owners whose registrations never met to one tenant.
LEMMA OwnerStep ==
  ASSUME TypeOK, Handling, SlugTried, OwnerInv, [Next]_vars
  PROVE  OwnerInv'
<1>1. ASSUME NEW h \in Handler, NEW o \in Owner, NEW base \in BaseSlug, CheckOwner(h, o, base)
      PROVE  OwnerInv'
  <2> DEFINE t == [kind |-> "register", owner |-> o, base |-> base, counter |-> 0]
  <2>1. /\ pc[h] = "idle" /\ pc'[h] = "slug" /\ task'[h] = t
        /\ \A g \in Handler \ {h} : pc'[g] = pc[g] /\ task'[g] = task[g]
    <3>1. Start(h, "slug", t)
      BY <1>1 DEF CheckOwner
    <3> QED BY <3>1, StartEffect
  <2>2. t.owner = o
    OBVIOUS
  <2> HIDE DEF t
  <2>3. \A k : Registering(k)' = IF k = o THEN Registering(k) \union {h} ELSE Registering(k)
    BY <2>1, <2>2 DEF Registering
  <2>4. /\ TenantsOf(o) = {} /\ \A k : TenantsOf(k)' = TenantsOf(k)
        /\ doubled' = IF Registering(o) = {} THEN doubled ELSE doubled \union {o}
    BY <1>1 DEF CheckOwner, TenantsOf
  <2> QED BY <2>3, <2>4 DEF OwnerInv
<1>2. ASSUME NEW h \in Handler, TrySlug(h)
      PROVE  OwnerInv'
  <2>1. \A k : Registering(k)' = Registering(k)
    BY <1>2, TryEffect DEF Registering
  <2>2. doubled' = doubled /\ \A k : TenantsOf(k)' = TenantsOf(k)
    BY <1>2, TryEffect DEF TenantsOf, history
  <2> QED BY <2>1, <2>2, OwnerKept
<1>3. ASSUME NEW h \in Handler, InsertTenant(h)
      PROVE  OwnerInv'
  <2>1. /\ pc[h] = "insert" /\ pc'[h] = "idle" /\ doubled' = doubled
        /\ \A g \in Handler \ {h} : pc'[g] = pc[g] /\ task'[g] = task[g]
    BY <1>3, InsertEffect DEF history
  <2>2. \A k : Registering(k)' = Registering(k) \ {h}
    BY <2>1 DEF Registering
  <2>3. CASE tenants' = tenants
    BY <2>1, <2>2, <2>3, OwnerKept DEF TenantsOf
  <2>4. CASE tenants' # tenants
    <3>1. PICK o \in Owner : o = task[h].owner
      BY <1>3, InsertEffect DEF RegisterTask
    <3>2. PICK n \in Nat : n = Len(tenants) + 1
      BY DEF TypeOK
    <3>3. /\ Len(tenants) \in Nat /\ Len(tenants') = n
          /\ \A i \in 1 .. Len(tenants) : tenants'[i] = tenants[i]
          /\ tenants'[n].owner = o
      BY <1>3, <2>4, <3>1, <3>2, InsertEffect
    <3>4. \A k : TenantsOf(k)' = IF k = o THEN TenantsOf(k) \union {n} ELSE TenantsOf(k)
      <4>1. 1 .. Len(tenants') = (1 .. Len(tenants)) \union {n}
        BY <3>2, <3>3
      <4> QED BY <3>2, <3>3, <4>1 DEF TenantsOf
    <3>5. h \in Registering(o)
      BY <2>1, <3>1 DEF Registering
    <3> QED BY <2>1, <2>2, <3>4, <3>5 DEF OwnerInv
  <2> QED BY <2>3, <2>4
<1>4. ASSUME NEW h \in Handler, NEW i \in 1 .. MaxTenants,
             NEW stage \in {"approve", "reject"}, StartReview(h, i, stage)
      PROVE  OwnerInv'
  <2>1. /\ pc[h] = "idle" /\ pc'[h] = stage
        /\ \A g \in Handler \ {h} : pc'[g] = pc[g] /\ task'[g] = task[g]
        /\ UNCHANGED <<tenants, doubled>>
    BY <1>4, StartEffect DEF StartReview
  <2>2. \A k : Registering(k)' = Registering(k) /\ TenantsOf(k)' = TenantsOf(k)
    BY <2>1 DEF Registering, TenantsOf
  <2> QED BY <2>1, <2>2, OwnerKept
<1>5. ASSUME NEW h \in Handler, Approve(h) \/ Reject(h)
      PROVE  OwnerInv'
  <2>1. \A k : TenantsOf(k)' = TenantsOf(k)
    BY <1>5, DecideEffect DEF TenantsOf
  <2>2. doubled' = doubled /\ \A k : Registering(k)' = Registering(k)
    BY <1>5, DecideEffect DEF Registering, history
  <2> QED BY <2>1, <2>2, OwnerKept
<1>6. ASSUME NEW h \in Handler, Fail(h)
      PROVE  OwnerInv'
  <2>1. /\ pc'[h] = "idle" /\ UNCHANGED <<tenants, doubled>>
        /\ \A g \in Handler \ {h} : pc'[g] = pc[g] /\ task'[g] = task[g]
    BY <1>6, DoneEffect DEF Fail, Quit, history
  <2>2. \A k : Registering(k)' \subseteq Registering(k) /\ TenantsOf(k)' = TenantsOf(k)
    BY <2>1 DEF Registering, TenantsOf
  <2> QED BY <2>1, <2>2, OwnerKept
<1>7. CASE UNCHANGED vars
  BY <1>7, OwnerKept DEF vars, history, Registering, TenantsOf
<1> QED BY <1>1, <1>2, <1>3, <1>4, <1>5, <1>6, <1>7 DEF Next, Register, ReviewTenant

\* What the invariant says of the rows.
LEMMA OwnersTold == OwnerInv => OneTenantPerOwner
<1> SUFFICES ASSUME OwnerInv, NEW o \in Owner \ doubled
             PROVE  Cardinality(TenantsOf(o)) <= 1
  BY DEF OneTenantPerOwner
<1>1. CASE TenantsOf(o) = {}
  <2>1. Cardinality(TenantsOf(o)) = 0
    BY <1>1, FS_EmptySet
  <2> QED BY <2>1
<1>2. CASE TenantsOf(o) # {}
  <2>1. PICK i : TenantsOf(o) = {i}
    BY <1>2 DEF OwnerInv
  <2>2. Cardinality(TenantsOf(o)) = 1
    BY <2>1, FS_Singleton
  <2> QED BY <2>2
<1> QED BY <1>1, <1>2

\* Whatever registrations, reviews and failures interleave, an owner whose
\* registrations never overlapped has one tenant (lines 31-49).
THEOREM TenantsOneTenantPerOwner == Spec => []OneTenantPerOwner
<1>1. Init => OwnerInv
  BY DEF Init, HandlersInit, OwnerInv, TenantsOf, Registering
<1>2. (TypeOK /\ Handling /\ SlugTried) /\ OwnerInv /\ [Next]_vars => OwnerInv'
  BY OwnerStep
<1>3. OwnerInv => OneTenantPerOwner
  BY OwnersTold
<1> QED BY <1>1, <1>2, <1>3, TenantsTyped, PTL DEF Spec

-----------------------------------------------------------------------------
(* Slugs are numbered without gaps *)

\* Rows that keep what their slug was made from keep the order.
LEMMA SlugsKept ==
  ASSUME SlugsInOrder, Len(tenants) \in Nat, Len(tenants') = Len(tenants),
         \A i \in 1 .. Len(tenants) :
           tenants'[i].base = tenants[i].base /\ tenants'[i].slug = tenants[i].slug
  PROVE  SlugsInOrder'
<1> SUFFICES ASSUME NEW i \in 1 .. Len(tenants), NEW n \in 0 .. MaxTenants,
                    tenants[i].slug = Candidate(tenants[i].base, n),
                    NEW k \in 0 .. n - 1
             PROVE  \E j \in 1 .. i - 1 : tenants'[j].slug = Candidate(tenants[i].base, k)
  BY DEF SlugsInOrder
<1>1. PICK j \in 1 .. i - 1 : tenants[j].slug = Candidate(tenants[i].base, k)
  BY DEF SlugsInOrder
<1>2. j \in 1 .. Len(tenants)
  OBVIOUS
<1> QED BY <1>1, <1>2

\* A step keeps the slugs in order.
LEMMA SlugStep ==
  ASSUME TypeOK, Handling, SlugTried, SlugsInOrder, [Next]_vars
  PROVE  SlugsInOrder'
<1>1. Len(tenants) \in Nat
  BY DEF TypeOK
<1>2. ASSUME UNCHANGED tenants
      PROVE  SlugsInOrder'
  BY <1>2, <1>1, SlugsKept
<1>3. ASSUME NEW h \in Handler, InsertTenant(h), tenants' # tenants
      PROVE  SlugsInOrder'
  <2>1. PICK n \in Nat : n = Len(tenants) + 1
    BY <1>1
  <2>2. PICK base \in BaseSlug, c \in Nat : base = task[h].base /\ c = task[h].counter
    <3>1. task[h] \in RegisterTask
      BY <1>3, InsertEffect
    <3>2. task[h].base \in BaseSlug /\ task[h].counter \in Nat
      BY <3>1 DEF RegisterTask
    <3> QED BY <3>2
  <2>3. /\ Len(tenants') = n
        /\ \A i \in 1 .. Len(tenants) : tenants'[i] = tenants[i]
        /\ tenants'[n].base = base /\ tenants'[n].slug = Candidate(base, c)
    BY <1>3, <2>1, <2>2, InsertEffect
  <2>4. \A k \in 0 .. c - 1 : \E j \in 1 .. n - 1 : tenants[j].slug = Candidate(base, k)
    <3>1. \A k \in 0 .. c - 1 : Taken(Candidate(base, k))
      BY <1>3, <2>2, InsertEffect DEF SlugTried
    <3>2. 1 .. n - 1 = 1 .. Len(tenants)
      BY <1>1, <2>1
    <3> QED BY <3>1, <3>2 DEF Taken
  <2> SUFFICES ASSUME NEW i \in 1 .. n, NEW m \in 0 .. MaxTenants,
                      tenants'[i].slug = Candidate(tenants'[i].base, m),
                      NEW k \in 0 .. m - 1
               PROVE  \E j \in 1 .. i - 1 : tenants'[j].slug = Candidate(tenants'[i].base, k)
    BY <2>3 DEF SlugsInOrder
  <2>5. \A j \in 1 .. n - 1 : tenants'[j] = tenants[j]
    BY <1>1, <2>1, <2>3
  <2>6. CASE i = n
    <3>1. m \in Nat
      BY TenantsAssumption
    <3>2. m = c
      BY <2>3, <2>6, <3>1, CandidateInjective
    <3> QED BY <2>3, <2>4, <2>5, <2>6, <3>2
  <2>7. CASE i # n
    <3>1. i \in 1 .. Len(tenants) /\ tenants'[i] = tenants[i]
      BY <1>1, <2>1, <2>3, <2>7
    <3>2. PICK j \in 1 .. i - 1 : tenants[j].slug = Candidate(tenants[i].base, k)
      BY <3>1 DEF SlugsInOrder
    <3>3. j \in 1 .. n - 1
      BY <3>1
    <3> QED BY <2>5, <3>1, <3>2, <3>3
  <2> QED BY <2>6, <2>7
<1>4. ASSUME NEW h \in Handler, Approve(h) \/ Reject(h)
      PROVE  SlugsInOrder'
  BY <1>1, <1>4, DecideEffect, SlugsKept
<1> QED BY <1>2, <1>3, <1>4
        DEF Next, Register, ReviewTenant, CheckOwner, TrySlug, StartReview, Fail, vars

\* A slug has a number only when the plain one and every lower number were
\* taken before it, also where a plain slug is another's numbered one
\* (lines 39-44).
THEOREM TenantsSlugsInOrder == Spec => []SlugsInOrder
<1>1. Init => SlugsInOrder
  BY DEF Init, SlugsInOrder
<1>2. (TypeOK /\ Handling /\ SlugTried) /\ SlugsInOrder /\ [Next]_vars => SlugsInOrder'
  BY SlugStep
<1> QED BY <1>1, <1>2, TenantsTyped, PTL DEF Spec

-----------------------------------------------------------------------------
(* The audit log is the history of a tenant *)

\* A review that has met no other has read the status its tenant still has.
ReviewInv ==
    \A i \in (1 .. Len(tenants)) \ overlapped :
        /\ \A g, h \in Reviewing(i) : g = h
        /\ \A h \in Reviewing(i) : task[h].read = tenants[i].status

\* What a log tells after k entries depends on these entries only.
LEMMA LeavesKept ==
  ASSUME NEW log, NEW longer, NEW i, NEW status, NEW k \in Nat,
         \A m \in 1 .. k : longer[m] = log[m], Leaves(log, i, k, status)
  PROVE  Leaves(longer, i, k, status)
<1>1. \A m \in 1 .. k : \A l \in m + 1 .. k : l \in 1 .. k
  OBVIOUS
<1> QED BY <1>1 DEF Leaves

\* One more entry, of another tenant or of this one.
LEMMA LeavesNext ==
  ASSUME NEW log, NEW i, NEW n \in Nat \ {0}
  PROVE  /\ \A status : log[n].tenant # i /\ Leaves(log, i, n - 1, status) => Leaves(log, i, n, status)
         /\ log[n].tenant = i => Leaves(log, i, n, log[n].new)
<1>1. \A m \in 1 .. n : m = n \/ m \in 1 .. n - 1
  OBVIOUS
<1>2. \A m \in 1 .. n - 1 : m \in 1 .. n /\ n \in m + 1 .. n
  OBVIOUS
<1>3. \A m \in 1 .. n - 1 : \A l \in m + 1 .. n : l = n \/ l \in m + 1 .. n - 1
  OBVIOUS
<1>4. ASSUME NEW status, log[n].tenant # i, Leaves(log, i, n - 1, status)
      PROVE  Leaves(log, i, n, status)
  BY <1>1, <1>2, <1>3, <1>4 DEF Leaves
<1>5. ASSUME log[n].tenant = i
      PROVE  Leaves(log, i, n, log[n].new)
  <2>1. n \in 1 .. n /\ \A l \in n + 1 .. n : FALSE
    OBVIOUS
  <2> QED BY <1>5, <2>1 DEF Leaves
<1> QED BY <1>4, <1>5

\* Handlers that leave the tenants and the log alone and begin no review.
LEMMA ReviewsKept ==
  ASSUME ReviewInv, AuditTellsStatus, UNCHANGED <<tenants, audit>>,
         overlapped \subseteq overlapped',
         \A i : Reviewing(i)' \subseteq Reviewing(i),
         \A i : \A h \in Reviewing(i)' : task'[h] = task[h]
  PROVE  ReviewInv' /\ AuditTellsStatus'
BY DEF ReviewInv, AuditTellsStatus

\* A new tenant has no entries and no reviews.
LEMMA NewTenantReviews ==
  ASSUME TypeOK, Handling, ReviewInv, AuditTellsStatus, NEW h \in Handler, InsertTenant(h)
  PROVE  ReviewInv' /\ AuditTellsStatus'
<1>1. /\ pc[h] = "insert" /\ pc'[h] = "idle" /\ UNCHANGED <<audit, overlapped>>
      /\ \A g \in Handler \ {h} : pc'[g] = pc[g] /\ task'[g] = task[g]
  BY InsertEffect DEF history
<1>2. \A i : Reviewing(i)' = Reviewing(i) /\ h \notin Reviewing(i)
  BY <1>1 DEF Reviewing
<1>3. \A i : \A g \in Reviewing(i)' : task'[g] = task[g]
  BY <1>1, <1>2 DEF Reviewing
<1>4. CASE tenants' = tenants
  BY <1>1, <1>2, <1>3, <1>4, ReviewsKept
<1>5. CASE tenants' # tenants
  <2>1. PICK n \in Nat : n = Len(tenants) + 1
    BY DEF TypeOK
  <2>2. /\ Len(tenants) \in Nat /\ Len(tenants') = n
        /\ \A i \in 1 .. Len(tenants) : tenants'[i] = tenants[i]
        /\ tenants'[n].status = "pending"
    BY <1>5, <2>1, InsertEffect
  <2>3. \A i \in 1 .. n : i = n \/ i \in 1 .. Len(tenants)
    BY <2>1, <2>2
  <2>4. Reviewing(n) = {}
    <3>1. ASSUME NEW g \in Reviewing(n)
          PROVE  FALSE
      BY <2>1, <2>2 DEF Reviewing, TypeOK
    <3> QED BY <3>1
  <2>6. \A k \in 1 .. Len(audit) : audit[k].tenant # n
    BY <2>1, <2>2 DEF TypeOK
  <2>5. Leaves(audit, n, Len(audit), "pending")
    BY <2>6 DEF Leaves
  <2>7. ReviewInv'
    BY <1>1, <1>2, <1>3, <2>2, <2>3, <2>4 DEF ReviewInv
  <2>8. ASSUME NEW i \in (1 .. n) \ overlapped
        PROVE  /\ Leaves(audit, i, Len(audit), tenants'[i].status)
               /\ \A k \in 1 .. Len(audit) :
                    audit[k].tenant = i => Leaves(audit, i, k - 1, audit[k].old)
    BY <2>2, <2>3, <2>5, <2>6 DEF AuditTellsStatus
  <2>9. AuditTellsStatus'
    BY <1>1, <2>2, <2>8 DEF AuditTellsStatus
  <2> QED BY <2>7, <2>9
<1> QED BY <1>4, <1>5

\* A review that met no other appends an entry that begins where the log left
\* its tenant, and leaves the status that the entry tells.
LEMMA DecideReviews ==
  ASSUME TypeOK, Handling, ReviewInv, AuditTellsStatus,
         NEW h \in Handler, Approve(h) \/ Reject(h)
  PROVE  ReviewInv' /\ AuditTellsStatus'
<1>1. PICK d \in 1 .. Len(tenants) : d = task[h].tenant
  BY DecideEffect
<1>2. PICK n \in Nat : n = Len(audit) + 1
  BY DecideEffect
<1>3. /\ pc[h] \in {"approve", "reject"} /\ pc'[h] = "idle" /\ overlapped' = overlapped
      /\ \A g \in Handler \ {h} : pc'[g] = pc[g] /\ task'[g] = task[g]
      /\ Len(tenants) \in Nat /\ Len(tenants') = Len(tenants)
      /\ \A i \in 1 .. Len(tenants) : i # d => tenants'[i].status = tenants[i].status
      /\ Len(audit) \in Nat /\ Len(audit') = n
      /\ \A k \in 1 .. Len(audit) : audit'[k] = audit[k]
      /\ audit'[n].tenant = d /\ audit'[n].old = task[h].read
      /\ tenants'[d].status = IF audit'[n].new = task[h].read
                                THEN tenants[d].status ELSE audit'[n].new
  BY <1>1, <1>2, DecideEffect DEF history
<1>4. h \in Reviewing(d) /\ \A i : Reviewing(i)' = Reviewing(i) \ {h}
  BY <1>1, <1>3 DEF Reviewing
<1>5. \A i : \A g \in Reviewing(i)' : task'[g] = task[g]
  BY <1>3, <1>4 DEF Reviewing
<1>6. ReviewInv'
  BY <1>3, <1>4, <1>5 DEF ReviewInv
<1>7. ASSUME NEW i \in (1 .. Len(tenants)) \ overlapped
      PROVE  /\ Leaves(audit', i, n, tenants'[i].status)
             /\ \A k \in 1 .. n :
                  audit'[k].tenant = i => Leaves(audit', i, k - 1, audit'[k].old)
  <2>1. n - 1 = Len(audit) /\ n - 1 \in Nat /\ n \in Nat \ {0}
    BY <1>2, <1>3
  <2>2. Leaves(audit', i, n - 1, tenants[i].status)
    <3>1. Leaves(audit, i, n - 1, tenants[i].status)
      BY <2>1 DEF AuditTellsStatus
    <3> QED BY <1>3, <2>1, <3>1, LeavesKept
  <2>3. ASSUME NEW k \in 1 .. n - 1, audit'[k].tenant = i
        PROVE  Leaves(audit', i, k - 1, audit'[k].old)
    <3>1. audit'[k] = audit[k] /\ k \in 1 .. Len(audit)
      BY <1>3, <2>1
    <3>2. Leaves(audit, i, k - 1, audit[k].old)
      BY <2>3, <3>1 DEF AuditTellsStatus
    <3>3. k - 1 \in Nat /\ \A m \in 1 .. k - 1 : audit'[m] = audit[m]
      BY <1>3, <2>1
    <3> QED BY <3>1, <3>2, <3>3, LeavesKept
  <2>4. CASE i = d
    <3>1. task[h].read = tenants[i].status
      BY <1>4, <2>4 DEF ReviewInv
    <3>2. tenants'[i].status = audit'[n].new
      BY <1>3, <2>4, <3>1
    <3>3. Leaves(audit', i, n, tenants'[i].status)
      BY <1>3, <2>1, <2>4, <3>2, LeavesNext
    <3>4. Leaves(audit', i, n - 1, audit'[n].old)
      BY <1>3, <2>2, <3>1
    <3>5. \A k \in 1 .. n : k = n \/ k \in 1 .. n - 1
      OBVIOUS
    <3> QED BY <2>3, <3>3, <3>4, <3>5
  <2>5. CASE i # d
    <3>1. tenants'[i].status = tenants[i].status /\ audit'[n].tenant # i
      BY <1>3, <2>5
    <3>2. Leaves(audit', i, n, tenants'[i].status)
      BY <2>1, <2>2, <3>1, LeavesNext
    <3>3. \A k \in 1 .. n : k = n \/ k \in 1 .. n - 1
      OBVIOUS
    <3> QED BY <2>3, <3>1, <3>2, <3>3
  <2> QED BY <2>4, <2>5
<1>8. AuditTellsStatus'
  BY <1>3, <1>7 DEF AuditTellsStatus
<1> QED BY <1>6, <1>8

\* A step keeps the log the history of every tenant whose reviews never met.
LEMMA ReviewStep ==
  ASSUME TypeOK, Handling, SlugTried, ReviewInv, AuditTellsStatus, [Next]_vars
  PROVE  ReviewInv' /\ AuditTellsStatus'
<1>1. ASSUME NEW h \in Handler, NEW o \in Owner, NEW base \in BaseSlug, CheckOwner(h, o, base)
      PROVE  ReviewInv' /\ AuditTellsStatus'
  <2>1. /\ pc[h] = "idle" /\ pc'[h] = "slug" /\ UNCHANGED <<tenants, audit, overlapped>>
        /\ \A g \in Handler \ {h} : pc'[g] = pc[g] /\ task'[g] = task[g]
    BY <1>1, StartEffect DEF CheckOwner
  <2>2. \A i : Reviewing(i)' = Reviewing(i) /\ h \notin Reviewing(i)
    BY <2>1 DEF Reviewing
  <2>3. \A i : \A g \in Reviewing(i)' : task'[g] = task[g]
    BY <2>1, <2>2 DEF Reviewing
  <2> QED BY <2>1, <2>2, <2>3, ReviewsKept
<1>2. ASSUME NEW h \in Handler, TrySlug(h)
      PROVE  ReviewInv' /\ AuditTellsStatus'
  <2>1. /\ pc[h] = "slug" /\ pc'[h] \in {"slug", "insert"}
        /\ UNCHANGED <<tenants, audit, overlapped>>
        /\ \A g \in Handler \ {h} : pc'[g] = pc[g] /\ task'[g] = task[g]
    BY <1>2, TryEffect DEF history
  <2>2. \A i : Reviewing(i)' = Reviewing(i) /\ h \notin Reviewing(i)
    BY <2>1 DEF Reviewing
  <2>3. \A i : \A g \in Reviewing(i)' : task'[g] = task[g]
    BY <2>1, <2>2 DEF Reviewing
  <2> QED BY <2>1, <2>2, <2>3, ReviewsKept
<1>3. ASSUME NEW h \in Handler, NEW i \in 1 .. MaxTenants,
             NEW stage \in {"approve", "reject"}, StartReview(h, i, stage)
      PROVE  ReviewInv' /\ AuditTellsStatus'
  <2> DEFINE t == [kind |-> "review", tenant |-> i, read |-> tenants[i].status]
  <2>1. /\ pc[h] = "idle" /\ pc'[h] = stage /\ task'[h] = t
        /\ \A g \in Handler \ {h} : pc'[g] = pc[g] /\ task'[g] = task[g]
        /\ UNCHANGED <<tenants, audit>> /\ i \in 1 .. Len(tenants)
        /\ overlapped' = IF Reviewing(i) = {} THEN overlapped ELSE overlapped \union {i}
    <3>1. Start(h, stage, t)
      BY <1>3 DEF StartReview
    <3>2. /\ UNCHANGED <<tenants, audit>> /\ i \in 1 .. Len(tenants)
          /\ overlapped' = IF Reviewing(i) = {} THEN overlapped ELSE overlapped \union {i}
      BY <1>3 DEF StartReview
    <3> QED BY <3>1, <3>2, StartEffect
  <2>2. t.tenant = i /\ t.read = tenants[i].status
    OBVIOUS
  <2> HIDE DEF t
  <2>3. \A j : Reviewing(j)' = IF j = i THEN Reviewing(j) \union {h} ELSE Reviewing(j)
    BY <2>1, <2>2 DEF Reviewing
  <2>4. ASSUME NEW j \in (1 .. Len(tenants)) \ overlapped'
        PROVE  /\ \A g, k \in Reviewing(j)' : g = k
               /\ \A g \in Reviewing(j)' : task'[g].read = tenants[j].status
    <3>1. CASE j = i
      <4>1. Reviewing(i) = {} /\ Reviewing(j)' = {h}
        BY <2>1, <2>3, <2>4, <3>1
      <4> QED BY <2>1, <2>2, <3>1, <4>1
    <3>2. CASE j # i
      <4>1. Reviewing(j)' = Reviewing(j) /\ j \notin overlapped
        BY <2>1, <2>3, <2>4, <3>2
      <4>2. \A g \in Reviewing(j) : task'[g] = task[g]
        BY <2>1 DEF Reviewing
      <4> QED BY <4>1, <4>2 DEF ReviewInv
    <3> QED BY <3>1, <3>2
  <2>5. AuditTellsStatus'
    <3>1. overlapped \subseteq overlapped'
      BY <2>1
    <3> QED BY <2>1, <3>1 DEF AuditTellsStatus
  <2> QED BY <2>1, <2>4, <2>5 DEF ReviewInv
<1>4. ASSUME NEW h \in Handler, Fail(h)
      PROVE  ReviewInv' /\ AuditTellsStatus'
  <2>1. /\ pc'[h] = "idle" /\ UNCHANGED <<tenants, audit, overlapped>>
        /\ \A g \in Handler \ {h} : pc'[g] = pc[g] /\ task'[g] = task[g]
    BY <1>4, DoneEffect DEF Fail, Quit, history
  <2>2. \A i : Reviewing(i)' \subseteq Reviewing(i) /\ h \notin Reviewing(i)'
    BY <2>1 DEF Reviewing
  <2>3. \A i : \A g \in Reviewing(i)' : task'[g] = task[g]
    BY <2>1, <2>2 DEF Reviewing
  <2> QED BY <2>1, <2>2, <2>3, ReviewsKept
<1>5. CASE UNCHANGED vars
  <2>1. UNCHANGED <<tenants, audit, overlapped, pc, task>>
    BY <1>5 DEF vars, history
  <2>2. \A i : Reviewing(i)' = Reviewing(i)
    BY <2>1 DEF Reviewing
  <2> QED BY <2>1, <2>2, ReviewsKept
<1> QED BY <1>1, <1>2, <1>3, <1>4, <1>5, NewTenantReviews, DecideReviews
        DEF Next, Register, ReviewTenant

\* The audit log of a tenant whose reviews never overlapped is its history:
\* entries join end to end, and the last tells its status (lines 72-132).
THEOREM TenantsAuditTellsStatus == Spec => []AuditTellsStatus
<1>1. Init => ReviewInv /\ AuditTellsStatus
  BY DEF Init, ReviewInv, AuditTellsStatus
<1>2. (TypeOK /\ Handling /\ SlugTried) /\ (ReviewInv /\ AuditTellsStatus) /\ [Next]_vars
        => (ReviewInv /\ AuditTellsStatus)'
  BY ReviewStep
<1> QED BY <1>1, <1>2, TenantsTyped, PTL DEF Spec

-----------------------------------------------------------------------------
(* The handlers of the composed module *)

TenantStages == {"slug", "insert", "approve", "reject"}
AddressStages == {"clear", "default", "unset", "remove"}
KycStages == {"accept", "refuse"}
CommissionStages == Resolving \union {"change"}

Stages ==
    {"idle"} \union TenantStages \union AddressStages \union KycStages \union CommissionStages

\* Every handler that answers forgets its task.
Serving ==
    /\ Handling
    /\ \A h \in Handler : pc[h] \in Stages /\ (pc[h] = "idle" => task[h] = Nothing)

\* A step of the handlers at these stages: the others stay where they are, or
\* end.
Moving(S) ==
    /\ Handling'
    /\ \A g \in Handler :
         \/ pc'[g] = pc[g] /\ task'[g] = task[g]
         \/ pc'[g] \in S
         \/ pc'[g] = "idle" /\ task'[g] = Nothing

\* No handler comes to these stages, or works at them.
Quiet(S) ==
    /\ Handling'
    /\ \A g \in Handler : pc'[g] \in S => pc'[g] = pc[g] /\ task'[g] = task[g]

LEMMA MovingServes ==
  ASSUME Serving, NEW S \in SUBSET Stages, Moving(S), "idle" \notin S
  PROVE  Serving'
BY DEF Serving, Moving, Stages

LEMMA MovingQuiet ==
  ASSUME NEW S, Moving(S), NEW T, S \intersect T = {}, "idle" \notin T
  PROVE  Quiet(T)
BY DEF Moving, Quiet

\* The ways a handler moves.
LEMMA Starts ==
  ASSUME Handling, NEW h \in Handler, NEW stage, NEW t, Start(h, stage, t)
  PROVE  /\ Moving({stage}) /\ pc[h] = "idle" /\ pc'[h] = stage /\ task'[h] = t
         /\ \A g \in Handler \ {h} : pc'[g] = pc[g] /\ task'[g] = task[g]
BY DEF Handling, Start, Goto, Moving

LEMMA Ends ==
  ASSUME Handling, NEW h \in Handler, Done(h)
  PROVE  /\ Moving({}) /\ pc'[h] = "idle" /\ task'[h] = Nothing
         /\ \A g \in Handler \ {h} : pc'[g] = pc[g] /\ task'[g] = task[g]
BY DEF Handling, Done, Goto, Moving

LEMMA GoesOn ==
  ASSUME Handling, NEW h \in Handler, NEW stage, Goto(h, stage),
         UNCHANGED task \/ \E t : task' = [task EXCEPT ![h] = t]
  PROVE  /\ Moving({stage}) /\ pc'[h] = stage
         /\ \A g \in Handler \ {h} : pc'[g] = pc[g] /\ task'[g] = task[g]
BY DEF Handling, Goto, Moving

LEMMA StartsAmong ==
  ASSUME Handling, NEW h \in Handler, NEW S, NEW stage \in S, \E t : Start(h, stage, t)
  PROVE  Moving(S)
BY DEF Handling, Start, Goto, Moving

LEMMA GoesAmong ==
  ASSUME Handling, NEW h \in Handler, NEW S, NEW stage \in S, Goto(h, stage),
         UNCHANGED task \/ \E t : task' = [task EXCEPT ![h] = t]
  PROVE  Moving(S)
BY DEF Handling, Goto, Moving

LEMMA EndsAnyway ==
  ASSUME Handling, NEW h \in Handler, NEW S, Done(h)
  PROVE  Moving(S)
BY DEF Handling, Done, Goto, Moving

\* Which stages a step of each kind has.
LEMMA TenantMoves ==
  ASSUME Handling, NEW h \in Handler, Register(h) \/ ReviewTenant(h)
  PROVE  Moving(TenantStages)
<1>1. ASSUME NEW o \in Owner, NEW base \in BaseSlug, CheckOwner(h, o, base)
      PROVE  Moving(TenantStages)
  <2>1. "slug" \in TenantStages /\ \E t : Start(h, "slug", t)
    BY <1>1 DEF CheckOwner, TenantStages
  <2> QED BY <2>1, StartsAmong
<1>2. CASE TrySlug(h)
  <2>1. CASE Goto(h, "insert") /\ UNCHANGED task
    <3>1. "insert" \in TenantStages
      BY DEF TenantStages
    <3> QED BY <2>1, <3>1, GoesAmong
  <2>2. CASE /\ pc[h] = "slug" /\ UNCHANGED pc
             /\ task' = [task EXCEPT ![h].counter = task[h].counter + 1]
    BY <2>2 DEF Handling, Moving, TenantStages
  <2> QED BY <1>2, <2>1, <2>2 DEF TrySlug
<1>3. CASE InsertTenant(h)
  BY <1>3, EndsAnyway DEF InsertTenant
<1>4. ASSUME NEW i \in 1 .. MaxTenants, NEW stage \in {"approve", "reject"},
             StartReview(h, i, stage)
      PROVE  Moving(TenantStages)
  <2>1. stage \in TenantStages /\ \E t : Start(h, stage, t)
    BY <1>4 DEF StartReview, TenantStages
  <2> QED BY <2>1, StartsAmong
<1>5. CASE Approve(h) \/ Reject(h)
  BY <1>5, EndsAnyway DEF Approve, Reject, Decide
<1> QED BY <1>1, <1>2, <1>3, <1>4, <1>5 DEF Register, ReviewTenant

LEMMA AddressMoves ==
  ASSUME Handling, AddressStep
  PROVE  Moving(AddressStages)
<1>1. ASSUME NEW u \in User, AddPlain(u)
      PROVE  Moving(AddressStages)
  BY <1>1 DEF AddPlain, Handling, Moving
<1>2. ASSUME NEW h \in Handler, NEW u \in User, AddDefault(h, u)
      PROVE  Moving(AddressStages)
  <2>1. "clear" \in AddressStages /\ \E t : Start(h, "clear", t)
    BY <1>2 DEF AddDefault, AddressStages
  <2> QED BY <2>1, StartsAmong
<1>3. ASSUME NEW h \in Handler, NEW u \in User, NEW i \in 1 .. MaxAddresses,
             NEW stage \in {"clear", "unset", "remove"}, ReadAddress(h, u, i, stage)
      PROVE  Moving(AddressStages)
  <2>1. stage \in AddressStages /\ \E t : Start(h, stage, t)
    BY <1>3 DEF ReadAddress, AddressStages
  <2> QED BY <2>1, StartsAmong
<1>4. ASSUME NEW h \in Handler, ClearDefault(h)
      PROVE  Moving(AddressStages)
  <2>1. Goto(h, "default") /\ \E t : task' = [task EXCEPT ![h] = t]
    BY <1>4 DEF ClearDefault
  <2>2. "default" \in AddressStages
    BY DEF AddressStages
  <2> QED BY <2>1, <2>2, GoesAmong
<1>5. ASSUME NEW h \in Handler, WriteDefault(h) \/ UnsetDefault(h) \/ DeleteAddress(h)
      PROVE  Moving(AddressStages)
  BY <1>5, EndsAnyway DEF WriteDefault, UnsetDefault, DeleteAddress
<1> QED BY <1>1, <1>2, <1>3, <1>4, <1>5 DEF AddressStep

LEMMA KycMoves ==
  ASSUME Handling, KycStep
  PROVE  Moving(KycStages)
<1>1. ASSUME NEW u \in User, UploadKyc(u)
      PROVE  Moving(KycStages)
  BY <1>1 DEF UploadKyc, Handling, Moving
<1>2. ASSUME NEW h \in Handler, NEW i \in 1 .. MaxDocuments, NEW stage \in {"accept", "refuse"},
             ReadDocument(h, i, stage)
      PROVE  Moving(KycStages)
  <2>1. stage \in KycStages /\ \E t : Start(h, stage, t)
    BY <1>2 DEF ReadDocument, KycStages
  <2> QED BY <2>1, StartsAmong
<1>3. ASSUME NEW h \in Handler, ApproveKyc(h) \/ RejectKyc(h)
      PROVE  Moving(KycStages)
  BY <1>3, EndsAnyway DEF ApproveKyc, RejectKyc, Judge
<1> QED BY <1>1, <1>2, <1>3 DEF KycStep

LEMMA CommissionMoves ==
  ASSUME Handling, CommissionsStep
  PROVE  Moving(CommissionStages)
<1>1. CASE Midnight \/ \E c \in Config : CreateConfig(c)
  BY <1>1 DEF Midnight, CreateConfig, Handling, Moving
<1>2. ASSUME NEW h \in Handler, NEW tenant \in Tenant_id,
             NEW types \in {{}} \union {{y} : y \in TenantType}, StartResolve(h, tenant, types)
      PROVE  Moving(CommissionStages)
  <2>1. "tenant" \in CommissionStages /\ \E t : Start(h, "tenant", t)
    BY <1>2 DEF StartResolve, CommissionStages, Resolving
  <2> QED BY <2>1, StartsAmong
<1>3. ASSUME NEW h \in Handler, NEW scope, NEW next \in Resolving, Query(h, scope, next)
      PROVE  Moving(CommissionStages)
  <2>1. /\ Goto(h, next) \/ Goto(h, "resolved")
        /\ UNCHANGED task \/ \E t : task' = [task EXCEPT ![h] = t]
    BY <1>3 DEF Query
  <2>2. next \in CommissionStages /\ "resolved" \in CommissionStages
    BY DEF CommissionStages, Resolving
  <2> QED BY <2>1, <2>2, GoesAmong
<1>4. ASSUME NEW h \in Handler, Answered(h)
      PROVE  Moving(CommissionStages)
  BY <1>4, EndsAnyway DEF Answered
<1>5. ASSUME NEW h \in Handler, NEW i \in 1 .. MaxConfigs, NEW from \in Day \union {0},
             NEW to \in Day \union {0}, ReadConfig(h, i, from, to)
      PROVE  Moving(CommissionStages)
  <2>1. "change" \in CommissionStages /\ \E t : Start(h, "change", t)
    BY <1>5 DEF ReadConfig, CommissionStages
  <2> QED BY <2>1, StartsAmong
<1>6. ASSUME NEW h \in Handler, UpdateConfig(h)
      PROVE  Moving(CommissionStages)
  BY <1>6 DEF UpdateConfig, Goto, Unsettle, Handling, Moving, CommissionStages
<1> QED BY <1>1, <1>2, <1>3, <1>4, <1>5, <1>6
        DEF CommissionsStep, QueryTenant, QueryTenantType, QueryPlatform, Resolving

LEMMA FailMoves ==
  ASSUME Handling, NEW h \in Handler, Fail(h)
  PROVE  Moving({})
BY EndsAnyway DEF Fail, Quit


-----------------------------------------------------------------------------
(* Tenants in the composition *)

\* What was proved of Tenants alone, and what carries it.
TenantsInv ==
    /\ TypeOK /\ Handling /\ SlugTried
    /\ OwnerInv /\ SlugsInOrder /\ ReviewInv /\ AuditTellsStatus

\* Steps that have nothing to do with tenants.
LEMMA TenantsRest ==
  ASSUME TenantsInv, UNCHANGED tenantVars, Quiet(TenantStages)
  PROVE  TenantsInv'
<1>0. UNCHANGED <<tenants, audit, doubled, overlapped>> /\ Handling'
  BY DEF tenantVars, history, Quiet
<1>1. \A g \in Handler : pc'[g] \in TenantStages => pc'[g] = pc[g] /\ task'[g] = task[g]
  BY DEF Quiet
<1>2. TypeOK' /\ SlugTried'
  BY <1>0, <1>1 DEF TenantsInv, TypeOK, SlugTried, Taken, TenantStages
<1>3. \A o : Registering(o)' \subseteq Registering(o) /\ TenantsOf(o)' = TenantsOf(o)
  BY <1>0, <1>1 DEF Registering, TenantsOf, TenantStages
<1>4. OwnerInv'
  BY <1>0, <1>3, OwnerKept DEF TenantsInv
<1>5. \A i : Reviewing(i)' \subseteq Reviewing(i) /\ \A h \in Reviewing(i)' : task'[h] = task[h]
  BY <1>1 DEF Reviewing, TenantStages
<1>6. ReviewInv' /\ AuditTellsStatus'
  BY <1>0, <1>5, ReviewsKept DEF TenantsInv
<1>7. SlugsInOrder'
  BY <1>0 DEF TenantsInv, SlugsInOrder
<1> QED BY <1>0, <1>2, <1>4, <1>6, <1>7 DEF TenantsInv

\* Every step is one of tenants or leaves them alone.
LEMMA StepKinds ==
  ASSUME Handling, [RecordsNext]_records
  PROVE  \/ Moving(TenantStages) /\ [Next]_vars /\ UNCHANGED <<profileVars, commissionVars>>
         \/ Moving(AddressStages) /\ AddressStep /\ UNCHANGED <<tenantVars, kycVars, commissionVars>>
         \/ Moving(KycStages) /\ KycStep /\ UNCHANGED <<tenantVars, addressVars, commissionVars>>
         \/ Moving(CommissionStages) /\ CommissionsStep /\ UNCHANGED <<tenantVars, profileVars>>
         \/ Moving({}) /\ UNCHANGED <<tenantVars, profileVars, commissionVars>>
<1>1. CASE TenantRecords
  BY <1>1, TenantMoves DEF TenantRecords, Next
<1>2. CASE AddressRecords
  <2>1. UNCHANGED kycVars
    BY <1>2 DEF AddressRecords, AddressStep, AddPlain, AddDefault, ReadAddress, ClearDefault,
                WriteDefault, UnsetDefault, DeleteAddress, profileVars
  <2> QED BY <1>2, <2>1, AddressMoves DEF AddressRecords
<1>3. CASE KycRecords
  <2>1. UNCHANGED addressVars
    BY <1>3 DEF KycRecords, KycStep, UploadKyc, ReadDocument, ApproveKyc, RejectKyc, Judge
  <2> QED BY <1>3, <2>1, KycMoves DEF KycRecords
<1>4. CASE CommissionRecords
  BY <1>4, CommissionMoves DEF CommissionRecords
<1>5. CASE AnyFails
  BY <1>5, FailMoves DEF AnyFails, Fail, tenantVars
<1>6. CASE UNCHANGED records
  BY <1>6 DEF records, vars, tenantVars, Handling, Moving
<1> QED BY <1>1, <1>2, <1>3, <1>4, <1>5, <1>6 DEF RecordsNext

LEMMA TenantsInvStep ==
  ASSUME TenantsInv, [RecordsNext]_records
  PROVE  TenantsInv'
<1>0. Handling
  BY DEF TenantsInv
<1>1. CASE [Next]_vars
  <2>1. TypeOK /\ Handling /\ SlugTried /\ OwnerInv /\ SlugsInOrder /\ ReviewInv /\ AuditTellsStatus
    BY DEF TenantsInv
  <2> QED BY <1>1, <2>1, TypeStep, OwnerStep, SlugStep, ReviewStep DEF TenantsInv
<1>2. ASSUME NEW S, Moving(S), S \intersect TenantStages = {}, UNCHANGED tenantVars
      PROVE  TenantsInv'
  <2>1. "idle" \notin TenantStages
    BY DEF TenantStages
  <2> QED BY <1>2, <2>1, MovingQuiet, TenantsRest
<1>3. \A S \in {AddressStages, KycStages, CommissionStages, {}} : S \intersect TenantStages = {}
  BY DEF TenantStages, AddressStages, KycStages, CommissionStages, Resolving
<1> QED BY <1>0, <1>1, <1>2, <1>3, StepKinds

LEMMA TenantsInvInit == RecordsInit => TenantsInv
<1> SUFFICES ASSUME RecordsInit
             PROVE  TenantsInv
  OBVIOUS
<1>1. TypeOK /\ Handling /\ SlugTried
  BY TenantsAssumption DEF RecordsInit, Init, HandlersInit, TypeOK, Handling, SlugTried
<1>2. OwnerInv
  BY DEF RecordsInit, Init, HandlersInit, OwnerInv, TenantsOf, Registering
<1>3. SlugsInOrder /\ ReviewInv /\ AuditTellsStatus
  BY DEF RecordsInit, Init, SlugsInOrder, ReviewInv, AuditTellsStatus
<1> QED BY <1>1, <1>2, <1>3 DEF TenantsInv

LEMMA TenantsHold == RecordsSpec => []TenantsInv
BY TenantsInvInit, TenantsInvStep, PTL DEF RecordsSpec


\* Owners, slugs and audit logs of tenants are as they are without the other
\* records of user-service, whose requests the same handlers serve
\* (domains/tenants/service.py, lines 31-49 and 72-132).
THEOREM RecordsOneTenantPerOwner == RecordsSpec => []OneTenantPerOwner
<1>1. TenantsInv => OneTenantPerOwner
  BY OwnersTold DEF TenantsInv
<1> QED BY <1>1, TenantsHold, PTL

\* The same of slugs.
THEOREM RecordsSlugsInOrder == RecordsSpec => []SlugsInOrder
<1>1. TenantsInv => SlugsInOrder
  BY DEF TenantsInv
<1> QED BY <1>1, TenantsHold, PTL

\* The same of the audit log.
THEOREM RecordsAuditTellsStatus == RecordsSpec => []AuditTellsStatus
<1>1. TenantsInv => AuditTellsStatus
  BY DEF TenantsInv
<1> QED BY <1>1, TenantsHold, PTL

-----------------------------------------------------------------------------
(* Addresses *)

AddressRows ==
    /\ addresses \in Seq(Address) /\ Len(addresses) <= MaxAddresses
    /\ crossed \subseteq User

\* What a handler at stage p with task t works with: addresses that exist, and
\* for a default one of its user.
AddressFits(p, t) ==
    /\ p \in {"clear", "default"} =>
         /\ t \in DefaultTask
         /\ t.row # 0 => t.row <= Len(addresses) /\ addresses[t.row].user = t.user
    /\ p \in {"unset", "remove"} => t \in AddressTask /\ t.row <= Len(addresses)

\* A user whose requests for a default never met has one default at most, and
\* the one request in flight has seen it.
DefaultInv ==
    \A u \in User \ crossed :
        /\ \A i, j \in Defaults(u) : i = j
        /\ \A g, h \in Defaulting(u) : g = h
        /\ \A h \in Defaulting(u) : Defaults(u) \subseteq task[h].seen

AddressInv ==
    /\ Handling /\ AddressRows
    /\ \A h \in Handler : AddressFits(pc[h], task[h])
    /\ DefaultInv

\* Addresses are never removed from the table, nor given to another user.
RowsKept ==
    /\ Len(addresses) \in Nat /\ Len(addresses') \in Nat
    /\ Len(addresses) <= Len(addresses')
    /\ \A i \in 1 .. Len(addresses) : addresses'[i].user = addresses[i].user

LEMMA AddressFitsKept ==
  ASSUME RowsKept, NEW p, NEW t, AddressFits(p, t),
         NEW g, pc'[g] = p, task'[g] = t
  PROVE  AddressFits(pc[g], task[g])'
<1>1. t \in DefaultTask => t.row \in Nat
  BY ProfileAssumption DEF DefaultTask
<1>2. t \in AddressTask => t.row \in Nat
  BY ProfileAssumption DEF AddressTask
<1> QED BY <1>1, <1>2 DEF AddressFits, RowsKept


\* If only h moves, and what it works with is there, the others' still is.
LEMMA AddressHandlers ==
  ASSUME AddressInv, RowsKept, Handling', NEW h \in Handler,
         \A g \in Handler \ {h} : pc'[g] = pc[g] /\ task'[g] = task[g],
         AddressFits(pc[h], task[h])'
  PROVE  \A g \in Handler : AddressFits(pc[g], task[g])'
<1> SUFFICES ASSUME NEW g \in Handler \ {h}
             PROVE  AddressFits(pc[g], task[g])'
  OBVIOUS
<1>1. AddressFits(pc[g], task[g]) /\ pc'[g] = pc[g] /\ task'[g] = task[g]
  BY DEF AddressInv
<1> QED BY <1>1, AddressFitsKept

\* A handler that ends, or is at another stage, works with no address.
LEMMA AddressIdle ==
  ASSUME NEW g, pc'[g] \notin AddressStages
  PROVE  AddressFits(pc[g], task[g])'
BY DEF AddressFits, AddressStages

\* Steps that make no address the default.
LEMMA DefaultKept ==
  ASSUME DefaultInv, crossed \subseteq crossed',
         \A u \in User : /\ Defaults(u)' \subseteq Defaults(u)
                         /\ Defaulting(u)' \subseteq Defaulting(u)
                         /\ \A h \in Defaulting(u)' : task'[h] = task[h]
  PROVE  DefaultInv'
BY DEF DefaultInv

\* Steps that begin with a request.
LEMMA AddressStart ==
  ASSUME AddressInv, NEW h \in Handler, NEW u \in User,
         \/ AddDefault(h, u)
         \/ \E i \in 1 .. MaxAddresses, stage \in {"clear", "unset", "remove"} :
              ReadAddress(h, u, i, stage)
  PROVE  AddressInv'
<1>0. Handling /\ AddressRows /\ DefaultInv
  BY DEF AddressInv
<1>a. PICK stage \in {"clear", "unset", "remove"} :
        \E t : /\ Start(h, stage, t) /\ UNCHANGED <<addresses, crossed>>
              /\ AddressFits(stage, t)
  <2>1. CASE AddDefault(h, u)
    <3>1. PICK t : t = [kind |-> "default", user |-> u, row |-> 0, seen |-> {}]
      OBVIOUS
    <3>2. AddressFits("clear", t)
      BY <3>1, ProfileAssumption DEF AddressFits, DefaultTask
    <3> QED BY <2>1, <3>1, <3>2 DEF AddDefault, profileVars, addressVars
  <2>2. ASSUME NEW i \in 1 .. MaxAddresses, NEW stage \in {"clear", "unset", "remove"},
               ReadAddress(h, u, i, stage)
        PROVE  \E t : /\ Start(h, stage, t) /\ UNCHANGED <<addresses, crossed>>
                      /\ AddressFits(stage, t)
    <3>1. i \in 1 .. Len(addresses) /\ addresses[i].user = u /\ addresses[i] \in Address
      BY <1>0, <2>2 DEF ReadAddress, RowsOf, AddressRows
    <3>2. CASE stage = "clear"
      <4>1. PICK t : t = [kind |-> "default", user |-> u, row |-> i, seen |-> {}]
        OBVIOUS
      <4>2. AddressFits("clear", t)
        BY <3>1, <4>1 DEF AddressFits, DefaultTask
      <4> QED BY <2>2, <3>2, <4>1, <4>2 DEF ReadAddress, profileVars, addressVars
    <3>3. CASE stage # "clear"
      <4>1. PICK t : t = [kind |-> "address", row |-> i, read |-> addresses[i].default]
        OBVIOUS
      <4>2. AddressFits(stage, t)
        BY <3>1, <3>3, <4>1 DEF AddressFits, AddressTask, Address
      <4> QED BY <2>2, <3>3, <4>1, <4>2 DEF ReadAddress, profileVars, addressVars
    <3> QED BY <3>2, <3>3
  <2> QED BY <2>1, <2>2
<1>1. PICK t : /\ Start(h, stage, t) /\ UNCHANGED <<addresses, crossed>>
               /\ AddressFits(stage, t)
  BY <1>a
<1>2. /\ Handling' /\ pc'[h] = stage /\ task'[h] = t
      /\ \A g \in Handler \ {h} : pc'[g] = pc[g] /\ task'[g] = task[g]
  BY <1>0, <1>1, Starts DEF Moving
<1>3. RowsKept
  BY <1>0, <1>1 DEF RowsKept, AddressRows
<1>4. AddressFits(pc[h], task[h])'
  BY <1>1, <1>2, <1>3, AddressFitsKept
<1>5. AddressRows'
  BY <1>0, <1>1 DEF AddressRows
<1>6. DefaultInv'
  <2>1. ASSUME NEW v \in User
        PROVE  /\ Defaults(v)' \subseteq Defaults(v) /\ Defaulting(v)' \subseteq Defaulting(v)
               /\ \A g \in Defaulting(v)' : task'[g] = task[g]
    BY <1>1, <1>2 DEF Defaults, RowsOf, Defaulting
  <2> QED BY <1>0, <1>1, <2>1, DefaultKept
<1> QED BY <1>2, <1>3, <1>4, <1>5, <1>6, AddressHandlers DEF AddressInv

\* An address that is added and is not to be the default.
LEMMA AddressAdded ==
  ASSUME AddressInv, NEW u \in User, AddPlain(u)
  PROVE  AddressInv'
<1>0. Handling /\ AddressRows /\ DefaultInv
  BY DEF AddressInv
<1>1. PICK r : r = [user |-> u, default |-> FALSE, live |-> TRUE]
  OBVIOUS
<1>2. r \in Address /\ ~ r.default
  BY <1>1 DEF Address
<1>3. /\ Len(addresses) < MaxAddresses /\ addresses' = Append(addresses, r)
      /\ UNCHANGED <<pc, task, crossed>>
  BY <1>1 DEF AddPlain
<1>4. /\ addresses' \in Seq(Address) /\ Len(addresses') = Len(addresses) + 1
      /\ addresses'[Len(addresses) + 1] = r /\ Len(addresses) \in Nat
      /\ \A i \in 1 .. Len(addresses) : addresses'[i] = addresses[i]
  BY <1>0, <1>2, <1>3 DEF AddressRows
<1>5. AddressRows' /\ RowsKept
  BY <1>0, <1>3, <1>4, ProfileAssumption DEF AddressRows, RowsKept
<1>6. ASSUME NEW v \in User
      PROVE  /\ Defaults(v)' \subseteq Defaults(v) /\ Defaulting(v)' \subseteq Defaulting(v)
             /\ \A g \in Defaulting(v)' : task'[g] = task[g]
  <2>1. \A i \in 1 .. Len(addresses') : i \in 1 .. Len(addresses) \/ i = Len(addresses) + 1
    BY <1>4
  <2> QED BY <1>2, <1>3, <1>4, <2>1 DEF Defaults, RowsOf, Defaulting
<1>7. \A g \in Handler : AddressFits(pc[g], task[g])'
  BY <1>3, <1>5, AddressFitsKept DEF AddressInv
<1> QED BY <1>0, <1>3, <1>5, <1>6, <1>7, DefaultKept DEF AddressInv, Handling

\* The UPDATE finds the rows of the user, of which the default is one.
LEMMA DefaultsFound ==
  ASSUME AddressInv, NEW h \in Handler, ClearDefault(h)
  PROVE  AddressInv'
<1>0. Handling /\ AddressRows /\ DefaultInv
  BY DEF AddressInv
<1>u. PICK u : u = task[h].user
  OBVIOUS
<1>1. /\ pc[h] = "clear" /\ task[h] \in DefaultTask /\ u \in User
      /\ UNCHANGED addresses
      /\ crossed' = IF Defaulting(u) = {} THEN crossed ELSE crossed \union {u}
  BY <1>u DEF ClearDefault, AddressInv, AddressFits, DefaultTask
<1>2. /\ Handling' /\ pc'[h] = "default"
      /\ \A g \in Handler \ {h} : pc'[g] = pc[g] /\ task'[g] = task[g]
  <2>1. Goto(h, "default") /\ \E t : task' = [task EXCEPT ![h] = t]
    BY DEF ClearDefault
  <2> QED BY <1>0, <2>1, GoesOn DEF Moving
<1>3. task'[h] = [task[h] EXCEPT !.seen = RowsOf(u)]
  BY <1>0, <1>u DEF ClearDefault, Handling
<1>4. RowsOf(u) \subseteq 1 .. MaxAddresses
  BY <1>0, ProfileAssumption DEF RowsOf, AddressRows
<1>5. /\ task'[h] \in DefaultTask /\ task'[h].user = u /\ task'[h].row = task[h].row
      /\ task'[h].seen = RowsOf(u)
  BY <1>u, <1>1, <1>3, <1>4 DEF DefaultTask
<1>6. RowsKept /\ AddressRows'
  BY <1>0, <1>1 DEF RowsKept, AddressRows
<1>7. AddressFits(pc[h], task[h])'
  BY <1>u, <1>1, <1>2, <1>5 DEF AddressFits, AddressInv
<1>8. ASSUME NEW v \in User
      PROVE  /\ Defaults(v)' = Defaults(v) /\ RowsOf(v)' = RowsOf(v)
             /\ Defaulting(v)' \subseteq Defaulting(v) \union {h}
             /\ v # u => Defaulting(v)' \subseteq Defaulting(v)
             /\ h \notin Defaulting(v)
  BY <1>1, <1>2, <1>5 DEF Defaults, RowsOf, Defaulting
<1>9. DefaultInv'
  <2> SUFFICES ASSUME NEW v \in User \ crossed'
               PROVE  /\ \A i, j \in Defaults(v)' : i = j
                      /\ \A f, g \in Defaulting(v)' : f = g
                      /\ \A g \in Defaulting(v)' : Defaults(v)' \subseteq task'[g].seen
    BY DEF DefaultInv
  <2>1. CASE v # u
    <3>1. v \in User \ crossed
      BY <1>1
    <3>2. \A g \in Defaulting(v)' : task'[g] = task[g]
      BY <1>2, <1>8, <2>1 DEF Defaulting
    <3> QED BY <1>0, <1>8, <2>1, <3>1, <3>2 DEF DefaultInv
  <2>2. CASE v = u
    <3>1. Defaulting(u) = {} /\ v \in User \ crossed
      BY <1>1, <2>2
    <3>2. \A g \in Defaulting(v)' : g = h
      BY <1>8, <2>2, <3>1
    <3> QED BY <1>0, <1>5, <1>8, <2>2, <3>1, <3>2 DEF DefaultInv, Defaults
  <2> QED BY <2>1, <2>2
<1> QED BY <1>2, <1>6, <1>7, <1>9, AddressHandlers DEF AddressInv


\* What the commit writes: the rows found are cleared, and one row is set, which
\* may be new; or nothing, where that row is gone.
LEMMA WriteEffect ==
  ASSUME AddressInv, NEW h \in Handler, WriteDefault(h), addresses' # addresses
  PROVE  \E w \in 1 .. Len(addresses') :
           /\ addresses' \in Seq(Address) /\ Len(addresses') <= MaxAddresses
           /\ RowsKept /\ addresses'[w].user = task[h].user
           /\ \A i \in 1 .. Len(addresses') : i = w \/ i \in 1 .. Len(addresses)
           /\ \A i \in 1 .. Len(addresses) : i # w =>
                /\ addresses'[i].live = addresses[i].live
                /\ addresses'[i].default => addresses[i].default /\ i \notin task[h].seen
<1>t. PICK t : t = task[h]
  OBVIOUS
<1>n. PICK n \in Nat : n = Len(addresses)
  BY DEF AddressInv, AddressRows
<1>c. PICK cleared : cleared = [i \in 1 .. n |->
                                  [addresses[i] EXCEPT !.default = @ /\ i \notin t.seen]]
  OBVIOUS
<1>1. /\ addresses \in Seq(Address) /\ n <= MaxAddresses
      /\ t \in DefaultTask
      /\ t.row # 0 => t.row \in 1 .. n /\ addresses[t.row].user = t.user
  BY <1>t, <1>n, ProfileAssumption
    DEF WriteDefault, AddressInv, AddressRows, AddressFits, DefaultTask
<1>2. \A i \in 1 .. n :
        /\ cleared[i] \in Address /\ cleared[i].user = addresses[i].user
        /\ cleared[i].live = addresses[i].live
        /\ cleared[i].default => addresses[i].default /\ i \notin t.seen
  <2> SUFFICES ASSUME NEW i \in 1 .. n
               PROVE  /\ cleared[i] \in Address /\ cleared[i].user = addresses[i].user
                      /\ cleared[i].live = addresses[i].live
                      /\ cleared[i].default => addresses[i].default /\ i \notin t.seen
    OBVIOUS
  <2>1. addresses[i] \in Address
    BY <1>n, <1>1
  <2>2. cleared[i] = [addresses[i] EXCEPT !.default = addresses[i].default /\ i \notin t.seen]
    BY <1>c
  <2> QED BY <2>1, <2>2 DEF Address
<1>3. cleared \in Seq(Address) /\ Len(cleared) = n
  BY <1>c, <1>2
<1>4. CASE /\ t.row = 0 /\ Len(addresses) < MaxAddresses
           /\ addresses' = Append(cleared, [user |-> t.user, default |-> TRUE, live |-> TRUE])
  <2>1. PICK r : r = [user |-> t.user, default |-> TRUE, live |-> TRUE]
    OBVIOUS
  <2>2. r \in Address /\ r.user = t.user
    BY <1>1, <2>1 DEF Address, DefaultTask
  <2>3. /\ addresses' \in Seq(Address) /\ Len(addresses') = n + 1 /\ addresses'[n + 1] = r
        /\ \A i \in 1 .. n : addresses'[i] = cleared[i]
    BY <1>3, <1>4, <2>1, <2>2
  <2>4. \A i \in 1 .. n + 1 : i = n + 1 \/ i \in 1 .. n
    OBVIOUS
  <2>5. n + 1 \in 1 .. Len(addresses') /\ n + 1 <= MaxAddresses
    BY <1>n, <1>4, <2>3, ProfileAssumption
  <2>6. \A i \in 1 .. n : i # n + 1
    OBVIOUS
  <2>7. RowsKept
    BY <1>n, <1>2, <2>3 DEF RowsKept
  <2> QED BY <1>t, <1>n, <1>2, <2>2, <2>3, <2>4, <2>5, <2>7
<1>5. CASE t.row # 0 /\ addresses' = [cleared EXCEPT ![t.row].default = TRUE]
  <2>1. PICK w \in 1 .. n : w = t.row
    BY <1>1, <1>5
  <2>2. PICK r : r = [cleared[w] EXCEPT !.default = TRUE]
    OBVIOUS
  <2>3. r \in Address /\ r.user = addresses[w].user
    BY <1>2, <2>1, <2>2 DEF Address
  <2>4. addresses' = [cleared EXCEPT ![w] = r]
    BY <1>5, <2>1, <2>2
  <2>5. /\ addresses' \in Seq(Address) /\ Len(addresses') = n
        /\ \A i \in 1 .. n : addresses'[i] = IF i = w THEN r ELSE cleared[i]
    BY <1>3, <2>3, <2>4
  <2>6. RowsKept
    BY <1>n, <1>2, <2>3, <2>5 DEF RowsKept
  <2>7. addresses'[w].user = task[h].user /\ w \in 1 .. Len(addresses')
    BY <1>t, <1>1, <1>5, <2>1, <2>3, <2>5
  <2> QED BY <1>t, <1>n, <1>1, <1>2, <2>5, <2>6, <2>7
<1> QED BY <1>t, <1>n, <1>c, <1>4, <1>5 DEF WriteDefault

\* The commit leaves one default of its user, unless requests for it have met.
LEMMA DefaultWritten ==
  ASSUME AddressInv, NEW h \in Handler, WriteDefault(h)
  PROVE  AddressInv'
<1>0. Handling /\ AddressRows /\ DefaultInv
  BY DEF AddressInv
<1>u. PICK u : u = task[h].user
  OBVIOUS
<1>1. /\ pc[h] = "default" /\ u \in User /\ crossed' = crossed /\ h \in Defaulting(u)
  BY <1>u DEF WriteDefault, AddressInv, AddressFits, DefaultTask, Defaulting
<1>2. /\ Handling' /\ pc'[h] = "idle"
      /\ \A g \in Handler \ {h} : pc'[g] = pc[g] /\ task'[g] = task[g]
  BY <1>0, Ends DEF WriteDefault, Moving
<1>3. AddressFits(pc[h], task[h])'
  BY <1>2, AddressIdle DEF AddressStages
<1>4. ASSUME NEW v \in User
      PROVE  /\ Defaulting(v)' \subseteq Defaulting(v) \ {h}
             /\ \A g \in Defaulting(v)' : task'[g] = task[g]
  BY <1>2 DEF Defaulting
<1>5. CASE addresses' = addresses
  <2>1. \A v \in User : Defaults(v)' = Defaults(v)
    BY <1>5 DEF Defaults, RowsOf
  <2>2. DefaultInv'
    BY <1>0, <1>1, <1>4, <2>1, DefaultKept
  <2>3. RowsKept /\ AddressRows'
    BY <1>0, <1>1, <1>5 DEF RowsKept, AddressRows
  <2> QED BY <1>2, <1>3, <2>2, <2>3, AddressHandlers DEF AddressInv
<1>6. CASE addresses' # addresses
  <2>1. PICK w \in 1 .. Len(addresses') :
           /\ addresses' \in Seq(Address) /\ Len(addresses') <= MaxAddresses
           /\ RowsKept /\ addresses'[w].user = u
           /\ \A i \in 1 .. Len(addresses') : i = w \/ i \in 1 .. Len(addresses)
           /\ \A i \in 1 .. Len(addresses) : i # w =>
                /\ addresses'[i].live = addresses[i].live
                /\ addresses'[i].default => addresses[i].default /\ i \notin task[h].seen
    BY <1>6, <1>u, WriteEffect
  <2>2. ASSUME NEW v \in User, NEW i \in Defaults(v)'
        PROVE  (i = w /\ v = u) \/ (i \in Defaults(v) /\ i \notin task[h].seen)
    BY <2>1, <2>2 DEF Defaults, RowsOf, RowsKept
  <2>3. DefaultInv'
    <3> SUFFICES ASSUME NEW v \in User \ crossed
                 PROVE  /\ \A i, j \in Defaults(v)' : i = j
                        /\ \A f, g \in Defaulting(v)' : f = g
                        /\ \A g \in Defaulting(v)' : Defaults(v)' \subseteq task'[g].seen
      BY <1>1 DEF DefaultInv
    <3>1. CASE v = u
      <4>1. \A i \in Defaults(v)' : i = w
        BY <1>0, <1>1, <2>2, <3>1 DEF DefaultInv
      <4>2. Defaulting(v)' = {}
        BY <1>0, <1>1, <1>4, <3>1 DEF DefaultInv
      <4> QED BY <4>1, <4>2
    <3>2. CASE v # u
      <4>1. Defaults(v)' \subseteq Defaults(v)
        BY <2>2, <3>2
      <4> QED BY <1>0, <1>4, <4>1 DEF DefaultInv
    <3> QED BY <3>1, <3>2
  <2>4. AddressRows'
    BY <1>0, <1>1, <2>1 DEF AddressRows
  <2> QED BY <1>2, <1>3, <2>1, <2>3, <2>4, AddressHandlers DEF AddressInv
<1> QED BY <1>5, <1>6

\* An address that is no longer to be the default, or is deleted.
LEMMA AddressCleared ==
  ASSUME AddressInv, NEW h \in Handler, UnsetDefault(h) \/ DeleteAddress(h)
  PROVE  AddressInv'
<1>0. Handling /\ AddressRows /\ DefaultInv
  BY DEF AddressInv
<1>1. PICK w \in 1 .. Len(addresses) : w = task[h].row
  BY ProfileAssumption
    DEF UnsetDefault, DeleteAddress, AddressInv, AddressFits, AddressTask, AddressRows
<1>2. PICK r : /\ addresses' = [addresses EXCEPT ![w] = r] /\ r \in Address
               /\ r.user = addresses[w].user
               /\ r.default => addresses[w].default
               /\ r.live => addresses[w].live
  <2>1. addresses[w] \in Address
    BY <1>0 DEF AddressRows
  <2>2. CASE UnsetDefault(h)
    <3>1. PICK r : r = [addresses[w] EXCEPT !.default = addresses[w].default /\ ~ task[h].read]
      OBVIOUS
    <3>2. addresses' = [addresses EXCEPT ![w] = r]
      BY <1>1, <2>2, <3>1 DEF UnsetDefault
    <3> QED BY <2>1, <3>1, <3>2 DEF Address
  <2>3. CASE DeleteAddress(h)
    <3>1. PICK r : r = [addresses[w] EXCEPT !.live = FALSE]
      OBVIOUS
    <3>2. addresses' = [addresses EXCEPT ![w] = r]
      BY <1>1, <2>3, <3>1 DEF DeleteAddress
    <3> QED BY <2>1, <3>1, <3>2 DEF Address
  <2> QED BY <2>2, <2>3
<1>3. /\ addresses' \in Seq(Address) /\ Len(addresses') = Len(addresses)
      /\ \A i \in 1 .. Len(addresses) : addresses'[i] = IF i = w THEN r ELSE addresses[i]
  BY <1>0, <1>2 DEF AddressRows
<1>4. AddressRows' /\ RowsKept /\ crossed' = crossed
  <2>1. crossed' = crossed
    BY DEF UnsetDefault, DeleteAddress
  <2> QED BY <1>0, <1>2, <1>3, <2>1 DEF AddressRows, RowsKept
<1>5. /\ Handling' /\ pc'[h] = "idle"
      /\ \A g \in Handler \ {h} : pc'[g] = pc[g] /\ task'[g] = task[g]
  BY <1>0, Ends DEF UnsetDefault, DeleteAddress, Moving
<1>6. ASSUME NEW v \in User
      PROVE  /\ Defaults(v)' \subseteq Defaults(v) /\ Defaulting(v)' \subseteq Defaulting(v)
             /\ \A g \in Defaulting(v)' : task'[g] = task[g]
  <2>1. Defaults(v)' \subseteq Defaults(v)
    BY <1>2, <1>3 DEF Defaults, RowsOf
  <2> QED BY <1>5, <2>1 DEF Defaulting
<1>7. DefaultInv'
  BY <1>0, <1>4, <1>6, DefaultKept
<1>8. AddressFits(pc[h], task[h])'
  BY <1>5, AddressIdle DEF AddressStages
<1> QED BY <1>4, <1>5, <1>7, <1>8, AddressHandlers DEF AddressInv

\* Steps that have nothing to do with addresses.
LEMMA AddressRest ==
  ASSUME AddressInv, UNCHANGED addressVars, Quiet(AddressStages)
  PROVE  AddressInv'
<1>0. UNCHANGED <<addresses, crossed>> /\ Handling' /\ AddressRows /\ DefaultInv
  BY DEF addressVars, Quiet, AddressInv
<1>1. RowsKept /\ AddressRows'
  BY <1>0 DEF AddressRows, RowsKept
<1>2. ASSUME NEW g \in Handler
      PROVE  AddressFits(pc[g], task[g])'
  <2>1. CASE pc'[g] \in AddressStages
    BY <1>1, <2>1, AddressFitsKept DEF Quiet, AddressInv
  <2>2. CASE pc'[g] \notin AddressStages
    BY <2>2, AddressIdle
  <2> QED BY <2>1, <2>2
<1>3. ASSUME NEW v \in User
      PROVE  /\ Defaults(v)' \subseteq Defaults(v) /\ Defaulting(v)' \subseteq Defaulting(v)
             /\ \A g \in Defaulting(v)' : task'[g] = task[g]
  BY <1>0 DEF Defaults, RowsOf, Defaulting, Quiet, AddressStages
<1> QED BY <1>0, <1>1, <1>2, <1>3, DefaultKept DEF AddressInv

LEMMA AddressInvStep ==
  ASSUME AddressInv, [RecordsNext]_records
  PROVE  AddressInv'
<1>0. Handling
  BY DEF AddressInv
<1>1. CASE AddressStep
  BY <1>1, AddressStart, AddressAdded, DefaultsFound, DefaultWritten, AddressCleared
    DEF AddressStep
<1>2. ASSUME NEW S, Moving(S), S \intersect AddressStages = {}, UNCHANGED addressVars
      PROVE  AddressInv'
  <2>1. "idle" \notin AddressStages
    BY DEF AddressStages
  <2> QED BY <1>2, <2>1, MovingQuiet, AddressRest
<1>3. \A S \in {TenantStages, KycStages, CommissionStages, {}} : S \intersect AddressStages = {}
  BY DEF TenantStages, AddressStages, KycStages, CommissionStages, Resolving
<1> QED BY <1>0, <1>1, <1>2, <1>3, StepKinds DEF profileVars

LEMMA AddressHolds == RecordsSpec => []AddressInv
<1>1. RecordsInit => AddressInv
  <2> SUFFICES ASSUME RecordsInit
               PROVE  AddressInv
    OBVIOUS
  <2>1. Handling /\ \A h \in Handler : pc[h] = "idle"
    BY DEF RecordsInit, Init, HandlersInit, Handling
  <2>2. AddressRows /\ Len(addresses) = 0
    BY ProfileAssumption DEF RecordsInit, ProfileInit, AddressRows
  <2>3. \A h \in Handler : AddressFits(pc[h], task[h])
    BY <2>1 DEF AddressFits
  <2>4. \A u \in User : Defaults(u) = {} /\ Defaulting(u) = {}
    BY <2>1, <2>2 DEF Defaults, RowsOf, Defaulting
  <2> QED BY <2>1, <2>2, <2>3, <2>4 DEF AddressInv, DefaultInv
<1> QED BY <1>1, AddressInvStep, PTL DEF RecordsSpec

\* A user has one default address, unless two requests of that user for a
\* default have met, whatever else is added, unset or deleted between a
\* handler's queries (AddressRepository in domains/users/repository.py, lines
\* 126-156).
THEOREM RecordsOneDefaultAddress == RecordsSpec => []OneDefaultAddress
<1>1. AddressInv => OneDefaultAddress
  <2> SUFFICES ASSUME AddressInv, NEW u \in User \ crossed
               PROVE  Cardinality(Defaults(u)) <= 1
    BY DEF OneDefaultAddress
  <2>1. CASE Defaults(u) = {}
    <3>1. Cardinality(Defaults(u)) = 0
      BY <2>1, FS_EmptySet
    <3> QED BY <3>1
  <2>2. CASE Defaults(u) # {}
    <3>1. PICK i : i \in Defaults(u)
      BY <2>2
    <3>2. Defaults(u) = {i}
      BY <3>1 DEF AddressInv, DefaultInv
    <3>3. Cardinality(Defaults(u)) = 1
      BY <3>2, FS_Singleton
    <3> QED BY <3>3
  <2> QED BY <2>1, <2>2
<1> QED BY <1>1, AddressHolds, PTL


-----------------------------------------------------------------------------
(* KYC documents *)

KycRows ==
    /\ documents \in Seq(Document) /\ Len(documents) <= MaxDocuments
    /\ verdicts \in Seq(Verdict) /\ Len(verdicts) <= MaxVerdicts
    /\ \A k \in 1 .. Len(verdicts) : verdicts[k].document <= Len(documents)
    /\ contested \subseteq 1 .. MaxDocuments

KycFits(p, t) ==
    p \in KycStages => t \in VerdictTask /\ t.document <= Len(documents)

\* A review that has met no other has read the status its document still has.
JudgeInv ==
    \A i \in (1 .. Len(documents)) \ contested :
        /\ \A g, h \in Judging(i) : g = h
        /\ \A h \in Judging(i) : task[h].read = documents[i].status

\* The last entry of a log about document i tells this status.
Tells(log, i, status) ==
    LET told == {k \in 1 .. Len(log) : log[k].document = i}
    IN IF told = {}
         THEN status = "pending"
         ELSE \A k \in told : (\A l \in told : l <= k) => status = log[k].status

KycTold ==
    \A i \in (1 .. Len(documents)) \ contested : Tells(verdicts, i, documents[i].status)

KycInv ==
    /\ Handling /\ KycRows
    /\ \A h \in Handler : KycFits(pc[h], task[h])
    /\ JudgeInv /\ KycTold

\* One more entry, of another document or of this one.
LEMMA TellsNext ==
  ASSUME NEW log, NEW longer, NEW i, Len(log) \in Nat, Len(longer) = Len(log) + 1,
         \A k \in 1 .. Len(log) : longer[k] = log[k]
  PROVE  /\ \A status : longer[Len(longer)].document # i /\ Tells(log, i, status)
                          => Tells(longer, i, status)
         /\ longer[Len(longer)].document = i => Tells(longer, i, longer[Len(longer)].status)
<1> DEFINE told == {k \in 1 .. Len(log) : log[k].document = i}
           then == {k \in 1 .. Len(longer) : longer[k].document = i}
<1>1. \A k \in 1 .. Len(longer) : k \in 1 .. Len(log) \/ k = Len(longer)
  OBVIOUS
<1>2. \A k \in 1 .. Len(log) : k \in 1 .. Len(longer)
  OBVIOUS
<1>3. ASSUME NEW status, longer[Len(longer)].document # i, Tells(log, i, status)
      PROVE  Tells(longer, i, status)
  <2>1. then = told /\ \A k \in told : longer[k] = log[k]
    BY <1>1, <1>2, <1>3
  <2> QED BY <1>3, <2>1 DEF Tells
<1>4. ASSUME longer[Len(longer)].document = i
      PROVE  Tells(longer, i, longer[Len(longer)].status)
  <2>1. Len(longer) \in then /\ \A k \in then : k <= Len(longer) /\ k \in Nat
    BY <1>4
  <2>2. \A k \in then : (\A l \in then : l <= k) => k = Len(longer)
    BY <2>1
  <2> QED BY <2>1, <2>2 DEF Tells
<1> QED BY <1>3, <1>4

LEMMA KycFitsKept ==
  ASSUME KycRows, KycRows', Len(documents) <= Len(documents'), NEW h \in Handler,
         KycFits(pc[h], task[h]), pc'[h] = pc[h], task'[h] = task[h]
  PROVE  KycFits(pc[h], task[h])'
<1>1. task[h] \in VerdictTask => task[h].document \in Nat
  BY ProfileAssumption DEF VerdictTask
<1> QED BY <1>1 DEF KycFits, KycRows

\* A document that is uploaded has no entry and no review.
LEMMA KycUploaded ==
  ASSUME KycInv, NEW u \in User, UploadKyc(u)
  PROVE  KycInv'
<1>0. Handling /\ KycRows /\ JudgeInv /\ KycTold /\ Len(documents) \in Nat
  BY DEF KycInv, KycRows
<1>1. PICK r : r = [user |-> u, status |-> "pending", reason |-> FALSE]
  OBVIOUS
<1>2. r \in Document /\ r.status = "pending"
  BY <1>1 DEF Document, KycStatus
<1>n. PICK n \in Nat : n = Len(documents) + 1
  BY <1>0
<1>3. /\ Len(documents) < MaxDocuments /\ documents' = Append(documents, r)
      /\ UNCHANGED <<pc, task, verdicts, contested>>
  BY <1>1 DEF UploadKyc
<1>4. /\ documents' \in Seq(Document) /\ Len(documents') = n /\ documents'[n] = r
      /\ \A i \in 1 .. Len(documents) : documents'[i] = documents[i]
      /\ \A i \in 1 .. n : i = n \/ i \in 1 .. Len(documents)
  BY <1>0, <1>2, <1>3, <1>n DEF KycRows
<1>v. \A k \in 1 .. Len(verdicts) : verdicts[k].document \in Nat
  <2>1. \A k \in 1 .. Len(verdicts) : verdicts[k] \in Verdict
    BY <1>0 DEF KycRows
  <2> QED BY <2>1, ProfileAssumption DEF Verdict
<1>5. KycRows' /\ Len(documents) <= Len(documents')
  BY <1>0, <1>3, <1>4, <1>n, <1>v, ProfileAssumption DEF KycRows
<1>6. \A h \in Handler : KycFits(pc[h], task[h])'
  BY <1>0, <1>3, <1>5, KycFitsKept DEF KycInv
<1>7. \A i : Judging(i)' = Judging(i)
  BY <1>3 DEF Judging
<1>8. Judging(n) = {}
  BY <1>0, <1>n DEF KycInv, KycFits, Judging, KycStages
<1>9. JudgeInv'
  BY <1>0, <1>3, <1>4, <1>7, <1>8 DEF JudgeInv
<1>10. Tells(verdicts, n, "pending")
  <2>1. \A k \in 1 .. Len(verdicts) : verdicts[k].document # n
    BY <1>0, <1>n DEF KycRows
  <2> QED BY <2>1 DEF Tells
<1>11. KycTold'
  BY <1>0, <1>2, <1>3, <1>4, <1>10 DEF KycTold
<1> QED BY <1>0, <1>3, <1>5, <1>6, <1>9, <1>11 DEF KycInv, Handling

\* A review reads the status, and is alone with the document or notes it.
LEMMA KycRead ==
  ASSUME KycInv, NEW h \in Handler, NEW i \in 1 .. MaxDocuments,
         NEW stage \in {"accept", "refuse"}, ReadDocument(h, i, stage)
  PROVE  KycInv'
<1>0. Handling /\ KycRows /\ JudgeInv /\ KycTold
  BY DEF KycInv
<1>1. PICK t : t = [kind |-> "verdict", document |-> i, read |-> documents[i].status]
  OBVIOUS
<1>2. /\ Start(h, stage, t) /\ UNCHANGED <<documents, verdicts>>
      /\ i \in 1 .. Len(documents)
      /\ contested' = IF Judging(i) = {} THEN contested ELSE contested \union {i}
  BY <1>1 DEF ReadDocument
<1>3. t \in VerdictTask /\ t.document = i /\ t.read = documents[i].status
  <2>1. documents[i] \in Document
    BY <1>0, <1>2 DEF KycRows
  <2> QED BY <1>1, <2>1 DEF VerdictTask, Document
<1>4. /\ Handling' /\ pc[h] = "idle" /\ pc'[h] = stage /\ task'[h] = t
      /\ \A g \in Handler \ {h} : pc'[g] = pc[g] /\ task'[g] = task[g]
  BY <1>0, <1>2, Starts DEF Moving
<1>5. KycRows' /\ Len(documents) <= Len(documents')
  <2>1. contested' \subseteq 1 .. MaxDocuments
    BY <1>0, <1>2 DEF KycRows
  <2>2. Len(documents) \in Nat
    BY <1>0 DEF KycRows
  <2> QED BY <1>0, <1>2, <2>1, <2>2 DEF KycRows
<1>6. ASSUME NEW g \in Handler
      PROVE  KycFits(pc[g], task[g])'
  <2>1. CASE g = h
    BY <1>2, <1>3, <1>4, <2>1 DEF KycFits
  <2>2. CASE g # h
    BY <1>0, <1>4, <1>5, <2>2, KycFitsKept DEF KycInv
  <2> QED BY <2>1, <2>2
<1>7. \A j : Judging(j)' = IF j = i THEN Judging(j) \union {h} ELSE Judging(j)
  BY <1>3, <1>4 DEF Judging
<1>8. JudgeInv'
  <2> SUFFICES ASSUME NEW j \in (1 .. Len(documents)) \ contested'
               PROVE  /\ \A f, g \in Judging(j)' : f = g
                      /\ \A g \in Judging(j)' : task'[g].read = documents[j].status
    BY <1>2 DEF JudgeInv
  <2>1. CASE j = i
    <3>1. Judging(j)' = {h}
      BY <1>2, <1>7, <2>1
    <3> QED BY <1>3, <1>4, <2>1, <3>1
  <2>2. CASE j # i
    <3>1. Judging(j)' = Judging(j) /\ j \notin contested
      BY <1>2, <1>7, <2>2
    <3>2. \A g \in Judging(j) : task'[g] = task[g]
      BY <1>4 DEF Judging
    <3> QED BY <1>0, <3>1, <3>2 DEF JudgeInv
  <2> QED BY <2>1, <2>2
<1>9. KycTold'
  BY <1>0, <1>2 DEF KycTold
<1> QED BY <1>4, <1>5, <1>6, <1>8, <1>9 DEF KycInv

\* What a review commits: one status, and one entry that tells it.
LEMMA JudgeEffect ==
  ASSUME KycInv, NEW h \in Handler, ApproveKyc(h) \/ RejectKyc(h)
  PROVE  \E i \in 1 .. Len(documents), status \in {"approved", "rejected"} :
           /\ i = task[h].document /\ pc[h] \in KycStages /\ pc'[h] = "idle" /\ Handling'
           /\ \A g \in Handler \ {h} : pc'[g] = pc[g] /\ task'[g] = task[g]
           /\ KycRows' /\ Len(documents') = Len(documents) /\ contested' = contested
           /\ \A j \in 1 .. Len(documents) : j # i => documents'[j] = documents[j]
           /\ documents'[i].status = IF task[h].read = status THEN documents[i].status
                                                              ELSE status
           /\ Len(verdicts') = Len(verdicts) + 1
           /\ \A k \in 1 .. Len(verdicts) : verdicts'[k] = verdicts[k]
           /\ verdicts'[Len(verdicts')].document = i
           /\ verdicts'[Len(verdicts')].status = status
<1>0. Handling /\ KycRows
  BY DEF KycInv
<1>1. PICK status \in {"approved", "rejected"}, reason \in BOOLEAN :
        /\ pc[h] \in KycStages /\ Len(verdicts) < MaxVerdicts
        /\ documents' = [documents EXCEPT
             ![task[h].document].status = IF task[h].read = status THEN @ ELSE status,
             ![task[h].document].reason = @ \/ reason]
        /\ verdicts' = Append(verdicts, [document |-> task[h].document, status |-> status])
        /\ Done(h) /\ contested' = contested
  BY DEF ApproveKyc, RejectKyc, Judge, KycStages
<1>2. PICK i \in 1 .. Len(documents) : i = task[h].document
  BY <1>0, <1>1, ProfileAssumption DEF KycInv, KycFits, VerdictTask, KycRows
<1>3. documents[i] \in Document /\ Len(documents) \in Nat /\ Len(verdicts) \in Nat
  BY <1>0 DEF KycRows
<1>4. PICK s : s = IF task[h].read = status THEN documents[i].status ELSE status
  OBVIOUS
<1>5. PICK r : r = [documents[i] EXCEPT !.status = s, !.reason = documents[i].reason \/ reason]
  OBVIOUS
<1>6. r \in Document /\ r.status = s
  <2>1. s \in KycStatus
    BY <1>3, <1>4 DEF Document, KycStatus
  <2> QED BY <1>3, <1>5, <2>1 DEF Document
<1>7. documents' = [documents EXCEPT ![i] = r]
  BY <1>0, <1>1, <1>2, <1>3, <1>4, <1>5 DEF Document, KycRows
<1>8. /\ documents' \in Seq(Document) /\ Len(documents') = Len(documents)
      /\ \A j \in 1 .. Len(documents) : documents'[j] = IF j = i THEN r ELSE documents[j]
  BY <1>0, <1>6, <1>7 DEF KycRows
<1>9. PICK e : e = [document |-> i, status |-> status]
  OBVIOUS
<1>10. e \in Verdict /\ e.document = i /\ e.status = status
  <2>1. i \in 1 .. MaxDocuments
    BY <1>0, <1>3, ProfileAssumption DEF KycRows
  <2> QED BY <1>9, <2>1 DEF Verdict
<1>11. /\ verdicts' \in Seq(Verdict) /\ Len(verdicts') = Len(verdicts) + 1
       /\ Len(verdicts') <= MaxVerdicts
       /\ \A k \in 1 .. Len(verdicts) : verdicts'[k] = verdicts[k]
       /\ verdicts'[Len(verdicts) + 1] = e
  BY <1>0, <1>1, <1>2, <1>3, <1>9, <1>10, ProfileAssumption DEF KycRows
<1>12. KycRows'
  <2>1. \A k \in 1 .. Len(verdicts') : k \in 1 .. Len(verdicts) \/ k = Len(verdicts) + 1
    BY <1>3, <1>11
  <2> QED BY <1>0, <1>1, <1>3, <1>8, <1>10, <1>11, <2>1 DEF KycRows
<1>13. /\ Handling' /\ pc'[h] = "idle"
       /\ \A g \in Handler \ {h} : pc'[g] = pc[g] /\ task'[g] = task[g]
  BY <1>0, <1>1, Ends DEF Moving
<1>14. /\ \A j \in 1 .. Len(documents) : j # i => documents'[j] = documents[j]
       /\ documents'[i].status = IF task[h].read = status THEN documents[i].status ELSE status
  BY <1>4, <1>6, <1>8
<1>15. /\ verdicts'[Len(verdicts')].document = i
       /\ verdicts'[Len(verdicts')].status = status
  BY <1>10, <1>11
<1> WITNESS i \in 1 .. Len(documents), status \in {"approved", "rejected"}
<1> QED BY <1>1, <1>2, <1>8, <1>11, <1>12, <1>13, <1>14, <1>15

\* A review that met no other leaves the status that its entry tells.
LEMMA KycJudged ==
  ASSUME KycInv, NEW h \in Handler, ApproveKyc(h) \/ RejectKyc(h)
  PROVE  KycInv'
<1>0. Handling /\ KycRows /\ JudgeInv /\ KycTold
  BY DEF KycInv
<1>1. PICK i \in 1 .. Len(documents), status \in {"approved", "rejected"} :
           /\ i = task[h].document /\ pc[h] \in KycStages /\ pc'[h] = "idle" /\ Handling'
           /\ \A g \in Handler \ {h} : pc'[g] = pc[g] /\ task'[g] = task[g]
           /\ KycRows' /\ Len(documents') = Len(documents) /\ contested' = contested
           /\ \A j \in 1 .. Len(documents) : j # i => documents'[j] = documents[j]
           /\ documents'[i].status = IF task[h].read = status THEN documents[i].status
                                                              ELSE status
           /\ Len(verdicts') = Len(verdicts) + 1
           /\ \A k \in 1 .. Len(verdicts) : verdicts'[k] = verdicts[k]
           /\ verdicts'[Len(verdicts')].document = i
           /\ verdicts'[Len(verdicts')].status = status
  BY JudgeEffect
<1>2. h \in Judging(i) /\ \A j : Judging(j)' = Judging(j) \ {h}
  BY <1>1 DEF Judging, KycStages
<1>3. ASSUME NEW g \in Handler
      PROVE  KycFits(pc[g], task[g])'
  <2>1. CASE g = h
    BY <1>1, <2>1 DEF KycFits, KycStages
  <2>2. CASE g # h
    <3>1. Len(documents) <= Len(documents')
      BY <1>0, <1>1 DEF KycRows
    <3> QED BY <1>0, <1>1, <2>2, <3>1, KycFitsKept DEF KycInv
  <2> QED BY <2>1, <2>2
<1>4. JudgeInv'
  <2> SUFFICES ASSUME NEW j \in (1 .. Len(documents)) \ contested
               PROVE  /\ \A f, g \in Judging(j)' : f = g
                      /\ \A g \in Judging(j)' : task'[g].read = documents'[j].status
    BY <1>1 DEF JudgeInv
  <2>1. CASE j = i
    <3>1. Judging(j)' = {}
      BY <1>0, <1>2, <2>1 DEF JudgeInv
    <3> QED BY <3>1
  <2>2. CASE j # i
    <3>1. \A g \in Judging(j)' : task'[g] = task[g] /\ g \in Judging(j)
      BY <1>1, <1>2 DEF Judging
    <3> QED BY <1>0, <1>1, <2>2, <3>1 DEF JudgeInv
  <2> QED BY <2>1, <2>2
<1>5. KycTold'
  <2>0. Len(verdicts) \in Nat
    BY <1>0 DEF KycRows
  <2> SUFFICES ASSUME NEW j \in (1 .. Len(documents)) \ contested
               PROVE  Tells(verdicts', j, documents'[j].status)
    BY <1>1 DEF KycTold
  <2>1. CASE j = i
    <3>1. documents'[j].status = status
      BY <1>0, <1>1, <1>2, <2>1 DEF JudgeInv
    <3> QED BY <1>1, <2>0, <2>1, <3>1, TellsNext
  <2>2. CASE j # i
    <3>1. Tells(verdicts, j, documents'[j].status)
      BY <1>0, <1>1, <2>2 DEF KycTold
    <3> QED BY <1>1, <2>0, <2>2, <3>1, TellsNext
  <2> QED BY <2>1, <2>2
<1> QED BY <1>1, <1>3, <1>4, <1>5 DEF KycInv

\* Steps that have nothing to do with documents.
LEMMA KycRest ==
  ASSUME KycInv, UNCHANGED kycVars, Quiet(KycStages)
  PROVE  KycInv'
<1>0. /\ UNCHANGED <<documents, verdicts, contested>> /\ Handling'
      /\ KycRows /\ JudgeInv /\ KycTold
  BY DEF kycVars, Quiet, KycInv
<1>1. KycRows' /\ Len(documents) <= Len(documents') /\ KycTold'
  BY <1>0 DEF KycRows, KycTold
<1>2. ASSUME NEW g \in Handler
      PROVE  KycFits(pc[g], task[g])'
  <2>1. CASE pc'[g] \in KycStages
    BY <1>0, <1>1, <2>1, KycFitsKept DEF Quiet, KycInv
  <2>2. CASE pc'[g] \notin KycStages
    BY <2>2 DEF KycFits
  <2> QED BY <2>1, <2>2
<1>3. \A i : Judging(i)' \subseteq Judging(i) /\ \A g \in Judging(i)' : task'[g] = task[g]
  BY DEF Judging, Quiet, KycStages
<1>4. JudgeInv'
  BY <1>0, <1>3 DEF JudgeInv
<1> QED BY <1>0, <1>1, <1>2, <1>4 DEF KycInv

LEMMA KycInvStep ==
  ASSUME KycInv, [RecordsNext]_records
  PROVE  KycInv'
<1>0. Handling
  BY DEF KycInv
<1>1. CASE KycStep
  BY <1>1, KycUploaded, KycRead, KycJudged DEF KycStep
<1>2. ASSUME NEW S, Moving(S), S \intersect KycStages = {}, UNCHANGED kycVars
      PROVE  KycInv'
  <2>1. "idle" \notin KycStages
    BY DEF KycStages
  <2> QED BY <1>2, <2>1, MovingQuiet, KycRest
<1>3. \A S \in {TenantStages, AddressStages, CommissionStages, {}} : S \intersect KycStages = {}
  BY DEF TenantStages, AddressStages, KycStages, CommissionStages, Resolving
<1> QED BY <1>0, <1>1, <1>2, <1>3, StepKinds DEF profileVars

LEMMA KycHolds == RecordsSpec => []KycInv
<1>1. RecordsInit => KycInv
  <2> SUFFICES ASSUME RecordsInit
               PROVE  KycInv
    OBVIOUS
  <2>1. Handling /\ \A h \in Handler : pc[h] = "idle"
    BY DEF RecordsInit, Init, HandlersInit, Handling
  <2>2. KycRows /\ Len(documents) = 0
    BY ProfileAssumption DEF RecordsInit, ProfileInit, KycRows
  <2> QED BY <2>1, <2>2 DEF KycInv, JudgeInv, KycTold, KycFits, KycStages
<1> QED BY <1>1, KycInvStep, PTL DEF RecordsSpec

\* A document whose reviews never met has the status that the last entry of the
\* audit log tells, for any number of documents and reversals
\* (lines 142-162 and 206-218 of domains/users/service.py).
THEOREM RecordsKycTellsStatus == RecordsSpec => []KycTellsStatus
<1>1. KycInv => KycTellsStatus
  BY DEF KycInv, KycTold, Tells, KycTellsStatus
<1> QED BY <1>1, KycHolds, PTL


-----------------------------------------------------------------------------
(* Commissions *)

Scopes == {"tenant", "tenant_type", "platform"}

CommissionRows ==
    /\ configs \in Seq(Config) /\ Len(configs) <= MaxConfigs
    /\ today \in Day

\* The rows that nobody has changed are for the request, and those of the scopes
\* it has asked for were not there; the answer passes over none.
CommissionFits(p, t) ==
    /\ p \in Resolving =>
         /\ t \in ResolveTask
         /\ \A i \in t.steady : i <= Len(configs) /\ Meant(configs[i], t)
    /\ p \in Scopes => \A i \in t.steady : Rank(p) <= Rank(configs[i].target.scope)
    /\ p = "resolved" =>
         \A i \in t.steady :
            \/ Rank(t.answer.scope) < Rank(configs[i].target.scope)
            \/ /\ t.answer.scope = configs[i].target.scope
               /\ t.answer.from >= configs[i].from
    /\ p = "change" => t \in ChangeTask /\ t.row <= Len(configs)

CommissionsInv ==
    /\ Handling /\ CommissionRows
    /\ \A h \in Handler : CommissionFits(pc[h], task[h])

\* Configurations are never removed from the table.
ConfigsGrow ==
    Len(configs) \in Nat /\ Len(configs') \in Nat /\ Len(configs) <= Len(configs')

\* A request that has lost at most rows it took to be steady, where the rest are
\* as they were.
LEMMA ResolveFitsKept ==
  ASSUME ConfigsGrow, NEW g \in Handler, CommissionFits(pc[g], task[g]),
         pc'[g] = pc[g], pc[g] \in Resolving, task'[g] \in ResolveTask,
         task'[g].tenant = task[g].tenant, task'[g].types = task[g].types,
         task'[g].day = task[g].day, task'[g].answer = task[g].answer,
         task'[g].steady \subseteq task[g].steady,
         \A i \in task'[g].steady : i \in 1 .. Len(configs) => configs'[i] = configs[i]
  PROVE  CommissionFits(pc[g], task[g])'
<1>1. task[g] \in ResolveTask
  BY DEF CommissionFits
<1>2. ASSUME NEW i \in task'[g].steady
      PROVE  /\ i \in task[g].steady /\ i \in 1 .. Len(configs)
             /\ i <= Len(configs') /\ configs'[i] = configs[i]
             /\ Meant(configs'[i], task'[g])
  <2>1. i \in task[g].steady
    BY <1>2
  <2>2. i \in 1 .. Len(configs)
    <3>1. i \in 1 .. MaxConfigs
      BY <1>1, <2>1 DEF ResolveTask
    <3> QED BY <2>1, <3>1, CommissionsAssumption DEF CommissionFits, ConfigsGrow
  <2>3. configs'[i] = configs[i] /\ i <= Len(configs')
    BY <1>2, <2>2 DEF ConfigsGrow
  <2>4. Meant(configs[i], task[g])
    BY <2>1 DEF CommissionFits
  <2> QED BY <2>1, <2>2, <2>3, <2>4 DEF Meant
<1> QED BY <1>2 DEF CommissionFits, Resolving

\* A handler that stays where it is, while no row is changed.
LEMMA CommissionFitsKept ==
  ASSUME ConfigsGrow, \A i \in 1 .. Len(configs) : configs'[i] = configs[i],
         NEW g \in Handler, CommissionFits(pc[g], task[g]),
         pc'[g] = pc[g], task'[g] = task[g]
  PROVE  CommissionFits(pc[g], task[g])'
<1>1. CASE pc[g] \in Resolving
  <2>1. task[g] \in ResolveTask
    BY <1>1 DEF CommissionFits
  <2> QED BY <1>1, <2>1, ResolveFitsKept
<1>2. CASE pc[g] = "change"
  <2>1. task[g] \in ChangeTask /\ task[g].row <= Len(configs) /\ task[g].row \in Nat
    BY <1>2, CommissionsAssumption DEF CommissionFits, ChangeTask
  <2> QED BY <1>2, <2>1 DEF CommissionFits, ConfigsGrow, Resolving, Scopes
<1>3. CASE pc[g] \notin Resolving \union {"change"}
  BY <1>3 DEF CommissionFits, Resolving, Scopes
<1> QED BY <1>1, <1>2, <1>3

LEMMA CommissionHandlers ==
  ASSUME CommissionsInv, ConfigsGrow, \A i \in 1 .. Len(configs) : configs'[i] = configs[i],
         NEW h \in Handler, \A g \in Handler \ {h} : pc'[g] = pc[g] /\ task'[g] = task[g],
         CommissionFits(pc[h], task[h])'
  PROVE  \A g \in Handler : CommissionFits(pc[g], task[g])'
<1> SUFFICES ASSUME NEW g \in Handler \ {h}
             PROVE  CommissionFits(pc[g], task[g])'
  OBVIOUS
<1> QED BY CommissionFitsKept DEF CommissionsInv

\* The scopes that a row meant for a request can have.
LEMMA MeantScope ==
  ASSUME NEW c, NEW t, Meant(c, t)
  PROVE  /\ c.target.scope \in Scopes
         /\ t.types = {} => c.target.scope # "tenant_type"
BY DEF Meant, Scopes

\* A row that is meant for a request is found by the query of its scope
\* (active_filter and the three queries of resolve_for_tenant).
LEMMA ActiveFinds ==
  ASSUME CommissionRows, NEW t \in ResolveTask, NEW i \in 1 .. Len(configs),
         Meant(configs[i], t)
  PROVE  i \in Active(t, configs[i].target.scope)
<1>1. configs[i] \in Config
  BY DEF CommissionRows
<1>2. /\ configs[i].from \in Nat /\ configs[i].to \in Nat /\ t.day \in Nat
  BY <1>1, CommissionsAssumption DEF Config, Day, ResolveTask
<1>3. InForce(configs[i], t.day)
  BY <1>2, CommissionsAssumption DEF Meant, InForce
<1>4. \/ configs[i].target = [scope |-> "tenant", of |-> t.tenant]
      \/ configs[i].target = [scope |-> "platform", of |-> "all"]
      \/ configs[i].target \in [scope: {"tenant_type"}, of: t.types]
  BY DEF Meant
<1>5. CASE configs[i].target = [scope |-> "tenant", of |-> t.tenant]
  <2>1. configs[i].target.scope = "tenant" /\ configs[i].target.of = t.tenant
    BY <1>5
  <2> QED BY <1>3, <2>1 DEF Active
<1>6. CASE configs[i].target = [scope |-> "platform", of |-> "all"]
  <2>1. configs[i].target.scope = "platform"
    BY <1>6
  <2> QED BY <1>3, <2>1 DEF Active
<1>7. CASE configs[i].target \in [scope: {"tenant_type"}, of: t.types]
  <2>1. configs[i].target.scope = "tenant_type" /\ configs[i].target.of \in t.types
    BY <1>7
  <2> QED BY <1>3, <2>1 DEF Active
<1> QED BY <1>4, <1>5, <1>6, <1>7

\* A request begins with the rows that are meant for it.
LEMMA ResolveStarts ==
  ASSUME CommissionsInv, NEW h \in Handler, NEW tenant \in Tenant_id,
         NEW types \in {{}} \union {{y} : y \in TenantType}, StartResolve(h, tenant, types)
  PROVE  CommissionsInv'
<1>0. Handling /\ CommissionRows /\ Len(configs) \in Nat
  BY DEF CommissionsInv, CommissionRows
<1>1. PICK s : s = [tenant |-> tenant, types |-> types, day |-> today]
  OBVIOUS
<1>2. PICK w : w = {i \in 1 .. Len(configs) : Meant(configs[i], s)}
  OBVIOUS
<1>3. PICK t : t = [kind |-> "resolve", tenant |-> tenant, types |-> types, day |-> today,
                    steady |-> w, answer |-> NoConfig]
  OBVIOUS
<1>4. Start(h, "tenant", t) /\ UNCHANGED <<configs, today>>
  BY <1>1, <1>2, <1>3 DEF StartResolve, commissionVars
<1>5. /\ t \in ResolveTask /\ t.steady = w /\ t.day = s.day /\ t.tenant = s.tenant
      /\ t.types = s.types
  <2>1. w \subseteq 1 .. MaxConfigs
    BY <1>0, <1>2, CommissionsAssumption DEF CommissionRows
  <2>2. NoConfig \in Answer /\ today \in Day /\ types \in SUBSET TenantType
    BY <1>0 DEF Answer, CommissionRows
  <2> QED BY <1>1, <1>3, <2>1, <2>2 DEF ResolveTask
<1>6. /\ Handling' /\ pc'[h] = "tenant" /\ task'[h] = t
      /\ \A g \in Handler \ {h} : pc'[g] = pc[g] /\ task'[g] = task[g]
  BY <1>0, <1>4, Starts DEF Moving
<1>7. ASSUME NEW i \in t.steady
      PROVE  /\ i <= Len(configs) /\ Meant(configs[i], t)
             /\ Rank("tenant") <= Rank(configs[i].target.scope)
  <2>1. i \in 1 .. Len(configs) /\ Meant(configs[i], s)
    BY <1>2, <1>5, <1>7
  <2>2. Meant(configs[i], t)
    BY <1>5, <2>1 DEF Meant
  <2>3. configs[i].target.scope \in Scopes
    BY <2>2, MeantScope
  <2> QED BY <1>0, <2>1, <2>2, <2>3 DEF Rank, Scopes
<1>8. CommissionFits(pc[h], task[h])'
  BY <1>4, <1>5, <1>6, <1>7 DEF CommissionFits, Meant
<1>9. ConfigsGrow /\ CommissionRows'
  BY <1>0, <1>4 DEF ConfigsGrow, CommissionRows
<1> QED BY <1>4, <1>6, <1>8, <1>9, CommissionHandlers DEF CommissionsInv

\* A query finds the row of its scope that began last, or leaves only rows of
\* wider scopes.
LEMMA QueryKeeps ==
  ASSUME CommissionsInv, NEW h \in Handler, QueryTenant(h) \/ QueryTenantType(h) \/ QueryPlatform(h)
  PROVE  CommissionsInv'
<1>t. PICK t : t = task[h]
  OBVIOUS
<1>0. Handling /\ CommissionRows /\ Len(configs) \in Nat
  BY DEF CommissionsInv, CommissionRows
<1>1. PICK scope \in Scopes, next \in Resolving :
        /\ Query(h, scope, next) /\ pc[h] = scope
        /\ \/ scope = "tenant" /\ next = IF t.types = {} THEN "platform" ELSE "tenant_type"
           \/ scope = "tenant_type" /\ next = "platform"
           \/ scope = "platform" /\ next = "resolved"
  BY <1>t DEF QueryTenant, QueryTenantType, QueryPlatform, Query, Scopes, Resolving
<1>2. /\ t \in ResolveTask
      /\ \A i \in t.steady : /\ i \in 1 .. Len(configs) /\ Meant(configs[i], t)
                             /\ Rank(scope) <= Rank(configs[i].target.scope)
  <2>1. CommissionFits(scope, t) /\ scope \in Resolving
    BY <1>t, <1>1 DEF CommissionsInv, Scopes, Resolving
  <2>2. t \in ResolveTask
    BY <2>1 DEF CommissionFits
  <2>3. \A i \in t.steady : i \in 1 .. MaxConfigs
    BY <2>2 DEF ResolveTask
  <2> QED BY <1>0, <1>1, <2>1, <2>2, <2>3, CommissionsAssumption DEF CommissionFits
<1>3. \A i \in t.steady : /\ configs[i].target.scope \in Scopes
                          /\ configs[i].target.scope = scope => i \in Active(t, scope)
                          /\ t.types = {} => configs[i].target.scope # "tenant_type"
  BY <1>0, <1>2, MeantScope, ActiveFinds
<1>4. UNCHANGED <<configs, today>>
  BY <1>1 DEF Query, commissionVars
<1>5. CASE Active(t, scope) = {} /\ Goto(h, next) /\ UNCHANGED task
  <2>1. /\ Handling' /\ pc'[h] = next /\ task'[h] = t
        /\ \A g \in Handler \ {h} : pc'[g] = pc[g] /\ task'[g] = task[g]
    BY <1>0, <1>t, <1>5, GoesOn DEF Moving
  <2>2. ASSUME NEW i \in t.steady
        PROVE  next # "resolved" /\ Rank(next) <= Rank(configs[i].target.scope)
    <3>1. configs[i].target.scope \in Scopes \ {scope}
      BY <1>3, <1>5
    <3> QED BY <1>1, <1>2, <1>3, <3>1 DEF Rank, Scopes
  <2>3. CommissionFits(pc[h], task[h])'
    BY <1>1, <1>2, <1>4, <2>1, <2>2 DEF CommissionFits, Resolving, Meant
  <2>4. ConfigsGrow /\ CommissionRows'
    BY <1>0, <1>4 DEF ConfigsGrow, CommissionRows
  <2> QED BY <1>4, <2>1, <2>3, <2>4, CommissionHandlers DEF CommissionsInv
<1>6. ASSUME NEW i \in Active(t, scope),
             \A j \in Active(t, scope) : configs[j].from <= configs[i].from,
             Goto(h, "resolved"),
             task' = [task EXCEPT ![h].answer =
                        [row |-> i, scope |-> scope, from |-> configs[i].from]]
      PROVE  CommissionsInv'
  <2>1. PICK a : a = [row |-> i, scope |-> scope, from |-> configs[i].from]
    OBVIOUS
  <2>2. a \in Answer /\ a.scope = scope /\ a.from = configs[i].from
    <3>1. i \in 1 .. Len(configs) /\ i \in 1 .. MaxConfigs
      BY <1>0, <1>6, CommissionsAssumption DEF Active, CommissionRows
    <3>2. configs[i].from \in Day
      <4>1. configs[i] \in Config
        BY <1>0, <3>1 DEF CommissionRows
      <4> QED BY <4>1 DEF Config
    <3> QED BY <2>1, <3>1, <3>2 DEF Answer, Scopes
  <2>3. /\ Handling' /\ pc'[h] = "resolved"
        /\ \A g \in Handler \ {h} : pc'[g] = pc[g] /\ task'[g] = task[g]
    <3>1. \E s : task' = [task EXCEPT ![h] = s]
      BY <1>6
    <3> QED BY <1>0, <1>6, <3>1, GoesOn DEF Moving
  <2>4. task'[h] = [t EXCEPT !.answer = a]
    BY <1>0, <1>t, <1>6, <2>1 DEF Handling
  <2>5. /\ task'[h] \in ResolveTask /\ task'[h].steady = t.steady /\ task'[h].answer = a
        /\ task'[h].tenant = t.tenant /\ task'[h].types = t.types /\ task'[h].day = t.day
    BY <1>2, <2>2, <2>4 DEF ResolveTask
  <2>6. ASSUME NEW j \in t.steady
        PROVE  \/ Rank(a.scope) < Rank(configs[j].target.scope)
               \/ a.scope = configs[j].target.scope /\ a.from >= configs[j].from
    <3>1. CASE configs[j].target.scope = scope
      <4>1. j \in Active(t, scope) /\ configs[j].from <= configs[i].from
        BY <1>3, <1>6, <3>1
      <4>2. configs[j].from \in Nat /\ configs[i].from \in Nat
        <5>1. configs[j] \in Config /\ configs[i] \in Config
          BY <1>0, <1>2, <1>6 DEF CommissionRows, Active
        <5> QED BY <5>1, CommissionsAssumption DEF Config, Day
      <4> QED BY <2>2, <3>1, <4>1, <4>2
    <3>2. CASE configs[j].target.scope # scope
      BY <1>2, <1>3, <2>2, <3>2 DEF Rank, Scopes
    <3> QED BY <3>1, <3>2
  <2>7. CommissionFits(pc[h], task[h])'
    BY <1>2, <1>4, <2>3, <2>5, <2>6 DEF CommissionFits, Resolving, Scopes, Meant
  <2>8. ConfigsGrow /\ CommissionRows'
    BY <1>0, <1>4 DEF ConfigsGrow, CommissionRows
  <2> QED BY <1>4, <2>3, <2>7, <2>8, CommissionHandlers DEF CommissionsInv
<1> QED BY <1>t, <1>1, <1>5, <1>6 DEF Query


\* Steps that leave the rows alone and bring nobody to a stage of commissions:
\* midnight, an answer or its failure, and what the other services do.
LEMMA CommissionsRest ==
  ASSUME CommissionsInv, UNCHANGED configs, today' \in Day, Quiet(CommissionStages)
  PROVE  CommissionsInv'
<1>0. Handling' /\ CommissionRows' /\ ConfigsGrow
  BY DEF CommissionsInv, CommissionRows, ConfigsGrow, Quiet
<1>1. ASSUME NEW g \in Handler
      PROVE  CommissionFits(pc[g], task[g])'
  <2>1. CASE pc'[g] \in CommissionStages
    BY <1>0, <2>1, CommissionFitsKept DEF Quiet, CommissionsInv
  <2>2. CASE pc'[g] \notin CommissionStages
    BY <2>2 DEF CommissionFits, CommissionStages, Resolving, Scopes
  <2> QED BY <2>1, <2>2
<1> QED BY <1>0, <1>1 DEF CommissionsInv

LEMMA ConfigCreated ==
  ASSUME CommissionsInv, NEW c \in Config, CreateConfig(c)
  PROVE  CommissionsInv'
<1>0. Handling /\ CommissionRows /\ Len(configs) \in Nat
  BY DEF CommissionsInv, CommissionRows
<1>1. configs' = Append(configs, c) /\ Len(configs) < MaxConfigs /\ UNCHANGED <<pc, task, today>>
  BY DEF CreateConfig
<1>2. /\ configs' \in Seq(Config) /\ Len(configs') = Len(configs) + 1
      /\ \A i \in 1 .. Len(configs) : configs'[i] = configs[i]
  BY <1>0, <1>1 DEF CommissionRows
<1>3. Handling' /\ CommissionRows' /\ ConfigsGrow
  BY <1>0, <1>1, <1>2, CommissionsAssumption DEF Handling, CommissionRows, ConfigsGrow
<1>4. \A g \in Handler : CommissionFits(pc[g], task[g])'
  BY <1>1, <1>2, <1>3, CommissionFitsKept DEF CommissionsInv
<1> QED BY <1>3, <1>4 DEF CommissionsInv

LEMMA ConfigRead ==
  ASSUME CommissionsInv, NEW h \in Handler, NEW i \in 1 .. MaxConfigs,
         NEW from \in Day \union {0}, NEW to \in Day \union {0}, ReadConfig(h, i, from, to)
  PROVE  CommissionsInv'
<1>0. Handling /\ CommissionRows /\ Len(configs) \in Nat
  BY DEF CommissionsInv, CommissionRows
<1>1. PICK f \in Day \union {0}, e \in Day \union {0} :
        Start(h, "change", [kind |-> "change", row |-> i, from |-> f, to |-> e])
  BY DEF ReadConfig
<1>2. PICK t : t = [kind |-> "change", row |-> i, from |-> f, to |-> e]
  OBVIOUS
<1>3. t \in ChangeTask /\ t.row = i /\ i <= Len(configs) /\ UNCHANGED <<configs, today>>
  BY <1>0, <1>2 DEF ChangeTask, ReadConfig, commissionVars
<1>4. /\ Handling' /\ pc'[h] = "change" /\ task'[h] = t
      /\ \A g \in Handler \ {h} : pc'[g] = pc[g] /\ task'[g] = task[g]
  BY <1>0, <1>1, <1>2, Starts DEF Moving
<1>5. CommissionFits(pc[h], task[h])'
  BY <1>3, <1>4 DEF CommissionFits, Resolving, Scopes
<1>6. CommissionRows' /\ ConfigsGrow
  BY <1>0, <1>3 DEF CommissionRows, ConfigsGrow
<1> QED BY <1>3, <1>4, <1>5, <1>6, CommissionHandlers DEF CommissionsInv

\* A row is changed under the requests that are looking, which no longer take
\* it to be steady; the other rows are as they were.
LEMMA ConfigUpdated ==
  ASSUME CommissionsInv, NEW h \in Handler, UpdateConfig(h)
  PROVE  CommissionsInv'
<1>0. Handling /\ CommissionRows /\ Len(configs) \in Nat
  BY DEF CommissionsInv, CommissionRows
<1>t. PICK t : t = task[h]
  OBVIOUS
<1>1. t \in ChangeTask /\ t.row \in 1 .. Len(configs)
  <2>1. CommissionFits("change", t)
    BY <1>t DEF CommissionsInv, UpdateConfig
  <2>2. t \in ChangeTask /\ t.row <= Len(configs)
    BY <2>1 DEF CommissionFits
  <2>3. t.row \in 1 .. MaxConfigs
    BY <2>2 DEF ChangeTask
  <2> QED BY <1>0, <2>2, <2>3, CommissionsAssumption
<1>c. PICK c : c = configs[t.row]
  OBVIOUS
<1>2. c \in Config
  BY <1>0, <1>1, <1>c DEF CommissionRows
<1>3. PICK d \in Config : configs' = [configs EXCEPT ![t.row] = d]
  <2>1. PICK f, e : /\ f = (IF t.from = 0 THEN c.from ELSE t.from)
                    /\ e = (IF t.to = 0 THEN c.to ELSE t.to)
    OBVIOUS
  <2>2. configs' = [configs EXCEPT ![t.row] = [[c EXCEPT !.from = f] EXCEPT !.to = e]]
    BY <1>0, <1>t, <1>1, <1>c, <1>2, <2>1 DEF UpdateConfig, CommissionRows, Config
  <2>3. f \in Day /\ e \in Day \union {0}
    BY <1>1, <1>2, <2>1 DEF ChangeTask, Config
  <2>4. [[c EXCEPT !.from = f] EXCEPT !.to = e] \in Config
    BY <1>2, <2>3 DEF Config
  <2> QED BY <2>2, <2>4
<1>4. /\ configs' \in Seq(Config) /\ Len(configs') = Len(configs)
      /\ \A j \in 1 .. Len(configs) : j # t.row => configs'[j] = configs[j]
  BY <1>0, <1>1, <1>3 DEF CommissionRows
<1>5. CommissionRows' /\ ConfigsGrow
  BY <1>0, <1>4 DEF CommissionRows, ConfigsGrow, UpdateConfig
<1>6. /\ Handling' /\ pc'[h] = "idle"
      /\ \A g \in Handler \ {h} :
           /\ pc'[g] = pc[g]
           /\ pc[g] \in Resolving => task'[g] = [task[g] EXCEPT !.steady = @ \ {t.row}]
           /\ pc[g] \notin Resolving => task'[g] = task[g]
  BY <1>0, <1>t DEF UpdateConfig, Goto, Unsettle, Handling
<1>7. ASSUME NEW g \in Handler \ {h}
      PROVE  CommissionFits(pc[g], task[g])'
  <2>0. CommissionFits(pc[g], task[g])
    BY DEF CommissionsInv
  <2>1. CASE pc[g] \in Resolving
    <3>1. task[g] \in ResolveTask
      BY <2>0, <2>1 DEF CommissionFits
    <3>2. task'[g] = [task[g] EXCEPT !.steady = @ \ {t.row}]
      BY <1>6, <2>1
    <3>3. /\ task'[g] \in ResolveTask /\ task'[g].steady = task[g].steady \ {t.row}
          /\ task'[g].tenant = task[g].tenant /\ task'[g].types = task[g].types
          /\ task'[g].day = task[g].day /\ task'[g].answer = task[g].answer
      BY <3>1, <3>2 DEF ResolveTask
    <3>4. \A j \in task'[g].steady : j \in 1 .. Len(configs) => configs'[j] = configs[j]
      BY <1>4, <3>3
    <3>5. task'[g].steady \subseteq task[g].steady /\ pc'[g] = pc[g] /\ g \in Handler
      BY <1>6, <3>3
    <3> QED BY <1>5, <2>0, <2>1, <3>3, <3>4, <3>5, ResolveFitsKept
  <2>2. CASE pc[g] = "change"
    <3>1. pc'[g] = "change" /\ task'[g] = task[g]
      BY <1>6, <2>2 DEF Resolving
    <3>2. task[g] \in ChangeTask /\ task[g].row <= Len(configs)
      BY <2>0, <2>2 DEF CommissionFits
    <3> QED BY <1>4, <3>1, <3>2 DEF CommissionFits, Resolving, Scopes
  <2>3. CASE pc[g] \notin Resolving \union {"change"}
    BY <1>6, <2>3 DEF CommissionFits, Resolving, Scopes
  <2> QED BY <2>1, <2>2, <2>3
<1>8. CommissionFits(pc[h], task[h])'
  BY <1>6 DEF CommissionFits, Resolving, Scopes
<1> QED BY <1>5, <1>6, <1>7, <1>8 DEF CommissionsInv

LEMMA CommissionsInvStep ==
  ASSUME CommissionsInv, [RecordsNext]_records
  PROVE  CommissionsInv'
<1>0. Handling /\ today \in Day
  BY DEF CommissionsInv, CommissionRows
<1>1. ASSUME NEW S, Moving(S), S \intersect CommissionStages = {}, UNCHANGED configs, today' \in Day
      PROVE  CommissionsInv'
  <2>1. "idle" \notin CommissionStages
    BY DEF CommissionStages, Resolving
  <2> QED BY <1>1, <2>1, MovingQuiet, CommissionsRest
<1>2. CASE CommissionsStep
  <2>1. CASE Midnight
    <3>1. Moving({}) /\ UNCHANGED configs
      BY <1>0, <2>1 DEF Midnight, Moving, Handling
    <3>2. today' \in Day
      BY <1>0, <2>1, CommissionsAssumption DEF Midnight, Day
    <3> QED BY <1>1, <3>1, <3>2
  <2>2. ASSUME NEW h \in Handler, Answered(h)
        PROVE  CommissionsInv'
    <3>1. Moving({}) /\ UNCHANGED configs /\ today' \in Day
      BY <1>0, <2>2, EndsAnyway DEF Answered, commissionVars
    <3> QED BY <1>1, <3>1
  <2> QED BY <1>2, <2>1, <2>2, ConfigCreated, ConfigRead, ConfigUpdated, ResolveStarts, QueryKeeps
          DEF CommissionsStep
<1>3. \A S \in {TenantStages, AddressStages, KycStages, {}} : S \intersect CommissionStages = {}
  BY DEF TenantStages, AddressStages, KycStages, CommissionStages, Resolving
<1> QED BY <1>0, <1>1, <1>2, <1>3, StepKinds DEF commissionVars

LEMMA CommissionsHold == RecordsSpec => []CommissionsInv
<1>1. RecordsInit => CommissionsInv
  <2> SUFFICES ASSUME RecordsInit
               PROVE  CommissionsInv
    OBVIOUS
  <2>1. Handling /\ \A h \in Handler : pc[h] = "idle"
    BY DEF RecordsInit, Init, HandlersInit, Handling
  <2>2. CommissionRows
    BY CommissionsAssumption DEF RecordsInit, CommissionsInit, CommissionRows, Day
  <2> QED BY <2>1, <2>2 DEF CommissionsInv, CommissionFits, Resolving, Scopes
<1> QED BY <1>1, CommissionsInvStep, PTL DEF RecordsSpec

\* The configuration a request answers with is never one of a wider scope, nor
\* one that began earlier, than a configuration in force for it that nobody
\* changed while it ran, whatever else the three queries see: the order tenant,
\* tenant type, platform, and the last to begin, are kept
\* (lines 38-60 of domains/commissions/repository.py).
THEOREM RecordsCommissionResolved == RecordsSpec => []CommissionResolved
<1>1. CommissionsInv => CommissionResolved
  BY DEF CommissionsInv, CommissionFits, CommissionResolved
<1> QED BY <1>1, CommissionsHold, PTL

-----------------------------------------------------------------------------
(* Types *)

\* A handler has a task when it is at work, as each stage says, and none when it
\* is not.
LEMMA AtWork ==
  ASSUME TypeOK, Serving, AddressInv, KycInv, CommissionsInv, NEW h \in Handler
  PROVE  pc[h] = "idle" <=> task[h] = Nothing
<1>1. pc[h] = "idle" => task[h] = Nothing
  BY DEF Serving
<1>2. ASSUME NEW t, t = task[h], pc[h] # "idle"
      PROVE  t # Nothing
  <2>1. pc[h] \in TenantStages \union AddressStages \union KycStages \union CommissionStages
    BY <1>2 DEF Serving, Stages
  <2>2. CASE pc[h] \in TenantStages
    <3>1. t \in RegisterTask \union ReviewTask
      BY <1>2, <2>2 DEF TypeOK, TenantStages
    <3>2. t.kind \in {"register", "review"}
      BY <3>1 DEF RegisterTask, ReviewTask
    <3> QED BY <3>2 DEF Nothing
  <2>3. CASE pc[h] \in AddressStages
    <3>1. t \in DefaultTask \union AddressTask
      BY <1>2, <2>3 DEF AddressInv, AddressFits, AddressStages
    <3>2. t.kind \in {"default", "address"}
      BY <3>1 DEF DefaultTask, AddressTask
    <3> QED BY <3>2 DEF Nothing
  <2>4. CASE pc[h] \in KycStages
    <3>1. t \in VerdictTask
      BY <1>2, <2>4 DEF KycInv, KycFits
    <3>2. t.kind = "verdict"
      BY <3>1 DEF VerdictTask
    <3> QED BY <3>2 DEF Nothing
  <2>5. CASE pc[h] \in CommissionStages
    <3>1. t \in ResolveTask \union ChangeTask
      BY <1>2, <2>5 DEF CommissionsInv, CommissionFits, CommissionStages
    <3>2. t.kind \in {"resolve", "change"}
      BY <3>1 DEF ResolveTask, ChangeTask
    <3> QED BY <3>2 DEF Nothing
  <2> QED BY <2>1, <2>2, <2>3, <2>4, <2>5
<1> QED BY <1>1, <1>2

LEMMA ServingStep ==
  ASSUME Serving, [RecordsNext]_records
  PROVE  Serving'
<1>1. \A S \in {TenantStages, AddressStages, KycStages, CommissionStages, {}} :
        S \in SUBSET Stages /\ "idle" \notin S
  BY DEF Stages, TenantStages, AddressStages, KycStages, CommissionStages, Resolving
<1>2. Handling
  BY DEF Serving
<1> QED BY <1>1, <1>2, MovingServes, StepKinds

LEMMA ServingHolds == RecordsSpec => []Serving
<1>1. RecordsInit => Serving
  BY DEF RecordsInit, Init, HandlersInit, Serving, Handling, Stages
<1> QED BY <1>1, ServingStep, PTL DEF RecordsSpec

\* A step sets the stage of handlers, and nothing else of pc.
LEMMA StaysAFunction ==
  ASSUME pc \in [Handler -> Stages], [RecordsNext]_records
  PROVE  pc' \in [Handler -> Stages]
<1>0. ASSUME NEW h \in Handler, NEW stage \in Stages, Goto(h, stage)
      PROVE  pc' \in [Handler -> Stages]
  BY <1>0 DEF Goto
<1>s. /\ "idle" \in Stages
      /\ "slug" \in Stages /\ "insert" \in Stages /\ "approve" \in Stages /\ "reject" \in Stages
      /\ "clear" \in Stages /\ "default" \in Stages /\ "unset" \in Stages /\ "remove" \in Stages
      /\ "accept" \in Stages /\ "refuse" \in Stages
      /\ "tenant" \in Stages /\ "tenant_type" \in Stages /\ "platform" \in Stages
      /\ "resolved" \in Stages /\ "change" \in Stages
  BY DEF Stages, TenantStages, AddressStages, KycStages, CommissionStages, Resolving
<1>1. ASSUME NEW h \in Handler, Register(h) \/ ReviewTenant(h)
      PROVE  pc' \in [Handler -> Stages]
  <2>1. \/ UNCHANGED pc
        \/ Goto(h, "slug") \/ Goto(h, "insert") \/ Goto(h, "approve") \/ Goto(h, "reject")
        \/ Goto(h, "idle")
    BY <1>1 DEF Register, CheckOwner, TrySlug, InsertTenant, ReviewTenant, StartReview, Approve,
                Reject, Decide, Start, Done
  <2> QED BY <1>0, <1>s, <2>1
<1>2. CASE AddressStep
  <2>1. \/ UNCHANGED pc
        \/ \E h \in Handler :
             \/ Goto(h, "clear") \/ Goto(h, "default") \/ Goto(h, "unset") \/ Goto(h, "remove")
             \/ Goto(h, "idle")
    BY <1>2 DEF AddressStep, AddPlain, AddDefault, ReadAddress, ClearDefault, WriteDefault,
                UnsetDefault, DeleteAddress, Start, Done
  <2> QED BY <1>0, <1>s, <2>1
<1>3. CASE KycStep
  <2>1. \/ UNCHANGED pc
        \/ \E h \in Handler : Goto(h, "accept") \/ Goto(h, "refuse") \/ Goto(h, "idle")
    BY <1>3 DEF KycStep, UploadKyc, ReadDocument, ApproveKyc, RejectKyc, Judge, Start, Done
  <2> QED BY <1>0, <1>s, <2>1
<1>4. CASE CommissionsStep
  <2>1. \/ UNCHANGED pc
        \/ \E h \in Handler :
             \/ Goto(h, "tenant") \/ Goto(h, "tenant_type") \/ Goto(h, "platform")
             \/ Goto(h, "resolved") \/ Goto(h, "change") \/ Goto(h, "idle")
    BY <1>4 DEF CommissionsStep, Midnight, CreateConfig, StartResolve, QueryTenant,
                QueryTenantType, QueryPlatform, Query, Answered, ReadConfig, UpdateConfig,
                Start, Done
  <2> QED BY <1>0, <1>s, <2>1
<1>5. CASE AnyFails
  <2>1. \E h \in Handler : Goto(h, "idle")
    BY <1>5 DEF AnyFails, Fail, Quit, Done
  <2> QED BY <1>0, <1>s, <2>1
<1>6. CASE UNCHANGED records
  BY <1>6 DEF records, vars
<1> QED BY <1>1, <1>2, <1>3, <1>4, <1>5, <1>6
        DEF RecordsNext, TenantRecords, AddressRecords, KycRecords, CommissionRecords

Staged == pc \in [Handler -> Stages]

LEMMA StagesHold == RecordsSpec => []Staged
<1>1. RecordsInit => Staged
  BY DEF RecordsInit, Init, HandlersInit, Staged, Stages
<1>2. Staged /\ [RecordsNext]_records => Staged'
  BY StaysAFunction DEF Staged
<1> QED BY <1>1, <1>2, PTL DEF RecordsSpec

\* Every handler is at a stage of one of the services, with the values that
\* stage works with, and every table holds rows of its own kind: no request of
\* one service meets what a request of another left in its handler.
THEOREM RecordsTypes == RecordsSpec => []RecordsTypeOK
<1>1. ASSUME Staged, Serving, TenantsInv, AddressInv, KycInv, CommissionsInv
      PROVE  RecordsTypeOK
  <2>0. TypeOK
    BY <1>1 DEF TenantsInv
  <2>1. pc \in [Handler -> {"idle", "slug", "insert", "approve", "reject", "clear",
                            "default", "unset", "remove", "accept", "refuse",
                            "tenant", "tenant_type", "platform", "resolved", "change"}]
    BY <1>1 DEF Staged, Stages, TenantStages, AddressStages, KycStages, CommissionStages, Resolving
  <2>2. \A h \in Handler : pc[h] = "idle" <=> task[h] = Nothing
    BY <1>1, <2>0, AtWork
  <2>3. ProfileTypeOK
    BY <1>1 DEF ProfileTypeOK, AddressInv, AddressRows, AddressFits, KycInv, KycRows, KycFits,
                KycStages
  <2>4. CommissionsTypeOK
    BY <1>1 DEF CommissionsTypeOK, CommissionsInv, CommissionRows, CommissionFits
  <2> QED BY <2>0, <2>1, <2>2, <2>3, <2>4 DEF RecordsTypeOK
<1> QED BY <1>1, StagesHold, ServingHolds, TenantsHold, AddressHolds, KycHolds, CommissionsHold, PTL

-----------------------------------------------------------------------------
(* Tenants are served as if alone *)

TenantPc == [h \in Handler |-> IF pc[h] \in TenantStages THEN pc[h] ELSE "idle"]

TenantTask == [h \in Handler |-> IF pc[h] \in TenantStages THEN task[h] ELSE Nothing]

Alone == INSTANCE Tenants WITH pc <- TenantPc, task <- TenantTask

\* One handler moves in the eyes of tenants.
LEMMA MovesAlone ==
  ASSUME NEW h \in Handler, \A g \in Handler \ {h} : pc'[g] = pc[g] /\ task'[g] = task[g]
  PROVE  /\ TenantPc' = [TenantPc EXCEPT ![h] = TenantPc'[h]]
         /\ TenantTask' = [TenantTask EXCEPT ![h] = TenantTask'[h]]
BY DEF TenantPc, TenantTask

\* A handler at work on tenants is so alone too, and the others do not show.
LEMMA SeenAlone ==
  ASSUME NEW h \in Handler
  PROVE  /\ pc[h] \in TenantStages => TenantPc[h] = pc[h] /\ TenantTask[h] = task[h]
         /\ pc[h] \notin TenantStages => TenantPc[h] = "idle" /\ TenantTask[h] = Nothing
BY DEF TenantPc, TenantTask

LEMMA SameAlone ==
  /\ \A o : Alone!TenantsOf(o) = TenantsOf(o) /\ Alone!Registering(o) = Registering(o)
  /\ \A i : Alone!Reviewing(i) = Reviewing(i)
  /\ \A slug : Alone!Taken(slug) <=> Taken(slug)
  /\ \A base, n : Alone!Candidate(base, n) = Candidate(base, n)
  /\ Alone!Nothing = Nothing
BY DEF Alone!TenantsOf, TenantsOf, Alone!Registering, Registering, Alone!Reviewing, Reviewing,
       Alone!Taken, Taken, Alone!Candidate, Candidate, Alone!Nothing, Nothing, TenantPc,
       TenantTask, TenantStages

LEMMA StartsAlone ==
  ASSUME Handling, NEW h \in Handler, NEW stage \in TenantStages, NEW t, Start(h, stage, t)
  PROVE  Alone!Start(h, stage, t)
<1>1. /\ pc[h] = "idle" /\ pc'[h] = stage /\ task'[h] = t
      /\ \A g \in Handler \ {h} : pc'[g] = pc[g] /\ task'[g] = task[g]
  BY Starts
<1>2. pc[h] \notin TenantStages
  BY <1>1 DEF TenantStages
<1>3. TenantPc[h] = "idle" /\ TenantPc'[h] = stage /\ TenantTask'[h] = t
  BY <1>1, <1>2 DEF TenantPc, TenantTask
<1> QED BY <1>1, <1>3, MovesAlone DEF Alone!Start, Alone!Goto

LEMMA EndsAlone ==
  ASSUME Handling, NEW h \in Handler, Done(h)
  PROVE  Alone!Done(h)
<1>1. /\ pc'[h] = "idle" /\ task'[h] = Nothing
      /\ \A g \in Handler \ {h} : pc'[g] = pc[g] /\ task'[g] = task[g]
  BY Ends
<1>2. TenantPc'[h] = "idle" /\ TenantTask'[h] = Nothing
  BY <1>1 DEF TenantPc, TenantTask
<1> QED BY <1>1, <1>2, MovesAlone, SameAlone DEF Alone!Done, Alone!Goto

LEMMA RegisterAlone ==
  ASSUME Handling, NEW h \in Handler, Register(h)
  PROVE  Alone!Register(h)
<1>1. ASSUME NEW o \in Owner, NEW base \in BaseSlug, CheckOwner(h, o, base)
      PROVE  Alone!CheckOwner(h, o, base)
  <2>1. "slug" \in TenantStages
    BY DEF TenantStages
  <2>2. Alone!Start(h, "slug", [kind |-> "register", owner |-> o, base |-> base, counter |-> 0])
    BY <1>1, <2>1, StartsAlone DEF CheckOwner
  <2> QED BY <1>1, <2>2, SameAlone DEF CheckOwner, Alone!CheckOwner
<1>2. CASE TrySlug(h)
  <2>1. pc[h] = "slug" /\ TenantPc[h] = "slug" /\ TenantTask[h] = task[h]
    BY <1>2, SeenAlone DEF TrySlug, TenantStages
  <2>2. CASE Taken(Candidate(task[h].base, task[h].counter))
    <3>1. PICK t : t = [task[h] EXCEPT !.counter = task[h].counter + 1]
      OBVIOUS
    <3>2. task' = [task EXCEPT ![h] = t] /\ UNCHANGED pc
      BY <1>2, <2>2, <3>1 DEF TrySlug
    <3>3. /\ \A g \in Handler \ {h} : pc'[g] = pc[g] /\ task'[g] = task[g]
          /\ pc'[h] = "slug" /\ task'[h] = t
      BY <2>1, <3>2 DEF Handling
    <3>4. UNCHANGED TenantPc
      BY <3>2 DEF TenantPc
    <3>5. TenantTask'[h] = t
      BY <3>3 DEF TenantTask, TenantStages
    <3>6. TenantTask' = [TenantTask EXCEPT ![h] = t]
      BY <3>3, <3>5, MovesAlone
    <3>7. TenantTask' = [TenantTask EXCEPT ![h].counter = TenantTask[h].counter + 1]
      BY <2>1, <3>1, <3>6 DEF TenantTask
    <3> QED BY <1>2, <2>1, <2>2, <3>4, <3>7, SameAlone DEF TrySlug, Alone!TrySlug, history, Alone!history, Alone!Register
  <2>3. CASE ~ Taken(Candidate(task[h].base, task[h].counter))
    <3>1. Goto(h, "insert") /\ UNCHANGED task
      BY <1>2, <2>3 DEF TrySlug
    <3>2. /\ \A g \in Handler \ {h} : pc'[g] = pc[g] /\ task'[g] = task[g]
          /\ pc'[h] = "insert" /\ task'[h] = task[h]
      BY <3>1, GoesOn
    <3>3. TenantPc'[h] = "insert" /\ TenantTask'[h] = TenantTask[h]
      BY <2>1, <3>2 DEF TenantPc, TenantTask, TenantStages
    <3>4. TenantPc' = [TenantPc EXCEPT ![h] = "insert"] /\ TenantTask' = TenantTask
      BY <3>2, <3>3, MovesAlone DEF TenantTask
    <3> QED BY <1>2, <2>1, <2>3, <3>4, SameAlone
            DEF TrySlug, Alone!TrySlug, Alone!Goto, history, Alone!history, Alone!Register
  <2> QED BY <2>2, <2>3
<1>3. CASE InsertTenant(h)
  <2>1. pc[h] = "insert" /\ TenantPc[h] = "insert" /\ TenantTask[h] = task[h]
    BY <1>3, SeenAlone DEF InsertTenant, TenantStages
  <2>2. Alone!Done(h)
    BY <1>3, EndsAlone DEF InsertTenant
  <2> QED BY <1>3, <2>1, <2>2, SameAlone
          DEF InsertTenant, Alone!InsertTenant, history, Alone!history, Alone!Register
<1> QED BY <1>1, <1>2, <1>3 DEF Register, Alone!Register

LEMMA ReviewAlone ==
  ASSUME Handling, NEW h \in Handler, ReviewTenant(h)
  PROVE  Alone!ReviewTenant(h)
<1>1. ASSUME NEW i \in 1 .. MaxTenants, NEW stage \in {"approve", "reject"},
             StartReview(h, i, stage)
      PROVE  Alone!StartReview(h, i, stage)
  <2>1. stage \in TenantStages
    BY DEF TenantStages
  <2>2. Alone!Start(h, stage, [kind |-> "review", tenant |-> i, read |-> tenants[i].status])
    BY <1>1, <2>1, StartsAlone DEF StartReview
  <2> QED BY <1>1, <2>2, SameAlone DEF StartReview, Alone!StartReview
<1>2. ASSUME NEW stage \in {"approve", "reject"}, NEW status, Decide(h, stage, status)
      PROVE  Alone!Decide(h, stage, status)
  <2>1. pc[h] = stage /\ TenantPc[h] = stage /\ TenantTask[h] = task[h]
    BY <1>2, SeenAlone DEF Decide, TenantStages
  <2>2. Alone!Done(h)
    BY <1>2, EndsAlone DEF Decide
  <2> QED BY <1>2, <2>1, <2>2 DEF Decide, Alone!Decide, history, Alone!history
<1> QED BY <1>1, <1>2 DEF ReviewTenant, Alone!ReviewTenant, Approve, Reject, Alone!Approve,
                          Alone!Reject

\* A handler that fails, at a stage of tenants or another one.
LEMMA FailsAlone ==
  ASSUME Handling, NEW h \in Handler, Fail(h)
  PROVE  [Alone!Next]_Alone!vars
<1>1. UNCHANGED <<tenants, audit, doubled, overlapped>> /\ Done(h)
  BY DEF Fail, Quit, history
<1>2. CASE pc[h] \in TenantStages
  <2>1. TenantPc[h] # "idle"
    BY <1>2, SeenAlone DEF TenantStages
  <2>2. Alone!Fail(h)
    BY <1>1, <2>1, EndsAlone DEF Alone!Fail, Alone!Quit, Alone!history
  <2> QED BY <2>2 DEF Alone!Next
<1>3. CASE pc[h] \notin TenantStages
  <2>1. /\ pc'[h] = "idle" /\ \A g \in Handler \ {h} : pc'[g] = pc[g] /\ task'[g] = task[g]
    BY <1>1, Ends
  <2>2. UNCHANGED <<TenantPc, TenantTask>>
    BY <1>3, <2>1 DEF TenantPc, TenantTask, TenantStages
  <2> QED BY <1>1, <2>2 DEF Alone!vars, Alone!history
<1> QED BY <1>2, <1>3

\* A handler that the other kinds of requests move is at no stage of tenants.
LEMMA AddressElsewhere ==
  ASSUME Handling, AddressStep, NEW g \in Handler, pc[g] \in TenantStages
  PROVE  pc'[g] = pc[g] /\ task'[g] = task[g]
<1>1. ASSUME NEW h \in Handler, NEW u, NEW i, NEW stage,
             AddDefault(h, u) \/ ReadAddress(h, u, i, stage)
      PROVE  pc'[g] = pc[g] /\ task'[g] = task[g]
  BY <1>1 DEF AddDefault, ReadAddress, Start, Goto, Handling, TenantStages
<1>2. ASSUME NEW h \in Handler, ClearDefault(h)
      PROVE  pc'[g] = pc[g] /\ task'[g] = task[g]
  BY <1>2 DEF ClearDefault, Goto, Handling, TenantStages
<1>3. ASSUME NEW h \in Handler, WriteDefault(h) \/ UnsetDefault(h) \/ DeleteAddress(h)
      PROVE  pc'[g] = pc[g] /\ task'[g] = task[g]
  BY <1>3 DEF WriteDefault, UnsetDefault, DeleteAddress, Done, Goto, Handling, TenantStages
<1> QED BY <1>1, <1>2, <1>3 DEF AddressStep, AddPlain

LEMMA KycElsewhere ==
  ASSUME Handling, KycStep, NEW g \in Handler, pc[g] \in TenantStages
  PROVE  pc'[g] = pc[g] /\ task'[g] = task[g]
<1>1. ASSUME NEW h \in Handler, NEW i, NEW stage, ReadDocument(h, i, stage)
      PROVE  pc'[g] = pc[g] /\ task'[g] = task[g]
  BY <1>1 DEF ReadDocument, Start, Goto, Handling, TenantStages
<1>2. ASSUME NEW h \in Handler, ApproveKyc(h) \/ RejectKyc(h)
      PROVE  pc'[g] = pc[g] /\ task'[g] = task[g]
  BY <1>2 DEF ApproveKyc, RejectKyc, Judge, Done, Goto, Handling, TenantStages
<1> QED BY <1>1, <1>2 DEF KycStep, UploadKyc

LEMMA CommissionsElsewhere ==
  ASSUME Handling, CommissionsStep, NEW g \in Handler, pc[g] \in TenantStages
  PROVE  pc'[g] = pc[g] /\ task'[g] = task[g]
<1>1. CASE Midnight \/ \E c \in Config : CreateConfig(c)
  BY <1>1 DEF Midnight, CreateConfig
<1>2. ASSUME NEW h \in Handler, NEW tenant, NEW types, StartResolve(h, tenant, types)
      PROVE  pc'[g] = pc[g] /\ task'[g] = task[g]
  BY <1>2 DEF StartResolve, Start, Goto, Handling, TenantStages
<1>3. ASSUME NEW h \in Handler, NEW scope \in Scopes, NEW next, Query(h, scope, next)
      PROVE  pc'[g] = pc[g] /\ task'[g] = task[g]
  BY <1>3 DEF Query, Goto, Handling, TenantStages, Scopes
<1>4. ASSUME NEW h \in Handler, Answered(h)
      PROVE  pc'[g] = pc[g] /\ task'[g] = task[g]
  BY <1>4 DEF Answered, Done, Goto, Handling, TenantStages
<1>5. ASSUME NEW h \in Handler, NEW i, NEW from, NEW to, ReadConfig(h, i, from, to)
      PROVE  pc'[g] = pc[g] /\ task'[g] = task[g]
  BY <1>5 DEF ReadConfig, Start, Goto, Handling, TenantStages
<1>6. ASSUME NEW h \in Handler, UpdateConfig(h)
      PROVE  pc'[g] = pc[g] /\ task'[g] = task[g]
  BY <1>6 DEF UpdateConfig, Unsettle, Goto, Handling, TenantStages, Resolving
<1> QED BY <1>1, <1>2, <1>3, <1>4, <1>5, <1>6
        DEF CommissionsStep, QueryTenant, QueryTenantType, QueryPlatform, Scopes

\* A step of theirs does not show.
LEMMA OthersDoNotShow ==
  ASSUME UNCHANGED tenantVars, NEW S, Moving(S), S \intersect TenantStages = {},
         \A g \in Handler : pc[g] \in TenantStages => pc'[g] = pc[g] /\ task'[g] = task[g]
  PROVE  UNCHANGED Alone!vars
<1>1. \A g \in Handler : pc[g] \notin TenantStages => pc'[g] \notin TenantStages
  BY DEF Moving, TenantStages
<1>2. UNCHANGED <<TenantPc, TenantTask>>
  BY <1>1 DEF TenantPc, TenantTask
<1> QED BY <1>2 DEF tenantVars, history, Alone!vars, Alone!history

\* Seen by tenants, user-service is Tenants: the requests of the other records,
\* which the same processes serve from the same database, add no behaviour to
\* registrations and reviews and take none of their steps apart
\* (domains/tenants/service.py).
THEOREM RecordsKeepsTenants == RecordsSpec => Alone!Spec
<1>1. RecordsInit => Alone!Init
  BY DEF RecordsInit, Init, HandlersInit, Alone!Init, Alone!HandlersInit, Alone!Nothing, Nothing,
         TenantPc, TenantTask, TenantStages
<1>2. ASSUME Serving, [RecordsNext]_records
      PROVE  [Alone!Next]_Alone!vars
  <2>0. Handling
    BY <1>2 DEF Serving
  <2>1. CASE TenantRecords
    BY <2>0, <2>1, RegisterAlone, ReviewAlone DEF TenantRecords, Alone!Next
  <2>2. CASE AddressRecords
    <3>1. AddressStages \intersect TenantStages = {}
      BY DEF AddressStages, TenantStages
    <3> QED BY <2>0, <2>2, <3>1, AddressMoves, AddressElsewhere, OthersDoNotShow DEF AddressRecords
  <2>3. CASE KycRecords
    <3>1. KycStages \intersect TenantStages = {}
      BY DEF KycStages, TenantStages
    <3> QED BY <2>0, <2>3, <3>1, KycMoves, KycElsewhere, OthersDoNotShow DEF KycRecords
  <2>4. CASE CommissionRecords
    <3>1. CommissionStages \intersect TenantStages = {}
      BY DEF CommissionStages, Resolving, TenantStages
    <3> QED BY <2>0, <2>4, <3>1, CommissionMoves, CommissionsElsewhere, OthersDoNotShow
            DEF CommissionRecords
  <2>5. CASE AnyFails
    BY <2>0, <2>5, FailsAlone DEF AnyFails
  <2>6. CASE UNCHANGED records
    BY <2>6 DEF records, vars, history, TenantPc, TenantTask, Alone!vars, Alone!history
  <2> QED BY <1>2, <2>1, <2>2, <2>3, <2>4, <2>5, <2>6 DEF RecordsNext
<1> QED BY <1>1, <1>2, ServingHolds, PTL DEF RecordsSpec, Alone!Spec

=============================================================================
