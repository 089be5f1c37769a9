------------------------------ MODULE Tenants ------------------------------
(***************************************************************************)
(* Tenants of user-service: a registration looks for its owner's tenant    *)
(* and for a free slug, and inserts the row; an admin approves or rejects  *)
(* it, with an entry of the audit log in the same transaction              *)
(* (domains/tenants/service.py).                                           *)
(*                                                                         *)
(* As in Directory a step is what one transaction reads or commits, and as *)
(* in Rbac a commit writes the columns that differ from those read.        *)
(***************************************************************************)
EXTENDS Handlers, Naturals, Sequences, FiniteSets

CONSTANTS
    Owner,          \* users who register a tenant
    BaseSlug,       \* what _slugify makes of business names: a slug is a
                    \* sequence of words, a word a number (a numeral itself)
    MaxTenants,     \* bound: tenants ever inserted
    MaxReviews      \* bound: reviews ever committed

ASSUME TenantsAssumption ==
    /\ BaseSlug \subseteq Seq(Nat)
    /\ MaxTenants \in Nat /\ MaxReviews \in Nat

VARIABLES
    tenants,    \* the tenants table, in the order of insertion
    audit,      \* audit_logs: the reviews of tenants
    \* history, read by no guard:
    doubled,    \* owners two of whose registrations were in flight together
    overlapped  \* tenants that two reviews have worked on at the same time

history == <<doubled, overlapped>>
vars == <<tenants, audit, pc, task, history>>

-----------------------------------------------------------------------------
(* Types *)

Status == {"pending", "active", "rejected"}

\* f"{base_slug}-{counter}", and base_slug itself first
Candidate(base, n) == IF n = 0 THEN base ELSE Append(base, n)

Slug == {Candidate(b, n) : b \in BaseSlug, n \in 0 .. MaxTenants}

\* base: what the slug was made from
Tenant == [owner: Owner, base: BaseSlug, slug: Slug, status: Status]

Review == [tenant: 1 .. MaxTenants, old: Status, new: {"active", "rejected"}]

RegisterTask ==
    [kind: {"register"}, owner: Owner, base: BaseSlug, counter: 0 .. MaxTenants]

ReviewTask == [kind: {"review"}, tenant: 1 .. MaxTenants, read: Status]

TypeOK ==
    /\ tenants \in Seq(Tenant) /\ Len(tenants) <= MaxTenants
    /\ audit \in Seq(Review) /\ Len(audit) <= MaxReviews
    /\ \A k \in 1 .. Len(audit) : audit[k].tenant <= Len(tenants)
    /\ \A h \in Handler :
         /\ pc[h] \in {"slug", "insert"} => task[h] \in RegisterTask
         /\ pc[h] \in {"approve", "reject"} =>
              task[h] \in ReviewTask /\ task[h].tenant <= Len(tenants)
    /\ doubled \subseteq Owner
    /\ overlapped \subseteq 1 .. MaxTenants

Init ==
    /\ tenants = <<>> /\ audit = <<>>
    /\ HandlersInit
    /\ doubled = {} /\ overlapped = {}

-----------------------------------------------------------------------------
(* Helpers *)

TenantsOf(o) == {i \in 1 .. Len(tenants) : tenants[i].owner = o}

Taken(slug) == \E i \in 1 .. Len(tenants) : tenants[i].slug = slug

Registering(o) == {h \in Handler : pc[h] \in {"slug", "insert"} /\ task[h].owner = o}

Reviewing(i) == {h \in Handler : pc[h] \in {"approve", "reject"} /\ task[h].tenant = i}

-----------------------------------------------------------------------------
(* POST /tenants/register *)

\* Mutant: only a tenant in force keeps its owner from another.
CheckOwnerActive(h, o, base) ==
    /\ \A i \in TenantsOf(o) : tenants[i].status = "rejected"
    /\ Start(h, "slug", [kind |-> "register", owner |-> o, base |-> base, counter |-> 0])
    /\ doubled' = IF Registering(o) = {} THEN doubled ELSE doubled \union {o}
    /\ UNCHANGED <<tenants, audit, overlapped>>

\* An owner of one tenant gets a 409; the lookup fails for one of several.
CheckOwner(h, o, base) ==
    /\ TenantsOf(o) = {}
    /\ Start(h, "slug", [kind |-> "register", owner |-> o, base |-> base, counter |-> 0])
    /\ doubled' = IF Registering(o) = {} THEN doubled ELSE doubled \union {o}
    /\ UNCHANGED <<tenants, audit, overlapped>>

\* Mutant: the counter goes on by two.
TrySlugByTwo(h) ==
    LET t == task[h]
    IN /\ pc[h] = "slug"
       /\ IF Taken(Candidate(t.base, t.counter))
            THEN task' = [task EXCEPT ![h].counter = @ + 2] /\ UNCHANGED pc
            ELSE Goto(h, "insert") /\ UNCHANGED task
       /\ UNCHANGED <<tenants, audit, history>>

\* One round of the loop.  Every candidate it passes over is a tenant's, so
\* the counter stays within the number of tenants.
TrySlug(h) ==
    LET t == task[h]
    IN /\ pc[h] = "slug"
       /\ IF Taken(Candidate(t.base, t.counter))
            THEN task' = [task EXCEPT ![h].counter = t.counter + 1] /\ UNCHANGED pc
            ELSE Goto(h, "insert") /\ UNCHANGED task
       /\ UNCHANGED <<tenants, audit, history>>

\* The row is inserted, or its slug has been taken since: the column is unique.
\* Nothing in the table keeps a second tenant of the owner out.
InsertTenant(h) ==
    LET t == task[h]
        slug == Candidate(t.base, t.counter)
    IN /\ pc[h] = "insert"
       /\ \/ /\ ~ Taken(slug)
             /\ Len(tenants) < MaxTenants
             /\ tenants' = Append(tenants, [owner |-> t.owner, base |-> t.base,
                                            slug |-> slug, status |-> "pending"])
          \/ Taken(slug) /\ UNCHANGED tenants
       /\ Done(h)
       /\ UNCHANGED <<audit, history>>

-----------------------------------------------------------------------------
(* PATCH /admin/tenants/{id}/approve and /reject *)

\* Both read the row; only an approval looks at the status.
StartReview(h, i, stage) ==
    /\ i \in 1 .. Len(tenants)
    /\ stage = "approve" => tenants[i].status # "active"
    /\ Start(h, stage, [kind |-> "review", tenant |-> i, read |-> tenants[i].status])
    /\ overlapped' = IF Reviewing(i) = {} THEN overlapped ELSE overlapped \union {i}
    /\ UNCHANGED <<tenants, audit, doubled>>

\* The status and the entry are committed together; a status equal to the one
\* read is not written.
Decide(h, stage, status) ==
    LET i == task[h].tenant
        old == task[h].read
    IN /\ pc[h] = stage
       /\ Len(audit) < MaxReviews
       /\ tenants' = [tenants EXCEPT ![i].status = IF old = status THEN tenants[i].status ELSE status]
       /\ audit' = Append(audit, [tenant |-> i, old |-> old, new |-> status])
       /\ Done(h)
       /\ UNCHANGED history

Approve(h) == Decide(h, "approve", "active")

\* Mutant: a rejection of an active tenant is logged and has no effect.
RejectUnlessActive(h) ==
    LET i == task[h].tenant
        old == task[h].read
    IN /\ pc[h] = "reject"
       /\ Len(audit) < MaxReviews
       /\ tenants' = [tenants EXCEPT ![i].status = IF old = "active" THEN @ ELSE "rejected"]
       /\ audit' = Append(audit, [tenant |-> i, old |-> old, new |-> "rejected"])
       /\ Done(h)
       /\ UNCHANGED history

Reject(h) == Decide(h, "reject", "rejected")

-----------------------------------------------------------------------------
\* A handler dies before its commit: nothing is left of it.
Fail(h) == Quit(h) /\ UNCHANGED <<tenants, audit, history>>

Register(h) ==
    \/ \E o \in Owner, base \in BaseSlug : CheckOwner(h, o, base)
    \/ TrySlug(h) \/ InsertTenant(h)

ReviewTenant(h) ==
    \/ \E i \in 1 .. MaxTenants, stage \in {"approve", "reject"} : StartReview(h, i, stage)
    \/ Approve(h) \/ Reject(h)

Next == \E h \in Handler : Register(h) \/ ReviewTenant(h) \/ Fail(h)

Spec == Init /\ [][Next]_vars

-----------------------------------------------------------------------------
(* What holds however the handlers interleave *)

\* An owner has one tenant, unless two registrations of that owner were in
\* flight together: rejected tenants count, and no other owner's
\* registration, review or failure opens the way to a second.
OneTenantPerOwner == \A o \in Owner \ doubled : Cardinality(TenantsOf(o)) <= 1

\* A slug gets a number only when the plain one and all lower numbers are
\* those of earlier tenants, also where one business's plain slug is another's
\* numbered one.
SlugsInOrder ==
    \A i \in 1 .. Len(tenants) : \A n \in 0 .. MaxTenants :
        tenants[i].slug = Candidate(tenants[i].base, n) =>
            \A k \in 0 .. n - 1 : \E j \in 1 .. i - 1 :
                tenants[j].slug = Candidate(tenants[i].base, k)

\* The first k entries of the log leave tenant i in this status.
Leaves(log, i, k, status) ==
    \/ /\ \A m \in 1 .. k : log[m].tenant # i
       /\ status = "pending"
    \/ \E m \in 1 .. k :
         /\ log[m].tenant = i /\ log[m].new = status
         /\ \A l \in m + 1 .. k : log[l].tenant # i

\* The audit log of a tenant that no two reviews worked on together is its
\* history: each entry begins where the one before ended, and the last tells
\* the status that the tenant has.
AuditTellsStatus ==
    \A i \in (1 .. Len(tenants)) \ overlapped :
        /\ Leaves(audit, i, Len(audit), tenants[i].status)
        /\ \A k \in 1 .. Len(audit) :
             audit[k].tenant = i => Leaves(audit, i, k - 1, audit[k].old)

=============================================================================
