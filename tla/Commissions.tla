---------------------------- MODULE Commissions ----------------------------
(***************************************************************************)
(* Commission configurations of user-service: an admin creates and changes *)
(* them, and other services ask which one holds for a tenant today         *)
(* (domains/commissions).                                                  *)
(*                                                                         *)
(* The answer takes up to three queries, each of which sees what has been  *)
(* committed when it is made; the day is read before the first.            *)
(***************************************************************************)
EXTENDS Handlers, Naturals, Sequences

CONSTANTS
    Tenant_id,      \* tenants that are asked about
    TenantType,
    MaxConfigs,     \* bound: configurations ever created
    LastDay         \* bound: days are 1 .. LastDay

ASSUME CommissionsAssumption == MaxConfigs \in Nat /\ LastDay \in Nat \ {0}

VARIABLES
    configs,    \* commission_configs, in the order of insertion
    today

commissionVars == <<configs, today>>

-----------------------------------------------------------------------------
(* Types *)

Day == 1 .. LastDay

\* Whom a configuration is for.
Target ==
    [scope: {"tenant"}, of: Tenant_id]
        \union [scope: {"tenant_type"}, of: TenantType]
        \union [scope: {"platform"}, of: {"all"}]

\* to = 0: effective_to is NULL
Config == [target: Target, from: Day, to: Day \union {0}]

\* What a query returns: a row's number and the columns it was ordered by.
NoConfig == [row |-> 0, scope |-> "default", from |-> 0]

Answer ==
    {NoConfig}
        \union [row: 1 .. MaxConfigs, scope: {"tenant", "tenant_type", "platform"}, from: Day]

\* steady (history, read by no guard): the configurations in force for the
\* request when it began that nobody has changed since
ResolveTask ==
    [kind: {"resolve"}, tenant: Tenant_id, types: SUBSET TenantType, day: Day,
     steady: SUBSET (1 .. MaxConfigs), answer: Answer]

\* from, to: the columns that the request gives and that differ from those
\* read, 0 for one that stays
ChangeTask ==
    [kind: {"change"}, row: 1 .. MaxConfigs, from: Day \union {0}, to: Day \union {0}]

Resolving == {"tenant", "tenant_type", "platform", "resolved"}

CommissionsTypeOK ==
    /\ configs \in Seq(Config) /\ Len(configs) <= MaxConfigs
    /\ today \in Day
    /\ \A h \in Handler :
         /\ pc[h] \in Resolving => task[h] \in ResolveTask
         /\ pc[h] = "change" => task[h] \in ChangeTask

CommissionsInit == configs = <<>> /\ today = 1

-----------------------------------------------------------------------------
(* Helpers *)

\* Mutant: a configuration ends the day before its effective_to.
InForceBefore(c, day) == c.from <= day /\ (c.to = 0 \/ c.to > day)

\* active_filter
InForce(c, day) == c.from <= day /\ (c.to = 0 \/ c.to >= day)

\* The configurations of one scope that are in force for a request.
Active(t, scope) ==
    {i \in 1 .. Len(configs) :
        /\ InForce(configs[i], t.day)
        /\ configs[i].target.scope = scope
        /\ CASE scope = "tenant" -> configs[i].target.of = t.tenant
             [] scope = "tenant_type" -> configs[i].target.of \in t.types
             [] scope = "platform" -> TRUE}

\* A configuration is for a request, whatever the order of the queries.
Meant(c, t) ==
    /\ t.day \in c.from .. (IF c.to = 0 THEN LastDay ELSE c.to)
    /\ c.target \in {[scope |-> "tenant", of |-> t.tenant], [scope |-> "platform", of |-> "all"]}
                       \union [scope: {"tenant_type"}, of: t.types]

\* A row is about to be changed under the requests that are looking.
Unsettle(i, h) ==
    [g \in Handler |->
        CASE g = h -> Nothing
          [] g # h /\ pc[g] \in Resolving -> [task[g] EXCEPT !.steady = @ \ {i}]
          [] OTHER -> task[g]]

-----------------------------------------------------------------------------
(* GET /internal/v1/commissions *)

\* types: the tenant_type of the request, if it gives one
StartResolve(h, tenant, types) ==
    LET t == [tenant |-> tenant, types |-> types, day |-> today]
    IN /\ Start(h, "tenant",
                [kind |-> "resolve", tenant |-> tenant, types |-> types, day |-> today,
                 steady |-> {i \in 1 .. Len(configs) : Meant(configs[i], t)},
                 answer |-> NoConfig])
       /\ UNCHANGED commissionVars

\* One query: the configuration of the scope that began last, or none.
Query(h, scope, next) ==
    LET found == Active(task[h], scope)
    IN /\ pc[h] = scope
       /\ \/ /\ found = {}
             /\ Goto(h, next)
             /\ UNCHANGED task
          \/ \E i \in found :
               /\ \A j \in found : configs[j].from <= configs[i].from
               /\ Goto(h, "resolved")
               /\ task' = [task EXCEPT ![h].answer =
                             [row |-> i, scope |-> scope, from |-> configs[i].from]]
       /\ UNCHANGED commissionVars

QueryTenant(h) ==
    Query(h, "tenant", IF task[h].types = {} THEN "platform" ELSE "tenant_type")

QueryTenantType(h) == Query(h, "tenant_type", "platform")

QueryPlatform(h) == Query(h, "platform", "resolved")

\* The answer, the 10% of a platform that has configured nothing if none.
Answered(h) == pc[h] = "resolved" /\ Done(h) /\ UNCHANGED commissionVars

-----------------------------------------------------------------------------
(* POST and PATCH /admin/commissions *)

CreateConfig(c) ==
    /\ Len(configs) < MaxConfigs
    /\ configs' = Append(configs, c)
    /\ UNCHANGED <<pc, task, today>>

ReadConfig(h, i, from, to) ==
    LET Differs(given, read) == IF given = read THEN 0 ELSE given
    IN /\ i \in 1 .. Len(configs)
       /\ Start(h, "change", [kind |-> "change", row |-> i,
                              from |-> Differs(from, configs[i].from),
                              to |-> Differs(to, configs[i].to)])
       /\ UNCHANGED commissionVars

\* An effective_to can be moved and never be taken back.
UpdateConfig(h) ==
    LET t == task[h]
        Over(new, old) == IF new = 0 THEN old ELSE new
    IN /\ pc[h] = "change"
       /\ configs' = [configs EXCEPT ![t.row].from = Over(t.from, @),
                                     ![t.row].to = Over(t.to, @)]
       /\ Goto(h, "idle")
       /\ task' = Unsettle(t.row, h)
       /\ UNCHANGED today

Midnight == today < LastDay /\ today' = today + 1 /\ UNCHANGED <<configs, pc, task>>

-----------------------------------------------------------------------------
CommissionsStep ==
    \/ Midnight
    \/ \E c \in Config : CreateConfig(c)
    \/ \E h \in Handler :
         \/ \E tenant \in Tenant_id, types \in {{}} \union {{y} : y \in TenantType} :
              StartResolve(h, tenant, types)
         \/ QueryTenant(h) \/ QueryTenantType(h) \/ QueryPlatform(h) \/ Answered(h)
         \/ \E i \in 1 .. MaxConfigs, from, to \in Day \union {0} : ReadConfig(h, i, from, to)
         \/ UpdateConfig(h)

-----------------------------------------------------------------------------
(* What holds however the handlers interleave *)

Rank(scope) ==
    CASE scope = "tenant" -> 1 [] scope = "tenant_type" -> 2
      [] scope = "platform" -> 3 [] scope = "default" -> 4

\* A configuration in force for a tenant on the day the request came, and left
\* alone while its queries ran, is never passed over for one of a wider scope,
\* for one of its own scope that began earlier or for the default, whatever
\* is created or changed between the queries and though midnight passes.
CommissionResolved ==
    \A h \in Handler : pc[h] = "resolved" =>
        \A i \in task[h].steady :
            \/ Rank(task[h].answer.scope) < Rank(configs[i].target.scope)
            \/ /\ task[h].answer.scope = configs[i].target.scope
               /\ task[h].answer.from >= configs[i].from

=============================================================================
